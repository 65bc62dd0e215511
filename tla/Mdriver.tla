------------------------------- MODULE Mdriver -------------------------------
(***************************************************************************)
(* The malloc driver (ASSN/ASSN6/mdriver.c): it replays traces of requests *)
(* against the malloc package, first to see whether the package is correct *)
(* (with a list of the payloads handed out), then for its utilization, and *)
(* then several times for its speed.  Each replay resets the break but not *)
(* the memory, so that it runs over what the replay before left there.     *)
(*                                                                         *)
(* The package is that of MmHeap; as in Mm, a checked replay goes no       *)
(* further than the first request that leaves the heap unsound.            *)
(***************************************************************************)
EXTENDS MmHeap, SequencesExt

CONSTANTS
    TraceLists,                     \* what the command line may name: sequences of traces
    Repeats                         \* how often fsecs has a trace replayed

VARIABLES
    heap,           \* memory and break
    tracefiles,     \* the traces to evaluate: [num_ids, num_ops, ops]
    phase,          \* which function main is in, or how the program ended
    i,              \* the trace
    op,             \* the request of the trace that is next
    blocks,         \* trace->blocks and trace->block_sizes, by index
    block_sizes,
    ranges,         \* the list of payloads, the last one added first
    returned,       \* the pointers of the first replay (history)
    sizes,          \* [total_size, max_total_size] of eval_mm_util
    repeat,         \* rounds of eval_mm_speed that are over
    stats,          \* [valid, util] for each trace evaluated
    errors

mdriver_vars ==
    <<heap, tracefiles, phase, i, op, blocks, block_sizes, ranges, returned, sizes, repeat,
      stats, errors>>

trace == tracefiles[i]
ops == trace.ops
request == ops[op]
\* Both arrays have num_ids elements; none is read before it is written.
NoBlocks == [id \in 0 .. (trace.num_ids - 1) |-> 0]
NoSizes == [total_size |-> 0, max_total_size |-> 0]

\* The last of the first n requests of t for an index, and whether the index is in use
\* after them.
LastOf(t, n, id) == Max({0} \cup {k \in 1 .. n : t[k].index = id})
InUse(t, n, id) == LastOf(t, n, id) # 0 /\ t[LastOf(t, n, id)].type # "f"

LastUse(id) == LastOf(ops, op - 1, id)
LivePayloads ==
    IF phase \notin {"valid", "util", "speed"} THEN {}
    ELSE {[ptr |-> blocks[id], size |-> ops[LastUse(id)].size] :
            id \in {id \in DOMAIN blocks : InUse(ops, op - 1, id)}}

\* What a trace may ask for: an index is allocated before it is used, and again only after
\* it was freed, so that the package gets back only pointers that it gave.
Request == [type : {"a", "r", "f"}, index : Nat, size : Nat]
LegalTrace(t) ==
    /\ t \in Seq(Request)
    /\ \A k \in DOMAIN t :
        /\ t[k].type # "f" => t[k].size > 0
        /\ t[k].type = "a" <=> ~InUse(t, k - 1, t[k].index)
Tracefile == [num_ids : Nat, num_ops : Nat, ops : Seq(Request)]
LegalTraces ==
    \A list \in TraceLists :
        /\ list \in Seq(Tracefile) /\ list # <<>>
        /\ \A k \in DOMAIN list : LegalTrace(list[k].ops)

-----------------------------------------------------------------------------
(* read_trace and the range list *)

\* The two assertions at the end of read_trace; a free does not count as a use
\* of its index.
MaxIndex(t) == Max({0} \cup {o.index : o \in {o \in ToSet(t.ops) : o.type # "f"}})
Readable(t) == MaxIndex(t) = t.num_ids - 1 /\ t.num_ops = Len(t.ops)

\* Variant of the overlap test: only the start of the new payload is looked at.
StartsInside(lo, hi, p) == lo >= p.lo /\ lo <= p.hi
\* The overlap test of add_range: an end of the new payload lies in an old one.
Hits(lo, hi, p) == (lo >= p.lo /\ lo <= p.hi) \/ (hi >= p.lo /\ hi <= p.hi)

RangeOf(bp, size) == [lo |-> ALIGNMENT * bp, hi |-> ALIGNMENT * bp + size - 1]
InHeap(h, r) == r.lo >= 0 /\ r.hi < ALIGNMENT * h.brk

\* What add_range accepts.
Addable(h, list, r) == InHeap(h, r) /\ \A p \in ToSet(list) : ~Hits(r.lo, r.hi, p)

remove_range(list, bp) ==
    LET found == {k \in DOMAIN list : list[k].lo = ALIGNMENT * bp}
    IN  IF found = {} THEN list ELSE RemoveAt(list, Min(found))

\* Variant of clear_ranges: the list of the trace before is kept.
KeepRanges(list) == list
clear_ranges(list) == <<>>

-----------------------------------------------------------------------------
(* One request *)

\* What the package does with a request, on the heap as it is.
Call(o) ==
    CASE o.type = "a" -> mm_malloc(heap, o.size)
      [] o.type = "r" -> mm_realloc(heap, blocks[o.index], o.size)
      [] o.type = "f" -> [heap |-> mm_free(heap, blocks[o.index]), bp |-> blocks[o.index]]

\* mm_realloc copies to the NULL of mm_malloc.
Crashes(o) ==
    /\ o.type = "r"
    /\ Moves(heap, blocks[o.index], BodySize(o.size))
    /\ MoveTo(heap, BodySize(o.size)).bp = NULL

\* The words of a payload are what the client wrote: the package has none there.
Untouched(h, bp, size) ==
    \A u \in bp .. (bp + (size - 1) \div ALIGNMENT) :
        /\ h.ftr[u] = NoFooter
        /\ u > bp /\ ALIGNMENT * u - 4 < ALIGNMENT * bp + size => h.hdr[u] = NoHeader

\* A payload is filled with the low byte of its index.  It is read back as char, which has
\* a sign, and compared with the byte, which has none.
LowByte(index) == index % 256
SignedChar(byte) == IF byte >= 128 THEN byte - 256 ELSE byte
ReadsBack(index) == SignedChar(LowByte(index)) = LowByte(index)

\* A payload that moves is copied from where it was; at least one byte of it is compared.
Preserved(o, new) ==
    LET old == blocks[o.index]
        size == IF o.size < block_sizes[o.index] THEN o.size ELSE block_sizes[o.index]
    IN  ReadsBack(o.index) /\ Untouched(IF new.bp = old THEN new.heap ELSE heap, old, size)

\* The list against which the payload of o is tested.
RangesBefore(o) == IF o.type = "a" THEN ranges ELSE remove_range(ranges, blocks[o.index])

Acceptable(o, new) ==
    /\ new.bp # NULL
    /\ o.type # "f" => Addable(new.heap, RangesBefore(o), RangeOf(new.bp, o.size))
    /\ o.type = "r" => Preserved(o, new)

Remember(o, new) ==
    /\ blocks' = [blocks EXCEPT ![o.index] = new.bp]
    /\ block_sizes' = [block_sizes EXCEPT ![o.index] = IF o.type = "f" THEN @ ELSE o.size]
    /\ op' = op + 1

\* mem_reset_brk and mm_init; the loop over the requests starts.
Reset ==
    /\ heap' = EmptyHeap(heap)
    /\ op' = 1

\* The replays after the first repeat what was sound in the first.
Due(p) == phase = p /\ op <= Len(ops) /\ (p = "valid" => SoundHeap(heap, LivePayloads))
Over(p) == phase = p /\ op > Len(ops)

-----------------------------------------------------------------------------
MdriverInit ==
    /\ heap = Zeroed
    /\ tracefiles = <<>> /\ phase = "start" /\ i = 1 /\ op = 1
    /\ blocks = <<>> /\ block_sizes = <<>>
    /\ ranges = <<>> /\ returned = <<>>
    /\ sizes = NoSizes /\ repeat = 0 /\ stats = <<>> /\ errors = 0

StartDriver ==
    /\ phase = "start"
    /\ tracefiles' \in TraceLists
    /\ phase' = "read"
    /\ UNCHANGED <<heap, i, op, blocks, block_sizes, ranges, returned, sizes, repeat, stats, errors>>

\* read_trace aborts when an assertion fails; eval_mm_valid starts.
ReadTrace ==
    /\ phase = "read"
    /\ phase' = IF Readable(trace) THEN "valid" ELSE "abort"
    /\ Reset
    /\ blocks' = NoBlocks /\ block_sizes' = NoBlocks
    /\ ranges' = clear_ranges(ranges)
    /\ returned' = <<>>
    /\ UNCHANGED <<tracefiles, i, sizes, repeat, stats, errors>>

\* The program dies in the package: memmove to NULL.
Crash ==
    /\ \E p \in {"valid", "util", "speed"} : Due(p)
    /\ Crashes(request)
    /\ phase' = "crashed"
    /\ UNCHANGED <<heap, tracefiles, i, op, blocks, block_sizes, ranges, returned, sizes,
                   repeat, stats, errors>>

\* A request of eval_mm_valid whose result is accepted: the payload is recorded
\* and filled.
ValidRequest ==
    LET o == request
        new == Call(o)
    IN  /\ Due("valid") /\ ~Crashes(o)
        /\ Acceptable(o, new)
        /\ heap' = IF o.type = "f" THEN new.heap ELSE Fill(new.heap, new.bp, o.size)
        /\ ranges' = IF o.type = "f" THEN RangesBefore(o)
                     ELSE <<RangeOf(new.bp, o.size)>> \o RangesBefore(o)
        /\ returned' = Append(returned, new.bp)
        /\ Remember(o, new)
        /\ UNCHANGED <<tracefiles, phase, i, sizes, repeat, stats, errors>>

\* malloc_error: the trace is invalid and the next one is evaluated.
InvalidRequest ==
    /\ Due("valid") /\ ~Crashes(request)
    /\ ~Acceptable(request, Call(request))
    /\ heap' = Call(request).heap
    /\ errors' = errors + 1
    /\ stats' = Append(stats, [valid |-> FALSE, max_total_size |-> 0, heapsize |-> 0])
    /\ phase' = "next"
    /\ UNCHANGED <<tracefiles, i, op, blocks, block_sizes, ranges, returned, sizes, repeat>>

\* eval_mm_valid returns 1 and eval_mm_util starts.
Valid ==
    /\ Over("valid")
    /\ phase' = "util"
    /\ Reset
    /\ sizes' = NoSizes
    /\ UNCHANGED <<tracefiles, i, blocks, block_sizes, ranges, returned, repeat, stats, errors>>

\* Variant of the sum that eval_mm_util keeps: the old size of a block stays in it.
NeverReplaced(o) == IF o.type = "f" THEN 0 - block_sizes[o.index] ELSE o.size
SizeChange(o) ==
    CASE o.type = "a" -> o.size
      [] o.type = "r" -> o.size - block_sizes[o.index]
      [] o.type = "f" -> 0 - block_sizes[o.index]

\* app_error ends the program when a replay gets NULL.
AppError(new) == new.bp = NULL

UtilRequest ==
    LET o == request
        new == Call(o)
        total == sizes.total_size + SizeChange(o)
    IN  /\ Due("util") /\ ~Crashes(o)
        /\ phase' = IF AppError(new) THEN "app_error" ELSE phase
        /\ heap' = new.heap
        /\ Remember(o, new)
        /\ sizes' = [total_size |-> total, max_total_size |-> Max({total, sizes.max_total_size})]
        /\ UNCHANGED <<tracefiles, i, ranges, returned, repeat, stats, errors>>

\* The utilization is known and fsecs calls eval_mm_speed for the first time.
Util ==
    /\ Over("util")
    /\ phase' = "speed"
    /\ Reset
    /\ repeat' = 0
    /\ stats' = Append(stats, [valid |-> TRUE, max_total_size |-> sizes.max_total_size,
                               heapsize |-> ALIGNMENT * heap.brk])
    /\ UNCHANGED <<tracefiles, i, blocks, block_sizes, ranges, returned, sizes, errors>>

\* eval_mm_speed does not keep the sizes.
SpeedRequest ==
    LET o == request
        new == Call(o)
    IN  /\ Due("speed") /\ ~Crashes(o)
        /\ phase' = IF AppError(new) THEN "app_error" ELSE phase
        /\ heap' = new.heap
        /\ blocks' = [blocks EXCEPT ![o.index] = new.bp]
        /\ op' = op + 1
        /\ UNCHANGED <<tracefiles, i, block_sizes, ranges, returned, sizes, repeat, stats, errors>>

\* The loop of ftimer_gettod.
Speed ==
    /\ Over("speed")
    /\ repeat' = repeat + 1
    /\ phase' = IF repeat + 1 = Repeats THEN "next" ELSE "speed"
    /\ Reset
    /\ UNCHANGED <<tracefiles, i, blocks, block_sizes, ranges, returned, sizes, stats, errors>>

\* The loop of main over the traces; after the last one the results are printed.
NextTrace ==
    /\ phase = "next"
    /\ phase' = IF i = Len(tracefiles) THEN "results" ELSE "read"
    /\ i' = IF i = Len(tracefiles) THEN i ELSE i + 1
    /\ UNCHANGED <<heap, tracefiles, op, blocks, block_sizes, ranges, returned, sizes,
                   repeat, stats, errors>>

MdriverNext ==
    \/ StartDriver \/ ReadTrace \/ Crash \/ ValidRequest \/ InvalidRequest \/ Valid
    \/ UtilRequest \/ Util \/ SpeedRequest \/ Speed \/ NextTrace

MdriverSpec == MdriverInit /\ [][MdriverNext]_mdriver_vars

-----------------------------------------------------------------------------
(* Properties *)

\* The list that eval_mm_valid keeps is that of the payloads in use, and two of
\* them overlap only where the newer one contains the older: the one overlap that
\* add_range does not see (mdriver.c, lines 407-416).
RangesAreLive ==
    phase = "valid" =>
        /\ ToSet(ranges) = {RangeOf(p.ptr, p.size) : p \in LivePayloads}
        /\ \A new, old \in DOMAIN ranges : new < old =>
            \/ ranges[new].hi < ranges[old].lo \/ ranges[old].hi < ranges[new].lo
            \/ ranges[new].lo < ranges[old].lo /\ ranges[old].hi < ranges[new].hi

\* A trace is found invalid only because the package ran out of memory or handed
\* out a payload over another one, whatever the traces before it left in memory
\* and in the list of ranges, or because the payload of an index whose low byte has the
\* sign bit was reallocated, which no package passes (mdriver.c, lines 583 and 656).
NoFalseAlarm ==
    [][InvalidRequest =>
        \/ Call(request).bp = NULL
        \/ request.type = "r" /\ LowByte(request.index) >= 128
        \/ \E p \in LivePayloads \ {[ptr |-> blocks[request.index], size |-> block_sizes[request.index]]} :
             LET r == RangeOf(Call(request).bp, request.size) IN
             /\ r.lo < ALIGNMENT * p.ptr + p.size
             /\ ALIGNMENT * p.ptr <= r.hi]_mdriver_vars

\* The replays for utilization and speed get the pointers that the checked replay
\* got, although they run over memory that the replays before have written: a
\* trace that was found valid neither crashes nor ends in app_error.
ReplayAgrees ==
    /\ phase \in {"util", "speed"} =>
        \A k \in 1 .. (op - 1) :
            LastUse(ops[k].index) = k => blocks[ops[k].index] = returned[k]
    /\ phase \in {"app_error", "crashed"} => Len(returned) < Len(ops)

\* The utilization of a sound package is at most 1.
UtilizationBounded ==
    \A k \in DOMAIN stats : stats[k].max_total_size <= stats[k].heapsize
=============================================================================
