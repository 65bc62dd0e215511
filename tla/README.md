# Verification of the CSED211 programs

The repository holds the assignments of a systems programming course. Its
programs with logic of their own are the tiny shell `tsh` (ASSN5), the malloc
package and the driver that tests it (ASSN6), the cache simulator `csim` and the
matrix transposition with its test program (ASSN4), the data lab puzzles and
their test program `btest` (ASSN1), the lab shell `labsh` (LAB10) and a first and
best fit exercise (LAB11). This directory models them in TLA+, checks them with
TLC and proves what matters most with TLAPS.

## Inventory

| Component | State | Operations | What is hard |
|---|---|---|---|
| tsh: job list (`tsh.c`) | `jobs[MAXJOBS]`, `nextjid` | `addjob`, `deletejob`, lookups, `fgpid`, `maxjid` | reuse of slots and job IDs, a full list |
| tsh: read/eval loop, `fg`/`bg`, `waitfg` | locals of `main`, signal mask | `eval`, `do_bgfg`, `waitfg`, `builtin_cmd` | interrupted anywhere by three handlers that change the list |
| tsh: handlers | stack of active handlers | `sigchld_handler`, `sigint_handler`, `sigtstp_handler`, `sigquit_handler` | one pending SIGCHLD for many children, nesting, stale PIDs |
| tsh: command line parser; lab shell (`labsh.c`) | the line read, `argv`, the text still unread | `fgets`, `parseline`, `eval` of labsh | lines longer than the buffer, no newline at the end, quotes, room in `argv` |
| malloc package (`mm.c`, `memlib.c`) | the heap: boundary tags, break, `current_block` | `mm_malloc`, `mm_free`, `mm_realloc` | long sequences of legal calls, in-place growth, tags, running out of memory |
| malloc driver (`mdriver.c`) | range list, trace, running sums | `read_trace`, `add_range`, `remove_range`, `eval_mm_*` | the checker itself may miss an overlap or blame a sound package; replays over used memory |
| timers (`clock.c`, `fcyc.c`) | cycle counter, calibration, the best samples | `start_counter`, `get_counter`, `callibrate`, `fcyc` | counter words that wrap, samples corrected below zero, ending |
| cache simulator (`csim.c`) | sets of blocks, `LRU`, three counters | `cacheAccess`, `simulate` | replacement order, the counters over a whole trace |
| matrix transposition (`trans.c`) | A, B, eight values held in registers | `transpose_submit`, `trans` | dimensions that are no multiple of the block |
| cache lab support (`test-trans.c`, `tracegen.c`, `cachelab.c`) | registered functions and results | `eval_perf`, `validate`, the alarm | evaluation after a failed function, time-out |
| data lab puzzles (`bits.c`, `tests.c`) | none | eight puzzles, eight references | word arithmetic at its boundaries |
| data lab test tools (`btest.c`, `decl.c`) | timer, `envbuf`, signal mask, values | `run_tests`, `test_function`, `gen_vals`, `timeout_handler` | a jump out of a signal handler, a timer nobody cancels |
| search exercise (`lab11.c`) | what is left of each block | `first`, `best` | remainders that change with every process |
| `fshow.c`, `ishow.c`, fork demonstrations, bomb and attack files | none | printing, constants | not modelled |

Assignments do not call each other. Within tsh, `main` and the handlers share
the job list and communicate with the children through the kernel's signals and
`waitpid`; `main` gets its commands from the parser. In the malloc assignment the
driver calls the package, which calls `mem_sbrk`; the driver measures with the
timers. `csim` is compared by `test-csim` with the reference simulator `csim-ref`,
on which `test-trans` also replays the accesses of the transpositions. `btest`
calls puzzles and references in turn.

What makes each one correct:

* tsh: the list agrees with the processes (no entry for a process that is gone,
  no unlisted child while there is room), at most one foreground job and that is
  the one `waitfg` waits for, ctrl-c and ctrl-z reach the foreground job and no
  other, every dead child is reaped, the prompt comes back.
* parser: the arguments of a command are the words that were typed.
* malloc: payloads are aligned, inside the heap and disjoint; the boundary tags
  tile the heap; free neighbours are merged; a fit that exists is found.
* driver: its list is that of the payloads in use; it finds fault only with a
  package at fault; its later replays do what the checked one did.
* timers: the best samples are kept, cycles are counted exactly, they end.
* csim: a block is cached once, the counters agree with the blocks, and the
  counts are those of an LRU cache.
* transposition: B is the transpose of A for every dimension, and the misses are
  those the report gives.
* data lab: a solution agrees with its reference on every argument; `btest`
  ends, blames a puzzle only with cause, and stays within its arrays.
* search exercise: blocks are not over-committed and the policies hold.

## Modules

| Module | Models | Role |
|---|---|---|
| `Search` | loops that stop at the first match | helper |
| `JobList` | the job list | state and operators used by the next two |
| `JobTable` | the job list under any additions and deletions | specification |
| `Tsh` | the shell over processes and signals | specification, uses `JobList` |
| `JobControl` | what job control promises a user | abstract specification of `Tsh` |
| `Parseline` | what tsh and labsh make of the text they read; labsh's children | specification |
| `Allocator` | what the driver demands of an allocator | abstract specification of `Mm` |
| `MmHeap` | the heap over `memlib`, each function of the malloc package, and what a sound heap is | operators used by the next two |
| `Mm` | the malloc package under any client | specification |
| `Mdriver` | the malloc driver, calling the functions of `MmHeap` | composition |
| `Fcyc` | the cycle counter and the K-best timer | specification |
| `Csim` | the cache simulator | specification |
| `Lru` | an LRU cache (`csim-ref`) | reference for `Csim`, part of `TestTrans` |
| `CsimLru` | `Csim` and `Lru` on the same trace | composition |
| `Trans` | the transpositions as sequences of loads and stores | operators |
| `TestTrans` | test-trans, tracegen and the replay on `Lru` | composition |
| `WordFormat` | words and floats of any width | operators used by `Bits` and `Btest` |
| `Bits` | the puzzles and their references | operators |
| `Puzzles` | every puzzle called with every argument | specification |
| `Btest` | the test program of the data lab | specification; whether a puzzle passes is the constant `Passes`, which `MCLabs` takes from `Bits` |
| `Fit` | first and best fit | specification |
| `Labs` | the seven programs that run on their own, one at a time; extends `Mdriver`, `Fcyc`, `Fit`, `Btest` and `TestTrans`, and instantiates `Puzzles` and `Parseline` | composition for one run |
| `MCJobTable`, `MCTsh`, `MCMm`, `MCCsim`, `MCLabs` | | instances for TLC |
| `SearchProofs` | loops, divisions, recursive functions over naturals | lemmas for the others |
| `MmHeapProofs` | what each function of the package does to a sound heap | lemmas for the next two |
| `MmProofs`, `MdriverProofs` | the package under any client; the driver | proofs |
| `TshProofs`, `CsimProofs`, `LabProofs` (`Fcyc`, `Fit`, `Btest`), `TransProofs` | | proofs |

An operator whose comment begins with "Variant" is not part of a model: it is the
form a plausible mistake would give the definition after it, and the property
it belongs to is known to fail with it.

### tsh

The shell is one thread: `main` (variable `pc`, with its locals in `arg`) runs
only while no handler is active, and a handler (`hpc`, `hpid`) may be
interrupted by the handler of another signal, never by its own: `depth` is its
place on the stack. A step is the code between two accesses to something a
handler or the kernel shares: the lookup in `do_bgfg`, the read of `job->pid`,
the `kill` and the assignment of the state are four steps, because the SIGCHLD
handler may run between any two. `jobs` and `nextjid` are the C variables;
`deletejob` and the lookups are operators with the names of the functions and
happen in one step each.

`addjob` takes two steps. It runs with SIGINT and SIGCHLD blocked but not SIGTSTP,
for the mask of `eval` names SIGSTOP instead, so that the handler of SIGTSTP may call
`fgpid` between any two of its stores. `fgpid` reads `state` and `pid` only, and the one
point where what it sees differs from before and after is between the store of `pid`
(line 585, `addjobpid`) and that of `state` (line 586, `addjobstate`): the slot has the
new PID and the state that was left in it. The stores are taken in the order of the
source; in the opposite order a handler between them would find PID 0 and do nothing.

The other operations may be one step. `deletejob` is called by the handler of SIGCHLD
only, which no other writer interrupts; a handler that calls `fgpid` in the middle of
`clearjob` finds PID 0 first, and does then what it would do after the whole of it,
since there is no second listed foreground job (`ForegroundAwaited`). The same holds of a
handler that is itself interrupted between the two reads of `fgpid`: all that can change
meanwhile in the slot it has found in state FG is that the job is deleted, or stopped, in
which case the PID is that of the job that was in the foreground when its state was read.

The kernel is external. A process is `free`, `forked` (still in the shell's
process group), `grouped` (after `setpgid`), `running` (after `execve`),
`stopping` (stopped, not reported yet), `stopped` or `zombie`. `kill(-pid)`
fails for a group that does not exist. Other processes may end, stop and continue a
job. `waitpid` is called without WCONTINUED, so nobody tells the shell that a job was
continued (`ChildContinues`), and a stop that was not reported before never will be; the
history variable `resumed` remembers such a job until its next stop is reported. A
signal to a process that has not called
`execve` runs the handler it inherited and is lost. A change of a child's state
makes SIGCHLD pending, once; `waitpid` reports any child that has a status to
report. A SIGINT to a stopped process takes effect when it is continued
(`doomed`). PIDs are reused once reaped.

`exit` ends the shell wherever it is called; what happens to the children then
is not modelled, and the properties are about a shell that is alive.

### The parsers and labsh

A text is a sequence of characters, because what is at stake is which characters
end up in which argument; a property about formatting needs the format. `fgets`
and `feof` work on what is left of the text; `parseline` is one operator for
both shells, which differ in what they do with the last arguments (`&` in tsh, `>`
in labsh). labsh's `eval` adds a child and does not wait for it; the child opens its
file and becomes the program, with the terminal as its output when the file cannot be
opened, since nothing tests `fd`; it is gone when `execve` fails. More
arguments than `argv` holds overrun it: the shell then goes on or fails
(`EvalFails`), both are possible.

### malloc

Addresses and block sizes are counted in units of 8 bytes, requests in bytes.
`hdr[b]` is the header word of a block at unit `b` and `ftr[u]` the footer word
in unit `u`; a word keeps its value until the package overwrites it or the
client fills a payload over it (`Fill`), so stale tags inside payloads are
represented. Loops over `NEXT_BLKP` are recursive functions. The constants of
the code (`CHUNKSIZE` 4096, `PADDING` 128, `MAX_HEAP` 20 MB) are parameters.

`mm_realloc` can destroy the heap, and what the package does then depends on the
contents of payloads. `Next` therefore continues only from a sound state: the
first unsound state is reached and judged, nothing after it. `MallocSpec` has
no such guard: without `mm_realloc` the heap is always sound, and this is
what `mm_malloc` checks and `MmProofs` proves. The functions of the package are
operators of `MmHeap`, from a heap to a heap and a pointer; `Mm` has the client.

### The malloc driver

`Mdriver` calls the operators of `MmHeap` on its own variable `heap`, which the
replays reset (`mem_reset_brk`, `mm_init`) and do not clear. `phase` is the
function `main` is in: `eval_mm_valid`, `eval_mm_util`, or a repetition by
`fsecs` of `eval_mm_speed`. A request is one step. `add_range` has the overlap test
as the code has it; the comparison of the payload that `mm_realloc` must
preserve is done on the words the package may have written there, and on the byte they
are filled with: `newp[j]` is a `char`, which has a sign, and is compared with
`index & 0xFF`, which has none (`ReadsBack`). Only the
checked replay fills payloads. An index is any natural, and `blocks` and `block_sizes`
have an entry for each of the `num_ids` indices of the trace. The traces are those of `TraceLists`, which TLC finds
legal (`LegalTraces`): an index is allocated before it is resized or freed and again only
after it was freed, and no size is 0. An illegal trace hands the package pointers that
it never gave. A replay stops, like `Mm`, at the first request
that leaves the heap unsound, and the later replays start only when it did not.

### The timers

A call of the function to be timed, and a round of `callibrate`'s loop, take a
number of cycles and see a number of timer ticks; both are inputs. The counter is
read as two words and subtracted word by word. The difference is a natural; the code
returns it as a `double`, which holds it exactly below 2^53 cycles, a month at 3
GHz, and rounds from there on. `epsilon` is a fraction of two
naturals. `samples` remembers all samples for the properties.

### csim

The state is one record with the globals of the program. An address selects
set and tag by the arithmetic of the code. A line `L` or `S` of a trace is one
access, `M` two, and `I` is skipped. `CsimLru` runs the reference on the same
addresses; `first` remembers the set touched first. `Lru` keeps for every set which
blocks it holds and, as the relation `older`, which of two was used before the
other; the victim is the block that is older than all others. It has no counter and
no lines, so that nothing of `csim` is taken into its own reference.

### Transposition

`transpose_submit` and `trans` are operators that give the loads and stores of one
block or row in the order of the code; a store names the cell of A whose value
it writes. `TestTrans` executes them against `memory` (tracegen), compares with
`correctTrans`, and replays the same accesses on the cache of `eval_perf(5, 1, 5)`.
The trace file is a function of the program, so it is not stored: the accesses
are generated again (`Accesses`). `sigalrm_handler` may end it at any time. A loop
of the code is `For`, which concatenates what the body gives for each index.

### The data lab

A word is a natural below `2^WIDTH`; shifts, complements and sums are the
operations of C on it, signed where C's are. A float has `EXP` exponent bits. The
references for floats round to the nearest value in units of the smallest
denormal, as the hardware does for `test_float_*`. In `Btest` the stages of
`test_function` are separate steps, since SIGALRM may arrive between any two;
`envbuf` holds the frame and the mask that the last `sigsetjmp` saved, and a jump
into a frame that has returned leaves the model at the stage "lost". The random
values of `gen_vals` are left out: properties that hold without them are about
what is certain to be tested. The arithmetic of `gen_vals` is that of `int`: the
difference at line 198 may be less than any `int`, in which case it wraps or does not
(`wraps`, chosen for each argument), and the loop at line 199 does not end when the range
goes up to the greatest `int` (`GenValsOverruns`), or does if the compiler lets `i` grow
beyond it. `test_counts` is how many elements `gen_vals` writes; the model stops at the
stage "overrun" when there is no end to them. When it is `MAX_TEST_VALS + 1`, the last
value lands in the row of the next argument, or behind the array.

### First and best fit

`arraySize` and `processSize` are chosen by `Main`; `first` and `best` run over the
same sizes, a process a step. `LeftBefore[p]` is what the blocks had left when process
p came, computed from `allocation` alone and not from what the code keeps.

## Runs

| Run | Instance | Shows |
|---|---|---|
| `tsh_safety` | 2 processes, 2 slots, both user signals | the safety properties |
| `tsh_overflow` | 2 processes, 1 slot | the inductive invariant, with the safety properties in it, when the list is full |
| `tsh_live` | 2 processes, 2 slots, fairness, no ctrl-c or ctrl-z | refinement of `JobControl`; zombies are reaped, `waitfg` returns |
| `tsh_lost_track` | 2 processes, 1 slot, fairness | violation: a zombie is left when the list was full |
| `tsh_fgpid` | as `tsh_safety` | violation: `fgpid` returns 0 although a foreground job runs |
| `job_table` | 4 processes, 4 slots | violation: two jobs with one job ID |
| `mm_malloc` | 13 units, chunk 4, padding 1, sizes 1, 9, 33 | tags, coalescing, searches, refinement of `Allocator` |
| `mm_realloc` | 12 units, chunk 4, padding 1, sizes 1, 33 | the only two ways `mm_realloc` breaks the heap |
| `mm_overlap` | as `mm_realloc` | violation: two payloads overlap |
| `csim` | 2 sets of 2 lines, 7 accesses | counters, uniqueness, agreement with LRU |
| `csim_reference` | as `csim` | violation: the counts are not those of LRU |
| `labs` | below; some 95 000 states | what the seven other programs promise |

### The bounds

* tsh: two processes are enough for a foreground and a background job, a reused
  slot, a death next to a stop in one SIGCHLD, and a stale PID; processes are
  created without end because PIDs are reused. `JidBound` 2 stops new jobs while
  `nextjid` is above 2. With two slots that cuts off only the jobs which would follow a
  deletion that leaves a job with ID 2 on the list: slots and PIDs are reused before, and
  again once that job is deleted, but a job with ID 3 is never seen; no property of these
  runs is about the value of an ID, and the proofs have no such bound.
  A run of `tsh_safety` has 1.9 million distinct states, one of `tsh_overflow` 530 000.
  `job_table` needs four slots: with fewer the IDs of listed jobs stay distinct.
  With as many slots as processes the list never overflows, so `tsh_safety` and
  `tsh_live` say nothing of a full list; that is what `tsh_overflow` and
  `tsh_lost_track`, with one slot, are for.
* malloc: 13 units hold the prologue and several blocks, one extension by a
  chunk and a second one that fails. Request sizes give the smallest block, one that
  leaves a remainder too small to split, and one larger than a chunk. Every path
  of `mm_realloc` is taken within 12 units: in place, into the next block with
  and without extension, extension that fails, into the previous block, move,
  move without memory, tagged neighbours.
* csim: seven accesses fill a set, evict twice, and come back to an evicted
  block. Addresses cover both sets, four tags and two offsets in one block. The
  bound is far below 2^31, where the `int` counter would overflow.
* mdriver (in `labs`): the heap of `mm_malloc`; all legal traces of up to four
  requests over two indices (`MaxOps`), and longer ones chosen to reach what four
  requests cannot: a payload over another one, placed to be seen and not to be
  seen by `add_range`; a tag left in memory; a trace after an invalid one, and a
  wrong header; one with six indices in the order of `short1-bal.rep`, and one with 129
  indices in which those with the low bytes 127 and 128 are reallocated. Two repetitions are enough for a replay over a replay.
* timers: words of the counter with 4 values, so that the low word and the whole
  counter wrap; two samples kept out of at most three; two events to calibrate,
  with gaps below and above the threshold.
* data lab: words of 8 bits and floats of 4 exponent bits: every argument of every
  puzzle, rounding to even up and down, denormals, overflow of the exponent. The
  array of values holds 52, the number of values generated for a float of this
  width; ranges of 52, 53 and 54 values lie around the test in `gen_vals`, and others
  end at the greatest `int`, with 53 or 54 values and with two, or begin at the least. A
  time limit of 2 seconds lets a timer run out in the same puzzle or the next.
* transposition: the three graded sizes in full; 36 small ones around the block
  of 8, which have partial blocks in either dimension and more rows than columns
  or fewer; two that `main` refuses. `LUMP` is the number of accesses in one step.
* search exercise: three blocks and three processes with sizes 1 to 3 have ties,
  refusals and remainders that decide what comes later.
* parsers: a buffer of 12 characters and 4 arguments: lines that just fit, that
  are cut in two, and with one argument too many; each first line is followed by a
  second one, with or without its newline.

`CHECK_DEADLOCK FALSE` is set where programs end or the bounds stop new work;
`mm_malloc` has neither and is checked for deadlock.

### Fairness

`tsh_live` assumes strong fairness of `main` between commands, of each handler,
and of the delivery of each signal. Strong, because a step of `main` is disabled
whenever a handler runs, and signals arrive at a finite rate: code that can run
again and again runs. No fairness is assumed of the user (commands, ctrl-c) or
of the children (a job may run for ever or never exit). One thing is assumed of other
processes, that they continue a job only finitely often (`FinitelyOftenContinued`):
`waitpid` may choose any child, so if one were stopped and continued for ever, the loop
of the SIGCHLD handler could report it again and again and never come to another.

`labs` assumes for the timer that its loops go on, and that a tick of the clock
falls into a round of `callibrate` again and again, which is what the hardware
timer does; for `btest` that it comes to its next stage unless it is in a
solution that hangs, that time passes, and that a pending signal that is not
blocked is delivered. It assumes nothing of when.

## What is proved

TLAPS proves, for every number of slots, every set of processes and every
`UserSignals`:

* `InductiveInvariant`: `Spec => []IInv`. `NoStaleEntry`, `ForegroundAwaited`,
  `ShownStoppedIsStopped` and `ForwardedToForegroundOnly` are not inductive by
  themselves: they need that a PID is listed at most once, that SIGCHLD stays
  blocked and its handler out between `fork` and `addjob` (`EvalOK`), what each
  handler holds (`HandlersOK`), that the slot `do_bgfg` or `waitfg`
  remembers is still its job's or was cleared (`HeldSlotOK`), and that only the slot
  between the two steps of `addjob` has a PID and no job ID (`EntriesOK`). The proof has
  one lemma per action.
* `TypeCorrect`, `NoStaleEntryHolds`, `ForegroundAwaitedHolds`,
  `ShownStoppedIsStoppedHolds`, `ForwardedToForegroundOnlyHolds`: consequences. The
  last two have exceptions, a job in `resumed` and a ctrl-z in the middle of `addjob`,
  which TLC reaches: without them both properties are violated.
* `EveryChildListedHolds`, under `RoomForAll`, as many slots as processes: with a
  process unlisted the list has a free slot, since no PID is on it twice, so
  `addjob` cannot fail; and a child that is listed leaves the list only with its
  death. Without `RoomForAll` it is false (`tsh_lost_track`).
* `TshImplementsJobControl`: `Spec => JobControlSpec`, from `IInv`: each action maps to
  a step of `JobControl` or a stutter.

For heaps of every size, every `CHUNKSIZE`, `PADDING` and set of request sizes,
and every client of `mm_malloc` and `mm_free` (`MallocSpec`):

* the invariant `MmInv` of `MmProofs`, with the lemmas about the functions in
  `MmHeapProofs`. Tiling alone is not inductive. `MmInv` says
  that the blocks form a tiling from prologue to epilogue with the footer of each
  repeating its header, that the search starts at a block, and that the allocated
  blocks are the payloads in use with room for what was asked (`SoundAs`); and that no
  two free blocks are neighbours and no header carries a tag (`Neat`). The walk over `NEXT_BLKP` is a recursive
  function; `BlocksUnfold` shows that it exists and is the least set closed under
  the step, after which the lemmas argue about a set that tiles the heap
  and never about recursion. There is one lemma for what each operation does to
  a tiling: `CoalesceKeeps`, `ExtendHeapKeeps`, `FindFitFits`, `PlaceKeeps`,
  `FillKeeps`, `MmMallocKeeps`, `MmFreeKeeps`.
* `MallocTypeOK`, `MallocTiled`, `MallocCoalesced`, `MallocAllocatedIsLive`,
  `MallocCurrentBlock`, `MallocFindsAny`: consequences; the last one needs also
  that the two searches of `find_fit` cover the list between them.
* `MallocImplementsAllocator`: `MallocSpec => AllocatorSpec`: two blocks of a tiling
  are apart, so payloads are disjoint; a handed out block was free.

For the same heaps and for clients that call `mm_realloc` too (`Spec`):

* the invariant `ReallocInv`, which holds also after the call that destroys the list of
  blocks: every word is a tag of the right form, the prologue is in place,
  `current_block` lies before the break, and no two payloads have one pointer. It is what
  a sound state needs beside `Sound` to be a tiling (`SoundIsTiling`): a walk over
  `NEXT_BLKP` visits blocks in the order of their addresses (`WalkIsInOrder`), and the
  last one can only end at the epilogue. A sound heap need not be `Neat`: tags are set
  and keep free blocks apart, so the lemmas about each operation keep `SoundAs` without
  `Neat`, and `Neat` only where they find it.
* `ReallocSpoilsInTwoWays`: `Spec => ReallocKeepsSound`. There is one lemma for each
  branch of `mm_realloc`: into the free blocks that follow (`RecycleRun`,
  `ResizedKeeps`), with new heap behind them (`GrowAtBreak`, and `GrowElsewhere` for
  the case that destroys the list), into the block before (`TakesPrevKeeps`), and to
  another place (`MovesKeeps`). `MallocAndFreeKeepSound`: the other two operations
  destroy no sound heap, tagged or not.
* `SoundPayloadsDisjoint`: payloads overlap in no sound state, so that the violation of
  `mm_overlap` needs one of those two ways first. `ReallocTypeOK`: the types hold in
  every state.

For every list of legal traces, with any indices and any number of them, every number of
`Repeats` and heaps of every size (`MdriverSpec`):

* `DriverInvariant`: `MdriverSpec => []DriverInv`. What a replay for utilization or speed
  gets depends on memory that the replays before it wrote, so an invariant about the heap
  of the moment is not enough: the invariant relates it to the heap that the checked
  replay had at the same request. `Checked` says that there is a chain of heaps
  (`ChainOK`) from an empty one to the present one, each sound and each the result of one
  request on the one before, with the pointers in `returned`; `Replayed` says that the
  heap of a later replay is the `Twin` of the heap of the chain at its place: they agree
  on which blocks there are and on their headers and footers, and on nothing else. Each
  function of the package gives the same pointer on twins and makes twins of them
  (the `Twin` lemmas of `MmHeapProofs`, `TwinRequest`, `ReplayStep`), but for the call of
  `mm_realloc` that overgrows its block: what it leaves is never sound, and so it can
  only be the last of a chain (`OvergrownIsUnsound`).
* `ReplayAgreesAlways`: a consequence. The chain exists for the whole trace once it was
  found valid, so a replay meets neither NULL nor the crash.
* `RangesAreLiveAlways`: the list of ranges follows the payloads in use
  (`RangesRight`), through removals (`RangesRemoved`) and additions (`RangesAdded`).
* `UtilizationBoundedAlways`: `eval_mm_util`'s sum is that of the payloads in use
  (`Total`), and the break never moves back, so the sum has fitted below it also after
  the request that destroys the heap (`RequestFits`). That any number of disjoint payloads
  fits below the break (`PayloadFits`) is counted on the bytes `0 .. n - 1`: the payload of
  index `id` takes the bytes of `Bytes`, no byte is in two of them, and the sum over
  the indices grows by one cardinality at a time (`BytesFit`, by `UpFromZero`).
* `NoFalseAlarmAlways`: `MdriverSpec => NoFalseAlarm`, an action property. It needs that
  the package never writes into a payload, which `DriverInv` does not say: on a sound heap
  the payloads are as the client filled them (`CleanInv`, inductive with `DriverInv`).
  The `Spares` lemmas show, function by function, that words are written only at the
  borders between blocks or in blocks that are free; the block that `mm_realloc` lets
  overgrow is again the exception that is never sound. Then a payload of `mm_malloc` is
  always added (`MallocIsAddable`), one of `mm_realloc` is refused only for an overlap
  (`ReallocIsAddable`), and what must be preserved is (`ReallocPreserves`) and is read
  back as it was written when the low byte of the index is below 128 (`ReadsBackBelow`).

For every geometry of the cache, every set of addresses and every trace:

* `CacheIsConsistent`, `CountedHolds`, `TagOncePerSetHolds`,
  `EvictionsAccountHolds`: a hit changes no tag and no valid bit; a miss either
  overwrites a valid block, and counts an eviction, or makes one more line valid.
  The induction is over single accesses, and an `M` line is two of them.
* `CsimFollowsReference`, `OtherSetsAsReferenceHolds`, `AtMostOneOffHolds`. The first
  access stamps its block with 0, the value of the lines that are still empty. Until
  that block is used again or evicted csim takes it for the oldest, and may evict it
  although a line is empty. `LruInv` says what the two caches have in common in each
  state: every other set holds the same blocks, with `lruCount` in the order of `older`;
  the first set holds the same blocks too, or lacks exactly the first block, and the
  counters differ by 0, or by an eviction, or by an eviction and a miss, according to
  which of these has happened. Without the case "lacks the first block" the agreement is
  not inductive; without the counters in it `AtMostOneOff` is not a consequence.

For every `kbest`, `maxsamples`, `epsilon`, word width and all durations:

* `KBestHolds`, `StopsWhenConvergedHolds`: the values kept are ordered and counted
  against all samples (`Best`), which one insertion preserves
  (`AddSampleKeepsBest`).
* `MeasuredExactlyHolds`: the difference taken word by word with the borrow is the
  difference modulo the square of the width, by the uniqueness of quotients. It is about
  the number, not about the `double` that holds it exactly only below 2^53.

For every table of puzzles, whichever pass (`Passes` is any operator), every time
limit, word width and range, and every delivery of the signals:

* `OnlyStaleTimersMisleadHolds`: a puzzle is blamed for its time, or control jumps into
  a frame that has returned, only after an earlier puzzle left its timer running.
  Inductive with what `BtestInv` adds: the timer that runs was started by the puzzle
  that runs unless one was left (`TimerOfTest`), the frame saved in `envbuf` is that of
  the call in progress while SIGALRM can arrive (`FrameOfTest`), and no timer has been
  left in any state before the first puzzle that leaves one (`NoStaleTimer`).
* `GenValsFitHolds`: `gen_vals` writes within its array but for the last value of a
  range of exactly `MAX_TEST_VALS + 1` values, and for ranges of at most that many values
  that go up to the greatest `int`. A fact about `int` arithmetic, with and without
  wrapping, and the three branches of the code; it needs that an array is shorter than
  half the number of `int`s (`RangeAssumption`).

For every number of blocks and processes and all sizes:

* `PlacementIsAsPromised`: each process is in the first, or in the smallest, of the
  blocks that still had room for it, or in none when none had; no block is
  over-committed and no refused process would fit later. `FitInv` adds that what the
  code keeps in `n_arraySize` is `LeftBefore` of the next process. `LeftBefore` is a
  recursive function of `allocation`, and placing a process changes it for the later
  processes only (`PlacingTakesSize`).

For every M and N up to `MAXN`, and every way to cut the run into steps (`LUMP`):

* `BothTranspose`: `TransSpec => []TransposesAndSpills`. An access sequence is judged in
  two halves. Every store of either function writes the value of a cell `A[r][c]` to
  `B[c][r]` (`SubmitStoresRight`), so a cell of B holds its value of the transpose or
  was not stored to, in any state and whatever the order; and every cell of B is stored
  to in the piece that covers it (`SubmitStoresAll`), for which rows and columns are
  divided by the size of the block. A store with r beyond the rows of B comes from
  `blocking_diag` only, is one of its diagonal cells, and lies behind B
  (`OnlyRightCells`). `TransInv` keeps both halves for the accesses already made:
  `OnlyRightValues` and `AllKept`. `blocking_64`, which holds eight values across
  its loops, is proved like the others, for every block that fits in A and in B.

The proofs about recursive functions (`LeftBefore`, `For`, the blocks of the heap)
rest on `SearchProofs`: `IterationExists` gives the function defined by a start and
a step, and `UpFromZero` its induction; both are proved from the existence of a least
counterexample, because the library's theorems take operators as parameters, which the
provers cannot instantiate.

The assumptions are those of the modules, each named there and evaluated by TLC:
`MAXJOBS` positive, `NoPid` not a process, a heap that `mm_init` fits in and requests
that are not 0 (the driver's traces have none, and `mm_malloc` returns at once),
arguments of `csim` positive (main returns otherwise), dimensions that are naturals and
a `LUMP` that is not 0, legal traces (`LegalTraces`, a hypothesis of the driver's
theorems), ranges whose ends are `int`s, a table of puzzles with known
kinds, a limit that is a natural, and `PowersArePositive`, a fact of arithmetic.

Only model-checked:

* liveness, of `tsh_live` and of `labs`: out of the prover's reach;
* `SolutionsRight` and `OnlySlowOnesFail`, statements about every word of one width,
  and `CountsAsReported`, about the three graded sizes: TLC computes them in full;
* `TypedIsExecuted`, about lines made of given words.

## Divergences found

Shown by runs that end in a violation:

* `fgpid` (`tsh.c:624`) can return 0 although a foreground job runs, when `fg`
  wrote FG into a slot that the SIGCHLD handler had just cleared.
* The SIGCHLD handler returns early for a stopped child that is not on the list
  (`tsh.c:484`): zombies stay, against its comment.
* Two jobs can have one job ID (`tsh.c:588`).
* `mm_realloc` can hand out overlapping payloads (`mm.c:284`): the free run
  after the block is too short and ends at an allocated block, or the block that
  `current_block` points to is swallowed. `mm_realloc` also copies to NULL when
  the heap is full.
* csim evicts the block of the first access although the set has empty lines
  (`csim.c:171`). Over a whole trace this costs at most one miss and one
  eviction (`AtMostOneOff`), and sets not touched by the first access are exact.

Stated as the exceptions in properties that hold otherwise:

* `float_twice` of a float whose double is too large gives a NaN instead of
  infinity, unless its fraction is 0 (`SolutionsRight`); `btest` generates no such
  float (`OnlySlowOnesFail`).
* `gen_vals` writes one value more than its array holds for a range of exactly
  `MAX_TEST_VALS + 1` values, and never ends, writing on and on, for a range of at most
  that many values up to the greatest `int` (`GenValsFit`). No range of `decl.c` is
  either.
* A timer that `btest` left running may stop the next puzzle early, or jump into a
  frame that is gone (`OnlyStaleTimersMislead`).
* `add_range` does not see a new payload that contains an old one
  (`RangesAreLive`).
* `eval_mm_valid` calls a sound package wrong when it reallocates an index whose low byte
  is 128 or more, since it compares a `char` with an `int` (`mdriver.c:656`,
  `NoFalseAlarm`). The traces that come with the driver reallocate no such index.
* A job that another process continues stays listed as stopped (`tsh.c:478`,
  `ShownStoppedIsStopped`), until it stops again or `bg` or `fg` names it.
* A ctrl-z between the stores of pid and state in `addjob` (`tsh.c:585`) goes to the new
  background job when its slot still has the FG of the first divergence above
  (`ForwardedToForegroundOnly`); before the child's `setpgid` it ends the shell.
* `blocking_diag` loads `A[row][row]` and stores `B[row][row]` beyond the rows of B
  when N > M, as for 61x67; these cells lie behind B (`TransposesAndSpills`).
* A line longer than the buffer is run as two commands and loses a character, the
  last line is dropped when it has no newline, quotes do not protect `&` or `>`,
  and arguments beyond `MAXARGS - 1` overrun `argv` (`TypedIsExecuted` stops at
  the first such line). `eval` of labsh waits for no child, against its comment
  (`labsh.c:79`).

The model shows more races of tsh that no statement of the code excludes: ctrl-z
between `fork` and `addjob` is lost (the mask names SIGSTOP instead of SIGTSTP);
a signal forwarded before the child's `setpgid` or after its death ends the
shell through `unix_error`; a stop reported between `kill(SIGCONT)` and the
assignment in `do_bgfg` is overwritten, and the stopped job is listed as running.

The reported counts of the transpositions are those of the model plus five
accesses: the two markers of tracegen and three more that are not to A or B
(`CountsAsReported`).

## Not modelled

* Options, usage texts, the printing and formatting of results, the opening and
  parsing of trace files: I/O without a decision the properties are about.
* `mdriver`'s evaluation of the C library's malloc: the same loops without checks.
  The interval timer, `mhz` and the clearing of the cache in `fcyc.c`: they depend
  on hardware only.
* Requests near 2^32 bytes, whose rounding wraps in `mm_malloc` and `mm_realloc`:
  `mdriver` reads sizes into an `int`, and the heap is of 20 MB.
* `fshow.c` and `ishow.c` print the fields of a word.
* The fork demonstrations of LAB9, `test.c` and HW1: a few lines each, no state.
  `myspin.c` and its like are the children of `Tsh`.
* `bomb.c` and `farm.c`: a main program without its phases, and constants.
* `20190084_권민재.c` in ASSN1 is a copy of `bits.c`, mapped there.

## State of the plan

Done: the job list, the shell and job control; the malloc package, its abstract
specification and the driver; csim and its reference; the timers; the data lab;
the transpositions; the parsers and labsh; first and best fit; proofs for tsh,
the malloc package and its driver, csim and its agreement with LRU, the timers,
`btest`, the transpositions and first and best fit.

Left: that the job IDs of `JobTable` are distinct with fewer
than four slots; labsh's children in the kernel model of `Tsh`.
