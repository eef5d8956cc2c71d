# A verification project for thvm

thvm is an interaction-net runtime in C (`src/src/`, 131,000 lines) with a
tensor compiler and an equational theorem prover built on it. This directory
models in TLA+ the parts where a wrong step is hard to see: the work-stealing
deque, the worker pool that drains redexes, the firing and patching of redexes
in the heap, the runtime of ahead-of-time compiled programs, the placement and
firing of tensor kernels with their capture and replay, and the term orders and the completion loop of the
prover. TLC checks the models on small instances; TLAPS proves, for every
size, the safety of the deque, of the worker pool and of the barrier, that a run
of a compiled program returns the program's value, and that a realize writes
each ASSIGN cell once.

- [The system](#the-system)
- [Modules](#modules)
- [Runs](#runs)
- [Fairness](#fairness)
- [Proofs](#proofs)
- [Findings](#findings)
- [Not modelled](#not-modelled)
- [Plan](#plan)

Paths below are relative to `src/src/` unless they start with `src/`.

## The system

A *term* is a 64-bit word (tag, ext, location). Compound terms own consecutive
cells of the *heap*, an array of atomic words with a bump allocator. A *redex*
is a term whose rule applies: an application of a lambda, a duplication of a
known value, an operator on numbers. Reducing rewrites cells in place.

| Part | State | Operations | What is hard | What makes it correct |
|---|---|---|---|---|
| Deque, `util/wsq.c` | `top`, `bot`, ring `buf` | `wsq_push`, `wsq_pop` (owner), `wsq_steal` | owner and thieves race without a lock, stores reach thieves late | linearizable bounded bag: nothing lost, nothing twice |
| Worker pool, `wnf/pool.c` | a bag per worker, `alive`, drain generation, `pending`, two condition variables | drain (local, parallel), steal, idle, park, shutdown | termination detection while idle workers rejoin; lost wakeups; reuse of the workers by the next drain | a drain ends when and only when no work is left; every call returns |
| Driver of full normalisation, `wnf/nf.c` | seeds, count of firings, `NF_FIRE_CAP` | `nf`: enumerate, seed, drain, again | which redexes are found again, and when | the result is a normal form, unless capped |
| Redexes, `wnf/redex.c`, `interact/` | heap, the step session's index (head, link, parent) | `is_redex`, `redex_enumerate`, `redex_fire`, `heap_replace`, `redex_step_attach` | stale bag entries, reused cells, concurrent scans of the heap | firing keeps the meaning of the root; the index finds every holder |
| AOT runtime, `aot/worker.c`, `cont.c`, `resolve.c` | task queue, worker stacks, flush buffers, continuation cells, a barrier | serial run, seed and work rounds, fork, join, flush, compaction | two children join one cell; every phase needs the barrier; exact buffer bounds | every value delivered once; the program's value returned; all threads end |
| Kernel firing, `interact/uop_kernel.c`, `uop_assign.c` | fire generation, pass epoch, ring of writes, claims | fire a kernel and what it reads, write a leaf in place | kernels skipped by two memos; a cell reached from several roots; fixed tables | a value that is read is current; a write happens once |
| Scheduler, `schedule/` | boundaries, arena slots, caches of one realize | compile sub-passes, plan lifetimes, end of a realize, kernel sweep | a lifetime planned in one sub-pass and read in another | no output is overwritten before its last reader |
| CPU buffers, `backend/cpu/buf_*` | slot table, free list, watermark, preserved bits | alloc, view, park, reuse, roll back | speculative parking, views of a block, ids that tensors still name | a result the caller holds keeps its bytes |
| Kernel capture, `jit/capture.c` | recorded operations, rebind sites, what each capture retains | begin, record, end, replay, drop | what died while recording; ids named by operations long after; arguments computed inside | a replay leaves what the captured code would on the new arguments |
| Terms and orders of the provers, `unify/`, `rewrite/`, `cp/`, `kbo/`, `lpo/`, `rpo/`, `wpo/` | substitution with an undo log, caches of weights and hashes | unify, match, rewrite, overlap, compare | undo logs that overflow, caches over cells that move, several implementations of one order | most general unifiers; reduction orders; implementations agree |
| Completion loop, `atp/_.c` | facts in parallel arrays, queue, trace, flags of death | intake, select, orient, interreduce, overlap, check the goal | each discard is justified by something that may go later; compaction of the arrays | the theory is kept; an empty queue decides it |
| Stack reducer, `wnf/_.c` | explicit stack, reduction counters | `wnf` | reentrance, resumption from the saved stack | the meaning of the term |
| Readback, `cnf/`, `collapse/`, `eval/collapse.c` | queue of branches | `cnf`, three enumerations of a superposition tree | order of the leaves, bounded queue | every leaf once, in priority order |
| Priority bank, `util/wspq.c` | 64 deques per worker, mask | push, pop, steal in order of key | the mask is stale while thieves read it | no task lost behind a cleared bit |
| Definitions, `book/`, `alo/`, `lam/` | book heap, binding lists | snapshot, lazy instantiation | binders renamed layer by layer, memo of a forced node | instances are copies of the template |
| Collector, `heap/collect.c` | two half spaces, forwarding words, side tables | `gc_collect` | an unlisted tag or a missed root keeps an old location | reachable cells survive, and nothing points to the old space |
| Graph and code generation, `uop/`, `codegen/` | expression DAG, caches | rewrite, render | caches keyed by heap locations | same value as the interpreter |
| Backends, `backend/metal`, `backend/cuda` | device buffers, queues | launch, copy, synchronise | ordering of device work | (external) |
| AOT compiler, `aot/emit.c`, `build.c`, `metal_emit.c` | generated text | emit, compile, load | | same value as the reducer |
| Contexts, `thvm.c` | table of contexts, current context | create, select, destroy | tables shared by all contexts | no context sees another's terms |
| Other provers, `fol/`, `cc/`, `wald/`, ... | clause sets, term indexes | saturate, solve | undo logs, fixed limits | sound verdicts |

How they interact: `nf` seeds worker 0's bag and drains it through the pool; each
worker pops a redex and calls `redex_fire`, which writes the heap, patches the
cells that held the redex, and (with a step session) pushes new redexes into the
worker's own bag, itself a `wsq` deque others steal from. With `T = 1` the pool
is not entered and `nf` attaches the step session; with `T > 1` there is no
session and `nf` enumerates the heap again between drains. Compiled programs
use neither pool nor deques: their threads share one queue under a barrier and
meet in the counters of continuation cells.

A tensor expression is a graph in the same heap. `thvm_realize` (one root) and
`thvm_realize_many` (a bundle) alternate `wnf`, which fires kernels and ASSIGN
cells, with `thvm_materialize`, which turns subgraphs into kernels and allocates
their outputs from the CPU buffers. At the end of a realize the buffers above
its watermark go back, except what the results need. Between a capture's begin and
end every kernel fired and every copy made is also recorded; `TinyJit` then replays
the record on new arguments instead of calling the function. The provers keep their
terms in the heap too: their orders cache weights by cell, and the collector
moves cells, so each collection invalidates the caches. Contexts select which
heap, tables and backend all of this uses.

## Modules

| Module | Models | Built on |
|---|---|---|
| `TaskBag` | what `wsq.c` promises: a bounded bag | |
| `Wsq` | `util/wsq.c`, access by access, with the owner's store buffer | implements `TaskBag` |
| `MCWsq` | symmetry of the thieves | `Wsq` |
| `WsqProofs` | theorems about `Wsq` | `Wsq` |
| `WnfPool` | `wnf/pool.c` and the driver in `wnf/nf.c` | bags as `TaskBag` has them, in deque order |
| `MCWnfPool` | small terms | `WnfPool` |
| `WnfPoolProofs` | theorems about `WnfPool` | `WnfPool`, `Sums` |
| `RedexNf` | `wnf/redex.c` with the rules it calls, under `nf` | |
| `MCRedexNf` | small nets | `RedexNf` |
| `Barrier` | what `aot_barrier_wait` promises | |
| `AotBarrier` | `aot_barrier_wait`, access by access | implements `Barrier` |
| `AotBarrierProofs` | theorems about `AotBarrier` | `AotBarrier` |
| `AotRun` | a run of a compiled program | uses `Barrier` |
| `AotAnswers` | what a run is to return | `AotRun` |
| `MCAotRun` | small programs and their values | `AotAnswers` |
| `AotRunRounds` | theorems about the rounds of `AotRun` | `AotRun`, `Sums` |
| `AotRunHolders` | theorems about the tasks, values and cells of `AotRun` | `AotRunRounds` |
| `AotRunAnswers` | theorem that a run returns the value of its program | `AotRunHolders`, `AotAnswers` |
| `Sums` | facts about sums over finite sets, for the proofs | |
| `Realize` | kernels from compilation to the end of a realize | |
| `Capture` | capture and replay over realizes, on the CPU backend | `Realize` |
| `MCRealize` | small graphs and programs | `Capture` |
| `RealizeProofs` | theorems about the ASSIGN claims of a realize | `Capture`, `Sums` |
| `Terms` | unification, matching, rewriting, critical pairs | |
| `Orders` | KBO, LPO, RPO, WPO, each implementation | `Terms` |
| `KboMemo` | KBO over cells with its caches, and the collector moving cells | `Orders` |
| `MCTerms` | sessions of calls, and what the answers must be | `KboMemo` |
| `Saturate` | the completion loop of `atp/_.c` | `Orders` |
| `MCSaturate` | small problems, and what the answers must mean | `Saturate` |

### Wsq

One action per shared access with the local steps around it. `wsq_push` is
`PushFull`, or `PushItem` (the slot) and `PushPublish` (`bot`); `wsq_pop` is
`PopReserve`, `PopFence`, then `PopTake`, or `PopLast` and the race `PopWin` or
`PopLose`, or `PopNone`; `wsq_steal` reads `top`, `bot` and the slot and ends with a
compare-and-swap. The owner's stores go through a FIFO store buffer, flushed at
any time (`FlushBuf`, `FlushBot`) and emptied by the fence and by the owner's
compare-and-swap. That is the order the code's release stores and its seq_cst
fence fix on the owner's side; the buffer may hold any number of stores, so a
published `bot` may be late, never early. A thief's loads are in program order,
as its acquire loads ask. Removing the fence breaks the deque
in this model, as on hardware. `top`, `bot` are unbounded (`size_t` in the code; 2^64
pushes are out of reach). Thieves' loads of a slot the owner is writing give the
old or the new word: the slots are atomic in the code.

`live`, `pushed`, `out` are history: what was pushed and not handed out, and the
last answer of each process. A successful steal takes effect at its
compare-and-swap, a `wsq_pop` that does not race at its load.

### WnfPool

Worker 0 is the caller of `nf`. `NfCall`, `NfSeed`, `NfRound`, `NfCapped`,
`NfDrained` are the driver; `LocalTake`, `LocalEnd` the drain of a pool of one;
`Arm`, `Start`, `DriverOut`, `DriverJoin` the parallel drain on worker 0; `Park`,
`Wake`, `Quit`, `WorkerOut` the persistent workers; `Pop`, `Steal`, `Leave`,
`SpinSome`, `SpinNone`, `Rejoin`, `Check` and their misses the loop they share; `Free`,
`Freed` the shutdown; `Spurious` a wakeup out of nothing. A critical section under
`ctl.mu` is one action. A bag is a sequence, because `Wsq` is proved to implement
the bag and the order matters to which redex goes first. A redex is a name; `Succ`
says which ones its firing makes that a step session shows, `Hidden` which
others, and `redex_enumerate`, between rounds without a session, finds both (`Present`). `Claimed` redexes are not redexes a second
time (projections), the others are (applications, operators), so the model keeps
the duplicates that real bags hold. `wnf_pool_push` blocks on a full bag, as in the
code; no setup lets the seeds of a call meet a bag so full of what a capped call left
that they cannot fit, which would block for ever (`wnf/pool.c:167`). Left out: the pool's statistics, and
rebuilding it when the thread count changes.

### RedexNf

The heap is a function from locations to terms; the step session's hash tables
are functions (`head`, `link`, `parent`). `Take` pops an entry and tests it,
`Claim` swaps out a projection's cell, `ReadFirst` and `ReadSecond` resolve the
operands, `Begin` picks the rule and allocates its cells, `InteractStep` makes one
read or one write of the rule, the substitution among them, `Interacted` starts
`heap_replace`, `PatchChain` is its walk of the index's chain, `PatchScan` and
`PatchSet` look at and write one cell in the scan of the heap that several workers
do instead, and `Patched` indexes and pushes what was made. A rule (`AppLam`,
`AppMat`, `DupSup`, `DupOp2`, `DupNum`, `OpNum`) is the cells it allocates, its reads
and writes in the order of the code, and its result. One step is: `is_redex`, each
`term_resolve`, the `wnf` of what a match scrutinises (a value or a sum of two numbers),
and an allocation with the projections written there, which nobody finds before
the result is in a cell; a rule's blocks are allocated together, so their numbers
follow each other. A heap cell is one 64-bit word, read and written whole.
`Meaning` evaluates the root by a reference interpreter of the calculus
(numbers, closures, superpositions), which no reduction may change. The calculus
is numbers with addition, lambdas, applications, number and constructor matches,
and duplication of numbers, superpositions and sums. Left out: tensors,
gradients, duplicating lambdas and constructors, references, full hash
tables, and a step session with several workers (off by default).

### AotBarrier and AotRun

`AotBarrier` has one action per atomic access: `LoadGen`, `Count` (the increment),
for the last arriver `Reset`, `Bump`, `Broadcast`; for the others spinning (`SpinOut`
when the generation changed, `SpinEnd` when the budget is spent and the machine
has fewer cores than threads) and sleeping (`Lock`, `Test`, `Sleep`, and `WakeEarly`, which
`pthread_cond_wait` allows). `gen` wraps at `MaxGen`. The mapping `Stage` to `Barrier`
calls a waiter `in` while its `g` is the current generation and `free` after; the last
arriver stays `out` until its `Bump`.

`AotRun` puts the runtime on top of `Barrier`. A program maps each function to what
its dispatch returns: a value, a tail call, a call with a continuation, a split with a
continuation. Values are histories of calls, so that a value delivered to the
wrong place or computed from the wrong children shows. `Grab`, `TakeSeed`, `TakeWork` take
tasks; `Descend`, `DescendEnd` run them; `WriteSlot`, `Count`, `Fire` are the join in a
continuation cell; `Flush`, `Copy` move what a worker produced to the queue; `Check`,
`NextRound`, `Compact`, `Again` are thread 0's steps between barriers. The serial run uses
the same actions without queue and barrier. Abstracted: captured arguments, the
packing of places into 32 bits, heap chunks, and the fixed depth of a worker's
stack.

### Realize

A program of this model is a graph of kernels over leaf tensors and a sequence
of realizes; each realize is a sequence of sub-passes, the roots of its bundle
and the ASSIGN cells in them. `Plan`, `Emit`, `Compiled` are `thvm_materialize` on one
sub-pass: the order of its boundaries, arena slots for those with one
consumer, release of shared outputs nobody reads any more, then one output per
kernel, a view of the arena or a buffer of its own. While it emits, outputs that
nothing from this depth on reads go on the free list (`memPlan`, `Dead`), and those
nobody took come back at its end; a kernel whose buffer was taken gets another one
when it fires (`Dispatch`). `Start`, `Descend`, `Dispatch` are
`kernel_fire_by_id` as a stack of frames, with the generation memo and, where the
program says so, the precise one; `Assign` is `interact_assign_with` behind
`assign_fire_claim`; `End` is the roll back and `kernel_gc_sweep`. These actions are
joined into a next-state relation by `Capture`. The value of a buffer
is the history of what was computed into it, so a value read too late or
overwritten too early shows.

What is merged or left open:

- `thvm_realize_many` alternates `wnf` and `thvm_materialize` until nothing is new; here
  every sub-pass is compiled, then every one is fired.
- Arena slots are any assignment that keeps overlapping lifetimes apart (the code
  has a TLSF allocator), and which parked buffer fits a request is open, so no
  property rests on sizes. The arena's own block is not a slot of the table.
- Views of an arena are pushed and taken back in the same way, but an allocation
  never takes one, so that for them only the room on the list is at stake.
- `mem_plan_push_dead` runs before the allocation of each kernel; a shared output
  that its last root reads is recorded for the depth of that root's sink, which no
  kernel is below, and so is never pushed there.
- Being kept at the end is the results, and possibly everything that pending
  terms still name.
- Outside captures a shared output that was released is not materialized a second time; outputs
  of one consumer are not results, except in `kernel_result`; under the precise
  memo no kernel reads through two levels what was written in between, except in
  `kernel_memo`. Those two exceptions are findings.
- `RingCap`, `ClaimCap`, `ClaimWays`, `ParkCap` are 8192, 8192, 4 and 4096 in the code.

### Capture

A program also says which calls `TinyJit` makes before each realize: begin, end with
the results, replay on arguments, drop. `FireKernel` and `Copy` are `Dispatch` and `Assign`
with the record they leave (`RecordRun`, `RecordCopy`); `EndRealize` is `End` with what the
sweep strips. `EndCapture` walks the record back for what a replay needs, and then
either releases the rest (`EndPinned`) or, in two phases, gives what died while
recording buffers of the capture's own (`EndTwoPhase`), shared by lifetimes that do
not meet. `Replay` puts the arguments at their sites and dispatches what is left
(`Redo`); `Drop` gives the references back. References and pins of captures are
`kept` and `pins`, apart from the one count a tensor holds (`bufs[b].rc`), because a
realize changes none of them.

Between the begin and the end of a capture (`span`) the map from expressions to
outputs survives the end of each realize, and no output goes to an arena
(`materialized_loc_span_holds`, `Spanned`): outputs with one consumer are owned
buffers, recycled inside a sub-pass, in two phases also parked at the end of the
realize. A later realize of the capture uses an earlier output that is still live and
compiles it again where its buffer is gone (`New`). This is so with pins too, because
the faithful seed that implies it (`THVM_RU_FAITHFUL_SEED`) is on by default; only
with `THVM_HEURISTIC_SEED` and pins, and no gradient of a pooling, do captures keep
arenas, and the programs have that third mode as well (`dedup = FALSE`). Dropping
an open capture leaves the span open, as `jit_capture_drop` does.

Two realizes of one capture that both have two roots are an exception in `Current`
(`Carried`): the records of shared outputs (`XPASS_SHARED_TIDS`) are "per realize,
wiped by materialized_loc_clear" by their comment (`schedule/materialize.c:242`),
but inside a span that function returns before it wipes them (691), and a root of
the second realize whose number a record waits for releases an output that it goes on to
read. `Stages` is such a program: in two phases it reads a wrong value; pins prevent it.

`due` is history: after a replay, what each tensor should hold, computed by
`Ideal` from the graph and the realizes that were captured, not from the record.

- Which parked buffer the plan takes, and which of the lifetimes that do not meet
  share, is open, as in `Realize`.
- The sites are found at the first replay in the code and at the end here; no
  operation changes in between.
- Gathers, the passes for Metal and CUDA, trace capture, pausing for the
  autotuner and the removal of duplicate dispatches (off by default) are left out.
- A capture is not begun inside another, and an output skipped twice in one
  record (which gives up its tensor's reference twice) does not occur.
- With pins an argument is not computed inside the capture, and an ASSIGN does
  not copy straight from an argument: an operation that computes the argument would be fired
  again, and a copy names tensors, which a replay does not rebind. An argument
  is not passed twice at capture. `CaptureCap` is 63 in the code; the tables of
  operations and of retained buffers do not fill.

### Terms, Orders, KboMemo

`Terms` gives unification with the undo log and its overflow flag (`Bind`, `Undo`),
matching, rewriting, canonical numbering of variables and critical pairs as
functions of terms; `Orders` gives KBO three times (the reference, the linear one
with a balance per level, the flat one), LPO twice, RPO and WPO, with their gates
on variable ids. The tables of pairs already compared are left out, among them
`g_lpo_memo`, which in a prover keeps verdicts of `thvm_lpo` between calls until
cells move or another configuration comes. WPO looks a variable up in a table of counts without a
test (`wpo/_.c:234`); ids past the table occur in the runs only as whole terms,
where that makes no difference. `KboMemo` has the cells: `Compare` runs KBO through the tables of
hashes and weights, `TermWeight` and `Eq` use the same tables, `Collect` moves every cell to
another layout and invalidates them, and the epoch counter wraps at `Epochs`.
`MCTerms` makes sessions of these calls and states what each answer must be, in terms
of ground instances, of one-step rewriting, and of the properties of a reduction
order. `With` and `Fold` only make TLC evaluate an argument once.

### Saturate

`Saturate` is `thvm_atp_step` as a state machine over the parallel arrays of facts, the
queue, the trace and the marks of death. `Drop` and `Add` are the two ends of a step
(the selected pair is joined, subsumed or orphaned; or it becomes a fact, with
interreduction, compaction, overlaps and the goal), `TimeOut`, `QueueEmpty`, `GoalFirst` its
returns. The flags are those of `thvm_atp_init` but for unfailing completion,
orphans killed eagerly or lazily, and the goal, which a problem chooses; its cap on
steps too. Which pair is selected is open, so what holds does not rest on the
weights. The optional strategies are off, as `thvm_atp_init` leaves them.

## Runs

| Run | Instance | Distinct states | Shows |
|---|---|---|---|
| `wsq` | one owner, two thieves, two slots, four pushes, three buffered stores | 131,526 (with symmetry) | every task in one place; the oldest is stolen; the bag is implemented |
| `pool` | pools of one, two and three workers, bags that fill, seeds that do not fit, redexes no session shows, up to four calls of `nf`, a cap that bites and leaves entries, shutdown | 47,320 | no worker leaves while work is left; drains never overlap; a drain returns only when all it was given or left has fired; no redex is left that was shown, or without a session none, unless capped or short of room for seeds; no wakeup is lost |
| `redex` | one worker under a session on twenty nets, two workers on nineteen, three on eight | 146,888 | firing and patching keep the meaning, or lose it in one of two ways; the index finds every holder; what no push shows is a redex by substitution or in a reused cell; nothing else is left at the end |
| `aot_barrier` | three threads, generations 0 and 1 | 2,644 | the count is exact; the barrier is implemented across the wrap; every waiter is released |
| `aot_run` | two threads and serial, four programs | 556,067 | one deliverer per place; joins complete; rounds agree; right answer; the run ends |
| `terms` | calls on some thousand terms over three symbols, and sessions of the caches | 13,816 | unifiers are most general, the substitution is clear between calls, variants meet, normal forms are reached by steps, critical pairs are exact, all implementations of an order agree, each is a reduction order, caches never show |
| `saturation` | nine problems, unfailing or not, eager or lazy orphans | 4,178 | no discard loses a consequence; rules stay oriented; nothing reducible stays; an empty queue decides; verdicts are right |
| `kernels` | every graph of five kernels under two roots, three ways to use it, and five longer programs; every graph of four kernels captured in three modes, and longer captures | 230,617 | what is read is current; results are kept; every write happens once; a replay leaves what the captured code would on its arguments; what captures will dispatch keeps its storage |
| `redex_stale`, `lpo_both_less`, `kernel_result`, `kernel_memo` | | | the findings below |

Why the bounds are enough:

- `wsq`: two slots make the ring wrap twice in four pushes, be full and be empty;
  two thieves race each other and the owner for the last task; three buffered
  stores hold a whole push and the reservation of the next pop. The theorems lift
  all of these bounds.
- `pool`: bags of two fill up; two calls reuse parked workers in a second drain;
  three workers let one leave, one spin and one steal at once, the smallest case
  in which a spinner's scan can be overtaken. The cap (`FireCap`, `NF_FIRE_CAP` in the
  code) bites with one worker and, as 1, with two and with three, which makes a
  single drain the whole call. `Seeds` has one seed more than its bag holds;
  `Leaves` is capped between two calls. The theorems lift these bounds but for
  the two liveness properties.
- `redex`: each net exercises one rule or one way redexes meet (shared operand,
  a result that is an operand, a duplicated value, an application that is the
  argument of another). `HeapCap` of 30 cells is never
  reached (`Allocated`, a part of `MeaningKept`). The compare and the write of each cell
  being steps, two workers already interleave in a scan; a third can take a
  redex between them.
- `aot_barrier`: `MaxGen = 1` is the shortest wrap; a waiter that saw generation `g` is
  released before `g` can return, and this is what the refinement tests.
- `aot_run`: the four programs fork trees, work on results of joins, chain calls until the
  seed rounds run out, and have just under the number of tasks worth sharing.
  `SeedRounds`, `GrabMax` and `FlushAt` are the code's 64, 32 and 512 scaled
  down to 3, 2 and 2, so that the seed rounds run out and a worker flushes in
  mid-phase; `QueueCap` is never reached, which is proved: `QueueAssumption`
  asks for room for a seed round and what it makes, 6 `Threads` - 3 tasks (the
  code has 4 Mi entries for at most 64 threads). The theorems lift all of these
  bounds but for the end of the run (`Ends`).
- `terms`: a constant, a unary and a binary symbol in three configurations give
  every case of the orders (equal, larger and smaller weight, heads, arguments,
  weight zero); `LogCap = 1` makes the undo log overflow, two slots make hashes
  collide, three epochs make the counter wrap.
- `saturation`: the problems were chosen so that each discard happens: pairs
  joined and subsumed, facts demoted from the middle of the arrays, orphans of
  them, equations that only descend on instances, proofs that need a rewritten
  right side, and one stopped by its cap. `SameTheory` compares the algebras with two
  elements that satisfy the axioms with those that satisfy what is kept;
  `Saturated` compares normal forms of all ground instances over six terms. `NormCap`,
  `CpBatch`, `LogCap` and `MaxDepth` are large enough never to bite.
- `kernels`: five kernels are enough for a diamond whose two sides have different
  lengths, for a kernel shared with a second root at any depth, and for two
  lifetimes to meet in one slot. The extra programs cover what graphs of one
  realize cannot: a leaf written between two uses (`Reread`, `Updates`), Adam's step
  with cells reached twice in two realizes (`Adam`), three cells in a window of two
  (`Crowd`), and buffers parked by one realize and taken by the next (`Session`). For
  the claims, theorems lift the bounds. Three
  writes in the ring make it forget in most programs. In a capture four kernels
  let two dead outputs share a planned buffer and a third outlive both; the calls
  replay on two other arguments with a realize in between that takes parked
  buffers. The longer captures have a second realize over a result of the
  first (`Twice`) or over a kernel that none returns (`Resumed`), a second capture
  over a result of the first, which is dropped (`Heir`), two bundles in one capture
  (`Stages`), a drop and a second capture (`Recapture`), a root that is not
  returned and no free slot (`Crowded`), weights updated from each other (`Moments`), and
  an argument or a result that is computed late (`Lazy`).

Several workers can lose the meaning of a net, and `RacingNets` are nets that do.
There `MeaningKept` says how: a projection that fired is still in some cell, or a scan
of `heap_replace` wrote over a substitution or over what had changed since it looked
(`Slipped`); without one of these the meaning is kept on them too, and on all other
nets it is kept without exception. `DupSupNet` needs the first: another worker
copies a projection to a new cell while it fires, and the copy resolves to the
substitution left for the other side (`wnf/redex.c:590`). `ArgNet` needs the second:
`redex_enumerate` finds a redex inside a substitution cell between two rounds, and
`heap_replace` writes its result there without the substitution bit
(`wnf/redex.c:445`), so the variable is unbound again. `MissNet` shows both.
`CommuteNet` and `DupSumNet` run with one worker only: two workers on the first
have 5.3 million states, on the second more than 15 million.

A session pushes results, what is in new cells, and the owners of patched cells
(`wnf/redex.c:763-805`). Two kinds of redexes are none of these. One is made
by a substitution: `nf` of `(\x. (x + 1) + 3) 5` stops at `(5 + 1) + 3`, for no cell
of the inner sum was patched. The other is written into cells that a match reuses
(`wnf/redex.c:535-552`): in `CtrNet`, which matches `#5{10, 20}` and applies
`\a. \b. a + b` to its fields. `docs/normal_form.md:11` promises every redex; without a
session `nf` keeps the promise, with one it does where all redexes show. In
`redex`, `NormalForm`, `IndexFinds` and `FreshComplete` speak of every net:
they say that the redexes left over, or not pushed, are of these two kinds (`Unshown`),
and on the nets of `Shown` that there are none. In `pool`, `hidden` says which redexes a firing makes
in this way, and `NormalForm` that a session leaves no others, and two workers
without one not even those. What else bounds it is `Capped` and `Overflow`: seeds beyond the capacity of
worker 0's bag are dropped, and in a step session, or when nothing else fires,
nothing enumerates them again, though the comment at `wnf/nf.c:155` says
`heap_replace` pushes them. `DrainComplete` counts what a capped call left in the
bag (`nf.left`) with what the next call pushes.

Deadlock is checked in every run but `saturation`, whose machine stops with a verdict;
elsewhere the modules' last disjunct (`Terminated`, `Done`, `CaptureDone`, `Joined`) is the only way
to stop.

Each property comes with a mutant of the code, named in `PROJECT.json`, that breaks
it (a dropped fence, an uncounted rejoin, a scan that stops at the first hit, an
array that is not shifted, a lifetime that ends with its local reader).

## Fairness

- `WnfPool`: weak fairness of the driver and of each worker's loop: the operating
  system runs every thread, and the lock sections end. Spurious wakeups are never
  assumed. A thief that always loses a race does not block: the winner progresses.
- `AotBarrier`: weak fairness of each worker's steps once it has entered;
  `LoadGen` has none, since a thread need not come. Early wakeups of one worker end
  eventually (`<>[][~WakeEarly(w)]_vars`): POSIX allows spurious wakeups and no
  implementation returns them for ever. `Released` says only that a waiter leaves
  once all have come.
- `AotRun`: weak fairness of each thread.
- `Wsq`, `RedexNf`, `Terms` and its sessions, `Saturate`, `Realize`, `Capture`: none, safety only.

## Proofs

TLAPS proves these for every value of the constants (16,622 obligations).

**The deque** (`WsqProofs`; assumes a positive capacity and that the owner is no
thief). `TypeCorrect`, `Invariance`, `HoldsLive`, `StealsOldest`, `Implements`.
`DequeHoldsLive` is not inductive: it says nothing of the stores still in the
buffer nor of what a thief carries between its loads. The inductive invariant `IInv`
adds: the buffer is in program order, so that memory's `bot` never
shows an index before its item (`BufferOrdered`, `BufferRanged`); the owner's `bot` is
the last it stored (`OwnerSeesLast`); an item is in memory or still in the buffer
(`MemoryCatchesUp`); after the fence the buffer is empty (`OwnerState`), which is
where the fence enters; tasks lie in the order pushed (`Sorted`); and a thief
whose compare-and-swap can still succeed holds the live item at that index
(`ThiefState`), since an overwrite of the slot needs `top` to have moved. One
lemma per kind of step shows `IInv` kept; `Implements` then maps each step to a
step of `TaskBag` or a stutter. The step of a wrap rests on `SlotDistinct`: indices
less than a capacity apart use different slots.

**The barrier** (`AotBarrierProofs`; assumes a finite non-empty set of threads and
`MaxGen` at least 1). `TypeCorrect`, `Invariance`, `CountCorrect`, `Refinement`. The
inductive `Inv` says that a thread about to count itself has the current generation
(`LoadFresh`: the generation cannot move while one thread is out) and that the
count is the number of waiters of this generation, or all of them once the last
has come (`Counted`). Then a `Bump` finds everybody in, which is the abstract
`ArriveLast`. The mutex and the condition variable take no part: they matter to
liveness only.

**The pool** (`WnfPoolProofs`; assumes what
`SetupAssumption` says of a setup: at least one worker, a positive capacity,
finitely many redexes, and what a firing makes, shown or hidden, is among them). `TypeCorrect`, `Controlled`,
`CountCoversWork`, `Quiet`, `Invariance`, `DrainsAll`, `NormalFormReached`.
`AliveCoversWork` says that nobody holds work once `alive` is zero, and is not
inductive: it does not say what `alive` counts. The invariant of the protocol,
`Control`, has three parts. `Places` says where the helpers can be while the
driver is at each of its steps: outside a drain all of them have seen the current
generation and none is in the loop. `Counts` says that during a drain `alive` is the
number of workers that are busy or released and not yet awake, and `pending` the
number of those that are in the loop or released. `Owned` says that a worker that
is not about to pop has an empty bag, which holds because only the owner pushes and
it looks into its bag until it is empty. Then `alive` zero leaves nobody who could
own an entry, and `pending` zero nobody in the loop. Every step of the loop is of one
form (`Moves`): a worker goes from one place to another and counts itself in or
out accordingly.

`Work` builds on it. `Balance` sums, over the workers, what was fired, is in the bag or
in hand, less what was pushed: the sum is what the last call left, whatever is
pushed, stolen or fired; an owner and a thief change two summands at once. At the
end of a drain `Control` makes the bags empty, and what remains of `Balance` is
`DrainComplete`. `Covered` says that each redex of this call that has not fired is
held: as a seed, in a bag, as a successor still to push or in a worker's hand. In a
session this is always so of those it showed (`Owed`); without one only in a round that has fired nothing so
far, and that is the round `nf` stops after. `Rounds` and `Dated` keep the rounds of
the driver and the calls apart. `NormalForm` follows when `nf` returns, since nothing
is held then: without a session it leaves no redex but the lazy ones. The lemmas on sums are in `Sums`: `SumFunction` is defined by a fold
that chooses an order, and that the order does not matter is proved by induction
over finite sets (`SetInduction`, from the least element of a set of naturals), with
the hypothesis as a set of sets rather than a predicate.

**A run of a compiled program** (`AotRunRounds`, `AotRunHolders`, `AotRunAnswers`;
assumes at least two threads for the parallel run, positive bounds,
`QueueAssumption`, by `ProgramAssumption` programs whose functions return one of
the four kinds of result, and by `NameAssumption` that no function is called
`none`, which stands for an entry never written). The first module proves `Invariance`, `TypeCorrect` and `RoundsTogether` with
the inductive `Inv`. `Alone` is the serial run. `Together` compares the stages of
every two threads: the same, or the two sides of a barrier that one has passed and
the other has not (`Near`); threads in one stage agree on the number of the round, its
kind and its size. This is where the barrier enters: a thread leaves only when all
have come. `Private` says what a thread holds where it is. `Numbers` bounds what a
seed round can still make: twice the tasks not yet taken, what each thread owes
(`Owe`: twice what it has in hand, once what it has not flushed) and what is in the
queue add up to no more than twice the tasks of the round. A round of seeds has fewer than 2N
tasks, so it leaves at most 4N - 2, and the queue never holds more than 6N - 3.
`Queue` says which of its entries are written, so that the tasks moved by thread 0
and taken by the others are tasks.

The second proves `HoldersInvariance`, `NoneLost` and `FiresReady`. The carriers are the
tasks in the queue, the stacks and the flush buffers, the threads with a value in
hand and the cells yet to fire. `OneEach` says that no two carriers have the same
place and that their places are those without a value; it is `OneHolder` without
cardinalities. It is not inductive alone: that the last child of a cell, and only
it, fires the continuation needs `Joins` (a cell's count is the number of children
who have not counted themselves down), `Counting` (a child does so once and after it
wrote its value) and `Firing` (a fired cell's count is zero and one thread fires it);
that no task is dispatched twice or overwritten needs `Distinct` (no two threads have
grabbed the same entry or claimed the same room). The steps are of two kinds:
those that replace one carrier by others (`Replaced`: a task by those its dispatch
returns, by a value in hand or by a cell) and those that move carriers without
changing their places. `Replace` and the lemmas about sequences (`Comes...`) treat each
kind once.

The third proves `AnswerInvariance` and `AnswersRight`: a run that comes to its end returns
what a plain evaluation of the program returns. That evaluation is a constant,
`Evaluation`: for each program a table from the calls its evaluation makes to their
values. `EvaluationAssumption` says that the table has the call of `main` and is closed: a
call in it has the value that the body of its function gives it from the other
values in the table. Only a program whose evaluation ends has one; `MCAotRun` computes the
tables of the programs of the run, and TLC checks the assumption on them. `Answered` is
not inductive, because a value is on its way in many hands before it is the result.
`Right` says that some map from places to values gives the root the value of the program
and agrees with every carrier: a task's call has the value wanted at its place, a value
in hand or in a slot is the one wanted there, and a cell's continuation on the
values wanted in its slots gives the one wanted at its own place. A split extends
the map at the two slots of a new cell, where nobody has looked yet; every other
step keeps it. What is left is that a run that ended has a result. By
`NoneLost`'s invariant somebody carries the root's value until it is delivered; when all
threads have quit neither a task nor a value is left, so the carrier is a cell that
waits. `Founded` says that cells never wait for each other in a circle (in each set of
cells one waits for none of the set), so that below this cell some place would be
carried by no cell and by nothing else. `Told` ties the result to the flag
`done`, `Emptied` covers the serial run.

**The claims of a realize** (`RealizeProofs`; assumes positive tables, a window
no larger than the table (`Caps`), and by `ProgramShape` that a realize has a sub-pass and
that kernels and cells are numbers). `ClaimsKept`, `AssignsOnce`, over `CaptureSpec`, so realizes inside and outside of
captures. `assign_fire_claim` hashes a cell to a window of the claim table, stops at the first
entry that has the cell or is stale, and evicts the window's first entry when there is
neither. `AssignedOnce` says that at the end of a realize each cell has written once, or
more cells, itself among them, meet its window than that has entries. It does not
say where the entry of a cell is meanwhile; the inductive invariant `CInv` does. `Stale`:
no entry is of a later pass than the current one, so that compiling starts with every
entry out of date, whatever earlier passes left. `Placed`: an entry of this pass lies in the
window of its cell with no stale entry before it, and no cell has two. `Kept`:
a cell that wrote and does not have more rivals than entries wrote once and still
has its entry. `Written`: the sub-passes that are over wrote their cells. The steps that
matter are two lemmas. `Found`: a cell with an entry finds it, because nothing stale
comes before it. `Outnumbered`: when cell m evicts the entry of l, every entry of m's
window is of this pass and of another cell. So is every entry of l's window: those from
m's base on are in m's window too (`Overlap`), those before by `Placed`. They belong
to as many different rivals of l (l among them) as the window is wide, and m is one
more. The arithmetic of windows that wrap around the table is in `Base`, `Around` and
`Distinct`, without `%` in what uses them.

What is only model-checked: liveness (`NfReturns`, `AllJoined`, `Released`, `Ends`), since
it rests on fairness and `ENABLED`; `RedexNf`, `Terms` and what builds on it, and
`Saturate`, because modules with `RECURSIVE` operators are beyond the prover, as is
induction over terms; of `Realize` and `Capture` what is read, kept and replayed. `Current`
and `ResultsKept` do not hold of every program (the findings `kernel_memo` and
`kernel_result`), so a theorem would need the conditions on programs under which they
do; `Replayed` compares with `Ideal`, the value of a graph of any size, and `Backed`
rests on which lifetimes meet.

## Findings

- `redex_stale`: with one worker, an application of a match is a seed and is pushed
  again when its argument fires; its second firing passes `is_redex` and rewrites
  cells that now belong to the result (`wnf/redex.c:557`).
- `lpo_both_less`: LPO counts an incomparable pair of arguments as less
  (`lpo/_.c:814`), so that of two terms each can be less than the other.
- `kernel_result`: a root of a bundle that is also computed on the way of another
  root has its output in the arena, and the end of the realize frees every view of
  an arena, marked or not (`backend/cpu/buf_pool.c:158`). The caller is left with
  a tensor without data.
- `kernel_memo`: the precise memo looks at a kernel's own inputs before anything
  below it has fired (`interact/uop_kernel.c:356`). A kernel two levels above a
  written leaf is skipped, and so is one whose input's storage went to another
  kernel of the arena, because writes are recorded by buffer id.

`redex_stale`, `kernel_result` and both programs of `kernel_memo` were also reproduced by
running the C code; `THVM_ARENA_PLAN=0` and `THVM_PRECISE_FIRE_MEMO=0` give the
right answers there.

## Not modelled

`PROJECT.json` lists every component. Beyond what each module leaves out
(above), in short:

- Fusion and rendering (`uop/`, `codegen/`, most of `schedule/`), CPU kernels: they
  transform programs of numbers; what could be checked is that a rewrite keeps a
  value, which needs the numbers. GPU backends: ordering is the driver's.
- The AOT compiler: text output. Bindings, counters: no state of their own.
- The other provers and the index structures of `atp/`: each a sequential
  program of its own, with heuristics that decide no more than the order of work.
- The collector, collapse, the priority bank, static definitions and contexts are
  planned (below).

Hazards known in those parts, or outside what a module keeps of its own:

- `heap/collect.c:209`: `gc_node_size` answers 0 for a tag it does not know, and the
  node is not copied; `heap/collect.c:395`: a side table that is not a root.
- `eval/collapse.c:62`: the queue never reuses the space before its head and the
  enumeration stops early; `eval/collapse.c:85`: INC counts the other way than in
  `collapse/ordered.c:39`.
- `util/wspq.c:111` and `143`: a push that waits for room on every worker; the owner
  clears a bucket's bit while thieves read the mask.
- `wnf/nf.c:153`: `nf` clamps its seeds to the capacity of the bag, not to the room in
  it. When a capped call left entries, `wnf_pool_push` (`wnf/pool.c:167`) can find
  the bag full between drains, where nobody takes from it, and spins for ever; with
  bags of two, `Leaves` shows this, and the run gives it three.
  `wnf/redex.c:343`: a full use table drops a term from the index.
- `aot/worker.c:386`: a worker's stack of 256 entries is not tested; `aot/task.h:81`: a
  place in 32 bits; `aot/halloc.h:36`: a chunk past the heap's end.
- `backend/cpu/buf_freelist.c:31`: views pushed by a shared release are never popped
  and fill the list; `buf_decref.c:8`: a decrement at zero is ignored.
- `kbo/_.c:107`: variables with ids past the table are left out of the balance, and
  two of them are not told apart; the comparators agree on one, but that the order is
  stable when one is replaced is not claimed (`Monotone`).
- `kbo/_.c:242`: the list of touched variables has 64 entries; `atp/_.c:16442`: the
  pass over right sides shifts fewer arrays than the one over left sides.
- `wpo/_.c:96`: WPO takes weights from KBO's cache, whose epoch only KBO bumps for a
  new configuration.
- `jit/capture.c:3733`: only in two phases is an operation that computes an argument
  left out of a replay; `capture.c:3707`: an ASSIGN has no rebind site, and the first
  of two equal arguments takes all sites; `capture.c:1169`: a begin while
  another capture is open leaves that one without an end; `capture.c:2112`: an output
  skipped twice is released twice; `src/py/thvm/_misc.py:133`: of several returned
  tensors only the first keeps its kernels in the replay.
- `thvm.c:931`: caches keyed by heap locations outlive their context.

## Plan

In this order, each with an abstract specification where one is stated:

1. `Collect`: the copy of the heap as a step on graphs; the result is isomorphic
   to what was reachable, side tables included, for the tags the reducer makes.
2. `Collapse`: the three enumerations against the set of leaves and their order;
   the bounded queue. Then `Wspq`, whose buckets are `TaskBag`s.
3. `WnfStack`: the stack reducer and the remaining interactions, with the meaning
   function of `RedexNf`; definitions on top of it.
4. `Contexts`: tables that outlive a context.

Theorems to add: `ResultsKept` for programs whose roots are not computed on the way of
another root, from which slots are free, parked, planned or live, then `Backed`. `Orders`,
`Saturate` and `KboMemo` recurse over terms and stay with TLC.
