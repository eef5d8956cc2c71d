------------------------------- MODULE AotRun ------------------------------
(***************************************************************************)
(* src/aot: a run of a compiled program.  A task calls a function with its *)
(* arguments and the place its value goes to; dispatching it yields a      *)
(* value, a call of one more task or a split into two, and the tasks of a  *)
(* call or split report to a continuation cell.  The last child to report  *)
(* fires the cell's continuation.                                          *)
(*                                                                         *)
(* One thread runs the tasks from a stack (aot_run_serial).  More of them  *)
(* share a queue (aot_run_parallel): seed rounds dispatch each queued task *)
(* once until there is enough to share, then in a work round each thread   *)
(* runs what it grabs, with all that comes of it, from a stack of its own. *)
(* Barriers separate the rounds; between them thread 0 moves the queue.    *)
(*                                                                         *)
(* A compiled function is what the runtime sees of it: which tasks its     *)
(* dispatch returns.  A value is the history of calls that computed it.    *)
(* The cells of a thread's heap chunk are numbered as it allocates them.   *)
(***************************************************************************)
EXTENDS Integers, Sequences, SequencesExt, FiniteSets

CONSTANTS
  Threads,     \* n_threads of a parallel run
  Programs,    \* programs: from the name of a function to its body
  SeedRounds,  \* AOT_SEED_ROUNDS
  GrabMax,     \* AOT_GRAB_BATCH_MAX
  FlushAt,     \* AOT_WORKER_FLUSH_AT
  QueueCap     \* AOT_PARALLEL_BUF_CAP, the entries of run->task_buf

ASSUME ThreadsAssumption == Threads \in Nat \ {0, 1}
ASSUME CapAssumption     == /\ SeedRounds \in Nat
                            /\ GrabMax \in Nat \ {0}
                            /\ FlushAt \in Nat \ {0}
                            /\ QueueCap \in Nat

\* The queue holds a seed round, of less than 2 * Threads tasks, and the two
\* that each of them makes at most.
ASSUME QueueAssumption   == QueueCap >= 6 * Threads - 3

ASSUME ProgramAssumption ==
  \A p \in Programs :
    /\ "main" \in DOMAIN p
    /\ \A f \in DOMAIN p :
         \/ p[f] \in [kind : {"value"}]
         \/ p[f] \in [kind : {"tail"}, call : DOMAIN p]
         \/ p[f] \in [kind : {"call"}, call : DOMAIN p, cont : DOMAIN p]
         \/ p[f] \in [kind : {"split"}, call : [1 .. 2 -> DOMAIN p], cont : DOMAIN p]

\* No function has the name that stands for an entry never written.
ASSUME NameAssumption    == \A p \in Programs : "none" \notin DOMAIN p

Worker == 0 .. Threads - 1

VARIABLES
  program,   \* the compiled program
  serial,    \* whether n_threads <= 1
  st,        \* the barrier, as Barrier has it
  pc, mode,  \* where each worker is, and in which kind of round
  round,     \* iter, cur or tc, and where its flush writes: dst
  grab,      \* the queue indices it has grabbed and not yet dispatched
  stack,     \* lstk, or the stack of a serial run
  wo,        \* the tasks it has not flushed to the queue yet
  res,       \* the value it is resolving, and where it goes
  cells,     \* the continuation cells it has allocated
  buf,       \* run->task_buf
  taskCnt, taskCntNew, workIdx,   \* the counters of run
  result, done                    \* of the program

local  == <<pc, mode, round, grab, stack, wo, res>>
queue  == <<buf, taskCnt, taskCntNew, workIdx>>
answer == <<result, done>>
vars   == <<program, serial, st, local, cells, queue, answer>>

B == INSTANCE Barrier

Root == <<>>   \* AOT_RET_ROOT
None == <<>>   \* an argument or result that is not there

Task(f, ret, args) == [fn |-> f, ret |-> ret, args |-> args]
RootTask == Task("main", Root, <<None, None>>)
NoTask   == Task("none", Root, <<None, None>>)   \* never written

NoRes == [ret |-> Root, val |-> None]

-----------------------------------------------------------------------------
(* Continuation cells *)

\* aot_alloc_cont and aot_alloc_cont_call: a cell that waits for `pending'
\* children; `kids' remembers how many.
NewCell(f, ret, pending) ==
  [cont |-> f, ret |-> ret, pending |-> pending, kids |-> pending,
   child |-> <<None, None>>]

\* Where cell number n of worker w has the result of a child.
Ret(w, n, slot) == <<w, n, slot>>
CellAt(ret) == cells[ret[1]][ret[2]]

\* Mutant: the children's values swapped.
FiredSwapped(cell) == Task(cell.cont, cell.ret, Reverse(cell.child))

\* aot_fire_cont: the continuation takes the children's values.
Fired(cell) == Task(cell.cont, cell.ret, cell.child)

\* program->dispatch on worker w: the kind of the result, its value or its
\* tasks, and the cells of w afterwards.  A tail call passes its place on.
Dispatch(w, t) ==
  LET body == program[t.fn]
      n    == Len(cells[w]) + 1
      keep == cells[w]
      with(pending) == Append(keep, NewCell(body.cont, t.ret, pending))
  IN CASE body.kind = "value" ->
            [kind |-> "value", cells |-> keep, tasks |-> <<>>,
             val |-> <<t.fn>> \o t.args[1] \o t.args[2]]
       [] body.kind = "tail" ->
            [kind |-> "call", cells |-> keep, val |-> None,
             tasks |-> <<Task(body.call, t.ret, t.args)>>]
       [] body.kind = "call" ->
            [kind |-> "call", cells |-> with(1), val |-> None,
             tasks |-> <<Task(body.call, Ret(w, n, 1), t.args)>>]
       [] body.kind = "split" ->
            [kind |-> "split", cells |-> with(2), val |-> None,
             tasks |-> [i \in 1 .. 2 |->
                          Task(body.call[i], Ret(w, n, i), t.args)]]

-----------------------------------------------------------------------------
Goto(w, l) == pc' = [pc EXCEPT ![w] = l]

Init ==
  /\ program \in Programs
  /\ serial \in BOOLEAN
  /\ B!Init
  /\ pc = [w \in Worker |-> IF ~serial THEN "top"
                            ELSE IF w = 0 THEN "descend" ELSE "quit"]
  /\ mode = [w \in Worker |-> IF serial THEN "serial" ELSE "seed"]
  /\ round = [w \in Worker |-> [iter |-> 0, cnt |-> 0, dst |-> 0]]
  /\ grab = [w \in Worker |-> <<>>]
  /\ stack = [w \in Worker |->
                IF serial /\ w = 0 THEN <<RootTask>> ELSE <<>>]
  /\ wo = [w \in Worker |-> <<>>]
  /\ res = [w \in Worker |-> NoRes]
  /\ cells = [w \in Worker |-> <<>>]
  /\ buf = [i \in 0 .. QueueCap - 1 |-> IF i = 0 THEN RootTask ELSE NoTask]
  /\ taskCnt = IF serial THEN 0 ELSE 1
  /\ taskCntNew = 0
  /\ workIdx = 0
  /\ result = None
  /\ done = FALSE

-----------------------------------------------------------------------------
(* The rounds of aot_worker_main *)

\* What follows each barrier.
After(l) == CASE l = "top" -> "check" [] l = "begin" -> "grab"
              [] l = "end" -> "compact" [] l = "after" -> "again"

AtBarrier(w) == pc[w] \in {"top", "begin", "end", "after"}

Arrive(w) ==
  /\ AtBarrier(w)
  /\ \/ B!ArriveLast(w) /\ Goto(w, After(pc[w]))
     \/ B!ArriveEarly(w) /\ UNCHANGED pc
  /\ UNCHANGED <<program, serial, mode, round, grab, stack, wo, res, cells,
                 queue, answer>>

Pass(w) ==
  /\ B!Leave(w)
  /\ Goto(w, After(pc[w]))
  /\ UNCHANGED <<program, serial, mode, round, grab, stack, wo, res, cells,
                 queue, answer>>

\* The outer loop: leave, or begin the seed rounds.
Check(w) ==
  /\ pc[w] = "check"
  /\ IF done \/ taskCnt = 0
     THEN Goto(w, "quit") /\ UNCHANGED round
     ELSE Goto(w, "next") /\ round' = [round EXCEPT ![w].iter = 0]
  /\ UNCHANGED <<program, serial, st, mode, grab, stack, wo, res, cells,
                 queue, answer>>

\* The next round is one of seeding, or of work when enough is queued.
Enough(w) == \/ round[w].iter = SeedRounds
             \/ taskCnt = 0
             \/ taskCnt >= 2 * Threads

NextRound(w) ==
  /\ pc[w] = "next"
  /\ mode' = [mode EXCEPT ![w] = IF Enough(w) THEN "work" ELSE "seed"]
  /\ round' = [round EXCEPT ![w].cnt = taskCnt]
  /\ IF w = 0 THEN taskCntNew' = 0 /\ workIdx' = 0
              ELSE UNCHANGED <<taskCntNew, workIdx>>
  /\ Goto(w, "begin")
  /\ UNCHANGED <<program, serial, st, grab, stack, wo, res, cells, buf,
                 taskCnt, answer>>

\* Mutant: the other threads do not wait for thread 0 to finish.
CompactNoWait(w) ==
  /\ pc[w] = "compact"
  /\ IF w = 0
     THEN /\ taskCnt' = taskCntNew
          /\ buf' = [i \in 0 .. QueueCap - 1 |->
                       IF i < taskCntNew THEN buf[round[w].cnt + i] ELSE buf[i]]
     ELSE UNCHANGED <<taskCnt, buf>>
  /\ Goto(w, "again")
  /\ UNCHANGED <<program, serial, st, mode, round, grab, stack, wo, res,
                 cells, taskCntNew, workIdx, answer>>

\* Thread 0 moves the tasks of the next round to the start of the queue.
Compact(w) ==
  /\ pc[w] = "compact"
  /\ IF w = 0
     THEN /\ taskCnt' = taskCntNew
          /\ buf' = [i \in 0 .. QueueCap - 1 |->
                       IF i < taskCntNew THEN buf[round[w].cnt + i] ELSE buf[i]]
     ELSE UNCHANGED <<taskCnt, buf>>
  /\ Goto(w, "after")
  /\ UNCHANGED <<program, serial, st, mode, round, grab, stack, wo, res,
                 cells, taskCntNew, workIdx, answer>>

Again(w) ==
  /\ pc[w] = "again"
  /\ IF mode[w] = "seed"
     THEN Goto(w, "next") /\ round' = [round EXCEPT ![w].iter = @ + 1]
     ELSE Goto(w, "top") /\ UNCHANGED round
  /\ UNCHANGED <<program, serial, st, mode, grab, stack, wo, res, cells,
                 queue, answer>>
-----------------------------------------------------------------------------
(* One round: aot_worker_phase, and aot_resolve *)

\* Where a worker goes on when a task is dealt with.
NextTask(w, left) == Goto(w, IF left = <<>> THEN "grab" ELSE "take")

\* Where it goes on when its task came to an end: `out' is to be flushed,
\* `left' is still grabbed.
\* (The test of a nearly full buffer before aot_resolve never holds: FlushAt
\* is half the buffer.)
Dealt(w, out, left) == IF mode[w] # "seed" THEN Goto(w, "descend")
                       ELSE IF Len(out) >= FlushAt THEN Goto(w, "flush")
                       ELSE NextTask(w, left)

\* The same, when that was for aot_resolve to say.
Resolved(w, out) == /\ Dealt(w, out, grab[w])
                    /\ res' = [res EXCEPT ![w] = NoRes]

\* An eighth of the queue each at two threads, but at least one task.
Batch(cnt) == LET share == cnt \div (4 * Threads)
              IN IF share < 1 THEN 1 ELSE IF share > GrabMax THEN GrabMax
                 ELSE share

\* Mutant: a worker that finds the queue empty polls for new tasks.
GrabPoll(w) ==
  /\ pc[w] = "grab"
  /\ LET cnt == round[w].cnt
     IN IF workIdx >= cnt
        THEN /\ IF taskCntNew = 0 /\ ~done THEN UNCHANGED pc
                                          ELSE Goto(w, "drain")
             /\ UNCHANGED <<grab, workIdx>>
        ELSE /\ grab' = [grab EXCEPT ![w] = <<workIdx>>]
             /\ workIdx' = workIdx + 1
             /\ Goto(w, "take")
  /\ UNCHANGED <<program, serial, st, mode, round, stack, wo, res, cells, buf,
                 taskCnt, taskCntNew, answer>>

Grab(w) ==
  /\ pc[w] = "grab"
  /\ LET cnt == round[w].cnt
         end == workIdx + Batch(cnt)
     IN IF workIdx >= cnt
        THEN Goto(w, "drain") /\ UNCHANGED grab
        ELSE /\ grab' = [grab EXCEPT ![w] =
                           [i \in 1 .. (IF end > cnt THEN cnt ELSE end) - workIdx
                              |-> workIdx + i - 1]]
             /\ Goto(w, "take")
  /\ workIdx' = workIdx + Batch(round[w].cnt)
  /\ UNCHANGED <<program, serial, st, mode, round, stack, wo, res, cells, buf,
                 taskCnt, taskCntNew, answer>>

\* A seed round dispatches the task once; what it calls goes to the queue.
TakeSeed(w) ==
  /\ pc[w] = "take" /\ mode[w] = "seed"
  /\ grab' = [grab EXCEPT ![w] = Tail(@)]
  /\ LET t == buf[Head(grab[w])]
         d == Dispatch(w, t)
     IN /\ cells' = [cells EXCEPT ![w] = d.cells]
        /\ IF d.kind = "value"
           THEN /\ res' = [res EXCEPT ![w] = [ret |-> t.ret, val |-> d.val]]
                /\ Goto(w, "resolve")
                /\ UNCHANGED wo
           ELSE /\ wo' = [wo EXCEPT ![w] = @ \o d.tasks]
                /\ Dealt(w, wo'[w], Tail(grab[w]))
                /\ UNCHANGED res
  /\ UNCHANGED <<program, serial, st, mode, round, stack, queue, answer>>

\* A work round runs it to the end on the worker's stack.
TakeWork(w) ==
  /\ pc[w] = "take" /\ mode[w] = "work"
  /\ stack' = [stack EXCEPT ![w] = <<buf[Head(grab[w])]>>]
  /\ grab' = [grab EXCEPT ![w] = Tail(@)]
  /\ Goto(w, "descend")
  /\ UNCHANGED <<program, serial, st, mode, round, wo, res, cells, queue,
                 answer>>

\* Split pushes its second task first, so that the first is on top.
Descend(w) ==
  /\ pc[w] = "descend"
  /\ stack[w] # <<>> /\ ~(serial /\ done)
  /\ LET t == Last(stack[w])
         d == Dispatch(w, t)
     IN /\ cells' = [cells EXCEPT ![w] = d.cells]
        /\ stack' = [stack EXCEPT ![w] = Front(@) \o Reverse(d.tasks)]
        /\ IF d.kind = "value"
           THEN /\ res' = [res EXCEPT ![w] = [ret |-> t.ret, val |-> d.val]]
                /\ Goto(w, "resolve")
           ELSE UNCHANGED <<pc, res>>
  /\ UNCHANGED <<program, serial, st, mode, round, grab, wo, queue, answer>>

DescendEnd(w) ==
  /\ pc[w] = "descend"
  /\ stack[w] = <<>> \/ (serial /\ done)
  /\ IF serial THEN Goto(w, "quit") ELSE NextTask(w, grab[w])
  /\ UNCHANGED <<program, serial, st, mode, round, grab, stack, wo, res, cells,
                 queue, answer>>

\* The program's answer: the result is stored before done is.
ResolveRoot(w) ==
  /\ pc[w] = "resolve" /\ res[w].ret = Root
  /\ result' = res[w].val
  /\ Goto(w, "finish")
  /\ UNCHANGED <<program, serial, st, mode, round, grab, stack, wo, res, cells,
                 queue, done>>

Finish(w) ==
  /\ pc[w] = "finish"
  /\ done' = TRUE
  /\ Resolved(w, wo[w])
  /\ UNCHANGED <<program, serial, st, mode, round, grab, stack, wo, cells,
                 queue, result>>

\* aot_write_slot: the value, then the count of the children still to come.
WriteSlot(w) ==
  /\ pc[w] = "resolve" /\ res[w].ret # Root
  /\ LET ret == res[w].ret
     IN cells' = [cells EXCEPT ![ret[1]][ret[2]].child[ret[3]] = res[w].val]
  /\ Goto(w, "count")
  /\ UNCHANGED <<program, serial, st, mode, round, grab, stack, wo, res, queue,
                 answer>>

\* Mutant: the count is tested after it was decremented.
CountAfter(w) ==
  /\ pc[w] = "count"
  /\ LET ret == res[w].ret
     IN /\ cells' = [cells EXCEPT ![ret[1]][ret[2]].pending = @ - 1]
        /\ IF cells'[ret[1]][ret[2]].pending = 1
           THEN Goto(w, "fire") /\ UNCHANGED res
           ELSE Resolved(w, wo[w])
  /\ UNCHANGED <<program, serial, st, mode, round, grab, stack, wo, queue,
                 answer>>

Count(w) ==
  /\ pc[w] = "count"
  /\ LET ret == res[w].ret
     IN /\ cells' = [cells EXCEPT ![ret[1]][ret[2]].pending = @ - 1]
        /\ IF CellAt(ret).pending = 1
           THEN Goto(w, "fire") /\ UNCHANGED res
           ELSE Resolved(w, wo[w])
  /\ UNCHANGED <<program, serial, st, mode, round, grab, stack, wo, queue,
                 answer>>

\* The last child fires the continuation.  A value goes on upwards; tasks go
\* where the worker keeps them, the first one first.
Fire(w) ==
  /\ pc[w] = "fire"
  /\ LET t == Fired(CellAt(res[w].ret))
         d == Dispatch(w, t)
     IN /\ cells' = [cells EXCEPT ![w] = d.cells]
        /\ IF d.kind = "value"
           THEN /\ res' = [res EXCEPT ![w] = [ret |-> t.ret, val |-> d.val]]
                /\ Goto(w, "resolve")
                /\ UNCHANGED <<wo, stack>>
           ELSE /\ IF mode[w] = "seed"
                   THEN /\ wo' = [wo EXCEPT ![w] = @ \o d.tasks]
                        /\ UNCHANGED stack
                   ELSE /\ stack' = [stack EXCEPT ![w] = @ \o d.tasks]
                        /\ UNCHANGED wo
                /\ Resolved(w, wo'[w])
  /\ UNCHANGED <<program, serial, st, mode, round, grab, queue, answer>>

\* worker_flush: claim room in the queue, then fill it.
Flush(w) ==
  /\ pc[w] \in {"flush", "drain"}
  /\ taskCntNew' = taskCntNew + Len(wo[w])
  /\ round' = [round EXCEPT ![w].dst = taskCntNew]
  /\ Goto(w, IF wo[w] = <<>> THEN "end"
             ELSE IF pc[w] = "drain" THEN "copyLast" ELSE "copy")
  /\ UNCHANGED <<program, serial, st, mode, grab, stack, wo, res, cells, buf,
                 taskCnt, workIdx, answer>>

\* Mutant: every flush writes right after the tasks of the round.
CopyFirst(w) ==
  /\ pc[w] \in {"copy", "copyLast"}
  /\ LET at == round[w].cnt
     IN buf' = [i \in 0 .. QueueCap - 1 |->
                  IF i \in at .. at + Len(wo[w]) - 1 THEN wo[w][i - at + 1]
                  ELSE buf[i]]
  /\ wo' = [wo EXCEPT ![w] = <<>>]
  /\ IF pc[w] = "copyLast" THEN Goto(w, "end") ELSE NextTask(w, grab[w])
  /\ UNCHANGED <<program, serial, st, mode, round, grab, stack, res, cells,
                 taskCnt, taskCntNew, workIdx, answer>>

Copy(w) ==
  /\ pc[w] \in {"copy", "copyLast"}
  /\ LET at == round[w].cnt + round[w].dst
     IN buf' = [i \in 0 .. QueueCap - 1 |->
                  IF i \in at .. at + Len(wo[w]) - 1 THEN wo[w][i - at + 1]
                  ELSE buf[i]]
  /\ wo' = [wo EXCEPT ![w] = <<>>]
  /\ IF pc[w] = "copyLast" THEN Goto(w, "end") ELSE NextTask(w, grab[w])
  /\ UNCHANGED <<program, serial, st, mode, round, grab, stack, res, cells,
                 taskCnt, taskCntNew, workIdx, answer>>

-----------------------------------------------------------------------------
Step(w) ==
  \/ Arrive(w) \/ Pass(w) \/ Check(w) \/ NextRound(w) \/ Compact(w) \/ Again(w)
  \/ Grab(w) \/ TakeSeed(w) \/ TakeWork(w) \/ Descend(w) \/ DescendEnd(w)
  \/ ResolveRoot(w) \/ Finish(w) \/ WriteSlot(w) \/ Count(w) \/ Fire(w)
  \/ Flush(w) \/ Copy(w)

\* Every thread is joined and the program's result returned.
AllQuit == \A w \in Worker : pc[w] = "quit"

Joined == AllQuit /\ UNCHANGED vars

Next == (\E w \in Worker : Step(w)) \/ Joined

\* The scheduler runs every thread of the run.
Spec == Init /\ [][Next]_vars /\ \A w \in Worker : WF_vars(Step(w))

-----------------------------------------------------------------------------
(* Properties *)

\* The places a value goes to: the program's result, the children of a cell.
Cells  == UNION {{<<w, n>> : n \in DOMAIN cells[w]} : w \in Worker}
Places == {Root} \cup
          UNION {{Ret(c[1], c[2], i) : i \in 1 .. cells[c[1]][c[2]].kids} :
                   c \in Cells}

Delivered(r) == IF r = Root THEN result # None
                ELSE CellAt(r).child[r[3]] # None

\* The queued tasks: those of the next round once thread 0 has moved them; in
\* a round, those not grabbed or not dispatched yet and those flushed so far.
Between == pc[0] \in {"top", "check", "next", "after", "again", "quit"}

Unflushed(w) == IF pc[w] \in {"copy", "copyLast"}
                THEN LET at == round[w].cnt + round[w].dst
                     IN at .. at + Len(wo[w]) - 1
                ELSE {}

Queued == IF Between THEN 0 .. taskCnt - 1
          ELSE (workIdx .. taskCnt - 1)
                 \cup (UNION {ToSet(grab[w]) : w \in Worker})
                 \cup ((taskCnt .. taskCnt + taskCntNew - 1)
                         \ UNION {Unflushed(w) : w \in Worker})

\* The tasks that wait to be dispatched, wherever they are.
Tasks ==
  {<<"queued", i, 0>> : i \in Queued}
    \cup (UNION {{<<"stacked", w, i>> : i \in DOMAIN stack[w]} : w \in Worker})
    \cup (UNION {{<<"unflushed", w, i>> : i \in DOMAIN wo[w]} : w \in Worker})

\* The workers that have a value in hand.
Hands == {<<"resolving", w, 0>> : w \in {w \in Worker : pc[w] = "resolve"}}

\* The cells that have yet to fire their continuation.
Unfired(c) == \/ cells[c[1]][c[2]].pending > 0
              \/ \E w \in Worker : /\ pc[w] = "fire"
                                   /\ res[w].ret[1] = c[1]
                                   /\ res[w].ret[2] = c[2]

Conts == {<<"cell", c[1], c[2]>> : c \in {c \in Cells : Unfired(c)}}

\* The place that one of them delivers to.
PlaceOf(h) == CASE h[1] = "queued"    -> buf[h[2]].ret
                [] h[1] = "stacked"   -> stack[h[2]][h[3]].ret
                [] h[1] = "unflushed" -> wo[h[2]][h[3]].ret
                [] h[1] = "resolving" -> res[h[2]].ret
                [] h[1] = "cell"      -> cells[h[2]][h[3]].ret

\* Who is to deliver a value to r: a task, a worker with the value in hand,
\* or a cell whose continuation will.
Holders(r) == {h \in Tasks \cup Hands \cup Conts : PlaceOf(h) = r}

\* No task, value or continuation is lost or doubled on its way through the
\* queue, the stacks, the flush buffers and the cells: what is not delivered
\* yet has exactly one who will deliver it, what is delivered has none.
OneHolder ==
  \A r \in Places : Cardinality(Holders(r)) = IF Delivered(r) THEN 0 ELSE 1

\* The last child to count itself down finds every child's value in the cell.
FireReady ==
  \A w \in Worker : pc[w] = "fire" =>
    LET cell == CellAt(res[w].ret)
    IN \A i \in 1 .. cell.kids : cell.child[i] # None

\* The workers of a round are all in the same round, and counted it the same;
\* a round leaves at most 4N - 2 tasks, so that every grab is of one task.
InRound(w) == pc[w] \in {"grab", "take", "flush", "copy", "drain", "copyLast",
                         "descend", "resolve", "finish", "count", "fire"}
RoundsAgree ==
  /\ taskCnt <= 4 * Threads - 2
  /\ ~serial => \A v, w \in Worker : InRound(v) /\ InRound(w) =>
       /\ mode[v] = mode[w]
       /\ round[v].cnt = round[w].cnt
       /\ round[v].iter = round[w].iter

\* Every run ends.
Ends == <>AllQuit
=============================================================================
