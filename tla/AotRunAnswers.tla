--------------------------- MODULE AotRunAnswers ---------------------------
(***************************************************************************)
(* Proofs about AotRun for every number of threads and every program that  *)
(* has a value: a run returns that value.  To what AotRunHolders shows,    *)
(* the inductive invariant adds:                                           *)
(*   Right    there is a value that each place is to get, the program's    *)
(*            for the root, such that every task, value in hand, delivered *)
(*            value and cell is on its way to the value of its place;      *)
(*   Told     the result is there when done is, or is about to be, set;    *)
(*   Emptied  a serial run ends with an empty stack or with the result;    *)
(*   Founded  no cells wait for one another in a circle.                   *)
(***************************************************************************)
EXTENDS AotRunHolders, AotAnswers

Values == Evaluation[program]

\* The evaluation has the call, with the value wanted at place r.
Wanted(f, args, want, r) == <<f, args>> \in DOMAIN Values /\ Values[<<f, args>>] = want[r]
Good(t, want) == Wanted(t.fn, t.args, want, t.ret)

\* Cell n of v has no other values than those wanted, and its continuation,
\* called with all of them, has the value wanted of the cell.
CellRight(v, n, c, want) ==
  /\ \A i \in 1 .. c.kids : c.child[i] # None => c.child[i] = want[<<v, n, i>>]
  /\ c.kids = 1 => c.child[2] = None
  /\ Wanted(c.cont, <<want[<<v, n, 1>>], IF c.kids = 2 THEN want[<<v, n, 2>>] ELSE None>>, want, c.ret)

\* Every task that was ever queued keeps its value, so the stale entries of the
\* queue need no exception.
TasksRight(want) ==
  /\ \A w \in Worker : \A i \in DOMAIN stack[w] : Good(stack[w][i], want)
  /\ \A w \in Worker : \A i \in DOMAIN wo[w] : Good(wo[w][i], want)
  /\ \A i \in 0 .. QueueCap - 1 : buf[i] # NoTask => Good(buf[i], want)

CellsRight(want) ==
  \A v \in Worker : \A n \in DOMAIN cells[v] : CellRight(v, n, cells[v][n], want)

ValuesRight(want) ==
  /\ want[Root] = Values[Main]
  /\ \A w \in Worker : pc[w] = "resolve" => res[w].val = want[res[w].ret]
  /\ result # None => result = want[Root]

Right(want) == TasksRight(want) /\ CellsRight(want) /\ ValuesRight(want)

Told == result # None <=> done \/ \E w \in Worker : pc[w] = "finish"

Emptied == serial /\ pc[0] = "quit" => stack[0] = <<>> \/ done

Founded ==
  \A S \in SUBSET Cells :
    S # {} => \E c \in S : \A d \in S : \A i \in 1 .. 2 :
                cells[d[1]][d[2]].ret # <<c[1], c[2], i>>

AInv == HInv /\ (\E want : Right(want)) /\ Told /\ Emptied /\ Founded

-----------------------------------------------------------------------------
(* What a dispatch returns *)

\* A dispatched task returns the value wanted, or passes its place on to tasks
\* that do.
Answers(w, t, d, want) ==
  \/ d.kind = "value" /\ d.cells = cells[w] /\ d.tasks = <<>> /\ d.val = want[t.ret]
  \/ /\ d.kind # "value" /\ d.cells = cells[w]
     /\ \E f : d.tasks = <<Task(f, t.ret, t.args)>> /\ Wanted(f, t.args, want, t.ret)

Splits(w, t, d, want, k, f, g) ==
  /\ d.kind # "value"
  /\ d.cells = Append(cells[w], NewCell(f, t.ret, k))
  /\ d.tasks = [i \in 1 .. k |-> Task(g[i], <<w, Len(cells[w]) + 1, i>>, t.args)]
  /\ \A i \in 1 .. k : <<g[i], t.args>> \in DOMAIN Values
  /\ Wanted(f, <<Values[<<g[1], t.args>>], IF k = 2 THEN Values[<<g[2], t.args>>] ELSE None>>,
            want, t.ret)

LEMMA BodyRight ==
  ASSUME program \in Programs, NEW f, NEW args, <<f, args>> \in DOMAIN Values
  PROVE  Obeys(Values, program, <<f, args>>)
  BY EvaluationAssumption DEF Values

LEMMA DispatchRight ==
  ASSUME TypeOK, NEW w \in Worker, NEW t \in TaskSet, NEW want, Good(t, want),
         NEW d, d = Dispatch(w, t)
  PROVE  \/ Answers(w, t, d, want)
         \/ \E k \in 1 .. 2 : \E f \in Name : \E g : Splits(w, t, d, want, k, f, g)
  <1>1. PICK body : body = program[t.fn]
    OBVIOUS
  <1>2. PICK args : args = t.args
    OBVIOUS
  <1>3. program \in Programs /\ t.fn \in Name
    BY DEF TypeOK, TaskSet
  <1>4. \/ body \in [kind : {"value"}]
        \/ body \in [kind : {"tail"}, call : Name]
        \/ body \in [kind : {"call"}, call : Name, cont : Name]
        \/ body \in [kind : {"split"}, call : [1 .. 2 -> Name], cont : Name]
    BY <1>1, <1>3, ProgramAssumption DEF Name
  <1>5. <<t.fn, args>> \in DOMAIN Values /\ Values[<<t.fn, args>>] = want[t.ret]
    BY <1>2 DEF Good, Wanted
  <1>6. Obeys(Values, program, <<t.fn, args>>)
    BY <1>3, <1>5, BodyRight
  <1>7. CASE body \in [kind : {"value"}]
    <2>1. body.kind = "value"
      BY <1>7
    <2>2. PICK v : v = <<t.fn>> \o t.args[1] \o t.args[2]
      OBVIOUS
    <2>3. d = [kind |-> "value", cells |-> cells[w], tasks |-> <<>>, val |-> v]
      BY <1>1, <2>1, <2>2 DEF Dispatch
    <2>4. Values[<<t.fn, args>>] = v
      <3>1. PICK c : c = <<t.fn, args>>
        OBVIOUS
      <3>2. c[1] = t.fn /\ c[2] = args
        BY <3>1
      <3>3. Obeys(Values, program, c) /\ program[c[1]].kind = "value"
        BY <1>1, <1>6, <2>1, <3>1, <3>2
      <3>4. Values[c] = <<c[1]>> \o c[2][1] \o c[2][2]
        BY ONLY <3>3 DEF Obeys
      <3> QED
        BY <1>2, <2>2, <3>1, <3>2, <3>4
    <2>5. d.kind = "value" /\ d.cells = cells[w] /\ d.tasks = <<>> /\ d.val = v
      BY <2>3
    <2> QED
      BY <1>2, <1>5, <2>4, <2>5 DEF Answers
  <1>8. CASE body \in [kind : {"tail"}, call : Name]
    <2>1. body.kind = "tail"
      BY <1>8
    <2>2. d = [kind |-> "call", cells |-> cells[w], val |-> None,
               tasks |-> <<Task(body.call, t.ret, t.args)>>]
      BY <1>1, <2>1 DEF Dispatch
    <2>3. <<body.call, args>> \in DOMAIN Values /\ Values[<<body.call, args>>] = Values[<<t.fn, args>>]
      BY <1>1, <1>6, <2>1 DEF Obeys
    <2>4. Wanted(body.call, t.args, want, t.ret)
      BY <1>2, <1>5, <2>3 DEF Wanted
    <2> QED
      BY <2>2, <2>4 DEF Answers
  <1>9. CASE body \in [kind : {"call"}, call : Name, cont : Name]
    <2>1. body.kind = "call" /\ body.cont \in Name
      BY <1>9
    <2>2. PICK g : g = <<body.call>>
      OBVIOUS
    <2>3. d = [kind |-> "call", cells |-> Append(cells[w], NewCell(body.cont, t.ret, 1)), val |-> None,
               tasks |-> <<Task(body.call, Ret(w, Len(cells[w]) + 1, 1), t.args)>>]
      BY <1>1, <2>1 DEF Dispatch
    <2>4. d.tasks = [i \in 1 .. 1 |-> Task(g[i], <<w, Len(cells[w]) + 1, i>>, t.args)]
      BY <2>2, <2>3 DEF Ret
    <2>5. /\ <<body.call, args>> \in DOMAIN Values
          /\ <<body.cont, <<Values[<<body.call, args>>], None>>>> \in DOMAIN Values
          /\ Values[<<body.cont, <<Values[<<body.call, args>>], None>>>>] = Values[<<t.fn, args>>]
      BY <1>1, <1>6, <2>1 DEF Obeys
    <2>6. g[1] = body.call
      BY <2>2
    <2>7. \A i \in 1 .. 1 : <<g[i], t.args>> \in DOMAIN Values
      BY <1>2, <2>5, <2>6
    <2>8. Wanted(body.cont, <<Values[<<g[1], t.args>>], None>>, want, t.ret)
      BY <1>2, <1>5, <2>5, <2>6 DEF Wanted
    <2>9. Splits(w, t, d, want, 1, body.cont, g)
      BY <2>3, <2>4, <2>7, <2>8 DEF Splits
    <2> QED
      BY <2>1, <2>9
  <1>10. CASE body \in [kind : {"split"}, call : [1 .. 2 -> Name], cont : Name]
    <2>1. body.kind = "split" /\ body.cont \in Name
      BY <1>10
    <2>2. PICK g : g = body.call
      OBVIOUS
    <2>3. d = [kind |-> "split", cells |-> Append(cells[w], NewCell(body.cont, t.ret, 2)), val |-> None,
               tasks |-> [i \in 1 .. 2 |-> Task(g[i], Ret(w, Len(cells[w]) + 1, i), t.args)]]
      BY <1>1, <2>1, <2>2 DEF Dispatch
    <2>4. d.tasks = [i \in 1 .. 2 |-> Task(g[i], <<w, Len(cells[w]) + 1, i>>, t.args)]
      BY <2>3 DEF Ret
    <2>5. /\ <<g[1], args>> \in DOMAIN Values /\ <<g[2], args>> \in DOMAIN Values
          /\ <<body.cont, <<Values[<<g[1], args>>], Values[<<g[2], args>>]>>>> \in DOMAIN Values
          /\ Values[<<body.cont, <<Values[<<g[1], args>>], Values[<<g[2], args>>]>>>>]
               = Values[<<t.fn, args>>]
      BY <1>1, <1>6, <2>1, <2>2 DEF Obeys
    <2>6. \A i \in 1 .. 2 : <<g[i], t.args>> \in DOMAIN Values
      BY <1>2, <2>5
    <2>7. Wanted(body.cont, <<Values[<<g[1], t.args>>], Values[<<g[2], t.args>>]>>, want, t.ret)
      BY <1>2, <1>5, <2>5 DEF Wanted
    <2>8. Splits(w, t, d, want, 2, body.cont, g)
      BY <2>3, <2>4, <2>6, <2>7 DEF Splits
    <2> QED
      BY <2>1, <2>8
  <1> QED
    BY <1>4, <1>7, <1>8, <1>9, <1>10

-----------------------------------------------------------------------------
(* The places that a dispatch makes *)

Agree(want, next) == \A r \in Places : next[r] = want[r]

LEMMA GoodKept ==
  ASSUME NEW want, NEW next, Agree(want, next), program' = program,
         NEW t, t.ret \in Places, Good(t, want)
  PROVE  Good(t, next) /\ Good(t, next)'
  <1>1. next[t.ret] = want[t.ret]
    BY DEF Agree
  <1>2. Values' = Values
    BY DEF Values
  <1> QED
    BY <1>1, <1>2 DEF Good, Wanted

LEMMA CellRightKept ==
  ASSUME NEW want, NEW next, Agree(want, next), program' = program,
         NEW v, NEW n, NEW c, c.kids \in 1 .. 2, c.ret \in Places,
         \A i \in 1 .. c.kids : <<v, n, i>> \in Places,
         CellRight(v, n, c, want)
  PROVE  CellRight(v, n, c, next)
  <1>1. next[c.ret] = want[c.ret]
    BY DEF Agree
  <1>2. \A i \in 1 .. c.kids : next[<<v, n, i>>] = want[<<v, n, i>>]
    BY DEF Agree
  <1>3. 1 \in 1 .. c.kids /\ (c.kids = 2 => 2 \in 1 .. c.kids)
    OBVIOUS
  <1>4. PICK args : args = <<want[<<v, n, 1>>], IF c.kids = 2 THEN want[<<v, n, 2>>] ELSE None>>
    OBVIOUS
  <1>5. args = <<next[<<v, n, 1>>], IF c.kids = 2 THEN next[<<v, n, 2>>] ELSE None>>
    BY <1>2, <1>3, <1>4
  <1>6. Wanted(c.cont, args, next, c.ret)
    BY <1>1, <1>4 DEF CellRight, Wanted
  <1> QED
    BY <1>2, <1>5, <1>6 DEF CellRight

\* What a cell of the next state is to have, stated of this one.
LEMMA CellRightNext ==
  ASSUME program' = program, NEW next, NEW v, NEW n, NEW c, c = cells'[v][n],
         CellRight(v, n, c, next)
  PROVE  CellRight(v, n, cells[v][n], next)'
  <1>1. Values' = Values /\ None' = None
    BY DEF Values, None
  <1> QED
    BY <1>1 DEF CellRight, Wanted

LEMMA CellPlaces ==
  ASSUME TypeOK, NEW v \in Worker, NEW n \in DOMAIN cells[v]
  PROVE  /\ cells[v][n].kids \in 1 .. 2 /\ cells[v][n].ret \in Places
         /\ \A i \in 1 .. cells[v][n].kids : <<v, n, i>> \in Places
  <1>1. cells[v][n] \in CellSet
    BY ElementOfSeq, LenProperties DEF TypeOK
  <1> QED
    BY <1>1, PlaceCases DEF CellSet

\* The values of the new state: next.
Extends(want, next, t, d) ==
  /\ Agree(want, next) /\ CellsRight(next)'
  /\ \A i \in DOMAIN d.tasks : Good(d.tasks[i], next)'
  /\ d.kind = "value" => d.val = want[t.ret]

LEMMA AnswersExtend ==
  ASSUME TypeOK, program' = program, NEW want, CellsRight(want),
         NEW w \in Worker, NEW t \in TaskSet, NEW d, Answers(w, t, d, want),
         cells' = [cells EXCEPT ![w] = d.cells]
  PROVE  Extends(want, want, t, d)
  <1>1. Agree(want, want) /\ Values' = Values
    BY DEF Agree, Values
  <1>2. cells' = cells
    BY DEF Answers, TypeOK
  <1>3. CellsRight(want)'
    <2> SUFFICES ASSUME NEW v \in Worker, NEW n \in DOMAIN cells[v]
                 PROVE  CellRight(v, n, cells[v][n], want)'
      BY <1>2 DEF CellsRight
    <2>1. PICK c : c = cells[v][n]
      OBVIOUS
    <2>2. CellRight(v, n, c, want)
      BY <2>1 DEF CellsRight
    <2> QED
      BY <1>2, <2>1, <2>2, CellRightNext
  <1>4. \A i \in DOMAIN d.tasks : Good(d.tasks[i], want)'
    <2>1. CASE d.tasks = <<>>
      BY <2>1
    <2>2. ASSUME NEW f, d.tasks = <<Task(f, t.ret, t.args)>>, Wanted(f, t.args, want, t.ret)
          PROVE  \A i \in DOMAIN d.tasks : Good(d.tasks[i], want)'
      <3>1. PICK u : u = Task(f, t.ret, t.args)
        OBVIOUS
      <3>2. u.fn = f /\ u.args = t.args /\ u.ret = t.ret
        BY <3>1 DEF Task
      <3>3. Good(u, want)'
        BY <1>1, <2>2, <3>2 DEF Good, Wanted
      <3>4. \A i \in DOMAIN <<u>> : <<u>>[i] = u
        OBVIOUS
      <3>5. \A i \in DOMAIN d.tasks : d.tasks[i] = u
        BY <2>2, <3>1, <3>4
      <3> QED
        BY <3>3, <3>5
    <2> QED
      BY <2>1, <2>2 DEF Answers
  <1> QED
    BY <1>1, <1>3, <1>4 DEF Extends, Answers

LEMMA SplitsExtend ==
  ASSUME TypeOK, program' = program, NEW want, CellsRight(want),
         NEW w \in Worker, NEW t \in TaskSet, NEW d,
         NEW k \in 1 .. 2, NEW f \in Name, NEW g, Splits(w, t, d, want, k, f, g),
         cells' = [cells EXCEPT ![w] = d.cells]
  PROVE  \E next : Extends(want, next, t, d)
  <1>1. PICK n : n = Len(cells[w]) + 1
    OBVIOUS
  <1>2. PICK c : c = NewCell(f, t.ret, k)
    OBVIOUS
  <1>3. CellComes(w, n, c)
    BY <1>1, <1>2, NewCellIs DEF Splits
  <1>4. PICK val : val = [i \in 1 .. 2 |-> Values[<<g[i], t.args>>]]
    OBVIOUS
  <1>5. PICK next : next = [r \in Places \cup {<<w, n, 1>>, <<w, n, 2>>} |->
                              IF r \in Places THEN want[r] ELSE val[r[3]]]
    OBVIOUS
  <1>6. \A i \in 1 .. 2 : <<w, n, i>> \notin Places
    BY <1>3, PlaceCases DEF CellComes, Root
  <1>7. Agree(want, next)
    BY <1>5 DEF Agree
  <1>8. \A i \in 1 .. 2 : next[<<w, n, i>>] = val[i]
    <2>1. \A i \in 1 .. 2 : <<w, n, i>> \in {<<w, n, 1>>, <<w, n, 2>>} /\ <<w, n, i>>[3] = i
      OBVIOUS
    <2> QED
      BY <1>5, <1>6, <2>1
  <1>9. Values' = Values /\ None' = None /\ t.ret \in Places /\ next[t.ret] = want[t.ret]
    BY <1>7 DEF Values, None, TaskSet, Agree
  <1>10. /\ c.kids = k /\ c.child = <<None, None>> /\ c.cont = f /\ c.ret = t.ret
         /\ \A i \in 1 .. 2 : c.child[i] = None
    <2>1. c.kids = k /\ c.child = <<None, None>> /\ c.cont = f /\ c.ret = t.ret
      BY <1>2 DEF NewCell
    <2> QED
      BY <2>1
  <1>11. CellRight(w, n, c, next)
    <2>1. PICK args : args = <<val[1], IF k = 2 THEN val[2] ELSE None>>
      OBVIOUS
    <2>2. args = <<next[<<w, n, 1>>], IF c.kids = 2 THEN next[<<w, n, 2>>] ELSE None>>
      BY <1>8, <1>10, <2>1
    <2>3. args = <<Values[<<g[1], t.args>>], IF k = 2 THEN Values[<<g[2], t.args>>] ELSE None>>
      BY <1>4, <2>1
    <2>4. Wanted(f, args, next, t.ret)
      BY <1>9, <2>3 DEF Splits, Wanted
    <2>5. \A i \in 1 .. c.kids : i \in 1 .. 2
      BY <1>10
    <2> QED
      BY <1>10, <2>2, <2>4, <2>5 DEF CellRight
  <1>12. CellsRight(next)'
    <2> SUFFICES ASSUME NEW v \in Worker, NEW m \in DOMAIN cells'[v]
                 PROVE  CellRight(v, m, cells[v][m], next)'
      BY DEF CellsRight
    <2>1. CASE v = w /\ m = n
      <3>1. c = cells'[v][m]
        BY <1>3, <2>1 DEF CellComes
      <3> QED
        BY <1>11, <2>1, <3>1, CellRightNext
    <2>2. CASE ~(v = w /\ m = n)
      <3>1. m \in DOMAIN cells[v] /\ cells'[v][m] = cells[v][m]
        BY <1>3, <2>2 DEF CellComes
      <3>2. PICK b : b = cells[v][m]
        OBVIOUS
      <3>3. CellRight(v, m, b, want)
        BY <3>1, <3>2 DEF CellsRight
      <3>4. /\ b.kids \in 1 .. 2 /\ b.ret \in Places
            /\ \A i \in 1 .. b.kids : <<v, m, i>> \in Places
        BY <3>1, <3>2, CellPlaces
      <3>5. CellRight(v, m, b, next)
        BY <1>7, <3>3, <3>4, CellRightKept
      <3> QED
        BY <3>1, <3>2, <3>5, CellRightNext
    <2> QED
      BY <2>1, <2>2
  <1>13. \A i \in DOMAIN d.tasks : Good(d.tasks[i], next)'
    <2>1. PICK tasks : tasks = [i \in 1 .. k |-> Task(g[i], <<w, n, i>>, t.args)]
      OBVIOUS
    <2>2. d.tasks = tasks /\ \A i \in 1 .. k : <<g[i], t.args>> \in DOMAIN Values
      BY <1>1, <2>1 DEF Splits
    <2> SUFFICES ASSUME NEW i \in 1 .. k
                 PROVE  Good(tasks[i], next)'
      BY <2>1, <2>2
    <2>3. PICK u : u = Task(g[i], <<w, n, i>>, t.args)
      OBVIOUS
    <2>4. tasks[i] = u /\ u.fn = g[i] /\ u.args = t.args /\ u.ret = <<w, n, i>>
      BY <2>1, <2>3 DEF Task
    <2>5. i \in 1 .. 2 /\ val[i] = Values[<<g[i], t.args>>]
      BY <1>4
    <2>6. Good(u, next)'
      BY <1>8, <1>9, <2>2, <2>4, <2>5 DEF Good, Wanted
    <2> QED
      BY <2>4, <2>6
  <1>14. d.kind # "value"
    BY DEF Splits
  <1> QED
    BY <1>7, <1>12, <1>13, <1>14 DEF Extends

-----------------------------------------------------------------------------
(* The tasks of the next state *)

OldTask(t) ==
  \/ \E v \in Worker : \E i \in DOMAIN stack[v] : t = stack[v][i]
  \/ \E v \in Worker : \E i \in DOMAIN wo[v] : t = wo[v][i]
  \/ t # NoTask /\ \E i \in 0 .. QueueCap - 1 : t = buf[i]

LEMMA OldTaskIs ==
  ASSUME TypeOK, NEW t, OldTask(t), NEW want, TasksRight(want)
  PROVE  t \in TaskSet /\ Good(t, want)
  <1>1. /\ \A v \in Worker : stack[v] \in Seq(TaskSet) /\ wo[v] \in Seq(TaskSet)
        /\ \A i \in 0 .. QueueCap - 1 : buf[i] \in TaskSet \/ buf[i] = NoTask
    BY DEF TypeOK
  <1>2. CASE \E v \in Worker : \E i \in DOMAIN stack[v] : t = stack[v][i]
    <2>1. PICK v \in Worker : \E i \in DOMAIN stack[v] : t = stack[v][i]
      BY <1>2
    <2>2. PICK i \in DOMAIN stack[v] : t = stack[v][i]
      BY <2>1
    <2>3. t \in TaskSet
      BY <1>1, <2>2, ElementOfSeq, LenProperties
    <2> QED
      BY <2>2, <2>3 DEF TasksRight
  <1>3. CASE \E v \in Worker : \E i \in DOMAIN wo[v] : t = wo[v][i]
    <2>1. PICK v \in Worker : \E i \in DOMAIN wo[v] : t = wo[v][i]
      BY <1>3
    <2>2. PICK i \in DOMAIN wo[v] : t = wo[v][i]
      BY <2>1
    <2>3. t \in TaskSet
      BY <1>1, <2>2, ElementOfSeq, LenProperties
    <2> QED
      BY <2>2, <2>3 DEF TasksRight
  <1>4. CASE t # NoTask /\ \E i \in 0 .. QueueCap - 1 : t = buf[i]
    BY <1>1, <1>4 DEF TasksRight
  <1> QED
    BY <1>2, <1>3, <1>4 DEF OldTask

\* t is an old task, or one of those that a dispatch returned.
Brought(t, tasks) == OldTask(t) \/ \E i \in DOMAIN tasks : t = tasks[i]

LEMMA TasksNext ==
  ASSUME TypeOK, program' = program, NEW want, NEW next, Agree(want, next), TasksRight(want),
         NEW tasks, \A i \in DOMAIN tasks : Good(tasks[i], next)',
         \A v \in Worker : \A i \in DOMAIN stack'[v] : Brought(stack'[v][i], tasks),
         \A v \in Worker : \A i \in DOMAIN wo'[v] : Brought(wo'[v][i], tasks),
         \A i \in 0 .. QueueCap - 1 : buf'[i] # NoTask => Brought(buf'[i], tasks)
  PROVE  TasksRight(next)'
  <1>1. ASSUME NEW t, Brought(t, tasks)
        PROVE  Good(t, next)'
    <2>1. CASE OldTask(t)
      <3>1. t.ret \in Places /\ Good(t, want)
        BY <2>1, OldTaskIs DEF TaskSet
      <3> QED
        BY <3>1, GoodKept
    <2>2. CASE \E i \in DOMAIN tasks : t = tasks[i]
      BY <2>2
    <2> QED
      BY <1>1, <2>1, <2>2 DEF Brought
  <1>2. ASSUME NEW v \in Worker, NEW i \in DOMAIN stack'[v]
        PROVE  Good(stack[v][i], next)'
    <2>1. PICK t : t = stack'[v][i]
      OBVIOUS
    <2>2. Good(t, next)'
      BY <1>1, <1>2, <2>1
    <2> QED
      BY <2>1, <2>2 DEF Good, Wanted
  <1>3. ASSUME NEW v \in Worker, NEW i \in DOMAIN wo'[v]
        PROVE  Good(wo[v][i], next)'
    <2>1. PICK t : t = wo'[v][i]
      OBVIOUS
    <2>2. Good(t, next)'
      BY <1>1, <1>3, <2>1
    <2> QED
      BY <2>1, <2>2 DEF Good, Wanted
  <1>4. ASSUME NEW i \in 0 .. QueueCap - 1, buf'[i] # NoTask
        PROVE  Good(buf[i], next)'
    <2>1. PICK t : t = buf'[i]
      OBVIOUS
    <2>2. Good(t, next)'
      BY <1>1, <1>4, <2>1
    <2> QED
      BY <2>1, <2>2 DEF Good, Wanted
  <1>5. NoTask' = NoTask
    BY DEF NoTask, Task, Root, None
  <1> QED
    BY <1>2, <1>3, <1>4, <1>5 DEF TasksRight

\* A dispatch whose tasks go to a stack or to a flush buffer.
Dispatched(w, t, d) ==
  /\ d = Dispatch(w, t) /\ cells' = [cells EXCEPT ![w] = d.cells]
  /\ program' = program /\ buf' = buf /\ result' = result
  /\ \A v \in Worker : \A i \in DOMAIN stack'[v] : Brought(stack'[v][i], d.tasks)
  /\ \A v \in Worker : \A i \in DOMAIN wo'[v] : Brought(wo'[v][i], d.tasks)
  /\ \A v \in Worker : v # w => pc'[v] = pc[v] /\ res'[v] = res[v]
  /\ pc'[w] = "resolve" => d.kind = "value" /\ res'[w].ret = t.ret /\ res'[w].val = d.val

LEMMA RightDispatch ==
  ASSUME TypeOK, NEW want, Right(want), NEW w \in Worker, NEW t \in TaskSet, Good(t, want),
         NEW d, Dispatched(w, t, d)
  PROVE  \E next : Right(next)'
  <1> USE DEF Dispatched
  <1>1. TasksRight(want) /\ CellsRight(want) /\ ValuesRight(want)
    BY DEF Right
  <1>2. PICK next : Extends(want, next, t, d)
    BY <1>1, DispatchRight, AnswersExtend, SplitsExtend
  <1>3. Agree(want, next) /\ CellsRight(next)' /\ \A i \in DOMAIN d.tasks : Good(d.tasks[i], next)'
    BY <1>2 DEF Extends
  <1>4. TasksRight(next)'
    <2>1. \A i \in 0 .. QueueCap - 1 : buf'[i] # NoTask => Brought(buf'[i], d.tasks)
      BY DEF Brought, OldTask
    <2> QED
      BY <1>1, <1>3, <2>1, TasksNext
  <1>5. ValuesRight(next)'
    <2>1. Values' = Values /\ Main' = Main /\ None' = None /\ Root' = Root
      BY DEF Values, Main, None, Root
    <2>2. Root \in Places
      BY PlaceCases
    <2>3. next[Root] = want[Root]
      BY <1>3, <2>2 DEF Agree
    <2>4. ASSUME NEW v \in Worker, pc'[v] = "resolve"
          PROVE  res'[v].val = next[res'[v].ret]
      <3>1. CASE v = w
        <4>1. res'[v].ret = t.ret /\ res'[v].val = want[t.ret] /\ t.ret \in Places
          BY <1>2, <2>4, <3>1 DEF Extends, TaskSet
        <4> QED
          BY <1>3, <4>1 DEF Agree
      <3>2. CASE v # w
        <4>1. res'[v] = res[v] /\ res[v].val = want[res[v].ret] /\ res[v].ret \in Places
          BY <1>1, <2>4, <3>2 DEF ValuesRight, TypeOK
        <4> QED
          BY <1>3, <4>1 DEF Agree
      <3> QED
        BY <3>1, <3>2
    <2> QED
      BY <1>1, <2>1, <2>3, <2>4 DEF ValuesRight
  <1> QED
    BY <1>3, <1>4, <1>5 DEF Right

-----------------------------------------------------------------------------
(* The actions that dispatch *)

LEMMA BroughtJoin ==
  ASSUME NEW S, NEW s \in Seq(S), NEW q \in Seq(S), NEW tasks,
         \A i \in DOMAIN s : OldTask(s[i]),
         \A j \in DOMAIN q : \E i \in DOMAIN tasks : q[j] = tasks[i]
  PROVE  \A i \in DOMAIN (s \o q) : Brought((s \o q)[i], tasks)
  <1>1. PICK r : r = s \o q
    OBVIOUS
  <1>2. JoinOf(s, q, r)
    BY <1>1, JoinIs
  <1>3. PICK l \in Nat : \E k \in Nat :
          /\ DOMAIN s = 1 .. l /\ DOMAIN q = 1 .. k /\ DOMAIN r = 1 .. l + k
          /\ \A i \in 1 .. l : r[i] = s[i]
          /\ \A i \in 1 .. k : r[l + i] = q[i]
    BY <1>2 DEF JoinOf
  <1>4. PICK k \in Nat :
          /\ DOMAIN s = 1 .. l /\ DOMAIN q = 1 .. k /\ DOMAIN r = 1 .. l + k
          /\ \A i \in 1 .. l : r[i] = s[i]
          /\ \A i \in 1 .. k : r[l + i] = q[i]
    BY <1>3
  <1>5. ASSUME NEW i \in 1 .. l + k
        PROVE  Brought(r[i], tasks)
    <2>1. CASE i \in 1 .. l
      BY <1>4, <2>1 DEF Brought
    <2>2. CASE i \notin 1 .. l
      <3>1. PICK j \in 1 .. k : i = l + j
        <4>1. i - l \in 1 .. k /\ i = l + (i - l)
          BY <2>2
        <4> QED
          BY <4>1
      <3>2. r[i] = q[j] /\ j \in DOMAIN q
        BY <1>4, <3>1
      <3> QED
        BY <3>2 DEF Brought
    <2> QED
      BY <2>1, <2>2
  <1> QED
    BY <1>1, <1>4, <1>5

LEMMA BroughtOld ==
  /\ \A v \in Worker : \A i \in DOMAIN stack[v] : OldTask(stack[v][i])
  /\ \A v \in Worker : \A i \in DOMAIN wo[v] : OldTask(wo[v][i])
  BY DEF OldTask

LEMMA QueueFits ==
  ASSUME Inv
  PROVE  \A i \in 0 .. taskCnt - 1 : i \in 0 .. QueueCap - 1 /\ OldTask(buf[i])
  <1> TAKE i \in 0 .. taskCnt - 1
  <1>1. taskCnt \in Nat /\ taskCnt <= 4 * Threads - 2 /\ buf[i] \in TaskSet /\ program \in Programs
    BY DEF Inv, TypeOK, Numbers, Queue
  <1>2. i \in 0 .. QueueCap - 1
    BY <1>1, WorkerIs, CapAssumption, QueueAssumption
  <1>3. buf[i].fn \in Name
    BY <1>1 DEF TaskSet
  <1>4. NoTask.fn = "none"
    BY DEF NoTask, Task
  <1>5. buf[i] # NoTask
    BY <1>1, <1>3, <1>4, NameAssumption DEF Name
  <1> QED
    BY <1>2, <1>5 DEF OldTask

LEMMA RightTakeSeed ==
  ASSUME HInv, NEW want, Right(want), NEW w \in Worker, TakeSeed(w)
  PROVE  \E next : Right(next)'
  <1>1. PICK x : x = Head(grab[w])
    OBVIOUS
  <1>2. PICK t : t = buf[x]
    OBVIOUS
  <1>3. PICK d : d = Dispatch(w, t)
    OBVIOUS
  <1>5. /\ program' = program /\ cells' = [cells EXCEPT ![w] = d.cells]
        /\ IF d.kind = "value"
           THEN /\ res' = [res EXCEPT ![w] = [ret |-> t.ret, val |-> d.val]]
                /\ Goto(w, "resolve") /\ wo' = wo
           ELSE /\ wo' = [wo EXCEPT ![w] = @ \o d.tasks]
                /\ Dealt(w, wo'[w], Tail(grab[w])) /\ res' = res
        /\ stack' = stack /\ buf' = buf /\ result' = result /\ pc[w] = "take"
    BY <1>1, <1>2, <1>3 DEF TakeSeed, queue, answer
  <1>6. /\ Inv /\ TypeOK /\ wo \in [Worker -> Seq(TaskSet)] /\ res \in [Worker -> [ret : Places, val : Val]]
        /\ pc \in [Worker -> RoundPc \cup BarrierPc \cup {"check", "next", "compact", "again", "quit"}]
    BY DEF HInv, Inv, TypeOK
  <1>7. x \in 0 .. taskCnt - 1
    BY <1>1, <1>6, TakenIs DEF TakeSeed, Inv, Private
  <1>8. t \in TaskSet /\ Good(t, want)
    <2>1. OldTask(t)
      BY <1>2, <1>6, <1>7, QueueFits
    <2> QED
      BY <1>6, <2>1, OldTaskIs DEF Right
  <1>9. /\ d.tasks \in Seq(TaskSet') /\ Seq(TaskSet) \subseteq Seq(TaskSet')
    BY <1>3, <1>5, <1>6, <1>8, ReturnsIs
  <1>10. \A v \in Worker : \A i \in DOMAIN wo'[v] : Brought(wo'[v][i], d.tasks)
    <2>1. \A v \in Worker : \A i \in DOMAIN wo[v] : Brought(wo[v][i], d.tasks)
      BY BroughtOld DEF Brought
    <2>2. CASE d.kind = "value"
      BY <1>5, <2>1, <2>2
    <2>3. CASE d.kind # "value"
      <3>1. PICK S : S = TaskSet'
        OBVIOUS
      <3>2. wo[w] \in Seq(S) /\ d.tasks \in Seq(S)
        BY <1>6, <1>9, <3>1
      <3>3. PICK r : r = wo[w] \o d.tasks
        OBVIOUS
      <3>4. \A i \in DOMAIN r : Brought(r[i], d.tasks)
        BY <3>2, <3>3, BroughtOld, BroughtJoin
      <3>5. wo'[w] = r /\ \A v \in Worker : v # w => wo'[v] = wo[v]
        BY <1>5, <1>6, <2>3, <3>3
      <3> QED
        BY <2>1, <3>4, <3>5
    <2> QED
      BY <2>2, <2>3
  <1>11. \A v \in Worker : \A i \in DOMAIN stack'[v] : Brought(stack'[v][i], d.tasks)
    BY <1>5, BroughtOld DEF Brought
  <1>12. /\ \A v \in Worker : v # w => pc'[v] = pc[v] /\ res'[v] = res[v]
         /\ pc'[w] = "resolve" => d.kind = "value" /\ res'[w].ret = t.ret /\ res'[w].val = d.val
    <2>1. CASE d.kind = "value"
      BY <1>5, <1>6, <2>1 DEF Goto
    <2>2. CASE d.kind # "value"
      <3>1. PICK l \in {"descend", "flush", "grab", "take"} : pc' = [pc EXCEPT ![w] = l]
        BY <1>5, <2>2, DealtIs
      <3> QED
        BY <1>5, <1>6, <2>2, <3>1
    <2> QED
      BY <2>1, <2>2
  <1>13. Dispatched(w, t, d)
    BY <1>3, <1>5, <1>10, <1>11, <1>12 DEF Dispatched
  <1> QED
    BY <1>6, <1>8, <1>13, RightDispatch

LEMMA RightDescend ==
  ASSUME HInv, NEW want, Right(want), NEW w \in Worker, Descend(w)
  PROVE  \E next : Right(next)'
  <1>1. PICK s : s = stack[w]
    OBVIOUS
  <1>2. PICK t : t = Last(s)
    OBVIOUS
  <1>3. PICK d : d = Dispatch(w, t)
    OBVIOUS
  <1>5. /\ program' = program /\ cells' = [cells EXCEPT ![w] = d.cells]
        /\ stack' = [stack EXCEPT ![w] = Front(s) \o Reverse(d.tasks)]
        /\ IF d.kind = "value"
           THEN /\ res' = [res EXCEPT ![w] = [ret |-> t.ret, val |-> d.val]]
                /\ Goto(w, "resolve")
           ELSE pc' = pc /\ res' = res
        /\ wo' = wo /\ buf' = buf /\ result' = result /\ pc[w] = "descend" /\ s # <<>>
    BY <1>1, <1>2, <1>3 DEF Descend, queue, answer
  <1>6. /\ Inv /\ TypeOK /\ stack \in [Worker -> Seq(TaskSet)] /\ res \in [Worker -> [ret : Places, val : Val]]
        /\ pc \in [Worker -> RoundPc \cup BarrierPc \cup {"check", "next", "compact", "again", "quit"}]
        /\ s \in Seq(TaskSet)
    BY <1>1 DEF HInv, Inv, TypeOK
  <1>7. PICK n \in Nat \ {0} : n = Len(s) /\ DOMAIN s = 1 .. n
    BY <1>5, <1>6, FrontIs, LenProperties
  <1>8. PICK base : base = Front(s)
    OBVIOUS
  <1>9. /\ t = s[n] /\ base \in Seq(TaskSet) /\ Len(base) = n - 1
        /\ \A i \in 1 .. n - 1 : base[i] = s[i]
    BY <1>2, <1>5, <1>6, <1>7, <1>8, FrontIs
  <1>10. OldTask(t) /\ \A i \in DOMAIN base : OldTask(base[i])
    <2>1. \A i \in DOMAIN s : OldTask(s[i])
      BY <1>1, BroughtOld
    <2>2. DOMAIN base = 1 .. n - 1
      BY <1>9, LenProperties
    <2> QED
      BY <1>7, <1>9, <2>1, <2>2
  <1>11. t \in TaskSet /\ Good(t, want)
    BY <1>6, <1>10, OldTaskIs DEF Right
  <1>12. /\ d.tasks \in Seq(TaskSet') /\ Seq(TaskSet) \subseteq Seq(TaskSet')
    BY <1>3, <1>5, <1>6, <1>11, ReturnsIs
  <1>13. PICK S : S = TaskSet'
    OBVIOUS
  <1>14. PICK add : add = Reverse(d.tasks)
    OBVIOUS
  <1>15. /\ add \in Seq(S) /\ base \in Seq(S)
         /\ \A j \in DOMAIN add : \E i \in DOMAIN d.tasks : add[j] = d.tasks[i]
    <2>1. d.tasks \in Seq(S) /\ base \in Seq(S)
      BY <1>9, <1>12, <1>13
    <2>2. PICK k \in Nat : \E p : Orders(k, p, d.tasks, add)
      BY <1>14, <2>1, Reversed
    <2>3. PICK p : Orders(k, p, d.tasks, add)
      BY <2>2
    <2>4. \A j \in DOMAIN add : \E i \in DOMAIN d.tasks : add[j] = d.tasks[i]
      <3>1. DOMAIN d.tasks = 1 .. k /\ DOMAIN add = 1 .. k
        BY <2>3 DEF Orders
      <3> TAKE j \in DOMAIN add
      <3>2. PICK i \in 1 .. k : p[i] = j
        BY <2>3, <3>1 DEF Orders
      <3>3. add[p[i]] = d.tasks[i]
        BY <2>3, <3>2 DEF Orders
      <3> QED
        BY <3>1, <3>2, <3>3
    <2> QED
      BY <1>14, <2>1, <2>4, ReverseIs
  <1>16. PICK r : r = base \o add
    OBVIOUS
  <1>17. \A i \in DOMAIN r : Brought(r[i], d.tasks)
    BY <1>10, <1>15, <1>16, BroughtJoin
  <1>18. \A v \in Worker : \A i \in DOMAIN stack'[v] : Brought(stack'[v][i], d.tasks)
    <2>1. stack'[w] = r /\ \A v \in Worker : v # w => stack'[v] = stack[v]
      BY <1>5, <1>6, <1>8, <1>14, <1>16
    <2>2. \A v \in Worker : \A i \in DOMAIN stack[v] : Brought(stack[v][i], d.tasks)
      BY BroughtOld DEF Brought
    <2> QED
      BY <1>17, <2>1, <2>2
  <1>19. \A v \in Worker : \A i \in DOMAIN wo'[v] : Brought(wo'[v][i], d.tasks)
    BY <1>5, BroughtOld DEF Brought
  <1>20. /\ \A v \in Worker : v # w => pc'[v] = pc[v] /\ res'[v] = res[v]
         /\ pc'[w] = "resolve" => d.kind = "value" /\ res'[w].ret = t.ret /\ res'[w].val = d.val
    BY <1>5, <1>6 DEF Goto
  <1>21. Dispatched(w, t, d)
    BY <1>3, <1>5, <1>18, <1>19, <1>20 DEF Dispatched
  <1> QED
    BY <1>6, <1>11, <1>21, RightDispatch

\* The continuation of a cell with all its values there.
LEMMA FiredRight ==
  ASSUME HInv, NEW want, Right(want), NEW w \in Worker, pc[w] = "fire"
  PROVE  Fired(CellAt(res[w].ret)) \in TaskSet /\ Good(Fired(CellAt(res[w].ret)), want)
  <1>1. PICK r : r = res[w].ret
    OBVIOUS
  <1>2. TypeOK /\ r \in Places /\ r # Root
    BY <1>1 DEF HInv, Inv, Private, TypeOK
  <1>3. PICK c : c = CellAt(r)
    OBVIOUS
  <1>4. PICK t : t = Fired(c)
    OBVIOUS
  <1>5. PICK v : v = r[1]
    OBVIOUS
  <1>6. PICK n : n = r[2]
    OBVIOUS
  <1>7. v \in Worker /\ n \in DOMAIN cells[v] /\ c = cells[v][n] /\ c \in CellSet
    BY <1>2, <1>3, <1>5, <1>6, PlaceIs DEF CellAt
  <1>8. CellRight(v, n, c, want)
    BY <1>7 DEF Right, CellsRight
  <1>9. \A i \in 1 .. c.kids : c.child[i] # None
    BY <1>1, <1>3, FiresReadyStep DEF FireReady
  <1>10. c.kids \in 1 .. 2 /\ c.child \in [1 .. 2 -> Val]
    BY <1>7 DEF CellSet
  <1>11. \A i \in 1 .. c.kids : c.child[i] = want[<<v, n, i>>]
    BY <1>8, <1>9 DEF CellRight
  <1>12. c.child[1] = want[<<v, n, 1>>] /\ c.child[2] = IF c.kids = 2 THEN want[<<v, n, 2>>] ELSE None
    BY <1>8, <1>10, <1>11 DEF CellRight
  <1>13. c.child = <<c.child[1], c.child[2]>>
    BY <1>10
  <1>14. c.child = <<want[<<v, n, 1>>], IF c.kids = 2 THEN want[<<v, n, 2>>] ELSE None>>
    BY <1>12, <1>13
  <1>15. Wanted(c.cont, c.child, want, c.ret)
    BY <1>8, <1>14 DEF CellRight
  <1>16. t.fn = c.cont /\ t.args = c.child /\ t.ret = c.ret
    BY <1>4 DEF Fired, Task
  <1>17. t \in TaskSet
    BY <1>2, <1>3, <1>4, FiredIs
  <1> QED
    BY <1>1, <1>3, <1>4, <1>15, <1>16, <1>17 DEF Good

LEMMA RightFire ==
  ASSUME HInv, NEW want, Right(want), NEW w \in Worker, Fire(w)
  PROVE  \E next : Right(next)'
  <1>1. PICK t : t = Fired(CellAt(res[w].ret))
    OBVIOUS
  <1>2. PICK d : d = Dispatch(w, t)
    OBVIOUS
  <1>3. /\ program' = program /\ cells' = [cells EXCEPT ![w] = d.cells]
        /\ IF d.kind = "value"
           THEN /\ res' = [res EXCEPT ![w] = [ret |-> t.ret, val |-> d.val]]
                /\ Goto(w, "resolve") /\ wo' = wo /\ stack' = stack
           ELSE /\ IF mode[w] = "seed"
                   THEN wo' = [wo EXCEPT ![w] = @ \o d.tasks] /\ stack' = stack
                   ELSE stack' = [stack EXCEPT ![w] = @ \o d.tasks] /\ wo' = wo
                /\ Resolved(w, wo'[w])
        /\ buf' = buf /\ result' = result /\ pc[w] = "fire"
    BY <1>1, <1>2 DEF Fire, queue, answer
  <1>4. /\ Inv /\ TypeOK /\ res \in [Worker -> [ret : Places, val : Val]]
        /\ stack \in [Worker -> Seq(TaskSet)] /\ wo \in [Worker -> Seq(TaskSet)]
        /\ pc \in [Worker -> RoundPc \cup BarrierPc \cup {"check", "next", "compact", "again", "quit"}]
    BY DEF HInv, Inv, TypeOK
  <1>5. t \in TaskSet /\ Good(t, want)
    BY <1>1, <1>3, FiredRight
  <1>6. /\ d.tasks \in Seq(TaskSet') /\ Seq(TaskSet) \subseteq Seq(TaskSet')
    BY <1>2, <1>3, <1>4, <1>5, ReturnsIs
  <1>7. PICK S : S = TaskSet'
    OBVIOUS
  <1>8. /\ d.tasks \in Seq(S)
        /\ \A j \in DOMAIN d.tasks : \E i \in DOMAIN d.tasks : d.tasks[j] = d.tasks[i]
    BY <1>6, <1>7
  <1>9. ASSUME NEW s, s \in Seq(TaskSet), \A i \in DOMAIN s : OldTask(s[i])
        PROVE  \A i \in DOMAIN (s \o d.tasks) : Brought((s \o d.tasks)[i], d.tasks)
    <2>1. s \in Seq(S)
      BY <1>6, <1>7, <1>9
    <2> QED
      BY <1>8, <1>9, <2>1, BroughtJoin
  <1>10. /\ \A v \in Worker : \A i \in DOMAIN wo[v] : Brought(wo[v][i], d.tasks)
         /\ \A v \in Worker : \A i \in DOMAIN stack[v] : Brought(stack[v][i], d.tasks)
    BY BroughtOld DEF Brought
  <1>11. /\ wo[w] \in Seq(TaskSet) /\ \A i \in DOMAIN wo[w] : OldTask(wo[w][i])
         /\ stack[w] \in Seq(TaskSet) /\ \A i \in DOMAIN stack[w] : OldTask(stack[w][i])
    BY <1>4, BroughtOld
  <1>12. \A v \in Worker : \A i \in DOMAIN wo'[v] : Brought(wo'[v][i], d.tasks)
    <2>1. CASE wo' = wo
      BY <1>10, <2>1
    <2>2. CASE wo' = [wo EXCEPT ![w] = @ \o d.tasks]
      <3>1. PICK r : r = wo[w] \o d.tasks
        OBVIOUS
      <3>2. \A i \in DOMAIN r : Brought(r[i], d.tasks)
        BY <1>9, <1>11, <3>1
      <3>3. wo'[w] = r /\ \A v \in Worker : v # w => wo'[v] = wo[v]
        BY <1>4, <2>2, <3>1
      <3> QED
        BY <1>10, <3>2, <3>3
    <2> QED
      BY <1>3, <2>1, <2>2
  <1>13. \A v \in Worker : \A i \in DOMAIN stack'[v] : Brought(stack'[v][i], d.tasks)
    <2>1. CASE stack' = stack
      BY <1>10, <2>1
    <2>2. CASE stack' = [stack EXCEPT ![w] = @ \o d.tasks]
      <3>1. PICK r : r = stack[w] \o d.tasks
        OBVIOUS
      <3>2. \A i \in DOMAIN r : Brought(r[i], d.tasks)
        BY <1>9, <1>11, <3>1
      <3>3. stack'[w] = r /\ \A v \in Worker : v # w => stack'[v] = stack[v]
        BY <1>4, <2>2, <3>1
      <3> QED
        BY <1>10, <3>2, <3>3
    <2> QED
      BY <1>3, <2>1, <2>2
  <1>14. /\ \A v \in Worker : v # w => pc'[v] = pc[v] /\ res'[v] = res[v]
         /\ pc'[w] = "resolve" => d.kind = "value" /\ res'[w].ret = t.ret /\ res'[w].val = d.val
    <2>1. CASE d.kind = "value"
      BY <1>3, <1>4, <2>1 DEF Goto
    <2>2. CASE d.kind # "value"
      <3>1. PICK l \in {"descend", "flush", "grab", "take"} :
              pc' = [pc EXCEPT ![w] = l] /\ res' = [res EXCEPT ![w] = NoRes]
        BY <1>3, <2>2, DealtIs
      <3> QED
        BY <1>4, <2>2, <3>1
    <2> QED
      BY <2>1, <2>2
  <1>15. Dispatched(w, t, d)
    BY <1>2, <1>3, <1>12, <1>13, <1>14 DEF Dispatched
  <1> QED
    BY <1>4, <1>5, <1>15, RightDispatch

LEMMA RightCalls ==
  ASSUME HInv, NEW want, Right(want), NEW w \in Worker, Calls(w)
  PROVE  \E next : Right(next)'
  BY RightTakeSeed, RightDescend, RightFire DEF Calls

-----------------------------------------------------------------------------
(* The actions that leave what is wanted alone *)

LEMMA RightKept ==
  ASSUME TypeOK, program' = program, NEW want, Right(want),
         \A v \in Worker : \A i \in DOMAIN stack'[v] : OldTask(stack'[v][i]),
         \A v \in Worker : \A i \in DOMAIN wo'[v] : OldTask(wo'[v][i]),
         \A i \in 0 .. QueueCap - 1 : buf'[i] # NoTask => OldTask(buf'[i]),
         CellsRight(want)',
         \A v \in Worker : pc'[v] = "resolve" => pc[v] = "resolve" /\ res'[v] = res[v],
         result' # None => result' = want[Root]
  PROVE  Right(want)'
  <1>1. TasksRight(want) /\ CellsRight(want) /\ ValuesRight(want) /\ Agree(want, want)
    BY DEF Right, Agree
  <1>2. TasksRight(want)'
    <2>1. PICK tasks : tasks = <<>>
      OBVIOUS
    <2>2. \A i \in DOMAIN tasks : Good(tasks[i], want)'
      BY <2>1
    <2>3. /\ \A v \in Worker : \A i \in DOMAIN stack'[v] : Brought(stack'[v][i], tasks)
          /\ \A v \in Worker : \A i \in DOMAIN wo'[v] : Brought(wo'[v][i], tasks)
          /\ \A i \in 0 .. QueueCap - 1 : buf'[i] # NoTask => Brought(buf'[i], tasks)
      BY DEF Brought
    <2> QED
      BY <1>1, <2>2, <2>3, TasksNext
  <1>3. ValuesRight(want)'
    <2>1. Values' = Values /\ Main' = Main /\ None' = None /\ Root' = Root
      BY DEF Values, Main, None, Root
    <2> QED
      BY <1>1, <2>1 DEF ValuesRight
  <1> QED
    BY <1>2, <1>3 DEF Right

\* The cells, when they do not change.
LEMMA CellsRightStay ==
  ASSUME program' = program, cells' = cells, NEW want, CellsRight(want)
  PROVE  CellsRight(want)'
  <1> SUFFICES ASSUME NEW v \in Worker, NEW n \in DOMAIN cells[v]
               PROVE  CellRight(v, n, cells[v][n], want)'
    BY DEF CellsRight
  <1>1. PICK c : c = cells[v][n]
    OBVIOUS
  <1>2. CellRight(v, n, c, want)
    BY <1>1 DEF CellsRight
  <1> QED
    BY <1>1, <1>2, CellRightNext

\* The tasks, when they do not change.
LEMMA OldStay ==
  /\ stack' = stack => \A v \in Worker : \A i \in DOMAIN stack'[v] : OldTask(stack'[v][i])
  /\ wo' = wo => \A v \in Worker : \A i \in DOMAIN wo'[v] : OldTask(wo'[v][i])
  /\ buf' = buf => \A i \in 0 .. QueueCap - 1 : buf'[i] # NoTask => OldTask(buf'[i])
  BY DEF OldTask

LEMMA RightMoves ==
  ASSUME HInv, NEW want, Right(want), NEW w \in Worker, Moves(w)
  PROVE  Right(want)'
  <1>1. TypeOK /\ CellsRight(want) /\ ValuesRight(want)
    BY DEF HInv, Inv, Right
  <1>2. /\ stack' = stack /\ wo' = wo /\ buf' = buf /\ cells' = cells /\ result' = result
        /\ program' = program
        /\ pc'[w] # "resolve"
        /\ \A v \in Worker : v # w => pc'[v] = pc[v] /\ res'[v] = res[v]
    BY MovesIs
  <1>3. CellsRight(want)'
    BY <1>1, <1>2, CellsRightStay
  <1>4. \A v \in Worker : pc'[v] = "resolve" => pc[v] = "resolve" /\ res'[v] = res[v]
    BY <1>2
  <1>5. result' # None => result' = want[Root]
    BY <1>1, <1>2 DEF ValuesRight
  <1> QED
    BY <1>1, <1>2, <1>3, <1>4, <1>5, OldStay, RightKept

LEMMA RightTakeWork ==
  ASSUME HInv, NEW want, Right(want), NEW w \in Worker, TakeWork(w)
  PROVE  Right(want)'
  <1>1. /\ Inv /\ TypeOK /\ CellsRight(want) /\ ValuesRight(want) /\ Private(w)
        /\ stack \in [Worker -> Seq(TaskSet)]
        /\ pc \in [Worker -> RoundPc \cup BarrierPc \cup {"check", "next", "compact", "again", "quit"}]
    BY DEF HInv, Inv, TypeOK, Right
  <1>2. PICK t : t = buf[Head(grab[w])]
    OBVIOUS
  <1>3. /\ program' = program /\ cells' = cells /\ wo' = wo /\ buf' = buf /\ result' = result
        /\ res' = res /\ pc' = [pc EXCEPT ![w] = "descend"] /\ pc[w] = "take"
        /\ stack' = [stack EXCEPT ![w] = <<t>>]
    BY <1>2 DEF TakeWork, Goto, queue, answer
  <1>4. OldTask(t)
    <2>1. Head(grab[w]) \in 0 .. taskCnt - 1
      BY <1>1, <1>3, TakenIs DEF Inv, Private
    <2> QED
      BY <1>1, <1>2, <2>1, QueueFits
  <1>5. \A v \in Worker : \A i \in DOMAIN stack'[v] : OldTask(stack'[v][i])
    <2>1. stack'[w] = <<t>> /\ \A v \in Worker : v # w => stack'[v] = stack[v]
      BY <1>1, <1>3
    <2>2. \A i \in DOMAIN <<t>> : <<t>>[i] = t
      OBVIOUS
    <2>3. \A i \in DOMAIN stack'[w] : OldTask(stack'[w][i])
      BY <1>4, <2>1, <2>2
    <2> QED
      BY <2>1, <2>3, BroughtOld
  <1>6. CellsRight(want)'
    BY <1>1, <1>3, CellsRightStay
  <1>7. \A v \in Worker : pc'[v] = "resolve" => pc[v] = "resolve" /\ res'[v] = res[v]
    BY <1>1, <1>3
  <1>8. result' # None => result' = want[Root]
    BY <1>1, <1>3 DEF ValuesRight
  <1> QED
    BY <1>1, <1>3, <1>5, <1>6, <1>7, <1>8, OldStay, RightKept

LEMMA RightCompact ==
  ASSUME HInv, NEW want, Right(want), Compact(0), 0 \in Worker
  PROVE  Right(want)'
  <1>1. /\ Inv /\ TypeOK /\ CellsRight(want) /\ ValuesRight(want) /\ Private(0)
        /\ pc \in [Worker -> RoundPc \cup BarrierPc \cup {"check", "next", "compact", "again", "quit"}]
    BY DEF HInv, Inv, TypeOK, Right
  <1>2. PICK at : at = round[0].cnt
    OBVIOUS
  <1>3. /\ program' = program /\ cells' = cells /\ wo' = wo /\ stack' = stack /\ result' = result
        /\ res' = res /\ pc' = [pc EXCEPT ![0] = "after"] /\ pc[0] = "compact"
        /\ buf' = [i \in 0 .. QueueCap - 1 |-> IF i < taskCntNew THEN buf[at + i] ELSE buf[i]]
    BY <1>2 DEF Compact, Goto, queue, answer
  <1>4. at = taskCnt /\ taskCnt \in Nat /\ taskCntNew \in Nat /\ taskCnt + taskCntNew <= QueueCap /\ QueueCap \in Nat
    <2>1. ~serial
      BY <1>1, <1>3, WorkerIs DEF Inv, Alone, RunPc
    <2>2. Stage(0) = "close"
      <3>1. ~AtBarrier(0)
        BY <1>3 DEF AtBarrier
      <3>2. Stage(0) = Own("compact")
        BY <1>1, <1>3, <3>1, StageAt
      <3> QED
        BY <3>2 DEF Own, RoundPc
    <2>3. Leaves /\ taskCnt \in Nat /\ taskCntNew \in Nat
      BY <1>1, <2>1 DEF Inv, Numbers, TypeOK
    <2>4. round[0].cnt = taskCnt /\ taskCnt + taskCntNew <= 6 * Threads - 3
      BY <1>3, <2>2, <2>3 DEF Leaves
    <2>5. QueueCap \in Nat /\ Threads \in Nat /\ QueueCap >= 6 * Threads - 3
      BY CapAssumption, QueueAssumption, ThreadsAssumption
    <2> QED
      BY <1>2, <2>3, <2>4, <2>5
  <1>5. ASSUME NEW i \in 0 .. QueueCap - 1, buf'[i] # NoTask
        PROVE  OldTask(buf'[i])
    <2>1. PICK j \in 0 .. QueueCap - 1 : buf'[i] = buf[j]
      <3>1. CASE i < taskCntNew
        <4>1. at + i \in 0 .. QueueCap - 1 /\ buf'[i] = buf[at + i]
          BY <1>3, <1>4, <3>1
        <4> QED
          BY <4>1
      <3>2. CASE ~ (i < taskCntNew)
        BY <1>3, <3>2
      <3> QED
        BY <3>1, <3>2
    <2> QED
      BY <1>5, <2>1 DEF OldTask
  <1>6. CellsRight(want)'
    BY <1>1, <1>3, CellsRightStay
  <1>7. \A v \in Worker : pc'[v] = "resolve" => pc[v] = "resolve" /\ res'[v] = res[v]
    BY <1>1, <1>3
  <1>8. result' # None => result' = want[Root]
    BY <1>1, <1>3 DEF ValuesRight
  <1> QED
    BY <1>1, <1>3, <1>5, <1>6, <1>7, <1>8, OldStay, RightKept

LEMMA RightCopy ==
  ASSUME HInv, NEW want, Right(want), NEW w \in Worker, Copy(w)
  PROVE  Right(want)'
  <1>1. /\ Inv /\ TypeOK /\ CellsRight(want) /\ ValuesRight(want)
        /\ wo \in [Worker -> Seq(TaskSet)] /\ round \in [Worker -> [iter : Nat, cnt : Nat, dst : Nat]]
        /\ pc \in [Worker -> RoundPc \cup BarrierPc \cup {"check", "next", "compact", "again", "quit"}]
    BY DEF HInv, Inv, TypeOK, Right
  <1>2. PICK at : at = round[w].cnt + round[w].dst
    OBVIOUS
  <1>3. PICK s : s = wo[w]
    OBVIOUS
  <1>4. PICK l \in {"end", "grab", "take"} : pc' = [pc EXCEPT ![w] = l]
    BY DEF Copy, NextTask, Goto
  <1>5. /\ program' = program /\ cells' = cells /\ stack' = stack /\ result' = result /\ res' = res
        /\ wo' = [wo EXCEPT ![w] = <<>>]
        /\ buf' = [i \in 0 .. QueueCap - 1 |-> IF i \in at .. at + Len(s) - 1 THEN s[i - at + 1] ELSE buf[i]]
    BY <1>2, <1>3 DEF Copy, answer
  <1>6. at \in Nat /\ s \in Seq(TaskSet) /\ DOMAIN s = 1 .. Len(s) /\ Len(s) \in Nat
    BY <1>1, <1>2, <1>3, LenProperties
  <1>7. \A i \in 0 .. QueueCap - 1 : buf'[i] # NoTask => OldTask(buf'[i])
    <2> SUFFICES ASSUME NEW i \in 0 .. QueueCap - 1, buf'[i] # NoTask
                 PROVE  OldTask(buf'[i])
      OBVIOUS
    <2>1. CASE i \in at .. at + Len(s) - 1
      <3>1. PICK j : j = i - at + 1
        OBVIOUS
      <3>2. j \in DOMAIN s
        BY <1>6, <2>1, <3>1
      <3>3. buf'[i] = wo[w][j]
        BY <1>3, <1>5, <2>1, <3>1
      <3> QED
        BY <1>3, <3>2, <3>3, BroughtOld
    <2>2. CASE i \notin at .. at + Len(s) - 1
      <3>1. buf'[i] = buf[i]
        BY <1>5, <2>2
      <3> QED
        BY <3>1 DEF OldTask
    <2> QED
      BY <2>1, <2>2
  <1>8. \A v \in Worker : \A i \in DOMAIN wo'[v] : OldTask(wo'[v][i])
    <2>1. wo'[w] = <<>> /\ \A v \in Worker : v # w => wo'[v] = wo[v]
      BY <1>1, <1>5
    <2> QED
      BY <2>1, BroughtOld
  <1>9. CellsRight(want)'
    BY <1>1, <1>5, CellsRightStay
  <1>10. \A v \in Worker : pc'[v] = "resolve" => pc[v] = "resolve" /\ res'[v] = res[v]
    BY <1>1, <1>4, <1>5
  <1>11. result' # None => result' = want[Root]
    BY <1>1, <1>5 DEF ValuesRight
  <1> QED
    BY <1>1, <1>5, <1>7, <1>8, <1>9, <1>10, <1>11, OldStay, RightKept

LEMMA RightResolveRoot ==
  ASSUME HInv, NEW want, Right(want), NEW w \in Worker, ResolveRoot(w)
  PROVE  Right(want)'
  <1>1. /\ TypeOK /\ CellsRight(want) /\ ValuesRight(want)
        /\ pc \in [Worker -> RoundPc \cup BarrierPc \cup {"check", "next", "compact", "again", "quit"}]
    BY DEF HInv, Inv, TypeOK, Right
  <1>2. /\ program' = program /\ cells' = cells /\ stack' = stack /\ wo' = wo /\ buf' = buf
        /\ res' = res /\ pc' = [pc EXCEPT ![w] = "finish"]
        /\ result' = res[w].val /\ pc[w] = "resolve" /\ res[w].ret = Root
    BY DEF ResolveRoot, Goto, queue
  <1>3. CellsRight(want)'
    BY <1>1, <1>2, CellsRightStay
  <1>4. \A v \in Worker : pc'[v] = "resolve" => pc[v] = "resolve" /\ res'[v] = res[v]
    BY <1>1, <1>2
  <1>5. result' # None => result' = want[Root]
    BY <1>1, <1>2 DEF ValuesRight
  <1> QED
    BY <1>1, <1>2, <1>3, <1>4, <1>5, OldStay, RightKept

LEMMA RightSlot ==
  ASSUME HInv, NEW want, Right(want), NEW w \in Worker, WriteSlot(w) \/ Count(w)
  PROVE  Right(want)'
  <1>1. /\ Inv /\ TypeOK /\ CellsRight(want) /\ ValuesRight(want)
        /\ pc \in [Worker -> RoundPc \cup BarrierPc \cup {"check", "next", "compact", "again", "quit"}]
    BY DEF HInv, Inv, TypeOK, Right
  <1>2. /\ program' = program /\ stack' = stack /\ wo' = wo /\ buf' = buf /\ result' = result
    BY DEF WriteSlot, Count, queue, answer
  <1>3. \A v \in Worker : pc'[v] = "resolve" => pc[v] = "resolve" /\ res'[v] = res[v]
    <2>1. CASE WriteSlot(w)
      BY <1>1, <2>1 DEF WriteSlot, Goto
    <2>2. CASE Count(w)
      <3>1. PICK l \in {"fire", "descend", "flush", "grab", "take"} : pc' = [pc EXCEPT ![w] = l]
        BY <2>2, DealtIs DEF Count, Goto
      <3>2. res' = res \/ res' = [res EXCEPT ![w] = NoRes]
        BY <2>2, DealtIs DEF Count
      <3>3. res \in [Worker -> [ret : Places, val : Val]]
        BY <1>1 DEF TypeOK
      <3> QED
        BY <1>1, <3>1, <3>2, <3>3
    <2> QED
      BY <2>1, <2>2
  <1>4. PICK v : v = res[w].ret[1]
    OBVIOUS
  <1>5. PICK n : n = res[w].ret[2]
    OBVIOUS
  <1>6. PICK i : i = res[w].ret[3]
    OBVIOUS
  <1>7. SlotStep(w, v, n, i)
    BY <1>1, <1>4, <1>5, <1>6, SlotIs
  <1>8. CellsRight(want)'
    <2> SUFFICES ASSUME NEW u \in Worker, NEW m \in DOMAIN cells'[u]
                 PROVE  CellRight(u, m, cells[u][m], want)'
      BY DEF CellsRight
    <2>1. m \in DOMAIN cells[u]
      BY <1>7 DEF SlotStep
    <2>2. PICK c : c = cells'[u][m]
      OBVIOUS
    <2>3. PICK old : old = cells[u][m]
      OBVIOUS
    <2>4. CellRight(u, m, old, want)
      BY <1>1, <2>1, <2>3 DEF CellsRight
    <2>5. CASE u # v \/ m # n
      <3>1. c = old
        BY <1>7, <2>1, <2>2, <2>3, <2>5 DEF SlotStep
      <3> QED
        BY <1>2, <2>2, <2>4, <3>1, CellRightNext
    <2>6. CASE u = v /\ m = n
      <3>1. /\ c.kids = old.kids /\ c.ret = old.ret /\ c.cont = old.cont
            /\ i \in 1 .. old.kids /\ old \in CellSet /\ res[w].ret = <<u, m, i>>
        BY <1>7, <2>1, <2>2, <2>3, <2>6 DEF SlotStep
      <3>2. old.child \in [1 .. 2 -> Val] /\ old.kids \in 1 .. 2
        BY <3>1 DEF CellSet
      <3>3. CASE WriteSlot(w)
        <4>1. c.child = [old.child EXCEPT ![i] = res[w].val]
          BY <1>7, <2>2, <2>3, <2>6, <3>3 DEF SlotStep
        <4>2. res[w].val = want[<<u, m, i>>]
          BY <1>1, <3>1, <3>3 DEF ValuesRight, WriteSlot
        <4>3. i \in 1 .. 2 /\ c.child[i] = want[<<u, m, i>>]
              /\ \A j \in 1 .. 2 : j # i => c.child[j] = old.child[j]
          BY <3>1, <3>2, <4>1, <4>2
        <4>4. \A j \in 1 .. c.kids : c.child[j] # None => c.child[j] = want[<<u, m, j>>]
          BY <2>4, <3>1, <3>2, <4>3 DEF CellRight
        <4>5. c.kids = 1 => c.child[2] = None
          BY <2>4, <3>1, <3>2, <4>3 DEF CellRight
        <4>6. CellRight(u, m, c, want)
          BY <2>4, <3>1, <4>4, <4>5 DEF CellRight
        <4> QED
          BY <1>2, <2>2, <4>6, CellRightNext
      <3>4. CASE Count(w)
        <4>1. c.child = old.child
          BY <1>7, <2>2, <2>3, <2>6, <3>4 DEF SlotStep
        <4>2. CellRight(u, m, c, want)
          BY <2>4, <3>1, <4>1 DEF CellRight
        <4> QED
          BY <1>2, <2>2, <4>2, CellRightNext
      <3> QED
        BY <3>3, <3>4
    <2> QED
      BY <2>5, <2>6
  <1>9. result' # None => result' = want[Root]
    BY <1>1, <1>2 DEF ValuesRight
  <1> QED
    BY <1>1, <1>2, <1>3, <1>8, <1>9, OldStay, RightKept

LEMMA RightStep ==
  ASSUME HInv, NEW want, Right(want), NEW w \in Worker, Step(w)
  PROVE  \E next : Right(next)'
  <1>1. CASE Calls(w)
    BY <1>1, RightCalls
  <1>2. CASE Moves(w)
    BY <1>2, RightMoves
  <1>3. CASE TakeWork(w)
    BY <1>3, RightTakeWork
  <1>4. CASE Compact(w) /\ w = 0
    BY <1>4, RightCompact
  <1>5. CASE Copy(w)
    BY <1>5, RightCopy
  <1>6. CASE ResolveRoot(w)
    BY <1>6, RightResolveRoot
  <1>7. CASE WriteSlot(w) \/ Count(w)
    BY <1>7, RightSlot
  <1> QED
    BY <1>1, <1>2, <1>3, <1>4, <1>5, <1>6, <1>7 DEF Step, Moves, Calls

LEMMA RightStutter ==
  ASSUME HInv, NEW want, Right(want), UNCHANGED vars
  PROVE  Right(want)'
  <1>1. TypeOK /\ CellsRight(want) /\ ValuesRight(want)
    BY DEF HInv, Inv, Right
  <1>2. /\ program' = program /\ cells' = cells /\ stack' = stack /\ wo' = wo /\ buf' = buf
        /\ result' = result /\ res' = res /\ pc' = pc
    BY DEF vars, local, queue, answer
  <1>3. CellsRight(want)'
    BY <1>1, <1>2, CellsRightStay
  <1>4. \A v \in Worker : pc'[v] = "resolve" => pc[v] = "resolve" /\ res'[v] = res[v]
    BY <1>2
  <1>5. result' # None => result' = want[Root]
    BY <1>1, <1>2 DEF ValuesRight
  <1> QED
    BY <1>1, <1>2, <1>3, <1>4, <1>5, OldStay, RightKept

-----------------------------------------------------------------------------
(* When there is a result, and when a run stops *)

\* No action starts from a worker that left, and the flag is set by one alone.
LEMMA StepFrom ==
  ASSUME Inv, NEW w \in Worker, Step(w)
  PROVE  /\ pc[w] # "quit"
         /\ ~Finish(w) => pc[w] # "finish" /\ done' = done
         /\ ~ResolveRoot(w) => result' = result
  <1>1. AtBarrier(w) => pc[w] \notin {"quit", "finish"}
    BY DEF AtBarrier
  <1>2. CASE Arrive(w) \/ Pass(w)
    <2>1. AtBarrier(w) /\ result' = result /\ done' = done
      BY <1>2 DEF Arrive, Pass, B!Leave, Inv, Private, answer
    <2> QED
      BY <1>1, <2>1
  <1>3. CASE Check(w) \/ NextRound(w) \/ Compact(w) \/ Again(w) \/ Grab(w) \/ TakeSeed(w) \/ TakeWork(w)
    BY <1>3 DEF Check, NextRound, Compact, Again, Grab, TakeSeed, TakeWork, answer
  <1>4. CASE Descend(w) \/ DescendEnd(w) \/ Finish(w) \/ ResolveRoot(w)
    BY <1>4 DEF Descend, DescendEnd, Finish, ResolveRoot, answer
  <1>5. CASE WriteSlot(w) \/ Count(w) \/ Fire(w) \/ Flush(w) \/ Copy(w)
    BY <1>5 DEF WriteSlot, Count, Fire, Flush, Copy, answer
  <1> QED
    BY <1>2, <1>3, <1>4, <1>5 DEF Step

\* Where it goes: to report the result only from there, and out of a serial run
\* only when there is nothing left to do.
LEMMA StepTo ==
  ASSUME HInv, NEW w \in Worker, Step(w)
  PROVE  /\ ~ResolveRoot(w) => pc'[w] # "finish"
         /\ serial /\ pc'[w] = "quit" => stack'[w] = <<>> \/ done
  <1>1. /\ Inv
        /\ pc \in [Worker -> RoundPc \cup BarrierPc \cup {"check", "next", "compact", "again", "quit"}]
    BY DEF HInv, Inv, TypeOK
  <1>2. CASE ResolveRoot(w)
    BY <1>1, <1>2 DEF ResolveRoot, Goto
  <1>3. CASE Calls(w)
    <2>1. CASE TakeSeed(w)
      <3>1. PICK l \in {"resolve", "descend", "flush", "grab", "take"} : pc' = [pc EXCEPT ![w] = l]
        BY <2>1, DealtIs DEF TakeSeed, Goto
      <3> QED
        BY <1>1, <3>1
    <2>2. CASE Descend(w)
      BY <1>1, <2>2 DEF Descend, Goto
    <2>3. CASE Fire(w)
      <3>1. PICK l \in {"resolve", "descend", "flush", "grab", "take"} : pc' = [pc EXCEPT ![w] = l]
        BY <2>3, DealtIs DEF Fire, Goto
      <3> QED
        BY <1>1, <3>1
    <2> QED
      BY <1>3, <2>1, <2>2, <2>3 DEF Calls
  <1>4. CASE WriteSlot(w) \/ Count(w) \/ TakeWork(w) \/ Copy(w) \/ Finish(w) \/ Flush(w) \/ Compact(w)
    <2>1. PICK l \in {"count", "fire", "descend", "flush", "grab", "take", "end", "copy", "copyLast", "after"} :
            pc' = [pc EXCEPT ![w] = l]
      BY <1>4, DealtIs DEF WriteSlot, Count, TakeWork, Copy, Finish, Flush, Compact, Goto
    <2> QED
      BY <1>1, <2>1
  <1>5. CASE Arrive(w) \/ Pass(w) \/ Check(w) \/ NextRound(w) \/ Again(w) \/ Grab(w)
    <2>1. pc'[w] # "finish"
      BY <1>5, MovesIs DEF Moves
    <2>2. ~serial
      <3> SUFFICES ASSUME serial
                   PROVE  FALSE
        OBVIOUS
      <3>1. pc[w] \in RunPc \cup {"quit"} /\ st[w] = "out"
        BY <1>1, WorkerIs DEF Inv, Alone
      <3> QED
        BY <1>5, <3>1 DEF Arrive, Pass, AtBarrier, B!Leave, Check, NextRound, Again, Grab, RunPc
    <2> QED
      BY <2>1, <2>2
  <1>6. CASE DescendEnd(w)
    <2>1. /\ stack[w] = <<>> \/ done
          /\ stack' = stack
          /\ \E l \in {"quit", "grab", "take"} : pc' = [pc EXCEPT ![w] = l]
      BY <1>6, DealtIs DEF DescendEnd, Goto
    <2> QED
      BY <1>1, <2>1
  <1> QED
    BY <1>2, <1>3, <1>4, <1>5, <1>6 DEF Step, Calls

LEMMA ToldStep ==
  ASSUME HInv, Told, Emptied, NEW w \in Worker, Step(w)
  PROVE  Told' /\ Emptied'
  <1>1. /\ Inv
        /\ pc \in [Worker -> RoundPc \cup BarrierPc \cup {"check", "next", "compact", "again", "quit"}]
        /\ \A v \in Worker : v # w => pc'[v] = pc[v] /\ stack'[v] = stack[v]
        /\ serial' = serial
    <2>1. Inv
      BY DEF HInv
    <2>2. pc \in [Worker -> RoundPc \cup BarrierPc \cup {"check", "next", "compact", "again", "quit"}]
      BY <2>1 DEF Inv, TypeOK
    <2>3. \A v \in Worker : v # w => pc'[v] = pc[v] /\ stack'[v] = stack[v]
      BY <2>1, OthersPrivate
    <2>4. serial' = serial
      BY DEF Step, Arrive, Pass, Check, NextRound, Compact, Again, Grab, TakeSeed, TakeWork, Descend,
             DescendEnd, ResolveRoot, Finish, WriteSlot, Count, Fire, Flush, Copy
    <2> QED
      BY <2>1, <2>2, <2>3, <2>4
  <1>2. None' = None
    BY DEF None
  <1>3. ASSUME ResolveRoot(w)
        PROVE  Told'
    <2>1. pc'[w] = "finish" /\ result' = res[w].val /\ pc[w] = "resolve" /\ done' = done
      BY <1>1, <1>3 DEF ResolveRoot, Goto
    <2>2. res[w].val # None
      BY <2>1 DEF HInv, Counting
    <2>3. result' # None /\ (\E v \in Worker : pc'[v] = "finish")
      BY <1>2, <2>1, <2>2
    <2> QED
      BY <1>2, <2>3 DEF Told
  <1>4. ASSUME Finish(w)
        PROVE  Told'
    <2>1. pc[w] = "finish" /\ result' = result /\ done' = TRUE
      BY <1>4 DEF Finish
    <2>2. result # None
      BY <2>1 DEF Told
    <2>3. result' # None /\ done'
      BY <1>2, <2>1, <2>2
    <2> QED
      BY <1>2, <2>3 DEF Told
  <1>5. ASSUME ~ResolveRoot(w) /\ ~Finish(w)
        PROVE  Told'
    <2>1. pc[w] # "finish" /\ pc'[w] # "finish" /\ result' = result /\ done' = done
      BY <1>1, <1>5, StepFrom, StepTo
    <2>2. (\E v \in Worker : pc'[v] = "finish") <=> (\E v \in Worker : pc[v] = "finish")
      BY <1>1, <2>1
    <2>3. done' <=> done
      BY <2>1
    <2>4. result' # None <=> result # None
      BY <1>2, <2>1
    <2> QED
      BY <1>2, <2>2, <2>3, <2>4 DEF Told
  <1>6. done => done'
    BY <1>1, StepFrom DEF Finish
  <1>7. ASSUME serial, pc'[0] = "quit"
        PROVE  stack'[0] = <<>> \/ done'
    <2>1. CASE w = 0
      BY <1>6, <1>7, <2>1, StepTo
    <2>2. CASE w # 0
      BY <1>1, <1>7, <2>2, StepFrom DEF Inv, Alone
    <2> QED
      BY <2>1, <2>2
  <1> QED
    BY <1>1, <1>3, <1>4, <1>5, <1>7 DEF Emptied

-----------------------------------------------------------------------------
(* No circle of cells *)

LEMMA CellsAre ==
  ASSUME NEW c
  PROVE  /\ c \in Cells <=> \E v \in Worker : \E n \in DOMAIN cells[v] : c = <<v, n>>
         /\ c \in Cells' <=> \E v \in Worker : \E n \in DOMAIN cells'[v] : c = <<v, n>>
  BY DEF Cells

LEMMA FoundedKept ==
  ASSUME Founded, \A u \in Worker : DOMAIN cells'[u] = DOMAIN cells[u],
         \A u \in Worker : \A m \in DOMAIN cells[u] : cells'[u][m].ret = cells[u][m].ret
  PROVE  Founded'
  <1>1. Cells' = Cells
    <2>1. \A c : c \in Cells' <=> c \in Cells
      BY CellsAre
    <2> QED
      BY <2>1
  <1>2. \A d \in Cells : cells'[d[1]][d[2]].ret = cells[d[1]][d[2]].ret
    <2> TAKE d \in Cells
    <2>1. PICK v \in Worker : \E n \in DOMAIN cells[v] : d = <<v, n>>
      BY CellsAre
    <2>2. PICK n \in DOMAIN cells[v] : d = <<v, n>>
      BY <2>1
    <2> QED
      BY <2>2
  <1>3. ASSUME NEW S \in SUBSET Cells', S # {}
        PROVE  \E c \in S : \A d \in S : \A i \in 1 .. 2 : cells'[d[1]][d[2]].ret # <<c[1], c[2], i>>
    <2>1. S \in SUBSET Cells
      BY <1>1
    <2>2. PICK c \in S : \A d \in S : \A i \in 1 .. 2 : cells[d[1]][d[2]].ret # <<c[1], c[2], i>>
      BY <1>3, <2>1 DEF Founded
    <2>3. \A d \in S : cells'[d[1]][d[2]].ret = cells[d[1]][d[2]].ret
      BY <1>2, <2>1
    <2> QED
      BY <2>2, <2>3
  <1> QED
    BY <1>3 DEF Founded

\* A new cell waits for tasks that are new too, and reports to an older cell.
LEMMA FoundedComes ==
  ASSUME TypeOK, Founded, NEW w \in Worker, NEW n, NEW c, CellComes(w, n, c), c.ret \in Places
  PROVE  Founded'
  <1>1. \A v \in Worker : \A m \in DOMAIN cells[v] : cells'[v][m] = cells[v][m] /\ cells[v][m].ret \in Places
    BY CellPlaces DEF CellComes
  <1>2. \A i : <<w, n, i>> \notin Places
    BY PlaceCases DEF CellComes, Root
  <1>3. ASSUME NEW d \in Cells'
        PROVE  /\ cells'[d[1]][d[2]].ret \in Places
               /\ d # <<w, n>> => d \in Cells /\ cells'[d[1]][d[2]] = cells[d[1]][d[2]]
    <2>1. PICK v \in Worker : \E m \in DOMAIN cells'[v] : d = <<v, m>>
      BY CellsAre
    <2>2. PICK m \in DOMAIN cells'[v] : d = <<v, m>>
      BY <2>1
    <2>3. d[1] = v /\ d[2] = m
      BY <2>2
    <2>4. CASE v = w /\ m = n
      BY <2>2, <2>3, <2>4 DEF CellComes
    <2>5. CASE ~ (v = w /\ m = n)
      <3>1. m \in DOMAIN cells[v]
        BY <2>5 DEF CellComes
      <3>2. d \in Cells
        BY <2>2, <3>1, CellsAre
      <3> QED
        BY <1>1, <2>3, <3>1, <3>2
    <2> QED
      BY <2>4, <2>5
  <1>4. ASSUME NEW S \in SUBSET Cells', S # {}
        PROVE  \E b \in S : \A d \in S : \A i \in 1 .. 2 : cells'[d[1]][d[2]].ret # <<b[1], b[2], i>>
    <2>1. CASE <<w, n>> \in S
      <3>1. PICK b \in S : b = <<w, n>>
        BY <2>1
      <3>2. b[1] = w /\ b[2] = n
        BY <3>1
      <3>3. \A d \in S : cells'[d[1]][d[2]].ret \in Places
        BY <1>3
      <3>4. \A d \in S : \A i \in 1 .. 2 : cells'[d[1]][d[2]].ret # <<b[1], b[2], i>>
        BY <1>2, <3>2, <3>3
      <3> QED
        BY <3>4
    <2>2. CASE <<w, n>> \notin S
      <3>1. \A d \in S : d \in Cells /\ cells'[d[1]][d[2]] = cells[d[1]][d[2]]
        BY <1>3, <2>2
      <3>2. S \in SUBSET Cells
        BY <3>1
      <3>3. PICK b \in S : \A d \in S : \A i \in 1 .. 2 : cells[d[1]][d[2]].ret # <<b[1], b[2], i>>
        BY <1>4, <3>2 DEF Founded
      <3> QED
        BY <3>1, <3>3
    <2> QED
      BY <2>1, <2>2
  <1> QED
    BY <1>4 DEF Founded

\* What a step does to the cells.
LEMMA FoundedDispatch ==
  ASSUME TypeOK, Founded, NEW w \in Worker, NEW t \in TaskSet, NEW want, Good(t, want),
         NEW d, d = Dispatch(w, t), cells' = [cells EXCEPT ![w] = d.cells]
  PROVE  Founded'
  <1>1. CASE Answers(w, t, d, want)
    <2>1. cells' = cells
      BY <1>1 DEF Answers, TypeOK
    <2> QED
      BY <2>1, FoundedKept
  <1>2. ASSUME NEW k \in 1 .. 2, NEW f \in Name, NEW g, Splits(w, t, d, want, k, f, g)
        PROVE  Founded'
    <2>1. PICK n : n = Len(cells[w]) + 1
      OBVIOUS
    <2>2. PICK c : c = NewCell(f, t.ret, k)
      OBVIOUS
    <2>3. CellComes(w, n, c)
      BY <1>2, <2>1, <2>2, NewCellIs DEF Splits
    <2>4. c.ret \in Places
      BY <2>2 DEF NewCell, TaskSet
    <2> QED
      BY <2>3, <2>4, FoundedComes
  <1> QED
    BY <1>1, <1>2, DispatchRight

LEMMA FoundedStep ==
  ASSUME HInv, NEW want, Right(want), Founded, NEW w \in Worker, Step(w)
  PROVE  Founded'
  <1>1. /\ Inv /\ TypeOK /\ TasksRight(want)
    BY DEF HInv, Inv, Right
  <1>2. CASE Quiets(w)
    BY <1>2, QuietsStay, FoundedKept DEF CountsStay
  <1>3. CASE WriteSlot(w) \/ Count(w)
    <2>1. SlotStep(w, res[w].ret[1], res[w].ret[2], res[w].ret[3])
      BY <1>1, <1>3, SlotIs
    <2>2. /\ \A u \in Worker : DOMAIN cells'[u] = DOMAIN cells[u]
          /\ \A u \in Worker : \A m \in DOMAIN cells[u] : cells'[u][m].ret = cells[u][m].ret
      BY <2>1 DEF SlotStep
    <2> QED
      BY <2>2, FoundedKept
  <1>4. CASE TakeSeed(w)
    <2>1. PICK t : t = buf[Head(grab[w])]
      OBVIOUS
    <2>2. PICK d : d = Dispatch(w, t)
      OBVIOUS
    <2>3. Head(grab[w]) \in 0 .. taskCnt - 1
      BY <1>1, <1>4, TakenIs DEF Inv, Private, TakeSeed
    <2>4. t \in TaskSet /\ Good(t, want)
      BY <1>1, <2>1, <2>3, QueueFits, OldTaskIs
    <2>5. cells' = [cells EXCEPT ![w] = d.cells]
      BY <1>4, <2>1, <2>2 DEF TakeSeed
    <2> QED
      BY <1>1, <2>2, <2>4, <2>5, FoundedDispatch
  <1>5. CASE Descend(w)
    <2>1. PICK s : s = stack[w]
      OBVIOUS
    <2>2. PICK t : t = Last(s)
      OBVIOUS
    <2>3. PICK d : d = Dispatch(w, t)
      OBVIOUS
    <2>4. s \in Seq(TaskSet) /\ s # <<>>
      BY <1>1, <1>5, <2>1 DEF Descend, TypeOK
    <2>5. OldTask(t)
      <3>1. PICK k \in Nat \ {0} : k = Len(s) /\ DOMAIN s = 1 .. k
        BY <2>4, FrontIs, LenProperties
      <3>2. Last(s) = s[k]
        BY <2>4, <3>1, FrontIs
      <3>3. k \in DOMAIN s
        BY <3>1
      <3> QED
        BY <2>1, <2>2, <3>2, <3>3, BroughtOld
    <2>6. t \in TaskSet /\ Good(t, want)
      BY <1>1, <2>5, OldTaskIs
    <2>7. cells' = [cells EXCEPT ![w] = d.cells]
      BY <1>5, <2>1, <2>2, <2>3 DEF Descend
    <2> QED
      BY <1>1, <2>3, <2>6, <2>7, FoundedDispatch
  <1>6. CASE Fire(w)
    <2>1. PICK t : t = Fired(CellAt(res[w].ret))
      OBVIOUS
    <2>2. PICK d : d = Dispatch(w, t)
      OBVIOUS
    <2>3. t \in TaskSet /\ Good(t, want)
      BY <1>6, <2>1, FiredRight DEF Fire
    <2>4. cells' = [cells EXCEPT ![w] = d.cells]
      BY <1>6, <2>1, <2>2 DEF Fire
    <2> QED
      BY <1>1, <2>2, <2>3, <2>4, FoundedDispatch
  <1> QED
    BY <1>2, <1>3, <1>4, <1>5, <1>6 DEF Step, Quiets, Moves

-----------------------------------------------------------------------------
(* The answer *)

LEMMA AInvInit == Init => AInv
  <1> SUFFICES ASSUME Init
               PROVE  AInv
    OBVIOUS
  <1>1. HInv
    BY HInvInit
  <1>2. PICK v : v = Values[Main]
    OBVIOUS
  <1>3. PICK want : want = [r \in {Root} |-> v]
    OBVIOUS
  <1>4. want[Root] = v
    BY <1>3
  <1>5. PICK a : a = <<None, None>>
    OBVIOUS
  <1>6. Main = <<"main", a>>
    BY <1>5 DEF Main
  <1>7. Main \in DOMAIN Values
    BY EvaluationAssumption DEF Init, Values
  <1>8. RootTask.fn = "main" /\ RootTask.args = a /\ RootTask.ret = Root
    BY <1>5 DEF RootTask, Task
  <1>9. Good(RootTask, want)
    BY <1>2, <1>4, <1>6, <1>7, <1>8 DEF Good, Wanted
  <1>10. TasksRight(want)
    <2>1. \A i \in DOMAIN <<RootTask>> : <<RootTask>>[i] = RootTask
      OBVIOUS
    <2>2. \A w \in Worker : stack[w] = <<RootTask>> \/ stack[w] = <<>>
      BY DEF Init
    <2>3. \A w \in Worker : \A i \in DOMAIN stack[w] : stack[w][i] = RootTask
      BY <2>1, <2>2
    <2>4. \A w \in Worker : wo[w] = <<>>
      BY DEF Init
    <2>5. \A i \in 0 .. QueueCap - 1 : buf[i] = RootTask \/ buf[i] = NoTask
      BY DEF Init
    <2> QED
      BY <1>9, <2>3, <2>4, <2>5 DEF TasksRight
  <1>11. \A w \in Worker : cells[w] = <<>>
    BY DEF Init
  <1>12. CellsRight(want)
    BY <1>11 DEF CellsRight
  <1>13. /\ \A w \in Worker : pc[w] \in {"top", "descend", "quit"}
         /\ result = None /\ ~done
         /\ serial /\ pc[0] = "quit" => FALSE
    <2>1. \A w \in Worker : pc[w] = IF ~serial THEN "top" ELSE IF w = 0 THEN "descend" ELSE "quit"
      BY DEF Init
    <2> QED
      BY <2>1, WorkerIs DEF Init
  <1>14. ValuesRight(want)
    BY <1>2, <1>4, <1>13 DEF ValuesRight
  <1>15. Told
    BY <1>13 DEF Told
  <1>16. Emptied
    BY <1>13 DEF Emptied
  <1>17. Founded
    <2>1. \A c : c \notin Cells
      BY <1>11, CellsAre
    <2> QED
      BY <2>1 DEF Founded
  <1> QED
    BY <1>1, <1>10, <1>12, <1>14, <1>15, <1>16, <1>17 DEF AInv, Right

LEMMA AInvStep ==
  ASSUME AInv, NEW w \in Worker, Step(w)
  PROVE  AInv'
  <1>1. PICK want : Right(want)
    BY DEF AInv
  <1>2. HInv /\ Told /\ Emptied /\ Founded
    BY DEF AInv
  <1>3. HInv'
    BY <1>2, HInvStep
  <1>4. \E next : Right(next)'
    BY <1>1, <1>2, RightStep
  <1>5. Told' /\ Emptied' /\ Founded'
    BY <1>1, <1>2, ToldStep, FoundedStep
  <1> QED
    BY <1>3, <1>4, <1>5 DEF AInv

LEMMA AInvStutter ==
  ASSUME AInv, UNCHANGED vars
  PROVE  AInv'
  <1>1. PICK want : Right(want)
    BY DEF AInv
  <1>2. HInv /\ Told /\ Emptied /\ Founded
    BY DEF AInv
  <1>3. HInv'
    BY <1>2, HInvStutter
  <1>4. Right(want)'
    BY <1>1, <1>2, RightStutter
  <1>5. /\ cells' = cells /\ stack' = stack /\ pc' = pc /\ result' = result /\ done' = done /\ serial' = serial
    BY DEF vars, local, answer
  <1>6. Told' /\ Emptied'
    BY <1>2, <1>5 DEF Told, Emptied, None
  <1>7. Founded'
    BY <1>2, <1>5, FoundedKept
  <1> QED
    BY <1>3, <1>4, <1>6, <1>7 DEF AInv

\* A run that stops has its answer: otherwise the tasks are all gone, and each
\* cell that still waits would wait for another one.
LEMMA QuitsDone ==
  ASSUME HInv, Told, Emptied, Founded, AllQuit
  PROVE  done
  <1> SUFFICES ASSUME ~done
               PROVE  FALSE
    OBVIOUS
  <1>1. /\ Inv /\ TypeOK /\ OneEach /\ Joins /\ 0 \in Worker
        /\ \A w \in Worker : pc[w] = "quit" /\ Private(w) /\ ~AtBarrier(w)
    BY WorkerIs DEF HInv, Inv, AllQuit, AtBarrier
  <1>2. \A w \in Worker : Stage(w) = "quit"
    <2>1. \A w \in Worker : Stage(w) = Own("quit")
      BY <1>1, StageAt
    <2> QED
      BY <2>1 DEF Own, RoundPc
  <1>3. taskCnt = 0 /\ Between
    <2>1. CASE serial
      BY <1>1, <2>1 DEF Inv, Alone, Between
    <2>2. CASE ~serial
      <3>1. Fits(0, 0)
        BY <1>1, <2>2 DEF Inv, Together
      <3>2. done \/ taskCnt = 0
        BY <1>1, <1>2, <3>1 DEF Fits
      <3> QED
        BY <1>1, <3>2 DEF Between
    <2> QED
      BY <2>1, <2>2
  <1>4. \A w \in Worker : stack[w] = <<>> /\ wo[w] = <<>>
    <2>1. CASE serial
      <3>1. stack[0] = <<>>
        BY <1>1, <2>1 DEF Emptied
      <3> QED
        BY <1>1, <2>1, <3>1 DEF Inv, Alone
    <2>2. CASE ~serial
      BY <1>1, <1>2, <2>2 DEF Private
    <2> QED
      BY <2>1, <2>2
  <1>5. ASSUME NEW h \in Carriers
        PROVE  h \in Conts
    <2>1. Queued = {}
      BY <1>3 DEF Queued
    <2>2. h \notin Tasks
      BY <1>4, <2>1, TasksAre
    <2>3. h \notin Hands
      BY <1>1, HandsAre
    <2> QED
      BY <2>2, <2>3 DEF Carriers
  <1>6. \A v, n : Open(v, n) <=> cells[v][n].pending > 0
    BY <1>1 DEF Open
  <1>7. PICK S : S = {c \in Cells : Open(c[1], c[2])}
    OBVIOUS
  <1>8. ASSUME NEW r \in Waiting
        PROVE  \E d \in S : cells[d[1]][d[2]].ret = r
    <2>1. PICK h \in Conts : PlaceOf(h) = r
      BY <1>1, <1>5 DEF OneEach
    <2>2. PICK v \in Worker : \E n \in DOMAIN cells[v] : Open(v, n) /\ h = <<"cell", v, n>>
      BY ContsAre
    <2>3. PICK n \in DOMAIN cells[v] : Open(v, n) /\ h = <<"cell", v, n>>
      BY <2>2
    <2>4. PICK d : d = <<v, n>>
      OBVIOUS
    <2>5. d[1] = v /\ d[2] = n
      BY <2>4
    <2>6. d \in S
      BY <1>7, <2>3, <2>4, <2>5, CellsAre
    <2>7. cells[v][n].ret = r
      BY <2>1, <2>3 DEF PlaceOf
    <2> QED
      BY <2>5, <2>6, <2>7
  <1>9. S # {}
    <2>1. result = None
      BY <1>1 DEF Told
    <2>2. Root \in Waiting
      BY <2>1, PlaceCases DEF Waiting, Delivered
    <2> QED
      BY <1>8, <2>2
  <1>10. PICK c \in S : \A d \in S : \A i \in 1 .. 2 : cells[d[1]][d[2]].ret # <<c[1], c[2], i>>
    <2>1. S \in SUBSET Cells
      BY <1>7
    <2> QED
      BY <1>9, <2>1 DEF Founded
  <1>11. PICK v \in Worker : \E n \in DOMAIN cells[v] : c = <<v, n>>
    BY <1>7, CellsAre
  <1>12. PICK n \in DOMAIN cells[v] : c = <<v, n>>
    BY <1>11
  <1>13. c[1] = v /\ c[2] = n
    BY <1>12
  <1>14. cells[v][n].pending # 0
    BY <1>6, <1>7, <1>13
  <1>15. PICK i : i \in Awaited(v, n)
    BY <1>1, <1>14, AwaitedIs
  <1>16. i \in 1 .. cells[v][n].kids /\ cells[v][n].child[i] = None
    BY <1>1, <1>15 DEF Awaited
  <1>17. <<v, n, i>> \in Places /\ i \in 1 .. 2
    <2>1. cells[v][n].kids \in 1 .. 2
      BY <1>1, CellPlaces
    <2> QED
      BY <1>16, <2>1, PlaceCases
  <1>18. <<v, n, i>> \in Waiting
    BY <1>16, <1>17, DeliveredIs DEF Waiting
  <1> QED
    BY <1>8, <1>10, <1>13, <1>17, <1>18

\* The invariant holds initially and every step keeps it.
THEOREM AnswerInvariance == Spec => []AInv
  <1>1. AInv /\ [Next]_vars => AInv'
    BY AInvStep, AInvStutter DEF Next, Joined
  <1> QED
    BY AInvInit, <1>1, PTL DEF Spec

\* A run of aot_run_serial or aot_run_parallel that comes to its end returns
\* the value of the program, whatever the program, the number of threads, the
\* share of each and the order in which the children of a cell reported.
THEOREM AnswersRight == Spec => []Answered
  <1>1. AInv => Answered
    <2> SUFFICES ASSUME AInv, AllQuit
                 PROVE  done /\ result = Evaluation[program][Main]
      BY DEF Answered
    <2>1. done
      BY QuitsDone DEF AInv
    <2>2. result # None
      BY <2>1 DEF AInv, Told
    <2>3. PICK want : ValuesRight(want)
      BY DEF AInv, Right
    <2>4. result = Values[Main]
      BY <2>2, <2>3 DEF ValuesRight
    <2> QED
      BY <2>1, <2>4 DEF Values
  <1> QED
    BY <1>1, AnswerInvariance, PTL
=============================================================================
