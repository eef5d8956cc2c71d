---------------------------- MODULE AotRunRounds ----------------------------
(***************************************************************************)
(* Proofs about AotRun for every number of threads and every program: the  *)
(* types, and how the rounds go.  The inductive invariant has these parts: *)
(*   Alone     a serial run uses neither the queue nor the barrier;        *)
(*   Together  the threads are in the same round, or in adjacent stages of *)
(*             it, and agree on what they read at its head;                *)
(*   Private   what a thread's own buffers hold where it is;               *)
(*   Numbers   how many tasks a round can still make;                      *)
(*   Queue     which entries of the queue hold a task.                     *)
(***************************************************************************)
EXTENDS AotRun, Sums, SequenceTheorems

Name == DOMAIN program
Val  == Seq(Name)
TaskSet == [fn : Name, ret : Places, args : [1 .. 2 -> Val]]
CellSet == [cont : Name, ret : Places, pending : Int, kids : 1 .. 2,
            child : [1 .. 2 -> Val]]

RoundPc   == {"grab", "take", "flush", "copy", "drain", "copyLast", "descend",
              "resolve", "finish", "count", "fire"}
BarrierPc == {"top", "begin", "end", "after"}
RunPc     == {"descend", "resolve", "finish", "count", "fire"}

TypeOK ==
  /\ program \in Programs /\ serial \in BOOLEAN /\ done \in BOOLEAN
  /\ st \in [Worker -> {"out", "in", "free"}]
  /\ pc \in [Worker -> RoundPc \cup BarrierPc \cup {"check", "next", "compact", "again", "quit"}]
  /\ mode \in [Worker -> {"serial", "seed", "work"}]
  /\ round \in [Worker -> [iter : Nat, cnt : Nat, dst : Nat]]
  /\ grab \in [Worker -> Seq(Nat)]
  /\ stack \in [Worker -> Seq(TaskSet)] /\ wo \in [Worker -> Seq(TaskSet)]
  /\ res \in [Worker -> [ret : Places, val : Val]]
  /\ cells \in [Worker -> Seq(CellSet)]
  /\ buf \in [0 .. QueueCap - 1 -> TaskSet \cup {NoTask}]
  /\ taskCnt \in Nat /\ taskCntNew \in Nat /\ workIdx \in Nat
  /\ result \in Val

Own(l) == CASE l = "top"                   -> "top"
            [] l = "check"                 -> "enter"
            [] l \in {"next", "begin"}     -> "open"
            [] l \in RoundPc \cup {"end"}  -> "work"
            [] l \in {"compact", "after"}  -> "close"
            [] l = "again"                 -> "closed"
            [] OTHER                       -> "quit"
Passed(l) == CASE l = "top"   -> "enter"
               [] l = "begin" -> "work"
               [] l = "end"   -> "close"
               [] OTHER       -> "closed"
Stage(w) == IF st[w] = "free" THEN Passed(pc[w]) ELSE Own(pc[w])
Near == {<<"closed", "top">>, <<"closed", "open">>, <<"enter", "open">>, <<"enter", "quit">>}

Alone ==
  serial =>
    /\ \A w \in Worker : /\ st[w] = "out" /\ mode[w] = "serial"
                         /\ grab[w] = <<>> /\ wo[w] = <<>>
                         /\ w # 0 => pc[w] = "quit" /\ stack[w] = <<>>
    /\ pc[0] \in RunPc \cup {"quit"}
    /\ taskCnt = 0 /\ taskCntNew = 0 /\ workIdx = 0

Fits(v, w) ==
  /\ \/ Stage(v) = Stage(w)
     \/ <<Stage(v), Stage(w)>> \in Near \/ <<Stage(w), Stage(v)>> \in Near
  /\ Stage(v) = "closed" /\ Stage(w) = "top" => mode[v] = "work"
  /\ Stage(v) = "closed" /\ Stage(w) = "open" =>
       mode[v] = "seed" /\ round[w].iter = round[v].iter + 1
  /\ Stage(v) = "enter" /\ Stage(w) = "open" =>
       round[w].iter = 0 /\ ~done /\ taskCnt # 0
  /\ Stage(w) = "quit" => done \/ taskCnt = 0
  /\ Stage(v) = Stage(w) /\ Stage(v) \in {"open", "work", "close", "closed"} =>
       round[v].iter = round[w].iter
  /\ Stage(v) = Stage(w) /\ Stage(v) \in {"work", "close", "closed"} =>
       mode[v] = mode[w] /\ round[v].cnt = round[w].cnt

Together == ~serial => \A v, w \in Worker : Fits(v, w)

Private(w) ==
  /\ st[w] # "out" => AtBarrier(w)
  /\ ~serial => mode[w] \in {"seed", "work"}
  /\ Stage(w) # "work" => grab[w] = <<>> /\ wo[w] = <<>>
  /\ pc[w] \in {"begin", "grab", "drain", "copyLast", "end"} => grab[w] = <<>>
  /\ pc[w] \in {"begin", "end"} => wo[w] = <<>>
  /\ pc[w] = "take" => grab[w] # <<>>
  /\ Len(grab[w]) <= 1
  /\ pc[w] = "flush" => wo[w] # <<>>
  /\ mode[w] = "work" => wo[w] = <<>> /\ pc[w] \notin {"flush", "copy", "copyLast"}
  /\ mode[w] = "seed" => stack[w] = <<>> /\ pc[w] # "descend"
  /\ stack[w] # <<>> => pc[w] \in RunPc \cup {"quit"}
  /\ ~serial /\ pc[w] = "quit" => stack[w] = <<>>
  /\ pc[w] \in {"count", "fire"} => res[w].ret # Root

Left == IF workIdx < taskCnt THEN taskCnt - workIdx ELSE 0
Due(l, out, taken) == (IF l \in {"copy", "copyLast"} THEN 0 ELSE out)
                        + 2 * taken + (IF l \in {"resolve", "count", "fire"} THEN 2 ELSE 0)
Owe(w) == Due(pc[w], Len(wo[w]), Len(grab[w]))
Owes == [w \in Worker |-> Owe(w)]

\* The threads know how many tasks the round has; a seed round has few.
Known(w) ==
  /\ Stage(w) = "open" /\ pc[w] = "begin" =>
       round[w].cnt = taskCnt /\ mode[w] = IF Enough(w) THEN "work" ELSE "seed"
  /\ Stage(w) = "work" =>
       round[w].cnt = taskCnt /\ (mode[w] = "seed" => taskCnt < 2 * Threads)

\* What the round leaves is bounded by what it started with.
Leaves ==
  /\ Stage(0) = "open" /\ pc[0] = "begin" => taskCntNew = 0 /\ workIdx = 0
  /\ Stage(0) = "work" =>
       IF mode[0] = "work" THEN taskCntNew = 0
       ELSE SumFunction(Owes) + taskCntNew + 2 * Left <= 2 * taskCnt
  /\ Stage(0) = "close" /\ pc[0] \in {"end", "compact"} =>
       /\ taskCntNew <= 4 * Threads - 2
       /\ round[0].cnt = taskCnt
       /\ taskCnt + taskCntNew <= 6 * Threads - 3
       /\ workIdx >= taskCnt

\* Where a thread reads and writes the queue.
Indices(w) ==
  /\ grab[w] # <<>> => Head(grab[w]) < taskCnt /\ Head(grab[w]) < workIdx
  /\ pc[w] \in {"copy", "copyLast"} => round[w].dst + Len(wo[w]) <= taskCntNew
  /\ ~serial /\ pc[w] \in {"drain", "copyLast", "end"} /\ st[w] # "free" => workIdx >= taskCnt

Numbers ==
  /\ taskCnt <= 4 * Threads - 2
  /\ ~serial => Leaves /\ \A w \in Worker : Known(w)
  /\ \A w \in Worker : Indices(w)

Queue ==
  /\ \A i \in 0 .. taskCnt - 1 : buf[i] \in TaskSet
  /\ ~Between => \A i \in taskCnt .. taskCnt + taskCntNew - 1 :
       buf[i] \in TaskSet \/ \E w \in Worker : i \in Unflushed(w)

Inv == /\ TypeOK /\ Alone /\ Together /\ Numbers /\ Queue
       /\ \A w \in Worker : Private(w)

-----------------------------------------------------------------------------
(* Sequences *)

LEMMA FrontIs ==
  ASSUME NEW S, NEW s \in Seq(S), s # <<>>
  PROVE  /\ Len(s) \in Nat \ {0} /\ Last(s) = s[Len(s)] /\ Last(s) \in S
         /\ Front(s) \in Seq(S) /\ Len(Front(s)) = Len(s) - 1
         /\ \A i \in 1 .. Len(s) - 1 : Front(s)[i] = s[i]
  <1>1. PICK t \in Seq(S), x \in S : s = Append(t, x)
    BY SequenceEmptyOrAppend
  <1>2. /\ Len(s) = Len(t) + 1 /\ Len(t) \in Nat /\ s[Len(t) + 1] = x
        /\ \A i \in 1 .. Len(t) : s[i] = t[i] /\ t[i] \in S
    BY <1>1, AppendProperties, LenProperties, ElementOfSeq
  <1>3. Front(s) = t
    <2>1. \A i \in 1 .. Len(t) : s[i] \in S
      BY <1>2
    <2>2. /\ SubSeq(s, 1, Len(t)) \in Seq(S)
          /\ Len(SubSeq(s, 1, Len(t))) = Len(t)
          /\ \A i \in 1 .. Len(t) : SubSeq(s, 1, Len(t))[i] = s[i]
      BY ONLY <1>2, <2>1, SubSeqProperties
    <2>3. SubSeq(s, 1, Len(t)) = t
      BY ONLY <1>2, <2>2, SeqEqual, t \in Seq(S)
    <2>4. Len(s) - 1 = Len(t)
      BY <1>2
    <2> QED
      BY <2>3, <2>4 DEF Front
  <1> QED
    BY <1>2, <1>3 DEF Last

LEMMA ReverseIs ==
  ASSUME NEW S, NEW s \in Seq(S)
  PROVE  /\ Reverse(s) \in Seq(S) /\ Len(Reverse(s)) = Len(s)
         /\ \A i \in 1 .. Len(s) : Reverse(s)[i] = s[Len(s) - i + 1]
  <1>1. Len(s) \in Nat
    BY LenProperties
  <1>2. \A i \in 1 .. Len(s) : s[Len(s) - i + 1] \in S
    <2> TAKE i \in 1 .. Len(s)
    <2>1. Len(s) - i + 1 \in 1 .. Len(s)
      BY <1>1
    <2> QED
      BY <2>1, ElementOfSeq
  <1>3. Reverse(s) = [i \in 1 .. Len(s) |-> s[Len(s) - i + 1]]
    BY <1>1 DEF Reverse
  <1>4. Reverse(s) \in [1 .. Len(s) -> S]
    BY <1>2, <1>3
  <1>5. Reverse(s) \in Seq(S)
    BY <1>1, <1>4, SeqDef
  <1>6. Len(Reverse(s)) = Len(s)
    <2>1. DOMAIN Reverse(s) = 1 .. Len(s) /\ DOMAIN Reverse(s) = 1 .. Len(Reverse(s))
      BY <1>3, <1>5, LenProperties
    <2>2. Len(Reverse(s)) \in Nat
      BY <1>5, LenProperties
    <2> QED
      BY <1>1, <2>1, <2>2
  <1> QED
    BY <1>3, <1>5, <1>6

-----------------------------------------------------------------------------
(* Places, and what a dispatch returns *)

LEMMA WorkerIs ==
  /\ Threads \in Nat \ {0, 1} /\ 0 \in Worker /\ Worker \subseteq Nat
  /\ IsFiniteSet(Worker)
  <1>1. Threads \in Nat \ {0, 1}
    BY ThreadsAssumption
  <1>2. IsFiniteSet(0 .. Threads - 1)
    BY <1>1, FS_Interval
  <1> QED
    BY <1>1, <1>2 DEF Worker

PlacesOf(cs) ==
  {<<>>} \cup UNION {{<<c[1], c[2], i>> : i \in 1 .. cs[c[1]][c[2]].kids} :
                       c \in UNION {{<<w, n>> : n \in DOMAIN cs[w]} : w \in Worker}}

LEMMA PlacesIs ==
  ASSUME NEW cs, NEW r
  PROVE  r \in PlacesOf(cs) <=>
           \/ r = <<>>
           \/ \E v \in Worker : \E n \in DOMAIN cs[v] : \E i \in 1 .. cs[v][n].kids :
                r = <<v, n, i>>
  <1> DEFINE C == UNION {{<<w, n>> : n \in DOMAIN cs[w]} : w \in Worker}
  <1>1. \A v, n : <<v, n>> \in C <=> v \in Worker /\ n \in DOMAIN cs[v]
    OBVIOUS
  <1>2. \A c \in C : \E v \in Worker : \E n \in DOMAIN cs[v] : c = <<v, n>>
    OBVIOUS
  <1>3. r \in PlacesOf(cs) <=> \/ r = <<>>
                               \/ \E c \in C : \E i \in 1 .. cs[c[1]][c[2]].kids :
                                   r = <<c[1], c[2], i>>
    BY DEF PlacesOf
  <1> HIDE DEF C
  <1>4. ASSUME NEW c \in C, NEW i \in 1 .. cs[c[1]][c[2]].kids
        PROVE  \E v \in Worker : \E n \in DOMAIN cs[v] : \E j \in 1 .. cs[v][n].kids :
                 <<c[1], c[2], i>> = <<v, n, j>>
    BY <1>2
  <1>5. ASSUME NEW v \in Worker, NEW n \in DOMAIN cs[v], NEW i \in 1 .. cs[v][n].kids
        PROVE  \E c \in C : \E j \in 1 .. cs[c[1]][c[2]].kids :
                 <<v, n, i>> = <<c[1], c[2], j>>
    <2>1. <<v, n>> \in C /\ <<v, n>>[1] = v /\ <<v, n>>[2] = n
      BY <1>1
    <2> QED
      BY <2>1
  <1> QED
    BY <1>3, <1>4, <1>5

LEMMA PlacesNow ==
  Places = PlacesOf(cells) /\ Places' = PlacesOf(cells')
  BY DEF Places, PlacesOf, Cells, Ret, Root

\* Cells only come, and keep their number of children.
Grows == /\ program' = program
         /\ \A v \in Worker : \A n \in DOMAIN cells[v] :
              n \in DOMAIN cells'[v] /\ cells'[v][n].kids = cells[v][n].kids

LEMMA Grown ==
  ASSUME Grows
  PROVE  /\ Places \subseteq Places' /\ Name' = Name /\ Val' = Val
         /\ TaskSet \subseteq TaskSet' /\ CellSet \subseteq CellSet'
         /\ Seq(TaskSet) \subseteq Seq(TaskSet') /\ Seq(CellSet) \subseteq Seq(CellSet')
  <1>1. Name' = Name /\ Val' = Val
    BY DEF Grows, Name, Val
  <1>2. Places \subseteq Places'
    <2> SUFFICES ASSUME NEW r \in Places PROVE r \in Places'
      OBVIOUS
    <2>1. CASE r = <<>>
      BY <2>1, PlacesIs, PlacesNow
    <2>2. ASSUME NEW v \in Worker, NEW n \in DOMAIN cells[v], NEW i \in 1 .. cells[v][n].kids,
                 r = <<v, n, i>>
          PROVE  r \in Places'
      <3>1. n \in DOMAIN cells'[v] /\ i \in 1 .. cells'[v][n].kids
        BY <2>2 DEF Grows
      <3> QED
        BY <2>2, <3>1, PlacesIs, PlacesNow
    <2> QED
      BY <2>1, <2>2, PlacesIs, PlacesNow
  <1>3. TaskSet \subseteq TaskSet' /\ CellSet \subseteq CellSet'
    BY <1>1, <1>2 DEF TaskSet, CellSet
  <1>4. \A S, T : S \subseteq T => Seq(S) \subseteq Seq(T)
    BY SeqMonotonic
  <1> QED
    BY <1>1, <1>2, <1>3, <1>4

\* What a dispatch can return: a value; a task for the same place; or a cell
\* that takes the place over, and a task for each of its children.
Returns(w, t, d) ==
  d.kind = "value" /\ d.cells = cells[w] /\ d.tasks = <<>> /\ d.val \in Val \ {None}

Tails(w, t, d) ==
  /\ d.kind = "call" /\ d.cells = cells[w]
  /\ \E f \in Name : d.tasks = <<Task(f, t.ret, t.args)>>

Opens(w, t, d) ==
  /\ d.kind \in {"call", "split"}
  /\ \E k \in 1 .. 2 : \E f \in Name : \E g \in [1 .. k -> Name] :
       /\ d.cells = Append(cells[w], NewCell(f, t.ret, k))
       /\ d.tasks = [i \in 1 .. k |-> Task(g[i], <<w, Len(cells[w]) + 1, i>>, t.args)]

LEMMA DispatchIs ==
  ASSUME program \in Programs, NEW w \in Worker, NEW t \in TaskSet
  PROVE  LET d == Dispatch(w, t) IN Returns(w, t, d) \/ Tails(w, t, d) \/ Opens(w, t, d)
  <1> DEFINE body == program[t.fn]
             d == Dispatch(w, t)
  <1>1. t.fn \in Name /\ t.args[1] \in Seq(Name) /\ t.args[2] \in Seq(Name)
    BY DEF TaskSet, Val
  <1>2. \/ body \in [kind : {"value"}]
        \/ body \in [kind : {"tail"}, call : Name]
        \/ body \in [kind : {"call"}, call : Name, cont : Name]
        \/ body \in [kind : {"split"}, call : [1 .. 2 -> Name], cont : Name]
    BY <1>1, ProgramAssumption DEF Name
  <1>3. CASE body \in [kind : {"value"}]
    <2> DEFINE u == <<t.fn>> \o t.args[1]
               v == u \o t.args[2]
    <2>1. body.kind = "value"
      BY <1>3
    <2>2. <<t.fn>> \in Seq(Name) /\ Len(<<t.fn>>) = 1
      BY <1>1
    <2>3. u \in Seq(Name) /\ Len(u) = 1 + Len(t.args[1])
      BY <1>1, <2>2, ConcatProperties
    <2> HIDE DEF u
    <2>4. v \in Seq(Name) /\ Len(v) = Len(u) + Len(t.args[2])
      BY <1>1, <2>3, ConcatProperties
    <2>5. d = [kind |-> "value", cells |-> cells[w], tasks |-> <<>>, val |-> v]
      BY <2>1 DEF Dispatch, u
    <2> HIDE DEF v, d
    <2>6. Len(v) # 0
      <3>1. t.args[1] \in Seq(Name) /\ t.args[2] \in Seq(Name)
        BY <1>1
      <3>2. \A q \in Seq(Name) : Len(q) \in Nat
        BY LenProperties
      <3>3. Len(v) = 1 + Len(t.args[1]) + Len(t.args[2])
        BY <2>3, <2>4
      <3>4. \A x, y \in Nat : 1 + x + y # 0
        OBVIOUS
      <3>5. Len(t.args[1]) \in Nat /\ Len(t.args[2]) \in Nat
        BY <3>1, <3>2
      <3>6. 1 + Len(t.args[1]) + Len(t.args[2]) # 0
        BY ONLY <3>4, <3>5, Zenon
      <3> QED
        BY <3>3, <3>6
    <2>7. Len(None) = 0
      BY DEF None
    <2>8. v # None
      BY <2>6, <2>7
    <2>9. Returns(w, t, d)
      BY <2>4, <2>5, <2>8 DEF Returns, Val
    <2> QED
      BY <2>9 DEF d
  <1>4. CASE body \in [kind : {"tail"}, call : Name]
    <2>1. body.kind = "tail" /\ body.call \in Name
      BY <1>4
    <2>2. d = [kind |-> "call", cells |-> cells[w], val |-> None,
               tasks |-> <<Task(body.call, t.ret, t.args)>>]
      BY <2>1 DEF Dispatch
    <2> QED
      BY <2>1, <2>2 DEF Tails
  <1>5. CASE body \in [kind : {"call"}, call : Name, cont : Name]
    <2>1. body.kind = "call" /\ body.call \in Name /\ body.cont \in Name
      BY <1>5
    <2>2. d = [kind |-> "call", val |-> None,
               cells |-> Append(cells[w], NewCell(body.cont, t.ret, 1)),
               tasks |-> <<Task(body.call, <<w, Len(cells[w]) + 1, 1>>, t.args)>>]
      BY <2>1 DEF Dispatch, Ret
    <2> DEFINE g == [i \in 1 .. 1 |-> body.call]
    <2>3. g \in [1 .. 1 -> Name]
      BY <2>1
    <2>4. <<Task(body.call, <<w, Len(cells[w]) + 1, 1>>, t.args)>>
            = [i \in 1 .. 1 |-> Task(g[i], <<w, Len(cells[w]) + 1, i>>, t.args)]
      OBVIOUS
    <2>5. /\ d.kind \in {"call", "split"} /\ 1 \in 1 .. 2
          /\ d.cells = Append(cells[w], NewCell(body.cont, t.ret, 1))
          /\ d.tasks = [i \in 1 .. 1 |-> Task(g[i], <<w, Len(cells[w]) + 1, i>>, t.args)]
      BY <2>2, <2>4
    <2> HIDE DEF g, d, body
    <2>6. Opens(w, t, d)
      BY <2>1, <2>3, <2>5 DEF Opens
    <2> QED
      BY <2>6 DEF d
  <1>6. CASE body \in [kind : {"split"}, call : [1 .. 2 -> Name], cont : Name]
    <2>1. body.kind = "split" /\ body.call \in [1 .. 2 -> Name] /\ body.cont \in Name
      BY <1>6
    <2>2. d = [kind |-> "split", val |-> None,
               cells |-> Append(cells[w], NewCell(body.cont, t.ret, 2)),
               tasks |-> [i \in 1 .. 2 |-> Task(body.call[i], <<w, Len(cells[w]) + 1, i>>, t.args)]]
      BY <2>1 DEF Dispatch, Ret
    <2>3. /\ d.kind \in {"call", "split"} /\ 2 \in 1 .. 2
          /\ d.cells = Append(cells[w], NewCell(body.cont, t.ret, 2))
          /\ d.tasks = [i \in 1 .. 2 |-> Task(body.call[i], <<w, Len(cells[w]) + 1, i>>, t.args)]
      BY <2>2
    <2> HIDE DEF d, body
    <2>4. Opens(w, t, d)
      BY <2>1, <2>3 DEF Opens
    <2> QED
      BY <2>4 DEF d
  <1> QED
    BY <1>2, <1>3, <1>4, <1>5, <1>6

\* The types of what it returns, once its cells are there.
LEMMA DispatchTypes ==
  ASSUME TypeOK, NEW w \in Worker, NEW t \in TaskSet, program' = program,
         cells' = [cells EXCEPT ![w] = Dispatch(w, t).cells]
  PROVE  /\ Grows /\ cells' \in [Worker -> Seq(CellSet')]
         /\ LET d == Dispatch(w, t)
            IN \/ d.kind = "value" /\ d.tasks = <<>> /\ d.val \in Val'
               \/ /\ d.kind \in {"call", "split"}
                  /\ d.tasks \in Seq(TaskSet') /\ Len(d.tasks) \in 1 .. 2
  <1> DEFINE d == Dispatch(w, t)
             n == Len(cells[w]) + 1
  <1>0. /\ cells \in [Worker -> Seq(CellSet)] /\ program \in Programs
        /\ cells' = [cells EXCEPT ![w] = d.cells]
        /\ t.fn \in Name /\ t.ret \in Places /\ t.args \in [1 .. 2 -> Val]
        /\ Len(cells[w]) \in Nat /\ DOMAIN cells[w] = 1 .. Len(cells[w])
    BY LenProperties DEF TypeOK, TaskSet
  <1>1. Returns(w, t, d) \/ Tails(w, t, d) \/ Opens(w, t, d)
    BY <1>0, DispatchIs
  <1> HIDE DEF d
  <1>2. ASSUME d.cells = cells[w]
        PROVE  cells' = cells /\ Grows
    BY <1>0, <1>2 DEF Grows
  <1>3. CASE Returns(w, t, d)
    <2>1. cells' = cells /\ Grows
      BY <1>2, <1>3 DEF Returns
    <2>2. Val' = Val /\ CellSet' = CellSet
      <3>1. Val' = Val /\ Name' = Name
        BY <2>1, Grown
      <3>2. Places' = Places
        BY <2>1, PlacesNow
      <3> QED
        BY <3>1, <3>2 DEF CellSet
    <2> QED
      BY <1>0, <1>3, <2>1, <2>2 DEF Returns, d
  <1>4. CASE Tails(w, t, d)
    <2>1. cells' = cells /\ Grows
      BY <1>2, <1>4 DEF Tails
    <2>2. TaskSet \subseteq TaskSet' /\ CellSet' = CellSet
      <3>1. Val' = Val /\ Name' = Name /\ TaskSet \subseteq TaskSet'
        BY <2>1, Grown
      <3>2. Places' = Places
        BY <2>1, PlacesNow
      <3> QED
        BY <3>1, <3>2 DEF CellSet
    <2>3. PICK f \in Name : d.tasks = <<Task(f, t.ret, t.args)>>
      BY <1>4 DEF Tails
    <2>4. Task(f, t.ret, t.args) \in TaskSet
      BY <1>0 DEF TaskSet, Task
    <2>5. d.tasks \in Seq(TaskSet') /\ Len(d.tasks) = 1
      BY <2>2, <2>3, <2>4
    <2>6. d.kind = "call" /\ cells' \in [Worker -> Seq(CellSet')]
      BY <1>0, <1>4, <2>1, <2>2 DEF Tails
    <2> QED
      BY <2>1, <2>5, <2>6 DEF d
  <1>5. CASE Opens(w, t, d)
    <2>1. PICK k \in 1 .. 2 : \E f \in Name : \E g \in [1 .. k -> Name] :
            /\ d.cells = Append(cells[w], NewCell(f, t.ret, k))
            /\ d.tasks = [i \in 1 .. k |-> Task(g[i], <<w, n, i>>, t.args)]
      BY <1>5 DEF Opens
    <2>0. PICK f \in Name, g \in [1 .. k -> Name] :
            /\ d.cells = Append(cells[w], NewCell(f, t.ret, k))
            /\ d.tasks = [i \in 1 .. k |-> Task(g[i], <<w, n, i>>, t.args)]
      BY <2>1
    <2> DEFINE new == NewCell(f, t.ret, k)
    <2>2. new.kids = k /\ new \in CellSet
      <3>1. <<None, None>> \in [1 .. 2 -> Seq(Name)]
        <4>1. None \in Seq(Name)
          BY DEF None
        <4> HIDE DEF None
        <4> QED
          BY <4>1
      <3> QED
        BY <1>0, <2>0, <3>1 DEF NewCell, CellSet, Val
    <2>3. /\ cells' = [cells EXCEPT ![w] = Append(cells[w], new)]
          /\ Append(cells[w], new) \in Seq(CellSet)
          /\ Len(Append(cells[w], new)) = n
          /\ DOMAIN Append(cells[w], new) = 1 .. n
          /\ Append(cells[w], new)[n] = new
          /\ \A i \in 1 .. Len(cells[w]) : Append(cells[w], new)[i] = cells[w][i]
      <3>1. cells[w] \in Seq(CellSet) /\ cells' = [cells EXCEPT ![w] = Append(cells[w], new)]
        BY <1>0, <2>0
      <3> HIDE DEF new
      <3>2. /\ Append(cells[w], new) \in Seq(CellSet) /\ Len(Append(cells[w], new)) = n
            /\ Append(cells[w], new)[n] = new
            /\ \A i \in 1 .. Len(cells[w]) : Append(cells[w], new)[i] = cells[w][i]
        BY ONLY <2>2, <3>1, AppendProperties
      <3>3. DOMAIN Append(cells[w], new) = 1 .. n
        BY ONLY <3>2, LenProperties
      <3> QED
        BY <3>1, <3>2, <3>3
    <2> HIDE DEF new
    <2>4. Grows
      <3> SUFFICES ASSUME NEW v \in Worker, NEW i \in DOMAIN cells[v]
                   PROVE  i \in DOMAIN cells'[v] /\ cells'[v][i].kids = cells[v][i].kids
        BY DEF Grows
      <3>1. CASE v = w
        BY <1>0, <2>3, <3>1
      <3>2. CASE v # w
        BY <1>0, <2>3, <3>2
      <3> QED
        BY <3>1, <3>2
    <2>5. Seq(CellSet) \subseteq Seq(CellSet') /\ Val' = Val /\ Name' = Name
      BY <2>4, Grown
    <2>6. cells' \in [Worker -> Seq(CellSet')]
      BY <1>0, <2>3, <2>5
    <2>7. \A i \in 1 .. k : <<w, n, i>> \in Places'
      <3> TAKE i \in 1 .. k
      <3>1. n \in DOMAIN cells'[w] /\ cells'[w][n].kids = k
        BY <1>0, <2>2, <2>3
      <3> QED
        BY <3>1, PlacesIs, PlacesNow
    <2>8. \A i \in 1 .. k : Task(g[i], <<w, n, i>>, t.args) \in TaskSet'
      BY <1>0, <2>0, <2>5, <2>7 DEF TaskSet, Task
    <2>9. d.tasks \in Seq(TaskSet') /\ Len(d.tasks) = k
      <3>1. d.tasks \in [1 .. k -> TaskSet'] /\ k \in Nat
        BY <2>0, <2>8
      <3>2. d.tasks \in Seq(TaskSet')
        BY <3>1, SeqDef
      <3> QED
        BY <3>1, <3>2, LenProperties
    <2> QED
      BY <1>5, <2>0, <2>4, <2>6, <2>9 DEF Opens, d
  <1> QED
    BY <1>1, <1>3, <1>4, <1>5

\* What a step works on.
LEMMA PlaceIs ==
  ASSUME TypeOK, NEW r \in Places, r # Root
  PROVE  /\ r[1] \in Worker /\ r[2] \in DOMAIN cells[r[1]]
         /\ r[3] \in 1 .. CellAt(r).kids /\ r = <<r[1], r[2], r[3]>>
         /\ CellAt(r) \in CellSet /\ cells[r[1]] \in Seq(CellSet)
  <1>1. PICK v \in Worker : \E n \in DOMAIN cells[v] : \E i \in 1 .. cells[v][n].kids :
          r = <<v, n, i>>
    BY PlacesIs, PlacesNow DEF Root
  <1>2. PICK n \in DOMAIN cells[v] : \E i \in 1 .. cells[v][n].kids : r = <<v, n, i>>
    BY <1>1
  <1>3. PICK i \in 1 .. cells[v][n].kids : r = <<v, n, i>>
    BY <1>2
  <1>4. cells[v] \in Seq(CellSet)
    BY DEF TypeOK
  <1>5. cells[v][n] \in CellSet
    BY <1>4, ElementOfSeq, LenProperties
  <1> QED
    BY <1>3, <1>4, <1>5 DEF CellAt

LEMMA TakenIs ==
  ASSUME TypeOK, Numbers, Queue, NEW w \in Worker, grab[w] # <<>>
  PROVE  /\ Head(grab[w]) \in 0 .. taskCnt - 1 /\ Head(grab[w]) < workIdx
         /\ buf[Head(grab[w])] \in TaskSet
         /\ Tail(grab[w]) \in Seq(Nat) /\ Len(Tail(grab[w])) = Len(grab[w]) - 1
  <1>1. grab[w] \in Seq(Nat) /\ taskCnt \in Nat
    BY DEF TypeOK
  <1>2. Head(grab[w]) \in Nat /\ Tail(grab[w]) \in Seq(Nat)
        /\ Len(Tail(grab[w])) = Len(grab[w]) - 1
    BY <1>1, HeadTailProperties
  <1>3. Head(grab[w]) < taskCnt /\ Head(grab[w]) < workIdx
    BY DEF Numbers, Known, Leaves, Indices
  <1>4. Head(grab[w]) \in 0 .. taskCnt - 1
    BY <1>1, <1>2, <1>3
  <1> QED
    BY <1>2, <1>3, <1>4 DEF Queue

LEMMA FiredIs ==
  ASSUME TypeOK, NEW r \in Places, r # Root
  PROVE  Fired(CellAt(r)) \in TaskSet
  <1>1. CellAt(r) \in CellSet
    BY PlaceIs
  <1> HIDE DEF CellAt
  <1> QED
    BY <1>1 DEF CellSet, TaskSet, Fired, Task

LEMMA TopIs ==
  ASSUME TypeOK, NEW w \in Worker, stack[w] # <<>>
  PROVE  /\ Last(stack[w]) \in TaskSet /\ Front(stack[w]) \in Seq(TaskSet)
         /\ Len(Front(stack[w])) = Len(stack[w]) - 1 /\ Len(stack[w]) \in Nat \ {0}
  <1>1. stack[w] \in Seq(TaskSet)
    BY DEF TypeOK
  <1> QED
    BY <1>1, FrontIs

\* Changing one cell.
LEMMA CellChange ==
  ASSUME TypeOK, program' = program, NEW v \in Worker, NEW n \in DOMAIN cells[v],
         NEW c \in CellSet, c.kids = cells[v][n].kids,
         cells' = [cells EXCEPT ![v] = [cells[v] EXCEPT ![n] = c]]
  PROVE  Grows /\ cells' \in [Worker -> Seq(CellSet')]
  <1>1. cells \in [Worker -> Seq(CellSet)] /\ cells[v] \in Seq(CellSet)
    BY DEF TypeOK
  <1>2. [cells[v] EXCEPT ![n] = c] \in Seq(CellSet)
    BY <1>1, ExceptSeq, LenProperties
  <1>3. DOMAIN [cells[v] EXCEPT ![n] = c] = DOMAIN cells[v]
    OBVIOUS
  <1>4. Grows
    <2> SUFFICES ASSUME NEW u \in Worker, NEW i \in DOMAIN cells[u]
                 PROVE  i \in DOMAIN cells'[u] /\ cells'[u][i].kids = cells[u][i].kids
      BY DEF Grows
    <2>1. CASE u = v /\ i = n
      BY <1>1, <1>3, <2>1
    <2>2. CASE ~ (u = v /\ i = n)
      BY <1>1, <1>3, <2>2
    <2> QED
      BY <2>1, <2>2
  <1>5. Seq(CellSet) \subseteq Seq(CellSet')
    BY <1>4, Grown
  <1> QED
    BY <1>1, <1>2, <1>4, <1>5

\* A worker that is not at a barrier.
LEMMA StageAt ==
  ASSUME TypeOK, NEW w \in Worker, Private(w), ~AtBarrier(w)
  PROVE  st[w] = "out" /\ Stage(w) = Own(pc[w])
  BY DEF TypeOK, Private, Stage

\* Where a worker goes when it has dealt with a task.
LEMMA DealtIs ==
  ASSUME NEW w, NEW out, NEW left
  PROVE  /\ Dealt(w, out, left) => \E l \in {"descend", "flush", "grab", "take"} :
                                     pc' = [pc EXCEPT ![w] = l]
         /\ NextTask(w, left) => \E l \in {"grab", "take"} : pc' = [pc EXCEPT ![w] = l]
         /\ Resolved(w, out) <=> /\ Dealt(w, out, grab[w])
                                 /\ res' = [res EXCEPT ![w] = NoRes]
  BY DEF Dealt, NextTask, Goto, Resolved

-----------------------------------------------------------------------------
(* Types *)

\* The actions that leave the cells alone.
Plain(w) ==
  \/ Arrive(w) \/ Pass(w) \/ Check(w) \/ NextRound(w) \/ Compact(w) \/ Again(w)
  \/ Grab(w) \/ TakeWork(w) \/ DescendEnd(w) \/ ResolveRoot(w) \/ Finish(w)
  \/ Flush(w) \/ Copy(w)

LEMMA SameSets ==
  ASSUME program' = program, cells' = cells
  PROVE  /\ Places' = Places /\ Name' = Name /\ Val' = Val
         /\ TaskSet' = TaskSet /\ CellSet' = CellSet
  <1>1. Places' = Places
    BY PlacesNow
  <1>2. Name' = Name /\ Val' = Val
    BY DEF Name, Val
  <1> QED
    BY <1>1, <1>2 DEF TaskSet, CellSet

LEMMA TypeInit == Init => TypeOK
  <1> SUFFICES ASSUME Init PROVE TypeOK
    OBVIOUS
  <1> USE DEF Init
  <1>1. program \in Programs /\ "main" \in Name /\ None \in Val /\ Root \in Places
    BY ProgramAssumption DEF Name, Val, None, Places
  <1>2. <<None, None>> \in [1 .. 2 -> Val]
    <2> HIDE DEF None, Val
    <2> QED
      BY <1>1
  <1>3. RootTask \in TaskSet
    BY <1>1, <1>2 DEF RootTask, Task, TaskSet
  <1>4. NoRes \in [ret : Places, val : Val]
    BY <1>1 DEF NoRes
  <1>5. <<RootTask>> \in Seq(TaskSet) /\ <<>> \in Seq(TaskSet)
    BY <1>3
  <1>6. /\ stack \in [Worker -> Seq(TaskSet)] /\ wo \in [Worker -> Seq(TaskSet)]
        /\ res \in [Worker -> [ret : Places, val : Val]] /\ result \in Val
    BY <1>1, <1>4, <1>5
  <1>7. buf \in [0 .. QueueCap - 1 -> TaskSet \cup {NoTask}]
    BY <1>3
  <1>8. cells \in [Worker -> Seq(CellSet)]
    BY DEF CellSet
  <1>9. serial \in BOOLEAN /\ done \in BOOLEAN
    OBVIOUS
  <1>10. st \in [Worker -> {"out", "in", "free"}]
    BY DEF B!Init
  <1>11. pc \in [Worker -> RoundPc \cup BarrierPc \cup {"check", "next", "compact", "again", "quit"}]
    BY DEF RoundPc, BarrierPc
  <1>12. mode \in [Worker -> {"serial", "seed", "work"}] /\ grab \in [Worker -> Seq(Nat)]
    OBVIOUS
  <1>13. round \in [Worker -> [iter : Nat, cnt : Nat, dst : Nat]]
    OBVIOUS
  <1>14. taskCnt \in Nat /\ taskCntNew \in Nat /\ workIdx \in Nat
    OBVIOUS
  <1> QED
    BY <1>1, <1>6, <1>7, <1>8, <1>9, <1>10, <1>11, <1>12, <1>13, <1>14 DEF TypeOK

LEMMA BatchType ==
  ASSUME NEW c \in Nat
  PROVE  Batch(c) \in Nat \ {0}
  <1>1. Threads \in Nat /\ Threads >= 1 /\ GrabMax \in Nat \ {0}
    BY WorkerIs, CapAssumption
  <1>2. PICK all : all = 4 * Threads
    OBVIOUS
  <1>3. all \in Nat /\ all >= 1
    BY <1>1, <1>2
  <1>4. PICK share : share = c \div all
    OBVIOUS
  <1>5. share \in Nat
    BY <1>3, <1>4
  <1> QED
    BY <1>1, <1>2, <1>4, <1>5 DEF Batch

LEMMA PlainTypes ==
  ASSUME Inv, NEW w \in Worker, Plain(w)
  PROVE  TypeOK'
  <1>1. program' = program /\ cells' = cells
    BY DEF Plain, Arrive, Pass, Check, NextRound, Compact, Again, Grab, TakeWork,
           DescendEnd, ResolveRoot, Finish, Flush, Copy
  <1>2. /\ Places' = Places /\ Val' = Val /\ TaskSet' = TaskSet /\ CellSet' = CellSet
    BY <1>1, SameSets
  <1>3. pc' \in [Worker -> RoundPc \cup BarrierPc \cup {"check", "next", "compact", "again", "quit"}]
    <2>1. \/ pc' = pc
          \/ \E l \in RoundPc \cup BarrierPc \cup {"check", "next", "compact", "again", "quit"} :
               pc' = [pc EXCEPT ![w] = l]
      <3>1. CASE Arrive(w) \/ Pass(w)
        <4>1. pc' = pc \/ pc' = [pc EXCEPT ![w] = After(pc[w])]
          BY <3>1 DEF Arrive, Pass, Goto
        <4>2. pc[w] \in BarrierPc => After(pc[w]) \in RoundPc \cup {"check", "compact", "again"}
          BY DEF After, BarrierPc, RoundPc
        <4>3. pc' # pc => pc[w] \in BarrierPc
          BY <3>1 DEF Arrive, Pass, B!Leave, Inv, Private, AtBarrier, BarrierPc
        <4> QED
          BY <4>1, <4>2, <4>3
      <3>2. CASE Check(w) \/ NextRound(w) \/ Compact(w) \/ Again(w)
        BY <3>2 DEF Check, NextRound, Compact, Again, Goto, RoundPc, BarrierPc
      <3>3. CASE Grab(w) \/ TakeWork(w) \/ ResolveRoot(w)
        BY <3>3 DEF Grab, TakeWork, ResolveRoot, Goto, RoundPc, BarrierPc
      <3>4. CASE Finish(w) \/ DescendEnd(w)
        BY <3>4 DEF Finish, DescendEnd, NextTask, Dealt, Resolved, Goto, RoundPc, BarrierPc
      <3>5. CASE Flush(w) \/ Copy(w)
        BY <3>5 DEF Flush, Copy, NextTask, Goto, RoundPc, BarrierPc
      <3> QED
        BY <3>1, <3>2, <3>3, <3>4, <3>5 DEF Plain
    <2> QED
      BY <2>1 DEF Inv, TypeOK
  <1>4. st' \in [Worker -> {"out", "in", "free"}]
    BY DEF Inv, TypeOK, Plain, Arrive, Pass, Check, NextRound, Compact, Again, Grab, TakeWork,
           DescendEnd, ResolveRoot, Finish, Flush, Copy, B!ArriveLast, B!ArriveEarly, B!Leave
  <1>12. mode' \in [Worker -> {"serial", "seed", "work"}]
    <2>1. CASE NextRound(w)
      BY <2>1 DEF NextRound, Inv, TypeOK
    <2>2. CASE mode' = mode
      BY <2>2 DEF Inv, TypeOK
    <2>3. CASE Arrive(w) \/ Pass(w) \/ Check(w) \/ Compact(w) \/ Again(w) \/ Grab(w)
      BY <2>2, <2>3 DEF Arrive, Pass, Check, Compact, Again, Grab
    <2>4. CASE TakeWork(w) \/ DescendEnd(w) \/ ResolveRoot(w) \/ Finish(w) \/ Flush(w) \/ Copy(w)
      BY <2>2, <2>4 DEF TakeWork, DescendEnd, ResolveRoot, Finish, Flush, Copy
    <2> QED
      BY <2>1, <2>3, <2>4 DEF Plain
  <1>5. round' \in [Worker -> [iter : Nat, cnt : Nat, dst : Nat]]
    <2>1. /\ round \in [Worker -> [iter : Nat, cnt : Nat, dst : Nat]]
          /\ taskCnt \in Nat /\ taskCntNew \in Nat
      BY DEF Inv, TypeOK
    <2>2. CASE Check(w) \/ NextRound(w) \/ Again(w)
      BY <2>1, <2>2 DEF Check, NextRound, Again
    <2>3. CASE Flush(w)
      BY <2>1, <2>3 DEF Flush
    <2>4. CASE Arrive(w) \/ Pass(w) \/ Compact(w) \/ Grab(w) \/ TakeWork(w)
               \/ DescendEnd(w) \/ ResolveRoot(w) \/ Finish(w) \/ Copy(w)
      <3>1. round' = round
        BY <2>4 DEF Arrive, Pass, Compact, Grab, TakeWork, DescendEnd, ResolveRoot, Finish, Copy
      <3> QED
        BY <2>1, <3>1
    <2> QED
      BY <2>2, <2>3, <2>4 DEF Plain
  <1>6. workIdx' \in Nat /\ taskCnt' \in Nat /\ taskCntNew' \in Nat
    <2>1. Batch(round[w].cnt) \in Nat
      BY BatchType DEF Inv, TypeOK
    <2>2. Len(wo[w]) \in Nat
      BY LenProperties DEF Inv, TypeOK
    <2> QED
      BY <2>1, <2>2 DEF Inv, TypeOK, Plain, Arrive, Pass, Check, NextRound, Compact, Again, Grab, TakeWork,
             DescendEnd, ResolveRoot, Finish, Flush, Copy, queue
  <1>7. grab' \in [Worker -> Seq(Nat)]
    <2>1. CASE grab' = grab
      BY <2>1 DEF Inv, TypeOK
    <2>2. CASE Grab(w) /\ grab' # grab
      <3> DEFINE end == workIdx + Batch(round[w].cnt)
                 many == (IF end > round[w].cnt THEN round[w].cnt ELSE end) - workIdx
                 new == [i \in 1 .. many |-> workIdx + i - 1]
      <3>1. grab' = [grab EXCEPT ![w] = new] /\ ~ (workIdx >= round[w].cnt)
        BY <2>2 DEF Grab
      <3>2. many \in Nat
        <4>1. Batch(round[w].cnt) \in Nat \ {0} /\ round[w].cnt \in Nat /\ workIdx \in Nat
          BY BatchType DEF Inv, TypeOK
        <4> QED
          BY <3>1, <4>1
      <3>3. new \in [1 .. many -> Nat]
        BY <3>2 DEF Inv, TypeOK
      <3> HIDE DEF many, new
      <3>4. new \in Seq(Nat)
        BY <3>2, <3>3, SeqDef
      <3> QED
        BY <3>1, <3>4 DEF Inv, TypeOK
    <2>3. CASE TakeWork(w)
      <3>1. Tail(grab[w]) \in Seq(Nat)
        BY <2>3, TakenIs DEF TakeWork, Inv, Private
      <3> QED
        BY <2>3, <3>1 DEF TakeWork, Inv, TypeOK
    <2> QED
      BY <2>1, <2>2, <2>3 DEF Plain, Arrive, Pass, Check, NextRound, Compact, Again,
             DescendEnd, ResolveRoot, Finish, Flush, Copy
  <1>8. stack' \in [Worker -> Seq(TaskSet)] /\ wo' \in [Worker -> Seq(TaskSet)]
    <2>1. CASE TakeWork(w)
      <3>1. buf[Head(grab[w])] \in TaskSet
        BY <2>1, TakenIs DEF TakeWork, Inv, Private
      <3> QED
        BY <2>1, <3>1 DEF TakeWork, Inv, TypeOK
    <2>2. CASE Copy(w)
      BY <2>2 DEF Copy, Inv, TypeOK
    <2> QED
      BY <2>1, <2>2 DEF Plain, Arrive, Pass, Check, NextRound, Compact, Again, Grab,
             DescendEnd, ResolveRoot, Finish, Flush, Inv, TypeOK
  <1>9. res' \in [Worker -> [ret : Places, val : Val]] /\ result' \in Val
    <2>1. NoRes \in [ret : Places, val : Val]
      BY DEF NoRes, Places, Val, None
    <2>2. CASE Finish(w)
      BY <2>1, <2>2 DEF Finish, Resolved, Inv, TypeOK
    <2>3. CASE ResolveRoot(w)
      BY <2>3 DEF ResolveRoot, Inv, TypeOK
    <2> QED
      BY <2>2, <2>3 DEF Plain, Arrive, Pass, Check, NextRound, Compact, Again, Grab, TakeWork,
             DescendEnd, Flush, Copy, Inv, TypeOK, answer
  <1>10. buf' \in [0 .. QueueCap - 1 -> TaskSet \cup {NoTask}]
    <2>1. CASE Compact(w)
      <3>1. ASSUME w = 0, NEW i \in 0 .. QueueCap - 1, i < taskCntNew
            PROVE  buf[round[w].cnt + i] \in TaskSet \cup {NoTask}
        <4>1. pc[0] = "compact"
          BY <2>1, <3>1 DEF Compact
        <4>2. taskCnt + taskCntNew <= 6 * Threads - 3 /\ round[0].cnt = taskCnt
          <5>1. Stage(0) = "close" /\ ~serial
            BY <4>1, StageAt, WorkerIs DEF Inv, AtBarrier, Own, RoundPc, Alone, RunPc
          <5> QED
            BY <4>1, <5>1 DEF Inv, Numbers, Known, Leaves, Indices
        <4>3. taskCnt \in Nat /\ taskCntNew \in Nat
          BY DEF Inv, TypeOK
        <4>4. taskCnt + i \in 0 .. QueueCap - 1
          BY <3>1, <4>2, <4>3, WorkerIs, CapAssumption, QueueAssumption
        <4> QED
          BY <3>1, <4>2, <4>4 DEF Inv, TypeOK
      <3> QED
        BY <2>1, <3>1 DEF Compact, Inv, TypeOK
    <2>2. CASE Copy(w)
      <3> DEFINE at == round[w].cnt + round[w].dst
      <3>1. wo[w] \in Seq(TaskSet) /\ at \in Nat /\ Len(wo[w]) \in Nat
        BY LenProperties DEF Inv, TypeOK
      <3>2. \A i \in at .. at + Len(wo[w]) - 1 : wo[w][i - at + 1] \in TaskSet
        <4> TAKE i \in at .. at + Len(wo[w]) - 1
        <4>1. i - at + 1 \in 1 .. Len(wo[w])
          BY <3>1
        <4> QED
          BY <3>1, <4>1, ElementOfSeq
      <3>3. buf' = [i \in 0 .. QueueCap - 1 |->
                      IF i \in at .. at + Len(wo[w]) - 1 THEN wo[w][i - at + 1] ELSE buf[i]]
        BY <2>2 DEF Copy
      <3> HIDE DEF at
      <3> QED
        BY <3>2, <3>3 DEF Inv, TypeOK
    <2> QED
      BY <2>1, <2>2 DEF Plain, Arrive, Pass, Check, NextRound, Again, Grab, TakeWork, ResolveRoot, Finish,
             DescendEnd, Flush, Inv, TypeOK, queue
  <1>11. serial' \in BOOLEAN /\ done' \in BOOLEAN /\ program' \in Programs /\ cells' \in [Worker -> Seq(CellSet')]
    BY <1>1, <1>2 DEF Plain, Arrive, Pass, Check, NextRound, Compact, Again, Grab, TakeWork, ResolveRoot, Finish,
             DescendEnd, Flush, Copy, Inv, TypeOK, answer
  <1> QED
    BY <1>2, <1>3, <1>4, <1>5, <1>6, <1>7, <1>8, <1>9, <1>10, <1>11, <1>12 DEF TypeOK

\* The actions that dispatch a task, and those that write a cell.
LEMMA GrownTypes ==
  ASSUME Inv, NEW w \in Worker, Grows, cells' \in [Worker -> Seq(CellSet')],
         serial' = serial, st' = st, mode' = mode, round' = round, buf' = buf,
         taskCnt' = taskCnt, taskCntNew' = taskCntNew, workIdx' = workIdx,
         result' = result, done' = done, grab' \in [Worker -> Seq(Nat)],
         pc' = pc \/ \E l \in RoundPc : pc' = [pc EXCEPT ![w] = l],
         stack' = stack \/ \E q \in Seq(TaskSet') : stack' = [stack EXCEPT ![w] = q],
         wo' = wo \/ \E q \in Seq(TaskSet') : wo' = [wo EXCEPT ![w] = q],
         res' = res \/ \E q \in [ret : Places', val : Val'] : res' = [res EXCEPT ![w] = q]
  PROVE  TypeOK'
  <1>1. /\ Places \subseteq Places' /\ Val' = Val /\ TaskSet \subseteq TaskSet'
        /\ Seq(TaskSet) \subseteq Seq(TaskSet') /\ program' = program
    BY Grown DEF Grows
  <1>2. program' \in Programs /\ serial' \in BOOLEAN /\ done' \in BOOLEAN /\ result' \in Val'
    BY <1>1 DEF Inv, TypeOK
  <1>3. /\ st' \in [Worker -> {"out", "in", "free"}]
        /\ mode' \in [Worker -> {"serial", "seed", "work"}]
        /\ round' \in [Worker -> [iter : Nat, cnt : Nat, dst : Nat]]
        /\ taskCnt' \in Nat /\ taskCntNew' \in Nat /\ workIdx' \in Nat
    BY DEF Inv, TypeOK
  <1>4. pc' \in [Worker -> RoundPc \cup BarrierPc \cup {"check", "next", "compact", "again", "quit"}]
    <2>1. PICK P : P = RoundPc \cup BarrierPc \cup {"check", "next", "compact", "again", "quit"}
      OBVIOUS
    <2>2. pc \in [Worker -> P]
      BY <2>1 DEF Inv, TypeOK
    <2>3. RoundPc \subseteq P
      BY <2>1
    <2>4. ASSUME NEW l \in RoundPc, pc' = [pc EXCEPT ![w] = l]
          PROVE  pc' \in [Worker -> P]
      BY ONLY <2>2, <2>3, <2>4
    <2>5. pc' \in [Worker -> P]
      BY <2>2, <2>4
    <2> QED
      BY <2>1, <2>5
  <1>5. stack' \in [Worker -> Seq(TaskSet')]
    <2>1. stack \in [Worker -> Seq(TaskSet')]
      BY <1>1 DEF Inv, TypeOK
    <2>2. ASSUME NEW q \in Seq(TaskSet'), stack' = [stack EXCEPT ![w] = q]
          PROVE  stack' \in [Worker -> Seq(TaskSet')]
      BY <2>1, <2>2
    <2> QED
      BY <2>1, <2>2
  <1>6. wo' \in [Worker -> Seq(TaskSet')]
    <2>1. wo \in [Worker -> Seq(TaskSet')]
      BY <1>1 DEF Inv, TypeOK
    <2>2. ASSUME NEW q \in Seq(TaskSet'), wo' = [wo EXCEPT ![w] = q]
          PROVE  wo' \in [Worker -> Seq(TaskSet')]
      BY <2>1, <2>2
    <2> QED
      BY <2>1, <2>2
  <1>7. res' \in [Worker -> [ret : Places', val : Val']]
    <2>1. [ret : Places, val : Val] \subseteq [ret : Places', val : Val']
      BY <1>1
    <2>2. res \in [Worker -> [ret : Places', val : Val']]
      BY <2>1 DEF Inv, TypeOK
    <2>3. ASSUME NEW q \in [ret : Places', val : Val'], res' = [res EXCEPT ![w] = q]
          PROVE  res' \in [Worker -> [ret : Places', val : Val']]
      BY <2>2, <2>3
    <2> QED
      BY <2>2, <2>3
  <1>8. buf' \in [0 .. QueueCap - 1 -> TaskSet' \cup {NoTask}]
    BY <1>1 DEF Inv, TypeOK
  <1>9. NoTask' = NoTask
    BY DEF NoTask, Task, Root, None
  <1> QED
    BY <1>2, <1>3, <1>4, <1>5, <1>6, <1>7, <1>8, <1>9 DEF TypeOK

LEMMA TakeSeedTypes ==
  ASSUME Inv, NEW w \in Worker, TakeSeed(w)
  PROVE  TypeOK'
  <1> DEFINE t == buf[Head(grab[w])]
             d == Dispatch(w, t)
  <1>1. t \in TaskSet /\ Tail(grab[w]) \in Seq(Nat)
    BY TakenIs DEF TakeSeed, Inv, Private
  <1>2. /\ program' = program /\ cells' = [cells EXCEPT ![w] = d.cells]
        /\ grab' = [grab EXCEPT ![w] = Tail(@)]
        /\ IF d.kind = "value"
           THEN /\ res' = [res EXCEPT ![w] = [ret |-> t.ret, val |-> d.val]]
                /\ Goto(w, "resolve") /\ UNCHANGED wo
           ELSE /\ wo' = [wo EXCEPT ![w] = @ \o d.tasks]
                /\ Dealt(w, wo'[w], Tail(grab[w])) /\ UNCHANGED res
        /\ UNCHANGED <<program, serial, st, mode, round, stack, queue, answer>>
    BY DEF TakeSeed
  <1>3. /\ Grows /\ cells' \in [Worker -> Seq(CellSet')]
        /\ \/ d.kind = "value" /\ d.tasks = <<>> /\ d.val \in Val'
           \/ /\ d.kind \in {"call", "split"}
              /\ d.tasks \in Seq(TaskSet') /\ Len(d.tasks) \in 1 .. 2
    BY <1>1, <1>2, DispatchTypes DEF Inv
  <1>4. t.ret \in Places' /\ Seq(TaskSet) \subseteq Seq(TaskSet')
    BY <1>1, <1>3, Grown DEF TaskSet
  <1> HIDE DEF t, d
  <1>5. grab' \in [Worker -> Seq(Nat)]
    BY <1>1, <1>2 DEF Inv, TypeOK
  <1>6. CASE d.kind = "value"
    <2>1. [ret |-> t.ret, val |-> d.val] \in [ret : Places', val : Val']
      BY <1>3, <1>4, <1>6
    <2>2. pc' = [pc EXCEPT ![w] = "resolve"] /\ "resolve" \in RoundPc
      BY <1>2, <1>6 DEF Goto, RoundPc
    <2> QED
      BY <1>2, <1>3, <1>5, <1>6, <2>1, <2>2, GrownTypes DEF queue, answer
  <1>7. CASE d.kind # "value"
    <2>1. wo[w] \o d.tasks \in Seq(TaskSet')
      <3>1. wo[w] \in Seq(TaskSet') /\ d.tasks \in Seq(TaskSet')
        BY <1>3, <1>4, <1>7 DEF Inv, TypeOK
      <3> QED
        BY <3>1, ConcatProperties
    <2>2. \E l \in RoundPc : pc' = [pc EXCEPT ![w] = l]
      BY <1>2, <1>7, DealtIs DEF RoundPc
    <2> QED
      BY <1>2, <1>3, <1>5, <1>7, <2>1, <2>2, GrownTypes DEF queue, answer
  <1> QED
    BY <1>6, <1>7

LEMMA DescendTypes ==
  ASSUME Inv, NEW w \in Worker, Descend(w)
  PROVE  TypeOK'
  <1> DEFINE t == Last(stack[w])
             d == Dispatch(w, t)
  <1>1. t \in TaskSet /\ Front(stack[w]) \in Seq(TaskSet)
    BY TopIs DEF Descend, Inv
  <1>2. /\ program' = program /\ cells' = [cells EXCEPT ![w] = d.cells]
        /\ stack' = [stack EXCEPT ![w] = Front(@) \o Reverse(d.tasks)]
        /\ IF d.kind = "value"
           THEN /\ res' = [res EXCEPT ![w] = [ret |-> t.ret, val |-> d.val]]
                /\ Goto(w, "resolve")
           ELSE UNCHANGED <<pc, res>>
        /\ UNCHANGED <<program, serial, st, mode, round, grab, wo, queue, answer>>
    BY DEF Descend
  <1>3. /\ Grows /\ cells' \in [Worker -> Seq(CellSet')]
        /\ \/ d.kind = "value" /\ d.tasks = <<>> /\ d.val \in Val'
           \/ /\ d.kind \in {"call", "split"}
              /\ d.tasks \in Seq(TaskSet') /\ Len(d.tasks) \in 1 .. 2
    BY <1>1, <1>2, DispatchTypes DEF Inv
  <1>4. t.ret \in Places' /\ Seq(TaskSet) \subseteq Seq(TaskSet')
    BY <1>1, <1>3, Grown DEF TaskSet
  <1> HIDE DEF t, d
  <1>5. Front(stack[w]) \o Reverse(d.tasks) \in Seq(TaskSet')
    <2>1. d.tasks \in Seq(TaskSet')
      <3>1. <<>> \in Seq(TaskSet')
        OBVIOUS
      <3> QED
        BY <1>3, <3>1
    <2>2. Reverse(d.tasks) \in Seq(TaskSet') /\ Front(stack[w]) \in Seq(TaskSet')
      BY <1>1, <1>4, <2>1, ReverseIs
    <2> QED
      BY <2>2, ConcatProperties
  <1>6. stack' = [stack EXCEPT ![w] = Front(stack[w]) \o Reverse(d.tasks)]
    BY <1>2
  <1>7. CASE d.kind = "value"
    <2>1. [ret |-> t.ret, val |-> d.val] \in [ret : Places', val : Val']
      BY <1>3, <1>4, <1>7
    <2>2. pc' = [pc EXCEPT ![w] = "resolve"] /\ "resolve" \in RoundPc
      BY <1>2, <1>7 DEF Goto, RoundPc
    <2>3. grab' \in [Worker -> Seq(Nat)]
      BY <1>2 DEF Inv, TypeOK
    <2> QED
      BY <1>2, <1>3, <1>5, <1>6, <1>7, <2>1, <2>2, <2>3, GrownTypes DEF queue, answer
  <1>8. CASE d.kind # "value"
    <2>1. grab' \in [Worker -> Seq(Nat)]
      BY <1>2 DEF Inv, TypeOK
    <2> QED
      BY <1>2, <1>3, <1>5, <1>6, <1>8, <2>1, GrownTypes DEF queue, answer
  <1> QED
    BY <1>7, <1>8

LEMMA FireTypes ==
  ASSUME Inv, NEW w \in Worker, Fire(w)
  PROVE  TypeOK'
  <1> DEFINE t == Fired(CellAt(res[w].ret))
             d == Dispatch(w, t)
  <1>1. t \in TaskSet
    <2>1. res[w].ret \in Places /\ res[w].ret # Root
      BY DEF Fire, Inv, Private, TypeOK
    <2> QED
      BY <2>1, FiredIs DEF Inv
  <1>2. /\ program' = program /\ cells' = [cells EXCEPT ![w] = d.cells]
        /\ IF d.kind = "value"
           THEN /\ res' = [res EXCEPT ![w] = [ret |-> t.ret, val |-> d.val]]
                /\ Goto(w, "resolve") /\ UNCHANGED <<wo, stack>>
           ELSE /\ IF mode[w] = "seed"
                   THEN wo' = [wo EXCEPT ![w] = @ \o d.tasks] /\ UNCHANGED stack
                   ELSE stack' = [stack EXCEPT ![w] = @ \o d.tasks] /\ UNCHANGED wo
                /\ Resolved(w, wo'[w])
        /\ UNCHANGED <<program, serial, st, mode, round, grab, queue, answer>>
    BY DEF Fire
  <1>3. /\ Grows /\ cells' \in [Worker -> Seq(CellSet')]
        /\ \/ d.kind = "value" /\ d.tasks = <<>> /\ d.val \in Val'
           \/ /\ d.kind \in {"call", "split"}
              /\ d.tasks \in Seq(TaskSet') /\ Len(d.tasks) \in 1 .. 2
    BY <1>1, <1>2, DispatchTypes DEF Inv
  <1>4. t.ret \in Places' /\ Seq(TaskSet) \subseteq Seq(TaskSet') /\ Val' = Val /\ Places \subseteq Places'
    BY <1>1, <1>3, Grown DEF TaskSet
  <1> HIDE DEF t, d
  <1>5. grab' \in [Worker -> Seq(Nat)]
    BY <1>2 DEF Inv, TypeOK
  <1>6. CASE d.kind = "value"
    <2>1. [ret |-> t.ret, val |-> d.val] \in [ret : Places', val : Val']
      BY <1>3, <1>4, <1>6
    <2>2. pc' = [pc EXCEPT ![w] = "resolve"] /\ "resolve" \in RoundPc
      BY <1>2, <1>6 DEF Goto, RoundPc
    <2> QED
      BY <1>2, <1>3, <1>5, <1>6, <2>1, <2>2, GrownTypes DEF queue, answer
  <1>7. CASE d.kind # "value"
    <2>1. wo[w] \o d.tasks \in Seq(TaskSet') /\ stack[w] \o d.tasks \in Seq(TaskSet')
      <3>1. wo[w] \in Seq(TaskSet') /\ stack[w] \in Seq(TaskSet') /\ d.tasks \in Seq(TaskSet')
        BY <1>3, <1>4, <1>7 DEF Inv, TypeOK
      <3> QED
        BY <3>1, ConcatProperties
    <2>2. \E l \in RoundPc : pc' = [pc EXCEPT ![w] = l]
      BY <1>2, <1>7, DealtIs DEF RoundPc
    <2>3. res' = [res EXCEPT ![w] = NoRes] /\ NoRes \in [ret : Places', val : Val']
      <3>1. NoRes \in [ret : Places, val : Val]
        BY DEF NoRes, Places, Val, None
      <3> QED
        BY <1>2, <1>4, <1>7, <3>1, DealtIs
    <2>4. /\ stack' = stack \/ \E q \in Seq(TaskSet') : stack' = [stack EXCEPT ![w] = q]
          /\ wo' = wo \/ \E q \in Seq(TaskSet') : wo' = [wo EXCEPT ![w] = q]
      BY <1>2, <1>7, <2>1
    <2> QED
      BY <1>2, <1>3, <1>5, <2>2, <2>3, <2>4, GrownTypes DEF queue, answer
  <1> QED
    BY <1>6, <1>7

LEMMA SlotTypes ==
  ASSUME Inv, NEW w \in Worker, WriteSlot(w) \/ Count(w)
  PROVE  TypeOK' /\ Grows
  <1> DEFINE r == res[w].ret
             v == r[1]
             n == r[2]
             old == cells[v][n]
  <1>1. r \in Places /\ r # Root /\ res[w].val \in Val
    BY DEF WriteSlot, Count, Inv, Private, TypeOK
  <1>2. /\ v \in Worker /\ n \in DOMAIN cells[v] /\ r[3] \in 1 .. old.kids
        /\ old \in CellSet /\ cells[v] \in Seq(CellSet)
    BY <1>1, PlaceIs DEF Inv, CellAt
  <1>3. PICK c \in CellSet : c.kids = old.kids /\ cells' = [cells EXCEPT ![v] = [cells[v] EXCEPT ![n] = c]]
    <2>1. CASE WriteSlot(w)
      <3> DEFINE c == [old EXCEPT !.child = [old.child EXCEPT ![r[3]] = res[w].val]]
      <3>1. cells' = [cells EXCEPT ![v] = [cells[v] EXCEPT ![n] = c]]
        BY <2>1 DEF WriteSlot
      <3>2. c \in CellSet /\ c.kids = old.kids
        BY <1>1, <1>2 DEF CellSet
      <3> QED
        BY <3>1, <3>2
    <2>2. CASE Count(w)
      <3> DEFINE c == [old EXCEPT !.pending = @ - 1]
      <3>1. cells' = [cells EXCEPT ![v] = [cells[v] EXCEPT ![n] = c]]
        BY <2>2 DEF Count
      <3>2. old \in CellSet
        BY <1>2
      <3> HIDE DEF old
      <3>3. old.pending - 1 \in Int
        BY <3>2 DEF CellSet
      <3>4. c \in CellSet /\ c.kids = old.kids
        BY <3>2, <3>3 DEF CellSet
      <3> QED
        BY <3>1, <3>4 DEF old
    <2> QED
      BY <2>1, <2>2
  <1>4. program' = program
    BY DEF WriteSlot, Count
  <1> HIDE DEF v, n, old
  <1>5. Grows /\ cells' \in [Worker -> Seq(CellSet')]
    <2>1. cells[v][n] = old
      BY DEF old
    <2> QED
      BY <1>2, <1>3, <1>4, <2>1, CellChange DEF Inv
  <1>6. \E l \in RoundPc : pc' = [pc EXCEPT ![w] = l]
    BY DealtIs DEF WriteSlot, Count, Goto, RoundPc
  <1>7. res' = res \/ \E q \in [ret : Places', val : Val'] : res' = [res EXCEPT ![w] = q]
    <2>1. NoRes \in [ret : Places, val : Val]
      BY DEF NoRes, Places, Val, None
    <2>2. NoRes \in [ret : Places', val : Val']
      BY <1>5, <2>1, Grown
    <2> QED
      BY <2>2, DealtIs DEF WriteSlot, Count
  <1>8. /\ serial' = serial /\ st' = st /\ mode' = mode /\ round' = round /\ buf' = buf
        /\ taskCnt' = taskCnt /\ taskCntNew' = taskCntNew /\ workIdx' = workIdx
        /\ result' = result /\ done' = done /\ grab' = grab /\ stack' = stack /\ wo' = wo
    BY DEF WriteSlot, Count, queue, answer
  <1>9. grab' \in [Worker -> Seq(Nat)]
    BY <1>8 DEF Inv, TypeOK
  <1> QED
    BY <1>5, <1>6, <1>7, <1>8, <1>9, GrownTypes

LEMMA TypeStep ==
  ASSUME Inv, NEW w \in Worker, Step(w)
  PROVE  TypeOK'
  <1>1. CASE Plain(w)
    BY <1>1, PlainTypes
  <1> QED
    BY <1>1, TakeSeedTypes, DescendTypes, FireTypes, SlotTypes DEF Step, Plain

-----------------------------------------------------------------------------
(* A serial run *)

LEMMA AloneStep ==
  ASSUME Inv, NEW w \in Worker, Step(w)
  PROVE  Alone'
  <1> SUFFICES ASSUME serial'
               PROVE  Alone'
    BY DEF Alone
  <1>1. serial' = serial
    BY DEF Step, Arrive, Pass, Check, NextRound, Compact, Again, Grab, TakeSeed, TakeWork, Descend,
           DescendEnd, ResolveRoot, Finish, WriteSlot, Count, Fire, Flush, Copy
  <1>2. /\ \A v \in Worker : /\ st[v] = "out" /\ mode[v] = "serial"
                             /\ grab[v] = <<>> /\ wo[v] = <<>>
                             /\ v # 0 => pc[v] = "quit" /\ stack[v] = <<>>
        /\ pc[0] \in RunPc \cup {"quit"}
        /\ taskCnt = 0 /\ taskCntNew = 0 /\ workIdx = 0
    BY <1>1 DEF Inv, Alone
  <1>3. pc[w] \in RunPc \cup {"quit"} /\ st[w] = "out" /\ mode[w] = "serial"
    BY <1>2 DEF RunPc
  <1>4. \/ Descend(w) \/ DescendEnd(w) \/ ResolveRoot(w) \/ Finish(w)
        \/ WriteSlot(w) \/ Count(w) \/ Fire(w)
    BY <1>3 DEF Step, Arrive, Pass, Check, NextRound, Compact, Again, Grab, TakeSeed, TakeWork,
           Flush, Copy, AtBarrier, B!Leave, RunPc
  <1>5. w = 0
    BY <1>2, <1>4 DEF Descend, DescendEnd, ResolveRoot, Finish, WriteSlot, Count, Fire
  <1>6. st' = st /\ mode' = mode /\ grab' = grab /\ taskCnt' = taskCnt /\ taskCntNew' = taskCntNew /\ workIdx' = workIdx
    BY <1>4 DEF Descend, DescendEnd, ResolveRoot, Finish, WriteSlot, Count, Fire, queue
  <1>7. wo' = wo
    BY <1>3, <1>4 DEF Descend, DescendEnd, ResolveRoot, Finish, WriteSlot, Count, Fire
  <1>8. pc' = pc \/ \E l \in RunPc \cup {"quit"} : pc' = [pc EXCEPT ![w] = l]
    <2>1. Dealt(w, wo'[w], grab[w]) \/ Dealt(w, wo[w], grab[w]) => pc' = [pc EXCEPT ![w] = "descend"]
      BY <1>3 DEF Dealt, Goto
    <2> QED
      BY <1>1, <1>4, <2>1 DEF Descend, DescendEnd, ResolveRoot, Finish, WriteSlot, Count, Fire, Goto, Resolved, RunPc
  <1>9. \A v \in Worker : v # 0 => stack'[v] = stack[v]
    BY <1>4, <1>5 DEF Descend, DescendEnd, ResolveRoot, Finish, WriteSlot, Count, Fire, Inv, TypeOK
  <1>10. pc'[0] \in RunPc \cup {"quit"} /\ \A v \in Worker : v # 0 => pc'[v] = "quit"
    BY <1>2, <1>5, <1>8 DEF Inv, TypeOK
  <1> QED
    BY <1>2, <1>6, <1>7, <1>9, <1>10 DEF Alone

-----------------------------------------------------------------------------
(* A round: where the threads are *)

\* The steps of aot_worker_phase.
InPhase(w) ==
  \/ Grab(w) \/ TakeSeed(w) \/ TakeWork(w) \/ Descend(w) \/ DescendEnd(w)
  \/ ResolveRoot(w) \/ Finish(w) \/ WriteSlot(w) \/ Count(w) \/ Fire(w)
  \/ Flush(w) \/ Copy(w)

LEMMA PhaseIs ==
  ASSUME Inv, ~serial, NEW w \in Worker, InPhase(w)
  PROVE  /\ st' = st /\ st[w] = "out" /\ mode' = mode /\ taskCnt' = taskCnt /\ serial' = serial
         /\ pc[w] \in RoundPc /\ Stage(w) = "work" /\ Stage(w)' = "work"
         /\ pc' = pc \/ \E l \in RoundPc \cup {"end"} : pc' = [pc EXCEPT ![w] = l]
         /\ done' = done \/ pc[w] = "finish"
         /\ round' = round \/ \E i \in Nat : round' = [round EXCEPT ![w].dst = i]
  <1>1. pc[w] \in RoundPc
    BY DEF InPhase, Grab, TakeSeed, TakeWork, Descend,
           DescendEnd, ResolveRoot, Finish, WriteSlot, Count, Fire, Flush, Copy, RoundPc
  <1>2. st[w] = "out" /\ Stage(w) = Own(pc[w])
    <2>1. ~AtBarrier(w)
      BY <1>1 DEF AtBarrier, RoundPc
    <2> QED
      BY <2>1, StageAt DEF Inv
  <1>3. Stage(w) = "work"
    BY <1>1, <1>2 DEF Own, RoundPc
  <1>4. st' = st /\ mode' = mode /\ taskCnt' = taskCnt /\ serial' = serial
    BY DEF InPhase, Grab, TakeSeed, TakeWork, Descend,
           DescendEnd, ResolveRoot, Finish, WriteSlot, Count, Fire, Flush, Copy, queue
  <1>5. pc' = pc \/ \E l \in RoundPc \cup {"end"} : pc' = [pc EXCEPT ![w] = l]
    <2>1. CASE Grab(w) \/ TakeWork(w) \/ Descend(w) \/ DescendEnd(w) \/ ResolveRoot(w)
      BY <2>1 DEF Grab, TakeWork, Descend, DescendEnd, ResolveRoot, NextTask, Goto, RoundPc
    <2>2. CASE Flush(w) \/ Copy(w)
      BY <2>2 DEF Flush, Copy, NextTask, Goto, RoundPc
    <2>3. CASE TakeSeed(w)
      BY <2>3, DealtIs DEF TakeSeed, Goto, RoundPc
    <2>4. CASE Finish(w) \/ Count(w) \/ Fire(w) \/ WriteSlot(w)
      BY <2>4, DealtIs DEF Finish, Count, Fire, WriteSlot, Goto, RoundPc
    <2> QED
      BY <2>1, <2>2, <2>3, <2>4 DEF InPhase
  <1>6. pc'[w] \in RoundPc \cup {"end"}
    BY <1>1, <1>5 DEF Inv, TypeOK
  <1>7. Stage(w)' = "work"
    BY <1>2, <1>4, <1>6 DEF Stage, Own, RoundPc
  <1>8. done' = done \/ pc[w] = "finish"
    BY DEF InPhase, Grab, TakeSeed, TakeWork, Descend,
           DescendEnd, ResolveRoot, Finish, WriteSlot, Count, Fire, Flush, Copy, answer
  <1>9. round' = round \/ \E i \in Nat : round' = [round EXCEPT ![w].dst = i]
    <2>1. taskCntNew \in Nat
      BY DEF Inv, TypeOK
    <2> QED
      BY <2>1 DEF InPhase, Grab, TakeSeed, TakeWork, Descend,
           DescendEnd, ResolveRoot, Finish, WriteSlot, Count, Fire, Flush, Copy
  <1> QED
    BY <1>1, <1>2, <1>3, <1>4, <1>5, <1>7, <1>8, <1>9

LEMMA TogetherPhase ==
  ASSUME Inv, ~serial, NEW w \in Worker, InPhase(w)
  PROVE  Together'
  <1>1. \A v \in Worker : Stage(v)' = Stage(v)
    <2> TAKE v \in Worker
    <2>1. CASE v = w
      BY <2>1, PhaseIs
    <2>2. CASE v # w
      <3>1. pc'[v] = pc[v] /\ st'[v] = st[v]
        <4>1. pc \in [Worker -> RoundPc \cup BarrierPc \cup {"check", "next", "compact", "again", "quit"}]
          BY DEF Inv, TypeOK
        <4>2. st' = st /\ (pc' = pc \/ \E l : pc' = [pc EXCEPT ![w] = l])
          BY PhaseIs
        <4> QED
          BY <2>2, <4>1, <4>2
      <3> QED
        BY <3>1 DEF Stage
    <2> QED
      BY <2>1, <2>2
  <1>2. \A v \in Worker : /\ mode'[v] = mode[v] /\ round'[v].iter = round[v].iter
                          /\ round'[v].cnt = round[v].cnt
    <2>1. round \in [Worker -> [iter : Nat, cnt : Nat, dst : Nat]]
      BY DEF Inv, TypeOK
    <2>2. mode' = mode /\ (round' = round \/ \E i \in Nat : round' = [round EXCEPT ![w].dst = i])
      BY PhaseIs
    <2>3. CASE round' = round
      BY <2>2, <2>3
    <2>4. ASSUME NEW i \in Nat, round' = [round EXCEPT ![w].dst = i]
          PROVE  \A v \in Worker : round'[v].iter = round[v].iter /\ round'[v].cnt = round[v].cnt
      BY <2>1, <2>4
    <2> QED
      BY <2>2, <2>3, <2>4
  <1>3. taskCnt' = taskCnt /\ serial' = serial /\ Stage(w) = "work"
    BY PhaseIs
  <1>4. \A v, u \in Worker : Fits(v, u)
    BY DEF Inv, Together
  <1>5. \A v \in Worker : Stage(v) = "work"
    BY <1>3, <1>4 DEF Near, Fits
  <1>6. ASSUME NEW v \in Worker, NEW u \in Worker
        PROVE  Fits(v, u)'
    BY <1>1, <1>2, <1>3, <1>4, <1>5 DEF Fits
  <1> QED
    BY <1>6 DEF Together

LEMMA SameStages ==
  ASSUME Inv, ~serial, serial' = serial, mode' = mode, round' = round, done' = done, taskCnt' = taskCnt,
         \A v \in Worker : Stage(v)' = Stage(v)
  PROVE  Together'
  <1>1. ASSUME NEW v \in Worker, NEW u \in Worker
        PROVE  Fits(v, u)'
    <2>1. Fits(v, u)
      BY DEF Inv, Together
    <2> QED
      BY <2>1 DEF Fits
  <1> QED
    BY <1>1 DEF Together

\* Everybody passes the barrier from the same place to the same stage.
LEMMA TogetherArrive ==
  ASSUME Inv, ~serial, NEW w \in Worker, Arrive(w) \/ Pass(w)
  PROVE  Together'
  <1>1. serial' = serial /\ mode' = mode /\ round' = round /\ done' = done /\ taskCnt' = taskCnt
    BY DEF Arrive, Pass, queue, answer
  <1>2. /\ st \in [Worker -> {"out", "in", "free"}]
        /\ pc \in [Worker -> RoundPc \cup BarrierPc \cup {"check", "next", "compact", "again", "quit"}]
        /\ \A v \in Worker : st[v] # "out" => AtBarrier(v)
    BY DEF Inv, TypeOK, Private
  <1>3. CASE B!ArriveEarly(w) /\ UNCHANGED pc
    <2>1. ASSUME NEW v \in Worker PROVE Stage(v)' = Stage(v)
      BY <1>2, <1>3 DEF B!ArriveEarly, Stage
    <2> QED
      BY <1>1, <2>1, SameStages
  <1>4. CASE Pass(w)
    <2>1. ASSUME NEW v \in Worker PROVE Stage(v)' = Stage(v)
      <3>1. CASE v # w
        BY <1>2, <1>4, <3>1 DEF Pass, B!Leave, Goto, Stage
      <3>2. CASE v = w
        <4>1. st[w] = "free" /\ st'[w] = "out" /\ AtBarrier(w) /\ pc'[w] = After(pc[w])
          BY <1>2, <1>4 DEF Pass, B!Leave, Goto
        <4> QED
          BY <3>2, <4>1 DEF Stage, Own, Passed, After, AtBarrier, RoundPc
      <3> QED
        BY <3>1, <3>2
    <2> QED
      BY <1>1, <2>1, SameStages
  <1>5. CASE AtBarrier(w) /\ B!ArriveLast(w) /\ Goto(w, After(pc[w]))
    <2>1. \A v \in Worker : AtBarrier(v) /\ st[v] # "free"
      BY <1>2, <1>5 DEF B!ArriveLast
    <2>2. \A v \in Worker : Stage(v) = Own(pc[v]) /\ Stage(v) \in {"top", "open", "work", "close"}
      BY <2>1 DEF Stage, Own, AtBarrier, RoundPc
    <2>3. \A v \in Worker : Fits(v, w)
      BY DEF Inv, Together
    <2>4. \A v \in Worker : Stage(v) = Stage(w)
      BY <2>2, <2>3 DEF Fits, Near
    <2>5. \A v \in Worker : pc[v] = pc[w]
      <3> TAKE v \in Worker
      <3>1. AtBarrier(v) /\ AtBarrier(w) /\ Own(pc[v]) = Own(pc[w])
        BY <2>1, <2>2, <2>4
      <3> QED
        BY <3>1 DEF Own, AtBarrier, RoundPc
    <2>6. ASSUME NEW v \in Worker PROVE Stage(v)' = Passed(pc[w])
      <3>1. CASE v = w
        <4>1. st'[w] = "out" /\ pc'[w] = After(pc[w])
          BY <1>2, <1>5 DEF B!ArriveLast, Goto
        <4> QED
          BY <1>5, <3>1, <4>1 DEF Stage, Own, Passed, After, AtBarrier, RoundPc
      <3>2. CASE v # w
        <4>1. st'[v] = "free" /\ pc'[v] = pc[v]
          BY <1>2, <1>5, <3>2 DEF B!ArriveLast, Goto
        <4> QED
          BY <2>5, <4>1 DEF Stage
      <3> QED
        BY <3>1, <3>2
    <2>7. ASSUME NEW v \in Worker, NEW u \in Worker
          PROVE  Fits(v, u)'
      <3>1. Fits(v, u) /\ pc[v] = pc[w] /\ pc[u] = pc[w] /\ Stage(v) = Own(pc[w]) /\ Stage(u) = Own(pc[w])
        BY <2>2, <2>5 DEF Inv, Together
      <3>2. pc[w] # "top" => round[v].iter = round[u].iter
        BY <1>5, <3>1 DEF Fits, Own, AtBarrier, RoundPc
      <3>3. pc[w] # "top" => mode[v] = mode[u] /\ round[v].cnt = round[u].cnt
        <4>1. CASE pc[w] = "begin"
          <5>1. Stage(v) = "open" /\ Stage(u) = "open" /\ pc[v] = "begin" /\ pc[u] = "begin"
            BY <3>1, <4>1 DEF Own, RoundPc
          <5>2. /\ round[v].cnt = taskCnt /\ mode[v] = IF Enough(v) THEN "work" ELSE "seed"
                /\ round[u].cnt = taskCnt /\ mode[u] = IF Enough(u) THEN "work" ELSE "seed"
            BY <5>1 DEF Inv, Numbers, Known, Leaves, Indices
          <5> QED
            BY <3>2, <4>1, <5>2 DEF Enough
        <4>2. CASE pc[w] \in {"end", "after"}
          BY <3>1, <4>2 DEF Fits, Own, RoundPc
        <4> QED
          BY <1>5, <4>1, <4>2 DEF AtBarrier
      <3>4. pc[w] = "top" => Passed(pc[w]) = "enter"
        BY DEF Passed
      <3>5. Passed(pc[w]) \in {"enter", "work", "close", "closed"}
        BY <1>5 DEF Passed, AtBarrier
      <3>6. Stage(v)' = Passed(pc[w]) /\ Stage(u)' = Passed(pc[w])
        BY <2>6
      <3> QED
        BY <1>1, <3>2, <3>3, <3>4, <3>5, <3>6 DEF Fits
    <2> QED
      BY <1>1, <2>7 DEF Together
  <1> QED
    BY <1>3, <1>4, <1>5 DEF Arrive

LEMMA TogetherOuter ==
  ASSUME Inv, ~serial, NEW w \in Worker, Check(w) \/ NextRound(w) \/ Compact(w) \/ Again(w)
  PROVE  Together'
  <1>1. /\ st' = st /\ serial' = serial /\ done' = done
        /\ pc[w] \in {"check", "next", "compact", "again"}
    BY DEF Check, NextRound, Compact, Again, answer
  <1>2. /\ mode \in [Worker -> {"serial", "seed", "work"}]
        /\ pc \in [Worker -> RoundPc \cup BarrierPc \cup {"check", "next", "compact", "again", "quit"}]
        /\ round \in [Worker -> [iter : Nat, cnt : Nat, dst : Nat]]
    BY DEF Inv, TypeOK
  <1>3. st[w] = "out" /\ Stage(w) = Own(pc[w])
    <2>1. ~AtBarrier(w)
      BY <1>1 DEF AtBarrier
    <2> QED
      BY <2>1, StageAt DEF Inv
  <1>4. Stage(w)' = Own(pc'[w])
    BY <1>1, <1>3 DEF Stage
  <1>5. ASSUME NEW v \in Worker, v # w
        PROVE  pc'[v] = pc[v] /\ Stage(v)' = Stage(v)
    <2>1. pc'[v] = pc[v]
      BY <1>2, <1>5 DEF Check, NextRound, Compact, Again, Goto
    <2> QED
      BY <1>1, <2>1 DEF Stage
  <1>6. \A v, u \in Worker : Fits(v, u)
    BY DEF Inv, Together
  <1>7. CASE Check(w)
    <2>1. mode' = mode /\ taskCnt' = taskCnt /\ Stage(w) = "enter"
      BY <1>3, <1>7 DEF Check, queue, Own, RoundPc
    <2>2. CASE done \/ taskCnt = 0
      <3>1. pc'[w] = "quit" /\ round' = round
        BY <1>2, <1>7, <2>2 DEF Check, Goto
      <3>2. Stage(w)' = "quit"
        BY <1>4, <3>1 DEF Own, RoundPc
      <3>3. ASSUME NEW v \in Worker, NEW u \in Worker
            PROVE  Fits(v, u)'
        <4>1. Fits(v, u) /\ Fits(v, w) /\ Fits(w, v) /\ Fits(u, w) /\ Fits(w, u)
          BY <1>6
        <4>2. \A x \in {u, v} : Stage(x) \in {"enter", "quit"} /\ Stage(x)' \in {"enter", "quit"}
          BY <1>5, <2>1, <2>2, <3>2, <4>1 DEF Fits, Near
        <4> QED
          BY <1>1, <2>1, <2>2, <4>2 DEF Fits, Near
      <3> QED
        BY <1>1, <3>3 DEF Together
    <2>3. CASE ~ (done \/ taskCnt = 0)
      <3>1. pc'[w] = "next" /\ round' = [round EXCEPT ![w].iter = 0]
        BY <1>2, <1>7, <2>3 DEF Check, Goto
      <3>2. Stage(w)' = "open" /\ round'[w].iter = 0
        BY <1>2, <1>4, <3>1 DEF Own, RoundPc
      <3>3. ASSUME NEW v \in Worker
            PROVE  Stage(v)' \in {"enter", "open"} /\ (Stage(v)' = "open" => round'[v].iter = 0)
        <4>1. Fits(v, w) /\ Fits(w, v)
          BY <1>6
        <4>2. CASE v = w
          BY <3>2, <4>2
        <4>3. CASE v # w
          <5>1. Stage(v) \in {"enter", "open"} /\ (Stage(v) = "open" => round[v].iter = 0)
            BY <2>1, <2>3, <4>1 DEF Fits, Near
          <5>2. round'[v] = round[v]
            BY <1>2, <3>1, <4>3
          <5> QED
            BY <1>5, <4>3, <5>1, <5>2
        <4> QED
          BY <4>2, <4>3
      <3>4. ASSUME NEW v \in Worker, NEW u \in Worker
            PROVE  Fits(v, u)'
        BY <1>1, <2>1, <2>3, <3>3 DEF Fits, Near
      <3> QED
        BY <1>1, <3>4 DEF Together
    <2> QED
      BY <2>2, <2>3
  <1>8. CASE NextRound(w)
    <2>1. /\ taskCnt' = taskCnt /\ Stage(w) = "open" /\ pc'[w] = "begin"
          /\ mode' = [mode EXCEPT ![w] = IF Enough(w) THEN "work" ELSE "seed"]
          /\ round' = [round EXCEPT ![w].cnt = taskCnt]
      BY <1>2, <1>3, <1>8 DEF NextRound, Own, Goto, RoundPc
    <2>2. Stage(w)' = "open"
      BY <1>4, <2>1 DEF Own, RoundPc
    <2>3. \A v \in Worker : Stage(v)' = Stage(v) /\ round'[v].iter = round[v].iter
      <3>1. \A v \in Worker : round'[v].iter = round[v].iter
        BY <1>2, <2>1
      <3> QED
        BY <1>5, <2>1, <2>2, <3>1
    <2>4. \A v \in Worker : Stage(v) # "open" => mode'[v] = mode[v] /\ round'[v] = round[v]
      BY <1>2, <2>1
    <2>5. ASSUME NEW v \in Worker, NEW u \in Worker
          PROVE  Fits(v, u)'
      <3>1. Fits(v, u)
        BY <1>6
      <3> QED
        BY <1>1, <2>1, <2>3, <2>4, <3>1 DEF Fits
    <2> QED
      BY <1>1, <2>5 DEF Together
  <1>9. CASE Compact(w)
    <2>1. mode' = mode /\ round' = round /\ Stage(w) = "close" /\ pc'[w] = "after"
      BY <1>2, <1>3, <1>9 DEF Compact, Own, Goto, RoundPc
    <2>2. Stage(w)' = "close"
      BY <1>4, <2>1 DEF Own, RoundPc
    <2>3. \A v \in Worker : Stage(v) = "close" /\ Stage(v)' = "close"
      BY <1>5, <1>6, <2>1, <2>2 DEF Fits, Near
    <2>4. ASSUME NEW v \in Worker, NEW u \in Worker
          PROVE  Fits(v, u)'
      <3>1. Fits(v, u)
        BY <1>6
      <3> QED
        BY <2>1, <2>3, <3>1 DEF Fits
    <2> QED
      BY <1>1, <2>4 DEF Together
  <1>10. CASE Again(w)
    <2>1. mode' = mode /\ taskCnt' = taskCnt /\ Stage(w) = "closed"
      BY <1>3, <1>10 DEF Again, Own, queue, RoundPc
    <2>2. mode[w] \in {"seed", "work"}
      BY DEF Inv, Private
    <2>3. CASE mode[w] = "seed"
      <3>1. pc'[w] = "next" /\ round' = [round EXCEPT ![w].iter = @ + 1]
        BY <1>2, <1>10, <2>3 DEF Again, Goto
      <3>2. Stage(w)' = "open" /\ round'[w].iter = round[w].iter + 1
        BY <1>2, <1>4, <3>1 DEF Own, RoundPc
      <3>3. \A v \in Worker : v # w => round'[v] = round[v]
        BY <1>2, <3>1
      <3>4. ASSUME NEW v \in Worker
            PROVE  \/ v # w /\ Stage(v)' = "closed" /\ mode[v] = "seed" /\ round'[v].iter = round[w].iter
                      /\ Stage(v) = "closed" /\ round'[v] = round[v]
                   \/ Stage(v)' = "open" /\ round'[v].iter = round[w].iter + 1
        <4>1. Fits(v, w) /\ Fits(w, v)
          BY <1>6
        <4>2. CASE v = w
          BY <3>2, <4>2
        <4>3. CASE v # w
          <5>1. Stage(v) \in {"closed", "open"}
            BY <2>1, <2>3, <4>1 DEF Fits, Near
          <5> QED
            BY <1>5, <2>1, <2>3, <3>3, <4>1, <4>3, <5>1 DEF Fits
        <4> QED
          BY <4>2, <4>3
      <3>5. ASSUME NEW v \in Worker, NEW u \in Worker
            PROVE  Fits(v, u)'
        <4>1. Fits(v, u)
          BY <1>6
        <4> QED
          BY <1>1, <2>1, <3>4, <4>1 DEF Fits, Near
      <3> QED
        BY <1>1, <3>5 DEF Together
    <2>4. CASE mode[w] = "work"
      <3>1. pc'[w] = "top" /\ round' = round
        BY <1>2, <1>10, <2>4 DEF Again, Goto
      <3>2. Stage(w)' = "top"
        BY <1>4, <3>1 DEF Own, RoundPc
      <3>3. ASSUME NEW v \in Worker
            PROVE  \/ Stage(v)' = "closed" /\ mode[v] = "work" /\ Stage(v) = "closed"
                   \/ Stage(v)' = "top"
        <4>1. Fits(v, w) /\ Fits(w, v)
          BY <1>6
        <4>2. CASE v = w
          BY <3>2, <4>2
        <4>3. CASE v # w
          <5>1. Stage(v) \in {"closed", "top"}
            BY <2>1, <2>4, <4>1 DEF Fits, Near
          <5> QED
            BY <1>5, <2>1, <2>4, <4>1, <4>3, <5>1 DEF Fits
        <4> QED
          BY <4>2, <4>3
      <3>4. ASSUME NEW v \in Worker, NEW u \in Worker
            PROVE  Fits(v, u)'
        <4>1. Fits(v, u)
          BY <1>6
        <4> QED
          BY <1>1, <2>1, <3>1, <3>3, <4>1 DEF Fits, Near
      <3> QED
        BY <1>1, <3>4 DEF Together
    <2> QED
      BY <2>2, <2>3, <2>4
  <1> QED
    BY <1>7, <1>8, <1>9, <1>10

LEMMA TogetherStep ==
  ASSUME Inv, NEW w \in Worker, Step(w)
  PROVE  Together'
  <1>1. serial' = serial
    BY DEF Step, Arrive, Pass, Check, NextRound, Compact, Again, Grab, TakeSeed, TakeWork, Descend,
           DescendEnd, ResolveRoot, Finish, WriteSlot, Count, Fire, Flush, Copy
  <1>2. CASE serial
    BY <1>1, <1>2 DEF Together
  <1>3. CASE ~serial
    BY <1>3, TogetherPhase, TogetherArrive, TogetherOuter DEF Step, InPhase
  <1> QED
    BY <1>2, <1>3

-----------------------------------------------------------------------------
(* A thread's own buffers *)

\* Only the last barrier's last arriver changes what others see of themselves.
LEMMA OthersPrivate ==
  ASSUME Inv, NEW w \in Worker, Step(w), NEW v \in Worker, v # w
  PROVE  /\ pc'[v] = pc[v] /\ mode'[v] = mode[v] /\ grab'[v] = grab[v] /\ wo'[v] = wo[v]
         /\ stack'[v] = stack[v] /\ res'[v] = res[v] /\ round'[v] = round[v]
         /\ serial' = serial /\ (st'[v] = st[v] \/ (st'[v] = "free" /\ AtBarrier(v)))
  <1>1. TypeOK /\ Private(v)
    BY DEF Inv
  <1>2. serial' = serial
    BY DEF Step, Arrive, Pass, Check, NextRound, Compact, Again, Grab, TakeSeed, TakeWork, Descend,
           DescendEnd, ResolveRoot, Finish, WriteSlot, Count, Fire, Flush, Copy
  <1>3. st'[v] = st[v] \/ (st'[v] = "free" /\ AtBarrier(v))
    <2>1. CASE Arrive(w) \/ Pass(w)
      <3>1. st \in [Worker -> {"out", "in", "free"}] /\ (st[v] # "out" => AtBarrier(v))
        BY <1>1 DEF TypeOK, Private
      <3> QED
        BY <2>1, <3>1 DEF Arrive, Pass, B!ArriveLast, B!ArriveEarly, B!Leave
    <2>2. CASE st' = st
      BY <2>2
    <2> QED
      BY <2>1, <2>2 DEF Step, Check, NextRound, Compact, Again, Grab, TakeSeed, TakeWork, Descend,
             DescendEnd, ResolveRoot, Finish, WriteSlot, Count, Fire, Flush, Copy
  <1>4. pc'[v] = pc[v]
    <2>1. pc' = pc \/ \E l : pc' = [pc EXCEPT ![w] = l]
      BY DealtIs DEF Step, Arrive, Pass, Check, NextRound, Compact, Again, Grab, TakeSeed, TakeWork, Descend,
           DescendEnd, ResolveRoot, Finish, WriteSlot, Count, Fire, Flush, Copy, Goto
    <2> QED
      BY <1>1, <2>1 DEF TypeOK
  <1>5. mode'[v] = mode[v] /\ grab'[v] = grab[v]
    BY <1>1 DEF TypeOK, Step, Arrive, Pass, Check, NextRound, Compact, Again, Grab, TakeSeed, TakeWork, Descend,
           DescendEnd, ResolveRoot, Finish, WriteSlot, Count, Fire, Flush, Copy
  <1>6. wo'[v] = wo[v] /\ stack'[v] = stack[v]
    <2>1. wo \in [Worker -> Seq(TaskSet)] /\ stack \in [Worker -> Seq(TaskSet)]
      BY <1>1 DEF TypeOK
    <2>2. wo'[v] = wo[v]
      <3>1. wo' = wo \/ \E q : wo' = [wo EXCEPT ![w] = q]
        BY DEF Step, Arrive, Pass, Check, NextRound, Compact, Again, Grab, TakeSeed, TakeWork, Descend,
               DescendEnd, ResolveRoot, Finish, WriteSlot, Count, Fire, Flush, Copy
      <3> QED
        BY <2>1, <3>1
    <2>3. stack'[v] = stack[v]
      <3>1. stack' = stack \/ \E q : stack' = [stack EXCEPT ![w] = q]
        BY DEF Step, Arrive, Pass, Check, NextRound, Compact, Again, Grab, TakeSeed, TakeWork, Descend,
               DescendEnd, ResolveRoot, Finish, WriteSlot, Count, Fire, Flush, Copy
      <3> QED
        BY <2>1, <3>1
    <2> QED
      BY <2>2, <2>3
  <1>7. res'[v] = res[v]
    <2>1. res \in [Worker -> [ret : Places, val : Val]]
      BY <1>1 DEF TypeOK
    <2>2. res' = res \/ \E q : res' = [res EXCEPT ![w] = q]
      BY DealtIs DEF Step, Arrive, Pass, Check, NextRound, Compact, Again, Grab, TakeSeed, TakeWork, Descend,
             DescendEnd, ResolveRoot, Finish, WriteSlot, Count, Fire, Flush, Copy
    <2> QED
      BY <2>1, <2>2
  <1>8. round'[v] = round[v]
    BY <1>1 DEF TypeOK, Step, Arrive, Pass, Check, NextRound, Compact, Again, Grab, TakeSeed, TakeWork, Descend,
           DescendEnd, ResolveRoot, Finish, WriteSlot, Count, Fire, Flush, Copy
  <1> QED
    BY <1>2, <1>3, <1>4, <1>5, <1>6, <1>7, <1>8

LEMMA RootStep ==
  ASSUME Inv, NEW w \in Worker, Step(w), NEW v \in Worker, pc'[v] \in {"count", "fire"}
  PROVE  res'[v].ret # Root
  <1>1. TypeOK /\ Private(v)
    BY DEF Inv
  <1>2. CASE v # w
    BY <1>1, <1>2, OthersPrivate DEF Private
  <1>3. CASE v = w
    <2>1. CASE WriteSlot(w)
      BY <2>1, <1>3 DEF WriteSlot
    <2>2. CASE Count(w) /\ pc'[w] = "fire"
      <3>1. ~Resolved(w, wo[w])
        <4>1. Resolved(w, wo[w]) => \E l \in {"descend", "flush", "grab", "take"} :
                                      pc' = [pc EXCEPT ![w] = l]
          BY DealtIs
        <4> QED
          BY <1>1, <2>2, <4>1 DEF TypeOK
      <3>2. res' = res /\ pc[w] = "count"
        BY <2>2, <3>1 DEF Count
      <3> QED
        BY <1>1, <1>3, <3>2 DEF Private
    <2>3. ~ (Count(w) /\ pc'[w] = "count")
      <3>1. Count(w) => \E l \in {"fire", "descend", "flush", "grab", "take"} :
                          pc' = [pc EXCEPT ![w] = l]
        BY DealtIs DEF Count, Goto
      <3> QED
        BY <1>1, <3>1 DEF TypeOK
    <2>4. ~Plain(w) /\ ~TakeSeed(w) /\ ~Fire(w)
      <3>1. ~TakeSeed(w) /\ ~Fire(w) /\ ~Finish(w) /\ ~DescendEnd(w)
        BY <1>1, <1>3, DealtIs DEF TypeOK, TakeSeed, Fire, Finish, DescendEnd, Goto
      <3>2. ~Flush(w) /\ ~Copy(w) /\ ~Grab(w) /\ ~TakeWork(w) /\ ~ResolveRoot(w)
        BY <1>1, <1>3, DealtIs DEF TypeOK, Flush, Copy, Grab, TakeWork, ResolveRoot, Goto
      <3>3. ~Check(w) /\ ~NextRound(w) /\ ~Compact(w) /\ ~Again(w)
        BY <1>1, <1>3 DEF TypeOK, Check, NextRound, Compact, Again, Goto
      <3>4. ~Arrive(w) /\ ~Pass(w)
        BY <1>1, <1>3 DEF TypeOK, Private, Arrive, Pass, AtBarrier, After, Goto, B!Leave
      <3> QED
        BY <3>1, <3>2, <3>3, <3>4 DEF Plain
    <2>5. ~Descend(w)
      BY <1>1, <1>3 DEF TypeOK, Descend, Goto
    <2> QED
      BY <1>3, <2>1, <2>2, <2>3, <2>4, <2>5 DEF Step, Plain
  <1> QED
    BY <1>2, <1>3

LEMMA PrivateOthers ==
  ASSUME Inv, NEW w \in Worker, Step(w), NEW v \in Worker, v # w
  PROVE  Private(v)'
  <1>1. /\ pc'[v] = pc[v] /\ mode'[v] = mode[v] /\ grab'[v] = grab[v] /\ wo'[v] = wo[v]
        /\ stack'[v] = stack[v] /\ res'[v] = res[v] /\ serial' = serial
        /\ (st'[v] = st[v] \/ (st'[v] = "free" /\ AtBarrier(v)))
    BY OthersPrivate
  <1>2. Private(v) /\ Root' = Root
    BY DEF Inv, Root
  <1>3. CASE st'[v] = st[v]
    <2>1. Stage(v)' = Stage(v)
      BY <1>1, <1>3 DEF Stage
    <2> QED
      BY <1>1, <1>2, <1>3, <2>1 DEF Private, AtBarrier
  <1>4. CASE st'[v] = "free" /\ AtBarrier(v)
    <2>1. grab[v] = <<>> /\ wo[v] = <<>>
      <3>1. pc[v] \in {"begin", "end"} \/ Stage(v) # "work"
        BY <1>4 DEF AtBarrier, Stage, Own, Passed, RoundPc
      <3> QED
        BY <1>2, <3>1 DEF Private
    <2> QED
      BY <1>1, <1>2, <1>4, <2>1 DEF Private, AtBarrier
  <1> QED
    BY <1>1, <1>3, <1>4

\* In a serial run there is nothing to show but what RootStep does.
LEMMA PrivateAlone ==
  ASSUME Inv, NEW w \in Worker, Step(w), serial, NEW v \in Worker
  PROVE  Private(v)'
  <1>1. Alone' /\ serial' = serial /\ TypeOK'
    <2>1. serial' = serial
      BY DEF Step, Arrive, Pass, Check, NextRound, Compact, Again, Grab, TakeSeed, TakeWork, Descend,
             DescendEnd, ResolveRoot, Finish, WriteSlot, Count, Fire, Flush, Copy
    <2> QED
      BY <2>1, AloneStep, TypeStep
  <1>2. /\ st'[v] = "out" /\ mode'[v] = "serial" /\ grab'[v] = <<>> /\ wo'[v] = <<>>
        /\ pc'[v] \in RunPc \cup {"quit"} /\ (v # 0 => stack'[v] = <<>>)
    BY <1>1 DEF Alone
  <1>3. pc'[v] \in {"count", "fire"} => res'[v].ret # Root'
    BY RootStep DEF Root
  <1>4. Len(grab'[v]) <= 1
    BY <1>2
  <1> QED
    BY <1>1, <1>2, <1>3, <1>4 DEF Private, RunPc

LEMMA PrivateOuter ==
  ASSUME Inv, ~serial, NEW w \in Worker,
         Arrive(w) \/ Pass(w) \/ Check(w) \/ NextRound(w) \/ Compact(w) \/ Again(w)
  PROVE  Private(w)'
  <1>1. /\ grab' = grab /\ wo' = wo /\ stack' = stack /\ res' = res /\ serial' = serial
    BY DEF Arrive, Pass, Check, NextRound, Compact, Again
  <1>2. TypeOK /\ Private(w)
    BY DEF Inv
  <1>3. /\ pc[w] \in BarrierPc \cup {"check", "next", "compact", "again"}
        /\ pc'[w] \in BarrierPc \cup {"check", "next", "compact", "again", "quit", "grab"}
        /\ st'[w] # "out" => AtBarrier(w)'
    <2>1. CASE Arrive(w) \/ Pass(w)
      <3>1. AtBarrier(w)
        BY <1>2, <2>1 DEF Arrive, Pass, Private, B!Leave
      <3>2. pc'[w] = pc[w] \/ (pc'[w] = After(pc[w]) /\ st'[w] = "out")
        BY <1>2, <2>1 DEF TypeOK, Arrive, Pass, Goto, B!ArriveLast, B!Leave
      <3> QED
        BY <3>1, <3>2 DEF After, AtBarrier, BarrierPc
    <2>2. CASE Check(w) \/ NextRound(w) \/ Compact(w) \/ Again(w)
      <3>1. st[w] = "out" /\ st' = st
        BY <1>2, <2>2 DEF Check, NextRound, Compact, Again, Private, AtBarrier
      <3> QED
        BY <1>2, <2>2, <3>1 DEF TypeOK, Check, NextRound, Compact, Again, Goto, BarrierPc
    <2> QED
      BY <2>1, <2>2
  <1>4. grab[w] = <<>> /\ wo[w] = <<>> /\ stack[w] = <<>>
    <2>1. pc[w] \in {"begin", "end"} \/ Stage(w) # "work"
      BY <1>3 DEF BarrierPc, Stage, Own, Passed, RoundPc
    <2> QED
      BY <1>2, <1>3, <2>1 DEF Private, BarrierPc, RunPc
  <1>5. mode'[w] \in {"seed", "work"}
    <2>1. mode[w] \in {"seed", "work"}
      BY <1>2 DEF Private
    <2>2. CASE NextRound(w)
      BY <1>2, <2>2 DEF NextRound, TypeOK
    <2>3. CASE mode' = mode
      BY <2>1, <2>3
    <2> QED
      BY <2>2, <2>3 DEF Arrive, Pass, Check, Compact, Again
  <1>6. Len(<<>>) <= 1
    OBVIOUS
  <1> QED
    BY <1>1, <1>3, <1>4, <1>5, <1>6 DEF Private, BarrierPc, AtBarrier

\* At two threads or more nobody grabs more than one task.
LEMMA BatchOne ==
  ASSUME NEW c \in Nat, c <= 4 * Threads - 2
  PROVE  Batch(c) = 1
  <1>1. 4 * Threads \in Nat \ {0} /\ c < 4 * Threads
    BY WorkerIs
  <1>2. \A n \in Nat \ {0} : c < n => c \div n = 0
    OBVIOUS
  <1>3. c \div (4 * Threads) = 0
    BY ONLY <1>1, <1>2
  <1> QED
    BY <1>3 DEF Batch

LEMMA GrabIs ==
  ASSUME Inv, ~serial, NEW w \in Worker, Grab(w)
  PROVE  /\ round[w].cnt = taskCnt /\ taskCnt \in Nat /\ workIdx \in Nat /\ workIdx' = workIdx + 1
         /\ \/ workIdx >= taskCnt /\ grab' = grab /\ pc' = [pc EXCEPT ![w] = "drain"]
            \/ /\ workIdx < taskCnt /\ pc' = [pc EXCEPT ![w] = "take"]
               /\ grab' = [grab EXCEPT ![w] = <<workIdx>>]
  <1>1. Stage(w) = "work"
    BY PhaseIs DEF InPhase
  <1>2. /\ round[w].cnt = taskCnt /\ taskCnt <= 4 * Threads - 2
    BY <1>1 DEF Inv, Numbers, Known, Leaves, Indices
  <1>3. taskCnt \in Nat /\ workIdx \in Nat
    BY DEF Inv, TypeOK
  <1>4. Batch(round[w].cnt) = 1
    BY <1>2, <1>3, BatchOne
  <1>5. workIdx' = workIdx + 1
    BY <1>4 DEF Grab
  <1>6. CASE workIdx >= round[w].cnt
    BY <1>2, <1>3, <1>5, <1>6 DEF Grab, Goto
  <1>7. CASE ~ (workIdx >= round[w].cnt)
    <2> DEFINE end == workIdx + Batch(round[w].cnt)
               new == [i \in 1 .. (IF end > round[w].cnt THEN round[w].cnt ELSE end) - workIdx |-> workIdx + i - 1]
    <2>1. grab' = [grab EXCEPT ![w] = new] /\ pc' = [pc EXCEPT ![w] = "take"]
      BY <1>2, <1>7 DEF Grab, Goto
    <2>2. (IF end > round[w].cnt THEN round[w].cnt ELSE end) - workIdx = 1
      BY <1>2, <1>3, <1>4, <1>7
    <2>3. new = <<workIdx>>
      <3>1. new = [i \in 1 .. 1 |-> workIdx + i - 1]
        BY <2>2
      <3>2. \A i \in 1 .. 1 : workIdx + i - 1 = workIdx
        BY <1>3
      <3>3. <<workIdx>> = [i \in 1 .. 1 |-> workIdx]
        OBVIOUS
      <3> HIDE DEF new
      <3> QED
        BY <3>1, <3>2, <3>3
    <2>4. workIdx < taskCnt
      BY <1>2, <1>3, <1>7
    <2> HIDE DEF new
    <2> QED
      BY <1>2, <1>3, <1>5, <2>1, <2>3, <2>4
  <1> QED
    BY <1>6, <1>7

LEMMA PhaseEnough ==
  ASSUME Inv, ~serial, NEW w \in Worker, InPhase(w),
         pc'[w] \in {"grab", "drain", "copyLast", "end"} => grab'[w] = <<>>,
         pc'[w] = "end" => wo'[w] = <<>>,
         pc'[w] = "take" => grab'[w] # <<>>,
         Len(grab'[w]) <= 1,
         pc'[w] = "flush" => wo'[w] # <<>>,
         mode[w] = "work" => wo'[w] = <<>> /\ pc'[w] \notin {"flush", "copy", "copyLast"},
         mode[w] = "seed" => stack'[w] = <<>> /\ pc'[w] # "descend",
         stack'[w] # <<>> => pc'[w] \in RunPc
  PROVE  Private(w)'
  <1>1. /\ st'[w] = "out" /\ mode'[w] = mode[w] /\ serial' = serial /\ Stage(w)' = "work"
        /\ pc'[w] \in RoundPc \cup {"end"}
    BY PhaseIs DEF Inv, TypeOK
  <1>2. mode[w] \in {"seed", "work"}
    BY DEF Inv, Private
  <1>3. pc'[w] \in {"count", "fire"} => res'[w].ret # Root'
    BY RootStep DEF Root, Step, InPhase
  <1>4. pc'[w] # "begin" /\ pc'[w] # "quit"
    BY <1>1 DEF RoundPc
  <1> QED
    BY <1>1, <1>2, <1>3, <1>4 DEF Private

\* After a task has come to its end.
LEMMA DealtPrivate ==
  ASSUME Inv, ~serial, NEW w \in Worker, InPhase(w), Dealt(w, wo'[w], grab'[w]),
         grab' = grab \/ grab' = [grab EXCEPT ![w] = <<>>], pc[w] # "grab",
         mode[w] = "work" => wo'[w] = <<>>,
         mode[w] = "seed" => stack'[w] = stack[w]
  PROVE  Private(w)'
  <1>1. TypeOK /\ Private(w) /\ ~serial
    BY DEF Inv
  <1>2. Len(grab'[w]) <= 1
    BY <1>1 DEF Private, TypeOK
  <1>3. CASE mode[w] = "work"
    <2>1. pc'[w] = "descend"
      BY <1>1, <1>3 DEF Dealt, Goto, TypeOK
    <2> QED
      BY <1>1, <1>2, <1>3, <2>1, PhaseEnough DEF RunPc
  <1>4. CASE mode[w] = "seed"
    <2>1. stack'[w] = <<>>
      BY <1>1, <1>4 DEF Private
    <2>2. \/ pc'[w] = "flush" /\ Len(wo'[w]) >= FlushAt
          \/ pc'[w] = "grab" /\ grab'[w] = <<>>
          \/ pc'[w] = "take" /\ grab'[w] # <<>>
      BY <1>1, <1>4 DEF Dealt, NextTask, Goto, TypeOK
    <2>3. pc'[w] = "flush" => wo'[w] # <<>>
      <3>1. Len(<<>>) = 0
        OBVIOUS
      <3> QED
        BY <2>2, <3>1, CapAssumption
    <2> QED
      BY <1>1, <1>2, <1>4, <2>1, <2>2, <2>3, PhaseEnough DEF RunPc
  <1> QED
    BY <1>1, <1>3, <1>4 DEF Private

LEMMA PrivatePhase ==
  ASSUME Inv, ~serial, NEW w \in Worker, InPhase(w)
  PROVE  Private(w)'
  <1>1. /\ TypeOK /\ Private(w) /\ mode[w] \in {"seed", "work"} /\ Len(grab[w]) <= 1
        /\ grab \in [Worker -> Seq(Nat)] /\ wo \in [Worker -> Seq(TaskSet)]
        /\ stack \in [Worker -> Seq(TaskSet)]
        /\ pc \in [Worker -> RoundPc \cup BarrierPc \cup {"check", "next", "compact", "again", "quit"}]
    BY DEF Inv, Private, TypeOK
  <1>2. Len(<<>>) = 0
    OBVIOUS
  <1>3. CASE Grab(w)
    <2>1. /\ wo' = wo /\ stack' = stack /\ pc[w] = "grab"
      BY <1>3 DEF Grab
    <2>2. grab[w] = <<>> /\ stack[w] = <<>> /\ (mode[w] = "work" => wo[w] = <<>>)
      BY <1>1, <2>1 DEF Private, RunPc
    <2>3. \/ grab' = grab /\ pc'[w] = "drain"
          \/ grab'[w] = <<workIdx>> /\ pc'[w] = "take"
      BY <1>1, <1>3, GrabIs
    <2>4. Len(grab'[w]) <= 1
      <3>1. Len(<<workIdx>>) = 1
        OBVIOUS
      <3>2. Len(grab'[w]) = 0 \/ Len(grab'[w]) = 1
        BY <1>2, <2>2, <2>3, <3>1
      <3>3. \A n : n = 0 \/ n = 1 => n <= 1
        OBVIOUS
      <3> QED
        BY ONLY <3>2, <3>3, Zenon
    <2>5. <<workIdx>> # <<>>
      OBVIOUS
    <2> QED
      BY <1>3, <2>1, <2>2, <2>3, <2>4, <2>5, PhaseEnough DEF InPhase
  <1>4. CASE TakeSeed(w) \/ TakeWork(w)
    <2>1. grab[w] # <<>> /\ stack[w] = <<>>
      BY <1>1, <1>4 DEF TakeSeed, TakeWork, Private, RunPc
    <2>2. Tail(grab[w]) = <<>>
      <3>1. Len(Tail(grab[w])) = Len(grab[w]) - 1 /\ Tail(grab[w]) \in Seq(Nat)
        BY <1>1, <2>1, HeadTailProperties
      <3>2. Len(grab[w]) \in Nat /\ Len(grab[w]) # 0
        BY <1>1, <2>1, EmptySeq, LenProperties
      <3>3. Len(Tail(grab[w])) = 0
        BY <1>1, <3>1, <3>2
      <3> QED
        BY <3>1, <3>3, EmptySeq
    <2>3. grab' = [grab EXCEPT ![w] = <<>>] /\ grab'[w] = <<>>
      BY <1>1, <1>4, <2>2 DEF TakeSeed, TakeWork
    <2>4. CASE TakeWork(w)
      <3>1. mode[w] = "work" /\ wo' = wo /\ pc'[w] = "descend"
        BY <1>1, <2>4 DEF TakeWork, Goto
      <3>2. wo[w] = <<>>
        BY <1>1, <3>1 DEF Private
      <3> QED
        BY <1>2, <2>3, <2>4, <3>1, <3>2, PhaseEnough DEF InPhase, RunPc
    <2>5. CASE TakeSeed(w)
      <3>1. mode[w] = "seed" /\ stack' = stack /\ pc[w] = "take"
        BY <2>5 DEF TakeSeed
      <3>2. pc'[w] = "resolve" \/ Dealt(w, wo'[w], grab'[w])
        BY <1>1, <2>2, <2>3, <2>5 DEF TakeSeed, Goto
      <3>3. CASE pc'[w] = "resolve"
        BY <1>2, <2>1, <2>3, <2>5, <3>1, <3>3, PhaseEnough DEF InPhase
      <3>4. CASE Dealt(w, wo'[w], grab'[w])
        BY <2>3, <2>5, <3>1, <3>4, DealtPrivate DEF InPhase
      <3> QED
        BY <3>2, <3>3, <3>4
    <2> QED
      BY <1>4, <2>4, <2>5
  <1>5. CASE Descend(w)
    <2>1. mode[w] = "work" /\ grab' = grab /\ wo' = wo /\ pc'[w] \in {"resolve", "descend"}
      BY <1>1, <1>5 DEF Descend, Private, Goto
    <2>2. wo[w] = <<>>
      BY <1>1, <2>1 DEF Private
    <2> QED
      BY <1>1, <1>5, <2>1, <2>2, PhaseEnough DEF InPhase, RunPc
  <1>6. CASE DescendEnd(w)
    <2>1. /\ mode[w] = "work" /\ grab' = grab /\ wo' = wo /\ stack' = stack /\ stack[w] = <<>>
          /\ pc' = [pc EXCEPT ![w] = IF grab[w] = <<>> THEN "grab" ELSE "take"]
      BY <1>1, <1>6 DEF DescendEnd, Private, NextTask, Goto
    <2>2. wo[w] = <<>> /\ pc'[w] = IF grab[w] = <<>> THEN "grab" ELSE "take"
      BY <1>1, <2>1 DEF Private
    <2> QED
      BY <1>1, <1>6, <2>1, <2>2, PhaseEnough DEF InPhase
  <1>7. CASE ResolveRoot(w) \/ WriteSlot(w)
    <2>1. grab' = grab /\ wo' = wo /\ stack' = stack /\ pc'[w] \in {"finish", "count"}
      BY <1>1, <1>7 DEF ResolveRoot, WriteSlot, Goto
    <2> QED
      BY <1>1, <1>7, <2>1, PhaseEnough DEF InPhase, RunPc, Private
  <1>8. CASE Finish(w) \/ Count(w)
    <2>1. grab' = grab /\ wo' = wo /\ stack' = stack /\ pc[w] # "grab"
      BY <1>8 DEF Finish, Count
    <2>2. pc'[w] = "fire" \/ Dealt(w, wo'[w], grab'[w])
      BY <1>1, <1>8, <2>1, DealtIs DEF Finish, Count, Goto
    <2>3. CASE pc'[w] = "fire"
      BY <1>1, <1>8, <2>1, <2>3, PhaseEnough DEF InPhase, RunPc, Private
    <2>4. CASE Dealt(w, wo'[w], grab'[w])
      BY <1>1, <1>8, <2>1, <2>4, DealtPrivate DEF InPhase, Private
    <2> QED
      BY <2>2, <2>3, <2>4
  <1>9. CASE Fire(w)
    <2>1. grab' = grab /\ pc[w] = "fire"
      BY <1>9 DEF Fire
    <2>2. \/ pc'[w] = "resolve" /\ wo' = wo /\ stack' = stack
          \/ Dealt(w, wo'[w], grab'[w]) /\ (mode[w] = "seed" => stack' = stack) /\ (mode[w] = "work" => wo' = wo)
      BY <1>1, <1>9, <2>1, DealtIs DEF Fire, Goto
    <2>3. CASE pc'[w] = "resolve" /\ wo' = wo /\ stack' = stack
      BY <1>1, <1>9, <2>1, <2>3, PhaseEnough DEF InPhase, RunPc, Private
    <2>4. CASE Dealt(w, wo'[w], grab'[w]) /\ (mode[w] = "seed" => stack' = stack) /\ (mode[w] = "work" => wo' = wo)
      BY <1>1, <1>9, <2>1, <2>4, DealtPrivate DEF InPhase, Private
    <2> QED
      BY <2>2, <2>3, <2>4
  <1>10. CASE Flush(w)
    <2>1. /\ grab' = grab /\ wo' = wo /\ stack' = stack /\ pc[w] \in {"flush", "drain"}
          /\ pc'[w] = IF wo[w] = <<>> THEN "end" ELSE IF pc[w] = "drain" THEN "copyLast" ELSE "copy"
      BY <1>1, <1>10 DEF Flush, Goto
    <2> QED
      BY <1>1, <1>10, <2>1, PhaseEnough DEF InPhase, RunPc, Private
  <1>11. CASE Copy(w)
    <2>1. /\ grab' = grab /\ wo'[w] = <<>> /\ stack' = stack /\ pc[w] \in {"copy", "copyLast"}
          /\ pc'[w] = IF pc[w] = "copyLast" THEN "end" ELSE IF grab[w] = <<>> THEN "grab" ELSE "take"
      BY <1>1, <1>11 DEF Copy, Goto, NextTask
    <2> QED
      BY <1>1, <1>11, <2>1, PhaseEnough DEF InPhase, RunPc, Private
  <1> QED
    BY <1>3, <1>4, <1>5, <1>6, <1>7, <1>8, <1>9, <1>10, <1>11 DEF InPhase

LEMMA PrivateStep ==
  ASSUME Inv, NEW w \in Worker, Step(w), NEW v \in Worker
  PROVE  Private(v)'
  <1>1. CASE serial
    BY <1>1, PrivateAlone
  <1>2. CASE ~serial /\ v # w
    BY <1>2, PrivateOthers
  <1>3. CASE ~serial /\ v = w
    BY <1>3, PrivateOuter, PrivatePhase DEF Step, InPhase
  <1> QED
    BY <1>1, <1>2, <1>3

-----------------------------------------------------------------------------
(* How many tasks a round makes *)

LEMMA DueType ==
  ASSUME NEW l, NEW out \in Nat, NEW taken \in Nat
  PROVE  Due(l, out, taken) \in Nat
  <1>1. CASE l \in {"copy", "copyLast"}
    BY <1>1 DEF Due
  <1>2. CASE l \in {"resolve", "count", "fire"}
    BY <1>2 DEF Due
  <1>3. CASE l \notin {"copy", "copyLast", "resolve", "count", "fire"}
    BY <1>3 DEF Due
  <1> QED
    BY <1>1, <1>2, <1>3

LEMMA OweType ==
  /\ TypeOK => Owes \in [Worker -> Int] /\ \A v \in Worker : Owes[v] = Owe(v) /\ Owe(v) \in Nat
  /\ TypeOK' => Owes' \in [Worker -> Int] /\ \A v \in Worker : Owes'[v] = Owe(v)' /\ Owe(v)' \in Nat
  <1>1. TypeOK => \A v \in Worker : Len(wo[v]) \in Nat /\ Len(grab[v]) \in Nat
    BY LenProperties DEF TypeOK
  <1>2. TypeOK' => \A v \in Worker : Len(wo'[v]) \in Nat /\ Len(grab'[v]) \in Nat
    BY LenProperties DEF TypeOK
  <1>3. TypeOK => \A v \in Worker : Owe(v) \in Nat
    BY <1>1, DueType DEF Owe
  <1>4. TypeOK' => \A v \in Worker : Owe(v)' \in Nat
    BY <1>2, DueType DEF Owe
  <1> QED
    BY <1>3, <1>4 DEF Owes

LEMMA OweUpdate ==
  ASSUME TypeOK, TypeOK', NEW w \in Worker, \A v \in Worker \ {w} : Owe(v)' = Owe(v)
  PROVE  /\ SumFunction(Owes') = SumFunction(Owes) + Owe(w)' - Owe(w)
         /\ SumFunction(Owes) \in Int
  <1>1. Owes \in [Worker -> Int] /\ \A v \in Worker : Owes[v] = Owe(v) /\ Owe(v) \in Nat
    BY OweType
  <1>2. Owes' \in [Worker -> Int] /\ \A v \in Worker : Owes'[v] = Owe(v)' /\ Owe(v)' \in Nat
    BY OweType
  <1>3. \A v \in Worker \ {w} : Owes'[v] = Owes[v]
    BY <1>1, <1>2
  <1>4. IsFiniteSet(Worker)
    BY WorkerIs
  <1>5. SumFunction(Owes') = SumFunction(Owes) + Owes'[w] - Owes[w]
    BY ONLY <1>1, <1>2, <1>3, <1>4, SumUpdate
  <1>6. SumFunction(Owes) \in Int
    BY ONLY <1>1, <1>4, SumType
  <1> QED
    BY <1>1, <1>2, <1>5, <1>6

\* Nobody is at work alone.
LEMMA AllWork ==
  ASSUME Inv, ~serial, NEW w \in Worker
  PROVE  /\ Stage(w) = "work" => \A v \in Worker : Stage(v) = "work"
         /\ Stage(w) = "close" => \A v \in Worker : Stage(v) = "close"
  <1>1. \A v \in Worker : Fits(v, w)
    BY DEF Inv, Together
  <1> QED
    BY <1>1 DEF Fits, Near

LEMMA NumbersAlone ==
  ASSUME Inv, NEW w \in Worker, Step(w), serial
  PROVE  Numbers'
  <1>1. Alone' /\ serial' = serial
    <2>1. serial' = serial
      BY DEF Step, Arrive, Pass, Check, NextRound, Compact, Again, Grab, TakeSeed, TakeWork, Descend,
             DescendEnd, ResolveRoot, Finish, WriteSlot, Count, Fire, Flush, Copy
    <2> QED
      BY <2>1, AloneStep
  <1>2. taskCnt' = 0 /\ \A v \in Worker : grab'[v] = <<>> /\ pc'[v] \in RunPc \cup {"quit"}
    BY <1>1 DEF Alone
  <1>3. taskCnt' <= 4 * Threads - 2
    BY <1>2, WorkerIs
  <1>4. \A v \in Worker : Indices(v)'
    BY <1>1, <1>2 DEF Indices, RunPc
  <1> QED
    BY <1>1, <1>3, <1>4 DEF Numbers

\* Outside a round the counters move only when nobody is at work.
LEMMA NumbersArrive ==
  ASSUME Inv, ~serial, NEW w \in Worker, Arrive(w) \/ Pass(w)
  PROVE  Numbers'
  <1>1. /\ serial' = serial /\ mode' = mode /\ round' = round /\ grab' = grab /\ wo' = wo
        /\ taskCnt' = taskCnt /\ taskCntNew' = taskCntNew /\ workIdx' = workIdx
    BY DEF Arrive, Pass, queue
  <1>2. /\ TypeOK /\ taskCnt <= 4 * Threads - 2 /\ 0 \in Worker /\ taskCnt \in Nat /\ taskCntNew \in Nat /\ workIdx \in Nat
        /\ Leaves /\ \A v \in Worker : Known(v) /\ Indices(v) /\ Private(v)
    BY WorkerIs DEF Inv, Numbers, TypeOK
  <1>3. /\ st \in [Worker -> {"out", "in", "free"}]
        /\ pc \in [Worker -> RoundPc \cup BarrierPc \cup {"check", "next", "compact", "again", "quit"}]
    BY <1>2 DEF TypeOK
  <1>4. AtBarrier(w) /\ pc[w] \in BarrierPc
    BY <1>2 DEF Arrive, Pass, B!Leave, Private, AtBarrier, BarrierPc
  <1>5. \A v \in Worker : v # w => pc'[v] = pc[v]
    BY <1>3 DEF Arrive, Pass, Goto
  <1>6. pc'[w] = pc[w] \/ pc'[w] = After(pc[w])
    BY <1>3 DEF Arrive, Pass, Goto
  <1>7. pc'[w] \in BarrierPc \cup {"check", "grab", "compact", "again"}
    BY <1>4, <1>6 DEF After, BarrierPc
  <1>8. \A v \in Worker : Owe(v)' = Owe(v)
    <2> TAKE v \in Worker
    <2>1. CASE v # w
      BY <1>1, <1>5, <2>1 DEF Owe
    <2>2. CASE v = w
      BY <1>1, <1>4, <1>7, <2>2 DEF Owe, Due, BarrierPc
    <2> QED
      BY <2>1, <2>2
  <1>9. Owes' = Owes /\ Left' = Left
    BY <1>1, <1>8 DEF Owes, Left
  <1>10. CASE (B!ArriveEarly(w) /\ UNCHANGED pc) \/ Pass(w)
    <2>1. \A v \in Worker : Stage(v)' = Stage(v)
      <3> TAKE v \in Worker
      <3>1. CASE Pass(w) /\ v = w
        <4>1. st[w] = "free" /\ st'[w] = "out" /\ pc'[w] = After(pc[w])
          BY <1>3, <3>1 DEF Pass, B!Leave, Goto
        <4> QED
          BY <1>4, <3>1, <4>1 DEF Stage, Own, Passed, After, AtBarrier, RoundPc
      <3>2. CASE ~ (Pass(w) /\ v = w)
        BY <1>3, <1>5, <1>10, <3>2 DEF Pass, B!Leave, B!ArriveEarly, Stage
      <3> QED
        BY <3>1, <3>2
    <2>2. ASSUME NEW v \in Worker PROVE Indices(v)'
      <3>1. Indices(v) /\ Private(v)
        BY <1>2
      <3>2. pc'[v] \in {"copy", "copyLast", "drain"} => pc[v] = pc'[v] /\ v # w
        BY <1>5, <1>7 DEF BarrierPc
      <3>3. pc'[v] = "end" /\ st'[v] # "free" => pc[v] = "end" /\ st[v] # "free"
        <4>1. CASE v = w
          <5>1. pc'[w] = "end" => pc[w] = "end" /\ ~Pass(w)
            BY <1>3, <1>4, <1>6, <1>10 DEF After, AtBarrier, Pass, Goto
          <5> QED
            BY <1>10, <4>1, <5>1 DEF B!ArriveEarly
        <4>2. CASE v # w
          BY <1>3, <1>5, <1>10, <4>2 DEF Pass, B!Leave, B!ArriveEarly
        <4> QED
          BY <4>1, <4>2
      <3>4. v # w => st'[v] = st[v]
        BY <1>3, <1>10 DEF Pass, B!Leave, B!ArriveEarly
      <3> QED
        BY <1>1, <3>1, <3>2, <3>3, <3>4 DEF Indices
    <2>3. ASSUME NEW v \in Worker PROVE Known(v)'
      <3>1. Known(v) /\ Stage(v)' = Stage(v)
        BY <1>2, <2>1
      <3>2. pc'[v] = "begin" => pc[v] = "begin"
        BY <1>4, <1>5, <1>6 DEF After, AtBarrier
      <3> QED
        BY <1>1, <3>1, <3>2 DEF Known, Enough
    <2>4. Leaves'
      <3>1. Stage(0)' = Stage(0)
        BY <1>2, <2>1
      <3>2. pc'[0] = "begin" => pc[0] = "begin"
        BY <1>4, <1>5, <1>6, <1>2 DEF After, AtBarrier
      <3>3. pc'[0] \in {"end", "compact"} => pc[0] \in {"end", "compact"}
        BY <1>4, <1>5, <1>6, <1>2 DEF After, AtBarrier
      <3> QED
        BY <1>1, <1>2, <1>9, <3>1, <3>2, <3>3 DEF Leaves
    <2> QED
      BY <1>1, <1>2, <2>2, <2>3, <2>4 DEF Numbers
  <1>11. CASE AtBarrier(w) /\ B!ArriveLast(w) /\ Goto(w, After(pc[w]))
    <2>1. \A v \in Worker : AtBarrier(v) /\ st[v] # "free" /\ Stage(v) = Own(pc[v])
      <3>1. \A v \in Worker : AtBarrier(v) /\ st[v] # "free"
        BY <1>2, <1>11 DEF B!ArriveLast, Private
      <3> QED
        BY <3>1 DEF Stage
    <2>2. \A v \in Worker : pc[v] = pc[w]
      <3> TAKE v \in Worker
      <3>1. Fits(v, w)
        BY DEF Inv, Together
      <3>2. /\ AtBarrier(v) /\ AtBarrier(w) /\ Stage(v) = Own(pc[v]) /\ Stage(w) = Own(pc[w])
        BY <2>1
      <3> QED
        BY <3>1, <3>2 DEF Fits, Near, Own, AtBarrier, RoundPc
    <2>3. ASSUME NEW v \in Worker PROVE Stage(v)' = Passed(pc[w])
      <3>1. CASE v = w
        <4>1. st'[w] = "out" /\ pc'[w] = After(pc[w])
          BY <1>3, <1>11 DEF B!ArriveLast, Goto
        <4> QED
          BY <1>11, <3>1, <4>1 DEF Stage, Own, Passed, After, AtBarrier, RoundPc
      <3>2. CASE v # w
        <4>1. st'[v] = "free" /\ pc'[v] = pc[v]
          BY <1>3, <1>11, <3>2 DEF B!ArriveLast, Goto
        <4> QED
          BY <2>2, <4>1 DEF Stage
      <3> QED
        BY <3>1, <3>2
    <2>4. ASSUME NEW v \in Worker PROVE Indices(v)'
      <3>1. grab'[v] = <<>>
        <4>1. pc[v] \in {"begin", "end"} \/ Stage(v) # "work"
          BY <2>1 DEF AtBarrier, Own, RoundPc
        <4> QED
          BY <1>1, <1>2, <4>1 DEF Private
      <3>2. pc'[v] \notin {"copy", "copyLast", "drain"}
        BY <1>5, <1>7, <2>1 DEF AtBarrier, BarrierPc
      <3>3. pc'[v] = "end" => st'[v] = "free"
        <4>1. CASE v = w
          BY <1>3, <1>4, <1>11, <4>1 DEF Goto, After, AtBarrier
        <4>2. CASE v # w
          BY <1>11, <4>2 DEF B!ArriveLast
        <4> QED
          BY <4>1, <4>2
      <3> QED
        BY <3>1, <3>2, <3>3 DEF Indices
    <2>5. Passed(pc[w]) # "open" /\ Stage(0)' = Passed(pc[w])
      BY <1>2, <2>3 DEF Passed
    <2>6. Passed(pc[w]) = "work" => pc[w] = "begin"
      BY DEF Passed
    <2>7. pc[w] = "begin" => \A v \in Worker : Stage(v) = "open" /\ pc[v] = "begin"
      BY <2>1, <2>2 DEF Own, RoundPc
    <2>8. ASSUME NEW v \in Worker PROVE Known(v)'
      <3>1. Stage(v)' = Passed(pc[w]) /\ Known(v)
        BY <1>2, <2>3
      <3>2. pc[w] = "begin" /\ mode[v] = "seed" => round[v].cnt = taskCnt /\ taskCnt < 2 * Threads
        BY <1>2, <2>7, <3>1, WorkerIs DEF Known, Enough
      <3> QED
        BY <1>1, <2>5, <2>6, <2>7, <3>1, <3>2 DEF Known
    <2>9. Leaves'
      <3>1. Passed(pc[w]) = "work" => taskCntNew' = 0 /\ workIdx' = 0 /\ SumFunction(Owes') = 0
        <4> SUFFICES ASSUME pc[w] = "begin"
                     PROVE  taskCntNew' = 0 /\ workIdx' = 0 /\ SumFunction(Owes') = 0
          BY <2>6
        <4>1. taskCntNew = 0 /\ workIdx = 0
          BY <1>2, <2>7 DEF Leaves
        <4>2. \A v \in Worker : Owe(v) = 0
          <5> TAKE v \in Worker
          <5>1. pc[v] = "begin" /\ grab[v] = <<>> /\ wo[v] = <<>>
            BY <1>2, <2>7 DEF Private
          <5>2. Len(<<>>) = 0
            OBVIOUS
          <5> QED
            BY <5>1, <5>2 DEF Owe, Due
        <4>3. SumFunction(Owes) = 0
          <5>1. Owes \in [Worker -> Int] /\ \A v \in Worker : Owes[v] = 0
            BY <1>2, <4>2, OweType
          <5> QED
            BY ONLY <5>1, WorkerIs, SumZero
        <4> QED
          BY <1>1, <1>9, <4>1, <4>3
      <3>2. Passed(pc[w]) = "work" => SumFunction(Owes') + taskCntNew' + 2 * Left' <= 2 * taskCnt'
        <4>1. workIdx' = 0 => Left' = taskCnt'
          BY <1>1, <1>2 DEF Left
        <4> QED
          BY <1>1, <1>2, <3>1, <4>1
      <3>3. pc[w] = "end" => /\ taskCntNew' <= 4 * Threads - 2
                             /\ round'[0].cnt = taskCnt'
                             /\ taskCnt' + taskCntNew' <= 6 * Threads - 3
                             /\ workIdx' >= taskCnt'
        <4> SUFFICES ASSUME pc[w] = "end"
                     PROVE  /\ taskCntNew <= 4 * Threads - 2
                            /\ round[0].cnt = taskCnt
                            /\ taskCnt + taskCntNew <= 6 * Threads - 3
                            /\ workIdx >= taskCnt
          BY <1>1
        <4>1. Stage(0) = "work" /\ pc[0] = "end" /\ st[0] # "free"
          BY <1>2, <2>1, <2>2 DEF Own, RoundPc
        <4>2. workIdx >= taskCnt /\ round[0].cnt = taskCnt
          BY <1>2, <4>1 DEF Known, Indices
        <4>3. CASE mode[0] = "work"
          <5>1. taskCntNew = 0
            BY <1>2, <4>1, <4>3 DEF Leaves
          <5> QED
            BY <1>2, <4>2, <5>1, WorkerIs
        <4>4. CASE mode[0] # "work"
          <5>1. mode[0] = "seed"
            BY <1>2, <4>4 DEF Private
          <5>2. taskCnt < 2 * Threads /\ SumFunction(Owes) + taskCntNew + 2 * Left <= 2 * taskCnt
            BY <1>2, <4>1, <4>4, <5>1 DEF Known, Leaves
          <5>3. \A v \in Worker : Owe(v) = 0
            <6> TAKE v \in Worker
            <6>1. pc[v] = "end" /\ grab[v] = <<>> /\ wo[v] = <<>>
              BY <1>2, <2>2 DEF Private
            <6>2. Len(<<>>) = 0
              OBVIOUS
            <6> QED
              BY <6>1, <6>2 DEF Owe, Due
          <5>4. SumFunction(Owes) = 0
            <6>1. Owes \in [Worker -> Int] /\ \A v \in Worker : Owes[v] = 0
              BY <1>2, <5>3, OweType
            <6> QED
              BY ONLY <6>1, WorkerIs, SumZero
          <5>5. Left \in Nat
            BY <1>2 DEF Left
          <5> QED
            BY <1>2, <4>2, <5>2, <5>4, <5>5, WorkerIs
        <4> QED
          BY <4>3, <4>4
      <3>4. Passed(pc[w]) = "close" => pc[w] = "end"
        BY DEF Passed
      <3> QED
        BY <2>5, <3>1, <3>2, <3>3, <3>4 DEF Leaves
    <2> QED
      BY <1>1, <1>2, <2>4, <2>8, <2>9 DEF Numbers
  <1> QED
    BY <1>10, <1>11 DEF Arrive

LEMMA NumbersOuter ==
  ASSUME Inv, ~serial, NEW w \in Worker, Check(w) \/ NextRound(w) \/ Compact(w) \/ Again(w)
  PROVE  Numbers'
  <1>1. /\ st' = st /\ serial' = serial /\ grab' = grab /\ wo' = wo
        /\ pc[w] \in {"check", "next", "compact", "again"}
    BY DEF Check, NextRound, Compact, Again
  <1>2. /\ TypeOK /\ taskCnt <= 4 * Threads - 2 /\ 0 \in Worker /\ taskCnt \in Nat /\ taskCntNew \in Nat /\ workIdx \in Nat
        /\ Leaves /\ \A v \in Worker : Known(v) /\ Indices(v) /\ Private(v)
    BY WorkerIs DEF Inv, Numbers, TypeOK
  <1>3. /\ mode \in [Worker -> {"serial", "seed", "work"}]
        /\ pc \in [Worker -> RoundPc \cup BarrierPc \cup {"check", "next", "compact", "again", "quit"}]
        /\ round \in [Worker -> [iter : Nat, cnt : Nat, dst : Nat]]
    BY <1>2 DEF TypeOK
  <1>4. st[w] = "out" /\ Stage(w) = Own(pc[w])
    <2>1. ~AtBarrier(w)
      BY <1>1 DEF AtBarrier
    <2> QED
      BY <1>2, <2>1, StageAt
  <1>5. \A v \in Worker : Stage(v) # "work"
    <2>1. Stage(w) # "work"
      BY <1>1, <1>4 DEF Own, RoundPc
    <2> QED
      BY <2>1, AllWork
  <1>6. /\ \A v \in Worker : v # w => pc'[v] = pc[v] /\ mode'[v] = mode[v] /\ round'[v] = round[v]
        /\ pc'[w] \in {"quit", "next", "begin", "after", "top"}
        /\ pc'[w] = "begin" <=> NextRound(w)
    BY <1>1, <1>3 DEF Check, NextRound, Compact, Again, Goto
  <1>7. \A v \in Worker : v # w => Stage(v)' = Stage(v)
    BY <1>1, <1>6 DEF Stage
  <1>8. Stage(w)' = Own(pc'[w]) /\ Own(pc'[w]) \notin {"work"}
    BY <1>1, <1>4, <1>6 DEF Stage, Own, RoundPc
  <1>9. \A v \in Worker : /\ grab[v] = <<>>
                          /\ pc'[v] \notin {"copy", "copyLast", "drain"}
                          /\ pc'[v] = "end" => st'[v] = "free"
    <2> TAKE v \in Worker
    <2>1. Private(v) /\ Stage(v) # "work"
      BY <1>2, <1>5
    <2>2. pc[v] \notin {"copy", "copyLast", "drain"} /\ (pc[v] = "end" => st[v] = "free")
      BY <2>1 DEF Private, AtBarrier, Stage, Own, RoundPc
    <2> QED
      BY <1>1, <1>6, <2>1, <2>2 DEF Private
  <1>10. \A v \in Worker : Indices(v)'
    BY <1>1, <1>9 DEF Indices
  <1>11. taskCnt' <= 4 * Threads - 2
    <2>1. CASE Compact(w) /\ w = 0
      <3>1. Stage(0) = "close" /\ pc[0] = "compact"
        BY <1>4, <2>1 DEF Compact, Own, RoundPc
      <3> QED
        BY <1>2, <2>1, <3>1 DEF Leaves, Compact
    <2>2. CASE ~ (Compact(w) /\ w = 0)
      BY <1>2, <2>2 DEF Check, NextRound, Compact, Again, queue
    <2> QED
      BY <2>1, <2>2
  <1>12. CASE Compact(w)
    <2>1. \A v \in Worker : Stage(v) = "close"
      BY <1>4, <1>12, AllWork DEF Compact, Own, RoundPc
    <2>2. Stage(w)' = "close" /\ pc'[w] = "after"
      BY <1>3, <1>8, <1>12 DEF Compact, Goto, Own, RoundPc
    <2>3. \A v \in Worker : Known(v)'
      BY <1>7, <2>1, <2>2 DEF Known
    <2>4. Leaves'
      <3>1. CASE w = 0
        BY <2>2, <3>1 DEF Leaves
      <3>2. CASE w # 0
        <4>1. pc'[0] = pc[0] /\ round'[0] = round[0] /\ Stage(0)' = Stage(0)
          BY <1>2, <1>6, <1>7, <3>2
        <4>2. taskCnt' = taskCnt /\ taskCntNew' = taskCntNew /\ workIdx' = workIdx
          BY <1>12, <3>2 DEF Compact
        <4> QED
          BY <1>2, <2>1, <4>1, <4>2 DEF Leaves
      <3> QED
        BY <3>1, <3>2
    <2> QED
      BY <1>1, <1>10, <1>11, <2>3, <2>4 DEF Numbers
  <1>13. CASE NextRound(w)
    <2>1. taskCnt' = taskCnt /\ pc'[w] = "begin" /\ Stage(w)' = "open"
      BY <1>6, <1>8, <1>13 DEF NextRound, Own, RoundPc
    <2>2. \A v \in Worker : Known(v)'
      <3> TAKE v \in Worker
      <3>1. CASE v # w
        BY <1>2, <1>5, <1>6, <1>7, <2>1, <3>1 DEF Known, Enough
      <3>2. CASE v = w
        <4>1. /\ round'[w].cnt = taskCnt /\ round'[w].iter = round[w].iter
              /\ mode'[w] = IF Enough(w) THEN "work" ELSE "seed"
          BY <1>3, <1>13 DEF NextRound
        <4> QED
          BY <1>8, <2>1, <3>2, <4>1 DEF Known, Enough
      <3> QED
        BY <3>1, <3>2
    <2>3. Leaves'
      <3>1. CASE w = 0
        BY <1>13, <2>1, <3>1 DEF Leaves, NextRound
      <3>2. CASE w # 0
        <4>1. pc'[0] = pc[0] /\ round'[0] = round[0] /\ Stage(0)' = Stage(0) /\ Stage(0) # "work"
          BY <1>2, <1>5, <1>6, <1>7, <3>2
        <4>2. taskCntNew' = taskCntNew /\ workIdx' = workIdx
          BY <1>13, <3>2 DEF NextRound
        <4> QED
          BY <1>2, <2>1, <4>1, <4>2 DEF Leaves
      <3> QED
        BY <3>1, <3>2
    <2> QED
      BY <1>1, <1>10, <1>11, <2>2, <2>3 DEF Numbers
  <1>14. CASE Check(w) \/ Again(w)
    <2>1. /\ taskCnt' = taskCnt /\ taskCntNew' = taskCntNew /\ workIdx' = workIdx
          /\ pc'[w] \in {"quit", "next", "top"}
      BY <1>3, <1>14 DEF Check, Again, queue, Goto
    <2>2. \A v \in Worker : Known(v)'
      <3> TAKE v \in Worker
      <3>1. CASE v # w
        BY <1>2, <1>5, <1>6, <1>7, <2>1, <3>1 DEF Known, Enough
      <3>2. CASE v = w
        BY <1>8, <2>1, <3>2 DEF Known
      <3> QED
        BY <3>1, <3>2
    <2>3. Leaves'
      <3>1. CASE w = 0
        BY <1>8, <2>1, <3>1 DEF Leaves
      <3>2. CASE w # 0
        <4>1. pc'[0] = pc[0] /\ round'[0] = round[0] /\ Stage(0)' = Stage(0) /\ Stage(0) # "work"
          BY <1>2, <1>5, <1>6, <1>7, <3>2
        <4> QED
          BY <1>2, <2>1, <4>1 DEF Leaves
      <3> QED
        BY <3>1, <3>2
    <2> QED
      BY <1>1, <1>10, <1>11, <2>2, <2>3 DEF Numbers
  <1> QED
    BY <1>12, <1>13, <1>14

\* What each step of a seed round costs: the tasks it makes were allowed for.
LEMMA OweStep ==
  ASSUME Inv, ~serial, NEW w \in Worker, InPhase(w), mode[w] = "seed"
  PROVE  Owe(w)' + taskCntNew' + 2 * Left' <= Owe(w) + taskCntNew + 2 * Left
  <1>1. /\ TypeOK /\ Private(w) /\ Len(grab[w]) <= 1 /\ TypeOK' /\ Private(w)'
        /\ pc \in [Worker -> RoundPc \cup BarrierPc \cup {"check", "next", "compact", "again", "quit"}]
        /\ wo \in [Worker -> Seq(TaskSet)] /\ grab \in [Worker -> Seq(Nat)]
        /\ taskCnt \in Nat /\ taskCntNew \in Nat /\ workIdx \in Nat
    BY TypeStep, PrivatePhase DEF Inv, Private, TypeOK, Step, InPhase
  <1>2. /\ Len(wo[w]) \in Nat /\ Len(grab[w]) \in Nat /\ Len(wo'[w]) \in Nat /\ Len(grab'[w]) \in Nat
        /\ wo'[w] \in Seq(TaskSet') /\ grab'[w] \in Seq(Nat)
    BY <1>1, LenProperties DEF TypeOK
  <1>0. PICK a \in Nat, b \in Nat, c \in Nat, d0 \in Nat :
          a = Len(wo[w]) /\ b = Len(grab[w]) /\ c = Len(wo'[w]) /\ d0 = Len(grab'[w])
    BY <1>2
  <1>16. Owe(w) = Due(pc[w], a, b) /\ Owe(w)' = Due(pc'[w], c, d0)
    BY <1>0 DEF Owe
  <1>3. Len(<<>>) = 0
    OBVIOUS
  <1>4. taskCnt' = taskCnt /\ Left \in Nat
    BY <1>1, PhaseIs DEF Left
  <1>5. Owe(w) \in Nat /\ Owe(w)' \in Nat
    BY <1>1, OweType
  <1>6. ~TakeWork(w) /\ ~Descend(w) /\ ~DescendEnd(w)
    BY <1>1 DEF TakeWork, Descend, DescendEnd, Private
  <1>7. CASE Grab(w)
    <2>1. /\ wo' = wo /\ taskCntNew' = taskCntNew /\ pc[w] = "grab" /\ grab[w] = <<>>
      BY <1>1, <1>7 DEF Grab, Private
    <2>2. workIdx' = workIdx + 1
      BY <1>7, GrabIs
    <2>3. CASE workIdx >= taskCnt
      <3>1. grab' = grab /\ pc'[w] = "drain"
        BY <1>1, <1>7, <2>3, GrabIs
      <3>2. a = c /\ b = d0
        BY <1>0, <2>1, <3>1
      <3>4. Owe(w)' = Owe(w)
        BY <1>16, <2>1, <3>1, <3>2 DEF Due
      <3>3. Left = 0 /\ Left' = 0
        BY <1>1, <1>4, <2>2, <2>3 DEF Left
      <3> QED
        BY <1>1, <1>5, <2>1, <3>3, <3>4
    <2>4. CASE workIdx < taskCnt
      <3>1. grab'[w] = <<workIdx>> /\ pc'[w] = "take"
        BY <1>1, <1>7, <2>4, GrabIs
      <3>2. Len(grab'[w]) = 1
        BY <3>1
      <3>5. a = c /\ b = 0 /\ d0 = 1
        BY <1>0, <1>3, <2>1, <3>2
      <3>6. Owe(w) = a + 2 * b /\ Owe(w)' = c + 2 * d0
        BY <1>16, <2>1, <3>1 DEF Due
      <3>3. Owe(w)' = Owe(w) + 2
        BY <3>5, <3>6
      <3>4. Left' = Left - 1
        BY <1>1, <1>4, <2>2, <2>4 DEF Left
      <3> QED
        BY <1>1, <1>4, <1>5, <2>1, <3>3, <3>4
    <2> QED
      BY <1>1, <2>3, <2>4
  <1>8. ASSUME taskCntNew' = taskCntNew, workIdx' = workIdx, Owe(w)' <= Owe(w)
        PROVE  Owe(w)' + taskCntNew' + 2 * Left' <= Owe(w) + taskCntNew + 2 * Left
    <2>1. Left' = Left
      BY <1>4, <1>8 DEF Left
    <2> QED
      BY <1>1, <1>4, <1>5, <1>8, <2>1
  <1>9. \A out, left : Dealt(w, out, left) => pc'[w] \in {"flush", "grab", "take"}
    BY <1>1 DEF Dealt, NextTask, Goto
  <1>10. ASSUME NEW t \in TaskSet, NEW d, d = Dispatch(w, t), cells' = [cells EXCEPT ![w] = d.cells],
                wo' = [wo EXCEPT ![w] = @ \o d.tasks]
         PROVE  c <= a + 2
    <2>1. program' = program
      BY DEF InPhase, Grab, TakeSeed, TakeWork, Descend,
           DescendEnd, ResolveRoot, Finish, WriteSlot, Count, Fire, Flush, Copy
    <2>2. Grows /\ (d.tasks = <<>> \/ (d.tasks \in Seq(TaskSet') /\ Len(d.tasks) \in 1 .. 2))
      BY <1>1, <1>10, <2>1, DispatchTypes
    <2>3. PICK k \in 0 .. 2 : d.tasks \in Seq(TaskSet') /\ Len(d.tasks) = k
      <3>1. CASE d.tasks = <<>>
        <4>1. d.tasks \in Seq(TaskSet') /\ Len(d.tasks) = 0
          BY <1>3, <3>1
        <4> QED
          BY <4>1
      <3>2. CASE d.tasks \in Seq(TaskSet') /\ Len(d.tasks) \in 1 .. 2
        BY <3>2
      <3> QED
        BY <2>2, <3>1, <3>2
    <2>4. wo[w] \in Seq(TaskSet')
      BY <1>1, <2>2, Grown
    <2>5. wo'[w] = wo[w] \o d.tasks
      BY <1>1, <1>10
    <2>6. Len(wo[w] \o d.tasks) = Len(wo[w]) + Len(d.tasks)
      BY <2>3, <2>4, ConcatProperties
    <2>7. c = a + k
      BY <1>0, <2>3, <2>5, <2>6
    <2> QED
      BY <2>3, <2>7
  <1>11. CASE TakeSeed(w)
    <2>1. taskCntNew' = taskCntNew /\ workIdx' = workIdx /\ pc[w] = "take"
      BY <1>11 DEF TakeSeed, queue
    <2>2. grab[w] # <<>>
      BY <1>1, <2>1 DEF Private
    <2>3. b = 1 /\ d0 = 0
      <3>1. Len(Tail(grab[w])) = Len(grab[w]) - 1 /\ grab'[w] = Tail(grab[w])
        BY <1>1, <1>11, <2>2, HeadTailProperties DEF TakeSeed
      <3>2. b # 0 /\ b <= 1 /\ d0 = b - 1
        BY <1>0, <1>1, <2>2, <3>1, EmptySeq
      <3> QED
        BY <3>2
    <2>4. CASE pc'[w] = "resolve" /\ wo' = wo
      <3>2. a = c
        BY <1>0, <2>4
      <3>1. Owe(w)' = Owe(w)
        BY <1>16, <2>1, <2>3, <2>4, <3>2 DEF Due
      <3> QED
        BY <1>5, <1>8, <2>1, <3>1
    <2>5. CASE pc'[w] \in {"flush", "grab", "take"} /\ c <= a + 2
      <3>1. Owe(w)' = c + 2 * d0 /\ Owe(w) = a + 2 * b
        BY <1>16, <2>1, <2>5 DEF Due
      <3>2. Owe(w)' <= Owe(w)
        BY <2>3, <2>5, <3>1
      <3> QED
        BY <1>8, <2>1, <3>2
    <2>6. buf[Head(grab[w])] \in TaskSet
      BY <2>2, TakenIs DEF Inv
    <2> QED
      BY <1>1, <1>9, <1>10, <1>11, <2>4, <2>5, <2>6 DEF TakeSeed, Goto
  <1>12. CASE ResolveRoot(w) \/ Finish(w) \/ WriteSlot(w) \/ Count(w)
    <2>1. taskCntNew' = taskCntNew /\ workIdx' = workIdx /\ grab' = grab /\ wo' = wo
      BY <1>12 DEF ResolveRoot, Finish, WriteSlot, Count, queue
    <2>2. \/ pc[w] \in {"resolve", "count"} /\ pc'[w] \in {"finish", "count", "fire", "flush", "grab", "take"}
          \/ pc[w] = "finish" /\ pc'[w] \in {"flush", "grab", "take"}
      BY <1>1, <1>9, <1>12, DealtIs DEF ResolveRoot, Finish, WriteSlot, Count, Goto
    <2>3. Owe(w)' <= Owe(w)
      <3>1. a = c /\ b = d0
        BY <1>0, <2>1
      <3> QED
        BY <1>16, <2>2, <3>1 DEF Due
    <2> QED
      BY <1>8, <2>1, <2>3
  <1>13. CASE Fire(w)
    <2>1. taskCntNew' = taskCntNew /\ workIdx' = workIdx /\ grab' = grab /\ pc[w] = "fire"
      BY <1>13 DEF Fire, queue
    <2>2. CASE pc'[w] = "resolve" /\ wo' = wo
      <3>2. a = c /\ b = d0
        BY <1>0, <2>1, <2>2
      <3>1. Owe(w)' = Owe(w)
        BY <1>16, <2>1, <2>2, <3>2 DEF Due
      <3> QED
        BY <1>5, <1>8, <2>1, <3>1
    <2>3. CASE pc'[w] \in {"flush", "grab", "take"} /\ c <= a + 2
      <3>3. b = d0
        BY <1>0, <2>1
      <3>4. Owe(w)' = c + 2 * d0
        BY <1>16, <2>3 DEF Due
      <3>5. Owe(w) = a + 2 * b + 2
        BY <1>16, <2>1 DEF Due
      <3>1. Owe(w)' = c + 2 * d0 /\ Owe(w) = a + 2 * b + 2 /\ b = d0
        BY <3>3, <3>4, <3>5
      <3>2. Owe(w)' <= Owe(w)
        BY <2>3, <3>1
      <3> QED
        BY <1>8, <2>1, <3>2
    <2>4. Fired(CellAt(res[w].ret)) \in TaskSet
      <3>1. res[w].ret \in Places /\ res[w].ret # Root
        BY <1>1, <2>1 DEF Private, TypeOK
      <3> QED
        BY <1>1, <3>1, FiredIs
    <2> QED
      BY <1>1, <1>9, <1>10, <1>13, <2>2, <2>3, <2>4, DealtIs DEF Fire, Goto
  <1>14. CASE Flush(w)
    <2>1. /\ grab' = grab /\ wo' = wo /\ pc[w] \in {"flush", "drain"} /\ workIdx' = workIdx
          /\ taskCntNew' = taskCntNew + Len(wo[w])
          /\ pc'[w] = IF wo[w] = <<>> THEN "end" ELSE IF pc[w] = "drain" THEN "copyLast" ELSE "copy"
      BY <1>1, <1>14 DEF Flush, Goto
    <2>2. Left' = Left
      BY <1>4, <2>1 DEF Left
    <2>3. a = c /\ b = d0 /\ taskCntNew' = taskCntNew + a /\ (wo[w] = <<>> => a = 0)
      BY <1>0, <1>3, <2>1
    <2>4. Owe(w) = a + 2 * b /\ Owe(w)' = 2 * b
      <3>1. CASE wo[w] = <<>>
        BY <1>16, <2>1, <2>3, <3>1 DEF Due
      <3>2. CASE wo[w] # <<>>
        BY <1>16, <2>1, <2>3, <3>2 DEF Due
      <3> QED
        BY <3>1, <3>2
    <2> QED
      BY <1>1, <1>4, <2>2, <2>3, <2>4
  <1>15. CASE Copy(w)
    <2>1. /\ grab' = grab /\ wo'[w] = <<>> /\ pc[w] \in {"copy", "copyLast"} /\ workIdx' = workIdx
          /\ taskCntNew' = taskCntNew /\ pc'[w] \in {"end", "grab", "take"}
      BY <1>1, <1>15 DEF Copy, Goto, NextTask
    <2>2. Owe(w)' = Owe(w)
      <3>1. c = 0 /\ b = d0
        BY <1>0, <1>3, <2>1
      <3> QED
        BY <1>16, <2>1, <3>1 DEF Due
    <2> QED
      BY <1>5, <1>8, <2>1, <2>2
  <1> QED
    BY <1>6, <1>7, <1>11, <1>12, <1>13, <1>14, <1>15 DEF InPhase

LEMMA IndicesPhase ==
  ASSUME Inv, ~serial, NEW w \in Worker, InPhase(w), NEW v \in Worker
  PROVE  Indices(v)'
  <1>1. /\ TypeOK /\ Private(w) /\ Indices(v) /\ Indices(w)
        /\ pc \in [Worker -> RoundPc \cup BarrierPc \cup {"check", "next", "compact", "again", "quit"}]
        /\ grab \in [Worker -> Seq(Nat)] /\ round \in [Worker -> [iter : Nat, cnt : Nat, dst : Nat]]
        /\ taskCnt \in Nat /\ taskCntNew \in Nat /\ workIdx \in Nat
        /\ wo \in [Worker -> Seq(TaskSet)]
    BY DEF Inv, Numbers, TypeOK
  <1>2. taskCnt' = taskCnt /\ serial' = serial /\ st' = st
    BY PhaseIs
  <1>3. workIdx' \in Nat /\ workIdx' >= workIdx
    <2>1. CASE Grab(w)
      BY <1>1, <2>1, GrabIs
    <2>2. CASE workIdx' = workIdx
      BY <1>1, <2>2
    <2> QED
      BY <2>1, <2>2 DEF InPhase, TakeSeed, TakeWork, Descend,
           DescendEnd, ResolveRoot, Finish, WriteSlot, Count, Fire, Flush, Copy, queue
  <1>4. PICK k \in Nat : k = Len(wo[w])
    BY <1>1, LenProperties
  <1>5. taskCntNew' \in Nat /\ taskCntNew' >= taskCntNew
    <2>1. CASE Flush(w)
      BY <1>1, <1>4, <2>1 DEF Flush
    <2>2. CASE taskCntNew' = taskCntNew
      BY <1>1, <2>2
    <2> QED
      BY <2>1, <2>2 DEF InPhase, Grab, TakeSeed, TakeWork, Descend,
           DescendEnd, ResolveRoot, Finish, WriteSlot, Count, Fire, Copy, queue
  <1>6. CASE v # w
    <2>1. pc'[v] = pc[v] /\ grab'[v] = grab[v] /\ wo'[v] = wo[v] /\ round'[v] = round[v]
      BY <1>6, OthersPrivate DEF Step, InPhase
    <2>2. PICK n \in Nat : n = Len(wo[v])
      BY <1>1, LenProperties
    <2>3. round[v].dst \in Nat
      BY <1>1
    <2>4. grab[v] # <<>> => Head(grab[v]) \in Nat
      BY <1>1, HeadTailProperties
    <2>5. grab[v] # <<>> => Head(grab[v]) < taskCnt /\ Head(grab[v]) < workIdx'
      <3>1. \A x, y, z \in Nat : x < y /\ z >= y => x < z
        OBVIOUS
      <3>2. grab[v] # <<>> => Head(grab[v]) < taskCnt /\ Head(grab[v]) < workIdx
        BY <1>1 DEF Indices
      <3> QED
        BY <1>1, <1>3, <2>4, <3>1, <3>2
    <2>6. pc[v] \in {"copy", "copyLast"} => round[v].dst + Len(wo[v]) <= taskCntNew'
      <3>1. \A x, y, z \in Nat : x <= y /\ z >= y => x <= z
        OBVIOUS
      <3>2. round[v].dst + n \in Nat
        BY <2>2, <2>3
      <3>3. pc[v] \in {"copy", "copyLast"} => round[v].dst + n <= taskCntNew
        BY <1>1, <2>2 DEF Indices
      <3>4. pc[v] \in {"copy", "copyLast"} => round[v].dst + n <= taskCntNew'
        BY <1>1, <1>5, <3>1, <3>2, <3>3
      <3> QED
        BY <2>2, <3>4
    <2>7. pc[v] \in {"drain", "copyLast", "end"} /\ st[v] # "free" => workIdx' >= taskCnt
      <3>1. pc[v] \in {"drain", "copyLast", "end"} /\ st[v] # "free" => workIdx >= taskCnt
        BY <1>1 DEF Indices
      <3> QED
        BY <1>1, <1>3, <3>1
    <2> QED
      BY <1>2, <2>1, <2>5, <2>6, <2>7 DEF Indices
  <1>7. CASE v = w
    <2>1. CASE Grab(w)
      <3>1. grab[w] = <<>>
        BY <1>1, <2>1 DEF Grab, Private
      <3>2. \/ pc'[w] = "drain" /\ grab'[w] = <<>> /\ workIdx >= taskCnt
            \/ pc'[w] = "take" /\ grab'[w] = <<workIdx>> /\ workIdx < taskCnt
        BY <1>1, <2>1, <3>1, GrabIs
      <3>3. workIdx' = workIdx + 1 /\ Head(<<workIdx>>) = workIdx
        BY <2>1, GrabIs
      <3>4. workIdx < workIdx' /\ (workIdx >= taskCnt => workIdx' >= taskCnt)
        BY <1>1, <3>3
      <3> QED
        BY <1>2, <1>7, <3>2, <3>3, <3>4 DEF Indices
    <2>2. ASSUME grab' = grab \/ grab'[w] = <<>>, workIdx' = workIdx,
                 pc'[w] \notin {"drain", "copy", "copyLast", "end"}
          PROVE  Indices(w)'
      BY <1>1, <1>2, <2>2 DEF Indices
    <2>3. \A out, left : Dealt(w, out, left) => pc'[w] \in {"descend", "flush", "grab", "take"}
      BY <1>1, DealtIs
    <2>4. CASE TakeSeed(w) \/ TakeWork(w)
      <3>1. pc[w] = "take" /\ workIdx' = workIdx /\ grab'[w] = Tail(grab[w])
        BY <1>1, <2>4 DEF TakeSeed, TakeWork, queue
      <3>2. pc'[w] \in {"resolve", "descend", "flush", "grab", "take"}
        BY <1>1, <2>3, <2>4 DEF TakeSeed, TakeWork, Goto
      <3>3. Tail(grab[w]) = <<>>
        <4>1. grab[w] # <<>> /\ Len(grab[w]) <= 1
          BY <1>1, <3>1 DEF Private
        <4>2. PICK n \in Nat : n = Len(grab[w]) /\ n # 0 /\ n <= 1
          BY <1>1, <4>1, LenProperties, EmptySeq
        <4>3. Len(Tail(grab[w])) = n - 1 /\ Tail(grab[w]) \in Seq(Nat)
          BY <1>1, <4>1, <4>2, HeadTailProperties
        <4>4. n - 1 = 0
          <5>1. \A m \in Nat : m # 0 /\ m <= 1 => m - 1 = 0
            OBVIOUS
          <5> QED
            BY ONLY <4>2, <5>1, Zenon
        <4>5. Len(Tail(grab[w])) = 0
          BY ONLY <4>3, <4>4, Zenon
        <4> QED
          BY <4>3, <4>5, EmptySeq
      <3> QED
        BY <1>7, <2>2, <3>1, <3>2, <3>3
    <2>5. CASE Descend(w) \/ DescendEnd(w) \/ ResolveRoot(w) \/ WriteSlot(w)
      <3>1. grab' = grab /\ workIdx' = workIdx
        BY <2>5 DEF Descend, DescendEnd, ResolveRoot, WriteSlot, queue
      <3>2. pc'[w] \in {"descend", "resolve", "grab", "take", "finish", "count"}
        BY <1>1, <2>5 DEF Descend, DescendEnd, ResolveRoot, WriteSlot, NextTask, Goto
      <3> QED
        BY <1>7, <2>2, <3>1, <3>2
    <2>6. CASE Finish(w) \/ Count(w) \/ Fire(w)
      <3>1. grab' = grab /\ workIdx' = workIdx
        BY <2>6 DEF Finish, Count, Fire, queue
      <3>2. pc'[w] \in {"resolve", "fire", "descend", "flush", "grab", "take"}
        BY <1>1, <2>3, <2>6, DealtIs DEF Finish, Count, Fire, Goto
      <3> QED
        BY <1>7, <2>2, <3>1, <3>2
    <2>7. CASE Flush(w)
      <3>1. /\ grab' = grab /\ wo' = wo /\ workIdx' = workIdx /\ pc[w] \in {"flush", "drain"}
            /\ taskCntNew' = taskCntNew + k /\ round'[w].dst = taskCntNew
            /\ pc'[w] = IF wo[w] = <<>> THEN "end" ELSE IF pc[w] = "drain" THEN "copyLast" ELSE "copy"
        BY <1>1, <1>4, <2>7 DEF Flush, Goto
      <3>2. round'[w].dst + Len(wo'[w]) <= taskCntNew'
        <4>1. taskCntNew + k <= taskCntNew'
          BY <1>1, <3>1
        <4> QED
          BY <1>4, <3>1, <4>1
      <3>3. pc'[w] \in {"copyLast", "end"} => pc[w] = "drain"
        BY <1>1, <3>1 DEF Private
      <3>4. st[w] = "out"
        BY PhaseIs
      <3> QED
        BY <1>1, <1>2, <1>7, <3>1, <3>2, <3>3, <3>4 DEF Indices
    <2>8. CASE Copy(w)
      <3>1. /\ grab' = grab /\ workIdx' = workIdx /\ pc[w] \in {"copy", "copyLast"}
            /\ pc'[w] \in {"end", "grab", "take"} /\ (pc'[w] = "end" => pc[w] = "copyLast")
        BY <1>1, <2>8 DEF Copy, NextTask, Goto
      <3> QED
        BY <1>1, <1>2, <1>7, <3>1 DEF Indices
    <2> QED
      BY <2>1, <2>4, <2>5, <2>6, <2>7, <2>8 DEF InPhase
  <1> QED
    BY <1>6, <1>7

LEMMA NumbersPhase ==
  ASSUME Inv, ~serial, NEW w \in Worker, InPhase(w)
  PROVE  Numbers'
  <1>1. /\ TypeOK /\ TypeOK' /\ taskCnt <= 4 * Threads - 2 /\ 0 \in Worker
        /\ taskCnt \in Nat /\ taskCntNew \in Nat /\ workIdx \in Nat
        /\ Leaves /\ \A v \in Worker : Known(v)
    BY WorkerIs, TypeStep DEF Inv, Numbers, TypeOK, Step, InPhase
  <1>2. /\ taskCnt' = taskCnt /\ serial' = serial /\ st' = st /\ mode' = mode
        /\ Stage(w) = "work" /\ Stage(w)' = "work"
    BY PhaseIs
  <1>3. ASSUME NEW v \in Worker
        PROVE  Stage(v) = "work" /\ Stage(v)' = "work" /\ round'[v].cnt = round[v].cnt
    <2>1. Stage(v) = "work"
      BY <1>2, AllWork
    <2>2. CASE v = w
      <3>1. round \in [Worker -> [iter : Nat, cnt : Nat, dst : Nat]]
        BY <1>1 DEF TypeOK
      <3>2. CASE round' = round
        BY <1>2, <2>1, <2>2, <3>2
      <3>3. ASSUME NEW i \in Nat, round' = [round EXCEPT ![w].dst = i]
            PROVE  round'[v].cnt = round[v].cnt
        BY <3>1, <3>3
      <3> QED
        BY <1>2, <2>1, <2>2, <3>2, <3>3, PhaseIs
    <2>3. CASE v # w
      <3>1. pc'[v] = pc[v] /\ round'[v] = round[v]
        BY <2>3, OthersPrivate DEF Step, InPhase
      <3>2. Stage(v)' = Stage(v)
        BY <1>2, <3>1 DEF Stage
      <3> QED
        BY <2>1, <3>1, <3>2
    <2> QED
      BY <2>2, <2>3
  <1>4. \A v \in Worker : Known(v)'
    BY <1>1, <1>2, <1>3 DEF Known
  <1>5. \A v \in Worker : Indices(v)'
    BY IndicesPhase
  <1>6. mode[0] = mode[w] /\ mode[w] \in {"seed", "work"} /\ Private(w)
    <2>1. Fits(0, w) /\ Private(w)
      BY <1>1 DEF Inv, Together
    <2>2. Stage(0) = "work" /\ Stage(w) = "work"
      BY <1>1, <1>3
    <2>3. mode[0] = mode[w]
      BY ONLY <2>1, <2>2 DEF Fits
    <2> QED
      BY <2>1, <2>3 DEF Private
  <1>7. CASE mode[0] = "work"
    <2>1. taskCntNew = 0 /\ wo[w] = <<>>
      BY <1>1, <1>3, <1>6, <1>7 DEF Leaves, Private
    <2>2. taskCntNew' = 0
      <3>1. CASE Flush(w)
        <4>1. Len(<<>>) = 0
          OBVIOUS
        <4> QED
          BY <2>1, <3>1, <4>1 DEF Flush
      <3>2. CASE taskCntNew' = taskCntNew
        BY <2>1, <3>2
      <3> QED
        BY <3>1, <3>2 DEF InPhase, Grab, TakeSeed, TakeWork, Descend,
             DescendEnd, ResolveRoot, Finish, WriteSlot, Count, Fire, Copy, queue
    <2>3. Leaves'
      BY <1>1, <1>2, <1>3, <1>7, <2>2 DEF Leaves
    <2> QED
      BY <1>1, <1>2, <1>4, <1>5, <2>3 DEF Numbers
  <1>8. CASE mode[0] = "seed"
    <2>1. SumFunction(Owes) + taskCntNew + 2 * Left <= 2 * taskCnt
      BY <1>1, <1>3, <1>8 DEF Leaves
    <2>2. Owe(w)' + taskCntNew' + 2 * Left' <= Owe(w) + taskCntNew + 2 * Left
      BY <1>6, <1>8, OweStep
    <2>3. \A v \in Worker \ {w} : Owe(v)' = Owe(v)
      <3> TAKE v \in Worker \ {w}
      <3>1. pc'[v] = pc[v] /\ grab'[v] = grab[v] /\ wo'[v] = wo[v]
        BY OthersPrivate DEF Step, InPhase
      <3> QED
        BY <3>1 DEF Owe
    <2>4. SumFunction(Owes') = SumFunction(Owes) + Owe(w)' - Owe(w) /\ SumFunction(Owes) \in Int
      BY <1>1, <2>3, OweUpdate
    <2>5. Owe(w) \in Nat /\ Owe(w)' \in Nat /\ Left \in Nat /\ Left' \in Nat /\ taskCntNew' \in Nat
      <3>1. taskCntNew' \in Nat /\ workIdx' \in Nat /\ taskCnt' \in Nat
        BY <1>1 DEF TypeOK
      <3>2. \A x, y \in Nat : (IF x < y THEN y - x ELSE 0) \in Nat
        OBVIOUS
      <3>3. Left \in Nat
        BY <1>1, <3>2 DEF Left
      <3>4. Left' \in Nat
        BY <3>1, <3>2 DEF Left
      <3>5. Owe(w) \in Nat /\ Owe(w)' \in Nat
        BY <1>1, OweType
      <3> QED
        BY <3>1, <3>3, <3>4, <3>5
    <2>6. SumFunction(Owes') + taskCntNew' + 2 * Left' <= 2 * taskCnt
      <3> DEFINE s == SumFunction(Owes)
                 t == SumFunction(Owes')
                 a == Owe(w)
                 b == Owe(w)'
                 l == Left
                 m == Left'
                 c == taskCnt
                 p == taskCntNew
                 q == taskCntNew'
      <3>1. /\ s \in Int /\ a \in Nat /\ b \in Nat /\ l \in Nat /\ m \in Nat
            /\ c \in Nat /\ p \in Nat /\ q \in Nat
            /\ t = s + b - a /\ s + p + 2 * l <= 2 * c /\ b + q + 2 * m <= a + p + 2 * l
        BY <1>1, <2>1, <2>2, <2>4, <2>5
      <3> HIDE DEF s, t, a, b, l, m, c, p, q
      <3>2. t + q + 2 * m <= 2 * c
        BY <3>1
      <3> QED
        BY <3>2 DEF t, m, c, q
    <2>7. Leaves'
      BY <1>1, <1>2, <1>3, <1>8, <2>6 DEF Leaves
    <2> QED
      BY <1>1, <1>2, <1>4, <1>5, <2>7 DEF Numbers
  <1> QED
    BY <1>6, <1>7, <1>8

LEMMA NumbersStep ==
  ASSUME Inv, NEW w \in Worker, Step(w)
  PROVE  Numbers'
  BY NumbersAlone, NumbersArrive, NumbersOuter, NumbersPhase DEF Step, InPhase

-----------------------------------------------------------------------------
(* The queue *)

LEMMA GrowStep ==
  ASSUME Inv, NEW w \in Worker, Step(w)
  PROVE  Grows
  <1>1. TypeOK /\ program' = program
    BY DEF Inv, Step, Arrive, Pass, Check, NextRound, Compact, Again, Grab, TakeSeed, TakeWork,
           Descend, DescendEnd, ResolveRoot, Finish, WriteSlot, Count, Fire, Flush, Copy
  <1>2. CASE Plain(w)
    <2>1. cells' = cells
      BY <1>2 DEF Plain, Arrive, Pass, Check, NextRound, Compact, Again, Grab, TakeWork,
           DescendEnd, ResolveRoot, Finish, Flush, Copy
    <2> QED
      BY <1>1, <2>1 DEF Grows
  <1>3. CASE TakeSeed(w)
    <2>1. buf[Head(grab[w])] \in TaskSet
      BY <1>3, TakenIs DEF TakeSeed, Inv, Private
    <2>2. cells' = [cells EXCEPT ![w] = Dispatch(w, buf[Head(grab[w])]).cells]
      BY <1>3 DEF TakeSeed
    <2> QED
      BY <1>1, <2>1, <2>2, DispatchTypes
  <1>4. CASE Descend(w)
    <2>1. Last(stack[w]) \in TaskSet
      BY <1>1, <1>4, TopIs DEF Descend
    <2>2. cells' = [cells EXCEPT ![w] = Dispatch(w, Last(stack[w])).cells]
      BY <1>4 DEF Descend
    <2> QED
      BY <1>1, <2>1, <2>2, DispatchTypes
  <1>5. CASE Fire(w)
    <2>1. res[w].ret \in Places /\ res[w].ret # Root
      BY <1>1, <1>5 DEF TypeOK, Fire, Inv, Private
    <2>2. Fired(CellAt(res[w].ret)) \in TaskSet
      BY <1>1, <2>1, FiredIs
    <2>3. cells' = [cells EXCEPT ![w] = Dispatch(w, Fired(CellAt(res[w].ret))).cells]
      BY <1>5 DEF Fire
    <2> QED
      BY <1>1, <2>2, <2>3, DispatchTypes
  <1> QED
    BY <1>2, <1>3, <1>4, <1>5, SlotTypes DEF Step, Plain

\* What the queue holds in a round fits into it.
LEMMA QueueRoom ==
  ASSUME Inv, ~serial, Stage(0) = "work"
  PROVE  taskCnt + taskCntNew <= QueueCap /\ QueueCap \in Nat
  <1>1. /\ 0 \in Worker /\ taskCnt \in Nat /\ taskCntNew \in Nat /\ workIdx \in Nat
        /\ Threads \in Nat \ {0, 1} /\ QueueCap \in Nat /\ QueueCap >= 6 * Threads - 3
        /\ taskCnt <= 4 * Threads - 2 /\ Leaves /\ Known(0) /\ IsFiniteSet(Worker)
        /\ TypeOK /\ mode[0] \in {"seed", "work"}
    BY WorkerIs, CapAssumption, QueueAssumption DEF Inv, TypeOK, Numbers, Private
  <1>2. CASE mode[0] = "work"
    <2>1. taskCntNew = 0
      BY <1>1, <1>2 DEF Leaves
    <2> QED
      BY <1>1, <2>1
  <1>3. CASE mode[0] # "work"
    <2>1. SumFunction(Owes) \in Nat
      BY <1>1, OweType, SumNat
    <2>2. Left \in Nat
      <3>1. \A x, y \in Nat : (IF x < y THEN y - x ELSE 0) \in Nat
        OBVIOUS
      <3> QED
        BY <1>1, <3>1 DEF Left
    <2>3. SumFunction(Owes) + taskCntNew + 2 * Left <= 2 * taskCnt
      BY <1>1, <1>3 DEF Leaves
    <2>4. \A s, l, c, n \in Nat : s + n + 2 * l <= 2 * c => n <= 2 * c
      OBVIOUS
    <2>5. taskCntNew <= 2 * taskCnt
      BY ONLY <1>1, <2>1, <2>2, <2>3, <2>4, Zenon
    <2>6. CASE mode[0] = "seed"
      <3>1. taskCnt < 2 * Threads
        BY <1>1, <2>6 DEF Known
      <3> QED
        BY <1>1, <2>5, <3>1
    <2> QED
      BY <1>1, <1>3, <2>6
  <1> QED
    BY <1>2, <1>3

\* A step that touches neither the queue nor a flush on its way.
LEMMA QueueKept ==
  ASSUME Inv, Grows, buf' = buf, taskCnt' = taskCnt, taskCntNew' = taskCntNew, Between => Between',
         \A v \in Worker : pc[v] \in {"copy", "copyLast"} =>
           pc'[v] = pc[v] /\ round'[v] = round[v] /\ wo'[v] = wo[v]
  PROVE  Queue'
  <1>1. TaskSet \subseteq TaskSet'
    BY Grown
  <1>2. \A v \in Worker : \A i : i \in Unflushed(v) => i \in Unflushed(v)'
    BY DEF Unflushed
  <1>3. \A i \in 0 .. taskCnt' - 1 : buf'[i] \in TaskSet'
    BY <1>1 DEF Inv, Queue
  <1>4. ASSUME ~Between', NEW i \in taskCnt' .. taskCnt' + taskCntNew' - 1
        PROVE  buf'[i] \in TaskSet' \/ \E v \in Worker : i \in Unflushed(v)'
    <2>1. buf[i] \in TaskSet \/ \E v \in Worker : i \in Unflushed(v)
      BY <1>4 DEF Inv, Queue
    <2> QED
      BY <1>1, <1>2, <2>1
  <1> QED
    BY <1>3, <1>4 DEF Queue

LEMMA QueueFlush ==
  ASSUME Inv, ~serial, NEW w \in Worker, Flush(w)
  PROVE  Queue'
  <1>1. /\ TypeOK /\ Private(w) /\ Grows /\ TaskSet \subseteq TaskSet' /\ Step(w) /\ InPhase(w)
        /\ buf' = buf /\ taskCnt' = taskCnt /\ wo' = wo
    BY GrowStep, Grown DEF Inv, Step, InPhase, Flush
  <1>2. PICK k \in Nat : k = Len(wo[w])
    BY <1>1, LenProperties DEF TypeOK
  <1>3. /\ taskCntNew' = taskCntNew + k /\ pc[w] \in {"flush", "drain"}
        /\ taskCnt \in Nat /\ taskCntNew \in Nat
    BY <1>1, <1>2 DEF Flush, TypeOK
  <1>4. round'[w].dst = taskCntNew /\ round'[w].cnt = taskCnt
    <2>1. round \in [Worker -> [iter : Nat, cnt : Nat, dst : Nat]]
      BY <1>1 DEF TypeOK
    <2>2. round[w].cnt = taskCnt
      BY <1>1, PhaseIs DEF Inv, Numbers, Known
    <2> QED
      BY <2>1, <2>2 DEF Flush
  <1>5. \A v \in Worker : \A i : i \in Unflushed(v) => i \in Unflushed(v)'
    <2> TAKE v \in Worker
    <2>1. CASE v = w
      BY <1>3, <2>1 DEF Unflushed
    <2>2. CASE v # w
      BY <1>1, <2>2, OthersPrivate DEF Unflushed
    <2> QED
      BY <2>1, <2>2
  <1>6. \A i \in 0 .. taskCnt' - 1 : buf'[i] \in TaskSet'
    BY <1>1 DEF Inv, Queue
  <1>7. ~Between
    <2>1. 0 \in Worker /\ Stage(w) = "work"
      BY <1>1, WorkerIs, PhaseIs
    <2>2. Stage(0) = "work"
      BY <2>1, AllWork
    <2> QED
      BY <2>2 DEF Stage, Passed, Own, RoundPc, Between
  <1>8. ASSUME NEW i \in taskCnt' .. taskCnt' + taskCntNew' - 1
        PROVE  buf'[i] \in TaskSet' \/ \E v \in Worker : i \in Unflushed(v)'
    <2>1. CASE i < taskCnt + taskCntNew
      <3>1. i \in taskCnt .. taskCnt + taskCntNew - 1
        BY <1>1, <1>3, <2>1
      <3>2. buf[i] \in TaskSet \/ \E v \in Worker : i \in Unflushed(v)
        BY <1>7, <3>1 DEF Inv, Queue
      <3> QED
        BY <1>1, <1>5, <3>2
    <2>2. CASE i >= taskCnt + taskCntNew
      <3>1. i \in taskCnt + taskCntNew .. taskCnt + taskCntNew + k - 1 /\ k # 0
        BY <1>1, <1>3, <2>2
      <3>2. pc'[w] \in {"copy", "copyLast"}
        <4>1. wo[w] # <<>>
          BY <1>2, <3>1, EmptySeq
        <4> QED
          BY <1>1, <4>1 DEF Flush, Goto, TypeOK
      <3>3. i \in Unflushed(w)'
        BY <1>1, <1>2, <1>4, <3>1, <3>2 DEF Unflushed
      <3> QED
        BY <3>3
    <2> QED
      BY <1>1, <1>3, <2>1, <2>2
  <1> QED
    BY <1>6, <1>8 DEF Queue

LEMMA QueueCopy ==
  ASSUME Inv, ~serial, NEW w \in Worker, Copy(w)
  PROVE  Queue'
  <1>1. /\ TypeOK /\ Private(w) /\ Grows /\ TaskSet \subseteq TaskSet' /\ Step(w) /\ InPhase(w)
        /\ taskCnt' = taskCnt /\ taskCntNew' = taskCntNew
        /\ round \in [Worker -> [iter : Nat, cnt : Nat, dst : Nat]]
    BY GrowStep, Grown DEF Inv, Step, InPhase, Copy, TypeOK
  <1>2. PICK k \in Nat : k = Len(wo[w])
    BY <1>1, LenProperties DEF TypeOK
  <1>3. PICK d \in Nat : d = round[w].dst
    BY <1>1
  <1>4. /\ round[w].cnt = taskCnt /\ taskCnt \in Nat /\ taskCntNew \in Nat
        /\ pc[w] \in {"copy", "copyLast"} /\ d + k <= taskCntNew /\ Stage(w) = "work"
    BY <1>1, <1>2, <1>3, PhaseIs DEF Inv, Numbers, Known, Indices, Copy, TypeOK
  <1>5. Stage(0) = "work" /\ ~Between
    <2>1. 0 \in Worker
      BY WorkerIs
    <2>2. Stage(0) = "work"
      BY <1>4, <2>1, AllWork
    <2> QED
      BY <2>2 DEF Stage, Passed, Own, RoundPc, Between
  <1>6. taskCnt + taskCntNew <= QueueCap /\ QueueCap \in Nat
    BY <1>5, QueueRoom
  <1> DEFINE at == taskCnt + d
  <1>7. /\ buf' = [i \in 0 .. QueueCap - 1 |->
                     IF i \in at .. at + k - 1 THEN wo[w][i - at + 1] ELSE buf[i]]
        /\ wo[w] \in Seq(TaskSet)
    BY <1>1, <1>2, <1>3, <1>4 DEF Copy, TypeOK
  <1>8. \A i \in at .. at + k - 1 : wo[w][i - at + 1] \in TaskSet
    <2> TAKE i \in at .. at + k - 1
    <2>1. i - at + 1 \in 1 .. k
      BY <1>3, <1>4
    <2> QED
      BY <1>2, <1>7, <2>1, ElementOfSeq
  <1>9. Unflushed(w) = at .. at + k - 1
    BY <1>2, <1>3, <1>4 DEF Unflushed
  <1>10. \A v \in Worker : v # w => Unflushed(v)' = Unflushed(v)
    BY <1>1, OthersPrivate DEF Unflushed
  <1>11. ASSUME NEW i \in 0 .. taskCnt' - 1
         PROVE  buf'[i] \in TaskSet'
    <2>1. i \in 0 .. QueueCap - 1 /\ i \notin at .. at + k - 1 /\ i \in 0 .. taskCnt - 1
      BY <1>1, <1>4, <1>6
    <2>2. buf'[i] = buf[i] /\ buf[i] \in TaskSet
      BY <1>7, <2>1 DEF Inv, Queue
    <2> QED
      BY <1>1, <2>2
  <1>12. ASSUME NEW i \in taskCnt' .. taskCnt' + taskCntNew' - 1
         PROVE  buf'[i] \in TaskSet' \/ \E v \in Worker : i \in Unflushed(v)'
    <2>1. i \in 0 .. QueueCap - 1 /\ i \in taskCnt .. taskCnt + taskCntNew - 1
      BY <1>1, <1>4, <1>6
    <2>2. CASE i \in at .. at + k - 1
      BY <1>1, <1>7, <1>8, <2>1, <2>2
    <2>3. CASE i \notin at .. at + k - 1
      <3>1. buf'[i] = buf[i]
        BY <1>7, <2>1, <2>3
      <3>2. buf[i] \in TaskSet \/ \E v \in Worker : i \in Unflushed(v)
        BY <1>5, <2>1 DEF Inv, Queue
      <3> QED
        BY <1>1, <1>9, <1>10, <2>3, <3>1, <3>2
    <2> QED
      BY <2>2, <2>3
  <1> QED
    BY <1>11, <1>12 DEF Queue

LEMMA QueueOuter ==
  ASSUME Inv, ~serial, (Compact(0) \/ NextRound(0))
  PROVE  Queue'
  <1>1. /\ TypeOK /\ 0 \in Worker /\ Private(0) /\ cells' = cells /\ program' = program
        /\ taskCnt \in Nat /\ taskCntNew \in Nat
        /\ pc \in [Worker -> RoundPc \cup BarrierPc \cup {"check", "next", "compact", "again", "quit"}]
    BY WorkerIs DEF Inv, TypeOK, Compact, NextRound
  <1>2. TaskSet' = TaskSet
    BY <1>1, SameSets
  <1>3. CASE NextRound(0)
    <2>1. buf' = buf /\ taskCnt' = taskCnt /\ taskCntNew' = 0
      BY <1>3 DEF NextRound
    <2>2. taskCnt' .. taskCnt' + taskCntNew' - 1 = {}
      BY <1>1, <2>1
    <2> QED
      BY <1>2, <2>1, <2>2 DEF Inv, Queue
  <1>4. CASE Compact(0)
    <2>1. /\ pc[0] = "compact" /\ pc'[0] = "after" /\ taskCnt' = taskCntNew
          /\ buf' = [i \in 0 .. QueueCap - 1 |->
                       IF i < taskCntNew THEN buf[round[0].cnt + i] ELSE buf[i]]
      BY <1>1, <1>4 DEF Compact, Goto
    <2>2. Between' /\ ~Between
      BY <2>1 DEF Between
    <2>3. Stage(0) = "close"
      BY <1>1, <2>1, StageAt DEF Own, AtBarrier, RoundPc
    <2>4. round[0].cnt = taskCnt /\ taskCnt + taskCntNew <= 6 * Threads - 3
      BY <2>1, <2>3 DEF Inv, Numbers, Leaves
    <2>5. Threads \in Nat /\ QueueCap \in Nat /\ QueueCap >= 6 * Threads - 3
      BY WorkerIs, CapAssumption, QueueAssumption
    <2>6. \A v \in Worker : Unflushed(v) = {}
      <3> TAKE v \in Worker
      <3>1. Stage(v) = "close"
        BY <1>1, <2>3, AllWork
      <3>2. pc[v] \notin {"copy", "copyLast"}
        BY <3>1 DEF Stage, Own, Passed, RoundPc
      <3> QED
        BY <3>2 DEF Unflushed
    <2>7. ASSUME NEW i \in 0 .. taskCnt' - 1
          PROVE  buf'[i] \in TaskSet'
      <3>1. /\ i < taskCntNew /\ i \in 0 .. QueueCap - 1
            /\ taskCnt + i \in taskCnt .. taskCnt + taskCntNew - 1
        BY <1>1, <2>1, <2>4, <2>5
      <3>2. buf'[i] = buf[taskCnt + i]
        BY <2>1, <2>4, <3>1
      <3>3. buf[taskCnt + i] \in TaskSet
        BY <2>2, <2>6, <3>1 DEF Inv, Queue
      <3> QED
        BY <1>2, <3>2, <3>3
    <2> QED
      BY <2>2, <2>7 DEF Queue
  <1> QED
    BY <1>3, <1>4

LEMMA QueueStep ==
  ASSUME Inv, NEW w \in Worker, Step(w)
  PROVE  Queue'
  <1>1. TypeOK /\ Grows /\ serial' = serial /\ 0 \in Worker
        /\ pc \in [Worker -> RoundPc \cup BarrierPc \cup {"check", "next", "compact", "again", "quit"}]
    BY GrowStep, OthersPrivate, WorkerIs
       DEF Inv, TypeOK, Step, Arrive, Pass, Check, NextRound, Compact, Again, Grab, TakeSeed, TakeWork,
           Descend, DescendEnd, ResolveRoot, Finish, WriteSlot, Count, Fire, Flush, Copy
  <1>2. CASE serial
    <2>1. Alone'
      BY AloneStep
    <2>2. taskCnt' = 0 /\ taskCntNew' = 0
      BY <1>1, <1>2, <2>1 DEF Alone
    <2>3. 0 .. taskCnt' - 1 = {} /\ taskCnt' .. taskCnt' + taskCntNew' - 1 = {}
      BY <2>2
    <2> QED
      BY <2>3 DEF Queue
  <1>3. CASE ~serial /\ (Flush(w) \/ Copy(w))
    BY <1>3, QueueFlush, QueueCopy
  <1>4. CASE ~serial /\ w = 0 /\ (Compact(w) \/ NextRound(w))
    BY <1>4, QueueOuter
  <1>5. CASE ~serial /\ ~Flush(w) /\ ~Copy(w) /\ ~(w = 0 /\ (Compact(w) \/ NextRound(w)))
    <2>1. buf' = buf /\ taskCnt' = taskCnt /\ taskCntNew' = taskCntNew
      BY <1>5 DEF Step, Arrive, Pass, Check, NextRound, Compact, Again, Grab, TakeSeed, TakeWork,
           Descend, DescendEnd, ResolveRoot, Finish, WriteSlot, Count, Fire, queue
    <2>2. pc[w] \notin {"copy", "copyLast"}
      <3>1. CASE Pass(w)
        BY <3>1 DEF Pass, B!Leave, Inv, Private, AtBarrier
      <3> QED
        BY <1>5, <3>1 DEF Step, Arrive, AtBarrier, Check, NextRound, Compact, Again, Grab, TakeSeed, TakeWork,
           Descend, DescendEnd, ResolveRoot, Finish, WriteSlot, Count, Fire
    <2>3. \A v \in Worker : pc[v] \in {"copy", "copyLast"} =>
            pc'[v] = pc[v] /\ round'[v] = round[v] /\ wo'[v] = wo[v]
      BY <2>2, OthersPrivate
    <2>4. Between => Between'
      <3>1. CASE w # 0
        BY <1>1, <3>1, OthersPrivate DEF Between
      <3>2. CASE w = 0 /\ (Arrive(w) \/ Pass(w))
        <4>1. pc' = pc \/ (pc' = [pc EXCEPT ![0] = After(pc[0])] /\ AtBarrier(0))
          BY <3>2 DEF Arrive, Pass, Goto, B!Leave, Inv, Private
        <4> QED
          BY <1>1, <4>1 DEF Between, After, AtBarrier
      <3>3. CASE w = 0 /\ (Check(w) \/ Again(w))
        BY <1>1, <3>3 DEF Between, Check, Again, Goto
      <3>4. CASE InPhase(w) /\ w = 0
        <4>1. pc[0] \in RoundPc
          BY <1>5, <3>4, PhaseIs
        <4> QED
          BY <4>1 DEF Between, RoundPc
      <3> QED
        BY <1>5, <3>1, <3>2, <3>3, <3>4 DEF Step, InPhase
    <2> QED
      BY <1>1, <2>1, <2>3, <2>4, QueueKept
  <1> QED
    BY <1>2, <1>3, <1>4, <1>5

-----------------------------------------------------------------------------
(* The invariant *)

LEMMA InvInit == Init => Inv
  <1> SUFFICES ASSUME Init PROVE Inv
    OBVIOUS
  <1>1. /\ TypeOK /\ 0 \in Worker /\ Threads \in Nat \ {0, 1} /\ IsFiniteSet(Worker)
        /\ QueueCap \in Nat /\ QueueCap >= 6 * Threads - 3
    BY TypeInit, WorkerIs, CapAssumption, QueueAssumption
  <1>2. /\ \A w \in Worker : /\ st[w] = "out" /\ grab[w] = <<>> /\ wo[w] = <<>>
                             /\ mode[w] = IF serial THEN "serial" ELSE "seed"
                             /\ pc[w] = IF ~serial THEN "top"
                                        ELSE IF w = 0 THEN "descend" ELSE "quit"
                             /\ stack[w] = IF serial /\ w = 0 THEN <<RootTask>> ELSE <<>>
        /\ taskCnt = (IF serial THEN 0 ELSE 1) /\ taskCntNew = 0 /\ workIdx = 0
    BY DEF Init, B!Init
  <1>3. Alone
    BY <1>1, <1>2 DEF Alone, RunPc
  <1>4. ~serial => \A w \in Worker : Stage(w) = "top"
    BY <1>2 DEF Stage, Own, RoundPc
  <1>5. Together
    BY <1>2, <1>4 DEF Together, Fits
  <1>6. \A w \in Worker : Private(w)
    <2> TAKE w \in Worker
    <2>1. Len(<<>>) = 0
      OBVIOUS
    <2>2. CASE serial
      BY <1>2, <2>1, <2>2 DEF Private, RunPc, AtBarrier
    <2>3. CASE ~serial
      BY <1>2, <1>4, <2>1, <2>3 DEF Private, RunPc, AtBarrier
    <2> QED
      BY <2>2, <2>3
  <1>7. Numbers
    <2>1. taskCnt <= 4 * Threads - 2
      BY <1>1, <1>2
    <2>2. ~serial => Leaves /\ \A w \in Worker : Known(w)
      BY <1>1, <1>4 DEF Leaves, Known
    <2>3. \A w \in Worker : Indices(w)
      BY <1>2 DEF Indices
    <2> QED
      BY <2>1, <2>2, <2>3 DEF Numbers
  <1>8. Queue
    <2>1. ~serial => Between
      BY <1>1, <1>2 DEF Between
    <2>2. RootTask \in TaskSet
      <3>1. "main" \in Name
        BY ProgramAssumption DEF Init, Name
      <3>2. Root \in Places
        BY DEF Places
      <3>3. <<None, None>> \in [1 .. 2 -> Val]
        <4>1. None \in Val
          BY DEF None, Val
        <4> QED
          BY <4>1
      <3> QED
        BY <3>1, <3>2, <3>3 DEF RootTask, Task, TaskSet
    <2>3. CASE serial
      <3>1. 0 .. taskCnt - 1 = {} /\ taskCnt .. taskCnt + taskCntNew - 1 = {}
        BY <1>2, <2>3
      <3> QED
        BY <3>1 DEF Queue
    <2>4. CASE ~serial
      <3>1. buf[0] = RootTask
        BY <1>1 DEF Init
      <3>2. 0 .. taskCnt - 1 = {0}
        BY <1>2, <2>4
      <3> QED
        BY <2>1, <2>2, <2>4, <3>1, <3>2 DEF Queue
    <2> QED
      BY <2>3, <2>4
  <1> QED
    BY <1>1, <1>3, <1>5, <1>6, <1>7, <1>8 DEF Inv

LEMMA InvStutter ==
  ASSUME Inv, UNCHANGED vars
  PROVE  Inv'
  <1>1. /\ program' = program /\ serial' = serial /\ st' = st /\ pc' = pc /\ mode' = mode
        /\ round' = round /\ grab' = grab /\ stack' = stack /\ wo' = wo /\ res' = res
        /\ cells' = cells /\ buf' = buf /\ taskCnt' = taskCnt /\ taskCntNew' = taskCntNew
        /\ workIdx' = workIdx /\ result' = result /\ done' = done
    BY DEF vars, local, queue, answer
  <1>2. Places' = Places /\ Name' = Name /\ Val' = Val /\ TaskSet' = TaskSet /\ CellSet' = CellSet
    BY <1>1, SameSets
  <1>3. TypeOK' /\ Alone'
    BY <1>1, <1>2 DEF Inv, TypeOK, Alone
  <1>4. \A w \in Worker : Stage(w)' = Stage(w) /\ Owe(w)' = Owe(w) /\ Unflushed(w)' = Unflushed(w)
    BY <1>1 DEF Stage, Owe, Unflushed
  <1>5. Together' /\ \A w \in Worker : Private(w)'
    BY <1>1, <1>4 DEF Inv, Together, Fits, Private, AtBarrier
  <1>6. Numbers'
    <2>1. Owes' = Owes /\ Left' = Left
      BY <1>1, <1>4 DEF Owes, Left
    <2>2. Leaves => Leaves'
      BY <1>1, <1>4, <2>1, WorkerIs DEF Leaves
    <2>3. \A w \in Worker : Known(w) => Known(w)'
      BY <1>1, <1>4 DEF Known, Enough
    <2>4. \A w \in Worker : Indices(w) => Indices(w)'
      BY <1>1 DEF Indices
    <2> QED
      BY <1>1, <2>2, <2>3, <2>4 DEF Inv, Numbers
  <1>7. Queue'
    BY <1>1, <1>2, <1>4 DEF Inv, Queue, Between
  <1> QED
    BY <1>3, <1>5, <1>6, <1>7 DEF Inv

LEMMA InvStep ==
  ASSUME Inv, NEW w \in Worker, Step(w)
  PROVE  Inv'
  <1>1. TypeOK' /\ Alone' /\ Together' /\ Numbers' /\ Queue'
    BY TypeStep, AloneStep, TogetherStep, NumbersStep, QueueStep
  <1>2. \A v \in Worker : Private(v)'
    BY PrivateStep
  <1> QED
    BY <1>1, <1>2 DEF Inv

\* The invariant holds initially and every step keeps it.
THEOREM Invariance == Spec => []Inv
  <1>1. Inv /\ [Next]_vars => Inv'
    BY InvStep, InvStutter DEF Next, Joined
  <1> QED
    BY InvInit, <1>1, PTL DEF Spec

\* Tasks, cells and values always have the fields the code reads of them, the
\* places of tasks and cells are children of cells there are, and no index of
\* the queue is taken for a number of something else.
THEOREM TypeCorrect == Spec => []TypeOK
  <1>1. Inv => TypeOK
    BY DEF Inv
  <1> QED
    BY <1>1, Invariance, PTL

\* The barriers of aot_worker_main keep the workers in step: whoever runs
\* tasks is in the same round as all the others that do, and read the same
\* count of tasks at its head, whatever thread 0 writes between the rounds;
\* and no round leaves more than 4 * Threads - 2 tasks.
THEOREM RoundsTogether == Spec => []RoundsAgree
  <1>1. Inv => RoundsAgree
    <2> SUFFICES ASSUME Inv PROVE RoundsAgree
      OBVIOUS
    <2>1. taskCnt <= 4 * Threads - 2
      BY DEF Inv, Numbers
    <2>2. ASSUME ~serial, NEW v \in Worker, NEW w \in Worker, InRound(v), InRound(w)
          PROVE  mode[v] = mode[w] /\ round[v].cnt = round[w].cnt /\ round[v].iter = round[w].iter
      <3>1. \A u \in Worker : InRound(u) => Stage(u) = "work"
        <4> TAKE u \in Worker
        <4> HAVE InRound(u)
        <4>1. ~AtBarrier(u) /\ pc[u] \in RoundPc
          BY DEF InRound, AtBarrier, RoundPc
        <4>2. Stage(u) = Own(pc[u])
          BY <4>1, StageAt DEF Inv
        <4> QED
          BY <4>1, <4>2 DEF Own, RoundPc
      <3>2. Stage(v) = "work" /\ Stage(w) = "work" /\ Fits(v, w)
        BY <2>2, <3>1 DEF Inv, Together
      <3> QED
        BY <3>2 DEF Fits
    <2> QED
      BY <2>1, <2>2 DEF RoundsAgree
  <1> QED
    BY <1>1, Invariance, PTL
=============================================================================
