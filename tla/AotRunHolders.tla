--------------------------- MODULE AotRunHolders ---------------------------
(***************************************************************************)
(* Proofs about AotRun for every number of threads and every program: each *)
(* value that is still to come has exactly one who will deliver it, and a  *)
(* continuation fires when all its children's values are there.  To what   *)
(* AotRunRounds shows of the rounds, the inductive invariant adds:         *)
(*   OneEach   no two carriers have the same place, and the places that    *)
(*             carriers have are those without a value;                    *)
(*   Joins     a cell counts the children who have yet to count themselves *)
(*             down;                                                       *)
(*   Counting  a child counts itself down once, after it wrote its value;  *)
(*   Firing    a cell is fired once, when its count is zero;               *)
(*   Distinct  no entry of the queue is taken or written twice.            *)
(***************************************************************************)
EXTENDS AotRunRounds

Carriers == Tasks \cup Hands \cup Conts

\* The places whose value has not been delivered.
Waiting == {r \in Places : ~Delivered(r)}

OneEach ==
  /\ \A g, h \in Carriers : PlaceOf(g) = PlaceOf(h) => g = h
  /\ Waiting = {PlaceOf(h) : h \in Carriers}

\* The children of a cell that have yet to count themselves down.
Awaited(v, n) ==
  {i \in 1 .. cells[v][n].kids :
     \/ cells[v][n].child[i] = None
     \/ \E w \in Worker : pc[w] = "count" /\ res[w].ret = <<v, n, i>>}

Joins == \A v \in Worker : \A n \in DOMAIN cells[v] :
           cells[v][n].pending = Cardinality(Awaited(v, n))

Counting ==
  /\ \A w \in Worker : pc[w] = "count" => Delivered(res[w].ret)
  /\ \A w \in Worker : pc[w] \in {"resolve", "finish", "count"} => res[w].val # None
  /\ \A v, w \in Worker : /\ pc[v] = "count" /\ pc[w] = "count"
                          /\ res[v].ret = res[w].ret
                          => v = w

Firing ==
  /\ \A w \in Worker : pc[w] = "fire" => CellAt(res[w].ret).pending = 0
  /\ \A v, w \in Worker : /\ pc[v] = "fire" /\ pc[w] = "fire"
                          /\ res[v].ret[1] = res[w].ret[1]
                          /\ res[v].ret[2] = res[w].ret[2]
                          => v = w

Distinct ==
  \A v, w \in Worker : v # w =>
    /\ grab[v] # <<>> /\ grab[w] # <<>> => Head(grab[v]) # Head(grab[w])
    /\ Unflushed(v) \cap Unflushed(w) = {}

HInv == Inv /\ OneEach /\ Joins /\ Counting /\ Firing /\ Distinct

-----------------------------------------------------------------------------
(* The carriers *)

LEMMA TasksAre ==
  ASSUME NEW h
  PROVE  /\ h \in Tasks <=>
              \/ \E i \in Queued : h = <<"queued", i, 0>>
              \/ \E v \in Worker : \E i \in DOMAIN stack[v] : h = <<"stacked", v, i>>
              \/ \E v \in Worker : \E i \in DOMAIN wo[v] : h = <<"unflushed", v, i>>
         /\ h \in Tasks' <=>
              \/ \E i \in Queued' : h = <<"queued", i, 0>>
              \/ \E v \in Worker : \E i \in DOMAIN stack'[v] : h = <<"stacked", v, i>>
              \/ \E v \in Worker : \E i \in DOMAIN wo'[v] : h = <<"unflushed", v, i>>
  <1>1. h \in Tasks <=> \/ h \in {<<"queued", i, 0>> : i \in Queued}
                        \/ \E v \in Worker : h \in {<<"stacked", v, i>> : i \in DOMAIN stack[v]}
                        \/ \E v \in Worker : h \in {<<"unflushed", v, i>> : i \in DOMAIN wo[v]}
    BY DEF Tasks
  <1>4. h \in Tasks' <=> \/ h \in {<<"queued", i, 0>> : i \in Queued'}
                         \/ \E v \in Worker : h \in {<<"stacked", v, i>> : i \in DOMAIN stack'[v]}
                         \/ \E v \in Worker : h \in {<<"unflushed", v, i>> : i \in DOMAIN wo'[v]}
    BY DEF Tasks
  <1>2. \A k, S, v : h \in {<<k, v, i>> : i \in S} <=> \E i \in S : h = <<k, v, i>>
    OBVIOUS
  <1>3. \A k, S, v : h \in {<<k, i, v>> : i \in S} <=> \E i \in S : h = <<k, i, v>>
    OBVIOUS
  <1> QED
    BY <1>1, <1>2, <1>3, <1>4, Zenon

LEMMA HandsAre ==
  ASSUME NEW h
  PROVE  /\ h \in Hands <=> \E v \in Worker : pc[v] = "resolve" /\ h = <<"resolving", v, 0>>
         /\ h \in Hands' <=> \E v \in Worker : pc'[v] = "resolve" /\ h = <<"resolving", v, 0>>
  BY DEF Hands

Open(v, n) == \/ cells[v][n].pending > 0
              \/ \E w \in Worker : pc[w] = "fire" /\ res[w].ret[1] = v /\ res[w].ret[2] = n

LEMMA ContsAre ==
  ASSUME NEW h
  PROVE  /\ h \in Conts <=> \E v \in Worker : \E n \in DOMAIN cells[v] :
                              Open(v, n) /\ h = <<"cell", v, n>>
         /\ h \in Conts' <=> \E v \in Worker : \E n \in DOMAIN cells'[v] :
                               Open(v, n)' /\ h = <<"cell", v, n>>
  <1>1. \A c : c \in Cells <=> \E v \in Worker : \E n \in DOMAIN cells[v] : c = <<v, n>>
    BY DEF Cells
  <1>2. \A c : c \in Cells' <=> \E v \in Worker : \E n \in DOMAIN cells'[v] : c = <<v, n>>
    BY DEF Cells
  <1>3. \A v, n : Unfired(<<v, n>>) <=> Open(v, n)
    BY DEF Unfired, Open
  <1>4. \A v, n : Unfired(<<v, n>>)' <=> Open(v, n)'
    BY DEF Unfired, Open
  <1>5. h \in Conts <=> \E c \in Cells : Unfired(c) /\ h = <<"cell", c[1], c[2]>>
    BY DEF Conts
  <1>6. h \in Conts' <=> \E c \in Cells' : Unfired(c)' /\ h = <<"cell", c[1], c[2]>>
    BY DEF Conts
  <1>7. h \in Conts <=> \E v \in Worker : \E n \in DOMAIN cells[v] :
                          Open(v, n) /\ h = <<"cell", v, n>>
    <2>1. \A v \in Worker : \A n \in DOMAIN cells[v] :
            <<v, n>> \in Cells /\ <<v, n>>[1] = v /\ <<v, n>>[2] = n
      BY <1>1
    <2>2. ASSUME NEW v \in Worker, NEW n \in DOMAIN cells[v], Open(v, n), h = <<"cell", v, n>>
          PROVE  h \in Conts
      <3> DEFINE c == <<v, n>>
      <3>1. c \in Cells /\ Unfired(c) /\ h = <<"cell", c[1], c[2]>>
        BY <2>1, <2>2, <1>3
      <3> QED
        BY <3>1, <1>5
    <2>3. ASSUME NEW c \in Cells, Unfired(c), h = <<"cell", c[1], c[2]>>
          PROVE  \E v \in Worker : \E n \in DOMAIN cells[v] : Open(v, n) /\ h = <<"cell", v, n>>
      <3>1. PICK v \in Worker : \E n \in DOMAIN cells[v] : c = <<v, n>>
        BY <1>1
      <3>3. PICK n \in DOMAIN cells[v] : c = <<v, n>>
        BY <3>1
      <3>2. Open(v, n) /\ h = <<"cell", v, n>>
        BY <2>3, <3>3, <1>3
      <3> QED
        BY <3>2
    <2> QED
      BY <1>5, <2>2, <2>3
  <1>8. h \in Conts' <=> \E v \in Worker : \E n \in DOMAIN cells'[v] :
                           Open(v, n)' /\ h = <<"cell", v, n>>
    <2>1. \A v \in Worker : \A n \in DOMAIN cells'[v] :
            <<v, n>> \in Cells' /\ <<v, n>>[1] = v /\ <<v, n>>[2] = n
      BY <1>2
    <2>2. ASSUME NEW v \in Worker, NEW n \in DOMAIN cells'[v], Open(v, n)', h = <<"cell", v, n>>
          PROVE  h \in Conts'
      <3> DEFINE c == <<v, n>>
      <3>1. c \in Cells' /\ Unfired(c)' /\ h = <<"cell", c[1], c[2]>>
        BY <2>1, <2>2, <1>4
      <3> QED
        BY <3>1, <1>6
    <2>3. ASSUME NEW c \in Cells', Unfired(c)', h = <<"cell", c[1], c[2]>>
          PROVE  \E v \in Worker : \E n \in DOMAIN cells'[v] : Open(v, n)' /\ h = <<"cell", v, n>>
      <3>1. PICK v \in Worker : \E n \in DOMAIN cells'[v] : c = <<v, n>>
        BY <1>2
      <3>3. PICK n \in DOMAIN cells'[v] : c = <<v, n>>
        BY <3>1
      <3>2. Open(v, n)' /\ h = <<"cell", v, n>>
        BY <2>3, <3>3, <1>4
      <3> QED
        BY <3>2
    <2> QED
      BY <1>6, <2>2, <2>3
  <1> QED
    BY <1>7, <1>8

LEMMA PlaceIsOf ==
  ASSUME NEW v, NEW i
  PROVE  /\ PlaceOf(<<"queued", v, i>>) = buf[v].ret
         /\ PlaceOf(<<"stacked", v, i>>) = stack[v][i].ret
         /\ PlaceOf(<<"unflushed", v, i>>) = wo[v][i].ret
         /\ PlaceOf(<<"resolving", v, i>>) = res[v].ret
         /\ PlaceOf(<<"cell", v, i>>) = cells[v][i].ret
         /\ PlaceOf(<<"queued", v, i>>)' = buf'[v].ret
         /\ PlaceOf(<<"stacked", v, i>>)' = stack'[v][i].ret
         /\ PlaceOf(<<"unflushed", v, i>>)' = wo'[v][i].ret
         /\ PlaceOf(<<"resolving", v, i>>)' = res'[v].ret
         /\ PlaceOf(<<"cell", v, i>>)' = cells'[v][i].ret
  BY DEF PlaceOf

\* Carriers that go give their places to carriers that come.
Replaced(O, N) ==
  /\ Carriers' = (Carriers \ O) \cup N
  /\ \A h \in Carriers \ O : PlaceOf(h)' = PlaceOf(h)
  /\ \A g, h \in N : PlaceOf(g)' = PlaceOf(h)' => g = h
  /\ \A h \in N : \/ PlaceOf(h)' \notin Waiting
                  \/ \E o \in O \cap Carriers : PlaceOf(h)' = PlaceOf(o)
  /\ N \cap (Carriers \ O) = {}
  /\ \A r : r \in Waiting' <=> \/ r \in Waiting /\ \A o \in O \cap Carriers : PlaceOf(o) # r
                               \/ \E h \in N : r = PlaceOf(h)'

LEMMA Replace ==
  ASSUME OneEach, NEW O, NEW N, Replaced(O, N)
  PROVE  OneEach'
  <1>1. \A g, h \in Carriers : PlaceOf(g) = PlaceOf(h) => g = h
    BY DEF OneEach
  <1>2. \A r : r \in Waiting <=> \E h \in Carriers : r = PlaceOf(h)
    BY DEF OneEach
  <1>3. ASSUME NEW g \in N, NEW h \in Carriers \ O
        PROVE  PlaceOf(g)' # PlaceOf(h)'
    BY <1>1, <1>2, <1>3 DEF Replaced
  <1>4. \A g, h \in Carriers' : PlaceOf(g)' = PlaceOf(h)' => g = h
    BY <1>1, <1>3 DEF Replaced
  <1>5. \A r : r \in Waiting' <=> \E h \in Carriers' : r = PlaceOf(h)'
    BY <1>1, <1>2 DEF Replaced
  <1>6. Waiting' = {PlaceOf(h)' : h \in Carriers'}
    BY <1>5
  <1> QED
    BY <1>4, <1>6 DEF OneEach

-----------------------------------------------------------------------------
(* The queued tasks *)

Taken(i)   == \E v \in Worker : grab[v] # <<>> /\ i = Head(grab[v])
Flushed(i) == /\ i \in taskCnt .. taskCnt + taskCntNew - 1
              /\ \A v \in Worker : i \notin Unflushed(v)

LEMMA SetOfOne ==
  ASSUME NEW s \in Seq(Nat), Len(s) <= 1, NEW i
  PROVE  i \in ToSet(s) <=> s # <<>> /\ i = Head(s)
  <1>1. CASE s = <<>>
    BY <1>1 DEF ToSet
  <1>2. CASE s # <<>>
    <2>1. PICK n \in Nat : n = Len(s) /\ n # 0 /\ DOMAIN s = 1 .. n
      BY <1>2, LenProperties, EmptySeq
    <2>2. n = 1 /\ 1 .. 1 = {1}
      BY <2>1
    <2>3. DOMAIN s = {1} /\ Head(s) = s[1]
      BY <2>1, <2>2
    <2> QED
      BY <1>2, <2>3 DEF ToSet
  <1> QED
    BY <1>1, <1>2

LEMMA QueuedAre ==
  ASSUME NEW i
  PROVE  /\ Inv => /\ Between => (i \in Queued <=> i \in 0 .. taskCnt - 1)
                   /\ ~Between => (i \in Queued <=> i \in workIdx .. taskCnt - 1 \/ Taken(i) \/ Flushed(i))
         /\ Inv' => /\ Between' => (i \in Queued' <=> i \in 0 .. taskCnt' - 1)
                    /\ ~Between' => (i \in Queued' <=> i \in workIdx' .. taskCnt' - 1 \/ Taken(i)' \/ Flushed(i)')
  <1>1. Between => Queued = 0 .. taskCnt - 1
    BY DEF Queued
  <1>2. Between' => Queued' = 0 .. taskCnt' - 1
    BY DEF Queued
  <1>3. ~Between => (i \in Queued <=> \/ i \in workIdx .. taskCnt - 1
                                      \/ \E v \in Worker : i \in ToSet(grab[v])
                                      \/ Flushed(i))
    BY DEF Queued, Flushed
  <1>4. ~Between' => (i \in Queued' <=> \/ i \in workIdx' .. taskCnt' - 1
                                        \/ \E v \in Worker : i \in ToSet(grab'[v])
                                        \/ Flushed(i)')
    BY DEF Queued, Flushed
  <1>5. Inv => \A v \in Worker : i \in ToSet(grab[v]) <=> grab[v] # <<>> /\ i = Head(grab[v])
    BY SetOfOne DEF Inv, Private, TypeOK
  <1>6. Inv' => \A v \in Worker : i \in ToSet(grab'[v]) <=> grab'[v] # <<>> /\ i = Head(grab'[v])
    BY SetOfOne DEF Inv, Private, TypeOK
  <1>7. Inv => /\ Between => (i \in Queued <=> i \in 0 .. taskCnt - 1)
               /\ ~Between => (i \in Queued <=> i \in workIdx .. taskCnt - 1 \/ Taken(i) \/ Flushed(i))
    BY <1>1, <1>3, <1>5 DEF Taken
  <1>8. Inv' => /\ Between' => (i \in Queued' <=> i \in 0 .. taskCnt' - 1)
                /\ ~Between' => (i \in Queued' <=> i \in workIdx' .. taskCnt' - 1 \/ Taken(i)' \/ Flushed(i)')
    BY <1>2, <1>4, <1>6 DEF Taken
  <1> QED
    BY <1>7, <1>8

\* A serial run has no queue.
LEMMA QueuedNone ==
  /\ Inv /\ serial => Queued = {}
  /\ Inv' /\ serial' => Queued' = {}
  <1>1. ASSUME Inv, serial
        PROVE  Queued = {}
    <2>1. /\ taskCnt = 0 /\ taskCntNew = 0 /\ workIdx = 0
          /\ \A v \in Worker : grab[v] = <<>>
      BY <1>1 DEF Inv, Alone
    <2>2. 0 .. taskCnt - 1 = {} /\ workIdx .. taskCnt - 1 = {} /\ taskCnt .. taskCnt + taskCntNew - 1 = {}
      BY <2>1
    <2> QED
      BY <1>1, <2>1, <2>2, QueuedAre DEF Taken, Flushed
  <1>2. ASSUME Inv', serial'
        PROVE  Queued' = {}
    <2>1. /\ taskCnt' = 0 /\ taskCntNew' = 0 /\ workIdx' = 0
          /\ \A v \in Worker : grab'[v] = <<>>
      BY <1>2 DEF Inv, Alone
    <2>2. 0 .. taskCnt' - 1 = {} /\ workIdx' .. taskCnt' - 1 = {} /\ taskCnt' .. taskCnt' + taskCntNew' - 1 = {}
      BY <2>1
    <2> QED
      BY <1>2, <2>1, <2>2, QueuedAre DEF Taken, Flushed
  <1> QED
    BY <1>1, <1>2

LEMMA BetweenStay ==
  ASSUME Inv, ~serial, NEW w \in Worker, Step(w), ~(w = 0 /\ (Compact(w) \/ NextRound(w)))
  PROVE  Between' <=> Between
  <1>1. /\ TypeOK /\ 0 \in Worker
        /\ pc \in [Worker -> RoundPc \cup BarrierPc \cup {"check", "next", "compact", "again", "quit"}]
    BY WorkerIs DEF Inv, TypeOK
  <1>2. CASE w # 0
    BY <1>1, <1>2, OthersPrivate DEF Between
  <1>3. CASE w = 0 /\ (Arrive(w) \/ Pass(w))
    <2>1. pc' = pc \/ (pc' = [pc EXCEPT ![0] = After(pc[0])] /\ AtBarrier(0))
      BY <1>3 DEF Arrive, Pass, Goto, B!Leave, Inv, Private
    <2> QED
      BY <1>1, <2>1 DEF Between, After, AtBarrier
  <1>4. CASE w = 0 /\ (Check(w) \/ Again(w))
    BY <1>1, <1>4 DEF Between, Check, Again, Goto
  <1>5. CASE InPhase(w) /\ w = 0
    <2>1. pc[0] \in RoundPc /\ (pc' = pc \/ \E l \in RoundPc \cup {"end"} : pc' = [pc EXCEPT ![0] = l])
      BY <1>5, PhaseIs
    <2>2. pc'[0] \in RoundPc \cup {"end"}
      BY <1>1, <2>1
    <2> QED
      BY <2>1, <2>2 DEF Between, RoundPc
  <1> QED
    BY <1>2, <1>3, <1>4, <1>5 DEF Step, InPhase

\* The part of the invariant about the queue, when it changes a round.
LEMMA QueuedBegin ==
  ASSUME HInv, Inv', ~serial, NextRound(0)
  PROVE  Queued' = Queued
  <1>1. /\ TypeOK /\ 0 \in Worker /\ Private(0) /\ grab' = grab /\ taskCnt' = taskCnt
        /\ pc \in [Worker -> RoundPc \cup BarrierPc \cup {"check", "next", "compact", "again", "quit"}]
        /\ taskCnt \in Nat /\ taskCntNew' = 0 /\ workIdx' = 0
    BY WorkerIs DEF HInv, Inv, TypeOK, NextRound
  <1>2. pc[0] = "next" /\ pc'[0] = "begin"
    BY <1>1 DEF NextRound, Goto
  <1>3. Between /\ ~Between'
    BY <1>2 DEF Between
  <1>4. Stage(0) = "open"
    BY <1>1, <1>2, StageAt DEF Own, AtBarrier, RoundPc
  <1>5. \A v \in Worker : grab[v] = <<>>
    <2> TAKE v \in Worker
    <2>1. Stage(v) # "work"
      BY <1>1, <1>4, AllWork DEF HInv
    <2> QED
      BY <2>1 DEF HInv, Inv, Private
  <1>6. \A i : ~Taken(i)'
    BY <1>1, <1>5 DEF Taken
  <1>7. \A i : ~Flushed(i)'
    BY <1>1 DEF Flushed
  <1>8. \A i : i \in Queued' <=> i \in workIdx' .. taskCnt' - 1
    BY <1>3, <1>6, <1>7, QueuedAre
  <1>9. \A i : i \in Queued <=> i \in 0 .. taskCnt - 1
    BY <1>3, QueuedAre DEF HInv
  <1> QED
    BY <1>1, <1>8, <1>9

LEMMA QueuedGrab ==
  ASSUME HInv, Inv', ~serial, NEW w \in Worker, Grab(w)
  PROVE  Queued' = Queued
  <1>1. /\ TypeOK /\ Private(w) /\ taskCnt' = taskCnt /\ taskCntNew' = taskCntNew /\ Step(w) /\ InPhase(w)
        /\ pc[w] = "grab" /\ grab \in [Worker -> Seq(Nat)] /\ wo' = wo /\ round' = round
        /\ Inv
    BY DEF HInv, Inv, TypeOK, Grab, Step, InPhase
  <1>2. /\ taskCnt \in Nat /\ workIdx \in Nat /\ workIdx' = workIdx + 1
        /\ \/ workIdx >= taskCnt /\ grab' = grab /\ pc' = [pc EXCEPT ![w] = "drain"]
           \/ /\ workIdx < taskCnt /\ pc' = [pc EXCEPT ![w] = "take"]
              /\ grab' = [grab EXCEPT ![w] = <<workIdx>>]
    BY <1>1, GrabIs
  <1>3. grab[w] = <<>> /\ Head(<<workIdx>>) = workIdx /\ <<workIdx>> # <<>>
    BY <1>1 DEF Private
  <1>4. Between' <=> Between
    BY <1>1, BetweenStay DEF Grab, Compact, NextRound
  <1>5. ~Between
    <2>1. 0 \in Worker
      BY WorkerIs
    <2>2. Stage(0) = "work"
      BY <1>1, <2>1, PhaseIs, AllWork
    <2> QED
      BY <2>2 DEF Stage, Passed, Own, RoundPc, Between
  <1>6. \A v \in Worker : Unflushed(v)' = Unflushed(v)
    <2> TAKE v \in Worker
    <2>1. pc \in [Worker -> RoundPc \cup BarrierPc \cup {"check", "next", "compact", "again", "quit"}]
      BY <1>1 DEF TypeOK
    <2>2. pc'[v] \in {"copy", "copyLast"} <=> pc[v] \in {"copy", "copyLast"}
      BY <1>1, <1>2, <2>1
    <2> QED
      BY <1>1, <2>2 DEF Unflushed
  <1>7. \A i : Flushed(i)' <=> Flushed(i)
    BY <1>1, <1>6 DEF Flushed
  <1>8. CASE workIdx >= taskCnt
    <2>1. grab' = grab
      BY <1>2, <1>8
    <2>2. \A i : Taken(i)' <=> Taken(i)
      BY <2>1 DEF Taken
    <2>3. workIdx' .. taskCnt' - 1 = {} /\ workIdx .. taskCnt - 1 = {}
      BY <1>1, <1>2, <1>8
    <2>4. \A i : i \in Queued' <=> i \in Queued
      BY <1>1, <1>4, <1>5, <1>7, <2>2, <2>3, QueuedAre
    <2> QED
      BY <2>4
  <1>9. CASE workIdx < taskCnt
    <2>1. grab' = [grab EXCEPT ![w] = <<workIdx>>]
      BY <1>2, <1>9
    <2>2. \A v \in Worker : v # w => grab'[v] = grab[v]
      BY <1>1, <2>1
    <2>3. grab'[w] = <<workIdx>>
      BY <1>1, <2>1
    <2>4. \A i : Taken(i)' <=> Taken(i) \/ i = workIdx
      BY <1>3, <2>2, <2>3 DEF Taken
    <2>5. \A i : i \in workIdx .. taskCnt - 1 <=> i = workIdx \/ i \in workIdx' .. taskCnt' - 1
      BY <1>1, <1>2, <1>9
    <2>6. \A i : i \in Queued' <=> i \in Queued
      BY <1>1, <1>4, <1>5, <1>7, <2>4, <2>5, QueuedAre
    <2> QED
      BY <2>6
  <1> QED
    BY <1>2, <1>8, <1>9

LEMMA UnflushedIn ==
  ASSUME Inv, NEW v \in Worker
  PROVE  /\ Unflushed(v) \subseteq taskCnt .. taskCnt + taskCntNew - 1
         /\ pc[v] \in {"copy", "copyLast"} =>
              ~serial /\ Unflushed(v) = taskCnt + round[v].dst .. taskCnt + round[v].dst + Len(wo[v]) - 1
  <1>1. CASE pc[v] \notin {"copy", "copyLast"}
    BY <1>1 DEF Unflushed
  <1>2. CASE pc[v] \in {"copy", "copyLast"}
    <2>1. /\ TypeOK /\ Private(v) /\ taskCnt \in Nat /\ taskCntNew \in Nat
          /\ round \in [Worker -> [iter : Nat, cnt : Nat, dst : Nat]]
          /\ wo \in [Worker -> Seq(TaskSet)]
      BY DEF Inv, TypeOK
    <2>2. ~serial
      BY <1>2, WorkerIs DEF Inv, Alone, RunPc
    <2>3. Stage(v) = "work"
      BY <1>2, <2>1, StageAt DEF Own, RoundPc, AtBarrier
    <2>4. round[v].cnt = taskCnt /\ round[v].dst + Len(wo[v]) <= taskCntNew
      BY <1>2, <2>2, <2>3 DEF Inv, Numbers, Known, Indices
    <2>5. PICK k \in Nat : k = Len(wo[v])
      BY <2>1, LenProperties
    <2>6. PICK d \in Nat : d = round[v].dst
      BY <2>1
    <2>7. Unflushed(v) = taskCnt + d .. taskCnt + d + k - 1
      BY <1>2, <2>4, <2>5, <2>6 DEF Unflushed
    <2>8. Unflushed(v) \subseteq taskCnt .. taskCnt + taskCntNew - 1
      BY <2>1, <2>4, <2>5, <2>6, <2>7
    <2> QED
      BY <2>2, <2>5, <2>6, <2>7, <2>8
  <1> QED
    BY <1>1, <1>2

\* Flush: what it claims, and the queue is the same until it is copied.
LEMMA FlushIs ==
  ASSUME Inv, NEW w \in Worker, Flush(w)
  PROVE  /\ ~serial /\ Unflushed(w) = {} /\ ~Between /\ ~Between'
         /\ Unflushed(w)' = taskCnt + taskCntNew .. taskCnt' + taskCntNew' - 1
         /\ taskCnt' = taskCnt /\ taskCntNew' \in Nat /\ taskCntNew' >= taskCntNew
         /\ \A v \in Worker : v # w => Unflushed(v)' = Unflushed(v)
  <1>1. /\ TypeOK /\ Private(w) /\ taskCnt \in Nat /\ taskCntNew \in Nat /\ Step(w) /\ InPhase(w)
        /\ taskCnt' = taskCnt /\ pc[w] \in {"flush", "drain"} /\ wo' = wo
        /\ round \in [Worker -> [iter : Nat, cnt : Nat, dst : Nat]]
        /\ pc \in [Worker -> RoundPc \cup BarrierPc \cup {"check", "next", "compact", "again", "quit"}]
    BY DEF Inv, TypeOK, Step, InPhase, Flush
  <1>2. ~serial
    BY <1>1, WorkerIs DEF Inv, Alone, RunPc
  <1>3. /\ Stage(w) = "work" /\ round[w].cnt = taskCnt
        /\ pc' = pc \/ \E l \in RoundPc \cup {"end"} : pc' = [pc EXCEPT ![w] = l]
    BY <1>1, <1>2, PhaseIs DEF Inv, Numbers, Known
  <1>4. PICK k \in Nat : k = Len(wo[w])
    BY <1>1, LenProperties DEF TypeOK
  <1>5. /\ taskCntNew' = taskCntNew + k /\ round'[w].dst = taskCntNew /\ round'[w].cnt = taskCnt
        /\ pc'[w] = IF wo[w] = <<>> THEN "end" ELSE IF pc[w] = "drain" THEN "copyLast" ELSE "copy"
    BY <1>1, <1>3, <1>4 DEF Flush, Goto
  <1>6. Unflushed(w) = {}
    BY <1>1 DEF Unflushed
  <1>7. Unflushed(w)' = taskCnt + taskCntNew .. taskCnt' + taskCntNew' - 1
    <2>1. CASE wo[w] = <<>>
      <3>1. k = 0
        BY <1>4, <2>1, EmptySeq
      <3>2. taskCnt + taskCntNew .. taskCnt' + taskCntNew' - 1 = {}
        BY <1>1, <1>5, <3>1
      <3>3. Unflushed(w)' = {}
        BY <1>5, <2>1 DEF Unflushed
      <3> QED
        BY <3>2, <3>3
    <2>2. CASE wo[w] # <<>>
      <3>1. pc'[w] \in {"copy", "copyLast"}
        BY <1>5, <2>2
      <3>2. Unflushed(w)' = taskCnt + taskCntNew .. taskCnt + taskCntNew + k - 1
        BY <1>1, <1>4, <1>5, <3>1 DEF Unflushed
      <3>3. taskCnt' + taskCntNew' - 1 = taskCnt + taskCntNew + k - 1
        <4>1. taskCnt' = taskCnt /\ taskCntNew' = taskCntNew + k
          BY <1>1, <1>5
        <4>2. \A a, b, c \in Nat : a + (b + c) - 1 = a + b + c - 1
          OBVIOUS
        <4> QED
          BY <1>1, <4>1, <4>2
      <3> QED
        BY <3>2, <3>3
    <2> QED
      BY <2>1, <2>2
  <1>8. \A v \in Worker : v # w => Unflushed(v)' = Unflushed(v)
    BY <1>1, OthersPrivate DEF Unflushed
  <1>9. ~Between
    <2>1. 0 \in Worker
      BY WorkerIs
    <2>2. Stage(0) = "work"
      BY <1>2, <1>3, <2>1, AllWork
    <2> QED
      BY <2>2 DEF Stage, Passed, Own, RoundPc, Between
  <1>10. Between' <=> Between
    BY <1>1, <1>2, BetweenStay DEF Compact, NextRound
  <1> QED
    BY <1>1, <1>2, <1>4, <1>5, <1>6, <1>7, <1>8, <1>9, <1>10

LEMMA QueuedFlush ==
  ASSUME HInv, Inv', NEW w \in Worker, Flush(w)
  PROVE  Queued' = Queued
  <1>1. /\ Inv /\ taskCnt \in Nat /\ taskCntNew \in Nat
        /\ grab' = grab /\ workIdx' = workIdx
    BY DEF HInv, Inv, TypeOK, Flush
  <1>2. /\ ~serial /\ Unflushed(w) = {} /\ ~Between /\ ~Between'
        /\ Unflushed(w)' = taskCnt + taskCntNew .. taskCnt' + taskCntNew' - 1
        /\ taskCnt' = taskCnt /\ taskCntNew' \in Nat /\ taskCntNew' >= taskCntNew
        /\ \A v \in Worker : v # w => Unflushed(v)' = Unflushed(v)
    BY <1>1, FlushIs
  <1>3. \A v \in Worker : Unflushed(v) \subseteq taskCnt .. taskCnt + taskCntNew - 1
    BY <1>1, UnflushedIn
  <1>4. ASSUME NEW i
        PROVE  Flushed(i)' <=> Flushed(i)
    <2>1. i \in taskCnt' .. taskCnt' + taskCntNew' - 1 /\ i \notin Unflushed(w)'
            <=> i \in taskCnt .. taskCnt + taskCntNew - 1
      BY <1>1, <1>2
    <2>2. Flushed(i)' <=> /\ i \in taskCnt' .. taskCnt' + taskCntNew' - 1 /\ i \notin Unflushed(w)'
                          /\ \A v \in Worker : v # w => i \notin Unflushed(v)'
      BY DEF Flushed
    <2>3. Flushed(i) <=> /\ i \in taskCnt .. taskCnt + taskCntNew - 1
                         /\ \A v \in Worker : v # w => i \notin Unflushed(v)
      BY <1>2 DEF Flushed
    <2> QED
      BY <1>2, <2>1, <2>2, <2>3
  <1>5. \A i : Taken(i)' <=> Taken(i)
    BY <1>1 DEF Taken
  <1>6. \A i : i \in Queued' <=> i \in Queued
    BY <1>1, <1>2, <1>4, <1>5, QueuedAre
  <1> QED
    BY <1>6

\* What leaves the queue alone.
LEMMA QueuedStay ==
  ASSUME HInv, Inv', NEW w \in Worker, Step(w), ~TakeSeed(w), ~TakeWork(w), ~Copy(w),
         ~(w = 0 /\ Compact(w))
  PROVE  Queued' = Queued
  <1>1. Inv /\ serial' = serial
    BY OthersPrivate DEF HInv, Step, Arrive, Pass, Check, NextRound, Compact, Again, Grab,
       Descend, DescendEnd, ResolveRoot, Finish, WriteSlot, Count, Fire, Flush
  <1>2. CASE serial
    BY <1>1, <1>2, QueuedNone
  <1>3. CASE ~serial /\ w = 0 /\ NextRound(w)
    BY <1>3, QueuedBegin
  <1>4. CASE ~serial /\ Grab(w)
    BY <1>4, QueuedGrab
  <1>5. CASE Flush(w)
    BY <1>5, QueuedFlush
  <1>6. CASE ~serial /\ ~Grab(w) /\ ~Flush(w) /\ ~(w = 0 /\ NextRound(w))
    <2>1. /\ taskCnt' = taskCnt /\ taskCntNew' = taskCntNew /\ workIdx' = workIdx /\ grab' = grab
      BY <1>6 DEF Step, Arrive, Pass, Check, NextRound, Compact, Again, Descend, DescendEnd,
         ResolveRoot, Finish, WriteSlot, Count, Fire, queue
    <2>2. Between' <=> Between
      BY <1>1, <1>6, BetweenStay
    <2>3. pc[w] \notin {"copy", "copyLast"} /\ pc'[w] \notin {"copy", "copyLast"}
      <3>1. pc \in [Worker -> RoundPc \cup BarrierPc \cup {"check", "next", "compact", "again", "quit"}]
        BY <1>1 DEF Inv, TypeOK
      <3>2. CASE Arrive(w) \/ Pass(w)
        <4>1. AtBarrier(w) /\ (pc' = pc \/ pc' = [pc EXCEPT ![w] = After(pc[w])])
          BY <1>1, <3>2 DEF Arrive, Pass, Goto, B!Leave, Inv, Private
        <4> QED
          BY <3>1, <4>1 DEF AtBarrier, After
      <3>3. CASE Check(w) \/ NextRound(w) \/ Compact(w) \/ Again(w) \/ DescendEnd(w) \/ ResolveRoot(w) \/ WriteSlot(w)
        BY <3>1, <3>3 DEF Check, NextRound, Compact, Again, DescendEnd, ResolveRoot, WriteSlot, NextTask, Goto
      <3>4. CASE Descend(w) \/ Finish(w) \/ Count(w) \/ Fire(w)
        <4>1. pc[w] \in {"descend", "finish", "count", "fire"}
          BY <3>4 DEF Descend, Finish, Count, Fire
        <4>2. pc' = pc \/ \E l \in {"descend", "flush", "grab", "take", "resolve", "fire"} : pc' = [pc EXCEPT ![w] = l]
          BY <3>4, DealtIs DEF Descend, Finish, Count, Fire, Goto
        <4> QED
          BY <3>1, <4>1, <4>2
      <3> QED
        BY <1>6, <3>2, <3>3, <3>4 DEF Step
    <2>4. \A v \in Worker : Unflushed(v)' = Unflushed(v)
      <3> TAKE v \in Worker
      <3>1. CASE v = w
        BY <2>3, <3>1 DEF Unflushed
      <3>2. CASE v # w
        BY <1>1, <3>2, OthersPrivate DEF Unflushed
      <3> QED
        BY <3>1, <3>2
    <2>5. \A i : (Taken(i)' <=> Taken(i)) /\ (Flushed(i)' <=> Flushed(i))
      BY <2>1, <2>4 DEF Taken, Flushed
    <2>6. \A i : i \in Queued' <=> i \in Queued
      BY <1>1, <2>1, <2>2, <2>5, QueuedAre
    <2> QED
      BY <2>6
  <1> QED
    BY <1>2, <1>3, <1>4, <1>5, <1>6

\* A dispatch takes the task it grabbed out of the queue.
LEMMA QueuedTake ==
  ASSUME HInv, Inv', NEW w \in Worker, TakeSeed(w) \/ TakeWork(w)
  PROVE  /\ Head(grab[w]) \in Queued /\ Queued' = Queued \ {Head(grab[w])}
  <1>1. /\ Inv /\ TypeOK /\ Private(w) /\ grab \in [Worker -> Seq(Nat)] /\ Step(w) /\ InPhase(w)
        /\ taskCnt \in Nat /\ taskCntNew \in Nat /\ workIdx \in Nat
        /\ taskCnt' = taskCnt /\ taskCntNew' = taskCntNew /\ workIdx' = workIdx
        /\ grab' = [grab EXCEPT ![w] = Tail(@)] /\ pc[w] = "take" /\ grab[w] # <<>>
        /\ pc \in [Worker -> RoundPc \cup BarrierPc \cup {"check", "next", "compact", "again", "quit"}]
    BY DEF HInv, Inv, TypeOK, TakeSeed, TakeWork, Step, InPhase, queue, Private
  <1> DEFINE x == Head(grab[w])
  <1>2. ~serial
    BY <1>1, WorkerIs DEF Inv, Alone, RunPc
  <1>3. ~Between /\ ~Between'
    <2>1. 0 \in Worker
      BY WorkerIs
    <2>2. Stage(0) = "work"
      BY <1>1, <1>2, <2>1, PhaseIs, AllWork
    <2>3. ~Between
      BY <2>2 DEF Stage, Passed, Own, RoundPc, Between
    <2> QED
      BY <1>1, <1>2, <2>3, BetweenStay DEF TakeSeed, TakeWork, Compact, NextRound
  <1>4. x \in 0 .. taskCnt - 1 /\ x < workIdx /\ grab'[w] = <<>>
    <2>1. Tail(grab[w]) \in Seq(Nat) /\ Len(Tail(grab[w])) = Len(grab[w]) - 1
          /\ x \in 0 .. taskCnt - 1 /\ x < workIdx
      BY <1>1, TakenIs DEF Inv
    <2>2. PICK n \in Nat : n = Len(grab[w]) /\ n # 0 /\ n <= 1
      BY <1>1, LenProperties, EmptySeq DEF Private
    <2>3. n - 1 = 0
      <3>1. \A m \in Nat : m # 0 /\ m <= 1 => m - 1 = 0
        OBVIOUS
      <3> QED
        BY ONLY <2>2, <3>1, Zenon
    <2>4. Len(Tail(grab[w])) = 0
      BY ONLY <2>1, <2>2, <2>3, Zenon
    <2>5. Tail(grab[w]) = <<>>
      BY <2>1, <2>4, EmptySeq
    <2> QED
      BY <1>1, <2>1, <2>5
  <1>5. \A v \in Worker : v # w => grab'[v] = grab[v] /\ (grab[v] # <<>> => Head(grab[v]) # x)
    BY <1>1 DEF HInv, Distinct
  <1>6. \A i : Taken(i)' <=> Taken(i) /\ i # x
    BY <1>1, <1>4, <1>5 DEF Taken
  <1>7. \A v \in Worker : Unflushed(v)' = Unflushed(v)
    <2> TAKE v \in Worker
    <2>1. CASE v = w
      <3>1. pc'[w] \notin {"copy", "copyLast"}
        BY <1>1, DealtIs DEF TakeSeed, TakeWork, Goto
      <3> QED
        BY <1>1, <2>1, <3>1 DEF Unflushed
    <2>2. CASE v # w
      BY <1>1, <2>2, OthersPrivate DEF Unflushed
    <2> QED
      BY <2>1, <2>2
  <1>8. \A i : (Flushed(i)' <=> Flushed(i)) /\ (Flushed(i) => i # x)
    BY <1>1, <1>4, <1>7 DEF Flushed
  <1>9. \A i \in workIdx .. taskCnt - 1 : i # x
    BY <1>1, <1>4
  <1>10. Taken(x)
    BY <1>1 DEF Taken
  <1> HIDE DEF x
  <1>11. \A i : i \in Queued' <=> i \in Queued /\ i # x
    BY <1>1, <1>3, <1>6, <1>8, <1>9, QueuedAre
  <1>12. x \in Queued
    BY <1>1, <1>3, <1>10, QueuedAre
  <1> QED
    BY <1>11, <1>12 DEF x

\* A copy puts into the queue what the flush left out.
LEMMA QueuedCopy ==
  ASSUME HInv, Inv', NEW w \in Worker, Copy(w)
  PROVE  /\ Queued' = Queued \cup Unflushed(w) /\ Queued \cap Unflushed(w) = {}
         /\ Unflushed(w) \subseteq taskCnt .. taskCnt + taskCntNew - 1 /\ ~serial
         /\ \A v \in Worker : v # w => Unflushed(v)' = Unflushed(v)
         /\ Unflushed(w)' = {}
  <1>1. /\ Inv /\ TypeOK /\ Private(w) /\ grab' = grab /\ Step(w) /\ InPhase(w)
        /\ taskCnt \in Nat /\ taskCntNew \in Nat /\ workIdx \in Nat
        /\ taskCnt' = taskCnt /\ taskCntNew' = taskCntNew /\ workIdx' = workIdx
        /\ pc[w] \in {"copy", "copyLast"}
        /\ pc \in [Worker -> RoundPc \cup BarrierPc \cup {"check", "next", "compact", "again", "quit"}]
    BY DEF HInv, Inv, TypeOK, Copy, Step, InPhase
  <1>2. /\ ~serial /\ \A v \in Worker : Unflushed(v) \subseteq taskCnt .. taskCnt + taskCntNew - 1
    BY <1>1, UnflushedIn
  <1>3. ~Between /\ ~Between'
    <2>1. 0 \in Worker
      BY WorkerIs
    <2>2. Stage(0) = "work"
      BY <1>1, <1>2, <2>1, PhaseIs, AllWork
    <2>3. ~Between
      BY <2>2 DEF Stage, Passed, Own, RoundPc, Between
    <2> QED
      BY <1>1, <1>2, <2>3, BetweenStay DEF Copy, Compact, NextRound
  <1>4. Unflushed(w)' = {}
    <2>1. pc'[w] \notin {"copy", "copyLast"}
      BY <1>1 DEF Copy, Goto, NextTask
    <2> QED
      BY <2>1 DEF Unflushed
  <1>5. \A v \in Worker : v # w => Unflushed(v)' = Unflushed(v)
    BY <1>1, OthersPrivate DEF Unflushed
  <1>6. \A v \in Worker : v # w => Unflushed(v) \cap Unflushed(w) = {}
    BY DEF HInv, Distinct
  <1>7. \A i : Flushed(i)' <=> Flushed(i) \/ i \in Unflushed(w)
    BY <1>1, <1>2, <1>4, <1>5, <1>6 DEF Flushed
  <1>8. \A i : Taken(i)' <=> Taken(i)
    BY <1>1 DEF Taken
  <1>9. \A i : Flushed(i) => i \notin Unflushed(w)
    BY DEF Flushed
  <1>10. \A i : Taken(i) => i \notin Unflushed(w)
    <2> SUFFICES ASSUME NEW v \in Worker, grab[v] # <<>>
                 PROVE  Head(grab[v]) \notin Unflushed(w)
      BY DEF Taken
    <2>1. Head(grab[v]) \in 0 .. taskCnt - 1
      BY <1>1, TakenIs DEF Inv
    <2> QED
      BY <1>1, <1>2, <2>1
  <1>11. \A i \in workIdx .. taskCnt - 1 : i \notin Unflushed(w)
    BY <1>1, <1>2
  <1>12. \A i : i \in Queued' <=> i \in Queued \/ i \in Unflushed(w)
    BY <1>1, <1>3, <1>7, <1>8, QueuedAre
  <1>13. \A i : i \in Queued => i \notin Unflushed(w)
    BY <1>1, <1>3, <1>9, <1>10, <1>11, QueuedAre
  <1> QED
    BY <1>2, <1>4, <1>5, <1>12, <1>13

\* Thread 0 moves what the round left to the start of the queue.
LEMMA QueuedCompact ==
  ASSUME HInv, Inv', ~serial, Compact(0)
  PROVE  /\ \A i : i \in Queued <=> i \in taskCnt .. taskCnt + taskCntNew - 1
         /\ \A i : i \in Queued' <=> i \in 0 .. taskCntNew - 1
         /\ \A i \in 0 .. taskCntNew - 1 : buf'[i] = buf[taskCnt + i]
         /\ taskCnt \in Nat /\ taskCntNew \in Nat
  <1>1. /\ Inv /\ TypeOK /\ 0 \in Worker /\ Private(0) /\ Numbers
        /\ taskCnt \in Nat /\ taskCntNew \in Nat /\ workIdx \in Nat
        /\ pc \in [Worker -> RoundPc \cup BarrierPc \cup {"check", "next", "compact", "again", "quit"}]
    BY WorkerIs DEF HInv, Inv, TypeOK
  <1>2. /\ pc[0] = "compact" /\ pc'[0] = "after" /\ taskCnt' = taskCntNew
        /\ buf' = [i \in 0 .. QueueCap - 1 |->
                     IF i < taskCntNew THEN buf[round[0].cnt + i] ELSE buf[i]]
    BY <1>1 DEF Compact, Goto
  <1>3. Between' /\ ~Between
    BY <1>2 DEF Between
  <1>4. Stage(0) = "close"
    BY <1>1, <1>2, StageAt DEF Own, AtBarrier, RoundPc
  <1>5. round[0].cnt = taskCnt /\ taskCnt + taskCntNew <= 6 * Threads - 3 /\ workIdx >= taskCnt
    BY <1>1, <1>2, <1>4 DEF Numbers, Leaves
  <1>6. Threads \in Nat /\ QueueCap \in Nat /\ QueueCap >= 6 * Threads - 3
    BY WorkerIs, CapAssumption, QueueAssumption
  <1>7. \A v \in Worker : Unflushed(v) = {} /\ grab[v] = <<>>
    <2> TAKE v \in Worker
    <2>1. Stage(v) = "close"
      BY <1>1, <1>4, AllWork
    <2>2. pc[v] \notin {"copy", "copyLast"}
      BY <2>1 DEF Stage, Own, Passed, RoundPc
    <2> QED
      BY <1>1, <2>1, <2>2 DEF Unflushed, Inv, Private
  <1>8. \A i : /\ ~Taken(i) /\ (Flushed(i) <=> i \in taskCnt .. taskCnt + taskCntNew - 1)
               /\ i \notin workIdx .. taskCnt - 1
    BY <1>1, <1>5, <1>7 DEF Taken, Flushed
  <1>9. \A i : i \in Queued <=> i \in taskCnt .. taskCnt + taskCntNew - 1
    BY <1>1, <1>3, <1>8, QueuedAre
  <1>10. \A i : i \in Queued' <=> i \in 0 .. taskCntNew - 1
    BY <1>2, <1>3, QueuedAre
  <1>11. \A i \in 0 .. taskCntNew - 1 : buf'[i] = buf[taskCnt + i]
    <2> TAKE i \in 0 .. taskCntNew - 1
    <2>1. i < taskCntNew /\ i \in 0 .. QueueCap - 1
      BY <1>1, <1>5, <1>6
    <2> QED
      BY <1>2, <1>5, <2>1
  <1> QED
    BY <1>1, <1>9, <1>10, <1>11

-----------------------------------------------------------------------------
(* Steps that deliver nothing and dispatch nothing *)

LEMMA TasksStay ==
  ASSUME Queued' = Queued, stack' = stack, wo' = wo, buf' = buf
  PROVE  Tasks' = Tasks /\ \A h \in Tasks : PlaceOf(h)' = PlaceOf(h)
  <1>1. \A h : h \in Tasks' <=> h \in Tasks
    BY TasksAre
  <1>2. \A h \in Tasks : PlaceOf(h)' = PlaceOf(h)
    <2> TAKE h \in Tasks
    <2>1. ASSUME NEW i, h = <<"queued", i, 0>>
          PROVE  PlaceOf(h)' = PlaceOf(h)
      BY <2>1 DEF PlaceOf
    <2>2. ASSUME NEW v, NEW i, h = <<"stacked", v, i>> \/ h = <<"unflushed", v, i>>
          PROVE  PlaceOf(h)' = PlaceOf(h)
      BY <2>2 DEF PlaceOf
    <2> QED
      BY <2>1, <2>2, TasksAre
  <1> QED
    BY <1>1, <1>2

LEMMA HandsStay ==
  ASSUME \A v \in Worker : /\ pc'[v] = "resolve" <=> pc[v] = "resolve"
                           /\ pc[v] = "resolve" => res'[v] = res[v]
  PROVE  Hands' = Hands /\ \A h \in Hands : PlaceOf(h)' = PlaceOf(h)
  <1>1. \A h : h \in Hands' <=> h \in Hands
    BY HandsAre
  <1>2. \A h \in Hands : PlaceOf(h)' = PlaceOf(h)
    <2> TAKE h \in Hands
    <2>1. PICK v \in Worker : pc[v] = "resolve" /\ h = <<"resolving", v, 0>>
      BY HandsAre
    <2> QED
      BY <2>1 DEF PlaceOf
  <1> QED
    BY <1>1, <1>2

LEMMA ContsStay ==
  ASSUME \A v \in Worker : DOMAIN cells'[v] = DOMAIN cells[v],
         \A v \in Worker : \A n \in DOMAIN cells[v] :
            /\ cells'[v][n].ret = cells[v][n].ret
            /\ Open(v, n)' <=> Open(v, n)
  PROVE  Conts' = Conts /\ \A h \in Conts : PlaceOf(h)' = PlaceOf(h)
  <1>1. \A h : h \in Conts' <=> h \in Conts
    <2> TAKE h
    <2> QED
      BY ContsAre
  <1>2. \A h \in Conts : PlaceOf(h)' = PlaceOf(h)
    <2> TAKE h \in Conts
    <2>1. PICK v \in Worker : \E n \in DOMAIN cells[v] : h = <<"cell", v, n>>
      BY ContsAre
    <2>2. PICK n \in DOMAIN cells[v] : h = <<"cell", v, n>>
      BY <2>1
    <2> QED
      BY <2>2 DEF PlaceOf
  <1> QED
    BY <1>1, <1>2

LEMMA OpenStay ==
  ASSUME cells' = cells,
         \A v \in Worker : /\ pc'[v] = "fire" <=> pc[v] = "fire"
                           /\ pc[v] = "fire" => res'[v] = res[v]
  PROVE  \A v, n : Open(v, n)' <=> Open(v, n)
  BY DEF Open

LEMMA AllStay ==
  ASSUME OneEach, Tasks' = Tasks, Hands' = Hands, Conts' = Conts, Waiting' = Waiting,
         \A h \in Tasks : PlaceOf(h)' = PlaceOf(h),
         \A h \in Hands : PlaceOf(h)' = PlaceOf(h),
         \A h \in Conts : PlaceOf(h)' = PlaceOf(h)
  PROVE  OneEach'
  BY DEF OneEach, Carriers

LEMMA WaitingStay ==
  ASSUME cells' = cells, result' = result
  PROVE  Waiting' = Waiting
  <1>1. Places' = Places
    BY PlacesNow
  <1>2. \A r : Delivered(r)' <=> Delivered(r)
    BY DEF Delivered, CellAt, Root, None
  <1> QED
    BY <1>1, <1>2 DEF Waiting

\* The steps that only move a worker on.
Moves(w) == \/ Arrive(w) \/ Pass(w) \/ Check(w) \/ NextRound(w) \/ Again(w) \/ Grab(w)
            \/ DescendEnd(w) \/ Finish(w) \/ Flush(w) \/ (Compact(w) /\ w # 0)

LEMMA MovesIs ==
  ASSUME HInv, NEW w \in Worker, Moves(w)
  PROVE  /\ stack' = stack /\ wo' = wo /\ buf' = buf /\ cells' = cells /\ result' = result
         /\ program' = program
         /\ pc[w] \notin {"resolve", "count", "fire"} /\ pc'[w] \notin {"resolve", "finish", "count", "fire"}
         /\ \A v \in Worker : v # w => pc'[v] = pc[v] /\ res'[v] = res[v]
  <1>1. /\ Inv /\ Private(w) /\ Step(w)
        /\ pc \in [Worker -> RoundPc \cup BarrierPc \cup {"check", "next", "compact", "again", "quit"}]
    BY DEF HInv, Inv, TypeOK, Moves, Step
  <1>2. stack' = stack /\ wo' = wo /\ buf' = buf /\ cells' = cells /\ result' = result /\ program' = program
    BY DEF Moves, Arrive, Pass, Check, NextRound, Compact, Again, Grab, DescendEnd, Finish, Flush, queue, answer
  <1>3. CASE Arrive(w) \/ Pass(w)
    <2>1. AtBarrier(w) /\ (pc' = pc \/ pc' = [pc EXCEPT ![w] = After(pc[w])])
      BY <1>1, <1>3 DEF Arrive, Pass, Goto, B!Leave, Private
    <2>2. pc[w] \notin {"resolve", "count", "fire"} /\ pc'[w] \notin {"resolve", "finish", "count", "fire"}
      BY <1>1, <2>1 DEF AtBarrier, After
    <2> QED
      BY <1>1, <1>2, <2>2, OthersPrivate
  <1>4. CASE Check(w) \/ NextRound(w) \/ Compact(w) \/ Again(w) \/ Grab(w) \/ DescendEnd(w) \/ Flush(w)
    <2>1. pc[w] \notin {"resolve", "count", "fire"} /\ pc'[w] \notin {"resolve", "finish", "count", "fire"}
      BY <1>1, <1>4 DEF Check, NextRound, Compact, Again, Grab, DescendEnd, Flush, NextTask, Goto
    <2> QED
      BY <1>1, <1>2, <2>1, OthersPrivate
  <1>5. CASE Finish(w)
    <2>1. pc[w] = "finish" /\ \E l \in {"descend", "flush", "grab", "take"} : pc' = [pc EXCEPT ![w] = l]
      BY <1>5, DealtIs DEF Finish
    <2>2. pc[w] \notin {"resolve", "count", "fire"} /\ pc'[w] \notin {"resolve", "finish", "count", "fire"}
      BY <1>1, <2>1
    <2> QED
      BY <1>1, <1>2, <2>2, OthersPrivate
  <1> QED
    BY <1>3, <1>4, <1>5 DEF Moves

LEMMA HoldsMoves ==
  ASSUME HInv, Inv', NEW w \in Worker, Moves(w)
  PROVE  OneEach'
  <1>1. /\ stack' = stack /\ wo' = wo /\ buf' = buf /\ cells' = cells /\ result' = result
        /\ pc[w] \notin {"resolve", "count", "fire"} /\ pc'[w] \notin {"resolve", "finish", "count", "fire"}
        /\ \A v \in Worker : v # w => pc'[v] = pc[v] /\ res'[v] = res[v]
    BY MovesIs
  <1>2. Queued' = Queued
    <2>1. Step(w) /\ ~TakeSeed(w) /\ ~TakeWork(w) /\ ~Copy(w)
      <3>1. pc[w] \notin {"take", "copy", "copyLast"}
        <4>1. AtBarrier(w) => pc[w] \notin {"take", "copy", "copyLast"}
          BY DEF AtBarrier
        <4>2. CASE Pass(w)
          BY <4>1, <4>2 DEF Pass, B!Leave, HInv, Inv, Private
        <4> QED
          BY <4>1, <4>2 DEF Moves, Arrive, Check, NextRound, Compact, Again, Grab, DescendEnd, Finish, Flush
      <3> QED
        BY <3>1 DEF Moves, Step, TakeSeed, TakeWork, Copy
    <2>2. ~(w = 0 /\ Compact(w))
      <3>1. CASE Pass(w)
        BY <3>1 DEF Pass, Compact, B!Leave, HInv, Inv, Private, AtBarrier
      <3> QED
        BY <3>1 DEF Moves, Compact, Arrive, AtBarrier, Check, NextRound, Again, Grab, DescendEnd, Finish, Flush
    <2> QED
      BY <2>1, <2>2, QueuedStay
  <1>3. \A v, n : Open(v, n)' <=> Open(v, n)
    BY <1>1, OpenStay
  <1>4. /\ Tasks' = Tasks /\ \A h \in Tasks : PlaceOf(h)' = PlaceOf(h)
    BY <1>1, <1>2, TasksStay
  <1>5. /\ Hands' = Hands /\ \A h \in Hands : PlaceOf(h)' = PlaceOf(h)
    BY <1>1, HandsStay
  <1>6. /\ Conts' = Conts /\ \A h \in Conts : PlaceOf(h)' = PlaceOf(h)
    BY <1>1, <1>3, ContsStay
  <1>7. Waiting' = Waiting
    BY <1>1, WaitingStay
  <1> QED
    BY <1>4, <1>5, <1>6, <1>7, AllStay DEF HInv

-----------------------------------------------------------------------------
(* Delivering a value *)

\* WriteSlot and Count change only cell n of v, which waits for a value at
\* place <<v, n, i>>.
SlotStep(w, v, n, i) ==
  /\ v \in Worker /\ n \in DOMAIN cells[v] /\ i \in 1 .. cells[v][n].kids
  /\ res[w].ret = <<v, n, i>> /\ cells[v][n] \in CellSet
  /\ \A u \in Worker : DOMAIN cells'[u] = DOMAIN cells[u]
  /\ \A u \in Worker : \A m \in DOMAIN cells[u] :
       /\ cells'[u][m].kids = cells[u][m].kids /\ cells'[u][m].ret = cells[u][m].ret
       /\ cells'[u][m].cont = cells[u][m].cont
       /\ u # v \/ m # n => cells'[u][m] = cells[u][m]
  /\ WriteSlot(w) => /\ cells'[v][n].pending = cells[v][n].pending
                     /\ cells'[v][n].child = [cells[v][n].child EXCEPT ![i] = res[w].val]
  /\ Count(w) => /\ cells'[v][n].child = cells[v][n].child
                 /\ cells'[v][n].pending = cells[v][n].pending - 1

LEMMA SlotIs ==
  ASSUME Inv, NEW w \in Worker, WriteSlot(w) \/ Count(w)
  PROVE  SlotStep(w, res[w].ret[1], res[w].ret[2], res[w].ret[3])
  <1> DEFINE r == res[w].ret
             v == r[1]
             n == r[2]
             old == cells[v][n]
  <1>1. r \in Places /\ r # Root /\ TypeOK /\ cells \in [Worker -> Seq(CellSet)]
    BY DEF WriteSlot, Count, Inv, Private, TypeOK
  <1>2. /\ v \in Worker /\ n \in DOMAIN cells[v] /\ r[3] \in 1 .. old.kids
        /\ old \in CellSet /\ cells[v] \in Seq(CellSet) /\ r = <<r[1], r[2], r[3]>>
    BY <1>1, PlaceIs DEF CellAt
  <1> DEFINE c1 == [old EXCEPT !.child = [old.child EXCEPT ![r[3]] = res[w].val]]
             c2 == [old EXCEPT !.pending = old.pending - 1]
  <1>3. /\ c1.kids = old.kids /\ c1.ret = old.ret /\ c1.pending = old.pending
        /\ c1.child = [old.child EXCEPT ![r[3]] = res[w].val]
        /\ c2.kids = old.kids /\ c2.ret = old.ret /\ c2.child = old.child
        /\ c2.pending = old.pending - 1
        /\ c1.cont = old.cont /\ c2.cont = old.cont
    BY <1>2 DEF CellSet
  <1>4. /\ WriteSlot(w) => cells' = [cells EXCEPT ![v] = [cells[v] EXCEPT ![n] = c1]]
        /\ Count(w) => cells' = [cells EXCEPT ![v] = [cells[v] EXCEPT ![n] = c2]]
    BY DEF WriteSlot, Count
  <1> HIDE DEF c1, c2, old, v, n, r
  <1>5. ASSUME NEW c, c.kids = old.kids, c.ret = old.ret, c.cont = old.cont,
               cells' = [cells EXCEPT ![v] = [cells[v] EXCEPT ![n] = c]]
        PROVE  /\ \A u \in Worker : DOMAIN cells'[u] = DOMAIN cells[u]
               /\ \A u \in Worker : \A m \in DOMAIN cells[u] :
                    /\ cells'[u][m].kids = cells[u][m].kids /\ cells'[u][m].ret = cells[u][m].ret
                    /\ cells'[u][m].cont = cells[u][m].cont
                    /\ u # v \/ m # n => cells'[u][m] = cells[u][m]
               /\ cells'[v][n] = c
    <2>1. cells'[v] = [cells[v] EXCEPT ![n] = c] /\ \A u \in Worker : u # v => cells'[u] = cells[u]
      BY <1>1, <1>2, <1>5
    <2>2. /\ DOMAIN cells'[v] = DOMAIN cells[v] /\ cells'[v][n] = c
          /\ \A m \in DOMAIN cells[v] : m # n => cells'[v][m] = cells[v][m]
      BY <1>2, <2>1
    <2>3. cells[v][n] = old
      BY DEF old
    <2> QED
      BY <1>5, <2>1, <2>2, <2>3
  <1>6. CASE WriteSlot(w)
    <2>1. /\ \A u \in Worker : DOMAIN cells'[u] = DOMAIN cells[u]
          /\ \A u \in Worker : \A m \in DOMAIN cells[u] :
               /\ cells'[u][m].kids = cells[u][m].kids /\ cells'[u][m].ret = cells[u][m].ret
               /\ cells'[u][m].cont = cells[u][m].cont
               /\ u # v \/ m # n => cells'[u][m] = cells[u][m]
          /\ cells'[v][n] = c1
      BY <1>3, <1>4, <1>5, <1>6
    <2>2. ~Count(w)
      BY <1>6 DEF WriteSlot, Count
    <2> QED
      BY <1>2, <1>3, <2>1, <2>2 DEF old, v, n, r, SlotStep
  <1>7. CASE Count(w)
    <2>1. /\ \A u \in Worker : DOMAIN cells'[u] = DOMAIN cells[u]
          /\ \A u \in Worker : \A m \in DOMAIN cells[u] :
               /\ cells'[u][m].kids = cells[u][m].kids /\ cells'[u][m].ret = cells[u][m].ret
               /\ cells'[u][m].cont = cells[u][m].cont
               /\ u # v \/ m # n => cells'[u][m] = cells[u][m]
          /\ cells'[v][n] = c2
      BY <1>3, <1>4, <1>5, <1>7
    <2>2. ~WriteSlot(w)
      BY <1>7 DEF WriteSlot, Count
    <2> QED
      BY <1>2, <1>3, <2>1, <2>2 DEF old, v, n, r, SlotStep
  <1> QED
    BY <1>6, <1>7

LEMMA DeliveredIs ==
  ASSUME NEW v, NEW n, NEW i
  PROVE  /\ Delivered(<<v, n, i>>) <=> cells[v][n].child[i] # None
         /\ Delivered(<<v, n, i>>)' <=> cells'[v][n].child[i] # None
         /\ Delivered(Root) <=> result # None
         /\ Delivered(Root)' <=> result' # None
  <1>1. <<v, n, i>> # Root /\ Root' = Root /\ None' = None
    BY DEF Root, None
  <1> QED
    BY <1>1 DEF Delivered, CellAt

\* Places stay when no cell comes.
LEMMA PlacesStay ==
  ASSUME \A u \in Worker : DOMAIN cells'[u] = DOMAIN cells[u],
         \A u \in Worker : \A m \in DOMAIN cells[u] : cells'[u][m].kids = cells[u][m].kids
  PROVE  Places' = Places
  <1>1. ASSUME NEW r
        PROVE  r \in Places' <=> r \in Places
    BY PlacesIs, PlacesNow
  <1> QED
    BY <1>1

\* Which places exist.
LEMMA PlaceCases ==
  ASSUME NEW r
  PROVE  r \in Places <=> \/ r = Root
                          \/ \E v \in Worker : \E n \in DOMAIN cells[v] : \E i \in 1 .. cells[v][n].kids :
                               r = <<v, n, i>>
  BY PlacesIs, PlacesNow DEF Root

LEMMA HoldsDeliver ==
  ASSUME HInv, Inv', NEW w \in Worker, ResolveRoot(w) \/ WriteSlot(w)
  PROVE  OneEach' /\ ~Delivered(res[w].ret)
  <1> DEFINE o == <<"resolving", w, 0>>
             r == res[w].ret
  <1>1. /\ Inv /\ OneEach /\ pc[w] = "resolve" /\ Step(w) /\ res' = res
        /\ stack' = stack /\ wo' = wo /\ buf' = buf /\ res[w].val # None
        /\ pc \in [Worker -> RoundPc \cup BarrierPc \cup {"check", "next", "compact", "again", "quit"}]
    BY DEF HInv, Inv, TypeOK, Step, ResolveRoot, WriteSlot, Counting, queue
  <1>2. pc' = [pc EXCEPT ![w] = IF ResolveRoot(w) THEN "finish" ELSE "count"]
    BY DEF ResolveRoot, WriteSlot, Goto
  <1>3. \A v \in Worker : /\ pc'[v] = "fire" <=> pc[v] = "fire"
                          /\ pc'[v] = "resolve" <=> pc[v] = "resolve" /\ v # w
    BY <1>1, <1>2
  <1>4. Queued' = Queued
    BY <1>1, QueuedStay DEF ResolveRoot, WriteSlot, TakeSeed, TakeWork, Copy, Compact
  <1>5. /\ Tasks' = Tasks /\ \A h \in Tasks : PlaceOf(h)' = PlaceOf(h)
    BY <1>1, <1>4, TasksStay
  <1>6. /\ Conts' = Conts /\ \A h \in Conts : PlaceOf(h)' = PlaceOf(h)
        /\ Places' = Places
        /\ \A q \in Places : Delivered(q)' <=> Delivered(q) \/ q = r
        /\ r \in Places
    <2>1. CASE ResolveRoot(w)
      <3>1. cells' = cells /\ r = Root /\ result' = res[w].val
        BY <2>1 DEF ResolveRoot
      <3>2. \A v, n : Open(v, n)' <=> Open(v, n)
        BY <1>1, <1>3, <3>1, OpenStay
      <3>3. /\ Conts' = Conts /\ \A h \in Conts : PlaceOf(h)' = PlaceOf(h)
        BY <3>1, <3>2, ContsStay
      <3>4. Places' = Places /\ r \in Places
        BY <3>1, PlacesNow, PlaceCases
      <3>5. Delivered(Root)'
        BY <1>1, <3>1, DeliveredIs
      <3>6. \A v, n, i : Delivered(<<v, n, i>>)' <=> Delivered(<<v, n, i>>)
        BY <3>1, DeliveredIs
      <3>7. \A q \in Places : Delivered(q)' <=> Delivered(q) \/ q = r
        <4> TAKE q \in Places
        <4>1. CASE q = Root
          <5>1. Delivered(q)'
            BY <3>5, <4>1 DEF Delivered
          <5> QED
            BY <3>1, <4>1, <5>1
        <4>2. CASE q # Root
          <5>1. Delivered(q)' <=> Delivered(q)
            BY <3>1, <4>2 DEF Delivered, CellAt, Root, None
          <5> QED
            BY <3>1, <4>2, <5>1
        <4> QED
          BY <4>1, <4>2
      <3> QED
        BY <3>3, <3>4, <3>7
    <2>2. CASE WriteSlot(w)
      <3> DEFINE v == r[1]
                 n == r[2]
                 i == r[3]
      <3>1. /\ v \in Worker /\ n \in DOMAIN cells[v] /\ i \in 1 .. cells[v][n].kids
            /\ r = <<v, n, i>> /\ cells[v][n] \in CellSet
            /\ \A u \in Worker : DOMAIN cells'[u] = DOMAIN cells[u]
            /\ \A u \in Worker : \A m \in DOMAIN cells[u] :
                 /\ cells'[u][m].kids = cells[u][m].kids /\ cells'[u][m].ret = cells[u][m].ret
                 /\ u # v \/ m # n => cells'[u][m] = cells[u][m]
            /\ cells'[v][n].pending = cells[v][n].pending
            /\ cells'[v][n].child = [cells[v][n].child EXCEPT ![i] = res[w].val]
        <4>1. SlotStep(w, v, n, i)
          <5>1. SlotStep(w, res[w].ret[1], res[w].ret[2], res[w].ret[3])
            BY <1>1, <2>2, SlotIs
          <5> QED
            BY <5>1
        <4> HIDE DEF v, n, i
        <4> QED
          BY <2>2, <4>1 DEF SlotStep
      <3> HIDE DEF v, n, i
      <3>2. \A u \in Worker : \A m \in DOMAIN cells[u] : cells'[u][m].pending = cells[u][m].pending
        BY <3>1
      <3>3. \A u \in Worker : \A m \in DOMAIN cells[u] : Open(u, m)' <=> Open(u, m)
        BY <1>1, <1>3, <3>2 DEF Open
      <3>4. /\ Conts' = Conts /\ \A h \in Conts : PlaceOf(h)' = PlaceOf(h)
        BY <3>1, <3>3, ContsStay
      <3>5. Places' = Places
        BY <3>1, PlacesStay
      <3>6. r \in Places /\ r # Root
        BY <2>2, <3>1, PlaceCases DEF WriteSlot
      <3>7. result' = result
        BY <2>2 DEF WriteSlot, answer
      <3>8. \A q \in Places : Delivered(q)' <=> Delivered(q) \/ q = r
        <4> TAKE q \in Places
        <4>1. CASE q = Root
          BY <3>6, <3>7, <4>1, DeliveredIs
        <4>2. ASSUME NEW u \in Worker, NEW m \in DOMAIN cells[u], NEW j \in 1 .. cells[u][m].kids,
                     q = <<u, m, j>>
              PROVE  Delivered(q)' <=> Delivered(q) \/ q = r
          <5>1. CASE u # v \/ m # n
            <6>1. cells'[u][m] = cells[u][m] /\ q # r
              BY <3>1, <4>2, <5>1
            <6> QED
              BY <4>2, <6>1, DeliveredIs
          <5>2. CASE u = v /\ m = n
            <6>1. cells[v][n].child \in [1 .. 2 -> Val] /\ j \in 1 .. 2
              BY <3>1, <4>2, <5>2 DEF CellSet
            <6>2. cells'[v][n].child[j] = IF i = j THEN res[w].val ELSE cells[v][n].child[j]
              BY <3>1, <6>1
            <6>3. Delivered(q)' <=> cells'[v][n].child[j] # None
              BY <4>2, <5>2, DeliveredIs
            <6>4. Delivered(q) <=> cells[v][n].child[j] # None
              BY <4>2, <5>2, DeliveredIs
            <6>5. q = r <=> i = j
              BY <3>1, <4>2, <5>2
            <6> QED
              BY <1>1, <6>2, <6>3, <6>4, <6>5
          <5> QED
            BY <5>1, <5>2
        <4> QED
          BY <4>1, <4>2, PlaceCases
      <3> QED
        BY <3>4, <3>5, <3>6, <3>8
    <2> QED
      BY <2>1, <2>2
  <1>7. \A h : h \in Hands' <=> h \in Hands /\ h # o
    BY <1>1, <1>3, HandsAre
  <1>8. \A h \in Hands : PlaceOf(h)' = PlaceOf(h)
    <2> TAKE h \in Hands
    <2>1. PICK v \in Worker : pc[v] = "resolve" /\ h = <<"resolving", v, 0>>
      BY HandsAre
    <2> QED
      BY <1>1, <2>1 DEF PlaceOf
  <1>9. o \notin Tasks /\ o \notin Conts /\ o \in Carriers /\ PlaceOf(o) = r
    <2>1. o \notin Tasks
      BY TasksAre
    <2>2. o \notin Conts
      BY ContsAre
    <2>3. o \in Hands
      BY <1>1, HandsAre
    <2> QED
      BY <2>1, <2>2, <2>3, PlaceIsOf DEF Carriers
  <1> HIDE DEF o, r
  <1>10. Carriers' = (Carriers \ {o}) \cup {}
    BY <1>5, <1>6, <1>7, <1>9 DEF Carriers
  <1>11. \A h \in Carriers : PlaceOf(h)' = PlaceOf(h)
    BY <1>5, <1>6, <1>8 DEF Carriers
  <1>12. \A q : q \in Waiting' <=> q \in Waiting /\ PlaceOf(o) # q
    BY <1>6, <1>9 DEF Waiting
  <1>13. OneEach'
    <2> DEFINE O == {o}
               N == {}
    <2>1. Carriers' = (Carriers \ O) \cup N
      BY <1>10
    <2>2. \A h \in Carriers \ O : PlaceOf(h)' = PlaceOf(h)
      BY <1>11
    <2>3. /\ \A g, h \in N : PlaceOf(g)' = PlaceOf(h)' => g = h
          /\ \A h \in N : \/ PlaceOf(h)' \notin Waiting
                          \/ \E p \in O \cap Carriers : PlaceOf(h)' = PlaceOf(p)
          /\ N \cap (Carriers \ O) = {}
      OBVIOUS
    <2>4. \A q : q \in Waiting' <=> \/ q \in Waiting /\ \A p \in O \cap Carriers : PlaceOf(p) # q
                                    \/ \E h \in N : q = PlaceOf(h)'
      BY <1>9, <1>12
    <2> HIDE DEF O, N
    <2>5. Replaced(O, N)
      BY <2>1, <2>2, <2>3, <2>4 DEF Replaced
    <2> QED
      BY <1>1, <2>5, Replace
  <1>14. r \in Waiting
    BY <1>1, <1>9 DEF OneEach
  <1> QED
    BY <1>13, <1>14 DEF r, Waiting

-----------------------------------------------------------------------------
(* Counting down *)

\* What the count of a cell says of its children.
LEMMA AwaitedIs ==
  ASSUME Inv, Joins, NEW v \in Worker, NEW n \in DOMAIN cells[v]
  PROVE  /\ IsFiniteSet(Awaited(v, n)) /\ cells[v][n].pending = Cardinality(Awaited(v, n))
         /\ cells[v][n].pending \in Nat
         /\ cells[v][n].pending = 0 <=> Awaited(v, n) = {}
         /\ \A i \in Awaited(v, n) : cells[v][n].pending = 1 => Awaited(v, n) = {i}
  <1>5. \A m \in Int : IsFiniteSet(1 .. m)
    BY FS_Interval
  <1> DEFINE S == Awaited(v, n)
  <1>1. IsFiniteSet(S)
    <2>1. cells[v][n] \in CellSet
      BY ElementOfSeq, LenProperties DEF Inv, TypeOK
    <2>2. cells[v][n].kids \in Int
      BY <2>1 DEF CellSet
    <2>3. IsFiniteSet(1 .. cells[v][n].kids)
      BY <2>2, <1>5
    <2>4. S \in SUBSET (1 .. cells[v][n].kids)
      BY DEF Awaited
    <2> HIDE DEF S
    <2> QED
      BY <2>3, <2>4, FS_Subset
  <1>2. cells[v][n].pending = Cardinality(S)
    BY DEF Joins
  <1> HIDE DEF S
  <1>3. Cardinality(S) \in Nat /\ (Cardinality(S) = 0 <=> S = {})
    BY <1>1, FS_CardinalityType, FS_EmptySet
  <1>4. ASSUME NEW i \in S, Cardinality(S) = 1
        PROVE  S = {i}
    <2>1. IsFiniteSet(S \ {i}) /\ Cardinality(S \ {i}) = Cardinality(S) - 1
      BY <1>1, FS_RemoveElement
    <2>2. Cardinality(S \ {i}) = 0
      BY <1>4, <2>1
    <2>3. S \ {i} = {}
      BY <2>1, <2>2, FS_EmptySet
    <2> QED
      BY <2>3
  <1> QED
    BY <1>1, <1>2, <1>3, <1>4 DEF S

\* Who counts down, and where.
CountStep(w, v, n, i) ==
  /\ i \in Awaited(v, n) /\ cells[v][n].pending \in Nat \ {0}
  /\ ~ \E u \in Worker : pc[u] = "fire" /\ res[u].ret[1] = v /\ res[u].ret[2] = n
  /\ IF cells[v][n].pending = 1
     THEN pc'[w] = "fire" /\ res' = res
     ELSE pc'[w] \notin {"resolve", "finish", "count", "fire"} /\ res'[w] = NoRes
  /\ \A u \in Worker : u # w => pc'[u] = pc[u] /\ res'[u] = res[u]

LEMMA CountIs ==
  ASSUME HInv, NEW w \in Worker, Count(w)
  PROVE  CountStep(w, res[w].ret[1], res[w].ret[2], res[w].ret[3])
  <1> DEFINE v == res[w].ret[1]
             n == res[w].ret[2]
             i == res[w].ret[3]
  <1>1. /\ Inv /\ Joins /\ pc[w] = "count" /\ Step(w) /\ TypeOK
        /\ pc \in [Worker -> RoundPc \cup BarrierPc \cup {"check", "next", "compact", "again", "quit"}]
    BY DEF HInv, Inv, TypeOK, Count, Step
  <1>2. /\ v \in Worker /\ n \in DOMAIN cells[v] /\ i \in 1 .. cells[v][n].kids
        /\ res[w].ret = <<v, n, i>>
    BY <1>1, SlotIs DEF SlotStep
  <1>3. CellAt(res[w].ret) = cells[v][n]
    BY DEF CellAt
  <1>4. /\ cells[v][n].pending = 1 => pc' = [pc EXCEPT ![w] = "fire"] /\ res' = res
        /\ cells[v][n].pending # 1 => Resolved(w, wo[w])
    BY <1>3 DEF Count, Goto
  <1> HIDE DEF v, n, i
  <1>5. i \in Awaited(v, n)
    BY <1>1, <1>2 DEF Awaited
  <1>6. cells[v][n].pending \in Nat /\ cells[v][n].pending # 0
    BY <1>1, <1>2, <1>5, AwaitedIs
  <1>7. ~ \E u \in Worker : pc[u] = "fire" /\ res[u].ret[1] = v /\ res[u].ret[2] = n
    BY <1>6 DEF HInv, Firing, CellAt
  <1>8. IF cells[v][n].pending = 1
        THEN pc'[w] = "fire" /\ res' = res
        ELSE pc'[w] \notin {"resolve", "finish", "count", "fire"} /\ res'[w] = NoRes
    <2>1. CASE cells[v][n].pending = 1
      BY <1>1, <1>4, <2>1
    <2>2. CASE cells[v][n].pending # 1
      <3>1. /\ \E l \in {"descend", "flush", "grab", "take"} : pc' = [pc EXCEPT ![w] = l]
            /\ res' = [res EXCEPT ![w] = NoRes]
        BY <1>4, <2>2, DealtIs
      <3>2. pc'[w] \notin {"resolve", "finish", "count", "fire"} /\ res'[w] = NoRes
        BY <1>1, <3>1 DEF TypeOK
      <3> QED
        BY <2>2, <3>2
    <2> QED
      BY <2>1, <2>2
  <1>9. \A u \in Worker : u # w => pc'[u] = pc[u] /\ res'[u] = res[u]
    BY <1>1, OthersPrivate
  <1>10. CountStep(w, v, n, i)
    BY <1>5, <1>6, <1>7, <1>8, <1>9 DEF CountStep
  <1> QED
    BY <1>10 DEF v, n, i

LEMMA HoldsCount ==
  ASSUME HInv, Inv', NEW w \in Worker, Count(w)
  PROVE  OneEach'
  <1> DEFINE v == res[w].ret[1]
             n == res[w].ret[2]
             i == res[w].ret[3]
  <1>1. /\ Inv /\ OneEach /\ pc[w] = "count" /\ Step(w)
        /\ stack' = stack /\ wo' = wo /\ buf' = buf /\ result' = result
    BY DEF HInv, Inv, Step, Count, queue, answer
  <1>2. /\ v \in Worker /\ n \in DOMAIN cells[v] /\ res[w].ret = <<v, n, i>>
        /\ \A u \in Worker : DOMAIN cells'[u] = DOMAIN cells[u]
        /\ \A u \in Worker : \A m \in DOMAIN cells[u] :
             /\ cells'[u][m].kids = cells[u][m].kids /\ cells'[u][m].ret = cells[u][m].ret
             /\ u # v \/ m # n => cells'[u][m] = cells[u][m]
        /\ cells'[v][n].child = cells[v][n].child
        /\ cells'[v][n].pending = cells[v][n].pending - 1
    <2>1. SlotStep(w, v, n, i)
      <3>1. SlotStep(w, res[w].ret[1], res[w].ret[2], res[w].ret[3])
        BY <1>1, SlotIs
      <3> QED
        BY <3>1
    <2> HIDE DEF v, n, i
    <2> QED
      BY <2>1 DEF SlotStep
  <1>3. /\ cells[v][n].pending \in Nat \ {0}
        /\ IF cells[v][n].pending = 1
           THEN pc'[w] = "fire" /\ res' = res
           ELSE pc'[w] \notin {"resolve", "finish", "count", "fire"}
        /\ \A u \in Worker : u # w => pc'[u] = pc[u] /\ res'[u] = res[u]
    BY CountIs DEF CountStep
  <1> HIDE DEF v, n, i
  <1>4. Queued' = Queued
    BY <1>1, QueuedStay DEF Count, TakeSeed, TakeWork, Copy, Compact
  <1>5. /\ Tasks' = Tasks /\ \A h \in Tasks : PlaceOf(h)' = PlaceOf(h)
    BY <1>1, <1>4, TasksStay
  <1>6. /\ Hands' = Hands /\ \A h \in Hands : PlaceOf(h)' = PlaceOf(h)
    BY <1>1, <1>3, HandsStay
  <1>7. \A u \in Worker : \A m \in DOMAIN cells[u] : Open(u, m)' <=> Open(u, m)
    <2> TAKE u \in Worker
    <2> TAKE m \in DOMAIN cells[u]
    <2>1. CASE u # v \/ m # n
      <3>1. cells'[u][m].pending = cells[u][m].pending
        BY <1>2, <2>1
      <3>2. \A x \in Worker : (pc'[x] = "fire" /\ res'[x].ret[1] = u /\ res'[x].ret[2] = m)
                                <=> (pc[x] = "fire" /\ res[x].ret[1] = u /\ res[x].ret[2] = m)
        <4> TAKE x \in Worker
        <4>1. CASE x # w
          BY <1>3, <4>1
        <4>2. CASE x = w
          <5>1. pc[w] # "fire"
            BY <1>1
          <5>2. ~(pc'[w] = "fire" /\ res'[w].ret[1] = u /\ res'[w].ret[2] = m)
            <6>1. CASE cells[v][n].pending = 1
              BY <1>2, <1>3, <2>1, <6>1
            <6>2. CASE cells[v][n].pending # 1
              BY <1>3, <6>2
            <6> QED
              BY <6>1, <6>2
          <5> QED
            BY <4>2, <5>1, <5>2
        <4> QED
          BY <4>1, <4>2
      <3> QED
        BY <3>1, <3>2 DEF Open
    <2>2. CASE u = v /\ m = n
      <3>1. Open(u, m)
        BY <1>3, <2>2 DEF Open
      <3>2. CASE cells[v][n].pending = 1
        <4>1. pc'[w] = "fire" /\ res'[w].ret[1] = u /\ res'[w].ret[2] = m
          BY <1>2, <1>3, <2>2, <3>2
        <4>2. Open(u, m)'
          BY <4>1 DEF Open
        <4> QED
          BY <3>1, <4>2
      <3>3. CASE cells[v][n].pending # 1
        <4>1. cells'[u][m].pending > 0
          BY <1>2, <1>3, <2>2, <3>3
        <4>2. Open(u, m)'
          BY <4>1 DEF Open
        <4> QED
          BY <3>1, <4>2
      <3> QED
        BY <3>2, <3>3
    <2> QED
      BY <2>1, <2>2
  <1>8. /\ Conts' = Conts /\ \A h \in Conts : PlaceOf(h)' = PlaceOf(h)
    BY <1>2, <1>7, ContsStay
  <1>9. Waiting' = Waiting
    <2>1. Places' = Places
      BY <1>2, PlacesStay
    <2>2. \A q \in Places : Delivered(q)' <=> Delivered(q)
      <3> TAKE q \in Places
      <3>1. CASE q = Root
        BY <1>1, <3>1, DeliveredIs
      <3>2. ASSUME NEW u \in Worker, NEW m \in DOMAIN cells[u], NEW j, q = <<u, m, j>>
            PROVE  Delivered(q)' <=> Delivered(q)
        <4>1. cells'[u][m].child = cells[u][m].child
          BY <1>2
        <4> QED
          BY <3>2, <4>1, DeliveredIs
      <3> QED
        BY <3>1, <3>2, PlaceCases
    <2> QED
      BY <2>1, <2>2 DEF Waiting
  <1> QED
    BY <1>1, <1>5, <1>6, <1>8, <1>9, AllStay

-----------------------------------------------------------------------------
(* Moving tasks *)

LEMMA Kinds ==
  ASSUME NEW h
  PROVE  /\ h \in Tasks \/ h \in Tasks' => h[1] \in {"queued", "stacked", "unflushed"}
         /\ h \in Hands \/ h \in Hands' => h[1] = "resolving"
         /\ h \in Conts \/ h \in Conts' => h[1] = "cell"
  <1>1. h \in Conts => h[1] = "cell"
    BY ContsAre
  <1>2. h \in Conts' => h[1] = "cell"
    BY ContsAre
  <1> QED
    BY <1>1, <1>2, TasksAre, HandsAre

LEMMA Apart ==
  /\ Tasks \cap Hands = {} /\ Tasks \cap Conts = {} /\ Hands \cap Conts = {}
  /\ Tasks' \cap Hands' = {} /\ Tasks' \cap Conts' = {} /\ Hands' \cap Conts' = {}
  BY Kinds

\* The hands and the cells that hold places stay.
Keeps == /\ Hands' = Hands /\ \A h \in Hands : PlaceOf(h)' = PlaceOf(h)
         /\ Conts' = Conts /\ \A h \in Conts : PlaceOf(h)' = PlaceOf(h)
         /\ Waiting' = Waiting

\* The tasks O move to N.
Moved(O, N) ==
  /\ O \subseteq Tasks /\ Tasks' = (Tasks \ O) \cup N /\ N \cap (Tasks \ O) = {}
  /\ \A h \in Tasks \ O : PlaceOf(h)' = PlaceOf(h)
  /\ \A g, h \in N : PlaceOf(g)' = PlaceOf(h)' => g = h
  /\ \A h \in N : \E o \in O : PlaceOf(h)' = PlaceOf(o)
  /\ \A o \in O : \E h \in N : PlaceOf(h)' = PlaceOf(o)

LEMMA MoveTasks ==
  ASSUME OneEach, Keeps, NEW O, NEW N, Moved(O, N)
  PROVE  OneEach'
  <1>1. Carriers' = (Carriers \ O) \cup N
    BY Apart DEF Carriers, Keeps, Moved
  <1>2. \A h \in Carriers \ O : PlaceOf(h)' = PlaceOf(h)
    BY DEF Carriers, Keeps, Moved
  <1>3. O \subseteq Carriers
    BY DEF Carriers, Keeps, Moved
  <1>4. \A h \in N : \/ PlaceOf(h)' \notin Waiting
                     \/ \E o \in O \cap Carriers : PlaceOf(h)' = PlaceOf(o)
    BY <1>3 DEF Moved
  <1>5. N \cap (Carriers \ O) = {}
    BY Apart DEF Carriers, Keeps, Moved
  <1>6. \A r : r \in Waiting' <=> \/ r \in Waiting /\ \A o \in O \cap Carriers : PlaceOf(o) # r
                                  \/ \E h \in N : r = PlaceOf(h)'
    <2>1. \A o \in O : PlaceOf(o) \in Waiting
      BY <1>3 DEF OneEach
    <2> QED
      BY <1>3, <2>1 DEF Keeps, Moved
  <1>7. \A g, h \in N : PlaceOf(g)' = PlaceOf(h)' => g = h
    BY DEF Moved
  <1>8. Replaced(O, N)
    BY ONLY <1>1, <1>2, <1>4, <1>5, <1>6, <1>7 DEF Replaced
  <1> QED
    BY <1>8, Replace

LEMMA HoldsTakeWork ==
  ASSUME HInv, Inv', NEW w \in Worker, TakeWork(w)
  PROVE  OneEach'
  <1>1. /\ Inv /\ OneEach /\ pc[w] = "take" /\ Step(w) /\ Private(w) /\ TypeOK
        /\ wo' = wo /\ buf' = buf /\ result' = result /\ cells' = cells /\ res' = res
        /\ stack \in [Worker -> Seq(TaskSet)]
        /\ pc \in [Worker -> RoundPc \cup BarrierPc \cup {"check", "next", "compact", "again", "quit"}]
    BY DEF HInv, Inv, TypeOK, Step, TakeWork, queue, answer
  <1>2. PICK x \in Queued : x = Head(grab[w]) /\ Queued' = Queued \ {x}
    BY QueuedTake
  <1>3. stack[w] = <<>>
    BY <1>1 DEF Private, RunPc
  <1>4. /\ stack'[w] = <<buf[x]>> /\ pc' = [pc EXCEPT ![w] = "descend"]
        /\ \A v \in Worker : v # w => stack'[v] = stack[v]
    BY <1>1, <1>2 DEF TakeWork, Goto
  <1>5. DOMAIN stack[w] = {} /\ DOMAIN stack'[w] = {1} /\ stack'[w][1] = buf[x]
    <2>1. \A y : DOMAIN <<y>> = {1} /\ <<y>>[1] = y
      OBVIOUS
    <2> QED
      BY <1>3, <1>4, <2>1
  <1>6. \A v \in Worker : /\ pc'[v] = "fire" <=> pc[v] = "fire"
                          /\ pc'[v] = "resolve" <=> pc[v] = "resolve"
    BY <1>1, <1>4
  <1>7. \A v, n : Open(v, n)' <=> Open(v, n)
    BY <1>1, <1>6, OpenStay
  <1>8. /\ Conts' = Conts /\ \A h \in Conts : PlaceOf(h)' = PlaceOf(h)
    BY <1>1, <1>7, ContsStay
  <1>9. /\ Hands' = Hands /\ \A h \in Hands : PlaceOf(h)' = PlaceOf(h)
    BY <1>1, <1>6, HandsStay
  <1>10. Waiting' = Waiting
    BY <1>1, WaitingStay
  <1>20. PICK O : O = {<<"queued", x, 0>>}
    OBVIOUS
  <1>21. PICK N : N = {<<"stacked", w, 1>>}
    OBVIOUS
  <1>11. O \subseteq Tasks
    BY <1>2, <1>20, TasksAre
  <1>12. Tasks' = (Tasks \ O) \cup N
    <2>1. \A i : i \in Queued' <=> i \in Queued /\ i # x
      BY <1>2
    <2>2. \A v \in Worker : \A i : i \in DOMAIN stack'[v] <=> i \in DOMAIN stack[v] \/ (v = w /\ i = 1)
      BY <1>4, <1>5
    <2>3. ASSUME NEW h
          PROVE  h \in Tasks' <=> h \in (Tasks \ O) \cup N
      <3>1. CASE \E i : h = <<"queued", i, 0>>
        BY <1>20, <1>21, <2>1, <3>1, TasksAre
      <3>2. CASE \E v, i : h = <<"stacked", v, i>>
        BY <1>20, <1>21, <2>2, <3>2, TasksAre
      <3>3. CASE \E v, i : h = <<"unflushed", v, i>>
        BY <1>1, <1>20, <1>21, <3>3, TasksAre
      <3>4. CASE ~ \/ \E i : h = <<"queued", i, 0>>
                   \/ \E v, i : h = <<"stacked", v, i>>
                   \/ \E v, i : h = <<"unflushed", v, i>>
        BY <1>20, <1>21, <3>4, TasksAre
      <3> QED
        BY <3>1, <3>2, <3>3, <3>4
    <2> QED
      BY <2>3
  <1>13. N \cap (Tasks \ O) = {}
    BY <1>5, <1>21, TasksAre
  <1>14. \A h \in Tasks \ O : PlaceOf(h)' = PlaceOf(h)
    <2> TAKE h \in Tasks \ O
    <2>1. ASSUME NEW i, h = <<"queued", i, 0>>
          PROVE  PlaceOf(h)' = PlaceOf(h)
      BY <1>1, <2>1 DEF PlaceOf
    <2>2. ASSUME NEW v \in Worker, NEW i \in DOMAIN stack[v], h = <<"stacked", v, i>>
          PROVE  PlaceOf(h)' = PlaceOf(h)
      <3>1. stack'[v] = stack[v]
        BY <1>4, <1>5, <2>2
      <3> QED
        BY <2>2, <3>1 DEF PlaceOf
    <2>3. ASSUME NEW v, NEW i, h = <<"unflushed", v, i>>
          PROVE  PlaceOf(h)' = PlaceOf(h)
      BY <1>1, <2>3 DEF PlaceOf
    <2> QED
      BY <2>1, <2>2, <2>3, TasksAre
  <1>15. PlaceOf(<<"stacked", w, 1>>)' = PlaceOf(<<"queued", x, 0>>)
    <2>1. PlaceOf(<<"queued", x, 0>>) = buf[x].ret
      BY DEF PlaceOf
    <2>2. PlaceOf(<<"stacked", w, 1>>)' = stack'[w][1].ret
      BY DEF PlaceOf
    <2> QED
      BY <1>5, <2>1, <2>2
  <1>16. /\ \A g, h \in N : PlaceOf(g)' = PlaceOf(h)' => g = h
         /\ \A h \in N : \E o \in O : PlaceOf(h)' = PlaceOf(o)
         /\ \A o \in O : \E h \in N : PlaceOf(h)' = PlaceOf(o)
    BY <1>15, <1>20, <1>21
  <1>17. Keeps
    BY <1>8, <1>9, <1>10 DEF Keeps
  <1>18. Moved(O, N)
    BY ONLY <1>11, <1>12, <1>13, <1>14, <1>16 DEF Moved
  <1> QED
    BY <1>1, <1>17, <1>18, MoveTasks

\* A copy moves the flush buffer into the queue.
LEMMA HoldsCopy ==
  ASSUME HInv, Inv', NEW w \in Worker, Copy(w)
  PROVE  OneEach'
  <1>1. /\ Inv /\ OneEach /\ pc[w] \in {"copy", "copyLast"} /\ Step(w) /\ Private(w) /\ TypeOK
        /\ stack' = stack /\ result' = result /\ cells' = cells /\ res' = res
        /\ wo \in [Worker -> Seq(TaskSet)] /\ wo' = [wo EXCEPT ![w] = <<>>]
        /\ round \in [Worker -> [iter : Nat, cnt : Nat, dst : Nat]] /\ taskCnt \in Nat /\ taskCntNew \in Nat
        /\ pc \in [Worker -> RoundPc \cup BarrierPc \cup {"check", "next", "compact", "again", "quit"}]
    BY DEF HInv, Inv, TypeOK, Step, Copy, answer
  <1>2. /\ Queued' = Queued \cup Unflushed(w) /\ Queued \cap Unflushed(w) = {} /\ ~serial
        /\ Unflushed(w) \subseteq taskCnt .. taskCnt + taskCntNew - 1
    BY QueuedCopy
  <1>3. Unflushed(w) = taskCnt + round[w].dst .. taskCnt + round[w].dst + Len(wo[w]) - 1
    BY <1>1, UnflushedIn
  <1>4. InPhase(w)
    BY DEF InPhase
  <1>5. Stage(w) = "work" /\ Stage(0) = "work"
    BY <1>1, <1>2, <1>4, PhaseIs, AllWork, WorkerIs
  <1>6. round[w].cnt = taskCnt
    BY <1>1, <1>2, <1>5 DEF Inv, Numbers, Known
  <1>7. PICK at \in Nat : at = taskCnt + round[w].dst
    BY <1>1
  <1>8. PICK k \in Nat : k = Len(wo[w]) /\ DOMAIN wo[w] = 1 .. k
    BY <1>1, LenProperties
  <1>9. Unflushed(w) = at .. at + k - 1
    BY <1>3, <1>7, <1>8
  <1>10. taskCnt + taskCntNew <= QueueCap /\ QueueCap \in Nat
    BY <1>1, <1>2, <1>5, QueueRoom
  <1>11. buf' = [i \in 0 .. QueueCap - 1 |-> IF i \in at .. at + k - 1 THEN wo[w][i - at + 1] ELSE buf[i]]
    <2>1. round[w].cnt + round[w].dst = at
      BY <1>6, <1>7
    <2> QED
      BY <1>8, <2>1 DEF Copy
  <1>12. \A i \in at .. at + k - 1 : i - at + 1 \in 1 .. k /\ buf'[i] = wo[w][i - at + 1]
    <2> TAKE i \in at .. at + k - 1
    <2>1. i \in 0 .. QueueCap - 1
      <3>1. at .. at + k - 1 \subseteq taskCnt .. taskCnt + taskCntNew - 1
        BY <1>2, <1>9
      <3>2. i \in taskCnt .. taskCnt + taskCntNew - 1
        BY <3>1
      <3> QED
        BY <1>1, <1>10, <3>2
    <2>2. i - at + 1 \in 1 .. k
      BY <1>7, <1>8
    <2> QED
      BY <1>11, <2>1, <2>2
  <1>13. \A j \in 1 .. k : j + at - 1 \in at .. at + k - 1 /\ (j + at - 1) - at + 1 = j
    <2>1. at \in Nat
      BY <1>7
    <2> QED
      BY <2>1
  <1>14. \A i \in Queued : buf'[i] = buf[i]
    <2> TAKE i \in Queued
    <2>1. i \notin at .. at + k - 1
      BY <1>2, <1>9
    <2>2. i \in 0 .. QueueCap - 1
      <3>1. ~Between
        <4>1. 0 \in Worker
          BY WorkerIs
        <4> QED
          BY <1>5, <4>1 DEF Stage, Passed, Own, RoundPc, Between
      <3>2. i \in workIdx .. taskCnt - 1 \/ Taken(i) \/ Flushed(i)
        BY <1>1, <3>1, QueuedAre
      <3>3. Taken(i) => i \in 0 .. taskCnt - 1
        BY <1>1, TakenIs DEF Taken, Inv
      <3>4. workIdx \in Nat
        BY <1>1 DEF TypeOK
      <3>5. i \in 0 .. taskCnt + taskCntNew - 1
        BY <1>1, <3>2, <3>3, <3>4 DEF Flushed
      <3> QED
        BY <1>1, <1>10, <3>5
    <2> QED
      BY <1>11, <2>1, <2>2
  <1>15. /\ DOMAIN wo'[w] = {} /\ \A v \in Worker : v # w => wo'[v] = wo[v]
    BY <1>1
  <1>16. PICK O : O = {<<"unflushed", w, j>> : j \in 1 .. k}
    OBVIOUS
  <1>17. PICK N : N = {<<"queued", i, 0>> : i \in at .. at + k - 1}
    OBVIOUS
  <1>18. O \subseteq Tasks
    BY <1>8, <1>16, TasksAre
  <1>19. Tasks' = (Tasks \ O) \cup N
    <2>1. \A i : i \in Queued' <=> i \in Queued \/ i \in at .. at + k - 1
      BY <1>2, <1>9
    <2>2. \A v \in Worker : \A j : j \in DOMAIN wo'[v] <=> j \in DOMAIN wo[v] /\ v # w
      BY <1>15
    <2>3. ASSUME NEW h
          PROVE  h \in Tasks' <=> h \in (Tasks \ O) \cup N
      <3>1. CASE \E i : h = <<"queued", i, 0>>
        <4>1. PICK i : h = <<"queued", i, 0>>
          BY <3>1
        <4>2. h \notin O /\ (h \in N <=> i \in at .. at + k - 1)
          BY <1>16, <1>17, <4>1
        <4>3. h \in Tasks <=> i \in Queued
          BY <4>1, TasksAre
        <4>4. h \in Tasks' <=> i \in Queued'
          BY <4>1, TasksAre
        <4> QED
          BY <2>1, <4>2, <4>3, <4>4
      <3>2. CASE \E v, i : h = <<"stacked", v, i>>
        <4>1. h \notin O /\ h \notin N
          BY <1>16, <1>17, <3>2
        <4>2. h \in Tasks' <=> h \in Tasks
          BY <1>1, <3>2, TasksAre
        <4> QED
          BY <4>1, <4>2
      <3>3. CASE \E v, i : h = <<"unflushed", v, i>>
        <4>1. PICK v, i : h = <<"unflushed", v, i>>
          BY <3>3
        <4>2. h \notin N /\ (h \in O <=> v = w /\ i \in 1 .. k)
          BY <1>16, <1>17, <4>1
        <4>3. h \in Tasks <=> v \in Worker /\ i \in DOMAIN wo[v]
          BY <4>1, TasksAre
        <4>4. h \in Tasks' <=> v \in Worker /\ i \in DOMAIN wo'[v]
          BY <4>1, TasksAre
        <4> QED
          BY <1>8, <2>2, <4>2, <4>3, <4>4
      <3>4. CASE ~ \/ \E i : h = <<"queued", i, 0>>
                   \/ \E v, i : h = <<"stacked", v, i>>
                   \/ \E v, i : h = <<"unflushed", v, i>>
        BY <1>16, <1>17, <3>4, TasksAre
      <3> QED
        BY <3>1, <3>2, <3>3, <3>4
    <2> QED
      BY <2>3
  <1>20. N \cap (Tasks \ O) = {}
    <2>1. \A i \in at .. at + k - 1 : <<"queued", i, 0>> \notin Tasks
      <3> TAKE i \in at .. at + k - 1
      <3>1. i \notin Queued
        BY <1>2, <1>9
      <3> QED
        BY <3>1, TasksAre
    <2> QED
      BY <1>17, <2>1
  <1>21. \A h \in Tasks \ O : PlaceOf(h)' = PlaceOf(h)
    <2> TAKE h \in Tasks \ O
    <2>1. ASSUME NEW i \in Queued, h = <<"queued", i, 0>>
          PROVE  PlaceOf(h)' = PlaceOf(h)
      BY <1>14, <2>1 DEF PlaceOf
    <2>2. ASSUME NEW v, NEW i, h = <<"stacked", v, i>>
          PROVE  PlaceOf(h)' = PlaceOf(h)
      BY <1>1, <2>2 DEF PlaceOf
    <2>3. ASSUME NEW v \in Worker, NEW i \in DOMAIN wo[v], h = <<"unflushed", v, i>>
          PROVE  PlaceOf(h)' = PlaceOf(h)
      <3>1. v # w
        BY <1>8, <1>16, <2>3
      <3>2. wo'[v] = wo[v]
        BY <1>15, <3>1
      <3> QED
        BY <2>3, <3>2 DEF PlaceOf
    <2> QED
      BY <2>1, <2>2, <2>3, TasksAre
  <1>22. \A j \in 1 .. k : PlaceOf(<<"queued", j + at - 1, 0>>)' = PlaceOf(<<"unflushed", w, j>>)
    <2> TAKE j \in 1 .. k
    <2>1. PICK i : i = j + at - 1
      OBVIOUS
    <2>2. buf'[i] = wo[w][j]
      BY <1>12, <1>13, <2>1
    <2>3. PlaceOf(<<"queued", i, 0>>)' = buf'[i].ret
      BY DEF PlaceOf
    <2>4. PlaceOf(<<"unflushed", w, j>>) = wo[w][j].ret
      BY DEF PlaceOf
    <2> QED
      BY <2>1, <2>2, <2>3, <2>4
  <1>23. \A i \in at .. at + k - 1 : PlaceOf(<<"queued", i, 0>>)' = PlaceOf(<<"unflushed", w, i - at + 1>>)
    <2> TAKE i \in at .. at + k - 1
    <2>1. PICK j : j = i - at + 1
      OBVIOUS
    <2>2. buf'[i] = wo[w][j]
      BY <1>12, <2>1
    <2>3. PlaceOf(<<"queued", i, 0>>)' = buf'[i].ret
      BY DEF PlaceOf
    <2>4. PlaceOf(<<"unflushed", w, j>>) = wo[w][j].ret
      BY DEF PlaceOf
    <2> QED
      BY <2>1, <2>2, <2>3, <2>4
  <1>24. \A g, h \in N : PlaceOf(g)' = PlaceOf(h)' => g = h
    <2> SUFFICES ASSUME NEW i \in at .. at + k - 1, NEW j \in at .. at + k - 1,
                        PlaceOf(<<"queued", i, 0>>)' = PlaceOf(<<"queued", j, 0>>)'
                 PROVE  i = j
      BY <1>17
    <2>1. PICK x, y : x = i - at + 1 /\ y = j - at + 1 /\ x \in 1 .. k /\ y \in 1 .. k
      BY <1>12
    <2>2. PlaceOf(<<"unflushed", w, x>>) = PlaceOf(<<"unflushed", w, y>>)
      BY <1>23, <2>1
    <2>3. <<"unflushed", w, x>> \in Carriers /\ <<"unflushed", w, y>> \in Carriers
      BY <1>16, <1>18, <2>1 DEF Carriers
    <2>4. <<"unflushed", w, x>> = <<"unflushed", w, y>>
      BY <1>1, <2>2, <2>3 DEF OneEach
    <2>5. x = y
      BY <2>4
    <2> QED
      BY <1>7, <2>1, <2>5
  <1>25. \A h \in N : \E o \in O : PlaceOf(h)' = PlaceOf(o)
    <2> SUFFICES ASSUME NEW i \in at .. at + k - 1
                 PROVE  \E o \in O : PlaceOf(<<"queued", i, 0>>)' = PlaceOf(o)
      BY <1>17
    <2>1. PICK o : o = <<"unflushed", w, i - at + 1>>
      OBVIOUS
    <2>2. o \in O
      BY <1>12, <1>16, <2>1
    <2> QED
      BY <1>23, <2>1, <2>2
  <1>26. \A o \in O : \E h \in N : PlaceOf(h)' = PlaceOf(o)
    <2> SUFFICES ASSUME NEW j \in 1 .. k
                 PROVE  \E h \in N : PlaceOf(h)' = PlaceOf(<<"unflushed", w, j>>)
      BY <1>16
    <2>1. PICK h : h = <<"queued", j + at - 1, 0>>
      OBVIOUS
    <2>2. h \in N
      BY <1>13, <1>17, <2>1
    <2> QED
      BY <1>22, <2>1, <2>2
  <1>27. Moved(O, N)
    BY ONLY <1>18, <1>19, <1>20, <1>21, <1>24, <1>25, <1>26 DEF Moved
  <1>28. \A v \in Worker : /\ pc'[v] = "fire" <=> pc[v] = "fire"
                           /\ pc'[v] = "resolve" <=> pc[v] = "resolve"
    <2>1. pc'[w] \notin {"fire", "resolve"}
      BY <1>1 DEF Copy, Goto, NextTask
    <2> QED
      BY <1>1, <2>1, OthersPrivate
  <1>29. Keeps
    <2>1. \A v, n : Open(v, n)' <=> Open(v, n)
      BY <1>1, <1>28, OpenStay
    <2>2. /\ Conts' = Conts /\ \A h \in Conts : PlaceOf(h)' = PlaceOf(h)
      BY <1>1, <2>1, ContsStay
    <2>3. /\ Hands' = Hands /\ \A h \in Hands : PlaceOf(h)' = PlaceOf(h)
      BY <1>1, <1>28, HandsStay
    <2>4. Waiting' = Waiting
      BY <1>1, WaitingStay
    <2> QED
      BY <2>2, <2>3, <2>4 DEF Keeps
  <1> QED
    BY <1>1, <1>27, <1>29, MoveTasks

\* Thread 0 moves the tasks of the next round to the start of the queue.
LEMMA HoldsCompact ==
  ASSUME HInv, Inv', Compact(0)
  PROVE  OneEach'
  <1>1. /\ Inv /\ OneEach /\ pc[0] = "compact" /\ TypeOK /\ 0 \in Worker
        /\ stack' = stack /\ result' = result /\ cells' = cells /\ res' = res /\ wo' = wo
        /\ pc' = [pc EXCEPT ![0] = "after"]
        /\ pc \in [Worker -> RoundPc \cup BarrierPc \cup {"check", "next", "compact", "again", "quit"}]
    BY WorkerIs DEF HInv, Inv, TypeOK, Compact, answer, Goto
  <1>2. ~serial
    BY <1>1 DEF Inv, Alone, RunPc
  <1>3. PICK a, n \in Nat : a = taskCnt /\ n = taskCntNew
    BY <1>1 DEF TypeOK
  <1>4. /\ \A i : i \in Queued <=> i \in a .. a + n - 1
        /\ \A i : i \in Queued' <=> i \in 0 .. n - 1
        /\ \A i \in 0 .. n - 1 : buf'[i] = buf[a + i]
    BY <1>2, <1>3, QueuedCompact
  <1>5. /\ \A i \in 0 .. n - 1 : a + i \in a .. a + n - 1
        /\ \A j \in a .. a + n - 1 : j - a \in 0 .. n - 1 /\ a + (j - a) = j
    BY <1>3
  <1>6. PICK O : O = {<<"queued", i, 0>> : i \in Queued}
    OBVIOUS
  <1>7. PICK N : N = {<<"queued", i, 0>> : i \in Queued'}
    OBVIOUS
  <1>8. O \subseteq Tasks
    BY <1>6, TasksAre
  <1>9. \A h \in Tasks \ O : \A i : h # <<"queued", i, 0>>
    BY <1>6, TasksAre
  <1>10. Tasks' = (Tasks \ O) \cup N
    <2>1. ASSUME NEW h
          PROVE  h \in Tasks' <=> h \in (Tasks \ O) \cup N
      <3>1. CASE \E i : h = <<"queued", i, 0>>
        <4>1. h \in Tasks' <=> h \in N
          BY <1>7, <3>1, TasksAre
        <4>2. h \notin Tasks \ O
          BY <1>9, <3>1
        <4> QED
          BY <4>1, <4>2
      <3>2. CASE ~ \E i : h = <<"queued", i, 0>>
        <4>1. h \notin O /\ h \notin N
          BY <1>6, <1>7, <3>2
        <4>2. h \in Tasks' <=> h \in Tasks
          BY <1>1, <3>2, TasksAre
        <4> QED
          BY <4>1, <4>2
      <3> QED
        BY <3>1, <3>2
    <2> QED
      BY <2>1
  <1>11. N \cap (Tasks \ O) = {}
    BY <1>7, <1>9
  <1>12. \A h \in Tasks \ O : PlaceOf(h)' = PlaceOf(h)
    <2> TAKE h \in Tasks \ O
    <2>1. ASSUME NEW v, NEW i, h = <<"stacked", v, i>> \/ h = <<"unflushed", v, i>>
          PROVE  PlaceOf(h)' = PlaceOf(h)
      BY <1>1, <2>1 DEF PlaceOf
    <2> QED
      BY <1>9, <2>1, TasksAre
  <1>13. ASSUME NEW i \in 0 .. n - 1, NEW j, j = a + i
         PROVE  PlaceOf(<<"queued", i, 0>>)' = PlaceOf(<<"queued", j, 0>>)
    <2>1. buf'[i] = buf[j]
      BY <1>4, <1>13
    <2>2. PlaceOf(<<"queued", i, 0>>)' = buf'[i].ret
      BY DEF PlaceOf
    <2>3. PlaceOf(<<"queued", j, 0>>) = buf[j].ret
      BY DEF PlaceOf
    <2> QED
      BY <2>1, <2>2, <2>3
  <1>14. \A g, h \in N : PlaceOf(g)' = PlaceOf(h)' => g = h
    <2> SUFFICES ASSUME NEW i \in Queued', NEW j \in Queued',
                        PlaceOf(<<"queued", i, 0>>)' = PlaceOf(<<"queued", j, 0>>)'
                 PROVE  i = j
      BY <1>7
    <2>1. i \in 0 .. n - 1 /\ j \in 0 .. n - 1
      BY <1>4
    <2>2. PICK x, y : x = a + i /\ y = a + j /\ x \in a .. a + n - 1 /\ y \in a .. a + n - 1
      BY <1>5, <2>1
    <2>3. x \in Queued /\ y \in Queued
      BY <1>4, <2>2
    <2>4. <<"queued", x, 0>> \in Carriers /\ <<"queued", y, 0>> \in Carriers
      BY <2>3, TasksAre DEF Carriers
    <2>5. PlaceOf(<<"queued", x, 0>>) = PlaceOf(<<"queued", y, 0>>)
      BY <1>13, <2>1, <2>2
    <2>6. <<"queued", x, 0>> = <<"queued", y, 0>>
      BY <1>1, <2>4, <2>5 DEF OneEach
    <2>7. x = y
      BY <2>6
    <2> QED
      BY <1>3, <2>1, <2>2, <2>7
  <1>15. \A h \in N : \E o \in O : PlaceOf(h)' = PlaceOf(o)
    <2> SUFFICES ASSUME NEW i \in Queued'
                 PROVE  \E o \in O : PlaceOf(<<"queued", i, 0>>)' = PlaceOf(o)
      BY <1>7
    <2>1. i \in 0 .. n - 1
      BY <1>4
    <2>2. PICK j : j = a + i /\ j \in Queued
      BY <1>4, <1>5, <2>1
    <2>3. PICK o : o = <<"queued", j, 0>>
      OBVIOUS
    <2>4. o \in O
      BY <1>6, <2>2, <2>3
    <2> QED
      BY <1>13, <2>1, <2>2, <2>3, <2>4
  <1>16. \A o \in O : \E h \in N : PlaceOf(h)' = PlaceOf(o)
    <2> SUFFICES ASSUME NEW j \in Queued
                 PROVE  \E h \in N : PlaceOf(h)' = PlaceOf(<<"queued", j, 0>>)
      BY <1>6
    <2>1. j \in a .. a + n - 1
      BY <1>4
    <2>2. PICK i : i \in 0 .. n - 1 /\ j = a + i
      BY <1>5, <2>1
    <2>3. PICK h : h = <<"queued", i, 0>>
      OBVIOUS
    <2>4. h \in N
      BY <1>4, <1>7, <2>2, <2>3
    <2>5. PlaceOf(<<"queued", i, 0>>)' = PlaceOf(<<"queued", j, 0>>)
      BY <1>13, <2>2
    <2> QED
      BY <2>3, <2>4, <2>5
  <1>17. Moved(O, N)
    BY ONLY <1>8, <1>10, <1>11, <1>12, <1>14, <1>15, <1>16 DEF Moved
  <1>18. \A v \in Worker : /\ pc'[v] = "fire" <=> pc[v] = "fire"
                           /\ pc'[v] = "resolve" <=> pc[v] = "resolve"
    BY <1>1
  <1>19. Keeps
    <2>1. \A v, n1 : Open(v, n1)' <=> Open(v, n1)
      BY <1>1, <1>18, OpenStay
    <2>2. /\ Conts' = Conts /\ \A h \in Conts : PlaceOf(h)' = PlaceOf(h)
      BY <1>1, <2>1, ContsStay
    <2>3. /\ Hands' = Hands /\ \A h \in Hands : PlaceOf(h)' = PlaceOf(h)
      BY <1>1, <1>18, HandsStay
    <2>4. Waiting' = Waiting
      BY <1>1, WaitingStay
    <2> QED
      BY <2>2, <2>3, <2>4 DEF Keeps
  <1> QED
    BY <1>1, <1>17, <1>19, MoveTasks

-----------------------------------------------------------------------------
(* Dispatching a task *)

\* A carrier o hands its place to one of N; the others of N have fresh places.
Spread(o, N, F) ==
  /\ o \in Carriers /\ Carriers' = (Carriers \ {o}) \cup N /\ N \cap (Carriers \ {o}) = {}
  /\ \A h \in Carriers \ {o} : PlaceOf(h)' = PlaceOf(h)
  /\ \A g, h \in N : PlaceOf(g)' = PlaceOf(h)' => g = h
  /\ \A h \in N : PlaceOf(h)' = PlaceOf(o) \/ PlaceOf(h)' \in F
  /\ \E h \in N : PlaceOf(h)' = PlaceOf(o)
  /\ \A r \in F : \E h \in N : PlaceOf(h)' = r
  /\ F \cap Waiting = {} /\ Waiting' = Waiting \cup F

LEMMA SpreadHolds ==
  ASSUME OneEach, NEW o, NEW N, NEW F, Spread(o, N, F)
  PROVE  OneEach'
  <1>1. PICK O : O = {o}
    OBVIOUS
  <1>2. Carriers' = (Carriers \ O) \cup N /\ N \cap (Carriers \ O) = {} /\ O \cap Carriers = {o}
    BY <1>1 DEF Spread
  <1>3. \A h \in Carriers \ O : PlaceOf(h)' = PlaceOf(h)
    BY <1>1 DEF Spread
  <1>4. \A g, h \in N : PlaceOf(g)' = PlaceOf(h)' => g = h
    BY DEF Spread
  <1>5. \A h \in N : \/ PlaceOf(h)' \notin Waiting
                     \/ \E p \in O \cap Carriers : PlaceOf(h)' = PlaceOf(p)
    BY <1>2 DEF Spread
  <1>6. PlaceOf(o) \in Waiting
    BY DEF OneEach, Spread
  <1>7. \A r : r \in Waiting' <=> \/ r \in Waiting /\ \A p \in O \cap Carriers : PlaceOf(p) # r
                                  \/ \E h \in N : r = PlaceOf(h)'
    <2>1. \A r : (\A p \in O \cap Carriers : PlaceOf(p) # r) <=> PlaceOf(o) # r
      BY <1>2
    <2>2. \A r : (\E h \in N : r = PlaceOf(h)') <=> r = PlaceOf(o) \/ r \in F
      BY DEF Spread
    <2>3. \A r : r \in Waiting' <=> r \in Waiting \/ r \in F
      BY DEF Spread
    <2> QED
      BY <1>6, <2>1, <2>2, <2>3
  <1>8. Replaced(O, N)
    BY ONLY <1>2, <1>3, <1>4, <1>5, <1>7 DEF Replaced
  <1> QED
    BY <1>8, Replace

\* The tasks that a dispatch of o's task adds are e[1], e[2].
Comes(o, e, tasks) ==
  /\ Tasks' = (Tasks \ {o}) \cup {e[i] : i \in DOMAIN tasks}
  /\ \A i \in DOMAIN tasks : e[i] \notin Tasks \ {o}
  /\ \A i, j \in DOMAIN tasks : e[i] = e[j] => i = j
  /\ \A i \in DOMAIN tasks : PlaceOf(e[i])' = tasks[i].ret
  /\ \A h \in Tasks \ {o} : PlaceOf(h)' = PlaceOf(h)

\* A worker dispatches task t, which o carries.
Dispatches(w, t, o, d, e) ==
  /\ t \in TaskSet /\ o \in Carriers \ Hands /\ PlaceOf(o) = t.ret
  /\ cells' = [cells EXCEPT ![w] = d.cells] /\ result' = result
  /\ Comes(o, e, d.tasks)
  /\ pc[w] # "resolve" /\ pc'[w] # "fire"
  /\ IF d.kind = "value" THEN pc'[w] = "resolve" /\ res'[w].ret = t.ret
                         ELSE pc'[w] # "resolve"
  /\ \A v \in Worker : v # w => pc'[v] = pc[v] /\ res'[v] = res[v]
  /\ \A v, m : o = <<"cell", v, m>> <=> pc[w] = "fire" /\ res[w].ret[1] = v /\ res[w].ret[2] = m

LEMMA DispatchHands ==
  ASSUME NEW w \in Worker, NEW t, NEW o, NEW d, NEW e, Dispatches(w, t, o, d, e)
  PROVE  /\ d.kind # "value" => Hands' = Hands
         /\ d.kind = "value" => /\ Hands' = Hands \cup {<<"resolving", w, 0>>}
                                /\ PlaceOf(<<"resolving", w, 0>>)' = t.ret
         /\ <<"resolving", w, 0>> \notin Hands
         /\ \A h \in Hands : PlaceOf(h)' = PlaceOf(h)
  <1>1. /\ pc[w] # "resolve"
        /\ \A v \in Worker : v # w => pc'[v] = pc[v] /\ res'[v] = res[v]
        /\ pc'[w] = "resolve" <=> d.kind = "value"
        /\ d.kind = "value" => res'[w].ret = t.ret
    BY DEF Dispatches
  <1>2. <<"resolving", w, 0>> \notin Hands
    BY <1>1, HandsAre
  <1>3. \A h : h \in Hands' <=> h \in Hands \/ (d.kind = "value" /\ h = <<"resolving", w, 0>>)
    BY <1>1, HandsAre
  <1>4. \A h \in Hands : PlaceOf(h)' = PlaceOf(h)
    <2> TAKE h \in Hands
    <2>1. PICK v \in Worker : pc[v] = "resolve" /\ h = <<"resolving", v, 0>>
      BY HandsAre
    <2>2. v # w
      BY <1>1, <2>1
    <2> QED
      BY <1>1, <2>1, <2>2 DEF PlaceOf
  <1>5. d.kind = "value" => PlaceOf(<<"resolving", w, 0>>)' = t.ret
    BY <1>1, PlaceIsOf
  <1> QED
    BY <1>2, <1>3, <1>4, <1>5

\* The cells that were there: the one that fires has done so.
LEMMA DispatchOpen ==
  ASSUME HInv, NEW w \in Worker, NEW t, NEW o, NEW d, NEW e, Dispatches(w, t, o, d, e),
         NEW v \in Worker, NEW m \in DOMAIN cells[v], cells'[v][m] = cells[v][m]
  PROVE  Open(v, m)' <=> Open(v, m) /\ o # <<"cell", v, m>>
  <1>1. /\ \A u \in Worker : u # w => pc'[u] = pc[u] /\ res'[u] = res[u]
        /\ o = <<"cell", v, m>> <=> pc[w] = "fire" /\ res[w].ret[1] = v /\ res[w].ret[2] = m
        /\ pc'[w] # "fire"
    BY DEF Dispatches
  <1>2. CASE o = <<"cell", v, m>>
    <2>1. pc[w] = "fire" /\ res[w].ret[1] = v /\ res[w].ret[2] = m
      BY <1>1, <1>2
    <2>2. cells[v][m].pending = 0
      BY <2>1 DEF HInv, Firing, CellAt
    <2>3. \A u \in Worker : u # w => ~(pc[u] = "fire" /\ res[u].ret[1] = v /\ res[u].ret[2] = m)
      BY <2>1 DEF HInv, Firing
    <2>4. cells'[v][m].pending = 0
      BY <2>2
    <2>5. ~ \E u \in Worker : pc'[u] = "fire" /\ res'[u].ret[1] = v /\ res'[u].ret[2] = m
      BY <1>1, <2>3
    <2>6. ~Open(v, m)'
      BY <2>4, <2>5 DEF Open
    <2> QED
      BY <1>2, <2>6
  <1>3. CASE o # <<"cell", v, m>>
    <2>1. (\E u \in Worker : pc'[u] = "fire" /\ res'[u].ret[1] = v /\ res'[u].ret[2] = m)
            <=> (\E u \in Worker : pc[u] = "fire" /\ res[u].ret[1] = v /\ res[u].ret[2] = m)
      BY <1>1, <1>3
    <2>2. cells'[v][m].pending = cells[v][m].pending
      OBVIOUS
    <2>3. Open(v, m)' <=> Open(v, m)
      BY <2>1, <2>2 DEF Open
    <2> QED
      BY <1>3, <2>3
  <1> QED
    BY <1>2, <1>3

\* Without a new cell, the place goes to the value or to the task that comes.
LEMMA DispatchPlain ==
  ASSUME HInv, NEW w \in Worker, NEW t, NEW o, NEW d, NEW e, Dispatches(w, t, o, d, e),
         Returns(w, t, d) \/ Tails(w, t, d)
  PROVE  OneEach'
  <1>1. /\ OneEach /\ TypeOK /\ d.cells = cells[w] /\ o \in Carriers /\ o \notin Hands /\ PlaceOf(o) = t.ret
        /\ Comes(o, e, d.tasks)
    BY DEF HInv, Inv, Dispatches, Returns, Tails
  <1>2. cells' = cells /\ result' = result
    BY <1>1 DEF Dispatches, TypeOK
  <1>3. Waiting' = Waiting
    BY <1>2, WaitingStay
  <1>4. \A v \in Worker : \A m \in DOMAIN cells[v] : Open(v, m)' <=> Open(v, m) /\ o # <<"cell", v, m>>
    BY <1>2, DispatchOpen
  <1>5. Conts' = Conts \ {o}
    <2>1. ASSUME NEW h
          PROVE  h \in Conts' <=> h \in Conts /\ h # o
      <3>1. h \in Conts <=> \E v \in Worker : \E n \in DOMAIN cells[v] : Open(v, n) /\ h = <<"cell", v, n>>
        BY ContsAre
      <3>2. h \in Conts' <=> \E v \in Worker : \E n \in DOMAIN cells[v] : Open(v, n)' /\ h = <<"cell", v, n>>
        BY <1>2, ContsAre
      <3> QED
        BY <1>4, <3>1, <3>2
    <2> QED
      BY <2>1
  <1>6. \A h \in Conts : PlaceOf(h)' = PlaceOf(h)
    <2> TAKE h \in Conts
    <2>1. PICK v \in Worker : \E n \in DOMAIN cells[v] : h = <<"cell", v, n>>
      BY ContsAre
    <2>2. PICK n \in DOMAIN cells[v] : h = <<"cell", v, n>>
      BY <2>1
    <2> QED
      BY <1>2, <2>2 DEF PlaceOf
  <1>7. \A h \in Tasks \ {o} : PlaceOf(h)' = PlaceOf(h)
    BY <1>1 DEF Comes
  <1>8. \A h \in Carriers \ {o} : PlaceOf(h)' = PlaceOf(h)
    BY <1>6, <1>7, DispatchHands DEF Carriers
  <1>9. PICK F : F = {}
    OBVIOUS
  <1>10. CASE Returns(w, t, d)
    <2>1. PICK r : r = <<"resolving", w, 0>>
      OBVIOUS
    <2>2. /\ Hands' = Hands \cup {r} /\ PlaceOf(r)' = t.ret /\ r \notin Hands
      BY <1>10, <2>1, DispatchHands DEF Returns
    <2>3. d.tasks = <<>>
      BY <1>10 DEF Returns
    <2>4. Tasks' = Tasks \ {o}
      BY <1>1, <2>3 DEF Comes
    <2>5. PICK N : N = {r}
      OBVIOUS
    <2>6. Carriers' = (Carriers \ {o}) \cup N
      BY <1>1, <1>5, <2>2, <2>4, <2>5 DEF Carriers
    <2>7. N \cap (Carriers \ {o}) = {}
      <3>1. r \notin Tasks /\ r \notin Conts
        BY <2>1, Kinds
      <3> QED
        BY <2>2, <2>5, <3>1 DEF Carriers
    <2>8. Spread(o, N, F)
      <3>1. /\ \A g, h \in N : PlaceOf(g)' = PlaceOf(h)' => g = h
            /\ \A h \in N : PlaceOf(h)' = PlaceOf(o)
            /\ \E h \in N : PlaceOf(h)' = PlaceOf(o)
        BY <1>1, <2>2, <2>5
      <3> QED
        BY ONLY <1>1, <1>3, <1>8, <1>9, <2>6, <2>7, <3>1 DEF Spread
    <2> QED
      BY <1>1, <2>8, SpreadHolds
  <1>11. CASE Tails(w, t, d)
    <2>1. PICK f : d.tasks = <<Task(f, t.ret, t.args)>>
      BY <1>11 DEF Tails
    <2>2. DOMAIN d.tasks = {1} /\ d.tasks[1].ret = t.ret
      <3>1. \A y : DOMAIN <<y>> = {1} /\ <<y>>[1] = y
        OBVIOUS
      <3> QED
        BY <2>1, <3>1 DEF Task
    <2>3. PICK r : r = e[1]
      OBVIOUS
    <2>4. /\ Tasks' = (Tasks \ {o}) \cup {r} /\ r \notin Tasks \ {o} /\ PlaceOf(r)' = t.ret
      <3>1. PlaceOf(e[1])' = t.ret
        BY <1>1, <2>2 DEF Comes
      <3>2. PlaceOf(r)' = t.ret
        BY <2>3, <3>1 DEF PlaceOf
      <3> QED
        BY <1>1, <2>2, <2>3, <3>2 DEF Comes
    <2>5. Hands' = Hands
      BY <1>11, DispatchHands DEF Tails
    <2>6. PICK N : N = {r}
      OBVIOUS
    <2>7. Carriers' = (Carriers \ {o}) \cup N
      BY <1>1, <1>5, <2>4, <2>5, <2>6 DEF Carriers
    <2>8. N \cap (Carriers \ {o}) = {}
      <3>1. r \in Tasks'
        BY <2>4
      <3>2. r \notin Hands /\ r \notin Conts
        BY <3>1, Kinds
      <3> QED
        BY <2>4, <2>6, <3>2 DEF Carriers
    <2>9. Spread(o, N, F)
      <3>1. /\ \A g, h \in N : PlaceOf(g)' = PlaceOf(h)' => g = h
            /\ \A h \in N : PlaceOf(h)' = PlaceOf(o)
            /\ \E h \in N : PlaceOf(h)' = PlaceOf(o)
        BY <1>1, <2>4, <2>6
      <3> QED
        BY ONLY <1>1, <1>3, <1>8, <1>9, <2>7, <2>8, <3>1 DEF Spread
    <2> QED
      BY <1>1, <2>9, SpreadHolds
  <1> QED
    BY <1>10, <1>11

\* What a new cell changes.
CellComes(w, n, c) ==
  /\ n \notin DOMAIN cells[w] /\ cells'[w][n] = c
  /\ \A v \in Worker : \A m : m \in DOMAIN cells'[v] <=> m \in DOMAIN cells[v] \/ (v = w /\ m = n)
  /\ \A v \in Worker : \A m \in DOMAIN cells[v] : cells'[v][m] = cells[v][m]

LEMMA NewCellIs ==
  ASSUME TypeOK, NEW w \in Worker, NEW c, NEW n, n = Len(cells[w]) + 1,
         cells' = [cells EXCEPT ![w] = Append(cells[w], c)]
  PROVE  CellComes(w, n, c)
  <1>1. /\ cells \in [Worker -> Seq(CellSet)] /\ cells[w] \in Seq(CellSet)
        /\ cells'[w] = Append(cells[w], c) /\ \A v \in Worker : v # w => cells'[v] = cells[v]
    BY DEF TypeOK
  <1>2. PICK l \in Nat : l = Len(cells[w]) /\ DOMAIN cells[w] = 1 .. l
    BY <1>1, LenProperties
  <1>3. PICK S : cells[w] \in Seq(S) /\ c \in S
    <2>1. PICK S : S = CellSet \cup {c}
      OBVIOUS
    <2>2. CellSet \subseteq S /\ c \in S
      BY <2>1
    <2> QED
      BY <1>1, <2>2, SeqMonotonic
  <1>4. PICK s : s = Append(cells[w], c)
    OBVIOUS
  <1>5. /\ s \in Seq(S) /\ Len(s) = Len(cells[w]) + 1 /\ s[Len(cells[w]) + 1] = c
        /\ \A i \in 1 .. Len(cells[w]) : s[i] = cells[w][i]
    BY <1>3, <1>4, AppendProperties
  <1>6. n = l + 1 /\ Len(s) = n /\ s[n] = c /\ DOMAIN s = 1 .. n
    BY <1>2, <1>5, LenProperties
  <1>7. \A m : m \in 1 .. n <=> m \in 1 .. l \/ m = n
    BY <1>2, <1>6
  <1>8. n \notin 1 .. l
    BY <1>2, <1>6
  <1>9. \A i \in 1 .. l : s[i] = cells[w][i]
    BY <1>2, <1>5
  <1>10. cells'[w] = s
    BY <1>1, <1>4
  <1>11. \A v \in Worker : \A m : m \in DOMAIN cells'[v] <=> m \in DOMAIN cells[v] \/ (v = w /\ m = n)
    <2> TAKE v \in Worker
    <2> TAKE m
    <2>1. CASE v = w
      BY <1>2, <1>6, <1>7, <1>10, <2>1
    <2>2. CASE v # w
      BY <1>1, <2>2
    <2> QED
      BY <2>1, <2>2
  <1>12. \A v \in Worker : \A m \in DOMAIN cells[v] : cells'[v][m] = cells[v][m]
    <2> TAKE v \in Worker
    <2> TAKE m \in DOMAIN cells[v]
    <2>1. CASE v = w
      BY <1>2, <1>9, <1>10, <2>1
    <2>2. CASE v # w
      BY <1>1, <2>2
    <2> QED
      BY <2>1, <2>2
  <1> QED
    BY <1>2, <1>6, <1>8, <1>10, <1>11, <1>12 DEF CellComes

\* The places of the children of a new cell are new, and wait.
NewFamily(w, n, c, k, F) ==
  /\ CellComes(w, n, c) /\ result' = result /\ k \in 1 .. 2 /\ w \in Worker
  /\ c.kids = k /\ c.child = <<None, None>> /\ F = {<<w, n, i>> : i \in 1 .. k}

LEMMA NewPlaces ==
  ASSUME NEW w, NEW c, NEW n, NEW k, NEW F, NewFamily(w, n, c, k, F)
  PROVE  F \cap Waiting = {} /\ Waiting' = Waiting \cup F
  <1>8. /\ CellComes(w, n, c) /\ result' = result /\ k \in 1 .. 2 /\ w \in Worker
        /\ c.kids = k /\ c.child = <<None, None>> /\ F = {<<w, n, i>> : i \in 1 .. k}
    BY DEF NewFamily
  <1>1. /\ n \notin DOMAIN cells[w] /\ cells'[w][n] = c
        /\ \A v \in Worker : \A m : m \in DOMAIN cells'[v] <=> m \in DOMAIN cells[v] \/ (v = w /\ m = n)
        /\ \A v \in Worker : \A m \in DOMAIN cells[v] : cells'[v][m] = cells[v][m]
    BY <1>8 DEF CellComes
  <1>2. \A r : r \in Places <=> \/ r = <<>>
                                \/ \E v \in Worker : \E m \in DOMAIN cells[v] : \E i \in 1 .. cells[v][m].kids :
                                     r = <<v, m, i>>
    BY PlacesIs, PlacesNow
  <1>3. \A r : r \in Places' <=> \/ r = <<>>
                                 \/ \E v \in Worker : \E m \in DOMAIN cells'[v] : \E i \in 1 .. cells'[v][m].kids :
                                      r = <<v, m, i>>
    <2> TAKE r
    <2>1. r \in Places' <=> r \in PlacesOf(cells')
      BY PlacesNow
    <2> QED
      BY <2>1, PlacesIs
  <1>4. ASSUME NEW r \in F
        PROVE  r \notin Places /\ r \in Places' /\ ~Delivered(r)'
    <2>1. PICK i \in 1 .. k : r = <<w, n, i>>
      BY <1>4, <1>8
    <2>2. r \notin Places
      <3>1. r # <<>>
        BY <2>1
      <3>2. \A v, m, j : r = <<v, m, j>> => v = w /\ m = n
        BY <2>1
      <3> QED
        BY <1>1, <1>2, <3>1, <3>2
    <2>3. r \in Places'
      BY <1>1, <1>3, <1>8, <2>1
    <2>4. c.child[i] = None
      <3>1. i \in 1 .. 2
        BY <1>8, <2>1
      <3>2. \A y : \A j \in 1 .. 2 : <<y, y>>[j] = y
        OBVIOUS
      <3> QED
        BY <1>8, <3>1, <3>2
    <2>5. ~Delivered(r)'
      BY <1>1, <2>1, <2>4, DeliveredIs
    <2> QED
      BY <2>2, <2>3, <2>5
  <1>5. ASSUME NEW r \in Places
        PROVE  r \in Places' /\ (Delivered(r)' <=> Delivered(r))
    <2>1. CASE r = Root
      BY <1>3, <1>8, <2>1, DeliveredIs DEF Root
    <2>2. ASSUME NEW v \in Worker, NEW m \in DOMAIN cells[v], NEW i \in 1 .. cells[v][m].kids,
                 r = <<v, m, i>>
          PROVE  r \in Places' /\ (Delivered(r)' <=> Delivered(r))
      <3>1. m \in DOMAIN cells'[v] /\ cells'[v][m] = cells[v][m]
        BY <1>1
      <3>2. r \in Places'
        BY <1>3, <2>2, <3>1
      <3>3. Delivered(r)' <=> Delivered(r)
        BY <2>2, <3>1, DeliveredIs
      <3> QED
        BY <3>2, <3>3
    <2> QED
      BY <2>1, <2>2, PlaceCases
  <1>6. ASSUME NEW r \in Places', r \notin Places
        PROVE  r \in F
    <2>1. r # <<>>
      BY <1>2, <1>6
    <2>2. PICK v \in Worker : \E m \in DOMAIN cells'[v] : \E i \in 1 .. cells'[v][m].kids : r = <<v, m, i>>
      BY <1>3, <2>1
    <2>3. PICK m \in DOMAIN cells'[v] : \E i \in 1 .. cells'[v][m].kids : r = <<v, m, i>>
      BY <2>2
    <2>4. PICK i \in 1 .. cells'[v][m].kids : r = <<v, m, i>>
      BY <2>3
    <2>5. m \notin DOMAIN cells[v]
      BY <1>1, <1>2, <1>6, <2>4
    <2>6. v = w /\ m = n
      BY <1>1, <2>5
    <2> QED
      BY <1>1, <1>8, <2>4, <2>6
  <1>7. \A r : r \in Waiting' <=> r \in Waiting \/ r \in F
    BY <1>4, <1>5, <1>6 DEF Waiting
  <1> QED
    BY <1>4, <1>7 DEF Waiting

\* With a new cell, the place goes to the cell and its children's to the tasks.
LEMMA DispatchOpens ==
  ASSUME HInv, NEW w \in Worker, NEW t, NEW o, NEW d, NEW e, Dispatches(w, t, o, d, e),
         Opens(w, t, d)
  PROVE  OneEach'
  <1>1. /\ OneEach /\ TypeOK /\ o \in Carriers /\ o \notin Hands /\ PlaceOf(o) = t.ret
        /\ Comes(o, e, d.tasks) /\ cells' = [cells EXCEPT ![w] = d.cells] /\ result' = result
    BY DEF HInv, Inv, Dispatches
  <1>2. PICK k \in 1 .. 2 : \E f \in Name : \E g \in [1 .. k -> Name] :
          /\ d.cells = Append(cells[w], NewCell(f, t.ret, k))
          /\ d.tasks = [i \in 1 .. k |-> Task(g[i], <<w, Len(cells[w]) + 1, i>>, t.args)]
    BY DEF Opens
  <1>3. PICK f \in Name : \E g \in [1 .. k -> Name] :
          /\ d.cells = Append(cells[w], NewCell(f, t.ret, k))
          /\ d.tasks = [i \in 1 .. k |-> Task(g[i], <<w, Len(cells[w]) + 1, i>>, t.args)]
    BY <1>2
  <1>4. PICK g \in [1 .. k -> Name] :
          /\ d.cells = Append(cells[w], NewCell(f, t.ret, k))
          /\ d.tasks = [i \in 1 .. k |-> Task(g[i], <<w, Len(cells[w]) + 1, i>>, t.args)]
    BY <1>3
  <1>5. PICK n : n = Len(cells[w]) + 1
    OBVIOUS
  <1>6. PICK c : c = NewCell(f, t.ret, k)
    OBVIOUS
  <1>7. /\ c.kids = k /\ c.child = <<None, None>> /\ c.ret = t.ret /\ c.pending = k
    BY <1>6 DEF NewCell
  <1>8. CellComes(w, n, c)
    BY <1>1, <1>4, <1>5, <1>6, NewCellIs
  <1>9. PICK F : F = {<<w, n, i>> : i \in 1 .. k}
    OBVIOUS
  <1>10. F \cap Waiting = {} /\ Waiting' = Waiting \cup F
    <2>1. result' = result /\ c.kids = k /\ c.child = <<None, None>>
      BY <1>1, <1>7
    <2>2. NewFamily(w, n, c, k, F)
      BY <1>8, <1>9, <2>1 DEF NewFamily
    <2> QED
      BY <2>2, NewPlaces
  <1>11. PICK q : q = <<"cell", w, n>>
    OBVIOUS
  <1>12. /\ n \notin DOMAIN cells[w] /\ cells'[w][n] = c
         /\ \A v \in Worker : \A m : m \in DOMAIN cells'[v] <=> m \in DOMAIN cells[v] \/ (v = w /\ m = n)
         /\ \A v \in Worker : \A m \in DOMAIN cells[v] : cells'[v][m] = cells[v][m]
    BY <1>8 DEF CellComes
  <1>13. \A v \in Worker : \A m \in DOMAIN cells[v] : Open(v, m)' <=> Open(v, m) /\ o # <<"cell", v, m>>
    BY <1>12, DispatchOpen
  <1>14. Open(w, n)'
    <2>1. cells'[w][n].pending > 0
      BY <1>7, <1>12
    <2> QED
      BY <2>1 DEF Open
  <1>15. q \notin Conts
    BY <1>11, <1>12, ContsAre
  <1>16. Conts' = (Conts \ {o}) \cup {q}
    <2>1. ASSUME NEW h
          PROVE  h \in Conts' <=> (h \in Conts /\ h # o) \/ h = q
      <3>1. h \in Conts <=> \E v \in Worker : \E m \in DOMAIN cells[v] : Open(v, m) /\ h = <<"cell", v, m>>
        BY ContsAre
      <3>2. h \in Conts' <=> \E v \in Worker : \E m \in DOMAIN cells'[v] : Open(v, m)' /\ h = <<"cell", v, m>>
        BY ContsAre
      <3>3. h \in Conts' => (h \in Conts /\ h # o) \/ h = q
        BY <1>11, <1>12, <1>13, <3>1, <3>2
      <3>4. h \in Conts /\ h # o => h \in Conts'
        BY <1>12, <1>13, <3>1, <3>2
      <3>5. h = q => h \in Conts'
        BY <1>11, <1>12, <1>14, <3>2
      <3> QED
        BY <3>3, <3>4, <3>5
    <2> QED
      BY <2>1
  <1>17. \A h \in Conts : PlaceOf(h)' = PlaceOf(h)
    <2> TAKE h \in Conts
    <2>1. PICK v \in Worker : \E m \in DOMAIN cells[v] : h = <<"cell", v, m>>
      BY ContsAre
    <2>2. PICK m \in DOMAIN cells[v] : h = <<"cell", v, m>>
      BY <2>1
    <2> QED
      BY <1>12, <2>2 DEF PlaceOf
  <1>18. PlaceOf(q)' = t.ret
    BY <1>7, <1>11, <1>12 DEF PlaceOf
  <1>19. \A h \in Tasks \ {o} : PlaceOf(h)' = PlaceOf(h)
    BY <1>1 DEF Comes
  <1>20. \A h \in Carriers \ {o} : PlaceOf(h)' = PlaceOf(h)
    BY <1>17, <1>19, DispatchHands DEF Carriers
  <1>21. Hands' = Hands
    BY DispatchHands DEF Opens
  <1>22. DOMAIN d.tasks = 1 .. k /\ \A i \in 1 .. k : d.tasks[i].ret = <<w, n, i>>
    BY <1>4, <1>5 DEF Task
  <1>23. PICK E : E = {e[i] : i \in 1 .. k}
    OBVIOUS
  <1>24. /\ Tasks' = (Tasks \ {o}) \cup E /\ E \cap (Tasks \ {o}) = {}
         /\ \A i \in 1 .. k : e[i] \in E /\ PlaceOf(e[i])' = <<w, n, i>>
    <2>1. PICK D : D = DOMAIN d.tasks
      OBVIOUS
    <2>2. /\ Tasks' = (Tasks \ {o}) \cup {e[i] : i \in D}
          /\ \A i \in D : e[i] \notin Tasks \ {o}
          /\ \A i \in D : PlaceOf(e[i])' = d.tasks[i].ret
      BY <1>1, <2>1 DEF Comes
    <2>3. D = 1 .. k
      BY <1>22, <2>1
    <2>4. Tasks' = (Tasks \ {o}) \cup E
      BY <1>23, <2>2, <2>3
    <2>5. E \cap (Tasks \ {o}) = {}
      BY <1>23, <2>2, <2>3
    <2>6. \A i \in 1 .. k : PlaceOf(e[i])' = <<w, n, i>>
      BY <1>22, <2>2, <2>3
    <2> QED
      BY <1>23, <2>4, <2>5, <2>6
  <1>25. \A h \in E : \E i \in 1 .. k : h = e[i] /\ PlaceOf(h)' = <<w, n, i>>
    <2> TAKE h \in E
    <2>1. PICK i \in 1 .. k : h = e[i]
      BY <1>23
    <2>2. PlaceOf(e[i])' = <<w, n, i>>
      BY <1>24
    <2>3. PlaceOf(h)' = <<w, n, i>>
      BY <2>1, <2>2 DEF PlaceOf
    <2> QED
      BY <2>1, <2>3
  <1>26. \A i \in 1 .. k : \E h \in E : PlaceOf(h)' = <<w, n, i>>
    <2> TAKE i \in 1 .. k
    <2>1. PICK h \in E : h = e[i]
      BY <1>24
    <2>2. PlaceOf(e[i])' = <<w, n, i>>
      BY <1>24
    <2>3. PlaceOf(h)' = <<w, n, i>>
      BY <2>1, <2>2 DEF PlaceOf
    <2> QED
      BY <2>3
  <1>27. PICK N : N = E \cup {q}
    OBVIOUS
  <1>28. Carriers' = (Carriers \ {o}) \cup N
    BY <1>1, <1>16, <1>21, <1>24, <1>27 DEF Carriers
  <1>29. N \cap (Carriers \ {o}) = {}
    <2>1. \A h \in E : h \notin Hands /\ h \notin Conts
      BY <1>24, Kinds
    <2>2. q \notin Tasks /\ q \notin Hands
      BY <1>11, Kinds
    <2> QED
      BY <1>15, <1>24, <1>27, <2>1, <2>2 DEF Carriers
  <1>30. t.ret \notin F
    <2>1. t.ret \in Waiting
      BY <1>1 DEF OneEach
    <2> QED
      BY <1>10, <2>1
  <1>31. \A h \in E : PlaceOf(h)' \in F
    BY <1>9, <1>25
  <1>32. \A h, h2 \in N : PlaceOf(h)' = PlaceOf(h2)' => h = h2
    <2> TAKE h, h2 \in N
    <2> HAVE PlaceOf(h)' = PlaceOf(h2)'
    <2>1. CASE h = q /\ h2 = q
      BY <2>1
    <2>2. CASE h \in E /\ h2 \in E
      BY <1>25, <2>2
    <2>3. CASE h = q /\ h2 \in E
      <3>1. PlaceOf(h)' = t.ret
        BY <1>18, <2>3 DEF PlaceOf
      <3> QED
        BY <1>30, <1>31, <2>3, <3>1
    <2>4. CASE h \in E /\ h2 = q
      <3>1. PlaceOf(h2)' = t.ret
        BY <1>18, <2>4 DEF PlaceOf
      <3> QED
        BY <1>30, <1>31, <2>4, <3>1
    <2> QED
      BY <1>27, <2>1, <2>2, <2>3, <2>4
  <1>33. \A h \in N : PlaceOf(h)' = PlaceOf(o) \/ PlaceOf(h)' \in F
    <2> TAKE h \in N
    <2>1. CASE h = q
      <3>1. PlaceOf(h)' = t.ret
        BY <1>18, <2>1 DEF PlaceOf
      <3> QED
        BY <1>1, <3>1
    <2> QED
      BY <1>27, <1>31, <2>1
  <1>34. \E h \in N : PlaceOf(h)' = PlaceOf(o)
    BY <1>1, <1>18, <1>27
  <1>35. \A r \in F : \E h \in N : PlaceOf(h)' = r
    BY <1>9, <1>26, <1>27
  <1>36. Spread(o, N, F)
    BY ONLY <1>1, <1>10, <1>20, <1>28, <1>29, <1>32, <1>33, <1>34, <1>35 DEF Spread
  <1> QED
    BY <1>1, <1>36, SpreadHolds

LEMMA DispatchHolds ==
  ASSUME HInv, NEW w \in Worker, NEW t, NEW o, NEW d, d = Dispatch(w, t),
         NEW e, Dispatches(w, t, o, d, e)
  PROVE  OneEach'
  <1>1. program \in Programs /\ t \in TaskSet
    BY DEF HInv, Inv, TypeOK, Dispatches
  <1>2. Returns(w, t, d) \/ Tails(w, t, d) \/ Opens(w, t, d)
    BY <1>1, DispatchIs
  <1> QED
    BY <1>2, DispatchPlain, DispatchOpens

\* The entries of r are those of s, then those of q.
JoinOf(s, q, r) ==
  \E l, k \in Nat :
    /\ DOMAIN s = 1 .. l /\ DOMAIN q = 1 .. k /\ DOMAIN r = 1 .. l + k
    /\ \A i \in 1 .. l : r[i] = s[i]
    /\ \A i \in 1 .. k : r[l + i] = q[i]

LEMMA JoinIs ==
  ASSUME NEW S, NEW s \in Seq(S), NEW q \in Seq(S)
  PROVE  JoinOf(s, q, s \o q)
  <1> DEFINE r == s \o q
  <1>1. PICK l, k \in Nat : l = Len(s) /\ k = Len(q) /\ DOMAIN s = 1 .. l /\ DOMAIN q = 1 .. k
    BY LenProperties
  <1>2. /\ r \in Seq(S) /\ Len(r) = Len(s) + Len(q)
        /\ \A i \in 1 .. Len(s) + Len(q) : r[i] = IF i <= Len(s) THEN s[i] ELSE q[i - Len(s)]
    BY ConcatProperties
  <1>3. /\ r \in Seq(S) /\ Len(r) = l + k
        /\ \A i \in 1 .. l + k : r[i] = IF i <= l THEN s[i] ELSE q[i - l]
    BY <1>1, <1>2
  <1>4. DOMAIN r = 1 .. l + k
    BY <1>3, LenProperties
  <1>5. \A i \in 1 .. l : r[i] = s[i]
    BY <1>1, <1>3
  <1>6. \A i \in 1 .. k : r[l + i] = q[i]
    <2> TAKE i \in 1 .. k
    <2>1. PICK j : j = l + i /\ j \in 1 .. l + k /\ ~(j <= l) /\ j - l = i
      BY <1>1
    <2>2. r[j] = q[j - l]
      BY <1>3, <2>1
    <2> QED
      BY <2>1, <2>2
  <1> HIDE DEF r
  <1>7. JoinOf(s, q, r)
    BY <1>1, <1>4, <1>5, <1>6 DEF JoinOf
  <1> QED
    BY <1>7 DEF r

\* The queue keeps its tasks, but the one that o is.
QueueLoses(o) == /\ \A i : i \in Queued' <=> i \in Queued /\ o # <<"queued", i, 0>>
                 /\ buf' = buf

\* The tasks of a dispatch at the end of the flush buffer.
LEMMA ComesUnflushed ==
  ASSUME NEW w \in Worker, NEW S, NEW tasks \in Seq(S), wo[w] \in Seq(S),
         wo'[w] = wo[w] \o tasks, \A v \in Worker : v # w => wo'[v] = wo[v],
         stack' = stack, NEW o, QueueLoses(o),
         \A v, i : o # <<"stacked", v, i>> /\ o # <<"unflushed", v, i>>
  PROVE  \E e : Comes(o, e, tasks)
  <1>1. PICK l, k \in Nat :
          /\ DOMAIN wo[w] = 1 .. l /\ DOMAIN tasks = 1 .. k /\ DOMAIN wo'[w] = 1 .. l + k
          /\ \A i \in 1 .. l : wo'[w][i] = wo[w][i]
          /\ \A i \in 1 .. k : wo'[w][l + i] = tasks[i]
    <2>1. PICK s, r : s = wo[w] /\ r = wo'[w]
      OBVIOUS
    <2>2. s \in Seq(S) /\ r = s \o tasks
      BY <2>1
    <2>3. JoinOf(s, tasks, r)
      BY <2>2, JoinIs
    <2> QED
      BY <2>1, <2>3 DEF JoinOf
  <1>2. PICK e : e = [i \in 1 .. k |-> <<"unflushed", w, l + i>>]
    OBVIOUS
  <1>3. \A i \in 1 .. k : e[i] = <<"unflushed", w, l + i>>
    BY <1>2
  <1>4. \A j : j \in 1 .. l + k <=> j \in 1 .. l \/ \E i \in 1 .. k : j = l + i
    <2> TAKE j
    <2>1. j \in 1 .. l + k /\ j \notin 1 .. l => j - l \in 1 .. k /\ j = l + (j - l)
      OBVIOUS
    <2>2. \A i \in 1 .. k : l + i \in 1 .. l + k
      OBVIOUS
    <2>3. j \in 1 .. l => j \in 1 .. l + k
      OBVIOUS
    <2> QED
      BY <2>1, <2>2, <2>3
  <1>5. \A i \in 1 .. k : l + i \notin 1 .. l
    OBVIOUS
  <1>6. \A i, j \in 1 .. k : l + i = l + j => i = j
    OBVIOUS
  <1>7. Tasks' = (Tasks \ {o}) \cup {e[i] : i \in DOMAIN tasks}
    <2>1. ASSUME NEW h
          PROVE  h \in Tasks' <=> (h \in Tasks /\ h # o) \/ \E i \in 1 .. k : h = e[i]
      <3>1. ASSUME NEW i, h = <<"queued", i, 0>>
            PROVE  h \in Tasks' <=> (h \in Tasks /\ h # o) \/ \E j \in 1 .. k : h = e[j]
        <4>1. (h \in Tasks <=> i \in Queued) /\ (h \in Tasks' <=> i \in Queued')
          <5>1. h \in Tasks <=> i \in Queued
            BY <3>1, TasksAre
          <5>2. h \in Tasks' <=> i \in Queued'
            BY <3>1, TasksAre
          <5> QED
            BY <5>1, <5>2
        <4>2. ~ \E j \in 1 .. k : h = e[j]
          BY <1>3, <3>1
        <4> QED
          BY <3>1, <4>1, <4>2 DEF QueueLoses
      <3>2. ASSUME NEW v, NEW i, h = <<"stacked", v, i>>
            PROVE  h \in Tasks' <=> (h \in Tasks /\ h # o) \/ \E j \in 1 .. k : h = e[j]
        <4>1. h \in Tasks' <=> h \in Tasks
          <5>1. h \in Tasks <=> v \in Worker /\ i \in DOMAIN stack[v]
            BY <3>2, TasksAre
          <5>2. h \in Tasks' <=> v \in Worker /\ i \in DOMAIN stack'[v]
            BY <3>2, TasksAre
          <5> QED
            BY <5>1, <5>2
        <4>2. ~ \E j \in 1 .. k : h = e[j]
          BY <1>3, <3>2
        <4> QED
          BY <3>2, <4>1, <4>2
      <3>3. ASSUME NEW v, NEW i, h = <<"unflushed", v, i>>
            PROVE  h \in Tasks' <=> (h \in Tasks /\ h # o) \/ \E j \in 1 .. k : h = e[j]
        <4>1. h \in Tasks <=> v \in Worker /\ i \in DOMAIN wo[v]
          BY <3>3, TasksAre
        <4>2. h \in Tasks' <=> v \in Worker /\ i \in DOMAIN wo'[v]
          BY <3>3, TasksAre
        <4>3. (\E j \in 1 .. k : h = e[j]) <=> v = w /\ \E j \in 1 .. k : i = l + j
          <5>1. \A a, b, c, x : <<"unflushed", a, b>> = <<"unflushed", c, x>> <=> a = c /\ b = x
            OBVIOUS
          <5>2. \A j \in 1 .. k : h = e[j] <=> v = w /\ i = l + j
            BY <1>3, <3>3, <5>1
          <5> QED
            BY <5>2
        <4>4. h # o
          BY <3>3
        <4>5. CASE v = w
          BY <1>1, <1>4, <4>1, <4>2, <4>3, <4>4, <4>5
        <4>6. CASE v # w
          BY <4>1, <4>2, <4>3, <4>4, <4>6
        <4> QED
          BY <4>5, <4>6
      <3>4. h \in Tasks \/ h \in Tasks' \/ (\E i \in 1 .. k : h = e[i]) =>
              \/ \E i : h = <<"queued", i, 0>>
              \/ \E v, i : h = <<"stacked", v, i>>
              \/ \E v, i : h = <<"unflushed", v, i>>
        <4>1. h \in Tasks \/ h \in Tasks' =>
                \/ \E i : h = <<"queued", i, 0>>
                \/ \E v, i : h = <<"stacked", v, i>>
                \/ \E v, i : h = <<"unflushed", v, i>>
          BY TasksAre
        <4> QED
          BY <1>3, <4>1
      <3> QED
        BY <3>1, <3>2, <3>3, <3>4
    <2>2. \A h : h \in {e[i] : i \in DOMAIN tasks} <=> \E i \in 1 .. k : h = e[i]
      BY <1>1
    <2> QED
      BY <2>1, <2>2
  <1>8. \A i \in DOMAIN tasks : e[i] \notin Tasks \ {o}
    <2> TAKE i \in DOMAIN tasks
    <2>1. PICK j : j = l + i
      OBVIOUS
    <2>2. j \notin DOMAIN wo[w] /\ e[i] = <<"unflushed", w, j>>
      BY <1>1, <1>3, <1>5, <2>1
    <2>3. e[i] \notin Tasks
      BY <2>2, TasksAre
    <2> QED
      BY <2>3
  <1>9. \A i, j \in DOMAIN tasks : e[i] = e[j] => i = j
    BY <1>1, <1>3, <1>6
  <1>10. \A i \in DOMAIN tasks : PlaceOf(e[i])' = tasks[i].ret
    <2> TAKE i \in DOMAIN tasks
    <2>1. PICK j : j = l + i
      OBVIOUS
    <2>2. wo'[w][j] = tasks[i] /\ e[i] = <<"unflushed", w, j>>
      BY <1>1, <1>3, <2>1
    <2>3. e[i][1] = "unflushed" /\ e[i][2] = w /\ e[i][3] = j
      BY <2>2
    <2> QED
      BY <2>2, <2>3 DEF PlaceOf
  <1>11. \A h \in Tasks \ {o} : PlaceOf(h)' = PlaceOf(h)
    <2> TAKE h \in Tasks \ {o}
    <2>1. ASSUME NEW i, h = <<"queued", i, 0>>
          PROVE  PlaceOf(h)' = PlaceOf(h)
      BY <2>1 DEF PlaceOf, QueueLoses
    <2>2. ASSUME NEW v, NEW i, h = <<"stacked", v, i>>
          PROVE  PlaceOf(h)' = PlaceOf(h)
      BY <2>2 DEF PlaceOf
    <2>3. ASSUME NEW v \in Worker, NEW i \in DOMAIN wo[v], h = <<"unflushed", v, i>>
          PROVE  PlaceOf(h)' = PlaceOf(h)
      <3>1. wo'[v][i] = wo[v][i]
        BY <1>1
      <3> QED
        BY <2>3, <3>1 DEF PlaceOf
    <2> QED
      BY <2>1, <2>2, <2>3, TasksAre
  <1>12. Comes(o, e, tasks)
    BY ONLY <1>7, <1>8, <1>9, <1>10, <1>11 DEF Comes
  <1> QED
    BY <1>12

\* On the stack, `add' follows `base', which is what was there but for o; the
\* tasks of a dispatch are in `add', in the order p puts them.
Restacks(w, o, k, tasks, base, add, p) ==
  /\ DOMAIN tasks = 1 .. k /\ DOMAIN add = 1 .. k /\ JoinOf(base, add, stack'[w])
  /\ \A i \in 1 .. k : p[i] \in 1 .. k /\ add[p[i]] = tasks[i]
  /\ \A i, j \in 1 .. k : p[i] = p[j] => i = j
  /\ \A j \in 1 .. k : \E i \in 1 .. k : p[i] = j
  /\ \A v \in Worker : v # w => stack'[v] = stack[v]
  /\ wo' = wo /\ QueueLoses(o)
  /\ \A v, i : o # <<"unflushed", v, i>>
  /\ \A v, i : o = <<"stacked", v, i>> => v = w
  /\ \A i : i \in DOMAIN base <=> i \in DOMAIN stack[w] /\ o # <<"stacked", w, i>>
  /\ \A i \in DOMAIN base : base[i] = stack[w][i]

LEMMA ComesStacked ==
  ASSUME NEW w \in Worker, NEW k \in Nat, NEW tasks, NEW base, NEW add, NEW p, NEW o,
         Restacks(w, o, k, tasks, base, add, p)
  PROVE  \E e : Comes(o, e, tasks)
  <1>0. /\ DOMAIN tasks = 1 .. k /\ wo' = wo /\ QueueLoses(o)
        /\ \A v \in Worker : v # w => stack'[v] = stack[v]
    BY DEF Restacks
  <1>14. /\ \A i \in 1 .. k : p[i] \in 1 .. k /\ add[p[i]] = tasks[i]
         /\ \A i, j \in 1 .. k : p[i] = p[j] => i = j
         /\ \A j \in 1 .. k : \E i \in 1 .. k : p[i] = j
    BY DEF Restacks
  <1>15. /\ \A i : i \in DOMAIN base <=> i \in DOMAIN stack[w] /\ o # <<"stacked", w, i>>
         /\ \A i \in DOMAIN base : base[i] = stack[w][i]
    BY DEF Restacks
  <1>16. /\ \A v, i : o # <<"unflushed", v, i>>
         /\ \A v, i : o = <<"stacked", v, i>> => v = w
    BY DEF Restacks
  <1>1. PICK l \in Nat :
          /\ DOMAIN base = 1 .. l /\ DOMAIN stack'[w] = 1 .. l + k
          /\ \A i \in 1 .. l : stack'[w][i] = base[i]
          /\ \A i \in 1 .. k : stack'[w][l + i] = add[i]
    <2>1. PICK l, m \in Nat :
            /\ DOMAIN base = 1 .. l /\ DOMAIN add = 1 .. m /\ DOMAIN stack'[w] = 1 .. l + m
            /\ \A i \in 1 .. l : stack'[w][i] = base[i]
            /\ \A i \in 1 .. m : stack'[w][l + i] = add[i]
      BY DEF Restacks, JoinOf
    <2>2. 1 .. m = 1 .. k
      BY <2>1 DEF Restacks
    <2>3. m = k
      BY <2>2
    <2> QED
      BY <2>1, <2>3
  <1>2. PICK e : e = [i \in 1 .. k |-> <<"stacked", w, l + p[i]>>]
    OBVIOUS
  <1>3. \A i \in 1 .. k : e[i] = <<"stacked", w, l + p[i]>>
    BY <1>2
  <1>4. \A j : j \in 1 .. l + k <=> j \in 1 .. l \/ \E i \in 1 .. k : j = l + i
    <2> TAKE j
    <2>1. j \in 1 .. l + k /\ j \notin 1 .. l => j - l \in 1 .. k /\ j = l + (j - l)
      OBVIOUS
    <2>2. \A i \in 1 .. k : l + i \in 1 .. l + k
      OBVIOUS
    <2>3. j \in 1 .. l => j \in 1 .. l + k
      OBVIOUS
    <2> QED
      BY <2>1, <2>2, <2>3
  <1>5. \A i \in 1 .. k : l + i \notin 1 .. l
    OBVIOUS
  <1>6. \A i, j \in 1 .. k : l + i = l + j => i = j
    OBVIOUS
  <1>7. \A j : (\E i \in 1 .. k : j = l + p[i]) <=> \E i \in 1 .. k : j = l + i
    <2> TAKE j
    <2>1. ASSUME NEW i \in 1 .. k, j = l + i
          PROVE  \E m \in 1 .. k : j = l + p[m]
      <3>1. PICK m \in 1 .. k : p[m] = i
        BY <1>14
      <3> QED
        BY <2>1, <3>1
    <2>2. ASSUME NEW i \in 1 .. k, j = l + p[i]
          PROVE  \E m \in 1 .. k : j = l + m
      <3>1. PICK m : m = p[i]
        OBVIOUS
      <3>2. m \in 1 .. k
        BY <1>14, <3>1
      <3> QED
        BY <2>2, <3>1, <3>2
    <2> QED
      BY <2>1, <2>2
  <1>8. Tasks' = (Tasks \ {o}) \cup {e[i] : i \in DOMAIN tasks}
    <2>1. ASSUME NEW h
          PROVE  h \in Tasks' <=> (h \in Tasks /\ h # o) \/ \E i \in 1 .. k : h = e[i]
      <3>1. ASSUME NEW i, h = <<"queued", i, 0>>
            PROVE  h \in Tasks' <=> (h \in Tasks /\ h # o) \/ \E j \in 1 .. k : h = e[j]
        <4>1. (h \in Tasks <=> i \in Queued) /\ (h \in Tasks' <=> i \in Queued')
          <5>1. h \in Tasks <=> i \in Queued
            BY <3>1, TasksAre
          <5>2. h \in Tasks' <=> i \in Queued'
            BY <3>1, TasksAre
          <5> QED
            BY <5>1, <5>2
        <4>2. ~ \E j \in 1 .. k : h = e[j]
          BY <1>3, <3>1
        <4> QED
          BY <1>0, <3>1, <4>1, <4>2 DEF QueueLoses
      <3>2. ASSUME NEW v, NEW i, h = <<"unflushed", v, i>>
            PROVE  h \in Tasks' <=> (h \in Tasks /\ h # o) \/ \E j \in 1 .. k : h = e[j]
        <4>1. h \in Tasks' <=> h \in Tasks
          <5>1. h \in Tasks <=> v \in Worker /\ i \in DOMAIN wo[v]
            BY <3>2, TasksAre
          <5>2. h \in Tasks' <=> v \in Worker /\ i \in DOMAIN wo'[v]
            BY <3>2, TasksAre
          <5> QED
            BY <1>0, <5>1, <5>2
        <4>2. ~ \E j \in 1 .. k : h = e[j]
          BY <1>3, <3>2
        <4> QED
          BY <1>16, <3>2, <4>1, <4>2
      <3>3. ASSUME NEW v, NEW i, h = <<"stacked", v, i>>
            PROVE  h \in Tasks' <=> (h \in Tasks /\ h # o) \/ \E j \in 1 .. k : h = e[j]
        <4>1. h \in Tasks <=> v \in Worker /\ i \in DOMAIN stack[v]
          BY <3>3, TasksAre
        <4>2. h \in Tasks' <=> v \in Worker /\ i \in DOMAIN stack'[v]
          BY <3>3, TasksAre
        <4>3. (\E j \in 1 .. k : h = e[j]) <=> v = w /\ \E j \in 1 .. k : i = l + p[j]
          <5>1. \A a, b, c, x : <<"stacked", a, b>> = <<"stacked", c, x>> <=> a = c /\ b = x
            OBVIOUS
          <5>2. \A j \in 1 .. k : h = e[j] <=> v = w /\ i = l + p[j]
            BY <1>3, <3>3, <5>1
          <5> QED
            BY <5>2
        <4>4. CASE v = w
          <5>1. i \in DOMAIN stack'[w] <=> i \in DOMAIN base \/ \E j \in 1 .. k : i = l + p[j]
            BY <1>1, <1>4, <1>7
          <5>2. i \in DOMAIN base <=> i \in DOMAIN stack[w] /\ h # o
            BY <1>15, <3>3, <4>4
          <5> QED
            BY <4>1, <4>2, <4>3, <4>4, <5>1, <5>2
        <4>5. CASE v # w
          <5>1. h # o
            BY <1>16, <3>3, <4>5
          <5> QED
            BY <1>0, <4>1, <4>2, <4>3, <4>5, <5>1
        <4> QED
          BY <4>4, <4>5
      <3>4. h \in Tasks \/ h \in Tasks' \/ (\E i \in 1 .. k : h = e[i]) =>
              \/ \E i : h = <<"queued", i, 0>>
              \/ \E v, i : h = <<"stacked", v, i>>
              \/ \E v, i : h = <<"unflushed", v, i>>
        <4>1. h \in Tasks \/ h \in Tasks' =>
                \/ \E i : h = <<"queued", i, 0>>
                \/ \E v, i : h = <<"stacked", v, i>>
                \/ \E v, i : h = <<"unflushed", v, i>>
          BY TasksAre
        <4> QED
          BY <1>3, <4>1
      <3> QED
        BY <3>1, <3>2, <3>3, <3>4
    <2>2. \A h : h \in {e[i] : i \in DOMAIN tasks} <=> \E i \in 1 .. k : h = e[i]
      BY <1>0
    <2> QED
      BY <2>1, <2>2
  <1>9. \A i \in DOMAIN tasks : e[i] \notin Tasks \ {o}
    <2> TAKE i \in DOMAIN tasks
    <2>1. PICK m : m = p[i]
      OBVIOUS
    <2>2. PICK j : j = l + m
      OBVIOUS
    <2>3. m \in 1 .. k /\ e[i] = <<"stacked", w, j>>
      BY <1>0, <1>3, <1>14, <2>1, <2>2
    <2>4. j \notin DOMAIN base
      BY <1>1, <1>5, <2>2, <2>3
    <2>5. e[i] \in Tasks => j \in DOMAIN stack[w]
      BY <2>3, TasksAre
    <2> QED
      BY <1>15, <2>3, <2>4, <2>5
  <1>10. \A i, j \in DOMAIN tasks : e[i] = e[j] => i = j
    <2> TAKE i, j \in DOMAIN tasks
    <2>0. HAVE e[i] = e[j]
    <2>1. PICK x : x = p[i]
      OBVIOUS
    <2>2. PICK y : y = p[j]
      OBVIOUS
    <2>3. PICK a : a = l + x
      OBVIOUS
    <2>4. PICK b : b = l + y
      OBVIOUS
    <2>5. x \in 1 .. k /\ e[i] = <<"stacked", w, a>>
      BY <1>0, <1>3, <1>14, <2>1, <2>3
    <2>6. y \in 1 .. k /\ e[j] = <<"stacked", w, b>>
      BY <1>0, <1>3, <1>14, <2>2, <2>4
    <2>7. a = b
      <3>1. \A u, v : <<"stacked", w, u>> = <<"stacked", w, v>> => u = v
        OBVIOUS
      <3> QED
        BY <2>0, <2>5, <2>6, <3>1
    <2>8. l + x = l + y
      BY <2>3, <2>4, <2>7
    <2>9. x = y
      BY <1>6, <2>5, <2>6, <2>8
    <2> QED
      BY <1>0, <1>14, <2>1, <2>2, <2>9
  <1>11. \A i \in DOMAIN tasks : PlaceOf(e[i])' = tasks[i].ret
    <2> TAKE i \in DOMAIN tasks
    <2>1. PICK m : m = p[i]
      OBVIOUS
    <2>2. PICK j : j = l + m
      OBVIOUS
    <2>3. m \in 1 .. k /\ e[i] = <<"stacked", w, j>> /\ stack'[w][j] = add[m] /\ add[m] = tasks[i]
      BY <1>0, <1>1, <1>3, <1>14, <2>1, <2>2
    <2>4. e[i][1] = "stacked" /\ e[i][2] = w /\ e[i][3] = j
      BY <2>3
    <2> QED
      BY <2>3, <2>4 DEF PlaceOf
  <1>12. \A h \in Tasks \ {o} : PlaceOf(h)' = PlaceOf(h)
    <2> TAKE h \in Tasks \ {o}
    <2>1. ASSUME NEW i, h = <<"queued", i, 0>>
          PROVE  PlaceOf(h)' = PlaceOf(h)
      BY <1>0, <2>1 DEF PlaceOf, QueueLoses
    <2>2. ASSUME NEW v, NEW i, h = <<"unflushed", v, i>>
          PROVE  PlaceOf(h)' = PlaceOf(h)
      BY <1>0, <2>2 DEF PlaceOf
    <2>3. ASSUME NEW v \in Worker, NEW i \in DOMAIN stack[v], h = <<"stacked", v, i>>
          PROVE  PlaceOf(h)' = PlaceOf(h)
      <3>1. stack'[v][i] = stack[v][i]
        <4>1. CASE v # w
          BY <1>0, <4>1
        <4>2. CASE v = w
          <5>1. i \in DOMAIN base
            BY <1>15, <2>3, <4>2
          <5> QED
            BY <1>1, <1>15, <4>2, <5>1
        <4> QED
          BY <4>1, <4>2
      <3> QED
        BY <2>3, <3>1 DEF PlaceOf
    <2> QED
      BY <2>1, <2>2, <2>3, TasksAre
  <1>13. Comes(o, e, tasks)
    BY ONLY <1>8, <1>9, <1>10, <1>11, <1>12 DEF Comes
  <1> QED
    BY <1>13

\* A worker dispatches a task: where it is afterwards.
Dispatching(w) ==
  /\ \E t, o, e : Dispatches(w, t, o, Dispatch(w, t), e)
  /\ pc'[w] \notin {"finish", "count", "fire"}
  /\ pc'[w] = "resolve" => res'[w].val # None

\* What a dispatch returns to the worker.
LEMMA ReturnsIs ==
  ASSUME Inv, NEW w \in Worker, NEW t \in TaskSet, program' = program, NEW d, d = Dispatch(w, t),
         cells' = [cells EXCEPT ![w] = d.cells]
  PROVE  /\ d.tasks \in Seq(TaskSet') /\ TaskSet \subseteq TaskSet'
         /\ Seq(TaskSet) \subseteq Seq(TaskSet')
         /\ d.kind = "value" => d.tasks = <<>> /\ d.val # None
  <1>1. TypeOK /\ program \in Programs
    BY DEF Inv, TypeOK
  <1>2. /\ Grows
        /\ \/ d.kind = "value" /\ d.tasks = <<>> /\ d.val \in Val'
           \/ /\ d.kind \in {"call", "split"}
              /\ d.tasks \in Seq(TaskSet') /\ Len(d.tasks) \in 1 .. 2
    BY <1>1, DispatchTypes
  <1>3. d.tasks \in Seq(TaskSet')
    <2>1. <<>> \in Seq(TaskSet')
      OBVIOUS
    <2> QED
      BY <1>2, <2>1
  <1>4. d.kind = "value" => d.val # None
    <2>1. Returns(w, t, d) \/ Tails(w, t, d) \/ Opens(w, t, d)
      BY <1>1, DispatchIs
    <2> QED
      BY <2>1 DEF Returns, Tails, Opens
  <1> QED
    BY <1>2, <1>3, <1>4, Grown

LEMMA TakeSeedDispatches ==
  ASSUME HInv, Inv', NEW w \in Worker, TakeSeed(w)
  PROVE  Dispatching(w)
  <1>1. PICK x \in Queued : x = Head(grab[w]) /\ Queued' = Queued \ {x}
    BY QueuedTake
  <1>2. PICK t : t = buf[x]
    OBVIOUS
  <1>3. PICK d : d = Dispatch(w, t)
    OBVIOUS
  <1>4. PICK o : o = <<"queued", x, 0>>
    OBVIOUS
  <1>5. /\ program' = program /\ cells' = [cells EXCEPT ![w] = d.cells]
        /\ IF d.kind = "value"
           THEN /\ res' = [res EXCEPT ![w] = [ret |-> t.ret, val |-> d.val]]
                /\ Goto(w, "resolve") /\ wo' = wo
           ELSE /\ wo' = [wo EXCEPT ![w] = @ \o d.tasks]
                /\ Dealt(w, wo'[w], Tail(grab[w])) /\ res' = res
        /\ stack' = stack /\ buf' = buf /\ result' = result /\ pc[w] = "take"
    BY <1>1, <1>2, <1>3 DEF TakeSeed, queue, answer
  <1>6. /\ Inv /\ TypeOK /\ wo \in [Worker -> Seq(TaskSet)] /\ res \in [Worker -> [ret : Places, val : Val]]
        /\ pc \in [Worker -> RoundPc \cup BarrierPc \cup {"check", "next", "compact", "again", "quit"}]
    BY DEF HInv, Inv, TypeOK
  <1>7. t \in TaskSet
    BY <1>1, <1>2, <1>6, TakenIs DEF TakeSeed, Inv, Private
  <1>8. /\ d.tasks \in Seq(TaskSet') /\ Seq(TaskSet) \subseteq Seq(TaskSet')
        /\ d.kind = "value" => d.tasks = <<>> /\ d.val # None
    BY <1>3, <1>5, <1>6, <1>7, ReturnsIs
  <1>9. QueueLoses(o)
    <2>1. \A i : i \in Queued' <=> i \in Queued /\ i # x
      BY <1>1
    <2>2. \A i : o # <<"queued", i, 0>> <=> i # x
      BY <1>4
    <2> QED
      BY <1>5, <2>1, <2>2 DEF QueueLoses
  <1>10. \A v, i : o # <<"stacked", v, i>> /\ o # <<"unflushed", v, i>>
    BY <1>4
  <1>11. wo'[w] = wo[w] \o d.tasks /\ \A v \in Worker : v # w => wo'[v] = wo[v]
    <2>1. CASE d.kind = "value"
      <3>1. PICK s : s = wo[w] /\ s \in Seq(TaskSet)
        BY <1>6
      <3>2. s \o <<>> = s
        BY <3>1, ConcatEmptySeq
      <3> QED
        BY <1>5, <1>8, <2>1, <3>1, <3>2
    <2>2. CASE d.kind # "value"
      BY <1>5, <1>6, <2>2
    <2> QED
      BY <2>1, <2>2
  <1>12. PICK S : S = TaskSet'
    OBVIOUS
  <1>13. d.tasks \in Seq(S) /\ wo[w] \in Seq(S)
    BY <1>6, <1>8, <1>12
  <1>14. PICK e : Comes(o, e, d.tasks)
    BY <1>5, <1>9, <1>10, <1>11, <1>13, ComesUnflushed
  <1>15. o \in Carriers \ Hands /\ PlaceOf(o) = t.ret
    <2>1. o \in Tasks
      BY <1>1, <1>4, TasksAre
    <2>2. PlaceOf(<<"queued", x, 0>>) = buf[x].ret
      BY DEF PlaceOf
    <2> QED
      BY <1>2, <1>4, <2>1, <2>2, Apart DEF Carriers
  <1>16. \A l : Goto(w, l) => pc' = [pc EXCEPT ![w] = l]
    BY DEF Goto
  <1>17. /\ \A v \in Worker : v # w => pc'[v] = pc[v] /\ res'[v] = res[v]
         /\ d.kind = "value" => /\ pc'[w] = "resolve" /\ res'[w].ret = t.ret
                                /\ res'[w].val = d.val
         /\ d.kind # "value" => pc'[w] \in {"descend", "flush", "grab", "take"}
    <2>1. CASE d.kind = "value"
      BY <1>5, <1>6, <1>16, <2>1
    <2>2. CASE d.kind # "value"
      <3>1. PICK l \in {"descend", "flush", "grab", "take"} : pc' = [pc EXCEPT ![w] = l]
        BY <1>5, <2>2, DealtIs
      <3> QED
        BY <1>5, <1>6, <2>2, <3>1
    <2> QED
      BY <2>1, <2>2
  <1>18. \A v, m : o = <<"cell", v, m>> <=> pc[w] = "fire" /\ res[w].ret[1] = v /\ res[w].ret[2] = m
    BY <1>4, <1>5
  <1>19. Dispatches(w, t, o, d, e)
    BY <1>5, <1>7, <1>14, <1>15, <1>17, <1>18 DEF Dispatches
  <1> QED
    BY <1>3, <1>8, <1>17, <1>19 DEF Dispatching

\* p is a way from the places of s to those of r.
Orders(k, p, s, r) ==
  /\ DOMAIN s = 1 .. k /\ DOMAIN r = 1 .. k
  /\ \A i \in 1 .. k : p[i] \in 1 .. k /\ r[p[i]] = s[i]
  /\ \A i, j \in 1 .. k : p[i] = p[j] => i = j
  /\ \A j \in 1 .. k : \E i \in 1 .. k : p[i] = j

\* The order of a reversed sequence.
LEMMA Reversed ==
  ASSUME NEW S, NEW s \in Seq(S)
  PROVE  \E k \in Nat : \E p : Orders(k, p, s, Reverse(s))
  <1>1. PICK r : r = Reverse(s)
    OBVIOUS
  <1>2. PICK k \in Nat : k = Len(s) /\ DOMAIN s = 1 .. k
    BY LenProperties
  <1>3. /\ r \in Seq(S) /\ Len(r) = k
        /\ \A i \in 1 .. k : r[i] = s[k - i + 1]
    BY <1>1, <1>2, ReverseIs
  <1>4. DOMAIN r = 1 .. k
    BY <1>3, LenProperties
  <1>5. PICK p : p = [i \in 1 .. k |-> k - i + 1]
    OBVIOUS
  <1>6. \A i \in 1 .. k : p[i] \in 1 .. k /\ k - p[i] + 1 = i /\ p[i] = k - i + 1
    BY <1>5
  <1>7. \A i \in 1 .. k : p[i] \in 1 .. k /\ r[p[i]] = s[i]
    <2> TAKE i \in 1 .. k
    <2>1. PICK j : j = p[i] /\ j \in 1 .. k /\ k - j + 1 = i
      BY <1>6
    <2>2. r[j] = s[k - j + 1]
      BY <1>3, <2>1
    <2> QED
      BY <2>1, <2>2
  <1>8. \A i, j \in 1 .. k : p[i] = p[j] => i = j
    BY <1>6
  <1>9. \A j \in 1 .. k : \E i \in 1 .. k : p[i] = j
    <2> TAKE j \in 1 .. k
    <2>1. PICK i : i = p[j]
      OBVIOUS
    <2>2. i \in 1 .. k /\ p[i] = j
      BY <1>6, <2>1
    <2> QED
      BY <2>2
  <1>10. Orders(k, p, s, r)
    BY ONLY <1>2, <1>4, <1>7, <1>8, <1>9 DEF Orders
  <1> QED
    BY <1>1, <1>10

LEMMA DescendDispatches ==
  ASSUME HInv, Inv', NEW w \in Worker, Descend(w)
  PROVE  Dispatching(w)
  <1>1. PICK s : s = stack[w]
    OBVIOUS
  <1>2. PICK t : t = Last(s)
    OBVIOUS
  <1>3. PICK d : d = Dispatch(w, t)
    OBVIOUS
  <1>4. PICK n : n = Len(s)
    OBVIOUS
  <1>5. PICK o : o = <<"stacked", w, n>>
    OBVIOUS
  <1>6. /\ program' = program /\ cells' = [cells EXCEPT ![w] = d.cells]
        /\ stack' = [stack EXCEPT ![w] = Front(s) \o Reverse(d.tasks)]
        /\ IF d.kind = "value"
           THEN /\ res' = [res EXCEPT ![w] = [ret |-> t.ret, val |-> d.val]]
                /\ Goto(w, "resolve")
           ELSE pc' = pc /\ res' = res
        /\ wo' = wo /\ buf' = buf /\ result' = result /\ pc[w] = "descend" /\ s # <<>>
    BY <1>1, <1>2, <1>3 DEF Descend, queue, answer
  <1>7. /\ Inv /\ TypeOK /\ stack \in [Worker -> Seq(TaskSet)] /\ res \in [Worker -> [ret : Places, val : Val]]
        /\ pc \in [Worker -> RoundPc \cup BarrierPc \cup {"check", "next", "compact", "again", "quit"}]
        /\ s \in Seq(TaskSet)
    BY <1>1 DEF HInv, Inv, TypeOK
  <1>8. /\ n \in Nat \ {0} /\ t = s[n] /\ t \in TaskSet /\ Front(s) \in Seq(TaskSet) /\ Len(Front(s)) = n - 1
        /\ \A i \in 1 .. n - 1 : Front(s)[i] = s[i]
    BY <1>2, <1>4, <1>6, <1>7, FrontIs
  <1>9. /\ d.tasks \in Seq(TaskSet') /\ Seq(TaskSet) \subseteq Seq(TaskSet')
        /\ d.kind = "value" => d.tasks = <<>> /\ d.val # None
    <2>1. Inv /\ t \in TaskSet /\ program' = program /\ cells' = [cells EXCEPT ![w] = d.cells]
      BY <1>6, <1>7, <1>8
    <2> QED
      BY <1>3, <2>1, ReturnsIs
  <1>10. PICK S : S = TaskSet'
    OBVIOUS
  <1>11. PICK base : base = Front(s)
    OBVIOUS
  <1>12. PICK tasks : tasks = d.tasks
    OBVIOUS
  <1>13. PICK add : add = Reverse(tasks)
    OBVIOUS
  <1>14. tasks \in Seq(S) /\ add \in Seq(S) /\ base \in Seq(S)
    BY <1>8, <1>9, <1>10, <1>11, <1>12, <1>13, ReverseIs
  <1>15. PICK k \in Nat : \E p : Orders(k, p, tasks, add)
    BY <1>13, <1>14, Reversed
  <1>31. PICK p : Orders(k, p, tasks, add)
    BY <1>15
  <1>16.   /\ DOMAIN tasks = 1 .. k /\ DOMAIN add = 1 .. k
           /\ \A i \in 1 .. k : p[i] \in 1 .. k /\ add[p[i]] = tasks[i]
           /\ \A i, j \in 1 .. k : p[i] = p[j] => i = j
           /\ \A j \in 1 .. k : \E i \in 1 .. k : p[i] = j
    BY <1>31 DEF Orders
  <1>17. stack'[w] = base \o add /\ \A v \in Worker : v # w => stack'[v] = stack[v]
    BY <1>6, <1>7, <1>11, <1>12, <1>13
  <1>18. JoinOf(base, add, stack'[w])
    BY <1>14, <1>17, JoinIs
  <1>19. QueueLoses(o)
    <2>1. Queued' = Queued
      <3>1. Step(w) /\ ~TakeSeed(w) /\ ~TakeWork(w) /\ ~Copy(w) /\ ~Compact(w)
        BY <1>6 DEF Step, TakeSeed, TakeWork, Copy, Compact
      <3> QED
        BY <3>1, QueuedStay
    <2>2. \A i : o # <<"queued", i, 0>>
      BY <1>5
    <2> QED
      BY <1>6, <2>1, <2>2 DEF QueueLoses
  <1>20. /\ \A v, i : o # <<"unflushed", v, i>>
         /\ \A v, i : o = <<"stacked", v, i>> <=> v = w /\ i = n
    BY <1>5
  <1>21. DOMAIN s = 1 .. n /\ DOMAIN base = 1 .. n - 1
    BY <1>4, <1>7, <1>8, <1>11, LenProperties
  <1>22. \A i : i \in DOMAIN base <=> i \in DOMAIN s /\ o # <<"stacked", w, i>>
    <2>1. \A i : i \in 1 .. n - 1 <=> i \in 1 .. n /\ i # n
      BY <1>8
    <2> QED
      BY <1>20, <1>21, <2>1
  <1>23. \A i \in DOMAIN base : base[i] = s[i]
    BY <1>8, <1>11, <1>21
  <1>24. Restacks(w, o, k, tasks, base, add, p)
    BY ONLY <1>1, <1>6, <1>16, <1>17, <1>18, <1>19, <1>20, <1>22, <1>23 DEF Restacks
  <1>25. PICK e : Comes(o, e, d.tasks)
    BY <1>12, <1>24, ComesStacked
  <1>26. o \in Carriers \ Hands /\ PlaceOf(o) = t.ret
    <2>1. n \in DOMAIN stack[w]
      BY <1>1, <1>8, <1>21
    <2>2. o \in Tasks
      BY <1>5, <2>1, TasksAre
    <2>3. PlaceOf(<<"stacked", w, n>>) = stack[w][n].ret
      BY DEF PlaceOf
    <2> QED
      BY <1>1, <1>5, <1>8, <2>2, <2>3, Apart DEF Carriers
  <1>27. \A l : Goto(w, l) => pc' = [pc EXCEPT ![w] = l]
    BY DEF Goto
  <1>28. /\ \A v \in Worker : v # w => pc'[v] = pc[v] /\ res'[v] = res[v]
         /\ d.kind = "value" => /\ pc'[w] = "resolve" /\ res'[w].ret = t.ret
                                /\ res'[w].val = d.val
         /\ d.kind # "value" => pc'[w] = "descend"
    <2>1. CASE d.kind = "value"
      BY <1>6, <1>7, <1>27, <2>1
    <2>2. CASE d.kind # "value"
      BY <1>6, <2>2
    <2> QED
      BY <2>1, <2>2
  <1>29. \A v, m : o = <<"cell", v, m>> <=> pc[w] = "fire" /\ res[w].ret[1] = v /\ res[w].ret[2] = m
    BY <1>5, <1>6
  <1>30. Dispatches(w, t, o, d, e)
    BY <1>6, <1>8, <1>25, <1>26, <1>28, <1>29 DEF Dispatches
  <1> QED
    BY <1>3, <1>9, <1>28, <1>30 DEF Dispatching

LEMMA FireDispatches ==
  ASSUME HInv, Inv', NEW w \in Worker, Fire(w)
  PROVE  Dispatching(w)
  <1>1. PICK r : r = res[w].ret
    OBVIOUS
  <1>2. PICK v : v = r[1]
    OBVIOUS
  <1>3. PICK m : m = r[2]
    OBVIOUS
  <1>4. PICK t : t = Fired(CellAt(r))
    OBVIOUS
  <1>5. PICK d : d = Dispatch(w, t)
    OBVIOUS
  <1>6. PICK o : o = <<"cell", v, m>>
    OBVIOUS
  <1>7. /\ program' = program /\ cells' = [cells EXCEPT ![w] = d.cells]
        /\ IF d.kind = "value"
           THEN /\ res' = [res EXCEPT ![w] = [ret |-> t.ret, val |-> d.val]]
                /\ Goto(w, "resolve") /\ wo' = wo /\ stack' = stack
           ELSE /\ IF mode[w] = "seed"
                   THEN wo' = [wo EXCEPT ![w] = @ \o d.tasks] /\ stack' = stack
                   ELSE stack' = [stack EXCEPT ![w] = @ \o d.tasks] /\ wo' = wo
                /\ Resolved(w, wo'[w])
        /\ buf' = buf /\ result' = result /\ pc[w] = "fire"
    BY <1>1, <1>4, <1>5 DEF Fire, queue, answer
  <1>8. /\ Inv /\ TypeOK /\ res \in [Worker -> [ret : Places, val : Val]]
        /\ stack \in [Worker -> Seq(TaskSet)] /\ wo \in [Worker -> Seq(TaskSet)]
        /\ pc \in [Worker -> RoundPc \cup BarrierPc \cup {"check", "next", "compact", "again", "quit"}]
    BY DEF HInv, Inv, TypeOK
  <1>9. r \in Places /\ r # Root
    BY <1>1, <1>7, <1>8 DEF Inv, Private
  <1>10. v \in Worker /\ m \in DOMAIN cells[v]
    BY <1>2, <1>3, <1>8, <1>9, PlaceIs
  <1>11. t \in TaskSet
    BY <1>4, <1>8, <1>9, FiredIs
  <1>12. t.ret = cells[v][m].ret
    BY <1>2, <1>3, <1>4 DEF Fired, Task, CellAt
  <1>13. /\ d.tasks \in Seq(TaskSet') /\ Seq(TaskSet) \subseteq Seq(TaskSet')
         /\ d.kind = "value" => d.tasks = <<>> /\ d.val # None
    BY <1>5, <1>7, <1>8, <1>11, ReturnsIs
  <1>28. d.kind = "value" => d.tasks = <<>> /\ d.val # None
    BY <1>13
  <1>29. d.tasks \in Seq(TaskSet')
    BY <1>13
  <1>30. Seq(TaskSet) \subseteq Seq(TaskSet')
    BY <1>13
  <1>14. PICK S : S = TaskSet'
    OBVIOUS
  <1>15. PICK tasks : tasks = d.tasks
    OBVIOUS
  <1>16. tasks \in Seq(S) /\ stack[w] \in Seq(S) /\ wo[w] \in Seq(S)
    <2>1. stack[w] \in Seq(TaskSet) /\ wo[w] \in Seq(TaskSet)
      BY <1>8
    <2>2. Seq(TaskSet) \subseteq Seq(S) /\ tasks \in Seq(S)
      BY <1>14, <1>15, <1>29, <1>30
    <2> QED
      BY <2>1, <2>2
  <1>17. /\ \A u, i : o # <<"unflushed", u, i>> /\ o # <<"stacked", u, i>>
         /\ \A i : o # <<"queued", i, 0>>
         /\ \A u, i : o = <<"cell", u, i>> <=> u = v /\ i = m
    BY <1>6
  <1>18. QueueLoses(o)
    <2>1. Queued' = Queued
      <3>1. Step(w) /\ ~TakeSeed(w) /\ ~TakeWork(w) /\ ~Copy(w) /\ ~Compact(w)
        BY <1>7 DEF Step, TakeSeed, TakeWork, Copy, Compact
      <3> QED
        BY <3>1, QueuedStay
    <2> QED
      BY <1>7, <1>17, <2>1 DEF QueueLoses
  <1>19. \E e : Comes(o, e, tasks)
    <2>1. CASE d.kind = "value"
      <3>1. PICK s : s = wo[w] /\ s \in Seq(S)
        BY <1>16
      <3>2. s \o <<>> = s
        BY <3>1, ConcatEmptySeq
      <3>3. wo'[w] = wo[w] \o tasks /\ \A u \in Worker : u # w => wo'[u] = wo[u]
        <4>1. wo' = wo /\ tasks = <<>>
          BY <1>7, <1>15, <1>28, <2>1
        <4> QED
          BY <3>1, <3>2, <4>1
      <3> QED
        BY <1>7, <1>16, <1>17, <1>18, <2>1, <3>3, ComesUnflushed
    <2>2. CASE d.kind # "value" /\ mode[w] = "seed"
      <3>1. wo'[w] = wo[w] \o tasks /\ \A u \in Worker : u # w => wo'[u] = wo[u]
        BY <1>7, <1>8, <1>15, <2>2
      <3> QED
        BY <1>7, <1>16, <1>17, <1>18, <2>2, <3>1, ComesUnflushed
    <2>3. CASE d.kind # "value" /\ mode[w] # "seed"
      <3>1. PICK base : base = stack[w]
        OBVIOUS
      <3>2. stack'[w] = base \o tasks /\ wo' = wo /\ \A u \in Worker : u # w => stack'[u] = stack[u]
        BY <1>7, <1>8, <1>15, <2>3, <3>1
      <3>3. JoinOf(base, tasks, stack'[w])
        BY <1>16, <3>1, <3>2, JoinIs
      <3>4. PICK k \in Nat : DOMAIN tasks = 1 .. k
        BY <3>3 DEF JoinOf
      <3>5. PICK p : p = [i \in 1 .. k |-> i]
        OBVIOUS
      <3>6. /\ \A i \in 1 .. k : p[i] \in 1 .. k /\ tasks[p[i]] = tasks[i]
            /\ \A i, j \in 1 .. k : p[i] = p[j] => i = j
            /\ \A j \in 1 .. k : \E i \in 1 .. k : p[i] = j
        BY <3>5
      <3>7. \A i : i \in DOMAIN base <=> i \in DOMAIN stack[w] /\ o # <<"stacked", w, i>>
        BY <1>17, <3>1
      <3>8. Restacks(w, o, k, tasks, base, tasks, p)
        BY ONLY <1>17, <1>18, <3>1, <3>2, <3>3, <3>4, <3>6, <3>7 DEF Restacks
      <3> QED
        BY <3>8, ComesStacked
    <2> QED
      BY <2>1, <2>2, <2>3
  <1>20. PICK e : Comes(o, e, d.tasks)
    BY <1>15, <1>19
  <1>21. o \in Carriers \ Hands /\ PlaceOf(o) = t.ret
    <2>1. Open(v, m)
      BY <1>1, <1>2, <1>3, <1>7 DEF Open
    <2>2. o \in Conts
      BY <1>6, <1>10, <2>1, ContsAre
    <2>3. PlaceOf(o) = cells[v][m].ret
      BY <1>6 DEF PlaceOf
    <2> QED
      BY <1>12, <2>2, <2>3, Apart DEF Carriers
  <1>22. \A l : Goto(w, l) => pc' = [pc EXCEPT ![w] = l]
    BY DEF Goto
  <1>23. /\ \A u \in Worker : u # w => pc'[u] = pc[u] /\ res'[u] = res[u]
         /\ d.kind = "value" => /\ pc'[w] = "resolve" /\ res'[w].ret = t.ret
                                /\ res'[w].val = d.val
         /\ d.kind # "value" => pc'[w] \in {"descend", "flush", "grab", "take"}
    <2>1. CASE d.kind = "value"
      BY <1>7, <1>8, <1>22, <2>1
    <2>2. CASE d.kind # "value"
      <3>1. PICK l \in {"descend", "flush", "grab", "take"} :
              pc' = [pc EXCEPT ![w] = l] /\ res' = [res EXCEPT ![w] = NoRes]
        BY <1>7, <2>2, DealtIs
      <3> QED
        BY <1>8, <2>2, <3>1
    <2> QED
      BY <2>1, <2>2
  <1>24. \A u, i : o = <<"cell", u, i>> <=> pc[w] = "fire" /\ res[w].ret[1] = u /\ res[w].ret[2] = i
    BY <1>1, <1>2, <1>3, <1>7, <1>17
  <1>25. Dispatches(w, t, o, d, e)
    BY <1>7, <1>11, <1>20, <1>21, <1>23, <1>24 DEF Dispatches
  <1>26. Dispatches(w, t, o, Dispatch(w, t), e)
    BY <1>5, <1>25
  <1>27. /\ pc'[w] \notin {"finish", "count", "fire"}
         /\ pc'[w] = "resolve" => res'[w].val # None
    BY <1>23, <1>28
  <1> QED
    BY <1>26, <1>27 DEF Dispatching

\* The three actions that dispatch.
Calls(w) == TakeSeed(w) \/ Descend(w) \/ Fire(w)

LEMMA HoldsCalls ==
  ASSUME HInv, Inv', NEW w \in Worker, Calls(w)
  PROVE  OneEach' /\ Dispatching(w)
  <1>1. Dispatching(w)
    BY TakeSeedDispatches, DescendDispatches, FireDispatches DEF Calls
  <1>2. PICK t, o, e : Dispatches(w, t, o, Dispatch(w, t), e)
    BY <1>1 DEF Dispatching
  <1> QED
    BY <1>1, <1>2, DispatchHolds

-----------------------------------------------------------------------------
(* Counting and firing *)

\* What the counts and the firing depend on stays.
CountsStay(w) ==
  /\ cells' = cells
  /\ pc[w] \notin {"count", "fire"} /\ pc'[w] \notin {"count", "fire"}
  /\ pc'[w] \in {"resolve", "finish"} => res'[w].val # None
  /\ \A v \in Worker : v # w => pc'[v] = pc[v] /\ res'[v] = res[v]

\* A child that counts down is a child of a cell.
LEMMA CounterIs ==
  ASSUME Inv, NEW w \in Worker, pc[w] \in {"count", "fire"}
  PROVE  \E v \in Worker : \E n \in DOMAIN cells[v] : \E i \in 1 .. cells[v][n].kids :
           res[w].ret = <<v, n, i>>
  <1>1. TypeOK /\ res[w].ret \in Places /\ res[w].ret # Root
    BY DEF Inv, TypeOK, Private
  <1> QED
    BY <1>1, PlaceCases

LEMMA JoinsStay ==
  ASSUME HInv, NEW w \in Worker, CountsStay(w)
  PROVE  Joins' /\ Counting' /\ Firing'
  <1>1. /\ cells' = cells /\ pc[w] \notin {"count", "fire"} /\ pc'[w] \notin {"count", "fire"}
        /\ pc'[w] \in {"resolve", "finish"} => res'[w].val # None
        /\ \A v \in Worker : v # w => pc'[v] = pc[v] /\ res'[v] = res[v]
        /\ Inv
    BY DEF CountsStay, HInv
  <1>2. \A v, n : Awaited(v, n)' = Awaited(v, n)
    <2> TAKE v, n
    <2>1. \A i : (\E u \in Worker : pc'[u] = "count" /\ res'[u].ret = <<v, n, i>>)
                   <=> (\E u \in Worker : pc[u] = "count" /\ res[u].ret = <<v, n, i>>)
      BY <1>1
    <2> QED
      BY <1>1, <2>1 DEF Awaited
  <1>3. Joins'
    <2>1. \A v \in Worker : \A n \in DOMAIN cells[v] : cells[v][n].pending = Cardinality(Awaited(v, n)')
      BY <1>2 DEF HInv, Joins
    <2> QED
      BY <1>1, <2>1 DEF Joins
  <1>4. Counting'
    <2>1. ASSUME NEW u \in Worker, pc'[u] = "count"
          PROVE  Delivered(res[u].ret)'
      <3>1. pc[u] = "count" /\ res'[u] = res[u] /\ Delivered(res[u].ret)
        BY <1>1, <2>1 DEF HInv, Counting
      <3>2. PICK v, n, i : res[u].ret = <<v, n, i>>
        BY <1>1, <3>1, CounterIs
      <3>3. Delivered(<<v, n, i>>)'
        BY <1>1, <3>1, <3>2, DeliveredIs
      <3> QED
        BY <3>1, <3>2, <3>3 DEF Delivered, CellAt, Root
    <2>2. \A u \in Worker : pc'[u] \in {"resolve", "finish", "count"} => res'[u].val # None
      BY <1>1 DEF HInv, Counting
    <2>3. \A u, v \in Worker : /\ pc'[u] = "count" /\ pc'[v] = "count"
                               /\ res'[u].ret = res'[v].ret
                               => u = v
      BY <1>1 DEF HInv, Counting
    <2> QED
      BY <2>1, <2>2, <2>3 DEF Counting
  <1>5. Firing'
    BY <1>1 DEF HInv, Firing, CellAt
  <1> QED
    BY <1>3, <1>4, <1>5

\* The steps of which that is true.
Quiets(w) == Moves(w) \/ TakeWork(w) \/ Copy(w) \/ ResolveRoot(w) \/ (Compact(w) /\ w = 0)

LEMMA QuietsStay ==
  ASSUME HInv, NEW w \in Worker, Quiets(w)
  PROVE  CountsStay(w)
  <1>1. /\ Inv
        /\ pc \in [Worker -> RoundPc \cup BarrierPc \cup {"check", "next", "compact", "again", "quit"}]
    BY DEF HInv, Inv, TypeOK
  <1>2. CASE Moves(w)
    BY <1>2, MovesIs DEF CountsStay
  <1>3. CASE TakeWork(w) \/ Compact(w)
    <2>1. /\ cells' = cells /\ pc[w] \notin {"count", "fire"} /\ pc'[w] \notin {"count", "fire", "resolve", "finish"}
          /\ Step(w)
      BY <1>1, <1>3 DEF TakeWork, Compact, Goto, Step
    <2> QED
      BY <1>1, <2>1, OthersPrivate DEF CountsStay
  <1>4. CASE Copy(w)
    <2>1. /\ cells' = cells /\ pc[w] \notin {"count", "fire"} /\ Step(w)
          /\ \E l \in {"end", "grab", "take"} : pc' = [pc EXCEPT ![w] = l]
      BY <1>4, DealtIs DEF Copy, Goto, Step
    <2>2. pc'[w] \notin {"count", "fire", "resolve", "finish"}
      BY <1>1, <2>1
    <2> QED
      BY <1>1, <2>1, <2>2, OthersPrivate DEF CountsStay
  <1>5. CASE ResolveRoot(w)
    <2>1. /\ cells' = cells /\ res' = res /\ pc[w] = "resolve" /\ pc'[w] = "finish" /\ Step(w)
      BY <1>1, <1>5 DEF ResolveRoot, Goto, Step
    <2>2. res[w].val # None
      BY <2>1 DEF HInv, Counting
    <2> QED
      BY <1>1, <2>1, <2>2, OthersPrivate DEF CountsStay
  <1> QED
    BY <1>2, <1>3, <1>4, <1>5 DEF Quiets

\* A child whose value is written has yet to count itself down.
LEMMA JoinsWrite ==
  ASSUME HInv, Inv', NEW w \in Worker, WriteSlot(w)
  PROVE  Joins' /\ Counting' /\ Firing'
  <1>20. PICK v : v = res[w].ret[1]
    OBVIOUS
  <1>21. PICK n : n = res[w].ret[2]
    OBVIOUS
  <1>22. PICK i : i = res[w].ret[3]
    OBVIOUS
  <1>1.   /\ v \in Worker /\ n \in DOMAIN cells[v] /\ i \in 1 .. cells[v][n].kids
          /\ res[w].ret = <<v, n, i>> /\ cells[v][n] \in CellSet
          /\ \A u \in Worker : DOMAIN cells'[u] = DOMAIN cells[u]
          /\ \A u \in Worker : \A m \in DOMAIN cells[u] :
               /\ cells'[u][m].kids = cells[u][m].kids
               /\ u # v \/ m # n => cells'[u][m] = cells[u][m]
          /\ cells'[v][n].pending = cells[v][n].pending
          /\ cells'[v][n].child = [cells[v][n].child EXCEPT ![i] = res[w].val]
    <2>1. SlotStep(w, v, n, i)
      BY <1>20, <1>21, <1>22, SlotIs DEF HInv
    <2> QED
      BY <2>1 DEF SlotStep
  <1>2. /\ pc[w] = "resolve" /\ res' = res /\ pc' = [pc EXCEPT ![w] = "count"] /\ res[w].val # None
        /\ pc \in [Worker -> RoundPc \cup BarrierPc \cup {"check", "next", "compact", "again", "quit"}]
        /\ Inv
    BY DEF WriteSlot, Goto, HInv, Inv, TypeOK, Counting
  <1>3. pc'[w] = "count" /\ \A u \in Worker : u # w => pc'[u] = pc[u]
    BY <1>2
  <1>4. cells[v][n].child[i] = None
    <2>1. ~Delivered(res[w].ret)
      BY HoldsDeliver
    <2> QED
      BY <1>1, <2>1, DeliveredIs
  <1>5. /\ cells'[v][n].child[i] # None
        /\ \A j : j # i => cells'[v][n].child[j] = cells[v][n].child[j]
    <2>1. cells[v][n].child \in [1 .. 2 -> Val] /\ cells[v][n].kids \in 1 .. 2
      BY <1>1 DEF CellSet
    <2>2. i \in 1 .. 2
      BY <1>1, <2>1
    <2> QED
      BY <1>1, <1>2, <2>1, <2>2
  <1>6. \A u \in Worker : pc[u] = "count" => res[u].ret # <<v, n, i>>
    <2> TAKE u \in Worker
    <2>1. HAVE pc[u] = "count"
    <2>2. Delivered(res[u].ret)
      BY <2>1 DEF HInv, Counting
    <2>3. ~Delivered(<<v, n, i>>)
      BY <1>4, DeliveredIs
    <2> QED
      BY <2>2, <2>3
  <1>7. ASSUME NEW u \in Worker, NEW m \in DOMAIN cells[u]
        PROVE  Awaited(u, m)' = Awaited(u, m)
    <2>1. ASSUME NEW j, <<u, m, j>> # <<v, n, i>>
          PROVE  /\ cells'[u][m].child[j] = None <=> cells[u][m].child[j] = None
                 /\ (\E x \in Worker : pc'[x] = "count" /\ res'[x].ret = <<u, m, j>>)
                      <=> (\E x \in Worker : pc[x] = "count" /\ res[x].ret = <<u, m, j>>)
      <3>1. cells'[u][m].child[j] = cells[u][m].child[j]
        <4>1. CASE u = v /\ m = n
          BY <1>5, <2>1, <4>1
        <4>2. CASE u # v \/ m # n
          BY <1>1, <4>2
        <4> QED
          BY <4>1, <4>2
      <3>2. res'[w].ret # <<u, m, j>>
        BY <1>1, <1>2, <2>1
      <3> QED
        BY <1>2, <1>3, <3>1, <3>2
    <2>2. cells'[u][m].kids = cells[u][m].kids
      BY <1>1
    <2>3. ASSUME NEW j
          PROVE  j \in Awaited(u, m)' <=> j \in Awaited(u, m)
      <3>1. CASE <<u, m, j>> # <<v, n, i>>
        BY <2>1, <2>2, <3>1 DEF Awaited
      <3>2. CASE u = v /\ m = n /\ j = i
        <4>1. i \in Awaited(v, n)
          BY <1>1, <1>4 DEF Awaited
        <4>2. pc'[w] = "count" /\ res'[w].ret = <<v, n, i>> /\ i \in 1 .. cells'[v][n].kids
          BY <1>1, <1>2, <1>3
        <4>3. i \in Awaited(v, n)'
          BY <4>2 DEF Awaited
        <4> QED
          BY <3>2, <4>1, <4>3
      <3> QED
        BY <3>1, <3>2
    <2> QED
      BY <2>3
  <1>8. \A u \in Worker : \A m \in DOMAIN cells[u] : cells'[u][m].pending = cells[u][m].pending
    BY <1>1
  <1>9. Joins'
    <2>1. \A u \in Worker : \A m \in DOMAIN cells'[u] : cells'[u][m].pending = Cardinality(Awaited(u, m)')
      BY <1>1, <1>7, <1>8 DEF HInv, Joins
    <2> QED
      BY <2>1 DEF Joins
  <1>10. Counting'
    <2>1. ASSUME NEW u \in Worker, pc'[u] = "count"
          PROVE  Delivered(res[u].ret)'
      <3>1. CASE u = w
        <4>1. Delivered(<<v, n, i>>)'
          BY <1>5, DeliveredIs
        <4> QED
          BY <1>1, <1>2, <3>1, <4>1 DEF Delivered, CellAt, Root
      <3>2. CASE u # w
        <4>1. pc[u] = "count" /\ Delivered(res[u].ret)
          BY <1>3, <2>1, <3>2 DEF HInv, Counting
        <4>2. PICK x \in Worker : \E m \in DOMAIN cells[x] : \E j \in 1 .. cells[x][m].kids : res[u].ret = <<x, m, j>>
          BY <1>2, <4>1, CounterIs
        <4>3. PICK m \in DOMAIN cells[x] : \E j \in 1 .. cells[x][m].kids : res[u].ret = <<x, m, j>>
          BY <4>2
        <4>4. PICK j : res[u].ret = <<x, m, j>>
          BY <4>3
        <4>5. cells[x][m].child[j] # None
          BY <4>1, <4>4, DeliveredIs
        <4>6. cells'[x][m].child[j] # None
          <5>1. CASE x = v /\ m = n
            BY <1>5, <4>5, <5>1
          <5>2. CASE x # v \/ m # n
            BY <1>1, <4>5, <5>2
          <5> QED
            BY <5>1, <5>2
        <4>7. Delivered(<<x, m, j>>)'
          BY <4>6, DeliveredIs
        <4> QED
          BY <1>2, <4>4, <4>7 DEF Delivered, CellAt, Root
      <3> QED
        BY <3>1, <3>2
    <2>2. \A u \in Worker : pc'[u] \in {"resolve", "finish", "count"} => res'[u].val # None
      BY <1>2, <1>3 DEF HInv, Counting
    <2>3. \A x, u \in Worker : /\ pc'[x] = "count" /\ pc'[u] = "count"
                               /\ res'[x].ret = res'[u].ret
                               => x = u
      <3> TAKE x, u \in Worker
      <3>1. HAVE pc'[x] = "count" /\ pc'[u] = "count" /\ res'[x].ret = res'[u].ret
      <3>2. CASE x # w /\ u # w
        BY <1>2, <1>3, <3>1, <3>2 DEF HInv, Counting
      <3>3. CASE x = w \/ u = w
        BY <1>1, <1>2, <1>3, <1>6, <3>1, <3>3
      <3> QED
        BY <3>2, <3>3
    <2> QED
      BY <2>1, <2>2, <2>3 DEF Counting
  <1>11. Firing'
    <2>1. ASSUME NEW u \in Worker, pc'[u] = "fire"
          PROVE  CellAt(res[u].ret)'.pending = 0
      <3>1. pc[u] = "fire" /\ CellAt(res[u].ret).pending = 0
        BY <1>3, <2>1 DEF HInv, Firing
      <3>2. PICK x \in Worker : \E m \in DOMAIN cells[x] : \E j \in 1 .. cells[x][m].kids : res[u].ret = <<x, m, j>>
        BY <1>2, <3>1, CounterIs
      <3>3. PICK m \in DOMAIN cells[x] : \E j \in 1 .. cells[x][m].kids : res[u].ret = <<x, m, j>>
        BY <3>2
      <3>4. res[u].ret[1] = x /\ res[u].ret[2] = m
        BY <3>3
      <3> QED
        BY <1>2, <1>8, <3>1, <3>4 DEF CellAt
    <2>2. \A u \in Worker : pc'[u] = "fire" => pc[u] = "fire"
      BY <1>3
    <2> QED
      BY <1>2, <2>1, <2>2 DEF HInv, Firing, CellAt
  <1> QED
    BY <1>9, <1>10, <1>11

\* One child less is awaited, and the last one fires.
LEMMA JoinsCount ==
  ASSUME HInv, Inv', NEW w \in Worker, Count(w)
  PROVE  Joins' /\ Counting' /\ Firing'
  <1>20. PICK v : v = res[w].ret[1]
    OBVIOUS
  <1>21. PICK n : n = res[w].ret[2]
    OBVIOUS
  <1>22. PICK i : i = res[w].ret[3]
    OBVIOUS
  <1>1.   /\ v \in Worker /\ n \in DOMAIN cells[v] /\ i \in 1 .. cells[v][n].kids
          /\ res[w].ret = <<v, n, i>>
          /\ \A u \in Worker : DOMAIN cells'[u] = DOMAIN cells[u]
          /\ \A u \in Worker : \A m \in DOMAIN cells[u] :
               /\ cells'[u][m].kids = cells[u][m].kids
               /\ u # v \/ m # n => cells'[u][m] = cells[u][m]
          /\ cells'[v][n].child = cells[v][n].child
          /\ cells'[v][n].pending = cells[v][n].pending - 1
    <2>1. SlotStep(w, v, n, i)
      BY <1>20, <1>21, <1>22, SlotIs DEF HInv
    <2> QED
      BY <2>1 DEF SlotStep
  <1>2. res[w].ret[1] = v /\ res[w].ret[2] = n /\ res[w].ret[3] = i
    BY <1>1
  <1>3. /\ i \in Awaited(v, n) /\ cells[v][n].pending \in Nat \ {0}
        /\ ~ \E u \in Worker : pc[u] = "fire" /\ res[u].ret[1] = v /\ res[u].ret[2] = n
        /\ IF cells[v][n].pending = 1
           THEN pc'[w] = "fire" /\ res' = res
           ELSE pc'[w] \notin {"resolve", "finish", "count", "fire"}
        /\ \A u \in Worker : u # w => pc'[u] = pc[u] /\ res'[u] = res[u]
    BY <1>2, CountIs DEF CountStep
  <1>4. pc[w] = "count" /\ Inv /\ Joins /\ pc'[w] \notin {"resolve", "finish", "count"}
    BY <1>3 DEF Count, HInv
  <1>5. cells[v][n].child[i] # None
    <2>1. Delivered(res[w].ret)
      BY <1>4 DEF HInv, Counting
    <2> QED
      BY <1>1, <2>1, DeliveredIs
  <1>6. \A u \in Worker : u # w /\ pc[u] = "count" => res[u].ret # <<v, n, i>>
    BY <1>1, <1>4 DEF HInv, Counting
  <1>7. \A u \in Worker : \A m \in DOMAIN cells[u] : cells'[u][m].child = cells[u][m].child
    BY <1>1
  <1>8. ASSUME NEW u \in Worker, NEW m \in DOMAIN cells[u], NEW j
        PROVE  j \in Awaited(u, m)' <=> j \in Awaited(u, m) /\ <<u, m, j>> # <<v, n, i>>
    <2>1. CASE <<u, m, j>> # <<v, n, i>>
      <3>1. (\E x \in Worker : pc'[x] = "count" /\ res'[x].ret = <<u, m, j>>)
              <=> (\E x \in Worker : pc[x] = "count" /\ res[x].ret = <<u, m, j>>)
        BY <1>1, <1>3, <1>4, <2>1
      <3>2. cells'[u][m].child = cells[u][m].child /\ cells'[u][m].kids = cells[u][m].kids
        BY <1>1, <1>7
      <3> QED
        BY <2>1, <3>1, <3>2 DEF Awaited
    <2>2. CASE u = v /\ m = n /\ j = i
      <3>1. ~ \E x \in Worker : pc'[x] = "count" /\ res'[x].ret = <<v, n, i>>
        BY <1>3, <1>4, <1>6
      <3>2. cells'[v][n].child[i] # None
        BY <1>1, <1>5
      <3>3. i \notin Awaited(v, n)'
        BY <3>1, <3>2 DEF Awaited
      <3> QED
        BY <2>2, <3>3
    <2> QED
      BY <2>1, <2>2
  <1>9. \A u \in Worker : \A m \in DOMAIN cells[u] :
          u # v \/ m # n => Awaited(u, m)' = Awaited(u, m)
    <2> TAKE u \in Worker
    <2> TAKE m \in DOMAIN cells[u]
    <2>1. HAVE u # v \/ m # n
    <2>2. \A j : <<u, m, j>> # <<v, n, i>>
      BY <2>1
    <2>3. \A j : j \in Awaited(u, m)' <=> j \in Awaited(u, m)
      BY <1>8, <2>2
    <2> QED
      BY <2>3
  <1>10. cells'[v][n].pending = Cardinality(Awaited(v, n)')
    <2>1. PICK A : A = Awaited(v, n)
      OBVIOUS
    <2>2. PICK A2 : A2 = Awaited(v, n)'
      OBVIOUS
    <2>3. \A j : j \in A2 <=> j \in A /\ j # i
      <3>1. \A j : <<v, n, j>> # <<v, n, i>> <=> j # i
        OBVIOUS
      <3> QED
        BY <1>1, <1>8, <2>1, <2>2, <3>1
    <2>4. A2 = A \ {i}
      BY <2>3
    <2>5. IsFiniteSet(A) /\ cells[v][n].pending = Cardinality(A) /\ i \in A
      BY <1>1, <1>3, <1>4, <2>1, AwaitedIs
    <2>6. Cardinality(A \ {i}) = Cardinality(A) - 1
      BY <2>5, FS_RemoveElement
    <2> QED
      BY <1>1, <2>2, <2>4, <2>5, <2>6
  <1>11. Joins'
    <2>1. \A u \in Worker : \A m \in DOMAIN cells[u] :
            u # v \/ m # n => cells'[u][m].pending = Cardinality(Awaited(u, m)')
      BY <1>1, <1>9 DEF HInv, Joins
    <2>2. \A u \in Worker : \A m \in DOMAIN cells'[u] : cells'[u][m].pending = Cardinality(Awaited(u, m)')
      BY <1>1, <1>10, <2>1
    <2> QED
      BY <2>2 DEF Joins
  <1>12. Counting'
    <2>1. ASSUME NEW u \in Worker, pc'[u] = "count"
          PROVE  Delivered(res[u].ret)'
      <3>1. u # w /\ pc[u] = "count" /\ res'[u] = res[u] /\ Delivered(res[u].ret)
        BY <1>3, <1>4, <2>1 DEF HInv, Counting
      <3>2. PICK x \in Worker : \E m \in DOMAIN cells[x] : \E j \in 1 .. cells[x][m].kids : res[u].ret = <<x, m, j>>
        BY <1>4, <3>1, CounterIs
      <3>3. PICK m \in DOMAIN cells[x] : \E j \in 1 .. cells[x][m].kids : res[u].ret = <<x, m, j>>
        BY <3>2
      <3>4. PICK j : res[u].ret = <<x, m, j>>
        BY <3>3
      <3>5. cells'[x][m].child[j] # None
        BY <1>7, <3>1, <3>4, DeliveredIs
      <3>6. Delivered(<<x, m, j>>)'
        BY <3>5, DeliveredIs
      <3> QED
        BY <3>1, <3>4, <3>6 DEF Delivered, CellAt, Root
    <2>2. \A u \in Worker : pc'[u] \in {"resolve", "finish", "count"} => res'[u].val # None
      BY <1>3, <1>4 DEF HInv, Counting
    <2>3. \A x, u \in Worker : /\ pc'[x] = "count" /\ pc'[u] = "count"
                               /\ res'[x].ret = res'[u].ret
                               => x = u
      BY <1>3, <1>4 DEF HInv, Counting
    <2> QED
      BY <2>1, <2>2, <2>3 DEF Counting
  <1>13. Firing'
    <2>1. ASSUME NEW u \in Worker, pc'[u] = "fire"
          PROVE  CellAt(res[u].ret)'.pending = 0
      <3>1. CASE u = w
        <4>1. cells[v][n].pending = 1 /\ res' = res
          BY <1>3, <2>1, <3>1
        <4>2. cells'[v][n].pending = 0
          BY <1>1, <4>1
        <4> QED
          BY <1>2, <3>1, <4>1, <4>2 DEF CellAt
      <3>2. CASE u # w
        <4>1. pc[u] = "fire" /\ res'[u] = res[u] /\ CellAt(res[u].ret).pending = 0
          BY <1>3, <2>1, <3>2 DEF HInv, Firing
        <4>2. PICK x \in Worker : \E m \in DOMAIN cells[x] : \E j \in 1 .. cells[x][m].kids : res[u].ret = <<x, m, j>>
          BY <1>4, <4>1, CounterIs
        <4>3. PICK m \in DOMAIN cells[x] : \E j \in 1 .. cells[x][m].kids : res[u].ret = <<x, m, j>>
          BY <4>2
        <4>4. res[u].ret[1] = x /\ res[u].ret[2] = m
          BY <4>3
        <4>5. x # v \/ m # n
          BY <1>3, <4>1, <4>4
        <4>6. cells'[x][m] = cells[x][m]
          BY <1>1, <4>5
        <4> QED
          BY <4>1, <4>4, <4>6 DEF CellAt
      <3> QED
        BY <3>1, <3>2
    <2>2. \A x, u \in Worker : /\ pc'[x] = "fire" /\ pc'[u] = "fire"
                               /\ res'[x].ret[1] = res'[u].ret[1]
                               /\ res'[x].ret[2] = res'[u].ret[2]
                               => x = u
      <3> TAKE x, u \in Worker
      <3>1. HAVE /\ pc'[x] = "fire" /\ pc'[u] = "fire"
                 /\ res'[x].ret[1] = res'[u].ret[1]
                 /\ res'[x].ret[2] = res'[u].ret[2]
      <3>2. CASE x # w /\ u # w
        BY <1>3, <3>1, <3>2 DEF HInv, Firing
      <3>3. CASE x = w \/ u = w
        <4>1. pc'[w] = "fire" /\ res' = res
          BY <1>3, <3>1, <3>3
        <4>2. \A y \in Worker : y # w /\ pc'[y] = "fire" => ~(res'[y].ret[1] = v /\ res'[y].ret[2] = n)
          BY <1>3
        <4> QED
          BY <1>2, <3>1, <3>3, <4>1, <4>2
      <3> QED
        BY <3>2, <3>3
    <2> QED
      BY <2>1, <2>2 DEF Firing
  <1> QED
    BY <1>11, <1>12, <1>13

\* The cells that were there keep their counts; a new one awaits all its
\* children.
LEMMA JoinsCalls ==
  ASSUME HInv, Inv', NEW w \in Worker, Calls(w)
  PROVE  Joins' /\ Counting' /\ Firing'
  <1>1. /\ Dispatching(w) /\ Inv /\ TypeOK /\ program \in Programs /\ pc[w] # "count"
    BY HoldsCalls DEF HInv, Inv, TypeOK, Calls, TakeSeed, Descend, Fire
  <1>2. PICK t, o, e : Dispatches(w, t, o, Dispatch(w, t), e)
    BY <1>1 DEF Dispatching
  <1>3. PICK d : d = Dispatch(w, t)
    OBVIOUS
  <1>4. /\ t \in TaskSet /\ cells' = [cells EXCEPT ![w] = d.cells]
        /\ \A v \in Worker : v # w => pc'[v] = pc[v] /\ res'[v] = res[v]
    BY <1>2, <1>3 DEF Dispatches
  <1>5. pc'[w] \notin {"finish", "count", "fire"} /\ (pc'[w] = "resolve" => res'[w].val # None)
    BY <1>1 DEF Dispatching
  <1>6. \/ cells' = cells
        \/ \E n : \E k \in 1 .. 2 : \E f : CellComes(w, n, NewCell(f, t.ret, k))
    <2>1. Returns(w, t, d) \/ Tails(w, t, d) \/ Opens(w, t, d)
      BY <1>1, <1>3, <1>4, DispatchIs
    <2>2. CASE Returns(w, t, d) \/ Tails(w, t, d)
      <3>1. d.cells = cells[w]
        BY <2>2 DEF Returns, Tails
      <3> QED
        BY <1>1, <1>4, <3>1 DEF TypeOK
    <2>3. CASE Opens(w, t, d)
      <3>1. PICK k \in 1 .. 2 : \E f \in Name : d.cells = Append(cells[w], NewCell(f, t.ret, k))
        BY <2>3 DEF Opens
      <3>2. PICK f \in Name : d.cells = Append(cells[w], NewCell(f, t.ret, k))
        BY <3>1
      <3>3. PICK c : c = NewCell(f, t.ret, k)
        OBVIOUS
      <3>4. PICK n : n = Len(cells[w]) + 1
        OBVIOUS
      <3>5. CellComes(w, n, c)
        BY <1>1, <1>4, <3>2, <3>3, <3>4, NewCellIs
      <3> QED
        BY <3>3, <3>5
    <2> QED
      BY <2>1, <2>2, <2>3
  <1>7. \A v \in Worker : \A m \in DOMAIN cells[v] : cells'[v][m] = cells[v][m]
    BY <1>6 DEF CellComes
  <1>8. \A v, m, j : (\E x \in Worker : pc'[x] = "count" /\ res'[x].ret = <<v, m, j>>)
                       <=> (\E x \in Worker : pc[x] = "count" /\ res[x].ret = <<v, m, j>>)
    BY <1>1, <1>4, <1>5
  <1>9. \A v \in Worker : \A m \in DOMAIN cells[v] : Awaited(v, m)' = Awaited(v, m)
    <2> TAKE v \in Worker
    <2> TAKE m \in DOMAIN cells[v]
    <2>1. cells'[v][m] = cells[v][m]
      BY <1>7
    <2>2. ASSUME NEW j
          PROVE  j \in Awaited(v, m)' <=> j \in Awaited(v, m)
      <3>1. (\E x \in Worker : pc'[x] = "count" /\ res'[x].ret = <<v, m, j>>)
              <=> (\E x \in Worker : pc[x] = "count" /\ res[x].ret = <<v, m, j>>)
        BY <1>8
      <3> QED
        BY <2>1, <3>1 DEF Awaited
    <2> QED
      BY <2>2
  <1>10. \A v \in Worker : \A m \in DOMAIN cells[v] : cells'[v][m].pending = Cardinality(Awaited(v, m)')
    BY <1>7, <1>9 DEF HInv, Joins
  <1>11. Joins'
    <2>1. CASE cells' = cells
      BY <1>10, <2>1 DEF Joins
    <2>2. ASSUME NEW n, NEW k \in 1 .. 2, NEW f, CellComes(w, n, NewCell(f, t.ret, k))
          PROVE  Joins'
      <3>1. PICK c : c = NewCell(f, t.ret, k)
        OBVIOUS
      <3>2. c.pending = k /\ c.kids = k /\ c.child = <<None, None>>
        BY <3>1 DEF NewCell
      <3>3. /\ cells'[w][n] = c
            /\ \A v \in Worker : \A m : m \in DOMAIN cells'[v] <=> m \in DOMAIN cells[v] \/ (v = w /\ m = n)
        BY <2>2, <3>1 DEF CellComes
      <3>4. Awaited(w, n)' = 1 .. k
        <4>1. \A j \in 1 .. k : c.child[j] = None
          <5>1. \A y : \A j \in 1 .. 2 : <<y, y>>[j] = y
            OBVIOUS
          <5>2. \A j \in 1 .. k : j \in 1 .. 2
            OBVIOUS
          <5> QED
            BY <3>2, <5>1, <5>2
        <4> QED
          BY <3>2, <3>3, <4>1 DEF Awaited
      <3>5. Cardinality(1 .. k) = k
        <4>1. Cardinality(1 .. k) = IF 1 > k THEN 0 ELSE k - 1 + 1
          BY FS_Interval
        <4> QED
          BY <4>1
      <3>6. \A v \in Worker : \A m \in DOMAIN cells'[v] : cells'[v][m].pending = Cardinality(Awaited(v, m)')
        BY <1>10, <3>2, <3>3, <3>4, <3>5
      <3> QED
        BY <3>6 DEF Joins
    <2> QED
      BY <1>6, <2>1, <2>2
  <1>12. ASSUME NEW u \in Worker, pc'[u] \in {"count", "fire"}
         PROVE  /\ u # w /\ pc[u] = pc'[u] /\ res'[u] = res[u]
                /\ CellAt(res[u].ret)' = CellAt(res[u].ret)
                /\ Delivered(res[u].ret)' <=> Delivered(res[u].ret)
    <2>1. u # w /\ pc[u] = pc'[u] /\ res'[u] = res[u]
      BY <1>4, <1>5, <1>12
    <2>2. PICK x \in Worker : \E m \in DOMAIN cells[x] : \E j \in 1 .. cells[x][m].kids : res[u].ret = <<x, m, j>>
      BY <1>1, <1>12, <2>1, CounterIs
    <2>3. PICK m \in DOMAIN cells[x] : \E j \in 1 .. cells[x][m].kids : res[u].ret = <<x, m, j>>
      BY <2>2
    <2>4. PICK j : res[u].ret = <<x, m, j>>
      BY <2>3
    <2>5. cells'[x][m] = cells[x][m]
      BY <1>7
    <2>6. CellAt(res[u].ret)' = CellAt(res[u].ret)
      BY <2>1, <2>4, <2>5 DEF CellAt
    <2>7. res[u].ret # Root
      BY <2>4 DEF Root
    <2> QED
      BY <2>1, <2>6, <2>7 DEF Delivered, Root, None
  <1>13. Counting'
    <2>1. \A u \in Worker : pc'[u] = "count" => Delivered(res[u].ret)'
      BY <1>12 DEF HInv, Counting
    <2>2. \A u \in Worker : pc'[u] \in {"resolve", "finish", "count"} => res'[u].val # None
      BY <1>4, <1>5 DEF HInv, Counting
    <2>3. \A x, u \in Worker : /\ pc'[x] = "count" /\ pc'[u] = "count"
                               /\ res'[x].ret = res'[u].ret
                               => x = u
      BY <1>12 DEF HInv, Counting
    <2> QED
      BY <2>1, <2>2, <2>3 DEF Counting
  <1>14. Firing'
    <2>1. \A u \in Worker : pc'[u] = "fire" => CellAt(res[u].ret)'.pending = 0
      BY <1>12 DEF HInv, Firing
    <2>2. \A x, u \in Worker : /\ pc'[x] = "fire" /\ pc'[u] = "fire"
                               /\ res'[x].ret[1] = res'[u].ret[1]
                               /\ res'[x].ret[2] = res'[u].ret[2]
                               => x = u
      BY <1>12 DEF HInv, Firing
    <2> QED
      BY <2>1, <2>2 DEF Firing
  <1> QED
    BY <1>11, <1>13, <1>14

-----------------------------------------------------------------------------
(* The invariant *)

\* Who takes from the queue, and who writes to it, does so alone.
LEMMA DistinctEnough ==
  ASSUME HInv, NEW w \in Worker, Step(w),
         \A v \in Worker : v # w /\ grab[v] # <<>> /\ grab'[w] # <<>> => Head(grab[v]) # Head(grab'[w]),
         \A v \in Worker : v # w => Unflushed(v) \cap Unflushed(w)' = {}
  PROVE  Distinct'
  <1>1. \A v \in Worker : v # w => grab'[v] = grab[v] /\ Unflushed(v)' = Unflushed(v)
    <2> TAKE v \in Worker
    <2>1. HAVE v # w
    <2>3. /\ pc'[v] = pc[v] /\ grab'[v] = grab[v] /\ wo'[v] = wo[v] /\ round'[v] = round[v]
      BY <2>1, OthersPrivate DEF HInv
    <2>4. Unflushed(v)' = Unflushed(v)
      BY <2>3 DEF Unflushed
    <2> QED
      BY <2>3, <2>4
  <1>2. \A u, v \in Worker : u # v =>
          /\ grab'[u] # <<>> /\ grab'[v] # <<>> => Head(grab'[u]) # Head(grab'[v])
          /\ Unflushed(u)' \cap Unflushed(v)' = {}
    <2> TAKE u, v \in Worker
    <2>1. HAVE u # v
    <2>2. CASE u # w /\ v # w
      BY <1>1, <2>1, <2>2 DEF HInv, Distinct
    <2>3. CASE u = w
      BY <1>1, <2>1, <2>3
    <2>4. CASE v = w
      BY <1>1, <2>1, <2>4
    <2> QED
      BY <2>2, <2>3, <2>4
  <1> QED
    BY <1>2 DEF Distinct

LEMMA DistinctStep ==
  ASSUME HInv, Inv', NEW w \in Worker, Step(w)
  PROVE  Distinct'
  <1>1. /\ Inv /\ TypeOK /\ Private(w) /\ grab \in [Worker -> Seq(Nat)]
        /\ pc \in [Worker -> RoundPc \cup BarrierPc \cup {"check", "next", "compact", "again", "quit"}]
        /\ taskCnt \in Nat /\ taskCntNew \in Nat /\ workIdx \in Nat
    BY DEF HInv, Inv, TypeOK
  <1>2. \A v \in Worker : v # w =>
          /\ grab[v] # <<>> /\ grab[w] # <<>> => Head(grab[v]) # Head(grab[w])
          /\ Unflushed(v) \cap Unflushed(w) = {}
    BY DEF HInv, Distinct
  <1>3. CASE Flush(w)
    <2>1. /\ Unflushed(w)' = taskCnt + taskCntNew .. taskCnt' + taskCntNew' - 1
      BY <1>1, <1>3, FlushIs
    <2>2. \A v \in Worker : Unflushed(v) \subseteq taskCnt .. taskCnt + taskCntNew - 1
      BY <1>1, UnflushedIn
    <2>3. \A i : ~(i \in taskCnt + taskCntNew .. taskCnt' + taskCntNew' - 1
                    /\ i \in taskCnt .. taskCnt + taskCntNew - 1)
      BY <1>1
    <2>4. \A v \in Worker : Unflushed(v) \cap Unflushed(w)' = {}
      BY <2>1, <2>2, <2>3
    <2>5. grab' = grab
      BY <1>3 DEF Flush
    <2> QED
      BY <1>2, <1>3, <2>4, <2>5, DistinctEnough DEF Step
  <1>4. CASE Grab(w)
    <2>1. ~serial
      BY <1>1, <1>4, WorkerIs DEF Inv, Alone, RunPc, Grab
    <2>2. pc'[w] \in {"drain", "take"}
      BY <1>1, <1>4, <2>1, GrabIs
    <2>3. Unflushed(w)' = {}
      BY <2>2 DEF Unflushed
    <2>4. grab'[w] = grab[w] \/ grab'[w] = <<workIdx>>
      BY <1>1, <1>4, <2>1, GrabIs
    <2>5. \A v \in Worker : grab[v] # <<>> => Head(grab[v]) < workIdx
      BY <1>1, TakenIs DEF Inv
    <2>6. Head(<<workIdx>>) = workIdx
      OBVIOUS
    <2>7. \A v \in Worker : v # w /\ grab[v] # <<>> /\ grab'[w] # <<>> => Head(grab[v]) # Head(grab'[w])
      <3>1. \A v \in Worker : grab[v] # <<>> => Head(grab[v]) # workIdx
        <4> TAKE v \in Worker
        <4>1. HAVE grab[v] # <<>>
        <4>2. Head(grab[v]) \in 0 .. taskCnt - 1 /\ Head(grab[v]) < workIdx
          BY <1>1, <4>1, TakenIs DEF Inv
        <4> QED
          BY <1>1, <4>2
      <3> QED
        BY <1>2, <2>4, <2>6, <3>1
    <2> QED
      BY <1>4, <2>3, <2>7, DistinctEnough DEF Step
  <1>5. CASE ~Flush(w) /\ ~Grab(w)
    <2>1. pc'[w] \in {"copy", "copyLast"} => FALSE
      <3>1. CASE Arrive(w) \/ Pass(w)
        <4>1. AtBarrier(w) /\ (pc' = pc \/ pc' = [pc EXCEPT ![w] = After(pc[w])])
          BY <1>1, <3>1 DEF Arrive, Pass, Goto, B!Leave, Private
        <4> QED
          BY <1>1, <4>1 DEF AtBarrier, After
      <3>2. CASE Check(w) \/ NextRound(w) \/ Compact(w) \/ Again(w) \/ TakeWork(w) \/ DescendEnd(w)
                 \/ ResolveRoot(w) \/ WriteSlot(w) \/ Copy(w)
        BY <1>1, <3>2 DEF Check, NextRound, Compact, Again, TakeWork, DescendEnd, ResolveRoot, WriteSlot,
           Copy, NextTask, Goto
      <3>3. CASE Finish(w) \/ Count(w)
        <4>1. Resolved(w, wo[w]) \/ pc' = [pc EXCEPT ![w] = "fire"]
          BY <3>3 DEF Finish, Count, Goto
        <4>2. \E l \in {"descend", "flush", "grab", "take", "fire"} : pc' = [pc EXCEPT ![w] = l]
          BY <4>1, DealtIs
        <4> QED
          BY <1>1, <4>2
      <3>4. CASE TakeSeed(w) \/ Descend(w) \/ Fire(w)
        <4>1. \/ pc' = pc /\ pc[w] = "descend"
              \/ \E l \in {"descend", "flush", "grab", "take", "resolve"} : pc' = [pc EXCEPT ![w] = l]
          <5>1. TakeSeed(w) => \/ pc' = [pc EXCEPT ![w] = "resolve"]
                               \/ Dealt(w, wo'[w], Tail(grab[w]))
            BY DEF TakeSeed, Goto
          <5>2. Fire(w) => \/ pc' = [pc EXCEPT ![w] = "resolve"]
                           \/ Resolved(w, wo'[w])
            BY DEF Fire, Goto
          <5>3. Descend(w) => \/ pc' = [pc EXCEPT ![w] = "resolve"]
                              \/ pc' = pc /\ pc[w] = "descend"
            BY DEF Descend, Goto
          <5> QED
            BY <3>4, <5>1, <5>2, <5>3, DealtIs
        <4> QED
          BY <1>1, <4>1
      <3> QED
        BY <1>5, <3>1, <3>2, <3>3, <3>4 DEF Step
    <2>2. Unflushed(w)' = {}
      BY <2>1 DEF Unflushed
    <2>3. grab'[w] = grab[w] \/ grab'[w] = <<>>
      <3>1. CASE TakeSeed(w) \/ TakeWork(w)
        <4>1. grab' = [grab EXCEPT ![w] = Tail(@)] /\ grab[w] # <<>>
          BY <1>1, <3>1 DEF TakeSeed, TakeWork, Private
        <4>2. Tail(grab[w]) \in Seq(Nat) /\ Len(Tail(grab[w])) = Len(grab[w]) - 1
          BY <1>1, <4>1, TakenIs DEF Inv
        <4>3. PICK n \in Nat : n = Len(grab[w]) /\ n # 0 /\ n <= 1
          BY <1>1, <4>1, LenProperties, EmptySeq DEF Private
        <4>4. n - 1 = 0
          <5>1. \A m \in Nat : m # 0 /\ m <= 1 => m - 1 = 0
            OBVIOUS
          <5> QED
            BY ONLY <4>3, <5>1, Zenon
        <4>5. Len(Tail(grab[w])) = 0
          BY ONLY <4>2, <4>3, <4>4, Zenon
        <4>6. Tail(grab[w]) = <<>>
          BY <4>2, <4>5, EmptySeq
        <4> QED
          BY <1>1, <4>1, <4>6
      <3>2. CASE ~TakeSeed(w) /\ ~TakeWork(w)
        <4>1. grab' = grab
          BY <1>5, <3>2 DEF Step, Arrive, Pass, Check, NextRound, Compact, Again, Descend, DescendEnd,
             ResolveRoot, Finish, WriteSlot, Count, Fire, Copy
        <4> QED
          BY <4>1
      <3> QED
        BY <3>1, <3>2
    <2> QED
      BY <1>2, <2>2, <2>3, DistinctEnough
  <1> QED
    BY <1>3, <1>4, <1>5

LEMMA HInvInit == Init => HInv
  <1> SUFFICES ASSUME Init PROVE HInv
    OBVIOUS
  <1>1. Inv /\ 0 \in Worker
    BY InvInit, WorkerIs
  <1>2. /\ \A w \in Worker : /\ grab[w] = <<>> /\ wo[w] = <<>> /\ cells[w] = <<>>
                             /\ pc[w] = IF ~serial THEN "top"
                                        ELSE IF w = 0 THEN "descend" ELSE "quit"
                             /\ stack[w] = IF serial /\ w = 0 THEN <<RootTask>> ELSE <<>>
        /\ taskCnt = (IF serial THEN 0 ELSE 1) /\ result = None
    BY DEF Init
  <1>3. \A w \in Worker : DOMAIN cells[w] = {} /\ DOMAIN wo[w] = {}
    BY <1>2
  <1>4. \A w \in Worker : pc[w] \notin {"resolve", "finish", "count", "fire", "copy", "copyLast"}
    BY <1>2
  <1>5. Joins /\ Counting /\ Firing
    BY <1>3, <1>4 DEF Joins, Counting, Firing
  <1>6. Distinct
    BY <1>2, <1>4 DEF Distinct, Unflushed
  <1>7. Hands = {} /\ Conts = {}
    BY <1>3, <1>4, HandsAre, ContsAre
  <1>8. Waiting = {Root}
    <2>1. \A r : r \in Places <=> r = Root
      BY <1>3, PlaceCases
    <2>2. ~Delivered(Root)
      BY <1>2, DeliveredIs
    <2> QED
      BY <2>1, <2>2 DEF Waiting
  <1>9. \E g : Carriers = {g} /\ PlaceOf(g) = Root
    <2>1. CASE serial
      <3>1. Queued = {}
        BY <1>1, <2>1, QueuedNone
      <3>2. \A y : DOMAIN <<y>> = {1} /\ <<y>>[1] = y
        OBVIOUS
      <3>3. /\ DOMAIN stack[0] = {1} /\ stack[0][1] = RootTask
            /\ \A w \in Worker : w # 0 => DOMAIN stack[w] = {}
        BY <1>1, <1>2, <2>1, <3>2
      <3>4. PICK g : g = <<"stacked", 0, 1>>
        OBVIOUS
      <3>5. \A h : h \in Tasks <=> h = g
        BY <1>1, <1>3, <3>1, <3>3, <3>4, TasksAre
      <3>6. PlaceOf(<<"stacked", 0, 1>>) = stack[0][1].ret
        BY DEF PlaceOf
      <3>7. PlaceOf(g) = Root
        BY <3>3, <3>4, <3>6 DEF RootTask, Task
      <3> QED
        BY <1>7, <3>5, <3>7 DEF Carriers
    <2>2. CASE ~serial
      <3>1. Between
        BY <1>1, <1>2, <2>2 DEF Between
      <3>2. 0 .. taskCnt - 1 = {0}
        BY <1>2, <2>2
      <3>3. \A i : i \in Queued <=> i = 0
        BY <1>1, <3>1, <3>2, QueuedAre
      <3>4. \A w \in Worker : DOMAIN stack[w] = {}
        BY <1>2, <2>2
      <3>5. PICK g : g = <<"queued", 0, 0>>
        OBVIOUS
      <3>6. \A h : h \in Tasks <=> h = g
        BY <1>3, <3>3, <3>4, <3>5, TasksAre
      <3>7. buf[0] = RootTask
        <4>1. 0 \in 0 .. QueueCap - 1
          BY WorkerIs, CapAssumption, QueueAssumption
        <4> QED
          BY <4>1 DEF Init
      <3>8. PlaceOf(<<"queued", 0, 0>>) = buf[0].ret
        BY DEF PlaceOf
      <3>9. PlaceOf(g) = Root
        BY <3>5, <3>7, <3>8 DEF RootTask, Task
      <3> QED
        BY <1>7, <3>6, <3>9 DEF Carriers
    <2> QED
      BY <2>1, <2>2
  <1>10. OneEach
    <2>1. PICK g : Carriers = {g} /\ PlaceOf(g) = Root
      BY <1>9
    <2>2. {PlaceOf(h) : h \in Carriers} = {Root}
      BY <2>1
    <2> QED
      BY <1>8, <2>1, <2>2 DEF OneEach
  <1> QED
    BY <1>1, <1>5, <1>6, <1>10 DEF HInv

LEMMA HInvStutter ==
  ASSUME HInv, UNCHANGED vars
  PROVE  HInv'
  <1>1. /\ pc' = pc /\ round' = round /\ grab' = grab /\ stack' = stack /\ wo' = wo /\ res' = res
        /\ cells' = cells /\ buf' = buf /\ taskCnt' = taskCnt /\ taskCntNew' = taskCntNew
        /\ workIdx' = workIdx /\ result' = result
    BY DEF vars, local, queue, answer
  <1>2. Inv'
    BY InvStutter DEF HInv
  <1>3. \A v : Unflushed(v)' = Unflushed(v)
    BY <1>1 DEF Unflushed
  <1>4. Queued' = Queued
    <2>1. UNION {Unflushed(v) : v \in Worker}' = UNION {Unflushed(v) : v \in Worker}
      BY <1>3
    <2>2. Between' <=> Between
      BY <1>1 DEF Between
    <2>3. UNION {ToSet(grab[v]) : v \in Worker}' = UNION {ToSet(grab[v]) : v \in Worker}
      BY <1>1
    <2> QED
      BY <1>1, <2>1, <2>2, <2>3 DEF Queued
  <1>5. /\ Tasks' = Tasks /\ \A h \in Tasks : PlaceOf(h)' = PlaceOf(h)
    BY <1>1, <1>4, TasksStay
  <1>6. /\ Hands' = Hands /\ \A h \in Hands : PlaceOf(h)' = PlaceOf(h)
    BY <1>1, HandsStay
  <1>7. /\ Conts' = Conts /\ \A h \in Conts : PlaceOf(h)' = PlaceOf(h)
    <2>1. \A v, n : Open(v, n)' <=> Open(v, n)
      BY <1>1, OpenStay
    <2> QED
      BY <1>1, <2>1, ContsStay
  <1>8. Waiting' = Waiting
    BY <1>1, WaitingStay
  <1>9. OneEach'
    BY <1>5, <1>6, <1>7, <1>8, AllStay DEF HInv
  <1>10. \A v, n : Awaited(v, n)' = Awaited(v, n)
    BY <1>1 DEF Awaited
  <1>11. Joins'
    BY <1>1, <1>10 DEF HInv, Joins
  <1>12. Counting'
    <2>1. \A u : Delivered(res[u].ret)' <=> Delivered(res[u].ret)
      BY <1>1 DEF Delivered, CellAt, Root, None
    <2> QED
      BY <1>1, <2>1 DEF HInv, Counting, None
  <1>13. Firing' /\ Distinct'
    BY <1>1, <1>3 DEF HInv, Firing, CellAt, Distinct
  <1> QED
    BY <1>2, <1>9, <1>11, <1>12, <1>13 DEF HInv

LEMMA HInvStep ==
  ASSUME HInv, NEW w \in Worker, Step(w)
  PROVE  HInv'
  <1>1. Inv'
    BY InvStep DEF HInv
  <1>2. Distinct'
    BY <1>1, DistinctStep
  <1>3. CASE Quiets(w)
    <2>1. Joins' /\ Counting' /\ Firing'
      BY <1>3, QuietsStay, JoinsStay
    <2>2. OneEach'
      BY <1>1, <1>3, HoldsMoves, HoldsTakeWork, HoldsCopy, HoldsDeliver, HoldsCompact DEF Quiets
    <2> QED
      BY <1>1, <1>2, <2>1, <2>2 DEF HInv
  <1>4. CASE WriteSlot(w)
    BY <1>1, <1>2, <1>4, HoldsDeliver, JoinsWrite DEF HInv
  <1>5. CASE Count(w)
    BY <1>1, <1>2, <1>5, HoldsCount, JoinsCount DEF HInv
  <1>6. CASE Calls(w)
    BY <1>1, <1>2, <1>6, HoldsCalls, JoinsCalls DEF HInv
  <1> QED
    BY <1>3, <1>4, <1>5, <1>6 DEF Step, Quiets, Moves, Calls

\* The invariant holds initially and every step keeps it.
THEOREM HoldersInvariance == Spec => []HInv
  <1>1. HInv /\ [Next]_vars => HInv'
    BY HInvStep, HInvStutter DEF Next, Joined
  <1> QED
    BY HInvInit, <1>1, PTL DEF Spec

\* No task, value or continuation is lost or doubled, whatever the number of
\* threads and the program: on their way through the queue, the grabs, the
\* stacks, the flush buffers and the cells, each value still to come has
\* exactly one who will deliver it, and one that came has none.
THEOREM NoneLost == Spec => []OneHolder
  <1>1. HInv => OneHolder
    <2> SUFFICES ASSUME HInv, NEW r \in Places
                 PROVE  Cardinality(Holders(r)) = IF Delivered(r) THEN 0 ELSE 1
      BY DEF OneHolder
    <2>1. /\ \A g, h \in Carriers : PlaceOf(g) = PlaceOf(h) => g = h
          /\ Waiting = {PlaceOf(h) : h \in Carriers}
      BY DEF HInv, OneEach
    <2>2. \A h : h \in Holders(r) <=> h \in Carriers /\ PlaceOf(h) = r
      BY DEF Holders, Carriers
    <2>3. CASE Delivered(r)
      <3>1. r \notin Waiting
        BY <2>3 DEF Waiting
      <3>2. Holders(r) = {}
        BY <2>1, <2>2, <3>1
      <3> QED
        BY <2>3, <3>2, FS_EmptySet
    <2>4. CASE ~Delivered(r)
      <3>1. r \in Waiting
        BY <2>4 DEF Waiting
      <3>2. PICK h \in Carriers : PlaceOf(h) = r
        BY <2>1, <3>1
      <3>3. Holders(r) = {h}
        BY <2>1, <2>2, <3>2
      <3>4. Cardinality({h}) = 1
        BY FS_Singleton
      <3> QED
        BY <2>4, <3>3, <3>4
    <2> QED
      BY <2>3, <2>4
  <1> QED
    BY <1>1, HoldersInvariance, PTL

\* The count of a cell that fires is 0, and with it the number of children awaited.
LEMMA FiresReadyStep == HInv => FireReady
  <1> SUFFICES ASSUME HInv, NEW w \in Worker, pc[w] = "fire",
                      NEW i \in 1 .. CellAt(res[w].ret).kids
               PROVE  CellAt(res[w].ret).child[i] # None
    BY DEF FireReady
  <1>1. Inv /\ Joins /\ CellAt(res[w].ret).pending = 0
    BY DEF HInv, Firing
  <1>2. PICK v \in Worker : \E n \in DOMAIN cells[v] : \E j \in 1 .. cells[v][n].kids : res[w].ret = <<v, n, j>>
    BY <1>1, CounterIs
  <1>3. PICK n \in DOMAIN cells[v] : \E j \in 1 .. cells[v][n].kids : res[w].ret = <<v, n, j>>
    BY <1>2
  <1>4. CellAt(res[w].ret) = cells[v][n]
    BY <1>3 DEF CellAt
  <1>5. Awaited(v, n) = {}
    BY <1>1, <1>4, AwaitedIs
  <1> QED
    BY <1>4, <1>5 DEF Awaited

\* The atomic count of a cell is enough for aot_fire_cont: whoever counts the
\* last child down reads every child's value, although each was written by a
\* thread of its own and none waits for another.
THEOREM FiresReady == Spec => []FireReady
  BY FiresReadyStep, HoldersInvariance, PTL
=============================================================================
