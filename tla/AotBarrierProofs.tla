-------------------------- MODULE AotBarrierProofs --------------------------
(***************************************************************************)
(* The barrier of src/aot/worker.c is a barrier, for any number of threads *)
(* and wherever the generation wraps.  The inductive invariant ties b->cnt *)
(* to the set of the workers that wait for the current generation; the     *)
(* mutex and the condition variable play no part in it, they only decide   *)
(* how a worker waits.                                                     *)
(***************************************************************************)
EXTENDS AotBarrier, FiniteSetTheorems, TLAPS

Inv == TypeOK /\ LoadFresh /\ Counted

-----------------------------------------------------------------------------
\* The number of threads is a number.
LEMMA TotalType == total \in Nat /\ Cardinality(Worker) = total
  BY WorkerAssumption, FS_CardinalityType DEF total

\* A worker about to count itself is not among those the count stands for;
\* it is the last exactly when all the others are.
LEMMA CountMeans ==
  ASSUME Inv, NEW w \in Worker, pc[w] = "add"
  PROVE  /\ \A v \in Worker : pc[v] \notin {"reset", "bump"}
         /\ cnt = Cardinality(In)
         /\ cnt + 1 \in 0 .. total
         /\ cnt + 1 = total <=> In = Worker \ {w}
  <1>1. w \notin In
    BY DEF In, Waiting
  <1>2. /\ \A v \in Worker : pc[v] \notin {"reset", "bump"}
        /\ cnt = Cardinality(In)
    <2>1. ASSUME NEW l \in Worker, In = Worker \ {l},
                 pc[l] \in {"reset", "bump"}
          PROVE  FALSE
      BY <1>1, <2>1
    <2> QED
      BY <2>1 DEF Inv, Counted
  <1>3. In \subseteq Worker \ {w}
    BY <1>1 DEF In
  <1>4. /\ IsFiniteSet(Worker \ {w})
        /\ Cardinality(Worker \ {w}) = total - 1
    BY WorkerAssumption, TotalType, FS_RemoveElement
  <1>5. /\ IsFiniteSet(In)
        /\ Cardinality(In) \in Nat
        /\ Cardinality(In) <= total - 1
        /\ Cardinality(In) = total - 1 => In = Worker \ {w}
    BY <1>3, <1>4, FS_Subset, FS_CardinalityType
  <1>6. cnt + 1 \in 0 .. total
    BY <1>2, <1>5, TotalType
  <1>7. In = Worker \ {w} => Cardinality(In) = total - 1
    BY <1>4
  <1> QED
    BY <1>2, <1>5, <1>6, <1>7, TotalType

\* A step that moves nobody into or out of the current generation's wait, and
\* nobody to or from the release, keeps what the count stands for.
LEMMA CountedKept ==
  ASSUME Inv, In' = In, UNCHANGED cnt,
         \A v \in Worker : pc'[v] # pc[v] =>
                             {pc[v], pc'[v]} \cap {"reset", "bump"} = {}
  PROVE  Counted'
  <1>1. \A v \in Worker : /\ pc'[v] = "reset" <=> pc[v] = "reset"
                          /\ pc'[v] = "bump" <=> pc[v] = "bump"
    OBVIOUS
  <1>2. CASE /\ \A w \in Worker : pc[w] \notin {"reset", "bump"}
             /\ cnt = Cardinality(In)
             /\ In # Worker
    BY <1>1, <1>2 DEF Counted
  <1>3. CASE \E l \in Worker : /\ In = Worker \ {l}
                               /\ \/ pc[l] = "reset" /\ cnt = total
                                  \/ pc[l] = "bump"  /\ cnt = 0
    BY <1>1, <1>3 DEF Counted, total
  <1> QED
    BY <1>2, <1>3 DEF Inv, Counted

\* Completing the generation empties the set of its waiters.
LEMMA BumpEmpties ==
  ASSUME Inv, NEW l \in Worker, Bump(l)
  PROVE  /\ In = Worker \ {l}
         /\ cnt = 0
         /\ In' = {}
         /\ gen' \in 0 .. MaxGen
         /\ gen' # gen
  <1>1. In = Worker \ {l} /\ cnt = 0
    BY DEF Inv, Counted, Bump, In, Waiting, TypeOK
  <1>2. gen' \in 0 .. MaxGen /\ gen' # gen
    BY GenAssumption DEF Inv, TypeOK, Bump
  <1>3. \A v \in Worker : ~(pc'[v] \in Waiting /\ g'[v] = gen')
    <2>1. ASSUME NEW v \in Worker, v # l
          PROVE  g'[v] # gen'
      BY <1>1, <1>2, <2>1 DEF In, Bump
    <2>2. pc'[l] \notin Waiting
      BY DEF Bump, Goto, Waiting, Inv, TypeOK
    <2> QED
      BY <2>1, <2>2
  <1>4. In' = {}
    BY <1>3 DEF In
  <1> QED
    BY <1>1, <1>2, <1>4

-----------------------------------------------------------------------------
LEMMA InitInv == Init => Inv
  <1> SUFFICES ASSUME Init PROVE Inv
    OBVIOUS
  <1>1. TypeOK
    BY TotalType, GenAssumption DEF Init, TypeOK
  <1>2. LoadFresh
    BY DEF Init, LoadFresh
  <1>3. In = {}
    BY DEF Init, In, Waiting
  <1>4. Cardinality({}) = 0
    BY FS_EmptySet
  <1>5. Worker # {}
    BY WorkerAssumption
  <1>6. Counted
    BY <1>3, <1>4, <1>5 DEF Init, Counted
  <1> QED
    BY <1>1, <1>2, <1>6 DEF Inv

\* The steps of a worker that only move it about: within the wait, out of a
\* wait that is over, or from one place outside to another.
Moves(w) == \/ LoadGen(w) \/ Broadcast(w) \/ SpinOut(w) \/ SpinEnd(w)
            \/ Lock(w) \/ Test(w) \/ Sleep(w) \/ WakeEarly(w)

LEMMA MovesKeep ==
  ASSUME Inv, NEW w \in Worker, Moves(w)
  PROVE  /\ TypeOK'
         /\ LoadFresh'
         /\ In' = In
         /\ UNCHANGED <<cnt, gen>>
         /\ \A v \in Worker : pc'[v] # pc[v] =>
                                {pc[v], pc'[v]} \cap {"reset", "bump"} = {}
  <1> USE DEF Inv, Goto, Waiting
  <1>1. TypeOK'
    BY DEF Moves, TypeOK, LoadGen, Broadcast, SpinOut, SpinEnd, Lock, Test,
           Sleep, WakeEarly, total
  <1>2. LoadFresh'
    BY DEF Moves, TypeOK, LoadFresh, LoadGen, Broadcast, SpinOut, SpinEnd,
           Lock, Test, Sleep, WakeEarly
  <1>3. /\ UNCHANGED <<cnt, gen>>
        /\ \A v \in Worker : pc'[v] # pc[v] =>
                               {pc[v], pc'[v]} \cap {"reset", "bump"} = {}
    BY DEF Moves, TypeOK, LoadGen, Broadcast, SpinOut, SpinEnd, Lock, Test,
           Sleep, WakeEarly
  <1>4. \A v \in Worker : (pc'[v] \in Waiting /\ g'[v] = gen') <=>
                          (pc[v] \in Waiting /\ g[v] = gen)
    BY DEF Moves, TypeOK, LoadGen, Broadcast, SpinOut, SpinEnd, Lock, Test,
           Sleep, WakeEarly
  <1> QED
    BY <1>1, <1>2, <1>3, <1>4 DEF In

LEMMA StepInv == Inv /\ [Next]_vars => Inv'
  <1> SUFFICES ASSUME Inv, [Next]_vars PROVE Inv'
    OBVIOUS
  <1>1. ASSUME NEW w \in Worker, Moves(w)
        PROVE  Inv'
    BY <1>1, MovesKeep, CountedKept DEF Inv
  <1>2. ASSUME NEW w \in Worker, Count(w)
        PROVE  Inv'
    <2>1. /\ \A v \in Worker : pc[v] \notin {"reset", "bump"}
          /\ cnt = Cardinality(In)
          /\ cnt + 1 \in 0 .. total
          /\ cnt + 1 = total <=> In = Worker \ {w}
      BY <1>2, CountMeans DEF Count
    <2>2. TypeOK'
      BY <1>2, <2>1 DEF Inv, TypeOK, Count, Goto, Waiting, total
    <2>3. LoadFresh'
      BY <1>2 DEF Inv, TypeOK, LoadFresh, Count, Goto
    <2>4. CASE cnt + 1 = total
      <3>1. In' = In
        BY <1>2, <2>4 DEF In, Waiting, Count, Goto, Inv, TypeOK
      <3>2. pc'[w] = "reset" /\ cnt' = total
        BY <1>2, <2>4 DEF Count, Goto, Inv, TypeOK
      <3>3. total' = total
        BY DEF total
      <3> QED
        BY <2>1, <2>2, <2>3, <2>4, <3>1, <3>2, <3>3 DEF Inv, Counted
    <2>5. CASE cnt + 1 # total
      <3>1. In' = In \cup {w} /\ w \notin In
        BY <1>2, <2>5 DEF In, Waiting, Count, Goto, Inv, TypeOK, LoadFresh
      <3>2. Cardinality(In \cup {w}) = Cardinality(In) + 1
        <4>1. IsFiniteSet(In)
          BY WorkerAssumption, FS_Subset DEF In
        <4> QED
          BY <4>1, <3>1, FS_AddElement
      <3>3. \A v \in Worker : pc'[v] \notin {"reset", "bump"}
        BY <1>2, <2>1, <2>5 DEF Count, Goto, Inv, TypeOK
      <3>4. In' # Worker
        BY <2>1, <2>5, <3>1, <3>2, TotalType
      <3>5. cnt' = Cardinality(In')
        BY <1>2, <2>1, <3>1, <3>2 DEF Count
      <3> QED
        BY <2>2, <2>3, <3>3, <3>4, <3>5 DEF Inv, Counted
    <2> QED
      BY <2>4, <2>5
  <1>3. ASSUME NEW w \in Worker, Reset(w)
        PROVE  Inv'
    <2>1. TypeOK' /\ LoadFresh'
      BY <1>3, TotalType DEF Inv, TypeOK, LoadFresh, Reset, Goto, Waiting
    <2>2. In' = In
      BY <1>3 DEF In, Waiting, Reset, Goto, Inv, TypeOK
    <2>3. In = Worker \ {w}
      BY <1>3 DEF Inv, Counted, Reset, In, Waiting
    <2>4. pc'[w] = "bump" /\ cnt' = 0
      BY <1>3 DEF Reset, Goto, Inv, TypeOK
    <2> QED
      BY <2>1, <2>2, <2>3, <2>4 DEF Inv, Counted
  <1>4. ASSUME NEW w \in Worker, Bump(w)
        PROVE  Inv'
    <2>1. /\ In = Worker \ {w}
          /\ cnt = 0
          /\ In' = {}
          /\ gen' \in 0 .. MaxGen
      BY <1>4, BumpEmpties
    <2>2. TypeOK'
      BY <1>4, <2>1 DEF Inv, TypeOK, Bump, Goto, total
    <2>3. \A v \in Worker : pc'[v] \notin {"add", "reset", "bump"}
      BY <1>4, <2>1 DEF In, Waiting, Bump, Goto, Inv, TypeOK
    <2>4. Cardinality({}) = 0
      BY FS_EmptySet
    <2>5. cnt' = 0
      BY <1>4, <2>1 DEF Bump
    <2> QED
      BY <2>1, <2>2, <2>3, <2>4, <2>5, WorkerAssumption
      DEF Inv, LoadFresh, Counted
  <1>5. CASE UNCHANGED vars
    BY <1>5 DEF vars, Inv, TypeOK, LoadFresh, Counted, In, total
  <1> QED
    BY <1>1, <1>2, <1>3, <1>4, <1>5 DEF Next, Step, Moves

-----------------------------------------------------------------------------
\* The inductive invariant of the barrier holds in every reachable state.
THEOREM Invariance == Spec => []Inv
  BY InitInv, StepInv, PTL DEF Spec

\* The types of the barrier's state hold, gen and its copies up to the wrap.
THEOREM TypeCorrect == Spec => []TypeOK
  BY Invariance, PTL DEF Inv

\* b->cnt counts the waiters of the current generation, and when the last
\* worker has arrived all the others are waiting.
THEOREM CountCorrect == Spec => []Counted
  BY Invariance, PTL DEF Inv

-----------------------------------------------------------------------------
LEMMA InitMaps == Init => B!Init
  BY DEF Init, B!Init, Stage, Waiting

\* Counting itself is the arrival of a worker that has to wait, and nothing
\* for the last one.
LEMMA CountMaps ==
  ASSUME Inv, NEW w \in Worker, Count(w)
  PROVE  B!ArriveEarly(w) \/ UNCHANGED Stage
  <1> USE DEF Goto, Inv, TypeOK, Count
  <1>1. CASE cnt + 1 = total
    BY <1>1 DEF Stage, Waiting
  <1>2. CASE cnt + 1 # total
    <2>1. Stage[w] = "out"
      BY DEF Stage, Waiting
    <2>2. PICK v \in Worker \ {w} : v \notin In
      <3>1. In # Worker \ {w}
        BY <1>2, CountMeans
      <3>2. w \notin In
        BY DEF In, Waiting
      <3> QED
        BY <3>1, <3>2 DEF In
    <2>3. Stage[v] # "in"
      BY <2>2 DEF Stage, In
    <2>4. Stage' = [Stage EXCEPT ![w] = "in"]
      BY <1>2 DEF Stage, Waiting, LoadFresh
    <2> QED
      BY <2>1, <2>2, <2>3, <2>4 DEF B!ArriveEarly
  <1> QED
    BY <1>1, <1>2

\* Bumping gen is the arrival that lets everybody through.
LEMMA BumpMaps ==
  ASSUME Inv, NEW w \in Worker, Bump(w)
  PROVE  B!ArriveLast(w)
  <1> USE DEF Goto, Inv, TypeOK
  <1>1. In = Worker \ {w} /\ gen' # gen
    BY BumpEmpties
  <1>2. Stage[w] = "out"
    BY DEF Stage, Waiting, Bump
  <1>3. \A v \in Worker \ {w} : Stage[v] = "in"
    BY <1>1 DEF Stage, In
  <1>4. Stage' = [v \in Worker |-> IF v = w THEN "out" ELSE "free"]
    BY <1>1 DEF Stage, In, Waiting, Bump
  <1> QED
    BY <1>2, <1>3, <1>4 DEF B!ArriveLast

\* A waiter that sees another generation leaves; no other move shows.
LEMMA MovesMap ==
  ASSUME Inv, NEW w \in Worker, Moves(w)
  PROVE  B!Leave(w) \/ UNCHANGED Stage
  <1> USE DEF Goto, Inv, TypeOK, Waiting
  <1>1. CASE SpinOut(w)
    BY <1>1 DEF SpinOut, B!Leave, Stage
  <1>2. CASE Test(w)
    <2>1. CASE gen = g[w]
      BY <1>2, <2>1 DEF Test, Stage
    <2>2. CASE gen # g[w]
      BY <1>2, <2>2 DEF Test, B!Leave, Stage
    <2> QED
      BY <2>1, <2>2
  <1>3. CASE Broadcast(w)
    BY <1>3 DEF Broadcast, Stage
  <1>4. CASE \/ LoadGen(w) \/ SpinEnd(w) \/ Lock(w) \/ Sleep(w)
             \/ WakeEarly(w)
    BY <1>4 DEF LoadGen, SpinEnd, Lock, Sleep, WakeEarly, Stage
  <1> QED
    BY <1>1, <1>2, <1>3, <1>4 DEF Moves

LEMMA StepMaps == Inv /\ [Next]_vars => [B!Next]_Stage
  <1> SUFFICES ASSUME Inv, [Next]_vars PROVE [B!Next]_Stage
    OBVIOUS
  <1>1. ASSUME NEW w \in Worker, Moves(w)
        PROVE  [B!Next]_Stage
    BY <1>1, MovesMap DEF B!Next
  <1>2. ASSUME NEW w \in Worker, Count(w)
        PROVE  [B!Next]_Stage
    BY <1>2, CountMaps DEF B!Next
  <1>3. ASSUME NEW w \in Worker, Reset(w)
        PROVE  [B!Next]_Stage
    BY <1>3 DEF Reset, Goto, Stage, Waiting, Inv, TypeOK
  <1>4. ASSUME NEW w \in Worker, Bump(w)
        PROVE  [B!Next]_Stage
    BY <1>4, BumpMaps DEF B!Next
  <1>5. CASE UNCHANGED vars
    BY <1>5 DEF vars, Stage
  <1> QED
    BY <1>1, <1>2, <1>3, <1>4, <1>5 DEF Next, Step, Moves

\* aot_barrier_wait implements the barrier: nobody passes a round that
\* someone has not reached.
THEOREM Refinement == Spec => Implements
  BY Invariance, InitMaps, StepMaps, PTL DEF Spec, Implements, B!Spec
=============================================================================
