--------------------------- MODULE WnfPoolProofs ---------------------------
(***************************************************************************)
(* Proofs about WnfPool, for every number of workers, capacity of a bag    *)
(* and term: the types of its variables and what the operators of the      *)
(* model do to sequences; the protocol of the pool; and its work, that no  *)
(* drain loses or doubles an entry, that no redex still to fire is         *)
(* forgotten, and so that what nf returns is in normal form.  The          *)
(* inductive invariant has these parts besides the types:                  *)
(*   Places    where the helpers are while the driver is where it is;      *)
(*   Counts    what `alive' and `pending' count during a parallel drain;   *)
(*   Owned     a worker that is not about to pop has an empty bag;         *)
(*   Balance   entries come by pushes and go, one at a time, by firings;   *)
(*   Rounds    seeds and successors are left only where they are pushed;   *)
(*   Dated     nothing of a later call has fired or is held;               *)
(*   Covered   every redex of this call still to fire is held by somebody. *)
(***************************************************************************)
EXTENDS WnfPool, Sums, SequenceTheorems

Elem == Nat \X nf.setup.redex

Helpers  == Worker \ {0}
LoopPc   == {"pop", "steal", "fire", "push", "leave", "spin", "rejoin", "check", "out"}
HelperPc == LoopPc \cup {"unborn", "park", "exited"}
DriverPc == LoopPc \cup {"call", "seed", "local", "arm", "start", "join", "drained",
                         "free", "exited"}

NfType ==
  nf \in [call : Nat, seeds : Seq(Elem), fired : SUBSET Elem, total : Int, itrs : Nat,
          before : Nat, budget : Int, left : Nat, setup : Setups]

TypeOK ==
  /\ NfType
  /\ pc \in [Worker -> DriverPc \cup HelperPc]
  /\ pc[0] \in DriverPc /\ \A w \in Helpers : pc[w] \in HelperPc
  /\ bag \in [Worker -> Seq(Elem)]
  /\ cur \in [Worker -> Elem \cup {None}]
  /\ \A w \in Worker : pc[w] = "fire" => cur[w] \in Elem
  /\ todo \in [Worker -> Seq(Elem)]
  /\ k \in [Worker -> 1 .. N]
  /\ cursor \in [Worker -> Worker]
  /\ alive \in Int /\ gen \in Nat /\ pending \in Int
  /\ seen \in [Worker -> Nat]
  /\ shutdown \in BOOLEAN /\ spawned \in BOOLEAN
  /\ onStart \in SUBSET Helpers /\ onDone \in SUBSET {0}
  /\ fires \in [Worker -> Nat] /\ pushes \in [Worker -> Nat]

-----------------------------------------------------------------------------
(* The constants of a run *)

\* What SetupAssumption says of the pool that nf was called with.
LEMMA SetupTypes ==
  ASSUME NfType
  PROVE  /\ N \in Nat \ {0} /\ 0 \in Worker /\ Worker \subseteq Nat
         /\ Cap \in Nat \ {0}
         /\ Root \subseteq nf.setup.redex /\ Lazy \subseteq nf.setup.redex
         /\ Succ \in [nf.setup.redex -> Seq(nf.setup.redex)]
         /\ Hidden \in [nf.setup.redex -> SUBSET nf.setup.redex]
         /\ IsFiniteSet(nf.setup.redex)
         /\ Session \in BOOLEAN /\ FireCap \in Nat \ {0} /\ nf.setup.calls \in Nat
  <1>1. nf.setup \in Setups
    BY DEF NfType
  <1>2. 1 .. MaxN \subseteq Nat \ {0}
    BY BoundAssumption
  <1> QED
    BY <1>1, <1>2, SetupAssumption, BoundAssumption
       DEF N, Worker, Cap, Root, Lazy, Succ, Hidden, Session, FireCap

LEMMA WorkerFinite ==
  ASSUME NfType
  PROVE  IsFiniteSet(Worker) /\ Cardinality(Worker) = N
  <1>1. N \in Nat \ {0}
    BY SetupTypes
  <1> QED
    BY <1>1, FS_Interval DEF Worker

-----------------------------------------------------------------------------
(* Sequences *)

LEMMA ToSetIs ==
  ASSUME NEW S, NEW s \in Seq(S)
  PROVE  /\ ToSet(s) = {s[i] : i \in 1 .. Len(s)}
         /\ ToSet(s) \subseteq S
         /\ Len(s) \in Nat
         /\ s = <<>> <=> Len(s) = 0
         /\ s = <<>> <=> ToSet(s) = {}
  <1>1. /\ Len(s) \in Nat /\ s \in [1 .. Len(s) -> S] /\ DOMAIN s = 1 .. Len(s)
    BY LenProperties
  <1>2. s = <<>> <=> Len(s) = 0
    BY EmptySeq
  <1>3. ToSet(s) = {s[i] : i \in 1 .. Len(s)}
    BY <1>1 DEF ToSet
  <1>4. Len(s) # 0 => s[1] \in ToSet(s)
    BY <1>1, <1>3
  <1>5. Len(s) = 0 => ToSet(s) = {}
    BY <1>3
  <1>6. ToSet(s) \subseteq S
    BY <1>1, <1>3
  <1> QED
    BY <1>1, <1>2, <1>3, <1>4, <1>5, <1>6

LEMMA AppendSet ==
  ASSUME NEW S, NEW s \in Seq(S), NEW x \in S
  PROVE  /\ Append(s, x) \in Seq(S)
         /\ Len(Append(s, x)) = Len(s) + 1
         /\ ToSet(Append(s, x)) = ToSet(s) \cup {x}
  <1> DEFINE t == Append(s, x)
  <1>1. /\ t \in Seq(S) /\ Len(t) = Len(s) + 1
        /\ \A i \in 1 .. Len(s) : t[i] = s[i]
        /\ t[Len(s) + 1] = x
    BY AppendProperties
  <1>2. ToSet(s) = {s[i] : i \in 1 .. Len(s)} /\ Len(s) \in Nat
    BY ToSetIs
  <1> HIDE DEF t
  <1>3. ToSet(t) = {t[i] : i \in 1 .. Len(s) + 1}
    BY <1>1, ToSetIs
  <1>4. 1 .. Len(s) + 1 = (1 .. Len(s)) \cup {Len(s) + 1}
    BY <1>2
  <1>5. ToSet(t) = ToSet(s) \cup {x}
    BY <1>1, <1>2, <1>3, <1>4
  <1> QED
    BY <1>1, <1>5 DEF t

LEMMA HeadTailSet ==
  ASSUME NEW S, NEW s \in Seq(S), s # <<>>
  PROVE  /\ Tail(s) \in Seq(S) /\ Head(s) \in S
         /\ Len(Tail(s)) = Len(s) - 1
         /\ ToSet(s) = ToSet(Tail(s)) \cup {Head(s)}
  <1>1. /\ Tail(s) \in Seq(S) /\ Head(s) \in S /\ Len(Tail(s)) = Len(s) - 1
        /\ \A i \in 1 .. Len(Tail(s)) : Tail(s)[i] = s[i + 1]
    BY HeadTailProperties
  <1>2. Head(s) = s[1] /\ Len(s) \in Nat \ {0}
    BY EmptySeq
  <1>3. ToSet(s) = {s[i] : i \in 1 .. Len(s)}
    BY ToSetIs
  <1>4. ToSet(Tail(s)) = {Tail(s)[i] : i \in 1 .. Len(s) - 1}
    <2>1. Tail(s) \in Seq(S) /\ Len(Tail(s)) = Len(s) - 1
      BY <1>1
    <2>2. ToSet(Tail(s)) = {Tail(s)[i] : i \in 1 .. Len(Tail(s))}
      BY ONLY <2>1, ToSetIs
    <2> QED
      BY <2>1, <2>2
  <1>5. \A i \in 1 .. Len(s) : i = 1 \/ (i - 1 \in 1 .. Len(s) - 1 /\ s[i] = Tail(s)[i - 1])
    BY <1>1, <1>2
  <1>6. \A i \in 1 .. Len(s) - 1 : i + 1 \in 1 .. Len(s) /\ Tail(s)[i] = s[i + 1]
    BY <1>1, <1>2
  <1>7. ToSet(s) \subseteq ToSet(Tail(s)) \cup {Head(s)}
    <2>1. ASSUME NEW i \in 1 .. Len(s)
          PROVE  s[i] \in ToSet(Tail(s)) \cup {Head(s)}
      BY <1>2, <1>4, <1>5
    <2> QED
      BY <1>3, <2>1
  <1>8. ToSet(Tail(s)) \cup {Head(s)} \subseteq ToSet(s)
    BY <1>2, <1>3, <1>4, <1>6
  <1> QED
    BY <1>1, <1>7, <1>8

LEMMA FrontLastSet ==
  ASSUME NEW S, NEW s \in Seq(S), s # <<>>
  PROVE  /\ Front(s) \in Seq(S) /\ Last(s) \in S
         /\ Len(Front(s)) = Len(s) - 1
         /\ ToSet(s) = ToSet(Front(s)) \cup {Last(s)}
  <1>1. PICK t \in Seq(S), x \in S : s = Append(t, x)
    BY SequenceEmptyOrAppend
  <1>2. Len(s) = Len(t) + 1 /\ Len(t) \in Nat /\ s[Len(t) + 1] = x
    BY <1>1, AppendProperties, LenProperties
  <1>3. Front(s) = t
    <2>1. \A i \in 1 .. Len(t) : s[i] = t[i] /\ t[i] \in S
      BY <1>1, AppendProperties, ElementOfSeq
    <2>2. /\ SubSeq(s, 1, Len(t)) \in Seq(S)
          /\ Len(SubSeq(s, 1, Len(t))) = Len(t)
          /\ \A i \in 1 .. Len(t) : SubSeq(s, 1, Len(t))[i] = s[i]
      BY <2>1, <1>2, SubSeqProperties
    <2>3. SubSeq(s, 1, Len(t)) = t
      BY <2>1, <2>2, SeqEqual
    <2> QED
      BY <1>2, <2>3 DEF Front
  <1>4. Last(s) = x
    BY <1>2 DEF Last
  <1> QED
    BY <1>1, <1>2, <1>3, <1>4, AppendSet

\* What is kept of the seeds: some of them, and all when they fit.
LEMMA ClampSet ==
  ASSUME NfType, NEW S, NEW s \in Seq(S)
  PROVE  /\ Clamp(s) \in Seq(S) /\ ToSet(Clamp(s)) \subseteq ToSet(s)
         /\ Len(s) <= Cap => Clamp(s) = s
         /\ Clamp(s) = <<>> => s = <<>>
  <1> DEFINE n == IF Len(s) < Cap THEN Len(s) ELSE Cap
  <1>1. Cap \in Nat \ {0} /\ Len(s) \in Nat
    BY SetupTypes, LenProperties
  <1>2. n \in 0 .. Len(s) /\ (n = 0 => Len(s) = 0)
    BY <1>1
  <1>3. \A i \in 1 .. n : s[i] \in S
    BY <1>1, <1>2, ElementOfSeq
  <1>4. /\ Clamp(s) \in Seq(S) /\ Len(Clamp(s)) = n
        /\ \A i \in 1 .. n : Clamp(s)[i] = s[i]
    <2>1. Clamp(s) = SubSeq(s, 1, n)
      BY DEF Clamp
    <2> HIDE DEF n
    <2>2. /\ SubSeq(s, 1, n) \in Seq(S)
          /\ Len(SubSeq(s, 1, n)) = IF 1 <= n THEN n ELSE 0
          /\ \A i \in 1 .. n : SubSeq(s, 1, n)[i] = s[i]
      BY <1>2, <1>3, SubSeqProperties
    <2> QED
      BY <1>2, <2>1, <2>2
  <1>5. Len(s) <= Cap => Clamp(s) = s
    <2>1. Len(s) <= Cap => n = Len(s)
      BY <1>1
    <2> HIDE DEF n
    <2> QED
      BY <1>4, <2>1, SeqEqual
  <1>6. ToSet(Clamp(s)) \subseteq ToSet(s)
    <2>1. /\ ToSet(Clamp(s)) = {Clamp(s)[i] : i \in 1 .. n}
          /\ ToSet(s) = {s[i] : i \in 1 .. Len(s)}
      <3> HIDE DEF n
      <3> QED
        BY <1>4, ToSetIs
    <2>2. 1 .. n \subseteq 1 .. Len(s)
      BY <1>2
    <2> HIDE DEF n
    <2> QED
      BY <1>4, <2>1, <2>2
  <1> HIDE DEF n
  <1> QED
    BY <1>2, <1>4, <1>5, <1>6, EmptySeq

\* A finite set as a sequence: all its elements, and no other.
LEMMA SetToSeqSet ==
  ASSUME NEW S, IsFiniteSet(S)
  PROVE  SetToSeq(S) \in Seq(S) /\ ToSet(SetToSeq(S)) = S /\ Len(SetToSeq(S)) = Cardinality(S)
  <1> DEFINE n == Cardinality(S)
             f == SetToSeq(S)
  <1>1. n \in Nat /\ ExistsBijection(1 .. n, S)
    BY FS_CardinalityType
  <1> HIDE DEF n
  <1>2. \E g \in [1 .. n -> S] : IsInjective(g)
    BY <1>1 DEF ExistsBijection, Bijection, Injection, IsInjective
  <1>3. f \in [1 .. n -> S] /\ IsInjective(f)
    BY <1>2 DEF SetToSeq, n
  <1> HIDE DEF f
  <1>4. f \in Surjection(1 .. n, S)
    <2>1. IsFiniteSet(1 .. n) /\ Cardinality(1 .. n) = n
      BY <1>1, FS_Interval
    <2>2. f \in Injection(1 .. n, S)
      BY <1>3 DEF Injection
    <2> QED
      BY <2>1, <2>2, FS_Injection DEF n
  <1>5. f \in Seq(S) /\ Len(f) = n
    BY <1>1, <1>3, SeqDef
  <1>6. ToSet(f) = S
    BY <1>3, <1>4 DEF ToSet, Surjection
  <1> QED
    BY <1>5, <1>6 DEF f, n

-----------------------------------------------------------------------------
(* The redexes of a call *)

LEMMA PresentTypes ==
  ASSUME NfType, NEW c \in Nat
  PROVE  Present(c) \subseteq Elem /\ IsFiniteSet(Present(c))
  <1>1. nf.fired \subseteq Elem
    BY DEF NfType
  <1>2. ASSUME NEW f \in nf.fired
        PROVE  /\ ToSet(Succ[f[2]]) \subseteq nf.setup.redex
               /\ Hidden[f[2]] \subseteq nf.setup.redex
    <2>1. f[2] \in nf.setup.redex
      BY <1>1 DEF Elem
    <2>2. Succ[f[2]] \in Seq(nf.setup.redex)
      BY <2>1, SetupTypes
    <2>3. Hidden[f[2]] \subseteq nf.setup.redex
      BY <2>1, SetupTypes
    <2> QED
      BY <2>2, <2>3, ToSetIs
  <1>3. Present(c) \subseteq {c} \X nf.setup.redex
    <2>1. Root \subseteq nf.setup.redex
      BY SetupTypes
    <2>2. Shown(c) \subseteq {c} \X nf.setup.redex
      BY <1>2, <2>1 DEF Shown, FiredOf
    <2> QED
      BY <1>2, <2>2 DEF Present, FiredOf
  <1>4. IsFiniteSet({c} \X nf.setup.redex)
    BY SetupTypes, FS_Singleton, FS_Product
  <1> QED
    BY <1>3, <1>4, FS_Subset DEF Elem

\* What redex_enumerate finds, whatever the order.
LEMMA EnumerateSet ==
  ASSUME NfType, NEW c \in Nat
  PROVE  /\ Enumerate(c) \in Seq(Elem)
         /\ ToSet(Enumerate(c)) = Present(c) \ nf.fired
         /\ Len(Enumerate(c)) = Cardinality(Present(c) \ nf.fired)
  <1> DEFINE S == Present(c) \ nf.fired
  <1>1. IsFiniteSet(S) /\ S \subseteq Elem
    BY PresentTypes, FS_Subset
  <1>2. Enumerate(c) = SetToSeq(S)
    BY DEF Enumerate
  <1> HIDE DEF S
  <1>3. SetToSeq(S) \in Seq(S) /\ ToSet(SetToSeq(S)) = S /\ Len(SetToSeq(S)) = Cardinality(S)
    BY <1>1, SetToSeqSet
  <1>4. SetToSeq(S) \in Seq(Elem)
    BY <1>1, <1>3, SeqMonotonic
  <1> QED
    BY <1>2, <1>3, <1>4 DEF S

\* The successors a firing has to push.
LEMMA MadeSet ==
  ASSUME NfType, NEW t \in Elem
  PROVE  /\ Made(t) \in Seq(Elem)
         /\ Session => ToSet(Made(t)) = {<<t[1], r>> : r \in ToSet(Succ[t[2]])}
         /\ \A p \in ToSet(Made(t)) : p[1] = t[1]
  <1> DEFINE s == Succ[t[2]]
             m == [i \in 1 .. Len(s) |-> <<t[1], s[i]>>]
  <1>1. t[1] \in Nat /\ t[2] \in nf.setup.redex
    BY DEF Elem
  <1>2. s \in Seq(nf.setup.redex)
    BY <1>1, SetupTypes
  <1> HIDE DEF s
  <1>3. DOMAIN s = 1 .. Len(s) /\ Len(s) \in Nat /\ \A i \in 1 .. Len(s) : s[i] \in nf.setup.redex
    BY <1>2, LenProperties
  <1>4. m \in [1 .. Len(s) -> Elem]
    BY <1>1, <1>3 DEF Elem
  <1>5. m \in Seq(Elem) /\ DOMAIN m = 1 .. Len(s)
    BY <1>3, <1>4, SeqDef
  <1>6. ToSet(m) = {<<t[1], s[i]>> : i \in 1 .. Len(s)}
    BY <1>5 DEF ToSet
  <1>7. ToSet(s) = {s[i] : i \in 1 .. Len(s)}
    BY <1>3 DEF ToSet
  <1>8. ToSet(m) = {<<t[1], r>> : r \in ToSet(s)}
    BY <1>6, <1>7
  <1>9. Made(t) = IF Session THEN m ELSE <<>>
    BY <1>3 DEF Made, s
  <1>10. <<>> \in Seq(Elem) /\ ToSet(<<>>) = {}
    BY EmptySeq, ToSetIs
  <1> HIDE DEF m
  <1>11. \A p \in ToSet(m) : p[1] = t[1]
    BY <1>8
  <1> QED
    BY <1>5, <1>8, <1>9, <1>10, <1>11 DEF s

-----------------------------------------------------------------------------
(* Every step keeps the types *)

\* The pool and the term stay what they are.
LEMMA SetupKept ==
  ASSUME NfType, [Next]_vars
  PROVE  nf'.setup = nf.setup
  <1> USE DEF NfType
  <1>1. CASE NfCall
    BY <1>1 DEF NfCall
  <1>2. CASE NfSeed
    BY <1>2 DEF NfSeed
  <1>3. CASE NfRound
    BY <1>3 DEF NfRound
  <1>4. CASE NfDrained
    BY <1>4 DEF NfDrained
  <1>5. ASSUME NEW w \in Worker, Fire(w) \/ Fired(w)
        PROVE  nf'.setup = nf.setup
    BY <1>5 DEF Fire, Fired
  <1>6. CASE NfCapped \/ LocalTake \/ LocalEnd \/ Arm \/ Start \/ DriverOut
             \/ DriverJoin \/ Free \/ Freed \/ Spurious \/ Terminated \/ UNCHANGED vars
    BY <1>6 DEF NfCapped, LocalTake, LocalEnd, Arm, Start, DriverOut, DriverJoin, Free,
                Freed, Spurious, Terminated, vars
  <1>7. ASSUME NEW w \in Worker,
               Pop(w) \/ PopMiss(w) \/ Steal(w) \/ StealNext(w) \/ StealMiss(w) \/ Leave(w)
               \/ SpinSome(w) \/ SpinNone(w) \/ Rejoin(w) \/ Check(w) \/ Push(w) \/ Helper(w)
        PROVE  nf'.setup = nf.setup
    BY <1>7 DEF Pop, PopMiss, Steal, StealNext, StealMiss, Leave, SpinSome, SpinNone,
                Rejoin, Check, Push, Helper, Park, Wake, Quit, WorkerOut
  <1> QED
    BY <1>1, <1>2, <1>3, <1>4, <1>5, <1>6, <1>7 DEF Next, Driver, Loop

LEMMA ConstantsKept ==
  ASSUME NfType, [Next]_vars
  PROVE  /\ N' = N /\ Worker' = Worker /\ Helpers' = Helpers /\ Elem' = Elem
         /\ Cap' = Cap /\ Root' = Root /\ Succ' = Succ /\ Lazy' = Lazy
         /\ Hidden' = Hidden
         /\ Claimed' = Claimed /\ Session' = Session /\ FireCap' = FireCap
  BY SetupKept DEF N, Worker, Helpers, Elem, Cap, Root, Succ, Hidden, Lazy, Claimed,
                   Session, FireCap

LEMMA WorkerModulo ==
  ASSUME NfType, NEW n \in Nat
  PROVE  n % N \in Worker
  <1>1. N \in Nat \ {0}
    BY SetupTypes
  <1>2. n % N \in 0 .. N - 1
    BY <1>1, SMT
  <1> QED
    BY <1>2 DEF Worker

LEMMA TypeStep ==
  ASSUME TypeOK, [Next]_vars
  PROVE  TypeOK'
  <1> USE DEF ctlVars, loopVars
  <1>1. NfType
    BY DEF TypeOK
  <1>2. /\ N \in Nat \ {0} /\ 0 \in Worker /\ Worker \subseteq Nat /\ Worker = 0 .. N - 1
        /\ Helpers \subseteq Worker /\ 0 \notin Helpers /\ Worker = Helpers \cup {0}
        /\ FireCap \in Nat
    BY <1>1, SetupTypes DEF Worker, Helpers
  <1>3. N' = N /\ Worker' = Worker /\ Helpers' = Helpers /\ Elem' = Elem
    BY <1>1, ConstantsKept
  <1> DEFINE
    PcType == /\ pc' \in [Worker -> DriverPc \cup HelperPc]
              /\ pc'[0] \in DriverPc /\ \A w \in Helpers : pc'[w] \in HelperPc
              /\ \A w \in Worker : pc'[w] = "fire" => cur'[w] \in Elem
    RestType ==
      /\ bag' \in [Worker -> Seq(Elem)]
      /\ cur' \in [Worker -> Elem \cup {None}]
      /\ todo' \in [Worker -> Seq(Elem)]
      /\ k' \in [Worker -> 1 .. N]
      /\ cursor' \in [Worker -> Worker]
      /\ alive' \in Int /\ gen' \in Nat /\ pending' \in Int
      /\ seen' \in [Worker -> Nat]
      /\ shutdown' \in BOOLEAN /\ spawned' \in BOOLEAN
      /\ onStart' \in SUBSET Helpers /\ onDone' \in SUBSET {0}
      /\ fires' \in [Worker -> Nat] /\ pushes' \in [Worker -> Nat]
    NewNf == nf' \in [call : Nat, seeds : Seq(Elem), fired : SUBSET Elem, total : Int,
                      itrs : Nat, before : Nat, budget : Int, left : Nat, setup : Setups]
  <1>4. NewNf /\ PcType /\ RestType => TypeOK'
    BY <1>3 DEF TypeOK, NfType
  <1>5. /\ nf \in [call : Nat, seeds : Seq(Elem), fired : SUBSET Elem, total : Int,
                   itrs : Nat, before : Nat, budget : Int, left : Nat, setup : Setups]
        /\ pc \in [Worker -> DriverPc \cup HelperPc]
        /\ pc[0] \in DriverPc /\ \A w \in Helpers : pc[w] \in HelperPc
        /\ \A w \in Worker : pc[w] = "fire" => cur[w] \in Elem
    BY DEF TypeOK, NfType
  <1>6. /\ bag \in [Worker -> Seq(Elem)]
        /\ cur \in [Worker -> Elem \cup {None}]
        /\ todo \in [Worker -> Seq(Elem)]
        /\ k \in [Worker -> 1 .. N]
        /\ cursor \in [Worker -> Worker]
        /\ alive \in Int /\ gen \in Nat /\ pending \in Int
        /\ seen \in [Worker -> Nat]
        /\ shutdown \in BOOLEAN /\ spawned \in BOOLEAN
        /\ onStart \in SUBSET Helpers /\ onDone \in SUBSET {0}
        /\ fires \in [Worker -> Nat] /\ pushes \in [Worker -> Nat]
    BY DEF TypeOK
  <1>7. UNCHANGED nf => NewNf
    BY <1>5
  <1>8. \A w \in Worker, l \in LoopPc \ {"fire"} : Goto(w, l) /\ UNCHANGED cur => PcType
    BY <1>2, <1>5 DEF Goto, DriverPc, HelperPc, LoopPc
  <1>9. \A l \in DriverPc \ {"fire"} : Goto(0, l) /\ UNCHANGED cur => PcType
    BY <1>2, <1>5 DEF Goto
  <1>10. \A w \in Helpers, l \in HelperPc \ {"fire"} : Goto(w, l) /\ UNCHANGED cur => PcType
    BY <1>2, <1>5 DEF Goto
  <1>11. UNCHANGED <<pc, cur>> => PcType
    BY <1>5
  <1>16. ASSUME NEW w \in Worker, NEW t \in Elem, Take(w, t, "fire")
         PROVE  PcType
    <2>1. /\ pc' = [pc EXCEPT ![w] = "fire"]
          /\ cur' = [cur EXCEPT ![w] = t]
      BY <1>16 DEF Take, Goto
    <2>2. "fire" \in DriverPc /\ "fire" \in HelperPc
      BY DEF DriverPc, HelperPc, LoopPc
    <2>3. \A v \in Worker : pc'[v] = IF v = w THEN "fire" ELSE pc[v]
      BY <1>5, <2>1
    <2>4. \A v \in Worker : cur'[v] = IF v = w THEN t ELSE cur[v]
      BY <1>6, <2>1
    <2>5. pc' \in [Worker -> DriverPc \cup HelperPc]
      BY <1>5, <2>1, <2>2
    <2>6. pc'[0] \in DriverPc
      BY <1>2, <1>5, <2>2, <2>3
    <2>7. \A v \in Helpers : pc'[v] \in HelperPc
      BY <1>2, <1>5, <2>2, <2>3
    <2>8. \A v \in Worker : pc'[v] = "fire" => cur'[v] \in Elem
      BY <1>5, <2>3, <2>4
    <2> QED
      BY <2>5, <2>6, <2>7, <2>8
  <1>12. \A c \in Nat : Clamp(Enumerate(c)) \in Seq(Elem)
    BY <1>1, EnumerateSet, ClampSet
  <1>13. \A w \in Worker : /\ Len(bag[w]) \in Nat
                           /\ bag[w] # <<>> => /\ Front(bag[w]) \in Seq(Elem)
                                               /\ Last(bag[w]) \in Elem
                                               /\ Tail(bag[w]) \in Seq(Elem)
                                               /\ Head(bag[w]) \in Elem
    <2>1. \A w \in Worker : bag[w] \in Seq(Elem)
      BY <1>6
    <2> QED
      BY <2>1, LenProperties, FrontLastSet, HeadTailSet
  <1>14. \A w \in Worker : /\ (w + 1) % N \in Worker
                           /\ (cursor[w] + 1) % N \in Worker
                           /\ Victim(w, k[w]) \in Worker
                           /\ (Victim(w, k[w]) + 1) % N \in Worker
    <2> TAKE w \in Worker
    <2>1. w \in Nat /\ cursor[w] \in Nat /\ k[w] \in Nat
      <3>1. k[w] \in 1 .. N /\ cursor[w] \in Worker
        BY <1>6
      <3> QED
        BY <1>2, <3>1
    <2>2. w + 1 \in Nat /\ cursor[w] + 1 \in Nat /\ cursor[w] + k[w] \in Nat
      BY <2>1
    <2>3. Victim(w, k[w]) \in Worker
      BY <1>1, <2>2, WorkerModulo DEF Victim
    <2>4. Victim(w, k[w]) + 1 \in Nat
      BY <1>2, <2>3
    <2> QED
      BY <1>1, <2>2, <2>3, <2>4, WorkerModulo
  <1>15. 1 \in 1 .. N /\ \A w \in Worker : k[w] < N => k[w] + 1 \in 1 .. N
    <2>1. \A w \in Worker : k[w] \in 1 .. N
      BY <1>6
    <2> QED
      BY <1>2, <2>1
  <1> HIDE DEF PcType
  <1>21. CASE NfCall
    <2>1. NewNf
      <3>1. Len(bag[0]) \in Nat /\ nf.call + 1 \in Nat /\ 0 \in Int
        BY <1>2, <1>5, <1>13
      <3>2. Clamp(Enumerate(nf.call + 1)) \in Seq(Elem)
        BY <1>12, <3>1
      <3>3. nf' = [nf EXCEPT !.call = nf.call + 1, !.total = 0, !.left = Len(bag[0]),
                             !.seeds = Clamp(Enumerate(nf.call + 1))]
        BY <1>21 DEF NfCall
      <3> QED
        BY <1>5, <3>1, <3>2, <3>3
    <2>2. PcType
      BY <1>9, <1>21 DEF NfCall, DriverPc
    <2>3. RestType
      BY <1>6, <1>21 DEF NfCall
    <2> QED
      BY <1>4, <2>1, <2>2, <2>3
  <1>22. CASE NfSeed
    <2>1. Head(nf.seeds) \in Elem /\ Tail(nf.seeds) \in Seq(Elem)
      BY <1>5, <1>22, HeadTailSet DEF NfSeed
    <2>2. NewNf
      BY <1>5, <1>22, <2>1 DEF NfSeed
    <2>3. PcType
      BY <1>11, <1>22 DEF NfSeed
    <2>4. Append(bag[0], Head(nf.seeds)) \in Seq(Elem)
      BY <1>2, <1>6, <2>1, AppendSet
    <2>5. RestType
      <3>1. bag' \in [Worker -> Seq(Elem)]
        BY <1>2, <1>6, <1>22, <2>4 DEF NfSeed
      <3>2. pushes' \in [Worker -> Nat]
        BY <1>2, <1>6, <1>22 DEF NfSeed
      <3> QED
        BY <1>6, <1>22, <3>1, <3>2 DEF NfSeed
    <2> QED
      BY <1>4, <2>2, <2>3, <2>5
  <1>23. CASE NfRound
    <2>1. NewNf
      <3>1. nf.itrs \in Nat /\ FireCap - nf.total \in Int
        BY <1>2, <1>5
      <3>2. nf' = [nf EXCEPT !.before = nf.itrs, !.budget = FireCap - nf.total]
        BY <1>23 DEF NfRound
      <3> QED
        BY <1>5, <3>1, <3>2
    <2>2. PcType
      BY <1>9, <1>23 DEF NfRound, DriverPc
    <2>3. RestType
      BY <1>6, <1>23 DEF NfRound
    <2> QED
      BY <1>4, <2>1, <2>2, <2>3
  <1>24. CASE NfCapped
    BY <1>4, <1>6, <1>7, <1>9, <1>24 DEF NfCapped, DriverPc
  <1>25. CASE NfDrained
    <2>1. FiredThisRound \in Int
      BY <1>5 DEF FiredThisRound
    <2>2. NewNf
      <3>1. <<>> \in Seq(Elem) /\ Clamp(Enumerate(nf.call)) \in Seq(Elem)
        BY <1>5, <1>12, EmptySeq
      <3>2. PICK more \in Seq(Elem) : nf' = [nf EXCEPT !.total = @ + FiredThisRound, !.seeds = more]
        BY <1>25, <3>1 DEF NfDrained
      <3>3. nf.total + FiredThisRound \in Int
        BY <1>5, <2>1
      <3> QED
        BY <1>5, <3>2, <3>3
    <2>3. PcType
      BY <1>9, <1>25 DEF NfDrained, DriverPc
    <2>4. RestType
      BY <1>6, <1>25 DEF NfDrained
    <2> QED
      BY <1>4, <2>2, <2>3, <2>4
  <1>26. CASE LocalTake
    <2>1. RestType
      BY <1>2, <1>6, <1>13, <1>26 DEF LocalTake, Take
    <2> QED
      BY <1>2, <1>4, <1>7, <1>13, <1>16, <1>26, <2>1 DEF LocalTake
  <1>27. CASE LocalEnd
    BY <1>4, <1>6, <1>7, <1>9, <1>27 DEF LocalEnd, DriverPc
  <1>28. CASE Arm
    <2>1. PcType
      BY <1>2, <1>5, <1>28 DEF Arm, PcType, DriverPc, HelperPc, LoopPc
    <2>2. alive' \in Int /\ spawned' \in BOOLEAN
      BY <1>2, <1>28 DEF Arm
    <2>3. RestType
      BY <1>6, <1>28, <2>2 DEF Arm
    <2> QED
      BY <1>4, <1>7, <1>28, <2>1, <2>3 DEF Arm
  <1>29. CASE Start
    <2>1. cursor' \in [Worker -> Worker]
      BY <1>2, <1>6, <1>14, <1>29 DEF Start, EnterLoop
    <2>2. pending' \in Int /\ gen' \in Nat /\ onStart' \in SUBSET Helpers
      BY <1>2, <1>6, <1>29 DEF Start
    <2>3. RestType
      BY <1>6, <1>29, <2>1, <2>2 DEF Start
    <2>4. PcType
      <3>1. Goto(0, "pop") /\ UNCHANGED cur
        BY <1>29 DEF Start
      <3>2. "pop" \in LoopPc \ {"fire"}
        BY DEF LoopPc
      <3> QED
        BY <1>2, <1>8, <3>1, <3>2
    <2>5. UNCHANGED nf
      BY <1>29 DEF Start
    <2> QED
      BY <1>4, <1>7, <2>3, <2>4, <2>5
  <1>30. CASE DriverOut
    <2>1. pending' \in Int /\ onDone' \in SUBSET {0}
      <3>1. pending' = pending - 1 /\ (onDone' = {0} \/ onDone' = onDone)
        BY <1>30 DEF DriverOut
      <3>2. pending \in Int /\ onDone \in SUBSET {0}
        BY <1>6
      <3>3. pending' \in Int
        BY <3>1, <3>2
      <3>4. onDone' \in SUBSET {0}
        BY <3>1, <3>2
      <3> QED
        BY <3>3, <3>4
    <2>2. RestType
      BY <1>6, <1>30, <2>1 DEF DriverOut
    <2> QED
      <3>1. PICK l \in {"join", "drained"} : Goto(0, l)
        BY <1>30 DEF DriverOut
      <3>2. l \in DriverPc \ {"fire"} /\ UNCHANGED <<cur, nf>>
        BY <1>30 DEF DriverOut, DriverPc
      <3> QED
        BY <1>4, <1>7, <1>9, <2>2, <3>1, <3>2
  <1>31. CASE DriverJoin
    <2>1. RestType
      BY <1>6, <1>31 DEF DriverJoin
    <2> QED
      BY <1>4, <1>7, <1>9, <1>11, <1>31, <2>1 DEF DriverJoin, DriverPc
  <1>32. CASE Free
    <2>1. RestType
      BY <1>6, <1>32 DEF Free
    <2> QED
      BY <1>4, <1>7, <1>9, <1>32, <2>1 DEF Free, DriverPc
  <1>33. CASE Freed
    <2>1. RestType
      BY <1>6, <1>33 DEF Freed
    <2> QED
      BY <1>4, <1>7, <1>9, <1>33, <2>1 DEF Freed, DriverPc
  <1>34. ASSUME NEW w \in Worker, Pop(w)
        PROVE  TypeOK'
    <2>1. RestType
      BY <1>6, <1>13, <1>34 DEF Pop, Take
    <2> QED
      BY <1>4, <1>7, <1>13, <1>16, <1>34, <2>1 DEF Pop
  <1>35. ASSUME NEW w \in Worker, PopMiss(w)
        PROVE  TypeOK'
    <2>1. RestType
      BY <1>6, <1>15, <1>35 DEF PopMiss
    <2> QED
      BY <1>4, <1>7, <1>8, <1>35, <2>1 DEF PopMiss, LoopPc
  <1>36. ASSUME NEW w \in Worker, Steal(w)
        PROVE  TypeOK'
    <2>1. RestType
      BY <1>6, <1>13, <1>14, <1>15, <1>36 DEF Steal, Take
    <2> QED
      BY <1>4, <1>7, <1>13, <1>14, <1>16, <1>36, <2>1 DEF Steal
  <1>37. ASSUME NEW w \in Worker, StealNext(w)
        PROVE  TypeOK'
    <2>1. RestType
      BY <1>6, <1>15, <1>37 DEF StealNext
    <2> QED
      BY <1>4, <1>7, <1>11, <1>37, <2>1 DEF StealNext
  <1>38. ASSUME NEW w \in Worker, StealMiss(w)
        PROVE  TypeOK'
    <2>1. RestType
      BY <1>6, <1>14, <1>15, <1>38 DEF StealMiss
    <2> QED
      BY <1>4, <1>7, <1>8, <1>38, <2>1 DEF StealMiss, LoopPc
  <1>39. ASSUME NEW w \in Worker, Leave(w)
        PROVE  TypeOK'
    <2>1. RestType
      BY <1>6, <1>39 DEF Leave
    <2> QED
      BY <1>4, <1>7, <1>8, <1>39, <2>1 DEF Leave, LoopPc
  <1>40. ASSUME NEW w \in Worker, SpinSome(w)
        PROVE  TypeOK'
    <2>1. RestType
      BY <1>6, <1>15, <1>40 DEF SpinSome
    <2> QED
      BY <1>4, <1>7, <1>8, <1>40, <2>1 DEF SpinSome, LoopPc
  <1>41. ASSUME NEW w \in Worker, SpinNone(w)
        PROVE  TypeOK'
    <2>1. RestType
      BY <1>6, <1>15, <1>41 DEF SpinNone
    <2> QED
      BY <1>4, <1>7, <1>8, <1>11, <1>41, <2>1 DEF SpinNone, LoopPc
  <1>42. ASSUME NEW w \in Worker, Rejoin(w)
        PROVE  TypeOK'
    <2>1. RestType
      BY <1>6, <1>42 DEF Rejoin
    <2> QED
      BY <1>4, <1>7, <1>8, <1>42, <2>1 DEF Rejoin, LoopPc
  <1>43. ASSUME NEW w \in Worker, Check(w)
        PROVE  TypeOK'
    <2>1. RestType
      BY <1>6, <1>43 DEF Check
    <2> QED
      BY <1>4, <1>7, <1>8, <1>43, <2>1 DEF Check, LoopPc
  <1>44. ASSUME NEW w \in Worker, Fire(w)
        PROVE  TypeOK'
    <2>1. cur[w] \in Elem
      BY <1>5, <1>44 DEF Fire
    <2>2. NewNf
      <3>1. nf.fired \cup {cur[w]} \in SUBSET Elem /\ nf.itrs + 1 \in Nat
        BY <1>5, <2>1
      <3>2. UNCHANGED nf \/ nf' = [nf EXCEPT !.fired = nf.fired \cup {cur[w]},
                                           !.itrs = nf.itrs + 1]
        BY <1>44 DEF Fire
      <3> QED
        BY <1>5, <3>1, <3>2
    <2>3. RestType
      <3>1. Made(cur[w]) \in Seq(Elem)
        BY <1>1, <2>1, MadeSet
      <3>2. UNCHANGED todo \/ todo' = [todo EXCEPT ![w] = Made(cur[w])]
        BY <1>44 DEF Fire
      <3>3. todo' \in [Worker -> Seq(Elem)]
        BY <1>6, <3>1, <3>2
      <3> QED
        BY <1>6, <1>44, <3>3 DEF Fire
    <2> QED
      BY <1>4, <1>8, <1>44, <2>2, <2>3 DEF Fire, LoopPc
  <1>45. ASSUME NEW w \in Worker, Push(w)
        PROVE  TypeOK'
    <2>1. Head(todo[w]) \in Elem /\ Tail(todo[w]) \in Seq(Elem)
      BY <1>6, <1>45, HeadTailSet DEF Push
    <2>2. Append(bag[w], Head(todo[w])) \in Seq(Elem)
      BY <1>6, <2>1, AppendSet
    <2>3. RestType
      BY <1>6, <1>45, <2>1, <2>2 DEF Push
    <2> QED
      BY <1>4, <1>7, <1>11, <1>45, <2>3 DEF Push
  <1>46. ASSUME NEW w \in Worker, Fired(w)
        PROVE  TypeOK'
    <2>1. NewNf
      BY <1>5, <1>46 DEF Fired
    <2>2. PcType
      <3>1. N = 1 => w = 0
        BY <1>2
      <3>2. PICK l \in {"local", "pop"} : pc' = [pc EXCEPT ![w] = l] /\ (l = "pop" \/ w = 0)
        BY <1>46, <3>1 DEF Fired, Goto
      <3>3. cur' = [cur EXCEPT ![w] = None]
        BY <1>46 DEF Fired
      <3>4. "pop" \in HelperPc /\ l \in DriverPc /\ l # "fire"
        BY DEF LoopPc, DriverPc, HelperPc
      <3>5. \A v \in Worker \ {w} : pc'[v] = pc[v] /\ cur'[v] = cur[v]
        BY <1>5, <1>6, <3>2, <3>3
      <3>6. pc'[w] = l
        BY <1>5, <3>2
      <3>7. pc' \in [Worker -> DriverPc \cup HelperPc]
        BY <1>5, <3>2, <3>4
      <3> QED
        BY <1>2, <1>5, <3>2, <3>4, <3>5, <3>6, <3>7 DEF PcType
    <2>3. RestType
      BY <1>6, <1>46 DEF Fired
    <2> QED
      BY <1>4, <2>1, <2>2, <2>3
  <1>47. ASSUME NEW w \in Helpers, Park(w)
        PROVE  TypeOK'
    <2>1. RestType
      BY <1>6, <1>47 DEF Park
    <2> QED
      BY <1>4, <1>7, <1>11, <1>47, <2>1 DEF Park
  <1>48. ASSUME NEW w \in Helpers, Wake(w)
        PROVE  TypeOK'
    <2>1. RestType
      BY <1>2, <1>6, <1>14, <1>48 DEF Wake, EnterLoop
    <2> QED
      BY <1>2, <1>4, <1>7, <1>8, <1>48, <2>1 DEF Wake, LoopPc
  <1>49. ASSUME NEW w \in Helpers, Quit(w)
        PROVE  TypeOK'
    BY <1>4, <1>6, <1>7, <1>10, <1>49 DEF Quit, HelperPc
  <1>50. ASSUME NEW w \in Helpers, WorkerOut(w)
        PROVE  TypeOK'
    <2>1. RestType
      BY <1>6, <1>50 DEF WorkerOut
    <2> QED
      BY <1>4, <1>7, <1>10, <1>50, <2>1 DEF WorkerOut, HelperPc
  <1>51. CASE Spurious
    <2>1. RestType
      BY <1>6, <1>51 DEF Spurious
    <2> QED
      BY <1>4, <1>7, <1>11, <1>51, <2>1 DEF Spurious
  <1>52. CASE UNCHANGED vars
    BY <1>4, <1>6, <1>7, <1>11, <1>52 DEF vars
  <1> QED
    BY <1>21, <1>22, <1>23, <1>24, <1>25, <1>26, <1>27, <1>28, <1>29, <1>30, <1>31, <1>32,
       <1>33, <1>34, <1>35, <1>36, <1>37, <1>38, <1>39, <1>40, <1>41, <1>42, <1>43, <1>44,
       <1>45, <1>46, <1>47, <1>48, <1>49, <1>50, <1>51, <1>52
       DEF Next, Driver, Loop, Helper, Terminated, Helpers

LEMMA TypeInit == Init => TypeOK
  <1> SUFFICES ASSUME Init PROVE TypeOK
    OBVIOUS
  <1>1. NfType
    <2>1. nf \in [call : {0}, seeds : {<<>>}, fired : {{}}, total : {0}, itrs : {0},
                  before : {0}, budget : {0}, left : {0}, setup : Setups]
      BY DEF Init
    <2>2. <<>> \in Seq(Elem) /\ {} \in SUBSET Elem /\ 0 \in Nat /\ 0 \in Int
      BY EmptySeq
    <2> QED
      BY <2>1, <2>2 DEF NfType
  <1>2. /\ N \in Nat \ {0} /\ 0 \in Worker /\ Worker = 0 .. N - 1 /\ Worker \subseteq Nat
    BY <1>1, SetupTypes DEF Worker
  <1>3. 0 \in Worker /\ 1 \in 1 .. N /\ <<>> \in Seq(Elem)
    BY <1>2, EmptySeq
  <1>4. N \in Int
    BY <1>2
  <1> QED
    BY <1>1, <1>3, <1>4 DEF Init, TypeOK, Helpers, DriverPc, HelperPc, LoopPc

\* TypeOK: every variable keeps its type, in every state of every run.
THEOREM TypeCorrect == Spec => []TypeOK
  <1>1. Init => TypeOK
    BY TypeInit
  <1>2. TypeOK /\ [Next]_vars => TypeOK'
    BY TypeStep
  <1> QED
    BY <1>1, <1>2, PTL DEF Spec

-----------------------------------------------------------------------------
(* The protocol of the pool *)

\* A parallel drain, from the release of the helpers to the driver's return.
InDrain == N > 1 /\ pc[0] \in LoopPc \cup {"join"}

\* A helper that has been released and has not woken yet.
Released(w) == w # 0 /\ pc[w] = "park" /\ seen[w] # gen

Counting == {w \in Worker : Busy(w) \/ Released(w)}
Staying  == {w \in Worker : pc[w] \in LoopPc \/ Released(w)}

BusyPc == {"pop", "steal", "leave", "fire", "push"}
OwnPc  == {"pop", "fire", "push"}

Places ==
  /\ N = 1 => pc[0] \notin {"pop", "steal", "leave", "spin", "rejoin", "check", "out",
                            "arm", "start", "join"}
  /\ N > 1 => pc[0] # "local"
  /\ ~InDrain => /\ pending = 0
                 /\ \A w \in Helpers : pc[w] \notin LoopPc /\ seen[w] = gen
  /\ \A w \in Helpers : pc[w] \in LoopPc => seen[w] = gen
  /\ pc[0] \notin {"free", "exited"} =>
       /\ ~shutdown
       /\ \A w \in Helpers : pc[w] # "exited" /\ (pc[w] = "unborn" <=> ~spawned)
  /\ InDrain \/ pc[0] = "start" \/ (N > 1 /\ pc[0] = "drained") => spawned
  /\ pc[0] = "start" => alive = N

Counts ==
  InDrain => alive = Cardinality(Counting) /\ pending = Cardinality(Staying)

Owned ==
  /\ \A w \in Helpers : bag[w] # <<>> => pc[w] \in OwnPc
  /\ InDrain \/ (N > 1 /\ pc[0] = "drained") => (bag[0] # <<>> => pc[0] \in OwnPc)

Control == Places /\ Counts /\ Owned

-----------------------------------------------------------------------------
(* One step of the loop, whichever it is *)

Steps(b) == IF b \in BusyPc THEN 1 ELSE 0

\* The worker stays in the loop (or, alone, in wnf_pool_drain_local), counts
\* itself in or out as it gets busy or stops, and nobody else's bag fills.
Moves(w, l) ==
  /\ pc[w] \in LoopPc \ {"out"} /\ l \in LoopPc \cup {"local"}
  /\ pc' = [pc EXCEPT ![w] = l]
  /\ l = "local" => N = 1
  /\ N = 1 /\ pc[w] \in {"fire", "push"} => l \in {"push", "local"}
  /\ UNCHANGED <<gen, seen, pending, shutdown, spawned>>
  /\ N > 1 => alive' = alive + Steps(l) - Steps(pc[w])
  /\ \A v \in Worker \ {w} : bag[v] = <<>> => bag'[v] = <<>>
  /\ N > 1 /\ (bag[w] # <<>> => pc[w] \in OwnPc) => (bag'[w] # <<>> => l \in OwnPc)

LEMMA LoopMoves ==
  ASSUME TypeOK, NEW w \in Worker, Loop(w)
  PROVE  \E l : Moves(w, l)
  <1> USE DEF Moves, Goto, Take, Steps, LoopPc, BusyPc, OwnPc, ctlVars, loopVars
  <1>1. /\ alive \in Int /\ bag \in [Worker -> Seq(Elem)] /\ N \in Nat /\ N # 0
        /\ \A v \in Worker : bag[v] = <<>> <=> Len(bag[v]) = 0
    <2>1. bag \in [Worker -> Seq(Elem)] /\ alive \in Int
      BY DEF TypeOK
    <2>2. \A v \in Worker : bag[v] = <<>> <=> Len(bag[v]) = 0
      BY <2>1, ToSetIs
    <2> QED
      BY <2>1, <2>2, SetupTypes DEF TypeOK
  <1>20. UNCHANGED pc => pc' = [pc EXCEPT ![w] = pc[w]]
    BY DEF TypeOK
  <1>2. CASE Pop(w)
    <2>1. Moves(w, "fire")
      BY <1>1, <1>2 DEF Pop
    <2> QED
      BY <2>1
  <1>3. CASE PopMiss(w)
    <2>1. Moves(w, "steal")
      BY <1>1, <1>3 DEF PopMiss
    <2> QED
      BY <2>1
  <1>4. CASE Steal(w)
    <2>1. Moves(w, "fire")
      BY <1>1, <1>4 DEF Steal
    <2> QED
      BY <2>1
  <1>5. CASE StealNext(w)
    <2>1. Moves(w, "steal")
      BY <1>1, <1>5, <1>20 DEF StealNext
    <2> QED
      BY <2>1
  <1>6. CASE StealMiss(w)
    <2>1. Moves(w, "leave")
      BY <1>1, <1>6 DEF StealMiss
    <2> QED
      BY <2>1
  <1>7. CASE Leave(w)
    <2>1. alive = 1 => Moves(w, "out")
      BY <1>1, <1>7 DEF Leave
    <2>2. alive # 1 => Moves(w, "spin")
      BY <1>1, <1>7 DEF Leave
    <2> QED
      BY <2>1, <2>2
  <1>8. CASE SpinSome(w)
    <2>1. Moves(w, "rejoin")
      BY <1>1, <1>8 DEF SpinSome
    <2> QED
      BY <2>1
  <1>9. CASE SpinNone(w)
    <2>1. k[w] < N => Moves(w, "spin")
      BY <1>1, <1>9, <1>20 DEF SpinNone
    <2>2. ~(k[w] < N) => Moves(w, "check")
      BY <1>1, <1>9 DEF SpinNone
    <2> QED
      BY <2>1, <2>2
  <1>10. CASE Rejoin(w)
    <2>1. Moves(w, "pop")
      BY <1>1, <1>10 DEF Rejoin
    <2> QED
      BY <2>1
  <1>11. CASE Check(w)
    <2>1. alive = 0 => Moves(w, "out")
      BY <1>1, <1>11 DEF Check
    <2>2. alive # 0 => Moves(w, "spin")
      BY <1>1, <1>11 DEF Check
    <2> QED
      BY <2>1, <2>2
  <1>12. CASE Fire(w)
    <2>1. Moves(w, "push")
      BY <1>1, <1>12 DEF Fire
    <2> QED
      BY <2>1
  <1>13. CASE Push(w)
    <2>1. Moves(w, "push")
      BY <1>1, <1>13, <1>20 DEF Push
    <2> QED
      BY <2>1
  <1>14. CASE Fired(w)
    <2>1. N = 1 => Moves(w, "local")
      BY <1>1, <1>14 DEF Fired
    <2>2. N # 1 => Moves(w, "pop")
      BY <1>1, <1>14 DEF Fired
    <2> QED
      BY <2>1, <2>2
  <1> QED
    BY <1>2, <1>3, <1>4, <1>5, <1>6, <1>7, <1>8, <1>9, <1>10, <1>11, <1>12, <1>13, <1>14
       DEF Loop

-----------------------------------------------------------------------------
(* Where the helpers are *)

LEMMA PlacesStep ==
  ASSUME TypeOK, Control, [Next]_vars
  PROVE  Places'
  <1> USE DEF Goto, ctlVars, loopVars
  <1>1. /\ NfType
        /\ pc \in [Worker -> DriverPc \cup HelperPc] /\ pc[0] \in DriverPc
        /\ \A w \in Helpers : pc[w] \in HelperPc
        /\ seen \in [Worker -> Nat] /\ gen \in Nat /\ spawned \in BOOLEAN
        /\ alive \in Int /\ pending \in Int
    BY DEF TypeOK
  <1>2. /\ N \in Nat \ {0} /\ 0 \in Worker /\ Helpers \subseteq Worker /\ 0 \notin Helpers
        /\ Worker = Helpers \cup {0} /\ (N = 1 => Helpers = {})
    BY <1>1, SetupTypes DEF Worker, Helpers
  <1>3. N' = N /\ Worker' = Worker /\ Helpers' = Helpers
    BY <1>1, ConstantsKept
  <1>4. Places
    BY DEF Control
  <1>5. InDrain' <=> N > 1 /\ pc'[0] \in LoopPc \cup {"join"}
    BY <1>3 DEF InDrain
  <1> DEFINE Rest == UNCHANGED <<gen, seen, pending, shutdown, spawned, alive>>
  <1>6. UNCHANGED pc /\ Rest => Places'
    BY <1>3, <1>4, <1>5 DEF Places, InDrain
  <1>10. ASSUME NEW w \in Worker, Loop(w)
         PROVE  Places'
    <2>1. PICK l : Moves(w, l)
      BY <1>10, LoopMoves
    <2>2. /\ pc[w] \in LoopPc \ {"out"} /\ l \in LoopPc \cup {"local"} /\ (l = "local" => N = 1)
          /\ pc'[w] = l /\ \A v \in Worker \ {w} : pc'[v] = pc[v]
          /\ UNCHANGED <<gen, seen, pending, shutdown, spawned>>
          /\ (N = 1 /\ pc[w] \in {"fire", "push"} => l \in {"push", "local"})
          /\ l # "drained"
      BY <1>1, <2>1 DEF Moves, LoopPc
    <2>3. CASE w = 0
      <3>1. N > 1 => InDrain /\ InDrain'
        BY <1>5, <2>2, <2>3 DEF InDrain
      <3>2. N = 1 => pc[0] \in {"fire", "push"} /\ ~InDrain /\ ~InDrain'
        BY <1>4, <1>5, <2>2, <2>3 DEF Places, InDrain, LoopPc
      <3>3. pc[0] \notin {"free", "exited"} /\ pc'[0] # "start" /\ (N > 1 => pc'[0] # "local")
        BY <2>2, <2>3 DEF LoopPc
      <3>4. N = 1 => pc'[0] \in {"push", "local"}
        BY <2>2, <2>3, <3>2
      <3>5. \A v \in Helpers : pc'[v] = pc[v]
        BY <1>2, <2>2, <2>3
      <3> QED
        BY <1>2, <1>3, <1>4, <2>2, <3>1, <3>2, <3>3, <3>4, <3>5 DEF Places
    <2>4. CASE w # 0
      <3>1. w \in Helpers /\ N > 1 /\ InDrain /\ l \in LoopPc
        BY <1>2, <1>4, <2>2, <2>4 DEF Places
      <3>2. pc'[0] = pc[0] /\ InDrain' /\ pc'[0] \in LoopPc \cup {"join"}
        BY <1>2, <1>5, <2>2, <2>4, <3>1 DEF InDrain
      <3>3. seen[w] = gen
        BY <1>4, <2>2, <3>1 DEF Places
      <3>4. pc'[w] \notin {"exited", "unborn"} /\ pc[w] \notin {"exited", "unborn"}
        BY <2>2, <3>1 DEF LoopPc
      <3> QED
        BY <1>2, <1>3, <1>4, <2>2, <3>1, <3>2, <3>3, <3>4 DEF Places, LoopPc
    <2> QED
      BY <2>3, <2>4
  <1>11. ASSUME NEW l, pc' = [pc EXCEPT ![0] = l], Rest,
                pc[0] \in {"call", "seed", "local", "drained"},
                l \in {"call", "seed", "local", "arm", "fire", "drained"},
                N = 1 => l # "arm", N > 1 => l \notin {"local", "fire", "drained"}
         PROVE  Places'
    <2>1. pc'[0] = l /\ \A w \in Helpers : pc'[w] = pc[w]
      BY <1>1, <1>2, <1>11
    <2>2. ~InDrain /\ ~InDrain'
      BY <1>5, <1>11, <2>1 DEF InDrain, LoopPc
    <2> QED
      BY <1>2, <1>3, <1>4, <1>11, <2>1, <2>2 DEF Places
  <1>12. CASE NfCall \/ NfCapped \/ NfDrained
    <2>1. \E l \in {"call", "seed"} : pc' = [pc EXCEPT ![0] = l]
      BY <1>12 DEF NfCall, NfCapped, NfDrained
    <2>2. Rest /\ pc[0] \in {"call", "seed", "local", "drained"}
      BY <1>12 DEF NfCall, NfCapped, NfDrained
    <2> QED
      BY <1>11, <2>1, <2>2
  <1>13. CASE NfSeed
    BY <1>6, <1>13 DEF NfSeed
  <1>14. CASE NfRound
    <2>1. \E l \in {"local", "arm"} : pc' = [pc EXCEPT ![0] = l] /\ (l = "local" <=> N = 1)
      BY <1>14 DEF NfRound
    <2>2. Rest /\ pc[0] = "seed"
      BY <1>14 DEF NfRound
    <2>3. PICK l \in {"local", "arm"} : pc' = [pc EXCEPT ![0] = l] /\ (l = "local" <=> N = 1)
      BY <2>1
    <2>4. (N = 1 => l # "arm") /\ (N > 1 => l \notin {"local", "fire"})
      BY <1>2, <2>3
    <2> QED
      BY <1>11, <2>2, <2>3, <2>4
  <1>15. CASE LocalTake
    <2>1. pc' = [pc EXCEPT ![0] = "fire"] /\ Rest /\ pc[0] = "local"
      BY <1>15 DEF LocalTake, Take
    <2>2. N = 1 /\ ~ (N > 1)
      BY <1>2, <1>4, <2>1 DEF Places
    <2> QED
      BY <1>11, <2>1, <2>2
  <1>26. CASE LocalEnd
    <2>1. pc' = [pc EXCEPT ![0] = "drained"] /\ Rest /\ pc[0] = "local"
      BY <1>26 DEF LocalEnd
    <2>2. N = 1 /\ ~ (N > 1)
      BY <1>2, <1>4, <2>1 DEF Places
    <2> QED
      BY <1>11, <2>1, <2>2
  <1>16. CASE Arm
    <2>1. /\ pc[0] = "arm" /\ pc'[0] = "start" /\ alive' = N /\ spawned' = TRUE
          /\ \A w \in Helpers : pc'[w] = IF spawned THEN pc[w] ELSE "park"
          /\ UNCHANGED <<gen, seen, pending, shutdown>>
      BY <1>2, <1>16 DEF Arm
    <2>2. ~InDrain /\ ~InDrain' /\ N > 1
      BY <1>2, <1>4, <1>5, <2>1 DEF InDrain, LoopPc, Places
    <2>3. \A w \in Helpers : pc'[w] \notin LoopPc /\ pc'[w] \notin {"exited", "unborn"}
      BY <1>4, <2>1, <2>2 DEF Places, LoopPc
    <2> QED
      BY <1>2, <1>3, <1>4, <2>1, <2>2, <2>3 DEF Places
  <1>17. CASE Start
    <2>1. /\ pc[0] = "start" /\ pc' = [pc EXCEPT ![0] = "pop"] /\ gen' = gen + 1
          /\ UNCHANGED <<seen, shutdown, spawned>>
      BY <1>17 DEF Start
    <2>2. pc'[0] = "pop" /\ \A w \in Helpers : pc'[w] = pc[w]
      BY <1>1, <1>2, <2>1
    <2>3. ~InDrain /\ InDrain' /\ N > 1
      BY <1>2, <1>4, <1>5, <2>1, <2>2 DEF InDrain, LoopPc, Places
    <2>4. spawned
      BY <1>4, <2>1 DEF Places
    <2> QED
      BY <1>2, <1>3, <1>4, <2>1, <2>2, <2>3, <2>4 DEF Places
  <1>18. CASE DriverOut
    <2>1. /\ pc[0] = "out" /\ UNCHANGED <<gen, seen, shutdown, spawned, alive>>
          /\ pending' = pending - 1
          /\ \E l \in {"join", "drained"} :
               pc' = [pc EXCEPT ![0] = l] /\ (l = "drained" => ~ pending' > 0)
      BY <1>18 DEF DriverOut
    <2>2. N > 1 /\ InDrain
      BY <1>2, <1>4, <2>1 DEF Places, InDrain, LoopPc
    <2>8. PICK l \in {"join", "drained"} :
            pc' = [pc EXCEPT ![0] = l] /\ (l = "drained" => ~ pending' > 0)
      BY <2>1
    <2>9. pc' = [pc EXCEPT ![0] = l]
      BY <2>8
    <2>3. pc'[0] = l /\ \A w \in Helpers : pc'[w] = pc[w]
      BY <1>1, <1>2, <2>9
    <2>4. pc'[0] = "join" \/ (pc'[0] = "drained" /\ ~ pending' > 0)
      BY <2>3, <2>8
    <2>5. pc'[0] = "drained" => pending' = 0 /\ \A w \in Helpers : pc[w] \notin LoopPc /\ seen[w] = gen
      <3>1. pending = Cardinality(Staying)
        BY <2>2 DEF Control, Counts
      <3>2. Staying \subseteq Worker /\ 0 \in Staying /\ IsFiniteSet(Staying)
        BY <1>1, <1>2, <2>1, WorkerFinite, FS_Subset DEF Staying, LoopPc
      <3>3. IsFiniteSet(Staying \ {0}) /\ Cardinality(Staying \ {0}) = Cardinality(Staying) - 1
        BY <3>2, FS_RemoveElement
      <3>4. Cardinality(Staying \ {0}) \in Nat
        BY <3>3, FS_CardinalityType
      <3>5. pending' = Cardinality(Staying \ {0})
        BY <2>1, <3>1, <3>3
      <3>8. pc'[0] = "drained" => pending' = 0
        BY <2>4, <3>4, <3>5
      <3>6. pc'[0] = "drained" => pending' = 0 /\ Staying \ {0} = {}
        BY <3>3, <3>5, <3>8, FS_EmptySet
      <3>7. ASSUME pc'[0] = "drained", NEW w \in Helpers
            PROVE  pc[w] \notin LoopPc /\ seen[w] = gen
        <4>1. w \notin Staying /\ w # 0
          BY <1>2, <3>6, <3>7
        <4>2. pc[w] \notin LoopPc /\ ~(pc[w] = "park" /\ seen[w] # gen)
          BY <1>2, <4>1 DEF Staying, Released
        <4>3. pc[w] = "park"
          <5>1. pc[w] \notin {"exited", "unborn"}
            BY <1>4, <2>1, <2>2 DEF Places
          <5> QED
            BY <1>1, <4>2, <5>1 DEF HelperPc
        <4> QED
          BY <4>2, <4>3
      <3> QED
        BY <3>6, <3>7
    <2>6. pc'[0] = "join" => InDrain'
      BY <1>5, <2>2
    <2>7. pc'[0] = "drained" => ~InDrain'
      BY <1>5 DEF LoopPc
    <2> QED
      BY <1>2, <1>3, <1>4, <2>1, <2>2, <2>3, <2>4, <2>5, <2>6, <2>7 DEF Places
  <1>19. CASE DriverJoin
    <2>1. /\ pc[0] = "join" /\ Rest
          /\ UNCHANGED pc \/ (pc' = [pc EXCEPT ![0] = "drained"] /\ ~ pending > 0)
      BY <1>19 DEF DriverJoin
    <2>2. CASE UNCHANGED pc
      BY <1>6, <2>1, <2>2
    <2>3. CASE pc' = [pc EXCEPT ![0] = "drained"] /\ ~ pending > 0
      <3>1. N > 1 /\ InDrain
        BY <1>2, <1>4, <2>1 DEF Places, InDrain
      <3>2. pc'[0] = "drained" /\ ~InDrain' /\ \A w \in Helpers : pc'[w] = pc[w]
        BY <1>1, <1>2, <1>5, <2>3 DEF LoopPc
      <3>3. pending = Cardinality(Staying) /\ IsFiniteSet(Staying)
        BY <1>1, <3>1, WorkerFinite, FS_Subset DEF Control, Counts, Staying
      <3>4. pending = 0 /\ Staying = {}
        BY <2>3, <3>3, FS_CardinalityType, FS_EmptySet
      <3>5. ASSUME NEW w \in Helpers
            PROVE  pc[w] \notin LoopPc /\ seen[w] = gen
        <4>1. pc[w] \notin LoopPc /\ ~(pc[w] = "park" /\ seen[w] # gen)
          BY <1>2, <3>4 DEF Staying, Released
        <4>2. pc[w] \notin {"exited", "unborn"}
          BY <1>4, <2>1, <3>1 DEF Places
        <4> QED
          BY <1>1, <4>1, <4>2 DEF HelperPc
      <3> QED
        BY <1>2, <1>3, <1>4, <2>1, <3>1, <3>2, <3>4, <3>5 DEF Places
    <2> QED
      BY <2>1, <2>2, <2>3
  <1>20. CASE Free \/ Freed
    <2>1. /\ pc[0] \in {"call", "free"} /\ pc'[0] \in {"free", "exited"}
          /\ \A w \in Helpers : pc'[w] = pc[w]
          /\ UNCHANGED <<gen, seen, pending, alive>>
      BY <1>1, <1>2, <1>20 DEF Free, Freed
    <2>2. ~InDrain /\ ~InDrain'
      BY <1>5, <2>1 DEF InDrain, LoopPc
    <2> QED
      BY <1>2, <1>3, <1>4, <2>1, <2>2 DEF Places
  <1>21. ASSUME NEW w \in Helpers, Park(w)
         PROVE  Places'
    BY <1>6, <1>21 DEF Park
  <1>22. ASSUME NEW w \in Helpers, Wake(w)
         PROVE  Places'
    <2>1. /\ pc[w] = "park" /\ gen # seen[w] /\ seen' = [seen EXCEPT ![w] = gen]
          /\ pc' = [pc EXCEPT ![w] = "pop"]
          /\ UNCHANGED <<gen, pending, shutdown, spawned, alive>>
      BY <1>22 DEF Wake
    <2>2. InDrain /\ pc'[0] = pc[0] /\ InDrain'
      BY <1>1, <1>2, <1>4, <1>5, <2>1 DEF Places, InDrain
    <2>3. /\ pc'[w] = "pop" /\ seen'[w] = gen
          /\ \A v \in Helpers \ {w} : pc'[v] = pc[v] /\ seen'[v] = seen[v]
      BY <1>1, <1>2, <2>1
    <2> QED
      BY <1>2, <1>3, <1>4, <2>1, <2>2, <2>3 DEF Places
  <1>23. ASSUME NEW w \in Helpers, Quit(w)
         PROVE  Places'
    <2>1. /\ pc[w] = "park" /\ shutdown /\ pc' = [pc EXCEPT ![w] = "exited"] /\ Rest
      BY <1>23 DEF Quit
    <2>2. pc[0] \in {"free", "exited"} /\ pc'[0] = pc[0] /\ ~InDrain /\ ~InDrain'
      BY <1>1, <1>2, <1>4, <1>5, <2>1 DEF Places, InDrain, LoopPc
    <2>3. pc'[w] = "exited" /\ \A v \in Helpers \ {w} : pc'[v] = pc[v]
      BY <1>1, <1>2, <2>1
    <2> QED
      BY <1>2, <1>3, <1>4, <2>1, <2>2, <2>3 DEF Places, LoopPc
  <1>24. ASSUME NEW w \in Helpers, WorkerOut(w)
         PROVE  Places'
    <2>1. /\ pc[w] = "out" /\ pc' = [pc EXCEPT ![w] = "park"]
          /\ UNCHANGED <<gen, seen, shutdown, spawned, alive>>
      BY <1>24 DEF WorkerOut
    <2>2. InDrain /\ pc'[0] = pc[0] /\ InDrain'
      BY <1>1, <1>2, <1>4, <1>5, <2>1 DEF Places, InDrain, LoopPc
    <2>3. pc'[w] = "park" /\ \A v \in Helpers \ {w} : pc'[v] = pc[v]
      BY <1>1, <1>2, <2>1
    <2>4. pc[0] \in LoopPc \cup {"join"} /\ pc[0] \notin {"free", "exited", "start"}
      BY <2>2 DEF InDrain, LoopPc
    <2> QED
      BY <1>2, <1>3, <1>4, <2>1, <2>2, <2>3, <2>4 DEF Places, LoopPc
  <1>25. CASE Spurious \/ UNCHANGED vars
    BY <1>6, <1>25 DEF Spurious, vars
  <1> QED
    BY <1>10, <1>12, <1>13, <1>14, <1>15, <1>16, <1>17, <1>18, <1>19, <1>20, <1>21, <1>22,
       <1>23, <1>24, <1>25, <1>26 DEF Next, Driver, Helper, Terminated, Helpers

-----------------------------------------------------------------------------
(* What the two counters count *)

\* One element more or less.
LEMMA CountOne ==
  ASSUME NEW S, IsFiniteSet(S), NEW T, NEW w
  PROVE  /\ IsFiniteSet(T) /\ T = S \cup {w} /\ w \notin S => Cardinality(T) = Cardinality(S) + 1
         /\ IsFiniteSet(T) /\ T = S \ {w} /\ w \in S => Cardinality(T) = Cardinality(S) - 1
  BY FS_AddElement, FS_RemoveElement

LEMMA CountsStep ==
  ASSUME TypeOK, Control, [Next]_vars
  PROVE  Counts'
  <1> USE DEF Goto, ctlVars, loopVars
  <1>1. /\ NfType
        /\ pc \in [Worker -> DriverPc \cup HelperPc] /\ pc[0] \in DriverPc
        /\ \A w \in Helpers : pc[w] \in HelperPc
        /\ seen \in [Worker -> Nat] /\ gen \in Nat /\ spawned \in BOOLEAN
        /\ alive \in Int /\ pending \in Int
    BY DEF TypeOK
  <1>2. /\ N \in Nat \ {0} /\ 0 \in Worker /\ Helpers \subseteq Worker /\ 0 \notin Helpers
        /\ Worker = Helpers \cup {0} /\ (N = 1 => Helpers = {})
    BY <1>1, SetupTypes DEF Worker, Helpers
  <1>3. N' = N /\ Worker' = Worker /\ Helpers' = Helpers
    BY <1>1, ConstantsKept
  <1>4. Places /\ (InDrain => alive = Cardinality(Counting) /\ pending = Cardinality(Staying))
    BY DEF Control, Counts
  <1>5. InDrain' <=> N > 1 /\ pc'[0] \in LoopPc \cup {"join"}
    BY <1>3 DEF InDrain
  <1>6. /\ Counting = {w \in Worker : pc[w] \in BusyPc \/ (w # 0 /\ pc[w] = "park" /\ seen[w] # gen)}
        /\ Staying = {w \in Worker : pc[w] \in LoopPc \/ (w # 0 /\ pc[w] = "park" /\ seen[w] # gen)}
    BY DEF Counting, Staying, Busy, BusyPc, Released
  <1>7. /\ Counting' = {w \in Worker : pc'[w] \in BusyPc
                                      \/ (w # 0 /\ pc'[w] = "park" /\ seen'[w] # gen')}
        /\ Staying' = {w \in Worker : pc'[w] \in LoopPc
                                     \/ (w # 0 /\ pc'[w] = "park" /\ seen'[w] # gen')}
    BY <1>3 DEF Counting, Staying, Busy, BusyPc, Released
  <1>8. IsFiniteSet(Worker) /\ Cardinality(Worker) = N
    BY <1>1, WorkerFinite
  <1>9. IsFiniteSet(Counting) /\ IsFiniteSet(Staying) /\ IsFiniteSet(Counting') /\ IsFiniteSet(Staying')
    <2>1. Counting \subseteq Worker /\ Staying \subseteq Worker
      BY <1>6
    <2>2. Counting' \subseteq Worker /\ Staying' \subseteq Worker
      BY <1>7
    <2> QED
      BY <1>8, <2>1, <2>2, FS_Subset
  <1>10. UNCHANGED <<pc, seen, gen, alive, pending>> => Counts'
    <2>1. UNCHANGED <<pc, seen, gen>> => Counting' = Counting /\ Staying' = Staying
      BY <1>6, <1>7
    <2>2. UNCHANGED pc => (InDrain' <=> InDrain)
      BY <1>5 DEF InDrain
    <2> QED
      BY <1>4, <2>1, <2>2 DEF Counts
  <1>11. ~InDrain' => Counts'
    BY DEF Counts
  <1>12. ASSUME NEW w \in Worker, Loop(w), InDrain'
         PROVE  Counts'
    <2>1. PICK l : Moves(w, l)
      BY <1>12, LoopMoves
    <2>2. N > 1
      BY <1>5, <1>12
    <2>3. /\ pc[w] \in LoopPc \ {"out"} /\ l \in LoopPc
          /\ pc'[w] = l /\ \A v \in Worker \ {w} : pc'[v] = pc[v]
          /\ UNCHANGED <<gen, seen, pending>>
          /\ alive' = alive + Steps(l) - Steps(pc[w])
      BY <1>1, <2>1, <2>2 DEF Moves
    <2>4. InDrain
      BY <1>2, <1>5, <1>12, <2>3 DEF InDrain
    <2>5. Staying' = Staying
      BY <1>6, <1>7, <2>3 DEF LoopPc
    <2>6. /\ w \in Counting <=> pc[w] \in BusyPc
          /\ w \in Counting' <=> l \in BusyPc
          /\ \A v \in Worker \ {w} : v \in Counting <=> v \in Counting'
          /\ Counting \subseteq Worker /\ Counting' \subseteq Worker
      BY <1>6, <1>7, <2>3 DEF LoopPc
    <2>7. alive' = Cardinality(Counting')
      <3>1. CASE w \in Counting <=> w \in Counting'
        <4>1. Counting' = Counting
          BY <2>6, <3>1
        <4>2. Steps(l) = Steps(pc[w]) /\ Steps(l) \in Int
          BY <2>6, <3>1 DEF Steps
        <4> QED
          BY <1>1, <1>4, <2>3, <2>4, <4>1, <4>2
      <3>2. CASE w \notin Counting /\ w \in Counting'
        <4>1. Counting' = Counting \cup {w}
          BY <2>6, <3>2
        <4>2. Steps(l) = 1 /\ Steps(pc[w]) = 0
          BY <2>6, <3>2 DEF Steps
        <4>3. Cardinality(Counting') = Cardinality(Counting) + 1
          BY <1>9, <3>2, <4>1, CountOne
        <4> QED
          BY <1>1, <1>4, <2>3, <2>4, <4>2, <4>3
      <3>3. CASE w \in Counting /\ w \notin Counting'
        <4>1. Counting' = Counting \ {w}
          BY <2>6, <3>3
        <4>2. Steps(l) = 0 /\ Steps(pc[w]) = 1
          BY <2>6, <3>3 DEF Steps
        <4>3. Cardinality(Counting') = Cardinality(Counting) - 1
          BY <1>9, <3>3, <4>1, CountOne
        <4> QED
          BY <1>1, <1>4, <2>3, <2>4, <4>2, <4>3
      <3> QED
        BY <3>1, <3>2, <3>3
    <2> QED
      BY <1>4, <2>3, <2>4, <2>5, <2>7 DEF Counts
  <1>13. CASE NfCall \/ NfCapped \/ NfRound \/ NfDrained \/ LocalTake \/ LocalEnd \/ Arm
              \/ Free \/ Freed
    <2>1. CASE NfCall \/ NfCapped \/ NfDrained \/ LocalEnd \/ Free \/ Freed \/ NfRound \/ Arm
      <3>1. pc'[0] \in {"call", "seed", "drained", "free", "exited", "local", "arm", "start"}
        BY <1>1, <1>2, <2>1 DEF NfCall, NfCapped, NfDrained, LocalEnd, Free, Freed, NfRound, Arm
      <3>2. ~InDrain'
        BY <1>5, <3>1 DEF LoopPc
      <3> QED
        BY <1>11, <3>2
    <2>2. CASE LocalTake
      <3>1. pc[0] = "local"
        BY <2>2 DEF LocalTake
      <3>2. ~ N > 1
        BY <1>2, <1>4, <3>1 DEF Places
      <3> QED
        BY <1>5, <1>11, <3>2
    <2> QED
      BY <1>13, <2>1, <2>2
  <1>14. CASE NfSeed
    BY <1>10, <1>14 DEF NfSeed
  <1>15. CASE Start
    <2>1. /\ pc[0] = "start" /\ pc' = [pc EXCEPT ![0] = "pop"] /\ gen' = gen + 1
          /\ pending' = N /\ UNCHANGED <<seen, alive>>
      BY <1>15 DEF Start
    <2>2. pc'[0] = "pop" /\ \A w \in Helpers : pc'[w] = pc[w]
      BY <1>1, <1>2, <2>1
    <2>3. alive = N /\ spawned /\ ~InDrain
      BY <1>4, <2>1 DEF Places, InDrain, LoopPc
    <2>4. \A w \in Helpers : pc'[w] = "park" /\ seen'[w] # gen'
      <3> TAKE w \in Helpers
      <3>1. seen[w] = gen /\ pc[w] \notin LoopPc /\ pc[w] \notin {"exited", "unborn"}
        BY <1>4, <2>1, <2>3 DEF Places
      <3>2. pc[w] = "park"
        BY <1>1, <3>1 DEF HelperPc
      <3>3. gen # gen + 1
        BY <1>1
      <3> QED
        BY <2>1, <2>2, <3>1, <3>2, <3>3
    <2>5. Counting' = Worker /\ Staying' = Worker
      BY <1>2, <1>7, <2>2, <2>4 DEF BusyPc, LoopPc
    <2> QED
      BY <1>8, <2>1, <2>3, <2>5 DEF Counts
  <1>16. CASE DriverOut
    <2>1. PICK l \in {"join", "drained"} : pc' = [pc EXCEPT ![0] = l]
      BY <1>16 DEF DriverOut
    <2>2. pc[0] = "out" /\ UNCHANGED <<gen, seen, alive>> /\ pending' = pending - 1
      BY <1>16 DEF DriverOut
    <2>3. pc'[0] = l /\ \A w \in Worker \ {0} : pc'[w] = pc[w]
      BY <1>1, <1>2, <2>1
    <2>4. InDrain
      BY <1>2, <1>4, <2>2 DEF Places, InDrain, LoopPc
    <2>5. Counting' = Counting
      BY <1>6, <1>7, <2>2, <2>3 DEF BusyPc
    <2>6. Staying' = Staying \ {0} /\ 0 \in Staying
      BY <1>2, <1>6, <1>7, <2>2, <2>3 DEF LoopPc
    <2>7. Cardinality(Staying') = Cardinality(Staying) - 1
      BY <1>9, <2>6, CountOne
    <2> QED
      BY <1>4, <2>2, <2>4, <2>5, <2>7 DEF Counts
  <1>17. CASE DriverJoin
    <2>1. UNCHANGED <<gen, seen, alive, pending>>
      BY <1>17 DEF DriverJoin
    <2>2. CASE UNCHANGED pc
      BY <1>10, <2>1, <2>2
    <2>3. CASE pc' = [pc EXCEPT ![0] = "drained"]
      <3>1. pc'[0] = "drained"
        BY <1>1, <1>2, <2>3
      <3> QED
        BY <1>5, <1>11, <3>1 DEF LoopPc
    <2> QED
      BY <1>17, <2>2, <2>3 DEF DriverJoin
  <1>18. ASSUME NEW w \in Helpers, Park(w)
         PROVE  Counts'
    BY <1>10, <1>18 DEF Park
  <1>19. ASSUME NEW w \in Helpers, Wake(w)
         PROVE  Counts'
    <2>1. /\ pc[w] = "park" /\ gen # seen[w] /\ seen' = [seen EXCEPT ![w] = gen]
          /\ pc' = [pc EXCEPT ![w] = "pop"] /\ UNCHANGED <<gen, pending, alive>>
      BY <1>19 DEF Wake
    <2>2. /\ pc'[w] = "pop" /\ seen'[w] = gen
          /\ \A v \in Worker \ {w} : pc'[v] = pc[v] /\ seen'[v] = seen[v]
      BY <1>1, <1>2, <2>1
    <2>3. InDrain
      BY <1>2, <1>4, <2>1 DEF Places
    <2>4. w # 0 /\ w \in Worker
      BY <1>2
    <2>5. Counting' = Counting /\ Staying' = Staying
      BY <1>6, <1>7, <2>1, <2>2, <2>4 DEF BusyPc, LoopPc
    <2> QED
      BY <1>4, <2>1, <2>3, <2>5 DEF Counts
  <1>20. ASSUME NEW w \in Helpers, Quit(w)
         PROVE  Counts'
    <2>1. /\ pc[w] = "park" /\ shutdown /\ pc' = [pc EXCEPT ![w] = "exited"]
      BY <1>20 DEF Quit
    <2>2. pc'[0] \in {"free", "exited"}
      BY <1>1, <1>2, <1>4, <2>1 DEF Places
    <2> QED
      BY <1>5, <1>11, <2>2 DEF LoopPc
  <1>21. ASSUME NEW w \in Helpers, WorkerOut(w)
         PROVE  Counts'
    <2>1. /\ pc[w] = "out" /\ pc' = [pc EXCEPT ![w] = "park"] /\ pending' = pending - 1
          /\ UNCHANGED <<gen, seen, alive>>
      BY <1>21 DEF WorkerOut
    <2>2. InDrain /\ seen[w] = gen /\ w \in Worker
      BY <1>2, <1>4, <2>1 DEF Places, LoopPc
    <2>3. pc'[w] = "park" /\ \A v \in Worker \ {w} : pc'[v] = pc[v]
      BY <1>1, <2>1, <2>2
    <2>4. Counting' = Counting
      BY <1>6, <1>7, <2>1, <2>2, <2>3 DEF BusyPc
    <2>5. Staying' = Staying \ {w} /\ w \in Staying
      BY <1>6, <1>7, <2>1, <2>2, <2>3 DEF LoopPc
    <2>6. Cardinality(Staying') = Cardinality(Staying) - 1
      BY <1>9, <2>5, CountOne
    <2> QED
      BY <1>4, <2>1, <2>2, <2>4, <2>6 DEF Counts
  <1>22. CASE Spurious \/ UNCHANGED vars
    BY <1>10, <1>22 DEF Spurious, vars
  <1> QED
    BY <1>11, <1>12, <1>13, <1>14, <1>15, <1>16, <1>17, <1>18, <1>19, <1>20, <1>21, <1>22
       DEF Next, Driver, Helper, Terminated, Helpers

-----------------------------------------------------------------------------
(* Who may have something in its bag *)

LEMMA OwnedStep ==
  ASSUME TypeOK, Control, [Next]_vars
  PROVE  Owned'
  <1> USE DEF Goto, ctlVars, loopVars
  <1>1. /\ NfType
        /\ pc \in [Worker -> DriverPc \cup HelperPc] /\ pc[0] \in DriverPc
        /\ \A w \in Helpers : pc[w] \in HelperPc
        /\ bag \in [Worker -> Seq(Elem)]
    BY DEF TypeOK
  <1>2. /\ N \in Nat \ {0} /\ 0 \in Worker /\ Helpers \subseteq Worker /\ 0 \notin Helpers
        /\ Worker = Helpers \cup {0} /\ (N = 1 => Helpers = {})
    BY <1>1, SetupTypes DEF Worker, Helpers
  <1>3. N' = N /\ Worker' = Worker /\ Helpers' = Helpers
    BY <1>1, ConstantsKept
  <1>4. Places /\ Owned
    BY DEF Control
  <1>5. InDrain' <=> N > 1 /\ pc'[0] \in LoopPc \cup {"join"}
    BY <1>3 DEF InDrain
  <1>6. UNCHANGED <<pc, bag>> => Owned'
    BY <1>3, <1>4, <1>5 DEF Owned, InDrain
  <1>7. ASSUME UNCHANGED bag, \A w \in Helpers : pc'[w] = pc[w] \/ bag[w] = <<>>,
               pc'[0] = pc[0] \/ pc'[0] = "pop" \/ ~(N > 1 /\ pc'[0] \in LoopPc \cup {"join", "drained"})
               \/ bag[0] = <<>>
        PROVE  Owned'
    BY <1>3, <1>4, <1>5, <1>7 DEF Owned, InDrain, OwnPc
  <1>8. ASSUME NEW w \in Worker, Loop(w)
        PROVE  Owned'
    <2>1. PICK l : Moves(w, l)
      BY <1>8, LoopMoves
    <2>2. CASE N = 1
      BY <1>2, <1>3, <1>5, <2>2 DEF Owned
    <2>3. CASE N > 1
      <3>1. /\ pc[w] \in LoopPc /\ l \in LoopPc
            /\ pc'[w] = l /\ \A v \in Worker \ {w} : pc'[v] = pc[v]
            /\ \A v \in Worker \ {w} : bag[v] = <<>> => bag'[v] = <<>>
            /\ (bag[w] # <<>> => pc[w] \in OwnPc) => (bag'[w] # <<>> => l \in OwnPc)
        BY <1>1, <2>1, <2>3 DEF Moves
      <3>2. bag[w] # <<>> => pc[w] \in OwnPc
        BY <1>2, <1>4, <2>3, <3>1 DEF Owned, InDrain
      <3>3. bag'[w] # <<>> => pc'[w] \in OwnPc
        BY <3>1, <3>2
      <3> QED
        BY <1>2, <1>3, <1>4, <1>5, <2>3, <3>1, <3>3 DEF Owned, InDrain
    <2> QED
      BY <1>2, <2>2, <2>3
  <1>9. CASE NfCall \/ NfCapped \/ NfRound \/ NfDrained \/ Free \/ Freed \/ LocalEnd
    <2>1. UNCHANGED bag /\ \A w \in Helpers : pc'[w] = pc[w]
      BY <1>1, <1>2, <1>9 DEF NfCall, NfCapped, NfRound, NfDrained, Free, Freed, LocalEnd
    <2>2. CASE LocalEnd
      <3>1. ~ N > 1
        BY <1>2, <1>4, <2>2 DEF LocalEnd, Places
      <3> QED
        BY <1>7, <2>1, <3>1
    <2>3. CASE ~ LocalEnd
      <3>1. pc'[0] \in {"call", "seed", "free", "exited", "local", "arm"}
        BY <1>1, <1>2, <1>9, <2>3 DEF NfCall, NfCapped, NfDrained, Free, Freed, NfRound
      <3> QED
        BY <1>7, <2>1, <3>1 DEF LoopPc
    <2> QED
      BY <2>2, <2>3
  <1>10. CASE NfSeed
    <2>1. pc[0] = "seed" /\ UNCHANGED pc /\ \A w \in Helpers : bag'[w] = bag[w]
      BY <1>1, <1>2, <1>10 DEF NfSeed
    <2> QED
      BY <1>3, <1>4, <1>5, <2>1 DEF Owned, LoopPc
  <1>11. CASE LocalTake
    <2>1. N = 1
      BY <1>2, <1>4, <1>11 DEF LocalTake, Places
    <2> QED
      BY <1>2, <1>3, <1>5, <2>1 DEF Owned
  <1>12. CASE Arm
    <2>1. /\ UNCHANGED bag /\ pc[0] = "arm" /\ pc'[0] = "start"
          /\ \A w \in Helpers : pc'[w] = IF spawned THEN pc[w] ELSE "park"
      BY <1>2, <1>12 DEF Arm
    <2>2. ~spawned => \A w \in Helpers : pc[w] = "unborn"
      BY <1>4, <2>1 DEF Places
    <2>3. ~spawned => \A w \in Helpers : bag[w] = <<>>
      BY <1>4, <2>2 DEF Owned, OwnPc
    <2> QED
      BY <1>7, <2>1, <2>3 DEF LoopPc
  <1>13. CASE Start
    <2>1. UNCHANGED bag /\ pc'[0] = "pop" /\ \A w \in Helpers : pc'[w] = pc[w]
      BY <1>1, <1>2, <1>13 DEF Start
    <2> QED
      BY <1>7, <2>1
  <1>14. CASE DriverOut \/ DriverJoin
    <2>1. /\ UNCHANGED bag /\ pc[0] \in {"out", "join"}
          /\ \A w \in Helpers : pc'[w] = pc[w]
      BY <1>1, <1>2, <1>14 DEF DriverOut, DriverJoin
    <2>2. bag[0] = <<>>
      BY <1>2, <1>4, <2>1 DEF Owned, OwnPc, Places, InDrain, LoopPc
    <2> QED
      BY <1>7, <2>1, <2>2
  <1>15. ASSUME NEW w \in Helpers, Helper(w)
         PROVE  Owned'
    <2>1. CASE Park(w)
      BY <1>6, <2>1 DEF Park
    <2>2. CASE ~Park(w)
      <3>1. /\ UNCHANGED bag /\ pc[w] \in {"park", "out"}
            /\ \A v \in Worker \ {w} : pc'[v] = pc[v]
        BY <1>1, <1>2, <1>15, <2>2 DEF Helper, Wake, Quit, WorkerOut
      <3>2. bag[w] = <<>>
        BY <1>4, <3>1 DEF Owned, OwnPc
      <3> QED
        BY <1>2, <1>7, <3>1, <3>2
    <2> QED
      BY <2>1, <2>2
  <1>16. CASE Spurious \/ UNCHANGED vars
    BY <1>6, <1>16 DEF Spurious, vars
  <1> QED
    BY <1>8, <1>9, <1>10, <1>11, <1>12, <1>13, <1>14, <1>15, <1>16
       DEF Next, Driver, Terminated, Helpers

LEMMA ControlInit ==
  ASSUME Init
  PROVE  Control
  <1>1. NfType
    BY TypeInit DEF TypeOK
  <1>2. /\ N \in Nat \ {0} /\ 0 \in Worker /\ Helpers \subseteq Worker /\ 0 \notin Helpers
    BY <1>1, SetupTypes DEF Worker, Helpers
  <1>3. /\ pc[0] = "call" /\ \A w \in Helpers : pc[w] = "unborn" /\ seen[w] = gen /\ bag[w] = <<>>
        /\ pending = 0 /\ shutdown = FALSE /\ spawned = FALSE
    BY <1>2 DEF Init
  <1>4. ~InDrain
    BY <1>3 DEF InDrain, LoopPc
  <1> QED
    BY <1>3, <1>4 DEF Control, Places, Counts, Owned, LoopPc

\* Control is inductive: the counters count, whatever the interleaving.
THEOREM Controlled == Spec => [](TypeOK /\ Control)
  <1>1. Init => TypeOK /\ Control
    BY TypeInit, ControlInit
  <1>2. TypeOK /\ Control /\ [Next]_vars => TypeOK' /\ Control'
    BY TypeStep, PlacesStep, CountsStep, OwnedStep DEF Control
  <1> QED
    BY <1>1, <1>2, PTL DEF Spec

\* AliveCoversWork: when a worker reads alive = 0 and leaves the drain, no
\* redex is in a bag or in anybody's hands (wnf_pool_worker_loop).
THEOREM CountCoversWork == Spec => []AliveCoversWork
  <1>1. ASSUME TypeOK, Control
        PROVE  AliveCoversWork
    <2> SUFFICES ASSUME pending > 0, alive = 0, NEW w \in Worker
                 PROVE  bag[w] = <<>> /\ ~Busy(w)
      BY DEF AliveCoversWork
    <2>1. InDrain
      BY <1>1 DEF Control, Places
    <2>2. IsFiniteSet(Counting)
      BY <1>1, WorkerFinite, FS_Subset DEF TypeOK, Counting
    <2>3. Counting = {}
      BY <1>1, <2>1, <2>2, FS_EmptySet DEF Control, Counts
    <2>4. ~Busy(w)
      BY <2>3 DEF Counting
    <2>5. bag[w] = <<>>
      BY <1>1, <2>1, <2>4 DEF Control, Owned, OwnPc, Busy, Helpers
    <2> QED
      BY <2>4, <2>5
  <1> QED
    BY <1>1, Controlled, PTL

\* QuietBetweenDrains: when the driver is outside a drain, every helper is
\* parked, unborn or gone, so alive = n and the next seeds meet nobody.
THEOREM Quiet == Spec => []QuietBetweenDrains
  <1>1. ASSUME TypeOK, Control
        PROVE  QuietBetweenDrains
    <2> SUFFICES ASSUME pc[0] \in {"call", "seed", "arm", "start", "drained", "free"},
                        NEW w \in Worker \ {0}
                 PROVE  pc[w] \in {"unborn", "park", "exited"}
      BY DEF QuietBetweenDrains
    <2>1. ~InDrain
      BY DEF InDrain, LoopPc
    <2>2. w \in Helpers
      BY DEF Helpers
    <2>3. pc[w] \notin LoopPc /\ pc[w] \in HelperPc
      BY <1>1, <2>1, <2>2 DEF Control, Places, TypeOK
    <2> QED
      BY <2>3 DEF HelperPc
  <1> QED
    BY <1>1, Controlled, PTL

-----------------------------------------------------------------------------
(* The work of the pool *)

InHand(w) == IF pc[w] \in {"fire", "push"} THEN 1 ELSE 0

Net == [w \in Worker |-> fires[w] + Len(bag[w]) + InHand(w) - pushes[w]]

\* Entries come by pushes and go, one at a time, by being fired.
Balance == SumFunction(Net) = nf.left

-----------------------------------------------------------------------------
Holds(w, p) == \/ p \in ToSet(bag[w]) \/ p \in ToSet(todo[w])
               \/ pc[w] = "fire" /\ cur[w] = p

\* p is on its way to be fired.
Held(p) == p \in ToSet(nf.seeds) \/ \E w \in Worker : Holds(w, p)

\* The driver is in a round, after its seeds are in the bag.
InRound == pc[0] \notin {"call", "seed", "free", "exited"}

\* No seed of this call, or of this round if nothing fired in it, was dropped.
Covering ==
  /\ nf.call > 0 /\ ~Overflow
  /\ Session \/ pc[0] = "seed" \/ (InRound /\ nf.itrs = nf.before)

Missing == Owed(nf.call) \ nf.fired

Covered == Covering => \A p \in Missing : Held(p)

\* Successors are there to be pushed only in "push", seeds only in "seed"; a
\* local drain ends for want of entries or of budget.
Rounds ==
  /\ \A w \in Worker : pc[w] # "push" => todo[w] = <<>>
  /\ pc[0] # "seed" => nf.seeds = <<>>
  /\ InRound => nf.itrs >= nf.before
  /\ N = 1 /\ pc[0] = "drained" => bag[0] = <<>> \/ nf.budget <= 0

\* A call's redexes are not fired before it.
Dated == \A p \in Elem : p \in nf.fired \/ Held(p) => p[1] <= nf.call

Work == Balance /\ Rounds /\ Dated /\ Covered /\ NormalForm

-----------------------------------------------------------------------------
(* The steps by what they do to the entries *)

\* The step moves no entry and does not start or end a round.
Rests ==
  /\ UNCHANGED <<bag, todo, cur, fires, pushes, nf>>
  /\ \A w \in Worker : pc[w] \in {"fire", "push"} \/ pc'[w] \in {"fire", "push"}
                         => pc'[w] = pc[w]
  /\ pc[0] \in {"call", "free", "exited"} => pc'[0] \in {"call", "free", "exited"}
  /\ pc'[0] = "seed" => pc[0] = "seed"
  /\ pc[0] = "seed" => pc'[0] = "seed" \/ (pc'[0] = "call" /\ nf.seeds = <<>>)
  /\ pc'[0] = "call" => pc[0] = "call" \/ nf.total >= FireCap
  /\ N = 1 /\ pc'[0] = "drained" => pc[0] = "drained" \/ nf.budget <= 0 \/ bag[0] = <<>>

\* wnf_pool_pop, in the loop and in wnf_pool_drain_local.
Pops(w) ==
  /\ pc[w] \in {"pop", "local"} /\ bag[w] # <<>>
  /\ bag' = [bag EXCEPT ![w] = Front(@)]
  /\ cur' = [cur EXCEPT ![w] = Last(bag[w])]
  /\ pc' = [pc EXCEPT ![w] = "fire"]
  /\ UNCHANGED <<todo, fires, pushes, nf>>

LEMMA Basics ==
  ASSUME TypeOK, [Next]_vars
  PROVE  /\ NfType
         /\ N \in Nat \ {0} /\ 0 \in Worker /\ IsFiniteSet(Worker)
         /\ Helpers \subseteq Worker /\ 0 \notin Helpers
         /\ Worker = Helpers \cup {0} /\ (N = 1 => Helpers = {} /\ Worker = {0})
         /\ N' = N /\ Worker' = Worker /\ Helpers' = Helpers /\ Elem' = Elem
         /\ pc \in [Worker -> DriverPc \cup HelperPc]
         /\ \A w \in Helpers : pc[w] \in HelperPc
         /\ bag \in [Worker -> Seq(Elem)] /\ todo \in [Worker -> Seq(Elem)]
         /\ cur \in [Worker -> Elem \cup {None}]
         /\ \A w \in Worker : pc[w] = "fire" => cur[w] \in Elem
  <1>1. NfType
    BY DEF TypeOK
  <1>2. /\ N \in Nat \ {0} /\ 0 \in Worker
        /\ Helpers \subseteq Worker /\ 0 \notin Helpers
        /\ Worker = Helpers \cup {0} /\ (N = 1 => Helpers = {} /\ Worker = {0})
    BY <1>1, SetupTypes DEF Worker, Helpers
  <1> QED
    BY <1>1, <1>2, ConstantsKept, WorkerFinite DEF TypeOK

LEMMA Kinds ==
  ASSUME TypeOK, Control, [Next]_vars
  PROVE  \/ Rests \/ NfCall \/ NfSeed \/ NfRound \/ NfDrained
         \/ \E w \in Worker : Pops(w) \/ Steal(w) \/ Fire(w) \/ Push(w) \/ Fired(w)
  <1> USE DEF Goto, Take, ctlVars, loopVars
  <1>1. /\ 0 \in Worker /\ Helpers \subseteq Worker /\ 0 \notin Helpers
        /\ Worker = Helpers \cup {0} /\ N \in Nat \ {0}
        /\ pc \in [Worker -> DriverPc \cup HelperPc]
        /\ \A w \in Helpers : pc[w] \in HelperPc
    BY Basics
  <1>2. Places
    BY DEF Control
  <1>3. UNCHANGED <<pc, bag, todo, cur, fires, pushes, nf>> => Rests
    BY DEF Rests
  <1>4. ASSUME NEW w \in Worker, NEW l \in LoopPc \ {"fire", "push"},
               pc[w] \in (LoopPc \cup {"park", "start"}) \ {"fire", "push"},
               pc' = [pc EXCEPT ![w] = l],
               UNCHANGED <<bag, todo, cur, fires, pushes, nf>>
        PROVE  Rests
    <2>1. pc'[w] = l /\ \A v \in Worker \ {w} : pc'[v] = pc[v]
      BY <1>1, <1>4
    <2> QED
      BY <1>1, <1>4, <2>1 DEF Rests, LoopPc
  <1>5. ASSUME NEW w \in Worker, PopMiss(w) \/ StealMiss(w) \/ Leave(w) \/ SpinSome(w)
                                 \/ Rejoin(w) \/ Check(w)
        PROVE  Rests
    BY <1>4, <1>5 DEF PopMiss, StealMiss, Leave, SpinSome, Rejoin, Check, LoopPc
  <1>6. ASSUME NEW w \in Worker, StealNext(w)
        PROVE  Rests
    BY <1>3, <1>6 DEF StealNext
  <1>7. ASSUME NEW w \in Worker, SpinNone(w)
        PROVE  Rests
    <2>1. CASE UNCHANGED pc
      BY <1>3, <1>7, <2>1 DEF SpinNone
    <2>2. CASE pc' = [pc EXCEPT ![w] = "check"]
      BY <1>4, <1>7, <2>2 DEF SpinNone, LoopPc
    <2> QED
      BY <1>7, <2>1, <2>2 DEF SpinNone
  <1>8. ASSUME NEW w \in Worker, Pop(w)
        PROVE  Pops(w)
    BY <1>8 DEF Pop, Pops
  <1>9. CASE LocalTake
    <2>1. Pops(0)
      BY <1>9 DEF LocalTake, Pops
    <2> QED
      BY <1>1, <2>1
  <1>10. CASE LocalEnd \/ NfCapped \/ Free \/ Freed \/ DriverOut
    <2>1. /\ UNCHANGED <<bag, todo, cur, fires, pushes, nf>>
          /\ \A w \in Helpers : pc'[w] = pc[w]
      BY <1>1, <1>10 DEF LocalEnd, NfCapped, Free, Freed, DriverOut
    <2>2. /\ pc[0] \notin {"fire", "push"} /\ pc'[0] \notin {"fire", "push", "seed"}
          /\ pc[0] \in {"call", "free", "exited"} => pc'[0] \in {"free", "exited"}
          /\ pc'[0] = "call" => nf.total >= FireCap
          /\ pc[0] = "seed" => pc'[0] = "call" /\ nf.seeds = <<>>
      BY <1>1, <1>10 DEF LocalEnd, NfCapped, Free, Freed, DriverOut
    <2>3. N = 1 /\ pc'[0] = "drained" => nf.budget <= 0 \/ bag[0] = <<>>
      <3>1. CASE LocalEnd
        BY <3>1 DEF LocalEnd
      <3>2. CASE DriverOut
        <4>1. N # 1
          BY <1>2, <3>2 DEF DriverOut, Places
        <4> QED
          BY <4>1
      <3>3. CASE NfCapped \/ Free \/ Freed
        BY <1>1, <3>3 DEF NfCapped, Free, Freed
      <3> QED
        BY <1>10, <3>1, <3>2, <3>3
    <2> QED
      BY <1>1, <2>1, <2>2, <2>3 DEF Rests
  <1>11. CASE Arm
    <2>1. /\ UNCHANGED <<bag, todo, cur, fires, pushes, nf>>
          /\ pc[0] = "arm" /\ pc'[0] = "start"
          /\ \A w \in Helpers : pc'[w] = IF spawned THEN pc[w] ELSE "park"
      BY <1>1, <1>11 DEF Arm
    <2>2. \A w \in Helpers : pc[w] \notin LoopPc
      BY <1>2, <2>1 DEF Places, InDrain, LoopPc
    <2> QED
      BY <1>1, <2>1, <2>2 DEF Rests, LoopPc
  <1>12. CASE Start
    BY <1>1, <1>4, <1>12 DEF Start, LoopPc
  <1>13. CASE DriverJoin
    <2>1. CASE UNCHANGED pc
      BY <1>3, <1>13, <2>1 DEF DriverJoin
    <2>2. CASE pc' = [pc EXCEPT ![0] = "drained"]
      <3>1. /\ UNCHANGED <<bag, todo, cur, fires, pushes, nf>> /\ pc[0] = "join"
        BY <1>13 DEF DriverJoin
      <3>2. pc'[0] = "drained" /\ \A w \in Helpers : pc'[w] = pc[w]
        BY <1>1, <2>2
      <3>3. N # 1
        BY <1>2, <3>1 DEF Places
      <3> QED
        BY <1>1, <3>1, <3>2, <3>3 DEF Rests
    <2> QED
      BY <1>13, <2>1, <2>2 DEF DriverJoin
  <1>14. ASSUME NEW w \in Helpers, Helper(w)
         PROVE  Rests
    <2>1. CASE Park(w)
      BY <1>3, <2>1 DEF Park
    <2>2. CASE Wake(w)
      BY <1>1, <1>4, <2>2 DEF Wake, LoopPc
    <2>3. CASE Quit(w) \/ WorkerOut(w)
      <3>1. /\ UNCHANGED <<bag, todo, cur, fires, pushes, nf>> /\ pc[w] \in {"park", "out"}
            /\ pc'[w] \in {"exited", "park"} /\ \A v \in Worker \ {w} : pc'[v] = pc[v]
        BY <1>1, <2>3 DEF Quit, WorkerOut
      <3> QED
        BY <1>1, <3>1 DEF Rests
    <2> QED
      BY <1>14, <2>1, <2>2, <2>3 DEF Helper
  <1>15. CASE Spurious \/ UNCHANGED vars
    BY <1>3, <1>15 DEF Spurious, vars
  <1> QED
    BY <1>5, <1>6, <1>7, <1>8, <1>9, <1>10, <1>11, <1>12, <1>13, <1>14, <1>15
       DEF Next, Driver, Loop, Terminated, Helpers

-----------------------------------------------------------------------------
(* No entry is lost and none is counted twice *)

LEMMA BagLengths ==
  ASSUME TypeOK, NEW w \in Worker
  PROVE  /\ bag[w] \in Seq(Elem) /\ Len(bag[w]) \in Nat
         /\ bag[w] = <<>> <=> Len(bag[w]) = 0
         /\ bag[w] # <<>> => /\ Len(Front(bag[w])) = Len(bag[w]) - 1
                             /\ Len(Tail(bag[w])) = Len(bag[w]) - 1
         /\ \A x \in Elem : Len(Append(bag[w], x)) = Len(bag[w]) + 1
  <1>1. bag[w] \in Seq(Elem)
    BY DEF TypeOK
  <1> QED
    BY <1>1, ToSetIs, FrontLastSet, HeadTailSet, AppendSet

LEMMA BalanceStep ==
  ASSUME TypeOK, Control, Work, [Next]_vars
  PROVE  Balance'
  <1> USE DEF Goto, ctlVars, loopVars
  <1>1. /\ 0 \in Worker /\ Helpers \subseteq Worker /\ 0 \notin Helpers
        /\ Worker = Helpers \cup {0} /\ IsFiniteSet(Worker) /\ Worker' = Worker
        /\ pc \in [Worker -> DriverPc \cup HelperPc]
        /\ bag \in [Worker -> Seq(Elem)] /\ todo \in [Worker -> Seq(Elem)]
    BY Basics
  <1>2. /\ fires \in [Worker -> Nat] /\ pushes \in [Worker -> Nat]
        /\ fires' \in [Worker -> Nat] /\ pushes' \in [Worker -> Nat]
        /\ nf.seeds \in Seq(Elem)
    <2>1. TypeOK'
      BY TypeStep
    <2> QED
      BY <1>1, <2>1 DEF TypeOK, NfType
  <1> DEFINE at(w)  == fires[w] + Len(bag[w]) + InHand(w) - pushes[w]
             hand(w) == IF pc'[w] \in {"fire", "push"} THEN 1 ELSE 0
             now(w) == fires'[w] + Len(bag'[w]) + hand(w) - pushes'[w]
             f == [w \in Worker |-> at(w)]
             h == [w \in Worker |-> now(w)]
  <1>3. SumFunction(f) = nf.left
    BY DEF Work, Balance, Net
  <1>4. Balance' <=> SumFunction(h) = nf'.left
    BY <1>1 DEF Balance, Net, InHand
  <1>5. \A w \in Worker : at(w) \in Int /\ now(w) \in Int
    <2> TAKE w \in Worker
    <2>1. Len(bag[w]) \in Nat
      BY BagLengths
    <2>2. Len(bag'[w]) \in Nat
      <3>1. bag'[w] \in Seq(Elem')
        BY <1>1, TypeStep DEF TypeOK
      <3> QED
        BY <3>1, LenProperties
    <2>3. /\ fires[w] \in Nat /\ pushes[w] \in Nat
          /\ fires'[w] \in Nat /\ pushes'[w] \in Nat
      BY <1>2
    <2>4. InHand(w) \in {0, 1} /\ hand(w) \in {0, 1}
      BY DEF InHand
    <2> HIDE DEF hand
    <2> QED
      <3>1. \A a, b, c, d \in Int : a + b + c - d \in Int
        OBVIOUS
      <3>2. /\ fires[w] \in Int /\ Len(bag[w]) \in Int /\ InHand(w) \in Int /\ pushes[w] \in Int
            /\ fires'[w] \in Int /\ Len(bag'[w]) \in Int /\ hand(w) \in Int /\ pushes'[w] \in Int
        BY ONLY <2>1, <2>2, <2>3, <2>4
      <3> QED
        BY ONLY <3>1, <3>2
  <1>6. (\A w \in Worker : now(w) = at(w)) /\ nf'.left = nf.left => Balance'
    <2> HIDE DEF at, now
    <2> QED
      BY <1>3, <1>4
  <1>7. \A w \in Worker : /\ Len(bag[w]) \in Nat
                          /\ bag[w] # <<>> => /\ Len(Front(bag[w])) = Len(bag[w]) - 1
                                              /\ Len(Tail(bag[w])) = Len(bag[w]) - 1
                          /\ \A x \in Elem : Len(Append(bag[w], x)) = Len(bag[w]) + 1
    BY BagLengths
  <1>8. NfType
    BY DEF TypeOK
  <1>9. /\ IsFiniteSet(Worker)
        /\ \A w \in Worker : fires[w] \in Int /\ pushes[w] \in Int /\ Len(bag[w]) \in Int
    BY <1>1, <1>2, <1>7
  <1>10. CASE Rests
    <2>1. \A w \in Worker : now(w) = at(w)
      BY <1>10 DEF Rests, InHand
    <2> QED
      BY <1>6, <1>10, <2>1 DEF Rests
  <1>11. CASE NfRound \/ NfDrained
    <2>1. UNCHANGED <<bag, fires, pushes>> /\ nf'.left = nf.left
      BY <1>8, <1>11 DEF NfRound, NfDrained, NfType
    <2>2. /\ pc[0] \notin {"fire", "push"} /\ pc'[0] \notin {"fire", "push"}
          /\ \A w \in Helpers : pc'[w] = pc[w]
      BY <1>1, <1>11 DEF NfRound, NfDrained
    <2>3. \A w \in Worker : now(w) = at(w)
      BY <1>1, <2>1, <2>2 DEF InHand
    <2> QED
      BY <1>6, <2>1, <2>3
  <1>12. CASE NfSeed
    <2>1. /\ UNCHANGED <<pc, fires>> /\ nf'.left = nf.left
          /\ \A w \in Worker \ {0} : bag'[w] = bag[w] /\ pushes'[w] = pushes[w]
          /\ pushes'[0] = pushes[0] + 1 /\ bag'[0] = Append(bag[0], Head(nf.seeds))
      BY <1>1, <1>2, <1>8, <1>12 DEF NfSeed, NfType
    <2>2. Head(nf.seeds) \in Elem
      BY <1>2, <1>12, HeadTailSet DEF NfSeed
    <2>3. Len(bag'[0]) = Len(bag[0]) + 1 /\ Len(bag[0]) \in Nat
      BY <1>1, <1>7, <2>1, <2>2
    <2>4. now(0) = at(0)
      <3>1. fires[0] \in Int /\ pushes[0] \in Int /\ Len(bag[0]) \in Int
        BY <1>1, <1>9
      <3>2. hand(0) = InHand(0) /\ InHand(0) \in Int
        BY <2>1 DEF InHand
      <3>3. fires'[0] = fires[0] /\ pushes'[0] = pushes[0] + 1
        BY <2>1
      <3> HIDE DEF hand
      <3> QED
        BY <2>3, <3>1, <3>2, <3>3
    <2>5. \A w \in Worker \ {0} : now(w) = at(w)
      BY <2>1 DEF InHand
    <2> QED
      BY <1>6, <2>1, <2>4, <2>5
  <1>13. CASE NfCall
    <2>1. /\ \A w \in Worker : fires'[w] = 0 /\ pushes'[w] = 0
          /\ UNCHANGED bag /\ nf'.left = Len(bag[0])
          /\ pc[0] = "call" /\ pc'[0] = "seed" /\ \A w \in Helpers : pc'[w] = pc[w]
      BY <1>1, <1>8, <1>13 DEF NfCall, NfType
    <2>2. \A w \in Helpers : pc[w] \notin LoopPc /\ bag[w] = <<>>
      BY <2>1 DEF Control, Places, Owned, InDrain, LoopPc, OwnPc
    <2>3. \A w \in Helpers : Len(bag[w]) = 0
      BY <1>1, <2>2, BagLengths
    <2>4. \A w \in Helpers : now(w) = 0
      BY <1>1, <2>1, <2>2, <2>3 DEF LoopPc
    <2>5. now(0) = Len(bag[0])
      BY <1>1, <1>7, <2>1
    <2> DEFINE z == [w \in Worker |-> 0]
    <2>6. SumFunction(z) = 0
      <3>1. z \in [Worker -> Int] /\ \A v \in Worker : z[v] = 0
        OBVIOUS
      <3> HIDE DEF z
      <3> QED
        BY <1>1, <3>1, SumZero
    <2>7. SumFunction(h) = SumFunction(z) + h[0] - z[0]
      <3>1. z \in [Worker -> Int] /\ h \in [Worker -> Int]
        BY <1>5
      <3>2. \A v \in Worker \ {0} : h[v] = z[v]
        BY <1>1, <2>4
      <3>3. IsFiniteSet(Worker) /\ 0 \in Worker
        BY <1>1
      <3> HIDE DEF z, h
      <3> QED
        BY ONLY <3>1, <3>2, <3>3, SumUpdate
    <2>8. h[0] = Len(bag[0]) /\ z[0] = 0 /\ Len(bag[0]) \in Nat
      BY <1>1, <1>7, <2>5
    <2>9. SumFunction(h) = Len(bag[0])
      <3> HIDE DEF z, h
      <3> QED
        BY <2>6, <2>7, <2>8
    <2> QED
      BY <1>4, <2>1, <2>9
  <1>14. ASSUME NEW w \in Worker, Pops(w)
         PROVE  Balance'
    <2>1. /\ UNCHANGED <<fires, pushes, nf>> /\ pc[w] \notin {"fire", "push"} /\ pc'[w] = "fire"
          /\ \A v \in Worker \ {w} : bag'[v] = bag[v] /\ pc'[v] = pc[v]
          /\ Len(bag'[w]) = Len(bag[w]) - 1
      BY <1>1, <1>7, <1>14 DEF Pops
    <2>2. now(w) = at(w)
      <3>1. fires[w] \in Int /\ pushes[w] \in Int /\ Len(bag[w]) \in Int
        BY <1>9
      <3>2. hand(w) = 1 /\ InHand(w) = 0
        BY <2>1 DEF InHand
      <3>3. fires'[w] = fires[w] /\ pushes'[w] = pushes[w]
        BY <2>1
      <3> HIDE DEF hand
      <3> QED
        BY <2>1, <3>1, <3>2, <3>3
    <2>3. \A v \in Worker \ {w} : now(v) = at(v)
      BY <2>1 DEF InHand
    <2> QED
      BY <1>6, <2>1, <2>2, <2>3
  <1>15. ASSUME NEW w \in Worker, Steal(w)
         PROVE  Balance'
    <2> DEFINE v == Victim(w, k[w])
    <2>1. v \in Worker
      <3>1. k[w] \in Nat /\ cursor[w] \in Nat
        <4>1. k[w] \in 1 .. N /\ cursor[w] \in Worker
          BY DEF TypeOK
        <4> QED
          BY <1>8, <4>1, SetupTypes
      <3> QED
        BY <1>8, <3>1, WorkerModulo DEF Victim
    <2>2. /\ v # w /\ bag[v] # <<>> /\ bag' = [bag EXCEPT ![v] = Tail(@)]
          /\ pc[w] = "steal" /\ pc' = [pc EXCEPT ![w] = "fire"]
          /\ UNCHANGED <<fires, pushes, nf>>
      BY <1>15 DEF Steal, Take
    <2> HIDE DEF v
    <2>3. /\ \A u \in Worker \ {w} : pc'[u] = pc[u]
          /\ \A u \in Worker \ {v} : bag'[u] = bag[u]
          /\ pc'[w] = "fire" /\ Len(bag'[v]) = Len(bag[v]) - 1
      BY <1>1, <1>7, <2>1, <2>2
    <2>4. now(w) = at(w) + 1
      BY <1>2, <1>7, <2>2, <2>3 DEF InHand
    <2>5. now(v) = at(v) - 1
      BY <1>2, <1>7, <2>1, <2>2, <2>3 DEF InHand
    <2>6. \A u \in Worker \ {v, w} : now(u) = at(u)
      BY <2>2, <2>3 DEF InHand
    <2> HIDE DEF at, now
    <2> DEFINE g == [u \in Worker |-> IF u = w THEN now(w) ELSE at(u)]
    <2>7. /\ f \in [Worker -> Int] /\ g \in [Worker -> Int] /\ h \in [Worker -> Int]
          /\ \A u \in Worker \ {w} : g[u] = f[u]
          /\ g[w] = f[w] + 1
          /\ \A u \in Worker \ {v} : h[u] = g[u]
          /\ h[v] = g[v] - 1
          /\ g[v] \in Int /\ f[w] \in Int
      <3>1. /\ f \in [Worker -> Int] /\ g \in [Worker -> Int] /\ h \in [Worker -> Int]
            /\ \A u \in Worker \ {w} : g[u] = f[u]
        BY <1>5
      <3>2. g[w] = f[w] + 1
        BY <2>4
      <3>3. \A u \in Worker \ {v} : h[u] = g[u]
        BY <2>6
      <3>4. h[v] = g[v] - 1
        BY <2>1, <2>2, <2>5
      <3>5. g[v] \in Int /\ f[w] \in Int
        BY <2>1, <3>1
      <3> QED
        BY <3>1, <3>2, <3>3, <3>4, <3>5
    <2> HIDE DEF f, g, h
    <2>12. IsFiniteSet(Worker)
      BY <1>9
    <2>8. SumFunction(g) = SumFunction(f) + g[w] - f[w]
      <3>1. f \in [Worker -> Int] /\ g \in [Worker -> Int] /\ \A u \in Worker \ {w} : g[u] = f[u]
        BY ONLY <2>7
      <3> QED
        BY ONLY <3>1, <2>12, SumUpdate, w \in Worker
    <2>9. SumFunction(h) = SumFunction(g) + h[v] - g[v]
      <3>1. g \in [Worker -> Int] /\ h \in [Worker -> Int] /\ \A u \in Worker \ {v} : h[u] = g[u]
        BY ONLY <2>7
      <3> QED
        BY ONLY <2>1, <3>1, <2>12, SumUpdate
    <2>10. SumFunction(f) \in Int /\ SumFunction(g) \in Int
      BY <1>1, <2>7, SumType
    <2>11. SumFunction(h) = SumFunction(f)
      BY <2>7, <2>8, <2>9, <2>10
    <2> QED
      BY <1>3, <1>4, <2>2, <2>11
  <1>16. ASSUME NEW w \in Worker, Fire(w)
         PROVE  Balance'
    <2>1. UNCHANGED <<bag, fires, pushes>> /\ nf'.left = nf.left /\ pc[w] = "fire"
          /\ pc'[w] = "push" /\ \A v \in Worker \ {w} : pc'[v] = pc[v]
      BY <1>1, <1>8, <1>16 DEF Fire, NfType
    <2>2. \A v \in Worker : now(v) = at(v)
      BY <2>1 DEF InHand
    <2> QED
      BY <1>6, <2>1, <2>2
  <1>17. ASSUME NEW w \in Worker, Push(w)
         PROVE  Balance'
    <2>1. /\ UNCHANGED <<pc, fires, nf>>
          /\ \A v \in Worker \ {w} : bag'[v] = bag[v] /\ pushes'[v] = pushes[v]
          /\ pushes'[w] = pushes[w] + 1 /\ bag'[w] = Append(bag[w], Head(todo[w]))
      BY <1>1, <1>2, <1>17 DEF Push
    <2>2. Head(todo[w]) \in Elem
      BY <1>1, <1>17, HeadTailSet DEF Push
    <2>3. Len(bag'[w]) = Len(bag[w]) + 1 /\ Len(bag[w]) \in Nat
      BY <1>7, <2>1, <2>2
    <2>4. now(w) = at(w)
      <3>1. fires[w] \in Int /\ pushes[w] \in Int /\ Len(bag[w]) \in Int
        BY <1>9
      <3>2. hand(w) = InHand(w) /\ InHand(w) \in Int
        BY <2>1 DEF InHand
      <3>3. fires'[w] = fires[w]
        BY <2>1
      <3> HIDE DEF hand
      <3> QED
        BY <2>1, <2>3, <3>1, <3>2, <3>3
    <2>5. \A v \in Worker \ {w} : now(v) = at(v)
      BY <2>1 DEF InHand
    <2> QED
      BY <1>6, <2>1, <2>4, <2>5
  <1>18. ASSUME NEW w \in Worker, Fired(w)
         PROVE  Balance'
    <2>1. /\ UNCHANGED <<bag, pushes>> /\ nf'.left = nf.left /\ fires'[w] = fires[w] + 1
          /\ pc[w] = "push" /\ pc'[w] \in {"local", "pop"}
          /\ \A v \in Worker \ {w} : fires'[v] = fires[v] /\ pc'[v] = pc[v]
      BY <1>1, <1>2, <1>8, <1>18 DEF Fired, NfType
    <2>2. now(w) = at(w)
      <3>1. fires[w] \in Int /\ pushes[w] \in Int /\ Len(bag[w]) \in Int
        BY <1>9
      <3>2. hand(w) = 0 /\ InHand(w) = 1
        BY <2>1 DEF InHand
      <3>3. bag'[w] = bag[w] /\ pushes'[w] = pushes[w]
        BY <2>1
      <3> HIDE DEF hand
      <3> QED
        BY <2>1, <3>1, <3>2, <3>3
    <2>3. \A v \in Worker \ {w} : now(v) = at(v)
      BY <2>1 DEF InHand
    <2> QED
      BY <1>6, <2>1, <2>2, <2>3
  <1> QED
    BY <1>10, <1>11, <1>12, <1>13, <1>14, <1>15, <1>16, <1>17, <1>18, Kinds

-----------------------------------------------------------------------------
(* No redex is forgotten *)

\* An entry taken, pushed or fired stays held by whoever has it; only Fire
\* and the start of a round change what is held.
LEMMA HeldKept ==
  ASSUME TypeOK, Control, Work, [Next]_vars,
         \/ Rests \/ NfSeed \/ NfRound
         \/ \E w \in Worker : Pops(w) \/ Steal(w) \/ Push(w) \/ Fired(w)
  PROVE  \A p : Held(p)' <=> Held(p)
  <1> USE DEF Goto, ctlVars, loopVars
  <1> DEFINE new(w, p) == \/ p \in ToSet(bag'[w]) \/ p \in ToSet(todo'[w])
                          \/ pc'[w] = "fire" /\ cur'[w] = p
  <1>1. /\ 0 \in Worker /\ Helpers \subseteq Worker /\ 0 \notin Helpers
        /\ Worker = Helpers \cup {0} /\ Worker' = Worker
        /\ pc \in [Worker -> DriverPc \cup HelperPc]
        /\ bag \in [Worker -> Seq(Elem)] /\ todo \in [Worker -> Seq(Elem)]
        /\ cur \in [Worker -> Elem \cup {None}]
    BY Basics
  <1>2. \A p : Held(p)' <=> p \in ToSet(nf'.seeds) \/ \E w \in Worker : new(w, p)
    BY <1>1 DEF Held, Holds
  <1>3. (\A p : \A w \in Worker : new(w, p) <=> Holds(w, p)) /\ nf'.seeds = nf.seeds
        => \A p : Held(p)' <=> Held(p)
    <2> HIDE DEF new
    <2> QED
      BY <1>2 DEF Held
  <1>4. NfType /\ nf.seeds \in Seq(Elem)
    BY DEF TypeOK, NfType
  <1>5. \A w \in Worker : pc[w] # "push" => todo[w] = <<>>
    BY DEF Work, Rounds
  <1>6. ToSet(<<>>) = {}
    BY EmptySeq, ToSetIs
  <1>7. CASE Rests
    BY <1>3, <1>7 DEF Rests, Holds
  <1>8. CASE NfRound
    <2>1. /\ UNCHANGED <<bag, todo, cur>> /\ nf'.seeds = nf.seeds
          /\ pc[0] = "seed" /\ pc'[0] # "fire" /\ \A w \in Helpers : pc'[w] = pc[w]
      BY <1>1, <1>4, <1>8 DEF NfRound, NfType
    <2> QED
      BY <1>1, <1>3, <2>1 DEF Holds
  <1>9. CASE NfSeed
    <2> DEFINE x == Head(nf.seeds)
    <2>1. /\ UNCHANGED <<pc, todo, cur>> /\ nf'.seeds = Tail(nf.seeds) /\ nf.seeds # <<>>
          /\ bag'[0] = Append(bag[0], x) /\ \A w \in Worker \ {0} : bag'[w] = bag[w]
      BY <1>1, <1>4, <1>9 DEF NfSeed, NfType
    <2>2. x \in Elem /\ ToSet(nf.seeds) = ToSet(nf'.seeds) \cup {x}
      BY <1>4, <2>1, HeadTailSet
    <2>3. ToSet(bag'[0]) = ToSet(bag[0]) \cup {x}
      <3> HIDE DEF x
      <3> QED
        BY <1>1, <2>1, <2>2, AppendSet
    <2> HIDE DEF x
    <2>4. \A p : new(0, p) <=> Holds(0, p) \/ p = x
      BY <2>1, <2>3 DEF Holds
    <2>5. \A p : \A w \in Worker \ {0} : new(w, p) <=> Holds(w, p)
      BY <2>1 DEF Holds
    <2> HIDE DEF new
    <2> QED
      BY <1>1, <1>2, <2>2, <2>4, <2>5 DEF Held
  <1>10. ASSUME NEW w \in Worker, Pops(w)
         PROVE  \A p : Held(p)' <=> Held(p)
    <2>1. /\ UNCHANGED <<todo, nf>> /\ pc[w] # "fire" /\ pc'[w] = "fire" /\ bag[w] # <<>>
          /\ bag'[w] = Front(bag[w]) /\ cur'[w] = Last(bag[w])
          /\ \A v \in Worker \ {w} : bag'[v] = bag[v] /\ pc'[v] = pc[v] /\ cur'[v] = cur[v]
      BY <1>1, <1>10 DEF Pops
    <2>2. ToSet(bag[w]) = ToSet(bag'[w]) \cup {cur'[w]}
      <3>1. bag[w] \in Seq(Elem) /\ bag[w] # <<>>
        BY <1>1, <2>1
      <3>2. ToSet(bag[w]) = ToSet(Front(bag[w])) \cup {Last(bag[w])}
        BY <3>1, FrontLastSet
      <3> QED
        BY <2>1, <3>2
    <2>3. \A p : new(w, p) <=> Holds(w, p)
      BY <2>1, <2>2 DEF Holds
    <2>4. \A p : \A v \in Worker \ {w} : new(v, p) <=> Holds(v, p)
      BY <2>1 DEF Holds
    <2> HIDE DEF new
    <2> QED
      BY <1>3, <2>1, <2>3, <2>4
  <1>11. ASSUME NEW w \in Worker, Steal(w)
         PROVE  \A p : Held(p)' <=> Held(p)
    <2> DEFINE v == Victim(w, k[w])
    <2>1. v \in Worker
      <3>1. k[w] \in Nat /\ cursor[w] \in Nat
        <4>1. k[w] \in 1 .. N /\ cursor[w] \in Worker
          BY DEF TypeOK
        <4> QED
          BY <1>4, <4>1, SetupTypes
      <3> QED
        BY <1>4, <3>1, WorkerModulo DEF Victim
    <2>2. /\ v # w /\ bag[v] # <<>> /\ bag' = [bag EXCEPT ![v] = Tail(@)]
          /\ pc[w] = "steal" /\ pc' = [pc EXCEPT ![w] = "fire"]
          /\ cur' = [cur EXCEPT ![w] = Head(bag[v])] /\ UNCHANGED <<todo, nf>>
      BY <1>11 DEF Steal, Take
    <2> HIDE DEF v
    <2>3. /\ \A u \in Worker \ {w} : pc'[u] = pc[u] /\ cur'[u] = cur[u]
          /\ \A u \in Worker \ {v} : bag'[u] = bag[u]
          /\ pc'[w] = "fire" /\ cur'[w] = Head(bag[v]) /\ bag'[v] = Tail(bag[v])
      BY <1>1, <2>1, <2>2
    <2>4. ToSet(bag[v]) = ToSet(bag'[v]) \cup {cur'[w]}
      BY <1>1, <2>1, <2>2, <2>3, HeadTailSet
    <2>5. \A p : new(w, p) <=> Holds(w, p) \/ p = cur'[w]
      BY <2>2, <2>3 DEF Holds
    <2>6. \A p : Holds(v, p) <=> new(v, p) \/ p = cur'[w]
      BY <2>1, <2>2, <2>3, <2>4 DEF Holds
    <2>7. \A p : \A u \in Worker \ {v, w} : new(u, p) <=> Holds(u, p)
      BY <2>2, <2>3 DEF Holds
    <2> HIDE DEF new
    <2>8. \A p : (\E u \in Worker : new(u, p)) <=> \E u \in Worker : Holds(u, p)
      BY <2>1, <2>5, <2>6, <2>7
    <2> QED
      BY <1>2, <2>2, <2>8 DEF Held
  <1>12. ASSUME NEW w \in Worker, Push(w)
         PROVE  \A p : Held(p)' <=> Held(p)
    <2> DEFINE x == Head(todo[w])
    <2>1. /\ UNCHANGED <<pc, cur, nf>> /\ todo[w] # <<>> /\ todo'[w] = Tail(todo[w])
          /\ bag'[w] = Append(bag[w], x)
          /\ \A v \in Worker \ {w} : bag'[v] = bag[v] /\ todo'[v] = todo[v]
      BY <1>1, <1>12 DEF Push
    <2>2. x \in Elem /\ ToSet(todo[w]) = ToSet(todo'[w]) \cup {x}
      BY <1>1, <2>1, HeadTailSet
    <2>3. ToSet(bag'[w]) = ToSet(bag[w]) \cup {x}
      <3> HIDE DEF x
      <3> QED
        BY <1>1, <2>1, <2>2, AppendSet
    <2> HIDE DEF x
    <2>4. \A p : new(w, p) <=> Holds(w, p)
      BY <2>1, <2>2, <2>3 DEF Holds
    <2>5. \A p : \A v \in Worker \ {w} : new(v, p) <=> Holds(v, p)
      BY <2>1 DEF Holds
    <2> HIDE DEF new
    <2> QED
      BY <1>3, <2>1, <2>4, <2>5
  <1>13. ASSUME NEW w \in Worker, Fired(w)
         PROVE  \A p : Held(p)' <=> Held(p)
    <2>1. /\ UNCHANGED <<bag, todo>> /\ pc[w] = "push" /\ pc'[w] # "fire"
          /\ \A v \in Worker \ {w} : pc'[v] = pc[v] /\ cur'[v] = cur[v]
      BY <1>1, <1>13 DEF Fired
    <2>2. nf'.seeds = nf.seeds
      BY <1>4, <1>13 DEF Fired, NfType
    <2> QED
      BY <1>3, <2>1, <2>2 DEF Holds
  <1> QED
    BY <1>7, <1>8, <1>9, <1>10, <1>11, <1>12, <1>13

\* What the steps do to the driver's record.
LEMMA NfMoves ==
  ASSUME NfType
  PROVE  /\ NfCall => /\ nf'.seeds = Clamp(Enumerate(nf.call + 1)) /\ nf'.call = nf.call + 1
                      /\ nf'.fired = nf.fired /\ nf'.setup = nf.setup
         /\ NfSeed => /\ nf'.seeds = Tail(nf.seeds) /\ nf'.call = nf.call
                      /\ nf'.fired = nf.fired /\ nf'.setup = nf.setup
                      /\ nf'.itrs = nf.itrs /\ nf'.before = nf.before
         /\ NfRound => /\ nf'.seeds = nf.seeds /\ nf'.call = nf.call
                       /\ nf'.fired = nf.fired /\ nf'.setup = nf.setup
                       /\ nf'.itrs = nf.itrs /\ nf'.before = nf.itrs
         /\ NfDrained => /\ nf'.seeds = IF FiredThisRound = 0 \/ Session THEN <<>>
                                        ELSE Clamp(Enumerate(nf.call))
                         /\ nf'.call = nf.call /\ nf'.fired = nf.fired /\ nf'.setup = nf.setup
                         /\ nf'.budget = nf.budget
         /\ \A w : Fire(w) => /\ nf'.seeds = nf.seeds /\ nf'.call = nf.call
                              /\ nf'.setup = nf.setup /\ nf'.before = nf.before
                              /\ nf'.budget = nf.budget
                              /\ IsRedex(cur[w]) => /\ nf'.fired = nf.fired \cup {cur[w]}
                                                    /\ nf'.itrs = nf.itrs + 1
                              /\ ~IsRedex(cur[w]) => nf' = nf
         /\ \A w : Fired(w) => /\ nf'.seeds = nf.seeds /\ nf'.call = nf.call
                               /\ nf'.fired = nf.fired /\ nf'.setup = nf.setup
                               /\ nf'.itrs = nf.itrs /\ nf'.before = nf.before
  <1> USE DEF NfType
  <1>1. NfCall => /\ nf'.seeds = Clamp(Enumerate(nf.call + 1)) /\ nf'.call = nf.call + 1
                  /\ nf'.fired = nf.fired /\ nf'.setup = nf.setup
    BY DEF NfCall
  <1>2. NfSeed => /\ nf'.seeds = Tail(nf.seeds) /\ nf'.call = nf.call
                  /\ nf'.fired = nf.fired /\ nf'.setup = nf.setup
                  /\ nf'.itrs = nf.itrs /\ nf'.before = nf.before
    BY DEF NfSeed
  <1>3. NfRound => /\ nf'.seeds = nf.seeds /\ nf'.call = nf.call
                   /\ nf'.fired = nf.fired /\ nf'.setup = nf.setup
                   /\ nf'.itrs = nf.itrs /\ nf'.before = nf.itrs
    BY DEF NfRound
  <1>4. NfDrained => /\ nf'.seeds = IF FiredThisRound = 0 \/ Session THEN <<>>
                                    ELSE Clamp(Enumerate(nf.call))
                     /\ nf'.call = nf.call /\ nf'.fired = nf.fired /\ nf'.setup = nf.setup
                     /\ nf'.budget = nf.budget
    BY DEF NfDrained
  <1>5. ASSUME NEW w, Fire(w)
        PROVE  /\ nf'.seeds = nf.seeds /\ nf'.call = nf.call
               /\ nf'.setup = nf.setup /\ nf'.before = nf.before
               /\ nf'.budget = nf.budget
               /\ IsRedex(cur[w]) => /\ nf'.fired = nf.fired \cup {cur[w]}
                                     /\ nf'.itrs = nf.itrs + 1
               /\ ~IsRedex(cur[w]) => nf' = nf
    BY <1>5 DEF Fire
  <1>6. ASSUME NEW w, Fired(w)
        PROVE  /\ nf'.seeds = nf.seeds /\ nf'.call = nf.call
               /\ nf'.fired = nf.fired /\ nf'.setup = nf.setup
               /\ nf'.itrs = nf.itrs /\ nf'.before = nf.before
    BY <1>6 DEF Fired
  <1> QED
    BY <1>1, <1>2, <1>3, <1>4, <1>5, <1>6

LEMMA RoundsStep ==
  ASSUME TypeOK, Control, Work, [Next]_vars
  PROVE  Rounds'
  <1> USE DEF Goto, ctlVars, loopVars
  <1>1. /\ 0 \in Worker /\ Helpers \subseteq Worker /\ 0 \notin Helpers
        /\ Worker = Helpers \cup {0} /\ Worker' = Worker /\ N' = N
        /\ (N = 1 => Worker = {0})
        /\ pc \in [Worker -> DriverPc \cup HelperPc]
        /\ todo \in [Worker -> Seq(Elem)]
    BY Basics
  <1>2. NfType /\ nf.itrs \in Nat /\ nf.before \in Nat
    BY DEF TypeOK, NfType
  <1>3. Rounds
    BY DEF Work
  <1>4. InRound' <=> pc'[0] \notin {"call", "seed", "free", "exited"}
    BY DEF InRound
  <1>5. CASE Rests
    BY <1>1, <1>3, <1>4, <1>5 DEF Rests, Rounds, InRound
  <1>6. CASE NfCall
    <2>1. UNCHANGED <<todo>> /\ pc'[0] = "seed" /\ \A w \in Helpers : pc'[w] = pc[w]
      BY <1>1, <1>6 DEF NfCall
    <2>2. pc[0] = "call"
      BY <1>6 DEF NfCall
    <2> QED
      BY <1>1, <1>3, <1>4, <2>1, <2>2 DEF Rounds
  <1>7. CASE NfSeed
    BY <1>1, <1>3, <1>4, <1>7 DEF NfSeed, Rounds
  <1>8. CASE NfRound
    <2>1. UNCHANGED <<todo>> /\ pc'[0] \in {"local", "arm"} /\ \A w \in Helpers : pc'[w] = pc[w]
      BY <1>1, <1>8 DEF NfRound
    <2>2. pc[0] = "seed" /\ nf.seeds = <<>>
      BY <1>8 DEF NfRound
    <2>3. nf'.seeds = nf.seeds /\ nf'.itrs >= nf'.before
      BY <1>2, <1>8, NfMoves
    <2> QED
      BY <1>1, <1>3, <1>4, <2>1, <2>2, <2>3 DEF Rounds
  <1>9. CASE NfDrained
    <2>1. /\ UNCHANGED <<todo>> /\ pc'[0] = IF nf'.seeds = <<>> THEN "call" ELSE "seed"
          /\ \A w \in Helpers : pc'[w] = pc[w] /\ pc[0] = "drained"
      BY <1>1, <1>2, <1>9, NfMoves DEF NfDrained
    <2>2. pc[0] = "drained"
      BY <1>9 DEF NfDrained
    <2> QED
      BY <1>1, <1>3, <1>4, <2>1, <2>2 DEF Rounds
  <1>10. ASSUME NEW w \in Worker, Pops(w) \/ Steal(w)
         PROVE  Rounds'
    <2>1. /\ UNCHANGED <<todo, nf>> /\ pc[w] \in {"pop", "local", "steal"} /\ pc'[w] = "fire"
          /\ \A v \in Worker \ {w} : pc'[v] = pc[v]
      BY <1>1, <1>10 DEF Pops, Steal, Take
    <2>2. w # 0 => N # 1
      BY <1>1
    <2> QED
      BY <1>1, <1>3, <1>4, <2>1, <2>2 DEF Rounds, InRound
  <1>11. ASSUME NEW w \in Worker, Fire(w)
         PROVE  Rounds'
    <2>1. /\ pc[w] = "fire" /\ pc'[w] = "push"
          /\ \A v \in Worker \ {w} : pc'[v] = pc[v] /\ todo'[v] = todo[v]
      BY <1>1, <1>11 DEF Fire
    <2>2. /\ nf'.seeds = nf.seeds /\ nf'.before = nf.before
          /\ nf'.itrs = nf.itrs \/ nf'.itrs = nf.itrs + 1
      BY <1>2, <1>11, NfMoves
    <2>3. nf.itrs >= nf.before => nf'.itrs >= nf'.before
      BY <1>2, <2>2
    <2>4. w # 0 => N # 1
      BY <1>1
    <2> QED
      BY <1>1, <1>3, <1>4, <2>1, <2>2, <2>3, <2>4 DEF Rounds, InRound
  <1>12. ASSUME NEW w \in Worker, Push(w)
         PROVE  Rounds'
    <2>1. /\ UNCHANGED <<pc, nf>> /\ pc[w] = "push"
          /\ \A v \in Worker \ {w} : todo'[v] = todo[v]
      BY <1>1, <1>12 DEF Push
    <2>2. N = 1 => w = 0
      BY <1>1
    <2> QED
      BY <1>1, <1>3, <1>4, <2>1, <2>2 DEF Rounds, InRound
  <1>13. ASSUME NEW w \in Worker, Fired(w)
         PROVE  Rounds'
    <2>1. /\ UNCHANGED todo /\ todo[w] = <<>> /\ pc[w] = "push" /\ pc'[w] \in {"local", "pop"}
          /\ \A v \in Worker \ {w} : pc'[v] = pc[v]
      BY <1>1, <1>13 DEF Fired
    <2>2. nf'.seeds = nf.seeds /\ nf'.itrs = nf.itrs /\ nf'.before = nf.before
      BY <1>2, <1>13, NfMoves
    <2>3. N = 1 => w = 0
      BY <1>1
    <2> QED
      BY <1>1, <1>3, <1>4, <2>1, <2>2, <2>3 DEF Rounds, InRound
  <1> QED
    BY <1>5, <1>6, <1>7, <1>8, <1>9, <1>10, <1>11, <1>12, <1>13, Kinds

\* Starting a call or a round changes the seeds and nothing else that is held.
LEMMA HeldStart ==
  ASSUME TypeOK, [Next]_vars, NfCall \/ NfDrained
  PROVE  \A p : Held(p)' <=> p \in ToSet(nf'.seeds) \/ \E w \in Worker : Holds(w, p)
  <1>1. /\ 0 \in Worker /\ Helpers \subseteq Worker /\ 0 \notin Helpers
        /\ Worker = Helpers \cup {0} /\ Worker' = Worker
        /\ pc \in [Worker -> DriverPc \cup HelperPc]
    BY Basics
  <1>2. /\ UNCHANGED <<bag, todo, cur>> /\ pc[0] # "fire" /\ pc'[0] # "fire"
        /\ \A w \in Helpers : pc'[w] = pc[w]
    BY <1>1 DEF NfCall, NfDrained, Goto, loopVars
  <1>3. \A p : \A w \in Worker : Holds(w, p)' <=> Holds(w, p)
    BY <1>1, <1>2 DEF Holds
  <1> QED
    BY <1>1, <1>3 DEF Held

\* A firing lets go of the redex it fired, and holds those it has to push.
LEMMA HeldFire ==
  ASSUME TypeOK, Work, [Next]_vars, NEW w \in Worker, Fire(w)
  PROVE  /\ cur[w] \in Elem /\ Held(cur[w])
         /\ \A p : Held(p) => Held(p)' \/ p = cur[w]
         /\ \A p : Held(p)' => Held(p) \/ p \in ToSet(Made(cur[w]))
         /\ IsRedex(cur[w]) =>
              (\A p \in ToSet(Made(cur[w])) : Held(p)') \/ cur[w] \in nf.fired
  <1>1. /\ Worker' = Worker /\ pc \in [Worker -> DriverPc \cup HelperPc]
        /\ todo \in [Worker -> Seq(Elem)]
        /\ \A v \in Worker : pc[v] = "fire" => cur[v] \in Elem
    BY Basics
  <1>2. NfType
    BY DEF TypeOK
  <1>3. /\ UNCHANGED <<bag, cur>> /\ pc[w] = "fire" /\ pc'[w] = "push"
        /\ \A v \in Worker \ {w} : pc'[v] = pc[v] /\ todo'[v] = todo[v]
        /\ \/ todo'[w] = Made(cur[w])
           \/ todo'[w] = todo[w] /\ (IsRedex(cur[w]) => cur[w] \in nf.fired)
    BY <1>1 DEF Fire, Goto, loopVars
  <1>4. nf'.seeds = nf.seeds
    BY <1>2, NfMoves
  <1>5. todo[w] = <<>> /\ ToSet(todo[w]) = {}
    <2>1. todo[w] = <<>>
      BY <1>3 DEF Work, Rounds
    <2> QED
      BY <2>1, EmptySeq, ToSetIs
  <1>6. \A v \in Worker \ {w} : \A p : Holds(v, p)' <=> Holds(v, p)
    BY <1>3 DEF Holds
  <1>7. \A p : Holds(w, p) <=> p \in ToSet(bag[w]) \/ p = cur[w]
    BY <1>3, <1>5 DEF Holds
  <1>8. \A p : Holds(w, p)' <=> p \in ToSet(bag[w]) \/ p \in ToSet(todo'[w])
    BY <1>3 DEF Holds
  <1>9. cur[w] \in Elem /\ Held(cur[w])
    BY <1>1, <1>3, <1>7 DEF Held
  <1>10. \A p : Held(p) => Held(p)' \/ p = cur[w]
    BY <1>1, <1>4, <1>6, <1>7, <1>8 DEF Held
  <1>11. \A p : Held(p)' => Held(p) \/ p \in ToSet(Made(cur[w]))
    <2>1. ToSet(todo'[w]) = ToSet(Made(cur[w])) \/ ToSet(todo'[w]) = {}
      BY <1>3, <1>5
    <2> QED
      BY <1>1, <1>4, <1>6, <1>7, <1>8, <2>1 DEF Held
  <1>12. todo'[w] = Made(cur[w]) => \A p \in ToSet(Made(cur[w])) : Held(p)'
    BY <1>1, <1>8 DEF Held
  <1> QED
    BY <1>3, <1>9, <1>10, <1>11, <1>12

\* While nothing fires and no call begins, the work left stays the same.
LEMMA MissingKept ==
  ASSUME TypeOK, [Next]_vars, nf'.fired = nf.fired, nf'.call = nf.call
  PROVE  /\ Missing' = Missing /\ (Overflow' <=> Overflow)
         /\ Enumerate(nf.call)' = Enumerate(nf.call)
  <1>1. /\ Root' = Root /\ Succ' = Succ /\ Lazy' = Lazy /\ Cap' = Cap
        /\ (Session' <=> Session)
        /\ Hidden' = Hidden /\ FiredOf(nf.call)' = FiredOf(nf.call)
    BY ConstantsKept DEF TypeOK, FiredOf
  <1>2. Present(nf.call)' = Present(nf.call) /\ Owed(nf.call)' = Owed(nf.call)
    <2>1. Shown(nf.call)' = Shown(nf.call)
      BY <1>1 DEF Shown
    <2>2. Present(nf.call)' = Present(nf.call)
      BY <1>1, <2>1 DEF Present
    <2> QED
      BY <1>1, <2>1, <2>2 DEF Owed
  <1>3. Missing' = Missing
    BY <1>2 DEF Missing
  <1>4. Enumerate(nf.call)' = Enumerate(nf.call)
    BY <1>2 DEF Enumerate
  <1>5. Overflow' <=> Overflow
    BY <1>1, <1>4 DEF Overflow
  <1> QED
    BY <1>3, <1>4, <1>5

LEMMA DatedStep ==
  ASSUME TypeOK, Control, Work, [Next]_vars
  PROVE  Dated'
  <1>1. NfType /\ nf.call \in Nat /\ Elem' = Elem /\ \A p \in Elem : p[1] \in Nat
    BY Basics DEF TypeOK, NfType, Elem
  <1>2. \A p \in Elem : p \in nf.fired \/ Held(p) => p[1] <= nf.call
    BY DEF Work, Dated
  <1>3. Dated' <=> \A p \in Elem : p \in nf'.fired \/ Held(p)' => p[1] <= nf'.call
    BY <1>1 DEF Dated
  <1>4. CASE \/ Rests \/ NfSeed \/ NfRound
             \/ \E w \in Worker : Pops(w) \/ Steal(w) \/ Push(w) \/ Fired(w)
    <2>1. nf'.fired = nf.fired /\ nf'.call = nf.call
      BY <1>1, <1>4, NfMoves DEF Rests, Pops, Steal, Push
    <2>2. \A p : Held(p)' <=> Held(p)
      BY <1>4, HeldKept
    <2> QED
      BY <1>2, <1>3, <2>1, <2>2
  <1>5. CASE NfCall \/ NfDrained
    <2>1. /\ nf'.fired = nf.fired /\ nf'.call \in {nf.call, nf.call + 1}
          /\ nf'.seeds = <<>> \/ nf'.seeds = Clamp(Enumerate(nf'.call))
      BY <1>1, <1>5, NfMoves
    <2>2. nf'.call \in Nat
      BY <1>1, <2>1
    <2>3. \A p \in ToSet(nf'.seeds) : p[1] = nf'.call
      <3>1. CASE nf'.seeds = <<>>
        BY <3>1, EmptySeq, ToSetIs
      <3>2. CASE nf'.seeds = Clamp(Enumerate(nf'.call))
        <4>1. ToSet(nf'.seeds) \subseteq Present(nf'.call)
          <5>1. Enumerate(nf'.call) \in Seq(Elem)
                /\ ToSet(Enumerate(nf'.call)) \subseteq Present(nf'.call)
            BY <1>1, <2>2, EnumerateSet
          <5> QED
            BY <1>1, <3>2, <5>1, ClampSet
        <4>2. \A p \in Present(nf'.call) : p[1] = nf'.call
          BY DEF Present, Shown
        <4> QED
          BY <4>1, <4>2
      <3> QED
        BY <2>1, <3>1, <3>2
    <2>4. \A p : Held(p)' => p \in ToSet(nf'.seeds) \/ Held(p)
      BY <1>5, HeldStart DEF Held
    <2>5. ASSUME NEW p \in Elem, p \in nf'.fired \/ Held(p)'
          PROVE  p[1] <= nf'.call
      <3>1. CASE p \in ToSet(nf'.seeds)
        BY <2>2, <2>3, <3>1
      <3>2. CASE p \in nf.fired \/ Held(p)
        <4>1. p[1] <= nf.call /\ p[1] \in Nat
          BY <1>1, <1>2, <3>2
        <4> QED
          BY <1>1, <2>1, <4>1
      <3> QED
        BY <2>1, <2>4, <2>5, <3>1, <3>2
    <2> QED
      BY <1>3, <2>5
  <1>6. ASSUME NEW w \in Worker, Fire(w)
        PROVE  Dated'
    <2>1. nf'.fired \subseteq nf.fired \cup {cur[w]} /\ nf'.call = nf.call
      BY <1>1, <1>6, NfMoves
    <2>2. /\ cur[w] \in Elem /\ Held(cur[w])
          /\ \A p : Held(p)' => Held(p) \/ p \in ToSet(Made(cur[w]))
      BY <1>6, HeldFire
    <2>3. \A p \in ToSet(Made(cur[w])) : p[1] = cur[w][1]
      BY <1>1, <2>2, MadeSet
    <2>4. cur[w][1] <= nf.call
      BY <1>2, <2>2
    <2> QED
      BY <1>2, <1>3, <2>1, <2>2, <2>3, <2>4
  <1> QED
    BY <1>4, <1>5, <1>6, Kinds

\* The redexes of a new call are those of its term: nothing of it has fired.
LEMMA FreshCall ==
  ASSUME TypeOK, Dated
  PROVE  /\ Present(nf.call + 1) \ nf.fired = {nf.call + 1} \X Root
         /\ Len(Enumerate(nf.call + 1)) = Len(SetToSeq(Root))
  <1> DEFINE c == nf.call + 1
  <1>1. /\ NfType /\ nf.call \in Nat /\ c \in Nat
        /\ nf.fired \subseteq Elem /\ \A p \in Elem : p[1] \in Nat
    BY DEF TypeOK, NfType, Elem
  <1>2. \A p \in nf.fired : p[1] # c
    <2>1. \A p \in nf.fired : p \in Elem /\ p[1] <= nf.call
      BY <1>1 DEF Dated
    <2> QED
      BY <1>1, <2>1
  <1> HIDE DEF c
  <1>3. Present(c) = {c} \X Root
    <2>1. FiredOf(c) = {}
      BY <1>2 DEF FiredOf
    <2>2. Shown(c) = {c} \X Root
      BY <2>1 DEF Shown
    <2> QED
      BY <2>1, <2>2 DEF Present
  <1>4. \A p \in {c} \X Root : p \notin nf.fired
    BY <1>2
  <1>5. Present(c) \ nf.fired = {c} \X Root
    BY <1>3, <1>4
  <1>6. IsFiniteSet(Root)
    BY <1>1, SetupTypes, FS_Subset
  <1>7. Cardinality({c} \X Root) = Cardinality(Root)
    <2>1. Cardinality({c} \X Root) = Cardinality({c}) * Cardinality(Root)
      BY <1>6, FS_Singleton, FS_Product
    <2>2. Cardinality({c}) = 1 /\ Cardinality(Root) \in Nat
      BY <1>6, FS_Singleton, FS_CardinalityType
    <2> QED
      BY <2>1, <2>2
  <1>8. Len(Enumerate(c)) = Cardinality(Root)
    BY <1>1, <1>5, <1>7, EnumerateSet
  <1>9. Len(SetToSeq(Root)) = Cardinality(Root)
    BY <1>6, SetToSeqSet
  <1> QED
    BY <1>5, <1>8, <1>9 DEF c

LEMMA CoveredStep ==
  ASSUME TypeOK, Control, Work, [Next]_vars
  PROVE  Covered'
  <1> SUFFICES ASSUME Covering', NEW p \in Missing'
               PROVE  Held(p)'
    BY DEF Covered
  <1>1. /\ NfType /\ nf.call \in Nat /\ nf.itrs \in Nat /\ nf.before \in Nat
        /\ nf.fired \subseteq Elem /\ nf.seeds \in Seq(Elem)
    BY DEF TypeOK, NfType
  <1>2. /\ 0 \in Worker /\ Helpers \subseteq Worker /\ 0 \notin Helpers
        /\ Worker = Helpers \cup {0} /\ Worker' = Worker /\ N' = N
        /\ pc \in [Worker -> DriverPc \cup HelperPc]
    BY Basics
  <1>3. /\ Covering => \A q \in Missing : Held(q)
        /\ InRound => nf.itrs >= nf.before
    BY DEF Work, Covered, Rounds
  <1>4. /\ Root' = Root /\ Succ' = Succ /\ Lazy' = Lazy /\ Cap' = Cap
        /\ (Session' <=> Session) /\ Hidden' = Hidden
    BY <1>1, ConstantsKept
  <1>5. /\ nf'.call > 0 /\ ~Overflow'
        /\ Session \/ pc'[0] = "seed" \/ (InRound' /\ nf'.itrs = nf'.before)
    BY <1>4 DEF Covering
  <1>6. ASSUME nf'.fired = nf.fired, nf'.call = nf.call, Covering,
               \A q : Held(q) => Held(q)'
        PROVE  Held(p)'
    BY <1>3, <1>6, MissingKept
  <1>7. ASSUME NEW w \in Worker, pc[w] \in LoopPc \cup {"local"}, pc'[w] \in LoopPc \cup {"local"},
               \A v \in Worker \ {w} : pc'[v] = pc[v]
        PROVE  /\ pc'[0] # "seed"
               /\ InRound' => InRound
    <2>1. CASE w = 0
      BY <1>7, <2>1 DEF InRound, LoopPc
    <2>2. CASE w # 0
      <3>1. w \in Helpers /\ pc'[0] = pc[0] /\ pc[w] \in LoopPc
        BY <1>2, <1>7, <2>2, Basics DEF HelperPc, LoopPc
      <3>2. InDrain
        BY <3>1 DEF Control, Places
      <3> QED
        BY <3>1, <3>2 DEF InDrain, InRound, LoopPc
    <2> QED
      BY <2>1, <2>2
  <1>8. CASE Rests
    <2>1. pc'[0] = "seed" \/ InRound' => pc[0] = "seed" \/ InRound
      BY <1>8 DEF Rests, InRound
    <2>2. pc'[0] = "seed" => pc[0] = "seed"
      BY <1>8 DEF Rests
    <2>3. InRound' => InRound
      BY <1>8 DEF Rests, InRound
    <2>4. UNCHANGED nf
      BY <1>8 DEF Rests
    <2>5. Covering
      BY <1>5, <2>2, <2>3, <2>4, MissingKept DEF Covering
    <2> QED
      BY <1>6, <1>8, <2>4, <2>5, HeldKept
  <1>9. CASE NfSeed
    <2>1. /\ nf'.fired = nf.fired /\ nf'.call = nf.call /\ nf'.itrs = nf.itrs
          /\ nf'.before = nf.before
      BY <1>1, <1>9, NfMoves
    <2>2. pc[0] = "seed"
      BY <1>9 DEF NfSeed
    <2>3. Covering
      BY <1>5, <2>1, <2>2, MissingKept DEF Covering
    <2> QED
      BY <1>6, <1>9, <2>1, <2>3, HeldKept
  <1>10. CASE NfRound
    <2>1. nf'.fired = nf.fired /\ nf'.call = nf.call
      BY <1>1, <1>10, NfMoves
    <2>2. pc[0] = "seed"
      BY <1>10 DEF NfRound
    <2>3. Covering
      BY <1>5, <2>1, <2>2, MissingKept DEF Covering
    <2> QED
      BY <1>6, <1>10, <2>1, <2>3, HeldKept
  <1>11. ASSUME NEW w \in Worker, Pops(w) \/ Steal(w) \/ Push(w) \/ Fired(w)
         PROVE  Held(p)'
    <2>1. /\ nf'.fired = nf.fired /\ nf'.call = nf.call /\ nf'.itrs = nf.itrs
          /\ nf'.before = nf.before
      BY <1>1, <1>11, NfMoves DEF Pops, Steal, Push
    <2>2. /\ pc[w] \in LoopPc \cup {"local"} /\ pc'[w] \in LoopPc \cup {"local"}
          /\ \A v \in Worker \ {w} : pc'[v] = pc[v]
      BY <1>2, <1>11 DEF Pops, Steal, Push, Fired, Take, Goto, LoopPc
    <2>3. Covering
      BY <1>5, <1>7, <2>1, <2>2, MissingKept DEF Covering
    <2> QED
      BY <1>6, <1>11, <2>1, <2>3, HeldKept
  <1>12. CASE NfCall
    <2>1. /\ nf'.seeds = Clamp(Enumerate(nf.call + 1)) /\ nf'.call = nf.call + 1
          /\ nf'.fired = nf.fired
      BY <1>1, <1>12, NfMoves
    <2>2. Present(nf.call)' = Present(nf.call + 1)
      BY <1>4, <2>1 DEF Present, Shown, FiredOf
    <2>3. Enumerate(nf.call)' = Enumerate(nf.call + 1)
      BY <2>1, <2>2 DEF Enumerate
    <2>4. nf.call + 1 \in Nat
      BY <1>1
    <2>5. /\ Enumerate(nf.call + 1) \in Seq(Elem)
          /\ ToSet(Enumerate(nf.call + 1)) = Present(nf.call + 1) \ nf.fired
          /\ Len(Enumerate(nf.call + 1)) \in Nat
      <3>1. /\ Enumerate(nf.call + 1) \in Seq(Elem)
            /\ ToSet(Enumerate(nf.call + 1)) = Present(nf.call + 1) \ nf.fired
        BY ONLY <1>1, <2>4, EnumerateSet
      <3> QED
        BY ONLY <3>1, LenProperties
    <2>6. Len(Enumerate(nf.call + 1)) <= Cap
      <3>1. Len(SetToSeq(Root)) = Len(Enumerate(nf.call + 1))
        BY FreshCall DEF Work
      <3>2. ~ (Len(Enumerate(nf.call + 1)) > Cap)
        BY <1>4, <1>5, <2>3, <3>1 DEF Overflow
      <3>3. Cap \in Nat
        BY <1>1, SetupTypes
      <3> QED
        BY <2>5, <3>2, <3>3
    <2>7. ToSet(nf'.seeds) = Present(nf.call + 1) \ nf.fired
      BY <1>1, <2>1, <2>5, <2>6, ClampSet
    <2>8. p \in ToSet(nf'.seeds)
      BY <2>1, <2>2, <2>7 DEF Missing, Owed
    <2> QED
      BY <1>12, <2>8, HeldStart
  <1>13. CASE NfDrained
    <2>1. /\ nf'.seeds = IF FiredThisRound = 0 \/ Session THEN <<>>
                         ELSE Clamp(Enumerate(nf.call))
          /\ nf'.call = nf.call /\ nf'.fired = nf.fired
      BY <1>1, <1>13, NfMoves
    <2>2. pc'[0] = IF nf'.seeds = <<>> THEN "call" ELSE "seed"
      BY <1>2, <1>13, <2>1 DEF NfDrained, Goto
    <2>9. pc[0] = "drained"
      BY <1>13 DEF NfDrained
    <2>3. CASE Session
      <3>1. nf.seeds = <<>>
        BY <2>9 DEF Work, Rounds
      <3>2. Covering
        BY <1>5, <2>1, <2>3, MissingKept DEF Covering
      <3>3. nf'.seeds = nf.seeds
        BY <2>1, <2>3, <3>1
      <3>4. \A q : Held(q) => Held(q)'
        BY <1>13, <3>3, HeldStart DEF Held
      <3> QED
        BY <1>6, <2>1, <3>2, <3>4
    <2>4. CASE ~Session
      <3>1. pc'[0] = "seed" /\ nf'.seeds # <<>>
        <4>1. InRound' => pc'[0] \notin {"call", "seed"}
          BY DEF InRound
        <4> QED
          BY <1>5, <2>2, <2>4, <4>1
      <3>2. nf'.seeds = Clamp(Enumerate(nf.call))
        BY <2>1, <3>1
      <3>3. /\ Enumerate(nf.call) \in Seq(Elem)
            /\ ToSet(Enumerate(nf.call)) = Present(nf.call) \ nf.fired
            /\ Len(Enumerate(nf.call)) \in Nat
        BY <1>1, EnumerateSet, ToSetIs
      <3>4. Len(Enumerate(nf.call)) <= Cap
        <4>1. ~ (Len(Enumerate(nf.call)) > Cap)
          BY <1>5, <2>1, <2>4, MissingKept DEF Overflow
        <4>2. Cap \in Nat
          BY <1>1, SetupTypes
        <4> QED
          BY <3>3, <4>1, <4>2
      <3>5. ToSet(nf'.seeds) = Present(nf.call) \ nf.fired
        BY <1>1, <3>2, <3>3, <3>4, ClampSet
      <3>6. p \in Missing
        BY <2>1, MissingKept
      <3>7. p \in ToSet(nf'.seeds)
        BY <3>5, <3>6 DEF Missing, Owed
      <3> QED
        BY <1>13, <3>7, HeldStart
    <2> QED
      BY <1>4, <2>3, <2>4
  <1>14. ASSUME NEW w \in Worker, Fire(w)
         PROVE  Held(p)'
    <2>1. /\ nf'.call = nf.call /\ nf'.before = nf.before
          /\ IsRedex(cur[w]) => nf'.fired = nf.fired \cup {cur[w]} /\ nf'.itrs = nf.itrs + 1
          /\ ~IsRedex(cur[w]) => nf' = nf
      BY <1>1, <1>14, NfMoves
    <2>2. /\ cur[w] \in Elem
          /\ \A q : Held(q) => Held(q)' \/ q = cur[w]
          /\ IsRedex(cur[w]) =>
               (\A q \in ToSet(Made(cur[w])) : Held(q)') \/ cur[w] \in nf.fired
      BY <1>14, HeldFire DEF Work
    <2>3. pc'[0] # "seed" /\ (InRound' => InRound)
      <3>1. /\ pc[w] = "fire" /\ pc'[w] = "push" /\ \A v \in Worker \ {w} : pc'[v] = pc[v]
        BY <1>2, <1>14 DEF Fire, Goto
      <3> QED
        BY <1>7, <3>1 DEF LoopPc
    <2>4. CASE ~IsRedex(cur[w])
      <3>1. UNCHANGED nf
        BY <2>1, <2>4
      <3>2. Covering
        BY <1>5, <2>3, <3>1, MissingKept DEF Covering
      <3>3. p \in Missing
        BY <3>1, MissingKept
      <3>4. p # cur[w]
        BY <2>4, <3>3 DEF Missing, Owed, IsRedex
      <3> QED
        BY <1>3, <2>2, <3>2, <3>3, <3>4
    <2>5. CASE IsRedex(cur[w])
      <3>1. Session
        <4>1. ASSUME ~Session
              PROVE  FALSE
          <5>1. InRound /\ nf'.itrs = nf'.before
            BY <1>5, <2>3, <4>1
          <5> QED
            BY <1>1, <1>3, <2>1, <2>5, <5>1
        <4> QED
          BY <4>1
      <3>2. Covering
        <4>1. Overflow' <=> Overflow
          BY <1>4, <3>1 DEF Overflow
        <4> QED
          BY <1>5, <2>1, <3>1, <4>1 DEF Covering
      <3>3. Shown(nf.call)' = {<<nf.call, r>> : r \in Root \cup
              UNION {ToSet(Succ[f[2]]) : f \in {g \in nf.fired \cup {cur[w]} : g[1] = nf.call}}}
        BY <1>4, <2>1, <2>5 DEF Shown, FiredOf
      <3>4. /\ p \in Shown(nf.call)' /\ p \notin nf.fired /\ p # cur[w] /\ p[2] \notin Lazy
        BY <1>4, <2>1, <2>5, <3>1 DEF Missing, Owed
      <3>5. p \in Shown(nf.call) \/ (cur[w] \notin nf.fired /\ p \in ToSet(Made(cur[w])))
        <4>1. PICK r : /\ p = <<nf.call, r>>
                       /\ \/ r \in Root
                          \/ \E f \in nf.fired \cup {cur[w]} :
                               f[1] = nf.call /\ r \in ToSet(Succ[f[2]])
          BY <3>3, <3>4
        <4>2. CASE r \in Root
          BY <4>1, <4>2 DEF Shown
        <4>3. ASSUME NEW f \in nf.fired, f[1] = nf.call, r \in ToSet(Succ[f[2]])
              PROVE  p \in Shown(nf.call)
          BY <4>1, <4>3 DEF Shown, FiredOf
        <4>4. CASE cur[w] \notin nf.fired /\ cur[w][1] = nf.call /\ r \in ToSet(Succ[cur[w][2]])
          <5>1. ToSet(Made(cur[w])) = {<<cur[w][1], q>> : q \in ToSet(Succ[cur[w][2]])}
            BY <1>1, <2>2, <3>1, MadeSet
          <5> QED
            BY <4>1, <4>4, <5>1
        <4> QED
          BY <4>1, <4>2, <4>3, <4>4
      <3>6. CASE p \in Shown(nf.call)
        <4>1. p \in Missing
          BY <3>4, <3>6 DEF Missing, Owed, Present
        <4> QED
          BY <1>3, <2>2, <3>2, <3>4, <4>1
      <3>7. CASE cur[w] \notin nf.fired /\ p \in ToSet(Made(cur[w]))
        BY <2>2, <2>5, <3>7
      <3> QED
        BY <3>5, <3>6, <3>7
    <2> QED
      BY <2>4, <2>5
  <1> QED
    BY <1>8, <1>9, <1>10, <1>11, <1>12, <1>13, <1>14, Kinds

-----------------------------------------------------------------------------
(* Normal form *)

\* When a drain returns and no cap stopped it, nothing is on its way.
LEMMA Idle ==
  ASSUME TypeOK, Control, Rounds, [Next]_vars, pc[0] = "drained",
         ~(N = 1 /\ nf.budget <= 0)
  PROVE  \A p : ~Held(p)
  <1>1. /\ NfType /\ N \in Nat \ {0} /\ 0 \in Worker /\ 0 \notin Helpers
        /\ Worker = Helpers \cup {0}
        /\ bag \in [Worker -> Seq(Elem)] /\ todo \in [Worker -> Seq(Elem)]
    BY Basics
  <1>2. nf.seeds = <<>> /\ \A w \in Worker : pc[w] # "push" => todo[w] = <<>>
    BY DEF Rounds
  <1>3. ~InDrain /\ \A w \in Helpers : pc[w] \notin LoopPc
    BY DEF InDrain, LoopPc, Control, Places
  <1>4. \A w \in Worker : pc[w] \notin {"fire", "push", "pop"}
    BY <1>1, <1>3 DEF LoopPc
  <1>5. bag[0] = <<>>
    <2>1. CASE N = 1
      <3>1. ~ (nf.budget <= 0)
        BY <2>1
      <3> QED
        BY <2>1, <3>1 DEF Rounds
    <2>2. CASE N > 1
      BY <1>1, <1>4, <2>2 DEF Control, Owned, OwnPc
    <2> QED
      BY <1>1, <2>1, <2>2
  <1>6. \A w \in Worker : bag[w] = <<>> /\ todo[w] = <<>>
    BY <1>1, <1>2, <1>4, <1>5 DEF Control, Owned, OwnPc
  <1>7. ToSet(<<>>) = {}
    BY DEF ToSet
  <1> QED
    BY <1>2, <1>4, <1>6, <1>7 DEF Held, Holds

LEMMA NormalFormStep ==
  ASSUME TypeOK, Control, Work, [Next]_vars
  PROVE  NormalForm'
  <1> SUFFICES ASSUME pc'[0] = "call", nf'.call > 0, ~Capped', ~Overflow'
               PROVE  Missing' = {}
    BY DEF NormalForm, Missing
  <1>1. /\ NfType /\ nf.call \in Nat /\ nf.itrs \in Nat /\ nf.before \in Nat
    BY DEF TypeOK, NfType
  <1>2. /\ 0 \in Worker /\ Helpers \subseteq Worker /\ 0 \notin Helpers
        /\ Worker = Helpers \cup {0} /\ N \in Nat \ {0}
        /\ pc \in [Worker -> DriverPc \cup HelperPc]
    BY Basics
  <1>3. N' = N /\ FireCap' = FireCap /\ Lazy' = Lazy
    BY <1>1, ConstantsKept
  <1>4. ASSUME nf'.fired = nf.fired, nf'.call = nf.call, Missing = {}
        PROVE  Missing' = {}
    BY <1>4, MissingKept
  <1>5. CASE Rests
    <2>1. UNCHANGED nf /\ (pc[0] = "call" \/ nf.total >= FireCap)
      BY <1>5 DEF Rests
    <2>2. (Capped' <=> Capped) /\ (Overflow' <=> Overflow)
      BY <1>3, <2>1, MissingKept DEF Capped
    <2>3. pc[0] = "call"
      BY <2>1, <2>2 DEF Capped
    <2>4. Missing = {}
      BY <2>1, <2>2, <2>3 DEF Work, NormalForm, Missing
    <2> QED
      BY <1>4, <2>1, <2>4
  <1>6. ASSUME NfCall \/ NfSeed \/ NfRound
        PROVE  FALSE
    BY <1>2, <1>6 DEF NfCall, NfSeed, NfRound, Goto
  <1>7. CASE NfDrained
    <2>1. /\ nf'.seeds = IF FiredThisRound = 0 \/ Session THEN <<>>
                         ELSE Clamp(Enumerate(nf.call))
          /\ nf'.call = nf.call /\ nf'.fired = nf.fired /\ nf'.budget = nf.budget
          /\ pc[0] = "drained"
      BY <1>1, <1>7, NfMoves DEF NfDrained
    <2>2. nf'.seeds = <<>>
      <3>1. pc'[0] = IF nf'.seeds = <<>> THEN "call" ELSE "seed"
        BY <1>2, <1>7, <2>1 DEF NfDrained, Goto
      <3> QED
        BY <3>1
    <2>3. CASE FiredThisRound = 0 \/ Session
      <3>1. ~Overflow /\ nf.call > 0
        BY <2>1, MissingKept
      <3>2. InRound
        BY <2>1 DEF InRound
      <3>3. nf.itrs = nf.before \/ Session
        BY <1>1, <2>3 DEF FiredThisRound
      <3>4. Covering
        BY <3>1, <3>2, <3>3 DEF Covering
      <3>5. \A q \in Missing : Held(q)
        BY <3>4 DEF Work, Covered
      <3>6. ~(N = 1 /\ nf.budget <= 0)
        BY <1>3, <2>1 DEF Capped
      <3>7. \A q : ~Held(q)
        BY <2>1, <3>6, Idle DEF Work
      <3> QED
        BY <1>4, <2>1, <3>5, <3>7
    <2>4. CASE ~(FiredThisRound = 0 \/ Session)
      <3>1. Clamp(Enumerate(nf.call)) = <<>>
        BY <2>1, <2>2, <2>4
      <3>2. Enumerate(nf.call) \in Seq(Elem)
        BY <1>1, EnumerateSet
      <3>3. Enumerate(nf.call) = <<>>
        BY <1>1, <3>1, <3>2, ClampSet
      <3>4. ToSet(Enumerate(nf.call)) = {}
        BY <3>3 DEF ToSet
      <3>5. Missing = {}
        BY <1>1, <3>4, EnumerateSet DEF Missing, Owed
      <3> QED
        BY <1>4, <2>1, <3>5
    <2> QED
      BY <2>3, <2>4
  <1>8. ASSUME NEW w \in Worker, Pops(w) \/ Steal(w) \/ Push(w) \/ Fired(w) \/ Fire(w)
        PROVE  FALSE
    <2>1. /\ pc[w] \in LoopPc \cup {"local"} /\ pc'[w] \in LoopPc \cup {"local"}
          /\ \A v \in Worker \ {w} : pc'[v] = pc[v]
      BY <1>2, <1>8 DEF Pops, Steal, Push, Fired, Fire, Take, Goto, LoopPc
    <2>2. w # 0
      BY <2>1 DEF LoopPc
    <2>3. w \in Helpers /\ pc'[0] = pc[0] /\ pc[w] \in LoopPc
      BY <1>2, <2>1, <2>2, Basics DEF HelperPc, LoopPc
    <2>4. InDrain
      BY <2>3 DEF Control, Places
    <2> QED
      BY <2>3, <2>4 DEF InDrain, LoopPc
  <1> QED
    BY <1>5, <1>6, <1>7, <1>8, Kinds

-----------------------------------------------------------------------------
(* The theorems *)

LEMMA WorkInit == Init => Work
  <1> SUFFICES ASSUME Init PROVE Work
    OBVIOUS
  <1>1. /\ TypeOK /\ NfType /\ IsFiniteSet(Worker)
        /\ nf.left = 0 /\ nf.call = 0 /\ nf.seeds = <<>> /\ nf.fired = {}
    BY TypeInit, WorkerFinite DEF TypeOK, Init
  <1>2. \A w \in Worker : /\ pc[w] \in {"call", "unborn"} /\ bag[w] = <<>> /\ todo[w] = <<>>
                          /\ fires[w] = 0 /\ pushes[w] = 0
    BY DEF Init
  <1>3. pc[0] = "call"
    BY <1>1, SetupTypes DEF Init
  <1>4. ToSet(<<>>) = {} /\ Len(<<>>) = 0
    BY EmptySeq DEF ToSet
  <1>5. Balance
    <2>1. \A w \in Worker : Net[w] = 0
      BY <1>2, <1>4 DEF Net, InHand
    <2>2. Net \in [Worker -> Int]
      BY <2>1 DEF Net
    <2>3. SumFunction(Net) = 0
      BY ONLY <1>1, <2>1, <2>2, SumZero
    <2> QED
      BY <1>1, <2>3 DEF Balance
  <1>6. Rounds
    BY <1>1, <1>2, <1>3 DEF Rounds, InRound
  <1>7. Dated
    BY <1>1, <1>2, <1>4 DEF Dated, Held, Holds
  <1>8. Covered
    BY <1>1 DEF Covered, Covering
  <1>9. NormalForm
    BY <1>1 DEF NormalForm
  <1> QED
    BY <1>5, <1>6, <1>7, <1>8, <1>9 DEF Work

\* The invariant that the two properties below follow from: across pops,
\* steals, rejoins, caps and any number of calls of nf, no entry is lost or
\* doubled, and no redex that is still to fire drops out of sight.
THEOREM Invariance == Spec => [](TypeOK /\ Control /\ Work)
  <1>1. Init => TypeOK /\ Control /\ Work
    BY TypeInit, ControlInit, WorkInit
  <1>2. TypeOK /\ Control /\ Work /\ [Next]_vars => (TypeOK /\ Control /\ Work)'
    <2> SUFFICES ASSUME TypeOK, Control, Work, [Next]_vars
                 PROVE  (TypeOK /\ Control /\ Work)'
      OBVIOUS
    <2>1. TypeOK' /\ Places' /\ Counts' /\ Owned'
      BY TypeStep, PlacesStep, CountsStep, OwnedStep
    <2>2. Balance' /\ Rounds' /\ Dated' /\ Covered' /\ NormalForm'
      BY BalanceStep, RoundsStep, DatedStep, CoveredStep, NormalFormStep
    <2> QED
      BY <2>1, <2>2 DEF Control, Work
  <1> QED
    BY <1>1, <1>2, PTL DEF Spec

\* wnf_pool_drain_parallel returns with every bag empty and every worker
\* parked, and has fired each entry pushed to it exactly once.
THEOREM DrainsAll == Spec => []DrainComplete
  <1>1. TypeOK /\ Control /\ Work => DrainComplete
    <2> SUFFICES ASSUME TypeOK, Control, Work, pc[0] = "drained", N > 1
                 PROVE  /\ \A w \in Worker : bag[w] = <<>>
                        /\ \A w \in Worker \ {0} : pc[w] = "park"
                        /\ SumFunction(fires) = SumFunction(pushes) + nf.left
      BY DEF DrainComplete
    <2>1. /\ NfType /\ IsFiniteSet(Worker) /\ N \in Nat /\ 0 \in Worker
          /\ Helpers = Worker \ {0}
          /\ fires \in [Worker -> Nat] /\ pushes \in [Worker -> Nat]
          /\ bag \in [Worker -> Seq(Elem)]
          /\ \A w \in Helpers : pc[w] \in HelperPc
          /\ nf.left \in Nat
      BY WorkerFinite, SetupTypes DEF TypeOK, NfType, Helpers
    <2>2. /\ \A w \in Helpers : pc[w] \notin LoopPc
          /\ spawned /\ \A w \in Helpers : pc[w] # "exited" /\ pc[w] # "unborn"
      BY <2>1 DEF Control, Places, InDrain, LoopPc
    <2>3. \A w \in Worker \ {0} : pc[w] = "park"
      BY <2>1, <2>2 DEF HelperPc
    <2>4. \A w \in Worker : bag[w] = <<>> /\ pc[w] \notin {"fire", "push"}
      BY <2>1, <2>3 DEF Control, Owned, OwnPc
    <2>5. \A w \in Worker : Len(bag[w]) = 0 /\ InHand(w) = 0
      BY <2>4, EmptySeq DEF InHand
    <2>6. Net = [w \in Worker |-> fires[w] - pushes[w]]
      BY <2>1, <2>5 DEF Net
    <2>7. /\ SumFunction(Net) = SumFunction(fires) - SumFunction(pushes)
          /\ SumFunction(fires) \in Int /\ SumFunction(pushes) \in Int
      <3>1. /\ fires \in [Worker -> Int] /\ pushes \in [Worker -> Int]
            /\ Net \in [Worker -> Int]
            /\ \A w \in Worker : Net[w] = fires[w] - pushes[w]
        BY <2>1, <2>6
      <3>2. IsFiniteSet(Worker)
        BY <2>1
      <3>3. SumFunction(Net) = SumFunction(fires) - SumFunction(pushes)
        BY ONLY <3>1, <3>2, SumDifference
      <3>4. SumFunction(fires) \in Int /\ SumFunction(pushes) \in Int
        BY ONLY <3>1, <3>2, SumType
      <3> QED
        BY <3>3, <3>4
    <2>8. SumFunction(Net) = nf.left
      BY DEF Work, Balance
    <2>9. SumFunction(fires) = SumFunction(pushes) + nf.left
      BY <2>1, <2>7, <2>8
    <2> QED
      BY <2>3, <2>4, <2>9
  <1> QED
    BY <1>1, Invariance, PTL

\* What nf returns has no redex left but REF and ALO, and in a step session
\* those it never showed, whichever worker fired what, unless the cap on
\* firings stopped it or seeds did not fit.
THEOREM NormalFormReached == Spec => []NormalForm
  <1>1. TypeOK /\ Control /\ Work => NormalForm
    BY DEF Work
  <1> QED
    BY <1>1, Invariance, PTL
=============================================================================
