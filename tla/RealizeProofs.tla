--------------------------- MODULE RealizeProofs ---------------------------
(***************************************************************************)
(* Proofs about the ASSIGN claims of Realize (assign_fire_claim), in every *)
(* session with captures, for every program, table and window: a cell      *)
(* writes once in a realize, unless more cells share its window than it    *)
(* has entries.  The inductive invariant has these parts:                  *)
(*   Stale     no entry is of a later pass; none of this one while it is   *)
(*             compiled;                                                   *)
(*   Placed    an entry of this pass is in the window of its cell, after   *)
(*             entries of this pass only, and is the only one of the cell; *)
(*   Written   each sub-pass that is over has written its cell;            *)
(*   Kept      a cell with few rivals, once written, keeps its entry.      *)
(***************************************************************************)
EXTENDS Capture, Sums, SequenceTheorems

SubPass  == [top : Nat, loc : Nat, dst : Nat, src : Nat]
Indices == 0 .. ClaimCap - 1
Compiling == phase \in {"plan", "emit"}
Firing    == phase \in {"start", "fire", "next", "end"}

TypeOK ==
  /\ prog \in Programs /\ pass \in 0 .. Len(prog.realizes) /\ epoch \in Nat
  /\ claims \in [Indices -> [epoch : Nat, loc : Nat]]
  /\ wrote \in [DOMAIN wrote -> Nat]
  /\ \A r \in DOMAIN prog.realizes : \A i \in DOMAIN prog.realizes[r] :
       prog.realizes[r][i].loc \in DOMAIN wrote
  /\ phase = "idle" \/ Compiling \/ Firing
  /\ phase \in {"idle", "end"} => here = 1
  /\ phase # "idle" => pass # 0 /\ here \in DOMAIN Subs

\* Entry i is of this pass.
Now(i) == claims[i].epoch = epoch
InWindow(i, w) == i = Window(claims[i].loc)[w]

Stale ==
  /\ \A i \in Indices : claims[i].epoch <= epoch
  /\ Compiling => /\ \A i \in Indices : ~Now(i)
                  /\ \A l \in Locs : wrote[l] = 0

Placed ==
  /\ \A i \in Indices : Now(i) =>
       /\ claims[i].loc \in Locs /\ wrote[claims[i].loc] # 0
       /\ \E w \in 1 .. ClaimWays :
            InWindow(i, w) /\ \A x \in 1 .. w - 1 : Now(Window(claims[i].loc)[x])
  /\ \A i, j \in Indices : Now(i) /\ Now(j) /\ claims[i].loc = claims[j].loc => i = j

\* The sub-passes before this one, and this one once it wrote.
Past(i) == i < here \/ phase = "end" \/ (phase = "next" /\ i = here)
Written == \A i \in DOMAIN Subs : Past(i) /\ Subs[i].loc # 0 => wrote[Subs[i].loc] # 0

Kept ==
  \A l \in Locs : wrote[l] # 0 /\ Cardinality(Rivals(l)) <= ClaimWays =>
    wrote[l] = 1 /\ \E i \in Indices : Now(i) /\ claims[i].loc = l

CInv == TypeOK /\ Stale /\ (Compiling \/ Firing => Placed /\ Kept) /\ (Firing => Written)

----------------------------------------------------------------------------
(* The windows of the table.                                                 *)

LEMMA Base ==
  ASSUME NEW i \in Nat
  PROVE  /\ i % ClaimCap \in Indices /\ i \div ClaimCap \in Nat
         /\ i = ClaimCap * (i \div ClaimCap) + (i % ClaimCap)
BY Caps, SMTT(30) DEF Indices

\* Entries that are the same a number of steps around the table stay so.
LEMMA Around ==
  ASSUME NEW i \in Nat, NEW j \in Nat, NEW d \in Nat, i % ClaimCap = j % ClaimCap
  PROVE  (i + d) % ClaimCap = (j + d) % ClaimCap
  <1>1. ClaimCap \in Nat \ {0}
    BY Caps
  <1>2. PICK p \in Nat, q \in Nat, r \in Indices : i = ClaimCap * p + r /\ j = ClaimCap * q + r
    BY Base
  <1>3. PICK s \in Nat, t \in Indices :
           i + d = ClaimCap * s + t /\ t = (i + d) % ClaimCap
    <2>1. i + d \in Nat
      OBVIOUS
    <2> QED
      BY <2>1, Base
  <1>4. PICK u \in Nat, v \in Indices :
           j + d = ClaimCap * u + v /\ v = (j + d) % ClaimCap
    <2>1. j + d \in Nat
      OBVIOUS
    <2> QED
      BY <2>1, Base
  <1>5. PICK e \in Int : e = p - q - s + u
    OBVIOUS
  <1>7. t - v = ClaimCap * e
    <2>1. ClaimCap * e = ClaimCap * p - ClaimCap * q - ClaimCap * s + ClaimCap * u
      BY <1>1, <1>2, <1>3, <1>4, <1>5, SMTT(20)
    <2>2. PICK P \in Int, Q \in Int, S \in Int, U \in Int :
             P = ClaimCap * p /\ Q = ClaimCap * q /\ S = ClaimCap * s /\ U = ClaimCap * u
      BY <1>1
    <2>3. i = P + r /\ j = Q + r /\ i + d = S + t /\ j + d = U + v
      BY <1>2, <1>3, <1>4, <2>2
    <2>4. t - v = P - Q - S + U
      BY <1>1, <1>2, <1>3, <1>4, <2>2, <2>3 DEF Indices
    <2> QED
      BY <2>1, <2>2, <2>4
  <1>8. t - v < ClaimCap /\ v - t < ClaimCap
    BY <1>1, <1>3, <1>4 DEF Indices
  <1>9. CASE e = 0
    BY <1>1, <1>3, <1>4, <1>7, <1>9 DEF Indices
  <1>10. CASE e >= 1
    <2>1. ClaimCap * e >= ClaimCap
      BY <1>1, <1>5, <1>10, SMTT(20)
    <2> QED
      BY <2>1, <1>1, <1>3, <1>4, <1>7, <1>8 DEF Indices
  <1>11. CASE e <= 0 - 1
    <2>1. ClaimCap * e <= 0 - ClaimCap
      BY <1>1, <1>5, <1>11, SMTT(20)
    <2> QED
      BY <2>1, <1>1, <1>3, <1>4, <1>7, <1>8 DEF Indices
  <1> QED
    BY <1>5, <1>9, <1>10, <1>11

LEMMA Distinct ==
  ASSUME NEW i \in Nat, NEW j \in Nat, i < j, j < i + ClaimCap
  PROVE  i % ClaimCap # j % ClaimCap
  <1> SUFFICES ASSUME i % ClaimCap = j % ClaimCap PROVE FALSE
    OBVIOUS
  <1>1. ClaimCap \in Nat \ {0}
    BY Caps
  <1>2. PICK p \in Nat, q \in Nat, r \in Indices : i = ClaimCap * p + r /\ j = ClaimCap * q + r
    BY Base
  <1>3. CASE q <= p
    <2>1. ClaimCap * q <= ClaimCap * p
      BY <1>1, <1>2, <1>3, SMTT(20)
    <2> QED
      BY <2>1, <1>1, <1>2 DEF Indices
  <1>4. CASE q >= p + 1
    <2>1. ClaimCap * q >= ClaimCap * p + ClaimCap
      BY <1>1, <1>2, <1>4, SMTT(20)
    <2> QED
      BY <2>1, <1>1, <1>2 DEF Indices
  <1> QED
    BY <1>2, <1>3, <1>4

LEMMA WindowFacts ==
  ASSUME NEW l \in Nat
  PROVE  /\ Window(l) \in [1 .. ClaimWays -> Indices]
         /\ \A x, y \in 1 .. ClaimWays : x # y => Window(l)[x] # Window(l)[y]
  <1>1. ClaimWays \in Nat \ {0} /\ ClaimCap \in Nat \ {0} /\ ClaimWays <= ClaimCap
    BY Caps
  <1>2. PICK h \in Nat : h = l \div 16
    BY SMTT(20)
  <1>3. Window(l) = [w \in 1 .. ClaimWays |-> (h + w - 1) % ClaimCap]
    BY <1>2 DEF Window
  <1>4. ASSUME NEW w \in 1 .. ClaimWays
        PROVE  h + w - 1 \in Nat
    BY <1>1
  <1>5. Window(l) \in [1 .. ClaimWays -> Indices]
    BY <1>3, <1>4, Base
  <1>6. ASSUME NEW x \in 1 .. ClaimWays, NEW y \in 1 .. ClaimWays, x < y
        PROVE  Window(l)[x] # Window(l)[y]
    <2>1. h + x - 1 \in Nat /\ h + y - 1 \in Nat
      BY <1>4
    <2>2. h + x - 1 < h + y - 1 /\ h + y - 1 < h + x - 1 + ClaimCap
      BY <1>1, <1>6
    <2>3. (h + x - 1) % ClaimCap # (h + y - 1) % ClaimCap
      BY <2>1, <2>2, Distinct
    <2> QED
      BY <1>3, <2>3
  <1>7. \A x, y \in 1 .. ClaimWays : x # y => x < y \/ y < x
    BY <1>1
  <1> QED
    BY <1>5, <1>6, <1>7

\* From an entry that is the base of m on, the window of l lies in that of m.
LEMMA Overlap ==
  ASSUME NEW l \in Nat, NEW m \in Nat, NEW w \in 1 .. ClaimWays,
         Window(l)[w] = Window(m)[1], NEW x \in w .. ClaimWays
  PROVE  \E y \in 1 .. ClaimWays : Window(l)[x] = Window(m)[y]
  <1>1. ClaimWays \in Nat \ {0}
    BY Caps
  <1>2. PICK h \in Nat, b \in Nat : h = l \div 16 /\ b = m \div 16
    BY SMTT(20)
  <1>3. /\ Window(l) = [z \in 1 .. ClaimWays |-> (h + z - 1) % ClaimCap]
        /\ Window(m) = [z \in 1 .. ClaimWays |-> (b + z - 1) % ClaimCap]
    BY <1>2 DEF Window
  <1>4. PICK i \in Nat, d \in Nat : i = h + w - 1 /\ d = x - w /\ d + 1 \in 1 .. ClaimWays
    BY <1>1
  <1>5. /\ w \in 1 .. ClaimWays /\ 1 \in 1 .. ClaimWays /\ x \in 1 .. ClaimWays
        /\ b + 1 - 1 = b /\ h + x - 1 = i + d /\ b + (d + 1) - 1 = b + d
    BY <1>1, <1>4
  <1>6. i % ClaimCap = b % ClaimCap
    BY <1>3, <1>4, <1>5
  <1>7. (i + d) % ClaimCap = (b + d) % ClaimCap
    BY <1>6, Around
  <1> QED
    BY <1>3, <1>4, <1>5, <1>7

----------------------------------------------------------------------------
(* The cells of a realize and the probe of one.                              *)

LEMMA Shape ==
  ASSUME TypeOK, phase # "idle"
  PROVE  /\ Subs \in Seq(SubPass) /\ Len(Subs) \in Nat \ {0}
         /\ here \in 1 .. Len(Subs) /\ DOMAIN Subs = 1 .. Len(Subs) /\ Sub \in SubPass
         /\ \A i \in DOMAIN Subs : Subs[i].loc # 0 => Subs[i].loc \in Locs
         /\ \A l \in Locs : /\ l \in Nat \ {0} /\ l \in DOMAIN wrote /\ wrote[l] \in Nat
                            /\ \E i \in DOMAIN Subs : Subs[i].loc = l
         /\ IsFiniteSet(Locs)
  <1>1. prog.realizes \in Seq(Seq(SubPass) \ {<<>>})
    BY ProgramShape DEF TypeOK, SubPass
  <1>2. pass \in DOMAIN prog.realizes
    <2>1. PICK n \in Nat : n = Len(prog.realizes) /\ DOMAIN prog.realizes = 1 .. n
      BY <1>1, LenProperties
    <2>2. pass \in 0 .. n /\ pass # 0
      BY <2>1 DEF TypeOK
    <2> QED
      BY <2>1, <2>2
  <1>3. Subs \in Seq(SubPass) /\ Subs # <<>>
    BY <1>1, <1>2, ElementOfSeq, LenProperties DEF Subs
  <1>4. PICK n \in Nat \ {0} : Len(Subs) = n /\ DOMAIN Subs = 1 .. n
    BY <1>3, LenProperties, EmptySeq
  <1>5. \A i \in 1 .. n : Subs[i] \in SubPass
    BY <1>3, <1>4, ElementOfSeq
  <1>6. here \in DOMAIN Subs
    BY DEF TypeOK
  <1>7. \A i \in DOMAIN Subs : Subs[i].loc \in Nat /\ Subs[i].loc \in DOMAIN wrote
    <2>1. \A i \in DOMAIN Subs : Subs[i].loc \in DOMAIN wrote
      BY <1>2 DEF TypeOK, Subs
    <2> QED
      BY <2>1, <1>4, <1>5 DEF SubPass
  <1>8. IsFiniteSet(Locs)
    <2> DEFINE all == {Subs[i].loc : i \in DOMAIN Subs}
               f   == [i \in 1 .. n |-> Subs[i].loc]
    <2>1. f \in Surjection(1 .. n, all)
      BY <1>4 DEF Surjection
    <2>2. IsFiniteSet(1 .. n)
      BY FS_Interval
    <2>3. IsFiniteSet(all)
      <3> HIDE DEF all, f
      <3> QED
        BY <2>1, <2>2, FS_Surjection
    <2>4. Locs \in SUBSET all
      BY DEF Locs
    <2> HIDE DEF all
    <2> QED
      BY <2>3, <2>4, FS_Subset
  <1>9. \A l \in Locs : /\ l \in Nat \ {0} /\ l \in DOMAIN wrote
                        /\ \E i \in DOMAIN Subs : Subs[i].loc = l
    BY <1>7 DEF Locs
  <1>10. \A l \in DOMAIN wrote : wrote[l] \in Nat
    BY DEF TypeOK
  <1> QED
    BY <1>3, <1>4, <1>5, <1>6, <1>8, <1>9, <1>10 DEF Locs, Sub

LEMMA Frame ==
  ASSUME prog' = prog, pass' = pass
  PROVE  /\ Subs' = Subs /\ Locs' = Locs
         /\ \A l : Rivals(l)' = Rivals(l)
BY DEF Subs, Locs, Rivals, Window

\* Where a probe stops: before a free entry or its own, all are of this pass and
\* of others, and so is the whole window where it takes the base.
LEMMA Probed ==
  ASSUME TypeOK, NEW m \in Nat
  PROVE  \E w \in 1 .. ClaimWays :
           /\ Probe(m) = Window(m)[w]
           /\ \A x \in 1 .. w - 1 : Now(Window(m)[x]) /\ claims[Window(m)[x]].loc # m
           /\ \/ ~Now(Window(m)[w]) \/ claims[Window(m)[w]].loc = m
              \/ /\ w = 1
                 /\ \A x \in 1 .. ClaimWays :
                      Now(Window(m)[x]) /\ claims[Window(m)[x]].loc # m
  <1> DEFINE stop == {w \in 1 .. ClaimWays : \/ claims[Window(m)[w]].epoch # epoch
                                             \/ claims[Window(m)[w]].loc = m}
  <1>1. ClaimWays \in Nat \ {0}
    BY Caps
  <1>2. Probe(m) = IF stop = {} THEN Window(m)[1]
                   ELSE Window(m)[CHOOSE w \in stop : \A x \in stop : w <= x]
    BY DEF Probe
  <1>3. CASE stop = {}
    BY <1>1, <1>2, <1>3 DEF Now
  <1>4. CASE stop # {}
    <2>1. stop \subseteq Nat
      BY <1>1
    <2>2. \E w \in stop : \A x \in stop : w <= x
      <3> HIDE DEF stop
      <3> QED
        BY <1>4, <2>1, Least
    <2>3. PICK w \in stop : /\ Probe(m) = Window(m)[w]
                            /\ \A x \in stop : w <= x
      <3> HIDE DEF stop
      <3> QED
        BY <1>2, <1>4, <2>2
    <2>4. \A x \in 1 .. w - 1 : x \in 1 .. ClaimWays /\ x \notin stop
      <3>1. \A x \in 1 .. w - 1 : x \in 1 .. ClaimWays /\ ~(w <= x)
        BY <1>1, <2>1, <2>3
      <3> QED
        BY <3>1, <2>3
    <2> QED
      BY <2>3, <2>4 DEF Now
  <1> QED
    BY <1>3, <1>4

\* A cell that has an entry finds it.
LEMMA Found ==
  ASSUME TypeOK, Placed, NEW m \in Nat, NEW i \in Indices, Now(i), claims[i].loc = m
  PROVE  Claimed(m)
  <1>1. PICK u \in 1 .. ClaimWays :
          i = Window(m)[u] /\ \A x \in 1 .. u - 1 : Now(Window(m)[x])
    BY DEF Placed, InWindow
  <1>2. PICK w \in 1 .. ClaimWays :
           /\ Probe(m) = Window(m)[w]
           /\ \A x \in 1 .. w - 1 : Now(Window(m)[x]) /\ claims[Window(m)[x]].loc # m
           /\ \/ ~Now(Window(m)[w]) \/ claims[Window(m)[w]].loc = m
              \/ \A x \in 1 .. ClaimWays : claims[Window(m)[x]].loc # m
    BY Probed
  <1>3. u \notin 1 .. w - 1
    BY <1>1, <1>2
  <1>4. Now(Window(m)[w])
    <2>1. w = u \/ w \in 1 .. u - 1
      BY <1>3, Caps
    <2> QED
      BY <1>1, <2>1
  <1>5. claims[Window(m)[w]].loc = m
    BY <1>1, <1>2, <1>4
  <1>6. Window(m)[w] \in Indices
    BY WindowFacts
  <1>7. claims[Window(m)[w]] \in [epoch : Nat, loc : Nat]
    BY <1>6 DEF TypeOK
  <1> QED
    BY <1>2, <1>4, <1>5, <1>7 DEF Claimed, Now

----------------------------------------------------------------------------
(* An eviction.                                                              *)

\* Cell m is to take the entry of l, all of its own window being taken.  Then so
\* is the window of l: by as many cells, all of them rivals of l, and m is not
\* one of them.
LEMMA Outnumbered ==
  ASSUME TypeOK, Placed, phase # "idle", NEW m \in Locs, NEW l \in Locs,
         \A i \in Indices : ~(Now(i) /\ claims[i].loc = m),
         \A x \in 1 .. ClaimWays : Now(Window(m)[x]),
         claims[Window(m)[1]].loc = l
  PROVE  Cardinality(Rivals(l)) \in Nat /\ Cardinality(Rivals(l)) > ClaimWays
  <1>1. ClaimWays \in Nat \ {0} /\ 1 \in 1 .. ClaimWays
    BY Caps
  <1>2. l \in Nat /\ m \in Nat /\ IsFiniteSet(Locs)
    BY Shape
  <1>3. /\ Window(l) \in [1 .. ClaimWays -> Indices] /\ Window(m) \in [1 .. ClaimWays -> Indices]
        /\ \A x, y \in 1 .. ClaimWays : x # y => Window(l)[x] # Window(l)[y]
    BY <1>2, WindowFacts
  <1>4. Window(m)[1] \in Indices /\ Now(Window(m)[1])
    BY <1>1, <1>3
  <1>5. PICK w \in 1 .. ClaimWays :
          /\ Window(m)[1] = Window(l)[w]
          /\ \A x \in 1 .. w - 1 : Now(Window(l)[x])
    BY <1>4 DEF Placed, InWindow
  <1>6. \A x \in 1 .. ClaimWays : Now(Window(l)[x])
    <2>1. ASSUME NEW x \in w .. ClaimWays
          PROVE  Now(Window(l)[x])
      <3>1. PICK y \in 1 .. ClaimWays : Window(l)[x] = Window(m)[y]
        BY <1>2, <1>5, Overlap
      <3> QED
        BY <3>1
    <2>2. \A x \in 1 .. ClaimWays : x \in 1 .. w - 1 \/ x \in w .. ClaimWays
      BY <1>1
    <2> QED
      BY <1>5, <2>1, <2>2
  <1> DEFINE f == [x \in 1 .. ClaimWays |-> claims[Window(l)[x]].loc]
  <1>7. ASSUME NEW x \in 1 .. ClaimWays
        PROVE  /\ f[x] \in Rivals(l) \ {m}
               /\ \A y \in 1 .. ClaimWays : x # y => f[x] # f[y]
    <2>1. Window(l)[x] \in Indices /\ Now(Window(l)[x])
      BY <1>3, <1>6
    <2>2. PICK c \in Locs : claims[Window(l)[x]].loc = c
      BY <2>1 DEF Placed
    <2>3. c # m
      BY <2>1, <2>2
    <2>4. PICK z \in 1 .. ClaimWays : Window(l)[x] = Window(c)[z]
      BY <2>1, <2>2 DEF Placed, InWindow
    <2>5. Window(c) \in [1 .. ClaimWays -> Indices]
      BY <2>2, WindowFacts, Shape
    <2>6. Window(l)[x] \in Range(Window(c)) \cap Range(Window(l))
      BY <1>3, <2>4, <2>5 DEF Range
    <2>7. c \in Rivals(l)
      BY <2>6 DEF Rivals
    <2>8. ASSUME NEW y \in 1 .. ClaimWays, x # y
          PROVE  claims[Window(l)[y]].loc # c
      <3>1. Window(l)[y] \in Indices /\ Now(Window(l)[y]) /\ Window(l)[y] # Window(l)[x]
        BY <1>3, <1>6, <2>8
      <3> QED
        BY <2>1, <2>2, <3>1 DEF Placed
    <2> QED
      BY <2>2, <2>3, <2>7, <2>8
  <1>8. m \in Rivals(l)
    <2>1. Window(m)[1] \in Range(Window(m)) \cap Range(Window(l))
      BY <1>1, <1>3, <1>5 DEF Range
    <2> QED
      BY <2>1 DEF Rivals
  <1>9. f \in Injection(1 .. ClaimWays, Rivals(l) \ {m})
    BY <1>7 DEF Injection, IsInjective
  <1>10. IsFiniteSet(Rivals(l))
    <2>1. Rivals(l) \in SUBSET Locs
      BY DEF Rivals
    <2> QED
      BY <1>2, <2>1, FS_Subset
  <1>11. /\ IsFiniteSet(Rivals(l) \ {m}) /\ Cardinality(Rivals(l)) \in Nat
         /\ Cardinality(Rivals(l) \ {m}) = Cardinality(Rivals(l)) - 1
    BY <1>8, <1>10, FS_RemoveElement, FS_CardinalityType
  <1>12. Cardinality(1 .. ClaimWays) = ClaimWays
    <2>1. 1 \in Int /\ ClaimWays \in Int /\ ~(1 > ClaimWays) /\ ClaimWays - 1 + 1 = ClaimWays
      BY <1>1
    <2> QED
      BY <2>1, FS_Interval
  <1>13. Cardinality(1 .. ClaimWays) <= Cardinality(Rivals(l) \ {m})
    <2> HIDE DEF f
    <2> QED
      BY <1>9, <1>11, FS_Injection
  <1> QED
    BY <1>1, <1>11, <1>12, <1>13

----------------------------------------------------------------------------
(* The steps.                                                                *)

LEMMA Initially == CaptureInit => CInv
  <1> SUFFICES ASSUME CaptureInit PROVE CInv
    OBVIOUS
  <1> USE DEF CaptureInit, Init
  <1>1. prog.realizes \in Seq(Seq(SubPass) \ {<<>>})
    BY ProgramShape DEF SubPass
  <1>2. DOMAIN wrote = UNION {{s.loc : s \in Range(prog.realizes[r])} : r \in DOMAIN prog.realizes}
    OBVIOUS
  <1>3. ASSUME NEW r \in DOMAIN prog.realizes, NEW i \in DOMAIN prog.realizes[r]
        PROVE  prog.realizes[r][i].loc \in DOMAIN wrote
    BY <1>2 DEF Range
  <1>4. wrote \in [DOMAIN wrote -> Nat]
    OBVIOUS
  <1>5. claims \in [Indices -> [epoch : Nat, loc : Nat]] /\ \A i \in Indices : claims[i].epoch <= epoch
    BY DEF Indices
  <1>6. pass \in 0 .. Len(prog.realizes) /\ epoch \in Nat
    BY <1>1, LenProperties
  <1>7. TypeOK
    BY <1>3, <1>4, <1>5, <1>6 DEF TypeOK
  <1> QED
    BY <1>5, <1>7 DEF CInv, Stale, Compiling, Firing

\* The variables of the claims: what no other step writes.
Claiming == <<prog, pass, phase, here, epoch, claims, wrote>>

\* What the parts say of the table, where it does not change.
LEMMA Unchanged ==
  ASSUME UNCHANGED <<prog, pass, epoch, claims, wrote>>
  PROVE  (Placed => Placed') /\ (Kept => Kept')
  <1>1. Subs' = Subs /\ Locs' = Locs /\ \A l : Rivals(l)' = Rivals(l)
    BY Frame
  <1>2. ASSUME Placed PROVE Placed'
    <2>1. ASSUME NEW i \in Indices, Now(i)
          PROVE  /\ claims'[i].loc \in Locs' /\ wrote'[claims'[i].loc] # 0
                 /\ \E w \in 1 .. ClaimWays :
                      /\ i = Window(claims[i].loc)[w]
                      /\ \A x \in 1 .. w - 1 : Now(Window(claims[i].loc)[x])
      BY <1>1, <1>2, <2>1 DEF Placed, InWindow
    <2>2. \A i, j \in Indices : Now(i) /\ Now(j) /\ claims[i].loc = claims[j].loc => i = j
      BY <1>2 DEF Placed
    <2>3. UNCHANGED <<Indices, epoch, claims>>
      BY DEF Indices
    <2>4. ASSUME NEW i \in Indices, NEW w \in 1 .. ClaimWays,
                 i = Window(claims[i].loc)[w],
                 \A x \in 1 .. w - 1 : Now(Window(claims[i].loc)[x])
          PROVE  InWindow(i, w)' /\ \A x \in 1 .. w - 1 : Now(Window(claims[i].loc)[x])'
      BY <2>3, <2>4 DEF InWindow, Now, Window
    <2>5. \A i : Now(i)' <=> Now(i)
      BY <2>3 DEF Now
    <2>6. ASSUME NEW i \in Indices, Now(i)'
          PROVE  /\ claims'[i].loc \in Locs' /\ wrote'[claims'[i].loc] # 0
                 /\ \E w \in 1 .. ClaimWays :
                      InWindow(i, w)' /\ \A x \in 1 .. w - 1 : Now(Window(claims[i].loc)[x])'
      <3>1. Now(i)
        BY <2>5, <2>6
      <3> QED
        BY <2>1, <2>4, <3>1
    <2>7. \A i, j \in Indices :
            Now(i)' /\ Now(j)' /\ claims'[i].loc = claims'[j].loc => i = j
      BY <2>2, <2>3, <2>5
    <2> QED
      BY <2>3, <2>6, <2>7 DEF Placed
  <1>3. Kept => Kept'
    BY <1>1 DEF Kept, Now, Indices
  <1> QED
    BY <1>2, <1>3

LEMMA Idle ==
  ASSUME CInv, UNCHANGED Claiming
  PROVE  CInv'
  <1>1. /\ UNCHANGED <<prog, pass, epoch, claims, wrote>>
        /\ phase' = phase /\ here' = here
    BY DEF Claiming
  <1>2. Subs' = Subs /\ Locs' = Locs
    BY <1>1, Frame
  <1>3. (Compiling' <=> Compiling) /\ (Firing' <=> Firing) /\ \A i : Past(i)' <=> Past(i)
    BY <1>1 DEF Compiling, Firing, Past
  <1>4. TypeOK'
    BY <1>1, <1>2, <1>3 DEF CInv, TypeOK, Indices
  <1>5. Stale'
    BY <1>1, <1>2, <1>3 DEF CInv, Stale, Now, Indices
  <1>6. Written => Written'
    BY <1>1, <1>2, <1>3 DEF Written
  <1> QED
    BY <1>1, <1>3, <1>4, <1>5, <1>6, Unchanged DEF CInv

\* A step that only moves on in the schedule of a realize: what is over in the
\* next state was over before, or has nothing to write, or has written.
LEMMA Moved ==
  ASSUME CInv, phase # "idle", UNCHANGED <<prog, pass, epoch, claims, wrote>>,
         here' \in DOMAIN Subs, phase' = "end" => here' = 1,
         phase' \in {"plan", "emit", "start", "fire", "next", "end"}, Compiling' => Compiling,
         \A i \in DOMAIN Subs :
           Firing' /\ Past(i)' /\ Subs[i].loc # 0 =>
             (Firing /\ Past(i)) \/ wrote[Subs[i].loc] # 0
  PROVE  CInv'
  <1>1. Subs' = Subs /\ Locs' = Locs /\ \A l : Rivals(l)' = Rivals(l)
    BY Frame
  <1>2. phase' # "idle" /\ (Compiling \/ Firing)
    BY DEF CInv, TypeOK
  <1>3. TypeOK'
    <2>1. Compiling' \/ Firing'
      BY DEF Compiling, Firing
    <2> QED
      BY <1>1, <1>2, <2>1 DEF CInv, TypeOK, Indices
  <1>4. Stale'
    BY <1>1 DEF CInv, Stale, Now, Indices
  <1>5. Placed' /\ Kept'
    BY <1>2, Unchanged DEF CInv
  <1>6. Firing' => Written'
    BY <1>1 DEF CInv, Written
  <1> QED
    BY <1>3, <1>4, <1>5, <1>6 DEF CInv

LEMMA PlanStep == ASSUME CInv, Plan PROVE CInv'
  <1>1. /\ phase = "plan" /\ phase' = "emit" /\ here' = here
        /\ UNCHANGED <<prog, pass, epoch, claims, wrote>>
    BY DEF Plan, memo_vars, history
  <1>2. here \in DOMAIN Subs
    BY <1>1 DEF CInv, TypeOK
  <1> QED
    BY <1>1, <1>2, Moved DEF Compiling, Firing

LEMMA CompiledStep == ASSUME CInv, Compiled PROVE CInv'
  <1>1. phase = "emit" /\ UNCHANGED <<prog, pass, epoch, claims, wrote>>
    BY DEF Compiled, memo_vars, history
  <1>2. /\ here \in 1 .. Len(Subs) /\ DOMAIN Subs = 1 .. Len(Subs) /\ Len(Subs) \in Nat \ {0}
    BY <1>1, Shape DEF CInv
  <1>3. CASE here < Len(Subs)
    <2>1. here' = here + 1 /\ phase' = "plan"
      BY <1>3 DEF Compiled
    <2>2. here' \in DOMAIN Subs
      BY <1>2, <1>3, <2>1
    <2> QED
      BY <1>1, <2>1, <2>2, Moved DEF Compiling, Firing
  <1>4. CASE ~(here < Len(Subs))
    <2>1. here' = 1 /\ phase' = "start" /\ 1 \in DOMAIN Subs
      BY <1>2, <1>4 DEF Compiled
    <2>2. \A i \in DOMAIN Subs : ~Past(i)'
      BY <1>2, <2>1 DEF Past
    <2> QED
      BY <1>1, <2>1, <2>2, Moved DEF Compiling
  <1> QED
    BY <1>3, <1>4

LEMMA StartStep == ASSUME CInv, Start PROVE CInv'
  <1>1. /\ phase = "start" /\ phase' = "fire" /\ here' = here
        /\ UNCHANGED <<prog, pass, epoch, claims, wrote>>
    BY DEF Start, history
  <1>2. here \in DOMAIN Subs
    BY <1>1 DEF CInv, TypeOK
  <1>3. \A i : Past(i)' => Past(i)
    BY <1>1 DEF Past
  <1> QED
    BY <1>1, <1>2, <1>3, Moved DEF Compiling, Firing

LEMMA PlainStep == ASSUME CInv, Plain PROVE CInv'
  <1>1. /\ phase = "fire" /\ phase' = "next" /\ here' = here /\ Subs[here].loc = 0
        /\ UNCHANGED <<prog, pass, epoch, claims, wrote>>
    BY DEF Plain, Sub, memo_vars, history
  <1>2. here \in DOMAIN Subs
    BY <1>1 DEF CInv, TypeOK
  <1>3. \A i : Past(i)' /\ Subs[i].loc # 0 => Past(i)
    BY <1>1 DEF Past
  <1> QED
    BY <1>1, <1>2, <1>3, Moved DEF Compiling, Firing

LEMMA AdvanceStep == ASSUME CInv, Advance PROVE CInv'
  <1>1. phase = "next" /\ UNCHANGED <<prog, pass, epoch, claims, wrote>>
    BY DEF Advance, memo_vars, history
  <1>2. /\ here \in 1 .. Len(Subs) /\ DOMAIN Subs = 1 .. Len(Subs) /\ Len(Subs) \in Nat \ {0}
    BY <1>1, Shape DEF CInv
  <1>3. CASE here < Len(Subs)
    <2>1. here' = here + 1 /\ phase' = "start"
      BY <1>3 DEF Advance
    <2>2. here' \in DOMAIN Subs
      BY <1>2, <1>3, <2>1
    <2>3. \A i \in DOMAIN Subs : Past(i)' => Past(i)
      BY <1>1, <1>2, <2>1 DEF Past
    <2> QED
      BY <1>1, <2>1, <2>2, <2>3, Moved DEF Compiling, Firing
  <1>4. CASE ~(here < Len(Subs))
    <2>1. here' = 1 /\ phase' = "end" /\ 1 \in DOMAIN Subs
      BY <1>2, <1>4 DEF Advance
    <2>2. \A i \in DOMAIN Subs : Past(i)
      BY <1>1, <1>2, <1>4 DEF Past
    <2> QED
      BY <1>1, <2>1, <2>2, Moved DEF Compiling, Firing
  <1> QED
    BY <1>3, <1>4

LEMMA EndStep == ASSUME CInv, End PROVE CInv'
  <1>1. /\ phase = "end" /\ phase' = "idle" /\ UNCHANGED <<prog, pass, here, epoch, claims, wrote>>
    BY DEF End, memo_vars
  <1>2. here' = 1
    BY <1>1 DEF CInv, TypeOK
  <1>3. TypeOK'
    BY <1>1, <1>2 DEF CInv, TypeOK, Indices
  <1> QED
    BY <1>1, <1>3 DEF CInv, Stale, Compiling, Firing, Indices

LEMMA BeginStep == ASSUME CInv, Begin PROVE CInv'
  <1>1. /\ phase = "idle" /\ pass < Len(prog.realizes) /\ pass' = pass + 1 /\ phase' = "plan"
        /\ epoch' = epoch + 1 /\ wrote' = [l \in DOMAIN wrote |-> 0]
        /\ UNCHANGED <<prog, here, claims>>
    BY DEF Begin
  <1>2. /\ prog.realizes \in Seq(Seq(SubPass) \ {<<>>})
        /\ pass \in 0 .. Len(prog.realizes) /\ epoch \in Nat /\ here = 1
        /\ claims \in [Indices -> [epoch : Nat, loc : Nat]]
    BY <1>1, ProgramShape DEF CInv, TypeOK, SubPass
  <1>3. PICK n \in Nat : n = Len(prog.realizes) /\ DOMAIN prog.realizes = 1 .. n
    BY <1>2, LenProperties
  <1>4. pass' \in 1 .. n
    BY <1>1, <1>2, <1>3
  <1>5. prog.realizes[pass'] \in Seq(SubPass) /\ prog.realizes[pass'] # <<>>
    BY <1>2, <1>3, <1>4, ElementOfSeq
  <1>6. 1 \in DOMAIN Subs'
    <2>1. Subs' = prog.realizes[pass']
      BY <1>1 DEF Subs
    <2>2. PICK k \in Nat \ {0} : k = Len(prog.realizes[pass'])
                                /\ DOMAIN prog.realizes[pass'] = 1 .. k
      BY <1>5, LenProperties, EmptySeq
    <2> QED
      BY <2>1, <2>2
  <1>7. DOMAIN wrote' = DOMAIN wrote /\ \A l \in DOMAIN wrote : wrote'[l] = 0
    BY <1>1
  <1>8. TypeOK'
    <2>1. pass' \in 0 .. n /\ pass' # 0 /\ epoch' \in Nat
      BY <1>1, <1>2, <1>3, <1>4
    <2>2. wrote' \in [DOMAIN wrote' -> Nat]
      BY <1>1, <1>7
    <2>3. Indices' = Indices
      BY DEF Indices
    <2>4. Compiling'
      BY <1>1 DEF Compiling
    <2> QED
      BY <1>1, <1>2, <1>3, <1>6, <1>7, <2>1, <2>2, <2>3, <2>4 DEF CInv, TypeOK
  <1>9. \A i \in Indices : claims'[i].epoch <= epoch' /\ claims'[i].epoch # epoch'
    <2>1. \A i \in Indices : claims[i].epoch \in Nat /\ claims[i].epoch <= epoch
      BY <1>2 DEF CInv, Stale
    <2> QED
      BY <1>1, <1>2, <2>1
  <1>10. \A l \in Locs' : wrote'[l] = 0
    <2>1. \A i \in DOMAIN prog.realizes[pass'] : prog.realizes[pass'][i].loc \in DOMAIN wrote
      BY <1>3, <1>4 DEF CInv, TypeOK
    <2>2. Locs' \subseteq DOMAIN wrote
      BY <1>1, <2>1 DEF Locs, Subs
    <2> QED
      BY <1>7, <2>2
  <1>11. Stale'
    BY <1>9, <1>10 DEF Stale, Now, Indices
  <1>12. Placed' /\ Kept'
    BY <1>9, <1>10 DEF Placed, Kept, Now, Indices
  <1> QED
    BY <1>1, <1>8, <1>11, <1>12 DEF CInv, Firing

\* An ASSIGN that copies takes an entry, of its own cell, free or evicted.
LEMMA ClaimStep ==
  ASSUME CInv, Assign, ~Claimed(Sub.loc)
  PROVE  CInv'
  <1>1. PICK m : m = Sub.loc
    OBVIOUS
  <1>2. /\ phase = "fire" /\ phase' = "next" /\ UNCHANGED <<prog, pass, here, epoch>>
        /\ claims' = [claims EXCEPT ![Probe(m)] = [epoch |-> epoch, loc |-> m]]
        /\ wrote' = [wrote EXCEPT ![m] = @ + 1] /\ m # 0
    BY <1>1 DEF Assign
  <1>3. TypeOK /\ Stale /\ Placed /\ Kept /\ Written
    BY <1>2 DEF CInv, Firing
  <1>4. /\ here \in DOMAIN Subs /\ Subs[here].loc = m
        /\ m \in Locs /\ m \in Nat \ {0} /\ m \in DOMAIN wrote
        /\ \A i \in DOMAIN Subs : Subs[i].loc # 0 => Subs[i].loc \in Locs
        /\ \A l \in Locs : l \in DOMAIN wrote /\ wrote[l] \in Nat
    BY <1>1, <1>2, <1>3, Shape DEF Sub
  <1>5. Subs' = Subs /\ Locs' = Locs /\ \A l : Rivals(l)' = Rivals(l)
    BY <1>2, Frame
  <1>6. \A i \in Indices : ~(Now(i) /\ claims[i].loc = m)
    BY <1>1, <1>3, <1>4, Found
  <1>7. PICK w \in 1 .. ClaimWays :
           /\ Probe(m) = Window(m)[w]
           /\ \A x \in 1 .. w - 1 : Now(Window(m)[x])
           /\ \/ ~Now(Window(m)[w]) \/ claims[Window(m)[w]].loc = m
              \/ w = 1 /\ \A x \in 1 .. ClaimWays : Now(Window(m)[x])
    BY <1>3, <1>4, Probed
  <1>8. PICK p \in Indices : p = Probe(m) /\ p = Window(m)[w]
    <2>1. Window(m) \in [1 .. ClaimWays -> Indices]
      BY <1>4, WindowFacts
    <2> QED
      BY <1>7, <2>1
  <1>9. /\ claims'[p] = [epoch |-> epoch, loc |-> m]
        /\ \A i \in Indices : i # p => claims'[i] = claims[i]
        /\ claims' \in [Indices -> [epoch : Nat, loc : Nat]]
    BY <1>2, <1>3, <1>4, <1>8 DEF TypeOK
  <1>10. /\ wrote' \in [DOMAIN wrote -> Nat] /\ DOMAIN wrote' = DOMAIN wrote
         /\ wrote'[m] = wrote[m] + 1 /\ \A l \in DOMAIN wrote : l # m => wrote'[l] = wrote[l]
         /\ \A l \in Locs : wrote[l] # 0 => wrote'[l] # 0
         /\ wrote'[m] # 0
    <2>1. wrote \in [DOMAIN wrote -> Nat] /\ wrote[m] \in Nat /\ wrote[m] + 1 # 0
      BY <1>3, <1>4 DEF TypeOK
    <2> QED
      BY <1>2, <1>4, <2>1
  <1> DEFINE After(i) == claims'[i].epoch = epoch'
  <1>11. \A i \in Indices : After(i) <=> i = p \/ Now(i)
    BY <1>2, <1>9 DEF Now
  <1> HIDE DEF After
  <1>12. TypeOK'
    <2>1. Indices' = Indices /\ Firing'
      BY <1>2 DEF Indices, Firing
    <2> QED
      BY <1>2, <1>3, <1>4, <1>5, <1>9, <1>10, <2>1 DEF TypeOK
  <1>13. Stale'
    <2>1. ~Compiling'
      BY <1>2 DEF Compiling
    <2>2. \A i \in Indices : claims'[i].epoch <= epoch'
      BY <1>2, <1>3, <1>9 DEF Stale, TypeOK
    <2> QED
      BY <2>1, <2>2 DEF Stale, Indices
  <1>14. Placed'
    <2>1. ASSUME NEW i \in Indices, After(i)
          PROVE  /\ claims'[i].loc \in Locs /\ wrote'[claims'[i].loc] # 0
                 /\ \E u \in 1 .. ClaimWays :
                      /\ i = Window(claims'[i].loc)[u]
                      /\ \A x \in 1 .. u - 1 : After(Window(claims'[i].loc)[x])
      <3>1. ASSUME NEW l \in Locs, NEW u \in 1 .. ClaimWays,
                   \A x \in 1 .. u - 1 : Now(Window(l)[x])
            PROVE  \A x \in 1 .. u - 1 : After(Window(l)[x])
        <4>1. Window(l) \in [1 .. ClaimWays -> Indices]
          BY <1>2, <1>3, WindowFacts, Shape
        <4>2. \A x \in 1 .. u - 1 : x \in 1 .. ClaimWays
          BY Caps
        <4> QED
          BY <1>11, <3>1, <4>1, <4>2
      <3>2. CASE i = p
        BY <1>4, <1>7, <1>8, <1>9, <1>10, <3>1, <3>2
      <3>3. CASE i # p
        <4>1. Now(i) /\ claims'[i] = claims[i]
          BY <1>9, <1>11, <2>1, <3>3
        <4>2. PICK l \in Locs : l = claims[i].loc /\ wrote[l] # 0
          BY <1>3, <4>1 DEF Placed
        <4>3. PICK u \in 1 .. ClaimWays :
                i = Window(l)[u] /\ \A x \in 1 .. u - 1 : Now(Window(l)[x])
          BY <1>3, <4>1, <4>2 DEF Placed, InWindow
        <4>4. \A x \in 1 .. u - 1 : After(Window(l)[x])
          BY <3>1, <4>3
        <4> QED
          BY <1>10, <4>1, <4>2, <4>3, <4>4
      <3> QED
        BY <3>2, <3>3
    <2>2. ASSUME NEW i \in Indices, NEW j \in Indices, After(i), After(j),
                 claims'[i].loc = claims'[j].loc
          PROVE  i = j
      <3>1. CASE i = p \/ j = p
        BY <1>6, <1>9, <1>11, <2>2, <3>1
      <3>2. CASE i # p /\ j # p
        BY <1>3, <1>9, <1>11, <2>2, <3>2 DEF Placed
      <3> QED
        BY <3>1, <3>2
    <2>3. Indices' = Indices
      BY DEF Indices
    <2> QED
      BY <1>5, <2>1, <2>2, <2>3 DEF Placed, InWindow, Now, After, Window
  <1>15. Kept'
    <2>1. ASSUME NEW l \in Locs, wrote'[l] # 0, Cardinality(Rivals(l)) <= ClaimWays
          PROVE  wrote'[l] = 1 /\ \E i \in Indices : After(i) /\ claims'[i].loc = l
      <3>1. CASE l = m
        <4>1. wrote[m] = 0
          BY <1>3, <1>4, <1>6, <2>1, <3>1 DEF Kept
        <4> QED
          BY <1>8, <1>9, <1>10, <1>11, <3>1, <4>1
      <3>2. CASE l # m
        <4>1. wrote'[l] = wrote[l]
          BY <1>4, <1>10, <3>2
        <4>2. PICK i \in Indices : wrote[l] = 1 /\ Now(i) /\ claims[i].loc = l
          BY <1>3, <2>1, <4>1 DEF Kept
        <4>3. CASE i = p
          <5>1. Now(p) /\ claims[p].loc = l
            BY <4>2, <4>3
          <5>2. w = 1 /\ \A x \in 1 .. ClaimWays : Now(Window(m)[x])
            BY <1>7, <1>8, <3>2, <5>1
          <5>3. claims[Window(m)[1]].loc = l
            BY <1>8, <5>1, <5>2
          <5>4. Cardinality(Rivals(l)) \in Nat /\ Cardinality(Rivals(l)) > ClaimWays
            BY <1>2, <1>3, <1>4, <1>6, <5>2, <5>3, Outnumbered
          <5> QED
            BY <2>1, <5>4, Caps
        <4>4. CASE i # p
          BY <1>9, <1>11, <4>1, <4>2, <4>4
        <4> QED
          BY <4>3, <4>4
      <3> QED
        BY <3>1, <3>2
    <2>2. Indices' = Indices
      BY DEF Indices
    <2> QED
      BY <1>5, <2>1, <2>2 DEF Kept, Now, After
  <1>16. Written'
    <2>1. ASSUME NEW i \in DOMAIN Subs, Past(i)', Subs[i].loc # 0
          PROVE  wrote'[Subs[i].loc] # 0
      <3>1. CASE i = here
        BY <1>4, <1>10, <3>1
      <3>2. CASE i # here
        <4>1. Past(i)
          BY <1>2, <2>1, <3>2 DEF Past
        <4> QED
          BY <1>3, <1>4, <1>10, <2>1, <4>1 DEF Written
      <3> QED
        BY <3>1, <3>2
    <2> QED
      BY <1>5, <2>1 DEF Written
  <1> QED
    BY <1>12, <1>13, <1>14, <1>15, <1>16 DEF CInv

LEMMA AssignStep == ASSUME CInv, Assign PROVE CInv'
  <1>1. CASE Claimed(Sub.loc)
    <2>1. PICK m : m = Sub.loc
      OBVIOUS
    <2>2. /\ phase = "fire" /\ phase' = "next" /\ here' = here
          /\ UNCHANGED <<prog, pass, epoch, claims, wrote>>
      BY <1>1 DEF Assign
    <2>3. /\ here \in DOMAIN Subs /\ Subs[here].loc = m /\ m \in Nat
      BY <2>1, <2>2, Shape DEF CInv, Sub, SubPass
    <2>4. PICK i \in Indices : claims[i] = [epoch |-> epoch, loc |-> m]
      <3>1. Window(m) \in [1 .. ClaimWays -> Indices]
        BY <2>3, WindowFacts
      <3>2. PICK w \in 1 .. ClaimWays : Probe(m) = Window(m)[w]
        BY <2>3, Probed DEF CInv
      <3>3. Probe(m) \in Indices
        BY <3>1, <3>2
      <3> QED
        BY <1>1, <2>1, <3>3 DEF Claimed
    <2>5. wrote[m] # 0
      BY <2>2, <2>4 DEF CInv, Firing, Placed, Now
    <2>6. \A j : Past(j)' => Past(j) \/ j = here
      BY <2>2 DEF Past
    <2> QED
      BY <2>2, <2>3, <2>5, <2>6, Moved DEF Compiling, Firing
  <1> QED
    BY <1>1, ClaimStep

\* The claims of a realize, in every step of a session with captures.
LEMMA Inductive ==
  ASSUME CInv, [CaptureNext]_<<vars, capture_vars, calls, due>>
  PROVE  CInv'
  <1>1. CASE Schedule
    <2>1. CASE Plan
      BY <2>1, PlanStep
    <2>2. CASE Emit
      BY <2>2, Idle DEF Emit, Claiming, memo_vars, history
    <2>3. CASE Compiled
      BY <2>3, CompiledStep
    <2>4. CASE Start
      BY <2>4, StartStep
    <2>5. CASE Descend
      BY <2>5, Idle DEF Descend, Claiming, history
    <2>6. CASE Plain
      BY <2>6, PlainStep
    <2>7. CASE Advance
      BY <2>7, AdvanceStep
    <2> QED
      BY <1>1, <2>1, <2>2, <2>3, <2>4, <2>5, <2>6, <2>7 DEF Schedule
  <1>2. CASE BeginRealize
    BY <1>2, BeginStep DEF BeginRealize
  <1>3. CASE FireKernel
    BY <1>3, Idle DEF FireKernel, Dispatch, Claiming
  <1>4. CASE Copy
    BY <1>4, AssignStep DEF Copy
  <1>5. CASE EndRealize
    BY <1>5, EndStep DEF EndRealize
  <1>6. CASE BeginCapture
    BY <1>6, Idle DEF BeginCapture, realize_vars, memo_vars, Claiming
  <1>7. CASE EndCapture
    BY <1>7, Idle DEF EndCapture, memo_vars, Claiming
  <1>8. CASE Replay
    BY <1>8, Idle DEF Replay, realize_vars, memo_vars, Claiming
  <1>9. CASE Drop
    BY <1>9, Idle DEF Drop, realize_vars, memo_vars, Claiming
  <1>10. CASE CaptureDone
    BY <1>10, Idle DEF CaptureDone, vars, memo_vars, history, Claiming
  <1>11. CASE UNCHANGED <<vars, capture_vars, calls, due>>
    BY <1>11, Idle DEF vars, memo_vars, history, Claiming
  <1> QED
    BY <1>1, <1>2, <1>3, <1>4, <1>5, <1>6, <1>7, <1>8, <1>9, <1>10, <1>11 DEF CaptureNext

\* The table of claims through every realize and capture: an entry of this pass is
\* in its cell's window behind others of this pass, there is one for each cell, and
\* a cell that has written and shares its window with few others keeps its own
\* (assign_fire_claim).
THEOREM ClaimsKept == CaptureSpec => []CInv
  <1>1. CaptureInit => CInv
    BY Initially
  <1>2. CInv /\ [CaptureNext]_<<vars, capture_vars, calls, due>> => CInv'
    BY Inductive
  <1> QED
    BY <1>1, <1>2, PTL DEF CaptureSpec

\* At the end of a realize every ASSIGN cell has written once, unless more cells
\* share its window than it has entries: whatever order the roots reach the cells
\* in, and whatever the table holds of earlier passes (assign_fire_claim).
THEOREM AssignsOnce == CaptureSpec => []AssignedOnce
  <1>1. ASSUME CInv
        PROVE  AssignedOnce
    <2> SUFFICES ASSUME phase = "end", NEW l \in Locs
                 PROVE  \/ wrote[l] = 1
                        \/ wrote[l] > 1 /\ Cardinality(Rivals(l)) > ClaimWays
      BY DEF AssignedOnce
    <2>1. TypeOK /\ Kept /\ Written
      BY <1>1 DEF CInv, Firing
    <2>2. PICK i \in DOMAIN Subs : Subs[i].loc = l
      BY <2>1, Shape
    <2>3. /\ wrote[l] \in Nat /\ l # 0 /\ IsFiniteSet(Locs)
      BY <2>1, Shape
    <2>4. wrote[l] # 0
      BY <2>1, <2>2, <2>3 DEF Written, Past
    <2>5. Cardinality(Rivals(l)) \in Nat
      <3>1. Rivals(l) \in SUBSET Locs
        BY DEF Rivals
      <3> QED
        BY <2>3, <3>1, FS_Subset, FS_CardinalityType
    <2>6. CASE Cardinality(Rivals(l)) <= ClaimWays
      BY <2>1, <2>4, <2>6 DEF Kept
    <2>7. CASE ~(Cardinality(Rivals(l)) <= ClaimWays)
      BY <2>3, <2>4, <2>5, <2>7, Caps
    <2> QED
      BY <2>6, <2>7
  <1> QED
    BY <1>1, ClaimsKept, PTL
=============================================================================
