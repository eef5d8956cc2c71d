------------------------------- MODULE Sums --------------------------------
(***************************************************************************)
(* Facts about SumFunction of the community module Functions, which adds   *)
(* the values of a function with finite domain: it is a number, changes by *)
(* as much as one of the values changes, and is linear.  The order in      *)
(* which the fold takes the elements does not matter.                      *)
(*                                                                         *)
(* The induction is on finite sets, and is stated with a set of the sets   *)
(* for which the induction hypothesis holds (SetInduction); it rests on    *)
(* the least element of a set of naturals (Least).                         *)
(***************************************************************************)
EXTENDS Integers, FiniteSets, Functions, FiniteSetTheorems,
        WellFoundedInduction, TLAPS

LessThan == {p \in Nat \X Nat : p[1] < p[2]}

\* Every set of naturals has a least element.
LEMMA Least ==
  ASSUME NEW T, T \subseteq Nat, T # {}
  PROVE  \E n \in T : \A m \in T : n <= m
  <1>1. IsWellFoundedOn(LessThan, Nat)
    BY NatLessThanWellFounded DEF LessThan, OpToRel
  <1>2. PICK n \in T : \A m \in T : ~ (<<m, n>> \in LessThan)
    BY <1>1, WFMin
  <1>3. ASSUME NEW m \in T
        PROVE  n <= m
    <2>1. ~ (<<m, n>> \in LessThan)
      BY <1>2
    <2>2. m \in Nat /\ n \in Nat
      OBVIOUS
    <2>3. m < n => <<m, n>> \in LessThan
      BY <2>2 DEF LessThan
    <2> QED
      BY <2>1, <2>2, <2>3
  <1> QED
    BY <1>3

\* A set that has a subset of D whenever it has all that are one element
\* smaller has every subset of D.
LEMMA SetInduction ==
  ASSUME NEW D, IsFiniteSet(D), NEW G,
         \A s \in SUBSET D : (\A x \in s : s \ {x} \in G) => s \in G
  PROVE  SUBSET D \subseteq G
  <1> SUFFICES ASSUME NEW b \in (SUBSET D) \ G
               PROVE  FALSE
    OBVIOUS
  <1> DEFINE T == {Cardinality(s) : s \in (SUBSET D) \ G}
  <1>1. \A s \in SUBSET D : IsFiniteSet(s) /\ Cardinality(s) \in Nat
    BY FS_Subset, FS_CardinalityType
  <1>2. T \subseteq Nat /\ T # {}
    BY <1>1
  <1>3. PICK n \in T : \A m \in T : n <= m
    <2> HIDE DEF T
    <2> QED
      BY <1>2, Least
  <1>4. PICK s \in (SUBSET D) \ G : n = Cardinality(s)
    BY <1>3
  <1>5. ASSUME NEW x \in s
        PROVE  s \ {x} \in G
    <2>1. Cardinality(s \ {x}) = Cardinality(s) - 1
      BY <1>1, FS_RemoveElement
    <2>2. s \ {x} \in SUBSET D
      OBVIOUS
    <2>3. s \ {x} \notin G => Cardinality(s \ {x}) \in T
      BY <2>2
    <2>4. Cardinality(s) \in Nat
      BY <1>1
    <2> HIDE DEF T
    <2> QED
      BY <1>3, <1>4, <2>1, <2>3, <2>4
  <1> QED
    BY <1>4, <1>5

-----------------------------------------------------------------------------
(* The recursion of the fold *)

Pick(s) == CHOOSE x \in s : TRUE
Body(f, g, s) == IF s = {} THEN 0 ELSE f[Pick(s)] + g[s \ {Pick(s)}]
Small(D, n) == {s \in SUBSET D : Cardinality(s) <= n}

\* The recursion has a solution for the sets of at most n elements.
LEMMA SmallSums ==
  ASSUME NEW D, IsFiniteSet(D), NEW f, NEW n \in Nat
  PROVE  \E g : g = [s \in Small(D, n) |-> Body(f, g, s)]
  <1> DEFINE Has(m) == \E g : g = [s \in Small(D, m) |-> Body(f, g, s)]
             T == {m \in Nat : ~Has(m)}
  <1>1. \A s \in SUBSET D : IsFiniteSet(s) /\ Cardinality(s) \in Nat
    BY FS_Subset, FS_CardinalityType
  <1>2. Has(0)
    <2> DEFINE g == [s \in Small(D, 0) |-> 0]
    <2>1. \A s \in Small(D, 0) : s = {}
      BY <1>1, FS_EmptySet DEF Small
    <2>2. g = [s \in Small(D, 0) |-> Body(f, g, s)]
      BY <2>1 DEF Body
    <2> QED
      BY <2>2
  <1>3. ASSUME NEW m \in Nat, Has(m)
        PROVE  Has(m + 1)
    <2>1. PICK g : g = [s \in Small(D, m) |-> Body(f, g, s)]
      BY <1>3
    <2> DEFINE h == [s \in Small(D, m + 1) |-> Body(f, g, s)]
    <2>2. ASSUME NEW s \in Small(D, m) PROVE s \in Small(D, m + 1) /\ h[s] = g[s]
      <3>1. s \in Small(D, m + 1)
        BY <1>1 DEF Small
      <3>2. g[s] = Body(f, g, s)
        BY <2>1
      <3> QED
        BY <3>1, <3>2
    <2>3. ASSUME NEW s \in Small(D, m + 1), s # {}
          PROVE  s \ {Pick(s)} \in Small(D, m)
      <3>1. Pick(s) \in s
        BY <2>3 DEF Pick
      <3>2. Cardinality(s \ {Pick(s)}) = Cardinality(s) - 1
        BY <1>1, <3>1, FS_RemoveElement DEF Small
      <3> QED
        BY <1>1, <3>2 DEF Small
    <2>4. \A s \in Small(D, m + 1) : Body(f, g, s) = Body(f, h, s)
      <3> HIDE DEF h
      <3> QED
        BY <2>2, <2>3 DEF Body
    <2>5. h = [s \in Small(D, m + 1) |-> Body(f, h, s)]
      BY <2>4
    <2> QED
      BY <2>5
  <1>4. T = {}
    <2> SUFFICES ASSUME T # {} PROVE FALSE
      OBVIOUS
    <2> HIDE DEF Has
    <2>1. PICK m \in T : \A i \in T : m <= i
      BY Least
    <2>2. m \in Nat /\ m # 0 /\ ~Has(m)
      BY <2>1, <1>2
    <2>3. m - 1 \in Nat /\ m - 1 \notin T
      BY <2>1, <2>2
    <2>4. Has(m - 1)
      BY <2>3
    <2>5. Has(m - 1 + 1)
      BY <2>3, <2>4, <1>3
    <2> QED
      BY <2>2, <2>5
  <1> QED
    BY <1>4

\* g gives the sum of f over each set of its domain, one element at a time.
Adds(f, g) ==
  /\ DOMAIN g = SUBSET DOMAIN f
  /\ g[{}] = 0
  /\ \A s \in SUBSET DOMAIN f :
       /\ g[s] \in Int
       /\ \A x \in s : g[s] = f[x] + g[s \ {x}]

LEMMA SumAdds ==
  ASSUME NEW D, IsFiniteSet(D), NEW f \in [D -> Int]
  PROVE  \E g : Adds(f, g) /\ SumFunction(f) = g[D]
  <1> DEFINE it == CHOOSE g : g = [s \in SUBSET D |-> Body(f, g, s)]
  <1>1. SumFunction(f) = it[D]
    <2>1. DOMAIN f = D
      OBVIOUS
    <2>2. SumFunction(f) = (CHOOSE g : g = [s \in SUBSET D |-> Body(f, g, s)])[D]
      BY <2>1 DEF SumFunction, SumFunctionOnSet, FoldFunctionOnSet, MapThenFoldSet, Body, Pick
    <2> QED
      BY <2>2
  <1>2. it = [s \in SUBSET D |-> Body(f, it, s)]
    <2>1. Small(D, Cardinality(D)) = SUBSET D
      BY FS_Subset, FS_CardinalityType DEF Small
    <2>2. Cardinality(D) \in Nat
      BY FS_CardinalityType
    <2>3. \E g : g = [s \in Small(D, Cardinality(D)) |-> Body(f, g, s)]
      BY <2>2, SmallSums
    <2>4. \E g : g = [s \in SUBSET D |-> Body(f, g, s)]
      BY <2>1, <2>3
    <2> QED
      BY <2>4
  <1> HIDE DEF it
  <1>3. it[{}] = 0
    BY <1>2 DEF Body
  <1>4. \A s \in SUBSET D : s # {} => /\ Pick(s) \in s
                                      /\ it[s] = f[Pick(s)] + it[s \ {Pick(s)}]
    BY <1>2 DEF Body, Pick
  <1>5. \A s \in SUBSET D : it[s] \in Int
    <2> DEFINE G == {s \in SUBSET D : it[s] \in Int}
    <2>1. ASSUME NEW s \in SUBSET D, \A x \in s : s \ {x} \in G
          PROVE  s \in G
      <3>1. CASE s = {}
        BY <3>1, <1>3
      <3>2. CASE s # {}
        <4>1. it[s \ {Pick(s)}] \in Int
          BY <1>4, <2>1, <3>2
        <4>2. f[Pick(s)] \in Int
          BY <1>4, <3>2
        <4> QED
          BY <1>4, <3>2, <4>1, <4>2
      <3> QED
        BY <3>1, <3>2
    <2>2. SUBSET D \subseteq G
      <3> HIDE DEF G
      <3> QED
        BY <2>1, SetInduction
    <2> QED
      BY <2>2
  <1>6. \A s \in SUBSET D : \A x \in s : it[s] = f[x] + it[s \ {x}]
    <2> DEFINE G == {s \in SUBSET D : \A x \in s : it[s] = f[x] + it[s \ {x}]}
    <2>1. ASSUME NEW s \in SUBSET D, \A x \in s : s \ {x} \in G
          PROVE  s \in G
      <3> SUFFICES ASSUME NEW x \in s
                   PROVE  it[s] = f[x] + it[s \ {x}]
        OBVIOUS
      <3>1. PICK c \in s : it[s] = f[c] + it[s \ {c}]
        BY <1>4
      <3>2. CASE x = c
        BY <3>1, <3>2
      <3>3. CASE x # c
        <4>1. it[s \ {c}] = f[x] + it[(s \ {c}) \ {x}]
          BY <2>1, <3>1, <3>3
        <4>2. it[s \ {x}] = f[c] + it[(s \ {x}) \ {c}]
          BY <2>1, <3>1, <3>3
        <4>3. (s \ {c}) \ {x} = (s \ {x}) \ {c}
          OBVIOUS
        <4>4. /\ it[s \ {c}] \in Int /\ it[s \ {x}] \in Int
              /\ it[(s \ {c}) \ {x}] \in Int
              /\ f[c] \in Int /\ f[x] \in Int
          BY <1>5, <3>1
        <4>5. it[s] = f[c] + (f[x] + it[(s \ {c}) \ {x}])
          BY <3>1, <4>1
        <4>6. f[x] + it[s \ {x}] = f[x] + (f[c] + it[(s \ {c}) \ {x}])
          BY <4>2, <4>3
        <4>7. \A a, b, n \in Int : a + (b + n) = b + (a + n)
          OBVIOUS
        <4>8. it[s] = f[x] + (f[c] + it[(s \ {c}) \ {x}])
          BY <4>4, <4>5, <4>7
        <4> QED
          BY <4>6, <4>8
      <3> QED
        BY <3>2, <3>3
    <2>2. SUBSET D \subseteq G
      <3> HIDE DEF G
      <3> QED
        BY <2>1, SetInduction
    <2> QED
      BY <2>2
  <1>7. DOMAIN f = D /\ DOMAIN it = SUBSET D
    BY <1>2
  <1> QED
    BY <1>1, <1>3, <1>5, <1>6, <1>7 DEF Adds

-----------------------------------------------------------------------------
(* What is used elsewhere *)

\* A sum of numbers is a number.
LEMMA SumType ==
  ASSUME NEW D, IsFiniteSet(D), NEW f \in [D -> Int]
  PROVE  SumFunction(f) \in Int
  <1>1. PICK g : Adds(f, g) /\ SumFunction(f) = g[D]
    BY SumAdds
  <1>2. D \in SUBSET DOMAIN f
    OBVIOUS
  <1> QED
    BY <1>1, <1>2 DEF Adds

\* Changing one value changes the sum by as much.
LEMMA SumUpdate ==
  ASSUME NEW D, IsFiniteSet(D), NEW f \in [D -> Int], NEW h \in [D -> Int],
         NEW w \in D, \A v \in D \ {w} : h[v] = f[v]
  PROVE  SumFunction(h) = SumFunction(f) + h[w] - f[w]
  <1>1. PICK F : Adds(f, F) /\ SumFunction(f) = F[D]
    BY SumAdds
  <1>2. PICK H : Adds(h, H) /\ SumFunction(h) = H[D]
    BY SumAdds
  <1> DEFINE G == {s \in SUBSET D : w \notin s => H[s] = F[s]}
  <1>3. ASSUME NEW s \in SUBSET D, \A x \in s : s \ {x} \in G
        PROVE  s \in G
    <2> SUFFICES ASSUME w \notin s
                 PROVE  H[s] = F[s]
      OBVIOUS
    <2>1. CASE s = {}
      BY <1>1, <1>2, <2>1 DEF Adds
    <2>2. CASE s # {}
      <3>1. PICK x \in s : TRUE
        BY <2>2
      <3>2. H[s \ {x}] = F[s \ {x}] /\ h[x] = f[x]
        BY <1>3, <3>1
      <3>3. /\ H[s] = h[x] + H[s \ {x}]
            /\ F[s] = f[x] + F[s \ {x}]
        BY <1>1, <1>2 DEF Adds
      <3> QED
        BY <3>2, <3>3
    <2> QED
      BY <2>1, <2>2
  <1>4. SUBSET D \subseteq G
    <2> HIDE DEF G
    <2> QED
      BY <1>3, SetInduction
  <1>5. H[D \ {w}] = F[D \ {w}]
    BY <1>4
  <1>6. /\ H[D] = h[w] + H[D \ {w}] /\ F[D] = f[w] + F[D \ {w}]
        /\ H[D \ {w}] \in Int /\ h[w] \in Int /\ f[w] \in Int
    BY <1>1, <1>2 DEF Adds
  <1> QED
    BY <1>1, <1>2, <1>5, <1>6

\* The sum of differences is the difference of the sums.
LEMMA SumDifference ==
  ASSUME NEW D, IsFiniteSet(D), NEW f \in [D -> Int], NEW g \in [D -> Int],
         NEW h \in [D -> Int], \A v \in D : h[v] = f[v] - g[v]
  PROVE  SumFunction(h) = SumFunction(f) - SumFunction(g)
  <1>1. PICK F : Adds(f, F) /\ SumFunction(f) = F[D]
    BY SumAdds
  <1>2. PICK E : Adds(g, E) /\ SumFunction(g) = E[D]
    BY SumAdds
  <1>3. PICK H : Adds(h, H) /\ SumFunction(h) = H[D]
    BY SumAdds
  <1> DEFINE G == {s \in SUBSET D : H[s] = F[s] - E[s]}
  <1>4. ASSUME NEW s \in SUBSET D, \A x \in s : s \ {x} \in G
        PROVE  s \in G
    <2>1. CASE s = {}
      BY <1>1, <1>2, <1>3, <2>1 DEF Adds
    <2>2. CASE s # {}
      <3>1. PICK x \in s : TRUE
        BY <2>2
      <3>2. H[s \ {x}] = F[s \ {x}] - E[s \ {x}] /\ h[x] = f[x] - g[x]
        BY <1>4, <3>1
      <3>3. /\ H[s] = h[x] + H[s \ {x}]
            /\ F[s] = f[x] + F[s \ {x}]
            /\ E[s] = g[x] + E[s \ {x}]
            /\ F[s \ {x}] \in Int /\ E[s \ {x}] \in Int
            /\ f[x] \in Int /\ g[x] \in Int
        BY <1>1, <1>2, <1>3 DEF Adds
      <3> QED
        BY <3>2, <3>3
    <2> QED
      BY <2>1, <2>2
  <1>5. SUBSET D \subseteq G
    <2> HIDE DEF G
    <2> QED
      BY <1>4, SetInduction
  <1> QED
    BY <1>1, <1>2, <1>3, <1>5

\* A sum of zeros is zero.
LEMMA SumZero ==
  ASSUME NEW D, IsFiniteSet(D), NEW f \in [D -> Int], \A v \in D : f[v] = 0
  PROVE  SumFunction(f) = 0
  <1>1. SumFunction(f) = SumFunction(f) - SumFunction(f)
    BY SumDifference
  <1> QED
    BY <1>1, SumType

\* A sum of naturals is a natural.
LEMMA SumNat ==
  ASSUME NEW D, IsFiniteSet(D), NEW f \in [D -> Int], \A v \in D : f[v] >= 0
  PROVE  SumFunction(f) \in Nat
  <1>1. PICK F : Adds(f, F) /\ SumFunction(f) = F[D]
    BY SumAdds
  <1> DEFINE G == {s \in SUBSET D : F[s] \in Nat}
  <1>2. ASSUME NEW s \in SUBSET D, \A x \in s : s \ {x} \in G
        PROVE  s \in G
    <2>1. CASE s = {}
      BY <1>1, <2>1 DEF Adds
    <2>2. CASE s # {}
      <3>1. PICK x \in s : TRUE
        BY <2>2
      <3>2. F[s \ {x}] \in Nat /\ f[x] \in Nat
        BY <1>2, <3>1
      <3>3. F[s] = f[x] + F[s \ {x}]
        BY <1>1 DEF Adds
      <3> QED
        BY <3>2, <3>3
    <2> QED
      BY <2>1, <2>2
  <1>3. SUBSET D \subseteq G
    <2> HIDE DEF G
    <2> QED
      BY <1>2, SetInduction
  <1> QED
    BY <1>1, <1>3
=============================================================================
