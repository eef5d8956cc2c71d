------------------------------- MODULE Orders -------------------------------
(***************************************************************************)
(* The term orders that orient equations: src/kbo/_.c (the reference, the  *)
(* linear and the flat comparators), src/lpo/_.c (on terms and on flat     *)
(* terms), src/rpo/_.c and src/wpo/_.c.                                    *)
(*                                                                         *)
(* o is an order's configuration: prec and weight give labels numbers, vw  *)
(* is the weight of a variable, mul the labels with multiset status.       *)
(* Labels without an entry have number 0.  The tables of pairs of cells    *)
(* already compared are left out, those of one call and the one of verdicts *)
(* that thvm_lpo keeps between calls in a prover (g_lpo_memo, emptied when  *)
(* cells move or the configuration changes).  The cache of weights that     *)
(* outlives the calls of KBO is KboMemo.                                   *)
(***************************************************************************)
EXTENDS Terms

CONSTANT OrderVars  \* KBO_MAX_VAR, LPO_MAX_VAR, WPO_MAX_VAR

Flip(c) == CASE c = "GT" -> "LT" [] c = "LT" -> "GT" [] OTHER -> c

Entry(fn, f) == IF f \in DOMAIN fn THEN fn[f] ELSE 0
Prec(t, o)   == Entry(o.prec, t.ext)
SymWeight(t, o) == IF IsFvr(t) THEN o.vw ELSE Entry(o.weight, t.ext)

RECURSIVE Nodes(_)
Nodes(t) == <<t>> \o FlattenSeq([i \in DOMAIN t.args |-> Nodes(t.args[i])])

Weight(t, o) == FoldLeft(LAMBDA n, s : n + SymWeight(s, o), 0, Nodes(t))
Count(t, id) == Len(SelectSeq(Nodes(t), LAMBDA s : s = Fvr(id)))

-----------------------------------------------------------------------------
(* Knuth-Bendix order.  A balance is what s has more than t: weight w and,  *)
(* for each id below OrderVars, occurrences v.                              *)

Level == [w |-> 0, v |-> [id \in 0 .. OrderVars - 1 |-> 0]]

AddTo(b, t, sign, o) ==
  [w |-> b.w + sign * Weight(t, o),
   v |-> [id \in DOMAIN b.v |-> b.v[id] + sign * Count(t, id)]]

\* Where the two terms part, one goes to each side.  On cells they part at a
\* different head or arity, on flat terms also at a different size.
Parts(s, t, flat) == IsFvr(s) \/ IsFvr(t) \/ ~SameHead(s, t) \/ (flat /\ Size(s) # Size(t))

RECURSIVE Vortest(_, _, _, _, _)
Vortest(b, s, t, o, flat) ==
  CASE s = t                           -> b
    [] s # t /\ Parts(s, t, flat)      -> AddTo(AddTo(b, s, 1, o), t, -1, o)
    [] s # t /\ ~Parts(s, t, flat)     ->
         Fold(LAMBDA c, p : Vortest(c, p[1], p[2], o, flat), b, Zipped(s, t))

VarCmp(b) == LET more == \E id \in DOMAIN b.v : b.v[id] > 0
                 less == \E id \in DOMAIN b.v : b.v[id] < 0
             IN  CASE more /\ less   -> "UN"
                   [] more /\ ~less  -> "GT"
                   [] ~more /\ less  -> "LT"
                   [] ~more /\ ~less -> "EQ"

\* A verdict holds only if the other side does not have more of a variable.
MapThrough(varcmp, c) == IF varcmp = "UN" \/ (c # "EQ" /\ varcmp = Flip(c)) THEN "UN" ELSE c

\* Mutant: the last argument that differs decides.
LastApart(s, t) == LET apart == {i \in DOMAIN s.args : s.args[i] # t.args[i]}
                   IN  CHOOSE i \in apart : \A j \in apart : i >= j

FirstApart(s, t) == LET apart == {i \in DOMAIN s.args : s.args[i] # t.args[i]}
                    IN  CHOOSE i \in apart : \A j \in apart : i <= j

Sign(n) == IF n > 0 THEN "GT" ELSE "LT"

\* kbo_lin_rek and kbo_flat_rek.
RECURSIVE KboRek(_, _, _, _, _)
KboRek(s, t, b, o, flat) ==
  LET Deeper(p) == With(Vortest(Level, p[1], p[2], o, flat), LAMBDA c : KboRek(p[1], p[2], c, o, flat))
      here == CASE b.w # 0                           -> Sign(b.w)
                [] b.w = 0 /\ (IsFvr(s) \/ IsFvr(t)) -> "UN"
                [] OTHER -> IF Prec(s, o) # Prec(t, o) THEN Sign(Prec(s, o) - Prec(t, o))
                            ELSE IF ~SameHead(s, t) THEN "UN"
                            ELSE With(Zipped(s, t)[FirstApart(s, t)], Deeper)
  IN  IF VarCmp(b) = "UN" THEN "UN" ELSE With(here, LAMBDA c : MapThrough(VarCmp(b), c))

KboFrom(s, t, o, flat) == IF s = t THEN "EQ"
                          ELSE With(Vortest(Level, s, t, o, flat), LAMBDA b : KboRek(s, t, b, o, flat))
Kbo(s, t, o)     == KboFrom(s, t, o, FALSE)
KboFlat(s, t, o) == KboFrom(s, t, o, TRUE)

\* thvm_kbo_naive.  It meets equal precedences without comparing the labels.
RECURSIVE KboNaive(_, _, _)
KboNaive(s, t, o) ==
  LET Step(c, p) == IF c = "EQ" THEN KboNaive(p[1], p[2], o) ELSE c
      Here(b) == IF b.w # 0 THEN Sign(b.w)
                 ELSE IF IsFvr(s) \/ IsFvr(t) THEN "UN"
                 ELSE IF Prec(s, o) # Prec(t, o) THEN Sign(Prec(s, o) - Prec(t, o))
                 ELSE IF Len(s.args) # Len(t.args) THEN "UN"
                 ELSE Fold(Step, "EQ", Zipped(s, t))
      Balanced(b) == IF VarCmp(b) = "UN" THEN "UN"
                     ELSE With(Here(b), LAMBDA c : MapThrough(VarCmp(b), c))
  IN  IF s = t THEN "EQ" ELSE With(Vortest(Level, s, t, o, FALSE), Balanced)

-----------------------------------------------------------------------------
(* Path orders: lpo_rec_compute, rpo_rec_compute and wpo_rec_compute differ *)
(* in kind ("lpo", "rpo", "wpo") only where the operators below say so.     *)

RECURSIVE PathCmp(_, _, _, _)

SomeArg(s, t, o, kind) == \E u \in Kids(s) : PathCmp(u, t, o, kind) \in {"EQ", "GT"}

AllArgs(s, t, o, kind) == \A u \in Kids(t) : PathCmp(s, u, o, kind) = "GT"

LexCmp(s, t, o, kind) ==
  Fold(LAMBDA c, p : IF c = "EQ" THEN PathCmp(p[1], p[2], o, kind) ELSE c, "EQ", Zipped(s, t))

\* rpo_multi: equal arguments cancel, first fit; then each one left on a side
\* must have a greater one on the other.
Twins(u, T, o, kind) == {i \in DOMAIN T : PathCmp(u, T[i], o, kind) = "EQ"}
Cancel(left, u, o, kind) ==
  IF Twins(u, left.t, o, kind) = {} THEN [left EXCEPT !.s = Append(@, u)]
  ELSE [left EXCEPT !.t = RemoveAt(@, CHOOSE i \in Twins(u, @, o, kind) : TRUE)]
Beats(S, T, o, kind) == \A u \in T : \E v \in S : PathCmp(v, u, o, kind) = "GT"

SetCmp(S, T, o, kind) ==
  CASE S = {} /\ T = {} -> "EQ"
    [] S # {} /\ T = {} -> "GT"
    [] S = {} /\ T # {} -> "LT"
    [] OTHER -> IF Beats(S, T, o, kind) THEN "GT"
                ELSE IF Beats(T, S, o, kind) THEN "LT" ELSE "UN"
MultiCmp(s, t, o, kind) ==
  With(Fold(LAMBDA c, u : Cancel(c, u, o, kind), [s |-> <<>>, t |-> t.args], s.args),
       LAMBDA left : SetCmp(ToSet(left.s), ToSet(left.t), o, kind))

\* lpo_rec_compute takes an incomparable pair of arguments for a lesser one.
LexVerdict(s, t, o, kind) ==
  LET Verdict(c) ==
      CASE c = "EQ" -> "EQ"
        [] c = "GT" -> IF AllArgs(s, t, o, kind) THEN "GT" ELSE "UN"
        [] c = "LT" \/ (c = "UN" /\ kind = "lpo") -> IF AllArgs(t, s, o, kind) THEN "LT" ELSE "UN"
        [] c = "UN" /\ kind # "lpo" -> "UN"
  IN  With(LexCmp(s, t, o, kind), Verdict)

ByHeads(s, t, o, kind) ==
  IF Prec(s, o) > Prec(t, o) THEN IF AllArgs(s, t, o, kind) THEN "GT" ELSE "UN"
  ELSE IF Prec(s, o) < Prec(t, o) THEN IF AllArgs(t, s, o, kind) THEN "LT" ELSE "UN"
  ELSE IF Len(s.args) # Len(t.args) THEN "UN"
  ELSE IF kind # "lpo" /\ s.ext \in o.mul THEN MultiCmp(s, t, o, kind)
  ELSE LexVerdict(s, t, o, kind)

ByArgs(s, t, o, kind) == IF SomeArg(s, t, o, kind) THEN "GT"
                         ELSE IF SomeArg(t, s, o, kind) THEN "LT"
                         ELSE ByHeads(s, t, o, kind)

\* wpo_vars_subset in both directions: an id past the table fails both.
Covers(s, t) == /\ \A id \in VarsOf(s) \cup VarsOf(t) : id < OrderVars
                /\ \A id \in VarsOf(t) : Count(s, id) >= Count(t, id)
Gated(s, t, verdict) ==
  With(verdict, LAMBDA c : IF (c = "GT" /\ ~Covers(s, t)) \/ (c = "LT" /\ ~Covers(t, s)) THEN "UN" ELSE c)

\* Mutant: the weights decide alone.
WpoUngated(s, t, o) == IF Weight(s, o) # Weight(t, o) THEN Sign(Weight(s, o) - Weight(t, o))
                       ELSE Gated(s, t, ByArgs(s, t, o, "wpo"))

Wpo(s, t, o) == Gated(s, t, IF Weight(s, o) # Weight(t, o) THEN Sign(Weight(s, o) - Weight(t, o))
                            ELSE ByArgs(s, t, o, "wpo"))

\* A variable is looked for in the other side.  For "wpo" the code reads its entry
\* of a table of OrderVars counts without a test; what an id past the table reads
\* there (wpo/_.c:234, 238) is not modelled, and no such id occurs below a label.
PathCmp(s, t, o, kind) ==
  CASE s = t                            -> "EQ"
    [] s # t /\ IsFvr(s) /\ IsFvr(t)    -> "UN"
    [] IsFvr(s) /\ ~IsFvr(t)            -> IF s \in Subterms(t) THEN "LT" ELSE "UN"
    [] ~IsFvr(s) /\ IsFvr(t)            -> IF t \in Subterms(s) THEN "GT" ELSE "UN"
    [] s # t /\ ~IsFvr(s) /\ ~IsFvr(t)  -> IF kind = "wpo" THEN Wpo(s, t, o)
                                                           ELSE ByArgs(s, t, o, kind)

Rpo(s, t, o) == PathCmp(s, t, o, "rpo")

-----------------------------------------------------------------------------
(* Lexicographic path order *)

InRange(t)   == \A id \in VarsOf(t) : id < OrderVars
VarsApart(s, t) == /\ InRange(s) /\ InRange(t)
                   /\ ~(VarsOf(s) \subseteq VarsOf(t)) /\ ~(VarsOf(t) \subseteq VarsOf(s))

\* thvm_lpo without the flat form.
Lpo(s, t, o) == IF VarsApart(s, t) THEN "UN" ELSE PathCmp(s, t, o, "lpo")

Symbols(t, o) == {Prec(u, o) : u \in {v \in Subterms(t) : ~IsFvr(v)}}

\* lpo_pretest_groesser_flat: s is certainly greater than t.
PretestGt(s, t, o) ==
  /\ ~IsFvr(s)
  /\ IF IsFvr(t) THEN t \in Subterms(s)
     ELSE IF s.args = <<>> THEN VarsOf(t) = {} /\ \A n \in Symbols(t, o) : n < Prec(s, o)
     ELSE IF t.args = <<>> THEN \E n \in Symbols(s, o) : n >= Prec(t, o)
     ELSE t # s /\ t \in Subterms(s)

RECURSIVE LpoFlatRec(_, _, _)
FlatSome(s, t, o) == \E u \in Kids(s) : LpoFlatRec(u, t, o) \in {"EQ", "GT"}

\* Mutant: starts one late.
FlatFromNext(s, t, i, o) == \A j \in i + 1 .. Len(t.args) : LpoFlatRec(s, t.args[j], o) = "GT"

\* The arguments of t from the i-th on; those before are equal to those of s.
FlatFrom(s, t, i, o) == \A j \in i .. Len(t.args) : LpoFlatRec(s, t.args[j], o) = "GT"

FlatRest(s, t, o) == FlatFrom(s, t, FirstApart(s, t), o)

FlatHeads(s, t, o) ==
  IF Prec(s, o) > Prec(t, o)
    THEN IF FlatFrom(s, t, 1, o) THEN "GT" ELSE IF FlatSome(t, s, o) THEN "LT" ELSE "UN"
  ELSE IF Prec(s, o) < Prec(t, o)
    THEN IF FlatFrom(t, s, 1, o) THEN "LT" ELSE IF FlatSome(s, t, o) THEN "GT" ELSE "UN"
  ELSE IF FlatSome(s, t, o) THEN "GT"
  ELSE IF FlatSome(t, s, o) THEN "LT"
  ELSE LET i == FirstApart(s, t)
       IN  IF LpoFlatRec(s.args[i], t.args[i], o) = "GT"
             THEN IF FlatRest(s, t, o) THEN "GT" ELSE "UN"
             ELSE IF FlatRest(t, s, o) THEN "LT" ELSE "UN"

LpoFlatRec(s, t, o) ==
  CASE s = t                         -> "EQ"
    [] s # t /\ IsFvr(s) /\ IsFvr(t) -> "UN"
    [] s # t /\ ~(IsFvr(s) /\ IsFvr(t)) ->
         IF IsFvr(s) THEN IF s \in Subterms(t) THEN "LT" ELSE "UN"
         ELSE IF IsFvr(t) THEN IF t \in Subterms(s) THEN "GT" ELSE "UN"
         ELSE IF PretestGt(s, t, o) THEN "GT"
         ELSE IF PretestGt(t, s, o) THEN "LT"
         ELSE FlatHeads(s, t, o)

\* thvm_lpo as it is by default.
LpoFlat(s, t, o) == IF VarsApart(s, t) THEN "UN" ELSE LpoFlatRec(s, t, o)
=============================================================================
