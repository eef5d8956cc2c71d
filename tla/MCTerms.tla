------------------------------ MODULE MCTerms ------------------------------
(***************************************************************************)
(* Calls of Terms and Orders: one caller at a time, as the provers make    *)
(* them, on one substitution that is kept between the calls.  answer holds *)
(* what the last call returned until the caller is done with it.  A second *)
(* kind of session, chosen at the start, makes the calls of KboMemo.       *)
(***************************************************************************)
EXTENDS KboMemo

VARIABLES session, u, call, answer
vars == <<session, u, call, answer, memoVars>>

a  == Ctr("a", <<>>)
g(s) == Ctr("g", <<s>>)
f(s, t) == Ctr("f", <<s, t>>)
x == Fvr(0)
y == Fvr(1)
z == Fvr(2)

Flat == {a, x, y}
Shallow == Flat \cup {g(s) : s \in Flat} \cup {f(s, t) : s, t \in Flat}
Deep == {g(g(x)), g(f(x, y)), f(g(x), y), f(x, g(y)), f(g(y), g(x)), f(f(x, y), z), Fvr(MaxVar - 1)}

MCConfigs ==
  [A |-> [prec |-> [a |-> 1, g |-> 2, f |-> 3], weight |-> [a |-> 1, g |-> 1, f |-> 0], vw |-> 1, mul |-> {}],
   B |-> [prec |-> [a |-> 1, g |-> 4, f |-> 3], weight |-> [a |-> 1, g |-> 3, f |-> 1], vw |-> 1, mul |-> {}]]

\* Cells 0 to 2; the collector moves them and builds other terms in them.
HeapA == <<g(y), f(Ref(0), x), f(x, Ref(0))>>
HeapB == <<f(Ref(2), y), f(Ref(2), x), g(x)>>
MCLayouts == {[c \in 0 .. 2 |-> HeapA[c + 1]], [c \in 0 .. 2 |-> HeapB[c + 1]]}

Ground == {a, g(a), f(a, a), g(g(a)), f(g(a), a)}

RuleSets ==
  { << <<f(a, y), y>>, <<f(g(x), y), g(f(x, y))>> >>,
    << <<g(g(x)), x>>, <<f(x, x), g(x)>> >>,
    << <<f(x, g(y)), g(f(x, y))>>, <<f(g(x), y), g(f(x, y))>>, <<f(x, a), x>> >>,
    << <<f(f(x, y), z), f(x, f(y, z))>>, <<f(g(x), x), a>> >>,
    << <<f(x, y), x>>, <<g(f(y, x)), y>> >> }

Redexes == Ground \cup {f(g(g(a)), a), g(f(g(a), a)), f(f(a, g(a)), g(a)), g(g(g(a))), f(g(x), g(x)),
                        f(f(x, y), f(y, x)), g(f(g(x), y)), f(g(g(x)), x)}

Pairs == {<<s, t>> : s \in Shallow, t \in Shallow} \cup {<<s, t>> : s \in Deep, t \in Shallow \cup Deep}

\* Precedences and weights that make the orders admissible.
OrderConfigs ==
  [plain |-> [prec |-> [a |-> 1, g |-> 2, f |-> 3], weight |-> [a |-> 1, g |-> 1, f |-> 0], vw |-> 1,
              mul |-> {}],
   light |-> [prec |-> [a |-> 2, g |-> 4, f |-> 1], weight |-> [a |-> 1, g |-> 2, f |-> 0], vw |-> 1,
              mul |-> {}],
   multi |-> [prec |-> [a |-> 5, g |-> 2, f |-> 3], weight |-> [a |-> 3, g |-> 1, f |-> 2], vw |-> 1,
              mul |-> {"f"}]]

Compared == Shallow \cup {g(g(x)), g(f(x, y)), f(g(x), y), f(x, g(y)), f(g(y), x), f(f(x, y), x),
                          f(g(a), a), f(a, g(a)), Fvr(OrderVars)}

Calls ==
  [op : {"unify", "normalize_vars"}, args : Pairs]
  \cup [op : {"normalize"}, args : Redexes \X RuleSets]
  \cup [op : {"compare"}, args : Compared \X Compared \X DOMAIN OrderConfigs]
  \cup [op : {"critical_pairs"}, args : RuleSets \X {3, 40}]

Verdict(k, s, t, o) == CASE k = "kbo" -> Kbo(s, t, o)
                         [] k = "rpo" -> Rpo(s, t, o)
                         [] k = "wpo" -> PathCmp(s, t, o, "wpo")
                         [] k = "lpo" -> LpoFlat(s, t, o)
OrderNames == {"kbo", "rpo", "wpo", "lpo"}

Idle == [op |-> "none"]
StepCap == 12

Init == /\ session \in {"calls", "memo"}
        /\ u = Fresh.u /\ call = Idle /\ answer = Idle
        /\ MemoInit

\* thvm_unify between begin and undo, and the unifier applied to both sides.
CallUnify ==
  /\ session = "calls" /\ call = Idle
  /\ \E c \in {d \in Calls : d.op = "unify"} :
       \E r \in {Unify(c.args[1], c.args[2], UndoBegin(u))} :
           /\ call' = c
           /\ answer' = [ok |-> r.ok, b |-> r.u.b,
                         lhs |-> IF r.ok THEN UnifyApply(c.args[1], r.u.b) ELSE NoTerm,
                         rhs |-> IF r.ok THEN UnifyApply(c.args[2], r.u.b) ELSE NoTerm]
           /\ u' = r.u

CallNormalizeVars ==
  /\ session = "calls" /\ call = Idle
  /\ \E c \in {d \in Calls : d.op = "normalize_vars"} :
       call' = c /\ answer' = NormalizeVars(c.args[1], c.args[2])
  /\ UNCHANGED u

CallNormalize ==
  /\ session = "calls" /\ call = Idle
  /\ \E c \in {d \in Calls : d.op = "normalize"} :
       call' = c /\ answer' = Normalize(c.args[1], c.args[2], StepCap)
  /\ UNCHANGED u

CallCriticalPairs ==
  /\ session = "calls" /\ call = Idle
  /\ \E c \in {d \in Calls : d.op = "critical_pairs"} :
       LET all == [i \in DOMAIN c.args[1] |-> i]
       IN  \E r \in {CriticalPairs([out |-> <<>>, u |-> u], c.args[1], all, all, c.args[2])} :
             call' = c /\ answer' = r.out /\ u' = r.u

\* The verdicts of the orders, and of their other forms, on one pair.
CallCompare ==
  /\ session = "calls" /\ call = Idle
  /\ \E c \in {d \in Calls : d.op = "compare"} :
       call' = c /\ answer' = [k \in OrderNames |-> Verdict(k, c.args[1], c.args[2], OrderConfigs[c.args[3]])]
  /\ UNCHANGED u

Return == /\ call # Idle
          /\ call' = Idle /\ answer' = Idle
          /\ u' = IF call.op = "unify" THEN Undo(u) ELSE u

Calling == CallUnify \/ CallNormalizeVars \/ CallNormalize \/ CallCriticalPairs \/ CallCompare \/ Return

Next == /\ \/ Calling /\ UNCHANGED memoVars
           \/ session = "memo" /\ MemoNext /\ UNCHANGED <<u, call, answer>>
        /\ UNCHANGED session
Spec == Init /\ [][Next]_vars

-----------------------------------------------------------------------------

Instances(ids) == [ids -> Ground]
Extend(h) == [id \in 0 .. MaxVar - 1 |-> IF id \in DOMAIN h THEN h[id] ELSE NoTerm]
Inst(t, h) == SubstApply(t, Extend(h))

\* The substitution is all zero whenever no call is running, although a failed
\* attempt leaves bindings behind and a long one overflows the undo log
\* (the undo protocol of unify/_.c:20-31, the static substitution of cp_visit).
SubstClear == call.op # "unify" => u.b = Unbound

\* thvm_unify answers with a most general unifier: it makes the two sides equal,
\* every ground unifier h is an instance of it (h o sigma = h), and it fails only
\* where there is none (bindings that hold variables bound later, the occurs check).
MostGeneral ==
  call.op = "unify" =>
    LET s == call.args[1]
        t == call.args[2]
    IN  /\ answer.ok => answer.lhs = answer.rhs
        /\ \A h \in Instances(VarsOf(s) \cup VarsOf(t)) :
             Inst(s, h) = Inst(t, h) =>
               /\ answer.ok
               /\ \A id \in DOMAIN h : Inst(UnifyApply(Fvr(id), answer.b), h) = h[id]

Permuted(t, p) == SubstApply(t, Extend([id \in DOMAIN p |-> Fvr(p[id])]))
Permutations2 == {p \in [0 .. 3 -> 0 .. 3] : \A i, j \in 0 .. 3 : i # j => p[i] # p[j]}

\* thvm_normalize_vars renames: its answer is a variant of the equation, and
\* the same for every variant ("makes alpha-equivalent rules/CPs BYTE-IDENTICAL",
\* unify/_.c:226).
VariantsMeet ==
  call.op = "normalize_vars" /\ Fvr(MaxVar - 1) \notin {call.args[1], call.args[2]} =>
    /\ \A p \in Permutations2 :
         NormalizeVars(Permuted(call.args[1], p), Permuted(call.args[2], p)) = answer
    /\ \E p \in Permutations2 : <<Permuted(call.args[1], p), Permuted(call.args[2], p)>> = answer

\* One step of rewriting, defined on its own: some subterm is an instance of a
\* left-hand side and gives way to the instance of the right-hand side.
RECURSIVE Places(_)
Places(t) == {<<>>} \cup UNION {{<<i>> \o p : p \in Places(t.args[i])} : i \in DOMAIN t.args}
Reduces(s, t, rule, h) == \E p \in Places(s) : /\ SubtermAt(s, p) = Inst(rule[1], h)
                                               /\ t = PutAt(s, p, Inst(rule[2], h))
OneStep(s, t, rules) ==
  \E i \in DOMAIN rules : \E h \in [VarsOf(rules[i][1]) -> Subterms(s)] : Reduces(s, t, rules[i], h)

\* Each step is one application of a rule, and the term that
\* thvm_rewrite_normalize returns before its cap has no instance of a left-hand
\* side anywhere (these rule sets have no rule whose sides have equal instances).
Normalizes ==
  call.op = "normalize" =>
    LET s == call.args[1]
    IN  \A t \in {RewriteStep(s, call.args[2])} :
        /\ t # s => OneStep(s, t, call.args[2])
        /\ \A i \in DOMAIN call.args[2] : \A v \in Subterms(answer) :
             ~\E h \in [VarsOf(call.args[2][i][1]) -> Subterms(v)] : Inst(call.args[2][i][1], h) = v

\* Both sides of a critical pair are one step away from its peak.
PairsSound ==
  call.op = "critical_pairs" =>
    \A i \in DOMAIN answer : /\ OneStep(answer[i].peak, answer[i].lhs, call.args[1])
                             /\ OneStep(answer[i].peak, answer[i].rhs, call.args[1])

\* Every ground overlap of two rules at a place that is not a variable is an
\* instance of a pair of the answer, unless the buffer is full.
OverlapsCovered ==
  call.op = "critical_pairs" /\ Len(answer) < call.args[2] =>
    \A i, j \in DOMAIN call.args[1] :
      LET ri == call.args[1][i]
          rj == call.args[1][j]
          ps == ToSet(Positions(ri[1], 0))
      IN  \A p \in ps : \A h \in Instances(VarsOf(ri[1])) :
            \A peak \in {Inst(ri[1], h)} : \A m \in {Match(rj[1], SubtermAt(peak, p), Unbound)} :
              m.ok => \A other \in {PutAt(peak, p, SubstApply(rj[2], m.u))} : \E k \in DOMAIN answer :
                          Match(Ctr("=", <<answer[k].lhs, answer[k].rhs, answer[k].peak>>),
                                Ctr("=", <<other, Inst(ri[2], h), peak>>), Unbound).ok

\* The critical pairs are the overlaps, no more and no less (cp_visit with its
\* static substitution, the offset that keeps two rules' variables apart).
PairsExact == PairsSound /\ OverlapsCovered

-----------------------------------------------------------------------------

\* The linear and the flat comparator give the verdict of the reference.
KboAgree ==
  call.op = "compare" =>
    LET s == call.args[1]
        t == call.args[2]
        o == OrderConfigs[call.args[3]]
    IN  answer.kbo = KboNaive(s, t, o) /\ KboFlat(s, t, o) = answer.kbo

\* The path order of Dershowitz: what thvm_lpo means by "greater".
RECURSIVE LpoGreater(_, _, _)
LpoGreater(s, t, o) ==
  LET i == FirstApart(s, t)
  IN  CASE s = t \/ IsFvr(s)            -> FALSE
        [] s # t /\ ~IsFvr(s) /\ IsFvr(t) -> t \in Subterms(s)
        [] s # t /\ ~IsFvr(s) /\ ~IsFvr(t) ->
             \/ \E v \in Kids(s) : v = t \/ LpoGreater(v, t, o)
             \/ /\ Prec(s, o) > Prec(t, o)
                /\ \A v \in Kids(t) : LpoGreater(s, v, o)
             \/ /\ Prec(s, o) = Prec(t, o)
                /\ LpoGreater(s.args[i], t.args[i], o)
                /\ \A v \in Kids(t) : LpoGreater(s, v, o)

\* Both forms of the path order say "greater" exactly when it is, with the
\* pretests and the arguments the flat form skips.
LpoAgree ==
  call.op = "compare" =>
    LET s == call.args[1]
        t == call.args[2]
        o == OrderConfigs[call.args[3]]
        greater == LpoGreater(s, t, o)
    IN  (answer.lpo = "GT") = greater /\ (Lpo(s, t, o) = "GT") = greater

\* No order calls two terms greater than each other, and "less" is "greater"
\* seen from the other side (for thvm_lpo see LpoAntisymmetric).
Antisymmetric ==
  call.op = "compare" =>
    \A k \in OrderNames \ {"lpo"} :
      Verdict(k, call.args[2], call.args[1], OrderConfigs[call.args[3]]) = Flip(answer[k])

\* What atp/lpo_cache.c:75 relies on when it files a pair under one
\* orientation: "antisymmetric (lpo(a,b) ~ INV(lpo(b,a)))".  An incomparable
\* pair of arguments makes both directions "less".
LpoAntisymmetric ==
  call.op = "compare" =>
    Verdict("lpo", call.args[2], call.args[1], OrderConfigs[call.args[3]]) = Flip(answer.lpo)

\* A chain of rewriting steps descends.
Transitive ==
  call.op = "compare" =>
    LET o == OrderConfigs[call.args[3]]
    IN  \A k \in DOMAIN answer : answer[k] = "GT" =>
          \A v \in Compared : Verdict(k, call.args[2], v, o) = "GT"
                                => Verdict(k, call.args[1], v, o) = "GT"

\* A greater side stays greater in every instance and every context: a rule
\* oriented by the order makes every term it rewrites smaller.
Monotone ==
  call.op = "compare" =>
    LET s == call.args[1]
        t == call.args[2]
        o == OrderConfigs[call.args[3]]
        Greater(k, v, w) == Verdict(k, v, w, o) = "GT"
    IN  \A k \in DOMAIN answer :
          /\ answer[k] = "GT" =>
               /\ \A h \in [VarsOf(s) \cup VarsOf(t) -> {a, g(a), f(a, g(a))}] :
                    (\A id \in DOMAIN h : id < MaxVar) => Greater(k, Inst(s, h), Inst(t, h))
               /\ Greater(k, g(s), g(t)) /\ Greater(k, f(s, x), f(t, x)) /\ Greater(k, f(y, s), f(y, t))
          /\ \A v \in Subterms(s) \ {s} : Greater(k, s, v)

\* Ground terms are always comparable (with multiset status two different ones
\* may be EQ): unfailing completion relies on it.
GroundTotal ==
  call.op = "compare" /\ VarsOf(call.args[1]) \cup VarsOf(call.args[2]) = {} =>
    \A k \in DOMAIN answer : answer[k] # "UN"

\* What completion takes KBO, LPO, RPO and WPO to be: strict orders that survive
\* instances and contexts and decide ground terms (the gates on variables, the
\* statuses, the fall-through from weights to heads to arguments).
ReductionOrder == Antisymmetric /\ Transitive /\ Monotone /\ GroundTotal
=============================================================================
