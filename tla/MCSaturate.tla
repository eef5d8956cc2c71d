----------------------------- MODULE MCSaturate -----------------------------
(***************************************************************************)
(* Problems for Saturate, and what its answers must mean.                  *)
(***************************************************************************)
EXTENDS Saturate

a == Ctr("a", <<>>)
g(s) == Ctr("g", <<s>>)
f(s, t) == Ctr("f", <<s, t>>)
x == Fvr(0)
y == Fvr(1)
z == Fvr(2)

RECURSIVE Tower(_)
Tower(n) == IF n = 0 THEN a ELSE g(Tower(n - 1))

Even  == [prec |-> [a |-> 1, g |-> 2, f |-> 3], weight |-> [a |-> 1, g |-> 1, f |-> 1], vw |-> 1, mul |-> {}]
MCMinConst == a
MCNoGoal == <<>>

\* goal: a pair of ground terms; truth: whether it follows from the axioms; cap:
\* the number of steps, that only the last problem but one needs.
Problem(axioms, goal, truth, cap) == [axioms |-> axioms, goal |-> goal, truth |-> truth, cap |-> cap]
Cases ==
  { Problem(<< <<Tower(3), a>>, <<Tower(5), a>> >>, <<g(a), a>>, TRUE, 8),
    Problem(<< <<g(g(g(x))), x>>, <<Tower(5), a>>, <<f(g(g(x)), x), f(x, g(g(x)))>> >>, <<f(a, a), a>>, FALSE, 7),
    Problem(<< <<g(g(x)), x>>, <<f(g(x), x), a>> >>, <<f(a, g(a)), g(a)>>, FALSE, 8),
    Problem(<< <<f(x, y), g(x)>>, <<f(x, y), g(y)>> >>, <<g(a), a>>, FALSE, 8),
    Problem(<< <<f(x, y), f(y, x)>>, <<f(a, x), x>>, <<g(f(x, a)), a>> >>, <<>>, FALSE, 8),
    Problem(<< <<f(x, g(x)), a>>, <<f(x, y), f(y, x)>>, <<f(a, x), x>> >>, <<f(g(g(a)), a), g(a)>>, TRUE, 8),
    Problem(<< <<f(x, x), g(g(x))>>, <<g(g(x)), x>>, <<f(a, x), g(x)>> >>, <<g(a), a>>, TRUE, 8),
    Problem(<< <<f(a, g(f(a, x))), g(f(a, x))>> >>, <<g(a), a>>, FALSE, 3),
    Problem(<< <<f(g(x), y), f(x, g(y))>>, <<f(a, x), x>> >>, <<g(a), g(a)>>, TRUE, 8) }

MCProblems == {[axioms |-> p.axioms, order |-> Even, goal |-> p.goal, truth |-> p.truth, cap |-> p.cap,
                unfailing |-> u, orphans |-> o]
                 : p \in Cases, u \in BOOLEAN, o \in {"eager", "lazy"}}

-----------------------------------------------------------------------------
\* Algebras with two elements: an element for a, tables for g and f.
Algebras == [a : {0, 1}, g : [{0, 1} -> {0, 1}], f : [{0, 1} \X {0, 1} -> {0, 1}]]

RECURSIVE Value(_, _, _)
Value(t, A, h) == CASE t.tag = "FVR"  -> h[t.ext]
                    [] t.ext = "a"   -> A.a
                    [] t.ext = "g"   -> A.g[Value(t.args[1], A, h)]
                    [] t.ext = "f"   -> A.f[<<Value(t.args[1], A, h), Value(t.args[2], A, h)>>]
Holds(e, A) == \A h \in [VarsOf(e[1]) \cup VarsOf(e[2]) -> {0, 1}] : Value(e[1], A, h) = Value(e[2], A, h)

Models(E) == {A \in Algebras : \A e \in E : Holds(e, A)}
Known == {Slot(R, i) : i \in Facts(R)} \cup {c.eq : c \in queue}

\* Facts and queued pairs together say what the axioms say, no more and no
\* less: nothing that is dropped (a joined pair, a subsumed one, an orphan, a
\* demoted fact) takes a part of the theory with it.
SameTheory == Models(Known) = Models(ToSet(prob.axioms))

\* A fact that rewrites without a test of its instances descends, also after
\* its slot moved and its right side was rewritten.
RulesDescend == \A i \in Facts(R) : R.orient[i] => Greater(R.lhs[i], R.rhs[i])

\* No left side is reducible by another rule between two steps.
Interreduced ==
  \A i, j \in Facts(R) : i # j /\ R.orient[j] => Normalize(R.lhs[i], <<Slot(R, j)>>, 1) = R.lhs[i]

Complete == status = "QUEUE_EMPTY" /\ (prob.unfailing \/ \A i \in Facts(R) : R.orient[i])

Ground == {a, g(a), g(g(a)), f(a, a), f(g(a), a), f(a, g(a))}
\* When the queue has run dry the facts decide the theory on ground terms: both
\* sides of every instance of an axiom have one normal form.
Saturated ==
  Complete =>
    \A k \in DOMAIN prob.axioms :
      LET e == prob.axioms[k]
          ids == VarsOf(e[1]) \cup VarsOf(e[2])
      IN  \A h \in [ids -> Ground] :
            LET b == [id \in 0 .. MaxVar - 1 |-> IF id \in ids THEN h[id] ELSE NoTerm]
            IN  Nf(SubstApply(e[1], b), R) = Nf(SubstApply(e[2], b), R)

\* The verdict is right: a goal that is proved follows from the axioms, one
\* that is left when the queue has run dry does not.
VerdictRight == /\ status = "PROVED" => prob.truth
                /\ Complete /\ prob.goal # NoGoal => ~prob.truth
=============================================================================
