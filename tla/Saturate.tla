------------------------------ MODULE Saturate ------------------------------
(***************************************************************************)
(* The completion loop of the equational prover, src/atp/_.c: facts (rules *)
(* and equations), the queue of critical pairs, orientation by the term    *)
(* order, rewriting with rules and with equations where they descend,      *)
(* interreduction with the array compaction, overlaps, the redundancy      *)
(* tests, orphans, and the goal.                                           *)
(*                                                                         *)
(* Which pair is taken next (weights, ages, goal distance) is left open.   *)
(* The flags are those of thvm_atp_init but for three that a problem       *)
(* chooses: unfailing (use_unfailing_cp), orphans ("eager":                *)
(* use_eager_orphan_sweep, "lazy": use_orphan_murder) and the goal.        *)
(* Deadlines, memory limits and the optional strategies are left out.      *)
(***************************************************************************)
EXTENDS Orders

CONSTANTS
  Problems, \* problems: axioms (a sequence of pairs), goal (a pair or NoGoal), order, cap (step_cap), flags
  NoGoal,
  MinConst, \* the least constant
  NormCap,  \* 64 steps for a pair, 16 for interreduction, 2^16 for the goal: one bound here
  CpBatch   \* ATP_CP_BATCH

VARIABLES
  prob,     \* the problem
  R,        \* the facts: parallel arrays lhs, rhs, trace, uid, orient
  queue,    \* the queued pairs
  nTrace,   \* n_trace
  dead,     \* r_trace_dead
  deadUid,  \* uids marked dead
  nextUid,  \* next_rule_uid
  revision, \* r_revision
  checked,  \* goal_check_running_rev
  step,
  status
vars == <<prob, R, queue, nTrace, dead, deadUid, nextUid, revision, checked, step, status>>

Greater(s, t) == Kbo(s, t, prob.order) = "GT"

None == -1
Facts(F) == DOMAIN F.lhs
Slot(F, i) == <<F.lhs[i], F.rhs[i]>>
OrientedOnes(F) == SelectSeq([i \in Facts(F) |-> i], LAMBDA i : F.orient[i])
Rules(F) == With(OrientedOnes(F), LAMBDA is : [k \in DOMAIN is |-> Slot(F, is[k])])
Reversed(e) == <<e[2], e[1]>>

-----------------------------------------------------------------------------
(* Rewriting *)

Descends(t, u) == Greater(t, u)

RECURSIVE GroundedInstance(_, _)
GroundedInstance(t, from) ==
  LET Ground1(u) == GroundedInstance(u, from)
  IN  IF ~IsFvr(t) THEN Rebuild(t, Ground1)
      ELSE IF t.ext \in VarsOf(from) THEN t ELSE MinConst

\* What an equation e = <<from, to>> makes of t at the root.
Replacement(t, e) ==
  With(Match(e[1], t, Unbound),
       LAMBDA m : IF m.ok THEN SubstApply(GroundedInstance(e[2], e[1]), m.u) ELSE t)

\* atp_ordered_try_top with the oriented rules skipped: the equations in turn,
\* left to right before right to left.
Equations(F) == FlattenSeq([i \in Facts(F) |-> IF F.orient[i] THEN <<>>
                                               ELSE <<Slot(F, i), Reversed(Slot(F, i))>>])
TryEquations(t, es) ==
  LET First(fit) == es[CHOOSE k \in fit : \A j \in fit : k <= j]
  IN  With({k \in DOMAIN es : With(Replacement(t, es[k]), LAMBDA u : Descends(t, u))},
           LAMBDA fit : IF fit = {} THEN t ELSE Replacement(t, First(fit)))

RECURSIVE EquationStep(_, _)
EquationStep(t, es) ==
  LET Step(u) == EquationStep(u, es)
  IN  With(TryEquations(t, es),
           LAMBDA top : IF top # t THEN top ELSE [t EXCEPT !.args = FirstChanged(t, Step)])

RECURSIVE NormalizeOrdered(_, _, _, _)
NormalizeOrdered(t, rules, es, cap) ==
  LET Further(u, v) == IF cap = 0 \/ v = u THEN u ELSE NormalizeOrdered(v, rules, es, cap - 1)
  IN  With(Normalize(t, rules, NormCap),
           LAMBDA u : With(EquationStep(u, es), LAMBDA v : Further(u, v)))

Nf(t, F) == With(<<Rules(F), Equations(F)>>, LAMBDA r : NormalizeOrdered(t, r[1], r[2], NormCap))

-----------------------------------------------------------------------------
(* Facts and the queue.  st is the part of the state one step works on. *)

\* atp_push_rule: a fact that is already there is not added again.
PushRule(st, lhs, rhs) ==
  LET Push(e) ==
      IF \E i \in Facts(st.R) : Slot(st.R, i) = e THEN st
      ELSE [st EXCEPT !.R = [lhs    |-> Append(st.R.lhs, e[1]),
                             rhs    |-> Append(st.R.rhs, e[2]),
                             trace  |-> Append(st.R.trace, None),
                             uid    |-> Append(st.R.uid, st.nextUid + 1),
                             orient |-> Append(st.R.orient, Greater(e[1], e[2]))],
                      !.nextUid = st.nextUid + 1,
                      !.revision = st.revision + 1]
  IN  With(NormalizeVars(lhs, rhs), Push)

OrientAndAdd(st, l, r) ==
  LET By(c) == CASE c \in {"GT", "UN"} -> PushRule(st, l, r)
                 [] c = "LT"           -> PushRule(st, r, l)
                 [] c = "EQ"           -> st
  IN  With(Kbo(l, r, prob.order), By)

\* The trace entry of the fact just added.
TraceAdded(st) == LET n == Len(st.R.lhs)
                  IN  [st EXCEPT !.R.trace = Put(st.R.trace, n, st.nTrace), !.nTrace = st.nTrace + 1]

Enqueue(st, e, kind, pa, pb, ua, ub) ==
  [st EXCEPT !.queue = @ \cup {[eq |-> e, kind |-> kind, pa |-> pa, pb |-> pb, ua |-> ua, ub |-> ub,
                                t |-> st.nTrace]},
             !.nTrace = @ + 1]

\* atp_cp_kill_orphans and atp_cp_is_orphan: only critical pairs are orphans.
\* Mutant: whatever has a dead parent is one.
IsOrphanAny(c, gone) == c.pa \in gone \/ c.pb \in gone

IsOrphan(c, gone) == c.kind = "CP" /\ (c.pa \in gone \/ c.pb \in gone)
UidOrphan(c, gone) == c.kind = "CP" /\ (c.ua \in gone \/ c.ub \in gone)

-----------------------------------------------------------------------------
(* Interreduction of the facts before the new one, at slot `new` *)

\* Mutant: the orientations stay where they are.
DropSlotBare(F, i) == [F EXCEPT !.lhs = RemoveAt(@, i), !.rhs = RemoveAt(@, i),
                                !.trace = RemoveAt(@, i), !.uid = RemoveAt(@, i),
                                !.orient = RemoveAt(@, Len(@))]

DropSlot(F, i) == [F EXCEPT !.lhs = RemoveAt(@, i), !.rhs = RemoveAt(@, i),
                            !.trace = RemoveAt(@, i), !.uid = RemoveAt(@, i),
                            !.orient = RemoveAt(@, i)]

\* The slice: the new fact alone.
Slice(F, new) == [lhs |-> <<F.lhs[new]>>, rhs |-> <<F.rhs[new]>>, orient |-> <<F.orient[new]>>]

\* The left side of fact i has become reducible: it leaves R for the queue.
Demote(st, i, reduced) ==
  LET back == Enqueue(st, NormalizeVars(reduced, st.R.rhs[i]), "SIMPLIFY", st.R.trace[i], None, None, None)
  IN  [back EXCEPT !.R = DropSlot(st.R, i), !.revision = st.revision + 1,
                   !.gone = st.gone \cup {st.R.trace[i]}, !.goneUid = st.goneUid \cup {st.R.uid[i]}]

\* The right side of fact i is rewritten in place, under a new trace entry.
Compose(st, i, slice) ==
  LET By(rhs) ==
      IF rhs # st.R.rhs[i] /\ Greater(st.R.lhs[i], rhs) /\ Size(rhs) <= Size(st.R.rhs[i])
        THEN [st EXCEPT !.R.rhs = Put(st.R.rhs, i, rhs), !.R.trace = Put(st.R.trace, i, st.nTrace),
                        !.nTrace = st.nTrace + 2]
        ELSE st
  IN  With(Nf(st.R.rhs[i], slice), By)

\* The next slot to look at after slot i was dropped: the one that moved there.
\* Mutant: one further.
AfterDropNext(i) == i + 1

AfterDrop(i) == i

RECURSIVE InterreduceFrom(_, _, _, _)
InterreduceFrom(st, i, old, slice) ==
  LET Next1(reduced) ==
      IF reduced # st.R.lhs[i]
        THEN With(Demote(st, i, reduced), LAMBDA s : InterreduceFrom(s, AfterDrop(i), old - 1, slice))
        ELSE With(Compose(st, i, slice), LAMBDA s : InterreduceFrom(s, i + 1, old, slice))
  IN  IF i > old THEN st ELSE With(Nf(st.R.lhs[i], slice), Next1)

Interreduce(st) ==
  LET n == Len(st.R.lhs)
      Swept(s) == IF prob.orphans = "eager"
                    THEN [s EXCEPT !.queue = {c \in @ : ~IsOrphan(c, s.gone)}]
                    ELSE s
  IN  With(InterreduceFrom([st EXCEPT !.gone = {}, !.goneUid = {}], 1, n - 1, Slice(st.R, n)), Swept)

-----------------------------------------------------------------------------
(* Critical pairs of the new fact *)

SubsumedBy(c, e) == Match(Ctr("=", c.eq), Ctr("=", e), Unbound).ok
\* Mutant: a pair that subsumes the new one only in part is enough.
QueueSubsumedLoose(q, e) == \E c \in q : Match(c.eq[1], e[1], Unbound).ok

QueueSubsumed(q, e) == \E c \in q : SubsumedBy(c, e) \/ SubsumedBy(c, Reversed(e))

\* atp_push_cps_traced for one pair of facts i and j.
PushCp(st, cp, i, j) ==
  LET Nf1(t) == Normalize(t, Rules(st.R), NormCap)
      Push(e) == IF QueueSubsumed(st.queue, e) THEN st
                 ELSE Enqueue(st, e, "CP", st.R.trace[i], st.R.trace[j], st.R.uid[i], st.R.uid[j])
  IN  With(<<Nf1(cp.lhs), Nf1(cp.rhs)>>,
           LAMBDA e : IF e[1] = e[2] THEN st ELSE With(NormalizeVars(e[1], e[2]), Push))

\* atp_cp_order_gate: the step an equation makes at the peak must not climb.
Uphill(cp, iEq, jEq) == \/ iEq /\ Greater(cp.rhs, cp.peak)
                        \/ jEq /\ Greater(SubtermAt(cp.lhs, cp.pos), SubtermAt(cp.peak, cp.pos))

IsMono(e) == NormalizeVars(e[2], e[1]) = e

\* The faces of j planted in the faces of i, in the order of the code; a fact
\* overlaps its own root only as an equation.
OverlapIJ(F, i, j) ==
  LET ei == Slot(F, i)
      ej == Slot(F, j)
      iEq == prob.unfailing /\ ~F.orient[i]
      jEq == prob.unfailing /\ ~F.orient[j]
      iUn == iEq /\ ~IsMono(ei)
      jUn == jEq /\ ~IsMono(ej)
      Face(on, outer, inner, skip) ==
        IF ~on THEN <<>>
        ELSE With(Overlap(Fresh, outer, Renamed(inner), CpBatch, i < j \/ (i = j /\ skip)).out,
                  LAMBDA out : SelectSeq(out, LAMBDA cp : ~Uphill(cp, iEq, jEq)))
  IN  Face(TRUE, ei, ej, ~iEq) \o Face(jUn, ei, Reversed(ej), FALSE)
      \o Face(iUn, Reversed(ei), ej, TRUE) \o Face(iUn /\ jUn, Reversed(ei), Reversed(ej), FALSE)

GenOne(st, p) == Fold(LAMBDA s, cp : PushCp(s, cp, p[1], p[2]), st, OverlapIJ(st.R, p[1], p[2]))

\* thvm_atp_generate_cps_c: every fact in the new one, the new one in the old.
PairsOfNew(n) == [j \in 1 .. n |-> <<n, j>>] \o [i \in 1 .. n - 1 |-> <<i, n>>]

GenerateCps(st) == Fold(GenOne, st, PairsOfNew(Len(st.R.lhs)))

-----------------------------------------------------------------------------
(* The step *)

Joined(F) == prob.goal # NoGoal /\ Nf(prob.goal[1], F) = Nf(prob.goal[2], F)

\* Mutant: a flag in place of the revision.
ProvedOnce(F, rev, seen) == seen = 0 /\ Joined(F)

\* thvm_atp_goal_check answers from memory while the revision is the same.
Proved(F, rev, seen) == seen # rev + 1 /\ Joined(F)
Seen(rev, seen) == IF prob.goal = NoGoal THEN seen ELSE rev + 1

EmptyR == [lhs |-> <<>>, rhs |-> <<>>, trace |-> <<>>, uid |-> <<>>, orient |-> <<>>]

\* thvm_atp_add_equation for each axiom.
Intake(axioms) ==
  {[eq |-> NormalizeVars(axioms[k][1], axioms[k][2]), kind |-> "AXIOM", pa |-> None, pb |-> None,
    ua |-> None, ub |-> None, t |-> k - 1] : k \in DOMAIN axioms}

Init == /\ prob \in Problems
        /\ R = EmptyR /\ queue = Intake(prob.axioms) /\ nTrace = Len(prob.axioms)
        /\ dead = {} /\ deadUid = {} /\ nextUid = 0
        /\ revision = 0 /\ checked = 0 /\ step = 0 /\ status = "RUNNING"

GoalFirst == /\ status = "RUNNING" /\ Proved(R, revision, checked)
             /\ status' = "PROVED"
             /\ UNCHANGED <<prob, R, queue, nTrace, dead, deadUid, nextUid, revision, checked, step>>

Going == status = "RUNNING" /\ ~Proved(R, revision, checked)

TimeOut == /\ Going /\ step >= prob.cap
           /\ status' = "TIMEOUT" /\ checked' = Seen(revision, checked)
           /\ UNCHANGED <<prob, R, queue, nTrace, dead, deadUid, nextUid, revision, step>>

Orphans == IF prob.orphans = "eager" THEN {}
           ELSE {c \in queue : IsOrphan(c, dead) \/ UidOrphan(c, deadUid)}

QueueEmpty == /\ Going /\ step < prob.cap
              /\ queue \subseteq Orphans
              /\ queue' = {} /\ status' = "QUEUE_EMPTY" /\ checked' = Seen(revision, checked)
              /\ UNCHANGED <<prob, R, nTrace, dead, deadUid, nextUid, revision, step>>

Work == [R |-> R, queue |-> queue, nTrace |-> nTrace, nextUid |-> nextUid, revision |-> revision,
         gone |-> {}, goneUid |-> {}]

\* thvm_atp_select_cp: some pair, after the orphans met on the way to it.
Taken(c, lost) == [Work EXCEPT !.queue = queue \ ({c} \cup lost)]

\* The pair is joined, or the fact is already there.
Absorb(c, lost) ==
  \E e \in {<<Nf(c.eq[1], R), Nf(c.eq[2], R)>>} :
      /\ e[1] = e[2] \/ OrientAndAdd(Taken(c, lost), e[1], e[2]) = Taken(c, lost)
      /\ queue' = queue \ ({c} \cup lost)
      /\ step' = step + 1 /\ checked' = Seen(revision, checked)
      /\ UNCHANGED <<prob, R, nTrace, dead, deadUid, nextUid, revision, status>>

\* Orientation, interreduction and the overlaps of the new fact.
Activated(added) == With(Interreduce(TraceAdded(added)), GenerateCps)

Activate(c, lost) ==
  \E e \in {<<Nf(c.eq[1], R), Nf(c.eq[2], R)>>} :
  \E added \in {OrientAndAdd(Taken(c, lost), e[1], e[2])} :
  \E last \in {IF added = Taken(c, lost) THEN added ELSE Activated(added)} :
      /\ e[1] # e[2] /\ added # Taken(c, lost)
      /\ R' = last.R /\ queue' = last.queue /\ nTrace' = last.nTrace /\ nextUid' = last.nextUid
      /\ revision' = last.revision
      /\ dead' = IF prob.orphans = "lazy" THEN dead \cup last.gone ELSE dead
      /\ deadUid' = IF prob.orphans = "lazy" THEN deadUid \cup last.goneUid ELSE deadUid
      /\ IF Proved(last.R, last.revision, Seen(revision, checked))
           THEN /\ status' = "PROVED" /\ step' = step
                /\ checked' = Seen(revision, checked)
           ELSE /\ status' = status /\ step' = step + 1
                /\ checked' = Seen(last.revision, checked)
      /\ UNCHANGED prob

Select(A(_, _)) == /\ Going /\ step < prob.cap
                   /\ \E c \in queue \ Orphans : \E lost \in SUBSET Orphans : A(c, lost)

Drop == Select(Absorb)
Add  == Select(Activate)

Next == GoalFirst \/ TimeOut \/ QueueEmpty \/ Drop \/ Add
Spec == Init /\ [][Next]_vars
=============================================================================
