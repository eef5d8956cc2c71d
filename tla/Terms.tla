------------------------------- MODULE Terms -------------------------------
(***************************************************************************)
(* First-order terms of the equational provers and what is done with them: *)
(* src/unify/_.c (unification, renaming, canonical variables),             *)
(* src/rewrite/_.c (matching, rewriting) and src/cp/_.c (critical pairs).  *)
(*                                                                         *)
(* A term is a variable (TAG_FVR, its id) or a constructor (TAG_CTR, its   *)
(* label and arguments).  A substitution maps the ids below MaxVar to      *)
(* terms; NoTerm is the word 0, no binding.  Cells are not modelled here:  *)
(* kbo_eq is equality of terms (KboMemo has the cells and the cache).      *)
(***************************************************************************)
EXTENDS Integers, Sequences, FiniteSets, SequencesExt

CONSTANTS
  MaxVar,   \* REWRITE_MAX_VAR: a variable with a larger id is never bound
  LogCap,   \* entries of g_un_log
  MaxDepth  \* CP_MAX_DEPTH

Fvr(id)      == [tag |-> "FVR", ext |-> id, args |-> <<>>]
Ctr(f, args) == [tag |-> "CTR", ext |-> f, args |-> args]
NoTerm       == [tag |-> "NONE", ext |-> 0, args |-> <<>>]

\* F(e), and F folded over seq from base, for a model checker that evaluates an
\* argument at each of its uses: here e, and each partial result, only once.
With(e, F(_))         == CHOOSE v \in {F(x) : x \in {e}} : TRUE
Fold(F(_, _), base, seq) ==
  With(seq, LAMBDA q : FoldLeft(LAMBDA r, e : With(r, LAMBDA x : F(x, e)), base, q))

IsFvr(t) == t.tag = "FVR"
Kids(t)  == ToSet(t.args)

RECURSIVE VarsOf(_), Subterms(_), Size(_)
VarsOf(t)   == IF IsFvr(t) THEN {t.ext} ELSE UNION {VarsOf(u) : u \in Kids(t)}
Subterms(t) == {t} \cup UNION {Subterms(u) : u \in Kids(t)}
Size(t)     == 1 + FoldLeft(LAMBDA n, u : n + Size(u), 0, t.args)

Unbound == [id \in 0 .. MaxVar - 1 |-> NoTerm]
\* fn with e at i.
Put(fn, i, e) == [j \in DOMAIN fn |-> IF j = i THEN e ELSE fn[j]]

Zipped(s, t) == [i \in 1 .. Len(s.args) |-> <<s.args[i], t.args[i]>>]
SameHead(s, t) == s.ext = t.ext /\ Len(s.args) = Len(t.args)

-----------------------------------------------------------------------------
(* Unification.  u is the substitution with the undo log: u.b the bindings, *)
(* u.log the ids bound since thvm_unify_undo_begin, u.over that one did not *)
(* fit.                                                                     *)

UndoBegin(u) == [u EXCEPT !.log = <<>>, !.over = FALSE]

Undo(u) ==
  [b    |-> IF u.over THEN Unbound
            ELSE [id \in DOMAIN u.b |-> IF id \in ToSet(u.log) THEN NoTerm ELSE u.b[id]],
   log  |-> <<>>, over |-> FALSE]

\* Mutant: an overflow goes unnoticed.
BindSilent(u, id, t) ==
  [b |-> Put(u.b, id, t),
   log |-> IF Len(u.log) < LogCap THEN Append(u.log, id) ELSE u.log,
   over |-> u.over]

Bind(u, id, t) ==
  [b |-> Put(u.b, id, t),
   log |-> IF Len(u.log) < LogCap THEN Append(u.log, id) ELSE u.log,
   over |-> u.over \/ Len(u.log) = LogCap]

RECURSIVE Walk(_, _)
Walk(t, b) == IF IsFvr(t) /\ t.ext < MaxVar /\ b[t.ext] # NoTerm
                THEN Walk(b[t.ext], b) ELSE t

RECURSIVE Occurs(_, _, _)
Occurs(id, t0, b) == \E t \in {Walk(t0, b)} :
                       t = Fvr(id) \/ \E u \in Kids(t) : Occurs(id, u, b)

Failed(u) == [ok |-> FALSE, u |-> u]
Done(u)   == [ok |-> TRUE, u |-> u]

BindVar(id, t, u) == IF id >= MaxVar \/ Occurs(id, t, u.b) THEN Failed(u)
                     ELSE Done(Bind(u, id, t))

\* A failed call leaves the bindings it made.
RECURSIVE Unify(_, _, _)
UnifyWalked(s, t, u) ==
  LET Step(r, p) == IF r.ok THEN Unify(p[1], p[2], r.u) ELSE r
  IN  CASE s = t                                      -> Done(u)
        [] s # t /\ IsFvr(s)                          -> BindVar(s.ext, t, u)
        [] s # t /\ ~IsFvr(s) /\ IsFvr(t)             -> BindVar(t.ext, s, u)
        [] s # t /\ ~IsFvr(s) /\ ~IsFvr(t) ->
             IF SameHead(s, t) THEN Fold(Step, Done(u), Zipped(s, t))
                               ELSE Failed(u)
Unify(s, t, u) == With(<<Walk(s, u.b), Walk(t, u.b)>>, LAMBDA w : UnifyWalked(w[1], w[2], u))

Rebuild(t, F(_)) == [t EXCEPT !.args = [i \in DOMAIN t.args |-> F(t.args[i])]]

\* Mutant: one link of a chain.
UnifyApplyOnce(t, b) == IF IsFvr(t) /\ t.ext < MaxVar /\ b[t.ext] # NoTerm THEN b[t.ext]
                        ELSE LET Link(u) == IF IsFvr(u) /\ u.ext < MaxVar /\ b[u.ext] # NoTerm
                                              THEN b[u.ext] ELSE u
                             IN  Rebuild(t, Link)

\* Follows chains of bindings, as thvm_subst_apply does not.
RECURSIVE UnifyApply(_, _)
UnifyApply(t0, b) ==
  LET Apply(u) == UnifyApply(u, b)
  IN  With(Walk(t0, b), LAMBDA t : IF IsFvr(t) THEN t ELSE Rebuild(t, Apply))

RECURSIVE RenameVars(_, _)
RenameVars(t, off) == LET Rename(u) == RenameVars(u, off)
                      IN  IF IsFvr(t) THEN Fvr(t.ext + off) ELSE Rebuild(t, Rename)

\* thvm_normalize_vars.  m lists the old ids in the order they were seen; one
\* past a full map keeps its id.
IndexIn(m, id) == (CHOOSE i \in DOMAIN m : m[i] = id) - 1

RECURSIVE NvRewrite(_, _)
NvRewrite(t, m) ==
  LET Step(r, u) == With(NvRewrite(u, r.m),
                         LAMBDA v : [args |-> Append(r.args, v.t), m |-> v.m])
  IN  IF ~IsFvr(t) THEN With(Fold(Step, [args |-> <<>>, m |-> m], t.args),
                             LAMBDA kids : [t |-> [t EXCEPT !.args = kids.args], m |-> kids.m])
      ELSE IF t.ext \in ToSet(m) THEN [t |-> Fvr(IndexIn(m, t.ext)), m |-> m]
      ELSE IF Len(m) >= MaxVar   THEN [t |-> t, m |-> m]
      ELSE [t |-> Fvr(Len(m)), m |-> Append(m, t.ext)]

\* Mutant: each side is numbered on its own.
NormalizeVarsApart(lhs, rhs) == <<NvRewrite(lhs, <<>>).t, NvRewrite(rhs, <<>>).t>>

NormalizeVars(lhs, rhs) == With(NvRewrite(lhs, <<>>),
                                LAMBDA l : <<l.t, NvRewrite(rhs, l.m).t>>)

-----------------------------------------------------------------------------
(* Matching and rewriting with a sequence of rules <<lhs, rhs>> *)

\* Mutant: a second occurrence of a variable is not compared.
MatchVarLoose(id, t, b) == IF b[id] = NoTerm THEN Done(Put(b, id, t)) ELSE Done(b)

MatchVar(id, t, b) ==
  IF id >= MaxVar THEN Failed(b)
  ELSE IF b[id] = NoTerm THEN Done(Put(b, id, t))
  ELSE [ok |-> b[id] = t, u |-> b]

RECURSIVE Match(_, _, _)
Match(p, t, b) ==
  LET Step(r, q) == IF r.ok THEN Match(q[1], q[2], r.u) ELSE r
  IN  CASE IsFvr(p)                               -> MatchVar(p.ext, t, b)
        [] ~IsFvr(p) /\ (IsFvr(t) \/ ~SameHead(p, t)) -> Failed(b)
        [] OTHER -> Fold(Step, Done(b), Zipped(p, t))

RECURSIVE SubstApply(_, _)
SubstApply(t, b) ==
  LET Apply(u) == SubstApply(u, b)
  IN  IF ~IsFvr(t) THEN Rebuild(t, Apply)
      ELSE IF t.ext < MaxVar /\ b[t.ext] # NoTerm THEN b[t.ext] ELSE t

\* rewrite_try_top: the first rule that matches.
Matching(t, rules) == {i \in DOMAIN rules : Match(rules[i][1], t, Unbound).ok}
TryTop(t, rules) ==
  LET By(rule) == With(Match(rule[1], t, Unbound).u, LAMBDA b : SubstApply(rule[2], b))
  IN  With(Matching(t, rules), LAMBDA is : By(rules[CHOOSE i \in is : \A j \in is : i <= j]))

\* thvm_rewrite_step: the top, then the first argument that changes.
\* The first argument that F changes.
FirstChanged(t, F(_)) ==
  LET Step(r, u) == With(IF r.found THEN u ELSE F(u),
                         LAMBDA v : [found |-> r.found \/ v # u, args |-> Append(r.args, v)])
  IN  Fold(Step, [found |-> FALSE, args |-> <<>>], t.args).args

RECURSIVE RewriteStep(_, _)
RewriteStep(t, rules) ==
  LET Step(u) == RewriteStep(u, rules)
  IN  IF Matching(t, rules) # {} THEN TryTop(t, rules)
      ELSE [t EXCEPT !.args = FirstChanged(t, Step)]

RECURSIVE Normalize(_, _, _)
Normalize(t, rules, cap) ==
  With(RewriteStep(t, rules),
       LAMBDA t2 : IF cap = 0 \/ t2 = t THEN t ELSE Normalize(t2, rules, cap - 1))

-----------------------------------------------------------------------------
(* Critical pairs *)

\* Non-variable positions, in the order cp_walk_positions visits them.
RECURSIVE Positions(_, _)
Positions(t, depth) ==
  LET Below(i) == With(Positions(t.args[i], depth + 1),
                       LAMBDA ps : [j \in DOMAIN ps |-> <<i>> \o ps[j]])
  IN  IF IsFvr(t) THEN <<>>
      ELSE IF depth >= MaxDepth THEN << <<>> >>
      ELSE << <<>> >> \o FlattenSeq([i \in DOMAIN t.args |-> Below(i)])

RECURSIVE SubtermAt(_, _), PutAt(_, _, _)
SubtermAt(t, p) == IF p = <<>> THEN t ELSE SubtermAt(t.args[Head(p)], Tail(p))
PutAt(t, p, r) == IF p = <<>> THEN r
                      ELSE [t EXCEPT !.args = Put(t.args, Head(p), PutAt(t.args[Head(p)], Tail(p), r))]

\* cp_visit after a failed unification.
Retry(u) == Undo(u)

\* cp_visit: one attempt at position p.  c carries the pairs found so far and
\* the substitution that is kept, all zero, between attempts.
Visit(c, p, ri, rj, cap, skipRoot) ==
  LET sub   == SubtermAt(ri[1], p)
      Pair(b) == [lhs  |-> UnifyApply(PutAt(ri[1], p, rj[2]), b),
                  rhs  |-> UnifyApply(ri[2], b),
                  peak |-> UnifyApply(ri[1], b), pos |-> p]
      After(r) == IF r.ok THEN [out |-> Append(c.out, Pair(r.u.b)), u |-> Undo(r.u)]
                          ELSE [c EXCEPT !.u = Retry(r.u)]
  IN  IF (skipRoot /\ p = <<>>) \/ Len(c.out) >= cap THEN c
      ELSE IF ~IsFvr(rj[1]) /\ sub.ext # rj[1].ext THEN c
      ELSE With(Unify(sub, rj[1], UndoBegin(c.u)), After)

Overlap(c, ri, rj, cap, skipRoot) ==
  Fold(LAMBDA d, p : Visit(d, p, ri, rj, cap, skipRoot), c, Positions(ri[1], 0))

Fresh == [out |-> <<>>, u |-> [b |-> Unbound, log |-> <<>>, over |-> FALSE]]

RenameOffset == MaxVar \div 2
Renamed(rule) == <<RenameVars(rule[1], RenameOffset), RenameVars(rule[2], RenameOffset)>>

\* thvm_critical_pairs_range over rules is \X js, from c.
CriticalPairs(c, rules, is, js, cap) ==
  LET Row(d, i) == Fold(LAMBDA e, j : With(Renamed(rules[j]),
                                           LAMBDA rj : Overlap(e, rules[i], rj, cap, FALSE)),
                        d, js)
  IN  Fold(Row, c, is)
=============================================================================
