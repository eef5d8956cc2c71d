------------------------------ MODULE KboMemo ------------------------------
(***************************************************************************)
(* The cache of weights and variable counts behind thvm_kbo and kbo_eq     *)
(* (src/kbo/_.c), which in a prover outlives the calls and is emptied when *)
(* the collector moves cells or the configuration changes.                 *)
(*                                                                         *)
(* heap maps a cell to a node whose arguments are variables or references  *)
(* to cells.  th is the table of hashes, one entry per slot of a cell;     *)
(* wm the table of weights, one per slot of a hash.  The structural hash   *)
(* is the term itself: two terms have one hash only by accident, which the *)
(* code does not defend against and the model leaves out.                  *)
(***************************************************************************)
EXTENDS Orders

CONSTANTS
  THashSlots, \* KBO_THASH_SIZE
  WMemoSlots, \* KBO_WMEMO_SIZE
  ProfCap,    \* KBO_VPROF_CAP
  Epochs,     \* the counter of epochs wraps here, in the code at 2^32
  Layouts,    \* the heaps the collector may leave
  Configs     \* configurations of the order

VARIABLES heap, memo, lastCfg, verdict
memoVars == <<heap, memo, lastCfg, verdict>>

Ref(a) == [tag |-> "REF", ext |-> a, args |-> <<>>]
IsRef(r) == r.tag = "REF"

RECURSIVE Unfold(_, _)
Unfold(h, r) == LET Child(u) == Unfold(h, u)
                IN  IF IsRef(r) THEN Rebuild(h[r.ext], Child) ELSE r

ThSlot(a) == a % THashSlots
WSlot(t)  == Size(t) % WMemoSlots

NoHash  == [cell |-> -1, hash |-> NoTerm, epoch |-> 0]
NoEntry == [hash |-> NoTerm, epoch |-> 0, w |-> 0, prof |-> <<>>, over |-> FALSE]
Cold == [epoch |-> 1, th |-> [i \in 0 .. THashSlots - 1 |-> NoHash],
                      wm |-> [i \in 0 .. WMemoSlots - 1 |-> NoEntry]]

Invalidate(m) ==
  IF m.epoch + 1 = Epochs
    THEN [epoch |-> 1, th |-> [i \in DOMAIN m.th |-> [m.th[i] EXCEPT !.epoch = 0]],
                       wm |-> [i \in DOMAIN m.wm |-> [m.wm[i] EXCEPT !.epoch = 0]]]
    ELSE [m EXCEPT !.epoch = @ + 1]

Known(m, a) == LET e == m.th[ThSlot(a)] IN e.epoch = m.epoch /\ e.cell = a

\* kbo_leaf_hash: from the table where the cell is in it.
RECURSIVE HashOf(_, _, _)
HashOf(m, h, r) == LET Child(u) == HashOf(m, h, u)
                   IN  IF ~IsRef(r) THEN r
                       ELSE IF Known(m, r.ext) THEN m.th[ThSlot(r.ext)].hash
                       ELSE Rebuild(h[r.ext], Child)

\* The entry of a hash, if it has not been overwritten.
Held(m, t) == LET e == m.wm[WSlot(t)] IN e.epoch = m.epoch /\ e.hash = t

\* kbo_vprof_add: occurrences in a list of at most ProfCap ids.
ProfAdd(e, id, n) ==
  LET at == {i \in DOMAIN e.prof : e.prof[i].id = id}
  IN  IF e.over THEN e
      ELSE IF at # {} THEN [e EXCEPT !.prof[CHOOSE i \in at : TRUE].n = @ + n]
      ELSE IF Len(e.prof) = ProfCap THEN [e EXCEPT !.over = TRUE, !.prof = <<>>]
      ELSE [e EXCEPT !.prof = Append(@, [id |-> id, n |-> n])]

ProfJoin(e, f) == IF f.over THEN [e EXCEPT !.over = TRUE, !.prof = <<>>]
                  ELSE Fold(LAMBDA d, p : ProfAdd(d, p.id, p.n), e, f.prof)

RECURSIVE SubtreeMemo(_, _, _, _), Combine(_, _, _, _)

\* One argument's share of its parent's entry.
AddChild(r, u, h, o) ==
  IF IsFvr(u)
    THEN [r EXCEPT !.e = LET f == [@ EXCEPT !.w = @ + o.vw]
                         IN  IF u.ext < OrderVars THEN ProfAdd(f, u.ext, 1) ELSE f]
    ELSE With(SubtreeMemo(r.m, h, u.ext, o),
              LAMBDA s : [m |-> s.m, e |-> [ProfJoin(r.e, s.e) EXCEPT !.w = r.e.w + s.e.w]])

\* kbo_memo_combine: cell a, once its arguments are in the table.
Combine(m, h, a, o) ==
  LET Hashed(t) == [m EXCEPT !.th = Put(@, ThSlot(a), [cell |-> a, hash |-> t, epoch |-> m.epoch])]
      Empty(t)  == [hash |-> t, epoch |-> m.epoch, w |-> Entry(o.weight, h[a].ext), prof |-> <<>>,
                    over |-> FALSE]
      Filled(m1, t) ==
        With(Fold(LAMBDA c, u : AddChild(c, u, h, o), [m |-> m1, e |-> Empty(t)], h[a].args),
             LAMBDA r : [m |-> [r.m EXCEPT !.wm = Put(@, WSlot(t), r.e)], e |-> r.e])
      Entered(t) == With(Hashed(t), LAMBDA m1 : IF Held(m1, t) THEN [m |-> m1, e |-> m1.wm[WSlot(t)]]
                                                ELSE Filled(m1, t))
  IN  With(Rebuild(h[a], LAMBDA u : HashOf(m, h, u)), Entered)

\* kbo_subtree_memo: arguments first, those in the table are not visited again.
SubtreeMemo(m, h, a, o) ==
  LET Visit1(n, u) == IF IsRef(u) /\ ~Known(n, u.ext) THEN SubtreeMemo(n, h, u.ext, o).m ELSE n
      filled == With(Fold(Visit1, m, h[a].args), LAMBDA n : Combine(n, h, a, o))
      t == m.th[ThSlot(a)].hash
  IN  IF Known(m, a) /\ Held(m, t) THEN [m |-> m, e |-> m.wm[WSlot(t)]] ELSE filled

\* kbo_lin_addto: c is the balance with the cache.
Bumped(v, prof, sign) ==
  Fold(LAMBDA d, p : [d EXCEPT ![p.id] = @ + sign * p.n], v, prof)

MemoAddTo(c, h, r, sign, o) ==
  LET Weighed(s) == [m |-> s.m,
                     b |-> [w |-> c.b.w + sign * s.e.w,
                            v |-> IF s.e.over THEN AddTo(c.b, Unfold(h, r), sign, o).v
                                  ELSE Bumped(c.b.v, s.e.prof, sign)]]
  IN  IF IsFvr(r) THEN [c EXCEPT !.b = AddTo(@, r, sign, o)]
      ELSE With(SubtreeMemo(c.m, h, r.ext, o), Weighed)

NodeOf(h, r) == IF IsRef(r) THEN h[r.ext] ELSE r

\* kbo_vortest: last arguments first.
RECURSIVE MemoVortest(_, _, _, _, _)
MemoVortest(c, h, r, q, o) ==
  LET s == NodeOf(h, r)
      t == NodeOf(h, q)
  IN  IF r = q THEN c
      ELSE IF Parts(s, t, FALSE)
        THEN With(MemoAddTo(c, h, r, 1, o), LAMBDA d : MemoAddTo(d, h, q, -1, o))
      ELSE Fold(LAMBDA d, p : MemoVortest(d, h, p[1], p[2], o), c, Reverse(Zipped(s, t)))

\* kbo_compare_core: a verdict on two terms given the balance b from the cache;
\* deeper levels take theirs from the cache as well.
RECURSIVE MemoRek(_, _, _, _, _)
MemoRek(c, h, r, q, o) ==
  LET s == NodeOf(h, r)
      t == NodeOf(h, q)
      vc == VarCmp(c.b)
      i == FirstApart(Unfold(h, r), Unfold(h, q))
      deeper == With(MemoVortest([m |-> c.m, b |-> Level], h, s.args[i], t.args[i], o),
                     LAMBDA d : MemoRek(d, h, s.args[i], t.args[i], o))
      Here(x) == [m |-> c.m, cmp |-> MapThrough(vc, x)]
  IN  IF vc = "UN" THEN Here("UN")
      ELSE IF c.b.w # 0 THEN Here(Sign(c.b.w))
      ELSE IF IsFvr(s) \/ IsFvr(t) THEN Here("UN")
      ELSE IF Prec(s, o) # Prec(t, o) THEN Here(Sign(Prec(s, o) - Prec(t, o)))
      ELSE IF ~SameHead(s, t) THEN Here("UN")
      ELSE [deeper EXCEPT !.cmp = MapThrough(vc, @)]

MemoKbo(m, h, r, q, o) ==
  With(MemoVortest([m |-> m, b |-> Level], h, r, q, o),
       LAMBDA c : IF Unfold(h, r) = Unfold(h, q) THEN [m |-> c.m, cmp |-> "EQ"] ELSE MemoRek(c, h, r, q, o))

\* kbo_eq: different hashes in the table settle it.
RECURSIVE KboEq(_, _, _, _)
KboEq(m, h, r, q) ==
  LET s == NodeOf(h, r)
      t == NodeOf(h, q)
      clash == /\ IsRef(r) /\ Known(m, r.ext) /\ Known(m, q.ext)
               /\ m.th[ThSlot(r.ext)].hash # m.th[ThSlot(q.ext)].hash
  IN  r = q \/ /\ s.tag = t.tag /\ SameHead(s, t) /\ ~clash
               /\ \A i \in DOMAIN s.args : KboEq(m, h, s.args[i], t.args[i])

-----------------------------------------------------------------------------

None == [op |-> "none"]

MemoInit == /\ heap \in Layouts
            /\ memo = Cold
            /\ lastCfg \in {"none"}
            /\ verdict = None

\* Mutant: a new configuration keeps the cache.
CheckedCfgKept(cfg) == memo

\* thvm_kbo with the cache kept between calls.
CheckedCfg(cfg) == IF cfg # lastCfg THEN Invalidate(memo) ELSE memo

Compare(a, b, cfg) ==
  \E r \in {MemoKbo(CheckedCfg(cfg), heap, Ref(a), Ref(b), Configs[cfg])} :
      /\ verdict' = [op |-> "compare", a |-> a, b |-> b, cmp |-> r.cmp]
      /\ memo' = r.m /\ lastCfg' = cfg
      /\ UNCHANGED heap

\* thvm_kbo_term_weight by the prover that owns the cache: with the
\* configuration of its comparisons.
TermWeight(a) ==
  /\ lastCfg # "none"
  /\ \E s \in {SubtreeMemo(memo, heap, a, Configs[lastCfg])} :
        verdict' = [op |-> "weight", a |-> a, w |-> s.e.w] /\ memo' = s.m
  /\ UNCHANGED <<heap, lastCfg>>

Eq(a, b) == /\ verdict' = [op |-> "eq", a |-> a, b |-> b, eq |-> KboEq(memo, heap, Ref(a), Ref(b))]
            /\ UNCHANGED <<heap, memo, lastCfg>>

Moved(m) == Invalidate(m)

\* thvm_atp_gc_collect: cells move, some are reused for other terms.
Collect == /\ heap' \in Layouts
           /\ memo' = Moved(memo)
           /\ verdict' = None
           /\ UNCHANGED lastCfg

MemoNext == \/ \E a, b \in DOMAIN heap, cfg \in DOMAIN Configs : Compare(a, b, cfg)
            \/ \E a \in DOMAIN heap : TermWeight(a)
            \/ \E a, b \in DOMAIN heap : Eq(a, b)
            \/ Collect

-----------------------------------------------------------------------------

\* What the cache answers is what the terms say: thvm_kbo agrees with its reference.
AnswersRight ==
  LET T(a) == Unfold(heap, Ref(a))
  IN  CASE verdict.op = "none"    -> TRUE
        [] verdict.op = "compare" -> verdict.cmp = KboNaive(T(verdict.a), T(verdict.b), Configs[lastCfg])
        [] verdict.op = "weight"  -> verdict.w = Weight(T(verdict.a), Configs[lastCfg])
        [] verdict.op = "eq"      -> verdict.eq = (T(verdict.a) = T(verdict.b))

\* An entry of this epoch is that of the term whose hash it holds, and a cell
\* in the table has its own term's hash.
MemoSound ==
  /\ \A i \in DOMAIN memo.th :
       memo.th[i].epoch = memo.epoch =>
         memo.th[i].cell \in DOMAIN heap /\ memo.th[i].hash = Unfold(heap, Ref(memo.th[i].cell))
  /\ \A i \in DOMAIN memo.wm :
       LET e == memo.wm[i]
       IN  e.epoch = memo.epoch =>
             /\ e.w = Weight(e.hash, Configs[lastCfg])
             /\ ~e.over => \A id \in 0 .. OrderVars - 1 :
                  Count(e.hash, id) = (IF \E p \in ToSet(e.prof) : p.id = id
                                         THEN (CHOOSE p \in ToSet(e.prof) : p.id = id).n ELSE 0)

\* The cache never shows, whatever was compared before, moved by the collector or
\* evicted in between, and holds nothing that could show in a later call
\* (kbo/_.c:998 "the per-term weight memo must NEVER change the verdict").
MemoTransparent == AnswersRight /\ MemoSound
=============================================================================
