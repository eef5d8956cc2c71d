------------------------------ MODULE RedexNf ------------------------------
(***************************************************************************)
(* src/wnf/redex.c under the driver of src/wnf/nf.c: full normalisation of *)
(* an interaction net that lives in the heap, cell by cell.                *)
(*                                                                         *)
(* With one worker nf attaches a step session: an index from each term to  *)
(* the cells that hold it, and from each cell to the term that owns it.    *)
(* heap_replace patches the cells of the index and pushes the owners that  *)
(* became redexes, and nobody enumerates the heap again.  With several     *)
(* workers there is no session: heap_replace scans the heap, and nf        *)
(* enumerates it again after each drain.                                   *)
(*                                                                         *)
(* WnfPool models how entries move between the bags; here they are one     *)
(* sequence, which a lone worker uses as a stack and from which one of     *)
(* several workers takes any entry.  A worker's steps are: take an entry   *)
(* and test it, claim a projection's cell, resolve each operand, each read *)
(* and each write of the rule, look at one cell of the heap, patch one,    *)
(* index and push what the interaction made.  One step is: is_redex, each  *)
(* term_resolve, the wnf of what a match scrutinises, and a rule's         *)
(* allocations with the projections it writes there, which nobody finds    *)
(* before its result is in a cell.                                         *)
(*                                                                         *)
(* The calculus here: numbers with addition, lambdas, applications, number *)
(* and constructor matches, duplications of numbers, superpositions and    *)
(* sums.  No net of `Nets' duplicates a lambda, matches on anything but a  *)
(* number, a sum of two numbers or a constructor, or has a constructor of  *)
(* more than two fields.  A net may have free variables.                   *)
(***************************************************************************)
EXTENDS Integers, Sequences, FiniteSets, SequencesExt

CONSTANTS
  Worker,   \* workers of any pool in a run
  Nets,     \* initial nets: their cells, from 1 up, their root, and the crew of
            \* workers of the pool; a lone one runs under a step session
  Shown,    \* those whose redexes all show: as a seed, a result, or in a cell
            \* that was patched with one, not by a substitution alone
  Racing,   \* those, of several workers, that may lose a redex: see Slipped
  HeapCap   \* bound: cells of the heap

VARIABLES
  heap,     \* HEAP
  next,     \* HEAP_NEXT
  head,     \* STEP_USE_KEY and STEP_USE_HEAD: first cell that holds a term
  link,     \* STEP_USE_NEXT
  parent,   \* STEP_PARENT
  bag,      \* entries of the workers' bags
  pc, job,  \* each worker's place in redex_fire, and its locals
  phase,    \* the driver nf: attach, seed, drain, done
  fired,    \* ITRS since the round began
  net,      \* the net nf was called on, and by which crew
  past      \* history: the projections whose cell was claimed; the cells that a
            \* firing reused; whether a scan wrote over a substitution, or over
            \* something else than the redex it had seen there

index == <<head, link, parent>>
vars  == <<heap, next, index, bag, pc, job, phase, fired, net, past>>

Session == Cardinality(net.crew) = 1
Loc     == 0 .. HeapCap - 1
NIL     == -1

-----------------------------------------------------------------------------
(* Terms *)

Term(tag, ext, val) == [sub |-> FALSE, tag |-> tag, ext |-> ext, val |-> val]
Num(n)  == Term("NUM", 0, n)
Zero    == Term("APP", 0, 0)   \* the word 0; no net uses cell 0
SubOf(t) == [t EXCEPT !.sub = TRUE]
Unsub(t) == [t EXCEPT !.sub = FALSE]

IsDp(t) == t.tag \in {"DP0", "DP1"}
Side(t) == IF t.tag = "DP0" THEN 0 ELSE 1

\* term_resolve: follow substituted variables and projections.
RECURSIVE Resolve(_, _)
Resolve(h, t) ==
  IF (t.tag = "VAR" \/ IsDp(t)) /\ h[t.val].sub
    THEN Resolve(h, Unsub(h[t.val]))
    ELSE t

Child(h, t, i) == Resolve(h, h[t.val + i])

IsRedex(h, t) ==
  \/ t.tag = "APP" /\ Child(h, t, 0).tag \in {"LAM", "MAT"}
  \/ IsDp(t) /\ ~h[t.val].sub /\ Child(h, t, 0).tag \in {"NUM", "SUP", "OP2"}
  \/ t.tag = "OP2" /\ Child(h, t, 0).tag = "NUM" /\ Child(h, t, 1).tag = "NUM"

Arity(t) == CASE t.tag \in {"APP", "OP2", "SUP", "MAT"} -> 2
              [] t.tag \in {"LAM", "DP0", "DP1"}        -> 1
              [] OTHER                                  -> 0

Owned(t) == {t.val + i : i \in 0 .. Arity(t) - 1}

-----------------------------------------------------------------------------
(* redex_enumerate: the root's subterms depth first, then the whole heap *)

RECURSIVE Walk(_, _, _, _)
Walk(h, stack, visited, out) ==
  IF stack = <<>> THEN [visited |-> visited, out |-> out]
  ELSE LET t == Last(stack)
       IN  IF t \in visited THEN Walk(h, Front(stack), visited, out)
           ELSE Walk(h, Front(stack) \o [i \in 1 .. Arity(t) |-> h[t.val + i - 1]],
                     visited \cup {t},
                     IF IsRedex(h, t) THEN Append(out, t) ELSE out)

Enumerate(h, n, root) ==
  LET dfs   == Walk(h, <<root>>, {}, <<>>)
      Off(l) == /\ IsRedex(h, h[l]) /\ h[l] \notin dfs.visited
                /\ \A k \in 0 .. l - 1 : h[k] # h[l]
      cells == SelectSeq([i \in 1 .. n |-> i - 1], Off)
  IN  dfs.out \o [i \in 1 .. Len(cells) |-> h[cells[i]]]

-----------------------------------------------------------------------------
(* Interactions.  A rule is the cells it allocates, its steps and its result. *)
(* A step reads a cell into the next register, or writes one, as a term or as *)
(* a substitution; `Reg(i)' stands for the term of the i-th register.         *)

Reg(i)      == Term("REG", 0, i)
Get(l)      == [do |-> "get", at |-> l, what |-> Zero]
Put(l, x)   == [do |-> "put", at |-> l, what |-> x]
Subst(l, x) == [do |-> "sub", at |-> l, what |-> x]
Rule(cells, steps, result) == [cells |-> cells, steps |-> steps, result |-> result]
None == Rule(<<>>, <<>>, Zero)

Write(h, at, cells) ==
  [l \in DOMAIN h |-> IF l \in at .. at + Len(cells) - 1 THEN cells[l - at + 1]
                                                        ELSE h[l]]

\* Mutant: leaves the side that fired in the cell.
CopOwnSide(dp, cells, steps, r0, r1) ==
  Rule(cells, Append(steps, Subst(dp.val, IF Side(dp) = 0 THEN r0 ELSE r1)),
       IF Side(dp) = 0 THEN r0 ELSE r1)

\* heap_subst_cop: one side's value stays in the cell for the other side.
Cop(dp, cells, steps, r0, r1) ==
  Rule(cells, Append(steps, Subst(dp.val, IF Side(dp) = 0 THEN r1 ELSE r0)),
       IF Side(dp) = 0 THEN r0 ELSE r1)

DupNum(dp, num) == Cop(dp, <<>>, <<>>, num, num)

DupSup(n, dp, sup) ==
  LET lab == dp.ext
      reads == <<Get(sup.val), Get(sup.val + 1)>>
  IN  IF lab = sup.ext THEN Cop(dp, <<>>, reads, Reg(1), Reg(2))
      ELSE Cop(dp, << Zero, Zero, Term("DP0", lab, n), Term("DP0", lab, n + 1),
                      Term("DP1", lab, n), Term("DP1", lab, n + 1) >>,
               reads \o <<Put(n, Reg(1)), Put(n + 1, Reg(2))>>,
               Term("SUP", sup.ext, n + 2), Term("SUP", sup.ext, n + 4))

\* interact_dup_nod on a sum: two nodes of two cells, then a cell per operand.
DupOp2(n, dp, op2) ==
  LET lab == dp.ext
  IN  Cop(dp, << Term("DP0", lab, n + 4), Term("DP0", lab, n + 5),
                 Term("DP1", lab, n + 4), Term("DP1", lab, n + 5), Zero, Zero >>,
          << Get(op2.val), Put(n + 4, Reg(1)), Get(op2.val + 1), Put(n + 5, Reg(2)) >>,
          Term("OP2", op2.ext, n), Term("OP2", op2.ext, n + 2))

AppLam(lam, arg) == Rule(<<>>, <<Get(lam.val), Subst(lam.val, arg)>>, Reg(1))

OpNum(x, y) == Rule(<<>>, <<>>, Num(x.val + y.val))

\* wnf of what a match scrutinises, for the scrutinees a net may have.
Whnf(h, t) == LET r == Resolve(h, t)
              IN  IF r.tag = "OP2" /\ IsRedex(h, r)
                    THEN OpNum(Child(h, r, 0), Child(h, r, 1)).result ELSE r

\* The match's two cells become an application, and so do a constructor's.
AppMat(mat, arg, arity) ==
  LET inner == Term("APP", 0, mat.val)
      first == << Get(mat.val), Get(arg.val + 1), Put(mat.val + 1, Reg(2)) >>
  IN  IF arg.tag = "NUM" /\ arg.val = mat.ext
        THEN Rule(<<>>, <<Get(mat.val)>>, Reg(1))
      ELSE IF arg.tag = "CTR" /\ arg.ext = mat.ext
        THEN CASE arity = 0 -> Rule(<<>>, <<Get(mat.val)>>, Reg(1))
               [] arity = 1 -> Rule(<<>>, first, inner)
               [] OTHER     -> Rule(<<>>, first \o << Get(arg.val + 2),
                                            Put(arg.val + 1, inner),
                                            Put(arg.val + 2, Reg(3)) >>,
                                    Term("APP", 0, arg.val + 1))
      ELSE Rule(<<>>, <<Get(mat.val + 1), Put(mat.val, Reg(1)), Put(mat.val + 1, arg)>>,
                inner)

\* The rule redex_fire picks for what it has read, with heap h and cursor n.
Interact(h, n, t, fun, arg) ==
  CASE t.tag = "OP2" /\ fun.tag = "NUM" /\ arg.tag = "NUM" -> OpNum(fun, arg)
    [] t.tag = "APP" /\ fun.tag = "LAM" -> AppLam(fun, arg)
    [] t.tag = "APP" /\ fun.tag = "MAT" ->
         LET a == Whnf(h, arg) IN AppMat(fun, a, IF a.tag = "CTR" THEN h[a.val].val ELSE 0)
    [] IsDp(t) /\ fun.tag = "NUM" -> DupNum(t, fun)
    [] IsDp(t) /\ fun.tag = "SUP" -> DupSup(n, t, fun)
    [] IsDp(t) /\ fun.tag = "OP2" -> DupOp2(n, t, fun)
    [] OTHER -> None

-----------------------------------------------------------------------------
(* The index of the step session *)

HeadOf(hd, t) == IF t \in DOMAIN hd THEN hd[t] ELSE NIL

LastOr(S, default) == IF S = {} THEN default ELSE CHOOSE x \in S : \A y \in S : y <= x

\* step_use_insert of each cell of `new', in order: in front of its term's chain.
Held(h, new, t) == {c \in new : h[c] = t}
\* Mutant: the head is the first of the new cells that hold the term.
UseHeadFirst(h, new) ==
  [t \in DOMAIN head \cup ({h[c] : c \in new} \ {Zero}) |->
     IF \E c \in new : h[c] = t
       THEN CHOOSE c \in new : h[c] = t /\ \A d \in new : h[d] = t => c <= d
       ELSE HeadOf(head, t)]

UseHead(h, new) ==
  [t \in DOMAIN head \cup ({h[c] : c \in new} \ {Zero}) |->
     LastOr(Held(h, new, t), HeadOf(head, t))]
UseLink(h, new) ==
  [l \in Loc |-> IF l \in new /\ h[l] # Zero
                   THEN LastOr({c \in Held(h, new, h[l]) : c < l}, HeadOf(head, h[l]))
                   ELSE link[l]]

\* step_parent_set of every cell that a term of the sequence owns.
Owners(pa, terms) ==
  [l \in Loc |-> LET own == {i \in DOMAIN terms : l \in Owned(terms[i])}
                 IN  IF own = {} THEN pa[l] ELSE terms[LastOr(own, 0)]]

\* Mutant: looks at the first term only.
FreshFirst(h, terms) == SelectSeq(SubSeq(terms, 1, 1), LAMBDA t : t # Zero /\ IsRedex(h, t))

\* step_fresh_push of each term into the worker's bag.
Fresh(h, terms) == SelectSeq(terms, LAMBDA t : t # Zero /\ IsRedex(h, t))

-----------------------------------------------------------------------------
(* The driver *)

RootLoc == Len(net.cells) + 1
Start(n) == [l \in Loc |-> IF l \in DOMAIN n.cells THEN n.cells[l]
                          ELSE IF l = Len(n.cells) + 1 THEN n.root ELSE Zero]

NoJob == [redex |-> Zero, cell |-> Zero, fun |-> Zero, arg |-> Zero, got |-> <<>>,
          steps |-> <<>>, result |-> Zero, from |-> 0, at |-> NIL, chain |-> FALSE]

Init ==
  /\ net \in Nets
  /\ heap = Start(net)
  /\ next = RootLoc + 1
  /\ head = [t \in {} |-> NIL]
  /\ link = [l \in Loc |-> NIL] /\ parent = [l \in Loc |-> Zero]
  /\ bag = <<>>
  /\ pc = [w \in Worker |-> "idle"]
  /\ job = [w \in Worker |-> NoJob]
  /\ past = [claimed |-> {}, reused |-> {}, over |-> FALSE]
  /\ phase = IF Session THEN "attach" ELSE "seed"
  /\ fired = 0

\* redex_step_attach: index the heap; the root owns what nobody else does.
NfAttach ==
  /\ phase = "attach"
  /\ head' = UseHead(heap, 0 .. next - 1) /\ link' = UseLink(heap, 0 .. next - 1)
  /\ parent' = Owners(parent, <<net.root>> \o [i \in 1 .. next |-> heap[i - 1]])
  /\ phase' = "seed"
  /\ UNCHANGED <<heap, next, bag, pc, job, fired, net, past>>

NfSeed ==
  /\ phase = "seed"
  /\ bag' = Enumerate(heap, next, heap[RootLoc])
  /\ fired' = 0
  /\ phase' = IF bag' = <<>> THEN "done" ELSE "drain"
  /\ UNCHANGED <<heap, next, index, pc, job, net, past>>

Quiet == \A w \in Worker : pc[w] = "idle"

\* The bags are empty: another round, unless the session or a fixed point.
NfDrained ==
  /\ phase = "drain" /\ bag = <<>> /\ Quiet
  /\ phase' = IF fired = 0 \/ Session THEN "done" ELSE "seed"
  /\ UNCHANGED <<heap, next, index, bag, pc, job, fired, net, past>>

-----------------------------------------------------------------------------
(* A worker: pop or steal, redex_fire, heap_replace *)

Goto(w, l) == pc' = [pc EXCEPT ![w] = l]

Take(w) ==
  /\ phase = "drain" /\ pc[w] = "idle"
  /\ \E i \in 1 .. Len(bag) :
       LET t == bag[i] IN
       /\ Session => i = Len(bag)
       /\ bag' = RemoveAt(bag, i)
       /\ IF IsRedex(heap, t)
            THEN /\ job' = [job EXCEPT ![w].redex = t, ![w].from = next]
                 /\ Goto(w, IF IsDp(t) THEN "claim" ELSE "first")
            ELSE UNCHANGED <<pc, job>>
  /\ UNCHANGED <<heap, next, index, phase, fired, net, past>>

\* heap_take_atomic: whoever finds the cell empty has no redex any more.
Claim(w) ==
  /\ pc[w] = "claim"
  /\ LET loc == job[w].redex.val IN
       /\ heap' = [heap EXCEPT ![loc] = Zero]
       /\ IF heap[loc] = Zero
            THEN job' = [job EXCEPT ![w] = NoJob] /\ Goto(w, "idle") /\ UNCHANGED past
            ELSE /\ job' = [job EXCEPT ![w].cell = heap[loc]]
                 /\ past' = [past EXCEPT !.claimed = @ \cup {Unsub(job[w].redex)}]
                 /\ Goto(w, "first")
  /\ UNCHANGED <<next, index, bag, phase, fired, net>>

\* The function or the first operand, resolved; of a projection, what it took.
ReadFirst(w) ==
  LET t == job[w].redex IN
  /\ pc[w] = "first"
  /\ job' = [job EXCEPT ![w].fun = IF IsDp(t) THEN Resolve(heap, job[w].cell)
                                             ELSE Child(heap, t, 0)]
  /\ Goto(w, IF IsDp(t) THEN "rule" ELSE "second")
  /\ UNCHANGED <<heap, next, index, bag, phase, fired, net, past>>

\* The second operand, resolved, or the argument as it is.
ReadSecond(w) ==
  LET t == job[w].redex IN
  /\ pc[w] = "second"
  /\ job' = [job EXCEPT ![w].arg = IF t.tag = "OP2" THEN Child(heap, t, 1)
                                                   ELSE heap[t.val + 1]]
  /\ Goto(w, "rule")
  /\ UNCHANGED <<heap, next, index, bag, phase, fired, net, past>>

\* Pick the rule and allocate its cells, or put back what a projection took.
Begin(w) ==
  LET j == job[w]
      r == Interact(heap, next, j.redex, j.fun, j.arg)
  IN
  /\ pc[w] = "rule"
  /\ next + 6 <= HeapCap
  /\ IF r = None
       THEN /\ heap' = IF IsDp(j.redex) THEN [heap EXCEPT ![j.redex.val] = j.cell] ELSE heap
            /\ job' = [job EXCEPT ![w] = NoJob]
            /\ Goto(w, "idle")
            /\ UNCHANGED next
       ELSE /\ heap' = Write(heap, next, r.cells) /\ next' = next + Len(r.cells)
            /\ job' = [job EXCEPT ![w].steps = r.steps, ![w].result = r.result]
            /\ Goto(w, "interact")
  /\ UNCHANGED <<index, bag, phase, fired, net, past>>

\* The term a step writes, or the result: in hand, or read by an earlier step.
Read(j, x) == IF x.tag = "REG" THEN j.got[x.val] ELSE x

\* One read or one write of the rule.
InteractStep(w) ==
  LET j == job[w] s == Head(j.steps) IN
  /\ pc[w] = "interact" /\ j.steps # <<>>
  /\ job' = [job EXCEPT ![w].steps = Tail(@),
                        ![w].got = IF s.do = "get" THEN Append(@, heap[s.at]) ELSE @]
  /\ heap' = CASE s.do = "get" -> heap
               [] s.do = "put" -> [heap EXCEPT ![s.at] = Read(j, s.what)]
               [] s.do = "sub" -> [heap EXCEPT ![s.at] = SubOf(Read(j, s.what))]
  /\ past' = [past EXCEPT !.reused = IF s.do = "put" /\ s.at < j.from THEN @ \cup {s.at}
                                                                   ELSE @]
  /\ UNCHANGED <<next, index, bag, pc, phase, fired, net>>

\* The rule is done: claim the chain of the cells that hold the redex if it has
\* one.
Interacted(w) ==
  LET j == job[w] t == j.redex
      result == Read(j, j.result)
      indexed == Session /\ t \in DOMAIN head
  IN
  /\ pc[w] = "interact" /\ j.steps = <<>>
  /\ job' = [job EXCEPT ![w].result = result, ![w].got = <<>>, ![w].chain = indexed,
                        ![w].at = IF indexed THEN head[t] ELSE 0]
  /\ head' = IF indexed
               THEN [u \in DOMAIN head \cup {result} |->
                       IF u = t THEN NIL ELSE HeadOf(head, u)]
               ELSE head
  /\ fired' = fired + 1
  /\ Goto(w, "patch")
  /\ UNCHANGED <<heap, next, link, parent, bag, phase, net, past>>

\* Mutant: the walk stops at the first cell.
PatchChainFirst(w) ==
  LET j == job[w] c == j.at IN
  /\ pc[w] = "patch" /\ j.chain /\ c # NIL
  /\ job' = [job EXCEPT ![w].at = NIL]
  /\ IF heap[c] = j.redex
       THEN /\ heap' = [heap EXCEPT ![c] = j.result]
            /\ link' = [link EXCEPT ![c] = head[j.result]]
            /\ head' = [head EXCEPT ![j.result] = c]
            /\ bag' = bag \o Fresh(heap', <<parent[c]>>)
       ELSE UNCHANGED <<heap, link, head, bag>>
  /\ UNCHANGED <<next, parent, pc, phase, fired, net, past>>

\* One cell of the chain, which moves to the chain of the result.
PatchChain(w) ==
  LET j == job[w] c == j.at IN
  /\ pc[w] = "patch" /\ j.chain /\ c # NIL
  /\ job' = [job EXCEPT ![w].at = link[c]]
  /\ IF heap[c] = j.redex
       THEN /\ heap' = [heap EXCEPT ![c] = j.result]
            /\ link' = [link EXCEPT ![c] = head[j.result]]
            /\ head' = [head EXCEPT ![j.result] = c]
            /\ bag' = bag \o Fresh(heap', <<parent[c]>>)
       ELSE UNCHANGED <<heap, link, head, bag>>
  /\ UNCHANGED <<next, parent, pc, phase, fired, net, past>>

\* One cell of the heap: look at it ...
PatchScan(w) ==
  LET j == job[w] c == j.at IN
  /\ pc[w] = "patch" /\ ~j.chain /\ c < next
  /\ IF heap[c] = j.redex THEN Goto(w, "set") /\ UNCHANGED job
                          ELSE job' = [job EXCEPT ![w].at = c + 1] /\ UNCHANGED pc
  /\ UNCHANGED <<heap, next, index, bag, phase, fired, net, past>>

\* ... and write it, whatever it holds by now; without an index nothing is
\* promoted.
PatchSet(w) ==
  LET j == job[w] c == j.at IN
  /\ pc[w] = "set"
  /\ heap' = [heap EXCEPT ![c] = j.result]
  /\ past' = [past EXCEPT !.over = @ \/ heap[c] # j.redex \/ heap[c].sub]
  /\ bag' = IF Session THEN bag \o Fresh(heap', <<parent[c]>>) ELSE bag
  /\ job' = [job EXCEPT ![w].at = c + 1]
  /\ Goto(w, "patch")
  /\ UNCHANGED <<next, index, phase, fired, net>>

\* Patched.  Under a session, index the new cells, note who owns them, and push
\* the result and the new cells' terms that are redexes.
Patched(w) ==
  LET j == job[w]
      made == <<j.result>> \o [i \in 1 .. next - j.from |-> heap[j.from + i - 1]]
  IN
  /\ pc[w] = "patch" /\ j.at = (IF j.chain THEN NIL ELSE next)
  /\ IF Session
       THEN /\ head' = UseHead(heap, j.from .. next - 1)
            /\ link' = UseLink(heap, j.from .. next - 1)
            /\ parent' = Owners(parent, made)
            /\ bag' = bag \o Fresh(heap, made)
       ELSE UNCHANGED <<index, bag>>
  /\ job' = [job EXCEPT ![w] = NoJob]
  /\ Goto(w, "idle")
  /\ UNCHANGED <<heap, next, phase, fired, net, past>>

-----------------------------------------------------------------------------
Work(w) == \/ Take(w) \/ Claim(w) \/ ReadFirst(w) \/ ReadSecond(w)
           \/ Begin(w) \/ InteractStep(w) \/ Interacted(w)
           \/ PatchChain(w) \/ PatchScan(w) \/ PatchSet(w) \/ Patched(w)

Done == phase = "done" /\ UNCHANGED vars

Next == NfAttach \/ NfSeed \/ NfDrained \/ (\E w \in net.crew : Work(w)) \/ Done

Spec == Init /\ [][Next]_vars

-----------------------------------------------------------------------------
(* What a term of the heap means: a number, a closure or a superposition.   *)
(* Fuel bounds the evaluation of a net the program may have made cyclic.    *)

Stuck == <<"stuck">>

RECURSIVE Project(_, _, _)
Project(lab, side, v) ==
  CASE v[1] = "sup" /\ v[2] = lab -> v[3 + side]
    [] v[1] = "sup" /\ v[2] # lab -> <<"sup", v[2], Project(lab, side, v[3]),
                                                    Project(lab, side, v[4])>>
    [] OTHER -> v

RECURSIVE Value(_, _, _, _), Apply(_, _, _, _)
Value(h, t, env, fuel) ==
  LET V(u) == Value(h, u, env, fuel - 1) IN
  IF fuel = 0 THEN Stuck
  ELSE CASE t.tag = "NUM" -> <<"num", t.val>>
         [] t.tag \in {"VAR", "DP0", "DP1"} /\ h[t.val].sub -> V(Unsub(h[t.val]))
         [] t.tag = "VAR" /\ ~h[t.val].sub ->
              IF t.val \in DOMAIN env THEN env[t.val] ELSE Stuck
         [] t.tag = "FVR" -> <<"free", t.val>>
         [] IsDp(t) /\ ~h[t.val].sub -> Project(t.ext, Side(t), V(h[t.val]))
         [] t.tag = "SUP" -> <<"sup", t.ext, V(h[t.val]), V(h[t.val + 1])>>
         [] t.tag = "OP2" -> LET x == V(h[t.val]) y == V(h[t.val + 1])
                             IN  IF x[1] = "num" /\ y[1] = "num"
                                   THEN <<"num", x[2] + y[2]>> ELSE Stuck
         [] t.tag = "LAM" -> <<"lam", t.val, env>>
         [] t.tag = "MAT" -> <<"mat", t.val, t.ext, env>>
         [] t.tag = "CTR" -> <<"ctr", t.ext, [i \in 1 .. h[t.val].val |-> V(h[t.val + i])]>>
         [] t.tag = "APP" -> Apply(h, V(h[t.val]), V(h[t.val + 1]), fuel - 1)
         [] OTHER -> Stuck
Apply(h, f, a, fuel) ==
  CASE f[1] = "lam" ->
         Value(h, h[f[2]], [l \in DOMAIN f[3] \cup {f[2]} |->
                              IF l = f[2] THEN a ELSE f[3][l]], fuel)
    [] f[1] = "mat" /\ a = <<"num", f[3]>> -> Value(h, h[f[2]], f[4], fuel)
    [] f[1] = "mat" /\ a[1] = "ctr" /\ a[2] = f[3] ->
         FoldLeft(LAMBDA g, x : Apply(h, g, x, fuel - 1), Value(h, h[f[2]], f[4], fuel), a[3])
    [] f[1] = "mat" /\ a # <<"num", f[3]>> /\ ~(a[1] = "ctr" /\ a[2] = f[3]) ->
         Apply(h, Value(h, h[f[2] + 1], f[4], fuel), a, fuel)
    [] f[1] \in {"free", "call"} -> <<"call", f, a>>
    [] OTHER -> Stuck

Fuel == 12
Meaning(h) == Value(h, h[RootLoc], [l \in {} |-> Stuck], Fuel)

\* The redexes a reader of the root still finds.
RECURSIVE Reach(_)
Reach(S) == LET more == {Resolve(heap, heap[l]) : l \in UNION {Owned(t) : t \in S}}
            IN  IF more \subseteq S THEN S ELSE Reach(S \cup more)
RootRedexes == {t \in Reach({Resolve(heap, heap[RootLoc])}) : IsRedex(heap, t)}

\* The cells on the chain of t.
RECURSIVE Follow(_)
Follow(S) == LET more == {link[c] : c \in S} \ {NIL}
             IN  IF more \subseteq S THEN S ELSE Follow(S \cup more)
Chain(t) == Follow({HeadOf(head, t)} \ {NIL})

-----------------------------------------------------------------------------
(* Properties *)

\* Every cell that a term of the heap owns is allocated, and every firing fits.
Allocated ==
  /\ next \in 1 .. HeapCap
  /\ \A l \in 0 .. next - 1 : \A c \in Owned(heap[l]) : c < next
  /\ \A l \in next .. HeapCap - 1 : heap[l] = Zero

\* What goes wrong between workers: a projection that fired is still in a cell,
\* in one that a scan had passed or as a substitution, which no scan patches;
\* or a scan wrote over a substitution, or over what had changed since it looked.
Slipped ==
  \/ past.over
  \/ \E l \in 0 .. next - 1 : Unsub(heap[l]) \in past.claimed

\* No firing of redex_fire changes what the root means (seen between two firings
\* of the lone worker, or when the workers of a round are all done), or leaves a
\* term over cells it did not allocate.  Where a redex is moved or substituted
\* while another worker fires it, this holds unless one of two things happened,
\* and nothing else loses the meaning.
MeaningKept ==
  /\ Allocated
  /\ Quiet /\ (Session \/ bag = <<>>) =>
       Meaning(heap) = Meaning(Start(net)) \/ (net \in Racing /\ Slipped)

\* A redex by what was substituted for one of its operands.
BySubstitution(t) ==
  \E c \in Owned(t) : (heap[c].tag = "VAR" \/ IsDp(heap[c])) /\ heap[heap[c].val].sub

\* The redexes nothing pushes: the session looks at results, new cells and the
\* owners of patched cells, and not at what a substitution holds or makes a
\* redex, or at what a match writes into cells it reuses.
Unseen(t) == \/ BySubstitution(t)
             \/ \E c \in past.reused : heap[c] = t
             \/ \E c \in 0 .. next - 1 : heap[c] = SubOf(t)
Unshown   == IF Session /\ net \notin Shown THEN {t \in RootRedexes : Unseen(t)} ELSE {}

\* What nf returns has no redex in it, if several workers enumerated the heap
\* until nothing fired, or if all redexes show; else only those nothing pushes.
NormalForm == phase = "done" => RootRedexes = Unshown

\* The session's index finds every cell that holds a redex, other than reused
\* cells and substitutions.
IndexFinds ==
  Session /\ Quiet /\ phase = "drain" =>
    \A l \in 0 .. next - 1 :
      IsRedex(heap, heap[l]) /\ (net \in Shown \/ (l \notin past.reused /\ ~heap[l].sub))
        => l \in Chain(heap[l])

\* What the session pushed, with the seeds, is all that enumerating the heap
\* again would find from the root, but for what nothing pushes.
FreshComplete ==
  Session /\ Quiet /\ phase = "drain" => RootRedexes \subseteq ToSet(bag) \cup Unshown
=============================================================================
