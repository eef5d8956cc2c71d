------------------------------ MODULE Realize ------------------------------
(* Realizing tensor expressions on the CPU backend: where each kernel's      *)
(* output is put, when a kernel fires and when it is skipped, the in-place    *)
(* writes of ASSIGN, and what the end of a realize frees.                    *)
(*                                                                           *)
(* A program is a graph of kernels over leaf tensors and a sequence of       *)
(* realizes, each a sequence of sub-passes [top, loc, dst, src]: src is      *)
(* compiled and fired, and copied into the leaf dst where the sub-pass is an *)
(* ASSIGN cell (loc # 0); top is the root of the bundle it belongs to.  A    *)
(* kernel number stands for its UOP, its KernelEntry and its output tensor.  *)
(*                                                                           *)
(* The rounds of wnf and materialize of one realize are one round here: all  *)
(* its sub-passes are compiled, then all are fired.  Byte offsets in an      *)
(* arena are slots, picked in any way that keeps overlapping lifetimes       *)
(* apart; sizes, and with them which parked buffer fits, are left open.      *)
(*                                                                           *)
(* The next-state relation is in Capture, which joins these actions with the *)
(* captures that record them.                                                *)
EXTENDS Naturals, Sequences, FiniteSets, Bags, SequencesExt

CONSTANTS Programs, RingCap, ClaimCap, ClaimWays, ParkCap

ASSUME Caps == /\ {RingCap, ClaimCap, ClaimWays} \subseteq Nat \ {0} /\ ClaimWays <= ClaimCap
               /\ ParkCap \in Nat

\* A realize has a sub-pass.
ASSUME ProgramShape ==
  \A p \in Programs :
    p.realizes \in Seq(Seq([top : Nat, loc : Nat, dst : Nat, src : Nat]) \ {<<>>})

VARIABLES
  prog, pass, phase, here,  \* the program, its realize, and the sub-pass reached
  todo, place, sinks,       \* kernels to emit; arena slots; what each sub-pass fires
  memPlan, sharedTids,      \* outputs to recycle: MEM_PLAN, XPASS_SHARED_TIDS
  tens, linked,             \* tensor -> buffer id; producer_kid is set
  bufs, mem, parked, wm,    \* CPU_BUFS, storage, CPU_FREELIST, the watermark
  kept, pins, span,         \* references and pins of captures; how many are open
  gen, epoch, seq, ring,    \* fire generation, pass epoch, ASSIGN_SEQ and its ring
  fired, claims, stack,     \* per kernel stamps, ASSIGN claims, the walk
  held, made, wrote         \* history: results, last outputs, writes of each cell

place_vars == <<todo, place, sinks, memPlan, sharedTids>>
mem_vars   == <<tens, linked, bufs, mem, parked, wm>>
memo_vars  == <<gen, epoch, seq, ring, fired, claims>>
history    == <<held, made, wrote>>
jit_vars   == <<kept, pins>>
vars == <<prog, pass, phase, here, stack, place_vars, mem_vars, memo_vars, history, jit_vars>>

----------------------------------------------------------------------------
(* The program.  Tensors 1..n are outputs of kernels, numbered below their   *)
(* consumers; the rest are leaves.                                           *)
Kernels == DOMAIN prog.ins
Leaves  == (Len(prog.ins) + 1)..(Len(prog.ins) + prog.leaves)
Subs    == prog.realizes[pass]
Sub     == Subs[here]
Locs    == {Subs[i].loc : i \in DOMAIN Subs} \ {0}

\* The kernels below each kernel, itself last, as a depth-first walk that goes no
\* further at the kernels `cut` leaves them.
Walk(cut) ==
  LET join(s, t) == s \o SelectSeq(t, LAMBDA k : k \notin Range(s))
      walk[k \in 0..Len(prog.ins)] ==
        IF k \in cut \cup {0} THEN <<>>
        ELSE Append(FoldLeft(LAMBDA s, t : join(s, walk[IF t \in Kernels THEN t ELSE 0]),
                             <<>>, prog.ins[k]), k)
  IN  [k \in Kernels |-> walk[k]]
Below == Walk({})

Under(t) == IF t \in Kernels THEN Range(Below[t]) ELSE {}
Tops(k)  == {Subs[i].top : i \in {j \in DOMAIN Subs : k \in Under(Subs[j].src)}}
Shared(k)  == Cardinality(Tops(k)) >= 2
LastTop(k) == CHOOSE t \in Tops(k) : \A u \in Tops(k) : u <= t
Emitted(k) == tens[k] # 0

----------------------------------------------------------------------------
(* Buffers: storage at (0: none), whether the slot owns it, its count.       *)
(* References and pins of captures are counted apart: a realize takes and    *)
(* drops none of them.                                                       *)
Zero    == <<>>
Times(b, bag) == IF BagIn(b, bag) THEN bag[b] ELSE 0
Refs(b) == bufs[b].rc + Times(b, kept)
Live(t) == tens[t] # 0 /\ Refs(tens[t]) > 0
Value(t) == IF tens[t] = 0 \/ bufs[tens[t]].at = 0 THEN Zero
            ELSE mem[bufs[tens[t]].at]

Buf(at, owns) == [at |-> at, owns |-> owns, rc |-> 1]
Freed         == [at |-> 0, owns |-> FALSE, rc |-> 0]

\* Of buffers b, the parked ones whose storage an allocation can take.
Donors(b, free) == {d \in free : b[d].owns /\ b[d].at # 0}
\* A fresh slot, over storage of the allocator (d = 0) or of a parked buffer.
NewBuf(b, d) ==
  IF d = 0 THEN Append(b, Buf(Len(mem) + 1, TRUE))
  ELSE Append([b EXCEPT ![d] = Freed], Buf(b[d].at, TRUE))
\* The memory once the last slot of b holds value v.
Stored(b, v) == LET a == b[Len(b)].at
                IN  IF a > Len(mem) THEN Append(mem, v) ELSE [mem EXCEPT ![a] = v]

\* Which of the buffers ids go on the list: none that is pinned or referenced
\* twice, and no more than it has room for.
Room(ids) ==
  LET free == {b \in ids \ pins : Refs(b) = 1}
  IN  {b \in free : Cardinality(parked) + Cardinality({c \in free : c < b}) < ParkCap}
\* Buffers b with those counted no more: their storage stays until it is taken.
Uncounted(b, ids) == [i \in DOMAIN b |-> IF i \in ids THEN [b[i] EXCEPT !.rc = 0] ELSE b[i]]

----------------------------------------------------------------------------
(* Compiling: the kernels of a sub-pass that have no live output yet, in the *)
(* order they will fire, and what becomes of the outputs with one consumer.  *)
(* They get slots of an arena; inside a capture, whose realizes share what   *)
(* they compiled, they get buffers, which return to the list in between.     *)
New(s) == IF s.src \in Leaves THEN <<>> ELSE Walk({k \in Kernels : Live(k)})[s.src]

\* A capture is open, and its realizes keep the map of what was compiled; only
\* THVM_HEURISTIC_SEED with pins (prog.dedup = FALSE) takes that away.
Spanned == span # 0 /\ prog.dedup

Consumers(order, k) == {i \in DOMAIN order : k \in Range(prog.ins[order[i]])}
Recyclable(order, k) == Cardinality(Consumers(order, k)) = 1
Plannable(order, k)  == ~Spanned /\ Recyclable(order, k)

\* How many kernels of the sub-pass are above each other below position i of it.
Depth(order) ==
  LET depth[i \in DOMAIN order] ==
        1 + FoldSet(LAMBDA j, d : IF depth[j] > d THEN depth[j] ELSE d, 0,
                    {j \in 1..(i - 1) : order[j] \in Range(prog.ins[order[i]])})
  IN  depth
\* Each with its depth and, where its output may be recycled, its reader's (or 0).
Entries(order) ==
  LET depth == Depth(order)
  IN  [i \in DOMAIN order |->
         [k |-> order[i], depth |-> depth[i],
          last |-> IF Recyclable(order, order[i])
                   THEN depth[CHOOSE j \in Consumers(order, order[i]) : TRUE] ELSE 0]]
\* Mutant: an output shared with another sub-pass ends with its reader in this one.
LastUseLocal(order, k) == CHOOSE i \in Consumers(order, k) : TRUE
\* The position after which the output's slot may go to another kernel.
LastUse(order, k) ==
  IF Shared(k) THEN Len(order) ELSE CHOOSE i \in Consumers(order, k) : TRUE

\* A slot is free again after the position that follows its last use.
Apart(order, i, j) ==
  LET a == IF i < j THEN i ELSE j
      b == IF i < j THEN j ELSE i
  IN  b > LastUse(order, order[a]) + 1

\* Each planned kernel is in the slot of an earlier one, or opens its own.
Placements(order) ==
  LET at == {i \in DOMAIN order : Plannable(order, order[i])}
  IN  {p \in [at -> at] : \A i \in at :
         /\ p[i] <= i /\ p[p[i]] = p[i]
         /\ \A j \in at \ {i} : p[i] = p[j] => Apart(order, i, j)}

\* What the sub-pass has as its source once it is compiled: a kernel to fire, or,
\* where an earlier one compiled it, a tensor that fires nothing (0).
SinkOf(s) ==
  IF New(s) # <<>> THEN s.src
  ELSE LET same == {i \in 1..(here - 1) : s.loc # 0 /\ Subs[i].loc = s.loc}
       IN  IF same = {} THEN 0 ELSE sinks[CHOOSE i \in same : \A j \in same : i <= j]

\* Shared outputs whose last root has this number, released where its sub-pass
\* reads none of them.  (One that it reads is put down for the depth of its sink,
\* which no kernel of the sub-pass is below.)  That the record is of this realize
\* is not looked at.
Unread(order) == {k \in Kernels : /\ \E x \in sharedTids : x.k = k /\ x.top = Sub.top
                                  /\ Live(k) /\ Consumers(order, k) = {}}

Plan ==
  /\ phase = "plan"
  /\ LET order == New(Sub)
         ids   == IF order = <<>> THEN {} ELSE Room({tens[k] : k \in Unread(order)})
     IN
     /\ todo'  = Entries(order)
     /\ sinks' = Append(sinks, SinkOf(Sub))
     /\ \E p \in Placements(order) :
          place' = [k \in Kernels |->
                      IF \E i \in DOMAIN p : order[i] = k
                      THEN order[p[CHOOSE i \in DOMAIN p : order[i] = k]]
                      ELSE IF k \in Range(order) THEN 0 ELSE place[k]]
     /\ bufs' = Uncounted(bufs, ids) /\ parked' = parked \cup ids
  /\ memPlan' = {}
  /\ phase' = "emit"
  /\ UNCHANGED <<prog, pass, here, stack, sharedTids, tens, linked, mem, wm, memo_vars,
                 history>>

\* Outputs of this sub-pass that no kernel from this depth on reads.
Dead(depth) == {e \in memPlan : ~e.pushed /\ e.last < depth}

\* A view of the sub-pass's arena, or a buffer of its own; zeroed either way.
\* Before that, the outputs that are dead by now are parked.
Emit ==
  /\ phase = "emit" /\ todo # <<>>
  /\ LET e    == Head(todo)
         k    == e.k
         dead == Dead(e.depth)
         ids  == Room({x.buf : x \in dead})
         old  == Uncounted(bufs, ids)
         free == parked \cup ids
     IN
     /\ IF place[k] # 0
        THEN /\ bufs' = Append(old, Buf(IF place[k] = k THEN Len(mem) + 1
                                        ELSE bufs[tens[place[k]]].at, FALSE))
             /\ parked' = free
        ELSE \E d \in Donors(old, free) \cup {0} :
               bufs' = NewBuf(old, d) /\ parked' = free \ {d}
     /\ mem'    = Stored(bufs', Zero)
     /\ tens'   = [tens EXCEPT ![k] = Len(bufs) + 1]
     /\ linked' = [linked EXCEPT ![k] = TRUE]
     /\ memPlan' = {[x EXCEPT !.pushed = @ \/ x \in dead] : x \in memPlan}
                     \cup (IF e.last = 0 \/ Shared(k) THEN {}
                           ELSE {[buf |-> Len(bufs) + 1, last |-> e.last, pushed |-> FALSE]})
     /\ sharedTids' = IF e.last # 0 /\ Shared(k)
                      THEN {x \in sharedTids : x.k # k}
                             \cup {[k |-> k, top |-> LastTop(k), pass |-> pass]}
                      ELSE sharedTids
  /\ todo' = Tail(todo)
  /\ UNCHANGED <<prog, pass, phase, here, stack, place, sinks, wm, memo_vars, history>>

\* What is still on the list of this sub-pass's outputs is taken back.
Compiled ==
  /\ phase = "emit" /\ todo = <<>>
  /\ LET back == {e.buf : e \in {x \in memPlan : x.pushed}} \cap parked IN
     /\ bufs'   = [b \in DOMAIN bufs |-> IF b \in back THEN [bufs[b] EXCEPT !.rc = 1]
                                         ELSE bufs[b]]
     /\ parked' = parked \ back
  /\ memPlan' = {}
  /\ IF here < Len(Subs) THEN here' = here + 1 /\ phase' = "plan"
                         ELSE here' = 1 /\ phase' = "start"
  /\ UNCHANGED <<prog, pass, stack, todo, place, sinks, sharedTids, tens, linked, mem, wm,
                 memo_vars, history>>

----------------------------------------------------------------------------
(* Firing.  The precise memo keeps the last RingCap writes, numbered.        *)
NoWrite == [at |-> 0, buf |-> 0]
Slot(i) == i % RingCap
Recorded(r, n, b) == [r EXCEPT ![Slot(n)] = [at |-> n, buf |-> b]]

\* Was buffer b written after write `since`?  Yes where the ring forgot.
AssignedSince(b, since) ==
  LET oldest == IF seq > RingCap THEN seq - RingCap + 1 ELSE 1
  IN  /\ seq # 0
      /\ \/ since + 1 < oldest
         \/ \E i \in (since + 1)..seq : ring[Slot(i)] = [at |-> i, buf |-> b]

Untouched(t, since) == Live(t) /\ ~AssignedSince(tens[t], since)

\* The kernel fired in this pass, and nothing wrote what it reads or its output.
Reusable(k) ==
  /\ prog.precise /\ epoch # 0 /\ fired[k].pass = epoch
  /\ Untouched(k, fired[k].seq)
  /\ \A i \in DOMAIN prog.ins[k] : Untouched(prog.ins[k][i], fired[k].seq)

\* kernel_fire_by_id as far as the walk of the inputs, from frames st.
Visit(k, st) ==
  IF fired[k].gen = gen THEN stack' = st /\ fired' = fired
  ELSE /\ fired' = [fired EXCEPT ![k].gen = gen]
       /\ stack' = IF Reusable(k) THEN st ELSE Append(st, [k |-> k, next |-> 1])

Start ==
  /\ phase = "start"
  /\ phase' = "fire"
  /\ IF sinks[here] = 0 THEN UNCHANGED <<stack, fired>> ELSE Visit(sinks[here], stack)
  /\ UNCHANGED <<prog, pass, here, place_vars, mem_vars, gen, epoch, seq, ring, claims,
                 history>>

Top == stack[Len(stack)]
Descend ==
  /\ phase = "fire" /\ stack # <<>> /\ Top.next <= Len(prog.ins[Top.k])
  /\ LET t  == prog.ins[Top.k][Top.next]
         st == [stack EXCEPT ![Len(stack)].next = @ + 1]
     IN  IF linked[t] THEN Visit(t, st) ELSE stack' = st /\ fired' = fired
  /\ UNCHANGED <<prog, pass, phase, here, place_vars, mem_vars, gen, epoch, seq, ring,
                 claims, history>>

Result(k) == <<k, [i \in DOMAIN prog.ins[k] |-> Value(prog.ins[k][i])]>>

\* The inputs are there: a dead output is allocated again, then the program runs.
Dispatch ==
  /\ phase = "fire" /\ stack # <<>> /\ Top.next > Len(prog.ins[Top.k])
  /\ LET k == Top.k  v == Result(Top.k) IN
     /\ IF Live(k)
        THEN /\ mem' = IF bufs[tens[k]].at = 0 THEN mem
                       ELSE [mem EXCEPT ![bufs[tens[k]].at] = v]
             /\ UNCHANGED <<tens, bufs, parked>>
        ELSE \E d \in Donors(bufs, parked) \cup {0} :
             /\ bufs' = NewBuf(bufs, d) /\ parked' = parked \ {d}
             /\ mem' = Stored(bufs', v)
             /\ tens' = [tens EXCEPT ![k] = Len(bufs) + 1]
     /\ seq'   = IF prog.precise THEN seq + 1 ELSE seq
     /\ ring'  = IF prog.precise THEN Recorded(ring, seq + 1, tens'[k]) ELSE ring
     /\ fired' = [fired EXCEPT ![k].seq = seq', ![k].pass = epoch]
     /\ made'  = [made EXCEPT ![k] = v]
  /\ stack' = Front(stack)
  /\ UNCHANGED <<prog, pass, phase, here, place_vars, linked, wm, gen, epoch, claims,
                 held, wrote>>

\* Mutant: every probe looks at the base entry.
WindowBase(loc) == [w \in 1..ClaimWays |-> (loc \div 16) % ClaimCap]
Window(loc) == [w \in 1..ClaimWays |-> ((loc \div 16) + w - 1) % ClaimCap]
\* Where ASSIGN cell loc finds or makes its claim: its own entry, or the first
\* one of another pass, or, with its window full, the base entry.
Probe(loc) ==
  LET win  == Window(loc)
      stop == {w \in 1..ClaimWays : \/ claims[win[w]].epoch # epoch
                                    \/ claims[win[w]].loc = loc}
  IN  IF stop = {} THEN win[1] ELSE win[CHOOSE w \in stop : \A x \in stop : w <= x]
Claimed(loc) == claims[Probe(loc)] = [epoch |-> epoch, loc |-> loc]

\* Copy, or nothing where the cell was claimed in this pass already.
Assign ==
  /\ phase = "fire" /\ stack = <<>> /\ Sub.loc # 0
  /\ phase' = "next"
  /\ IF Claimed(Sub.loc) THEN UNCHANGED <<claims, mem, seq, ring, gen, wrote>>
     ELSE /\ claims' = [claims EXCEPT ![Probe(Sub.loc)] = [epoch |-> epoch, loc |-> Sub.loc]]
          /\ mem'    = [mem EXCEPT ![bufs[tens[Sub.dst]].at] = Value(Sub.src)]
          /\ seq'    = IF prog.precise THEN seq + 1 ELSE seq
          /\ ring'   = IF prog.precise THEN Recorded(ring, seq + 1, tens[Sub.dst]) ELSE ring
          /\ gen'    = gen + 1
          /\ wrote'  = [wrote EXCEPT ![Sub.loc] = @ + 1]
  /\ UNCHANGED <<prog, pass, here, stack, place_vars, tens, linked, bufs, parked, wm, epoch,
                 fired, held, made>>

Plain ==
  /\ phase = "fire" /\ stack = <<>> /\ Sub.loc = 0
  /\ phase' = "next"
  /\ UNCHANGED <<prog, pass, here, stack, place_vars, mem_vars, memo_vars, history>>

Advance ==
  /\ phase = "next"
  /\ IF here < Len(Subs) THEN here' = here + 1 /\ phase' = "start"
                         ELSE here' = 1 /\ phase' = "end"
  /\ UNCHANGED <<prog, pass, stack, place_vars, mem_vars, memo_vars, history>>

----------------------------------------------------------------------------
(* The end of a realize.                                                     *)
Final(top)  == CHOOSE i \in DOMAIN Subs : /\ Subs[i].top = top
                                          /\ \A j \in DOMAIN Subs : Subs[j].top = top => j <= i
ResultOf(s) == IF s.loc # 0 THEN s.dst ELSE s.src
Results == {ResultOf(Subs[Final(t)]) : t \in {Subs[i].top : i \in DOMAIN Subs}}

\* Mutants: the pin is not looked at; the mark is not looked at.
YoungPinned == {b \in wm..Len(bufs) : bufs[b].at # 0 /\ Refs(b) > 0}
\* Buffers since the watermark that no capture holds.
Young == {b \in wm..Len(bufs) \ pins : bufs[b].at # 0 /\ Refs(b) > 0}
SweptMarked(marked) == Young
\* Those of them that are not marked: owned storage is parked while the list has
\* room, views are freed.  A mark does not save a view of an arena.
Swept(marked) == {b \in Young : b \notin marked \/ ~bufs[b].owns}
Rollback(marked) ==
  LET owned  == {b \in Swept(marked) : bufs[b].owns}
      pushed == {b \in owned : Cardinality(parked)
                               + Cardinality({c \in owned : c < b}) < ParkCap}
  IN  /\ bufs' = [b \in DOMAIN bufs |->
                    CASE b \in pushed -> [bufs[b] EXCEPT !.rc = 0]
                      [] b \in Swept(marked) \ owned -> Freed
                      [] OTHER -> bufs[b]]
      /\ parked' = parked \cup pushed

\* kernel_gc_sweep: what survived is a leaf from now on.
Detached == [t \in DOMAIN tens |->
               linked[t] /\ ~(tens[t] # 0 /\ (bufs'[tens[t]].rc > 0 \/ BagIn(tens[t], kept)))]

\* Kept: the results, and possibly whatever pending terms still name.
End ==
  /\ phase = "end"
  /\ \E more \in {{}, wm..Len(bufs)} :
       Rollback({tens[t] : t \in Results \cup held} \cup more)
  /\ linked' = Detached
  /\ held'   = held \cup (Results \cap Kernels)
  /\ phase' = "idle"
  /\ sharedTids' = IF Spanned THEN sharedTids ELSE {}
  /\ UNCHANGED <<prog, pass, here, stack, todo, place, sinks, memPlan, tens, mem, wm,
                 memo_vars, made, wrote>>

Begin ==
  /\ phase = "idle" /\ pass < Len(prog.realizes)
  /\ pass' = pass + 1 /\ phase' = "plan" /\ sinks' = <<>>
  /\ wm' = Len(bufs) + 1 /\ gen' = gen + 1 /\ epoch' = epoch + 1
  /\ wrote' = [l \in DOMAIN wrote |-> 0]
  /\ UNCHANGED <<prog, here, stack, todo, place, memPlan, sharedTids, tens, linked, bufs, mem,
                 parked, seq, ring, fired, claims, held, made>>

Init ==
  /\ prog \in Programs
  /\ pass = 0 /\ phase = "idle" /\ here = 1 /\ todo = <<>> /\ sinks = <<>> /\ stack = <<>>
  /\ place  = [k \in Kernels |-> 0]
  /\ tens   = [t \in Kernels \cup Leaves |-> IF t \in Leaves THEN t - Len(prog.ins) ELSE 0]
  /\ linked = [t \in Kernels \cup Leaves |-> FALSE]
  /\ bufs   = [i \in 1..prog.leaves |-> Buf(i, TRUE)]
  /\ mem    = [i \in 1..prog.leaves |-> <<0, i>>]
  /\ parked = {} /\ wm = prog.leaves + 1
  /\ gen = 0 /\ epoch = 0 /\ seq = 0 /\ ring = [i \in 0..(RingCap - 1) |-> NoWrite]
  /\ fired  = [k \in Kernels |-> [gen |-> 0, pass |-> 0, seq |-> 0]]
  /\ claims = [i \in 0..(ClaimCap - 1) |-> [epoch |-> 0, loc |-> 0]]
  /\ memPlan = {} /\ sharedTids = {}
  /\ kept = EmptyBag /\ pins = {} /\ span = 0
  /\ held = {} /\ made = [k \in Kernels |-> Zero]
  /\ wrote = [l \in UNION {{s.loc : s \in Range(prog.realizes[r])} :
                           r \in DOMAIN prog.realizes} |-> 0]

----------------------------------------------------------------------------
(* Properties.                                                               *)

\* What a tensor should hold: a leaf its contents, a kernel of this realize what
\* it computes from the leaves as they are, an older one what it last computed.
Due ==
  LET due[t \in Kernels \cup Leaves] ==
        IF t \in Leaves THEN Value(t)
        ELSE IF linked[t] THEN <<t, [i \in DOMAIN prog.ins[t] |-> due[prog.ins[t][i]]]>>
        ELSE made[t]
  IN  due

\* In a capture the records of shared outputs outlive their realize
\* (materialized_loc_clear returns before xpass_shared_tid_reset), and this one has
\* a root of the number that one of them waits for: what it reads may be released.
Carried == \E x \in sharedTids : x.pass # pass /\ \E s \in Range(Subs) : s.top = x.top

\* When the walk of a sub-pass is over, its source holds what its graph computes
\* from the leaves as they are now: no kernel below it was skipped on a stale
\* output (the memo of kernel_fire_by_id), and no output was overwritten while it
\* was still to be read (the arena's lifetimes, and buffers recycled under it).
Current ==
  (phase = "fire" /\ stack = <<>> /\ sinks[here] # 0) =>
     Value(sinks[here]) = Due[sinks[here]] \/ Carried

\* A result the caller holds has a live buffer, and keeps what its kernel computed
\* through later realizes: the roll back spares it, and no later allocation is
\* handed its storage (cpu_buf_pool_rollback_with_preserve, cpu_buf_freelist).
ResultsKept == \A k \in held : Live(k) /\ Value(k) = made[k]

\* At the end of a realize every ASSIGN cell of it has written once, however many
\* roots reach it; only one whose window more cells share than it has entries may
\* write again, and none is left out (assign_fire_claim).
Rivals(l) == {m \in Locs : Range(Window(m)) \cap Range(Window(l)) # {}}
AssignedOnce ==
  phase = "end" =>
     \A l \in Locs : \/ wrote[l] = 1
                     \/ wrote[l] > 1 /\ Cardinality(Rivals(l)) > ClaimWays
=============================================================================
