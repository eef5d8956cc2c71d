------------------------------ MODULE Capture ------------------------------
(* Capture and replay of kernel dispatches (jit/capture.c, CPU backend).     *)
(*                                                                           *)
(* While a capture is active each kernel that fires and each ASSIGN that     *)
(* copies is appended to it with the buffer ids used.  Its end decides which  *)
(* of these a replay needs, and what the capture keeps of their buffers.  A  *)
(* replay puts the ids of the new arguments where the declared inputs were   *)
(* and dispatches the rest again, without scheduler, memo or allocation.     *)
(* With pins (the default) every recorded buffer is kept; in two phases       *)
(* (prog.two) recording keeps nothing that would have died, and the end      *)
(* plans new buffers for it.                                                 *)
(*                                                                           *)
(* prog.calls[r] are the calls made before realize r, in TinyJit's order.    *)
EXTENDS Realize

CONSTANTS CaptureCap
ASSUME CaptureCapNonzero == CaptureCap \in Nat \ {0}

VARIABLES
  calls,     \* what is left to call before the next realize
  active,    \* JIT_ACTIVE_SLOT, 0: none
  caps,      \* JIT_CAPTURES
  stripped,  \* kernels without their inputs (kernel_free_arrays)
  due        \* history: right after a replay, what each tensor should hold

capture_vars == <<caps, active, stripped, span>>
realize_vars == <<prog, pass, phase, here, stack, place_vars, tens, linked, parked, wm,
                  memo_vars, wrote>>
Slots == 1..CaptureCap
Blank == [used |-> FALSE, two |-> FALSE, ops |-> <<>>, retained |-> {}, writer |-> <<>>,
          sites |-> {}, inputs |-> <<>>, returns |-> {}, from |-> 0, upto |-> 0]
Recording == active # 0
Rec == caps[active]

----------------------------------------------------------------------------
(* The counts of buffers: m is a record of bufs, kept and pins.              *)
Table == [bufs |-> bufs, kept |-> kept, pins |-> pins]

\* What capture c takes hold of, of the buffers ids, besides what it has.
Retain(c, ids) ==
  LET new == ids \ c.retained
  IN  /\ kept' = kept (+) SetToBag(new)
      /\ pins' = pins \cup {b \in new : bufs'[b].at # 0}

\* cpu_buf_decref, and cpu_buf_free with the last reference.
Decref(b, m) ==
  IF m.bufs[b].rc + Times(b, m.kept) = 1
  THEN [bufs |-> [m.bufs EXCEPT ![b] = Freed], kept |-> m.kept (-) SetToBag({b}),
        pins |-> m.pins \ {b}]
  ELSE IF BagIn(b, m.kept) THEN [m EXCEPT !.kept = @ (-) SetToBag({b})]
  ELSE [m EXCEPT !.bufs[b].rc = IF @ = 0 THEN 0 ELSE @ - 1]
Unpin(b, m)     == Decref(b, [m EXCEPT !.pins = @ \ {b}])
Unretain(ids, m) == FoldSet(Unpin, m, ids)

----------------------------------------------------------------------------
(* Recording.  In two phases writer maps a buffer to the operation that last *)
(* wrote it, or to 0 where it was there before (a leaf).                     *)
Leaf == 0
Run(o) == o.kind = "run"

\* The record of kernel k, fired on the buffers ins into out, at capture c.
RunOp(c, k, ins, out) ==
  LET old   == [b \in Range(ins) \ DOMAIN c.writer |-> Leaf] @@ c.writer
      over  == out \in DOMAIN old /\ (old[out] = Leaf \/ c.ops[old[out]].held)
  IN  [kind |-> "run", k |-> k, ins |-> ins, out |-> out, skip |-> FALSE, zero |-> FALSE,
       refs |-> IF c.two THEN [i \in DOMAIN ins |-> old[ins[i]]] ELSE <<>>,
       held |-> c.two /\ (over \/ out \in Range(ins))]

\* jit_capture_record: with pins all its buffers are retained; in two phases the
\* leaves it reads, and an output written in place.
RecordRun ==
  IF ~Recording THEN UNCHANGED <<caps, jit_vars>>
  ELSE LET ins    == [i \in DOMAIN prog.ins[Top.k] |-> tens[prog.ins[Top.k][i]]]
           out    == tens'[Top.k]
           o      == RunOp(Rec, Top.k, ins, out)
           leaves == Range(ins) \ DOMAIN Rec.writer
           keep   == IF ~Rec.two THEN Range(ins) \cup {out}
                     ELSE leaves \cup (IF o.held THEN {out} ELSE {})
       IN  /\ caps' = [caps EXCEPT ![active] =
                [@ EXCEPT !.ops      = Append(@, o),
                          !.retained = @ \cup keep,
                          !.writer   = IF Rec.two
                                       THEN (out :> Len(Rec.ops) + 1)
                                            @@ [b \in leaves |-> Leaf] @@ @
                                       ELSE @]]
           /\ Retain(Rec, keep)

\* jit_capture_record_assign: both ends are retained, and in two phases they stay
\* where they are.
RecordCopy ==
  IF ~Recording \/ Claimed(Sub.loc) THEN UNCHANGED <<caps, jit_vars>>
  ELSE LET ends == {tens[Sub.dst], tens[Sub.src]}
           new  == ends \ DOMAIN Rec.writer
           mine == {Rec.writer[b] : b \in ends \ new}
       IN  /\ caps' = [caps EXCEPT ![active] =
                [@ EXCEPT !.ops = Append(IF Rec.two
                                         THEN [i \in DOMAIN @ |->
                                                 IF i \in mine THEN [@[i] EXCEPT !.held = TRUE]
                                                 ELSE @[i]]
                                         ELSE @,
                                         [kind |-> "copy", dst |-> Sub.dst, src |-> Sub.src,
                                          skip |-> FALSE]),
                          !.retained = @ \cup ends,
                          !.writer   = IF Rec.two THEN [b \in new |-> Leaf] @@ @ ELSE @]]
           /\ Retain(Rec, ends)

\* Kernels of a capture in two phases keep their inputs.
KidHeld(k) == \E c \in Slots : /\ caps[c].two
                               /\ \E i \in DOMAIN caps[c].ops :
                                     Run(caps[c].ops[i]) /\ caps[c].ops[i].k = k
\* The end of a realize strips the other kernels whose output is dead.
Strip ==
  stripped' = stripped \cup {k \in Kernels : /\ Emitted(k) /\ ~KidHeld(k)
                                             /\ bufs'[tens[k]].rc = 0 /\ ~BagIn(tens[k], kept)}

----------------------------------------------------------------------------
(* The end of a capture: roots, the results the caller declares; returns,     *)
(* those it keeps; inputs, the arguments.                                     *)
Ids(ts)    == {tens[t] : t \in ts} \ {0}
Touched(o) == IF Run(o) THEN Range(o.ins) \cup {o.out} ELSE Ids({o.dst, o.src})

\* The buffers needed after each operation, from the last one backwards.
Needed(ops, roots) ==
  LET need[i \in 0..Len(ops)] ==
        IF i = Len(ops) THEN Ids(roots)
        ELSE LET o == ops[i + 1] IN
             need[i + 1] \cup (IF ~Run(o) THEN Touched(o)
                               ELSE IF o.out \in need[i + 1] THEN Range(o.ins) ELSE {})
  IN  need

\* In two phases, a capture that returns no tensor and writes none is kept whole.
Whole(c, roots) == c.two /\ Ids(roots) = {} /\ \A i \in DOMAIN c.ops : Run(c.ops[i])
Skipped(c, roots) ==
  {i \in DOMAIN c.ops : /\ ~Whole(c, roots) /\ Run(c.ops[i])
                        /\ c.ops[i].out \notin Needed(c.ops, roots)[i]}
Skip(ops, is) == [i \in DOMAIN ops |-> IF i \in is THEN [ops[i] EXCEPT !.skip = TRUE] ELSE ops[i]]
Again(ops)    == {i \in DOMAIN ops : Run(ops[i]) /\ ~ops[i].skip}

\* Where operations name a declared input (at 0: as their output), and which.
Sites(ops, decl) ==
  LET name(i, j) == IF j = 0 THEN ops[i].out ELSE ops[i].ins[j]
      runs == {i \in DOMAIN ops : Run(ops[i])}
      all  == UNION {{[op |-> i, at |-> j, arg |-> a] :
                        j \in {0} \cup DOMAIN ops[i].ins, a \in DOMAIN decl} : i \in runs}
  IN  {s \in all : /\ decl[s.arg] = name(s.op, s.at)
                   /\ \A a \in 1..(s.arg - 1) : decl[a] # name(s.op, s.at)}
\* Kernels that computed an argument inside the capture, in two phases: not again.
Produced(c, ops, decl) ==
  {i \in Again(ops) : c.two /\ ops[i].out \in Range(decl) \ Range(ops[i].ins)}
\* The capture once its operations are settled: what a replay puts arguments into.
Finished(c, ops, retained, h) ==
  LET decl == [a \in DOMAIN h.inputs |-> tens[h.inputs[a]]]
  IN  [c EXCEPT !.ops = Skip(ops, Produced(c, ops, decl)), !.sites = Sites(ops, decl),
                !.retained = retained, !.inputs = h.inputs, !.returns = h.returns,
                !.upto = pass]

\* With pins: what no operation that stays names is released, and an output that is
\* not computed again loses the reference of its tensor.
EndPinned(c, h) ==
  LET ops  == Skip(c.ops, Skipped(c, h.roots))
      live == UNION {Touched(ops[i]) : i \in {j \in DOMAIN ops : ~ops[j].skip}}
      m    == FoldSet(LAMBDA i, t : Decref(ops[i].out, t),
                      Unretain(c.retained \ live, Table), Skipped(c, h.roots))
  IN  /\ bufs' = m.bufs /\ kept' = m.kept /\ pins' = m.pins
      /\ caps' = [caps EXCEPT ![active] = Finished(c, ops, c.retained \cap live, h)]
      /\ UNCHANGED <<mem, parked>>

\* In two phases: the outputs that died, to be given buffers of the capture's own.
Planned(c, ops) ==
  {i \in Again(ops) : /\ ~ops[i].held
                      /\ c.writer[ops[i].out] # i \/ Refs(ops[i].out) = 0}
\* Mutant: an output is free after its first reader.
FirstRead(ops, i) ==
  LET rs == {j \in Again(ops) : i \in Range(ops[j].refs)}
  IN  IF rs = {} THEN i ELSE CHOOSE j \in rs : \A l \in rs : j <= l
LastRead(ops, i) == Max({i} \cup {j \in Again(ops) : i \in Range(ops[j].refs)})
\* Each in the buffer of an earlier one that is read no more, or in one of its own.
Shares(ops, at) ==
  {p \in [at -> at] : \A i \in at :
     /\ p[i] <= i /\ p[p[i]] = p[i]
     /\ \A j \in at : j < i /\ p[j] = p[i] => LastRead(ops, j) < i}

EndTwoPhase(c, h) ==
  LET ops == Skip(c.ops, Skipped(c, h.roots))
      at  == Planned(c, ops)
      out == {ops[i].out : i \in {j \in Again(ops) : ~ops[j].held} \ at}
  IN  \E p \in Shares(ops, at) :
      LET owners == Range(p)
          n      == Cardinality(owners)
          id(i)  == Len(bufs) + Cardinality({o \in owners : o <= p[i]})
          new    == (Len(bufs) + 1)..(Len(bufs) + n)
      IN  \E from \in [new -> Donors(bufs, parked) \cup {0}] :
          LET donors == Range(from) \ {0} IN
          /\ Cardinality({b \in new : from[b] # 0}) = Cardinality(donors)
          /\ bufs' = [b \in 1..(Len(bufs) + n) |->
                        IF b \in donors THEN Freed
                        ELSE IF b \notin new THEN bufs[b]
                        ELSE IF from[b] # 0 THEN Buf(bufs[from[b]].at, TRUE)
                        ELSE Buf(Len(mem) + b - Len(bufs), TRUE)]
          /\ mem' = [a \in 1..(Len(mem) + n) |->
                        IF a > Len(mem) \/ a \in {bufs[b].at : b \in donors} THEN Zero
                        ELSE mem[a]]
          /\ parked' = parked \ donors
          /\ kept'   = kept (+) SetToBag(out \ c.retained)
          /\ pins'   = pins \cup out \cup new
          /\ LET planned == [i \in DOMAIN ops |->
                    IF i \notin Again(ops) THEN ops[i]
                    ELSE [ops[i] EXCEPT
                            !.out  = IF i \in at THEN id(i) ELSE @,
                            !.zero = i \in at,
                            !.ins  = [j \in DOMAIN @ |-> IF ops[i].refs[j] \in at
                                                         THEN id(ops[i].refs[j]) ELSE @[j]]]]
             IN  caps' = [caps EXCEPT
                            ![active] = Finished(c, planned, c.retained \cup out \cup new, h)]

----------------------------------------------------------------------------
(* The calls of TinyJit.                                                     *)
Call(op) == /\ phase = "idle" /\ calls # <<>> /\ Head(calls).op = op
            /\ calls' = Tail(calls)

\* With every slot in use the caller goes on without a capture.
BeginCapture ==
  /\ Call("begin")
  /\ LET free == {c \in Slots : ~caps[c].used} IN
     IF free = {} THEN UNCHANGED <<caps, active, span>>
     ELSE /\ active' = Min(free) /\ span' = span + 1
          /\ caps' = [caps EXCEPT ![Min(free)] =
                        [Blank EXCEPT !.used = TRUE, !.two = prog.two, !.from = pass + 1]]
  /\ due' = <<>>
  /\ UNCHANGED <<realize_vars, bufs, mem, jit_vars, stripped, held, made>>

\* jit_capture_end_with_results, then jit_capture_set_inputs.
EndCapture ==
  /\ Call("end")
  /\ active' = 0
  /\ span' = IF span = 0 THEN 0 ELSE span - 1
  /\ sharedTids' = IF span' = 0 THEN {} ELSE sharedTids
  /\ IF ~Recording THEN UNCHANGED <<bufs, mem, parked, jit_vars, caps, held>>
     ELSE /\ IF Rec.two THEN EndTwoPhase(Rec, Head(calls)) ELSE EndPinned(Rec, Head(calls))
          /\ held' = held \ ({Rec.ops[i].k : i \in {j \in DOMAIN Rec.ops : Run(Rec.ops[j])}}
                               \ Head(calls).returns)
  /\ due' = <<>>
  /\ UNCHANGED <<prog, pass, phase, here, stack, todo, place, sinks, memPlan, tens, linked,
                 wm, memo_vars, wrote, stripped, made>>

\* What was compiled in a capture that is dropped open stays shared.
Drop ==
  /\ Call("drop")
  /\ LET c == Head(calls).cap
         m == Unretain(caps[c].retained, Table)
     IN  /\ bufs' = m.bufs /\ kept' = m.kept /\ pins' = m.pins
         /\ caps' = [caps EXCEPT ![c] = Blank]
         /\ active' = IF active = c THEN 0 ELSE active
  /\ due' = <<>>
  /\ UNCHANGED <<realize_vars, mem, stripped, span, held, made>>

----------------------------------------------------------------------------
(* Replay.                                                                   *)

\* The operations of c with the buffers of args at its sites.
Bound(c, args) ==
  LET arg(i, j, b) ==
        LET s == {x \in c.sites : x.op = i /\ x.at = j}
        IN  IF s = {} THEN b ELSE tens[args[(CHOOSE x \in s : TRUE).arg]]
  IN  [i \in DOMAIN c.ops |->
         LET o == c.ops[i] IN
         IF ~Run(o) THEN o
         ELSE [o EXCEPT !.out = arg(i, 0, @),
                        !.ins = [j \in DOMAIN @ |-> arg(i, j, @[j])]]]

\* Storage m after v is written to buffer b, and what b holds in m.
Put(m, b, v) == IF bufs[b].at = 0 THEN m ELSE [m EXCEPT ![bufs[b].at] = v]
Get(m, b)    == IF bufs[b].at = 0 THEN Zero ELSE m[bufs[b].at]

\* One operation on the storage and the history of outputs, m.
Redo(m, o) ==
  IF o.skip THEN m
  ELSE IF ~Run(o) THEN [m EXCEPT !.mem = Put(@, tens[o.dst], Get(@, tens[o.src]))]
  ELSE LET clean == IF o.zero THEN Put(m.mem, o.out, Zero) ELSE m.mem
           v     == <<o.k, [i \in DOMAIN o.ins |-> Get(clean, o.ins[i])]>>
       IN  IF o.k \in stripped THEN [m EXCEPT !.mem = clean]
           ELSE [mem  |-> Put(clean, o.out, v),
                 made |-> IF o.out = tens[o.k] THEN [m.made EXCEPT ![o.k] = v] ELSE m.made]

\* What the recorded realizes make of the tensors, run again on args.
Ideal(c, args) ==
  LET recorded == {c.ops[i].k : i \in {j \in DOMAIN c.ops : Run(c.ops[j])}}
      inputs   == Range(c.inputs)
      at(t)    == CHOOSE a \in DOMAIN c.inputs : c.inputs[a] = t
      start    == [env  |-> [t \in Kernels \cup Leaves |->
                               Value(IF t \in inputs THEN args[at(t)] ELSE t)],
                   done |-> inputs \cup Leaves \cup (Kernels \ recorded)]
      \* Sub-pass i of realize subs.
      sub(e, subs, i) ==
        LET s == subs[i]
            val[t \in Kernels \cup Leaves] ==
              IF t \in e.done THEN e.env[t]
              ELSE <<t, [j \in DOMAIN prog.ins[t] |-> val[prog.ins[t][j]]]>>
            again == \E j \in 1..(i - 1) : subs[j].loc = s.loc
        IN  [e EXCEPT !.env = [t \in DOMAIN @ |->
               IF s.loc # 0 /\ ~again /\ t = s.dst THEN val[s.src]
               ELSE IF t \in Under(s.src) THEN val[t] ELSE @[t]]]
      realize(e, r) ==
        LET subs == prog.realizes[r]
            f    == FoldLeft(LAMBDA x, i : sub(x, subs, i), e, [i \in DOMAIN subs |-> i])
        IN  [f EXCEPT !.done = @ \cup UNION {Under(subs[i].src) : i \in DOMAIN subs}]
      last == FoldLeft(realize, start, [i \in 1..(c.upto + 1 - c.from) |-> c.from + i - 1]).env
  IN  [t \in Range(args) |-> last[c.inputs[CHOOSE a \in DOMAIN args : args[a] = t]]]
      @@ [t \in inputs |-> Value(t)]
      @@ [t \in Leaves \cup c.returns |-> last[t]]

\* jit_replay_with_inputs: the arguments stay in the operations.
Replay ==
  /\ Call("replay")
  /\ LET n == Head(calls).cap  c == caps[n]  args == Head(calls).args IN
     IF ~c.used THEN UNCHANGED <<caps, mem, made>> /\ due' = <<>>
     ELSE LET ops == Bound(c, args)
              m   == FoldLeft(Redo, [mem |-> mem, made |-> made], ops)
          IN  /\ caps' = [caps EXCEPT ![n].ops = ops]
              /\ mem' = m.mem /\ made' = m.made
              /\ due' = Ideal(c, args)
  /\ UNCHANGED <<realize_vars, bufs, jit_vars, active, stripped, span, held>>

----------------------------------------------------------------------------
CaptureDone == /\ phase = "idle" /\ pass = Len(prog.realizes) /\ calls = <<>>
               /\ UNCHANGED <<vars, capture_vars, calls, due>>

CaptureInit ==
  /\ Init
  /\ calls = prog.calls[1] /\ active = 0 /\ due = <<>>
  /\ caps = [c \in Slots |-> Blank] /\ stripped = {}

\* The steps of a realize, with what a capture does at each.
Schedule     == /\ Plan \/ Emit \/ Compiled \/ Start \/ Descend \/ Plain \/ Advance
                /\ due' = <<>> /\ UNCHANGED <<jit_vars, capture_vars, calls>>
BeginRealize == /\ calls = <<>> /\ Begin /\ calls' = prog.calls[pass' + 1]
                /\ due' = <<>> /\ UNCHANGED <<jit_vars, capture_vars>>
FireKernel   == /\ Dispatch /\ RecordRun
                /\ due' = <<>> /\ UNCHANGED <<active, stripped, span, calls>>
Copy         == /\ Assign /\ RecordCopy
                /\ due' = <<>> /\ UNCHANGED <<active, stripped, span, calls>>
EndRealize   == /\ End /\ Strip
                /\ due' = <<>> /\ UNCHANGED <<jit_vars, caps, active, span, calls>>

CaptureNext == Schedule \/ BeginRealize \/ FireKernel \/ Copy \/ EndRealize
               \/ BeginCapture \/ EndCapture \/ Replay \/ Drop \/ CaptureDone

CaptureSpec == CaptureInit /\ [][CaptureNext]_<<vars, capture_vars, calls, due>>

----------------------------------------------------------------------------
(* Properties.                                                               *)

\* Right after a replay every leaf, argument and kept result holds what the
\* captured realizes, run again on the new arguments, would leave there: nothing a
\* replay needs was skipped, no argument was missed or overwritten, and no buffer
\* shared by the plan was written before its last read (jit_capture_finalize,
\* jit_replay_with_inputs).
Replayed == \A t \in DOMAIN due : Value(t) = due[t]

\* What a finished capture will dispatch again keeps its storage through later
\* realizes, captures and drops: every buffer it names, arguments apart, has
\* storage and a reference, and none it retains is parked for another to take
\* (jit_capture_retain_buf and the pins of cpu_buf_pool_rollback_with_preserve).
Backed ==
  \A c \in Slots \ {active} : caps[c].used =>
    /\ caps[c].retained \cap parked = {}
    /\ \A i \in DOMAIN caps[c].ops : ~caps[c].ops[i].skip =>
         \A b \in Touched(caps[c].ops[i]) :
           \/ bufs[b].at # 0 /\ Refs(b) > 0 /\ b \notin parked
           \/ \E s \in caps[c].sites :
                 /\ s.op = i
                 /\ b = IF s.at = 0 THEN caps[c].ops[i].out ELSE caps[c].ops[i].ins[s.at]
=============================================================================
