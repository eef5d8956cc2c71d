----------------------------- MODULE MCRealize -----------------------------
(* Small programs for Realize and Capture. *)
EXTENDS Capture

Root(top, src)             == [top |-> top, loc |-> 0, dst |-> 0, src |-> src]
Write(top, loc, dst, src)  == [top |-> top, loc |-> loc, dst |-> dst, src |-> src]
Prog(ins, leaves, realizes) == [ins |-> ins, leaves |-> leaves, realizes |-> realizes]
Quiet(realizes) == [r \in 1..(Len(realizes) + 1) |-> <<>>]
With(precise, ps) == {[ins |-> p.ins, leaves |-> p.leaves, realizes |-> p.realizes,
                       calls |-> Quiet(p.realizes), two |-> FALSE, dedup |-> TRUE,
                       precise |-> precise] : p \in ps}

\* Every graph of five kernels, each over the leaf 8 or one or two kernels before
\* it and each read by a later one, with two more that read it from another root.
Inputs(k) == {<<8>>} \cup {<<i>> : i \in 1..(k - 1)}
              \cup {<<i, j>> : i \in 1..(k - 1), j \in 1..(k - 1)}
Graphs == {g \in {<<a, b, c, d, e, <<i>>, <<6>>>> :
                    a \in Inputs(1), b \in Inputs(2), c \in Inputs(3), d \in Inputs(4),
                    e \in Inputs(5), i \in 1..4} :
             /\ \A k \in 1..5 : Len(g[k]) = 1 \/ g[k][1] < g[k][2]
             /\ \A k \in 1..4 : \E j \in 2..5 : k \in Range(g[j])}
\* Both roots; each written to a leaf of its own; and the leaf 8 written in between.
Reads   == {Prog(g, 4, <<<<Root(1, 5), Root(2, 7)>>>>) : g \in Graphs}
Writes  == {Prog(g, 4, <<<<Write(1, 16, 10, 5), Write(2, 32, 11, 7)>>>>) : g \in Graphs}
Updates == {Prog(g, 4, <<<<Write(1, 16, 10, 5), Write(2, 20, 8, 9), Write(3, 32, 11, 7)>>>>) :
              g \in Graphs}
\* v := 2(w); w := 1(w, x); u := 3(2(w), w): kernel 2 has to fire again.
Reread == Prog(<<<<4, 5>>, <<4>>, <<2, 4>>>>, 4,
               <<<<Write(1, 16, 6, 2), Write(2, 20, 4, 1), Write(3, 32, 7, 3)>>>>)
\* m := 1(m, g) and v := 2(v, g), each reached as a root and inside the update
\* w := 3(w, m, v); then again with other kernels, and cells of the same windows.
Step(k, c) == <<Write(1, c, 7, k), Write(2, c + 1, 8, k + 1), Write(3, c, 7, k),
                Write(3, c + 1, 8, k + 1), Write(3, c + 32, 9, k + 2)>>
Adam == Prog(<<<<7, 10>>, <<8, 10>>, <<9, 7, 8>>, <<7, 10>>, <<8, 10>>, <<9, 7, 8>>>>, 4,
             <<Step(1, 16), Step(4, 80)>>)
\* Three cells of one window of two, and the first of them again.
Crowd == Prog(<<<<4>>, <<4>>, <<4>>>>, 4,
              <<<<Write(1, 16, 5, 1), Write(2, 17, 6, 2), Write(3, 18, 7, 3),
                 Write(4, 16, 5, 1)>>>>)
\* A result the caller holds, read by the next realize; buffers of the first are
\* parked (1 has two consumers) and taken again.
Session == Prog(<<<<9>>, <<1>>, <<1, 2>>, <<3, 9>>, <<4>>, <<4, 5>>, <<6, 3>>, <<7>>>>, 1,
                <<<<Root(1, 3)>>, <<Root(1, 6)>>, <<Root(1, 7), Root(2, 8)>>>>)

\* A kernel of one root's chain is itself a root.
Inner == Prog(<<<<6>>, <<1, 7>>, <<2>>, <<3>>, <<4>>>>, 2, <<<<Root(1, 5), Root(2, 2)>>>>)
\* v := 2(1(w)); w := 3(c); u := 4(2(1(w))): what 2 reads has not fired again yet.
Stale == Prog(<<<<5>>, <<1>>, <<6>>, <<2>>>>, 4,
              <<<<Write(1, 16, 7, 2), Write(2, 32, 5, 3), Write(3, 48, 8, 4)>>>>)
\* One root over three writes: v := 5(4(3(2(1, w)))); w := 7(c); u := 6(2(1, w)).
Nested == Prog(<<<<9>>, <<1, 10>>, <<2>>, <<3>>, <<4>>, <<2>>, <<11>>, <<12, 10, 13>>>>, 5,
               <<<<Write(1, 16, 12, 5), Write(1, 32, 10, 7), Write(1, 48, 13, 6),
                  Root(1, 8)>>>>)

----------------------------------------------------------------------------
(* Captures: cs[r] are the calls before realize r.                           *)
Begun               == [op |-> "begin"]
Ended(rs, inputs)   == [op |-> "end", roots |-> rs, returns |-> rs, inputs |-> inputs]
Lazily(rs, inputs)  == [op |-> "end", roots |-> {}, returns |-> rs, inputs |-> inputs]
On(cap, args)       == [op |-> "replay", cap |-> cap, args |-> args]
Dropped(cap)        == [op |-> "drop", cap |-> cap]
\* With pins, in two phases, and with pins while outputs still go to arenas.
Modes == {"pins", "two", "arena"}
Jit(precise, mode, p, cs) ==
  [ins |-> p.ins, leaves |-> p.leaves, realizes |-> p.realizes, calls |-> cs,
   two |-> mode = "two", dedup |-> mode # "arena", precise |-> precise]

\* Every graph of four kernels over the argument 7 and the weight 8, and a kernel 5
\* over 4 and a kernel 6 of a realize that comes later; 9 and 10 are other arguments.
Chain(k)  == {<<7, 8>>} \cup {<<i>> : i \in 1..(k - 1)}
               \cup {<<i, j>> : i \in 1..(k - 1), j \in 1..(k - 1)}
Nets == {g \in {<<<<7, 8>>, b, c, d, <<4>>, <<8>>>> : b \in Chain(2), c \in Chain(3),
                                                   d \in Chain(4)} :
           /\ \A k \in 1..4 : Len(g[k]) = 1 \/ g[k][1] < g[k][2]
           /\ \A k \in 1..3 : \E j \in 2..4 : k \in Range(g[j])}
Calls(roots) == <<<<Begun>>, <<Ended(roots, <<7>>), On(1, <<9>>)>>, <<On(1, <<10>>)>>>>
Nets4(realize) == {Prog(g, 4, <<realize, <<Root(1, 6)>>>>) : g \in Nets}
\* Returned; written to the weight; written, and then returned with the kernel over it.
Forward == Nets4(<<Root(1, 4)>>)
Train   == Nets4(<<Write(1, 16, 8, 4)>>)
Both    == Nets4(<<Write(1, 16, 8, 3), Root(2, 5)>>)
Captures(mode) ==
  {Jit(precise, mode, p, Calls({4})) : precise \in BOOLEAN, p \in Forward}
    \cup {Jit(FALSE, mode, p, Calls({})) : p \in Train}
    \cup {Jit(FALSE, mode, p, Calls({5})) : p \in Both}

\* Two realizes in a capture, the second over the result 2 of the first; then one
\* that takes parked buffers, and a second capture (kernel 6, over the weight).
Twice(mode) ==
  Jit(TRUE, mode, Prog(<<<<7>>, <<1>>, <<2, 7>>, <<2, 3>>, <<8>>, <<5, 8>>>>, 4,
                      <<<<Root(1, 2)>>, <<Root(1, 4)>>, <<Root(1, 5)>>, <<Root(1, 6)>>>>),
      <<<<Begun>>, <<>>, <<Ended({4}, <<7>>), On(1, <<9>>)>>, <<On(1, <<10>>), Begun>>,
        <<Ended({6}, <<8>>), On(1, <<7>>), On(2, <<9>>), Dropped(1), On(1, <<10>>),
          On(2, <<10>>)>>>>)
\* Captured, dropped and captured again; the results of the first stay with the caller.
Recapture(mode) ==
  Jit(TRUE, mode, Prog(<<<<9>>, <<1>>, <<2, 1>>, <<10>>, <<4>>, <<9>>, <<6>>, <<7, 6>>>>, 4,
                      <<<<Root(1, 3)>>, <<Root(1, 5)>>, <<Root(1, 8)>>>>),
      <<<<Begun>>, <<Ended({3}, <<9>>), On(1, <<11>>), Dropped(1)>>,
        <<On(1, <<12>>), Begun>>, <<Ended({8}, <<9>>), On(1, <<12>>)>>>>)
\* An unreturned root, and a third capture where there is room for two.
Crowded(mode) ==
  Jit(TRUE, mode, Prog(<<<<6>>, <<6, 7>>, <<6>>, <<7>>, <<4, 7>>>>, 3,
                      <<<<Root(1, 1), Root(2, 2)>>, <<Root(1, 3)>>, <<Root(1, 5)>>>>),
      <<<<Begun>>, <<Ended({2}, <<6>>), Begun>>, <<Ended({3}, <<6>>), Begun>>,
        <<Ended({5}, <<7>>), On(1, <<8>>), On(2, <<7>>), Dropped(3 - 1), On(1, <<6>>)>>>>)
\* Two updates of one weight in a bundle, and a result over both.
Moments(mode) ==
  Jit(FALSE, mode, Prog(<<<<6, 8>>, <<7, 6>>, <<8, 7>>, <<6, 7>>, <<8>>>>, 4,
                       <<<<Write(1, 16, 6, 1), Write(2, 32, 7, 2), Write(3, 16, 6, 1),
                           Root(4, 4)>>, <<Root(1, 5)>>>>),
      <<<<Begun>>, <<Ended({4}, <<8>>), On(1, <<9>>), On(1, <<8>>)>>, <<On(1, <<9>>)>>>>)
\* Two realizes of a capture over one kernel that neither returns: the second reads
\* its output where a mark kept it, and computes it again where it was parked.
Resumed(mode) ==
  Jit(FALSE, mode, Prog(<<<<7>>, <<1, 8>>, <<2>>, <<3, 1>>, <<2, 4>>, <<7>>>>, 4,
                        <<<<Root(1, 4)>>, <<Root(1, 5)>>, <<Root(1, 6)>>>>),
      <<<<Begun>>, <<>>, <<Ended({4, 5}, <<7>>), On(1, <<9>>)>>, <<On(1, <<10>>)>>>>)
\* A second capture over a result of the first, which is dropped.
Heir(mode) ==
  Jit(FALSE, mode, Prog(<<<<7>>, <<1>>, <<8>>, <<2, 3>>, <<8>>, <<5>>>>, 4,
                        <<<<Root(1, 2)>>, <<Root(1, 4)>>, <<Root(1, 6)>>>>),
      <<<<Begun>>, <<Ended({2}, <<7>>), Begun>>,
        <<Ended({4}, <<8>>), On(1, <<9>>), On(2, <<9>>), Dropped(1)>>,
        <<On(2, <<10>>), Dropped(2)>>>>)
\* Two realizes of two roots in a capture: the first shares kernel 1 between its
\* roots, the second reads it under other ones (Carried).
Stages(mode) ==
  Jit(FALSE, mode, Prog(<<<<7>>, <<1>>, <<1, 7>>, <<1>>, <<8>>, <<5>>>>, 4,
                        <<<<Root(1, 2), Root(2, 3)>>, <<Root(1, 4), Root(2, 6)>>>>),
      <<<<Begun>>, <<>>, <<Ended({2, 3, 4, 6}, <<7>>), On(1, <<9>>)>>>>)
\* In two phases: an argument computed inside the capture, read once and twice over,
\* and a result that the caller reads lazily.
Lazy == {
  Jit(TRUE, "two", Prog(<<<<6>>, <<1>>, <<2, 1>>, <<3>>, <<7>>>>, 4,
                       <<<<Root(1, 2)>>, <<Root(1, 4)>>, <<Root(1, 5)>>>>),
      <<<<Begun>>, <<>>, <<Ended({4}, <<2>>), On(1, <<8>>)>>, <<On(1, <<9>>)>>>>),
  Jit(TRUE, "two", Prog(<<<<5>>, <<1, 6>>, <<2, 1>>, <<6>>>>, 4,
                       <<<<Root(1, 3)>>, <<Root(1, 4)>>>>),
      <<<<Begun>>, <<Lazily({3}, <<5>>), On(1, <<7>>)>>, <<On(1, <<8>>)>>>>)}

CapturePrograms ==
  UNION {Captures(mode) \cup {Twice(mode), Recapture(mode), Crowded(mode), Moments(mode),
                              Resumed(mode), Heir(mode), Stages(mode)} : mode \in Modes} \cup Lazy

Sound == Reads \cup Writes \cup {Reread, Adam, Crowd, Session}
KernelPrograms == With(TRUE, Sound) \cup With(FALSE, Sound \cup Updates \cup {Stale})
                    \cup CapturePrograms
ResultPrograms == With(TRUE, {Inner})
MemoPrograms   == With(TRUE, {Stale, Nested})
=============================================================================
