------------------------------ MODULE Barrier ------------------------------
(***************************************************************************)
(* What a barrier promises the workers of a parallel run (aot_barrier_wait *)
(* of src/aot/worker.c): nobody passes a round before everybody has        *)
(* reached it, and whoever has been let through has passed before the next *)
(* round can complete.  AotBarrier implements it; AotRun is built on it.   *)
(***************************************************************************)
CONSTANT Worker

VARIABLE st   \* "out", "in" (waiting) or "free" (let through, still inside)

Init == st = [w \in Worker |-> "out"]

\* w reaches the barrier with the others inside: it lets them all through.
ArriveLast(w) == /\ st[w] = "out"
                 /\ \A v \in Worker \ {w} : st[v] = "in"
                 /\ st' = [v \in Worker |-> IF v = w THEN "out" ELSE "free"]

\* w reaches the barrier and has to wait.
ArriveEarly(w) == /\ st[w] = "out"
                  /\ \E v \in Worker \ {w} : st[v] # "in"
                  /\ st' = [st EXCEPT ![w] = "in"]

Leave(w) == /\ st[w] = "free"
            /\ st' = [st EXCEPT ![w] = "out"]

Next == \E w \in Worker : ArriveLast(w) \/ ArriveEarly(w) \/ Leave(w)

Spec == Init /\ [][Next]_st

TypeOK == st \in [Worker -> {"out", "in", "free"}]
=============================================================================
