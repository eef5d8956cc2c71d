---------------------------- MODULE AotBarrier -----------------------------
(***************************************************************************)
(* aot_barrier_wait of src/aot/worker.c: the generation barrier between    *)
(* the phases of a parallel AOT run.  An arrival counts itself in `cnt';   *)
(* the last one zeroes the count and bumps `gen'; the others spin on       *)
(* `gen', and unless the run has a core per worker they soon go to sleep   *)
(* on a condition variable.                                                *)
(*                                                                         *)
(* Every action is one atomic access.  The last arriver's lock, broadcast  *)
(* and unlock are one step: it touches nothing but the condition variable, *)
(* and nobody else holds the mutex meanwhile.                              *)
(***************************************************************************)
EXTENDS Integers, FiniteSets

CONSTANTS Worker,  \* the threads of the run
          MaxGen   \* the largest value of b->gen, after which it wraps to 0

ASSUME WorkerAssumption == IsFiniteSet(Worker) /\ Worker # {}
ASSUME GenAssumption    == MaxGen \in Nat \ {0}

VARIABLES
  spinOnly,  \* b->spin_only
  cnt,       \* b->cnt
  gen,       \* b->gen
  mu,        \* who holds b->mu: a set of at most one worker
  g,         \* each worker's g
  pc         \* where each worker is

vars == <<spinOnly, cnt, gen, mu, g, pc>>

total == Cardinality(Worker)

\* Where a worker that was not the last is.
Waiting == {"spin", "lock", "test", "wait", "asleep"}

\* aot_barrier_init: spin_only compares the threads with the machine's cores.
Init == /\ spinOnly \in BOOLEAN
        /\ cnt = 0
        /\ gen = 0
        /\ mu = {}
        /\ g = [w \in Worker |-> 0]
        /\ pc = [w \in Worker |-> "out"]

Goto(w, l) == pc' = [pc EXCEPT ![w] = l]

LoadGen(w) ==
  /\ pc[w] = "out"
  /\ g' = [g EXCEPT ![w] = gen]
  /\ Goto(w, "add")
  /\ UNCHANGED <<spinOnly, cnt, gen, mu>>

\* Mutant: the old count, not the new one, is compared with the total.
CountOld(w) ==
  /\ pc[w] = "add"
  /\ cnt' = cnt + 1
  /\ Goto(w, IF cnt = total THEN "reset" ELSE "spin")
  /\ UNCHANGED <<spinOnly, gen, mu, g>>

Count(w) ==
  /\ pc[w] = "add"
  /\ cnt' = cnt + 1
  /\ Goto(w, IF cnt + 1 = total THEN "reset" ELSE "spin")
  /\ UNCHANGED <<spinOnly, gen, mu, g>>

Reset(w) ==
  /\ pc[w] = "reset"
  /\ cnt' = 0
  /\ Goto(w, "bump")
  /\ UNCHANGED <<spinOnly, gen, mu, g>>

Bump(w) ==
  /\ pc[w] = "bump"
  /\ gen' = IF gen = MaxGen THEN 0 ELSE gen + 1
  /\ Goto(w, IF spinOnly THEN "out" ELSE "broadcast")
  /\ UNCHANGED <<spinOnly, cnt, mu, g>>

\* Mutant: the broadcast is made without the mutex.
BroadcastUnlocked(w) ==
  /\ pc[w] = "broadcast"
  /\ pc' = [v \in Worker |-> IF v = w THEN "out"
                             ELSE IF pc[v] = "asleep" THEN "lock" ELSE pc[v]]
  /\ UNCHANGED <<spinOnly, cnt, gen, mu, g>>

Broadcast(w) ==
  /\ pc[w] = "broadcast"
  /\ mu = {}
  /\ pc' = [v \in Worker |-> IF v = w THEN "out"
                             ELSE IF pc[v] = "asleep" THEN "lock" ELSE pc[v]]
  /\ UNCHANGED <<spinOnly, cnt, gen, mu, g>>

\* A waiter sees the new generation while it spins.
SpinOut(w) ==
  /\ pc[w] = "spin"
  /\ gen # g[w]
  /\ Goto(w, "out")
  /\ UNCHANGED <<spinOnly, cnt, gen, mu, g>>

\* It has spun long enough: 128 loads, all of the old generation.
SpinEnd(w) ==
  /\ pc[w] = "spin"
  /\ ~spinOnly
  /\ gen = g[w]
  /\ Goto(w, "lock")
  /\ UNCHANGED <<spinOnly, cnt, gen, mu, g>>

Lock(w) ==
  /\ pc[w] = "lock"
  /\ mu = {}
  /\ mu' = {w}
  /\ Goto(w, "test")
  /\ UNCHANGED <<spinOnly, cnt, gen, g>>

\* The while condition, under the mutex; the other way out unlocks.
Test(w) ==
  /\ pc[w] = "test"
  /\ IF gen = g[w] THEN Goto(w, "wait") /\ UNCHANGED mu
                   ELSE Goto(w, "out") /\ mu' = {}
  /\ UNCHANGED <<spinOnly, cnt, gen, g>>

\* pthread_cond_wait releases the mutex and sleeps in one step.
Sleep(w) ==
  /\ pc[w] = "wait"
  /\ mu' = {}
  /\ Goto(w, "asleep")
  /\ UNCHANGED <<spinOnly, cnt, gen, g>>

\* Mutant: `if' for `while': the woken worker does not test gen again.
WakeOut(w) ==
  /\ pc[w] = "asleep"
  /\ mu = {}
  /\ Goto(w, "out")
  /\ UNCHANGED <<spinOnly, cnt, gen, mu, g>>

\* pthread_cond_wait may return unasked; it has the mutex to take again.
WakeEarly(w) ==
  /\ pc[w] = "asleep"
  /\ Goto(w, "lock")
  /\ UNCHANGED <<spinOnly, cnt, gen, mu, g>>

\* What a worker inside the barrier does by itself.
Step(w) == \/ Count(w) \/ Reset(w) \/ Bump(w) \/ Broadcast(w)
           \/ SpinOut(w) \/ SpinEnd(w) \/ Lock(w) \/ Test(w) \/ Sleep(w)

Next == \E w \in Worker : LoadGen(w) \/ Step(w) \/ WakeEarly(w)

\* The scheduler runs every thread, and pthread_cond_wait does not return
\* unasked for ever.  A worker need not come to the barrier again.
Spec == /\ Init /\ [][Next]_vars
        /\ \A w \in Worker : /\ WF_vars(Step(w))
                             /\ <>[][~WakeEarly(w)]_vars

-----------------------------------------------------------------------------
\* The workers waiting for the current generation to end.
In == {w \in Worker : pc[w] \in Waiting /\ g[w] = gen}

\* What Barrier sees of them: the last arriver is outside until it lets the
\* others go, and they are free from then on.
Stage == [w \in Worker |-> IF pc[w] \notin Waiting THEN "out"
                           ELSE IF g[w] = gen THEN "in" ELSE "free"]

B == INSTANCE Barrier WITH st <- Stage

TypeOK == /\ spinOnly \in BOOLEAN
          /\ cnt \in 0 .. total
          /\ gen \in 0 .. MaxGen
          /\ mu \in SUBSET Worker
          /\ g \in [Worker -> 0 .. MaxGen]
          /\ pc \in [Worker -> {"out", "add", "reset", "bump", "broadcast"}
                                 \cup Waiting]

\* b->cnt is the number of workers waiting in this generation, except while
\* the last arriver, everyone else waiting, is about to zero it and bump gen.
Counted ==
  \/ /\ \A w \in Worker : pc[w] \notin {"reset", "bump"}
     /\ cnt = Cardinality(In)
     /\ In # Worker
  \/ \E l \in Worker : /\ In = Worker \ {l}
                       /\ \/ pc[l] = "reset" /\ cnt = total
                          \/ pc[l] = "bump"  /\ cnt = 0

\* A worker that has loaded gen and not yet counted itself still holds the
\* current generation: nobody can complete the round without it.
LoadFresh == \A w \in Worker : pc[w] \in {"add", "reset", "bump"} => g[w] = gen

\* The barrier of the code is a barrier: nobody passes a round that someone
\* has not reached, whichever way the waiters wait and wherever gen wraps.
Implements == B!Spec

\* No wake-up is lost: once the last worker has arrived, every waiter leaves,
\* the one that was between its test of gen and pthread_cond_wait included.
Released == \A w \in Worker :
              (\E l \in Worker : pc[l] = "reset") ~> (pc[w] = "out")
=============================================================================
