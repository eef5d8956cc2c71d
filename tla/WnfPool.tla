------------------------------ MODULE WnfPool ------------------------------
(***************************************************************************)
(* src/wnf/pool.c and the driver of src/wnf/nf.c: a process-global pool of *)
(* workers that drains bags of redexes in parallel.                        *)
(*                                                                         *)
(* Worker 0 is the thread that calls nf; workers 1 .. N-1 are pthreads     *)
(* spawned at the first drain and parked between drains.  A drain ends     *)
(* when the atomic counter `alive' says that no worker can still produce   *)
(* work; the driver then waits for the last worker with a condition        *)
(* variable.  nf runs drains until one fires nothing.                      *)
(*                                                                         *)
(* A bag is the bounded bag that Wsq implements, with the order of the     *)
(* deque (the owner's end is the last element).  A section under ctl.mu is *)
(* one action: what it touches is touched under ctl.mu only.  The threads  *)
(* waiting on a condition variable are a set, and leave it only by a       *)
(* signal or by a spurious wakeup.                                         *)
(*                                                                         *)
(* A redex is a pair <<nf call, name>>.  One that already fired, through   *)
(* another bag entry, fires again when is_redex still says yes: it does    *)
(* for an application or an operator, whose cells keep their tags, and     *)
(* does not for a projection, which claims its cell.                       *)
(***************************************************************************)
EXTENDS Integers, Sequences, FiniteSets, SequencesExt, FiniteSetsExt, Functions

CONSTANTS
  MaxN,     \* bound: workers of any pool in a run
  Setups,   \* the pools, and the terms nf is called on; see Setup below
  Calls     \* bound: calls of nf in a run

(* A setup is a record of                                                  *)
(*   n, cap    the number of workers, pool->n, and the capacity of a bag;  *)
(*   redex     names of the redexes of the term;                           *)
(*   root      the redexes of the term before any reduction;               *)
(*   succ      the redexes each firing makes that a step session shows,    *)
(*             in the order they are found: the result, what is in cells     *)
(*             it allocated, the owners of the cells heap_replace patches;   *)
(*   hidden    the redexes it makes elsewhere: over a variable it            *)
(*             substitutes, or written into cells it reuses;                 *)
(*   lazy      redexes nf_skip_tag skips: TAG_REF and TAG_ALO;             *)
(*   claimed   redexes that are none once fired: TAG_DP0 and TAG_DP1;      *)
(*   session   a step session is attached: firings push their successors;  *)
(*   fireCap   NF_FIRE_CAP, and calls, how often nf is called.             *)
ASSUME BoundAssumption == MaxN \in Nat \ {0} /\ Calls \in Nat

ASSUME SetupAssumption ==
  \A s \in Setups :
    /\ s.n \in 1 .. MaxN /\ s.cap \in Nat \ {0}
    /\ IsFiniteSet(s.redex)
    /\ s.root \cup s.lazy \cup s.claimed \subseteq s.redex
    /\ s.succ \in [s.redex -> Seq(s.redex)]
    /\ s.hidden \in [s.redex -> SUBSET s.redex]
    /\ s.session \in BOOLEAN /\ s.fireCap \in Nat \ {0} /\ s.calls \in 0 .. Calls

VARIABLES
  pc,       \* where each worker is
  bag,      \* workers[w].bag
  cur,      \* the redex each worker took
  todo,     \* successors each worker has still to push
  k,        \* position of each worker's scan for a victim
  cursor,   \* cursor of wnf_pool_worker_loop, modulo N
  alive,    \* pool->alive
  gen,      \* ctl.drain_gen
  seen,     \* ctl.worker_seen_gen
  pending,  \* ctl.pending
  shutdown, \* ctl.shutdown
  spawned,  \* ctl.spawned
  onStart,  \* workers waiting on ctl.start_cond
  onDone,   \* workers waiting on ctl.done_cond
  fires,    \* workers[w].fires
  pushes,   \* workers[w].pushes
  nf        \* the driver's locals, ITRS, and the redexes that have fired;
            \* nf.left is what the bags held when nf was called (history);
            \* nf.setup is the pool and the term, and never changes

ctlVars   == <<gen, seen, pending, shutdown, spawned, onStart, onDone>>
loopVars  == <<cur, todo, k, cursor>>
vars      == <<pc, bag, loopVars, alive, ctlVars, fires, pushes, nf>>

N       == nf.setup.n
Cap     == nf.setup.cap
Root    == nf.setup.root
Succ    == nf.setup.succ
Hidden  == nf.setup.hidden
Lazy    == nf.setup.lazy
Claimed == nf.setup.claimed
Session == nf.setup.session
FireCap == nf.setup.fireCap

Worker == 0 .. N - 1
None   == <<0, 0>>
Goto(w, l) == pc' = [pc EXCEPT ![w] = l]

FiredOf(c) == {f \in nf.fired : f[1] = c}

\* The redexes of call c that were in its term or that a session showed ...
Shown(c) ==
  { <<c, r>> : r \in Root \cup UNION {ToSet(Succ[f[2]]) : f \in FiredOf(c)} }

\* ... all there are ...
Present(c) ==
  Shown(c) \cup { <<c, r>> : r \in UNION {Hidden[f[2]] : f \in FiredOf(c)} }

\* ... and those that have not fired, which redex_enumerate finds.
Enumerate(c) == SetToSeq(Present(c) \ nf.fired)

\* seed_n > seed_cap: keep seed_cap of them.
Clamp(s) == SubSeq(s, 1, IF Len(s) < Cap THEN Len(s) ELSE Cap)

-----------------------------------------------------------------------------
(* The driver: nf, up to and between drains                                *)

Init ==
  /\ nf \in [call : {0}, seeds : {<<>>}, fired : {{}}, total : {0}, itrs : {0},
             before : {0}, budget : {0}, left : {0}, setup : Setups]
  /\ pc = [w \in Worker |-> IF w = 0 THEN "call" ELSE "unborn"]
  /\ bag = [w \in Worker |-> <<>>]
  /\ cur = [w \in Worker |-> None]
  /\ todo = [w \in Worker |-> <<>>]
  /\ k = [w \in Worker |-> 1]
  /\ cursor = [w \in Worker |-> 0]
  /\ alive = N
  /\ gen = 0 /\ seen = [w \in Worker |-> 0]
  /\ pending = 0 /\ shutdown = FALSE /\ spawned = FALSE
  /\ onStart = {} /\ onDone = {}
  /\ fires = [w \in Worker |-> 0] /\ pushes = [w \in Worker |-> 0]

\* nf: reset the run, enumerate the redexes of the new term.
NfCall ==
  /\ pc[0] = "call" /\ nf.call < nf.setup.calls
  /\ fires' = [w \in Worker |-> 0] /\ pushes' = [w \in Worker |-> 0]
  /\ nf' = [nf EXCEPT !.call = @ + 1, !.total = 0, !.left = Len(bag[0]),
                      !.seeds = Clamp(Enumerate(nf.call + 1))]
  /\ Goto(0, "seed")
  /\ UNCHANGED <<bag, loopVars, alive, ctlVars>>

\* wnf_pool_push(pool, 0, seed[i]) spins while the bag is full.
NfSeed ==
  /\ pc[0] = "seed" /\ nf.seeds # <<>>
  /\ Len(bag[0]) < Cap
  /\ bag' = [bag EXCEPT ![0] = Append(@, Head(nf.seeds))]
  /\ pushes' = [pushes EXCEPT ![0] = @ + 1]
  /\ nf' = [nf EXCEPT !.seeds = Tail(@)]
  /\ UNCHANGED <<pc, loopVars, alive, ctlVars, fires>>

\* Seeded: go round the loop while fired_total < NF_FIRE_CAP.
NfRound ==
  /\ pc[0] = "seed" /\ nf.seeds = <<>> /\ nf.total < FireCap
  /\ nf' = [nf EXCEPT !.before = nf.itrs,
                      !.budget = FireCap - nf.total]
  /\ Goto(0, IF N = 1 THEN "local" ELSE "arm")
  /\ UNCHANGED <<bag, loopVars, alive, ctlVars, fires, pushes>>

NfCapped ==
  /\ pc[0] = "seed" /\ nf.seeds = <<>> /\ nf.total >= FireCap
  /\ Goto(0, "call")
  /\ UNCHANGED <<bag, loopVars, alive, ctlVars, fires, pushes, nf>>

\* The drain is over: stop, or look for redexes nobody pushed.
FiredThisRound == nf.itrs - nf.before

NfDrained ==
  /\ pc[0] = "drained"
  /\ LET more == IF FiredThisRound = 0 \/ Session THEN <<>>
                 ELSE Clamp(Enumerate(nf.call))
     IN  /\ nf' = [nf EXCEPT !.total = @ + FiredThisRound, !.seeds = more]
         /\ Goto(0, IF more = <<>> THEN "call" ELSE "seed")
  /\ UNCHANGED <<bag, loopVars, alive, ctlVars, fires, pushes>>

-----------------------------------------------------------------------------
(* Taking and firing redexes, on whichever worker *)

Take(w, t, firing) ==
  /\ cur' = [cur EXCEPT ![w] = t]
  /\ Goto(w, firing)

IsRedex(t) == t[2] \notin Lazy /\ ~(t \in nf.fired /\ t[2] \in Claimed)

MadeResultOnly(t) == IF Session /\ Succ[t[2]] # <<>>
                     THEN << <<t[1], Head(Succ[t[2]])>> >> ELSE <<>>

Made(t) == IF Session THEN [i \in DOMAIN Succ[t[2]] |-> <<t[1], Succ[t[2]][i]>>]
                      ELSE <<>>

\* redex_fire of what worker w holds.  With a step session it goes on to push
\* the redexes it made and the session shows, and no hidden one; what a second
\* firing finds to push is open.
Fire(w) ==
  /\ pc[w] = "fire"
  /\ \/ /\ IsRedex(cur[w])
        /\ nf' = [nf EXCEPT !.fired = @ \cup {cur[w]}, !.itrs = @ + 1]
        /\ \/ todo' = [todo EXCEPT ![w] = Made(cur[w])]
           \/ cur[w] \in nf.fired /\ UNCHANGED todo
     \/ ~IsRedex(cur[w]) /\ UNCHANGED <<todo, nf>>
  /\ Goto(w, "push")
  /\ UNCHANGED <<bag, cur, k, cursor, alive, ctlVars, fires, pushes>>

Push(w) ==
  /\ pc[w] = "push" /\ todo[w] # <<>>
  /\ Len(bag[w]) < Cap
  /\ bag' = [bag EXCEPT ![w] = Append(@, Head(todo[w]))]
  /\ pushes' = [pushes EXCEPT ![w] = @ + 1]
  /\ todo' = [todo EXCEPT ![w] = Tail(@)]
  /\ UNCHANGED <<pc, cur, k, cursor, alive, ctlVars, fires, nf>>

\* fire returned: count it, and (in wnf_pool_drain_local) spend the budget.
Fired(w) ==
  /\ pc[w] = "push" /\ todo[w] = <<>>
  /\ fires' = [fires EXCEPT ![w] = @ + 1]
  /\ cur' = [cur EXCEPT ![w] = None]
  /\ IF N = 1 THEN /\ nf' = [nf EXCEPT !.budget = @ - 1]
                   /\ Goto(w, "local")
              ELSE Goto(w, "pop") /\ UNCHANGED nf
  /\ UNCHANGED <<bag, todo, k, cursor, alive, ctlVars, pushes>>

\* wnf_pool_drain_local: one worker, no stealing, at most max_fires.
LocalTake ==
  /\ pc[0] = "local" /\ nf.budget > 0 /\ bag[0] # <<>>
  /\ bag' = [bag EXCEPT ![0] = Front(@)]
  /\ Take(0, Last(bag[0]), "fire")
  /\ UNCHANGED <<todo, k, cursor, alive, ctlVars, fires, pushes, nf>>

LocalEnd ==
  /\ pc[0] = "local" /\ (nf.budget <= 0 \/ bag[0] = <<>>)
  /\ Goto(0, "drained")
  /\ UNCHANGED <<bag, loopVars, alive, ctlVars, fires, pushes, nf>>

-----------------------------------------------------------------------------
(* wnf_pool_worker_loop *)

Pop(w) ==
  /\ pc[w] = "pop" /\ bag[w] # <<>>
  /\ bag' = [bag EXCEPT ![w] = Front(@)]
  /\ Take(w, Last(bag[w]), "fire")
  /\ UNCHANGED <<todo, k, cursor, alive, ctlVars, fires, pushes, nf>>

PopMiss(w) ==
  /\ pc[w] = "pop" /\ bag[w] = <<>>
  /\ k' = [k EXCEPT ![w] = 1]
  /\ Goto(w, "steal")
  /\ UNCHANGED <<bag, cur, todo, cursor, alive, ctlVars, fires, pushes, nf>>

\* wnf_pool_steal: the scan starts one past the cursor and skips the thief.
Victim(w, i) == (cursor[w] + i) % N

Steal(w) ==
  /\ pc[w] = "steal" /\ k[w] < N
  /\ LET v == Victim(w, k[w]) IN
       /\ v # w /\ bag[v] # <<>>
       /\ bag' = [bag EXCEPT ![v] = Tail(@)]
       /\ Take(w, Head(bag[v]), "fire")
       /\ cursor' = [cursor EXCEPT ![w] = (v + 1) % N]
  /\ k' = [k EXCEPT ![w] = 1]
  /\ UNCHANGED <<todo, alive, ctlVars, fires, pushes, nf>>

\* Skip this victim: it is the thief, it has nothing to take, or another
\* worker, just about to fire, won the race for its oldest redex.
StealNext(w) ==
  /\ pc[w] = "steal" /\ k[w] < N
  /\ LET v == Victim(w, k[w]) IN
       \/ v = w \/ bag[v] = <<>>
       \/ \E u \in Worker \ {w} : pc[u] = "fire"
  /\ k' = [k EXCEPT ![w] = @ + 1]
  /\ UNCHANGED <<pc, bag, cur, todo, cursor, alive, ctlVars, fires, pushes, nf>>

StealMiss(w) ==
  /\ pc[w] = "steal" /\ k[w] = N
  /\ cursor' = [cursor EXCEPT ![w] = (@ + 1) % N]
  /\ k' = [k EXCEPT ![w] = 1]
  /\ Goto(w, "leave")
  /\ UNCHANGED <<bag, cur, todo, alive, ctlVars, fires, pushes, nf>>

\* alive-- ; the last one out ends the drain.
Leave(w) ==
  /\ pc[w] = "leave"
  /\ alive' = alive - 1
  /\ Goto(w, IF alive = 1 THEN "out" ELSE "spin")
  /\ UNCHANGED <<bag, loopVars, ctlVars, fires, pushes, nf>>

\* wnf_pool_any_work looks at one bag after the other: a spinner rejoins at
\* the first it can steal from ...
SpinSome(w) ==
  /\ pc[w] = "spin" /\ k[w] - 1 # w /\ bag[k[w] - 1] # <<>>
  /\ k' = [k EXCEPT ![w] = 1]
  /\ Goto(w, "rejoin")
  /\ UNCHANGED <<bag, cur, todo, cursor, alive, ctlVars, fires, pushes, nf>>

\* ... and looks at `alive' when each was empty as the scan passed it.
SpinNone(w) ==
  /\ pc[w] = "spin" /\ (k[w] - 1 = w \/ bag[k[w] - 1] = <<>>)
  /\ IF k[w] < N THEN k' = [k EXCEPT ![w] = @ + 1] /\ UNCHANGED pc
                 ELSE k' = [k EXCEPT ![w] = 1] /\ Goto(w, "check")
  /\ UNCHANGED <<bag, cur, todo, cursor, alive, ctlVars, fires, pushes, nf>>

\* alive++ ; whatever was seen may be gone by now.
RejoinUncounted(w) ==
  /\ pc[w] = "rejoin"
  /\ Goto(w, "pop")
  /\ UNCHANGED <<bag, loopVars, alive, ctlVars, fires, pushes, nf>>

Rejoin(w) ==
  /\ pc[w] = "rejoin"
  /\ alive' = alive + 1
  /\ Goto(w, "pop")
  /\ UNCHANGED <<bag, loopVars, ctlVars, fires, pushes, nf>>

Check(w) ==
  /\ pc[w] = "check"
  /\ Goto(w, IF alive = 0 THEN "out" ELSE "spin")
  /\ UNCHANGED <<bag, loopVars, alive, ctlVars, fires, pushes, nf>>

EnterLoop(w) == cursor' = [cursor EXCEPT ![w] = (w + 1) % N]

-----------------------------------------------------------------------------
(* wnf_pool_drain_parallel, on worker 0 *)

\* wnf_pool_ensure_workers and alive = n.
Arm ==
  /\ pc[0] = "arm"
  /\ alive' = N
  /\ spawned' = TRUE
  /\ pc' = [w \in Worker |-> IF w = 0 THEN "start"
                             ELSE IF spawned THEN pc[w] ELSE "park"]
  /\ UNCHANGED <<bag, loopVars, gen, seen, pending, shutdown, onStart, onDone,
                 fires, pushes, nf>>

\* Under ctl.mu: pending = n, drain_gen++, broadcast; then the worker loop.
StartOneShort ==
  /\ pc[0] = "start"
  /\ pending' = N - 1
  /\ gen' = gen + 1
  /\ onStart' = {}
  /\ EnterLoop(0)
  /\ Goto(0, "pop")
  /\ UNCHANGED <<bag, cur, todo, k, alive, seen, shutdown, spawned, onDone,
                 fires, pushes, nf>>

Start ==
  /\ pc[0] = "start"
  /\ pending' = N
  /\ gen' = gen + 1
  /\ onStart' = {}
  /\ EnterLoop(0)
  /\ Goto(0, "pop")
  /\ UNCHANGED <<bag, cur, todo, k, alive, seen, shutdown, spawned, onDone,
                 fires, pushes, nf>>

\* Under ctl.mu: the driver's --pending, and its wait on done_cond.
DriverOut ==
  /\ pc[0] = "out"
  /\ pending' = pending - 1
  /\ IF pending' > 0 THEN onDone' = {0} /\ Goto(0, "join")
                     ELSE Goto(0, "drained") /\ UNCHANGED onDone
  /\ UNCHANGED <<bag, loopVars, alive, gen, seen, shutdown, spawned, onStart,
                 fires, pushes, nf>>

\* Woken: test pending again.
DriverJoinUntested ==
  /\ pc[0] = "join" /\ 0 \notin onDone
  /\ Goto(0, "drained")
  /\ UNCHANGED <<bag, loopVars, alive, ctlVars, fires, pushes, nf>>

DriverJoin ==
  /\ pc[0] = "join" /\ 0 \notin onDone
  /\ IF pending > 0 THEN onDone' = {0} /\ UNCHANGED pc
                    ELSE Goto(0, "drained") /\ UNCHANGED onDone
  /\ UNCHANGED <<bag, loopVars, alive, gen, seen, pending, shutdown, spawned,
                 onStart, fires, pushes, nf>>

-----------------------------------------------------------------------------
(* wnf_pool_persistent_main, on worker w > 0 *)

\* Under ctl.mu: wait for a new drain or for shutdown.
Park(w) ==
  /\ pc[w] = "park" /\ w \notin onStart
  /\ ~shutdown /\ gen = seen[w]
  /\ onStart' = onStart \cup {w}
  /\ UNCHANGED <<pc, bag, loopVars, alive, gen, seen, pending, shutdown,
                 spawned, onDone, fires, pushes, nf>>

Wake(w) ==
  /\ pc[w] = "park" /\ w \notin onStart
  /\ ~shutdown /\ gen # seen[w]
  /\ seen' = [seen EXCEPT ![w] = gen]
  /\ EnterLoop(w)
  /\ Goto(w, "pop")
  /\ UNCHANGED <<bag, cur, todo, k, alive, gen, pending, shutdown, spawned,
                 onStart, onDone, fires, pushes, nf>>

Quit(w) ==
  /\ pc[w] = "park" /\ w \notin onStart
  /\ shutdown
  /\ Goto(w, "exited")
  /\ UNCHANGED <<bag, loopVars, alive, ctlVars, fires, pushes, nf>>

\* Under ctl.mu: --pending, the last one signals done_cond.
WorkerOutSilent(w) ==
  /\ pc[w] = "out"
  /\ pending' = pending - 1
  /\ Goto(w, "park")
  /\ UNCHANGED <<bag, loopVars, alive, gen, seen, shutdown, spawned, onStart,
                 onDone, fires, pushes, nf>>

WorkerOut(w) ==
  /\ pc[w] = "out"
  /\ pending' = pending - 1
  /\ onDone' = IF pending' = 0 THEN {} ELSE onDone
  /\ Goto(w, "park")
  /\ UNCHANGED <<bag, loopVars, alive, gen, seen, shutdown, spawned, onStart,
                 fires, pushes, nf>>

\* pthread_cond_wait may return without a signal.
Spurious ==
  /\ \/ \E w \in onStart : onStart' = onStart \ {w} /\ UNCHANGED onDone
     \/ \E w \in onDone : onDone' = onDone \ {w} /\ UNCHANGED onStart
  /\ UNCHANGED <<pc, bag, loopVars, alive, gen, seen, pending, shutdown,
                 spawned, fires, pushes, nf>>

-----------------------------------------------------------------------------
(* wnf_pool_free: wnf_pool_shutdown_workers, from nf_pool_global_release *)

FreeSilent ==
  /\ pc[0] = "call" /\ nf.call = nf.setup.calls
  /\ shutdown' = spawned
  /\ Goto(0, "free")
  /\ UNCHANGED <<bag, loopVars, alive, gen, seen, pending, spawned, onStart,
                 onDone, fires, pushes, nf>>

Free ==
  /\ pc[0] = "call" /\ nf.call = nf.setup.calls
  /\ IF spawned THEN shutdown' = TRUE /\ onStart' = {}
                ELSE UNCHANGED <<shutdown, onStart>>
  /\ Goto(0, "free")
  /\ UNCHANGED <<bag, loopVars, alive, gen, seen, pending, spawned, onDone,
                 fires, pushes, nf>>

\* pthread_join of every worker.
Freed ==
  /\ pc[0] = "free"
  /\ \A w \in Worker \ {0} : pc[w] \in {"exited", "unborn"}
  /\ spawned' = FALSE
  /\ Goto(0, "exited")
  /\ UNCHANGED <<bag, loopVars, alive, gen, seen, pending, shutdown, onStart,
                 onDone, fires, pushes, nf>>

-----------------------------------------------------------------------------
Driver == \/ NfCall \/ NfSeed \/ NfRound \/ NfCapped \/ NfDrained
          \/ LocalTake \/ LocalEnd
          \/ Arm \/ Start \/ DriverOut \/ DriverJoin \/ Free \/ Freed

Loop(w) == \/ Pop(w) \/ PopMiss(w) \/ Steal(w) \/ StealNext(w) \/ StealMiss(w)
           \/ Leave(w) \/ SpinSome(w) \/ SpinNone(w) \/ Rejoin(w) \/ Check(w)
           \/ Fire(w) \/ Push(w) \/ Fired(w)

Helper(w) == Park(w) \/ Wake(w) \/ Quit(w) \/ WorkerOut(w)

Terminated == /\ \A w \in Worker : pc[w] \in {"exited", "unborn"}
              /\ UNCHANGED vars

Next == \/ Driver
        \/ \E w \in Worker : Loop(w)
        \/ \E w \in Worker \ {0} : Helper(w)
        \/ Spurious
        \/ Terminated

\* Every thread keeps running; condition variables never wake by themselves.
Fairness == /\ WF_vars(Driver)
            /\ \A w \in 0 .. MaxN - 1 : WF_vars(w \in Worker /\ Loop(w))
            /\ \A w \in 1 .. MaxN - 1 : WF_vars(w \in Worker /\ Helper(w))

Spec == Init /\ [][Next]_vars /\ Fairness

-----------------------------------------------------------------------------
(* Properties *)

\* A worker that has, or may still get, a redex to fire.
Busy(w) == pc[w] \in {"pop", "steal", "leave", "fire", "push"}

\* When the last worker out sees alive == 0, no redex is left anywhere: not
\* in a bag, not in the hands of a worker, not in one that was about to
\* rejoin.  The spinners that read alive == 0 leave on the strength of this.
AliveCoversWork ==
  pending > 0 /\ alive = 0 =>
    \A w \in Worker : bag[w] = <<>> /\ ~Busy(w)

\* When wnf_pool_drain_parallel returns every bag is empty, every worker is
\* parked, and every redex pushed in this call of nf, or left in a bag by a
\* call that was capped, has been fired once.
DrainComplete ==
  pc[0] = "drained" /\ N > 1 =>
    /\ \A w \in Worker : bag[w] = <<>>
    /\ \A w \in Worker \ {0} : pc[w] = "park"
    /\ SumFunction(fires) = SumFunction(pushes) + nf.left

\* No worker of an earlier drain is still running when the driver arms the
\* next one: `alive' is reset under nobody's feet and a bag has one producer.
QuietBetweenDrains ==
  pc[0] \in {"call", "seed", "arm", "start", "drained", "free"} =>
    \A w \in Worker \ {0} : pc[w] \in {"unborn", "park", "exited"}

\* The cap on firings stopped this call of nf: between two rounds, or (in
\* wnf_pool_drain_local, which counts entries that fire nothing too) in one.
Capped == nf.total >= FireCap \/ (N = 1 /\ nf.budget <= 0)

\* Seeds did not fit in the bag where no later round enumerates them again:
\* at the start of a step session, or in a round that fires nothing.
Overflow == Len(IF Session THEN SetToSeq(Root) ELSE Enumerate(nf.call)) > Cap

\* The redexes a call of nf answers for: REF and ALO stay, and in a step
\* session, which enumerates nothing after the seeds, those never shown do.
Owed(c) ==
  {p \in Present(c) : p[2] \notin Lazy /\ (Session => p \in Shown(c))}

\* What nf returns has no redex left that it answers for, unless the cap on
\* firings stopped it or seeds that the bag had no room for were dropped.
\* The table of reducers in docs/normal_form.md promises every redex: true of
\* nf without a session, and with one of terms that hide none.
NormalForm ==
  pc[0] = "call" /\ nf.call > 0 /\ ~Capped /\ ~Overflow =>
    Owed(nf.call) \subseteq nf.fired

\* nf returns, and when the runtime is freed every worker is joined: no
\* wakeup is lost between the driver, the workers and the two conditions.
NfReturns  == pc[0] = "seed" ~> pc[0] = "call"
AllJoined  == <>(\A w \in Worker : pc[w] \in {"exited", "unborn"})
=============================================================================
