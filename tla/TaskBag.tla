------------------------------ MODULE TaskBag ------------------------------
(***************************************************************************)
(* What src/util/wsq.c promises to its callers, with no memory model in    *)
(* sight: a bounded bag of tasks.  The owner adds tasks and removes them;  *)
(* thieves only remove.  Every task leaves the bag once, through one       *)
(* process; "full" is answered only by a full bag and, to the owner,       *)
(* "empty" only by an empty one.  (A thief may be refused at any time:     *)
(* wsq_steal gives up after one lost race.)                                *)
(***************************************************************************)
EXTENDS Naturals, FiniteSets

CONSTANTS Owner,   \* the process that pushes
          Thief,   \* the processes that steal
          Cap,     \* capacity of the deque
          MaxPush  \* bound on the number of tasks ever pushed

VARIABLES bag,     \* tasks pushed and not yet handed out
          pushed,  \* number of tasks pushed so far; task k is the k-th
          out      \* answer each process holds from its last operation

bagVars == <<bag, pushed, out>>

Proc == {Owner} \cup Thief

\* What a process can hold from its last operation.
Busy   == <<"busy", 0>>    \* an operation is running, or none was started
Empty  == <<"empty", 0>>   \* wsq_pop or wsq_steal returned 0
Full   == <<"full", 0>>    \* wsq_push returned 0
Done   == <<"done", 0>>    \* wsq_push returned 1
Got(x) == <<"got", x>>     \* wsq_pop or wsq_steal returned task x

Answers == {"busy", "empty", "full", "done", "got"} \X Nat

BagInit == /\ bag = {}
           /\ pushed = 0
           /\ out = [p \in Proc |-> Busy]

\* A process forgets its last answer and calls again.
Call(p) == /\ out' = [out EXCEPT ![p] = Busy]
           /\ UNCHANGED <<bag, pushed>>

Add == /\ Cardinality(bag) < Cap
       /\ pushed < MaxPush
       /\ pushed' = pushed + 1
       /\ bag' = bag \cup {pushed + 1}
       /\ out' = [out EXCEPT ![Owner] = Done]

AddRefused == /\ Cardinality(bag) = Cap
              /\ out' = [out EXCEPT ![Owner] = Full]
              /\ UNCHANGED <<bag, pushed>>

Remove(p) == \E x \in bag :
               /\ bag' = bag \ {x}
               /\ out' = [out EXCEPT ![p] = Got(x)]
               /\ UNCHANGED pushed

RemoveRefused(p) == /\ p = Owner => bag = {}
                    /\ out' = [out EXCEPT ![p] = Empty]
                    /\ UNCHANGED <<bag, pushed>>

BagNext == \/ Add
           \/ AddRefused
           \/ \E p \in Proc : Call(p) \/ Remove(p) \/ RemoveRefused(p)

BagSpec == BagInit /\ [][BagNext]_bagVars
=============================================================================
