-------------------------------- MODULE Wsq --------------------------------
(***************************************************************************)
(* src/util/wsq.c: the Chase-Lev work-stealing deque under every parallel  *)
(* reducer of the runtime.  One owner pushes and pops at the bottom, the   *)
(* thieves steal at the top; there is no lock.                             *)
(*                                                                         *)
(* The memory model is part of the model.  The owner's stores (release or  *)
(* plain) go through a FIFO store buffer that reaches memory at any later  *)
(* time (FlushBuf, FlushBot): what release ordering leaves to the hardware.*)
(* The seq_cst fence of wsq_pop and every compare-and-swap wait for the    *)
(* buffer to empty.  The owner reads its own stores (`b' and `ownBuf' are  *)
(* its view); the thieves read memory (`bot' and `buf').  A thief stores   *)
(* nothing but `top', by compare-and-swap, so `top' needs no buffer.       *)
(*                                                                         *)
(* Every action is one shared access of the code together with the local   *)
(* steps around it.  Task k is the k-th task pushed: the payload is only   *)
(* what tells tasks apart.                                                 *)
(***************************************************************************)
EXTENDS Integers, Sequences, FiniteSets

CONSTANTS Owner,     \* the worker that owns the deque
          Thief,     \* the workers that steal from it
          Cap,       \* 1 << capacity_pow2
          MaxPush,   \* bound: tasks pushed in a run
          SbMax      \* bound: entries of the hardware store buffer

ASSUME CapAssumption   == Cap \in Nat \ {0}
ASSUME BoundAssumption == MaxPush \in Nat /\ SbMax \in Nat
ASSUME OwnerAssumption == Owner \notin Thief

VARIABLES
  top,      \* q->top in memory
  bot,      \* q->bot in memory
  buf,      \* q->buf in memory
  sb,       \* the owner's stores that have not reached memory
  b,        \* q->bot as the owner sees it
  ownBuf,   \* q->buf as the owner sees it
  opc,      \* where the owner is
  tpc,      \* where each thief is
  tt,       \* each thief's t
  tx,       \* each thief's x
  live,     \* history: tasks pushed and not handed out
  pushed,   \* history: number of tasks pushed
  out       \* history: the last answer of each process

ownerVars == <<b, ownBuf, opc>>
thiefVars == <<tpc, tt, tx>>
memVars   == <<bot, buf, sb>>
history   == <<live, pushed, out>>
vars      == <<top, memVars, ownerVars, thiefVars, history>>

Bag == INSTANCE TaskBag WITH bag <- live

\* q->buf[i & q->mask]; the capacity is a power of two, so & mask is % Cap.
Slot(i) == i % Cap

\* Stores of the owner: to q->buf at index i, and to q->bot.
StoreBuf(i, x) == [at |-> "buf", i |-> i, x |-> x]
StoreBot(i)    == [at |-> "bot", i |-> i, x |-> 0]

Init ==
  /\ top = 0 /\ bot = 0 /\ b = 0
  /\ buf    = [s \in 0 .. Cap - 1 |-> 0]
  /\ ownBuf = [s \in 0 .. Cap - 1 |-> 0]
  /\ sb = <<>>
  /\ opc = "idle"
  /\ tpc = [p \in Thief |-> "idle"]
  /\ tt  = [p \in Thief |-> 0]
  /\ tx  = [p \in Thief |-> 0]
  /\ Bag!BagInit

-----------------------------------------------------------------------------
(* The store buffer drains, oldest store first. *)

FlushBuf ==
  /\ sb # <<>> /\ Head(sb).at = "buf"
  /\ buf' = [buf EXCEPT ![Slot(Head(sb).i)] = Head(sb).x]
  /\ sb' = Tail(sb)
  /\ UNCHANGED <<top, bot, ownerVars, thiefVars, history>>

FlushBot ==
  /\ sb # <<>> /\ Head(sb).at = "bot"
  /\ bot' = Head(sb).i
  /\ sb' = Tail(sb)
  /\ UNCHANGED <<top, buf, ownerVars, thiefVars, history>>

Room == Len(sb) < SbMax

Answer(p, a) == out' = [out EXCEPT ![p] = a]

-----------------------------------------------------------------------------
(* wsq_push *)

PushFull ==       \* b - t >= cap: return 0
  /\ opc = "idle" /\ b - top >= Cap
  /\ Answer(Owner, Bag!Full)
  /\ UNCHANGED <<top, memVars, ownerVars, thiefVars, live, pushed>>

\* Mutant: the full test written with `>' lets one task too many in.
PushItemOneMore ==
  /\ opc = "idle" /\ b - top <= Cap
  /\ pushed < MaxPush /\ Room
  /\ ownBuf' = [ownBuf EXCEPT ![Slot(b)] = pushed + 1]
  /\ sb' = Append(sb, StoreBuf(b, pushed + 1))
  /\ opc' = "publish"
  /\ Answer(Owner, Bag!Busy)
  /\ UNCHANGED <<top, bot, buf, b, thiefVars, live, pushed>>

PushItem ==       \* q->buf[b & mask] = x
  /\ opc = "idle" /\ b - top < Cap
  /\ pushed < MaxPush /\ Room
  /\ ownBuf' = [ownBuf EXCEPT ![Slot(b)] = pushed + 1]
  /\ sb' = Append(sb, StoreBuf(b, pushed + 1))
  /\ opc' = "publish"
  /\ Answer(Owner, Bag!Busy)
  /\ UNCHANGED <<top, bot, buf, b, thiefVars, live, pushed>>

PushPublish ==    \* store bot = b + 1; return 1
  /\ opc = "publish" /\ Room
  /\ sb' = Append(sb, StoreBot(b + 1))
  /\ b' = b + 1
  /\ opc' = "idle"
  /\ live' = live \cup {pushed + 1}
  /\ pushed' = pushed + 1
  /\ Answer(Owner, Bag!Done)
  /\ UNCHANGED <<top, bot, buf, ownBuf, thiefVars>>

-----------------------------------------------------------------------------
(* wsq_pop *)

PopZero ==        \* if (b == 0) return 0
  /\ opc = "idle" /\ b = 0
  /\ Answer(Owner, Bag!Empty)
  /\ UNCHANGED <<top, memVars, ownerVars, thiefVars, live, pushed>>

PopReserve ==     \* store bot = b1
  /\ opc = "idle" /\ b > 0 /\ Room
  /\ sb' = Append(sb, StoreBot(b - 1))
  /\ b' = b - 1
  /\ opc' = "fence"
  /\ Answer(Owner, Bag!Busy)
  /\ UNCHANGED <<top, bot, buf, ownBuf, thiefVars, live, pushed>>

\* Mutant: no fence; `top' is read while bot = b1 may still be in the buffer.
PopNoFence ==
  /\ opc = "fence"
  /\ opc' = "load"
  /\ UNCHANGED <<top, memVars, b, ownBuf, thiefVars, history>>

PopFence ==       \* atomic_thread_fence(seq_cst)
  /\ opc = "fence"
  /\ sb = <<>>
  /\ opc' = "load"
  /\ UNCHANGED <<top, memVars, b, ownBuf, thiefVars, history>>

PopTake ==        \* t < b1: the item is out of every thief's reach
  /\ opc = "load" /\ top < b
  /\ opc' = "idle"
  /\ live' = live \ {ownBuf[Slot(b)]}
  /\ Answer(Owner, Bag!Got(ownBuf[Slot(b)]))
  /\ UNCHANGED <<top, memVars, b, ownBuf, thiefVars, pushed>>

PopLast ==        \* t == b1: go and race for it
  /\ opc = "load" /\ top = b
  /\ opc' = "cas"
  /\ UNCHANGED <<top, memVars, b, ownBuf, thiefVars, history>>

PopNone ==        \* t > b1: store bot = t; return 0
  /\ opc = "load" /\ top > b /\ Room
  /\ sb' = Append(sb, StoreBot(top))
  /\ b' = top
  /\ opc' = "idle"
  /\ Answer(Owner, Bag!Empty)
  /\ UNCHANGED <<top, bot, buf, ownBuf, thiefVars, live, pushed>>

\* The CAS expects t = b1, the value PopLast read; the buffer is drained.
\* Both outcomes end with store bot = t + 1.
\* Mutant: after the race bot is left at b1 instead of being put back.
PopCasEndNoRestore ==
  /\ opc = "cas" /\ sb = <<>>
  /\ opc' = "idle"
  /\ UNCHANGED <<memVars, b, ownBuf, thiefVars, pushed>>

PopCasEnd ==
  /\ opc = "cas" /\ sb = <<>> /\ Room
  /\ sb' = Append(sb, StoreBot(b + 1))
  /\ b' = b + 1
  /\ opc' = "idle"
  /\ UNCHANGED <<bot, buf, ownBuf, thiefVars, pushed>>

PopWin ==
  /\ PopCasEnd
  /\ top = b
  /\ top' = b + 1
  /\ live' = live \ {ownBuf[Slot(b)]}
  /\ Answer(Owner, Bag!Got(ownBuf[Slot(b)]))

PopLose ==
  /\ PopCasEnd
  /\ top # b
  /\ Answer(Owner, Bag!Empty)
  /\ UNCHANGED <<top, live>>

-----------------------------------------------------------------------------
(* wsq_steal, by thief p *)

StealTop(p) ==    \* t = load top
  /\ tpc[p] = "idle"
  /\ tt' = [tt EXCEPT ![p] = top]
  /\ tpc' = [tpc EXCEPT ![p] = "bot"]
  /\ Answer(p, Bag!Busy)
  /\ UNCHANGED <<top, memVars, ownerVars, tx, live, pushed>>

StealNone(p) ==   \* b = load bot; t >= b: return 0
  /\ tpc[p] = "bot" /\ tt[p] >= bot
  /\ tpc' = [tpc EXCEPT ![p] = "idle"]
  /\ Answer(p, Bag!Empty)
  /\ UNCHANGED <<top, memVars, ownerVars, tt, tx, live, pushed>>

StealSome(p) ==   \* b = load bot; t < b
  /\ tpc[p] = "bot" /\ tt[p] < bot
  /\ tpc' = [tpc EXCEPT ![p] = "read"]
  /\ UNCHANGED <<top, memVars, ownerVars, tt, tx, history>>

StealRead(p) ==   \* x = q->buf[t & mask]
  /\ tpc[p] = "read"
  /\ tx' = [tx EXCEPT ![p] = buf[Slot(tt[p])]]
  /\ tpc' = [tpc EXCEPT ![p] = "cas"]
  /\ UNCHANGED <<top, memVars, ownerVars, tt, history>>

StealWin(p) ==    \* the CAS succeeds: return x
  /\ tpc[p] = "cas" /\ top = tt[p]
  /\ top' = tt[p] + 1
  /\ tpc' = [tpc EXCEPT ![p] = "idle"]
  /\ live' = live \ {tx[p]}
  /\ Answer(p, Bag!Got(tx[p]))
  /\ UNCHANGED <<memVars, ownerVars, tt, tx, pushed>>

StealLose(p) ==   \* the CAS fails: return 0
  /\ tpc[p] = "cas" /\ top # tt[p]
  /\ tpc' = [tpc EXCEPT ![p] = "idle"]
  /\ Answer(p, Bag!Empty)
  /\ UNCHANGED <<top, memVars, ownerVars, tt, tx, live, pushed>>

-----------------------------------------------------------------------------
OwnerNext == \/ PushFull \/ PushItem \/ PushPublish
             \/ PopZero \/ PopReserve \/ PopFence \/ PopTake \/ PopLast
             \/ PopNone \/ PopWin \/ PopLose

ThiefNext(p) == \/ StealTop(p) \/ StealNone(p) \/ StealSome(p)
                \/ StealRead(p) \/ StealWin(p) \/ StealLose(p)

Next == FlushBuf \/ FlushBot \/ OwnerNext \/ \E p \in Thief : ThiefNext(p)

Spec == Init /\ [][Next]_vars

-----------------------------------------------------------------------------
(* Properties *)

\* A pending store.
Store == [at : {"buf", "bot"}, i : Nat, x : Nat]

\* Types.  `b' is one below `top' only while wsq_pop holds a reservation.
TypeOK ==
  /\ top \in Nat /\ bot \in Nat /\ b \in Nat
  /\ buf \in [0 .. Cap - 1 -> Nat] /\ ownBuf \in [0 .. Cap - 1 -> Nat]
  /\ sb \in Seq(Store)
  /\ opc \in {"idle", "publish", "fence", "load", "cas"}
  /\ tpc \in [Thief -> {"idle", "bot", "read", "cas"}]
  /\ tt \in [Thief -> Nat] /\ tx \in [Thief -> Nat]
  /\ live \in SUBSET Nat /\ pushed \in Nat
  /\ out \in [Bag!Proc -> Bag!Answers]

\* While wsq_pop holds its reservation, index b is still undecided.
Reserved == opc \in {"fence", "load", "cas"}
Limit    == IF Reserved THEN b + 1 ELSE b

\* No task is lost and none is handed out twice: what is left in the deque
\* is, slot by slot, what was pushed and never handed out, by a wsq_pop or a
\* wsq_steal, whatever thieves hold an index and a value they read earlier.
DequeHoldsLive ==
  /\ top <= Limit /\ Limit - top <= Cap
  /\ live = {ownBuf[Slot(i)] : i \in top .. Limit - 1}
  /\ \A i, j \in top .. Limit - 1 :
        ownBuf[Slot(i)] = ownBuf[Slot(j)] => i = j

\* A thief whose compare-and-swap would succeed holds the oldest task of the
\* deque: not one the owner has popped, not one written over its slot since,
\* and not a value the owner's store had yet to replace.
StealSound ==
  \A p \in Thief :
    tpc[p] = "cas" /\ top = tt[p] =>
      /\ tx[p] \in live
      /\ \A y \in live : tx[p] <= y

\* The deque implements the bag: wsq.c's linearizability.  "full" is answered
\* only when Cap tasks are in, wsq_pop answers "empty" only when none is.
Linearizable == Bag!BagSpec

-----------------------------------------------------------------------------
(* The inductive invariant behind the two properties above *)

\* Where the owner's stores may point, relative to the live range.
Unpublished == IF opc = "publish" THEN b + 1 ELSE Limit

\* The store buffer in program order: items at growing indices, and bot
\* never above an index whose item is still behind it.
BufferOrdered ==
  \A m, n \in 1 .. Len(sb) :
    m < n /\ sb[n].at = "buf" =>
      IF sb[m].at = "buf" THEN sb[m].i < sb[n].i ELSE sb[m].i <= sb[n].i

\* What each pending store will do: a bot within the limit, an item that no
\* thief can see yet and that the owner already sees.
BufferRanged ==
  \A n \in 1 .. Len(sb) :
    IF sb[n].at = "bot"
      THEN sb[n].i <= Limit
      ELSE /\ top <= sb[n].i /\ bot <= sb[n].i /\ sb[n].i < Unpublished
           /\ sb[n].x = ownBuf[Slot(sb[n].i)]

\* The owner's bot is the last one it stored.
OwnerSeesLast ==
  \/ /\ bot = b
     /\ \A n \in 1 .. Len(sb) : sb[n].at = "buf"
  \/ \E n \in 1 .. Len(sb) :
        /\ sb[n].at = "bot" /\ sb[n].i = b
        /\ \A m \in n + 1 .. Len(sb) : sb[m].at = "buf"

\* An item the owner stored is in memory or in the buffer.
MemoryCatchesUp ==
  \A j \in top .. Unpublished - 1 :
    \/ buf[Slot(j)] = ownBuf[Slot(j)]
    \/ \E n \in 1 .. Len(sb) : sb[n].at = "buf" /\ sb[n].i = j

OwnerState ==
  /\ bot <= Limit
  /\ Unpublished - top <= Cap
  /\ opc \in {"load", "cas"} => sb = <<>>
  /\ opc = "cas" => b <= top
  /\ opc = "publish" => ownBuf[Slot(b)] = pushed + 1 /\ pushed < MaxPush

\* Tasks lie in the deque in the order they were pushed.
Sorted ==
  /\ \A i \in top .. Limit - 1 : ownBuf[Slot(i)] \in 1 .. pushed
  /\ \A i, j \in top .. Limit - 1 :
        i < j => ownBuf[Slot(i)] < ownBuf[Slot(j)]

ThiefState ==
  \A p \in Thief :
    /\ tpc[p] # "idle" => tt[p] <= top
    /\ tpc[p] \in {"read", "cas"} /\ tt[p] = top =>
         /\ tt[p] < Limit
         /\ \A n \in 1 .. Len(sb) : sb[n].at = "buf" => tt[p] < sb[n].i
         /\ IF tpc[p] = "read" THEN buf[Slot(tt[p])] = ownBuf[Slot(tt[p])]
                               ELSE tx[p] = ownBuf[Slot(tt[p])]

IInv ==
  /\ TypeOK
  /\ top <= Limit
  /\ live = {ownBuf[Slot(i)] : i \in top .. Limit - 1}
  /\ IsFiniteSet(live) /\ Cardinality(live) = Limit - top
  /\ BufferOrdered /\ BufferRanged /\ OwnerSeesLast /\ MemoryCatchesUp
  /\ OwnerState /\ Sorted /\ ThiefState
=============================================================================
