----------------------------- MODULE WsqProofs -----------------------------
(***************************************************************************)
(* Proofs about Wsq, for every capacity, number of thieves and length of   *)
(* the store buffer: types (TypeCorrect), the inductive invariant          *)
(* (Invariance), and from it that the deque loses and doubles nothing      *)
(* (HoldsLive), that thieves take the oldest task (StealsOldest) and that  *)
(* the deque implements the bag of TaskBag (Implements).                   *)
(*                                                                         *)
(* IInv is split in two: OwnerSide speaks of the deque and the store       *)
(* buffer, ThiefState of what a thief carries from one load to the next.   *)
(* There is one lemma per kind of step; StoreBotStep, SlotDistinct and the *)
(* sequence lemmas are shared.                                             *)
(***************************************************************************)
EXTENDS Wsq, TLAPS, SequenceTheorems, FiniteSetTheorems

LEMMA SlotType ==
  ASSUME NEW i \in Nat
  PROVE  /\ Slot(i) \in 0 .. Cap - 1
         /\ i \div Cap \in Nat
         /\ i = Cap * (i \div Cap) + Slot(i)
BY CapAssumption, SMTT(30) DEF Slot

LEMMA StoreTypes ==
  ASSUME NEW i \in Nat, NEW x \in Nat
  PROVE  StoreBuf(i, x) \in Store /\ StoreBot(i) \in Store
BY DEF StoreBuf, StoreBot, Store

LEMMA AnswerTypes ==
  /\ Bag!Busy \in Bag!Answers /\ Bag!Empty \in Bag!Answers
  /\ Bag!Full \in Bag!Answers /\ Bag!Done \in Bag!Answers
  /\ \A x \in Nat : Bag!Got(x) \in Bag!Answers
BY DEF Bag!Busy, Bag!Empty, Bag!Full, Bag!Done, Bag!Got, Bag!Answers

LEMMA AppendAt ==
  ASSUME NEW s \in Seq(Store), NEW e \in Store
  PROVE  /\ Append(s, e) \in Seq(Store)
         /\ Len(s) \in Nat
         /\ Len(Append(s, e)) = Len(s) + 1
         /\ \A n \in 1 .. Len(s) : s[n] \in Store /\ Append(s, e)[n] = s[n]
         /\ Append(s, e)[Len(s) + 1] = e
BY AppendProperties, ElementOfSeq, LenProperties

LEMMA TailAt ==
  ASSUME NEW s \in Seq(Store), s # <<>>
  PROVE  /\ Tail(s) \in Seq(Store)
         /\ Head(s) = s[1] /\ s[1] \in Store
         /\ Len(s) \in Nat /\ Len(s) >= 1
         /\ Len(Tail(s)) = Len(s) - 1
         /\ \A n \in 1 .. Len(s) - 1 : Tail(s)[n] = s[n + 1]
         /\ \A n \in 1 .. Len(s) : s[n] \in Store
BY HeadTailProperties, ElementOfSeq, LenProperties, EmptySeq

LEMMA TypeStep == TypeOK /\ [Next]_vars => TypeOK'
<1> SUFFICES ASSUME TypeOK, [Next]_vars PROVE TypeOK'
  OBVIOUS
<1> USE AnswerTypes, CapAssumption
    DEF TypeOK, Answer, memVars, ownerVars, thiefVars, history, Bag!Proc
<1>1. CASE FlushBuf
  <2>1. sb' \in Seq(Store) /\ Head(sb) \in Store
    BY <1>1, TailAt DEF FlushBuf
  <2> QED
    BY <1>1, <2>1, SlotType DEF FlushBuf, Store
<1>2. CASE FlushBot
  <2>1. sb' \in Seq(Store) /\ Head(sb) \in Store
    BY <1>2, TailAt DEF FlushBot
  <2> QED
    BY <1>2, <2>1, SlotType DEF FlushBot, Store
<1>3. CASE PushFull
  BY <1>3, SlotType DEF PushFull
<1>4. CASE PushItem
  <2>1. ownBuf' \in [0 .. Cap - 1 -> Nat]
    BY <1>4, SlotType DEF PushItem
  <2>2. sb' \in Seq(Store)
    BY <1>4, AppendAt, StoreTypes DEF PushItem
  <2>3. out' \in [Bag!Proc -> Bag!Answers]
    BY <1>4 DEF PushItem
  <2>4. opc' = "publish" /\ UNCHANGED <<top, bot, buf, b, live, pushed, tpc, tt, tx>>
    BY <1>4 DEF PushItem
  <2> QED
    BY <2>1, <2>2, <2>3, <2>4
<1>5. CASE PushPublish
  <2>1. sb' \in Seq(Store)
    BY <1>5, AppendAt, StoreTypes DEF PushPublish
  <2>2. b' \in Nat
    BY <1>5 DEF PushPublish
  <2>3. live' = live \cup {pushed + 1}
    BY <1>5 DEF PushPublish
  <2>4. live' \in SUBSET Nat
    BY <2>3
  <2>5. pushed' \in Nat
    BY <1>5 DEF PushPublish
  <2>6. out' \in [Bag!Proc -> Bag!Answers]
    BY <1>5 DEF PushPublish
  <2>7. opc' = "idle" /\ UNCHANGED <<top, bot, buf, ownBuf, tpc, tt, tx>>
    BY <1>5 DEF PushPublish
  <2> QED
    BY <2>1, <2>2, <2>3, <2>4, <2>5, <2>6, <2>7
<1>6. CASE PopZero
  BY <1>6, SlotType DEF PopZero
<1>7. CASE PopReserve
  <2>1. sb' \in Seq(Store)
    BY <1>7, AppendAt, StoreTypes DEF PopReserve
  <2>2. b' \in Nat
    BY <1>7 DEF PopReserve
  <2>3. out' \in [Bag!Proc -> Bag!Answers]
    BY <1>7 DEF PopReserve
  <2>4. opc' = "fence" /\ UNCHANGED <<top, bot, buf, ownBuf, live, pushed, tpc, tt, tx>>
    BY <1>7 DEF PopReserve
  <2> QED
    BY <2>1, <2>2, <2>3, <2>4
<1>8. CASE PopFence
  BY <1>8, SlotType DEF PopFence
<1>9. CASE PopTake
  BY <1>9, SlotType DEF PopTake
<1>10. CASE PopLast
  BY <1>10, SlotType DEF PopLast
<1>11. CASE PopNone
  <2>1. sb' \in Seq(Store)
    BY <1>11, AppendAt, StoreTypes DEF PopNone
  <2>2. b' \in Nat
    BY <1>11 DEF PopNone
  <2>3. out' \in [Bag!Proc -> Bag!Answers]
    BY <1>11 DEF PopNone
  <2>4. opc' = "idle" /\ UNCHANGED <<top, bot, buf, ownBuf, live, pushed, tpc, tt, tx>>
    BY <1>11 DEF PopNone
  <2> QED
    BY <2>1, <2>2, <2>3, <2>4
<1>12. CASE PopWin
  <2>1. top' \in Nat
    BY <1>12 DEF PopWin, PopCasEnd
  <2>2. sb' \in Seq(Store)
    BY <1>12, AppendAt, StoreTypes DEF PopWin, PopCasEnd
  <2>3. b' \in Nat
    BY <1>12 DEF PopWin, PopCasEnd
  <2>4. live' \subseteq live
    BY <1>12 DEF PopWin, PopCasEnd
  <2>5. live' \in SUBSET Nat
    BY <2>4
  <2>6. out' \in [Bag!Proc -> Bag!Answers]
    BY <1>12, SlotType DEF PopWin, PopCasEnd
  <2>7. opc' = "idle" /\ UNCHANGED <<bot, buf, ownBuf, pushed, tpc, tt, tx>>
    BY <1>12 DEF PopWin, PopCasEnd
  <2> QED
    BY <2>1, <2>2, <2>3, <2>4, <2>5, <2>6, <2>7
<1>13. CASE PopLose
  <2>1. sb' \in Seq(Store)
    BY <1>13, AppendAt, StoreTypes DEF PopLose, PopCasEnd
  <2>2. b' \in Nat
    BY <1>13 DEF PopLose, PopCasEnd
  <2>3. out' \in [Bag!Proc -> Bag!Answers]
    BY <1>13 DEF PopLose, PopCasEnd
  <2>4. opc' = "idle" /\ UNCHANGED <<top, bot, buf, ownBuf, live, pushed, tpc, tt, tx>>
    BY <1>13 DEF PopLose, PopCasEnd
  <2> QED
    BY <2>1, <2>2, <2>3, <2>4
<1>14. ASSUME NEW p \in Thief, StealTop(p) PROVE TypeOK'
  BY <1>14, SlotType DEF StealTop
<1>15. ASSUME NEW p \in Thief, StealNone(p) PROVE TypeOK'
  BY <1>15, SlotType DEF StealNone
<1>16. ASSUME NEW p \in Thief, StealSome(p) PROVE TypeOK'
  BY <1>16, SlotType DEF StealSome
<1>17. ASSUME NEW p \in Thief, StealRead(p) PROVE TypeOK'
  BY <1>17, SlotType DEF StealRead
<1>18. ASSUME NEW p \in Thief, StealWin(p) PROVE TypeOK'
  <2>1. top' \in Nat
    BY <1>18 DEF StealWin
  <2>2. live' \subseteq live
    BY <1>18 DEF StealWin
  <2>3. live' \in SUBSET Nat
    BY <2>2
  <2>4. out' \in [Bag!Proc -> Bag!Answers]
    BY <1>18 DEF StealWin
  <2>5. tpc' = [tpc EXCEPT ![p] = "idle"] /\ UNCHANGED <<bot, buf, sb, b, ownBuf, pushed, opc, tt, tx>>
    BY <1>18 DEF StealWin
  <2> QED
    BY <2>1, <2>2, <2>3, <2>4, <2>5
<1>19. ASSUME NEW p \in Thief, StealLose(p) PROVE TypeOK'
  BY <1>19, SlotType DEF StealLose
<1>20. CASE UNCHANGED vars
  BY <1>20 DEF vars
<1> QED
  BY <1>1, <1>2, <1>3, <1>4, <1>5, <1>6, <1>7, <1>8, <1>9, <1>10, <1>11, <1>12, <1>13, <1>14, <1>15, <1>16, <1>17, <1>18, <1>19, <1>20
     DEF Next, OwnerNext, ThiefNext

\* Types: what the owner and the thieves read and store is always a number,
\* an index or an answer, whatever the capacity and the number of thieves.
THEOREM TypeCorrect == Spec => []TypeOK
<1>1. Init => TypeOK
  BY CapAssumption, AnswerTypes
     DEF Init, TypeOK, Bag!BagInit
<1> QED
  BY <1>1, TypeStep, PTL DEF Spec

LEMMA SlotDistinct ==
  ASSUME NEW i \in Nat, NEW j \in Nat, i < j, j < i + Cap
  PROVE  Slot(i) # Slot(j)
<1> SUFFICES ASSUME Slot(i) = Slot(j) PROVE FALSE
  OBVIOUS
<1> DEFINE p == i \div Cap
           q == j \div Cap
<1>1. /\ p \in Nat /\ q \in Nat /\ Slot(i) \in 0 .. Cap - 1
      /\ i = Cap * p + Slot(i) /\ j = Cap * q + Slot(i)
  BY SlotType
<1> HIDE DEF p, q
<1>2. CASE q <= p
  <2>1. Cap * q <= Cap * p
    BY <1>1, <1>2, CapAssumption, SMTT(20)
  <2> QED
    BY <2>1, <1>1, CapAssumption
<1>3. CASE q >= p + 1
  <2>1. Cap * q >= Cap * p + Cap
    BY <1>1, <1>3, CapAssumption, SMTT(20)
  <2> QED
    BY <2>1, <1>1, CapAssumption
<1> QED
  BY <1>1, <1>2, <1>3


LEMMA IInvInit == Init => IInv
<1> SUFFICES ASSUME Init PROVE IInv
  OBVIOUS
<1>1. TypeOK
  BY CapAssumption, AnswerTypes DEF Init, TypeOK, Bag!BagInit
<1>2. Limit = 0 /\ Unpublished = 0 /\ live = {} /\ pushed = 0 /\ Len(sb) = 0 /\ top = 0
  BY DEF Init, Limit, Unpublished, Reserved, Bag!BagInit
<1>3. IsFiniteSet(live) /\ Cardinality(live) = 0
  BY <1>2, FS_EmptySet
<1>4. BufferOrdered /\ BufferRanged /\ OwnerSeesLast /\ MemoryCatchesUp
  BY <1>2 DEF Init, BufferOrdered, BufferRanged, OwnerSeesLast, MemoryCatchesUp
<1>5. OwnerState /\ Sorted /\ ThiefState
  BY <1>2, CapAssumption DEF Init, OwnerState, Sorted, ThiefState
<1> QED
  BY <1>1, <1>2, <1>3, <1>4, <1>5 DEF IInv

LEMMA StoreAt ==
  ASSUME TypeOK
  PROVE  /\ Len(sb) \in Nat
         /\ \A n \in 1 .. Len(sb) :
              sb[n].at \in {"buf", "bot"} /\ sb[n].i \in Nat /\ sb[n].x \in Nat
<1>1. \A n \in 1 .. Len(sb) : sb[n] \in Store
  BY ElementOfSeq DEF TypeOK
<1>2. Len(sb) \in Nat
  BY LenProperties DEF TypeOK
<1> QED
  BY <1>1, <1>2 DEF Store

\* The owner is not disturbed by a step that changes only the thieves' locals.
OwnerSide ==
  /\ top <= Limit
  /\ live = {ownBuf[Slot(i)] : i \in top .. Limit - 1}
  /\ IsFiniteSet(live) /\ Cardinality(live) = Limit - top
  /\ BufferOrdered /\ BufferRanged /\ OwnerSeesLast /\ MemoryCatchesUp
  /\ OwnerState /\ Sorted

LEMMA OwnerSideStutter ==
  OwnerSide /\ UNCHANGED <<top, memVars, ownerVars, live, pushed>> => OwnerSide'
BY DEF OwnerSide, memVars, ownerVars, Limit, Unpublished, Reserved,
       BufferOrdered, BufferRanged, OwnerSeesLast, MemoryCatchesUp, OwnerState, Sorted

LEMMA ThiefStateStutter ==
  ThiefState /\ UNCHANGED <<top, buf, sb, ownBuf, tpc, tt, tx, Limit>> => ThiefState'
BY DEF ThiefState

LEMMA ThiefSteps ==
  ASSUME TypeOK, OwnerSide, ThiefState, NEW p \in Thief,
         StealTop(p) \/ StealNone(p) \/ StealSome(p) \/ StealRead(p) \/ StealLose(p)
  PROVE  OwnerSide' /\ ThiefState'
<1> USE DEF memVars, ownerVars, history
<1>0. UNCHANGED <<top, memVars, ownerVars, live, pushed>>
  BY DEF StealTop, StealNone, StealSome, StealRead, StealLose, Answer
<1>1. OwnerSide'
  BY <1>0, OwnerSideStutter
<1>2. UNCHANGED <<top, buf, sb, ownBuf, Limit>> /\ Limit \in Int /\ top \in Nat
  BY <1>0 DEF Limit, Reserved, TypeOK
<1>3. ASSUME NEW q \in Thief PROVE ThiefState!(q)'
  <2>1. CASE StealTop(p)
    BY <1>2, <2>1 DEF StealTop, ThiefState, TypeOK
  <2>2. CASE StealNone(p)
    BY <1>2, <2>2 DEF StealNone, ThiefState, TypeOK
  <2>3. CASE StealSome(p)
    <3>1. ASSUME tt[p] = top
          PROVE  /\ tt[p] < Limit
                 /\ \A n \in 1 .. Len(sb) : sb[n].at = "buf" => tt[p] < sb[n].i
                 /\ buf[Slot(tt[p])] = ownBuf[Slot(tt[p])]
      <4>1. top < bot /\ bot <= Limit
        BY <3>1, <2>3 DEF StealSome, OwnerSide, OwnerState, TypeOK
      <4>2. \A n \in 1 .. Len(sb) : sb[n].at = "buf" => top < sb[n].i
        <5>1. BufferRanged /\ bot \in Nat
          BY DEF OwnerSide, TypeOK
        <5> QED
          BY <5>1, <4>1, <1>2, StoreAt DEF BufferRanged
      <4>3. top \in top .. Unpublished - 1
        BY <4>1 DEF Unpublished, Limit, TypeOK
      <4> QED
        <5>1. MemoryCatchesUp
          BY DEF OwnerSide
        <5>2. buf[Slot(top)] = ownBuf[Slot(top)]
          BY <5>1, <4>2, <4>3, <1>2 DEF MemoryCatchesUp
        <5> QED
          BY <5>2, <4>1, <4>2, <3>1, <1>2 DEF TypeOK
    <3> QED
      BY <1>2, <2>3, <3>1 DEF StealSome, ThiefState, TypeOK
  <2>4. CASE StealRead(p)
    BY <1>2, <2>4 DEF StealRead, ThiefState, TypeOK
  <2>5. CASE StealLose(p)
    BY <1>2, <2>5 DEF StealLose, ThiefState, TypeOK
  <2> QED
    BY <2>1, <2>2, <2>3, <2>4, <2>5
<1> QED
  BY <1>1, <1>3 DEF ThiefState

LEMMA StealWinStep ==
  ASSUME TypeOK, OwnerSide, ThiefState, NEW p \in Thief, StealWin(p)
  PROVE  OwnerSide' /\ ThiefState'
<1> USE DEF memVars, ownerVars, history
<1>1. /\ top' = top + 1 /\ tt[p] = top /\ tpc[p] = "cas"
      /\ live' = live \ {tx[p]}
      /\ tpc' = [tpc EXCEPT ![p] = "idle"]
      /\ UNCHANGED <<bot, buf, sb, b, ownBuf, opc, tt, tx, pushed>>
  BY DEF StealWin
<1>2. /\ top < Limit /\ tx[p] = ownBuf[Slot(top)]
      /\ \A n \in 1 .. Len(sb) : sb[n].at = "buf" => top < sb[n].i
      /\ Limit' = Limit /\ Unpublished' = Unpublished
      /\ Limit \in Int /\ Unpublished \in Int /\ top \in Nat /\ bot \in Nat /\ b \in Nat
  <2>1. top \in Nat /\ bot \in Nat /\ b \in Nat
    BY DEF TypeOK
  <2>2. /\ top < Limit /\ tx[p] = ownBuf[Slot(top)]
        /\ \A n \in 1 .. Len(sb) : sb[n].at = "buf" => top < sb[n].i
    BY <1>1 DEF ThiefState
  <2>3. /\ Limit' = Limit /\ Unpublished' = Unpublished
        /\ Limit \in Int /\ Unpublished \in Int
    BY <2>1, <1>1 DEF Limit, Unpublished, Reserved
  <2> QED
    BY <2>1, <2>2, <2>3
<1>3. /\ live = {ownBuf[Slot(i)] : i \in top .. Limit - 1}
      /\ IsFiniteSet(live) /\ Cardinality(live) = Limit - top
      /\ BufferOrdered /\ BufferRanged /\ OwnerSeesLast /\ MemoryCatchesUp
      /\ OwnerState /\ Sorted
  BY DEF OwnerSide
<1>4. live' = {ownBuf[Slot(i)] : i \in top + 1 .. Limit - 1}
  <2>1. \A i \in top + 1 .. Limit - 1 : ownBuf[Slot(i)] # ownBuf[Slot(top)]
    BY <1>2, <1>3 DEF Sorted
  <2> QED
    BY <1>1, <1>2, <1>3, <2>1
<1>5. IsFiniteSet(live') /\ Cardinality(live') = Limit - (top + 1)
  <2>1. tx[p] \in live
    BY <1>2, <1>3
  <2>2. live' = live \ {tx[p]}
    BY <1>1
  <2>3. IsFiniteSet(live') /\ Cardinality(live') = Cardinality(live) - 1
    BY <1>3, <2>1, <2>2, FS_RemoveElement
  <2> QED
    BY <2>3, <1>2, <1>3
<1>6. BufferOrdered' /\ OwnerSeesLast'
  BY <1>1, <1>3 DEF BufferOrdered, OwnerSeesLast
<1>7. BufferRanged'
  <2> SUFFICES ASSUME NEW n \in 1 .. Len(sb)
               PROVE  IF sb[n].at = "bot"
                        THEN sb[n].i <= Limit
                        ELSE /\ top + 1 <= sb[n].i /\ bot <= sb[n].i
                             /\ sb[n].i < Unpublished
                             /\ sb[n].x = ownBuf[Slot(sb[n].i)]
    BY <1>1, <1>2 DEF BufferRanged
  <2>1. sb[n].at = "buf" => top + 1 <= sb[n].i
    BY <1>2, StoreAt
  <2> QED
    BY <2>1, <1>3, StoreAt DEF BufferRanged
<1>8. MemoryCatchesUp'
  BY <1>1, <1>2, <1>3 DEF MemoryCatchesUp
<1>9. OwnerState'
  BY <1>1, <1>2, <1>3, CapAssumption DEF OwnerState
<1>10. Sorted'
  BY <1>1, <1>2, <1>3 DEF Sorted
<1>11. ThiefState'
  BY <1>1, <1>2 DEF ThiefState, TypeOK
<1>12. top' <= Limit' /\ Cardinality(live') = Limit' - top'
  BY <1>1, <1>2, <1>5
<1>13. live' = {ownBuf[Slot(i)] : i \in top .. Limit - 1}'
  BY <1>1, <1>2, <1>4
<1> QED
  BY <1>5, <1>6, <1>7, <1>8, <1>9, <1>10, <1>11, <1>12, <1>13 DEF OwnerSide

LEMMA FlushBotStep ==
  ASSUME TypeOK, OwnerSide, ThiefState, FlushBot
  PROVE  OwnerSide' /\ ThiefState'
<1>1. /\ sb # <<>> /\ sb[1].at = "bot" /\ bot' = sb[1].i /\ sb' = Tail(sb)
      /\ UNCHANGED <<top, buf, b, ownBuf, opc, tpc, tt, tx, live, pushed>>
  BY TailAt DEF FlushBot, TypeOK, ownerVars, thiefVars, history
<1>2. /\ Len(sb) \in Nat /\ Len(sb) >= 1 /\ Len(sb') = Len(sb) - 1
      /\ \A n \in 1 .. Len(sb) - 1 : sb'[n] = sb[n + 1]
  BY <1>1, TailAt DEF TypeOK
<1>3. top <= Limit
      /\ live = {ownBuf[Slot(i)] : i \in top .. Limit - 1}
      /\ IsFiniteSet(live) /\ Cardinality(live) = Limit - top
      /\ BufferOrdered /\ BufferRanged /\ OwnerSeesLast /\ MemoryCatchesUp
      /\ OwnerState /\ Sorted
  BY DEF OwnerSide
<1>4. /\ Limit' = Limit /\ Unpublished' = Unpublished
      /\ Limit \in Int /\ Unpublished \in Int /\ top \in Nat /\ bot \in Nat /\ b \in Nat /\ pushed \in Nat
  BY <1>1 DEF TypeOK, Limit, Unpublished, Reserved
<1>5. BufferOrdered'
  BY <1>2, <1>3 DEF BufferOrdered
<1>6. BufferRanged'
  <2> SUFFICES ASSUME NEW n \in 1 .. Len(sb) - 1
               PROVE  IF sb[n + 1].at = "bot"
                        THEN sb[n + 1].i <= Limit
                        ELSE /\ top <= sb[n + 1].i /\ bot' <= sb[n + 1].i
                             /\ sb[n + 1].i < Unpublished
                             /\ sb[n + 1].x = ownBuf[Slot(sb[n + 1].i)]
    BY <1>1, <1>2, <1>4 DEF BufferRanged
  <2>1. n + 1 \in 1 .. Len(sb) /\ 1 \in 1 .. Len(sb) /\ 1 < n + 1
    BY <1>2
  <2>2. sb[n + 1].at = "buf" => bot' <= sb[n + 1].i
    BY <2>1, <1>1, <1>3 DEF BufferOrdered
  <2> QED
    BY <2>1, <2>2, <1>3, StoreAt DEF BufferRanged
<1>7. OwnerSeesLast'
  <2>1. PICK n \in 1 .. Len(sb) :
          /\ sb[n].at = "bot" /\ sb[n].i = b
          /\ \A m \in n + 1 .. Len(sb) : sb[m].at = "buf"
    <3>1. 1 \in 1 .. Len(sb)
      BY <1>2
    <3> QED
      BY <3>1, <1>1, <1>3 DEF OwnerSeesLast
  <2>2. CASE n = 1
    BY <2>1, <2>2, <1>1, <1>2 DEF OwnerSeesLast
  <2>3. CASE n > 1
    <3>1. n - 1 \in 1 .. Len(sb') /\ sb'[n - 1] = sb[n]
      BY <2>3, <1>2
    <3>2. \A m \in (n - 1) + 1 .. Len(sb') : sb'[m].at = "buf"
      BY <2>1, <2>3, <1>2
    <3> QED
      BY <3>1, <3>2, <2>1, <1>1 DEF OwnerSeesLast
  <2> QED
    BY <2>2, <2>3
<1>8. MemoryCatchesUp'
  <2> SUFFICES ASSUME NEW j \in top .. Unpublished - 1,
                      NEW n \in 1 .. Len(sb), sb[n].at = "buf", sb[n].i = j
               PROVE  \E m \in 1 .. Len(sb') : sb'[m].at = "buf" /\ sb'[m].i = j
    BY <1>1, <1>3, <1>4 DEF MemoryCatchesUp
  <2>1. n - 1 \in 1 .. Len(sb') /\ sb'[n - 1] = sb[n]
    BY <1>1, <1>2
  <2> QED
    BY <2>1
<1>9. OwnerState'
  <2>1. bot' <= Limit
    BY <1>1, <1>2, <1>3 DEF BufferRanged
  <2>2. opc \notin {"load", "cas"}
    BY <1>1, <1>3 DEF OwnerState
  <2> QED
    BY <2>1, <2>2, <1>1, <1>3, <1>4 DEF OwnerState
<1>10. Sorted'
  BY <1>1, <1>3, <1>4 DEF Sorted
<1>11. ThiefState'
  BY <1>1, <1>2, <1>4 DEF ThiefState
<1>12. live' = {ownBuf[Slot(i)] : i \in top .. Limit - 1}'
  BY <1>1, <1>3, <1>4
<1> QED
  BY <1>1, <1>3, <1>4, <1>5, <1>6, <1>7, <1>8, <1>9, <1>10, <1>11, <1>12 DEF OwnerSide

LEMMA FlushBufStep ==
  ASSUME TypeOK, OwnerSide, ThiefState, FlushBuf
  PROVE  OwnerSide' /\ ThiefState'
<1>1. /\ sb # <<>> /\ sb[1].at = "buf" /\ sb' = Tail(sb)
      /\ buf' = [buf EXCEPT ![Slot(sb[1].i)] = sb[1].x]
      /\ UNCHANGED <<top, bot, b, ownBuf, opc, tpc, tt, tx, live, pushed>>
  BY TailAt DEF FlushBuf, TypeOK, ownerVars, thiefVars, history
<1>2. /\ Len(sb) \in Nat /\ Len(sb) >= 1 /\ Len(sb') = Len(sb) - 1
      /\ \A n \in 1 .. Len(sb) - 1 : sb'[n] = sb[n + 1]
  BY <1>1, TailAt DEF TypeOK
<1>3. top <= Limit
      /\ live = {ownBuf[Slot(i)] : i \in top .. Limit - 1}
      /\ IsFiniteSet(live) /\ Cardinality(live) = Limit - top
      /\ BufferOrdered /\ BufferRanged /\ OwnerSeesLast /\ MemoryCatchesUp
      /\ OwnerState /\ Sorted
  BY DEF OwnerSide
<1>4. /\ Limit' = Limit /\ Unpublished' = Unpublished
      /\ Limit \in Int /\ Unpublished \in Int /\ top \in Nat /\ bot \in Nat /\ b \in Nat /\ pushed \in Nat
  BY <1>1 DEF TypeOK, Limit, Unpublished, Reserved
<1>5. BufferOrdered'
  BY <1>2, <1>3 DEF BufferOrdered
<1>6. BufferRanged'
  <2> SUFFICES ASSUME NEW n \in 1 .. Len(sb) - 1
               PROVE  IF sb[n + 1].at = "bot"
                        THEN sb[n + 1].i <= Limit
                        ELSE /\ top <= sb[n + 1].i /\ bot <= sb[n + 1].i
                             /\ sb[n + 1].i < Unpublished
                             /\ sb[n + 1].x = ownBuf[Slot(sb[n + 1].i)]
    BY <1>1, <1>2, <1>4 DEF BufferRanged
  <2>1. n + 1 \in 1 .. Len(sb)
    BY <1>2
  <2> QED
    BY <2>1, <1>3 DEF BufferRanged
<1>7. OwnerSeesLast'
  <2>1. CASE \A n \in 1 .. Len(sb) : sb[n].at = "buf"
    <3>1. bot = b
      BY <2>1, <1>3 DEF OwnerSeesLast
    <3>2. \A n \in 1 .. Len(sb') : sb'[n].at = "buf"
      BY <2>1, <1>2
    <3> QED
      BY <3>1, <3>2, <1>1 DEF OwnerSeesLast
  <2>2. CASE \E n \in 1 .. Len(sb) :
          /\ sb[n].at = "bot" /\ sb[n].i = b
          /\ \A m \in n + 1 .. Len(sb) : sb[m].at = "buf"
    <3>0. PICK n \in 1 .. Len(sb) :
          /\ sb[n].at = "bot" /\ sb[n].i = b
          /\ \A m \in n + 1 .. Len(sb) : sb[m].at = "buf"
      BY <2>2
    <3>1. n - 1 \in 1 .. Len(sb') /\ sb'[n - 1] = sb[n]
      BY <3>0, <1>1, <1>2
    <3>2. \A m \in (n - 1) + 1 .. Len(sb') : sb'[m].at = "buf"
      BY <3>0, <1>2
    <3> QED
      BY <3>1, <3>2, <3>0, <1>1 DEF OwnerSeesLast
  <2> QED
    BY <2>1, <2>2, <1>3 DEF OwnerSeesLast
<1>8. /\ 1 \in 1 .. Len(sb) /\ sb[1].i \in Nat
      /\ sb[1].x = ownBuf[Slot(sb[1].i)] /\ Slot(sb[1].i) \in 0 .. Cap - 1
  <2>1. 1 \in 1 .. Len(sb)
    BY <1>2
  <2>2. sb[1].i \in Nat
    BY <2>1, StoreAt
  <2>3. sb[1].x = ownBuf[Slot(sb[1].i)]
    BY <2>1, <1>1, <1>3 DEF BufferRanged
  <2> QED
    BY <2>1, <2>2, <2>3, SlotType
<1>9. ASSUME NEW j \in Nat
      PROVE  \/ buf'[Slot(j)] = buf[Slot(j)]
             \/ buf'[Slot(j)] = ownBuf[Slot(j)]
  BY <1>1, <1>8, SlotType DEF TypeOK
<1>10. buf'[Slot(sb[1].i)] = ownBuf[Slot(sb[1].i)]
  BY <1>1, <1>8 DEF TypeOK
<1>11. MemoryCatchesUp'
  <2> SUFFICES ASSUME NEW j \in top .. Unpublished - 1,
                      buf'[Slot(j)] # ownBuf[Slot(j)]
               PROVE  \E m \in 1 .. Len(sb') : sb'[m].at = "buf" /\ sb'[m].i = j
    BY <1>1, <1>4 DEF MemoryCatchesUp
  <2>1. buf[Slot(j)] # ownBuf[Slot(j)]
    BY <1>4, <1>9
  <2>2. PICK n \in 1 .. Len(sb) : sb[n].at = "buf" /\ sb[n].i = j
    BY <2>1, <1>3 DEF MemoryCatchesUp
  <2>3. n # 1
    BY <2>2, <1>10
  <2>4. n - 1 \in 1 .. Len(sb') /\ sb'[n - 1] = sb[n]
    BY <2>3, <1>2
  <2> QED
    BY <2>2, <2>4
<1>12. OwnerState'
  <2>1. opc \notin {"load", "cas"}
    BY <1>1, <1>3 DEF OwnerState
  <2> QED
    BY <2>1, <1>1, <1>3, <1>4 DEF OwnerState
<1>13. Sorted'
  BY <1>1, <1>3, <1>4 DEF Sorted
<1>14. ThiefState'
  <2>1. \A q \in Thief : tt[q] \in Nat
    BY DEF TypeOK
  <2> QED
    BY <2>1, <1>1, <1>2, <1>4, <1>9 DEF ThiefState
<1>15. live' = {ownBuf[Slot(i)] : i \in top .. Limit - 1}'
  BY <1>1, <1>3, <1>4
<1> QED
  BY <1>1, <1>3, <1>4, <1>5, <1>6, <1>7, <1>11, <1>12, <1>13, <1>14, <1>15 DEF OwnerSide

LEMMA PushItemStep ==
  ASSUME TypeOK, OwnerSide, ThiefState, PushItem
  PROVE  OwnerSide' /\ ThiefState'
<1> DEFINE e == StoreBuf(b, pushed + 1)
<1>1. /\ opc = "idle" /\ opc' = "publish" /\ b - top < Cap /\ pushed < MaxPush
      /\ sb' = Append(sb, e)
      /\ ownBuf' = [ownBuf EXCEPT ![Slot(b)] = pushed + 1]
      /\ UNCHANGED <<top, bot, buf, b, tpc, tt, tx, live, pushed>>
  BY DEF PushItem, thiefVars
<1>2. /\ e.at = "buf" /\ e.i = b /\ e.x = pushed + 1 /\ e \in Store
  BY StoreTypes DEF StoreBuf, TypeOK
<1> HIDE DEF e
<1>3. /\ Len(sb) \in Nat /\ Len(sb') = Len(sb) + 1
      /\ \A n \in 1 .. Len(sb) : sb'[n] = sb[n]
      /\ sb'[Len(sb) + 1] = e
  BY <1>1, <1>2, AppendAt DEF TypeOK
<1>4. top <= Limit
      /\ live = {ownBuf[Slot(i)] : i \in top .. Limit - 1}
      /\ IsFiniteSet(live) /\ Cardinality(live) = Limit - top
      /\ BufferOrdered /\ BufferRanged /\ OwnerSeesLast /\ MemoryCatchesUp
      /\ OwnerState /\ Sorted
  BY DEF OwnerSide
<1>5. /\ Limit = b /\ Unpublished = b /\ Limit' = b /\ Unpublished' = b + 1
      /\ top \in Nat /\ bot \in Nat /\ b \in Nat /\ pushed \in Nat
  BY <1>1 DEF TypeOK, Limit, Unpublished, Reserved
<1>6. ownBuf'[Slot(b)] = pushed + 1
  BY <1>1, <1>5, SlotType DEF TypeOK
<1>7. ASSUME NEW i \in top .. b - 1
      PROVE  ownBuf'[Slot(i)] = ownBuf[Slot(i)]
  <2>1. i \in Nat /\ i < b /\ b < i + Cap
    BY <1>1, <1>5, CapAssumption
  <2>2. Slot(i) # Slot(b)
    BY <2>1, <1>5, SlotDistinct
  <2> QED
    BY <2>1, <2>2, <1>1, SlotType DEF TypeOK
<1>8. BufferOrdered'
  <2> SUFFICES ASSUME NEW m \in 1 .. Len(sb) + 1, NEW n \in 1 .. Len(sb) + 1,
                      m < n, sb'[n].at = "buf"
               PROVE  IF sb'[m].at = "buf" THEN sb'[m].i < sb'[n].i
                                           ELSE sb'[m].i <= sb'[n].i
    BY <1>3 DEF BufferOrdered
  <2>1. CASE n \in 1 .. Len(sb)
    BY <2>1, <1>3, <1>4 DEF BufferOrdered
  <2>2. CASE n = Len(sb) + 1
    <3>1. m \in 1 .. Len(sb) /\ sb'[m] = sb[m] /\ sb'[n].i = b
      BY <2>2, <1>2, <1>3
    <3> QED
      BY <3>1, <1>4, <1>5, StoreAt DEF BufferRanged
  <2> QED
    BY <2>1, <2>2, <1>3
<1>9. BufferRanged'
  <2> SUFFICES ASSUME NEW n \in 1 .. Len(sb) + 1
               PROVE  IF sb'[n].at = "bot"
                        THEN sb'[n].i <= b
                        ELSE /\ top <= sb'[n].i /\ bot <= sb'[n].i
                             /\ sb'[n].i < b + 1
                             /\ sb'[n].x = ownBuf'[Slot(sb'[n].i)]
    BY <1>1, <1>3, <1>5 DEF BufferRanged
  <2>1. CASE n \in 1 .. Len(sb)
    <3>1. sb'[n] = sb[n] /\ sb[n].i \in Nat
      BY <2>1, <1>3, StoreAt
    <3>2. CASE sb[n].at = "bot"
      BY <3>1, <3>2, <2>1, <1>4, <1>5 DEF BufferRanged
    <3>3. CASE sb[n].at # "bot"
      <4>1. /\ top <= sb[n].i /\ bot <= sb[n].i /\ sb[n].i < b
            /\ sb[n].x = ownBuf[Slot(sb[n].i)]
        BY <3>3, <2>1, <1>4, <1>5 DEF BufferRanged
      <4>2. sb[n].i \in top .. b - 1
        BY <4>1, <3>1, <1>5
      <4> QED
        BY <4>1, <4>2, <3>1, <3>3, <1>5, <1>7
    <3> QED
      BY <3>2, <3>3
  <2>2. CASE n = Len(sb) + 1
    <3>1. bot <= b
      BY <1>4, <1>5 DEF OwnerState
    <3> QED
      BY <3>1, <2>2, <1>2, <1>3, <1>4, <1>5, <1>6
  <2> QED
    BY <2>1, <2>2, <1>3
<1>10. OwnerSeesLast'
  <2>1. CASE \A n \in 1 .. Len(sb) : sb[n].at = "buf"
    <3>1. bot = b
      BY <2>1, <1>4 DEF OwnerSeesLast
    <3>2. \A n \in 1 .. Len(sb') : sb'[n].at = "buf"
      BY <2>1, <1>2, <1>3
    <3> QED
      BY <3>1, <3>2, <1>1 DEF OwnerSeesLast
  <2>2. CASE \E n \in 1 .. Len(sb) :
          /\ sb[n].at = "bot" /\ sb[n].i = b
          /\ \A m \in n + 1 .. Len(sb) : sb[m].at = "buf"
    <3>0. PICK n \in 1 .. Len(sb) :
          /\ sb[n].at = "bot" /\ sb[n].i = b
          /\ \A m \in n + 1 .. Len(sb) : sb[m].at = "buf"
      BY <2>2
    <3>1. n \in 1 .. Len(sb') /\ sb'[n] = sb[n]
      BY <1>3
    <3>2. \A m \in n + 1 .. Len(sb') : sb'[m].at = "buf"
      BY <3>0, <1>2, <1>3
    <3> QED
      BY <3>1, <3>2, <3>0, <1>1 DEF OwnerSeesLast
  <2> QED
    BY <2>1, <2>2, <1>4 DEF OwnerSeesLast
<1>11. MemoryCatchesUp'
  <2> SUFFICES ASSUME NEW j \in top .. b
               PROVE  \/ buf[Slot(j)] = ownBuf'[Slot(j)]
                      \/ \E n \in 1 .. Len(sb') : sb'[n].at = "buf" /\ sb'[n].i = j
    BY <1>1, <1>5 DEF MemoryCatchesUp
  <2>1. CASE j = b
    <3>1. Len(sb) + 1 \in 1 .. Len(sb')
      BY <1>3
    <3> QED
      BY <3>1, <2>1, <1>2, <1>3
  <2>2. CASE j \in top .. b - 1
    <3>1. \/ buf[Slot(j)] = ownBuf[Slot(j)]
          \/ \E n \in 1 .. Len(sb) : sb[n].at = "buf" /\ sb[n].i = j
      BY <2>2, <1>4, <1>5 DEF MemoryCatchesUp
    <3>2. \A n \in 1 .. Len(sb) : n \in 1 .. Len(sb') /\ sb'[n] = sb[n]
      BY <1>3
    <3> QED
      BY <3>1, <3>2, <2>2, <1>7
  <2> QED
    BY <2>1, <2>2, <1>5
<1>12. OwnerState'
  BY <1>1, <1>4, <1>5, <1>6, CapAssumption DEF OwnerState
<1>13. Sorted'
  <2>1. \A i \in top .. b - 1 : ownBuf'[Slot(i)] = ownBuf[Slot(i)]
    BY <1>7
  <2> QED
    BY <2>1, <1>1, <1>4, <1>5 DEF Sorted
<1>14. ThiefState'
  <2> SUFFICES ASSUME NEW p \in Thief, tpc[p] \in {"read", "cas"}, tt[p] = top
               PROVE  /\ tt[p] < b
                      /\ \A n \in 1 .. Len(sb) + 1 : sb'[n].at = "buf" => tt[p] < sb'[n].i
                      /\ IF tpc[p] = "read" THEN buf[Slot(tt[p])] = ownBuf'[Slot(tt[p])]
                                            ELSE tx[p] = ownBuf'[Slot(tt[p])]
    BY <1>1, <1>3, <1>5 DEF ThiefState
  <2>1. /\ tt[p] < b
        /\ \A n \in 1 .. Len(sb) : sb[n].at = "buf" => tt[p] < sb[n].i
        /\ IF tpc[p] = "read" THEN buf[Slot(tt[p])] = ownBuf[Slot(tt[p])]
                              ELSE tx[p] = ownBuf[Slot(tt[p])]
    BY <1>5 DEF ThiefState
  <2>2. ownBuf'[Slot(tt[p])] = ownBuf[Slot(tt[p])]
    BY <2>1, <1>5, <1>7
  <2>3. \A n \in 1 .. Len(sb) + 1 : sb'[n].at = "buf" => tt[p] < sb'[n].i
    BY <2>1, <1>2, <1>3
  <2> QED
    BY <2>1, <2>2, <2>3
<1>15. live' = {ownBuf[Slot(i)] : i \in top .. Limit - 1}'
  BY <1>1, <1>4, <1>5, <1>7
<1> QED
  BY <1>1, <1>4, <1>5, <1>8, <1>9, <1>10, <1>11, <1>12, <1>13, <1>14, <1>15 DEF OwnerSide

\* The owner's next store is of bot: nothing in the buffer is reordered, and
\* the store is the last thing the owner sees.
LEMMA StoreBotStep ==
  ASSUME TypeOK, BufferOrdered, NEW v \in Nat,
         sb' = Append(sb, StoreBot(v)), b' = v
  PROVE  /\ Len(sb) \in Nat /\ Len(sb') = Len(sb) + 1
         /\ \A n \in 1 .. Len(sb) : sb'[n] = sb[n]
         /\ sb'[Len(sb) + 1].at = "bot" /\ sb'[Len(sb) + 1].i = v
         /\ BufferOrdered' /\ OwnerSeesLast'
<1> DEFINE e == StoreBot(v)
<1>1. e \in Store /\ e.at = "bot" /\ e.i = v /\ sb' = Append(sb, e)
  BY StoreTypes DEF StoreBot
<1> HIDE DEF e
<1>2. /\ Len(sb) \in Nat /\ Len(sb') = Len(sb) + 1
      /\ \A n \in 1 .. Len(sb) : sb'[n] = sb[n]
      /\ sb'[Len(sb) + 1] = e
  BY <1>1, AppendAt DEF TypeOK
<1>3. BufferOrdered'
  <2> SUFFICES ASSUME NEW m \in 1 .. Len(sb) + 1, NEW n \in 1 .. Len(sb) + 1,
                      m < n, sb'[n].at = "buf"
               PROVE  IF sb'[m].at = "buf" THEN sb'[m].i < sb'[n].i
                                           ELSE sb'[m].i <= sb'[n].i
    BY <1>2 DEF BufferOrdered
  <2>1. m \in 1 .. Len(sb) /\ n \in 1 .. Len(sb)
    BY <1>1, <1>2
  <2> QED
    BY <2>1, <1>2 DEF BufferOrdered
<1>4. OwnerSeesLast'
  <2>1. Len(sb) + 1 \in 1 .. Len(sb')
    BY <1>2
  <2>2. \A m \in (Len(sb) + 1) + 1 .. Len(sb') : sb'[m].at = "buf"
    BY <1>2
  <2> QED
    BY <2>1, <2>2, <1>1, <1>2 DEF OwnerSeesLast
<1> QED
  BY <1>1, <1>2, <1>3, <1>4

LEMMA PushPublishStep ==
  ASSUME TypeOK, OwnerSide, ThiefState, PushPublish
  PROVE  OwnerSide' /\ ThiefState'
<1>1. /\ opc = "publish" /\ opc' = "idle" /\ b' = b + 1
      /\ sb' = Append(sb, StoreBot(b + 1))
      /\ live' = live \cup {pushed + 1} /\ pushed' = pushed + 1
      /\ UNCHANGED <<top, bot, buf, ownBuf, tpc, tt, tx>>
  BY DEF PushPublish, thiefVars
<1>2. top <= Limit
      /\ live = {ownBuf[Slot(i)] : i \in top .. Limit - 1}
      /\ IsFiniteSet(live) /\ Cardinality(live) = Limit - top
      /\ BufferOrdered /\ BufferRanged /\ OwnerSeesLast /\ MemoryCatchesUp
      /\ OwnerState /\ Sorted
  BY DEF OwnerSide
<1>3. /\ Limit = b /\ Unpublished = b + 1 /\ Limit' = b + 1 /\ Unpublished' = b + 1
      /\ top \in Nat /\ bot \in Nat /\ b \in Nat /\ pushed \in Nat
      /\ ownBuf[Slot(b)] = pushed + 1
  BY <1>1, <1>2 DEF TypeOK, Limit, Unpublished, Reserved, OwnerState
<1>4. /\ Len(sb) \in Nat /\ Len(sb') = Len(sb) + 1
      /\ \A n \in 1 .. Len(sb) : sb'[n] = sb[n]
      /\ sb'[Len(sb) + 1].at = "bot" /\ sb'[Len(sb) + 1].i = b + 1
      /\ BufferOrdered' /\ OwnerSeesLast'
  BY <1>1, <1>2, <1>3, StoreBotStep
<1>5. BufferRanged'
  <2> SUFFICES ASSUME NEW n \in 1 .. Len(sb)
               PROVE  IF sb[n].at = "bot"
                        THEN sb[n].i <= b + 1
                        ELSE /\ top <= sb[n].i /\ bot <= sb[n].i
                             /\ sb[n].i < b + 1
                             /\ sb[n].x = ownBuf[Slot(sb[n].i)]
    BY <1>1, <1>3, <1>4 DEF BufferRanged
  <2>1. sb[n].i \in Nat
    BY StoreAt
  <2> QED
    BY <2>1, <1>2, <1>3 DEF BufferRanged
<1>6. MemoryCatchesUp'
  <2>1. \A n \in 1 .. Len(sb) : n \in 1 .. Len(sb') /\ sb'[n] = sb[n]
    BY <1>4
  <2> QED
    BY <2>1, <1>1, <1>2, <1>3 DEF MemoryCatchesUp
<1>7. live' = {ownBuf[Slot(i)] : i \in top .. Limit - 1}'
  <2>1. top .. b = (top .. b - 1) \cup {b}
    BY <1>2, <1>3
  <2>2. live = {ownBuf[Slot(i)] : i \in top .. b - 1}
    BY <1>2, <1>3
  <2>3. live' = {ownBuf[Slot(i)] : i \in top .. b}
    BY <2>1, <2>2, <1>1, <1>3
  <2> QED
    BY <2>3, <1>1, <1>3
<1>8. IsFiniteSet(live') /\ Cardinality(live') = Limit' - top'
  <2>1. pushed + 1 \notin live
    <3>1. \A i \in top .. b - 1 : ownBuf[Slot(i)] \in 1 .. pushed
      BY <1>2, <1>3 DEF Sorted
    <3> QED
      BY <3>1, <1>2, <1>3
  <2>2. IsFiniteSet(live') /\ Cardinality(live') = Cardinality(live) + 1
    BY <2>1, <1>1, <1>2, FS_AddElement
  <2> QED
    BY <2>2, <1>1, <1>2, <1>3
<1>9. OwnerState'
  BY <1>1, <1>2, <1>3 DEF OwnerState
<1>10. Sorted'
  <2>1. \A i \in top .. b - 1 : ownBuf[Slot(i)] \in 1 .. pushed
    BY <1>2, <1>3 DEF Sorted
  <2>2. \A i, j \in top .. b - 1 : i < j => ownBuf[Slot(i)] < ownBuf[Slot(j)]
    BY <1>2, <1>3 DEF Sorted
  <2>3. \A i \in top .. b : ownBuf[Slot(i)] \in 1 .. pushed + 1
    BY <2>1, <1>3
  <2>4. \A i, j \in top .. b : i < j => ownBuf[Slot(i)] < ownBuf[Slot(j)]
    BY <2>1, <2>2, <1>3
  <2> QED
    BY <2>3, <2>4, <1>1, <1>3 DEF Sorted
<1>11. ThiefState'
  BY <1>1, <1>3, <1>4 DEF ThiefState
<1>12. top' <= Limit'
  BY <1>1, <1>2, <1>3
<1> QED
  BY <1>4, <1>5, <1>6, <1>7, <1>8, <1>9, <1>10, <1>11, <1>12 DEF OwnerSide

LEMMA PopReserveStep ==
  ASSUME TypeOK, OwnerSide, ThiefState, PopReserve
  PROVE  OwnerSide' /\ ThiefState'
<1>1. /\ opc = "idle" /\ opc' = "fence" /\ b > 0 /\ b' = b - 1
      /\ sb' = Append(sb, StoreBot(b - 1))
      /\ UNCHANGED <<top, bot, buf, ownBuf, tpc, tt, tx, live, pushed>>
  BY DEF PopReserve, thiefVars
<1>2. top <= Limit
      /\ live = {ownBuf[Slot(i)] : i \in top .. Limit - 1}
      /\ IsFiniteSet(live) /\ Cardinality(live) = Limit - top
      /\ BufferOrdered /\ BufferRanged /\ OwnerSeesLast /\ MemoryCatchesUp
      /\ OwnerState /\ Sorted
  BY DEF OwnerSide
<1>3. /\ Limit = b /\ Unpublished = b /\ Limit' = b /\ Unpublished' = b
      /\ top \in Nat /\ bot \in Nat /\ b \in Nat /\ pushed \in Nat
  BY <1>1 DEF TypeOK, Limit, Unpublished, Reserved
<1>4. /\ Len(sb) \in Nat /\ Len(sb') = Len(sb) + 1
      /\ \A n \in 1 .. Len(sb) : sb'[n] = sb[n]
      /\ sb'[Len(sb) + 1].at = "bot" /\ sb'[Len(sb) + 1].i = b - 1
      /\ BufferOrdered' /\ OwnerSeesLast'
  BY <1>1, <1>2, <1>3, StoreBotStep
<1>5. BufferRanged'
  BY <1>1, <1>2, <1>3, <1>4 DEF BufferRanged
<1>6. MemoryCatchesUp'
  <2>1. \A n \in 1 .. Len(sb) : n \in 1 .. Len(sb') /\ sb'[n] = sb[n]
    BY <1>4
  <2> QED
    BY <2>1, <1>1, <1>2, <1>3 DEF MemoryCatchesUp
<1>7. OwnerState' /\ Sorted'
  BY <1>1, <1>2, <1>3 DEF OwnerState, Sorted
<1>8. ThiefState'
  BY <1>1, <1>3, <1>4 DEF ThiefState
<1>9. live' = {ownBuf[Slot(i)] : i \in top .. Limit - 1}'
  BY <1>1, <1>2, <1>3
<1> QED
  BY <1>1, <1>2, <1>3, <1>4, <1>5, <1>6, <1>7, <1>8, <1>9 DEF OwnerSide

\* PopFence and PopLast only move the owner on; the buffer is empty.
LEMMA PopMoveStep ==
  ASSUME TypeOK, OwnerSide, ThiefState, PopFence \/ PopLast
  PROVE  OwnerSide' /\ ThiefState'
<1>1. /\ opc \in {"fence", "load"} /\ opc' \in {"load", "cas"} /\ sb = <<>>
      /\ opc' = "cas" => top = b
      /\ UNCHANGED <<top, bot, buf, sb, b, ownBuf, tpc, tt, tx, live, pushed>>
  BY DEF PopFence, PopLast, thiefVars, memVars, history, OwnerSide, OwnerState
<1>2. top <= Limit
      /\ live = {ownBuf[Slot(i)] : i \in top .. Limit - 1}
      /\ IsFiniteSet(live) /\ Cardinality(live) = Limit - top
      /\ BufferOrdered /\ BufferRanged /\ OwnerSeesLast /\ MemoryCatchesUp
      /\ OwnerState /\ Sorted
  BY DEF OwnerSide
<1>3. /\ Limit' = Limit /\ Unpublished' = Unpublished /\ top \in Nat /\ bot \in Nat /\ b \in Nat /\ pushed \in Nat
  BY <1>1 DEF TypeOK, Limit, Unpublished, Reserved
<1>4. BufferOrdered' /\ BufferRanged' /\ OwnerSeesLast' /\ MemoryCatchesUp'
  BY <1>1, <1>2, <1>3
     DEF BufferOrdered, BufferRanged, OwnerSeesLast, MemoryCatchesUp
<1>5. OwnerState' /\ Sorted'
  BY <1>1, <1>2, <1>3 DEF OwnerState, Sorted
<1>6. ThiefState'
  BY <1>1, <1>3 DEF ThiefState
<1>7. live' = {ownBuf[Slot(i)] : i \in top .. Limit - 1}'
  BY <1>1, <1>2, <1>3
<1> QED
  BY <1>1, <1>2, <1>3, <1>4, <1>5, <1>6, <1>7 DEF OwnerSide

LEMMA PopTakeStep ==
  ASSUME TypeOK, OwnerSide, ThiefState, PopTake
  PROVE  OwnerSide' /\ ThiefState'
<1>1. /\ opc = "load" /\ opc' = "idle" /\ top < b
      /\ live' = live \ {ownBuf[Slot(b)]}
      /\ UNCHANGED <<top, bot, buf, sb, b, ownBuf, tpc, tt, tx, pushed>>
  BY DEF PopTake, thiefVars, memVars
<1>2. top <= Limit
      /\ live = {ownBuf[Slot(i)] : i \in top .. Limit - 1}
      /\ IsFiniteSet(live) /\ Cardinality(live) = Limit - top
      /\ BufferOrdered /\ BufferRanged /\ OwnerSeesLast /\ MemoryCatchesUp
      /\ OwnerState /\ Sorted
  BY DEF OwnerSide
<1>3. /\ Limit = b + 1 /\ Unpublished = b + 1 /\ Limit' = b /\ Unpublished' = b
      /\ top \in Nat /\ bot \in Nat /\ b \in Nat /\ pushed \in Nat
  BY <1>1 DEF TypeOK, Limit, Unpublished, Reserved
<1>4. sb = <<>> /\ Len(sb) = 0 /\ bot = b
  <2>1. sb = <<>> /\ Len(sb) = 0
    BY <1>1, <1>2, EmptySeq DEF OwnerState
  <2> QED
    BY <2>1, <1>2 DEF OwnerSeesLast
<1>5. BufferOrdered' /\ BufferRanged' /\ OwnerSeesLast' /\ MemoryCatchesUp'
  BY <1>1, <1>2, <1>3, <1>4
     DEF BufferOrdered, BufferRanged, OwnerSeesLast, MemoryCatchesUp
<1>6. OwnerState'
  BY <1>1, <1>2, <1>3, <1>4, CapAssumption DEF OwnerState
<1>7. Sorted'
  BY <1>1, <1>2, <1>3 DEF Sorted
<1>8. live' = {ownBuf[Slot(i)] : i \in top .. Limit - 1}'
  <2>1. \A i \in top .. b - 1 : ownBuf[Slot(i)] # ownBuf[Slot(b)]
    BY <1>1, <1>2, <1>3 DEF Sorted
  <2>2. top .. b = (top .. b - 1) \cup {b}
    BY <1>1, <1>3
  <2>3. live = {ownBuf[Slot(i)] : i \in top .. b}
    BY <1>2, <1>3
  <2>4. live' = {ownBuf[Slot(i)] : i \in top .. b - 1}
    BY <2>1, <2>2, <2>3, <1>1
  <2> QED
    BY <2>4, <1>1, <1>3
<1>9. IsFiniteSet(live') /\ Cardinality(live') = Limit' - top'
  <2>1. ownBuf[Slot(b)] \in live
    BY <1>1, <1>2, <1>3
  <2>2. IsFiniteSet(live') /\ Cardinality(live') = Cardinality(live) - 1
    BY <2>1, <1>1, <1>2, FS_RemoveElement
  <2> QED
    BY <2>2, <1>1, <1>2, <1>3
<1>10. ThiefState'
  BY <1>1, <1>3 DEF ThiefState
<1>11. top' <= Limit'
  BY <1>1, <1>3
<1> QED
  BY <1>5, <1>6, <1>7, <1>8, <1>9, <1>10, <1>11 DEF OwnerSide

\* PopNone, PopWin and PopLose all leave an empty deque with bot put back.
LEMMA PopEmptiedStep ==
  ASSUME TypeOK, OwnerSide, ThiefState, PopNone \/ PopWin \/ PopLose
  PROVE  OwnerSide' /\ ThiefState' /\ live' = {}
<1>1. top <= Limit
      /\ live = {ownBuf[Slot(i)] : i \in top .. Limit - 1}
      /\ IsFiniteSet(live) /\ Cardinality(live) = Limit - top
      /\ BufferOrdered /\ BufferRanged /\ OwnerSeesLast /\ MemoryCatchesUp
      /\ OwnerState /\ Sorted
  BY DEF OwnerSide
<1>2. /\ Limit = b + 1 /\ Limit' = b' /\ Unpublished' = b' /\ top \in Nat /\ bot \in Nat /\ b \in Nat /\ pushed \in Nat
      /\ Limit \in Nat
  BY DEF TypeOK, Limit, Unpublished, Reserved, PopNone, PopWin, PopLose, PopCasEnd
<1>3. sb = <<>> /\ Len(sb) = 0
  BY <1>1, EmptySeq DEF OwnerState, PopNone, PopWin, PopLose, PopCasEnd
<1>4. bot = b
  BY <1>1, <1>3 DEF OwnerSeesLast
<1>5. /\ opc' = "idle" /\ b' = b + 1 /\ top' = b + 1
      /\ sb' = Append(sb, StoreBot(b + 1))
      /\ UNCHANGED <<bot, buf, ownBuf, tpc, tt, tx, pushed>>
  <2>1. CASE PopNone
    <3>1. top = b + 1
      BY <2>1, <1>1, <1>2 DEF PopNone
    <3> QED
      BY <3>1, <2>1 DEF PopNone, thiefVars
  <2>2. CASE PopWin
    BY <2>2 DEF PopWin, PopCasEnd, thiefVars
  <2>3. CASE PopLose
    <3>1. top = b + 1
      BY <2>3, <1>1, <1>2 DEF PopLose, PopCasEnd, OwnerState
    <3> QED
      BY <3>1, <2>3 DEF PopLose, PopCasEnd, thiefVars
  <2> QED
    BY <2>1, <2>2, <2>3
<1>6. live' = {}
  <2>1. CASE PopNone \/ PopLose
    <3>1. top = b + 1 /\ live' = live
      BY <2>1, <1>5 DEF PopNone, PopLose
    <3> QED
      BY <3>1, <1>1, <1>2
  <2>2. CASE PopWin
    <3>1. top = b /\ live' = live \ {ownBuf[Slot(b)]}
      BY <2>2 DEF PopWin
    <3>2. live = {ownBuf[Slot(b)]}
      BY <3>1, <1>1, <1>2
    <3> QED
      BY <3>1, <3>2
  <2> QED
    BY <2>1, <2>2
<1>7. /\ Len(sb') = 1 /\ sb'[1].at = "bot" /\ sb'[1].i = b + 1
      /\ BufferOrdered' /\ OwnerSeesLast'
  BY <1>1, <1>2, <1>3, <1>5, StoreBotStep
<1>8. BufferRanged' /\ MemoryCatchesUp' /\ Sorted'
  BY <1>2, <1>4, <1>5, <1>7 DEF BufferRanged, MemoryCatchesUp, Sorted
<1>9. OwnerState'
  BY <1>2, <1>4, <1>5, CapAssumption DEF OwnerState
<1>10. ThiefState'
  <2>1. ASSUME NEW p \in Thief, tpc[p] \in {"read", "cas"} PROVE tt[p] # top'
    <3>1. tt[p] \in Nat /\ tt[p] <= top /\ (tt[p] = top => tt[p] < Limit)
      BY <2>1 DEF ThiefState, TypeOK
    <3> QED
      BY <3>1, <1>1, <1>2, <1>5
  <2>2. ASSUME NEW p \in Thief, tpc[p] # "idle" PROVE tt[p] <= top'
    BY <2>2, <1>1, <1>2, <1>5 DEF ThiefState, TypeOK
  <2> QED
    BY <2>1, <2>2, <1>5 DEF ThiefState
<1>11. IsFiniteSet(live') /\ Cardinality(live') = Limit' - top'
  BY <1>2, <1>5, <1>6, FS_EmptySet
<1>12. live' = {ownBuf[Slot(i)] : i \in top .. Limit - 1}'
  BY <1>2, <1>5, <1>6
<1>13. top' <= Limit'
  BY <1>2, <1>5
<1> QED
  BY <1>6, <1>7, <1>8, <1>9, <1>10, <1>11, <1>12, <1>13 DEF OwnerSide

LEMMA IInvStep == IInv /\ [Next]_vars => IInv'
<1> SUFFICES ASSUME IInv, [Next]_vars PROVE IInv'
  OBVIOUS
<1>1. TypeOK /\ OwnerSide /\ ThiefState
  BY DEF IInv, OwnerSide
<1>2. TypeOK'
  BY <1>1, TypeStep
<1>3. OwnerSide' /\ ThiefState'
  <2>1. CASE FlushBuf
    BY <2>1, <1>1, FlushBufStep
  <2>2. CASE FlushBot
    BY <2>2, <1>1, FlushBotStep
  <2>3. CASE PushFull \/ PopZero \/ UNCHANGED vars
    <3>1. UNCHANGED <<top, memVars, ownerVars, thiefVars, live, pushed>>
      BY <2>3 DEF PushFull, PopZero, vars, history
    <3>2. UNCHANGED <<top, buf, sb, ownBuf, tpc, tt, tx, Limit>>
      BY <3>1 DEF memVars, ownerVars, thiefVars, Limit, Reserved
    <3> QED
      BY <3>1, <3>2, <1>1, OwnerSideStutter, ThiefStateStutter
  <2>4. CASE PushItem
    BY <2>4, <1>1, PushItemStep
  <2>5. CASE PushPublish
    BY <2>5, <1>1, PushPublishStep
  <2>6. CASE PopReserve
    BY <2>6, <1>1, PopReserveStep
  <2>7. CASE PopFence \/ PopLast
    BY <2>7, <1>1, PopMoveStep
  <2>8. CASE PopTake
    BY <2>8, <1>1, PopTakeStep
  <2>9. CASE PopNone \/ PopWin \/ PopLose
    BY <2>9, <1>1, PopEmptiedStep
  <2>10. CASE \E p \in Thief : ThiefNext(p)
    BY <2>10, <1>1, ThiefSteps, StealWinStep DEF ThiefNext
  <2> QED
    BY <2>1, <2>2, <2>3, <2>4, <2>5, <2>6, <2>7, <2>8, <2>9, <2>10
       DEF Next, OwnerNext
<1> QED
  BY <1>2, <1>3 DEF IInv, OwnerSide

\* The invariant holds of every run: any capacity, any number of thieves, a
\* store buffer of any length, every interleaving of wsq.c's accesses.
THEOREM Invariance == Spec => []IInv
  BY IInvInit, IInvStep, PTL DEF Spec

\* No task pushed is lost or handed out twice by wsq_pop and wsq_steal.
THEOREM HoldsLive == Spec => []DequeHoldsLive
<1>1. IInv => DequeHoldsLive
  <2> SUFFICES ASSUME IInv PROVE DequeHoldsLive
    OBVIOUS
  <2>1. /\ top \in Nat /\ Limit \in Nat /\ Unpublished >= Limit
        /\ Unpublished \in Nat /\ Cap \in Nat
    BY CapAssumption DEF IInv, TypeOK, Limit, Unpublished, Reserved
  <2>2. top <= Limit /\ Unpublished - top <= Cap
    BY DEF IInv, OwnerState
  <2>3. \A i \in top .. Limit - 1 : ownBuf[Slot(i)] \in Nat
    BY DEF IInv, Sorted
  <2>4. ASSUME NEW i \in top .. Limit - 1, NEW j \in top .. Limit - 1,
               ownBuf[Slot(i)] = ownBuf[Slot(j)]
        PROVE  i = j
    <3>1. ~(i < j) /\ ~(j < i)
      BY <2>3, <2>4 DEF IInv, Sorted
    <3> QED
      BY <3>1, <2>1
  <2> QED
    BY <2>1, <2>2, <2>4 DEF IInv, DequeHoldsLive
<1> QED
  BY <1>1, Invariance, PTL

\* A thief about to win its compare-and-swap in wsq_steal holds the oldest task.
THEOREM StealsOldest == Spec => []StealSound
<1>1. IInv => StealSound
  <2> SUFFICES ASSUME IInv, NEW p \in Thief, tpc[p] = "cas", top = tt[p]
               PROVE  tx[p] \in live /\ \A y \in live : tx[p] <= y
    BY DEF StealSound
  <2>1. top \in Nat /\ Limit \in Nat /\ top < Limit /\ tx[p] = ownBuf[Slot(top)]
    BY DEF IInv, ThiefState, TypeOK, Limit, Reserved
  <2>2. live = {ownBuf[Slot(i)] : i \in top .. Limit - 1}
    BY DEF IInv
  <2>3. \A i \in top .. Limit - 1 : ownBuf[Slot(i)] \in Nat
    BY DEF IInv, Sorted
  <2>4. ASSUME NEW i \in top .. Limit - 1 PROVE tx[p] <= ownBuf[Slot(i)]
    <3>1. CASE i = top
      BY <3>1, <2>1, <2>3
    <3>2. CASE top < i
      <4>1. ownBuf[Slot(top)] < ownBuf[Slot(i)]
        BY <3>2, <2>1 DEF IInv, Sorted
      <4>2. top \in top .. Limit - 1
        BY <2>1
      <4> QED
        BY <4>1, <4>2, <2>1, <2>3
    <3> QED
      BY <3>1, <3>2, <2>1
  <2> QED
    BY <2>1, <2>2, <2>4
<1> QED
  BY <1>1, Invariance, PTL

\* TaskBag brings its own copy of FiniteSets.
LEMMA BagCardinality == \A S : Bag!Cardinality(S) = Cardinality(S)
BY DEF Cardinality, Bag!Cardinality, IsFiniteSet, Bag!IsFiniteSet

\* The deque implements the bag of TaskBag: wsq.c is linearizable.
THEOREM Implements == Spec => Linearizable
<1>1. Init => Bag!BagInit
  BY DEF Init
<1>2. IInv /\ IInv' /\ [Next]_vars => [Bag!BagNext]_(Bag!bagVars)
  <2> SUFFICES ASSUME IInv, [Next]_vars PROVE [Bag!BagNext]_(Bag!bagVars)
    OBVIOUS
  <2> USE DEF Answer, history, Bag!Proc
  <2>0. TypeOK /\ OwnerSide /\ ThiefState
    BY DEF IInv, OwnerSide
  <2>1. CASE PushFull
    <3>1. Cardinality(live) = Cap
      BY <2>1, <2>0, CapAssumption
         DEF PushFull, OwnerSide, OwnerState, Unpublished, Limit, Reserved, TypeOK
    <3>2. Bag!AddRefused
      BY <3>1, <2>1, BagCardinality DEF PushFull, Bag!AddRefused
    <3> QED
      BY <3>2 DEF Bag!BagNext
  <2>2. CASE PushPublish
    <3>1. Cardinality(live) < Cap /\ pushed < MaxPush
      BY <2>2, <2>0, CapAssumption
         DEF PushPublish, OwnerSide, OwnerState, Unpublished, Limit, Reserved, TypeOK
    <3>2. Bag!Add
      BY <3>1, <2>2, BagCardinality DEF PushPublish, Bag!Add
    <3> QED
      BY <3>2 DEF Bag!BagNext
  <2>3. CASE PushItem \/ PopReserve
    <3>1. Bag!Call(Owner)
      BY <2>3 DEF PushItem, PopReserve, Bag!Call
    <3> QED
      BY <3>1 DEF Bag!BagNext
  <2>4. CASE PopZero \/ PopNone \/ PopLose
    <3>1. live' = live
      BY <2>4 DEF PopZero, PopNone, PopLose
    <3>2. ASSUME PopZero
          PROVE  live' = {}
      <4>1. top \in Nat /\ Limit = 0
        BY <2>0, <3>2 DEF PopZero, Limit, Reserved, TypeOK
      <4>2. top .. Limit - 1 = {}
        BY <4>1
      <4>3. live = {ownBuf[Slot(i)] : i \in top .. Limit - 1}
        BY <2>0 DEF OwnerSide
      <4> QED
        BY <3>1, <4>2, <4>3
    <3>3. ASSUME PopNone \/ PopLose
          PROVE  live' = {}
      BY <2>0, <3>3, PopEmptiedStep
    <3>4. live' = {} /\ live' = live
      BY <2>4, <3>1, <3>2, <3>3
    <3>5. Bag!RemoveRefused(Owner)
      BY <3>4, <2>4 DEF PopZero, PopNone, PopLose, PopCasEnd, Bag!RemoveRefused
    <3> QED
      BY <3>5 DEF Bag!BagNext
  <2>5. CASE PopTake \/ PopWin
    <3>1. ownBuf[Slot(b)] \in live
      BY <2>5, <2>0
         DEF PopTake, PopWin, PopCasEnd, OwnerSide, Limit, Reserved, TypeOK
    <3>2. Bag!Remove(Owner)
      BY <3>1, <2>5 DEF PopTake, PopWin, PopCasEnd, Bag!Remove
    <3> QED
      BY <3>2 DEF Bag!BagNext
  <2>6. ASSUME NEW p \in Thief, StealTop(p) PROVE Bag!BagNext
    <3>1. Bag!Call(p)
      BY <2>6 DEF StealTop, Bag!Call
    <3> QED
      BY <3>1 DEF Bag!BagNext
  <2>7. ASSUME NEW p \in Thief, StealNone(p) \/ StealLose(p) PROVE Bag!BagNext
    <3>1. p # Owner
      BY OwnerAssumption
    <3>2. Bag!RemoveRefused(p)
      BY <3>1, <2>7 DEF StealNone, StealLose, Bag!RemoveRefused
    <3> QED
      BY <3>2 DEF Bag!BagNext
  <2>8. ASSUME NEW p \in Thief, StealWin(p) PROVE Bag!BagNext
    <3>1. tx[p] \in live
      <4>1. tx[p] = ownBuf[Slot(top)] /\ top \in top .. Limit - 1
        BY <2>8, <2>0 DEF StealWin, ThiefState, TypeOK, Limit, Reserved
      <4> QED
        BY <4>1, <2>0 DEF OwnerSide
    <3>2. Bag!Remove(p)
      BY <3>1, <2>8 DEF StealWin, Bag!Remove
    <3> QED
      BY <3>2 DEF Bag!BagNext
  <2>9. ASSUME \/ FlushBuf \/ FlushBot \/ PopFence \/ PopLast \/ UNCHANGED vars
               \/ \E p \in Thief : StealSome(p) \/ StealRead(p)
        PROVE  UNCHANGED Bag!bagVars
    BY <2>9 DEF FlushBuf, FlushBot, PopFence, PopLast, StealSome, StealRead,
                vars, Bag!bagVars
  <2> QED
    BY <2>1, <2>2, <2>3, <2>4, <2>5, <2>6, <2>7, <2>8, <2>9
       DEF Next, OwnerNext, ThiefNext
<1> QED
  BY <1>1, <1>2, Invariance, PTL DEF Spec, Linearizable, Bag!BagSpec
=============================================================================
