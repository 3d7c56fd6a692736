----------------------------- MODULE SpscProofs -----------------------------
(***************************************************************************)
(* Proofs about Spsc for every capacity and every set of elements.          *)
(*                                                                          *)
(* The argument is that the five positions stay in circular order           *)
(*      pHead <= head <= cTail <= tail,    tail - pHead <= Cap              *)
(* whatever is stale, and that live is exactly the slots of the positions   *)
(* from Lo to Hi, where Lo is the position the next read or drop will use   *)
(* and Hi the one after the last write.                                     *)
(***************************************************************************)
EXTENDS Spsc, SequenceTheorems, TLAPS

(* Cells documented as always in sync with the atomics are. *)
Sync == pTail = tail /\ cHead = head

(* The cells that may be stale lag behind, by no more than the ring holds. *)
Lag ==
  /\ Distance(pHead, tail) <= Cap
  /\ Distance(head, tail) <= Distance(pHead, tail)
  /\ Distance(head, cTail) <= Distance(head, tail)

(* What each side has established when it is in the middle of a call. *)
ProducerAt ==
  /\ pPc = "refresh" => Distance(pHead, tail) = Cap
  /\ pPc \in {"write", "publish"} => Distance(pHead, tail) < Cap
  /\ pPc \in {"refresh", "write", "publish"} => pVal \in Values
  /\ pPc = "publish" => buffer[Slot(tail)] = pVal
  /\ pRes = "len" => Distance(pHead, tail) <= pLen

ConsumerAt ==
  /\ cPc \in {"refresh", "wait"} => cTail = head
  /\ cPc \in {"read", "advance"} => cTail # head
  /\ cPc = "advance" => cVal = buffer[Slot(head)]
  /\ cRes = "len" => cLen <= Distance(head, cTail)
  /\ cRes = "nonempty" => cTail # head

DropAt ==
  /\ dPc # "no" => /\ pPc = "dropped" /\ cPc = "dropped"
                   /\ Distance(dHead, tail) <= Distance(head, tail)
  /\ dPc = "freed" => dHead = tail

Lo == IF dPc # "no" THEN dHead ELSE IF cPc = "advance" THEN Increment(head) ELSE head
Hi == IF pPc = "publish" THEN Increment(tail) ELSE tail

(* live is the slots of the positions from Lo to Hi.  A window of Cap       *)
(* positions from Lo names every slot once.                                 *)
LiveAt ==
  \A x \in Pos : Distance(Lo, x) < Cap =>
                   (Slot(x) \in live <=> Distance(Lo, x) < Distance(Lo, Hi))

IInv == TypeOK /\ Sync /\ Lag /\ ProducerAt /\ ConsumerAt /\ DropAt /\ LiveAt

-----------------------------------------------------------------------------
(* The operators *)

(* Positions stay in range: slot() never leaves the buffer, increment() and *)
(* distance() never leave 0 .. 2*cap.                                       *)
LEMMA PosType ==
  ASSUME NEW a \in Pos, NEW b \in Pos
  PROVE  Slot(a) \in Slots /\ Increment(a) \in Pos /\ Distance(a, b) \in Pos
BY CapAssumption DEF Pos, Slots, Slot, Increment, Distance

(* In a window of Cap positions no two share a slot. *)
LEMMA SlotWindow ==
  ASSUME NEW a \in Pos, NEW x \in Pos, NEW y \in Pos,
         Distance(a, x) < Cap, Distance(a, y) < Cap, Slot(x) = Slot(y)
  PROVE  x = y
BY CapAssumption DEF Pos, Slot, Distance

(* A load may only move a stale cell towards the current position. *)
LEMMA BetweenLag ==
  ASSUME NEW a \in Pos, NEW b \in Pos, NEW c \in Pos, NEW x \in Between(a, b),
         Distance(b, c) <= Distance(a, c)
  PROVE  /\ x \in Pos
         /\ Distance(b, c) <= Distance(x, c)
         /\ Distance(x, c) <= Distance(a, c)
BY CapAssumption DEF Pos, Distance, Between

-----------------------------------------------------------------------------
(* Each action preserves the invariant. *)

(* push() starts: its first check decides between refreshing and writing. *)
LEMMA PushBeginInv ==
  ASSUME IInv, NEW v \in Values, PushBegin(v)
  PROVE  IInv'
<1> USE CapAssumption DEF IInv, pVars, cVars, dVars, PushBegin
<1>1. TypeOK'
  BY DEF TypeOK, Sync, Lag, Pos, Slots, Slot, Increment, Distance
<1>2. ProducerAt'
  BY DEF TypeOK, Sync, Lag, ProducerAt, Pos, Slots, Slot, Increment, Distance
<1>3. (Sync /\ Lag /\ ConsumerAt /\ DropAt /\ LiveAt)'
  BY DEF TypeOK, Sync, Lag, ConsumerAt, DropAt, LiveAt, Lo, Hi
<1> QED  BY <1>1, <1>2, <1>3

(* push() refreshes its copy of head: the copy only moves forward. *)
LEMMA PushRefreshInv ==
  ASSUME IInv, PushRefresh
  PROVE  IInv'
<1> USE CapAssumption DEF IInv, pVars, cVars, dVars, PushRefresh, Between
<1>1. TypeOK'
  BY DEF TypeOK, Sync, Lag, Pos, Slots, Slot, Increment, Distance
<1>2. (Sync /\ Lag)'
  BY DEF TypeOK, Sync, Lag, ProducerAt, ConsumerAt, Pos, Increment, Distance
<1>3. ProducerAt'
  BY DEF TypeOK, Sync, Lag, ProducerAt, Pos, Slots, Slot, Increment, Distance
<1>4. (ConsumerAt /\ DropAt /\ LiveAt)'
  BY DEF TypeOK, ConsumerAt, DropAt, LiveAt, Lo, Hi
<1> QED  BY <1>1, <1>2, <1>3, <1>4

(* push() writes: the slot it takes is the first one past the window. *)
LEMMA PushWriteInv ==
  ASSUME IInv, PushWrite
  PROVE  IInv'
<1> USE CapAssumption DEF IInv, pVars, cVars, dVars, PushWrite
<1>1. TypeOK'
  BY DEF TypeOK, Sync, Lag, Pos, Slots, Slot, Increment, Distance
<1>2. ProducerAt'
  BY DEF TypeOK, Sync, Lag, ProducerAt, Pos, Slots, Slot, Increment, Distance
<1>3. ConsumerAt'
  BY DEF TypeOK, Sync, Lag, ProducerAt, ConsumerAt, Pos, Slots, Slot, Increment, Distance
<1>4. LiveAt'
  <2>1. /\ Lo' = Lo /\ Lo \in Pos /\ Hi = tail /\ tail \in Pos /\ Hi' = Increment(tail)
        /\ Distance(Lo, tail) < Cap
        /\ live' = live \cup {Slot(tail)}
    BY DEF TypeOK, Sync, Lag, ProducerAt, ConsumerAt, DropAt, Lo, Hi, Pos, Increment,
       Distance
  <2>2. Distance(Lo, Hi') = Distance(Lo, Hi) + 1
    BY <2>1 DEF Pos, Increment, Distance
  <2> SUFFICES ASSUME NEW x \in Pos, Distance(Lo, x) < Cap
               PROVE  Slot(x) \in live' <=> Distance(Lo, x) < Distance(Lo, Hi')
    BY <2>1 DEF LiveAt
  <2>3. CASE x = tail
    BY <2>1, <2>2, <2>3 DEF Pos, Increment, Distance
  <2>4. CASE x # tail
    <3>1. Slot(x) # Slot(tail)
      BY <2>1, <2>4, SlotWindow
    <3>2. Distance(Lo, x) # Distance(Lo, tail)
      BY <2>1, <2>4 DEF Pos, Increment, Distance
    <3>3. Distance(Lo, x) \in Nat /\ Distance(Lo, tail) \in Nat
      BY <2>1 DEF Pos, Increment, Distance
    <3> QED  BY <2>1, <2>2, <3>1, <3>2, <3>3 DEF LiveAt
  <2> QED  BY <2>3, <2>4
<1>5. (Sync /\ Lag /\ DropAt)'
  BY DEF TypeOK, Sync, Lag, DropAt
<1> QED  BY <1>1, <1>2, <1>3, <1>4, <1>5

(* push() publishes: the window the consumer sees grows to the slot written. *)
LEMMA PushPublishInv ==
  ASSUME IInv, PushPublish
  PROVE  IInv'
<1> USE CapAssumption DEF IInv, pVars, cVars, dVars, PushPublish
<1>1. TypeOK'
  BY DEF TypeOK, Sync, Lag, Pos, Slots, Slot, Increment, Distance
<1>2. (Sync /\ Lag)'
  BY DEF TypeOK, Sync, Lag, ProducerAt, ConsumerAt, Pos, Increment, Distance
<1>3. ProducerAt'
  BY DEF TypeOK, Sync, Lag, ProducerAt, Pos, Slots, Slot, Increment, Distance
<1>4. ConsumerAt'
  BY DEF TypeOK, Sync, Lag, ProducerAt, ConsumerAt, Pos, Slots, Slot, Increment, Distance
<1>5. DropAt'
  BY DEF TypeOK, Sync, Lag, DropAt, Pos, Increment, Distance
<1>6. LiveAt'
  <2>1. Lo' = Lo /\ Hi' = Hi /\ live' = live
    BY DEF TypeOK, Sync, ConsumerAt, DropAt, Lo, Hi
  <2> QED  BY <2>1 DEF LiveAt
<1> QED  BY <1>1, <1>2, <1>3, <1>4, <1>5, <1>6

(* The producer's len() refreshes its copy of head and keeps the answer. *)
LEMMA ProducerLenInv ==
  ASSUME IInv, ProducerLen
  PROVE  IInv'
<1> USE CapAssumption DEF IInv, pVars, cVars, dVars, ProducerLen, Between
<1>1. TypeOK'
  BY DEF TypeOK, Sync, Lag, Pos, Slots, Slot, Increment, Distance
<1>2. (Sync /\ Lag)'
  BY DEF TypeOK, Sync, Lag, ProducerAt, ConsumerAt, Pos, Increment, Distance
<1>3. ProducerAt'
  BY DEF TypeOK, Sync, Lag, ProducerAt, Pos, Slots, Slot, Increment, Distance
<1>4. (ConsumerAt /\ DropAt /\ LiveAt)'
  BY DEF TypeOK, ConsumerAt, DropAt, LiveAt, Lo, Hi
<1> QED  BY <1>1, <1>2, <1>3, <1>4

(* The producer goes away between two calls. *)
LEMMA ProducerDropInv ==
  ASSUME IInv, ProducerDrop
  PROVE  IInv'
<1> USE CapAssumption DEF IInv, pVars, cVars, dVars, ProducerDrop
<1>1. TypeOK'
  BY DEF TypeOK, Sync, Lag, Pos, Slots, Slot, Increment, Distance
<1>2. ProducerAt'
  BY DEF TypeOK, Sync, Lag, ProducerAt, Pos, Slots, Slot, Increment, Distance
<1>3. DropAt'
  BY DEF TypeOK, Sync, Lag, DropAt, Pos, Increment, Distance
<1>4. LiveAt'
  <2>1. Lo' = Lo /\ Hi' = Hi /\ live' = live
    BY DEF TypeOK, Sync, ConsumerAt, DropAt, Lo, Hi
  <2> QED  BY <2>1 DEF LiveAt
<1>5. (Sync /\ Lag /\ ConsumerAt)'
  BY DEF TypeOK, Sync, Lag, ConsumerAt
<1> QED  BY <1>1, <1>2, <1>3, <1>4, <1>5

(* pop() starts: its first check decides between refreshing and reading. *)
LEMMA PopBeginInv ==
  ASSUME IInv, PopBegin
  PROVE  IInv'
<1> USE CapAssumption DEF IInv, pVars, cVars, dVars, PopBegin
<1>1. TypeOK'
  BY DEF TypeOK, Sync, Lag, Pos, Slots, Slot, Increment, Distance
<1>2. ConsumerAt'
  BY DEF TypeOK, Sync, Lag, ProducerAt, ConsumerAt, Pos, Slots, Slot, Increment, Distance
<1>3. (Sync /\ Lag /\ ProducerAt /\ DropAt /\ LiveAt)'
  BY DEF TypeOK, Sync, Lag, ProducerAt, DropAt, LiveAt, Lo, Hi
<1> QED  BY <1>1, <1>2, <1>3

(* pop() refreshes its copy of tail: the copy stays between head and tail. *)
LEMMA PopRefreshInv ==
  ASSUME IInv, PopRefresh
  PROVE  IInv'
<1> USE CapAssumption DEF IInv, pVars, cVars, dVars, PopRefresh, Between
<1>1. TypeOK'
  BY DEF TypeOK, Sync, Lag, Pos, Slots, Slot, Increment, Distance
<1>2. (Sync /\ Lag)'
  BY DEF TypeOK, Sync, Lag, ProducerAt, ConsumerAt, Pos, Increment, Distance
<1>3. ConsumerAt'
  BY DEF TypeOK, Sync, Lag, ProducerAt, ConsumerAt, Pos, Slots, Slot, Increment, Distance
<1>4. (ProducerAt /\ DropAt /\ LiveAt)'
  BY DEF TypeOK, ProducerAt, DropAt, LiveAt, Lo, Hi
<1> QED  BY <1>1, <1>2, <1>3, <1>4

(* pop() moves the value out of the first slot of the window. *)
LEMMA PopReadInv ==
  ASSUME IInv, PopRead
  PROVE  IInv'
<1> USE CapAssumption DEF IInv, pVars, cVars, dVars, PopRead
<1>1. TypeOK'
  BY DEF TypeOK, Sync, Lag, Pos, Slots, Slot, Increment, Distance
<1>2. ConsumerAt'
  BY DEF TypeOK, Sync, Lag, ProducerAt, ConsumerAt, Pos, Slots, Slot, Increment, Distance
<1>3. LiveAt'
  BY DEF TypeOK, Sync, Lag, ProducerAt, ConsumerAt, DropAt, LiveAt, Lo, Hi, Pos, Slots,
     Slot, Increment, Distance
<1>4. (Sync /\ Lag /\ ProducerAt /\ DropAt)'
  BY DEF TypeOK, Sync, Lag, ProducerAt, DropAt
<1> QED  BY <1>1, <1>2, <1>3, <1>4

(* pop() publishes: the slot read is free for the producer. *)
LEMMA PopAdvanceInv ==
  ASSUME IInv, PopAdvance
  PROVE  IInv'
<1> USE CapAssumption DEF IInv, pVars, cVars, dVars, PopAdvance
<1>1. TypeOK'
  BY DEF TypeOK, Sync, Lag, Pos, Slots, Slot, Increment, Distance
<1>2. (Sync /\ Lag)'
  BY DEF TypeOK, Sync, Lag, ProducerAt, ConsumerAt, Pos, Increment, Distance
<1>3. ConsumerAt'
  BY DEF TypeOK, Sync, Lag, ProducerAt, ConsumerAt, Pos, Slots, Slot, Increment, Distance
<1>4. DropAt'
  BY DEF TypeOK, Sync, Lag, DropAt, Pos, Increment, Distance
<1>5. LiveAt'
  <2>1. Lo' = Lo /\ Hi' = Hi /\ live' = live
    BY DEF TypeOK, Sync, ConsumerAt, DropAt, Lo, Hi
  <2> QED  BY <2>1 DEF LiveAt
<1>6. (ProducerAt)'
  BY DEF TypeOK, ProducerAt
<1> QED  BY <1>1, <1>2, <1>3, <1>4, <1>5, <1>6

(* The consumer's len() refreshes its copy of tail and keeps the answer. *)
LEMMA ConsumerLenInv ==
  ASSUME IInv, ConsumerLen
  PROVE  IInv'
<1> USE CapAssumption DEF IInv, pVars, cVars, dVars, ConsumerLen, Between
<1>1. TypeOK'
  BY DEF TypeOK, Sync, Lag, Pos, Slots, Slot, Increment, Distance
<1>2. (Sync /\ Lag)'
  BY DEF TypeOK, Sync, Lag, ProducerAt, ConsumerAt, Pos, Increment, Distance
<1>3. ConsumerAt'
  BY DEF TypeOK, Sync, Lag, ProducerAt, ConsumerAt, Pos, Slots, Slot, Increment, Distance
<1>4. (ProducerAt /\ DropAt /\ LiveAt)'
  BY DEF TypeOK, ProducerAt, DropAt, LiveAt, Lo, Hi
<1> QED  BY <1>1, <1>2, <1>3, <1>4

(* is_empty() answers from the cells or from a fresh load. *)
LEMMA ConsumerIsEmptyInv ==
  ASSUME IInv, ConsumerIsEmpty
  PROVE  IInv'
<1> USE CapAssumption DEF IInv, pVars, cVars, dVars, ConsumerIsEmpty, Between
<1>1. TypeOK'
  BY DEF TypeOK, Sync, Lag, Pos, Slots, Slot, Increment, Distance
<1>2. (Sync /\ Lag)'
  BY DEF TypeOK, Sync, Lag, ProducerAt, ConsumerAt, Pos, Increment, Distance
<1>3. ConsumerAt'
  BY DEF TypeOK, Sync, Lag, ProducerAt, ConsumerAt, Pos, Slots, Slot, Increment, Distance
<1>4. (ProducerAt /\ DropAt /\ LiveAt)'
  BY DEF TypeOK, ProducerAt, DropAt, LiveAt, Lo, Hi
<1> QED  BY <1>1, <1>2, <1>3, <1>4

(* wait() finds nothing: it may only spin while its copies are equal. *)
LEMMA WaitMissInv ==
  ASSUME IInv, WaitMiss
  PROVE  IInv'
<1> USE CapAssumption DEF IInv, pVars, cVars, dVars, WaitMiss, Between
<1>1. TypeOK'
  BY DEF TypeOK, Sync, Lag, Pos, Slots, Slot, Increment, Distance
<1>2. ConsumerAt'
  BY DEF TypeOK, Sync, Lag, ProducerAt, ConsumerAt, Pos, Slots, Slot, Increment, Distance
<1>3. (Sync /\ Lag /\ ProducerAt /\ DropAt /\ LiveAt)'
  BY DEF TypeOK, Sync, Lag, ProducerAt, DropAt, LiveAt, Lo, Hi
<1> QED  BY <1>1, <1>2, <1>3

(* wait() returns with a copy of tail that differs from head. *)
LEMMA WaitHitInv ==
  ASSUME IInv, WaitHit
  PROVE  IInv'
<1> USE CapAssumption DEF IInv, pVars, cVars, dVars, WaitHit, Between
<1>1. TypeOK'
  BY DEF TypeOK, Sync, Lag, Pos, Slots, Slot, Increment, Distance
<1>2. (Sync /\ Lag)'
  BY DEF TypeOK, Sync, Lag, ProducerAt, ConsumerAt, Pos, Increment, Distance
<1>3. ConsumerAt'
  BY DEF TypeOK, Sync, Lag, ProducerAt, ConsumerAt, Pos, Slots, Slot, Increment, Distance
<1>4. (ProducerAt /\ DropAt /\ LiveAt)'
  BY DEF TypeOK, ProducerAt, DropAt, LiveAt, Lo, Hi
<1> QED  BY <1>1, <1>2, <1>3, <1>4

(* The consumer goes away between two calls. *)
LEMMA ConsumerDropInv ==
  ASSUME IInv, ConsumerDrop
  PROVE  IInv'
<1> USE CapAssumption DEF IInv, pVars, cVars, dVars, ConsumerDrop
<1>1. TypeOK'
  BY DEF TypeOK, Sync, Lag, Pos, Slots, Slot, Increment, Distance
<1>2. ConsumerAt'
  BY DEF TypeOK, Sync, Lag, ProducerAt, ConsumerAt, Pos, Slots, Slot, Increment, Distance
<1>3. DropAt'
  BY DEF TypeOK, Sync, Lag, DropAt, Pos, Increment, Distance
<1>4. (Sync /\ Lag /\ ProducerAt /\ LiveAt)'
  BY DEF TypeOK, Sync, Lag, ProducerAt, LiveAt, Lo, Hi
<1> QED  BY <1>1, <1>2, <1>3, <1>4

(* The last owner starts to drop what is left at head. *)
LEMMA DropBeginInv ==
  ASSUME IInv, DropBegin
  PROVE  IInv'
<1> USE CapAssumption DEF IInv, pVars, cVars, dVars, DropBegin
<1>1. TypeOK'
  BY DEF TypeOK, Sync, Lag, Pos, Slots, Slot, Increment, Distance
<1>2. DropAt'
  BY DEF TypeOK, Sync, Lag, DropAt, Pos, Increment, Distance
<1>3. LiveAt'
  <2>1. Lo' = Lo /\ Hi' = Hi /\ live' = live
    BY DEF TypeOK, Sync, ConsumerAt, DropAt, Lo, Hi
  <2> QED  BY <2>1 DEF LiveAt
<1>4. (Sync /\ Lag /\ ProducerAt /\ ConsumerAt)'
  BY DEF TypeOK, Sync, Lag, ProducerAt, ConsumerAt
<1> QED  BY <1>1, <1>2, <1>3, <1>4

(* One value is dropped: it was the first of the window. *)
LEMMA DropSlotInv ==
  ASSUME IInv, DropSlot
  PROVE  IInv'
<1> USE CapAssumption DEF IInv, pVars, cVars, dVars, DropSlot
<1>1. TypeOK'
  BY DEF TypeOK, Sync, Lag, Pos, Slots, Slot, Increment, Distance
<1>2. DropAt'
  BY DEF TypeOK, Sync, Lag, DropAt, Pos, Increment, Distance
<1>3. LiveAt'
  BY DEF TypeOK, Sync, Lag, ProducerAt, ConsumerAt, DropAt, LiveAt, Lo, Hi, Pos, Slots,
     Slot, Increment, Distance
<1>4. (Sync /\ Lag /\ ProducerAt /\ ConsumerAt)'
  BY DEF TypeOK, Sync, Lag, ProducerAt, ConsumerAt
<1> QED  BY <1>1, <1>2, <1>3, <1>4

(* The buffer is deallocated when nothing is left. *)
LEMMA DropBufferInv ==
  ASSUME IInv, DropBuffer
  PROVE  IInv'
<1> USE CapAssumption DEF IInv, pVars, cVars, dVars, DropBuffer
<1>1. TypeOK'
  BY DEF TypeOK, Sync, Lag, Pos, Slots, Slot, Increment, Distance
<1>2. DropAt'
  BY DEF TypeOK, Sync, Lag, DropAt, Pos, Increment, Distance
<1>3. LiveAt'
  <2>1. Lo' = Lo /\ Hi' = Hi /\ live' = live
    BY DEF TypeOK, Sync, ConsumerAt, DropAt, Lo, Hi
  <2> QED  BY <2>1 DEF LiveAt
<1>4. (Sync /\ Lag /\ ProducerAt /\ ConsumerAt)'
  BY DEF TypeOK, Sync, Lag, ProducerAt, ConsumerAt
<1> QED  BY <1>1, <1>2, <1>3, <1>4

-----------------------------------------------------------------------------
(* The empty ring that new() builds satisfies the invariant. *)
LEMMA InitInv == Init => IInv
BY CapAssumption DEF Init, IInv, TypeOK, Sync, Lag, ProducerAt, ConsumerAt, DropAt,
   LiveAt,
   Lo, Hi, Pos, Slots, Slot, Increment, Distance

(* The invariant only depends on the variables. *)
LEMMA StutterInv == ASSUME IInv, UNCHANGED vars PROVE IInv'
BY DEF IInv, vars, pVars, cVars, dVars, TypeOK, Sync, Lag, ProducerAt, ConsumerAt, DropAt,
   LiveAt, Lo, Hi

(* No step of the ring breaks the invariant. *)
LEMMA NextInv == ASSUME IInv, [Next]_vars PROVE IInv'
<1>1. CASE Producer
  BY <1>1, PushBeginInv, PushRefreshInv, PushWriteInv, PushPublishInv, ProducerLenInv,
     ProducerDropInv DEF Producer, PushStep
<1>2. CASE Consumer
  BY <1>2, PopBeginInv, PopRefreshInv, PopReadInv, PopAdvanceInv, ConsumerLenInv,
     ConsumerIsEmptyInv, WaitMissInv, WaitHitInv, ConsumerDropInv DEF Consumer, PopStep
<1>3. CASE DropStep
  BY <1>3, DropBeginInv, DropSlotInv, DropBufferInv DEF DropStep
<1>4. CASE Freed \/ UNCHANGED vars
  BY <1>4, StutterInv DEF Freed
<1> QED  BY <1>1, <1>2, <1>3, <1>4 DEF Next

(* The inductive invariant holds in every reachable state of the ring. *)
THEOREM Invariant == Spec => []IInv
BY InitInv, NextInv, PTL DEF Spec

-----------------------------------------------------------------------------
(* The properties the runs check, for every capacity. *)

(* Every position stays in 0 .. 2*cap-1 and every length in 0 .. cap. *)
THEOREM TypeCorrect == Spec => []TypeOK
<1>1. IInv => TypeOK  BY DEF IInv
<1> QED  BY <1>1, Invariant, PTL

(* The unsafe blocks of push, pop and drop are sound. *)
THEOREM MemorySafety == Spec => []SlotsSound
<1>1. IInv => SlotsSound
  <2> SUFFICES ASSUME IInv PROVE SlotsSound
    OBVIOUS
  <2> USE CapAssumption DEF IInv
  <2>1. pPc = "write" => Slot(pTail) \notin live
    BY DEF TypeOK, Sync, Lag, ProducerAt, ConsumerAt, DropAt, LiveAt, Lo, Hi, Pos, Slot,
       Increment, Distance
  <2>2. cPc = "read" => Slot(cHead) \in live
    <3> SUFFICES ASSUME cPc = "read" PROVE Slot(head) \in live
      BY DEF Sync
    <3>1. Lo = head /\ head \in Pos /\ Distance(head, head) < Cap
      BY DEF TypeOK, DropAt, Lo, Pos, Distance
    <3>2. Distance(head, head) < Distance(head, Hi)
      BY DEF TypeOK, Lag, ProducerAt, ConsumerAt, Hi, Pos, Increment, Distance
    <3> QED  BY <3>1, <3>2 DEF LiveAt
  <2>3. (pPc = "write" /\ cPc \in {"read", "advance"}) => Slot(pTail) # Slot(cHead)
    BY DEF TypeOK, Sync, Lag, ProducerAt, ConsumerAt, Pos, Slot, Distance
  <2>4. (dPc = "dropping" /\ dHead # tail) => Slot(dHead) \in live
    BY DEF TypeOK, Lag, DropAt, LiveAt, Lo, Hi, Pos, Slot, Distance
  <2>5. dPc = "freed" => live = {}
    <3> SUFFICES ASSUME dPc = "freed", NEW s \in live PROVE FALSE
      OBVIOUS
    <3>1. Lo = tail /\ Hi = tail /\ tail \in Pos /\ s \in Slots
      BY DEF TypeOK, DropAt, Lo, Hi
    <3>2. \E x \in Pos : Slot(x) = s /\ Distance(tail, x) < Cap
      <4>1. CASE Distance(tail, s) < Cap
        BY <4>1, <3>1 DEF Pos, Slots, Slot
      <4>2. CASE ~(Distance(tail, s) < Cap)
        <5>1. s + Cap \in Pos /\ Slot(s + Cap) = s /\ Distance(tail, s + Cap) < Cap
          BY <4>2, <3>1 DEF Pos, Slots, Slot, Distance
        <5> QED  BY <5>1
      <4> QED  BY <4>1, <4>2
    <3> QED  BY <3>1, <3>2 DEF LiveAt, Pos, Distance
  <2> QED  BY <2>1, <2>2, <2>3, <2>4, <2>5 DEF SlotsSound
<1> QED  BY <1>1, Invariant, PTL

(* A len() bounds the length until its caller's next push or pop. *)
THEOREM LenSafe == Spec => []LenBounds
<1>1. IInv => LenBounds
  BY CapAssumption DEF IInv, TypeOK, Sync, Lag, ProducerAt, ConsumerAt, LenBounds, Pos,
     Distance
<1> QED  BY <1>1, Invariant, PTL

(* What an answer of is_empty, wait or len promises stays true. *)
THEOREM AnswersStayTrue == Spec => CheckThenAct
<1>1. ASSUME IInv, [Next]_vars PROVE [AnswersHold]_vars
  <2> USE <1>1, CapAssumption DEF IInv, AnswersHold, vars, pVars, cVars, dVars
  <2>1. CASE PushRefresh
    BY <2>1 DEF PushRefresh, TypeOK, Sync, Lag, ProducerAt, Between, Pos, Distance
  <2>2. CASE PopRefresh
    BY <2>2 DEF PopRefresh, Sync, ConsumerAt
  <2>3. CASE ConsumerIsEmpty
    BY <2>3 DEF ConsumerIsEmpty, Sync, ConsumerAt
  <2>4. CASE (\E v \in Values : PushBegin(v)) \/ PushWrite \/ PushPublish \/ ProducerLen \/ ProducerDrop
    BY <2>4 DEF PushBegin, PushWrite, PushPublish, ProducerLen, ProducerDrop
  <2>5. CASE PopBegin \/ PopRead \/ PopAdvance \/ ConsumerLen \/ WaitMiss \/ WaitHit \/ ConsumerDrop
    BY <2>5 DEF PopBegin, PopRead, PopAdvance, ConsumerLen, WaitMiss, WaitHit, ConsumerDrop
  <2>6. CASE DropStep \/ Freed \/ UNCHANGED vars
    BY <2>6 DEF DropStep, DropBegin, DropSlot, DropBuffer, Freed
  <2> QED  BY <2>1, <2>2, <2>3, <2>4, <2>5, <2>6 DEF Next, Producer, Consumer, PushStep, PopStep
<1> QED  BY <1>1, Invariant, PTL DEF Spec, CheckThenAct
-----------------------------------------------------------------------------
(***************************************************************************)
(* The ring of Spsc implements BoundedFifo, for every capacity and every    *)
(* set of elements.  The refinement mapping reads the elements between head *)
(* and tail, and counts what each side does not know yet:                   *)
(*      items <- Window(head, tail, buffer)                                 *)
(*      freed <- Distance(pHead, head)                                      *)
(*      fresh <- Distance(cTail, tail)                                      *)
(* A push takes effect when tail is stored, a pop when head is stored.      *)
(***************************************************************************)

(* Windows of the ring *)

(* What a slot may hold. *)
Cell == Values \cup {NoVal}

(* The items between two positions, oldest first. *)
LEMMA WindowSeq ==
  ASSUME NEW h \in Pos, NEW t \in Pos, NEW b \in [Slots -> Cell]
  PROVE  /\ Distance(h, t) \in Nat
         /\ Window(h, t, b) \in Seq(Cell)
         /\ Len(Window(h, t, b)) = Distance(h, t)
         /\ \A i \in 1 .. Distance(h, t) : Window(h, t, b)[i] = b[Slot(Wrap(h + i - 1))]
<1> USE CapAssumption
<1>1. Distance(h, t) \in 0 .. 2 * Cap - 1
  BY DEF Pos, Distance
<1>2. \A i \in 1 .. Distance(h, t) : Slot(Wrap(h + i - 1)) \in Slots
  BY <1>1 DEF Pos, Slots, Slot, Wrap
<1>3. \A i \in 1 .. Distance(h, t) : b[Slot(Wrap(h + i - 1))] \in Cell
  BY <1>2
<1>4. Window(h, t, b) \in Seq(Cell) /\ Len(Window(h, t, b)) = Distance(h, t)
  BY <1>1, <1>3 DEF Window
<1> QED  BY <1>1, <1>4 DEF Window

(* Moving the end forward appends the element of the slot it passes ... *)
LEMMA WindowAppend ==
  ASSUME NEW h \in Pos, NEW t \in Pos, NEW b \in [Slots -> Cell], Distance(h, t) < Cap
  PROVE  Window(h, Increment(t), b) = Append(Window(h, t, b), b[Slot(t)])
<1> USE CapAssumption
<1> DEFINE n == Distance(h, t)
<1>1. /\ Increment(t) \in Pos /\ Distance(h, Increment(t)) = n + 1
      /\ Wrap(h + n) = t /\ Slot(t) \in Slots
  BY DEF Pos, Slots, Slot, Increment, Distance, Wrap
<1>2. /\ n \in Nat
      /\ Window(h, t, b) \in Seq(Cell)
      /\ Len(Window(h, t, b)) = n
      /\ \A i \in 1 .. n : Window(h, t, b)[i] = b[Slot(Wrap(h + i - 1))]
  BY WindowSeq
<1>3. /\ Window(h, Increment(t), b) \in Seq(Cell)
      /\ Len(Window(h, Increment(t), b)) = n + 1
      /\ \A i \in 1 .. n + 1 : Window(h, Increment(t), b)[i] = b[Slot(Wrap(h + i - 1))]
  <2>1. /\ Window(h, Increment(t), b) \in Seq(Cell)
        /\ Len(Window(h, Increment(t), b)) = Distance(h, Increment(t))
        /\ \A i \in 1 .. Distance(h, Increment(t)) :
             Window(h, Increment(t), b)[i] = b[Slot(Wrap(h + i - 1))]
    BY <1>1, WindowSeq
  <2> QED  BY <1>1, <2>1
<1> HIDE DEF n
<1> QED  BY <1>1, <1>2, <1>3

(* ... moving the start forward drops the first element ... *)
LEMMA WindowTail ==
  ASSUME NEW h \in Pos, NEW t \in Pos, NEW b \in [Slots -> Cell], h # t
  PROVE  /\ Window(h, t, b) # <<>>
         /\ Head(Window(h, t, b)) = b[Slot(h)]
         /\ Window(Increment(h), t, b) = Tail(Window(h, t, b))
<1> USE CapAssumption
<1> DEFINE n == Distance(h, t)
<1>1. /\ Increment(h) \in Pos /\ Distance(Increment(h), t) = n - 1 /\ n \in 1 .. 2 * Cap - 1
      /\ Wrap(h) = h
      /\ \A i \in 1 .. n - 1 : Wrap(Increment(h) + i - 1) = Wrap(h + (i + 1) - 1)
  BY DEF Pos, Increment, Distance, Wrap
<1>2. /\ Window(h, t, b) \in Seq(Cell)
      /\ Len(Window(h, t, b)) = n
      /\ \A i \in 1 .. n : Window(h, t, b)[i] = b[Slot(Wrap(h + i - 1))]
  BY WindowSeq
<1>3. /\ Window(Increment(h), t, b) \in Seq(Cell)
      /\ Len(Window(Increment(h), t, b)) = n - 1
      /\ \A i \in 1 .. n - 1 : Window(Increment(h), t, b)[i] = b[Slot(Wrap(Increment(h) + i - 1))]
  <2>1. /\ Window(Increment(h), t, b) \in Seq(Cell)
        /\ Len(Window(Increment(h), t, b)) = Distance(Increment(h), t)
        /\ \A i \in 1 .. Distance(Increment(h), t) :
             Window(Increment(h), t, b)[i] = b[Slot(Wrap(Increment(h) + i - 1))]
    BY <1>1, WindowSeq
  <2> QED  BY <1>1, <2>1
<1> HIDE DEF n
<1>4. Window(h, t, b) # <<>>
  BY <1>1, <1>2
<1>5. Head(Window(h, t, b)) = b[Slot(h)]
  <2>1. h + 1 - 1 = h /\ 1 \in 1 .. n
    BY <1>1 DEF Pos
  <2>2. Window(h, t, b)[1] = b[Slot(h)]
    BY <1>1, <1>2, <2>1
  <2> QED  BY <1>2, <1>4, <2>2
<1>6. /\ Tail(Window(h, t, b)) \in Seq(Cell)
      /\ Len(Tail(Window(h, t, b))) = n - 1
      /\ \A i \in 1 .. n - 1 : Tail(Window(h, t, b))[i] = Window(h, t, b)[i + 1]
  BY <1>1, <1>2, <1>4, HeadTailProperties
<1>7. \A i \in 1 .. n - 1 : Window(Increment(h), t, b)[i] = Tail(Window(h, t, b))[i]
  BY <1>1, <1>2, <1>3, <1>6
<1> QED  BY <1>3, <1>4, <1>5, <1>6, <1>7, SeqEqual

(* ... and a write to the slot at the end of a window that is not full is   *)
(* outside of it.                                                           *)
LEMMA WindowWrite ==
  ASSUME NEW h \in Pos, NEW t \in Pos, NEW b \in [Slots -> Cell], NEW v, Distance(h, t) < Cap
  PROVE  Window(h, t, [b EXCEPT ![Slot(t)] = v]) = Window(h, t, b)
<1>1. \A i \in 1 .. Distance(h, t) :
        Slot(Wrap(h + i - 1)) \in Slots /\ Slot(Wrap(h + i - 1)) # Slot(t)
  BY CapAssumption DEF Pos, Slots, Slot, Wrap, Distance
<1> QED  BY <1>1 DEF Window

-----------------------------------------------------------------------------
(* The refinement *)

(* Distances add up along a walk that does not lap itself. *)
LEMMA DistanceAdds ==
  ASSUME NEW a \in Pos, NEW b \in Pos, NEW c \in Pos,
         \/ Distance(a, b) <= Distance(a, c)
         \/ Distance(b, c) <= Distance(a, c)
  PROVE  /\ Distance(a, b) \in Nat /\ Distance(b, c) \in Nat
         /\ Distance(a, b) + Distance(b, c) = Distance(a, c)
BY CapAssumption DEF Pos, Distance

(* The state of the bounded FIFO in a state of the ring. *)
LEMMA FifoState ==
  ASSUME IInv
  PROVE  /\ Len(Items) = Distance(head, tail)
         /\ Len(Items) \in Nat
         /\ Distance(pHead, head) \in Nat
         /\ Distance(cTail, tail) \in Nat
         /\ Len(Items) + Distance(pHead, head) = Distance(pHead, tail)
         /\ Len(Items) - Distance(cTail, tail) = Distance(head, cTail)
<1>1. Len(Items) = Distance(head, tail)
  BY WindowSeq DEF IInv, TypeOK, Items, Cell
<1>2. /\ head \in Pos /\ tail \in Pos /\ pHead \in Pos /\ cTail \in Pos
      /\ Distance(head, tail) <= Distance(pHead, tail)
      /\ Distance(head, cTail) <= Distance(head, tail)
  BY DEF IInv, TypeOK, Lag
<1>3. Distance(head, tail) \in Nat /\ Distance(head, cTail) \in Nat
  BY <1>2, PosType DEF Pos
<1> QED  BY <1>1, <1>2, <1>3, DistanceAdds

(* The empty ring is the empty FIFO. *)
LEMMA FifoInit == Init => Fifo!Init
<1> SUFFICES ASSUME Init PROVE Fifo!Init
  OBVIOUS
<1>1. Items = <<>> /\ Distance(pHead, head) = 0 /\ Distance(cTail, tail) = 0
  BY CapAssumption DEF Init, Items, Window, Distance
<1> QED  BY <1>1 DEF Init, Fifo!Init

(* The elements stay where they are when head, tail and buffer do. *)
LEMMA FifoSame == ASSUME UNCHANGED <<head, tail, buffer>> PROVE Items' = Items
BY DEF Items

(* Every step of the ring is a step of the bounded FIFO or changes nothing  *)
(* it shows.                                                                *)
LEMMA FifoStep == ASSUME IInv, IInv', [Next]_vars PROVE [Fifo!Next]_(Fifo!vars)
<1> USE DEF vars, pVars, cVars, dVars
<1>0. /\ Len(Items') = Distance(head', tail')
      /\ Len(Items') + Distance(pHead', head') = Distance(pHead', tail')
      /\ Len(Items') - Distance(cTail', tail') = Distance(head', cTail')
  <2>1. head' \in Pos /\ tail' \in Pos /\ buffer' \in [Slots -> Cell]
    BY DEF IInv, TypeOK, Cell
  <2>2. Len(Items') = Distance(head', tail')
    BY <2>1, WindowSeq DEF Items
  <2>3. /\ pHead' \in Pos /\ cTail' \in Pos
        /\ Distance(head', tail') <= Distance(pHead', tail')
        /\ Distance(head', cTail') <= Distance(head', tail')
    BY DEF IInv, TypeOK, Lag
  <2> QED  BY <2>1, <2>2, <2>3, DistanceAdds
<1>1. CASE PushRefresh
  <2>1. Items' = Items /\ UNCHANGED <<head, tail, cTail, pLen, cRes, cGot, cLen>> /\ pTail = tail
    BY <1>1, FifoSame DEF PushRefresh, IInv, Sync
  <2>2. Distance(pHead', head') \in 0 .. Distance(pHead, head)
    BY <1>1, CapAssumption DEF PushRefresh, IInv, TypeOK, Between, Lag, Pos, Distance
  <2>3. CASE Distance(pHead', tail) = Cap
    <3>1. pRes' = "full" /\ Len(Items) + Distance(pHead', head') = Cap
      BY <1>0, <1>1, <2>1, <2>3 DEF PushRefresh
    <3> QED  BY <2>1, <2>2, <3>1 DEF Fifo!PushFull, Fifo!LearnPops, Fifo!Next
  <2>4. CASE Distance(pHead', tail) # Cap
    BY <1>1, <2>1, <2>2, <2>4 DEF PushRefresh, Fifo!SeeRoom, Fifo!LearnPops, Fifo!Next
  <2> QED  BY <2>3, <2>4
<1>2. CASE PushWrite
  <2>1. Items' = Items
    <3>1. /\ head \in Pos /\ tail \in Pos /\ buffer \in [Slots -> Cell] /\ pTail = tail
          /\ Distance(head, tail) < Cap
      BY <1>2, CapAssumption DEF PushWrite, IInv, TypeOK, Sync, Lag, ProducerAt, Pos, Distance, Cell
    <3> QED  BY <1>2, <3>1, WindowWrite DEF PushWrite, Items
  <2> QED  BY <1>2, <2>1 DEF PushWrite, Fifo!vars
<1>3. CASE PushPublish
  <2>1. /\ head \in Pos /\ tail \in Pos /\ buffer \in [Slots -> Cell] /\ pTail = tail
        /\ Distance(pHead, tail) < Cap /\ Distance(head, tail) < Cap
        /\ pVal \in Values /\ buffer[Slot(tail)] = pVal
    BY <1>3, CapAssumption DEF PushPublish, IInv, TypeOK, Sync, Lag, ProducerAt, Pos, Distance, Cell
  <2>2. Items' = Append(Items, pVal)
    BY <1>3, <2>1, WindowAppend DEF PushPublish, Items
  <2>3. Distance(cTail', tail') = Distance(cTail, tail) + 1
    BY <1>3, <2>1, CapAssumption DEF PushPublish, IInv, TypeOK, Lag, Pos, Distance, Increment
  <2>4. Len(Items) + Distance(pHead, head) < Cap
    BY <2>1, FifoState
  <2>5. Fifo!Push(pVal)
    BY <1>3, <2>2, <2>3, <2>4 DEF PushPublish, Fifo!Push
  <2> QED  BY <2>1, <2>5 DEF Fifo!Next
<1>4. CASE ProducerLen
  <2>1. Items' = Items /\ UNCHANGED <<head, tail, cTail, cRes, cGot, cLen>> /\ pTail = tail
    BY <1>4, FifoSame DEF ProducerLen, IInv, Sync
  <2>2. Distance(pHead', head') \in 0 .. Distance(pHead, head)
    BY <1>4, CapAssumption DEF ProducerLen, IInv, TypeOK, Between, Lag, Pos, Distance
  <2>3. pRes' = "len" /\ pLen' = Len(Items) + Distance(pHead', head')
    BY <1>0, <1>4, <2>1 DEF ProducerLen
  <2> QED  BY <2>1, <2>2, <2>3 DEF Fifo!ProducerLen, Fifo!LearnPops, Fifo!Next
<1>5. CASE PopRefresh
  <2>1. Items' = Items /\ UNCHANGED <<head, tail, pHead, pRes, pLen, cGot, cLen>> /\ cHead = head
    BY <1>5, FifoSame DEF PopRefresh, IInv, Sync
  <2>2. Distance(cTail', tail') \in 0 .. Distance(cTail, tail)
    BY <1>5, CapAssumption DEF PopRefresh, IInv, TypeOK, Between, Lag, Pos, Distance
  <2>3. CASE head = cTail'
    <3>1. cRes' = "empty" /\ Len(Items) = Distance(cTail', tail')
      BY <1>0, <1>5, <2>1, <2>3 DEF PopRefresh
    <3> QED  BY <2>1, <2>2, <3>1 DEF Fifo!PopEmpty, Fifo!LearnPushes, Fifo!Next
  <2>4. CASE head # cTail'
    BY <1>5, <2>1, <2>2, <2>4 DEF PopRefresh, Fifo!SeeElement, Fifo!LearnPushes, Fifo!Next
  <2> QED  BY <2>3, <2>4
<1>6. CASE PopAdvance
  <2>1. /\ head \in Pos /\ tail \in Pos /\ buffer \in [Slots -> Cell] /\ cHead = head
        /\ head # tail /\ Distance(head, cTail) > 0 /\ cVal = buffer[Slot(head)]
    BY <1>6, CapAssumption DEF PopAdvance, IInv, TypeOK, Sync, Lag, ConsumerAt, Pos, Distance, Cell
  <2>2. Items' = Tail(Items) /\ cGot' = Head(Items)
    BY <1>6, <2>1, WindowTail DEF PopAdvance, Items
  <2>3. Distance(pHead', head') = Distance(pHead, head) + 1
    BY <1>6, <2>1, CapAssumption DEF PopAdvance, IInv, TypeOK, Lag, Pos, Distance, Increment
  <2>4. Len(Items) > Distance(cTail, tail)
    BY <2>1, FifoState
  <2> QED  BY <1>6, <2>2, <2>3, <2>4 DEF PopAdvance, Fifo!Pop, Fifo!Next
<1>7. CASE ConsumerLen
  <2>1. Items' = Items /\ UNCHANGED <<head, tail, pHead, pRes, pLen, cGot>> /\ cHead = head
    BY <1>7, FifoSame DEF ConsumerLen, IInv, Sync
  <2>2. Distance(cTail', tail') \in 0 .. Distance(cTail, tail)
    BY <1>7, CapAssumption DEF ConsumerLen, IInv, TypeOK, Between, Lag, Pos, Distance
  <2>3. cRes' = "len" /\ cLen' = Len(Items) - Distance(cTail', tail')
    BY <1>0, <1>7, <2>1 DEF ConsumerLen
  <2> QED  BY <2>1, <2>2, <2>3 DEF Fifo!ConsumerLen, Fifo!LearnPushes, Fifo!Next
<1>8. CASE ConsumerIsEmpty
  <2>1. Items' = Items /\ UNCHANGED <<head, tail, pHead, pRes, pLen, cGot, cLen>> /\ cHead = head
    BY <1>8, FifoSame DEF ConsumerIsEmpty, IInv, Sync
  <2>2. CASE head # cTail
    <3>1. cTail' = cTail /\ cRes' = "nonempty"
      BY <1>8, <2>1, <2>2 DEF ConsumerIsEmpty
    <3>2. Distance(cTail, tail) \in Nat /\ Distance(head, cTail) > 0
      BY <2>2, CapAssumption DEF IInv, TypeOK, Pos, Distance
    <3>3. Len(Items) > Distance(cTail, tail)
      BY <3>2, FifoState
    <3> QED  BY <2>1, <3>1, <3>2, <3>3 DEF Fifo!ConsumerIsEmpty, Fifo!LearnPushes, Fifo!Next
  <2>3. CASE head = cTail
    <3>1. cTail' \in Between(cTail, tail)
      BY <1>8, <2>1, <2>3 DEF ConsumerIsEmpty
    <3>2. Distance(cTail', tail') \in 0 .. Distance(cTail, tail)
      <4>1. Distance(cTail, cTail') <= Distance(cTail, tail) /\ cTail' \in Pos
        BY <3>1 DEF Between
      <4> QED  BY <2>1, <4>1, DistanceAdds DEF IInv, TypeOK
    <3>3. cRes' = IF Distance(head, cTail') # 0 THEN "nonempty" ELSE "isempty"
      BY <1>8, <2>1, <2>3 DEF ConsumerIsEmpty
    <3>4. Distance(head, cTail') \in Nat
      BY PosType DEF IInv, TypeOK, Pos
    <3>5. cRes' = IF Len(Items) > Distance(cTail', tail') THEN "nonempty" ELSE "isempty"
      BY <1>0, <2>1, <3>2, <3>3, <3>4, FifoState
    <3> QED  BY <2>1, <3>2, <3>5 DEF Fifo!ConsumerIsEmpty, Fifo!LearnPushes, Fifo!Next
  <2> QED  BY <2>2, <2>3
<1>9. CASE WaitHit
  <2>1. Items' = Items /\ UNCHANGED <<head, tail, pHead, pRes, pLen, cGot, cLen>> /\ cHead = head
    BY <1>9, FifoSame DEF WaitHit, IInv, Sync
  <2>2. Distance(cTail', tail') \in 0 .. Distance(cTail, tail)
    BY <1>9, CapAssumption DEF WaitHit, IInv, TypeOK, Between, Lag, Pos, Distance
  <2>3. cRes' = "nonempty" /\ Distance(head, cTail') > 0
    BY <1>9, <2>1, CapAssumption DEF WaitHit, IInv, TypeOK, Between, Lag, Pos, Distance
  <2>4. cRes' = IF Len(Items) > Distance(cTail', tail') THEN "nonempty" ELSE "isempty"
    BY <1>0, <2>1, <2>2, <2>3, FifoState
  <2> QED  BY <2>1, <2>2, <2>4 DEF Fifo!ConsumerIsEmpty, Fifo!LearnPushes, Fifo!Next
<1>10. CASE \/ \E v \in Values : PushBegin(v)
            \/ ProducerDrop \/ PopBegin \/ PopRead \/ WaitMiss \/ ConsumerDrop
            \/ DropStep \/ Freed \/ UNCHANGED vars
  <2>1. UNCHANGED <<head, tail, buffer, pHead, cTail, pRes, pLen, cRes, cGot, cLen>>
    BY <1>10 DEF PushBegin, ProducerDrop, PopBegin, PopRead, WaitMiss, ConsumerDrop, DropStep,
                 DropBegin, DropSlot, DropBuffer, Freed
  <2> QED  BY <2>1, FifoSame DEF Fifo!vars
<1> QED  BY <1>1, <1>2, <1>3, <1>4, <1>5, <1>6, <1>7, <1>8, <1>9, <1>10
         DEF Next, Producer, Consumer, PushStep, PopStep

(* The ring of every capacity implements the bounded FIFO. *)
THEOREM Refinement == Spec => RefinesFifo
<1>1. IInv /\ IInv' /\ [Next]_vars => [Fifo!Next]_(Fifo!vars)
  BY FifoStep
<1> QED  BY <1>1, FifoInit, Invariant, PTL DEF Spec, RefinesFifo, Fifo!Spec
=============================================================================
