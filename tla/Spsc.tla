-------------------------------- MODULE Spsc --------------------------------
(***************************************************************************)
(* The bounded single-producer single-consumer queue of                     *)
(* rustasim-engine/src/spsc.rs, one action per access to shared memory.     *)
(*                                                                          *)
(* Shared: the atomics head and tail (positions in 0 .. 2*Cap-1, so that a  *)
(* full and an empty ring differ) and the slots of buffer.  Each side keeps *)
(* two Cells: its own position, always in sync with the atomic, and a copy  *)
(* of the other side's position, which may be stale.                        *)
(*                                                                          *)
(* An Acquire load may return any value between the last one this side saw  *)
(* and the current one (Between): coherence forbids going back, nothing     *)
(* forces the newest store to be visible at once.                           *)
(*                                                                          *)
(* live is a history variable: the slots that hold a value somebody still   *)
(* has to read or drop.  buffer itself keeps the bits that ptr::read and    *)
(* drop_in_place leave behind.                                              *)
(***************************************************************************)
EXTENDS Naturals, Sequences

CONSTANTS
  Values,   \* the elements
  Cap,      \* Inner.cap
  NoVal     \* uninitialised memory, and "nothing returned yet"

ASSUME CapAssumption == Cap \in Nat \ {0}   \* spsc::new asserts cap > 0

VARIABLES
  head, tail, buffer,              \* Inner
  live,                            \* history: slots owning a value
  pHead, pTail, pPc, pVal,         \* Producer: cells, position in push, argument
  pRes, pLen,                      \* what the producer's last call returned
  cHead, cTail, cPc, cVal,         \* Consumer: cells, position in pop, local value
  cRes, cGot, cLen,                \* what the consumer's last call returned
  dPc, dHead                       \* <Inner as Drop>::drop

pVars == <<pHead, pTail, pPc, pVal, pRes, pLen>>
cVars == <<cHead, cTail, cPc, cVal, cRes, cGot, cLen>>
dVars == <<dPc, dHead>>
vars  == <<head, tail, buffer, live, pVars, cVars, dVars>>

-----------------------------------------------------------------------------
(* Positions *)

Pos   == 0 .. 2 * Cap - 1
Slots == 0 .. Cap - 1

Slot(pos) == IF pos < Cap THEN pos ELSE pos - Cap

(* Mutant: wraps one position too late. *)
IncrementLate(pos) == IF pos < 2 * Cap THEN pos + 1 ELSE 0

Increment(pos) == IF pos < 2 * Cap - 1 THEN pos + 1 ELSE 0

Distance(a, b) == IF a <= b THEN b - a ELSE 2 * Cap - a + b

(* The values an Acquire load may return when a was the last one seen and   *)
(* b is the current one.                                                    *)
Between(a, b) == {x \in Pos : Distance(a, x) <= Distance(a, b)}

-----------------------------------------------------------------------------
(* Producer *)

(* Mutant: no check for a full ring. *)
PushBeginUnchecked(v) ==
  /\ pPc = "idle"
  /\ pVal' = v
  /\ pPc' = "write"
  /\ UNCHANGED <<head, tail, buffer, live, pHead, pTail, pRes, pLen, cVars, dVars>>

PushBegin(v) ==
  /\ pPc = "idle"
  /\ pVal' = v
  /\ pPc' = IF Distance(pHead, pTail) = Cap THEN "refresh" ELSE "write"
  /\ UNCHANGED <<head, tail, buffer, live, pHead, pTail, pRes, pLen, cVars, dVars>>

PushRefresh ==
  /\ pPc = "refresh"
  /\ \E h \in Between(pHead, head) :
       /\ pHead' = h
       /\ \/ /\ Distance(h, pTail) = Cap
             /\ pPc' = "idle" /\ pRes' = "full"
          \/ /\ Distance(h, pTail) # Cap
             /\ pPc' = "write" /\ UNCHANGED pRes
  /\ UNCHANGED <<head, tail, buffer, live, pTail, pVal, pLen, cVars, dVars>>

(* Mutant: the tail is moved before the value is written. *)
PushWriteMoved ==
  /\ pPc = "write"
  /\ buffer' = [buffer EXCEPT ![Slot(Increment(pTail))] = pVal]
  /\ live' = live \cup {Slot(Increment(pTail))}
  /\ pPc' = "publish"
  /\ UNCHANGED <<head, tail, pHead, pTail, pVal, pRes, pLen, cVars, dVars>>

PushWrite ==
  /\ pPc = "write"
  /\ buffer' = [buffer EXCEPT ![Slot(pTail)] = pVal]
  /\ live' = live \cup {Slot(pTail)}
  /\ pPc' = "publish"
  /\ UNCHANGED <<head, tail, pHead, pTail, pVal, pRes, pLen, cVars, dVars>>

PushPublish ==
  /\ pPc = "publish"
  /\ tail' = Increment(pTail)
  /\ pTail' = Increment(pTail)
  /\ pPc' = "idle" /\ pRes' = "ok"
  /\ UNCHANGED <<head, buffer, live, pHead, pVal, pLen, cVars, dVars>>

(* len(), and is_empty() and is_full() which compare its result with 0 and  *)
(* with cap.                                                                *)
ProducerLen ==
  /\ pPc = "idle"
  /\ \E h \in Between(pHead, head) :
       /\ pHead' = h
       /\ pLen' = Distance(h, pTail)
  /\ pRes' = "len"
  /\ UNCHANGED <<head, tail, buffer, live, pTail, pPc, pVal, cVars, dVars>>

ProducerDrop ==
  /\ pPc = "idle"
  /\ pPc' = "dropped"
  /\ UNCHANGED <<head, tail, buffer, live, pHead, pTail, pVal, pRes, pLen, cVars, dVars>>

-----------------------------------------------------------------------------
(* Consumer *)

PopBegin ==
  /\ cPc = "idle"
  /\ cPc' = IF cHead = cTail THEN "refresh" ELSE "read"
  /\ UNCHANGED <<head, tail, buffer, live, pVars, cHead, cTail, cVal, cRes, cGot, cLen, dVars>>

(* Mutant: spins while the ring is empty. *)
PopRefreshSpin ==
  /\ cPc = "refresh"
  /\ \E t \in Between(cTail, tail) :
       /\ cTail' = t
       /\ cPc' = IF cHead = t THEN "refresh" ELSE "read"
  /\ UNCHANGED <<head, tail, buffer, live, pVars, cHead, cVal, cRes, cGot, cLen, dVars>>

PopRefresh ==
  /\ cPc = "refresh"
  /\ \E t \in Between(cTail, tail) :
       /\ cTail' = t
       /\ \/ /\ cHead = t
             /\ cPc' = "idle" /\ cRes' = "empty"
          \/ /\ cHead # t
             /\ cPc' = "read" /\ UNCHANGED cRes
  /\ UNCHANGED <<head, tail, buffer, live, pVars, cHead, cVal, cGot, cLen, dVars>>

PopRead ==
  /\ cPc = "read"
  /\ cVal' = buffer[Slot(cHead)]
  /\ live' = live \ {Slot(cHead)}
  /\ cPc' = "advance"
  /\ UNCHANGED <<head, tail, buffer, pVars, cHead, cTail, cRes, cGot, cLen, dVars>>

PopAdvance ==
  /\ cPc = "advance"
  /\ head' = Increment(cHead)
  /\ cHead' = Increment(cHead)
  /\ cPc' = "idle" /\ cRes' = "ok" /\ cGot' = cVal
  /\ UNCHANGED <<tail, buffer, live, pVars, cTail, cVal, cLen, dVars>>

(* len(), and is_full() which compares its result with cap. *)
ConsumerLen ==
  /\ cPc = "idle"
  /\ \E t \in Between(cTail, tail) :
       /\ cTail' = t
       /\ cLen' = Distance(cHead, t)
  /\ cRes' = "len"
  /\ UNCHANGED <<head, tail, buffer, live, pVars, cHead, cPc, cVal, cGot, dVars>>

(* Mutant: answers from the cells without ever looking. *)
ConsumerIsEmptyCells ==
  /\ cPc = "idle"
  /\ cRes' = IF cHead = cTail THEN "nonempty" ELSE "isempty"
  /\ UNCHANGED <<head, tail, buffer, live, pVars, cHead, cTail, cPc, cVal, cGot, cLen, dVars>>

(* The cached copies answer when they differ; only otherwise len() loads. *)
ConsumerIsEmpty ==
  /\ cPc = "idle"
  /\ \/ /\ cHead # cTail
        /\ cRes' = "nonempty" /\ UNCHANGED cTail
     \/ /\ cHead = cTail
        /\ \E t \in Between(cTail, tail) :
             /\ cTail' = t
             /\ cRes' = IF Distance(cHead, t) # 0 THEN "nonempty" ELSE "isempty"
  /\ UNCHANGED <<head, tail, buffer, live, pVars, cHead, cPc, cVal, cGot, cLen, dVars>>

(* wait(): the load that finds the queue empty ... *)
WaitMiss ==
  /\ cPc \in {"idle", "wait"}
  /\ cHead \in Between(cTail, tail)
  /\ cPc' = "wait"
  /\ UNCHANGED <<head, tail, buffer, live, pVars, cHead, cTail, cVal, cRes, cGot, cLen, dVars>>

(* ... and the load that ends it, the first one or one of the spin loop. *)
WaitHit ==
  /\ cPc \in {"idle", "wait"}
  /\ \E t \in Between(cTail, tail) :
       /\ cHead # t
       /\ cTail' = t
  /\ cPc' = "idle" /\ cRes' = "nonempty"
  /\ UNCHANGED <<head, tail, buffer, live, pVars, cHead, cVal, cGot, cLen, dVars>>

ConsumerDrop ==
  /\ cPc = "idle"
  /\ cPc' = "dropped"
  /\ UNCHANGED <<head, tail, buffer, live, pVars, cHead, cTail, cVal, cRes, cGot, cLen, dVars>>

-----------------------------------------------------------------------------
(* <Inner as Drop>::drop, run by whoever releases the second Arc. *)

DropBegin ==
  /\ pPc = "dropped" /\ cPc = "dropped" /\ dPc = "no"
  /\ dHead' = head
  /\ dPc' = "dropping"
  /\ UNCHANGED <<head, tail, buffer, live, pVars, cVars>>

DropSlot ==
  /\ dPc = "dropping" /\ dHead # tail
  /\ live' = live \ {Slot(dHead)}
  /\ dHead' = Increment(dHead)
  /\ UNCHANGED <<head, tail, buffer, pVars, cVars, dPc>>

DropBuffer ==
  /\ dPc = "dropping" /\ dHead = tail
  /\ dPc' = "freed"
  /\ UNCHANGED <<head, tail, buffer, live, pVars, cVars, dHead>>

-----------------------------------------------------------------------------
Init ==
  /\ head = 0 /\ tail = 0
  /\ buffer = [s \in Slots |-> NoVal]
  /\ live = {}
  /\ pHead = 0 /\ pTail = 0 /\ pPc = "idle" /\ pVal = NoVal
  /\ pRes = "none" /\ pLen = 0
  /\ cHead = 0 /\ cTail = 0 /\ cPc = "idle" /\ cVal = NoVal
  /\ cRes = "none" /\ cGot = NoVal /\ cLen = 0
  /\ dPc = "no" /\ dHead = 0

PushStep == PushRefresh \/ PushWrite \/ PushPublish
PopStep  == PopRefresh \/ PopRead \/ PopAdvance
DropStep == DropBegin \/ DropSlot \/ DropBuffer

Producer == (\E v \in Values : PushBegin(v)) \/ PushStep \/ ProducerLen \/ ProducerDrop
Consumer == PopBegin \/ PopStep \/ ConsumerLen \/ ConsumerIsEmpty
              \/ WaitMiss \/ WaitHit \/ ConsumerDrop

(* Nothing is left to do once the ring is deallocated. *)
Freed == dPc = "freed" /\ UNCHANGED vars

Next == Producer \/ Consumer \/ DropStep \/ Freed

Spec == Init /\ [][Next]_vars

(* A thread inside a call keeps running, and a store becomes visible to the *)
(* other thread's loads after finitely many of them (WaitHit).  Nothing     *)
(* makes either side start a call.                                          *)
FairSpec == Spec /\ WF_vars(PushStep) /\ WF_vars(PopStep) /\ WF_vars(WaitHit /\ cPc = "wait")

-----------------------------------------------------------------------------
(* Properties *)

(* Every position stays inside 0 .. 2*cap-1, so slot() stays inside the     *)
(* buffer, and every length reported is one a ring of cap slots can have.   *)
TypeOK ==
  /\ head \in Pos /\ tail \in Pos
  /\ buffer \in [Slots -> Values \cup {NoVal}]
  /\ live \in SUBSET Slots
  /\ pHead \in Pos /\ pTail \in Pos
  /\ pPc \in {"idle", "refresh", "write", "publish", "dropped"}
  /\ pVal \in Values \cup {NoVal}
  /\ pRes \in {"none", "ok", "full", "len"} /\ pLen \in 0 .. Cap
  /\ cHead \in Pos /\ cTail \in Pos
  /\ cPc \in {"idle", "refresh", "read", "advance", "wait", "dropped"}
  /\ cVal \in Values \cup {NoVal}
  /\ cRes \in {"none", "ok", "empty", "len", "nonempty", "isempty"}
  /\ cGot \in Values \cup {NoVal} /\ cLen \in 0 .. Cap
  /\ dPc \in {"no", "dropping", "freed"} /\ dHead \in Pos

(* The unsafe blocks are sound: push never writes over a value nobody has   *)
(* taken (it would leak) nor into the slot pop is reading, pop and drop     *)
(* only touch slots that own a value (no use of moved-out or uninitialised  *)
(* memory, no double drop), and deallocation leaves no value behind.        *)
SlotsSound ==
  /\ pPc = "write" => Slot(pTail) \notin live
  /\ cPc = "read" => Slot(cHead) \in live
  /\ (pPc = "write" /\ cPc \in {"read", "advance"}) => Slot(pTail) # Slot(cHead)
  /\ (dPc = "dropping" /\ dHead # tail) => Slot(dHead) \in live
  /\ dPc = "freed" => live = {}

(* len() errs on the safe side although the other thread keeps moving: what *)
(* the producer was told bounds the true length from above until its next   *)
(* push, what the consumer was told from below until its next pop; and a    *)
(* queue the consumer was told is not empty still has an element.           *)
LenBounds ==
  /\ pRes = "len" => Distance(head, tail) <= pLen
  /\ cRes = "len" => Distance(head, tail) >= cLen
  /\ cRes = "nonempty" => head # tail

(* Check then act: after is_empty() answered false (or wait() returned) the *)
(* next pop() succeeds, and after is_full() answered false the next push()  *)
(* does, whatever the other side does in between.  Merger::next relies on   *)
(* the first, every push(..).unwrap() of an actor on the second.            *)
AnswersHold ==
  /\ cRes = "nonempty" => cRes' # "empty" /\ cRes' # "isempty"
  /\ (pRes = "len" /\ pLen < Cap) => pRes' # "full"

CheckThenAct == [][AnswersHold]_vars

(* Every call to push() and pop() returns (they never wait for the other    *)
(* side), and wait() returns once there is an element to pop.               *)
CallsReturn ==
  /\ pPc \in {"refresh", "write", "publish"} ~> pPc = "idle"
  /\ cPc \in {"refresh", "read", "advance"} ~> cPc = "idle"
  /\ (cPc = "wait" /\ head # tail) ~> cPc = "idle"

(* The ring implements the bounded FIFO. *)
Wrap(x) == IF x < 2 * Cap THEN x ELSE x - 2 * Cap

Window(h, t, b) == [i \in 1 .. Distance(h, t) |-> b[Slot(Wrap(h + i - 1))]]

Items == Window(head, tail, buffer)

Fifo == INSTANCE BoundedFifo WITH
          items <- Items,
          freed <- Distance(pHead, head),
          fresh <- Distance(cTail, tail)

(* Every behaviour of the ring, its stale cells and its split reads and     *)
(* writes included, is one of the bounded FIFO: nothing is lost, duplicated *)
(* or reordered, and Err is only returned when the caller's own view of the *)
(* queue is full or empty.                                                  *)
RefinesFifo == Fifo!Spec
=============================================================================
