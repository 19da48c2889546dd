------------------------ MODULE RefCountOnQueueProofs -------------------------
(***************************************************************************)
(* RefCount on ArrayQueue does what RefCount on an atomic queue does.  The *)
(* proof takes what is known of ArrayQueue and of RefCount from their own  *)
(* proofs, by instantiating those.                                         *)
(***************************************************************************)
EXTENDS RefCountOnQueue, RefCountWaiterProofs, SequenceTheorems

(* ArrayQueue with its proofs, and RefCount on an atomic queue with its.   *)
QP == INSTANCE ArrayQueueFifoProofs WITH
        Proc <- Handle, Capacity <- MaxWaiting, NoValue <- NoWaiter,
        Api <- {"push", "pop"}, MaxCalls <- 0,
        pc <- qpc, op <- qop, aux <- [h \in Handle |-> 0], calls <- 0
AP == INSTANCE RefCountWaiterProofs WITH pc <- AtomicPc

-----------------------------------------------------------------------------
(* The assumptions of those modules hold here. *)

LEMMA LapSame == QP!OneLap = Q!OneLap
  BY Zenon DEF QP!OneLap, Q!OneLap, QP!IsPowerOfTwo, Q!IsPowerOfTwo

LEMMA QueueAssumptions == QP!ArrayQueueAssumption
  BY WaiterAssumption, RefCountAssumption, RefCountOnQueueAssumption
     DEF QP!ArrayQueueAssumption

LEMMA AtomicAssumptions ==
  AP!RefLimitAssumption /\ AP!WaiterAssumption /\ AP!RefCountAssumption
<1>1. AP!RefLimitAssumption
  BY RefLimitAssumption DEF AP!RefLimitAssumption
<1>2. AP!WaiterAssumption
  BY WaiterAssumption DEF AP!WaiterAssumption, AP!Waiter, Waiter
<1>3. AP!RefCountAssumption
  BY Zenon, RefCountAssumption
     DEF AP!RefCountAssumption, AP!Ops, AP!Futures, AP!RefOps, AP!ExclOps, AP!BlockOps,
         Ops, Futures, RefOps, ExclOps, BlockOps
<1> QED
  BY <1>1, <1>2, <1>3

(* The two instances of ArrayQueue are one. *)
LEMMA StateSame ==
  /\ QP!TypeOK <=> Q!TypeOK
  /\ QP!StampInv <=> Q!StampInv
  /\ QP!Items = Q!Items /\ QP!Taken = Q!Taken
  /\ QP!Init <=> Q!Init
  /\ QP!QueueSize(head, tail) = Q!QueueSize(head, tail)
<1> USE DEF QP!OneLap, Q!OneLap, QP!IsPowerOfTwo, Q!IsPowerOfTwo, QP!Index, Q!Index,
            QP!Lap, Q!Lap, QP!At, Q!At, QP!Slots, Q!Slots, QP!QueueSize, Q!QueueSize
<1>1. QP!TypeOK <=> Q!TypeOK
  BY Zenon DEF QP!TypeOK, Q!TypeOK, QP!Position, Q!Position, QP!PCs, Q!PCs
<1>2. QP!StampInv <=> Q!StampInv
  BY Zenon DEF QP!StampInv, Q!StampInv, QP!SlotsInv, Q!SlotsInv, QP!LocalsInv, Q!LocalsInv,
     QP!WithinALap, Q!WithinALap, QP!OneHolder, Q!OneHolder, QP!Holders, Q!Holders,
     QP!Holding, Q!Holding, QP!HeldPosition, Q!HeldPosition, QP!HeldSlot, Q!HeldSlot,
     QP!Turn, Q!Turn, QP!IdleSlot, Q!IdleSlot, QP!LocalsLag, Q!LocalsLag,
     QP!EmptyHanded, Q!EmptyHanded
<1>3. QP!Items = Q!Items
  BY Zenon DEF QP!Items, Q!Items, QP!Content, Q!Content, QP!Arriving, Q!Arriving
<1>4. QP!Taken = Q!Taken
  BY Zenon DEF QP!Taken, Q!Taken
<1>5. QP!Init <=> Q!Init
  BY Zenon DEF QP!Init, Q!Init
<1>6. QP!QueueSize(head, tail) = Q!QueueSize(head, tail)
  BY Zenon
<1> QED
  BY <1>1, <1>2, <1>3, <1>4, <1>5, <1>6

LEMMA ActionSame ==
  ASSUME NEW h \in Handle
  PROVE  /\ \A f : Q!Start(h, f) => QP!Start(h, f)
         /\ Q!LoadTail(h) => QP!LoadTail(h)
         /\ Q!LoadStamp(h) => QP!LoadStamp(h)
         /\ Q!PushCas(h) => QP!PushCas(h)
         /\ Q!WriteSlot(h) => QP!WriteSlot(h)
         /\ Q!Publish(h) => QP!Publish(h)
         /\ Q!PushFull(h) => QP!PushFull(h)
         /\ Q!PushNotFull(h) => QP!PushNotFull(h)
         /\ Q!LoadHead(h) => QP!LoadHead(h)
         /\ Q!LookAtStamp(h) => QP!LookAtStamp(h)
         /\ Q!PopCas(h) => QP!PopCas(h)
         /\ Q!ReadSlot(h) => QP!ReadSlot(h)
         /\ Q!FreeSlot(h) => QP!FreeSlot(h)
         /\ Q!PopEmpty(h) => QP!PopEmpty(h)
         /\ Q!PopNotEmpty(h) => QP!PopNotEmpty(h)
<1> USE DEF QP!OneLap, Q!OneLap, QP!IsPowerOfTwo, Q!IsPowerOfTwo, QP!Index, Q!Index,
            QP!Lap, Q!Lap, QP!At, Q!At, QP!Succ, Q!Succ, QP!Old, Q!Old, QP!OldStamp, Q!OldStamp,
            QP!queueVars, Q!queueVars, QP!Goto, Q!Goto, QP!Remember, Q!Remember,
            QP!Return, Q!Return, QP!Step, Q!Step, QP!Load, Q!Load
<1>1. \A f : Q!Start(h, f) => QP!Start(h, f)
  BY Zenon DEF QP!Start, Q!Start
<1>2. Q!LoadTail(h) => QP!LoadTail(h)
  BY Zenon DEF QP!LoadTail, Q!LoadTail
<1>3. Q!LoadStamp(h) => QP!LoadStamp(h)
  BY Zenon DEF QP!LoadStamp, Q!LoadStamp
<1>4. Q!PushCas(h) => QP!PushCas(h)
  BY Zenon DEF QP!PushCas, Q!PushCas
<1>5. Q!WriteSlot(h) => QP!WriteSlot(h)
  BY Zenon DEF QP!WriteSlot, Q!WriteSlot
<1>6. Q!Publish(h) => QP!Publish(h)
  BY Zenon DEF QP!Publish, Q!Publish
<1>7. Q!PushFull(h) => QP!PushFull(h)
  BY Zenon DEF QP!PushFull, Q!PushFull
<1>8. Q!PushNotFull(h) => QP!PushNotFull(h)
  BY Zenon DEF QP!PushNotFull, Q!PushNotFull
<1>9. Q!LoadHead(h) => QP!LoadHead(h)
  BY Zenon DEF QP!LoadHead, Q!LoadHead
<1>10. Q!LookAtStamp(h) => QP!LookAtStamp(h)
  BY Zenon DEF QP!LookAtStamp, Q!LookAtStamp
<1>11. Q!PopCas(h) => QP!PopCas(h)
  BY Zenon DEF QP!PopCas, Q!PopCas
<1>12. Q!ReadSlot(h) => QP!ReadSlot(h)
  BY Zenon DEF QP!ReadSlot, Q!ReadSlot
<1>13. Q!FreeSlot(h) => QP!FreeSlot(h)
  BY Zenon DEF QP!FreeSlot, Q!FreeSlot
<1>14. Q!PopEmpty(h) => QP!PopEmpty(h)
  BY Zenon DEF QP!PopEmpty, Q!PopEmpty
<1>15. Q!PopNotEmpty(h) => QP!PopNotEmpty(h)
  BY Zenon DEF QP!PopNotEmpty, Q!PopNotEmpty
<1> QED
  BY Zenon, <1>1, <1>2, <1>3, <1>4, <1>5, <1>6, <1>7, <1>8, <1>9, <1>10, <1>11, <1>12, <1>13,
     <1>14, <1>15

-----------------------------------------------------------------------------
(* What a step does to ArrayQueue *)

QKnown == QP!TypeOK /\ QP!StampInv

LEMMA QueueStep ==
  ASSUME QKnown, NEW h \in Handle, QP!StepOf(h)
  PROVE  QKnown'
<1>1. QP!TypeOK'
  BY QP!StepOfType, QueueAssumptions DEF QKnown
<1> QED
  BY <1>1, QP!StampStep, QueueAssumptions DEF QKnown

LEMMA QueueStutter ==
  ASSUME QKnown, UNCHANGED qVars
  PROVE  QKnown' /\ QP!Items' = QP!Items /\ QP!Taken' = QP!Taken
<1>1. UNCHANGED QP!vars
  BY DEF qVars, QP!vars
<1>2. QP!TypeOK' /\ QP!StampInv'
  BY <1>1, QP!TypeStep, QP!StampStutter, QueueAssumptions DEF QKnown
<1> QED
  BY <1>1, <1>2, QP!ItemsStutter, QueueAssumptions DEF QKnown

(* The compare-and-swap of push that succeeds. *)
LEMMA PushEffect ==
  ASSUME QKnown, NEW h \in Handle, Q!PushCas(h), tail' # tail
  PROVE  /\ QKnown'
         /\ qpc[h] = "push_cas" /\ qpc' = [qpc EXCEPT ![h] = "write"] /\ qop' = qop
         /\ Len(QP!Items) < MaxWaiting /\ QP!Items' = Append(QP!Items, h)
         /\ QP!Taken' = QP!Taken
<1>1. QP!PushCas(h)
  BY ActionSame
<1>2. QKnown'
  BY <1>1, QueueStep DEF QP!StepOf, QP!Running
<1>3. tail = pos[h] /\ tail' = QP!Succ(tail) /\ QP!Step(h, "write")
  BY <1>1 DEF QP!PushCas
<1>4. Len(QP!Items) < MaxWaiting /\ QP!Items' = Append(QP!Items, h) /\ QP!Taken' = QP!Taken
  BY <1>1, <1>2, <1>3, QP!PutStep, QueueAssumptions DEF QKnown
<1> QED
  BY <1>1, <1>2, <1>3, <1>4 DEF QP!PushCas, QP!Step, QP!Goto

(* The compare-and-swap of pop that succeeds. *)
LEMMA PopEffect ==
  ASSUME QKnown, NEW h \in Handle, Q!PopCas(h), head' # head
  PROVE  /\ QKnown'
         /\ qpc[h] = "pop_cas" /\ qpc' = [qpc EXCEPT ![h] = "read"] /\ qop' = qop
         /\ QP!Items # << >> /\ QP!Items' = Tail(QP!Items)
         /\ QP!Taken' = [QP!Taken EXCEPT ![h] = Head(QP!Items)]
<1>1. QP!PopCas(h)
  BY ActionSame
<1>2. QKnown'
  BY <1>1, QueueStep DEF QP!StepOf, QP!Running
<1>3. head = pos[h] /\ head' = QP!Succ(head) /\ QP!Step(h, "read")
  BY <1>1 DEF QP!PopCas
<1>4. /\ QP!Items # << >> /\ QP!Items' = Tail(QP!Items)
      /\ QP!Taken' = [QP!Taken EXCEPT ![h] = Head(QP!Items)]
  BY <1>1, <1>2, <1>3, QP!TakeStep, QueueAssumptions DEF QKnown
<1> QED
  BY <1>1, <1>2, <1>3, <1>4 DEF QP!PopCas, QP!Step, QP!Goto

(* The start of a call. *)
LEMMA StartEffect ==
  ASSUME QKnown, NEW h \in Handle, NEW f \in {"push", "pop"}, Q!Start(h, f)
  PROVE  /\ QKnown'
         /\ qpc[h] = "idle" /\ qpc' = [qpc EXCEPT ![h] = IF f = "push" THEN "tail" ELSE "head"]
         /\ qop' = [qop EXCEPT ![h] = f]
         /\ QP!Items' = QP!Items
         /\ QP!Taken' = [QP!Taken EXCEPT ![h] = NoWaiter]
<1>1. QP!Start(h, f)
  BY ActionSame
<1>2. QKnown'
  BY <1>1, QueueStep DEF QP!StepOf
<1>3. QP!Items' = QP!Items /\ QP!Taken' = [QP!Taken EXCEPT ![h] = NoWaiter]
  BY <1>1, <1>2, QP!StartStep, QueueAssumptions DEF QKnown
<1> QED
  BY <1>1, <1>2, <1>3 DEF QP!Start, QP!Goto

(* The steps in the middle of a call. *)
LEMMA MiddleEffect ==
  ASSUME QKnown, NEW h \in Handle,
         \/ Q!LoadTail(h) \/ Q!LoadStamp(h) \/ Q!WriteSlot(h) \/ Q!PushNotFull(h)
         \/ Q!LoadHead(h) \/ Q!LookAtStamp(h) \/ Q!ReadSlot(h) \/ Q!PopNotEmpty(h)
         \/ Q!PushCas(h) /\ tail' = tail
         \/ Q!PopCas(h) /\ head' = head
  PROVE  /\ QKnown' /\ QP!Items' = QP!Items /\ QP!Taken' = QP!Taken /\ qop' = qop
         /\ \E l : /\ qpc' = [qpc EXCEPT ![h] = l]
                   /\ \/ qpc[h] \in InPush /\ (qop[h] = "push" => l \in InPush)
                      \/ qpc[h] \in InPop /\ l \in InPop
                   /\ l \in {"write", "publish"} <=> qpc[h] \in {"write", "publish"}
                   /\ l \in {"read", "free"} <=> qpc[h] \in {"read", "free"}
<1>1. \/ QP!LoadTail(h) \/ QP!LoadStamp(h) \/ QP!WriteSlot(h) \/ QP!PushNotFull(h)
      \/ QP!LoadHead(h) \/ QP!LookAtStamp(h) \/ QP!ReadSlot(h) \/ QP!PopNotEmpty(h)
      \/ QP!PushCas(h) /\ tail' = tail
      \/ QP!PopCas(h) /\ head' = head
  BY ActionSame
<1>2. QP!StepOf(h)
  BY <1>1 DEF QP!StepOf, QP!Running
<1>3. QKnown'
  BY <1>2, QueueStep
<1>4. ASSUME QP!PushCas(h), tail' = tail
      PROVE  \E t \in QP!Old(tail) : QP!Load(h, t, "stamp")
  <2>1. QP!Succ(tail) # tail
    <3>1. tail \in QP!Position /\ tail \in Nat
      BY DEF QKnown, QP!TypeOK, QP!Position
    <3> QED
      BY <3>1, QP!SuccFacts, QueueAssumptions
  <2> QED
    BY <1>4, <2>1 DEF QP!PushCas
<1>5. ASSUME QP!PopCas(h), head' = head
      PROVE  \E t \in QP!Old(head) : QP!Load(h, t, "look")
  <2>1. QP!Succ(head) # head
    <3>1. head \in QP!Position /\ head \in Nat
      BY DEF QKnown, QP!TypeOK, QP!Position
    <3> QED
      BY <3>1, QP!SuccFacts, QueueAssumptions
  <2> QED
    BY <1>5, <2>1 DEF QP!PopCas
<1>6. QP!Silent(h) \/ QP!WriteSlot(h) \/ QP!ReadSlot(h)
  BY <1>1, <1>4, <1>5 DEF QP!Silent
<1>7. QP!Items' = QP!Items /\ QP!Taken' = QP!Taken
  <2>1. CASE QP!Silent(h)
    BY <1>3, <2>1, QP!SilentStep, QueueAssumptions DEF QKnown
  <2>2. CASE QP!WriteSlot(h) \/ QP!ReadSlot(h)
    BY <1>3, <2>2, QP!SlotAccess, QueueAssumptions DEF QKnown
  <2> QED
    BY <1>6, <2>1, <2>2
<1>8. qop' = qop /\
      \E l : /\ qpc' = [qpc EXCEPT ![h] = l]
             /\ \/ qpc[h] \in InPush /\ (qop[h] = "push" => l \in InPush)
                \/ qpc[h] \in InPop /\ l \in InPop
             /\ l \in {"write", "publish"} <=> qpc[h] \in {"write", "publish"}
             /\ l \in {"read", "free"} <=> qpc[h] \in {"read", "free"}
  <2> USE DEF QP!Goto, QP!Step, QP!Load, InPush, InPop
  <2>1. CASE QP!LoadTail(h) \/ QP!LoadHead(h)
    BY <2>1 DEF QP!LoadTail, QP!LoadHead
  <2>2. CASE QP!LoadStamp(h)
    BY <2>2 DEF QP!LoadStamp
  <2>3. CASE QP!LookAtStamp(h)
    BY <2>3 DEF QP!LookAtStamp
  <2>4. CASE QP!WriteSlot(h) \/ QP!PushNotFull(h)
    BY <2>4 DEF QP!WriteSlot, QP!PushNotFull
  <2>5. CASE QP!ReadSlot(h) \/ QP!PopNotEmpty(h)
    BY <2>5 DEF QP!ReadSlot, QP!PopNotEmpty
  <2>6. CASE QP!PushCas(h) /\ tail' = tail
    BY <1>4, <2>6 DEF QP!PushCas
  <2>7. CASE QP!PopCas(h) /\ head' = head
    BY <1>5, <2>7 DEF QP!PopCas
  <2> QED
    BY <1>1, <2>1, <2>2, <2>3, <2>4, <2>5, <2>6, <2>7
<1> QED
  BY <1>3, <1>7, <1>8

(* The steps that return from a call. *)
LEMMA ReturnEffect ==
  ASSUME QKnown, NEW h \in Handle,
         Q!Publish(h) \/ Q!FreeSlot(h) \/ Q!PushFull(h) \/ Q!PopEmpty(h)
  PROVE  /\ QKnown' /\ QP!Items' = QP!Items /\ QP!Taken' = QP!Taken
         /\ qpc' = [qpc EXCEPT ![h] = "idle"] /\ qop' = [qop EXCEPT ![h] = "none"]
         /\ Q!Publish(h)  => qpc[h] = "publish"
         /\ Q!FreeSlot(h) => qpc[h] = "free"
         /\ Q!PushFull(h) => qpc[h] = "full" /\ Len(QP!Items) = MaxWaiting
         /\ Q!PopEmpty(h) => qpc[h] = "empty" /\ Len(QP!Items) = 0
<1>1. /\ QP!Publish(h) \/ QP!FreeSlot(h) \/ QP!PushFull(h) \/ QP!PopEmpty(h)
      /\ Q!Publish(h) => QP!Publish(h)
      /\ Q!FreeSlot(h) => QP!FreeSlot(h)
      /\ Q!PushFull(h) => QP!PushFull(h)
      /\ Q!PopEmpty(h) => QP!PopEmpty(h)
  BY ActionSame
<1>2. QP!StepOf(h) /\ QP!Silent(h)
  BY <1>1 DEF QP!StepOf, QP!Running, QP!Silent
<1>3. QKnown'
  BY <1>2, QueueStep
<1>4. QP!Items' = QP!Items /\ QP!Taken' = QP!Taken
  BY <1>2, <1>3, QP!SilentStep, QueueAssumptions DEF QKnown
<1>5. qpc' = [qpc EXCEPT ![h] = "idle"] /\ qop' = [qop EXCEPT ![h] = "none"]
  BY <1>1 DEF QP!Publish, QP!FreeSlot, QP!PushFull, QP!PopEmpty, QP!Return, QP!Goto
<1>6. Len(QP!Items) = QP!QueueSize(head, tail)
  BY QP!ItemsSeq, QueueAssumptions DEF QKnown, QP!IsSeq
<1>7. QP!PushFull(h) => qpc[h] = "full" /\ Len(QP!Items) = MaxWaiting
  BY <1>6, QP!FullFacts, QueueAssumptions DEF QKnown, QP!PushFull
<1>8. QP!PopEmpty(h) => qpc[h] = "empty" /\ Len(QP!Items) = 0
  BY <1>6, QP!EmptyFacts, QueueAssumptions DEF QKnown, QP!PopEmpty
<1> QED
  BY <1>1, <1>3, <1>4, <1>5, <1>7, <1>8 DEF QP!Publish, QP!FreeSlot

-----------------------------------------------------------------------------
(* The steps that do not touch ArrayQueue *)

Aside(h) ==
  \/ Load(h) \/ CasSucceeds(h) \/ CasRetries(h)
  \/ SpinAgain(h) \/ ReturnNone(h) \/ BecomeFuture(h) \/ PollExhausted(h)
  \/ CheckPasses(h) \/ CheckFails(h)
  \/ Probe(h) \/ SetFlag(h) \/ Unregister(h) \/ Wake(h)
  \/ Poll(h) \/ DropRef(h) \/ UnblockRefs(h) \/ (\E f \in Api : Call(h, f))
  \/ /\ pc[h] = "register" /\ AlreadyRegistered(h) /\ Goto(h, "parked")
     /\ UNCHANGED <<count, frameVars>>

(* The steps of RefCountOnQueue, by what they do to ArrayQueue. *)
LEMMA QNextCases ==
  ASSUME QNext
  PROVE  \E h \in Handle :
           \/ Aside(h) /\ UNCHANGED qVars
           \/ QuietStep(h) \/ StartPush(h) \/ StartPop(h)
           \/ PushTakesEffect(h) \/ PopTakesEffect(h)
           \/ PushReturns(h) \/ PushComesBack(h) \/ PopReturns(h) \/ PopFindsNothing(h)
  BY Zenon DEF QNext, Running, LockStep, SkipRegister, Awaiting, Dropping, Aside

(* They leave the tasks in the queue, and the flags and hands of others. *)
WaitersStay(h) ==
  /\ DOMAIN queue' = DOMAIN queue
  /\ \A n \in DOMAIN queue : queue'[n].task = queue[n].task
  /\ \A k \in Handle \ {h} : registered'[k] => registered[k]
  /\ \A k \in Handle \ {h} :
       hand[k] # NoWaiter => hand'[k] # NoWaiter /\ hand'[k].task = hand[k].task

LEMMA WaitersStayFacts ==
  ASSUME WaiterTypeOK, NEW h \in Handle,
         \/ UNCHANGED waiterVars \/ UNCHANGED <<queue, registered, hand>>
         \/ WakeByRef(h) \/ DropFlag(h) \/ StoreRegistered(h) \/ SetUnregistered(h)
         \/ WakeTask(h)
  PROVE  WaitersStay(h)
<1>1. CASE UNCHANGED waiterVars \/ UNCHANGED <<queue, registered, hand>> \/ WakeByRef(h)
  BY <1>1 DEF waiterVars, WakeByRef, WaitersStay
<1>2. CASE StoreRegistered(h)
  BY <1>2 DEF StoreRegistered, WaitersStay, WaiterTypeOK
<1>3. CASE SetUnregistered(h)
  BY <1>3 DEF SetUnregistered, WaitersStay, WaiterTypeOK
<1>4. CASE WakeTask(h)
  BY <1>4 DEF WakeTask, WaitersStay, WaiterTypeOK
<1>5. CASE DropFlag(h)
  <2>1. \A w \in Waiter : Orphan(w, h).task = w.task /\ Orphan(w, h) # NoWaiter
    BY OrphanType, WaiterAssumption DEF Orphan, Waiter
  <2>2. \A n \in DOMAIN queue : queue[n] \in Waiter
    BY DEF WaiterTypeOK
  <2>3. \A k \in Handle : hand[k] # NoWaiter => hand[k] \in Waiter
    BY DEF WaiterTypeOK
  <2>4. DOMAIN queue' = DOMAIN queue /\ \A n \in DOMAIN queue : queue'[n] = Orphan(queue[n], h)
    BY <1>5 DEF DropFlag
  <2>5. \A k \in Handle : hand[k] # NoWaiter => hand'[k] = Orphan(hand[k], h)
    BY <1>5 DEF DropFlag
  <2>6. \A k \in Handle \ {h} : registered'[k] => registered[k]
    BY <1>5 DEF DropFlag, WaiterTypeOK
  <2> QED
    BY <2>1, <2>2, <2>3, <2>4, <2>5, <2>6 DEF WaitersStay
<1> QED
  BY <1>1, <1>2, <1>3, <1>4, <1>5

(* They are taken outside push and pop, and move only the handle itself.   *)
LEMMA AsideFacts ==
  ASSUME TypeInv, CallsFit, NEW h \in Handle, Aside(h)
  PROVE  /\ qpc[h] = "idle"
         /\ pc' = pc \/ \E l : pc' = [pc EXCEPT ![h] = l]
         /\ WaitersStay(h) /\ TypeInv'
<1> USE DEF Goto, Return, ParkWoken
<1>1. WaiterTypeOK
  BY DEF TypeInv, TypeOK
<1>2. Next
  BY Zenon DEF Aside, Next, Acquire, Release, Register
<1>3. TypeInv'
  BY <1>2, TypeStep
<1>4. /\ pc[h] \notin {"register", "pop_first", "pop"} => qpc[h] = "idle"
      /\ pc[h] = "register" /\ registered[h] => qpc[h] = "idle"
  BY DEF CallsFit
<1>5. CASE Load(h) \/ CasRetries(h) \/ SpinAgain(h) \/ ReturnNone(h) \/ CheckPasses(h)
           \/ DropRef(h) \/ UnblockRefs(h) \/ \E f \in Api : Call(h, f)
  <2>1. /\ UNCHANGED waiterVars
        /\ pc[h] \notin {"register", "pop_first", "pop"}
        /\ pc' = pc \/ \E l : pc' = [pc EXCEPT ![h] = l]
    BY <1>5 DEF Load, CasRetries, SpinAgain, ReturnNone, CheckPasses, DropRef, UnblockRefs,
       Call, CasFails, CasExhausted
  <2>2. qpc[h] = "idle"
    BY <1>4, <2>1
  <2>3. WaitersStay(h)
    BY <1>1, <2>1, WaitersStayFacts
  <2> QED
    BY Zenon, <1>3, <2>1, <2>2, <2>3
<1>6. CASE CasSucceeds(h)
  <2>1. /\ DropFlag(h)
        /\ pc[h] \notin {"register", "pop_first", "pop"}
        /\ \E l : pc' = [pc EXCEPT ![h] = l]
    BY <1>6 DEF CasSucceeds
  <2>2. qpc[h] = "idle"
    BY <1>4, <2>1
  <2>3. WaitersStay(h)
    BY <1>1, <2>1, WaitersStayFacts
  <2> QED
    BY Zenon, <1>3, <2>1, <2>2, <2>3
<1>7. CASE BecomeFuture(h) \/ PollExhausted(h) \/ CheckFails(h) \/ Probe(h)
  <2>1. /\ UNCHANGED waiterVars \/ WakeByRef(h)
        /\ pc[h] \notin {"register", "pop_first", "pop"}
        /\ pc' = pc \/ \E l : pc' = [pc EXCEPT ![h] = l]
    BY <1>7 DEF BecomeFuture, PollExhausted, CheckFails, Probe, CasFails, CasExhausted
  <2>2. qpc[h] = "idle"
    BY <1>4, <2>1
  <2>3. WaitersStay(h)
    BY <1>1, <2>1, WaitersStayFacts
  <2> QED
    BY Zenon, <1>3, <2>1, <2>2, <2>3
<1>8. CASE SetFlag(h) \/ Unregister(h) \/ Wake(h)
  <2>1. /\ StoreRegistered(h) \/ SetUnregistered(h) \/ WakeTask(h)
        /\ pc[h] \notin {"register", "pop_first", "pop"}
        /\ \E l : pc' = [pc EXCEPT ![h] = l]
    BY <1>8 DEF SetFlag, Unregister, Wake
  <2>2. qpc[h] = "idle"
    BY <1>4, <2>1
  <2>3. WaitersStay(h)
    BY <1>1, <2>1, WaitersStayFacts
  <2> QED
    BY Zenon, <1>3, <2>1, <2>2, <2>3
<1>9. CASE Poll(h)
  <2>1. /\ UNCHANGED <<queue, registered, hand>>
        /\ pc[h] \notin {"register", "pop_first", "pop"}
        /\ \E l : pc' = [pc EXCEPT ![h] = l]
    BY <1>9 DEF Poll, StartPoll
  <2>2. qpc[h] = "idle"
    BY <1>4, <2>1
  <2>3. WaitersStay(h)
    BY <1>1, <2>1, WaitersStayFacts
  <2> QED
    BY Zenon, <1>3, <2>1, <2>2, <2>3
<1>10. CASE /\ pc[h] = "register" /\ AlreadyRegistered(h) /\ Goto(h, "parked")
            /\ UNCHANGED <<count, frameVars>>
  <2>1. registered[h] /\ UNCHANGED waiterVars /\ \E l : pc' = [pc EXCEPT ![h] = l]
    BY <1>10 DEF AlreadyRegistered
  <2>2. qpc[h] = "idle"
    BY <1>4, <1>10, <2>1
  <2>3. WaitersStay(h)
    BY <1>1, <2>1, WaitersStayFacts
  <2> QED
    BY Zenon, <1>3, <2>1, <2>2, <2>3
<1> QED
  BY Zenon, <1>5, <1>6, <1>7, <1>8, <1>9, <1>10 DEF Aside

-----------------------------------------------------------------------------
(* The inductive invariant, with the contents of ArrayQueue as its proofs  *)
(* have them.                                                              *)

Tasks(q)  == [n \in DOMAIN q |-> q[n].task]
ItemsFit  == QP!Items = Tasks(queue)
TakenFit  == \A h \in Handle :
  qpc[h] \in {"read", "free"} => hand[h] # NoWaiter /\ QP!Taken[h] = hand[h].task
OnQueueInv == TypeInv /\ QKnown /\ CallsFit /\ ItemsFit /\ TakenFit

(* The tasks of a queue, after a push and after a pop. *)
LEMMA TasksFacts ==
  ASSUME NEW q \in Seq(Waiter), NEW S, NEW s \in Seq(S), s = Tasks(q)
  PROVE  Len(s) = Len(q) /\ (s = << >> <=> q = << >>)
<1>1. Len(s) \in Nat /\ Len(q) \in Nat /\ DOMAIN s = 1 .. Len(s) /\ DOMAIN q = 1 .. Len(q)
  OBVIOUS
<1>2. DOMAIN s = DOMAIN q
  BY DEF Tasks
<1>3. ASSUME NEW m \in Nat, NEW n \in Nat, 1 .. m = 1 .. n  PROVE m = n
  <2>1. m > n => m \in 1 .. m /\ m \notin 1 .. n
    OBVIOUS
  <2>2. n > m => n \in 1 .. n /\ n \notin 1 .. m
    OBVIOUS
  <2> QED
    BY <1>3, <2>1, <2>2
<1>4. Len(s) = Len(q)
  BY <1>1, <1>2, <1>3
<1> QED
  BY <1>1, <1>4

LEMMA TasksAppend ==
  ASSUME NEW q \in Seq(Waiter), NEW S, NEW s \in Seq(S), s = Tasks(q),
         NEW h \in Handle, h \in S
  PROVE  Append(s, h) = Tasks(Append(q, NewWaiter(h)))
<1> DEFINE n == Len(q)
           t == Append(s, h)
           r == Append(q, NewWaiter(h))
<1>1. NewWaiter(h) \in Waiter /\ NewWaiter(h).task = h
  BY DEF NewWaiter, Waiter
<1>2. Len(s) = n
  BY TasksFacts
<1>3. n \in Nat /\ DOMAIN q = 1 .. n
  OBVIOUS
<1>4. /\ t \in Seq(S) /\ Len(t) = n + 1 /\ DOMAIN t = 1 .. n + 1
      /\ \A i \in 1 .. n : t[i] = s[i]
      /\ t[n + 1] = h
  BY <1>2, <1>3
<1>5. /\ r \in Seq(Waiter) /\ Len(r) = n + 1 /\ DOMAIN r = 1 .. n + 1
      /\ \A i \in 1 .. n : r[i] = q[i]
      /\ r[n + 1] = NewWaiter(h)
  BY <1>1, <1>3
<1>6. \A i \in 1 .. n : s[i] = q[i].task
  BY <1>3 DEF Tasks
<1> HIDE DEF n, t, r
<1>7. ASSUME NEW i \in 1 .. n + 1  PROVE t[i] = r[i].task
  <2>1. CASE i \in 1 .. n
    BY <1>4, <1>5, <1>6, <2>1
  <2>2. CASE i = n + 1
    BY <1>1, <1>4, <1>5, <2>2
  <2> QED
    BY <1>3, <2>1, <2>2
<1>8. t = [i \in DOMAIN t |-> t[i]]
  <2>1. t \in [1 .. Len(t) -> S]
    BY <1>4, LenProperties
  <2> QED
    BY <2>1
<1>9. t = Tasks(r)
  BY <1>4, <1>5, <1>7, <1>8 DEF Tasks
<1> QED
  BY <1>9 DEF t, r

LEMMA TasksTail ==
  ASSUME NEW q \in Seq(Waiter), NEW S, NEW s \in Seq(S), s = Tasks(q), q # << >>
  PROVE  Tail(s) = Tasks(Tail(q)) /\ Head(s) = Head(q).task /\ Head(q) \in Waiter
<1> DEFINE n == Len(q)
           t == Tail(s)
           r == Tail(q)
<1>1. Len(s) = n /\ s # << >>
  BY TasksFacts
<1>2. n \in Nat \ {0} /\ DOMAIN q = 1 .. n /\ DOMAIN s = 1 .. n
  BY <1>1
<1>3. /\ t \in Seq(S) /\ Len(t) = n - 1 /\ DOMAIN t = 1 .. n - 1
      /\ \A i \in 1 .. n - 1 : t[i] = s[i + 1]
  BY <1>1, <1>2, HeadTailProperties
<1>4. /\ r \in Seq(Waiter) /\ Len(r) = n - 1 /\ DOMAIN r = 1 .. n - 1
      /\ \A i \in 1 .. n - 1 : r[i] = q[i + 1]
  BY <1>2, HeadTailProperties
<1>5. \A i \in 1 .. n : s[i] = q[i].task
  BY <1>2 DEF Tasks
<1>6. ASSUME NEW i \in 1 .. n - 1  PROVE t[i] = r[i].task
  BY <1>2, <1>3, <1>4, <1>5
<1>7. Head(s) = Head(q).task /\ Head(q) \in Waiter
  BY <1>1, <1>2, <1>5
<1> HIDE DEF n, t, r
<1>8. t = [i \in DOMAIN t |-> t[i]]
  <2>1. t \in [1 .. Len(t) -> S]
    BY <1>3, LenProperties
  <2> QED
    BY <2>1
<1>9. t = Tasks(r)
  BY <1>3, <1>4, <1>6, <1>8 DEF Tasks
<1> QED
  BY <1>7, <1>9 DEF t, r

LEMMA ItemsLen ==
  ASSUME OnQueueInv
  PROVE  /\ queue \in Seq(Waiter) /\ QP!Items \in Seq(Handle \cup {NoWaiter})
         /\ Len(QP!Items) = Len(queue) /\ (QP!Items = << >> <=> queue = << >>)
<1>1. queue \in Seq(Waiter) /\ QP!Items = Tasks(queue)
  BY DEF OnQueueInv, TypeInv, TypeOK, WaiterTypeOK, ItemsFit
<1>2. QP!Items \in Seq(Handle \cup {NoWaiter})
  BY QP!ItemsSeq, QueueAssumptions DEF OnQueueInv, QKnown, QP!IsSeq
<1> QED
  BY <1>1, <1>2, TasksFacts

-----------------------------------------------------------------------------
(* The invariant is inductive. *)

LEMMA QueueLocals ==
  ASSUME QKnown
  PROVE  DOMAIN qpc = Handle /\ DOMAIN qop = Handle /\ DOMAIN QP!Taken = Handle
  BY DEF QKnown, QP!TypeOK, QP!Taken

LEMMA AsideKeeps ==
  ASSUME OnQueueInv, NEW h \in Handle, Aside(h), UNCHANGED qVars
  PROVE  OnQueueInv'
<1>1. TypeInv /\ QKnown /\ CallsFit /\ ItemsFit /\ TakenFit
  BY DEF OnQueueInv
<1>2. /\ qpc[h] = "idle" /\ WaitersStay(h) /\ TypeInv'
      /\ pc' = pc \/ \E l : pc' = [pc EXCEPT ![h] = l]
  BY <1>1, AsideFacts
<1>3. QKnown' /\ QP!Items' = QP!Items /\ QP!Taken' = QP!Taken
  BY <1>1, QueueStutter
<1>4. qpc' = qpc /\ qop' = qop
  BY DEF qVars
<1>5. \A k \in Handle \ {h} : pc'[k] = pc[k]
  BY <1>1, <1>2 DEF TypeInv, TypeOK
<1>6. CallsFit'
  BY <1>1, <1>2, <1>4, <1>5 DEF CallsFit, WaitersStay
<1>7. ItemsFit'
  BY <1>1, <1>2, <1>3 DEF ItemsFit, Tasks, WaitersStay
<1>8. TakenFit'
  BY <1>1, <1>2, <1>3, <1>4 DEF TakenFit, WaitersStay
<1> QED
  BY <1>2, <1>3, <1>6, <1>7, <1>8 DEF OnQueueInv

LEMMA QuietKeepsFit ==
  ASSUME OnQueueInv, NEW h \in Handle, QuietStep(h)
  PROVE  OnQueueInv'
<1>1. TypeInv /\ QKnown /\ CallsFit /\ ItemsFit /\ TakenFit
  BY DEF OnQueueInv
<1>2. UNCHANGED vars
  BY DEF QuietStep
<1>3. /\ QKnown' /\ QP!Items' = QP!Items /\ QP!Taken' = QP!Taken /\ qop' = qop
      /\ \E l : /\ qpc' = [qpc EXCEPT ![h] = l]
                /\ \/ qpc[h] \in InPush /\ (qop[h] = "push" => l \in InPush)
                   \/ qpc[h] \in InPop /\ l \in InPop
                /\ l \in {"write", "publish"} <=> qpc[h] \in {"write", "publish"}
                /\ l \in {"read", "free"} <=> qpc[h] \in {"read", "free"}
  BY <1>1, MiddleEffect DEF QuietStep
<1>4. PICK l : /\ qpc' = [qpc EXCEPT ![h] = l]
               /\ \/ qpc[h] \in InPush /\ (qop[h] = "push" => l \in InPush)
                  \/ qpc[h] \in InPop /\ l \in InPop
               /\ l \in {"write", "publish"} <=> qpc[h] \in {"write", "publish"}
               /\ l \in {"read", "free"} <=> qpc[h] \in {"read", "free"}
  BY <1>3
<1>5. TypeInv'
  BY <1>1, <1>2, TypeStep
<1>6. CallsFit'
  BY <1>1, <1>2, <1>3, <1>4, QueueLocals DEF CallsFit, vars, InPush, InPop
<1>7. ItemsFit'
  BY <1>1, <1>2, <1>3 DEF ItemsFit, vars
<1>8. TakenFit'
  BY <1>1, <1>2, <1>3, <1>4, QueueLocals DEF TakenFit, vars
<1> QED
  BY <1>3, <1>5, <1>6, <1>7, <1>8 DEF OnQueueInv

LEMMA StartKeepsFit ==
  ASSUME OnQueueInv, NEW h \in Handle, StartPush(h) \/ StartPop(h)
  PROVE  OnQueueInv' /\ UNCHANGED vars /\ qpc[h] = "idle"
         /\ \E l \in {"tail", "head"} : qpc' = [qpc EXCEPT ![h] = l]
<1>1. TypeInv /\ QKnown /\ CallsFit /\ ItemsFit /\ TakenFit
  BY DEF OnQueueInv
<1>2. PICK f \in {"push", "pop"} :
        /\ Q!Start(h, f) /\ UNCHANGED vars
        /\ f = "push" => pc[h] = "register" /\ ~registered[h]
        /\ f = "pop" => pc[h] \in {"pop_first", "pop"}
  BY DEF StartPush, StartPop
<1>3. /\ QKnown'
      /\ qpc[h] = "idle" /\ qpc' = [qpc EXCEPT ![h] = IF f = "push" THEN "tail" ELSE "head"]
      /\ qop' = [qop EXCEPT ![h] = f]
      /\ QP!Items' = QP!Items
      /\ QP!Taken' = [QP!Taken EXCEPT ![h] = NoWaiter]
  BY <1>1, <1>2, StartEffect
<1>4. TypeInv'
  BY <1>1, <1>2, TypeStep
<1>5. CallsFit'
  BY <1>1, <1>2, <1>3, QueueLocals DEF CallsFit, vars, InPush, InPop
<1>6. ItemsFit'
  BY <1>1, <1>2, <1>3 DEF ItemsFit, vars
<1>7. TakenFit'
  BY <1>1, <1>2, <1>3, QueueLocals DEF TakenFit, vars
<1> QED
  BY <1>2, <1>3, <1>4, <1>5, <1>6, <1>7 DEF OnQueueInv

(* The steps of push and pop leave the count and the locals of RefCount. *)
LEMMA FrameKept ==
  ASSUME TypeInv, WaiterTypeOK', UNCHANGED <<count, frameVars>>,
         NEW h \in Handle, NEW l \in PCs \ {"check", "owner_parked"},
         pc' = pc \/ Goto(h, l)
  PROVE  TypeInv'
  BY DEF TypeInv, TypeOK, LooksBounded, frameVars, Goto

LEMMA PushKeepsFit ==
  ASSUME OnQueueInv, NEW h \in Handle, PushTakesEffect(h)
  PROVE  /\ OnQueueInv' /\ PushWaiter(h)
         /\ pc[h] = "register" /\ qpc[h] = "push_cas" /\ qpc' = [qpc EXCEPT ![h] = "write"]
<1>1. TypeInv /\ QKnown /\ CallsFit /\ ItemsFit /\ TakenFit
  BY DEF OnQueueInv
<1>2. /\ Q!PushCas(h) /\ tail' # tail /\ queue' = Append(queue, NewWaiter(h))
      /\ UNCHANGED <<count, pc, frameVars, registered, woken, hand>>
  BY DEF PushTakesEffect
<1>3. /\ QKnown'
      /\ qpc[h] = "push_cas" /\ qpc' = [qpc EXCEPT ![h] = "write"] /\ qop' = qop
      /\ Len(QP!Items) < MaxWaiting /\ QP!Items' = Append(QP!Items, h)
      /\ QP!Taken' = QP!Taken
  BY <1>1, <1>2, PushEffect
<1>4. pc[h] = "register" /\ ~registered[h] /\ qop[h] = "push"
  BY <1>1, <1>3 DEF CallsFit, InPush, InPop
<1>5. PushWaiter(h)
  BY <1>2, <1>3, <1>4, ItemsLen DEF PushWaiter
<1>6. TypeInv'
  <2>1. WaiterTypeOK'
    BY <1>1, <1>5, WaiterOpType DEF TypeInv, TypeOK
  <2>2. UNCHANGED <<count, frameVars>> /\ pc' = pc /\ "register" \in PCs \ {"check", "owner_parked"}
    BY <1>2 DEF PCs
  <2> QED
    BY <1>1, <2>1, <2>2, FrameKept
<1>7. CallsFit'
  BY <1>1, <1>2, <1>3, <1>4, QueueLocals DEF CallsFit, InPush, InPop
<1>8. ItemsFit'
  <2>1. Append(QP!Items, h) = Tasks(Append(queue, NewWaiter(h)))
    BY <1>1, ItemsLen, TasksAppend DEF ItemsFit
  <2> QED
    BY <1>2, <1>3, <2>1 DEF ItemsFit
<1>9. TakenFit'
  BY <1>1, <1>2, <1>3, QueueLocals DEF TakenFit
<1> QED
  BY <1>3, <1>4, <1>5, <1>6, <1>7, <1>8, <1>9 DEF OnQueueInv

LEMMA PopKeepsFit ==
  ASSUME OnQueueInv, NEW h \in Handle, PopTakesEffect(h)
  PROVE  /\ OnQueueInv' /\ PopWaiter(h)
         /\ pc[h] \in {"pop_first", "pop"}
         /\ qpc[h] = "pop_cas" /\ qpc' = [qpc EXCEPT ![h] = "read"]
<1>1. TypeInv /\ QKnown /\ CallsFit /\ ItemsFit /\ TakenFit
  BY DEF OnQueueInv
<1>2. /\ Q!PopCas(h) /\ head' # head /\ queue' = Tail(queue)
      /\ hand' = [hand EXCEPT ![h] = Head(queue)]
      /\ UNCHANGED <<count, pc, frameVars, registered, woken>>
  BY DEF PopTakesEffect
<1>3. /\ QKnown'
      /\ qpc[h] = "pop_cas" /\ qpc' = [qpc EXCEPT ![h] = "read"] /\ qop' = qop
      /\ QP!Items # << >> /\ QP!Items' = Tail(QP!Items)
      /\ QP!Taken' = [QP!Taken EXCEPT ![h] = Head(QP!Items)]
  BY <1>1, <1>2, PopEffect
<1>4. pc[h] \in {"pop_first", "pop"} /\ qop[h] = "pop"
  BY <1>1, <1>3 DEF CallsFit, InPush, InPop
<1>5. PopWaiter(h)
  BY <1>2, <1>3, ItemsLen DEF PopWaiter
<1>6. TypeInv'
  <2>1. WaiterTypeOK'
    BY <1>1, <1>5, WaiterOpType DEF TypeInv, TypeOK
  <2>2. UNCHANGED <<count, frameVars>> /\ pc' = pc /\ "pop" \in PCs \ {"check", "owner_parked"}
    BY <1>2 DEF PCs
  <2> QED
    BY <1>1, <2>1, <2>2, FrameKept
<1>7. CallsFit'
  BY <1>1, <1>2, <1>3, <1>4, QueueLocals DEF CallsFit, InPush, InPop
<1>8. /\ Tail(QP!Items) = Tasks(Tail(queue)) /\ Head(QP!Items) = Head(queue).task
      /\ Head(queue) \in Waiter
  BY <1>1, <1>3, ItemsLen, TasksTail DEF ItemsFit
<1>9. ItemsFit'
  BY <1>2, <1>3, <1>8 DEF ItemsFit
<1>10. TakenFit'
  <2>1. hand'[h] # NoWaiter /\ QP!Taken'[h] = hand'[h].task
    BY <1>1, <1>2, <1>3, <1>8, QueueLocals, WaiterAssumption
       DEF TypeInv, TypeOK, WaiterTypeOK
  <2>2. \A k \in Handle \ {h} : hand'[k] = hand[k] /\ QP!Taken'[k] = QP!Taken[k] /\ qpc'[k] = qpc[k]
    BY <1>1, <1>2, <1>3, QueueLocals DEF TypeInv, TypeOK, WaiterTypeOK
  <2> QED
    BY <1>1, <2>1, <2>2 DEF TakenFit
<1> QED
  BY <1>3, <1>4, <1>5, <1>6, <1>7, <1>9, <1>10 DEF OnQueueInv

LEMMA ReturnKeepsFit ==
  ASSUME OnQueueInv, NEW h \in Handle,
         PushReturns(h) \/ PushComesBack(h) \/ PopReturns(h) \/ PopFindsNothing(h)
  PROVE  /\ OnQueueInv' /\ qpc' = [qpc EXCEPT ![h] = "idle"]
         /\ PushReturns(h) => pc[h] = "register" /\ qpc[h] = "publish"
         /\ PushComesBack(h) => pc[h] = "register" /\ qpc[h] = "full" /\ PushRefused(h)
         /\ PopReturns(h) => pc[h] \in {"pop_first", "pop"} /\ qpc[h] = "free"
         /\ PopFindsNothing(h) =>
              pc[h] \in {"pop_first", "pop"} /\ qpc[h] = "empty" /\ PopNothing
<1>1. TypeInv /\ QKnown /\ CallsFit /\ ItemsFit /\ TakenFit
  BY DEF OnQueueInv
<1>2. /\ QKnown' /\ QP!Items' = QP!Items /\ QP!Taken' = QP!Taken
      /\ qpc' = [qpc EXCEPT ![h] = "idle"] /\ qop' = [qop EXCEPT ![h] = "none"]
      /\ Q!Publish(h)  => qpc[h] = "publish"
      /\ Q!FreeSlot(h) => qpc[h] = "free"
      /\ Q!PushFull(h) => qpc[h] = "full" /\ Len(QP!Items) = MaxWaiting
      /\ Q!PopEmpty(h) => qpc[h] = "empty" /\ Len(QP!Items) = 0
  BY <1>1, ReturnEffect DEF PushReturns, PushComesBack, PopReturns, PopFindsNothing
<1>3. PushReturns(h) => pc[h] = "register" /\ qpc[h] = "publish"
  BY <1>1, <1>2 DEF PushReturns, CallsFit, InPush, InPop
<1>4. PushComesBack(h) => pc[h] = "register" /\ qpc[h] = "full" /\ PushRefused(h)
  <2> SUFFICES ASSUME PushComesBack(h)
               PROVE  pc[h] = "register" /\ qpc[h] = "full" /\ PushRefused(h)
    OBVIOUS
  <2>1. Q!PushFull(h) /\ qpc[h] = "full" /\ Len(queue) = MaxWaiting
    BY <1>2, ItemsLen DEF PushComesBack
  <2>2. pc[h] = "register" /\ ~registered[h]
    BY <1>1, <2>1 DEF CallsFit, InPush, InPop
  <2> QED
    BY <2>1, <2>2, WaiterAssumption DEF PushComesBack, PushRefused
<1>5. PopReturns(h) => pc[h] \in {"pop_first", "pop"} /\ qpc[h] = "free"
  BY <1>1, <1>2 DEF PopReturns, CallsFit, InPush, InPop
<1>6. PopFindsNothing(h) =>
        pc[h] \in {"pop_first", "pop"} /\ qpc[h] = "empty" /\ PopNothing
  <2> SUFFICES ASSUME PopFindsNothing(h)
               PROVE  pc[h] \in {"pop_first", "pop"} /\ qpc[h] = "empty" /\ PopNothing
    OBVIOUS
  <2>1. Q!PopEmpty(h) /\ qpc[h] = "empty" /\ Len(queue) = 0 /\ UNCHANGED waiterVars
    BY <1>2, ItemsLen DEF PopFindsNothing
  <2>2. pc[h] \in {"pop_first", "pop"}
    BY <1>1, <2>1 DEF CallsFit, InPush, InPop
  <2>3. queue = << >>
    BY <2>1, ItemsLen
  <2> QED
    BY <2>1, <2>2, <2>3 DEF PopNothing
<1>7. /\ \E l \in PCs \ {"check", "owner_parked"} : Goto(h, l)
      /\ UNCHANGED <<count, frameVars, queue, hand>>
      /\ UNCHANGED waiterVars \/ PushRefused(h)
      /\ \A k \in Handle \ {h} : registered'[k] = registered[k]
  <2>1. CASE PushReturns(h)
    BY <2>1 DEF PushReturns, waiterVars, PCs
  <2>2. CASE PushComesBack(h)
    BY <1>1, <1>4, <2>2 DEF PushComesBack, PCs, TypeInv, TypeOK, WaiterTypeOK
  <2>3. CASE PopReturns(h)
    BY <2>3 DEF PopReturns, waiterVars, PCs
  <2>4. CASE PopFindsNothing(h)
    BY <2>4 DEF PopFindsNothing, waiterVars, PCs, Finished
  <2> QED
    BY <2>1, <2>2, <2>3, <2>4
<1>8. TypeInv'
  <2>1. WaiterTypeOK'
    BY <1>1, <1>7, WaiterOpType DEF TypeInv, TypeOK
  <2> QED
    BY <1>1, <1>7, <2>1, FrameKept
<1>9. \A k \in Handle \ {h} : pc'[k] = pc[k]
  BY <1>1, <1>7 DEF Goto, TypeInv, TypeOK
<1>10. CallsFit'
  BY <1>1, <1>2, <1>7, <1>9, QueueLocals DEF CallsFit
<1>11. ItemsFit'
  BY <1>1, <1>2, <1>7 DEF ItemsFit
<1>12. TakenFit'
  BY <1>1, <1>2, <1>7, QueueLocals DEF TakenFit
<1> QED
  BY <1>2, <1>3, <1>4, <1>5, <1>6, <1>8, <1>10, <1>11, <1>12 DEF OnQueueInv

LEMMA OnQueueStep ==
  ASSUME OnQueueInv, [QNext]_allVars
  PROVE  OnQueueInv'
<1>1. CASE QNext
  <2>1. PICK h \in Handle :
           \/ Aside(h) /\ UNCHANGED qVars
           \/ QuietStep(h) \/ StartPush(h) \/ StartPop(h)
           \/ PushTakesEffect(h) \/ PopTakesEffect(h)
           \/ PushReturns(h) \/ PushComesBack(h) \/ PopReturns(h) \/ PopFindsNothing(h)
    BY <1>1, QNextCases
  <2> QED
    BY <2>1, AsideKeeps, QuietKeepsFit, StartKeepsFit, PushKeepsFit, PopKeepsFit,
       ReturnKeepsFit
<1>2. CASE UNCHANGED allVars
  <2>1. UNCHANGED vars /\ UNCHANGED qVars
    BY <1>2 DEF allVars
  <2>2. TypeInv'
    BY <2>1, TypeStep DEF OnQueueInv
  <2>3. QKnown' /\ QP!Items' = QP!Items /\ QP!Taken' = QP!Taken
    BY <2>1, QueueStutter DEF OnQueueInv
  <2> QED
    BY <2>1, <2>2, <2>3 DEF OnQueueInv, CallsFit, ItemsFit, TakenFit, vars, qVars
<1> QED
  BY <1>1, <1>2

LEMMA OnQueueInit ==
  ASSUME QInit
  PROVE  OnQueueInv
<1>1. TypeInv
  BY TypeInit DEF QInit
<1>2. QP!Init
  BY StateSame DEF QInit
<1>3. QKnown
  BY <1>2, QP!TypeInit, QP!StampInit, QueueAssumptions DEF QKnown
<1>4. QP!Items = << >>
  BY <1>2, QP!ItemsInit, QueueAssumptions
<1>5. qpc = [h \in Handle |-> "idle"] /\ queue = << >>
  BY <1>2 DEF QInit, QP!Init, Init, WaiterInit
<1>6. ItemsFit
  BY <1>4, <1>5 DEF ItemsFit, Tasks
<1> QED
  BY <1>1, <1>3, <1>5, <1>6 DEF OnQueueInv, CallsFit, TakenFit

-----------------------------------------------------------------------------
(* RefCount and ArrayQueue never disagree: the stamps stand for the        *)
(* Waiters that an atomic queue would hold, in that order, and a handle is *)
(* inside push or pop only where try_register_future! and unblock_refs     *)
(* call them.                                                              *)
THEOREM OnQueueInvariant == QSpec => []QueueInv
<1>1. QInit => OnQueueInv
  BY OnQueueInit
<1>2. OnQueueInv /\ [QNext]_allVars => OnQueueInv'
  BY OnQueueStep
<1>3. OnQueueInv => QueueInv
  <2> SUFFICES ASSUME OnQueueInv PROVE QueueInv
    OBVIOUS
  <2>1. Q!StampInv
    BY StateSame DEF OnQueueInv, QKnown
  <2>2. SameItems
    BY StateSame DEF OnQueueInv, ItemsFit, SameItems, Tasks
  <2>3. SameTaken
    BY StateSame DEF OnQueueInv, TakenFit, SameTaken
  <2> QED
    BY <2>1, <2>2, <2>3 DEF OnQueueInv, QueueInv
<1> QED
  BY <1>1, <1>2, <1>3, PTL DEF QSpec

(* The Waiter that a pop of unblock_refs hands over is the one that has    *)
(* waited longest.                                                         *)
THEOREM WakesTheLongestWaiting == QSpec => []PoppedIsHead
<1>1. QInit => OnQueueInv
  BY OnQueueInit
<1>2. OnQueueInv /\ [QNext]_allVars => OnQueueInv'
  BY OnQueueStep
<1>3. OnQueueInv => PoppedIsHead
  BY DEF OnQueueInv, TakenFit, PoppedIsHead, QP!Taken
<1> QED
  BY <1>1, <1>2, <1>3, PTL DEF QSpec

-----------------------------------------------------------------------------
(* RefCount on ArrayQueue implements RefCount on an atomic queue. *)

(* A handle outside push and pop is where it is; moving it moves it there. *)
LEMMA AtomicMove ==
  ASSUME TypeInv, NEW h \in Handle, qpc[h] = "idle", qpc' = qpc, NEW l, Goto(h, l)
  PROVE  AtomicPc[h] = pc[h] /\ AP!Goto(h, l)
<1>1. AtomicPc[h] = pc[h]
  BY DEF AtomicPc
<1>2. pc'[h] = l /\ \A k \in Handle \ {h} : pc'[k] = pc[k]
  BY DEF Goto, TypeInv, TypeOK
<1>3. AtomicPc'[h] = l
  BY <1>2 DEF AtomicPc
<1>4. \A k \in Handle \ {h} : AtomicPc'[k] = AtomicPc[k]
  BY <1>2 DEF AtomicPc
<1>5. DOMAIN AtomicPc = Handle /\ DOMAIN AtomicPc' = Handle
      /\ AtomicPc = [k \in Handle |-> AtomicPc[k]] /\ AtomicPc' = [k \in Handle |-> AtomicPc'[k]]
  BY DEF AtomicPc
<1>6. AtomicPc' = [AtomicPc EXCEPT ![h] = l]
  BY <1>3, <1>4, <1>5
<1> QED
  BY <1>1, <1>6 DEF AP!Goto

(* A step that does not touch ArrayQueue is the same step. *)
LEMMA AsideIsAtomic ==
  ASSUME OnQueueInv, NEW h \in Handle, Aside(h), UNCHANGED qVars
  PROVE  AP!Next
<1>1. qpc[h] = "idle" /\ qpc' = qpc /\ TypeInv
  BY AsideFacts DEF OnQueueInv, qVars
<1>2. AtomicPc[h] = pc[h]
  BY <1>1 DEF AtomicPc
<1>3. \A l : Goto(h, l) => AP!Goto(h, l)
  BY <1>1, AtomicMove
<1>4. pc' = pc => AtomicPc' = AtomicPc
  BY <1>1 DEF AtomicPc
<1>5. registered[h] /\ UNCHANGED waiterVars /\ pc[h] = "register" /\ Goto(h, "parked")
        /\ UNCHANGED <<count, frameVars>> => AP!Register(h)
  BY Zenon, <1>2, <1>3
     DEF AP!Register, AP!AlreadyRegistered, AP!waiterVars, waiterVars, AP!frameVars, frameVars
<1> USE DEF AP!MaskCount, MaskCount, AP!StandardRefCount, StandardRefCount,
            AP!BlockState, BlockState, AP!WithBlock, WithBlock, AP!AddRef, AddRef,
            AP!SubRef, SubRef, AP!WordSize, WordSize, AP!REF_ALLOWED, REF_ALLOWED,
            AP!REF_BLOCKED, REF_BLOCKED, AP!REF_INCR, REF_INCR, AP!NextWord, NextWord,
            AP!RefOps, RefOps, AP!BlockOps, BlockOps, AP!ExclOps, ExclOps, AP!Return,
            Return, AP!ParkWoken, ParkWoken, AP!Finished, Finished, AP!FutureOf,
            FutureOf, AP!frameVars, frameVars, AP!CasFails, CasFails, AP!CasExhausted,
            CasExhausted, AP!StartPoll, StartPoll, AP!waiterVars, waiterVars,
            AP!WakeByRef, WakeByRef, AP!DropFlag, DropFlag, AP!Orphan, Orphan,
            AP!StoreRegistered, StoreRegistered, AP!SetUnregistered, SetUnregistered,
            AP!FlagsHit, FlagsHit, AP!WakeTask, WakeTask, AP!AlreadyRegistered,
            AlreadyRegistered
<1>6. Load(h) => AP!Load(h)
  BY Zenon, <1>2, <1>3, <1>4 DEF AP!Load, Load
<1>7. CasSucceeds(h) => AP!CasSucceeds(h)
  BY Zenon, <1>2, <1>3, <1>4 DEF AP!CasSucceeds, CasSucceeds
<1>8. CasRetries(h) => AP!CasRetries(h)
  BY Zenon, <1>2, <1>3, <1>4 DEF AP!CasRetries, CasRetries
<1>9. SpinAgain(h) => AP!SpinAgain(h)
  BY Zenon, <1>2, <1>3, <1>4 DEF AP!SpinAgain, SpinAgain
<1>10. ReturnNone(h) => AP!ReturnNone(h)
  BY Zenon, <1>2, <1>3, <1>4 DEF AP!ReturnNone, ReturnNone
<1>11. BecomeFuture(h) => AP!BecomeFuture(h)
  BY Zenon, <1>2, <1>3, <1>4 DEF AP!BecomeFuture, BecomeFuture
<1>12. PollExhausted(h) => AP!PollExhausted(h)
  BY Zenon, <1>2, <1>3, <1>4 DEF AP!PollExhausted, PollExhausted
<1>13. CheckPasses(h) => AP!CheckPasses(h)
  BY Zenon, <1>2, <1>3, <1>4 DEF AP!CheckPasses, CheckPasses
<1>14. CheckFails(h) => AP!CheckFails(h)
  BY Zenon, <1>2, <1>3, <1>4 DEF AP!CheckFails, CheckFails
<1>15. Probe(h) => AP!Probe(h)
  BY Zenon, <1>2, <1>3, <1>4 DEF AP!Probe, Probe
<1>16. SetFlag(h) => AP!SetFlag(h)
  BY Zenon, <1>2, <1>3, <1>4 DEF AP!SetFlag, SetFlag
<1>17. Unregister(h) => AP!Unregister(h)
  BY Zenon, <1>2, <1>3, <1>4 DEF AP!Unregister, Unregister
<1>18. Wake(h) => AP!Wake(h)
  BY Zenon, <1>2, <1>3, <1>4 DEF AP!Wake, Wake
<1>19. Poll(h) => AP!Poll(h)
  BY Zenon, <1>2, <1>3, <1>4 DEF AP!Poll, Poll
<1>20. DropRef(h) => AP!DropRef(h)
  BY Zenon, <1>2, <1>3, <1>4 DEF AP!DropRef, DropRef
<1>21. UnblockRefs(h) => AP!UnblockRefs(h)
  BY Zenon, <1>2, <1>3, <1>4 DEF AP!UnblockRefs, UnblockRefs
<1>22. ASSUME NEW f \in Api, Call(h, f)  PROVE AP!Call(h, f)
  BY Zenon, <1>2, <1>3, <1>22 DEF AP!Call, Call
<1> QED
  BY Zenon, <1>5, <1>6, <1>7, <1>8, <1>9, <1>10, <1>11, <1>12, <1>13, <1>14, <1>15,
     <1>16, <1>17, <1>18, <1>19, <1>20, <1>21, <1>22
     DEF Aside, AP!Next, AP!Acquire, AP!Release

(* The two instances of RefCount are one. *)
LEMMA AtomicSame ==
  /\ AP!Init => Atomic!Init
  /\ AP!Next => Atomic!Next
  /\ AP!vars = Atomic!vars
<1>1. AP!Init => Atomic!Init
  BY Zenon DEF AP!Init, Atomic!Init, AP!WaiterInit, Atomic!WaiterInit, AP!REF_ALLOWED,
     Atomic!REF_ALLOWED
<1>2. AP!Next => Atomic!Next
  BY Zenon DEF AP!Next, Atomic!Next, AP!Call, Atomic!Call, AP!Acquire, Atomic!Acquire,
     AP!Release, Atomic!Release, AP!Load, Atomic!Load, AP!CasSucceeds,
     Atomic!CasSucceeds, AP!CasRetries, Atomic!CasRetries, AP!SpinAgain,
     Atomic!SpinAgain, AP!ReturnNone, Atomic!ReturnNone, AP!BecomeFuture,
     Atomic!BecomeFuture, AP!PollExhausted, Atomic!PollExhausted, AP!CheckPasses,
     Atomic!CheckPasses, AP!CheckFails, Atomic!CheckFails, AP!Probe, Atomic!Probe,
     AP!Register, Atomic!Register, AP!SetFlag, Atomic!SetFlag, AP!PopFirst,
     Atomic!PopFirst, AP!PopNext, Atomic!PopNext, AP!Unregister, Atomic!Unregister,
     AP!Wake, Atomic!Wake, AP!Poll, Atomic!Poll, AP!SpuriousPoll, Atomic!SpuriousPoll,
     AP!Cancel, Atomic!Cancel, AP!DropRef, Atomic!DropRef, AP!UnblockRefs,
     Atomic!UnblockRefs, AP!MaskCount, Atomic!MaskCount, AP!StandardRefCount,
     Atomic!StandardRefCount, AP!BlockState, Atomic!BlockState, AP!WithBlock,
     Atomic!WithBlock, AP!AddRef, Atomic!AddRef, AP!SubRef, Atomic!SubRef, AP!WordSize,
     Atomic!WordSize, AP!REF_ALLOWED, Atomic!REF_ALLOWED, AP!REF_BLOCKED,
     Atomic!REF_BLOCKED, AP!REF_INCR, Atomic!REF_INCR, AP!NextWord, Atomic!NextWord,
     AP!RefOps, Atomic!RefOps, AP!BlockOps, Atomic!BlockOps, AP!ExclOps,
     Atomic!ExclOps, AP!Return, Atomic!Return, AP!Goto, Atomic!Goto, AP!ParkWoken,
     Atomic!ParkWoken, AP!Finished, Atomic!Finished, AP!FutureOf, Atomic!FutureOf,
     AP!frameVars, Atomic!frameVars, AP!CasFails, Atomic!CasFails, AP!CasExhausted,
     Atomic!CasExhausted, AP!StartPoll, Atomic!StartPoll, AP!waiterVars,
     Atomic!waiterVars, AP!WakeByRef, Atomic!WakeByRef, AP!DropFlag, Atomic!DropFlag,
     AP!Orphan, Atomic!Orphan, AP!NewWaiter, Atomic!NewWaiter, AP!StoreRegistered,
     Atomic!StoreRegistered, AP!SetUnregistered, Atomic!SetUnregistered, AP!FlagsHit,
     Atomic!FlagsHit, AP!WakeTask, Atomic!WakeTask, AP!AlreadyRegistered,
     Atomic!AlreadyRegistered, AP!PushWaiter, Atomic!PushWaiter, AP!PushRefused,
     Atomic!PushRefused, AP!PopWaiter, Atomic!PopWaiter, AP!PopNothing,
     Atomic!PopNothing
<1>3. AP!vars = Atomic!vars
  BY Zenon DEF AP!vars, Atomic!vars
<1> QED
  BY Zenon, <1>1, <1>2, <1>3

(* Where the atomic RefCount has the handle that moves, and the others.    *)
LEMMA AtomicGoto ==
  ASSUME NEW h \in Handle, NEW l, AtomicPc'[h] = l,
         \A k \in Handle \ {h} : pc'[k] = pc[k] /\ qpc'[k] = qpc[k]
  PROVE  AP!Goto(h, l) /\ (AtomicPc[h] = l => AtomicPc' = AtomicPc)
<1>1. \A k \in Handle \ {h} : AtomicPc'[k] = AtomicPc[k]
  BY DEF AtomicPc
<1>2. DOMAIN AtomicPc = Handle /\ DOMAIN AtomicPc' = Handle
      /\ AtomicPc = [k \in Handle |-> AtomicPc[k]] /\ AtomicPc' = [k \in Handle |-> AtomicPc'[k]]
  BY DEF AtomicPc
<1>3. AtomicPc' = [AtomicPc EXCEPT ![h] = l]
  BY <1>1, <1>2
<1>4. AtomicPc[h] = l => AtomicPc' = AtomicPc
  BY <1>1, <1>2
<1> QED
  BY <1>3, <1>4 DEF AP!Goto

(* Inside push and pop, only the compare-and-swap that moves the tail or   *)
(* the head, and the return from a push that found the queue full or a pop *)
(* that found it empty, are steps of the atomic queue.                     *)
LEMMA CallIsAtomic ==
  ASSUME OnQueueInv, NEW h \in Handle,
         \/ QuietStep(h) \/ StartPush(h) \/ StartPop(h)
         \/ PushTakesEffect(h) \/ PopTakesEffect(h)
         \/ PushReturns(h) \/ PushComesBack(h) \/ PopReturns(h) \/ PopFindsNothing(h)
  PROVE  AP!Next \/ UNCHANGED AP!vars
<1> USE DEF AP!waiterVars, waiterVars, AP!frameVars, frameVars
<1>1. TypeInv /\ QKnown
  BY DEF OnQueueInv
<1>2. \A l : qpc' = [qpc EXCEPT ![h] = l] =>
             qpc'[h] = l /\ \A k \in Handle \ {h} : qpc'[k] = qpc[k]
  BY <1>1, QueueLocals
<1>3. \A l : Goto(h, l) => pc'[h] = l /\ \A k \in Handle \ {h} : pc'[k] = pc[k]
  BY <1>1 DEF Goto, TypeInv, TypeOK
<1>4. ASSUME QuietStep(h)  PROVE UNCHANGED AP!vars
  <2>1. UNCHANGED vars
    BY <1>4 DEF QuietStep
  <2>2. \E l : /\ qpc' = [qpc EXCEPT ![h] = l]
               /\ l \in {"write", "publish"} <=> qpc[h] \in {"write", "publish"}
               /\ l \in {"read", "free"} <=> qpc[h] \in {"read", "free"}
    BY <1>1, <1>4, MiddleEffect DEF QuietStep
  <2>3. AtomicPc'[h] = AtomicPc[h]
    BY <1>2, <2>1, <2>2 DEF AtomicPc, vars
  <2>4. AtomicPc' = AtomicPc
    BY <1>2, <2>1, <2>2, <2>3, AtomicGoto DEF vars
  <2> QED
    BY <2>1, <2>4 DEF vars, AP!vars
<1>5. ASSUME StartPush(h) \/ StartPop(h)  PROVE UNCHANGED AP!vars
  <2>1. /\ UNCHANGED vars /\ qpc[h] = "idle"
        /\ \E l \in {"tail", "head"} : qpc' = [qpc EXCEPT ![h] = l]
    BY <1>5, StartKeepsFit
  <2>2. AtomicPc'[h] = AtomicPc[h]
    BY <1>2, <2>1 DEF AtomicPc, vars
  <2>3. AtomicPc' = AtomicPc
    BY <1>2, <2>1, <2>2, AtomicGoto DEF vars
  <2> QED
    BY <2>1, <2>3 DEF vars, AP!vars
<1>6. ASSUME PushTakesEffect(h)  PROVE AP!Register(h)
  <2>1. /\ PushWaiter(h) /\ pc[h] = "register" /\ qpc[h] = "push_cas"
        /\ qpc' = [qpc EXCEPT ![h] = "write"]
    BY <1>6, PushKeepsFit
  <2>2. pc' = pc /\ UNCHANGED <<count, frameVars>>
    BY <1>6 DEF PushTakesEffect
  <2>3. AtomicPc[h] = "register" /\ AtomicPc'[h] = "flag"
    BY <1>2, <2>1, <2>2 DEF AtomicPc
  <2>4. AP!Goto(h, "flag")
    BY <1>2, <2>1, <2>2, <2>3, AtomicGoto
  <2>5. AP!PushWaiter(h)
    BY Zenon, <2>1 DEF AP!PushWaiter, PushWaiter, AP!NewWaiter, NewWaiter
  <2> QED
    BY Zenon, <2>2, <2>3, <2>4, <2>5 DEF AP!Register
<1>7. ASSUME PopTakesEffect(h)  PROVE AP!PopFirst(h) \/ AP!PopNext(h)
  <2>1. /\ PopWaiter(h) /\ pc[h] \in {"pop_first", "pop"} /\ qpc[h] = "pop_cas"
        /\ qpc' = [qpc EXCEPT ![h] = "read"]
    BY <1>7, PopKeepsFit
  <2>2. pc' = pc /\ UNCHANGED <<count, frameVars>>
    BY <1>7 DEF PopTakesEffect
  <2>3. AtomicPc[h] = pc[h] /\ AtomicPc'[h] = "unregister"
    BY <1>2, <2>1, <2>2 DEF AtomicPc
  <2>4. AP!Goto(h, "unregister")
    BY <1>2, <2>1, <2>2, <2>3, AtomicGoto
  <2>5. AP!PopWaiter(h)
    BY Zenon, <2>1 DEF AP!PopWaiter, PopWaiter
  <2>6. AtomicPc[h] = "pop_first" \/ AtomicPc[h] = "pop"
    BY <2>1, <2>3
  <2> QED
    BY Zenon, <2>2, <2>4, <2>5, <2>6 DEF AP!PopFirst, AP!PopNext
<1>8. ASSUME PushReturns(h) \/ PopReturns(h)  PROVE UNCHANGED AP!vars
  <2>1. /\ qpc' = [qpc EXCEPT ![h] = "idle"]
        /\ PushReturns(h) => pc[h] = "register" /\ qpc[h] = "publish"
        /\ PopReturns(h) => pc[h] \in {"pop_first", "pop"} /\ qpc[h] = "free"
    BY <1>8, ReturnKeepsFit
  <2>2. UNCHANGED <<count, op, expect, tries, queue, registered, woken, hand>>
    BY <1>8 DEF PushReturns, PopReturns
  <2>3. PushReturns(h) => AtomicPc[h] = "flag" /\ AtomicPc'[h] = "flag"
    BY <1>2, <1>3, <2>1 DEF AtomicPc, PushReturns
  <2>4. PopReturns(h) => AtomicPc[h] = "unregister" /\ AtomicPc'[h] = "unregister"
    BY <1>2, <1>3, <2>1 DEF AtomicPc, PopReturns
  <2>5. \A k \in Handle \ {h} : pc'[k] = pc[k] /\ qpc'[k] = qpc[k]
    BY <1>2, <1>3, <1>8, <2>1 DEF PushReturns, PopReturns
  <2>6. AtomicPc' = AtomicPc
    BY <1>8, <2>3, <2>4, <2>5, AtomicGoto
  <2> QED
    BY <2>2, <2>6 DEF AP!vars
<1>9. ASSUME PushComesBack(h)  PROVE AP!Register(h)
  <2>1. /\ qpc' = [qpc EXCEPT ![h] = "idle"]
        /\ pc[h] = "register" /\ qpc[h] = "full" /\ PushRefused(h)
    BY <1>9, ReturnKeepsFit
  <2>2. Goto(h, "parked") /\ UNCHANGED <<count, frameVars>>
    BY <1>9 DEF PushComesBack
  <2>3. AtomicPc[h] = "register" /\ AtomicPc'[h] = "parked"
    BY <1>2, <1>3, <2>1, <2>2 DEF AtomicPc
  <2>4. AP!Goto(h, "parked")
    BY <1>2, <1>3, <2>1, <2>2, <2>3, AtomicGoto
  <2>5. AP!PushRefused(h)
    BY Zenon, <2>1 DEF AP!PushRefused, PushRefused
  <2> QED
    BY Zenon, <2>2, <2>3, <2>4, <2>5 DEF AP!Register
<1>10. ASSUME PopFindsNothing(h)  PROVE AP!PopFirst(h) \/ AP!PopNext(h)
  <2>1. /\ qpc' = [qpc EXCEPT ![h] = "idle"]
        /\ pc[h] \in {"pop_first", "pop"} /\ qpc[h] = "empty" /\ PopNothing
    BY <1>10, ReturnKeepsFit
  <2>2. PICK l : l = IF pc[h] = "pop_first" THEN "pop" ELSE Finished
    OBVIOUS
  <2>3. Goto(h, l) /\ UNCHANGED <<count, frameVars>>
    BY <1>10, <2>2 DEF PopFindsNothing
  <2>4. AtomicPc[h] = pc[h] /\ AtomicPc'[h] = l
    BY <1>2, <1>3, <2>1, <2>3 DEF AtomicPc
  <2>5. AP!Goto(h, l)
    BY <1>2, <1>3, <2>1, <2>3, <2>4, AtomicGoto
  <2>6. AP!PopNothing
    BY Zenon, <2>1 DEF AP!PopNothing, PopNothing
  <2>7. \/ AtomicPc[h] = "pop_first" /\ l = "pop"
        \/ AtomicPc[h] = "pop" /\ l = AP!Finished
    BY <2>1, <2>2, <2>4 DEF AP!Finished, Finished
  <2> QED
    BY Zenon, <2>3, <2>5, <2>6, <2>7 DEF AP!PopFirst, AP!PopNext
<1> QED
  BY Zenon, <1>4, <1>5, <1>6, <1>7, <1>8, <1>9, <1>10 DEF AP!Next, AP!Acquire, AP!Release

LEMMA AtomicStep ==
  ASSUME OnQueueInv, [QNext]_allVars
  PROVE  [AP!Next]_(AP!vars)
<1>1. CASE QNext
  BY <1>1, QNextCases, AsideIsAtomic, CallIsAtomic
<1>2. CASE UNCHANGED allVars
  BY <1>2 DEF allVars, vars, qVars, AP!vars, AtomicPc
<1> QED
  BY <1>1, <1>2

LEMMA AtomicInit ==
  ASSUME QInit
  PROVE  AP!Init
<1>1. AtomicPc = [h \in Handle |-> "idle"]
  BY DEF QInit, Init, Q!Init, AtomicPc
<1> QED
  BY <1>1 DEF QInit, Init, AP!Init, WaiterInit, AP!WaiterInit, REF_ALLOWED, AP!REF_ALLOWED

LEMMA ImplementsAtomic == QSpec => AP!Spec
<1>1. QInit => OnQueueInv /\ AP!Init
  BY OnQueueInit, AtomicInit
<1>2. OnQueueInv /\ [QNext]_allVars => OnQueueInv' /\ [AP!Next]_(AP!vars)
  BY OnQueueStep, AtomicStep
<1> QED
  BY <1>1, <1>2, PTL DEF QSpec, AP!Spec

(* Everything RefCount does on ArrayQueue it does on an atomic queue.      *)
THEOREM OnQueueIsAtomic == QSpec => AtomicQueue
<1>1. AP!Init => Atomic!Init
  BY AtomicSame
<1>2. [AP!Next]_(AP!vars) => [Atomic!Next]_(Atomic!vars)
  BY AtomicSame DEF AP!vars, Atomic!vars
<1> QED
  BY <1>1, <1>2, ImplementsAtomic, PTL DEF AtomicQueue, Atomic!Spec, AP!Spec

(* So what is proved of RefCount on an atomic queue holds on ArrayQueue: a *)
(* Waiter never outlives its future, when no future is dropped or polled   *)
(* before its time.                                                        *)
THEOREM OnQueueWaitersStayAlive ==
  ASSUME ~Cancellation, ~SpuriousPolls
  PROVE  QSpec => []WaitersAlive
<1>1. AP!Spec => []AP!WaitersAlive
  BY AP!WaitersStayAlive, AtomicAssumptions
<1>2. AP!WaitersAlive => WaitersAlive
  BY DEF AP!WaitersAlive, WaitersAlive
<1> QED
  BY <1>1, <1>2, ImplementsAtomic, PTL

(* Who holds what is the same on the atomic queue.                         *)
LEMMA ExclusionSame == AP!MutualExclusion /\ AP!CountExact => MutualExclusion /\ CountExact
<1>1. AP!Shared = Shared /\ AP!Exclusives = Exclusives
  BY DEF AP!Shared, Shared, AP!Exclusives, Exclusives, AtomicPc
<1>2. AP!MutualExclusion => MutualExclusion
  BY <1>1 DEF AP!MutualExclusion, MutualExclusion
<1>3. AP!CountExact => CountExact
  BY Zenon, <1>1 DEF AP!CountExact, CountExact, AP!StandardRefCount, StandardRefCount,
     AP!Cardinality, Cardinality, AP!IsFiniteSet, IsFiniteSet
<1> QED
  BY <1>2, <1>3

(* And the clients of the safe functions get what a readers-writer lock    *)
(* needs, whatever ArrayQueue does between the steps of RefCount: an       *)
(* exclusive reference is alone, and the counter forgets nobody.           *)
THEOREM OnQueueMutualExclusion ==
  ASSUME RoomForAll, Api \subseteq SafeApi
  PROVE  QSpec => [](MutualExclusion /\ CountExact)
<1>1. AP!RoomForAll
  BY DEF RoomForAll, AP!RoomForAll, AP!IsFiniteSet, IsFiniteSet, AP!Cardinality, Cardinality
<1>2. Api \subseteq AP!SafeApi
  BY DEF SafeApi, AP!SafeApi
<1>3. AP!Spec => []AP!MutualExclusion
  BY <1>1, <1>2, AP!SafeMutualExclusion, AtomicAssumptions
<1>4. AP!Spec => []AP!CountExact
  BY <1>1, <1>2, AP!SafeCountExact, AtomicAssumptions
<1>5. AP!MutualExclusion /\ AP!CountExact => MutualExclusion /\ CountExact
  BY ExclusionSame
<1> QED
  BY <1>3, <1>4, <1>5, ImplementsAtomic, PTL

(* The same where handles wait for one another: a future that sleeps on    *)
(* ArrayQueue has a Waiter or trusts its flag.  A push that finds the      *)
(* queue full from a stale stamp, or stops half way, puts nobody to sleep. *)
THEOREM OnQueueSleepersHaveAReason ==
  ASSUME ~Cancellation, ~SpuriousPolls
  PROVE  QSpec => []SleepsForAReason
<1>1. AP!Spec => []AP!SleepsForAReason
  BY AP!SleepersHaveAReason, AtomicAssumptions
<1>2. AP!SleepsForAReason => SleepsForAReason
  BY DEF AP!SleepsForAReason, SleepsForAReason, AP!InQueue, InQueue, AP!InHand, InHand, AtomicPc
<1> QED
  BY <1>1, <1>2, ImplementsAtomic, PTL

(* And the two races are still the only ones: stopping inside push or pop  *)
(* is no third way to a lying flag or a stranded Waiter, each seen from    *)
(* the moment the push or the pop takes effect.                            *)
THEOREM OnQueueTwoRacesOnly ==
  ASSUME ~Cancellation, ~SpuriousPolls
  PROVE  QSpec => AP!OnlyLateStoresLie /\ AP!OnlyLatePushesStrand
<1>1. AP!Spec => AP!OnlyLateStoresLie
  BY AP!OnlyLateStores, AtomicAssumptions
<1>2. AP!Spec => AP!OnlyLatePushesStrand
  BY AP!OnlyLatePushes, AtomicAssumptions
<1> QED
  BY <1>1, <1>2, ImplementsAtomic, PTL

(* What holds of every client, of the unsafe functions too, holds on       *)
(* ArrayQueue: no two ExclusiveRefs, and no block without an owner.        *)
THEOREM OnQueueBlocksAreOwned ==
  ASSUME ~Cancellation
  PROVE  QSpec => [](AtMostOneExclusive /\ BlockedHasOwner)
<1>1. AP!Spec => []AP!AtMostOneExclusive
  BY AP!ExclusivesExclude, AtomicAssumptions
<1>2. AP!Spec => []AP!BlockedHasOwner
  BY AP!BlocksAreOwned, AtomicAssumptions
<1>3. AP!AtMostOneExclusive => AtMostOneExclusive
  BY DEF AP!AtMostOneExclusive, AtMostOneExclusive, AP!Exclusives, Exclusives, AtomicPc
<1>4. AP!BlockedHasOwner => BlockedHasOwner
  <2>1. AP!Blockers = Blockers
    BY DEF AP!Blockers, Blockers, AtomicPc
  <2> QED
    BY Zenon, <2>1 DEF AP!BlockedHasOwner, BlockedHasOwner, AP!BlockState, BlockState
<1> QED
  BY <1>1, <1>2, <1>3, <1>4, ImplementsAtomic, PTL

(* Only unblock_refs takes a handle from a block to the drain. *)
LEMMA OnlyUnblocks ==
  ASSUME TypeInv, QNext, NEW g \in Handle, pc[g] \in {"exclusive", "blocked", "give_up"},
         pc'[g] = "pop_first"
  PROVE  UnblockRefs(g)
<1>0. pc \in [Handle -> PCs]
  BY DEF TypeInv, TypeOK
<1>1. ASSUME NEW h \in Handle, NEW l, Goto(h, l), l # "pop_first"  PROVE FALSE
  BY <1>0, <1>1 DEF Goto
<1>2. ASSUME pc' = pc  PROVE FALSE
  BY <1>2
<1>3. ASSUME NEW h \in Handle, Aside(h)  PROVE UnblockRefs(h)
  <2>1. Load(h) \/ CasSucceeds(h) \/ CasRetries(h) \/ SpinAgain(h) \/ ReturnNone(h) => FALSE
    BY <1>1, <1>2 DEF Load, CasSucceeds, CasRetries, SpinAgain, ReturnNone, Return, Finished
  <2>2. BecomeFuture(h) \/ PollExhausted(h) \/ CheckPasses(h) \/ CheckFails(h) => FALSE
    BY <1>1, <1>2 DEF BecomeFuture, PollExhausted, CheckPasses, CheckFails, ParkWoken, Return
  <2>3. Probe(h) \/ SetFlag(h) \/ Unregister(h) \/ Wake(h) => FALSE
    BY <1>1, <1>2 DEF Probe, SetFlag, Unregister, Wake, ParkWoken
  <2>4. Poll(h) \/ DropRef(h) \/ (\E f \in Api : Call(h, f)) => FALSE
    BY <1>1, <1>2 DEF Poll, StartPoll, DropRef, Call, Return, Finished
  <2>5. Goto(h, "parked") => FALSE
    BY <1>1
  <2> QED
    BY Zenon, <1>3, <2>1, <2>2, <2>3, <2>4, <2>5 DEF Aside
<1>4. ASSUME NEW h \in Handle,
             \/ QuietStep(h) \/ StartPush(h) \/ StartPop(h)
             \/ PushTakesEffect(h) \/ PopTakesEffect(h)
      PROVE  FALSE
  BY <1>2, <1>4 DEF QuietStep, StartPush, StartPop, PushTakesEffect, PopTakesEffect, vars
<1>5. ASSUME NEW h \in Handle,
             PushReturns(h) \/ PushComesBack(h) \/ PopReturns(h) \/ PopFindsNothing(h)
      PROVE  FALSE
  BY <1>1, <1>5 DEF PushReturns, PushComesBack, PopReturns, PopFindsNothing, Finished
<1>6. PICK h \in Handle : Aside(h)
  BY Zenon, <1>4, <1>5, QNextCases
<1>7. UnblockRefs(h)
  BY <1>3, <1>6
<1>8. h = g
  BY <1>0, <1>7 DEF UnblockRefs, Return, Goto
<1> QED
  BY <1>7, <1>8

(* So a step that releases no block over references is as careful on the   *)
(* atomic queue.                                                           *)
LEMMA CarefulIsAtomic ==
  ASSUME OnQueueInv, [QNext]_allVars, [~DiscardsRefs]_vars
  PROVE  [AP!CarefulNext]_(AP!vars)
<1> SUFFICES ASSUME AP!Next, AP!DiscardsRefs
             PROVE  FALSE
  BY AtomicStep DEF AP!CarefulNext
<1>1. PICK h \in Handle : AP!UnblockRefs(h)
  BY DEF AP!DiscardsRefs
<1>2. /\ AtomicPc[h] \in {"exclusive", "blocked", "give_up"}
      /\ AtomicPc' = [AtomicPc EXCEPT ![h] = "pop_first"]
  BY <1>1 DEF AP!UnblockRefs, AP!Return, AP!Goto
<1>3. AtomicPc'[h] = "pop_first"
  BY <1>2 DEF AtomicPc
<1>4. pc[h] \in {"exclusive", "blocked", "give_up"} /\ pc'[h] = "pop_first"
  BY <1>2, <1>3 DEF AtomicPc
<1>5. pc' # pc
  BY <1>4
<1>6. UnblockRefs(h)
  BY <1>4, <1>5, OnlyUnblocks DEF allVars, vars, OnQueueInv
<1>7. StandardRefCount(count) # 0
  BY DEF AP!DiscardsRefs, AP!StandardRefCount, StandardRefCount
<1> QED
  BY <1>5, <1>6, <1>7 DEF DiscardsRefs, vars

LEMMA ImplementsCareful == QSpec /\ [][~DiscardsRefs]_vars => AP!CarefulSpec
<1>1. QInit => OnQueueInv /\ AP!Init
  BY OnQueueInit, AtomicInit
<1>2. OnQueueInv /\ [QNext]_allVars => OnQueueInv'
  BY OnQueueStep
<1>3. OnQueueInv /\ [QNext]_allVars /\ [~DiscardsRefs]_vars => [AP!CarefulNext]_(AP!vars)
  BY CarefulIsAtomic
<1> QED
  BY <1>1, <1>2, <1>3, PTL DEF QSpec, AP!CarefulSpec

(* The readers-writer protocol, seen on ArrayQueue, is the one seen on the *)
(* atomic queue: push and pop move no reader, writer or barrier.           *)
LEMMA ProtocolSame ==
  /\ AP!RW!RWInit => RW!RWInit
  /\ [AP!RW!RWNext]_(AP!RW!rwVars) => [RW!RWNext]_(RW!rwVars)
<1>1. AP!Shared = Shared /\ AP!Exclusives = Exclusives /\ AP!Blockers = Blockers
  BY DEF AP!Shared, Shared, AP!Exclusives, Exclusives, AP!Blockers, Blockers, AtomicPc
<1>2. AP!RW!RWInit => RW!RWInit
  BY <1>1 DEF AP!RW!RWInit, RW!RWInit
<1>3. [AP!RW!RWNext]_(AP!RW!rwVars) => [RW!RWNext]_(RW!rwVars)
  <2>1. (AP!Shared)' = Shared' /\ (AP!Exclusives)' = Exclusives' /\ (AP!Blockers)' = Blockers'
    BY DEF AP!Shared, Shared, AP!Exclusives, Exclusives, AP!Blockers, Blockers, AtomicPc
  <2>2. AP!RW!RWNext => RW!RWNext
    BY Zenon, <1>1, <2>1 DEF AP!RW!RWNext, RW!RWNext, AP!RW!Enter, RW!Enter, AP!RW!Leave, RW!Leave,
       AP!RW!Bar, RW!Bar, AP!RW!Grant, RW!Grant, AP!RW!Unbar, RW!Unbar
  <2> QED
    BY Zenon, <1>1, <2>1, <2>2 DEF AP!RW!rwVars, RW!rwVars
<1> QED
  BY <1>2, <1>3

(* RefCount as it is, on ArrayQueue, implements the readers-writer         *)
(* protocol for every client, of the raw blocks too, as long as no block   *)
(* is released over references (run WipedCount).                           *)
THEOREM OnQueueCarefulRefines ==
  ASSUME RoomForAll
  PROVE  QSpec /\ [][~DiscardsRefs]_vars => RWSafeSpec
<1>1. AP!RoomForAll
  BY DEF RoomForAll, AP!RoomForAll, AP!IsFiniteSet, IsFiniteSet, AP!Cardinality, Cardinality
<1>2. AP!CarefulSpec => AP!RWSafeSpec
  BY <1>1, AP!CarefulRefines, AtomicAssumptions
<1> QED
  BY <1>2, ImplementsCareful, ProtocolSame, PTL
     DEF RWSafeSpec, RW!RWSafeSpec, AP!RWSafeSpec, AP!RW!RWSafeSpec

(* And the clients of the safe functions never do that.                    *)
THEOREM OnQueueSafeRefines ==
  ASSUME RoomForAll, Api \subseteq SafeApi
  PROVE  QSpec => RWSafeSpec
<1>1. AP!RoomForAll
  BY DEF RoomForAll, AP!RoomForAll, AP!IsFiniteSet, IsFiniteSet, AP!Cardinality, Cardinality
<1>2. Api \subseteq AP!SafeApi
  BY DEF SafeApi, AP!SafeApi
<1>3. AP!Spec => AP!RWSafeSpec
  BY <1>1, <1>2, AP!SafeRefines, AtomicAssumptions
<1> QED
  BY <1>3, ImplementsAtomic, ProtocolSame, PTL
     DEF RWSafeSpec, RW!RWSafeSpec, AP!RWSafeSpec, AP!RW!RWSafeSpec

(* The exclusion that the protocol is for, on ArrayQueue and for every     *)
(* client: an ExclusiveRef excludes all others and the counter forgets     *)
(* nobody, as long as no block is released over references.                *)
THEOREM OnQueueCarefulExclusion ==
  ASSUME RoomForAll
  PROVE  QSpec /\ [][~DiscardsRefs]_vars => [](MutualExclusion /\ CountExact)
<1>1. AP!RoomForAll
  BY DEF RoomForAll, AP!RoomForAll, AP!IsFiniteSet, IsFiniteSet, AP!Cardinality, Cardinality
<1>2. AP!CarefulSpec => []AP!MutualExclusion
  BY <1>1, AP!CarefulMutualExclusion, AtomicAssumptions
<1>3. AP!CarefulSpec => []AP!CountExact
  BY <1>1, AP!CarefulCountExact, AtomicAssumptions
<1>4. AP!MutualExclusion /\ AP!CountExact => MutualExclusion /\ CountExact
  BY ExclusionSame
<1> QED
  BY <1>2, <1>3, <1>4, ImplementsCareful, PTL

(* What an observer has told goes stale on ArrayQueue only if it does on   *)
(* the atomic queue: a step of which that one sees nothing leaves the word.*)
LEMMA LastingSame ==
  ASSUME TypeInv, NEW h \in Handle, AP!LastsFor(h) \/ UNCHANGED AP!vars
  PROVE  LastsFor(h)
<1>1. /\ AP!Shared = Shared /\ AP!Blockers = Blockers
      /\ (AP!Shared)' = Shared' /\ (AP!Blockers)' = Blockers'
  BY DEF AP!Shared, Shared, AP!Blockers, Blockers, AtomicPc
<1>2. CASE AP!LastsFor(h)
  <2> USE DEF AP!NoStandardRefs, NoStandardRefs, AP!IsBlocked, IsBlocked, AP!RawState, RawState,
         AP!TotalRefCount, TotalRefCount, AP!StandardRefCount, StandardRefCount,
         AP!BlockState, BlockState
  <2> QED
    BY Zenon, <1>1, <1>2 DEF AP!LastsFor, LastsFor
<1>3. CASE UNCHANGED AP!vars
  BY <1>3, SameWordLasts DEF AP!vars
<1> QED
  BY <1>2, <1>3

(* What no_standard_refs(), is_blocked() and ref_count() have told the     *)
(* owner of a block, and no_standard_refs() the holder of a Ref, lasts on  *)
(* ArrayQueue too: no step inside push or pop touches the word.            *)
THEOREM OnQueueObservations ==
  ASSUME RoomForAll
  PROVE  QSpec /\ [][~DiscardsRefs]_vars => ObservationsLast
<1>1. AP!RoomForAll
  BY DEF RoomForAll, AP!RoomForAll, AP!IsFiniteSet, IsFiniteSet, AP!Cardinality, Cardinality
<1>2. AP!CarefulSpec => AP!ObservationsLast
  BY <1>1, AP!CarefulObservations, AtomicAssumptions
<1>3. QInit => OnQueueInv
  BY OnQueueInit
<1>4. OnQueueInv /\ [QNext]_allVars => OnQueueInv'
  BY OnQueueStep
<1>5. OnQueueInv /\ [\A h \in Handle : AP!LastsFor(h)]_(AP!vars)
        => [\A h \in Handle : LastsFor(h)]_vars
  BY LastingSame DEF OnQueueInv
<1> QED
  BY <1>2, <1>3, <1>4, <1>5, ImplementsCareful, PTL
     DEF QSpec, ObservationsLast, LastsFor, AP!ObservationsLast, AP!LastsFor
=============================================================================
