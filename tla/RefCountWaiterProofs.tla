------------------------- MODULE RefCountWaiterProofs -------------------------
(***************************************************************************)
(* Proofs about the Waiters of RefCount: a Waiter in the queue, or in the  *)
(* hand of a drain, points at a future that is still there.                *)
(***************************************************************************)
EXTENDS RefCountBlockProofs

(* The states in which a task may have been woken and not yet polled. *)
Pending == {"flag", "parked", "owner_parked"}

(* A handle that is running code has not been woken and has no Waiter. *)
LEMMA RunningFacts ==
  ASSUME WaiterInv, NEW h \in Handle, pc[h] \notin Pending
  PROVE  /\ ~woken[h]
         /\ \A i \in DOMAIN queue : queue[i].task # h
         /\ \A d \in Handle : hand[d] # NoWaiter => hand[d].task # h
  BY DEF WaiterInv, WaitersSleep, AwakeIsPolled, Sleeping, InQueue, InHand, Pending

(* So has one whose task has been woken, wherever it is. *)
LEMMA WokenFacts ==
  ASSUME WaiterInv, NEW h \in Handle, woken[h] \/ pc[h] = "owner_parked"
  PROVE  /\ \A i \in DOMAIN queue : queue[i].task # h
         /\ \A d \in Handle : hand[d] # NoWaiter => hand[d].task # h
  BY DEF WaiterInv, WaitersSleep, Sleeping, InQueue, InHand

(* The Waiters stay where they are and nobody is woken: h goes on running, *)
(* or goes to sleep, or wakes and goes on.                                 *)
LEMMA StillStep ==
  ASSUME WaiterTypeOK, WaiterInv, NEW h \in Handle,
         UNCHANGED <<queue, woken, hand>>,
         \A g \in Handle \ {h} : pc'[g] = pc[g],
         \/ pc[h] \notin Pending
         \/ pc[h] = "flag" /\ pc'[h] = "parked",
         pc'[h] \in {"unregister", "wake"} <=> pc[h] \in {"unregister", "wake"}
  PROVE  WaiterInv'
<1>1. CASE pc[h] \notin Pending
  BY <1>1, RunningFacts
     DEF WaiterInv, WaitersAlive, WaitersSleep, AwakeIsPolled, OneWaiterEach, DrainHolds,
         Sleeping, InQueue, InHand, Pending
<1>2. CASE pc[h] = "flag" /\ pc'[h] = "parked"
  BY <1>2
     DEF WaiterInv, WaitersAlive, WaitersSleep, AwakeIsPolled, OneWaiterEach, DrainHolds,
         Sleeping, InQueue, InHand
<1> QED
  BY <1>1, <1>2

(* wake_by_ref() on a running handle that parks: it has no Waiter. *)
LEMMA ParkStep ==
  ASSUME WaiterTypeOK, WaiterInv, NEW h \in Handle,
         woken' = [woken EXCEPT ![h] = TRUE], UNCHANGED <<queue, hand>>,
         \A g \in Handle \ {h} : pc'[g] = pc[g],
         pc[h] \notin Pending \cup {"unregister", "wake"},
         pc'[h] \in {"parked", "owner_parked"}
  PROVE  WaiterInv'
  BY RunningFacts
     DEF WaiterTypeOK, WaiterInv, WaitersAlive, WaitersSleep, AwakeIsPolled, OneWaiterEach,
         DrainHolds, Sleeping, InQueue, InHand, Pending

(* The executor polls a task that was woken: its Waiter is gone. *)
LEMMA PollStep ==
  ASSUME WaiterTypeOK, WaiterInv, NEW h \in Handle,
         woken[h], woken' = [woken EXCEPT ![h] = FALSE], UNCHANGED <<queue, hand>>,
         \A g \in Handle \ {h} : pc'[g] = pc[g],
         {pc[h], pc'[h]} \cap {"unregister", "wake"} = {}
  PROVE  WaiterInv'
<1>1. /\ \A i \in DOMAIN queue : queue[i].task # h
      /\ \A d \in Handle : hand[d] # NoWaiter => hand[d].task # h
  BY WokenFacts
<1>2. ~woken'[h] /\ \A g \in Handle \ {h} : woken'[g] = woken[g]
  BY DEF WaiterTypeOK
<1>3. WaitersSleep'
  BY <1>1, <1>2 DEF WaiterInv, WaitersSleep, Sleeping, InQueue, InHand
<1>4. AwakeIsPolled'
  BY <1>2 DEF WaiterInv, AwakeIsPolled
<1>5. DrainHolds'
  BY DEF WaiterInv, DrainHolds
<1>6. WaitersAlive' /\ OneWaiterEach'
  BY DEF WaiterInv, WaitersAlive, OneWaiterEach
<1> QED
  BY <1>3, <1>4, <1>5, <1>6 DEF WaiterInv

(* A push adds the only Waiter of a future that is about to sleep. *)
LEMMA PushStep ==
  ASSUME WaiterTypeOK, WaiterInv, NEW h \in Handle, PushWaiter(h),
         \A g \in Handle \ {h} : pc'[g] = pc[g],
         pc[h] = "register", pc'[h] = "flag"
  PROVE  WaiterInv'
<1>1. /\ ~woken[h]
      /\ \A i \in DOMAIN queue : queue[i].task # h
      /\ \A d \in Handle : hand[d] # NoWaiter => hand[d].task # h
  BY RunningFacts DEF Pending
<1>2. PICK n \in Nat : n = Len(queue)
  BY DEF WaiterTypeOK
<1>3. /\ DOMAIN queue = 1 .. n /\ DOMAIN queue' = 1 .. n + 1
      /\ \A i \in 1 .. n : queue'[i] = queue[i]
      /\ queue'[n + 1] = NewWaiter(h)
      /\ UNCHANGED <<woken, hand>>
  BY <1>2 DEF WaiterTypeOK, PushWaiter, Waiter, NewWaiter
<1>4. queue'[n + 1].task = h /\ queue'[n + 1].alive
  BY <1>3 DEF NewWaiter
<1>5. WaitersAlive'
  BY <1>3, <1>4 DEF WaiterInv, WaitersAlive
<1>6. WaitersSleep' /\ AwakeIsPolled'
  BY <1>1, <1>3, <1>4
     DEF WaiterInv, WaitersSleep, AwakeIsPolled, Sleeping, InQueue, InHand
<1>7. OneWaiterEach'
  BY <1>1, <1>3, <1>4 DEF WaiterInv, OneWaiterEach
<1>8. DrainHolds'
  BY <1>3 DEF WaiterInv, DrainHolds
<1> QED
  BY <1>5, <1>6, <1>7, <1>8 DEF WaiterInv

(* A pop moves one Waiter from the queue to an empty hand. *)
LEMMA PopStep ==
  ASSUME WaiterTypeOK, WaiterInv, NEW h \in Handle, PopWaiter(h),
         \A g \in Handle \ {h} : pc'[g] = pc[g],
         pc[h] \notin Pending \cup {"unregister", "wake"}, pc'[h] = "unregister"
  PROVE  WaiterInv'
<1>1. /\ ~woken[h]
      /\ \A i \in DOMAIN queue : queue[i].task # h
      /\ \A d \in Handle : hand[d] # NoWaiter => hand[d].task # h
  BY RunningFacts
<1>2. PICK n \in Nat \ {0} : n = Len(queue)
  BY DEF WaiterTypeOK, PopWaiter
<1>3. /\ DOMAIN queue = 1 .. n /\ DOMAIN queue' = 1 .. n - 1
      /\ \A i \in 1 .. n - 1 : queue'[i] = queue[i + 1]
      /\ queue[1] \in Waiter /\ queue[1] # NoWaiter
      /\ hand'[h] = queue[1] /\ woken' = woken
      /\ \A d \in Handle \ {h} : hand'[d] = hand[d]
  BY <1>2, WaiterAssumption DEF WaiterTypeOK, PopWaiter
<1>4. \A i \in 1 .. n - 1 : i + 1 \in 1 .. n /\ i + 1 # 1
  OBVIOUS
<1>5. WaitersAlive'
  <2>1. \A i \in 1 .. n : queue[i].alive
    BY <1>3 DEF WaiterInv, WaitersAlive
  <2>2. \A i \in 1 .. n - 1 : queue'[i].alive
    BY <1>3, <1>4, <2>1
  <2>3. \A d \in Handle : hand'[d] # NoWaiter => hand'[d].alive
    <3>1. 1 \in 1 .. n
      OBVIOUS
    <3> QED
      BY <1>3, <2>1, <3>1 DEF WaiterInv, WaitersAlive
  <2> QED
    BY <1>3, <2>2, <2>3 DEF WaitersAlive
<1>6. WaitersSleep' /\ AwakeIsPolled'
  <2>1. ASSUME NEW g \in Handle, (InQueue(g) \/ InHand(g))'
        PROVE  InQueue(g) \/ InHand(g)
    BY <1>3, <1>4, <2>1 DEF InQueue, InHand
  <2>2. ASSUME NEW g \in Handle, InQueue(g) \/ InHand(g)
        PROVE  Sleeping(g)'
    BY <1>1, <1>3, <2>2 DEF WaiterInv, WaitersSleep, Sleeping, Pending
  <2>3. AwakeIsPolled'
    BY <1>1, <1>3 DEF WaiterInv, AwakeIsPolled
  <2> QED
    BY <2>1, <2>2, <2>3 DEF WaitersSleep
<1>7. OneWaiterEach'
  <2>1. \A i, j \in 1 .. n : queue[i].task = queue[j].task => i = j
    BY <1>3 DEF WaiterInv, OneWaiterEach
  <2>2. \A i, j \in 1 .. n - 1 : queue'[i].task = queue'[j].task => i = j
    <3> SUFFICES ASSUME NEW i \in 1 .. n - 1, NEW j \in 1 .. n - 1,
                        queue'[i].task = queue'[j].task
                 PROVE  i = j
      OBVIOUS
    <3>1. i + 1 = j + 1
      BY <1>3, <1>4, <2>1
    <3> QED
      BY <3>1
  <2>3. \A i \in 1 .. n - 1 : queue'[i].task # queue[1].task
    <3>1. 1 \in 1 .. n
      OBVIOUS
    <3> QED
      BY <1>3, <1>4, <2>1, <3>1
  <2>4. \A d \in Handle : hand[d] # NoWaiter => \A i \in 1 .. n : queue[i].task # hand[d].task
    BY <1>3 DEF WaiterInv, OneWaiterEach
  <2>5. \A d \in Handle : hand'[d] # NoWaiter => \A i \in 1 .. n - 1 : queue'[i].task # hand'[d].task
    BY <1>3, <1>4, <2>3, <2>4
  <2>6. \A d, e \in Handle :
          hand'[d] # NoWaiter /\ hand'[e] # NoWaiter /\ hand'[e].task = hand'[d].task => e = d
    <3>1. 1 \in 1 .. n
      OBVIOUS
    <3> QED
      BY <1>3, <2>4, <3>1 DEF WaiterInv, OneWaiterEach
  <2> QED
    BY <1>3, <2>2, <2>5, <2>6 DEF OneWaiterEach
<1>8. DrainHolds'
  BY <1>3 DEF WaiterInv, DrainHolds
<1> QED
  BY <1>5, <1>6, <1>7, <1>8 DEF WaiterInv

(* Waiter::wake consumes the only Waiter of the task it wakes. *)
LEMMA WakeStep ==
  ASSUME WaiterTypeOK, WaiterInv, NEW h \in Handle, WakeTask(h),
         \A g \in Handle \ {h} : pc'[g] = pc[g],
         pc[h] = "wake", pc'[h] \notin Pending \cup {"unregister", "wake"}
  PROVE  WaiterInv'
<1>1. hand[h] # NoWaiter /\ hand[h] \in Waiter
  BY DEF WaiterTypeOK, WaiterInv, DrainHolds
<1>2. PICK t \in Handle : t = hand[h].task
  BY <1>1 DEF Waiter
<1>3. Sleeping(t) /\ t # h
  BY <1>1, <1>2 DEF WaiterInv, WaitersSleep, InHand, Sleeping
<1>4. /\ \A i \in DOMAIN queue : queue[i].task # t
      /\ \A d \in Handle \ {h} : hand[d] # NoWaiter => hand[d].task # t
  BY <1>1, <1>2 DEF WaiterInv, OneWaiterEach
<1>5. /\ queue' = queue
      /\ woken'[t] /\ \A g \in Handle \ {t} : woken'[g] = woken[g]
      /\ hand'[h] = NoWaiter /\ \A d \in Handle \ {h} : hand'[d] = hand[d]
  BY <1>2 DEF WaiterTypeOK, WakeTask
<1>6. ~woken[h]
  BY RunningFacts DEF Pending
<1>7. WaitersAlive' /\ OneWaiterEach' /\ DrainHolds'
  BY <1>5 DEF WaiterInv, WaitersAlive, OneWaiterEach, DrainHolds
<1>8. AwakeIsPolled'
  BY <1>3, <1>5, <1>6 DEF WaiterInv, AwakeIsPolled, Sleeping
<1>9. WaitersSleep'
  <2> SUFFICES ASSUME NEW g \in Handle, (InQueue(g) \/ InHand(g))'
               PROVE  Sleeping(g)'
    BY DEF WaitersSleep
  <2>1. g # t /\ (InQueue(g) \/ InHand(g))
    BY <1>4, <1>5 DEF InQueue, InHand
  <2>2. Sleeping(g) /\ g # h
    BY <2>1 DEF WaiterInv, WaitersSleep, Sleeping
  <2> QED
    BY <1>5, <2>1, <2>2 DEF Sleeping
<1> QED
  BY <1>7, <1>8, <1>9 DEF WaiterInv

(* A future that is Ready goes away, and no Waiter points at its flag. *)
LEMMA ReadyStep ==
  ASSUME WaiterTypeOK, WaiterInv, NEW h \in Handle, DropFlag(h),
         \A g \in Handle \ {h} : pc'[g] = pc[g],
         pc[h] \notin Pending, pc'[h] \notin Pending,
         {pc[h], pc'[h]} \cap {"unregister", "wake"} = {}
  PROVE  WaiterInv'
<1>1. /\ ~woken[h]
      /\ \A i \in DOMAIN queue : queue[i].task # h
      /\ \A d \in Handle : hand[d] # NoWaiter => hand[d].task # h
  BY RunningFacts
<1>2. ASSUME NEW w \in Waiter, w.task # h, w.alive
      PROVE  Orphan(w, h).task = w.task /\ Orphan(w, h).alive /\ Orphan(w, h) # NoWaiter
  <2>1. Orphan(w, h).task = w.task /\ Orphan(w, h).alive
    BY <1>2 DEF Orphan, Waiter
  <2> QED
    BY <2>1, OrphanType, WaiterAssumption
<1>3. /\ DOMAIN queue' = DOMAIN queue
      /\ \A i \in DOMAIN queue : queue'[i].task = queue[i].task /\ queue'[i].alive
  <2>1. \A i \in DOMAIN queue : queue[i] \in Waiter /\ queue[i].alive /\ queue[i].task # h
    BY <1>1 DEF WaiterTypeOK, WaiterInv, WaitersAlive
  <2>2. /\ DOMAIN queue' = DOMAIN queue
        /\ \A i \in DOMAIN queue : queue'[i] = Orphan(queue[i], h)
    BY DEF DropFlag
  <2> QED
    BY <1>2, <2>1, <2>2
<1>4. \A d \in Handle : /\ hand'[d] = NoWaiter <=> hand[d] = NoWaiter
                        /\ hand[d] # NoWaiter => hand'[d].task = hand[d].task /\ hand'[d].alive
  <2>1. \A d \in Handle : hand[d] # NoWaiter =>
          hand[d] \in Waiter /\ hand[d].alive /\ hand[d].task # h
    BY <1>1 DEF WaiterTypeOK, WaiterInv, WaitersAlive
  <2>2. \A d \in Handle :
          hand'[d] = IF hand[d] = NoWaiter THEN NoWaiter ELSE Orphan(hand[d], h)
    BY DEF DropFlag
  <2> QED
    BY <1>2, <2>1, <2>2
<1>5. woken' = woken
  BY DEF DropFlag
<1>6. WaitersAlive' /\ OneWaiterEach'
  BY <1>3, <1>4 DEF WaiterInv, WaitersAlive, OneWaiterEach
<1>7. DrainHolds' /\ AwakeIsPolled'
  BY <1>1, <1>4, <1>5 DEF WaiterInv, DrainHolds, AwakeIsPolled
<1>8. WaitersSleep'
  <2> SUFFICES ASSUME NEW g \in Handle, (InQueue(g) \/ InHand(g))'
               PROVE  Sleeping(g)'
    BY DEF WaitersSleep
  <2>1. g # h /\ (InQueue(g) \/ InHand(g))
    BY <1>1, <1>3, <1>4 DEF InQueue, InHand
  <2> QED
    BY <1>5, <2>1 DEF WaiterInv, WaitersSleep, Sleeping
<1> QED
  BY <1>6, <1>7, <1>8 DEF WaiterInv

-----------------------------------------------------------------------------
(* No operation breaks the invariant, when tasks are polled only after     *)
(* they have been woken and no pending future is dropped.                  *)
LEMMA WaiterStep ==
  ASSUME ~Cancellation, ~SpuriousPolls, TypeInv, WaiterInv, [Next]_vars
  PROVE  WaiterInv'
<1> USE DEF TypeInv, TypeOK, Pending
<1>1. CASE UNCHANGED vars
  BY <1>1 DEF vars, WaiterInv, WaitersAlive, WaitersSleep, AwakeIsPolled, OneWaiterEach,
     DrainHolds, Sleeping, InQueue, InHand
<1>2. ASSUME NEW h \in Handle, NEW f \in Api, Call(h, f)  PROVE WaiterInv'
  BY <1>2, StillStep DEF Call, Goto, waiterVars
<1>3. ASSUME NEW h \in Handle, Load(h) \/ CasRetries(h) \/ SpinAgain(h)  PROVE WaiterInv'
  BY <1>3, StillStep
     DEF Load, CasRetries, SpinAgain, CasExhausted, CasFails, Goto, waiterVars
<1>4. ASSUME NEW h \in Handle, CasSucceeds(h)  PROVE WaiterInv'
  BY <1>4, ReadyStep DEF CasSucceeds, Return, Goto
<1>5. ASSUME NEW h \in Handle, ReturnNone(h) \/ CheckPasses(h)  PROVE WaiterInv'
  BY <1>5, StillStep
     DEF ReturnNone, CheckPasses, CasExhausted, CasFails, Return, Goto, Finished, waiterVars
<1>6. ASSUME NEW h \in Handle, BecomeFuture(h)  PROVE WaiterInv'
  BY <1>6, ParkStep DEF BecomeFuture, CasExhausted, CasFails, ParkWoken, Goto, WakeByRef
<1>7. ASSUME NEW h \in Handle, PollExhausted(h)  PROVE WaiterInv'
  <2>1. CASE ParkWoken(h, "parked", "FutureRef")
    BY <1>7, <2>1, ParkStep DEF PollExhausted, CasExhausted, CasFails, ParkWoken, Goto, WakeByRef
  <2>2. CASE Goto(h, "probe") /\ UNCHANGED waiterVars
    BY <1>7, <2>2, StillStep DEF PollExhausted, CasExhausted, CasFails, Goto, waiterVars
  <2> QED
    BY <1>7, <2>1, <2>2 DEF PollExhausted
<1>8. ASSUME NEW h \in Handle, CheckFails(h)  PROVE WaiterInv'
  <2>1. CASE ParkWoken(h, "owner_parked", "FutureExclusiveRef")
    BY <1>8, <2>1, ParkStep DEF CheckFails, ParkWoken, Goto, WakeByRef
  <2>2. CASE UNCHANGED waiterVars /\ (UNCHANGED pc \/ Goto(h, "give_up"))
    BY <1>8, <2>2, StillStep DEF CheckFails, Goto, waiterVars
  <2> QED
    BY <1>8, <2>1, <2>2 DEF CheckFails
<1>9. ASSUME NEW h \in Handle, Poll(h)  PROVE WaiterInv'
  BY <1>9, PollStep DEF Poll, StartPoll, Goto
<1>10. ASSUME NEW h \in Handle, Probe(h)  PROVE WaiterInv'
  <2>1. CASE ParkWoken(h, "parked", op[h])
    BY <1>10, <2>1, ParkStep DEF Probe, ParkWoken, Goto, WakeByRef
  <2>2. CASE UNCHANGED waiterVars /\ (Goto(h, "register") \/ Goto(h, "load"))
    BY <1>10, <2>2, StillStep DEF Probe, Goto, waiterVars
  <2> QED
    BY <1>10, <2>1, <2>2 DEF Probe
<1>11. ASSUME NEW h \in Handle, Register(h)  PROVE WaiterInv'
  <2>1. CASE AlreadyRegistered(h) /\ Goto(h, "parked")
    BY <1>11, <2>1, StillStep DEF Register, AlreadyRegistered, Goto, waiterVars
  <2>2. CASE PushWaiter(h) /\ Goto(h, "flag")
    BY <1>11, <2>2, PushStep DEF Register, Goto
  <2>3. CASE PushRefused(h) /\ Goto(h, "parked")
    BY <1>11, <2>3, ParkStep DEF Register, PushRefused, Goto
  <2> QED
    BY <1>11, <2>1, <2>2, <2>3 DEF Register
<1>12. ASSUME NEW h \in Handle, SetFlag(h) \/ Unregister(h)  PROVE WaiterInv'
  BY <1>12, StillStep DEF SetFlag, Unregister, StoreRegistered, SetUnregistered, Goto
<1>13. ASSUME NEW h \in Handle, DropRef(h) \/ UnblockRefs(h)  PROVE WaiterInv'
  BY <1>13, StillStep DEF DropRef, UnblockRefs, Return, Goto, Finished, waiterVars
<1>14. ASSUME NEW h \in Handle, PopFirst(h) \/ PopNext(h)  PROVE WaiterInv'
  <2>1. CASE PopWaiter(h) /\ Goto(h, "unregister")
    BY <1>14, <2>1, PopStep DEF PopFirst, PopNext, Goto
  <2>2. CASE PopNothing /\ (Goto(h, "pop") \/ Goto(h, Finished))
    BY <1>14, <2>2, StillStep DEF PopFirst, PopNext, PopNothing, Goto, Finished, waiterVars
  <2> QED
    BY <1>14, <2>1, <2>2 DEF PopFirst, PopNext
<1>15. ASSUME NEW h \in Handle, Wake(h)  PROVE WaiterInv'
  BY <1>15, WakeStep DEF Wake, Goto
<1> QED
  BY <1>1, <1>2, <1>3, <1>4, <1>5, <1>6, <1>7, <1>8, <1>9, <1>10, <1>11, <1>12,
     <1>13, <1>14, <1>15
     DEF Next, Acquire, Release, SpuriousPoll, Cancel

LEMMA WaiterInvInit ==
  ASSUME Init
  PROVE  WaiterInv
  BY DEF Init, WaiterInit, WaiterInv, WaitersAlive, WaitersSleep, AwakeIsPolled,
     OneWaiterEach, DrainHolds, InQueue, InHand

(* Every future has one Waiter at most, and sleeps until the drain that    *)
(* popped it has cleared its flag and woken it.                            *)
THEOREM WaiterInvariant ==
  ASSUME ~Cancellation, ~SpuriousPolls
  PROVE  Spec => [](TypeInv /\ WaiterInv)
<1>1. Init => TypeInv /\ WaiterInv
  BY TypeInit, WaiterInvInit
<1>2. TypeInv /\ WaiterInv /\ [Next]_vars => (TypeInv /\ WaiterInv)'
  BY TypeStep, WaiterStep
<1> QED
  BY <1>1, <1>2, PTL DEF Spec

(* waiter.rs:20, the reason why the raw pointer of a Waiter is sound, for  *)
(* every number of futures and every queue length; run DeadFlag shows that *)
(* the executor that polls unasked invalidates it.                         *)
THEOREM WaitersStayAlive ==
  ASSUME ~Cancellation, ~SpuriousPolls
  PROVE  Spec => []WaitersAlive
<1>1. TypeInv /\ WaiterInv => WaitersAlive
  BY DEF WaiterInv
<1> QED
  BY <1>1, WaiterInvariant, PTL

-----------------------------------------------------------------------------
(* Why futures sleep.  What the steps do to the Waiters, seen from one     *)
(* future at a time.                                                       *)

(* A push leaves every Waiter in the queue and adds the one of h. *)
LEMMA PushQueues ==
  ASSUME WaiterTypeOK, NEW h \in Handle, PushWaiter(h)
  PROVE  InQueue(h)' /\ \A g \in Handle : InQueue(g) => InQueue(g)'
<1>1. PICK n \in Nat : n = Len(queue)
  BY DEF WaiterTypeOK
<1>2. /\ DOMAIN queue = 1 .. n /\ DOMAIN queue' = 1 .. n + 1
      /\ \A i \in 1 .. n : queue'[i] = queue[i]
      /\ queue'[n + 1] = NewWaiter(h)
  BY <1>1 DEF WaiterTypeOK, PushWaiter, Waiter, NewWaiter
<1>3. queue'[n + 1].task = h /\ n + 1 \in DOMAIN queue'
  BY <1>2 DEF NewWaiter
<1> QED
  BY <1>2, <1>3 DEF InQueue

(* A pop takes a Waiter from the queue to the hand of h and loses none. *)
LEMMA PopHolds ==
  ASSUME WaiterTypeOK, NEW h \in Handle, PopWaiter(h), hand[h] = NoWaiter
  PROVE  /\ \A g \in Handle : InQueue(g) => \/ InQueue(g)'
                                            \/ hand'[h] # NoWaiter /\ hand'[h].task = g
         /\ \A d \in Handle \ {h} : hand'[d] = hand[d]
<1>1. PICK n \in Nat \ {0} : n = Len(queue)
  BY DEF WaiterTypeOK, PopWaiter
<1>2. /\ DOMAIN queue = 1 .. n /\ DOMAIN queue' = 1 .. n - 1
      /\ \A i \in 1 .. n - 1 : queue'[i] = queue[i + 1]
      /\ queue[1] # NoWaiter /\ hand'[h] = queue[1]
      /\ \A d \in Handle \ {h} : hand'[d] = hand[d]
  BY <1>1, WaiterAssumption DEF WaiterTypeOK, PopWaiter
<1>3. ASSUME NEW g \in Handle, NEW i \in 1 .. n, queue[i].task = g
      PROVE  InQueue(g)' \/ hand'[h].task = g
  <2>1. CASE i = 1
    BY <1>2, <1>3, <2>1
  <2>2. CASE i # 1
    <3>1. i - 1 \in 1 .. n - 1 /\ (i - 1) + 1 = i
      BY <2>2
    <3>2. queue'[i - 1] = queue[i]
      BY <1>2, <3>1
    <3> QED
      BY <1>2, <1>3, <3>1, <3>2 DEF InQueue
  <2> QED
    BY <2>1, <2>2
<1> QED
  BY <1>2, <1>3 DEF InQueue

(* A future that goes away leaves the Waiters of the others where they are. *)
LEMMA DropKeeps ==
  ASSUME WaiterTypeOK, NEW h \in Handle, DropFlag(h)
  PROVE  /\ \A g \in Handle : InQueue(g) => InQueue(g)'
         /\ \A d \in Handle : hand[d] # NoWaiter =>
              hand'[d] # NoWaiter /\ hand'[d].task = hand[d].task
         /\ ~registered'[h] /\ \A g \in Handle \ {h} : registered'[g] = registered[g]
<1>1. ASSUME NEW w \in Waiter
      PROVE  Orphan(w, h).task = w.task /\ Orphan(w, h) # NoWaiter
  <2>1. Orphan(w, h).task = w.task
    BY DEF Orphan, Waiter
  <2> QED
    BY <2>1, OrphanType, WaiterAssumption
<1>2. \A g \in Handle : InQueue(g) => InQueue(g)'
  <2>1. /\ DOMAIN queue' = DOMAIN queue
        /\ \A i \in DOMAIN queue : queue[i] \in Waiter /\ queue'[i] = Orphan(queue[i], h)
    BY DEF WaiterTypeOK, DropFlag
  <2> QED
    BY <1>1, <2>1 DEF InQueue
<1>3. \A d \in Handle : hand[d] # NoWaiter =>
        hand'[d] # NoWaiter /\ hand'[d].task = hand[d].task
  <2>1. \A d \in Handle : hand[d] # NoWaiter =>
          hand[d] \in Waiter /\ hand'[d] = Orphan(hand[d], h)
    BY DEF WaiterTypeOK, DropFlag
  <2> QED
    BY <1>1, <2>1
<1>4. ~registered'[h] /\ \A g \in Handle \ {h} : registered'[g] = registered[g]
  BY DEF WaiterTypeOK, DropFlag
<1> QED
  BY <1>2, <1>3, <1>4

(* Waiter::wake clears the flag of the Waiter's own future and no other. *)
LEMMA ClearsOwnFlag ==
  ASSUME WaiterTypeOK, WaiterInv, NEW h \in Handle, pc[h] = "unregister", SetUnregistered(h)
  PROVE  /\ hand[h] # NoWaiter /\ hand[h].task \in Handle
         /\ registered' = [registered EXCEPT ![hand[h].task] = FALSE]
<1>1. hand[h] # NoWaiter /\ hand[h] \in Waiter /\ hand[h].alive
  BY DEF WaiterTypeOK, WaiterInv, WaitersAlive, DrainHolds
<1>2. FlagsHit(hand[h]) = {{hand[h].task}}
  BY <1>1 DEF FlagsHit
<1>3. registered' = [g \in Handle |-> registered[g] /\ g \notin {hand[h].task}]
  BY <1>2 DEF SetUnregistered
<1>4. hand[h].task \in Handle
  BY <1>1 DEF Waiter
<1>5. registered \in [Handle -> BOOLEAN]
  BY DEF WaiterTypeOK
<1>6. \A g \in Handle : (registered[g] /\ g \notin {hand[h].task})
                         = (IF g = hand[h].task THEN FALSE ELSE registered[g])
  BY Zenon, <1>5
<1> QED
  BY <1>1, <1>3, <1>4, <1>5, <1>6

-----------------------------------------------------------------------------
(* The steps, sorted by what they do to the Waiters. *)

(* Nothing happens to the Waiters; h runs on, or polls.                    *)
RunsOn(h) ==
  /\ UNCHANGED <<queue, registered, hand>>
  /\ \A g \in Handle \ {h} : pc'[g] = pc[g] /\ woken'[g] = woken[g]
  /\ pc'[h] \notin Pending \cup {"unregister", "wake"}
  /\ pc[h] \notin {"unregister", "wake"}

(* h parks and asks to be polled again. *)
ParksAwake(h) ==
  /\ UNCHANGED <<queue, registered, hand>>
  /\ \A g \in Handle \ {h} : pc'[g] = pc[g] /\ woken'[g] = woken[g]
  /\ pc[h] \notin {"unregister", "wake"}
  /\ pc'[h] \in {"parked", "owner_parked"} /\ woken'[h]

(* The poll ends Ready, or the client has its reference or its block. *)
BecomesReady(h) ==
  /\ DropFlag(h)
  /\ \A g \in Handle \ {h} : pc'[g] = pc[g]
  /\ pc'[h] \notin Pending \cup {"unregister", "wake"}
  /\ pc[h] \notin {"unregister", "wake"}

LEMMA StepKinds ==
  ASSUME ~Cancellation, ~SpuriousPolls, TypeInv, WaiterInv, Next
  PROVE  \E h \in Handle :
           \/ RunsOn(h) \/ ParksAwake(h) \/ BecomesReady(h)
           \/ Register(h) \/ SetFlag(h)
           \/ pc[h] \in {"pop_first", "pop"} /\ PopWaiter(h) /\ Goto(h, "unregister")
           \/ Unregister(h) \/ Wake(h)
<1> USE DEF TypeInv, TypeOK, WaiterTypeOK, Pending
<1>1. ASSUME NEW h \in Handle, NEW f \in Api, Call(h, f)  PROVE RunsOn(h)
  BY <1>1 DEF Call, Goto, waiterVars, RunsOn
<1>2. ASSUME NEW h \in Handle, Load(h) \/ CasRetries(h) \/ SpinAgain(h)  PROVE RunsOn(h)
  BY <1>2 DEF Load, CasRetries, SpinAgain, CasExhausted, CasFails, Goto, waiterVars, RunsOn
<1>3. ASSUME NEW h \in Handle, CasSucceeds(h)  PROVE BecomesReady(h)
  BY <1>3 DEF CasSucceeds, Return, Goto, BecomesReady
<1>4. ASSUME NEW h \in Handle, ReturnNone(h) \/ CheckPasses(h)  PROVE RunsOn(h)
  BY <1>4 DEF ReturnNone, CheckPasses, CasExhausted, CasFails, Return, Goto, Finished,
     waiterVars, RunsOn
<1>5. ASSUME NEW h \in Handle, BecomeFuture(h)  PROVE ParksAwake(h)
  BY <1>5 DEF BecomeFuture, CasExhausted, CasFails, ParkWoken, Goto, WakeByRef, ParksAwake
<1>6. ASSUME NEW h \in Handle, PollExhausted(h)  PROVE RunsOn(h) \/ ParksAwake(h)
  <2>1. CASE ParkWoken(h, "parked", "FutureRef")
    BY <1>6, <2>1
       DEF PollExhausted, CasExhausted, CasFails, ParkWoken, Goto, WakeByRef, ParksAwake
  <2>2. CASE Goto(h, "probe") /\ UNCHANGED waiterVars
    BY <1>6, <2>2 DEF PollExhausted, CasExhausted, CasFails, Goto, waiterVars, RunsOn
  <2> QED
    BY <1>6, <2>1, <2>2 DEF PollExhausted
<1>7. ASSUME NEW h \in Handle, CheckFails(h)  PROVE RunsOn(h) \/ ParksAwake(h)
  <2>1. CASE ParkWoken(h, "owner_parked", "FutureExclusiveRef")
    BY <1>7, <2>1 DEF CheckFails, ParkWoken, Goto, WakeByRef, ParksAwake
  <2>2. CASE UNCHANGED waiterVars /\ (UNCHANGED pc \/ Goto(h, "give_up"))
    BY <1>7, <2>2 DEF CheckFails, Goto, waiterVars, RunsOn
  <2> QED
    BY <1>7, <2>1, <2>2 DEF CheckFails
<1>8. ASSUME NEW h \in Handle, Poll(h)  PROVE RunsOn(h)
  BY <1>8 DEF Poll, StartPoll, Goto, RunsOn
<1>9. ASSUME NEW h \in Handle, Probe(h)  PROVE RunsOn(h) \/ ParksAwake(h)
  <2>1. CASE ParkWoken(h, "parked", op[h])
    BY <1>9, <2>1 DEF Probe, ParkWoken, Goto, WakeByRef, ParksAwake
  <2>2. CASE UNCHANGED waiterVars /\ (Goto(h, "register") \/ Goto(h, "load"))
    BY <1>9, <2>2 DEF Probe, Goto, waiterVars, RunsOn
  <2> QED
    BY <1>9, <2>1, <2>2 DEF Probe
<1>10. ASSUME NEW h \in Handle, DropRef(h) \/ UnblockRefs(h)  PROVE RunsOn(h)
  BY <1>10 DEF DropRef, UnblockRefs, Return, Goto, Finished, waiterVars, RunsOn
<1>11. ASSUME NEW h \in Handle, PopFirst(h) \/ PopNext(h)
       PROVE  \/ RunsOn(h)
              \/ pc[h] \in {"pop_first", "pop"} /\ PopWaiter(h) /\ Goto(h, "unregister")
  <2>1. CASE PopWaiter(h) /\ Goto(h, "unregister")
    BY <1>11, <2>1 DEF PopFirst, PopNext
  <2>2. CASE PopNothing /\ (Goto(h, "pop") \/ Goto(h, Finished))
    BY <1>11, <2>2 DEF PopFirst, PopNext, PopNothing, Goto, Finished, waiterVars, RunsOn
  <2> QED
    BY <1>11, <2>1, <2>2 DEF PopFirst, PopNext
<1> QED
  BY Zenon, <1>1, <1>2, <1>3, <1>4, <1>5, <1>6, <1>7, <1>8, <1>9, <1>10, <1>11
     DEF Next, Acquire, Release, SpuriousPoll, Cancel

(* Futures that sleep have a reason to, whatever happens next. *)
LEMMA SleepStep ==
  ASSUME ~Cancellation, ~SpuriousPolls, TypeInv, WaiterInv, SleepsForAReason, [Next]_vars
  PROVE  SleepsForAReason'
<1>0. WaiterTypeOK /\ pc \in [Handle -> PCs]
  BY DEF TypeInv, TypeOK
<1>1. CASE UNCHANGED vars
  BY <1>1 DEF vars, SleepsForAReason, InQueue, InHand
<1>2. ASSUME NEW h \in Handle, RunsOn(h) \/ ParksAwake(h)  PROVE SleepsForAReason'
  BY <1>2 DEF RunsOn, ParksAwake, SleepsForAReason, InQueue, InHand, Pending
<1>3. ASSUME NEW h \in Handle, BecomesReady(h)  PROVE SleepsForAReason'
  <2>1. \A g \in Handle : InHand(g) => InHand(g)'
    BY <1>0, <1>3, DropKeeps DEF BecomesReady, InHand
  <2>2. \A g \in Handle : InQueue(g) => InQueue(g)'
    BY <1>0, <1>3, DropKeeps DEF BecomesReady
  <2>3. \A g \in Handle \ {h} : /\ pc'[g] = pc[g]
                                /\ woken'[g] = woken[g] /\ registered'[g] = registered[g]
    BY <1>0, <1>3, DropKeeps DEF BecomesReady, DropFlag
  <2>4. pc'[h] \notin Pending
    BY <1>3 DEF BecomesReady
  <2> QED
    BY <2>1, <2>2, <2>3, <2>4 DEF SleepsForAReason, Pending
<1>4. ASSUME NEW h \in Handle, Register(h)  PROVE SleepsForAReason'
  <2>1. \A g \in Handle \ {h} : pc'[g] = pc[g]
    BY <1>0, <1>4 DEF Register, Goto
  <2>2. CASE AlreadyRegistered(h) /\ Goto(h, "parked")
    <3>1. pc'[h] = "parked" /\ registered'[h]
      BY <1>0, <2>2 DEF AlreadyRegistered, Goto, waiterVars
    <3> QED
      BY <2>1, <2>2, <3>1
         DEF SleepsForAReason, AlreadyRegistered, waiterVars, InQueue, InHand
  <2>3. CASE PushWaiter(h) /\ Goto(h, "flag")
    <3>1. pc'[h] = "flag"
      BY <1>0, <2>3 DEF Goto
    <3>2. InQueue(h)' /\ \A g \in Handle : InQueue(g) => InQueue(g)'
      BY <1>0, <2>3, PushQueues
    <3>3. UNCHANGED <<registered, woken, hand>>
      BY <2>3 DEF PushWaiter
    <3>4. \A g \in Handle : InHand(g) => InHand(g)'
      BY <3>3 DEF InHand
    <3> QED
      BY <2>1, <3>1, <3>2, <3>3, <3>4 DEF SleepsForAReason
  <2>4. CASE PushRefused(h) /\ Goto(h, "parked")
    <3>1. /\ pc'[h] = "parked" /\ woken'[h]
          /\ \A g \in Handle \ {h} : woken'[g] = woken[g] /\ registered'[g] = registered[g]
          /\ UNCHANGED <<queue, hand>>
      BY <1>0, <2>4 DEF PushRefused, Goto, WaiterTypeOK
    <3> QED
      BY <2>1, <3>1 DEF SleepsForAReason, InQueue, InHand
  <2> QED
    BY <1>4, <2>2, <2>3, <2>4 DEF Register
<1>5. ASSUME NEW h \in Handle, SetFlag(h)  PROVE SleepsForAReason'
  <2>1. /\ pc'[h] = "parked" /\ registered'[h] /\ UNCHANGED <<queue, woken, hand>>
        /\ \A g \in Handle \ {h} : pc'[g] = pc[g] /\ registered'[g] = registered[g]
    BY <1>0, <1>5 DEF SetFlag, StoreRegistered, Goto, WaiterTypeOK
  <2> QED
    BY <2>1 DEF SleepsForAReason, InQueue, InHand
<1>6. ASSUME NEW h \in Handle, pc[h] \in {"pop_first", "pop"}, PopWaiter(h), Goto(h, "unregister")
      PROVE  SleepsForAReason'
  <2>1. hand[h] = NoWaiter
    BY <1>6 DEF WaiterInv, DrainHolds
  <2>2. \A g \in Handle : InQueue(g) => InQueue(g)' \/ InHand(g)'
    BY <1>0, <1>6, <2>1, PopHolds DEF InHand
  <2>3. \A g \in Handle : InHand(g) => InHand(g)'
    BY <1>0, <1>6, <2>1, PopHolds DEF InHand
  <2>4. pc'[h] = "unregister" /\ \A g \in Handle \ {h} : pc'[g] = pc[g]
    BY <1>0, <1>6 DEF Goto
  <2>5. UNCHANGED <<registered, woken>>
    BY <1>6 DEF PopWaiter
  <2> QED
    BY <2>2, <2>3, <2>4, <2>5 DEF SleepsForAReason
<1>7. ASSUME NEW h \in Handle, Unregister(h)  PROVE SleepsForAReason'
  <2>1. pc[h] = "unregister" /\ SetUnregistered(h) /\ UNCHANGED <<queue, woken, hand>>
    BY <1>7 DEF Unregister, SetUnregistered
  <2>2. /\ hand[h] # NoWaiter /\ hand[h].task \in Handle
        /\ registered' = [registered EXCEPT ![hand[h].task] = FALSE]
    BY <1>0, <2>1, ClearsOwnFlag
  <2>3. \A g \in Handle : registered[g] => registered'[g] \/ InHand(g)'
    BY <1>0, <2>1, <2>2 DEF InHand, WaiterTypeOK
  <2>4. pc'[h] = "wake" /\ \A g \in Handle \ {h} : pc'[g] = pc[g]
    BY <1>0, <1>7 DEF Unregister, Goto
  <2>5. \A g \in Handle : (InQueue(g) => InQueue(g)') /\ (InHand(g) => InHand(g)')
    BY <2>1 DEF InQueue, InHand
  <2> QED
    BY <2>1, <2>3, <2>4, <2>5 DEF SleepsForAReason
<1>8. ASSUME NEW h \in Handle, Wake(h)  PROVE SleepsForAReason'
  <2>1. pc[h] = "wake" /\ WakeTask(h)
    BY <1>8 DEF Wake
  <2>2. pc'[h] = "pop" /\ \A g \in Handle \ {h} : pc'[g] = pc[g]
    BY <1>0, <1>8 DEF Wake, Goto
  <2>3. hand[h] # NoWaiter /\ hand[h].task \in Handle
    BY <1>0, <2>1 DEF WaiterInv, DrainHolds, WaiterTypeOK, Waiter
  <2>4. \A g \in Handle : InHand(g) => InHand(g)' \/ woken'[g]
    BY <1>0, <2>1, <2>3 DEF WakeTask, InHand, WaiterTypeOK
  <2>5. \A g \in Handle : (InQueue(g) => InQueue(g)') /\ (woken[g] => woken'[g])
    BY <1>0, <2>1, <2>3 DEF WakeTask, InQueue, WaiterTypeOK
  <2>6. registered' = registered
    BY <2>1 DEF WakeTask
  <2> QED
    BY <2>2, <2>4, <2>5, <2>6 DEF SleepsForAReason
<1> QED
  BY <1>1, <1>2, <1>3, <1>4, <1>5, <1>6, <1>7, <1>8, StepKinds

(* No step but the late store of the flag makes a flag lie. *)
LEMMA HonestStep ==
  ASSUME ~Cancellation, ~SpuriousPolls, TypeInv, WaiterInv, [Next]_vars,
         NEW g \in Handle, FlagHonest(g)
  PROVE  FlagHonest(g)' \/ StoresLate(g)
<1>0. WaiterTypeOK /\ pc \in [Handle -> PCs]
  BY DEF TypeInv, TypeOK
<1>1. CASE UNCHANGED vars
  BY <1>1 DEF vars, FlagHonest, InQueue
<1>2. ASSUME NEW h \in Handle, RunsOn(h) \/ ParksAwake(h)  PROVE FlagHonest(g)'
  BY <1>2 DEF RunsOn, ParksAwake, FlagHonest, InQueue
<1>3. ASSUME NEW h \in Handle, BecomesReady(h)  PROVE FlagHonest(g)'
  <2>1. /\ InQueue(g) => InQueue(g)'
        /\ \A d \in Handle : hand[d] # NoWaiter =>
             hand'[d] # NoWaiter /\ hand'[d].task = hand[d].task
        /\ registered'[g] => registered[g]
    BY <1>0, <1>3, DropKeeps DEF BecomesReady
  <2>2. \A d \in Handle : pc[d] = "unregister" => pc'[d] = "unregister"
    BY <1>3 DEF BecomesReady
  <2> QED
    BY <2>1, <2>2 DEF FlagHonest
<1>4. ASSUME NEW h \in Handle, Register(h)  PROVE FlagHonest(g)'
  <2>1. hand' = hand /\ (registered'[g] => registered[g])
    BY <1>0, <1>4
       DEF Register, AlreadyRegistered, PushWaiter, PushRefused, waiterVars, WaiterTypeOK
  <2>2. InQueue(g) => InQueue(g)'
    <3>1. CASE PushWaiter(h)
      BY <1>0, <3>1, PushQueues
    <3>2. CASE queue' = queue
      BY <3>2 DEF InQueue
    <3> QED
      BY <1>4, <3>1, <3>2 DEF Register, AlreadyRegistered, PushRefused, waiterVars
  <2>3. \A d \in Handle : pc[d] = "unregister" => pc'[d] = "unregister"
    BY <1>0, <1>4 DEF Register, Goto
  <2> QED
    BY <2>1, <2>2, <2>3 DEF FlagHonest
<1>5. ASSUME NEW h \in Handle, SetFlag(h)  PROVE FlagHonest(g)' \/ StoresLate(g)
  <2>1. CASE h = g
    BY <1>5, <2>1 DEF StoresLate
  <2>2. CASE h # g
    <3>1. /\ UNCHANGED <<queue, hand>> /\ registered'[g] = registered[g]
          /\ \A d \in Handle : pc[d] = "unregister" => pc'[d] = "unregister"
      BY <1>0, <1>5, <2>2 DEF SetFlag, StoreRegistered, Goto, WaiterTypeOK
    <3> QED
      BY <3>1 DEF FlagHonest, InQueue
  <2> QED
    BY <2>1, <2>2
<1>6. ASSUME NEW h \in Handle, pc[h] \in {"pop_first", "pop"}, PopWaiter(h), Goto(h, "unregister")
      PROVE  FlagHonest(g)'
  <2>1. hand[h] = NoWaiter
    BY <1>6 DEF WaiterInv, DrainHolds
  <2>2. /\ InQueue(g) => InQueue(g)' \/ (hand'[h] # NoWaiter /\ hand'[h].task = g)
        /\ \A d \in Handle \ {h} : hand'[d] = hand[d]
    BY <1>0, <1>6, <2>1, PopHolds
  <2>3. pc'[h] = "unregister" /\ \A d \in Handle \ {h} : pc'[d] = pc[d]
    BY <1>0, <1>6 DEF Goto
  <2>4. registered' = registered
    BY <1>6 DEF PopWaiter
  <2> QED
    BY <2>1, <2>2, <2>3, <2>4 DEF FlagHonest
<1>7. ASSUME NEW h \in Handle, Unregister(h)  PROVE FlagHonest(g)'
  <2>1. pc[h] = "unregister" /\ SetUnregistered(h) /\ UNCHANGED <<queue, hand>>
    BY <1>7 DEF Unregister, SetUnregistered
  <2>2. /\ hand[h] # NoWaiter /\ hand[h].task \in Handle
        /\ registered' = [registered EXCEPT ![hand[h].task] = FALSE]
    BY <1>0, <2>1, ClearsOwnFlag
  <2>3. registered'[g] => registered[g] /\ hand[h].task # g
    BY <1>0, <2>2 DEF WaiterTypeOK
  <2>4. \A d \in Handle \ {h} : pc'[d] = pc[d]
    BY <1>0, <1>7 DEF Unregister, Goto
  <2> QED
    BY <2>1, <2>3, <2>4 DEF FlagHonest, InQueue
<1>8. ASSUME NEW h \in Handle, Wake(h)  PROVE FlagHonest(g)'
  <2>1. /\ pc[h] = "wake" /\ UNCHANGED <<queue, registered>>
        /\ \A d \in Handle \ {h} : pc'[d] = pc[d] /\ hand'[d] = hand[d]
    BY <1>0, <1>8 DEF Wake, WakeTask, Goto, WaiterTypeOK
  <2> QED
    BY <2>1 DEF FlagHonest, InQueue
<1> QED
  BY <1>1, <1>2, <1>3, <1>4, <1>5, <1>6, <1>7, <1>8, StepKinds

-----------------------------------------------------------------------------
LEMMA SleepInit ==
  ASSUME Init
  PROVE  SleepsForAReason /\ \A h \in Handle : FlagHonest(h)
  BY DEF Init, WaiterInit, SleepsForAReason, FlagHonest

(* A pending future that nobody has woken has a Waiter, or a flag that     *)
(* says so: whatever order pushes, pops, stores and polls come in, and     *)
(* however short the queue, no task is put to sleep and then forgotten     *)
(* except by trusting its flag.                                            *)
THEOREM SleepersHaveAReason ==
  ASSUME ~Cancellation, ~SpuriousPolls
  PROVE  Spec => []SleepsForAReason
<1>1. Init => SleepsForAReason
  BY SleepInit
<1>2. TypeInv /\ WaiterInv /\ SleepsForAReason /\ [Next]_vars => SleepsForAReason'
  BY SleepStep
<1> QED
  BY <1>1, <1>2, WaiterInvariant, PTL DEF Spec

(* The flag itself comes to lie in one way only: the store of              *)
(* try_register_future! (futures.rs:43) that arrives after a drain has     *)
(* popped the Waiter and cleared the flag.                                 *)
THEOREM OnlyLateStores ==
  ASSUME ~Cancellation, ~SpuriousPolls
  PROVE  Spec => OnlyLateStoresLie
<1>1. TypeInv /\ WaiterInv /\ [Next]_vars =>
        [\A h \in Handle : FlagHonest(h) /\ ~FlagHonest(h)' => StoresLate(h)]_vars
  BY HonestStep
<1> QED
  BY <1>1, WaiterInvariant, PTL DEF Spec, OnlyLateStoresLie

-----------------------------------------------------------------------------
(* Who drains the queue *)

(* The handles that are to release a block or are draining the queue. *)
Attendants == {h \in Handle : pc[h] \in {"check", "owner_parked", "give_up", "exclusive", "blocked",
                                         "pop_first", "pop", "unregister", "wake"}}

LEMMA AttendantsAttend == Attendants # {} <=> Blockers # {} \/ Draining
  BY DEF Attendants, Blockers, Draining

(* A handle stops attending only when it has found the queue empty.        *)
LEMMA AttendantStays ==
  ASSUME ~Cancellation, ~SpuriousPolls, TypeInv, Next,
         NEW d \in Attendants, d \notin Attendants'
  PROVE  queue = << >> /\ queue' = queue
<1>0. pc \in [Handle -> PCs]
  BY DEF TypeInv, TypeOK
<1> USE DEF Attendants
<1>1. ASSUME NEW h \in Handle, NEW f \in Api, Call(h, f)  PROVE FALSE
  BY <1>0, <1>1 DEF Call, Goto
<1>2. ASSUME NEW h \in Handle, Load(h) \/ CasRetries(h) \/ SpinAgain(h) \/ ReturnNone(h)
      PROVE  FALSE
  BY <1>0, <1>2 DEF Load, CasRetries, SpinAgain, ReturnNone, CasExhausted, CasFails, Return, Goto
<1>3. ASSUME NEW h \in Handle, CasSucceeds(h) \/ BecomeFuture(h) \/ PollExhausted(h)
      PROVE  FALSE
  BY <1>0, <1>3 DEF CasSucceeds, BecomeFuture, PollExhausted, CasExhausted, CasFails, ParkWoken,
     Return, Goto
<1>4. ASSUME NEW h \in Handle, CheckPasses(h) \/ CheckFails(h)  PROVE FALSE
  BY <1>0, <1>4 DEF CheckPasses, CheckFails, ParkWoken, Return, Goto
<1>5. ASSUME NEW h \in Handle, Poll(h) \/ Probe(h)  PROVE FALSE
  BY <1>0, <1>5 DEF Poll, StartPoll, Probe, ParkWoken, Goto
<1>6. ASSUME NEW h \in Handle, Register(h) \/ SetFlag(h) \/ DropRef(h)  PROVE FALSE
  BY <1>0, <1>6 DEF Register, SetFlag, DropRef, Return, Goto
<1>7. ASSUME NEW h \in Handle, UnblockRefs(h) \/ PopFirst(h) \/ Unregister(h) \/ Wake(h)
      PROVE  FALSE
  BY <1>0, <1>7 DEF UnblockRefs, PopFirst, Unregister, Wake, Return, Goto
<1>8. ASSUME NEW h \in Handle, PopNext(h)  PROVE queue = << >> /\ queue' = queue
  BY <1>0, <1>8 DEF PopNext, PopNothing, Goto, waiterVars
<1> QED
  BY Zenon, <1>1, <1>2, <1>3, <1>4, <1>5, <1>6, <1>7, <1>8
     DEF Next, Acquire, Release, SpuriousPoll, Cancel

(* A Waiter comes into the queue by the registration of its own future. *)
LEMMA OnlyPushesQueue ==
  ASSUME ~Cancellation, ~SpuriousPolls, TypeInv, WaiterInv, Next,
         NEW g \in Handle, ~InQueue(g), InQueue(g)'
  PROVE  Register(g)
<1>0. WaiterTypeOK
  BY DEF TypeInv, TypeOK
<1>1. ASSUME NEW h \in Handle, RunsOn(h) \/ ParksAwake(h) \/ SetFlag(h) \/ Unregister(h) \/ Wake(h)
      PROVE  FALSE
  <2>1. queue' = queue
    BY <1>1 DEF RunsOn, ParksAwake, SetFlag, StoreRegistered, Unregister, SetUnregistered,
       Wake, WakeTask
  <2> QED
    BY <2>1 DEF InQueue
<1>2. ASSUME NEW h \in Handle, BecomesReady(h)  PROVE FALSE
  <2>1. /\ DOMAIN queue' = DOMAIN queue
        /\ \A i \in DOMAIN queue : queue[i] \in Waiter /\ queue'[i] = Orphan(queue[i], h)
    BY <1>0, <1>2 DEF WaiterTypeOK, BecomesReady, DropFlag
  <2>2. \A w \in Waiter : Orphan(w, h).task = w.task
    BY DEF Orphan, Waiter
  <2> QED
    BY <2>1, <2>2 DEF InQueue
<1>3. ASSUME NEW h \in Handle, PopWaiter(h)  PROVE FALSE
  <2>1. PICK n \in Nat \ {0} : n = Len(queue)
    BY <1>0, <1>3 DEF WaiterTypeOK, PopWaiter
  <2>2. /\ DOMAIN queue = 1 .. n /\ DOMAIN queue' = 1 .. n - 1
        /\ \A i \in 1 .. n - 1 : queue'[i] = queue[i + 1]
    BY <1>0, <1>3, <2>1 DEF WaiterTypeOK, PopWaiter
  <2>3. \A i \in 1 .. n - 1 : i + 1 \in 1 .. n
    OBVIOUS
  <2> QED
    BY <2>2, <2>3 DEF InQueue
<1>4. ASSUME NEW h \in Handle, Register(h)  PROVE h = g
  <2>1. CASE queue' = queue
    BY <2>1 DEF InQueue
  <2>2. CASE PushWaiter(h)
    <3>1. PICK n \in Nat : n = Len(queue)
      BY <1>0 DEF WaiterTypeOK
    <3>2. /\ DOMAIN queue = 1 .. n /\ DOMAIN queue' = 1 .. n + 1
          /\ \A i \in 1 .. n : queue'[i] = queue[i]
          /\ queue'[n + 1] = NewWaiter(h)
      BY <1>0, <2>2, <3>1 DEF WaiterTypeOK, PushWaiter, Waiter, NewWaiter
    <3>3. queue'[n + 1].task = h
      BY <3>2 DEF NewWaiter
    <3> QED
      BY <3>2, <3>3 DEF InQueue
  <2> QED
    BY <1>4, <2>1, <2>2 DEF Register, AlreadyRegistered, PushRefused, waiterVars
<1> QED
  BY <1>1, <1>2, <1>3, <1>4, StepKinds

(* No step but a late push strands a Waiter. *)
LEMMA AttendedStep ==
  ASSUME ~Cancellation, ~SpuriousPolls, TypeInv, WaiterInv, [Next]_vars,
         NEW g \in Handle, Attended(g)
  PROVE  Attended(g)' \/ PushesLate(g)
<1>1. CASE UNCHANGED vars
  BY <1>1 DEF vars, Attended, InQueue, Blockers, Draining
<1>2. CASE Next
  <2> SUFFICES ASSUME InQueue(g)', ~(Blockers # {} \/ Draining)'
               PROVE  Register(g)
    BY DEF Attended, PushesLate
  <2>1. Attendants' = {}
    BY DEF Attendants, Blockers, Draining
  <2>2. CASE InQueue(g)
    <3>1. PICK d \in Attendants : d \notin Attendants'
      BY <2>1, <2>2, AttendantsAttend DEF Attended
    <3>2. queue = << >>
      BY <1>2, <3>1, AttendantStays
    <3> QED
      BY <2>2, <3>2 DEF InQueue
  <2>3. CASE ~InQueue(g)
    BY <1>2, <2>3, OnlyPushesQueue
  <2> QED
    BY <2>2, <2>3
<1> QED
  BY <1>1, <1>2

LEMMA AttendedInit ==
  ASSUME Init
  PROVE  \A h \in Handle : Attended(h)
  BY DEF Init, WaiterInit, Attended, InQueue

(* A Waiter is stranded, queued with nobody to drain the queue, in one way *)
(* only: it is pushed after the block that its future has seen is gone and *)
(* the last drain has found the queue empty (futures.rs:79).               *)
THEOREM OnlyLatePushes ==
  ASSUME ~Cancellation, ~SpuriousPolls
  PROVE  Spec => OnlyLatePushesStrand
<1>1. TypeInv /\ WaiterInv /\ [Next]_vars =>
        [\A h \in Handle : Attended(h) /\ ~Attended(h)' => PushesLate(h)]_vars
  BY AttendedStep
<1> QED
  BY <1>1, WaiterInvariant, PTL DEF Spec, OnlyLatePushesStrand

(* The future of h sleeps, and the Waiter that is to wake it is in the     *)
(* hand of a drain, or queued while somebody is to drain the queue.        *)
WatchedOver(h) ==
  pc[h] \in {"flag", "parked"} /\ ~woken[h] =>
    InHand(h) \/ (InQueue(h) /\ (Blockers # {} \/ Draining))

(* So these two races are the whole of what runs StaleFlag and LostWakeup  *)
(* show: in every behaviour in which no flag is stored late and no Waiter  *)
(* is pushed late, a registered future is queued, and every sleeping       *)
(* future has a Waiter that a drain under way, or the drain of the block   *)
(* that is held, will find.                                                *)
THEOREM TwoRacesOnly ==
  ASSUME ~Cancellation, ~SpuriousPolls
  PROVE  Spec /\ [][\A h \in Handle : ~StoresLate(h) /\ ~PushesLate(h)]_vars
           => [](RegisteredMeansQueued /\ \A h \in Handle : WatchedOver(h))
<1> DEFINE Timely == \A h \in Handle : FlagHonest(h) /\ Attended(h)
           Watched == \A h \in Handle : WatchedOver(h)
<1>1. Init => Timely
  BY SleepInit, AttendedInit
<1>2. TypeInv /\ WaiterInv /\ Timely /\ [Next]_vars
        /\ [\A h \in Handle : ~StoresLate(h) /\ ~PushesLate(h)]_vars => Timely'
  <2> SUFFICES ASSUME TypeInv, WaiterInv, Timely, [Next]_vars,
                      [\A h \in Handle : ~StoresLate(h) /\ ~PushesLate(h)]_vars
               PROVE  Timely'
    OBVIOUS
  <2>1. CASE \A h \in Handle : ~StoresLate(h) /\ ~PushesLate(h)
    BY <2>1, HonestStep, AttendedStep
  <2>2. CASE UNCHANGED vars
    BY <2>2 DEF vars, FlagHonest, Attended, InQueue, Blockers, Draining
  <2> QED
    BY <2>1, <2>2
<1>3. SleepsForAReason /\ Timely => RegisteredMeansQueued /\ Watched
  <2> SUFFICES ASSUME SleepsForAReason, Timely
               PROVE  RegisteredMeansQueued /\ Watched
    OBVIOUS
  <2>1. \A h \in Handle : registered[h] => InQueue(h) \/ InHand(h)
    BY DEF FlagHonest, InHand
  <2>2. \A h \in Handle : pc[h] \in {"flag", "parked"} /\ ~woken[h] => InQueue(h) \/ InHand(h)
    BY <2>1 DEF SleepsForAReason
  <2> QED
    BY <2>1, <2>2 DEF RegisteredMeansQueued, WatchedOver, Attended
<1> HIDE DEF Timely, Watched
<1>4. Spec /\ [][\A h \in Handle : ~StoresLate(h) /\ ~PushesLate(h)]_vars
        => [](RegisteredMeansQueued /\ Watched)
  BY <1>1, <1>2, <1>3, WaiterInvariant, SleepersHaveAReason, PTL DEF Spec
<1> QED
  BY <1>4 DEF Watched
=============================================================================
