--------------------------- MODULE RefCountOnQueue ----------------------------
(***************************************************************************)
(* RefCount on the queue it really has: every push of a Waiter and every   *)
(* pop of unblock_refs runs the steps of ArrayQueue, interleaved with the  *)
(* steps of all other handles.                                             *)
(*                                                                         *)
(* A handle's Waiter is known by the handle, so that is what a slot holds. *)
(* `queue` and `hand` become history variables: they say what an atomic    *)
(* queue would hold, a push and a pop taking effect when they move the     *)
(* tail and the head.                                                      *)
(***************************************************************************)
EXTENDS RefCount

CONSTANTS MaxTail,    \* bound: no push starts when the tail is past it
          StaleLoads  \* as in ArrayQueue

ASSUME RefCountOnQueueAssumption ==
  MaxTail \in Nat /\ StaleLoads \in BOOLEAN /\ NoWaiter \notin Handle

VARIABLES head, tail, stamp, slot,  \* the ArrayQueue
          qpc, qop, pos, got        \* where a handle is in push or pop

Q == INSTANCE ArrayQueue WITH
       Proc <- Handle, Capacity <- MaxWaiting, NoValue <- NoWaiter,
       Api <- {"push", "pop"}, MaxCalls <- 0,
       pc <- qpc, op <- qop, aux <- [h \in Handle |-> 0], calls <- 0

qVars   == <<head, tail, stamp, slot, qpc, qop, pos, got>>
allVars == <<vars, qVars>>

QInit == Init /\ Q!Init

-----------------------------------------------------------------------------
(* The steps that do not touch the queue. *)
LockStep(h) ==
  /\ \/ Load(h) \/ CasSucceeds(h) \/ CasRetries(h)
     \/ SpinAgain(h) \/ ReturnNone(h) \/ BecomeFuture(h) \/ PollExhausted(h)
     \/ CheckPasses(h) \/ CheckFails(h)
     \/ Probe(h) \/ SetFlag(h) \/ Unregister(h) \/ Wake(h)
  /\ UNCHANGED qVars

(* A step inside push or pop that takes no effect yet. *)
QuietStep(h) ==
  /\ \/ Q!LoadTail(h) \/ Q!LoadStamp(h) \/ Q!WriteSlot(h) \/ Q!PushNotFull(h)
     \/ Q!LoadHead(h) \/ Q!LookAtStamp(h) \/ Q!ReadSlot(h) \/ Q!PopNotEmpty(h)
     \/ Q!PushCas(h) /\ tail' = tail
     \/ Q!PopCas(h) /\ head' = head
  /\ UNCHANGED vars

-----------------------------------------------------------------------------
(* try_register_future! *)

SkipRegister(h) ==
  /\ pc[h] = "register"
  /\ AlreadyRegistered(h)
  /\ Goto(h, "parked")
  /\ UNCHANGED <<count, frameVars, qVars>>

StartPush(h) ==
  /\ pc[h] = "register" /\ ~registered[h]
  /\ tail <= MaxTail
  /\ Q!Start(h, "push")
  /\ UNCHANGED vars

PushTakesEffect(h) ==
  /\ Q!PushCas(h) /\ tail' # tail
  /\ queue' = Append(queue, NewWaiter(h))
  /\ UNCHANGED <<count, pc, frameVars, registered, woken, hand>>

(* A future that is woken as soon as it is registered. *)
PushReturnsWoken(h) ==
  /\ Q!Publish(h)
  /\ Goto(h, "flag")
  /\ woken' = [woken EXCEPT ![h] = TRUE]
  /\ UNCHANGED <<count, frameVars, queue, registered, hand>>

(* Ok(()): the store of the flag is next. *)
PushReturns(h) ==
  /\ Q!Publish(h)
  /\ Goto(h, "flag")
  /\ UNCHANGED <<count, frameVars, waiterVars>>

(* A Waiter that comes back and is dropped: its task sleeps on. *)
PushComesBackAsleep(h) ==
  /\ Q!PushFull(h)
  /\ Goto(h, "parked")
  /\ UNCHANGED <<count, frameVars, waiterVars>>

(* Err(waker): the Waiter that came back is woken. *)
PushComesBack(h) ==
  /\ Q!PushFull(h)
  /\ Goto(h, "parked")
  /\ registered' = [registered EXCEPT ![h] = FALSE]
  /\ woken' = [woken EXCEPT ![h] = TRUE]
  /\ UNCHANGED <<count, frameVars, queue, hand>>

-----------------------------------------------------------------------------
(* unblock_refs *)

StartPop(h) ==
  /\ pc[h] \in {"pop_first", "pop"}
  /\ Q!Start(h, "pop")
  /\ UNCHANGED vars

PopTakesEffect(h) ==
  /\ Q!PopCas(h) /\ head' # head
  /\ hand' = [hand EXCEPT ![h] = Head(queue)]
  /\ queue' = Tail(queue)
  /\ UNCHANGED <<count, pc, frameVars, registered, woken>>

PopReturns(h) ==
  /\ Q!FreeSlot(h)
  /\ Goto(h, "unregister")
  /\ UNCHANGED <<count, frameVars, waiterVars>>

PopFindsNothing(h) ==
  /\ Q!PopEmpty(h)
  /\ Goto(h, IF pc[h] = "pop_first" THEN "pop" ELSE Finished)
  /\ UNCHANGED <<count, frameVars, waiterVars>>

-----------------------------------------------------------------------------
Running(h) ==
  \/ LockStep(h) \/ QuietStep(h)
  \/ SkipRegister(h) \/ StartPush(h)
  \/ PushTakesEffect(h) \/ PushReturns(h) \/ PushComesBack(h)
  \/ StartPop(h) \/ PopTakesEffect(h) \/ PopReturns(h) \/ PopFindsNothing(h)

Awaiting(h) == Poll(h) /\ UNCHANGED qVars
Dropping(h) == (DropRef(h) \/ UnblockRefs(h)) /\ UNCHANGED qVars

QNext == \E h \in Handle :
  \/ Running(h) \/ Awaiting(h) \/ Dropping(h)
  \/ (\E f \in Api : Call(h, f)) /\ UNCHANGED qVars

QSpec == QInit /\ [][QNext]_allVars

-----------------------------------------------------------------------------
(* Where a handle would be if push and pop were single steps. *)
AtomicPc == [h \in Handle |->
  CASE pc[h] = "register" /\ qpc[h] \in {"write", "publish"}       -> "flag"
    [] pc[h] \in {"pop_first", "pop"} /\ qpc[h] \in {"read", "free"} -> "unregister"
    [] OTHER -> pc[h]]
Atomic == INSTANCE RefCount WITH pc <- AtomicPc

(* Everything RefCount does on ArrayQueue it does on an atomic queue:      *)
(* push (futures.rs:42) fails only when MAX_WAITING Waiters are queued,    *)
(* the loop of unblock_refs (lib.rs:446) ends only when none is, although  *)
(* threads stop anywhere inside each other's calls.                        *)
AtomicQueue == Atomic!Spec

(* The Waiter that unblock_refs wakes is the one that has waited longest:  *)
(* the future that comes out of the slot is the head of the atomic queue.  *)
PoppedIsHead ==
  \A h \in Handle : qpc[h] = "free" => got[h] = hand[h].task

-----------------------------------------------------------------------------
(* The inductive invariant *)

InPush == {"tail", "stamp", "push_cas", "write", "publish", "full"}
InPop  == {"head", "look", "pop_cas", "read", "free", "empty"}

(* A handle is inside push while it registers, and inside pop while it     *)
(* drains, and nowhere else.                                               *)
CallsFit == \A h \in Handle :
  \/ qpc[h] = "idle"
  \/ qpc[h] \in InPush /\ qop[h] = "push" /\ pc[h] = "register" /\ ~registered[h]
  \/ qpc[h] \in InPop /\ qop[h] = "pop" /\ pc[h] \in {"pop_first", "pop"}

(* Why the queue may be taken for an atomic one: what the stamps stand for *)
(* is, Waiter by Waiter, what the atomic queue would hold; and a drain has *)
(* in its slot, or has got out of it, the Waiter that it would have popped.*)
SameItems == Q!Items = [n \in DOMAIN queue |-> queue[n].task]
SameTaken == \A h \in Handle :
  qpc[h] \in {"read", "free"} => hand[h] # NoWaiter /\ Q!Taken[h] = hand[h].task
QueueInv  == Q!StampInv /\ CallsFit /\ SameItems /\ SameTaken
=============================================================================
