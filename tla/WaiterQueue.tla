----------------------------- MODULE WaiterQueue -----------------------------
(***************************************************************************)
(* The waiter queue of a RefCount and what hangs off it: the `registered`  *)
(* flag of every future, the Waiter that a releasing thread has popped,    *)
(* and the wake flag of every task (src/src/waiter.rs, the macro           *)
(* try_register_future! of src/src/futures.rs, and the waiter_queue field  *)
(* of src/src/lib.rs).                                                     *)
(*                                                                         *)
(* The queue is the bounded FIFO that ArrayQueue promises: push and pop    *)
(* each take effect in one step.  A Waiter points at the flag inside its   *)
(* future; "alive" turns false when that future goes away under it.        *)
(***************************************************************************)
EXTENDS Sequences, Naturals

CONSTANTS Handle,      \* the acquisition handles: one future or guard each
          MaxWaiting,  \* MAX_WAITING, the capacity of the waiter queue
          NoWaiter     \* "no Waiter in hand"

Waiter == [task : Handle, alive : BOOLEAN]

ASSUME WaiterAssumption == MaxWaiting \in Nat \ {0} /\ NoWaiter \notin Waiter

VARIABLES queue,       \* RefCount::waiter_queue
          registered,  \* the AtomicBool inside the handle's future
          woken,       \* the handle's task has been woken and not yet polled
          hand         \* the Waiter a releasing handle has popped

waiterVars == <<queue, registered, woken, hand>>

WaiterTypeOK ==
  /\ queue \in Seq(Waiter) /\ Len(queue) <= MaxWaiting
  /\ registered \in [Handle -> BOOLEAN]
  /\ woken \in [Handle -> BOOLEAN]
  /\ hand \in [Handle -> Waiter \cup {NoWaiter}]

WaiterInit ==
  /\ queue = << >>
  /\ registered = [h \in Handle |-> FALSE]
  /\ woken = [h \in Handle |-> FALSE]
  /\ hand = [h \in Handle |-> NoWaiter]

InQueue(h) == \E i \in DOMAIN queue : queue[i].task = h
InHand(h)  == \E d \in Handle : hand[d] # NoWaiter /\ hand[d].task = h

(* cx.waker().wake_by_ref(): the executor must poll the task again. *)
WakeByRef(h) ==
  /\ woken' = [woken EXCEPT ![h] = TRUE]
  /\ UNCHANGED <<queue, registered, hand>>

(* The future of h is gone, and its flag with it.  A Waiter may remain. *)
Orphan(w, h) == [w EXCEPT !.alive = @ /\ w.task # h]
DropFlag(h) ==
  /\ registered' = [registered EXCEPT ![h] = FALSE]
  /\ queue' = [i \in DOMAIN queue |-> Orphan(queue[i], h)]
  /\ hand' = [d \in Handle |-> IF hand[d] = NoWaiter THEN NoWaiter ELSE Orphan(hand[d], h)]
  /\ UNCHANGED woken

NewWaiter(h) == [task |-> h, alive |-> TRUE]

(* A push that takes one Waiter too many. *)
PushOneTooMany(h) ==
  /\ ~registered[h]
  /\ Len(queue) <= MaxWaiting
  /\ queue' = Append(queue, NewWaiter(h))
  /\ UNCHANGED <<registered, woken, hand>>

(* A registration that also asks to be polled again. *)
PushAndWake(h) ==
  /\ ~registered[h]
  /\ Len(queue) < MaxWaiting
  /\ queue' = Append(queue, NewWaiter(h))
  /\ woken' = [woken EXCEPT ![h] = TRUE]
  /\ UNCHANGED <<registered, hand>>

(* try_register_future!, push succeeded: the flag is stored in a later step. *)
PushWaiter(h) ==
  /\ ~registered[h]
  /\ Len(queue) < MaxWaiting
  /\ queue' = Append(queue, NewWaiter(h))
  /\ UNCHANGED <<registered, woken, hand>>

(* try_register_future!, queue full: the Waiter comes back and is woken. *)
PushRefused(h) ==
  /\ ~registered[h]
  /\ Len(queue) >= MaxWaiting
  /\ registered' = [registered EXCEPT ![h] = FALSE]
  /\ woken' = [woken EXCEPT ![h] = TRUE]
  /\ UNCHANGED <<queue, hand>>

(* try_register_future!: the flag says that a Waiter is already queued. *)
AlreadyRegistered(h) == registered[h] /\ UNCHANGED waiterVars

(* registered.store(true), after the push. *)
StoreRegistered(h) ==
  /\ registered' = [registered EXCEPT ![h] = TRUE]
  /\ UNCHANGED <<queue, woken, hand>>

(* waiter_queue.pop() by the releasing handle d. *)
PopWaiter(d) ==
  /\ queue # << >>
  /\ hand' = [hand EXCEPT ![d] = Head(queue)]
  /\ queue' = Tail(queue)
  /\ UNCHANGED <<registered, woken>>

PopNothing == queue = << >> /\ UNCHANGED waiterVars

(* A Waiter that leaves the flag of its future as it is. *)
FlagKept(d) == UNCHANGED waiterVars

(* Waiter::wake, first half: set_registered(false) through the pointer.  A *)
(* dangling pointer clears the flag of whichever future now lives there,   *)
(* or of none.                                                             *)
FlagsHit(w) == IF w.alive THEN {{w.task}} ELSE {{}} \cup {{h} : h \in Handle}
SetUnregistered(d) ==
  /\ \E hit \in FlagsHit(hand[d]) :
       registered' = [h \in Handle |-> registered[h] /\ h \notin hit]
  /\ UNCHANGED <<queue, woken, hand>>

(* Waiter::wake, second half: waker.wake() consumes the Waiter. *)
WakeTask(d) ==
  /\ woken' = [woken EXCEPT ![hand[d].task] = TRUE]
  /\ hand' = [hand EXCEPT ![d] = NoWaiter]
  /\ UNCHANGED <<queue, registered>>
=============================================================================
