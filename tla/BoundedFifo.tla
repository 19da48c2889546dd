----------------------------- MODULE BoundedFifo -----------------------------
(***************************************************************************)
(* What ArrayQueue promises (src/src/array_queue.rs): a FIFO of bounded    *)
(* length.  push appends, pop takes the front; force_push on a full queue  *)
(* first takes the front and then appends, in two steps.                   *)
(***************************************************************************)
EXTENDS Sequences, Naturals

CONSTANTS Proc, Capacity, NoValue

VARIABLES items,  \* the values in the queue, oldest first
          taken   \* what a process took from the queue and has not let go

fifoVars == <<items, taken>>

FifoInit == items = << >> /\ taken = [p \in Proc |-> NoValue]

Put(v) ==
  /\ Len(items) < Capacity
  /\ items' = Append(items, v)
  /\ UNCHANGED taken

Take(p) ==
  /\ items # << >>
  /\ taken[p] = NoValue
  /\ items' = Tail(items)
  /\ taken' = [taken EXCEPT ![p] = Head(items)]

LetGo(p) ==
  /\ taken[p] # NoValue
  /\ taken' = [taken EXCEPT ![p] = NoValue]
  /\ UNCHANGED items

(* A process puts itself into the queue. *)
FifoNext == \E p \in Proc : Put(p) \/ Take(p) \/ LetGo(p)

FifoSpec == FifoInit /\ [][FifoNext]_fifoVars
=============================================================================
