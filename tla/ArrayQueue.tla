----------------------------- MODULE ArrayQueue ------------------------------
(***************************************************************************)
(* The lock-free queue of src/src/array_queue.rs.  head and tail are       *)
(* stamps: an index into the buffer plus a multiple of OneLap.  Every slot *)
(* has a stamp too: it equals the tail that may write the slot, or one     *)
(* more than the head that may read it.                                    *)
(*                                                                         *)
(* Every access to head, tail, a stamp or a slot is a step of its own.     *)
(* A process pushes itself, so a value says who pushed it.  Stamps do not  *)
(* wrap: that takes 2^64 pushes.                                           *)
(*                                                                         *)
(* Compare-and-swaps read what is there.  So do SeqCst loads, and loads    *)
(* behind a SeqCst fence, because head and tail only change by SeqCst      *)
(* operations.  A Relaxed load, the Relaxed load of a compare-and-swap     *)
(* that fails, and the Acquire load of a stamp may return a value that has *)
(* been overwritten since, however long ago (StaleLoads).                  *)
(***************************************************************************)
EXTENDS Integers

CONSTANTS Proc,      \* the threads that use the queue
          Capacity,  \* C
          NoValue,   \* what an empty slot holds
          Api,       \* the functions they call
          WeakCas,   \* compare_exchange_weak may fail without cause
          StaleLoads, \* Relaxed and Acquire loads may return an old value
          MaxCalls   \* bound: how many calls they make together

ASSUME ArrayQueueAssumption ==
  /\ Capacity \in Nat \ {0}
  /\ NoValue \notin Proc
  /\ Api \subseteq {"push", "force_push", "pop", "is_empty", "is_full", "len"}
  /\ WeakCas \in BOOLEAN /\ StaleLoads \in BOOLEAN
  /\ MaxCalls \in Nat

VARIABLES head, tail,
          stamp, slot,  \* Slot::stamp and Slot::value, by index
          pc, op,       \* where a thread is, in which function
          pos,          \* its local copy of head or tail
          aux,          \* len(): its local copy of head
          got,          \* the value it has taken out
          calls         \* how many calls have been made

queueVars == <<head, tail, stamp, slot>>
vars == <<head, tail, stamp, slot, pc, op, pos, aux, got, calls>>

(* A power of two: its divisors other than 1 are even. *)
IsPowerOfTwo(n) == \A d \in 2 .. n : n % d = 0 => d % 2 = 0

(* (C + 1).next_power_of_two(); there is one up to 2C. *)
OneLap == CHOOSE n \in Capacity + 1 .. 2 * Capacity :
            IsPowerOfTwo(n) /\ \A m \in Capacity + 1 .. n - 1 : ~IsPowerOfTwo(m)

Index(s) == s % OneLap
Lap(s)   == s - Index(s)

(* A ring that is one slot too long. *)
SuccTooFar(s) == IF Index(s) + 1 <= Capacity THEN s + 1 ELSE Lap(s) + OneLap

(* new_tail and new_head: the next slot, or slot 0 of the next lap. *)
Succ(s) == IF Index(s) + 1 < Capacity THEN s + 1 ELSE Lap(s) + OneLap

(* queue_size! that takes a full queue for an empty one. *)
SizeNeverFull(h, t) == (Capacity + Index(t) - Index(h)) % Capacity

(* queue_size! *)
QueueSize(h, t) ==
  CASE Index(h) < Index(t) -> Index(t) - Index(h)
    [] Index(h) > Index(t) -> Capacity - Index(h) + Index(t)
    [] OTHER               -> IF t = h THEN 0 ELSE Capacity

Slots == 0 .. Capacity - 1

(* What head and tail may be: stamps with the index of a slot. *)
Position == {s \in Nat : Index(s) < Capacity}

PCs == {"idle", "tail", "stamp", "push_cas", "write", "publish", "full",
        "evict", "move_tail", "swap",
        "head", "look", "pop_cas", "read", "free", "empty",
        "observe", "confirm", "recheck"}

TypeOK ==
  /\ head \in Position /\ tail \in Position
  /\ stamp \in [Slots -> Nat]
  /\ slot \in [Slots -> Proc \cup {NoValue}]
  /\ pc \in [Proc -> PCs]
  /\ op \in [Proc -> Api \cup {"none"}]
  /\ pos \in [Proc -> Position]
  /\ aux \in [Proc -> Position]
  /\ got \in [Proc -> Proc \cup {NoValue}]
  /\ calls \in 0 .. MaxCalls

Init ==
  /\ head = 0 /\ tail = 0
  /\ stamp = [i \in Slots |-> i]
  /\ slot = [i \in Slots |-> NoValue]
  /\ pc = [p \in Proc |-> "idle"]
  /\ op = [p \in Proc |-> "none"]
  /\ pos = [p \in Proc |-> 0]
  /\ aux = [p \in Proc |-> 0]
  /\ got = [p \in Proc |-> NoValue]
  /\ calls = 0

Goto(p, l)    == pc' = [pc EXCEPT ![p] = l]
Remember(p, s) == pos' = [pos EXCEPT ![p] = s]
At(p) == Index(pos[p])

Return(p) ==
  /\ Goto(p, "idle")
  /\ op' = [op EXCEPT ![p] = "none"]
  /\ Remember(p, 0)
  /\ aux' = [aux EXCEPT ![p] = 0]
  /\ UNCHANGED calls

(* A step within the call that changes no local but pc. *)
Step(p, l) == Goto(p, l) /\ UNCHANGED <<op, pos, aux, calls>>

(* A step within the call that loads head or tail. *)
Load(p, s, l) == Goto(p, l) /\ Remember(p, s) /\ UNCHANGED <<op, aux, calls>>

(* What a load of head or tail, and of the stamp of slot i, may return. *)
Old(s)      == IF StaleLoads THEN {o \in 0 .. s : Index(o) < Capacity} ELSE {s}
OldStamp(i) == IF StaleLoads THEN {o \in 0 .. stamp[i] : Index(o) \in {i, i + 1}}
                             ELSE {stamp[i]}

Start(p, f) ==
  /\ pc[p] = "idle" /\ f \in Api
  /\ Goto(p, CASE f \in {"push", "force_push"} -> "tail"
               [] f = "pop"                    -> "head"
               [] OTHER                        -> "observe")
  /\ op' = [op EXCEPT ![p] = f]
  /\ got' = [got EXCEPT ![p] = NoValue]
  /\ UNCHANGED <<queueVars, pos, aux>>

Call(p, f) ==
  /\ calls < MaxCalls
  /\ calls' = calls + 1
  /\ Start(p, f)

-----------------------------------------------------------------------------
(* push_or_else *)

LoadTail(p) ==
  /\ pc[p] = "tail"
  /\ \E t \in Old(tail) : Load(p, t, "stamp")
  /\ UNCHANGED <<queueVars, got>>

(* The stamp says: free for this tail, still full, or not yet updated. *)
LoadStamp(p) ==
  /\ pc[p] = "stamp"
  /\ \E s \in OldStamp(At(p)) :
       \/ s = pos[p] /\ Step(p, "push_cas")
       \/ /\ s # pos[p] /\ s + OneLap = pos[p] + 1
          /\ Step(p, IF op[p] = "push" THEN "full" ELSE "evict")
       \/ s # pos[p] /\ s + OneLap # pos[p] + 1 /\ Step(p, "tail")
  /\ UNCHANGED <<queueVars, got>>

PushCas(p) ==
  /\ pc[p] = "push_cas"
  /\ \/ /\ tail = pos[p]
        /\ tail' = Succ(tail)
        /\ Step(p, "write")
     \/ /\ tail # pos[p] \/ WeakCas
        /\ \E t \in Old(tail) : Load(p, t, "stamp")
        /\ UNCHANGED tail
  /\ UNCHANGED <<head, stamp, slot, got>>

WriteSlot(p) ==
  /\ pc[p] = "write"
  /\ slot' = [slot EXCEPT ![At(p)] = p]
  /\ Step(p, "publish")
  /\ UNCHANGED <<head, tail, stamp, got>>

(* A stamp that is a lap ahead of what the reader waits for. *)
PublishLapAhead(p) ==
  /\ pc[p] = "publish"
  /\ stamp' = [stamp EXCEPT ![At(p)] = pos[p] + OneLap]
  /\ Return(p)
  /\ UNCHANGED <<head, tail, slot, got>>

(* slot.stamp.store(tail + 1): the last step of push and of force_push. *)
Publish(p) ==
  /\ pc[p] = "publish"
  /\ stamp' = [stamp EXCEPT ![At(p)] = pos[p] + 1]
  /\ Return(p)
  /\ UNCHANGED <<head, tail, slot, got>>

(* A look at the head without the fence before it. *)
FullUnfenced(p) ==
  /\ pc[p] = "full"
  /\ \E h \in Old(head) : h + OneLap = pos[p]
  /\ Return(p)
  /\ UNCHANGED <<queueVars, got>>

(* push: full only if the head lags one lap behind. *)
PushFull(p) ==
  /\ pc[p] = "full"
  /\ head + OneLap = pos[p]
  /\ Return(p)
  /\ UNCHANGED <<queueVars, got>>

PushNotFull(p) ==
  /\ pc[p] = "full"
  /\ head + OneLap # pos[p]
  /\ Step(p, "tail")
  /\ UNCHANGED <<queueVars, got>>

(* A force_push that moves the head wherever it is by now. *)
EvictStores(p) ==
  /\ pc[p] = "evict"
  /\ head' = Succ(pos[p]) - OneLap
  /\ Step(p, "move_tail")
  /\ UNCHANGED <<tail, stamp, slot, got>>

(* force_push: move the head past the oldest value, then the tail, then    *)
(* swap the values.                                                        *)
Evict(p) ==
  /\ pc[p] = "evict"
  /\ \/ /\ head = pos[p] - OneLap
        /\ head' = Succ(pos[p]) - OneLap
        /\ Step(p, "move_tail")
     \/ /\ head # pos[p] - OneLap \/ WeakCas
        /\ Step(p, "tail")
        /\ UNCHANGED head
  /\ UNCHANGED <<tail, stamp, slot, got>>

MoveTail(p) ==
  /\ pc[p] = "move_tail"
  /\ tail' = Succ(pos[p])
  /\ Step(p, "swap")
  /\ UNCHANGED <<head, stamp, slot, got>>

Swap(p) ==
  /\ pc[p] = "swap"
  /\ got' = [got EXCEPT ![p] = slot[At(p)]]
  /\ slot' = [slot EXCEPT ![At(p)] = p]
  /\ Step(p, "publish")
  /\ UNCHANGED <<head, tail, stamp>>

-----------------------------------------------------------------------------
(* pop *)

LoadHead(p) ==
  /\ pc[p] = "head"
  /\ \E t \in Old(head) : Load(p, t, "look")
  /\ UNCHANGED <<queueVars, got>>

LookAtStamp(p) ==
  /\ pc[p] = "look"
  /\ \E s \in OldStamp(At(p)) :
       \/ s = pos[p] + 1 /\ Step(p, "pop_cas")
       \/ s = pos[p] /\ Step(p, "empty")
       \/ s \notin {pos[p], pos[p] + 1} /\ Step(p, "head")
  /\ UNCHANGED <<queueVars, got>>

(* A head that is stored, not compared and swapped. *)
PopStores(p) ==
  /\ pc[p] = "pop_cas"
  /\ head' = Succ(pos[p])
  /\ Step(p, "read")
  /\ UNCHANGED <<tail, stamp, slot, got>>

(* A slot that is free again before it is read. *)
PopFreesFirst(p) ==
  /\ pc[p] = "pop_cas"
  /\ head = pos[p]
  /\ head' = Succ(head)
  /\ stamp' = [stamp EXCEPT ![At(p)] = pos[p] + OneLap]
  /\ Step(p, "read")
  /\ UNCHANGED <<tail, slot, got>>

PopCas(p) ==
  /\ pc[p] = "pop_cas"
  /\ \/ /\ head = pos[p]
        /\ head' = Succ(head)
        /\ Step(p, "read")
     \/ /\ head # pos[p] \/ WeakCas
        /\ \E t \in Old(head) : Load(p, t, "look")
        /\ UNCHANGED head
  /\ UNCHANGED <<tail, stamp, slot, got>>

(* The value moves out of the slot. *)
ReadSlot(p) ==
  /\ pc[p] = "read"
  /\ got' = [got EXCEPT ![p] = slot[At(p)]]
  /\ slot' = [slot EXCEPT ![At(p)] = NoValue]
  /\ Step(p, "free")
  /\ UNCHANGED <<head, tail, stamp>>

FreeSlot(p) ==
  /\ pc[p] = "free"
  /\ stamp' = [stamp EXCEPT ![At(p)] = pos[p] + OneLap]
  /\ Return(p)
  /\ UNCHANGED <<head, tail, slot, got>>

(* A look at the tail without the fence before it. *)
EmptyUnfenced(p) ==
  /\ pc[p] = "empty"
  /\ \E t \in Old(tail) : t = pos[p]
  /\ Return(p)
  /\ UNCHANGED <<queueVars, got>>

(* pop: empty only if the tail equals the head. *)
PopEmpty(p) ==
  /\ pc[p] = "empty"
  /\ tail = pos[p]
  /\ Return(p)
  /\ UNCHANGED <<queueVars, got>>

PopNotEmpty(p) ==
  /\ pc[p] = "empty"
  /\ tail # pos[p]
  /\ Step(p, "head")
  /\ UNCHANGED <<queueVars, got>>

-----------------------------------------------------------------------------
(* is_empty, is_full, len *)

(* is_empty loads the head first, the others the tail. *)
Observe(p) ==
  /\ pc[p] = "observe"
  /\ Load(p, IF op[p] = "is_empty" THEN head ELSE tail, "confirm")
  /\ UNCHANGED <<queueVars, got>>

IsEmpty(p) ==
  /\ pc[p] = "confirm" /\ op[p] = "is_empty"
  /\ Return(p)
  /\ UNCHANGED <<queueVars, got>>

IsFull(p) ==
  /\ pc[p] = "confirm" /\ op[p] = "is_full"
  /\ Return(p)
  /\ UNCHANGED <<queueVars, got>>

LenHead(p) ==
  /\ pc[p] = "confirm" /\ op[p] = "len"
  /\ aux' = [aux EXCEPT ![p] = head]
  /\ Goto(p, "recheck")
  /\ UNCHANGED <<queueVars, got, op, pos, calls>>

(* len() that takes the two loads for consistent. *)
LenUnconfirmed(p) ==
  /\ pc[p] = "recheck" /\ Return(p) /\ UNCHANGED <<queueVars, got>>

(* Consistent only if the tail has not moved meanwhile. *)
LenReturns(p) ==
  /\ pc[p] = "recheck" /\ tail = pos[p]
  /\ Return(p)
  /\ UNCHANGED <<queueVars, got>>

LenRetries(p) ==
  /\ pc[p] = "recheck" /\ tail # pos[p]
  /\ Step(p, "observe")
  /\ UNCHANGED <<queueVars, got>>

-----------------------------------------------------------------------------
Running(p) ==
  \/ LoadTail(p) \/ LoadStamp(p) \/ PushCas(p) \/ WriteSlot(p) \/ Publish(p)
  \/ PushFull(p) \/ PushNotFull(p) \/ Evict(p) \/ MoveTail(p) \/ Swap(p)
  \/ LoadHead(p) \/ LookAtStamp(p) \/ PopCas(p) \/ ReadSlot(p) \/ FreeSlot(p)
  \/ PopEmpty(p) \/ PopNotEmpty(p)
  \/ Observe(p) \/ IsEmpty(p) \/ IsFull(p)
  \/ LenHead(p) \/ LenReturns(p) \/ LenRetries(p)

Next == \E p \in Proc : (\E f \in Api : Call(p, f)) \/ Running(p)

Spec     == Init /\ [][Next]_vars
FairSpec == Spec /\ \A p \in Proc : WF_vars(Running(p))

-----------------------------------------------------------------------------
(* The queue that the stamps stand for: a value is in it from the          *)
(* compare-and-swap on the tail, before it is written, to the one on the   *)
(* head, before it is read.                                                *)
Arriving(i, p) == pc[p] \in {"write", "swap"} /\ At(p) = i
Content(i) == IF \E p \in Proc : Arriving(i, p) THEN CHOOSE p \in Proc : Arriving(i, p)
                                                ELSE slot[i]
Items == [n \in 1 .. QueueSize(head, tail) |-> Content((Index(head) + n - 1) % Capacity)]
Taken == [p \in Proc |-> IF pc[p] \in {"read", "move_tail", "swap"} THEN slot[At(p)]
                                                                  ELSE got[p]]

(* array_queue.rs:124: "a bounded multi-producer multi-consumer queue".    *)
(* Values leave in the order in which their pushes moved the tail, each    *)
(* once, to the thread that moved the head past it, and never more than C  *)
(* are in the queue: nobody reads a slot before it is written or writes it *)
(* before it is read.                                                      *)
Fifo == INSTANCE BoundedFifo WITH items <- Items, taken <- Taken
FifoSpec == Fifo!FifoSpec

(* The unsafe accesses to a slot's UnsafeCell exclude each other: the      *)
(* stamp hands a slot from one thread to the next.                         *)
NoDataRace ==
  \A p, q \in Proc :
    /\ p # q
    /\ {pc[p], pc[q]} \subseteq {"write", "swap", "read"}
    => At(p) # At(q)

(* array_queue.rs:297: push fails "if the queue is full", and is_full()    *)
(* (:489) says true, only when C values are in it at that very moment,     *)
(* although head and tail are loaded at different times.                   *)
FullMeansFull == [][
  \A p \in Proc : PushFull(p) \/ (IsFull(p) /\ head + OneLap = pos[p])
                  => QueueSize(head, tail) = Capacity ]_vars

(* array_queue.rs:372: pop returns None "if the queue is empty", and       *)
(* is_empty() (:464) says true, only when no value is in it at that moment.*)
EmptyMeansEmpty == [][
  \A p \in Proc : PopEmpty(p) \/ (IsEmpty(p) /\ tail = pos[p])
                  => QueueSize(head, tail) = 0 ]_vars

(* len() counts every value that is still there when it returns, and no    *)
(* more than fit.                                                          *)
LenCovers == [][
  \A p \in Proc : LenReturns(p)
                  => QueueSize(aux[p], pos[p]) \in QueueSize(head, tail) .. Capacity ]_vars

(* Drop for ArrayQueue, when no thread uses the queue any more, drops the  *)
(* slots that hold a value and no other.  h is the head that it finds.     *)
DropIndex(h, i) == IF Index(h) + i < Capacity THEN Index(h) + i
                                              ELSE Index(h) + i - Capacity
Dropped(h) == {DropIndex(h, i) : i \in 0 .. QueueSize(h, tail) - 1}
DropsEachValue ==
  (\A p \in Proc : pc[p] = "idle") => Dropped(head) = {i \in Slots : slot[i] # NoValue}

(* An iterator that does not wrap. *)
IterRunsOn(h) == h + 1

(* IntoIter::next reads the slot of the head h and moves the head on; it   *)
(* is None when the head is the tail.  IterHead[n] is the head after n     *)
(* calls that were not None.                                               *)
IterNext(h) == IF Index(h) + 1 < Capacity THEN h + 1 ELSE Lap(h) + OneLap
IterHead[n \in 0 .. Capacity] == IF n = 0 THEN head ELSE IterNext(IterHead[n - 1])

(* IntoIter, which owns the queue, returns its values in FIFO order and    *)
(* then None; dropped after any number of calls, it drops exactly the      *)
(* values that it has not returned.                                        *)
IteratesInOrder ==
  (\A p \in Proc : pc[p] = "idle") =>
    LET size    == QueueSize(head, tail)
        Read(n) == {Index(IterHead[k]) : k \in 0 .. n - 1}
    IN  /\ {n \in 0 .. Capacity : IterHead[n] = tail} = {size}
        /\ \A n \in 1 .. size : slot[Index(IterHead[n - 1])] = Items[n]
        /\ \A n \in 0 .. size : /\ Read(n) \cap Dropped(IterHead[n]) = {}
                               /\ Read(n) \cup Dropped(IterHead[n]) = Dropped(head)

(* Nobody waits in vain (array_queue.rs:288 and :442: "Snooze because we   *)
(* need to wait for the stamp to get updated"): unless a thread is between *)
(* its compare-and-swap and its store of the stamp of that very slot, the  *)
(* stamp at the tail lets push go on or says truly that the queue is full, *)
(* and the stamp at the head lets pop go on or says truly that it is empty.*)
Settled(i) == \A p \in Proc :
  pc[p] \in {"write", "publish", "move_tail", "swap", "read", "free"} => At(p) # i
WaitsForSomebody ==
  /\ Settled(Index(tail)) =>
       \/ stamp[Index(tail)] = tail
       \/ stamp[Index(tail)] + OneLap = tail + 1 /\ head + OneLap = tail
  /\ Settled(Index(head)) =>
       \/ stamp[Index(head)] = head + 1
       \/ stamp[Index(head)] = head /\ tail = head

(* Every call returns when every thread keeps running: nobody waits for a  *)
(* stamp that no thread is about to store.                                 *)
CallsReturn == \A p \in Proc : pc[p] # "idle" ~> pc[p] = "idle"
-----------------------------------------------------------------------------
(* The inductive invariant *)

(* The head follows the tail by a lap at most. *)
WithinALap == head <= tail /\ tail <= head + OneLap

(* From its compare-and-swap to its new stamp a thread has the slot to     *)
(* itself.  A pusher is between head and tail, a popper behind the head.   *)
Holding   == {"write", "publish", "move_tail", "swap", "read", "free"}
Holders   == {p \in Proc : pc[p] \in Holding}
OneHolder == \A p, q \in Holders : At(p) = At(q) => p = q
HeldPosition(p) ==
  /\ pc[p] \in {"write", "publish", "swap"} => head <= pos[p] /\ pos[p] < tail
  /\ pc[p] \in {"read", "free"} => pos[p] < head /\ tail <= pos[p] + OneLap
  /\ pc[p] = "move_tail" => tail = pos[p] /\ pos[p] < head + OneLap

(* The slot stays what its holder found or made it. *)
HeldSlot(p) ==
  /\ pc[p] = "write"                 => stamp[At(p)] = pos[p]
  /\ pc[p] \in {"move_tail", "swap"} => stamp[At(p)] + OneLap = pos[p] + 1
  /\ pc[p] = "publish"               => stamp[At(p)] <= pos[p]
  /\ pc[p] \in {"read", "free"}      => stamp[At(p)] = pos[p] + 1
  /\ pc[p] \in {"write", "free"}             => slot[At(p)] = NoValue
  /\ pc[p] \in {"move_tail", "swap", "read"} => slot[At(p)] \in Proc
  /\ pc[p] = "publish"                       => slot[At(p)] = p

(* The position from s on that is next to use slot i. *)
Turn(i, s) == (IF i < Index(s) THEN Lap(s) + OneLap ELSE Lap(s)) + i

(* A slot that nobody holds is full, and waits for the head, or is empty,  *)
(* and waits for the tail.                                                 *)
IdleSlot(i) ==
  IF Turn(i, head) < tail THEN stamp[i] = Turn(i, head) + 1 /\ slot[i] \in Proc
                          ELSE stamp[i] = Turn(i, head) /\ slot[i] = NoValue

(* What a thread has loaded may be old, never ahead: head, tail and stamps *)
(* only grow.                                                              *)
LocalsLag(p) ==
  /\ pc[p] \in {"stamp", "push_cas", "full", "evict", "recheck"} => pos[p] <= tail
  /\ pc[p] \in {"look", "pop_cas", "empty"} => pos[p] <= head
  /\ pc[p] = "push_cas" => stamp[At(p)] >= pos[p]
  /\ pc[p] = "evict"    => stamp[At(p)] + OneLap > pos[p]
  /\ pc[p] = "pop_cas"  => stamp[At(p)] > pos[p]
  /\ pc[p] = "confirm"  => pos[p] <= IF op[p] = "is_empty" THEN head ELSE tail
  /\ pc[p] = "recheck"  => aux[p] <= head /\ pos[p] <= aux[p] + OneLap

(* A thread that is about to take a value has none. *)
EmptyHanded(p) == pc[p] \notin {"idle", "publish", "free"} => got[p] = NoValue

(* Why the stamps keep the threads apart and the queue in order. *)
SlotsInv ==
  /\ WithinALap
  /\ OneHolder
  /\ \A p \in Holders : HeldPosition(p) /\ HeldSlot(p)
  /\ \A i \in Slots : (\A p \in Holders : At(p) # i) => IdleSlot(i)
LocalsInv == \A p \in Proc : LocalsLag(p) /\ EmptyHanded(p)
StampInv  == SlotsInv /\ LocalsInv
=============================================================================
