------------------------ MODULE ArrayQueueFifoProofs -------------------------
(***************************************************************************)
(* ArrayQueue implements BoundedFifo, and Drop drops what is in the queue. *)
(* Both rest on StampInv, and on the order in which the slots of the ring  *)
(* follow the head.                                                        *)
(***************************************************************************)
EXTENDS ArrayQueueProofs, SequenceTheorems

-----------------------------------------------------------------------------
(* The order of the slots *)

(* How many slots after the head h slot i comes. *)
Distance(h, i) == IF Index(h) <= i THEN i - Index(h) ELSE Capacity + i - Index(h)

(* The n-th slot from the head on, and back. *)
LEMMA DistanceFacts ==
  ASSUME NEW h \in Position
  PROVE  /\ \A i \in Slots : Distance(h, i) \in Slots /\ DropIndex(h, Distance(h, i)) = i
         /\ \A n \in Slots : DropIndex(h, n) \in Slots /\ Distance(h, DropIndex(h, n)) = n
  <1>1. Index(h) \in Nat /\ Index(h) < Capacity
    BY IndexFacts DEF Position
  <1> QED  BY <1>1, Sizes DEF Distance, DropIndex, Slots

(* The slots that are due before the tail are the ones nearest the head. *)
LEMMA DueFacts ==
  ASSUME NEW h \in Position, NEW t \in Position, h <= t, t <= h + OneLap, NEW i \in Slots
  PROVE  Turn(i, h) < t <=> Distance(h, i) < QueueSize(h, t)
  <1>1. /\ h \in Nat /\ Index(h) < Capacity
        /\ Index(h) \in Nat /\ Lap(h) \in Nat /\ Lap(h) + Index(h) = h
    BY IndexFacts DEF Position
  <1>2. /\ t \in Nat /\ Index(t) < Capacity
        /\ Index(t) \in Nat /\ Lap(t) \in Nat /\ Lap(t) + Index(t) = t
    BY IndexFacts DEF Position
  <1>3. i \in Nat /\ i < Capacity
    BY Sizes DEF Slots
  <1>4. CASE Lap(t) = Lap(h) /\ Index(h) <= Index(t)
    <2>1. QueueSize(h, t) = Index(t) - Index(h)
      BY <1>4, SizeByLap
    <2> QED  BY <1>1, <1>2, <1>3, <1>4, <2>1, Sizes DEF Turn, Distance
  <1>5. CASE Lap(t) = Lap(h) + OneLap /\ Index(t) <= Index(h)
    <2>1. QueueSize(h, t) = Capacity + Index(t) - Index(h)
      BY <1>1, <1>5, SizeByLap, Sizes
    <2> QED  BY <1>1, <1>2, <1>3, <1>5, <2>1, Sizes DEF Turn, Distance
  <1> QED  BY <1>4, <1>5, TailLap

(* The slot after the last value is the slot of the tail. *)
LEMMA TailIndex ==
  ASSUME NEW h \in Position, NEW t \in Position, h <= t, t < h + OneLap
  PROVE  Distance(h, Index(t)) = QueueSize(h, t)
  <1>1. /\ h \in Nat /\ Index(h) < Capacity
        /\ Index(h) \in Nat /\ Lap(h) \in Nat /\ Lap(h) + Index(h) = h
    BY IndexFacts DEF Position
  <1>2. /\ t \in Nat /\ Index(t) < Capacity
        /\ Index(t) \in Nat /\ Lap(t) \in Nat /\ Lap(t) + Index(t) = t
    BY IndexFacts DEF Position
  <1>3. t <= h + OneLap
    BY <1>1, <1>2, Sizes
  <1>4. CASE Lap(t) = Lap(h) /\ Index(h) <= Index(t)
    <2>1. QueueSize(h, t) = Index(t) - Index(h)
      BY <1>3, <1>4, SizeByLap
    <2> QED  BY <1>1, <1>2, <1>4, <2>1 DEF Distance
  <1>5. CASE Lap(t) = Lap(h) + OneLap /\ Index(t) <= Index(h)
    <2>1. QueueSize(h, t) = Capacity + Index(t) - Index(h)
      BY <1>1, <1>3, <1>5, SizeByLap, Sizes
    <2>2. Index(t) < Index(h)
      BY <1>1, <1>2, <1>5, Sizes
    <2> QED  BY <1>1, <1>2, <2>1, <2>2 DEF Distance
  <1> QED  BY <1>3, <1>4, <1>5, TailLap

(* When the head moves on, every slot comes one nearer. *)
LEMMA DropIndexSucc ==
  ASSUME NEW h \in Position, NEW n \in Nat, n + 1 < Capacity
  PROVE  DropIndex(Succ(h), n) = DropIndex(h, n + 1)
  <1>1. Index(h) \in Nat /\ Index(h) < Capacity
    BY IndexFacts DEF Position
  <1>2. Index(Succ(h)) = IF Index(h) = Capacity - 1 THEN 0 ELSE Index(h) + 1
    <2>1. Index(Succ(h)) < Capacity
      BY SuccFacts DEF Position
    <2> QED  BY <1>1, <2>1, SuccIndex, Sizes
  <1> QED  BY <1>1, <1>2, Sizes DEF DropIndex

(* The slots that the refinement mapping counts with %. *)
LEMMA ModUnique ==
  ASSUME NEW q \in Nat, NEW r \in Nat, r < Capacity
  PROVE  (Capacity * q + r) % Capacity = r
  BY Sizes

LEMMA RingIndex ==
  ASSUME NEW h \in Position, NEW n \in Slots
  PROVE  (Index(h) + n) % Capacity = DropIndex(h, n)
  <1>1. Index(h) \in Nat /\ Index(h) < Capacity /\ n \in Nat /\ n < Capacity
    BY SlotOfPosition, Sizes DEF Slots
  <1> DEFINE r == DropIndex(h, n)
  <1>2. r \in Nat /\ r < Capacity /\ Index(h) + n \in {r, Capacity + r}
    BY <1>1, Sizes DEF DropIndex
  <1> HIDE DEF r
  <1>3. (Capacity * 0 + r) % Capacity = r /\ (Capacity * 1 + r) % Capacity = r
    BY <1>2, ModUnique
  <1>4. Capacity * 0 + r = r /\ Capacity * 1 + r = Capacity + r
    BY <1>2, Sizes
  <1> QED  BY <1>2, <1>3, <1>4 DEF r

-----------------------------------------------------------------------------
(* Drop *)

(* Drop for ArrayQueue drops every value that is left, once, and nothing   *)
(* else (array_queue.rs:546).                                              *)
THEOREM QueueDropsEachValue == Spec => []DropsEachValue
  <1>1. TypeOK /\ StampInv => DropsEachValue
    <2> SUFFICES ASSUME TypeOK, StampInv, \A p \in Proc : pc[p] = "idle"
                 PROVE  Dropped(head) = {i \in Slots : slot[i] # NoValue}
      BY DEF DropsEachValue
    <2>1. head \in Position /\ tail \in Position
      BY DEF TypeOK
    <2>2. head <= tail /\ tail <= head + OneLap
      BY DEF StampInv, SlotsInv, WithinALap
    <2> DEFINE size == QueueSize(head, tail)
    <2>3. size \in 0 .. Capacity
      BY <2>1, <2>2, SizeFacts
    <2>4. Holders = {}
      BY DEF Holders, Holding
    <2>5. \A i \in Slots : slot[i] # NoValue <=> Turn(i, head) < tail
      BY <2>4, ArrayQueueAssumption DEF StampInv, SlotsInv, IdleSlot
    <2>6. \A i \in Slots : slot[i] # NoValue <=> Distance(head, i) < size
      BY <2>1, <2>2, <2>5, DueFacts
    <2> HIDE DEF size
    <2>7. Dropped(head) = {DropIndex(head, n) : n \in 0 .. size - 1}
      BY DEF Dropped, size
    <2>8. \A n \in 0 .. size - 1 : n \in Slots
      BY <2>3, Sizes DEF Slots
    <2>9. \A i \in Slots : Distance(head, i) < size => Distance(head, i) \in 0 .. size - 1
      BY <2>1, <2>3, DistanceFacts, Sizes DEF Slots
    <2>10. \A n \in 0 .. size - 1 : n < size
      BY <2>3
    <2>11. /\ \A i \in Slots : Distance(head, i) \in Slots /\ DropIndex(head, Distance(head, i)) = i
           /\ \A n \in Slots : DropIndex(head, n) \in Slots /\ Distance(head, DropIndex(head, n)) = n
      BY <2>1, DistanceFacts
    <2>12. ASSUME NEW i \in Dropped(head)
           PROVE  i \in Slots /\ slot[i] # NoValue
      BY <2>6, <2>7, <2>8, <2>10, <2>11
    <2>13. ASSUME NEW i \in Slots, slot[i] # NoValue
           PROVE  i \in Dropped(head)
      BY <2>6, <2>7, <2>9, <2>11, <2>13
    <2> QED  BY <2>12, <2>13
  <1> QED  BY <1>1, StampInvariant, PTL

-----------------------------------------------------------------------------
(* The contents of the queue *)

(* A slot holds the value that is about to be written, if there is one. *)
ContentKnown == \A i \in Slots :
  /\ \A q \in Proc : Arriving(i, q) => Content(i) = q
  /\ (\A q \in Proc : ~ Arriving(i, q)) => Content(i) = slot[i]

LEMMA ContentFacts == StampInv => ContentKnown
  <1> SUFFICES ASSUME StampInv, NEW i \in Slots
               PROVE  /\ \A q \in Proc : Arriving(i, q) => Content(i) = q
                      /\ (\A q \in Proc : ~ Arriving(i, q)) => Content(i) = slot[i]
    BY DEF ContentKnown
  <1>1. ASSUME NEW q \in Proc, Arriving(i, q)
        PROVE  Content(i) = q
    <2>1. \A r \in Proc : Arriving(i, r) => r = q
      BY <1>1 DEF Arriving, StampInv, SlotsInv, OneHolder, Holders, Holding
    <2> DEFINE c == CHOOSE r \in Proc : Arriving(i, r)
    <2>2. c \in Proc /\ Arriving(i, c)
      BY <1>1
    <2>3. c = q
      BY <2>1, <2>2
    <2> QED  BY <1>1, <2>3 DEF Content
  <1>2. ASSUME \A q \in Proc : ~ Arriving(i, q)
        PROVE  Content(i) = slot[i]
    BY <1>2 DEF Content
  <1> QED  BY <1>1, <1>2

LEMMA ContentFactsNext == StampInv' => ContentKnown'
  BY ContentFacts, PTL

(* Items is what is in the slots from the head to the tail. *)
ItemsKnown ==
  /\ QueueSize(head, tail) \in 0 .. Capacity
  /\ Items = [n \in 1 .. QueueSize(head, tail) |-> Content(DropIndex(head, n - 1))]

LEMMA ItemsFacts == TypeOK /\ StampInv => ItemsKnown
  <1> SUFFICES ASSUME TypeOK, StampInv PROVE ItemsKnown
    OBVIOUS
  <1>1. head \in Position /\ tail \in Position
    BY DEF TypeOK
  <1>2. QueueSize(head, tail) \in 0 .. Capacity
    BY <1>1, SizeFacts DEF StampInv, SlotsInv, WithinALap
  <1>3. ASSUME NEW n \in 1 .. QueueSize(head, tail)
        PROVE  (Index(head) + n - 1) % Capacity = DropIndex(head, n - 1)
    <2>1. n - 1 \in Slots /\ Index(head) \in Nat
      BY <1>1, <1>2, IndexFacts, Sizes DEF Slots, Position
    <2>2. Index(head) + n - 1 = Index(head) + (n - 1)
      BY <1>2, <2>1
    <2> QED  BY <1>1, <2>1, <2>2, RingIndex
  <1> QED  BY <1>2, <1>3 DEF ItemsKnown, Items

LEMMA ItemsFactsNext == TypeOK' /\ StampInv' => ItemsKnown'
  BY ItemsFacts, PTL

(* A step of thread p changes no value that another is about to write... *)
LEMMA ContentKept ==
  ASSUME TypeOK, StampInv, StampInv', NEW p \in Proc, StepOf(p), NEW i \in Slots,
         slot'[i] = slot[i], Arriving(i, p)' <=> Arriving(i, p)
  PROVE  Content(i)' = Content(i)
  <1>1. ContentKnown /\ ContentKnown'
    BY ContentFacts, ContentFactsNext
  <1>2. \A q \in Proc : Arriving(i, q)' <=> Arriving(i, q)
    BY OthersKeep DEF Arriving, Keeps
  <1>3. CASE \E q \in Proc : Arriving(i, q)
    BY <1>1, <1>2, <1>3 DEF ContentKnown
  <1>4. CASE \A q \in Proc : ~ Arriving(i, q)
    BY <1>1, <1>2, <1>4 DEF ContentKnown
  <1> QED  BY <1>3, <1>4

(* ... and, since a slot has one holder, none that another takes out. *)
LEMMA TakenKept ==
  ASSUME TypeOK, StampInv, NEW p \in Proc, StepOf(p),
         \/ UNCHANGED slot
         \/ pc[p] \in Holding /\ \A i \in Slots : i # At(p) => slot'[i] = slot[i]
  PROVE  \A q \in Proc : q # p => Taken'[q] = Taken[q]
  <1> SUFFICES ASSUME NEW q \in Proc, q # p
               PROVE  Taken'[q] = Taken[q]
    OBVIOUS
  <1>1. Keeps(q) /\ At(q)' = At(q) /\ At(q) \in Slots
    BY OthersKeep, AtFacts
  <1>2. CASE pc[q] \in {"read", "move_tail", "swap"}
    <2>1. slot'[At(q)] = slot[At(q)]
      BY <1>1, <1>2 DEF StampInv, SlotsInv, OneHolder, Holders, Holding
    <2> QED  BY <1>1, <1>2, <2>1 DEF Taken, Keeps
  <1>3. CASE pc[q] \notin {"read", "move_tail", "swap"}
    BY <1>1, <1>3 DEF Taken, Keeps
  <1> QED  BY <1>2, <1>3

LEMMA TakenSame ==
  ASSUME NEW p \in Proc, \A q \in Proc : q # p => Taken'[q] = Taken[q], Taken'[p] = Taken[p]
  PROVE  Taken' = Taken
  <1>1. \A q \in Proc : Taken'[q] = Taken[q]
    OBVIOUS
  <1> QED  BY <1>1 DEF Taken

LEMMA TakenChanges ==
  ASSUME NEW p \in Proc, \A q \in Proc : q # p => Taken'[q] = Taken[q]
  PROVE  Taken' = [Taken EXCEPT ![p] = Taken'[p]]
  BY DEF Taken

(* The items stay when the head, the tail and what is between them do. *)
LEMMA ItemsSame ==
  ASSUME TypeOK, TypeOK', StampInv, StampInv', UNCHANGED <<head, tail>>,
         \A i \in Slots : Turn(i, head) < tail => Content(i)' = Content(i)
  PROVE  Items' = Items
  <1>1. ItemsKnown /\ ItemsKnown'
    BY ItemsFacts, ItemsFactsNext
  <1>2. head \in Position /\ tail \in Position /\ head <= tail /\ tail <= head + OneLap
    BY DEF TypeOK, StampInv, SlotsInv, WithinALap
  <1>3. ASSUME NEW n \in 1 .. QueueSize(head, tail)
        PROVE  Content(DropIndex(head, n - 1))' = Content(DropIndex(head, n - 1))
    <2>1. PICK i \in Slots : i = DropIndex(head, n - 1) /\ Distance(head, i) = n - 1
      <3>1. n - 1 \in Slots
        BY <1>1, Sizes DEF ItemsKnown, Slots
      <3> QED  BY <1>2, <3>1, DistanceFacts
    <2>2. Turn(i, head) < tail
      BY <1>1, <1>2, <2>1, DueFacts DEF ItemsKnown
    <2>3. DropIndex(head, n - 1)' = DropIndex(head, n - 1)
      BY DEF DropIndex
    <2> QED  BY <2>1, <2>2, <2>3
  <1> QED  BY <1>1, <1>3 DEF ItemsKnown

IsSeq == Items \in Seq(Proc \cup {NoValue}) /\ Len(Items) = QueueSize(head, tail)

LEMMA ItemsSeq == TypeOK /\ StampInv => IsSeq
  <1> SUFFICES ASSUME TypeOK, StampInv PROVE IsSeq
    OBVIOUS
  <1>1. ItemsKnown /\ ContentKnown
    BY ItemsFacts, ContentFacts
  <1>2. ASSUME NEW i \in Slots
        PROVE  Content(i) \in Proc \cup {NoValue}
    BY <1>1 DEF ContentKnown, TypeOK
  <1>3. ASSUME NEW n \in 1 .. QueueSize(head, tail)
        PROVE  DropIndex(head, n - 1) \in Slots
    <2>1. n - 1 \in Slots
      BY <1>1, Sizes DEF ItemsKnown, Slots
    <2> QED  BY <2>1, DistanceFacts DEF TypeOK
  <1>4. QueueSize(head, tail) \in Nat
    BY <1>1 DEF ItemsKnown
  <1>5. Items \in [1 .. QueueSize(head, tail) -> Proc \cup {NoValue}]
    BY <1>1, <1>2, <1>3 DEF ItemsKnown
  <1> QED  BY <1>4, <1>5 DEF IsSeq

LEMMA ItemsSeqNext == TypeOK' /\ StampInv' => IsSeq'
  BY ItemsSeq, PTL

(* A push that moves the tail appends its value. *)
LEMMA ItemsAppend ==
  ASSUME TypeOK, TypeOK', StampInv, StampInv', NEW p \in Proc, StepOf(p),
         NEW i \in Slots, i = Index(tail), tail < head + OneLap, tail' = Succ(tail),
         UNCHANGED <<head, slot>>,
         Arriving(i, p)', \A j \in Slots : j # i => (Arriving(j, p)' <=> Arriving(j, p))
  PROVE  Len(Items) < Capacity /\ Items' = Append(Items, p)
  <1>1. /\ ItemsKnown /\ ItemsKnown' /\ ContentKnown'
        /\ Items \in Seq(Proc \cup {NoValue}) /\ Len(Items) = QueueSize(head, tail)
        /\ Items' \in Seq(Proc \cup {NoValue}) /\ Len(Items') = QueueSize(head', tail')
    BY ItemsFacts, ItemsFactsNext, ContentFactsNext, ItemsSeq, ItemsSeqNext
       DEF IsSeq, QueueSize
  <1>2. /\ head \in Position /\ tail \in Position /\ head \in Nat /\ tail \in Nat
        /\ head <= tail /\ tail <= head + OneLap
    BY DEF TypeOK, Position, StampInv, SlotsInv, WithinALap
  <1>3. PICK size \in 0 .. Capacity : size = QueueSize(head, tail)
    BY <1>2, SizeFacts
  <1>4. size < Capacity /\ QueueSize(head', tail') = size + 1
    <2>1. QueueSize(head, Succ(tail)) = size + 1
      BY <1>2, <1>3, SizeSuccTail
    <2> QED  BY <1>2, <1>3, <2>1, SizeFacts, Sizes
  <1>5. DropIndex(head, size) = i
    BY <1>2, <1>3, TailIndex, DistanceFacts
  <1>6. Content(i)' = p
    BY <1>1 DEF ContentKnown
  <1>7. ASSUME NEW n \in 1 .. size
        PROVE  Content(DropIndex(head, n - 1))' = Items[n]
    <2>1. n - 1 \in Slots /\ size \in Slots /\ n - 1 # size
      BY <1>4, Sizes DEF Slots
    <2>2. /\ DropIndex(head, n - 1) \in Slots
          /\ Distance(head, DropIndex(head, n - 1)) = n - 1
          /\ Distance(head, DropIndex(head, size)) = size
      BY <1>2, <2>1, DistanceFacts
    <2>3. PICK j \in Slots : j = DropIndex(head, n - 1) /\ j # i
      BY <1>5, <2>1, <2>2
    <2>4. Content(j)' = Content(j)
      BY <2>3, ContentKept
    <2>5. DropIndex(head, n - 1)' = DropIndex(head, n - 1)
      BY DEF DropIndex
    <2> QED  BY <1>1, <1>3, <2>3, <2>4, <2>5 DEF ItemsKnown
  <1>8. Items' = [n \in 1 .. size + 1 |-> Content(DropIndex(head, n - 1))']
    BY <1>1, <1>4 DEF ItemsKnown, QueueSize
  <1>9. Content(DropIndex(head, (size + 1) - 1))' = p
    <2>1. (size + 1) - 1 = size /\ DropIndex(head, size)' = i
      BY <1>5 DEF DropIndex
    <2> QED  BY <1>6, <2>1
  <1>10. /\ Append(Items, p) \in Seq(Proc \cup {NoValue})
         /\ Len(Append(Items, p)) = size + 1 /\ Append(Items, p)[size + 1] = p
         /\ \A n \in 1 .. size : Append(Items, p)[n] = Items[n]
    BY <1>1, <1>3, AppendProperties
  <1>11. \A n \in 1 .. size + 1 : Items'[n] = Append(Items, p)[n]
    <2>1. ASSUME NEW n \in 1 .. size
          PROVE  Items'[n] = Append(Items, p)[n]
      BY <1>7, <1>8, <1>10
    <2>2. Items'[size + 1] = Append(Items, p)[size + 1]
      BY <1>8, <1>9, <1>10
    <2>3. 1 .. size + 1 = (1 .. size) \cup {size + 1}
      OBVIOUS
    <2> QED  BY <2>1, <2>2, <2>3
  <1>12. Items' = Append(Items, p)
    BY <1>1, <1>4, <1>10, <1>11, SeqEqual
  <1> QED  BY <1>1, <1>3, <1>4, <1>12

(* A pop that moves the head takes the oldest value. *)
LEMMA ItemsTail ==
  ASSUME TypeOK, TypeOK', StampInv, StampInv', NEW p \in Proc, StepOf(p),
         head' = Succ(head), stamp[Index(head)] > head, UNCHANGED <<tail, slot>>,
         \A j \in Slots : Arriving(j, p)' <=> Arriving(j, p)
  PROVE  Items # << >> /\ Items' = Tail(Items) /\ Head(Items) = slot[Index(head)]
  <1>1. /\ ItemsKnown /\ ItemsKnown' /\ ContentKnown
        /\ Items \in Seq(Proc \cup {NoValue}) /\ Len(Items) = QueueSize(head, tail)
        /\ Items' \in Seq(Proc \cup {NoValue}) /\ Len(Items') = QueueSize(head', tail')
    BY ItemsFacts, ItemsFactsNext, ContentFacts, ItemsSeq, ItemsSeqNext
       DEF IsSeq, QueueSize
  <1>2. /\ head \in Position /\ tail \in Position /\ head \in Nat /\ tail \in Nat
        /\ head <= tail /\ tail <= head + OneLap
    BY DEF TypeOK, Position, StampInv, SlotsInv, WithinALap
  <1>3. PICK size \in 0 .. Capacity : size = QueueSize(head, tail)
    BY <1>2, SizeFacts
  <1>4. /\ head < tail /\ Index(head) \in Slots
        /\ \A q \in Holders : At(q) # Index(head)
    BY HeadSlotFull DEF StampInv
  <1>5. size > 0 /\ QueueSize(head', tail') = size - 1
    <2>1. QueueSize(Succ(head), tail) = size - 1
      BY <1>2, <1>3, <1>4, SizeSuccHead
    <2>2. size # 0
      BY <1>2, <1>3, <1>4, SizeFacts
    <2> QED  BY <2>1, <2>2
  <1>6. Items # << >>
    BY <1>1, <1>3, <1>5
  <1>7. Head(Items) = slot[Index(head)]
    <2>1. DropIndex(head, 0) = Index(head) /\ 1 - 1 = 0
      BY <1>2, IndexFacts, Sizes DEF DropIndex, Position
    <2>2. Items[1] = Content(Index(head))
      BY <1>1, <1>3, <1>5, <2>1 DEF ItemsKnown
    <2>3. \A q \in Proc : ~ Arriving(Index(head), q)
      BY <1>4 DEF Arriving, Holders, Holding
    <2>4. Content(Index(head)) = slot[Index(head)]
      BY <1>1, <1>4, <2>3 DEF ContentKnown
    <2> QED  BY <1>1, <1>6, <2>2, <2>4
  <1>8. ASSUME NEW n \in 1 .. size - 1
        PROVE  Items'[n] = Items[n + 1]
    <2>1. n - 1 \in Nat /\ (n - 1) + 1 < Capacity /\ n \in Slots /\ n + 1 \in 1 .. size
      BY <1>5, Sizes DEF Slots
    <2>2. DropIndex(head, n) \in Slots /\ DropIndex(head', n - 1) = DropIndex(head, n)
      BY <1>2, <2>1, DistanceFacts, DropIndexSucc
    <2>3. PICK j \in Slots : j = DropIndex(head, n)
      BY <2>2
    <2>4. Content(j)' = Content(j)
      BY ContentKept
    <2>5. Items[n + 1] = Content(j)
      BY <1>1, <1>3, <2>1, <2>3 DEF ItemsKnown
    <2>6. Items'[n] = Content(DropIndex(head, n - 1))'
      BY <1>1, <1>5 DEF ItemsKnown, QueueSize
    <2>7. DropIndex(head, n - 1)' = j
      BY <2>2, <2>3 DEF DropIndex
    <2> QED  BY <2>4, <2>5, <2>6, <2>7
  <1>9. /\ Tail(Items) \in Seq(Proc \cup {NoValue}) /\ Len(Tail(Items)) = size - 1
        /\ \A n \in 1 .. size - 1 : Tail(Items)[n] = Items[n + 1]
    BY <1>1, <1>3, <1>6, HeadTailProperties
  <1>10. Items' = Tail(Items)
    BY <1>1, <1>5, <1>8, <1>9, SeqEqual
  <1> QED  BY <1>6, <1>7, <1>10

-----------------------------------------------------------------------------
(* The refinement *)

Inside == {"write", "swap", "read", "move_tail"}

(* A step that neither moves the head or the tail nor touches a slot leaves *)
(* the items, and leaves what p has taken unless p lets go of it.          *)
LEMMA OutsideStep ==
  ASSUME TypeOK, TypeOK', StampInv, StampInv', NEW p \in Proc, StepOf(p),
         UNCHANGED <<head, tail, slot>>, pc[p] \notin Inside, pc'[p] \notin Inside
  PROVE  /\ Items' = Items /\ Taken[p] = got[p] /\ Taken'[p] = got'[p]
         /\ \A q \in Proc : q # p => Taken'[q] = Taken[q]
  <1>1. \A j \in Slots : Content(j)' = Content(j)
    BY ContentKept DEF Arriving, Inside
  <1>2. Items' = Items
    BY <1>1, ItemsSame
  <1> QED  BY <1>2, TakenKept DEF Taken, Inside

(* The compare-and-swap of push, and the second move of force_push. *)
LEMMA PutStep ==
  ASSUME TypeOK, TypeOK', StampInv, StampInv', NEW p \in Proc,
         \/ PushCas(p) /\ tail = pos[p] /\ tail' = Succ(tail) /\ Step(p, "write")
         \/ MoveTail(p)
  PROVE  Len(Items) < Capacity /\ Items' = Append(Items, p) /\ Taken' = Taken
  <1>1. StepOf(p)
    BY DEF StepOf, Running
  <1>2. PICK i \in Slots : i = At(p) /\ i = Index(pos[p])
    BY AtFacts
  <1>3. /\ tail = pos[p] /\ tail < head + OneLap /\ tail' = Succ(tail)
        /\ UNCHANGED <<head, slot, got, pos>>
    <2>1. CASE PushCas(p) /\ tail = pos[p] /\ tail' = Succ(tail) /\ Step(p, "write")
      <3>1. pc[p] = "push_cas" /\ stamp[Index(tail)] >= tail
        BY <2>1 DEF PushCas, StampInv, LocalsInv, LocalsLag, At
      <3>2. tail < head + OneLap
        BY <3>1, TailSlotFree DEF StampInv
      <3> QED  BY <2>1, <3>2 DEF PushCas, Step
    <2>2. CASE MoveTail(p)
      <3>1. p \in Holders /\ pc[p] = "move_tail"
        BY <2>2 DEF MoveTail, Holders, Holding
      <3>2. tail = pos[p] /\ tail < head + OneLap
        BY <3>1 DEF StampInv, SlotsInv, HeldPosition
      <3> QED  BY <2>2, <3>2 DEF MoveTail, Step
    <2> QED  BY <2>1, <2>2
  <1>4. At(p)' = At(p)
    BY <1>3 DEF At
  <1>5. \/ pc[p] = "push_cas" /\ pc'[p] = "write"
        \/ pc[p] = "move_tail" /\ pc'[p] = "swap"
    BY DEF PushCas, MoveTail, Step, Goto, TypeOK
  <1>6. Arriving(i, p)' /\ \A j \in Slots : j # i => (Arriving(j, p)' <=> Arriving(j, p))
    BY <1>2, <1>4, <1>5 DEF Arriving
  <1>7. Len(Items) < Capacity /\ Items' = Append(Items, p)
    BY <1>1, <1>2, <1>3, <1>6, ItemsAppend
  <1>8. Taken'[p] = Taken[p]
    BY <1>3, <1>4, <1>5 DEF Taken
  <1>9. Taken' = Taken
    BY <1>1, <1>3, <1>8, TakenKept, TakenSame
  <1> QED  BY <1>7, <1>9

(* The compare-and-swap of pop, and the first move of force_push. *)
LEMMA TakeStep ==
  ASSUME TypeOK, TypeOK', StampInv, StampInv', NEW p \in Proc,
         \/ PopCas(p) /\ head = pos[p] /\ head' = Succ(head) /\ Step(p, "read")
         \/ /\ Evict(p) /\ head = pos[p] - OneLap /\ head' = Succ(pos[p]) - OneLap
            /\ Step(p, "move_tail")
  PROVE  /\ Items # << >> /\ Items' = Tail(Items)
         /\ Taken[p] = NoValue /\ Taken' = [Taken EXCEPT ![p] = Head(Items)]
  <1>1. StepOf(p)
    BY DEF StepOf, Running
  <1>2. /\ head \in Position /\ head \in Nat /\ tail \in Nat /\ pos[p] \in Nat
        /\ At(p) = Index(pos[p]) /\ stamp[At(p)] \in Nat
    BY AtFacts
  <1>3. /\ UNCHANGED <<tail, slot, got, pos>> /\ pc[p] \in {"pop_cas", "evict"}
        /\ pc'[p] \in {"read", "move_tail"}
    BY DEF PopCas, Evict, Step, Goto, TypeOK
  <1>4. head' = Succ(head) /\ stamp[Index(head)] > head /\ At(p) = Index(head)
    <2>1. CASE PopCas(p) /\ head = pos[p] /\ head' = Succ(head)
      BY <1>2, <2>1 DEF PopCas, StampInv, LocalsInv, LocalsLag
    <2>2. CASE Evict(p) /\ head = pos[p] - OneLap /\ head' = Succ(pos[p]) - OneLap
      <3>1. pos[p] = head + OneLap /\ stamp[At(p)] + OneLap > pos[p]
        BY <1>2, <2>2, Sizes DEF Evict, StampInv, LocalsInv, LocalsLag
      <3>2. At(p) = Index(head)
        BY <1>2, <3>1, NextLap
      <3>3. Succ(head) \in Nat /\ Succ(pos[p]) = Succ(head) + OneLap
        BY <1>2, <3>1, SuccFacts DEF Position
      <3> QED  BY <1>2, <2>2, <3>1, <3>2, <3>3, Sizes
    <2> QED  BY <2>1, <2>2
  <1>5. \A j \in Slots : Arriving(j, p)' <=> Arriving(j, p)
    BY <1>3 DEF Arriving
  <1>6. Items # << >> /\ Items' = Tail(Items) /\ Head(Items) = slot[Index(head)]
    BY <1>1, <1>3, <1>4, <1>5, ItemsTail
  <1>7. Taken[p] = NoValue
    BY <1>3 DEF Taken, StampInv, LocalsInv, EmptyHanded
  <1>8. Taken'[p] = Head(Items)
    BY <1>3, <1>4, <1>6 DEF Taken, At
  <1>9. Taken' = [Taken EXCEPT ![p] = Head(Items)]
    BY <1>1, <1>3, <1>8, TakenKept, TakenChanges
  <1> QED  BY <1>6, <1>7, <1>9

(* Writing the slot, swapping and reading show nothing new. *)
LEMMA SlotAccess ==
  ASSUME TypeOK, TypeOK', StampInv, StampInv', NEW p \in Proc,
         WriteSlot(p) \/ Swap(p) \/ ReadSlot(p)
  PROVE  Items' = Items /\ Taken' = Taken
  <1>1. StepOf(p)
    BY DEF StepOf, Running
  <1>2. PICK i \in Slots : i = At(p) /\ i = Index(pos[p])
    BY AtFacts
  <1>3. /\ UNCHANGED <<head, tail, stamp, pos>> /\ pc[p] \in {"write", "swap", "read"}
        /\ pc'[p] \in {"publish", "free"}
        /\ \A j \in Slots : j # i => slot'[j] = slot[j]
    BY <1>2 DEF WriteSlot, Swap, ReadSlot, Step, Goto, TypeOK
  <1>4. p \in Holders /\ HeldPosition(p) /\ At(p)' = At(p)
    BY <1>3 DEF Holders, Holding, StampInv, SlotsInv, At
  <1>5. \A j \in Slots : j # i => Content(j)' = Content(j)
    BY <1>1, <1>2, <1>3, <1>4, ContentKept DEF Arriving
  <1>6. ASSUME WriteSlot(p) \/ Swap(p)
        PROVE  Content(i)' = Content(i)
    <2>1. Arriving(i, p) /\ slot'[i] = p
      BY <1>2, <1>6 DEF WriteSlot, Swap, Arriving, TypeOK
    <2>2. \A q \in Proc : ~ Arriving(i, q)'
      <3>1. ASSUME NEW q \in Proc, q # p, Arriving(i, q)'
            PROVE  FALSE
        <4>1. Arriving(i, q)
          BY <1>1, <3>1, OthersKeep DEF Arriving, Keeps
        <4> QED  BY <1>2, <1>4, <3>1, <4>1
                 DEF Arriving, StampInv, SlotsInv, OneHolder, Holders, Holding
      <3>2. ~ Arriving(i, p)'
        BY <1>3 DEF Arriving
      <3> QED  BY <3>1, <3>2
    <2> QED  BY <2>1, <2>2, ContentFacts, ContentFactsNext DEF ContentKnown
  <1>7. ASSUME ReadSlot(p)
        PROVE  ~ (Turn(i, head) < tail)
    <2>1. pc[p] = "read"
      BY <1>7 DEF ReadSlot
    <2>2. pos[p] < head /\ tail <= pos[p] + OneLap
      BY <1>4, <2>1 DEF HeldPosition
    <2>3. /\ pos[p] \in Position /\ pos[p] \in Nat
          /\ head \in Position /\ head \in Nat /\ tail \in Nat /\ head <= tail
      BY AtFacts DEF StampInv, SlotsInv, WithinALap
    <2>4. pos[p] + OneLap \in Position /\ Index(pos[p] + OneLap) = i
      BY <1>2, <2>3, NextLap, Sizes DEF Position
    <2>5. head <= pos[p] + OneLap /\ pos[p] + OneLap < head + OneLap
      BY <2>2, <2>3, Sizes
    <2>6. Turn(i, head) = pos[p] + OneLap
      BY <2>3, <2>4, <2>5, TurnUnique
    <2> QED  BY <2>2, <2>3, <2>6, Sizes
  <1>8. Items' = Items
    <2>1. \A j \in Slots : Turn(j, head) < tail => Content(j)' = Content(j)
      BY <1>5, <1>6, <1>7
    <2> QED  BY <1>3, <2>1, ItemsSame
  <1>9. Taken'[p] = Taken[p]
    BY <1>3 DEF Taken, WriteSlot, Swap, ReadSlot, TypeOK
  <1>10. Taken' = Taken
    BY <1>1, <1>2, <1>3, <1>9, TakenKept, TakenSame DEF Holding
  <1> QED  BY <1>8, <1>10

(* Loads, checks, compare-and-swaps that fail, and returns show nothing.   *)
Silent(p) ==
  \/ PushCas(p) /\ UNCHANGED tail /\ \E t \in Old(tail) : Load(p, t, "stamp")
  \/ PopCas(p) /\ UNCHANGED head /\ \E t \in Old(head) : Load(p, t, "look")
  \/ Evict(p) /\ UNCHANGED head /\ Step(p, "tail")
  \/ LoadTail(p) \/ LoadStamp(p) \/ PushFull(p) \/ PushNotFull(p) \/ Publish(p)
  \/ LoadHead(p) \/ LookAtStamp(p) \/ PopEmpty(p) \/ PopNotEmpty(p) \/ FreeSlot(p)
  \/ Observe(p) \/ IsEmpty(p) \/ IsFull(p)
  \/ LenHead(p) \/ LenReturns(p) \/ LenRetries(p)

LEMMA SilentStep ==
  ASSUME TypeOK, TypeOK', StampInv, StampInv', NEW p \in Proc, Silent(p)
  PROVE  Items' = Items /\ Taken' = Taken
  <1>1. StepOf(p)
    BY DEF StepOf, Running, Silent
  <1>2. /\ UNCHANGED <<head, tail, slot, got>>
        /\ pc[p] \notin Inside /\ pc'[p] \notin Inside
    BY DEF Silent, PushCas, PopCas, Evict, LoadTail, LoadStamp, PushFull, PushNotFull, Publish,
       LoadHead, LookAtStamp, PopEmpty, PopNotEmpty, FreeSlot, Observe, IsEmpty, IsFull, LenHead,
       LenReturns, LenRetries, Load, Step, Return, Goto, TypeOK, Inside, queueVars
  <1> QED  BY <1>1, <1>2, OutsideStep, TakenSame

(* The start of a call lets go of what the thread's last pop returned. *)
LEMMA StartStep ==
  ASSUME TypeOK, TypeOK', StampInv, StampInv', NEW p \in Proc, NEW f \in Api, Start(p, f)
  PROVE  Items' = Items /\ Taken' = [Taken EXCEPT ![p] = NoValue]
  <1>1. /\ UNCHANGED <<head, tail, slot>> /\ pc[p] \notin Inside /\ pc'[p] \notin Inside
        /\ got'[p] = NoValue /\ StepOf(p)
    BY DEF Start, Goto, TypeOK, Inside, queueVars, StepOf
  <1>2. /\ Items' = Items /\ Taken'[p] = NoValue
        /\ \A q \in Proc : q # p => Taken'[q] = Taken[q]
    BY <1>1, OutsideStep
  <1> QED  BY <1>2, TakenChanges

(* Every step of a thread is one of these. *)
LEMMA StepKinds ==
  ASSUME NEW p \in Proc, StepOf(p)
  PROVE  \/ \E f \in Api : Start(p, f)
         \/ PushCas(p) /\ tail = pos[p] /\ tail' = Succ(tail) /\ Step(p, "write")
         \/ MoveTail(p)
         \/ PopCas(p) /\ head = pos[p] /\ head' = Succ(head) /\ Step(p, "read")
         \/ /\ Evict(p) /\ head = pos[p] - OneLap /\ head' = Succ(pos[p]) - OneLap
            /\ Step(p, "move_tail")
         \/ WriteSlot(p) \/ Swap(p) \/ ReadSlot(p)
         \/ Silent(p)
  BY DEF StepOf, Running, PushCas, PopCas, Evict, Silent

(* Every step of a thread is a step of the FIFO or shows nothing. *)
LEMMA FifoStep ==
  ASSUME TypeOK, TypeOK', StampInv, StampInv', NEW p \in Proc, StepOf(p)
  PROVE  Fifo!FifoNext \/ (Items' = Items /\ Taken' = Taken)
  <1>1. ASSUME NEW f \in Api, Start(p, f)
        PROVE  Fifo!LetGo(p) \/ (Items' = Items /\ Taken' = Taken)
    <2>1. Items' = Items /\ Taken' = [Taken EXCEPT ![p] = NoValue]
      BY <1>1, StartStep
    <2>2. CASE Taken[p] = NoValue
      <3>1. Taken' = Taken
        BY <2>1, <2>2 DEF Taken
      <3> QED  BY <2>1, <3>1
    <2>3. CASE Taken[p] # NoValue
      BY <2>1, <2>3 DEF Fifo!LetGo
    <2> QED  BY <2>2, <2>3
  <1>2. CASE \/ PushCas(p) /\ tail = pos[p] /\ tail' = Succ(tail) /\ Step(p, "write")
             \/ MoveTail(p)
    BY <1>2, PutStep DEF Fifo!FifoNext, Fifo!Put
  <1>3. CASE \/ PopCas(p) /\ head = pos[p] /\ head' = Succ(head) /\ Step(p, "read")
             \/ /\ Evict(p) /\ head = pos[p] - OneLap /\ head' = Succ(pos[p]) - OneLap
                /\ Step(p, "move_tail")
    BY <1>3, TakeStep DEF Fifo!FifoNext, Fifo!Take
  <1>4. CASE WriteSlot(p) \/ Swap(p) \/ ReadSlot(p)
    BY <1>4, SlotAccess
  <1>5. CASE Silent(p)
    BY <1>5, SilentStep
  <1> QED  BY <1>1, <1>2, <1>3, <1>4, <1>5, StepKinds DEF Fifo!FifoNext

(* At the start the queue is empty and nobody has taken anything. *)
LEMMA ItemsInit ==
  ASSUME Init
  PROVE  Items = << >> /\ Taken = [p \in Proc |-> NoValue]
  <1>1. QueueSize(head, tail) = 0
    BY ZeroPosition, SizeFacts, Sizes DEF Init
  <1>2. Items \in Seq(Proc \cup {NoValue}) /\ Len(Items) = 0
    BY <1>1, TypeInit, StampInit, ItemsSeq DEF IsSeq
  <1>3. Taken = [p \in Proc |-> NoValue]
    BY DEF Init, Taken
  <1> QED  BY <1>2, <1>3, EmptySeq

LEMMA ItemsStutter ==
  ASSUME TypeOK, TypeOK', StampInv, StampInv', UNCHANGED vars
  PROVE  Items' = Items /\ Taken' = Taken
  <1>1. Taken' = Taken
    BY DEF vars, Taken, At
  <1>2. \A i \in Slots : Content(i)' = Content(i)
    <2>1. \A i \in Slots : \A q \in Proc : Arriving(i, q)' <=> Arriving(i, q)
      BY DEF vars, Arriving, At
    <2> QED  BY <2>1, ContentFacts, ContentFactsNext DEF ContentKnown, vars
  <1>3. Items' = Items
    BY <1>2, ItemsSame DEF vars
  <1> QED  BY <1>1, <1>3

(* The queue of array_queue.rs is a bounded FIFO: what the stamps stand    *)
(* for changes only as BoundedFifo allows, for any threads, capacity,      *)
(* interleaving and age of the loaded values.                              *)
THEOREM QueueRefinesFifo == Spec => FifoSpec
  <1>1. Init => Fifo!FifoInit
    BY ItemsInit DEF Fifo!FifoInit
  <1>2. TypeOK /\ TypeOK' /\ StampInv /\ StampInv' /\ [Next]_vars
          => [Fifo!FifoNext]_(Fifo!fifoVars)
    BY FifoStep, NextIsStep, ItemsStutter DEF Fifo!fifoVars
  <1> QED  BY <1>1, <1>2, StampInvariant, PTL DEF Spec, FifoSpec, Fifo!FifoSpec

-----------------------------------------------------------------------------
(* IntoIter *)

(* The n-th position from h on. *)
Ahead(h, n) == IF Index(h) + n < Capacity THEN h + n
               ELSE Lap(h) + OneLap + (Index(h) + n - Capacity)

LEMMA AheadFacts ==
  ASSUME NEW h \in Position, NEW n \in 0 .. Capacity
  PROVE  /\ Ahead(h, n) \in Position /\ Ahead(h, 0) = h
         /\ n < Capacity => Index(Ahead(h, n)) = DropIndex(h, n)
         /\ n < Capacity => Ahead(h, n + 1) = IterNext(Ahead(h, n))
         /\ IF Index(h) + n < Capacity
            THEN Index(Ahead(h, n)) = Index(h) + n /\ Lap(Ahead(h, n)) = Lap(h)
            ELSE /\ Index(Ahead(h, n)) = Index(h) + n - Capacity
                 /\ Lap(Ahead(h, n)) = Lap(h) + OneLap
  <1>1. /\ h \in Nat /\ Index(h) < Capacity
        /\ Index(h) \in Nat /\ Lap(h) \in Nat /\ Lap(h) + Index(h) = h
    BY IndexFacts DEF Position
  <1>2. n \in Nat /\ n <= Capacity
    BY Sizes
  <1>3. Ahead(h, 0) = h
    BY <1>1 DEF Ahead
  <1>4. CASE Index(h) + n < Capacity
    <2>1. Ahead(h, n) = Lap(h) + (Index(h) + n) /\ Ahead(h, n) = h + n
      BY <1>1, <1>2, <1>4 DEF Ahead
    <2>2. Index(Ahead(h, n)) = Index(h) + n /\ Lap(Ahead(h, n)) = Lap(h)
      BY <1>1, <1>2, <1>4, <2>1, IndexOfLap, Sizes
    <2>3. Ahead(h, n + 1) = IterNext(Ahead(h, n))
      BY <1>1, <1>2, <1>4, <2>1, <2>2, Sizes DEF Ahead, IterNext
    <2> QED  BY <1>1, <1>2, <1>3, <1>4, <2>1, <2>2, <2>3 DEF Position, DropIndex
  <1>5. CASE ~ (Index(h) + n < Capacity)
    <2> DEFINE r == Index(h) + n - Capacity
    <2>1. r \in Nat /\ r < Capacity /\ r < OneLap
      BY <1>1, <1>2, <1>5, Sizes
    <2>2. Ahead(h, n) = Lap(h) + OneLap + r
      BY <1>5 DEF Ahead
    <2>3. Index(Ahead(h, n)) = r /\ Lap(Ahead(h, n)) = Lap(h) + OneLap
      BY <1>1, <2>1, <2>2, IndexOfLap
    <2>4. ASSUME n < Capacity
          PROVE  Ahead(h, n + 1) = IterNext(Ahead(h, n))
      BY <1>1, <1>2, <1>5, <2>2, <2>3, <2>4, Sizes DEF Ahead, IterNext
    <2>5. Index(Ahead(h, n)) = DropIndex(h, n)
      BY <1>5, <2>3 DEF DropIndex
    <2>6. Ahead(h, n) \in Position
      BY <1>1, <2>1, <2>2, <2>3, Sizes DEF Position
    <2> QED  BY <1>3, <1>5, <2>3, <2>4, <2>5, <2>6
  <1> QED  BY <1>4, <1>5

(* The head of the iterator after n calls of next. *)
LEMMA IterHeadFacts ==
  ASSUME TypeOK
  PROVE  \A n \in 0 .. Capacity : IterHead[n] = Ahead(head, n)
  <1> DEFINE F(g) == [n \in 0 .. Capacity |-> IF n = 0 THEN head ELSE IterNext(g[n - 1])]
             w    == [n \in 0 .. Capacity |-> Ahead(head, n)]
  <1>1. head \in Position
    BY DEF TypeOK
  <1>2. ASSUME NEW n \in 0 .. Capacity, n # 0
        PROVE  /\ n - 1 \in 0 .. Capacity
               /\ Ahead(head, n) = IterNext(Ahead(head, n - 1))
    <2>1. n - 1 \in 0 .. Capacity /\ n - 1 < Capacity /\ (n - 1) + 1 = n
      BY <1>2, Sizes
    <2> QED  BY <1>1, <2>1, AheadFacts
  <1>3. Ahead(head, 0) = head
    BY <1>1, AheadFacts, Sizes
  <1>4. w = F(w)
    BY <1>2, <1>3
  <1>5. IterHead = CHOOSE g : g = F(g)
    BY DEF IterHead
  <1> HIDE DEF F
  <1>6. IterHead = F(IterHead)
    BY <1>4, <1>5
  <1>7. \A n \in 0 .. Capacity : IterHead[n] = IF n = 0 THEN head ELSE IterNext(IterHead[n - 1])
    BY <1>6 DEF F
  <1> DEFINE T == {n \in 0 .. Capacity : IterHead[n] # Ahead(head, n)}
  <1>8. T = {}
    <2> SUFFICES ASSUME T # {} PROVE FALSE
      OBVIOUS
    <2>1. PICK n \in T : \A m \in T : ~ (m < n)
      <3>1. T \in SUBSET Nat
        BY Sizes
      <3> HIDE DEF T
      <3> QED  BY <3>1, LeastNumber
    <2>2. n # 0
      BY <1>3, <1>7, Sizes
    <2>3. n - 1 \in 0 .. Capacity /\ n - 1 \notin T
      BY <2>1, <2>2, Sizes
    <2>4. IterHead[n] = IterNext(Ahead(head, n - 1))
      BY <1>7, <2>2, <2>3
    <2> QED  BY <1>2, <2>2, <2>4
  <1> QED  BY <1>8

(* n positions ahead of the head there are n values fewer; the tail is as  *)
(* many positions ahead as there are values.                               *)
LEMMA AheadSize ==
  ASSUME NEW h \in Position, NEW t \in Position, h <= t, t <= h + OneLap,
         NEW n \in 0 .. QueueSize(h, t)
  PROVE  /\ QueueSize(Ahead(h, n), t) = QueueSize(h, t) - n
         /\ Ahead(h, n) = t <=> n = QueueSize(h, t)
  <1>1. /\ h \in Nat /\ Index(h) < Capacity
        /\ Index(h) \in Nat /\ Lap(h) \in Nat /\ Lap(h) + Index(h) = h
    BY IndexFacts DEF Position
  <1>2. /\ t \in Nat /\ Index(t) < Capacity
        /\ Index(t) \in Nat /\ Lap(t) \in Nat /\ Lap(t) + Index(t) = t
    BY IndexFacts DEF Position
  <1>3. QueueSize(h, t) \in 0 .. Capacity /\ n \in 0 .. Capacity
    BY SizeFacts, Sizes
  <1> DEFINE a == Ahead(h, n)
  <1>4. /\ a \in Position
        /\ IF Index(h) + n < Capacity
           THEN Index(a) = Index(h) + n /\ Lap(a) = Lap(h)
           ELSE Index(a) = Index(h) + n - Capacity /\ Lap(a) = Lap(h) + OneLap
    BY <1>3, AheadFacts
  <1>5. a \in Nat /\ Index(a) \in Nat /\ Lap(a) \in Nat /\ Lap(a) + Index(a) = a
    BY <1>4, IndexFacts DEF Position
  <1> HIDE DEF a
  <1>6. QueueSize(h, t) = IF Lap(t) = Lap(h) THEN Index(t) - Index(h)
                                             ELSE Capacity + Index(t) - Index(h)
    BY SizeByLap
  <1>7. \/ Lap(t) = Lap(h) /\ Index(h) <= Index(t)
        \/ Lap(t) = Lap(h) + OneLap /\ Index(t) <= Index(h)
    BY TailLap
  <1>8. h <= a /\ a <= t /\ t <= a + OneLap /\ (a = t <=> n = QueueSize(h, t))
    BY <1>1, <1>2, <1>3, <1>4, <1>5, <1>6, <1>7, Sizes
  <1>9. QueueSize(a, t) = IF Lap(t) = Lap(a) THEN Index(t) - Index(a)
                                             ELSE Capacity + Index(t) - Index(a)
    BY <1>4, <1>8, SizeByLap
  <1>10. QueueSize(a, t) = QueueSize(h, t) - n
    BY <1>1, <1>2, <1>3, <1>4, <1>5, <1>6, <1>7, <1>8, <1>9, Sizes
  <1> QED  BY <1>8, <1>10 DEF a

(* Further ahead than that is past the tail. *)
LEMMA AheadPast ==
  ASSUME NEW h \in Position, NEW t \in Position, h <= t, t <= h + OneLap,
         NEW n \in 0 .. Capacity, QueueSize(h, t) < n
  PROVE  Ahead(h, n) # t
  <1>1. /\ h \in Nat /\ Index(h) < Capacity
        /\ Index(h) \in Nat /\ Lap(h) \in Nat /\ Lap(h) + Index(h) = h
    BY IndexFacts DEF Position
  <1>2. /\ t \in Nat /\ Index(t) < Capacity
        /\ Index(t) \in Nat /\ Lap(t) \in Nat /\ Lap(t) + Index(t) = t
    BY IndexFacts DEF Position
  <1>3. QueueSize(h, t) = IF Lap(t) = Lap(h) THEN Index(t) - Index(h)
                                             ELSE Capacity + Index(t) - Index(h)
    BY SizeByLap
  <1>4. \/ Lap(t) = Lap(h) /\ Index(h) <= Index(t)
        \/ Lap(t) = Lap(h) + OneLap /\ Index(t) <= Index(h)
    BY TailLap
  <1> QED  BY <1>1, <1>2, <1>3, <1>4, Sizes DEF Ahead

(* The slots that follow after n calls. *)
LEMMA AheadDrop ==
  ASSUME NEW h \in Position, NEW n \in 0 .. Capacity, NEW k \in Nat, n + k < Capacity
  PROVE  DropIndex(Ahead(h, n), k) = DropIndex(h, n + k)
  <1>1. Index(h) \in Nat /\ Index(h) < Capacity
    BY IndexFacts DEF Position
  <1>2. IF Index(h) + n < Capacity THEN Index(Ahead(h, n)) = Index(h) + n
                                   ELSE Index(Ahead(h, n)) = Index(h) + n - Capacity
    BY AheadFacts
  <1> QED  BY <1>1, <1>2, Sizes DEF DropIndex

(* IntoIter::next returns the values in FIFO order and stops at the tail;  *)
(* its Drop drops the rest, each once (array_queue.rs:600).                *)
THEOREM QueueIteratesInOrder == Spec => []IteratesInOrder
  <1>1. TypeOK /\ StampInv => IteratesInOrder
    <2> SUFFICES ASSUME TypeOK, StampInv, \A p \in Proc : pc[p] = "idle"
                 PROVE  IteratesInOrder
      BY DEF IteratesInOrder
    <2>1. /\ head \in Position /\ tail \in Position
          /\ head <= tail /\ tail <= head + OneLap
      BY DEF TypeOK, StampInv, SlotsInv, WithinALap
    <2>2. PICK size \in 0 .. Capacity : size = QueueSize(head, tail)
      BY <2>1, SizeFacts
    <2>3. \A n \in 0 .. Capacity : IterHead[n] = Ahead(head, n)
      BY IterHeadFacts
    <2> DEFINE Read(n) == {Index(IterHead[k]) : k \in 0 .. n - 1}
    <2>4. {n \in 0 .. Capacity : IterHead[n] = tail} = {size}
      <3>1. ASSUME NEW n \in 0 .. Capacity, Ahead(head, n) = tail
            PROVE  n = size
        <4>1. CASE n <= size
          <5>1. n \in 0 .. size
            BY <4>1
          <5> QED  BY <2>1, <2>2, <3>1, <5>1, AheadSize
        <4>2. CASE n > size
          BY <2>1, <2>2, <3>1, <4>2, AheadPast
        <4> QED  BY <4>1, <4>2
      <3>2. Ahead(head, size) = tail
        BY <2>1, <2>2, AheadSize
      <3> QED  BY <2>3, <3>1, <3>2
    <2>5. ASSUME NEW n \in 1 .. size
          PROVE  slot[Index(IterHead[n - 1])] = Items[n]
      <3>1. n - 1 \in 0 .. Capacity /\ n - 1 < Capacity /\ n - 1 \in Slots
        BY Sizes DEF Slots
      <3>2. Index(IterHead[n - 1]) = DropIndex(head, n - 1)
        BY <2>1, <2>3, <3>1, AheadFacts
      <3>3. Items[n] = Content(DropIndex(head, n - 1))
        BY <2>2, ItemsFacts DEF ItemsKnown
      <3>4. DropIndex(head, n - 1) \in Slots
        BY <2>1, <3>1, DistanceFacts
      <3>5. Content(DropIndex(head, n - 1)) = slot[DropIndex(head, n - 1)]
        BY <3>4, ContentFacts DEF ContentKnown, Arriving
      <3> QED  BY <3>2, <3>3, <3>5
    <2>6. ASSUME NEW n \in 0 .. size
          PROVE  /\ Read(n) \cap Dropped(IterHead[n]) = {}
                 /\ Read(n) \cup Dropped(IterHead[n]) = Dropped(head)
      <3>1. n \in 0 .. Capacity
        BY <2>2, Sizes
      <3>2. Dropped(IterHead[n]) = {DropIndex(Ahead(head, n), k) : k \in 0 .. (size - n) - 1}
        BY <2>1, <2>2, <2>3, <3>1, AheadSize DEF Dropped
      <3>3. Dropped(head) = {DropIndex(head, k) : k \in 0 .. size - 1}
        BY <2>2 DEF Dropped
      <3>4. ASSUME NEW k \in 0 .. n - 1
            PROVE  Index(IterHead[k]) = DropIndex(head, k) /\ k \in 0 .. size - 1 /\ k \in Slots
        <4>1. k \in 0 .. Capacity /\ k < Capacity
          BY Sizes
        <4> QED  BY <2>1, <2>3, <4>1, AheadFacts, Sizes DEF Slots
      <3>5. ASSUME NEW k \in 0 .. (size - n) - 1
            PROVE  /\ DropIndex(Ahead(head, n), k) = DropIndex(head, n + k)
                   /\ n + k \in n .. size - 1 /\ n + k \in 0 .. size - 1 /\ n + k \in Slots
        BY <2>1, <3>1, AheadDrop, Sizes DEF Slots
      <3>6. \A i, j \in Slots : DropIndex(head, i) = DropIndex(head, j) => i = j
        BY <2>1, DistanceFacts
      <3>7. Read(n) \cap Dropped(IterHead[n]) = {}
        <4> SUFFICES ASSUME NEW k \in 0 .. n - 1, NEW m \in 0 .. (size - n) - 1,
                            Index(IterHead[k]) = DropIndex(Ahead(head, n), m)
                     PROVE  FALSE
          BY <3>2
        <4>1. k = n + m
          BY <3>4, <3>5, <3>6
        <4> QED  BY <4>1
      <3>8. Read(n) \cup Dropped(IterHead[n]) \subseteq Dropped(head)
        BY <3>2, <3>3, <3>4, <3>5
      <3>9. Dropped(head) \subseteq Read(n) \cup Dropped(IterHead[n])
        <4> SUFFICES ASSUME NEW k \in 0 .. size - 1
                     PROVE  DropIndex(head, k) \in Read(n) \cup Dropped(IterHead[n])
          BY <3>3
        <4>1. CASE k < n
          <5>1. k \in 0 .. n - 1
            BY <4>1
          <5> QED  BY <3>4, <5>1
        <4>2. CASE k >= n
          <5>1. PICK m \in 0 .. (size - n) - 1 : n + m = k
            <6>1. k - n \in 0 .. (size - n) - 1 /\ n + (k - n) = k
              BY <4>2
            <6> QED  BY <6>1
          <5> QED  BY <3>2, <3>5, <5>1
        <4> QED  BY <4>1, <4>2
      <3> QED  BY <3>7, <3>8, <3>9
    <2> QED  BY <2>2, <2>4, <2>5, <2>6 DEF IteratesInOrder
  <1> QED  BY <1>1, StampInvariant, PTL
=============================================================================
