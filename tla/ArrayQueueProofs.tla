-------------------------- MODULE ArrayQueueProofs ---------------------------
(***************************************************************************)
(* Proofs about ArrayQueue, for every set of threads, every capacity and   *)
(* every number of calls, with weak swaps and with stale loads.            *)
(***************************************************************************)
EXTENDS ArrayQueue, TLAPS, WellFoundedInduction

-----------------------------------------------------------------------------
(* Powers of two *)

(* A set of numbers that is not empty has a least element, which is how    *)
(* the inductions over numbers are done.                                   *)
LEMMA LeastNumber ==
  ASSUME NEW T \in SUBSET Nat, T # {}
  PROVE  \E x \in T : \A y \in T : ~ (y < x)
  <1>1. IsWellFoundedOn(OpToRel(<, Nat), Nat)
    BY NatLessThanWellFounded
  <1>2. PICK x \in T : \A y \in T : ~ (<<y, x>> \in OpToRel(<, Nat))
    BY <1>1, WFMin
  <1> QED  BY <1>2 DEF OpToRel

(* Twice a power of two is one: an odd number that divides it divides the  *)
(* half.                                                                   *)
LEMMA TwiceAPower ==
  ASSUME NEW n \in Nat \ {0}, IsPowerOfTwo(n)
  PROVE  IsPowerOfTwo(2 * n)
  <1> SUFFICES ASSUME NEW d \in 2 .. 2 * n, (2 * n) % d = 0, d % 2 # 0
               PROVE  FALSE
    BY DEF IsPowerOfTwo
  <1>1. d \in Nat /\ d >= 2 /\ 2 * n \in Nat
    OBVIOUS
  <1>2. PICK q \in Nat : 2 * n = d * q
    <2>1. (2 * n) \div d \in Nat /\ 2 * n = d * ((2 * n) \div d) + ((2 * n) % d)
      BY <1>1
    <2> QED  BY <2>1, <1>1
  <1>3. PICK a \in Nat : d = 2 * a + 1
    <2>1. d \div 2 \in Nat /\ d = 2 * (d \div 2) + (d % 2)
      BY <1>1
    <2>2. d % 2 = 1
      BY <1>1
    <2> QED  BY <2>1, <2>2
  <1>4. a * q \in Nat
    OBVIOUS
  <1>5. d * q = 2 * (a * q) + q
    BY <1>3
  <1>6. PICK r \in Nat : q = 2 * r
    <2>1. q = 2 * (n - a * q)
      BY <1>2, <1>4, <1>5
    <2>2. n - a * q \in Int /\ n - a * q >= 0
      BY <1>4, <2>1
    <2> QED  BY <2>1, <2>2
  <1>7. n = d * r
    <2>1. d * r \in Nat /\ d * (2 * r) = 2 * (d * r)
      BY <1>1
    <2> QED  BY <1>2, <1>6, <2>1
  <1>8. r # 0
    BY <1>7, <1>1
  <1>9. d <= n
    BY <1>1, <1>7, <1>8
  <1>10. n % d = 0
    <2>1. (d * r) % d = 0
      BY <1>1
    <2> QED BY <2>1, <1>7
  <1> QED  BY <1>1, <1>9, <1>10 DEF IsPowerOfTwo

(* There is a power of two above c, at 2c the latest. *)
LEMMA PowerOfTwoExists ==
  ASSUME NEW c \in Nat \ {0}
  PROVE  \E n \in c + 1 .. 2 * c : IsPowerOfTwo(n)
  <1> DEFINE None == {m \in Nat \ {0} : \A n \in m + 1 .. 2 * m : ~IsPowerOfTwo(n)}
  <1> SUFFICES ASSUME c \in None PROVE FALSE
    OBVIOUS
  <1>1. PICK x \in None : \A y \in None : ~ (y < x)
    <2>1. None \in SUBSET Nat /\ None # {}
      OBVIOUS
    <2> HIDE DEF None
    <2> QED  BY <2>1, LeastNumber
  <1>2. x # 1
    <2>1. IsPowerOfTwo(2)
      BY DEF IsPowerOfTwo
    <2> QED  BY <1>1, <2>1
  <1>3. PICK n \in (x - 1) + 1 .. 2 * (x - 1) : IsPowerOfTwo(n)
    <2>1. x - 1 \in Nat \ {0} /\ x - 1 < x
      BY <1>2
    <2>2. x - 1 \notin None
      BY <1>1, <2>1
    <2> QED  BY <2>1, <2>2
  <1>4. CASE n = x
    <2>1. IsPowerOfTwo(2 * x)
      BY <1>3, <1>4, TwiceAPower
    <2>2. 2 * x \in x + 1 .. 2 * x
      OBVIOUS
    <2> QED  BY <1>1, <2>1, <2>2
  <1>5. CASE n # x
    <2>1. n \in x + 1 .. 2 * x
      BY <1>3, <1>5
    <2> QED  BY <1>1, <1>3, <2>1
  <1> QED  BY <1>4, <1>5

(* What (C + 1).next_power_of_two() is for: an index fits below a lap. *)
LEMMA LapFits == OneLap \in Capacity + 1 .. 2 * Capacity /\ IsPowerOfTwo(OneLap)
  <1> DEFINE Powers == {n \in Capacity + 1 .. 2 * Capacity : IsPowerOfTwo(n)}
  <1>1. Capacity \in Nat \ {0}
    BY ArrayQueueAssumption
  <1>2. Powers # {} /\ Powers \in SUBSET Nat
    BY <1>1, PowerOfTwoExists
  <1>3. PICK n \in Powers : \A m \in Powers : ~ (m < n)
    <2> HIDE DEF Powers
    <2> QED  BY <1>2, LeastNumber
  <1>4. \A m \in Capacity + 1 .. n - 1 : ~IsPowerOfTwo(m)
    <2> SUFFICES ASSUME NEW m \in Capacity + 1 .. n - 1, IsPowerOfTwo(m)
                 PROVE  FALSE
      OBVIOUS
    <2>1. n \in Nat /\ n <= 2 * Capacity /\ m < n /\ m <= 2 * Capacity
      BY <1>1
    <2>2. m \in Powers
      BY <1>1, <2>1
    <2> QED  BY <1>3, <2>1, <2>2
  <1>5. \E k \in Capacity + 1 .. 2 * Capacity :
          IsPowerOfTwo(k) /\ \A m \in Capacity + 1 .. k - 1 : ~IsPowerOfTwo(m)
    BY <1>3, <1>4
  <1> QED  BY <1>5, Zenon DEF OneLap

-----------------------------------------------------------------------------
(* Stamps *)

LEMMA Sizes ==
  /\ Capacity \in Nat /\ Capacity > 0
  /\ OneLap \in Nat /\ OneLap > Capacity /\ OneLap > 1
  BY ArrayQueueAssumption, LapFits

(* Whole laps are multiples of OneLap. *)
LEMMA LapMultiple ==
  ASSUME NEW s \in Nat
  PROVE  \E q \in Nat : Lap(s) = OneLap * q
  <1>1. /\ s \div OneLap \in Nat
        /\ s = OneLap * (s \div OneLap) + (s % OneLap)
    BY Sizes
  <1>2. s % OneLap \in Nat
    BY Sizes
  <1> QED  BY <1>1, <1>2, Sizes DEF Lap, Index

(* An index is smaller than a lap, and with the lap gives the stamp. *)
LEMMA IndexFacts ==
  ASSUME NEW s \in Nat
  PROVE  /\ Index(s) \in Nat /\ Index(s) < OneLap
         /\ Lap(s) \in Nat /\ Lap(s) + Index(s) = s
  <1>1. s % OneLap \in Nat /\ s % OneLap < OneLap
    BY Sizes
  <1>2. PICK q \in Nat : Lap(s) = OneLap * q
    BY LapMultiple
  <1>3. OneLap * q \in Nat
    BY Sizes
  <1>4. Lap(s) + Index(s) = s
    BY <1>1, Sizes DEF Lap, Index
  <1> QED  BY <1>1, <1>2, <1>3, <1>4 DEF Index

(* The index of a position is that of a slot. *)
LEMMA SlotOfPosition ==
  ASSUME NEW s \in Position
  PROVE  s \in Nat /\ Index(s) \in Slots
  <1>1. s \in Nat /\ Index(s) < Capacity
    BY DEF Position
  <1>2. Index(s) \in Nat
    BY <1>1, IndexFacts
  <1>3. ASSUME NEW i \in Nat, i < Capacity  PROVE i \in Slots
    BY <1>3, Sizes DEF Slots
  <1> QED  BY <1>1, <1>2, <1>3

(* A stamp is put together from a lap and an index in one way. *)
LEMMA IndexUnique ==
  ASSUME NEW q \in Nat, NEW i \in Nat, i < OneLap
  PROVE  Index(OneLap * q + i) = i
  BY Sizes DEF Index

LEMMA IndexOfLap ==
  ASSUME NEW s \in Nat, NEW i \in Nat, i < OneLap
  PROVE  /\ Index(Lap(s) + i) = i /\ Lap(Lap(s) + i) = Lap(s)
         /\ Index(Lap(s) + OneLap + i) = i
         /\ Lap(Lap(s) + OneLap + i) = Lap(s) + OneLap
  <1>1. PICK q \in Nat : Lap(s) = OneLap * q
    BY LapMultiple
  <1>2. OneLap * (q + 1) = OneLap * q + OneLap /\ OneLap * q \in Nat
    BY Sizes
  <1>3. Index(OneLap * q + i) = i /\ Index(OneLap * (q + 1) + i) = i
    BY IndexUnique
  <1>4. Index(Lap(s) + i) = i /\ Index(Lap(s) + OneLap + i) = i
    BY <1>1, <1>2, <1>3
  <1>5. Lap(s) \in Nat
    BY IndexFacts
  <1> QED  BY <1>4, <1>5, Sizes DEF Lap

(* Two laps that differ are a lap apart. *)
LEMMA LapsApart ==
  ASSUME NEW s \in Nat, NEW t \in Nat, Lap(s) < Lap(t)
  PROVE  Lap(s) + OneLap <= Lap(t)
  <1>1. PICK q \in Nat : Lap(s) = OneLap * q
    BY LapMultiple
  <1>2. PICK r \in Nat : Lap(t) = OneLap * r
    BY LapMultiple
  <1>3. q < r
    BY <1>1, <1>2, Sizes
  <1>4. OneLap * r >= OneLap * q + OneLap
    BY <1>3, Sizes
  <1> QED  BY <1>1, <1>2, <1>4

(* A lap later comes the same index. *)
LEMMA NextLap ==
  ASSUME NEW s \in Nat
  PROVE  Index(s + OneLap) = Index(s) /\ Lap(s + OneLap) = Lap(s) + OneLap
  <1>1. Index(s) \in Nat /\ Index(s) < OneLap /\ Lap(s) \in Nat /\ Lap(s) + Index(s) = s
    BY IndexFacts
  <1>2. s + OneLap = Lap(s) + OneLap + Index(s)
    BY <1>1, Sizes
  <1> QED  BY <1>1, <1>2, IndexOfLap

(* Two positions of one slot are a lap apart. *)
LEMMA SameSlot ==
  ASSUME NEW s \in Nat, NEW t \in Nat, Index(s) = Index(t), s < t
  PROVE  s + OneLap <= t
  <1>1. Index(s) \in Nat /\ Lap(s) \in Nat /\ Lap(s) + Index(s) = s
    BY IndexFacts
  <1>2. Lap(t) \in Nat /\ Lap(t) + Index(s) = t
    BY IndexFacts
  <1>3. Lap(s) < Lap(t)
    BY <1>1, <1>2
  <1> QED  BY <1>1, <1>2, <1>3, LapsApart, Sizes

(* new_head and new_tail (array_queue.rs:208, :406): Succ is the next      *)
(* position, and a lap later so is its successor.                          *)
LEMMA SuccFacts ==
  ASSUME NEW s \in Position
  PROVE  /\ Succ(s) \in Position /\ s < Succ(s)
         /\ Succ(s) <= s + OneLap
         /\ Succ(s + OneLap) = Succ(s) + OneLap
         /\ \A t \in Position : s < t => Succ(s) <= t
  <1> USE Sizes
  <1>1. /\ s \in Nat /\ Index(s) < Capacity
        /\ Index(s) \in Nat /\ Lap(s) \in Nat /\ Lap(s) + Index(s) = s
    BY IndexFacts DEF Position
  <1>2. Index(s + OneLap) = Index(s) /\ Lap(s + OneLap) = Lap(s) + OneLap
    BY <1>1, NextLap
  <1>3. CASE Index(s) + 1 < Capacity
    <2>1. Succ(s) = s + 1 /\ Succ(s) = Lap(s) + (Index(s) + 1)
      BY <1>1, <1>3 DEF Succ
    <2>2. Index(s + 1) = Index(s) + 1
      BY <1>1, <1>3, <2>1, IndexOfLap
    <2> QED  BY <1>1, <1>2, <1>3, <2>1, <2>2 DEF Succ, Position
  <1>4. CASE Index(s) + 1 >= Capacity
    <2>1. Index(s) = Capacity - 1 /\ Succ(s) = Lap(s) + OneLap
      BY <1>1, <1>4 DEF Succ
    <2>2. Index(Lap(s) + OneLap + 0) = 0
      BY <1>1, IndexOfLap
    <2>3. Succ(s) \in Position
      BY <1>1, <2>1, <2>2 DEF Position
    <2>4. ASSUME NEW t \in Position, s < t
          PROVE  Succ(s) <= t
      <3>1. /\ t \in Nat /\ Index(t) < Capacity
            /\ Index(t) \in Nat /\ Lap(t) \in Nat /\ Lap(t) + Index(t) = t
        BY IndexFacts DEF Position
      <3>2. Lap(s) < Lap(t)
        BY <1>1, <2>1, <2>4, <3>1
      <3> QED  BY <1>1, <2>1, <3>1, <3>2, LapsApart
    <2> QED  BY <1>1, <1>2, <1>4, <2>1, <2>3, <2>4 DEF Succ
  <1> QED  BY <1>1, <1>3, <1>4

(* The position from s on that is next to use slot i is unique. *)
LEMMA TurnFacts ==
  ASSUME NEW s \in Position, NEW i \in Slots
  PROVE  /\ Turn(i, s) \in Position /\ Index(Turn(i, s)) = i
         /\ s <= Turn(i, s) /\ Turn(i, s) < s + OneLap
         /\ Turn(Index(s), s) = s
  <1>1. /\ s \in Nat /\ Index(s) < Capacity
        /\ Index(s) \in Nat /\ Lap(s) \in Nat /\ Lap(s) + Index(s) = s
    BY IndexFacts DEF Position
  <1>2. i \in Nat /\ i < Capacity
    BY Sizes DEF Slots
  <1>3. Index(Lap(s) + i) = i /\ Index(Lap(s) + OneLap + i) = i
    BY <1>1, <1>2, IndexOfLap, Sizes
  <1> QED  BY <1>1, <1>2, <1>3, Sizes DEF Turn, Position

LEMMA TurnUnique ==
  ASSUME NEW s \in Position, NEW t \in Position, s <= t, t < s + OneLap
  PROVE  Turn(Index(t), s) = t
  <1>1. s \in Nat /\ t \in Nat /\ Index(t) \in Slots
    BY SlotOfPosition
  <1> DEFINE u == Turn(Index(t), s)
  <1>2. u \in Nat /\ Index(u) = Index(t) /\ s <= u /\ u < s + OneLap
    BY <1>1, TurnFacts DEF Position
  <1> HIDE DEF u
  <1>3. ~ (u < t)
    BY <1>1, <1>2, SameSlot, Sizes
  <1>4. ~ (t < u)
    BY <1>1, <1>2, SameSlot, Sizes
  <1>5. u = t
    BY <1>1, <1>2, <1>3, <1>4
  <1> QED  BY <1>5 DEF u

(* When the head moves on, only the slot that it leaves gets another turn. *)
LEMMA TurnSucc ==
  ASSUME NEW s \in Position, NEW i \in Slots
  PROVE  /\ Turn(Index(s), Succ(s)) = s + OneLap
         /\ i # Index(s) => Turn(i, Succ(s)) = Turn(i, s)
  <1>1. /\ s \in Nat /\ Succ(s) \in Position /\ Succ(s) \in Nat
        /\ s < Succ(s) /\ Succ(s) <= s + OneLap
    BY SuccFacts DEF Position
  <1>2. s + OneLap \in Position /\ Index(s + OneLap) = Index(s)
    BY <1>1, NextLap, Sizes DEF Position
  <1>3. Turn(Index(s), Succ(s)) = s + OneLap
    BY <1>1, <1>2, TurnUnique, Sizes
  <1>4. ASSUME i # Index(s)
        PROVE  Turn(i, Succ(s)) = Turn(i, s)
    <2> DEFINE u == Turn(i, s)
    <2>1. /\ u \in Position /\ u \in Nat /\ Index(u) = i
          /\ s <= u /\ u < s + OneLap
      BY TurnFacts DEF Position
    <2> HIDE DEF u
    <2>2. s < u
      BY <1>1, <1>4, <2>1
    <2>3. Succ(s) <= u
      BY <2>1, <2>2, SuccFacts
    <2>4. Turn(Index(u), Succ(s)) = u
      BY <1>1, <2>1, <2>3, TurnUnique, Sizes
    <2> QED  BY <2>1, <2>4 DEF u
  <1> QED  BY <1>3, <1>4

-----------------------------------------------------------------------------
(* The size of the queue *)

(* The tail is in the lap of the head or in the next. *)
LEMMA TailLap ==
  ASSUME NEW h \in Position, NEW t \in Position, h <= t, t <= h + OneLap
  PROVE  \/ Lap(t) = Lap(h) /\ Index(h) <= Index(t)
         \/ Lap(t) = Lap(h) + OneLap /\ Index(t) <= Index(h)
  <1>1. /\ h \in Nat /\ Index(h) < Capacity
        /\ Index(h) \in Nat /\ Lap(h) \in Nat /\ Lap(h) + Index(h) = h
    BY IndexFacts DEF Position
  <1>2. /\ t \in Nat /\ Index(t) < Capacity
        /\ Index(t) \in Nat /\ Lap(t) \in Nat /\ Lap(t) + Index(t) = t
    BY IndexFacts DEF Position
  <1>3. Lap(h) <= Lap(t)
    BY <1>1, <1>2, LapsApart, Sizes
  <1>4. CASE Lap(t) = Lap(h)
    BY <1>1, <1>2, <1>4
  <1>5. CASE Lap(h) < Lap(t)
    <2>1. h + OneLap \in Nat /\ Lap(h + OneLap) = Lap(h) + OneLap
      BY <1>1, NextLap, Sizes
    <2>2. Lap(h) + OneLap <= Lap(t)
      BY <1>1, <1>2, <1>5, LapsApart
    <2>3. ~ (Lap(h + OneLap) < Lap(t))
      <3>1. SUFFICES ASSUME Lap(h + OneLap) < Lap(t) PROVE FALSE
        OBVIOUS
      <3>2. Lap(h + OneLap) + OneLap <= Lap(t)
        BY <1>2, <2>1, <3>1, LapsApart
      <3> QED  BY <1>1, <1>2, <2>1, <3>2, Sizes
    <2> QED  BY <1>1, <1>2, <2>1, <2>2, <2>3, Sizes
  <1> QED  BY <1>1, <1>2, <1>3, <1>4, <1>5

(* queue_size!(head, tail) in terms of the laps. *)
LEMMA SizeByLap ==
  ASSUME NEW h \in Position, NEW t \in Position, h <= t, t <= h + OneLap
  PROVE  QueueSize(h, t) = IF Lap(t) = Lap(h) THEN Index(t) - Index(h)
                                              ELSE Capacity + Index(t) - Index(h)
  <1>1. /\ h \in Nat /\ Index(h) < Capacity
        /\ Index(h) \in Nat /\ Lap(h) \in Nat /\ Lap(h) + Index(h) = h
    BY IndexFacts DEF Position
  <1>2. /\ t \in Nat /\ Index(t) < Capacity
        /\ Index(t) \in Nat /\ Lap(t) \in Nat /\ Lap(t) + Index(t) = t
    BY IndexFacts DEF Position
  <1>3. CASE Lap(t) = Lap(h) /\ Index(h) <= Index(t)
    BY <1>1, <1>2, <1>3, Sizes DEF QueueSize
  <1>4. CASE Lap(t) = Lap(h) + OneLap /\ Index(t) <= Index(h)
    BY <1>1, <1>2, <1>4, Sizes DEF QueueSize
  <1> QED  BY <1>3, <1>4, TailLap

(* The size is a number of slots; it is 0 exactly when the head has caught *)
(* up with the tail, and Capacity exactly when the tail is a lap ahead.    *)
LEMMA SizeFacts ==
  ASSUME NEW h \in Position, NEW t \in Position, h <= t, t <= h + OneLap
  PROVE  /\ QueueSize(h, t) \in 0 .. Capacity
         /\ QueueSize(h, t) = 0 <=> t = h
         /\ QueueSize(h, t) = Capacity <=> t = h + OneLap
  <1>1. /\ h \in Nat /\ Index(h) < Capacity
        /\ Index(h) \in Nat /\ Lap(h) \in Nat /\ Lap(h) + Index(h) = h
    BY IndexFacts DEF Position
  <1>2. /\ t \in Nat /\ Index(t) < Capacity
        /\ Index(t) \in Nat /\ Lap(t) \in Nat /\ Lap(t) + Index(t) = t
    BY IndexFacts DEF Position
  <1>3. CASE Lap(t) = Lap(h) /\ Index(h) <= Index(t)
    <2>1. QueueSize(h, t) = Index(t) - Index(h)
      BY <1>3, SizeByLap
    <2> QED  BY <1>1, <1>2, <1>3, <2>1, Sizes
  <1>4. CASE Lap(t) = Lap(h) + OneLap /\ Index(t) <= Index(h)
    <2>1. QueueSize(h, t) = Capacity + Index(t) - Index(h)
      BY <1>1, <1>4, SizeByLap, Sizes
    <2> QED  BY <1>1, <1>2, <1>4, <2>1, Sizes
  <1> QED  BY <1>3, <1>4, TailLap

(* A head that is further on leaves fewer values. *)
LEMMA SizeAntitone ==
  ASSUME NEW a \in Position, NEW h \in Position, NEW t \in Position,
         a <= h, h <= t, t <= a + OneLap
  PROVE  QueueSize(h, t) <= QueueSize(a, t)
  <1>1. /\ h \in Nat /\ Index(h) < Capacity
        /\ Index(h) \in Nat /\ Lap(h) \in Nat /\ Lap(h) + Index(h) = h
    BY IndexFacts DEF Position
  <1>2. /\ t \in Nat /\ Index(t) < Capacity
        /\ Index(t) \in Nat /\ Lap(t) \in Nat /\ Lap(t) + Index(t) = t
    BY IndexFacts DEF Position
  <1>3. /\ a \in Nat /\ Index(a) < Capacity
        /\ Index(a) \in Nat /\ Lap(a) \in Nat /\ Lap(a) + Index(a) = a
    BY IndexFacts DEF Position
  <1>4. a <= t /\ t <= h + OneLap /\ h <= a + OneLap
    BY <1>1, <1>2, <1>3, Sizes
  <1>5. /\ \/ Lap(t) = Lap(h) /\ Index(h) <= Index(t)
           \/ Lap(t) = Lap(h) + OneLap /\ Index(t) <= Index(h)
        /\ \/ Lap(t) = Lap(a) /\ Index(a) <= Index(t)
           \/ Lap(t) = Lap(a) + OneLap /\ Index(t) <= Index(a)
        /\ \/ Lap(h) = Lap(a) /\ Index(a) <= Index(h)
           \/ Lap(h) = Lap(a) + OneLap /\ Index(h) <= Index(a)
    BY <1>4, TailLap
  <1>6. /\ QueueSize(h, t) = IF Lap(t) = Lap(h) THEN Index(t) - Index(h)
                                                ELSE Capacity + Index(t) - Index(h)
        /\ QueueSize(a, t) = IF Lap(t) = Lap(a) THEN Index(t) - Index(a)
                                                ELSE Capacity + Index(t) - Index(a)
    BY <1>4, SizeByLap
  <1> QED  BY <1>1, <1>2, <1>3, <1>5, <1>6, Sizes

(* Succ stays in the lap until the last slot. *)
LEMMA SuccIndex ==
  ASSUME NEW s \in Position
  PROVE  \/ Lap(Succ(s)) = Lap(s) /\ Index(Succ(s)) = Index(s) + 1
         \/ /\ Lap(Succ(s)) = Lap(s) + OneLap /\ Index(Succ(s)) = 0
            /\ Index(s) = Capacity - 1
  <1>1. /\ s \in Nat /\ Index(s) < Capacity
        /\ Index(s) \in Nat /\ Lap(s) \in Nat /\ Lap(s) + Index(s) = s
    BY IndexFacts DEF Position
  <1>2. CASE Index(s) + 1 < Capacity
    <2>1. Succ(s) = Lap(s) + (Index(s) + 1)
      BY <1>1, <1>2 DEF Succ
    <2> QED  BY <1>1, <1>2, <2>1, IndexOfLap, Sizes
  <1>3. CASE Index(s) + 1 >= Capacity
    <2>1. Succ(s) = Lap(s) + OneLap + 0 /\ Index(s) = Capacity - 1
      BY <1>1, <1>3, Sizes DEF Succ
    <2>2. Index(Lap(s) + OneLap + 0) = 0 /\ Lap(Lap(s) + OneLap + 0) = Lap(s) + OneLap
      BY <1>1, IndexOfLap, Sizes
    <2> QED  BY <2>1, <2>2
  <1> QED  BY <1>1, <1>2, <1>3, Sizes

(* Moving the tail on adds one value. *)
LEMMA SizeSuccTail ==
  ASSUME NEW h \in Position, NEW t \in Position, h <= t, t < h + OneLap
  PROVE  /\ Succ(t) <= h + OneLap
         /\ QueueSize(h, Succ(t)) = QueueSize(h, t) + 1
  <1>1. /\ h \in Nat /\ Index(h) < Capacity
        /\ Index(h) \in Nat /\ Lap(h) \in Nat /\ Lap(h) + Index(h) = h
    BY IndexFacts DEF Position
  <1>2. /\ t \in Nat /\ Index(t) < Capacity
        /\ Index(t) \in Nat /\ Lap(t) \in Nat /\ Lap(t) + Index(t) = t
    BY IndexFacts DEF Position
  <1>3. Succ(t) \in Position /\ Succ(t) \in Nat /\ t < Succ(t) /\ h + OneLap \in Position
    BY <1>1, SuccFacts, NextLap, Sizes DEF Position
  <1>4. Succ(t) <= h + OneLap
    BY <1>3, SuccFacts
  <1>5. \/ Lap(Succ(t)) = Lap(t) /\ Index(Succ(t)) = Index(t) + 1
        \/ /\ Lap(Succ(t)) = Lap(t) + OneLap /\ Index(Succ(t)) = 0
           /\ Index(t) = Capacity - 1
    BY SuccIndex
  <1>6. h <= Succ(t) /\ t <= h + OneLap
    BY <1>1, <1>2, <1>3, Sizes
  <1>7. /\ QueueSize(h, t) = IF Lap(t) = Lap(h) THEN Index(t) - Index(h)
                                                ELSE Capacity + Index(t) - Index(h)
        /\ QueueSize(h, Succ(t)) = IF Lap(Succ(t)) = Lap(h)
                                   THEN Index(Succ(t)) - Index(h)
                                   ELSE Capacity + Index(Succ(t)) - Index(h)
    BY <1>3, <1>4, <1>6, SizeByLap
  <1>8. /\ \/ Lap(t) = Lap(h) /\ Index(h) <= Index(t)
           \/ Lap(t) = Lap(h) + OneLap /\ Index(t) <= Index(h)
        /\ \/ Lap(Succ(t)) = Lap(h) /\ Index(h) <= Index(Succ(t))
           \/ Lap(Succ(t)) = Lap(h) + OneLap /\ Index(Succ(t)) <= Index(h)
    BY <1>3, <1>4, <1>6, TailLap
  <1> QED  BY <1>1, <1>2, <1>4, <1>5, <1>7, <1>8, Sizes

(* Moving the head on removes one value. *)
LEMMA SizeSuccHead ==
  ASSUME NEW h \in Position, NEW t \in Position, h < t, t <= h + OneLap
  PROVE  /\ Succ(h) <= t /\ t <= Succ(h) + OneLap
         /\ QueueSize(Succ(h), t) = QueueSize(h, t) - 1
  <1>1. /\ h \in Nat /\ t \in Nat
        /\ Succ(h) \in Position /\ Succ(h) \in Nat /\ h < Succ(h) /\ Succ(h) <= t
    BY SuccFacts DEF Position
  <1>2. h <= t /\ t <= Succ(h) + OneLap
    BY <1>1, Sizes
  <1>3. /\ Index(h) \in Nat /\ Lap(h) \in Nat
        /\ Index(t) \in Nat /\ Lap(t) \in Nat /\ Index(t) < Capacity
    BY <1>1, IndexFacts DEF Position
  <1>4. \/ Lap(Succ(h)) = Lap(h) /\ Index(Succ(h)) = Index(h) + 1
        \/ /\ Lap(Succ(h)) = Lap(h) + OneLap /\ Index(Succ(h)) = 0
           /\ Index(h) = Capacity - 1
    BY SuccIndex
  <1>5. /\ QueueSize(h, t) = IF Lap(t) = Lap(h) THEN Index(t) - Index(h)
                                                ELSE Capacity + Index(t) - Index(h)
        /\ QueueSize(Succ(h), t) = IF Lap(t) = Lap(Succ(h))
                                   THEN Index(t) - Index(Succ(h))
                                   ELSE Capacity + Index(t) - Index(Succ(h))
    BY <1>1, <1>2, SizeByLap
  <1>6. /\ \/ Lap(t) = Lap(h) /\ Index(h) <= Index(t)
           \/ Lap(t) = Lap(h) + OneLap /\ Index(t) <= Index(h)
        /\ \/ Lap(t) = Lap(Succ(h)) /\ Index(Succ(h)) <= Index(t)
           \/ Lap(t) = Lap(Succ(h)) + OneLap /\ Index(t) <= Index(Succ(h))
    BY <1>1, <1>2, TailLap
  <1> QED  BY <1>1, <1>2, <1>3, <1>4, <1>5, <1>6, Sizes

-----------------------------------------------------------------------------
(* Type correctness *)

LEMMA ZeroPosition == 0 \in Position
  <1>1. 0 % OneLap = 0
    BY Sizes
  <1> QED  BY <1>1, Sizes DEF Position, Index

(* A load returns a position that is no further on than the current one. *)
LEMMA OldFacts ==
  ASSUME NEW s \in Position, NEW o \in Old(s)
  PROVE  o \in Position /\ o <= s
  BY DEF Old, Position

LEMMA OldStampFacts ==
  ASSUME NEW i, stamp[i] \in Nat, NEW o \in OldStamp(i)
  PROVE  o \in Nat /\ o <= stamp[i]
  BY DEF OldStamp

(* What the types say of thread p and the slot that it is at. *)
LEMMA AtFacts ==
  ASSUME TypeOK, NEW p \in Proc
  PROVE  /\ pos[p] \in Position /\ pos[p] \in Nat
         /\ At(p) \in Slots /\ At(p) = Index(pos[p]) /\ stamp[At(p)] \in Nat
         /\ head \in Position /\ tail \in Position /\ head \in Nat /\ tail \in Nat
  <1>1. pos[p] \in Position /\ pos[p] \in Nat
    BY DEF TypeOK, Position
  <1>2. At(p) = Index(pos[p]) /\ At(p) \in Slots
    BY <1>1, SlotOfPosition DEF At
  <1> QED  BY <1>1, <1>2 DEF TypeOK, Position

(* Leaving a function keeps the types (the locals are reset). *)
LEMMA ReturnType ==
  ASSUME TypeOK, NEW p \in Proc, Return(p), UNCHANGED <<head, tail, slot, got>>,
         stamp' \in [Slots -> Nat]
  PROVE  TypeOK'
  BY ZeroPosition DEF TypeOK, Return, Goto, Remember, PCs

(* So does a step to l that loads a position s. *)
LEMMA LoadType ==
  ASSUME TypeOK, NEW p \in Proc, NEW l \in PCs, NEW s \in Position, Load(p, s, l),
         UNCHANGED <<queueVars, got>>
  PROVE  TypeOK'
  BY DEF TypeOK, Load, Goto, Remember, queueVars

LEMMA StepType ==
  ASSUME TypeOK, NEW p \in Proc, NEW l \in PCs, Step(p, l),
         head' \in Position, tail' \in Position,
         stamp' \in [Slots -> Nat],
         slot' \in [Slots -> Proc \cup {NoValue}],
         got' \in [Proc -> Proc \cup {NoValue}]
  PROVE  TypeOK'
  BY DEF TypeOK, Step, Goto

(* A step of thread p: the start of a call, or a step within one. *)
StepOf(p) == (\E f \in Api : Start(p, f)) \/ Running(p)

(* Every function of the queue keeps all state in its type: no head, tail  *)
(* or local position ever points behind the buffer.                        *)
LEMMA StepOfType ==
  ASSUME TypeOK, NEW p \in Proc, StepOf(p), calls' \in 0 .. MaxCalls
  PROVE  TypeOK'
  <1>2. ASSUME NEW f \in Api, Start(p, f)
        PROVE  TypeOK'
    BY <1>2, ArrayQueueAssumption DEF TypeOK, Start, Goto, queueVars, PCs
  <1>3. ASSUME Running(p)
        PROVE  TypeOK'
    <2> DEFINE i == At(p)
    <2>1. /\ pos[p] \in Position /\ pos[p] \in Nat /\ i \in Slots /\ stamp[i] \in Nat
          /\ head \in Position /\ tail \in Position
      BY AtFacts
    <2>2. Succ(head) \in Position /\ Succ(tail) \in Position /\ Succ(pos[p]) \in Position
      BY <2>1, SuccFacts
    <2>3. CASE LoadTail(p)
      BY <2>1, <2>3, LoadType, OldFacts DEF LoadTail, PCs
    <2>4. CASE LoadStamp(p)
      BY <2>1, <2>4, StepType DEF LoadStamp, PCs, TypeOK, queueVars
    <2>5. CASE PushCas(p)
      <3>1. CASE tail' = Succ(tail) /\ Step(p, "write")
        BY <2>2, <2>5, <3>1, StepType DEF PushCas, PCs, TypeOK
      <3>2. CASE UNCHANGED tail /\ \E t \in Old(tail) : Load(p, t, "stamp")
        BY <2>1, <2>5, <3>2, LoadType, OldFacts DEF PushCas, PCs, queueVars
      <3> QED  BY <2>5, <3>1, <3>2 DEF PushCas
    <2>6. CASE WriteSlot(p)
      BY <2>1, <2>6, StepType DEF WriteSlot, PCs, TypeOK
    <2>7. CASE Publish(p)
      BY <2>1, <2>7, ReturnType DEF Publish, TypeOK
    <2>8. CASE PushFull(p)
      BY <2>8, ReturnType DEF PushFull, TypeOK, queueVars
    <2>9. CASE PushNotFull(p)
      BY <2>9, StepType DEF PushNotFull, PCs, TypeOK, queueVars
    <2>10. CASE Evict(p)
      <3>1. CASE head = pos[p] - OneLap /\ head' = Succ(pos[p]) - OneLap
                 /\ Step(p, "move_tail")
        <4>1. pos[p] = head + OneLap
          BY <2>1, <3>1, Sizes DEF Position
        <4>2. head' = Succ(head)
          BY <2>1, <2>2, <3>1, <4>1, SuccFacts, Sizes DEF Position
        <4> QED  BY <2>2, <2>10, <3>1, <4>2, StepType DEF Evict, PCs, TypeOK
      <3>2. CASE UNCHANGED head /\ Step(p, "tail")
        BY <2>10, <3>2, StepType DEF Evict, PCs, TypeOK
      <3> QED  BY <2>10, <3>1, <3>2 DEF Evict
    <2>11. CASE MoveTail(p)
      BY <2>2, <2>11, StepType DEF MoveTail, PCs, TypeOK
    <2>12. CASE Swap(p)
      BY <2>1, <2>12, StepType DEF Swap, PCs, TypeOK
    <2>13. CASE LoadHead(p)
      BY <2>1, <2>13, LoadType, OldFacts DEF LoadHead, PCs
    <2>14. CASE LookAtStamp(p)
      BY <2>1, <2>14, StepType DEF LookAtStamp, PCs, TypeOK, queueVars
    <2>15. CASE PopCas(p)
      <3>1. CASE head' = Succ(head) /\ Step(p, "read")
        BY <2>2, <2>15, <3>1, StepType DEF PopCas, PCs, TypeOK
      <3>2. CASE UNCHANGED head /\ \E t \in Old(head) : Load(p, t, "look")
        BY <2>1, <2>15, <3>2, LoadType, OldFacts DEF PopCas, PCs, queueVars
      <3> QED  BY <2>15, <3>1, <3>2 DEF PopCas
    <2>16. CASE ReadSlot(p)
      BY <2>1, <2>16, StepType DEF ReadSlot, PCs, TypeOK
    <2>17. CASE FreeSlot(p)
      BY <2>1, <2>17, ReturnType, Sizes DEF FreeSlot, TypeOK
    <2>18. CASE PopEmpty(p) \/ IsEmpty(p) \/ IsFull(p) \/ LenReturns(p)
      BY <2>18, ReturnType DEF PopEmpty, IsEmpty, IsFull, LenReturns, TypeOK, queueVars
    <2>19. CASE PopNotEmpty(p) \/ LenRetries(p)
      BY <2>19, StepType DEF PopNotEmpty, LenRetries, PCs, TypeOK, queueVars
    <2>20. CASE Observe(p)
      BY <2>1, <2>20, LoadType DEF Observe, PCs
    <2>21. CASE LenHead(p)
      BY <2>1, <2>21 DEF LenHead, TypeOK, Goto, PCs, queueVars
    <2> QED
      BY <1>3, <2>3, <2>4, <2>5, <2>6, <2>7, <2>8, <2>9, <2>10, <2>11, <2>12, <2>13,
         <2>14, <2>15, <2>16, <2>17, <2>18, <2>19, <2>20, <2>21 DEF Running
  <1> QED  BY <1>2, <1>3 DEF StepOf

(* A step of the queue is a step of one of its threads. *)
LEMMA NextIsStep ==
  ASSUME TypeOK, Next
  PROVE  \E p \in Proc : StepOf(p) /\ calls' \in 0 .. MaxCalls
  <1>1. ASSUME NEW p \in Proc, NEW f \in Api, Call(p, f)
        PROVE  StepOf(p) /\ calls' \in 0 .. MaxCalls
    BY <1>1, ArrayQueueAssumption DEF Call, StepOf, TypeOK
  <1>2. ASSUME NEW p \in Proc, Running(p)
        PROVE  StepOf(p) /\ calls' \in 0 .. MaxCalls
    <2>1. calls' = calls
      BY <1>2 DEF Running, LoadTail, LoadStamp, PushCas, WriteSlot, Publish, PushFull,
         PushNotFull, Evict, MoveTail, Swap, LoadHead, LookAtStamp, PopCas, ReadSlot,
         FreeSlot, PopEmpty, PopNotEmpty, Observe, IsEmpty, IsFull, LenHead,
         LenReturns, LenRetries, Load, Step, Return
    <2> QED  BY <1>2, <2>1 DEF StepOf, TypeOK
  <1> QED  BY <1>1, <1>2 DEF Next

LEMMA TypeStep == TypeOK /\ [Next]_vars => TypeOK'
  <1>1. ASSUME TypeOK, UNCHANGED vars
        PROVE  TypeOK'
    BY <1>1 DEF TypeOK, vars
  <1> QED  BY <1>1, StepOfType, NextIsStep

LEMMA TypeInit == Init => TypeOK
  BY ZeroPosition, ArrayQueueAssumption, Sizes DEF Init, TypeOK, Slots, PCs

(* The queue never leaves its types. *)
THEOREM QueueTypeCorrect == Spec => []TypeOK
  BY TypeInit, TypeStep, PTL DEF Spec

-----------------------------------------------------------------------------
(* Who may take a slot *)

(* The stamp that push waits for says that the slot of the tail is nobody's *)
(* and empty, and that the queue has room (array_queue.rs:214).            *)
LEMMA TailSlotFree ==
  ASSUME TypeOK, SlotsInv, stamp[Index(tail)] >= tail
  PROVE  /\ Index(tail) \in Slots
         /\ \A q \in Holders : At(q) # Index(tail)
         /\ tail < head + OneLap
         /\ stamp[Index(tail)] = tail /\ slot[Index(tail)] = NoValue
  <1> DEFINE i == Index(tail)
             u == Turn(i, head)
  <1>1. /\ head \in Position /\ tail \in Position /\ head \in Nat /\ tail \in Nat
        /\ i \in Slots /\ stamp[i] \in Nat
    <2>1. head \in Position /\ tail \in Position /\ head \in Nat /\ tail \in Nat
      BY DEF TypeOK, Position
    <2>2. i \in Slots
      BY <2>1, SlotOfPosition
    <2> QED  BY <2>1, <2>2 DEF TypeOK
  <1>2. head <= tail /\ tail <= head + OneLap
    BY DEF SlotsInv, WithinALap
  <1>3. ASSUME NEW q \in Holders, At(q) = i
        PROVE  FALSE
    <2>1. q \in Proc /\ pc[q] \in Holding /\ HeldPosition(q) /\ HeldSlot(q)
      BY DEF Holders, SlotsInv, Holding
    <2>2. pos[q] \in Nat /\ Index(pos[q]) = Index(tail)
      BY <1>3, <2>1, AtFacts
    <2>3. stamp[At(q)] = stamp[i] /\ stamp[i] >= tail
      BY <1>3
    <2>4. CASE pc[q] \in {"write", "publish", "swap"}
      BY <1>1, <2>1, <2>2, <2>3, <2>4, Sizes DEF HeldPosition, HeldSlot
    <2>5. CASE pc[q] = "move_tail"
      BY <1>1, <2>1, <2>2, <2>3, <2>5, Sizes DEF HeldPosition, HeldSlot
    <2>6. CASE pc[q] \in {"read", "free"}
      <3>1. pos[q] < head /\ stamp[i] = pos[q] + 1
        BY <2>1, <2>3, <2>6 DEF HeldPosition, HeldSlot
      <3>2. pos[q] + OneLap <= tail
        BY <1>1, <1>2, <2>2, <3>1, SameSlot
      <3> QED  BY <1>1, <2>2, <2>3, <3>1, <3>2, Sizes
    <2> QED  BY <2>1, <2>4, <2>5, <2>6 DEF Holding
  <1>4. IdleSlot(i)
    BY <1>1, <1>3 DEF SlotsInv
  <1>5. /\ u \in Position /\ u \in Nat /\ Index(u) = i
        /\ head <= u /\ u < head + OneLap
    BY <1>1, TurnFacts DEF Position
  <1> HIDE DEF u
  <1>6. stamp[i] \in {u, u + 1}
    BY <1>4 DEF IdleSlot, u
  <1>7. ~ (u < tail)
    BY <1>1, <1>5, <1>6, SameSlot, Sizes
  <1>8. ~ (tail < u)
    BY <1>1, <1>2, <1>5, SameSlot, Sizes
  <1>9. u = tail
    BY <1>1, <1>5, <1>7, <1>8
  <1>10. stamp[i] = u /\ slot[i] = NoValue
    BY <1>4, <1>7 DEF IdleSlot, u
  <1> QED  BY <1>1, <1>3, <1>5, <1>9, <1>10

(* The stamp that pop and force_push wait for says that the slot of the    *)
(* head is nobody's and holds a value (array_queue.rs:276, :403).          *)
LEMMA HeadSlotFull ==
  ASSUME TypeOK, SlotsInv, stamp[Index(head)] > head
  PROVE  /\ Index(head) \in Slots
         /\ \A q \in Holders : At(q) # Index(head)
         /\ head < tail
         /\ stamp[Index(head)] = head + 1 /\ slot[Index(head)] \in Proc
  <1> DEFINE i == Index(head)
  <1>1. /\ head \in Position /\ tail \in Position /\ head \in Nat /\ tail \in Nat
        /\ i \in Slots /\ stamp[i] \in Nat
    <2>1. head \in Position /\ tail \in Position /\ head \in Nat /\ tail \in Nat
      BY DEF TypeOK, Position
    <2>2. i \in Slots
      BY <2>1, SlotOfPosition
    <2> QED  BY <2>1, <2>2 DEF TypeOK
  <1>2. head <= tail /\ tail <= head + OneLap
    BY DEF SlotsInv, WithinALap
  <1>3. ASSUME NEW q \in Holders, At(q) = i
        PROVE  FALSE
    <2>1. q \in Proc /\ pc[q] \in Holding /\ HeldPosition(q) /\ HeldSlot(q)
      BY DEF Holders, SlotsInv, Holding
    <2>2. pos[q] \in Nat /\ Index(pos[q]) = Index(head)
      BY <1>3, <2>1, AtFacts
    <2>3. stamp[At(q)] = stamp[i] /\ stamp[i] > head
      BY <1>3
    <2>4. CASE pc[q] \in {"write", "publish", "swap", "move_tail"}
      <3>1. pos[q] < head + OneLap /\ stamp[i] <= pos[q]
        BY <1>1, <1>2, <2>1, <2>2, <2>3, <2>4, Sizes DEF HeldPosition, HeldSlot
      <3>2. ~ (head < pos[q])
        BY <1>1, <2>2, <3>1, SameSlot, Sizes
      <3> QED  BY <1>1, <2>2, <2>3, <3>1, <3>2
    <2>5. CASE pc[q] \in {"read", "free"}
      BY <1>1, <2>1, <2>2, <2>3, <2>5 DEF HeldPosition, HeldSlot
    <2> QED  BY <2>1, <2>4, <2>5 DEF Holding
  <1>4. IdleSlot(i)
    BY <1>1, <1>3 DEF SlotsInv
  <1>5. Turn(i, head) = head
    BY <1>1, TurnFacts
  <1> QED  BY <1>1, <1>3, <1>4, <1>5 DEF IdleSlot

-----------------------------------------------------------------------------
(* What a step leaves alone *)

Keeps(q) == /\ pc'[q] = pc[q] /\ op'[q] = op[q] /\ pos'[q] = pos[q]
            /\ aux'[q] = aux[q] /\ got'[q] = got[q]

(* A thread changes no local of another. *)
LEMMA OthersKeep ==
  ASSUME TypeOK, NEW p \in Proc, StepOf(p), NEW q \in Proc, q # p
  PROVE  Keeps(q) /\ At(q)' = At(q)
  <1>1. Keeps(q)
    <2>1. CASE \E f \in Api : Start(p, f)
      BY <2>1 DEF Start, Goto, Keeps, TypeOK
    <2>2. CASE Running(p)
      BY <2>2 DEF Running, LoadTail, LoadStamp, PushCas, WriteSlot, Publish, PushFull,
           PushNotFull, Evict, MoveTail, Swap, LoadHead, LookAtStamp, PopCas, ReadSlot,
           FreeSlot, PopEmpty, PopNotEmpty, Observe, IsEmpty, IsFull, LenHead,
           LenReturns, LenRetries, Load, Step, Return, Goto, Remember, Keeps, TypeOK
    <2> QED  BY <2>1, <2>2 DEF StepOf
  <1> QED  BY <1>1 DEF Keeps, At

(* A slot that the step does not touch stays as its holder needs it. *)
LEMMA HeldKept ==
  ASSUME NEW q \in Proc, Keeps(q), At(q)' = At(q), HeldSlot(q),
         stamp'[At(q)] = stamp[At(q)], slot'[At(q)] = slot[At(q)]
  PROVE  HeldSlot(q)'
  BY DEF HeldSlot, Keeps

(* A step that touches neither the queue nor the holders keeps what is     *)
(* known of the slots.                                                     *)
LEMMA QuietSlots ==
  ASSUME TypeOK, SlotsInv, NEW p \in Proc, StepOf(p), UNCHANGED queueVars,
         pc[p] \notin Holding, pc'[p] \notin Holding
  PROVE  SlotsInv'
  <1>1. \A q \in Proc : q # p => Keeps(q) /\ At(q)' = At(q)
    BY OthersKeep
  <1>2. Holders' = Holders
    BY <1>1 DEF Holders, Keeps
  <1>3. \A q \in Holders : q \in Proc /\ Keeps(q) /\ At(q)' = At(q)
    BY <1>1 DEF Holders
  <1>4. WithinALap'
    BY DEF SlotsInv, WithinALap, queueVars
  <1>5. OneHolder'
    BY <1>2, <1>3 DEF SlotsInv, OneHolder
  <1>6. ASSUME NEW q \in Holders
        PROVE  HeldPosition(q)' /\ HeldSlot(q)'
    <2>1. HeldPosition(q) /\ HeldSlot(q)
      BY DEF SlotsInv
    <2>2. HeldSlot(q)'
      BY <1>3, <2>1, HeldKept DEF queueVars
    <2>3. HeldPosition(q)'
      BY <1>3, <2>1 DEF HeldPosition, Keeps, queueVars
    <2> QED  BY <2>2, <2>3
  <1>7. ASSUME NEW i \in Slots, \A q \in Holders' : At(q)' # i
        PROVE  IdleSlot(i)'
    <2>1. IdleSlot(i)
      BY <1>2, <1>3, <1>7 DEF SlotsInv
    <2> QED  BY <2>1 DEF IdleSlot, Turn, queueVars
  <1> QED  BY <1>2, <1>4, <1>5, <1>6, <1>7 DEF SlotsInv

(* Head, tail and stamps only grow, so what a thread has loaded stays old. *)
Grows == head <= head' /\ tail <= tail' /\ \A i \in Slots : stamp[i] <= stamp'[i]

LEMMA LocalsKept ==
  ASSUME TypeOK, TypeOK', NEW q \in Proc, Keeps(q), At(q)' = At(q), Grows, LocalsLag(q),
         EmptyHanded(q)
  PROVE  LocalsLag(q)' /\ EmptyHanded(q)'
  <1>1. /\ pos[q] \in Nat /\ aux[q] \in Nat /\ At(q) \in Slots
        /\ head \in Nat /\ tail \in Nat /\ head' \in Nat /\ tail' \in Nat
        /\ stamp[At(q)] \in Nat /\ stamp'[At(q)] \in Nat
        /\ head <= head' /\ tail <= tail' /\ stamp[At(q)] <= stamp'[At(q)]
    BY AtFacts DEF Grows, TypeOK, Position
  <1>2. EmptyHanded(q)'
    BY DEF EmptyHanded, Keeps
  <1> QED  BY <1>1, <1>2, Sizes DEF LocalsLag, Keeps

-----------------------------------------------------------------------------
(* The steps that take, use and give back a slot *)

Untouched(p) == \A q \in Holders \ {p} :
                  q \in Proc /\ Keeps(q) /\ At(q)' = At(q) /\ At(q) # At(p)

(* A thread takes a slot that nobody holds. *)
LEMMA TakeSlot ==
  ASSUME TypeOK, OneHolder, NEW p \in Proc, StepOf(p), pos'[p] = pos[p],
         pc[p] \notin Holding, pc'[p] \in Holding, \A q \in Holders : At(q) # At(p)
  PROVE  /\ Holders' = Holders \cup {p} /\ p \notin Holders
         /\ At(p)' = At(p) /\ Untouched(p) /\ OneHolder'
  <1>1. \A q \in Proc : q # p => Keeps(q) /\ At(q)' = At(q)
    BY OthersKeep
  <1>2. Holders' = Holders \cup {p} /\ p \notin Holders
    BY <1>1 DEF Holders, Keeps
  <1>3. At(p)' = At(p)
    BY DEF At
  <1>4. Untouched(p)
    BY <1>1 DEF Untouched, Holders
  <1>5. OneHolder'
    BY <1>2, <1>3, <1>4 DEF OneHolder, Untouched
  <1> QED  BY <1>2, <1>3, <1>4, <1>5

(* A thread uses the slot that it holds. *)
LEMMA UseSlot ==
  ASSUME TypeOK, OneHolder, NEW p \in Proc, StepOf(p), pos'[p] = pos[p],
         pc[p] \in Holding, pc'[p] \in Holding
  PROVE  /\ Holders' = Holders /\ p \in Holders
         /\ At(p)' = At(p) /\ Untouched(p) /\ OneHolder'
  <1>1. \A q \in Proc : q # p => Keeps(q) /\ At(q)' = At(q)
    BY OthersKeep
  <1>2. Holders' = Holders /\ p \in Holders
    BY <1>1 DEF Holders, Keeps
  <1>3. At(p)' = At(p)
    BY DEF At
  <1>4. Untouched(p)
    BY <1>1, <1>2 DEF Untouched, Holders, OneHolder
  <1>5. OneHolder'
    BY <1>2, <1>3, <1>4 DEF OneHolder, Untouched
  <1> QED  BY <1>2, <1>3, <1>4, <1>5

(* A thread gives back the slot that it holds. *)
LEMMA GiveSlot ==
  ASSUME TypeOK, OneHolder, NEW p \in Proc, StepOf(p),
         pc[p] \in Holding, pc'[p] \notin Holding
  PROVE  Holders' = Holders \ {p} /\ p \in Holders /\ Untouched(p) /\ OneHolder'
  <1>1. \A q \in Proc : q # p => Keeps(q) /\ At(q)' = At(q)
    BY OthersKeep
  <1>2. Holders' = Holders \ {p} /\ p \in Holders
    BY <1>1 DEF Holders, Keeps
  <1>3. Untouched(p)
    BY <1>1, <1>2 DEF Untouched, Holders, OneHolder
  <1>4. OneHolder'
    BY <1>2, <1>3 DEF OneHolder, Untouched
  <1> QED  BY <1>2, <1>3, <1>4

(* The tail moves past the slot of thread p, which nobody else holds. *)
LEMMA TailMoves ==
  ASSUME TypeOK, TypeOK', SlotsInv, NEW p \in Proc, At(p) = Index(tail),
         tail < head + OneLap, tail' = Succ(tail), UNCHANGED <<head, stamp, slot>>,
         Holders' = Holders \cup {p}, At(p)' = At(p), Untouched(p), OneHolder',
         HeldPosition(p)', HeldSlot(p)'
  PROVE  SlotsInv' /\ Grows
  <1> DEFINE i == Index(tail)
  <1>1. /\ head \in Position /\ tail \in Position /\ head \in Nat /\ tail \in Nat
        /\ Succ(tail) \in Position /\ Succ(tail) \in Nat /\ tail < Succ(tail)
        /\ \A t \in Position : tail < t => Succ(tail) <= t
    BY SuccFacts DEF TypeOK, Position
  <1>2. WithinALap'
    <2>1. head <= tail
      BY DEF SlotsInv, WithinALap
    <2>2. head + OneLap \in Position
      BY <1>1, NextLap, Sizes DEF Position
    <2> QED  BY <1>1, <2>1, <2>2, Sizes DEF WithinALap
  <1>3. ASSUME NEW q \in Holders \ {p}
        PROVE  HeldPosition(q)' /\ HeldSlot(q)'
    <2>1. /\ q \in Proc /\ Keeps(q) /\ At(q)' = At(q) /\ At(q) # i
          /\ HeldPosition(q) /\ HeldSlot(q)
      BY DEF Untouched, SlotsInv
    <2>2. pos[q] \in Nat /\ pos[q] + OneLap \in Position /\ Index(pos[q] + OneLap) # i
      BY <2>1, AtFacts, NextLap, Sizes DEF Position
    <2>3. tail # pos[q] /\ tail # pos[q] + OneLap
      BY <2>1, <2>2, AtFacts
    <2>4. HeldPosition(q)'
      BY <1>1, <2>1, <2>2, <2>3, Sizes DEF HeldPosition, Keeps
    <2> QED  BY <2>1, <2>4, HeldKept
  <1>4. ASSUME NEW j \in Slots, \A q \in Holders' : At(q)' # j
        PROVE  IdleSlot(j)'
    <2>1. j # i /\ IdleSlot(j)
      BY <1>4 DEF Untouched, SlotsInv
    <2>2. Turn(j, head) \in Position /\ Turn(j, head) \in Nat /\ Turn(j, head) # tail
      BY <1>1, <2>1, TurnFacts DEF Position
    <2>3. Turn(j, head) < tail <=> Turn(j, head) < tail'
      BY <1>1, <2>2
    <2> QED  BY <2>1, <2>3 DEF IdleSlot, Turn
  <1>5. Grows
    BY <1>1 DEF Grows, TypeOK
  <1> QED  BY <1>2, <1>3, <1>4, <1>5 DEF SlotsInv

(* push claims the slot of the tail. *)
LEMMA PushClaims ==
  ASSUME TypeOK, TypeOK', StampInv, NEW p \in Proc, PushCas(p), tail = pos[p],
         tail' = Succ(tail), Step(p, "write")
  PROVE  SlotsInv' /\ Grows
  <1> DEFINE i == Index(tail)
  <1>1. /\ pc[p] = "push_cas" /\ pc'[p] = "write"
        /\ UNCHANGED <<pos, head, stamp, slot>> /\ At(p) = i
    BY DEF PushCas, Step, Goto, At, TypeOK
  <1>2. stamp[i] >= tail
    BY <1>1 DEF StampInv, LocalsInv, LocalsLag
  <1>3. /\ i \in Slots /\ \A q \in Holders : At(q) # i
        /\ tail < head + OneLap /\ stamp[i] = tail /\ slot[i] = NoValue
    BY <1>2, TailSlotFree DEF StampInv
  <1>4. StepOf(p)
    BY DEF StepOf, Running
  <1>5. Holders' = Holders \cup {p} /\ At(p)' = At(p) /\ Untouched(p) /\ OneHolder'
    BY <1>1, <1>3, <1>4, TakeSlot DEF Holding, StampInv, SlotsInv
  <1>6. head <= tail /\ tail < tail'
    BY SuccFacts DEF TypeOK, StampInv, SlotsInv, WithinALap
  <1>7. HeldPosition(p)' /\ HeldSlot(p)'
    BY <1>1, <1>3, <1>5, <1>6 DEF HeldPosition, HeldSlot
  <1> QED  BY <1>1, <1>3, <1>5, <1>7, TailMoves DEF StampInv

(* pop and force_push claim the slot of the head: pop at the head itself,  *)
(* force_push at the tail that is a lap ahead.                             *)
LEMMA HeadClaimed ==
  ASSUME TypeOK, TypeOK', StampInv, NEW p \in Proc, StepOf(p), NEW l \in {"read", "move_tail"},
         stamp[Index(head)] > head, head' = Succ(head), UNCHANGED <<tail, stamp, slot>>,
         pc[p] \notin Holding, Step(p, l),
         l = "read" => pos[p] = head,
         l = "move_tail" => pos[p] = head + OneLap /\ pos[p] = tail
  PROVE  SlotsInv' /\ Grows
  <1> DEFINE i == Index(head)
  <1>1. /\ pc' = [pc EXCEPT ![p] = l] /\ pc'[p] = l /\ UNCHANGED pos
        /\ pc'[p] \in Holding
    BY DEF Step, Goto, Holding, TypeOK
  <1>2. /\ head \in Position /\ tail \in Position /\ head \in Nat /\ tail \in Nat
        /\ Succ(head) \in Position /\ Succ(head) \in Nat /\ head < Succ(head)
        /\ \A t \in Position : head < t => Succ(head) <= t
    BY SuccFacts DEF TypeOK, Position
  <1>3. At(p) = i
    BY <1>2, NextLap DEF At
  <1>4. /\ i \in Slots /\ \A q \in Holders : At(q) # i
        /\ head < tail /\ stamp[i] = head + 1 /\ slot[i] \in Proc
    BY HeadSlotFull DEF StampInv
  <1>5. /\ Holders' = Holders \cup {p} /\ p \notin Holders
        /\ At(p)' = At(p) /\ Untouched(p) /\ OneHolder'
    BY <1>1, <1>3, <1>4, TakeSlot DEF StampInv, SlotsInv
  <1>6. head <= tail /\ tail <= head + OneLap
    BY DEF StampInv, SlotsInv, WithinALap
  <1>7. WithinALap'
    BY <1>2, <1>4, <1>6, Sizes DEF WithinALap
  <1>8. HeldPosition(p)' /\ HeldSlot(p)'
    <2>1. pos'[p] = pos[p] /\ stamp'[At(p)'] = head + 1 /\ slot'[At(p)'] \in Proc
      BY <1>1, <1>3, <1>4, <1>5
    <2> QED  BY <1>1, <1>2, <1>6, <2>1, Sizes DEF HeldPosition, HeldSlot
  <1>9. ASSUME NEW q \in Holders
        PROVE  HeldPosition(q)' /\ HeldSlot(q)'
    <2>1. /\ q \in Proc /\ Keeps(q) /\ At(q)' = At(q) /\ At(q) # i
          /\ HeldPosition(q) /\ HeldSlot(q)
      BY <1>3, <1>5 DEF Untouched, StampInv, SlotsInv
    <2>2. pos[q] \in Position /\ pos[q] \in Nat /\ pos[q] # head
      BY <2>1, AtFacts
    <2>3. HeldPosition(q)'
      BY <1>2, <2>1, <2>2, Sizes DEF HeldPosition, Keeps
    <2> QED  BY <2>1, <2>3, HeldKept
  <1>10. ASSUME NEW j \in Slots, \A q \in Holders' : At(q)' # j
         PROVE  IdleSlot(j)'
    <2>1. j # i /\ IdleSlot(j)
      BY <1>3, <1>5, <1>10 DEF Untouched, StampInv, SlotsInv
    <2>2. Turn(j, head') = Turn(j, head)
      BY <1>2, <2>1, TurnSucc
    <2>3. Turn(j, head)' = Turn(j, head')
      BY DEF Turn, Lap, Index
    <2> QED  BY <2>1, <2>2, <2>3 DEF IdleSlot
  <1>11. Grows
    BY <1>2 DEF Grows, TypeOK
  <1> QED  BY <1>5, <1>7, <1>8, <1>9, <1>10, <1>11 DEF SlotsInv

LEMMA PopClaims ==
  ASSUME TypeOK, TypeOK', StampInv, NEW p \in Proc, PopCas(p), head = pos[p],
         head' = Succ(head), Step(p, "read")
  PROVE  SlotsInv' /\ Grows
  <1>1. pc[p] = "pop_cas" /\ UNCHANGED <<tail, stamp, slot>> /\ StepOf(p)
    BY DEF PopCas, StepOf, Running
  <1>2. stamp[Index(head)] > head
    BY <1>1 DEF StampInv, LocalsInv, LocalsLag, At
  <1> QED  BY <1>1, <1>2, HeadClaimed DEF Holding

LEMMA EvictClaims ==
  ASSUME TypeOK, TypeOK', StampInv, NEW p \in Proc, Evict(p), head = pos[p] - OneLap,
         head' = Succ(pos[p]) - OneLap, Step(p, "move_tail")
  PROVE  SlotsInv' /\ Grows
  <1>1. pc[p] = "evict" /\ UNCHANGED <<tail, stamp, slot>> /\ StepOf(p)
    BY DEF Evict, StepOf, Running
  <1>2. /\ head \in Position /\ head \in Nat /\ tail \in Nat /\ pos[p] \in Nat
        /\ At(p) = Index(pos[p]) /\ stamp[At(p)] \in Nat
    BY AtFacts
  <1>3. pos[p] = head + OneLap
    BY <1>2, Sizes
  <1>4. stamp[Index(head)] > head
    <2>1. stamp[At(p)] + OneLap > pos[p]
      BY <1>1 DEF StampInv, LocalsInv, LocalsLag
    <2>2. At(p) = Index(head)
      BY <1>2, <1>3, NextLap
    <2> QED  BY <1>2, <1>3, <2>1, <2>2, Sizes
  <1>5. head' = Succ(head)
    <2>1. Succ(head) \in Nat /\ Succ(head + OneLap) = Succ(head) + OneLap
      BY <1>2, SuccFacts DEF Position
    <2> QED  BY <1>3, <2>1, Sizes
  <1>6. pos[p] = tail
    <2>1. pos[p] <= tail /\ tail <= head + OneLap
      BY <1>1 DEF StampInv, LocalsInv, LocalsLag, SlotsInv, WithinALap
    <2> QED  BY <1>2, <1>3, <2>1
  <1> QED  BY <1>1, <1>3, <1>4, <1>5, <1>6, HeadClaimed DEF Holding

(* force_push moves the tail, which nobody else has moved meanwhile. *)
LEMMA MoveTailSlots ==
  ASSUME TypeOK, TypeOK', StampInv, NEW p \in Proc, MoveTail(p)
  PROVE  SlotsInv' /\ Grows
  <1>1. /\ pc[p] = "move_tail" /\ pc'[p] = "swap"
        /\ UNCHANGED <<pos, head, stamp, slot>> /\ tail' = Succ(pos[p])
    BY DEF MoveTail, Step, Goto, TypeOK
  <1>2. p \in Holders /\ HeldPosition(p) /\ HeldSlot(p)
    BY <1>1 DEF Holders, Holding, StampInv, SlotsInv
  <1>3. tail = pos[p] /\ tail < head + OneLap /\ At(p) = Index(tail)
    BY <1>1, <1>2 DEF HeldPosition, At
  <1>4. Holders' = Holders /\ At(p)' = At(p) /\ Untouched(p) /\ OneHolder'
    <2>1. StepOf(p)
      BY DEF StepOf, Running
    <2> QED  BY <1>1, <2>1, UseSlot DEF Holding, StampInv, SlotsInv
  <1>5. head <= tail /\ tail < tail'
    BY <1>1, <1>3, SuccFacts DEF TypeOK, StampInv, SlotsInv, WithinALap
  <1>6. HeldPosition(p)' /\ HeldSlot(p)'
    BY <1>1, <1>2, <1>3, <1>4, <1>5 DEF HeldPosition, HeldSlot
  <1>7. Holders' = Holders \cup {p}
    BY <1>2, <1>4
  <1> QED  BY <1>1, <1>3, <1>4, <1>6, <1>7, TailMoves DEF StampInv

(* A thread changes the value of the slot that it holds. *)
LEMMA ValueChanges ==
  ASSUME TypeOK, TypeOK', StampInv, NEW p \in Proc, StepOf(p), NEW v, NEW l \in Holding,
         pc[p] \in Holding, Step(p, l), slot' = [slot EXCEPT ![At(p)] = v],
         UNCHANGED <<head, tail, stamp>>,
         HeldPosition(p)', HeldSlot(p)'
  PROVE  SlotsInv' /\ Grows
  <1>1. pc'[p] = l /\ pos' = pos
    BY DEF Step, Goto, TypeOK
  <1>2. Holders' = Holders /\ p \in Holders /\ At(p)' = At(p) /\ Untouched(p) /\ OneHolder'
    BY <1>1, UseSlot DEF StampInv, SlotsInv
  <1>3. \A j \in Slots : j # At(p) => slot'[j] = slot[j]
    BY DEF TypeOK
  <1>4. WithinALap'
    BY DEF StampInv, SlotsInv, WithinALap
  <1>5. ASSUME NEW q \in Holders \ {p}
        PROVE  HeldPosition(q)' /\ HeldSlot(q)'
    <2>1. /\ q \in Proc /\ Keeps(q) /\ At(q)' = At(q) /\ At(q) # At(p)
          /\ HeldPosition(q) /\ HeldSlot(q)
      BY <1>2 DEF Untouched, StampInv, SlotsInv
    <2>2. slot'[At(q)] = slot[At(q)]
      BY <1>3, <2>1, AtFacts
    <2>3. HeldPosition(q)'
      BY <2>1 DEF HeldPosition, Keeps
    <2> QED  BY <2>1, <2>2, <2>3, HeldKept
  <1>6. ASSUME NEW j \in Slots, \A q \in Holders' : At(q)' # j
        PROVE  IdleSlot(j)'
    <2>1. j # At(p) /\ IdleSlot(j)
      BY <1>2, <1>6 DEF Untouched, StampInv, SlotsInv
    <2> QED  BY <1>3, <2>1 DEF IdleSlot, Turn
  <1>7. Grows
    BY DEF Grows, TypeOK, Position
  <1> QED  BY <1>2, <1>4, <1>5, <1>6, <1>7 DEF SlotsInv

(* A thread gives back its slot with a stamp that suits its next user. *)
LEMMA StampChanges ==
  ASSUME TypeOK, TypeOK', StampInv, NEW p \in Proc, StepOf(p), NEW s \in Nat,
         pc[p] \in Holding, Return(p), stamp' = [stamp EXCEPT ![At(p)] = s],
         stamp[At(p)] <= s, UNCHANGED <<head, tail, slot>>,
         NEW i, i = At(p), IdleSlot(i)'
  PROVE  SlotsInv' /\ Grows
  <1>1. pc'[p] = "idle"
    BY DEF Return, Goto, TypeOK
  <1>2. Holders' = Holders \ {p} /\ p \in Holders /\ Untouched(p) /\ OneHolder'
    BY <1>1, GiveSlot DEF Holding, StampInv, SlotsInv
  <1>3. \A j \in Slots : j # At(p) => stamp'[j] = stamp[j]
    BY DEF TypeOK
  <1>4. WithinALap'
    BY DEF StampInv, SlotsInv, WithinALap
  <1>5. ASSUME NEW q \in Holders \ {p}
        PROVE  HeldPosition(q)' /\ HeldSlot(q)'
    <2>1. /\ q \in Proc /\ Keeps(q) /\ At(q)' = At(q) /\ At(q) # At(p)
          /\ HeldPosition(q) /\ HeldSlot(q)
      BY <1>2 DEF Untouched, StampInv, SlotsInv
    <2>2. stamp'[At(q)] = stamp[At(q)]
      BY <1>3, <2>1, AtFacts
    <2>3. HeldPosition(q)'
      BY <2>1 DEF HeldPosition, Keeps
    <2> QED  BY <2>1, <2>2, <2>3, HeldKept
  <1>6. ASSUME NEW j \in Slots, \A q \in Holders' : At(q)' # j
        PROVE  IdleSlot(j)'
    <2>1. CASE j = At(p)
      BY <2>1
    <2>2. CASE j # At(p)
      <3>1. IdleSlot(j)
        BY <1>2, <1>6, <2>2 DEF Untouched, StampInv, SlotsInv
      <3> QED  BY <1>3, <2>2, <3>1 DEF IdleSlot, Turn
    <2> QED  BY <2>1, <2>2
  <1>7. Grows
    BY <1>3, AtFacts DEF Grows, TypeOK, Position
  <1> QED  BY <1>2, <1>4, <1>5, <1>6, <1>7 DEF SlotsInv

(* push and force_push write their value, pop moves it out. *)
LEMMA SlotUsed ==
  ASSUME TypeOK, TypeOK', StampInv, NEW p \in Proc, WriteSlot(p) \/ Swap(p) \/ ReadSlot(p)
  PROVE  SlotsInv' /\ Grows
  <1>1. StepOf(p)
    BY DEF StepOf, Running
  <1>2. pc[p] \in {"write", "swap", "read"}
    BY DEF WriteSlot, Swap, ReadSlot
  <1>3. p \in Holders /\ HeldPosition(p) /\ HeldSlot(p)
    BY <1>2 DEF Holders, Holding, StampInv, SlotsInv
  <1>4. pos[p] \in Nat /\ At(p) \in Slots /\ stamp[At(p)] \in Nat
    BY AtFacts
  <1>5. CASE WriteSlot(p) \/ Swap(p)
    <2>1. /\ pc'[p] = "publish" /\ pos' = pos /\ UNCHANGED <<head, tail, stamp>>
          /\ slot' = [slot EXCEPT ![At(p)] = p] /\ Step(p, "publish")
      BY <1>5 DEF WriteSlot, Swap, Step, Goto, TypeOK
    <2>2. At(p)' = At(p) /\ slot'[At(p)] = p
      BY <1>4, <2>1 DEF At, TypeOK
    <2>3. HeldPosition(p)' /\ HeldSlot(p)'
      BY <1>2, <1>3, <1>4, <1>5, <2>1, <2>2, Sizes
         DEF HeldPosition, HeldSlot, WriteSlot, Swap
    <2> QED  BY <1>1, <1>2, <2>1, <2>3, ValueChanges DEF Holding
  <1>6. CASE ReadSlot(p)
    <2>1. /\ pc'[p] = "free" /\ pos' = pos /\ UNCHANGED <<head, tail, stamp>>
          /\ slot' = [slot EXCEPT ![At(p)] = NoValue] /\ Step(p, "free")
          /\ pc[p] = "read"
      BY <1>6 DEF ReadSlot, Step, Goto, TypeOK
    <2>2. At(p)' = At(p) /\ slot'[At(p)] = NoValue
      BY <1>4, <2>1 DEF At, TypeOK
    <2>3. HeldPosition(p)' /\ HeldSlot(p)'
      BY <1>3, <2>1, <2>2 DEF HeldPosition, HeldSlot
    <2> QED  BY <1>1, <1>2, <2>1, <2>3, ValueChanges DEF Holding
  <1> QED  BY <1>5, <1>6

(* The stamp of a push says: readable at this position. *)
LEMMA PublishSlots ==
  ASSUME TypeOK, TypeOK', StampInv, NEW p \in Proc, Publish(p)
  PROVE  SlotsInv' /\ Grows
  <1>0. PICK i \in Slots : i = At(p)
    BY AtFacts
  <1>1. /\ StepOf(p) /\ pc[p] = "publish" /\ Return(p) /\ UNCHANGED <<head, tail, slot>>
        /\ stamp' = [stamp EXCEPT ![i] = pos[p] + 1]
    BY <1>0 DEF StepOf, Running, Publish
  <1>2. p \in Holders /\ HeldPosition(p) /\ HeldSlot(p)
    BY <1>1 DEF Holders, Holding, StampInv, SlotsInv
  <1>3. /\ pos[p] \in Position /\ pos[p] \in Nat /\ i \in Slots /\ i = Index(pos[p])
        /\ stamp[i] \in Nat /\ head \in Position /\ head \in Nat /\ tail \in Nat
    BY <1>0, AtFacts
  <1>4. head <= pos[p] /\ pos[p] < tail /\ stamp[i] <= pos[p] /\ slot[i] = p
    BY <1>0, <1>1, <1>2 DEF HeldPosition, HeldSlot
  <1>5. Turn(i, head) = pos[p]
    <2>1. pos[p] < head + OneLap
      BY <1>3, <1>4, Sizes DEF StampInv, SlotsInv, WithinALap
    <2> QED  BY <1>3, <1>4, <2>1, TurnUnique
  <1>6. stamp'[i] = pos[p] + 1
    BY <1>1, <1>3 DEF TypeOK
  <1>7. IdleSlot(i)'
    BY <1>1, <1>4, <1>5, <1>6 DEF IdleSlot, Turn
  <1>8. pos[p] + 1 \in Nat /\ stamp[At(p)] <= pos[p] + 1 /\ i = At(p)
    BY <1>0, <1>3, <1>4
  <1> QED  BY <1>0, <1>1, <1>7, <1>8, StampChanges DEF Holding

(* The stamp of a pop says: writable a lap later. *)
LEMMA FreeSlots ==
  ASSUME TypeOK, TypeOK', StampInv, NEW p \in Proc, FreeSlot(p)
  PROVE  SlotsInv' /\ Grows
  <1>0. PICK i \in Slots : i = At(p)
    BY AtFacts
  <1>1. /\ StepOf(p) /\ pc[p] = "free" /\ Return(p) /\ UNCHANGED <<head, tail, slot>>
        /\ stamp' = [stamp EXCEPT ![i] = pos[p] + OneLap]
    BY <1>0 DEF StepOf, Running, FreeSlot
  <1>2. p \in Holders /\ HeldPosition(p) /\ HeldSlot(p)
    BY <1>1 DEF Holders, Holding, StampInv, SlotsInv
  <1>3. /\ pos[p] \in Position /\ pos[p] \in Nat /\ i \in Slots /\ i = Index(pos[p])
        /\ stamp[i] \in Nat /\ head \in Position /\ head \in Nat /\ tail \in Nat
    BY <1>0, AtFacts
  <1>4. /\ pos[p] < head /\ tail <= pos[p] + OneLap
        /\ stamp[i] = pos[p] + 1 /\ slot[i] = NoValue
    BY <1>0, <1>1, <1>2 DEF HeldPosition, HeldSlot
  <1>5. Turn(i, head) = pos[p] + OneLap
    <2>1. head <= pos[p] + OneLap
      BY <1>3, <1>4, Sizes DEF StampInv, SlotsInv, WithinALap
    <2>2. pos[p] + OneLap \in Position /\ Index(pos[p] + OneLap) = i
      BY <1>3, NextLap, Sizes DEF Position
    <2>3. pos[p] + OneLap < head + OneLap
      BY <1>3, <1>4, Sizes
    <2> QED  BY <1>3, <2>1, <2>2, <2>3, TurnUnique
  <1>6. stamp'[i] = pos[p] + OneLap
    BY <1>1, <1>3 DEF TypeOK
  <1>7. IdleSlot(i)'
    BY <1>1, <1>3, <1>4, <1>5, <1>6, Sizes DEF IdleSlot, Turn
  <1>8. pos[p] + OneLap \in Nat /\ stamp[At(p)] <= pos[p] + OneLap /\ i = At(p)
    BY <1>0, <1>3, <1>4, Sizes
  <1> QED  BY <1>0, <1>1, <1>7, <1>8, StampChanges DEF Holding

-----------------------------------------------------------------------------
(* The invariant *)

(* All other steps leave the queue alone: they load, or they return. *)
Quiet(p) == UNCHANGED queueVars /\ pc[p] \notin Holding /\ pc'[p] \notin Holding

(* Every step of thread p keeps the slots in order, and nothing shrinks. *)
LEMMA SlotsStep ==
  ASSUME TypeOK, TypeOK', StampInv, NEW p \in Proc, StepOf(p)
  PROVE  SlotsInv' /\ Grows
  <1>1. CASE Quiet(p)
    <2>1. SlotsInv'
      BY <1>1, QuietSlots DEF Quiet, StampInv
    <2>2. Grows
      BY <1>1 DEF Quiet, queueVars, Grows, TypeOK, Position
    <2> QED  BY <2>1, <2>2
  <1>2. CASE PushCas(p)
    <2>1. CASE tail = pos[p] /\ tail' = Succ(tail) /\ Step(p, "write")
      BY <1>2, <2>1, PushClaims
    <2>2. CASE UNCHANGED tail /\ \E t \in Old(tail) : Load(p, t, "stamp")
      BY <1>1, <1>2, <2>2 DEF PushCas, Load, Goto, TypeOK, Quiet, queueVars, Holding
    <2> QED  BY <1>2, <2>1, <2>2 DEF PushCas
  <1>3. CASE PopCas(p)
    <2>1. CASE head = pos[p] /\ head' = Succ(head) /\ Step(p, "read")
      BY <1>3, <2>1, PopClaims
    <2>2. CASE UNCHANGED head /\ \E t \in Old(head) : Load(p, t, "look")
      BY <1>1, <1>3, <2>2 DEF PopCas, Load, Goto, TypeOK, Quiet, queueVars, Holding
    <2> QED  BY <1>3, <2>1, <2>2 DEF PopCas
  <1>4. CASE Evict(p)
    <2>1. CASE head = pos[p] - OneLap /\ head' = Succ(pos[p]) - OneLap /\ Step(p, "move_tail")
      BY <1>4, <2>1, EvictClaims
    <2>2. CASE UNCHANGED head /\ Step(p, "tail")
      BY <1>1, <1>4, <2>2 DEF Evict, Step, Goto, TypeOK, Quiet, queueVars, Holding
    <2> QED  BY <1>4, <2>1, <2>2 DEF Evict
  <1>5. CASE MoveTail(p)
    BY <1>5, MoveTailSlots
  <1>6. CASE WriteSlot(p) \/ Swap(p) \/ ReadSlot(p)
    BY <1>6, SlotUsed
  <1>7. CASE Publish(p)
    BY <1>7, PublishSlots
  <1>8. CASE FreeSlot(p)
    BY <1>8, FreeSlots
  <1>9. CASE \E f \in Api : Start(p, f)
    <2>1. Quiet(p)
      BY <1>9 DEF Start, Goto, TypeOK, Quiet, Holding
    <2> QED  BY <1>1, <2>1
  <1>10. CASE \/ LoadTail(p) \/ LoadStamp(p) \/ PushFull(p) \/ PushNotFull(p)
              \/ LoadHead(p) \/ LookAtStamp(p) \/ PopEmpty(p) \/ PopNotEmpty(p)
              \/ Observe(p) \/ IsEmpty(p) \/ IsFull(p)
              \/ LenHead(p) \/ LenReturns(p) \/ LenRetries(p)
    <2>1. Quiet(p)
      BY <1>10 DEF LoadTail, LoadStamp, PushFull, PushNotFull, LoadHead, LookAtStamp,
           PopEmpty, PopNotEmpty, Observe, IsEmpty, IsFull, LenHead, LenReturns,
           LenRetries, Load, Step, Return, Goto, TypeOK, Quiet, Holding
    <2> QED  BY <1>1, <2>1
  <1> QED
    BY <1>2, <1>3, <1>4, <1>5, <1>6, <1>7, <1>8, <1>9, <1>10 DEF StepOf, Running

(* What thread p has loaded or compared is no further on than the queue. *)
LEMMA OwnLocals ==
  ASSUME TypeOK, TypeOK', StampInv, NEW p \in Proc, StepOf(p)
  PROVE  LocalsLag(p)' /\ EmptyHanded(p)'
  <1> DEFINE Plain == {"idle", "tail", "head", "observe"} \cup Holding
  <1>1. /\ pos[p] \in Position /\ pos[p] \in Nat
        /\ At(p) \in Slots /\ At(p) = Index(pos[p]) /\ stamp[At(p)] \in Nat
        /\ head \in Position /\ tail \in Position /\ head \in Nat /\ tail \in Nat
    BY AtFacts
  <1>2. LocalsLag(p) /\ EmptyHanded(p)
    BY DEF StampInv, LocalsInv
  <1>3. ASSUME pc'[p] \in Plain
        PROVE  LocalsLag(p)'
    BY <1>3 DEF LocalsLag, Holding
  <1>4. CASE \E f \in Api : Start(p, f)
    <2>1. pc'[p] \in Plain /\ got'[p] = NoValue
      BY <1>4 DEF Start, Goto, TypeOK
    <2> QED  BY <1>3, <2>1 DEF EmptyHanded
  <1>5. CASE LoadTail(p) \/ PushCas(p)
    <2>1. CASE \E t \in Old(tail) : Load(p, t, "stamp")
      <3>1. pc'[p] = "stamp" /\ pos'[p] <= tail /\ UNCHANGED <<tail, got>>
        BY <1>1, <1>5, <2>1, OldFacts DEF LoadTail, PushCas, Load, Goto, Remember, TypeOK,
           queueVars, Step
      <3>2. pc[p] \in {"tail", "push_cas"}
        BY <1>5 DEF LoadTail, PushCas
      <3> QED  BY <1>2, <3>1, <3>2 DEF LocalsLag, EmptyHanded
    <2>2. CASE pc[p] = "push_cas" /\ Step(p, "write") /\ UNCHANGED got
      BY <1>2, <1>3, <2>2 DEF Step, Goto, TypeOK, Holding, EmptyHanded
    <2> QED  BY <1>5, <2>1, <2>2 DEF LoadTail, PushCas
  <1>6. CASE LoadHead(p) \/ PopCas(p)
    <2>1. CASE \E t \in Old(head) : Load(p, t, "look")
      <3>1. pc'[p] = "look" /\ pos'[p] <= head /\ UNCHANGED <<head, got>>
        BY <1>1, <1>6, <2>1, OldFacts DEF LoadHead, PopCas, Load, Goto, Remember, TypeOK,
           queueVars, Step
      <3>2. pc[p] \in {"head", "pop_cas"}
        BY <1>6 DEF LoadHead, PopCas
      <3> QED  BY <1>2, <3>1, <3>2 DEF LocalsLag, EmptyHanded
    <2>2. CASE pc[p] = "pop_cas" /\ Step(p, "read") /\ UNCHANGED got
      BY <1>2, <1>3, <2>2 DEF Step, Goto, TypeOK, Holding, EmptyHanded
    <2> QED  BY <1>6, <2>1, <2>2 DEF LoadHead, PopCas
  <1>7. CASE LoadStamp(p)
    <2>1. PICK s \in OldStamp(At(p)) :
               \/ s = pos[p] /\ Step(p, "push_cas")
               \/ s # pos[p] /\ s + OneLap = pos[p] + 1
                  /\ Step(p, IF op[p] = "push" THEN "full" ELSE "evict")
               \/ s # pos[p] /\ s + OneLap # pos[p] + 1 /\ Step(p, "tail")
      BY <1>7 DEF LoadStamp
    <2>2. s \in Nat /\ s <= stamp[At(p)]
      BY <1>1, <2>1, OldStampFacts
    <2>3. pc[p] = "stamp" /\ UNCHANGED <<head, tail, stamp, got, pos>>
      BY <1>7, <2>1 DEF LoadStamp, queueVars, Step
    <2>4. \/ pc'[p] = "push_cas" /\ s = pos[p]
          \/ pc'[p] \in {"full", "evict"} /\ s + OneLap = pos[p] + 1
          \/ pc'[p] = "tail"
      BY <2>1 DEF Step, Goto, TypeOK
    <2>5. At(p)' = At(p) /\ pos[p] <= tail
      BY <1>2, <2>3 DEF At, LocalsLag
    <2>6. LocalsLag(p)'
      BY <1>1, <2>2, <2>3, <2>4, <2>5, Sizes DEF LocalsLag
    <2> QED  BY <1>2, <2>3, <2>6 DEF EmptyHanded
  <1>8. CASE LookAtStamp(p)
    <2>1. PICK s \in OldStamp(At(p)) :
               \/ s = pos[p] + 1 /\ Step(p, "pop_cas")
               \/ s = pos[p] /\ Step(p, "empty")
               \/ Step(p, "head")
      BY <1>8 DEF LookAtStamp
    <2>2. s \in Nat /\ s <= stamp[At(p)]
      BY <1>1, <2>1, OldStampFacts
    <2>3. pc[p] = "look" /\ UNCHANGED <<head, tail, stamp, got, pos>>
      BY <1>8, <2>1 DEF LookAtStamp, queueVars, Step
    <2>4. \/ pc'[p] = "pop_cas" /\ s = pos[p] + 1
          \/ pc'[p] \in {"empty", "head"}
      BY <2>1 DEF Step, Goto, TypeOK
    <2>5. At(p)' = At(p) /\ pos[p] <= head
      BY <1>2, <2>3 DEF At, LocalsLag
    <2>6. LocalsLag(p)'
      BY <1>1, <2>2, <2>3, <2>4, <2>5, Sizes DEF LocalsLag
    <2> QED  BY <1>2, <2>3, <2>6 DEF EmptyHanded
  <1>9. CASE Observe(p)
    <2>1. /\ pc[p] = "observe" /\ pc'[p] = "confirm" /\ UNCHANGED <<head, tail, got, op>>
          /\ pos'[p] = IF op[p] = "is_empty" THEN head ELSE tail
      BY <1>9 DEF Observe, Load, Goto, Remember, TypeOK, queueVars
    <2> QED  BY <1>1, <1>2, <2>1 DEF LocalsLag, EmptyHanded
  <1>10. CASE LenHead(p)
    <2>1. /\ pc[p] = "confirm" /\ op[p] = "len" /\ pc'[p] = "recheck"
          /\ UNCHANGED <<head, tail, got, pos>> /\ aux'[p] = head
      BY <1>10 DEF LenHead, Goto, TypeOK, queueVars
    <2>2. pos[p] <= tail /\ tail <= head + OneLap
      BY <1>2, <2>1 DEF LocalsLag, StampInv, SlotsInv, WithinALap
    <2> QED  BY <1>1, <1>2, <2>1, <2>2, Sizes DEF LocalsLag, EmptyHanded
  <1>11. CASE \/ WriteSlot(p) \/ Swap(p) \/ ReadSlot(p) \/ Publish(p) \/ FreeSlot(p)
              \/ PushFull(p) \/ PopEmpty(p) \/ IsEmpty(p) \/ IsFull(p) \/ LenReturns(p)
    <2>1. pc'[p] \in {"idle", "publish", "free"}
      BY <1>11 DEF WriteSlot, Swap, ReadSlot, Publish, FreeSlot, PushFull, PopEmpty,
         IsEmpty, IsFull, LenReturns, Step, Return, Goto, TypeOK
    <2> QED  BY <1>3, <2>1 DEF Holding, EmptyHanded
  <1>12. CASE PushNotFull(p) \/ Evict(p) \/ MoveTail(p) \/ PopNotEmpty(p) \/ LenRetries(p)
    <2>1. /\ pc[p] \in {"full", "evict", "move_tail", "empty", "recheck"}
          /\ pc'[p] \in {"tail", "move_tail", "swap", "head", "observe"} /\ UNCHANGED got
      BY <1>12 DEF PushNotFull, Evict, MoveTail, PopNotEmpty, LenRetries, Step, Goto, TypeOK
    <2> QED  BY <1>2, <1>3, <2>1 DEF Holding, EmptyHanded
  <1> QED
    BY <1>4, <1>5, <1>6, <1>7, <1>8, <1>9, <1>10, <1>11, <1>12 DEF StepOf, Running

(* Every step keeps the invariant. *)
LEMMA StampStep ==
  ASSUME TypeOK, TypeOK', StampInv, NEW p \in Proc, StepOf(p)
  PROVE  StampInv'
  <1>1. SlotsInv' /\ Grows
    BY SlotsStep
  <1>2. ASSUME NEW q \in Proc, q # p
        PROVE  LocalsLag(q)' /\ EmptyHanded(q)'
    <2>1. Keeps(q) /\ At(q)' = At(q) /\ LocalsLag(q) /\ EmptyHanded(q)
      BY <1>2, OthersKeep DEF StampInv, LocalsInv
    <2> QED  BY <1>1, <2>1, LocalsKept
  <1>3. LocalsLag(p)' /\ EmptyHanded(p)'
    BY OwnLocals
  <1> QED  BY <1>1, <1>2, <1>3 DEF StampInv, LocalsInv

LEMMA StampInit == Init => StampInv
  <1> SUFFICES ASSUME Init PROVE StampInv
    OBVIOUS
  <1>1. Holders = {} /\ LocalsInv
    BY DEF Init, Holders, Holding, LocalsInv, LocalsLag, EmptyHanded
  <1>2. WithinALap
    BY Sizes DEF Init, WithinALap
  <1>3. ASSUME NEW i \in Slots
        PROVE  IdleSlot(i)
    <2>1. i \in Nat /\ i < OneLap /\ Index(0) = 0 /\ Lap(0) = 0
      BY Sizes DEF Slots, Index, Lap
    <2> QED  BY <2>1 DEF Init, IdleSlot, Turn
  <1> QED  BY <1>1, <1>2, <1>3 DEF StampInv, SlotsInv, OneHolder

(* Steps of others leave the queue, and what is known of it, alone. *)
LEMMA StampStutter ==
  ASSUME StampInv, UNCHANGED vars
  PROVE  StampInv'
  <1>1. /\ Holders' = Holders /\ (WithinALap' <=> WithinALap)
        /\ \A q \in Proc : At(q)' = At(q)
    BY DEF vars, Holders, At, WithinALap
  <1>2. \A q \in Proc : /\ (HeldPosition(q)' <=> HeldPosition(q))
                       /\ (HeldSlot(q)' <=> HeldSlot(q))
                       /\ (LocalsLag(q)' <=> LocalsLag(q))
                       /\ (EmptyHanded(q)' <=> EmptyHanded(q))
    BY <1>1 DEF vars, HeldPosition, HeldSlot, LocalsLag, EmptyHanded
  <1>3. \A i \in Slots : IdleSlot(i)' <=> IdleSlot(i)
    BY DEF vars, IdleSlot, Turn
  <1>4. Holders \subseteq Proc
    BY DEF Holders
  <1> QED  BY <1>1, <1>2, <1>3, <1>4 DEF StampInv, SlotsInv, LocalsInv, OneHolder

(* A slot is written, swapped or read by one thread at a time, and the     *)
(* stamps say what is in it, whatever the threads do and however old the   *)
(* stamps and positions are that they load.                                *)
THEOREM StampInvariant == Spec => [](TypeOK /\ StampInv)
  <1>1. TypeOK /\ StampInv /\ [Next]_vars => TypeOK' /\ StampInv'
    <2> SUFFICES ASSUME TypeOK, StampInv, [Next]_vars PROVE TypeOK' /\ StampInv'
      OBVIOUS
    <2>1. TypeOK'
      BY TypeStep
    <2> QED  BY <2>1, NextIsStep, StampStep, StampStutter
  <1> QED  BY <1>1, TypeInit, StampInit, PTL DEF Spec

-----------------------------------------------------------------------------
(* What follows from the invariant *)

(* No two threads are at the UnsafeCell of one slot. *)
THEOREM QueueNoDataRace == Spec => []NoDataRace
  <1>1. StampInv => NoDataRace
    BY DEF StampInv, SlotsInv, OneHolder, Holders, Holding, NoDataRace
  <1> QED  BY <1>1, StampInvariant, PTL

(* The look at the head that makes push fail is at a full queue... *)
LEMMA FullFacts ==
  ASSUME TypeOK, StampInv, NEW p \in Proc,
         PushFull(p) \/ (IsFull(p) /\ head + OneLap = pos[p])
  PROVE  QueueSize(head, tail) = Capacity
  <1>1. head + OneLap = pos[p] /\ pos[p] <= tail
    BY DEF PushFull, IsFull, StampInv, LocalsInv, LocalsLag
  <1>2. head \in Position /\ tail \in Position /\ head \in Nat /\ tail \in Nat
    BY AtFacts
  <1>3. head <= tail /\ tail <= head + OneLap
    BY DEF StampInv, SlotsInv, WithinALap
  <1>4. tail = head + OneLap
    BY <1>1, <1>2, <1>3, Sizes
  <1> QED  BY <1>2, <1>3, <1>4, SizeFacts

(* ... and the look at the tail that makes pop fail at an empty one.       *)
LEMMA EmptyFacts ==
  ASSUME TypeOK, StampInv, NEW p \in Proc,
         PopEmpty(p) \/ (IsEmpty(p) /\ tail = pos[p])
  PROVE  QueueSize(head, tail) = 0
  <1>1. tail = pos[p] /\ pos[p] <= head
    BY DEF PopEmpty, IsEmpty, StampInv, LocalsInv, LocalsLag
  <1>2. head \in Position /\ tail \in Position /\ head \in Nat /\ tail \in Nat
    BY AtFacts
  <1>3. head <= tail /\ tail <= head + OneLap
    BY DEF StampInv, SlotsInv, WithinALap
  <1>4. tail = head
    BY <1>1, <1>2, <1>3
  <1> QED  BY <1>2, <1>3, <1>4, SizeFacts

(* push fails, and is_full() says so, only when the queue is full. *)
THEOREM QueueFullMeansFull == Spec => FullMeansFull
  <1>1. TypeOK /\ StampInv =>
          \A p \in Proc : PushFull(p) \/ (IsFull(p) /\ head + OneLap = pos[p])
                          => QueueSize(head, tail) = Capacity
    BY FullFacts
  <1> QED  BY <1>1, StampInvariant, PTL DEF FullMeansFull

(* pop returns None, and is_empty() says so, only when the queue is empty. *)
THEOREM QueueEmptyMeansEmpty == Spec => EmptyMeansEmpty
  <1>1. TypeOK /\ StampInv =>
          \A p \in Proc : PopEmpty(p) \/ (IsEmpty(p) /\ tail = pos[p])
                          => QueueSize(head, tail) = 0
    BY EmptyFacts
  <1> QED  BY <1>1, StampInvariant, PTL DEF EmptyMeansEmpty

(* len() never misses a value that stays, and never exceeds the capacity. *)
THEOREM QueueLenCovers == Spec => LenCovers
  <1> DEFINE A == \A p \in Proc : LenReturns(p)
                     => QueueSize(aux[p], pos[p]) \in QueueSize(head, tail) .. Capacity
  <1>1. TypeOK /\ StampInv => A
    <2> SUFFICES ASSUME TypeOK, StampInv, NEW p \in Proc, LenReturns(p)
                 PROVE  QueueSize(aux[p], pos[p]) \in QueueSize(head, tail) .. Capacity
      OBVIOUS
    <2>1. tail = pos[p] /\ aux[p] <= head /\ pos[p] <= aux[p] + OneLap
      BY DEF LenReturns, StampInv, LocalsInv, LocalsLag
    <2>2. /\ head \in Position /\ tail \in Position /\ head \in Nat /\ tail \in Nat
          /\ aux[p] \in Position /\ aux[p] \in Nat
      BY AtFacts DEF TypeOK, Position
    <2>3. head <= tail /\ tail <= head + OneLap
      BY DEF StampInv, SlotsInv, WithinALap
    <2>4. aux[p] <= tail
      BY <2>1, <2>2, <2>3
    <2>5. QueueSize(head, tail) \in 0 .. Capacity /\ QueueSize(aux[p], tail) \in 0 .. Capacity
      BY <2>1, <2>2, <2>3, <2>4, SizeFacts
    <2>6. QueueSize(head, tail) <= QueueSize(aux[p], tail)
      BY <2>1, <2>2, <2>3, SizeAntitone
    <2> QED  BY <2>1, <2>5, <2>6, Sizes
  <1> QED  BY <1>1, StampInvariant, PTL DEF LenCovers

(* A thread that finds a stamp it can do nothing with is waiting for       *)
(* another that holds the slot, and a holder waits for nobody: whatever    *)
(* the capacity, no set of threads wait for one another.                   *)
THEOREM QueueWaitsForSomebody == Spec => []WaitsForSomebody
  <1>1. TypeOK /\ StampInv => WaitsForSomebody
    <2> SUFFICES ASSUME TypeOK, StampInv
                 PROVE  WaitsForSomebody
      OBVIOUS
    <2>1. head \in Position /\ tail \in Position /\ head \in Nat /\ tail \in Nat
      BY DEF TypeOK, Position
    <2>2. head <= tail /\ tail <= head + OneLap
      BY DEF StampInv, SlotsInv, WithinALap
    <2>3. Index(head) \in Slots /\ Index(tail) \in Slots
      BY <2>1, SlotOfPosition
    <2>4. ASSUME NEW i \in Slots, Settled(i)
          PROVE  IdleSlot(i)
      BY <2>4 DEF Settled, StampInv, SlotsInv, Holders, Holding
    <2>5. Turn(Index(head), head) = head
      BY <2>1, <2>3, TurnFacts
    <2>6. ASSUME Settled(Index(tail))
          PROVE  \/ stamp[Index(tail)] = tail
                 \/ stamp[Index(tail)] + OneLap = tail + 1 /\ head + OneLap = tail
      <3>1. IdleSlot(Index(tail))
        BY <2>3, <2>4, <2>6
      <3>2. CASE tail < head + OneLap
        <4>1. Turn(Index(tail), head) = tail
          BY <2>1, <2>2, <3>2, TurnUnique
        <4> QED  BY <2>1, <3>1, <4>1 DEF IdleSlot
      <3>3. CASE tail = head + OneLap
        <4>1. Index(tail) = Index(head)
          BY <2>1, <3>3, NextLap
        <4>2. stamp[Index(tail)] = head + 1
          BY <2>1, <2>5, <3>1, <3>3, <4>1, Sizes DEF IdleSlot
        <4> QED  BY <2>1, <3>3, <4>2, Sizes
      <3> QED  BY <2>1, <2>2, <3>2, <3>3, Sizes
    <2>7. ASSUME Settled(Index(head))
          PROVE  \/ stamp[Index(head)] = head + 1
                 \/ stamp[Index(head)] = head /\ tail = head
      <3>1. IdleSlot(Index(head))
        BY <2>3, <2>4, <2>7
      <3> QED  BY <2>1, <2>2, <2>5, <3>1 DEF IdleSlot
    <2> QED  BY <2>6, <2>7 DEF WaitsForSomebody
  <1> QED  BY <1>1, StampInvariant, PTL
=============================================================================
