--------------------------- MODULE RefCountProofs ----------------------------
(***************************************************************************)
(* Proofs about RefCount, for every set of handles, every queue capacity,  *)
(* every number of attempts and every choice of the functions in use.      *)
(***************************************************************************)
EXTENDS RefCount, FiniteSetTheorems, TLAPS

-----------------------------------------------------------------------------
(* The word *)

(* Masking a word leaves the count and clears the blocked bit (get_ref and *)
(* try_block_refs do it to whatever they have just read).                  *)
LEMMA MaskFacts ==
  ASSUME NEW w \in Word
  PROVE  /\ MaskCount(w) \in Word
         /\ BlockState(MaskCount(w)) = 0
         /\ StandardRefCount(MaskCount(w)) = StandardRefCount(w)
  BY RefLimitAssumption DEF Word, WordSize, MaskCount, BlockState, StandardRefCount

(* Setting the blocked bit leaves the count (the block form of             *)
(* weak_try_update_ref_count!).                                            *)
LEMMA BlockFacts ==
  ASSUME NEW w \in Word
  PROVE  /\ WithBlock(w) \in Word
         /\ BlockState(WithBlock(w)) = 1
         /\ StandardRefCount(WithBlock(w)) = StandardRefCount(w)
  BY RefLimitAssumption
     DEF Word, WordSize, WithBlock, REF_BLOCKED, BlockState, StandardRefCount

(* Adding and subtracting a reference leaves the blocked bit; the count    *)
(* moves by one unless it is at its limit (the incr form of the macro, and *)
(* Drop for Ref).                                                          *)
LEMMA AddFacts ==
  ASSUME NEW w \in Word
  PROVE  /\ AddRef(w) \in Word
         /\ BlockState(AddRef(w)) = BlockState(w)
         /\ StandardRefCount(w) + 1 < RefLimit
              => StandardRefCount(AddRef(w)) = StandardRefCount(w) + 1
  BY RefLimitAssumption
     DEF Word, WordSize, AddRef, REF_INCR, BlockState, StandardRefCount

LEMMA SubFacts ==
  ASSUME NEW w \in Word
  PROVE  /\ SubRef(w) \in Word
         /\ BlockState(SubRef(w)) = BlockState(w)
         /\ StandardRefCount(w) > 0
              => StandardRefCount(SubRef(w)) = StandardRefCount(w) - 1
  BY RefLimitAssumption
     DEF Word, WordSize, SubRef, REF_INCR, BlockState, StandardRefCount

-----------------------------------------------------------------------------
(* Type correctness *)

(* A Waiter keeps its shape when its future goes away (DropFlag). *)
LEMMA OrphanType ==
  ASSUME NEW w \in Waiter, NEW h \in Handle
  PROVE  Orphan(w, h) \in Waiter
  BY DEF Waiter, Orphan

(* Dropping a future keeps the types of queue, flags and hands. *)
LEMMA DropFlagType ==
  ASSUME WaiterTypeOK, NEW h \in Handle, DropFlag(h)
  PROVE  WaiterTypeOK'
<1>1. queue' \in Seq(Waiter) /\ Len(queue') = Len(queue)
  <2> DEFINE Orphaned == [i \in 1 .. Len(queue) |-> Orphan(queue[i], h)]
  <2>1. queue \in Seq(Waiter) /\ Len(queue) \in Nat /\ DOMAIN queue = 1 .. Len(queue)
    BY DEF WaiterTypeOK
  <2>2. \A i \in 1 .. Len(queue) : queue[i] \in Waiter
    BY <2>1
  <2>3. Orphaned \in [1 .. Len(queue) -> Waiter]
    BY <2>2, OrphanType
  <2>4. queue' = Orphaned
    BY <2>1 DEF DropFlag
  <2> HIDE DEF Orphaned
  <2>5. Orphaned \in Seq(Waiter) /\ Len(Orphaned) = Len(queue)
    BY <2>1, <2>3
  <2> QED
    BY <2>4, <2>5
<1>2. hand' \in [Handle -> Waiter \cup {NoWaiter}]
  BY OrphanType DEF WaiterTypeOK, DropFlag
<1>3. registered' \in [Handle -> BOOLEAN] /\ woken' \in [Handle -> BOOLEAN]
  BY DEF WaiterTypeOK, DropFlag
<1> QED
  BY <1>1, <1>2, <1>3 DEF WaiterTypeOK

(* So do the queue operations that run on behalf of one handle. *)
LEMMA WaiterOpType ==
  ASSUME WaiterTypeOK, NEW h \in Handle,
         \/ UNCHANGED waiterVars
         \/ WakeByRef(h) \/ StoreRegistered(h) \/ PushWaiter(h) \/ PushRefused(h)
         \/ PopWaiter(h) \/ SetUnregistered(h) \/ WakeTask(h)
  PROVE  WaiterTypeOK'
<1>1. CASE UNCHANGED waiterVars
  BY <1>1 DEF WaiterTypeOK, waiterVars
<1>2. CASE WakeByRef(h) \/ StoreRegistered(h) \/ PushRefused(h)
  BY <1>2 DEF WaiterTypeOK, WakeByRef, StoreRegistered, PushRefused
<1>3. CASE PushWaiter(h)
  BY <1>3, WaiterAssumption DEF WaiterTypeOK, PushWaiter, NewWaiter, Waiter
<1>4. CASE PopWaiter(h)
  BY <1>4, WaiterAssumption DEF WaiterTypeOK, PopWaiter
<1>5. CASE SetUnregistered(h)
  BY <1>5 DEF WaiterTypeOK, SetUnregistered
<1>6. CASE WakeTask(h)
  BY <1>6 DEF WaiterTypeOK, WakeTask
<1> QED
  BY <1>1, <1>2, <1>3, <1>4, <1>5, <1>6

(* Leaving a call, and parking, reset its locals (Return, ParkWoken). *)
LEMMA FrameType ==
  ASSUME TypeInv, NEW h \in Handle, NEW l \in PCs, NEW f \in Ops,
         \/ Return(h, l)
         \/ ParkWoken(h, l, f)
  PROVE  /\ pc' \in [Handle -> PCs]
         /\ op' \in [Handle -> Ops \cup {"none"}]
         /\ expect' \in [Handle -> Word]
         /\ tries' \in [Handle -> 0 .. CasAttempts + ExclusiveChecks]
         /\ LooksBounded'
<1>1. 0 \in Word
  BY RefLimitAssumption DEF Word, WordSize
<1>2. 0 \in 0 .. CasAttempts + ExclusiveChecks
  BY RefCountAssumption
<1> QED
  BY <1>1, <1>2, RefCountAssumption
     DEF TypeInv, TypeOK, LooksBounded, Return, ParkWoken, Goto

(* Every operation keeps the variables typed and the looks of              *)
(* try_get_exclusive_ref at the count bounded.                             *)
LEMMA TypeStep ==
  ASSUME TypeInv, [Next]_vars
  PROVE  TypeInv'
<1> USE DEF TypeInv
<1>1. CASE UNCHANGED vars
  BY <1>1 DEF vars, TypeOK, WaiterTypeOK, LooksBounded
<1>2. ASSUME NEW h \in Handle, NEW f \in Api, Call(h, f)  PROVE TypeInv'
  <2>1. WaiterTypeOK'
    BY <1>2, WaiterOpType DEF Call, TypeOK
  <2> QED
    BY <1>2, <2>1, RefCountAssumption DEF Call, Goto, TypeOK, PCs, LooksBounded
<1>3. ASSUME NEW h \in Handle, Load(h)  PROVE TypeInv'
  <2>1. WaiterTypeOK'
    BY <1>3, WaiterOpType DEF Load, TypeOK
  <2>2. MaskCount(count) \in Word
    BY MaskFacts DEF TypeOK
  <2> QED
    BY <1>3, <2>1, <2>2, RefCountAssumption DEF Load, Goto, TypeOK, PCs, LooksBounded
<1>4. ASSUME NEW h \in Handle, CasSucceeds(h)  PROVE TypeInv'
  <2>1. WaiterTypeOK'
    BY <1>4, DropFlagType DEF CasSucceeds, TypeOK
  <2>2. count' \in Word
    BY <1>4, AddFacts, BlockFacts DEF CasSucceeds, NextWord, TypeOK
  <2>3. CASE Return(h, "shared") \/ Return(h, "blocked")
    <3>1. "get_ref" \in Ops /\ {"shared", "blocked"} \subseteq PCs
      BY DEF Ops, RefOps, PCs
    <3> QED
      BY <2>1, <2>2, <2>3, <3>1, FrameType DEF TypeOK
  <2>4. CASE op[h] \in ExclOps /\ ~(Return(h, "shared") \/ Return(h, "blocked"))
    <3>1. 0 \in Word
      BY RefLimitAssumption DEF Word, WordSize
    <3> QED
      BY <1>4, <2>1, <2>2, <2>4, <3>1, RefCountAssumption
         DEF CasSucceeds, Goto, TypeOK, PCs, LooksBounded
  <2> QED
    BY <1>4, <2>3, <2>4 DEF CasSucceeds
<1>5. ASSUME NEW h \in Handle, CasRetries(h)  PROVE TypeInv'
  <2>1. WaiterTypeOK'
    BY <1>5, WaiterOpType DEF CasRetries, TypeOK
  <2>2. MaskCount(count) \in Word
    BY MaskFacts DEF TypeOK
  <2> QED
    BY <1>5, <2>1, <2>2, RefCountAssumption
       DEF CasRetries, CasFails, TypeOK, LooksBounded
<1>6. ASSUME NEW h \in Handle, SpinAgain(h)  PROVE TypeInv'
  <2>1. WaiterTypeOK'
    BY <1>6, WaiterOpType DEF SpinAgain, TypeOK
  <2> QED
    BY <1>6, <2>1, RefCountAssumption
       DEF SpinAgain, CasExhausted, CasFails, Goto, TypeOK, PCs, LooksBounded
<1>7. ASSUME NEW h \in Handle, ReturnNone(h)  PROVE TypeInv'
  <2>1. WaiterTypeOK'
    BY <1>7, WaiterOpType DEF ReturnNone, TypeOK
  <2>2. "get_ref" \in Ops /\ Finished \in PCs
    BY DEF Ops, RefOps, PCs, Finished
  <2> QED
    BY <1>7, <2>1, <2>2, FrameType DEF ReturnNone, CasExhausted, TypeOK
<1>8. ASSUME NEW h \in Handle, BecomeFuture(h)  PROVE TypeInv'
  <2>1. WaiterTypeOK'
    BY <1>8, WaiterOpType DEF BecomeFuture, ParkWoken, TypeOK
  <2>2. FutureOf(op[h]) \in Ops /\ "parked" \in PCs
    BY <1>8 DEF BecomeFuture, FutureOf, Ops, RefOps, ExclOps, BlockOps, PCs
  <2> QED
    BY <1>8, <2>1, <2>2, FrameType DEF BecomeFuture, CasExhausted, TypeOK
<1>9. ASSUME NEW h \in Handle, PollExhausted(h)  PROVE TypeInv'
  <2>1. WaiterTypeOK'
    BY <1>9, WaiterOpType DEF PollExhausted, ParkWoken, TypeOK
  <2>2. "FutureRef" \in Ops /\ "parked" \in PCs
    BY DEF Ops, RefOps, PCs
  <2>3. CASE ParkWoken(h, "parked", "FutureRef")
    BY <1>9, <2>1, <2>2, <2>3, FrameType DEF PollExhausted, CasExhausted, TypeOK
  <2>4. CASE Goto(h, "probe") /\ UNCHANGED frameVars
    BY <1>9, <2>1, <2>4
       DEF PollExhausted, CasExhausted, Goto, frameVars, TypeOK, PCs, LooksBounded
  <2> QED
    BY <1>9, <2>3, <2>4 DEF PollExhausted
<1>10. ASSUME NEW h \in Handle, CheckPasses(h)  PROVE TypeInv'
  <2>1. WaiterTypeOK'
    BY <1>10, WaiterOpType DEF CheckPasses, TypeOK
  <2>2. "get_ref" \in Ops /\ "exclusive" \in PCs
    BY DEF Ops, RefOps, PCs
  <2> QED
    BY <1>10, <2>1, <2>2, FrameType DEF CheckPasses, TypeOK
<1>11. ASSUME NEW h \in Handle, CheckFails(h)  PROVE TypeInv'
  <2>1. WaiterTypeOK'
    BY <1>11, WaiterOpType DEF CheckFails, ParkWoken, TypeOK
  <2>2. "FutureExclusiveRef" \in Ops /\ "owner_parked" \in PCs
    BY DEF Ops, ExclOps, PCs
  <2>3. CASE ParkWoken(h, "owner_parked", "FutureExclusiveRef")
    BY <1>11, <2>1, <2>2, <2>3, FrameType DEF CheckFails, TypeOK
  <2>4. CASE tries[h] < ExclusiveChecks /\ UNCHANGED <<pc, op, expect>>
             /\ tries' = [tries EXCEPT ![h] = @ + 1]
    BY <1>11, <2>1, <2>4, RefCountAssumption DEF CheckFails, TypeOK, LooksBounded
  <2>5. CASE Goto(h, "give_up") /\ UNCHANGED <<op, expect>>
             /\ tries' = [tries EXCEPT ![h] = @ + 1]
    BY <1>11, <2>1, <2>5, RefCountAssumption
       DEF CheckFails, Goto, TypeOK, PCs, LooksBounded
  <2> QED
    BY <1>11, <2>3, <2>4, <2>5 DEF CheckFails
<1>12. ASSUME NEW h \in Handle, StartPoll(h)  PROVE TypeInv'
  <2>1. WaiterTypeOK'
    BY <1>12 DEF StartPoll, TypeOK, WaiterTypeOK
  <2> QED
    BY <1>12, <2>1, RefCountAssumption
       DEF StartPoll, Goto, frameVars, TypeOK, PCs, LooksBounded
<1>13. ASSUME NEW h \in Handle, Probe(h)  PROVE TypeInv'
  <2>1. WaiterTypeOK'
    BY <1>13, WaiterOpType DEF Probe, ParkWoken, TypeOK
  <2>2. CASE ParkWoken(h, "parked", op[h]) /\ op[h] \in Ops
    <3>1. "parked" \in PCs
      BY DEF PCs
    <3> QED
      BY <1>13, <2>1, <2>2, <3>1, FrameType DEF Probe, TypeOK
  <2>3. CASE ParkWoken(h, "parked", op[h]) /\ op[h] \notin Ops
    BY <1>13, <2>1, <2>3, RefLimitAssumption, RefCountAssumption
       DEF Probe, ParkWoken, Goto, TypeOK, PCs, LooksBounded, Word, WordSize
  <2>4. CASE UNCHANGED frameVars /\ (Goto(h, "register") \/ Goto(h, "load"))
    BY <1>13, <2>1, <2>4 DEF Probe, Goto, frameVars, TypeOK, PCs, LooksBounded
  <2> QED
    BY <1>13, <2>2, <2>3, <2>4 DEF Probe
<1>14. ASSUME NEW h \in Handle, Register(h) \/ SetFlag(h)  PROVE TypeInv'
  <2>1. WaiterTypeOK'
    BY <1>14, WaiterOpType DEF Register, SetFlag, AlreadyRegistered, TypeOK
  <2> QED
    BY <1>14, <2>1
       DEF Register, SetFlag, Goto, frameVars, TypeOK, PCs, LooksBounded
<1>15. ASSUME NEW h \in Handle, Cancel(h)  PROVE TypeInv'
  <2>1. WaiterTypeOK'
    BY <1>15, DropFlagType DEF Cancel, TypeOK
  <2>2. "get_ref" \in Ops /\ Finished \in PCs
    BY DEF Ops, RefOps, PCs, Finished
  <2> QED
    BY <1>15, <2>1, <2>2, FrameType DEF Cancel, TypeOK
<1>16. ASSUME NEW h \in Handle, DropRef(h) \/ UnblockRefs(h)  PROVE TypeInv'
  <2>1. WaiterTypeOK'
    BY <1>16, WaiterOpType DEF DropRef, UnblockRefs, TypeOK
  <2>2. count' \in Word
    BY <1>16, SubFacts, RefLimitAssumption
       DEF DropRef, UnblockRefs, REF_ALLOWED, TypeOK, Word, WordSize
  <2>3. "get_ref" \in Ops /\ {Finished, "pop_first"} \subseteq PCs
    BY DEF Ops, RefOps, PCs, Finished
  <2> QED
    BY <1>16, <2>1, <2>2, <2>3, FrameType DEF DropRef, UnblockRefs, TypeOK
<1>17. ASSUME NEW h \in Handle, Release(h)  PROVE TypeInv'
  <2>1. WaiterTypeOK'
    BY <1>17, WaiterOpType
       DEF Release, PopFirst, PopNext, Unregister, Wake, PopNothing, TypeOK
  <2> QED
    BY <1>17, <2>1
       DEF Release, PopFirst, PopNext, Unregister, Wake, Goto, Finished,
           frameVars, TypeOK, PCs, LooksBounded
<1> QED
  BY <1>1, <1>2, <1>3, <1>4, <1>5, <1>6, <1>7, <1>8, <1>9, <1>10, <1>11, <1>12,
     <1>13, <1>14, <1>15, <1>16, <1>17
     DEF Next, Acquire, Poll, SpuriousPoll

LEMMA TypeInit ==
  ASSUME Init
  PROVE  TypeInv
<1>1. WaiterTypeOK
  BY WaiterAssumption DEF Init, WaiterInit, WaiterTypeOK
<1> QED
  BY <1>1, RefLimitAssumption, RefCountAssumption
     DEF Init, TypeInv, TypeOK, LooksBounded, PCs, Word, WordSize, REF_ALLOWED

(* The type invariant of RefCount, its queue, flags and hands, whatever    *)
(* the clients call and however often they poll, cancel and drop.          *)
THEOREM TypeCorrect == Spec => []TypeOK
<1>1. TypeInv /\ [Next]_vars => TypeInv'
  BY TypeStep
<1>2. Init => TypeInv
  BY TypeInit
<1>3. TypeInv => TypeOK
  BY DEF TypeInv
<1> QED
  BY <1>1, <1>2, <1>3, PTL DEF Spec

-----------------------------------------------------------------------------
(* The lock invariant *)

(* A step that moves one handle outside the critical states, neither       *)
(* granting nor dropping anything nor taking a block, keeps the lock       *)
(* invariant as long as a compare-and-swap still expects the bit clear.    *)
LEMMA QuietKeeps ==
  ASSUME LockInv, NEW h \in Handle,
         UNCHANGED count,
         \A g \in Handle \ {h} : pc'[g] = pc[g] /\ expect'[g] = expect[g],
         pc[h] \notin {"shared", "exclusive"}, pc'[h] \notin {"shared", "exclusive"},
         h \in Blockers' => h \in Blockers,
         pc'[h] = "cas" => BlockState(expect'[h]) = 0
  PROVE  LockInv'
<1>1. Shared' = Shared /\ Exclusives' = Exclusives
  BY DEF Shared, Exclusives
<1>2. Blockers' \subseteq Blockers
  BY DEF Blockers
<1>3. CountExact' /\ ExclusiveAlone'
  BY <1>1 DEF LockInv, CountExact, ExclusiveAlone
<1>4. OneBlocker' /\ BlockersBlock'
  BY <1>2 DEF LockInv, OneBlocker, BlockersBlock
<1>5. ExpectUnblocked'
  BY DEF LockInv, ExpectUnblocked
<1> QED
  BY <1>3, <1>4, <1>5 DEF LockInv

(* The counter has room for every handle, so it never wraps. *)
RoomForAll == IsFiniteSet(Handle) /\ Cardinality(Handle) < RefLimit

(* The set of Refs is finite; one more or one less changes its size by one. *)
LEMMA SharedFacts ==
  ASSUME RoomForAll, NEW h \in Handle
  PROVE  /\ Cardinality(Shared) \in Nat
         /\ h \notin Shared => /\ Cardinality(Shared) + 1 < RefLimit
                               /\ Cardinality(Shared \cup {h}) = Cardinality(Shared) + 1
         /\ h \in Shared => /\ Cardinality(Shared) > 0
                            /\ Cardinality(Shared \ {h}) = Cardinality(Shared) - 1
         /\ Cardinality(Shared) = 0 => Shared = {}
<1>1. Shared \subseteq Handle
  BY DEF Shared
<1>2. IsFiniteSet(Shared) /\ Cardinality(Shared) \in Nat
  BY <1>1, FS_Subset, FS_CardinalityType DEF RoomForAll
<1>3. ASSUME h \notin Shared
      PROVE  /\ Cardinality(Shared) + 1 < RefLimit
             /\ Cardinality(Shared \cup {h}) = Cardinality(Shared) + 1
  <2>1. Cardinality(Shared \cup {h}) = Cardinality(Shared) + 1
    BY <1>2, <1>3, FS_AddElement
  <2>2. Cardinality(Shared \cup {h}) <= Cardinality(Handle) /\ Cardinality(Handle) \in Nat
    BY <1>1, FS_Subset, FS_CardinalityType DEF RoomForAll
  <2> QED
    BY <1>2, <2>1, <2>2, RefLimitAssumption DEF RoomForAll
<1>4. ASSUME h \in Shared
      PROVE  /\ Cardinality(Shared) > 0
             /\ Cardinality(Shared \ {h}) = Cardinality(Shared) - 1
  BY <1>2, <1>4, FS_RemoveElement, FS_EmptySet
<1>5. Cardinality(Shared) = 0 => Shared = {}
  BY <1>2, FS_EmptySet
<1> QED
  BY <1>2, <1>3, <1>4, <1>5

(* While nothing is granted, an owner of the block is not exclusive. *)
LEMMA BlockFree ==
  ASSUME LockInv, BlockState(count) = 0
  PROVE  Blockers = {} /\ Exclusives = {}
  BY DEF LockInv, BlockersBlock, Blockers, Exclusives

(* The compare-and-swap of any acquisition succeeds only while nobody owns *)
(* the block; it adds a Ref or makes the caller the owner.                 *)
LEMMA CasEffect ==
  ASSUME RoomForAll, TypeInv, LockInv, NEW h \in Handle, CasSucceeds(h)
  PROVE  /\ Blockers = {} /\ h \notin Shared /\ Exclusives = {} /\ Exclusives' = {}
         /\ \/ Shared' = Shared \cup {h} /\ Blockers' = {}
            \/ Shared' = Shared /\ Blockers' = {h}
         /\ LockInv'
<1>1. /\ BlockState(count) = 0 /\ count' = NextWord(op[h], count)
      /\ pc[h] = "cas" /\ count \in Word
  BY DEF CasSucceeds, TypeInv, TypeOK, LockInv, ExpectUnblocked
<1>2. Blockers = {} /\ Exclusives = {} /\ h \notin Shared
  BY <1>1, BlockFree DEF Shared
<1>3. \A g \in Handle \ {h} : pc'[g] = pc[g] /\ expect'[g] = expect[g]
  BY DEF CasSucceeds, Return, Goto, TypeInv, TypeOK
<1>4. CASE op[h] \in RefOps
  <2>1. pc'[h] = "shared" /\ count' = AddRef(count)
    BY <1>1, <1>4 DEF CasSucceeds, Return, Goto, NextWord, TypeInv, TypeOK,
       RefOps, ExclOps, BlockOps
  <2>2. Shared' = Shared \cup {h} /\ Blockers' = {} /\ Exclusives' = {}
    BY <1>2, <1>3, <2>1 DEF Shared, Blockers, Exclusives
  <2>3. CountExact'
    BY <1>1, <1>2, <2>1, <2>2, SharedFacts, AddFacts DEF LockInv, CountExact
  <2>4. ExpectUnblocked'
    BY <1>3, <2>1 DEF LockInv, ExpectUnblocked
  <2> QED
    BY <1>2, <2>2, <2>3, <2>4
       DEF LockInv, OneBlocker, BlockersBlock, ExclusiveAlone
<1>5. CASE op[h] \notin RefOps
  <2>1. pc'[h] \in {"blocked", "check"} /\ count' = WithBlock(count)
    BY <1>1, <1>5 DEF CasSucceeds, Return, Goto, NextWord, TypeInv, TypeOK
  <2>2. Shared' = Shared /\ Blockers' = {h} /\ Exclusives' = {}
    BY <1>2, <1>3, <2>1 DEF Shared, Blockers, Exclusives
  <2>3. CountExact' /\ BlockersBlock'
    BY <1>1, <2>1, <2>2, BlockFacts DEF LockInv, CountExact, BlockersBlock
  <2>4. ExpectUnblocked'
    BY <1>3, <2>1 DEF LockInv, ExpectUnblocked
  <2> QED
    BY <1>2, <2>2, <2>3, <2>4 DEF LockInv, OneBlocker, ExclusiveAlone
<1> QED
  BY <1>4, <1>5

(* no_standard_refs() grants the ExclusiveRef to the owner of the block    *)
(* when no Ref is left.                                                    *)
LEMMA CheckEffect ==
  ASSUME RoomForAll, TypeInv, LockInv, NEW h \in Handle, CheckPasses(h)
  PROVE  /\ Blockers = {h} /\ Blockers' = {h}
         /\ Shared = {} /\ Shared' = {} /\ Exclusives = {} /\ Exclusives' = {h}
         /\ LockInv'
<1>1. Blockers = {h} /\ Exclusives = {}
  BY DEF CheckPasses, LockInv, OneBlocker, Blockers, Exclusives
<1>2. Shared = {}
  BY SharedFacts DEF CheckPasses, LockInv, CountExact
<1>3. /\ \A g \in Handle \ {h} : pc'[g] = pc[g] /\ expect'[g] = expect[g]
      /\ pc'[h] = "exclusive" /\ count' = count
  BY DEF CheckPasses, Return, Goto, TypeInv, TypeOK
<1>4. Shared' = {} /\ Blockers' = {h} /\ Exclusives' = {h}
  BY <1>1, <1>2, <1>3 DEF Shared, Blockers, Exclusives
<1>5. ExpectUnblocked'
  BY <1>3 DEF LockInv, ExpectUnblocked
<1>6. LockInv'
  BY <1>1, <1>2, <1>3, <1>4, <1>5
     DEF LockInv, CountExact, OneBlocker, BlockersBlock, ExclusiveAlone
<1> QED
  BY <1>1, <1>2, <1>4, <1>6

(* Drop for Ref takes its holder, and one, away. *)
LEMMA DropEffect ==
  ASSUME RoomForAll, TypeInv, LockInv, NEW h \in Handle, DropRef(h)
  PROVE  /\ h \in Shared /\ Shared' = Shared \ {h}
         /\ Blockers' = Blockers /\ Exclusives' = Exclusives
         /\ LockInv'
<1>1. /\ \A g \in Handle \ {h} : pc'[g] = pc[g] /\ expect'[g] = expect[g]
      /\ pc[h] = "shared" /\ pc'[h] \in {"idle", "done"}
      /\ count \in Word /\ count' = SubRef(count)
  BY DEF DropRef, Return, Goto, Finished, TypeInv, TypeOK
<1>2. h \in Shared /\ Shared' = Shared \ {h}
  BY <1>1 DEF Shared
<1>3. Blockers' = Blockers /\ Exclusives' = Exclusives
  BY <1>1 DEF Blockers, Exclusives
<1>4. CountExact' /\ BlockersBlock'
  BY <1>1, <1>2, <1>3, SharedFacts, SubFacts
     DEF LockInv, CountExact, BlockersBlock
<1>5. ExpectUnblocked'
  BY <1>1 DEF LockInv, ExpectUnblocked
<1>6. LockInv'
  BY <1>2, <1>3, <1>4, <1>5 DEF LockInv, OneBlocker, ExclusiveAlone
<1> QED
  BY <1>2, <1>3, <1>6

(* unblock_refs ends the block; no Ref is left that it could forget. *)
LEMMA UnblockEffect ==
  ASSUME RoomForAll, TypeInv, LockInv, NEW h \in Handle, UnblockRefs(h),
         ~DiscardsRefs
  PROVE  /\ Blockers = {h} /\ Blockers' = {}
         /\ Shared' = Shared /\ Exclusives' = {}
         /\ LockInv'
<1>1. Blockers = {h}
  BY DEF UnblockRefs, LockInv, OneBlocker, Blockers
<1>2. Shared = {}
  BY SharedFacts DEF DiscardsRefs, LockInv, CountExact
<1>3. /\ \A g \in Handle \ {h} : pc'[g] = pc[g] /\ expect'[g] = expect[g]
      /\ pc'[h] = "pop_first" /\ count' = 0
  BY DEF UnblockRefs, Return, Goto, REF_ALLOWED, TypeInv, TypeOK
<1>4. Shared' = {} /\ Blockers' = {} /\ Exclusives' = {}
  BY <1>1, <1>2, <1>3 DEF Shared, Blockers, Exclusives
<1>5. CountExact'
  BY <1>3, <1>4, FS_EmptySet DEF CountExact, StandardRefCount
<1>6. ExpectUnblocked'
  BY <1>3 DEF LockInv, ExpectUnblocked
<1> QED
  BY <1>1, <1>2, <1>4, <1>5, <1>6
     DEF LockInv, OneBlocker, BlockersBlock, ExclusiveAlone

(* Every other operation is quiet: it may only end a block (Cancel of a    *)
(* future that owns it, which leaves the bit set).                         *)
Quiet(h) ==
  \/ \E f \in Api : Call(h, f)
  \/ Load(h) \/ CasRetries(h) \/ SpinAgain(h) \/ ReturnNone(h) \/ BecomeFuture(h)
  \/ PollExhausted(h) \/ CheckFails(h) \/ Probe(h) \/ Register(h) \/ SetFlag(h)
  \/ Release(h) \/ StartPoll(h) \/ Cancel(h)

(* What a quiet operation of h leaves alone. *)
QuietFrame(h) ==
  /\ UNCHANGED count
  /\ \A g \in Handle \ {h} : pc'[g] = pc[g] /\ expect'[g] = expect[g]
  /\ pc[h] \notin {"shared", "exclusive"} /\ pc'[h] \notin {"shared", "exclusive"}
  /\ h \in Blockers' => h \in Blockers
  /\ h \in Blockers /\ h \notin Blockers' => pc[h] = "owner_parked" /\ Cancellation
  /\ pc'[h] = "cas" => BlockState(expect'[h]) = 0

(* Only the client that drops a future can take a block from its owner.    *)
LEMMA QuietFacts ==
  ASSUME TypeInv, ExpectUnblocked, NEW h \in Handle, Quiet(h)
  PROVE  QuietFrame(h)
<1> USE DEF TypeInv, TypeOK, Goto, frameVars, Blockers, PCs, QuietFrame
<1>1. ASSUME NEW f \in Api, Call(h, f)  PROVE QuietFrame(h)
  BY <1>1 DEF Call
<1>2. CASE Load(h) \/ CasRetries(h)
  BY <1>2, MaskFacts DEF Load, CasRetries, CasFails
<1>3. CASE SpinAgain(h)
  BY <1>3 DEF SpinAgain, CasExhausted, CasFails, ExpectUnblocked
<1>4. CASE ReturnNone(h) \/ BecomeFuture(h) \/ PollExhausted(h)
  BY <1>4 DEF ReturnNone, BecomeFuture, PollExhausted, CasExhausted, CasFails,
     ParkWoken, Return, Finished
<1>5. CASE CheckFails(h)
  BY <1>5 DEF CheckFails, ParkWoken
<1>6. CASE Probe(h) \/ Register(h) \/ SetFlag(h)
  BY <1>6 DEF Probe, Register, SetFlag, ParkWoken
<1>7. CASE Release(h)
  BY <1>7 DEF Release, PopFirst, PopNext, Unregister, Wake, Finished
<1>8. CASE StartPoll(h)
  BY <1>8 DEF StartPoll
<1>9. CASE Cancel(h)
  BY <1>9 DEF Cancel, Return, Finished
<1> QED
  BY <1>1, <1>2, <1>3, <1>4, <1>5, <1>6, <1>7, <1>8, <1>9 DEF Quiet

(* A quiet operation grants and drops nothing. *)
LEMMA QuietEffect ==
  ASSUME TypeInv, LockInv, NEW h \in Handle, Quiet(h)
  PROVE  /\ Shared' = Shared /\ Exclusives' = Exclusives
         /\ \/ Blockers' = Blockers
            \/ Blockers = {h} /\ Blockers' = {} /\ Exclusives = {}
         /\ LockInv'
<1>1. QuietFrame(h)
  BY QuietFacts DEF LockInv
<1> USE DEF QuietFrame
<1>2. LockInv'
  BY <1>1, QuietKeeps
<1>3. Shared' = Shared /\ Exclusives' = Exclusives
  BY <1>1 DEF Shared, Exclusives
<1>4. CASE h \in Blockers <=> h \in Blockers'
  <2>1. Blockers' = Blockers
    BY <1>1, <1>4 DEF Blockers
  <2> QED
    BY <1>2, <1>3, <2>1
<1>5. CASE h \in Blockers /\ h \notin Blockers'
  <2>1. Blockers = {h}
    BY <1>5 DEF LockInv, OneBlocker
  <2>2. pc[h] = "owner_parked" /\ Blockers' = {}
    BY <1>1, <1>5, <2>1 DEF Blockers
  <2>3. Exclusives = {}
    BY <2>1, <2>2 DEF Exclusives, Blockers
  <2> QED
    BY <1>2, <1>3, <2>1, <2>2, <2>3
<1> QED
  BY <1>1, <1>4, <1>5

(* Nothing that is not in vars moves the invariants. *)
LEMMA StutterLock ==
  ASSUME UNCHANGED vars
  PROVE  /\ Shared' = Shared /\ Blockers' = Blockers /\ Exclusives' = Exclusives
         /\ LockInv => LockInv'
<1>1. Shared' = Shared /\ Blockers' = Blockers /\ Exclusives' = Exclusives
  BY DEF vars, Shared, Blockers, Exclusives
<1> QED
  BY <1>1 DEF vars, LockInv, CountExact, OneBlocker, BlockersBlock,
     ExclusiveAlone, ExpectUnblocked

(* The operations, sorted by what they do to the lock. *)
LEMMA NextCases ==
  ASSUME Next
  PROVE  \E h \in Handle : \/ CasSucceeds(h) \/ CheckPasses(h) \/ DropRef(h)
                           \/ UnblockRefs(h) \/ Quiet(h)
  BY DEF Next, Acquire, Poll, SpuriousPoll, Quiet

LEMMA LockInvStep ==
  ASSUME RoomForAll, TypeInv, LockInv, [CarefulNext]_vars
  PROVE  LockInv'
<1>1. CASE UNCHANGED vars
  BY <1>1, StutterLock
<1>2. ASSUME NEW h \in Handle,
             \/ CasSucceeds(h) \/ CheckPasses(h) \/ DropRef(h)
             \/ UnblockRefs(h) /\ ~DiscardsRefs
             \/ Quiet(h)
      PROVE  LockInv'
  BY <1>2, CasEffect, CheckEffect, DropEffect, UnblockEffect, QuietEffect
<1> QED
  BY <1>1, <1>2, NextCases DEF CarefulNext

LEMMA LockInit ==
  ASSUME Init
  PROVE  LockInv /\ Shared = {} /\ Blockers = {} /\ Exclusives = {}
<1>1. Shared = {} /\ Blockers = {} /\ Exclusives = {}
  BY DEF Init, Shared, Blockers, Exclusives
<1>2. StandardRefCount(count) = 0 /\ ExpectUnblocked
  BY DEF Init, StandardRefCount, REF_ALLOWED, ExpectUnblocked
<1> QED
  BY <1>1, <1>2, FS_EmptySet
     DEF LockInv, CountExact, OneBlocker, BlockersBlock, ExclusiveAlone

(* The lock invariant holds whenever no block is released over references: *)
(* the counter is exact, and the block has one owner.                      *)
THEOREM LockInvariant ==
  ASSUME RoomForAll
  PROVE  CarefulSpec => [](TypeInv /\ LockInv)
<1>1. Init => TypeInv /\ LockInv
  BY TypeInit, LockInit
<1>2. TypeInv /\ LockInv /\ [CarefulNext]_vars => (TypeInv /\ LockInv)'
  BY TypeStep, LockInvStep DEF CarefulNext
<1> QED
  BY <1>1, <1>2, PTL DEF CarefulSpec

(* An ExclusiveRef excludes every other reference, for every number of     *)
(* handles the counter has room for, whichever functions they call.        *)
THEOREM CarefulMutualExclusion ==
  ASSUME RoomForAll
  PROVE  CarefulSpec => []MutualExclusion
<1>1. TypeInv /\ LockInv => MutualExclusion
  BY DEF LockInv, OneBlocker, ExclusiveAlone, MutualExclusion, Blockers,
     Exclusives, Shared
<1> QED
  BY <1>1, LockInvariant, PTL

(* The counter counts the Refs, and no more than that, under the same      *)
(* conditions.                                                             *)
THEOREM CarefulCountExact ==
  ASSUME RoomForAll
  PROVE  CarefulSpec => []CountExact
<1>1. LockInv => CountExact
  BY DEF LockInv
<1> QED
  BY <1>1, LockInvariant, PTL

-----------------------------------------------------------------------------
(* Clients that keep to the functions without a hidden release *)

LEMMA SafeStep ==
  ASSUME Api \subseteq SafeApi, TypeInv, OnlyExclusiveReleases, [Next]_vars
  PROVE  OnlyExclusiveReleases'
<1> DEFINE Moves(h) ==
      /\ \A g \in Handle \ {h} : pc'[g] = pc[g] /\ op'[g] = op[g]
      /\ op'[h] \in SafeApi \cup {"FutureRef", "FutureExclusiveRef", "none"}
      /\ pc'[h] \notin {"blocked", "give_up"}
<1>1. CASE UNCHANGED vars
  BY <1>1 DEF vars, OnlyExclusiveReleases
<1>2. ASSUME NEW h \in Handle,
             \/ CasSucceeds(h) \/ CheckPasses(h) \/ DropRef(h)
             \/ UnblockRefs(h) \/ Quiet(h)
      PROVE  Moves(h)
  <2> USE DEF TypeInv, TypeOK, OnlyExclusiveReleases, SafeApi, Goto, Return,
              ParkWoken, Finished, frameVars
  <2>1. CASE CasSucceeds(h)
    BY <2>1 DEF CasSucceeds, BlockOps
  <2>2. CASE CheckPasses(h) \/ DropRef(h) \/ UnblockRefs(h)
    BY <2>2 DEF CheckPasses, DropRef, UnblockRefs
  <2>3. ASSUME NEW f \in Api, Call(h, f)  PROVE Moves(h)
    BY <2>3 DEF Call
  <2>4. CASE Load(h) \/ CasRetries(h) \/ SpinAgain(h)
    BY <2>4 DEF Load, CasRetries, CasFails, SpinAgain, CasExhausted
  <2>5. CASE ReturnNone(h) \/ BecomeFuture(h) \/ PollExhausted(h)
    BY <2>5 DEF ReturnNone, BecomeFuture, FutureOf, PollExhausted, CasExhausted,
       CasFails
  <2>6. CASE CheckFails(h)
    BY <2>6 DEF CheckFails
  <2>7. CASE Probe(h) \/ Register(h) \/ SetFlag(h)
    BY <2>7 DEF Probe, Register, SetFlag
  <2>8. CASE Release(h)
    BY <2>8 DEF Release, PopFirst, PopNext, Unregister, Wake
  <2>9. CASE StartPoll(h) \/ Cancel(h)
    BY <2>9 DEF StartPoll, Cancel
  <2> QED
    BY <1>2, <2>1, <2>2, <2>3, <2>4, <2>5, <2>6, <2>7, <2>8, <2>9 DEF Quiet
<1> QED
  BY <1>1, <1>2, NextCases DEF OnlyExclusiveReleases

(* An ExclusiveRef is alone, so its release has no reference to forget.    *)
LEMMA SafeReleases ==
  ASSUME RoomForAll, LockInv, OnlyExclusiveReleases
  PROVE  ~DiscardsRefs
<1> SUFFICES ASSUME NEW h \in Handle, UnblockRefs(h)
             PROVE  StandardRefCount(count) = 0
  BY DEF DiscardsRefs
<1>1. Shared = {}
  BY DEF UnblockRefs, OnlyExclusiveReleases, LockInv, ExclusiveAlone, Exclusives
<1> QED
  BY <1>1, FS_EmptySet DEF LockInv, CountExact

(* Clients that never call try_get_exclusive_ref, block_refs or            *)
(* try_block_refs never release a block over references, however often     *)
(* their futures are polled or dropped: unblock_refs then finds the count  *)
(* at 0 whenever it overwrites it.                                         *)
THEOREM SafeIsCareful ==
  ASSUME RoomForAll, Api \subseteq SafeApi
  PROVE  Spec => CarefulSpec
<1> DEFINE IInv == TypeInv /\ LockInv /\ OnlyExclusiveReleases
<1>1. Init => IInv
  BY TypeInit, LockInit DEF Init, OnlyExclusiveReleases
<1>2. IInv /\ [Next]_vars => [CarefulNext]_vars
  BY SafeReleases DEF CarefulNext
<1>3. IInv /\ [Next]_vars => IInv'
  BY <1>2, SafeStep, TypeStep, LockInvStep
<1> QED
  BY <1>1, <1>2, <1>3, PTL DEF Spec, CarefulSpec

(* So README.md:70 and 79 hold for them: "no exclusive references are      *)
(* granted when shared references exist".                                  *)
THEOREM SafeMutualExclusion ==
  ASSUME RoomForAll, Api \subseteq SafeApi
  PROVE  Spec => []MutualExclusion
  BY SafeIsCareful, CarefulMutualExclusion, PTL

(* And the counter never forgets a Ref of theirs. *)
THEOREM SafeCountExact ==
  ASSUME RoomForAll, Api \subseteq SafeApi
  PROVE  Spec => []CountExact
  BY SafeIsCareful, CarefulCountExact, PTL

-----------------------------------------------------------------------------
(* Refinement *)

(* Every step of the code is a step of the readers-writer protocol or      *)
(* leaves it alone: a compare-and-swap enters or bars, no_standard_refs()  *)
(* grants, Drop for Ref leaves, unblock_refs and a dropped owner unbar.    *)
LEMMA RefinesStep ==
  ASSUME RoomForAll, TypeInv, LockInv, [CarefulNext]_vars
  PROVE  [RW!RWNext]_(RW!rwVars)
<1> USE DEF RW!rwVars, RW!RWNext
<1>1. CASE UNCHANGED vars
  BY <1>1, StutterLock
<1>2. ASSUME NEW h \in Handle, CasSucceeds(h)
      PROVE  RW!RWNext
  BY <1>2, CasEffect DEF RW!Enter, RW!Bar
<1>3. ASSUME NEW h \in Handle, CheckPasses(h)
      PROVE  RW!RWNext
  BY <1>3, CheckEffect DEF RW!Grant
<1>4. ASSUME NEW h \in Handle, DropRef(h)
      PROVE  RW!RWNext
  BY <1>4, DropEffect DEF RW!Leave
<1>5. ASSUME NEW h \in Handle, UnblockRefs(h), ~DiscardsRefs
      PROVE  RW!RWNext
  BY <1>5, UnblockEffect DEF RW!Unbar
<1>6. ASSUME NEW h \in Handle, Quiet(h)
      PROVE  [RW!RWNext]_(RW!rwVars)
  BY <1>6, QuietEffect DEF RW!Unbar
<1> QED
  BY <1>1, <1>2, <1>3, <1>4, <1>5, <1>6, NextCases DEF CarefulNext

(* RefCount implements the readers-writer protocol as long as no block is  *)
(* released over references.                                               *)
THEOREM CarefulRefines ==
  ASSUME RoomForAll
  PROVE  CarefulSpec => RWSafeSpec
<1>1. Init => RW!RWInit
  BY LockInit DEF RW!RWInit
<1>2. TypeInv /\ LockInv /\ [CarefulNext]_vars => [RW!RWNext]_(RW!rwVars)
  BY RefinesStep
<1> QED
  BY <1>1, <1>2, LockInvariant, PTL DEF CarefulSpec, RWSafeSpec, RW!RWSafeSpec

(* For the clients of SafeIsCareful it does so without that condition.     *)
THEOREM SafeRefines ==
  ASSUME RoomForAll, Api \subseteq SafeApi
  PROVE  Spec => RWSafeSpec
  BY SafeIsCareful, CarefulRefines, PTL
=============================================================================
