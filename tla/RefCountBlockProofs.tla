------------------------- MODULE RefCountBlockProofs --------------------------
(***************************************************************************)
(* Proofs about who owns the blocked bit of RefCount, which unlike the     *)
(* lock invariant do not depend on the counter (a release over references  *)
(* may wipe it), and about how long the word stays as an observer saw it.  *)
(***************************************************************************)
EXTENDS RefCountProofs

(* A compare-and-swap succeeds only while nobody owns the block; it either *)
(* leaves the bit clear or makes h the owner.                              *)
LEMMA CasOwner ==
  ASSUME TypeInv, OwnerInv, NEW h \in Handle, CasSucceeds(h)
  PROVE  /\ Blockers = {}
         /\ \/ Blockers' = {}  /\ BlockState(count') = 0
            \/ Blockers' = {h} /\ BlockState(count') = 1
         /\ ExpectUnblocked'
<1>1. /\ BlockState(count) = 0 /\ count' = NextWord(op[h], count)
      /\ pc[h] = "cas" /\ count \in Word
  BY DEF CasSucceeds, TypeInv, TypeOK, OwnerInv, ExpectUnblocked
<1>2. Blockers = {}
  BY <1>1 DEF OwnerInv, BlockersBlock
<1>3. \A g \in Handle \ {h} : pc'[g] = pc[g] /\ expect'[g] = expect[g]
  BY DEF CasSucceeds, Return, Goto, TypeInv, TypeOK
<1>4. CASE op[h] \in RefOps
  <2>1. pc'[h] = "shared" /\ count' = AddRef(count)
    BY <1>1, <1>4 DEF CasSucceeds, Return, Goto, NextWord, TypeInv, TypeOK,
       RefOps, ExclOps, BlockOps
  <2>2. Blockers' = {} /\ BlockState(count') = 0
    BY <1>1, <1>2, <1>3, <2>1, AddFacts DEF Blockers
  <2> QED
    BY <1>2, <1>3, <2>1, <2>2 DEF OwnerInv, ExpectUnblocked
<1>5. CASE op[h] \notin RefOps
  <2>1. pc'[h] \in {"blocked", "check"} /\ count' = WithBlock(count)
    BY <1>1, <1>5 DEF CasSucceeds, Return, Goto, NextWord, TypeInv, TypeOK
  <2>2. Blockers' = {h} /\ BlockState(count') = 1
    BY <1>1, <1>2, <1>3, <2>1, BlockFacts DEF Blockers
  <2> QED
    BY <1>2, <1>3, <2>1, <2>2 DEF OwnerInv, ExpectUnblocked
<1> QED
  BY <1>4, <1>5

(* The owner that passes no_standard_refs() still owns the block, and Drop *)
(* for Ref leaves the bit and its owner alone.                             *)
LEMMA KeepOwner ==
  ASSUME TypeInv, OwnerInv, NEW h \in Handle, CheckPasses(h) \/ DropRef(h)
  PROVE  Blockers' = Blockers /\ BlockState(count') = BlockState(count) /\ ExpectUnblocked'
<1>1. /\ \A g \in Handle \ {h} : pc'[g] = pc[g] /\ expect'[g] = expect[g]
      /\ \/ pc[h] = "check" /\ pc'[h] = "exclusive" /\ count' = count
         \/ pc[h] = "shared" /\ pc'[h] \in {"idle", "done"} /\ count' = SubRef(count)
  BY DEF CheckPasses, DropRef, Return, Goto, Finished, TypeInv, TypeOK
<1>2. Blockers' = Blockers
  BY <1>1 DEF Blockers
<1>3. BlockState(count') = BlockState(count)
  BY <1>1, SubFacts DEF TypeInv, TypeOK
<1>4. ExpectUnblocked'
  BY <1>1 DEF OwnerInv, ExpectUnblocked
<1> QED
  BY <1>2, <1>3, <1>4

(* unblock_refs takes the block from its one owner and clears the bit.     *)
LEMMA EndOwner ==
  ASSUME TypeInv, OwnerInv, NEW h \in Handle, UnblockRefs(h)
  PROVE  Blockers = {h} /\ Blockers' = {} /\ BlockState(count') = 0 /\ ExpectUnblocked'
<1>1. /\ \A g \in Handle \ {h} : pc'[g] = pc[g] /\ expect'[g] = expect[g]
      /\ pc[h] \in {"exclusive", "blocked", "give_up"} /\ pc'[h] = "pop_first"
      /\ count' = 0
  BY DEF UnblockRefs, Return, Goto, REF_ALLOWED, TypeInv, TypeOK
<1>2. Blockers = {h}
  BY <1>1 DEF OwnerInv, OneBlocker, Blockers
<1>3. Blockers' = {}
  BY <1>1, <1>2 DEF Blockers
<1>4. BlockState(count') = 0
  BY <1>1 DEF BlockState
<1>5. ExpectUnblocked'
  BY <1>1 DEF OwnerInv, ExpectUnblocked
<1> QED
  BY <1>2, <1>3, <1>4, <1>5

(* Every other operation leaves the word alone; only a client that drops   *)
(* the future of an owner changes who owns the block.                      *)
LEMMA QuietOwner ==
  ASSUME TypeInv, OwnerInv, NEW h \in Handle, Quiet(h)
  PROVE  /\ Blockers' \subseteq Blockers
         /\ Blockers' = Blockers \/ Cancellation
         /\ count' = count /\ ExpectUnblocked'
<1>1. QuietFrame(h)
  BY QuietFacts DEF OwnerInv
<1>2. Blockers' \subseteq Blockers
  BY <1>1 DEF QuietFrame, Blockers
<1>3. Blockers' = Blockers \/ Cancellation
  BY <1>1 DEF QuietFrame, Blockers
<1>4. ExpectUnblocked'
  BY <1>1 DEF QuietFrame, OwnerInv, ExpectUnblocked
<1> QED
  BY <1>1, <1>2, <1>3, <1>4 DEF QuietFrame

(* No step gives the block a second owner or clears the bit under its      *)
(* owner; and, futures not being dropped, none leaves the bit without one. *)
LEMMA OwnerStep ==
  ASSUME TypeInv, OwnerInv, [Next]_vars
  PROVE  /\ OwnerInv'
         /\ ~Cancellation /\ BlockedHasOwner => BlockedHasOwner'
<1> USE DEF OneBlocker, BlockersBlock, BlockedHasOwner
<1>1. CASE UNCHANGED vars
  <2>1. Blockers' = Blockers /\ count' = count
    BY <1>1, StutterLock DEF vars
  <2>2. ExpectUnblocked'
    BY <1>1 DEF vars, OwnerInv, ExpectUnblocked
  <2> QED
    BY <2>1, <2>2 DEF OwnerInv
<1>2. ASSUME NEW h \in Handle, CasSucceeds(h)
      PROVE  OwnerInv' /\ BlockedHasOwner'
  BY <1>2, CasOwner DEF OwnerInv
<1>3. ASSUME NEW h \in Handle, CheckPasses(h) \/ DropRef(h)
      PROVE  OwnerInv' /\ (BlockedHasOwner => BlockedHasOwner')
  BY <1>3, KeepOwner DEF OwnerInv
<1>4. ASSUME NEW h \in Handle, UnblockRefs(h)
      PROVE  OwnerInv' /\ BlockedHasOwner'
  BY <1>4, EndOwner DEF OwnerInv
<1>5. ASSUME NEW h \in Handle, Quiet(h)
      PROVE  OwnerInv' /\ (~Cancellation /\ BlockedHasOwner => BlockedHasOwner')
  BY <1>5, QuietOwner DEF OwnerInv
<1> QED
  BY <1>1, <1>2, <1>3, <1>4, <1>5, NextCases

LEMMA OwnerInit ==
  ASSUME Init
  PROVE  OwnerInv /\ BlockedHasOwner
<1>1. BlockState(count) = 0
  BY DEF Init, REF_ALLOWED, BlockState
<1> QED
  BY <1>1, LockInit DEF OwnerInv, LockInv, BlockedHasOwner

(* Whatever the clients call, poll and drop, and even when unblock_refs    *)
(* wipes references or the counter wraps: the block has one owner at most, *)
(* the bit is set while it has one, and no compare-and-swap expects it set.*)
(* What the clients owe is that they call unblock_refs for a block of      *)
(* their own only (the Safety section of lib.rs:403).                      *)
THEOREM OneOwner == Spec => [](TypeInv /\ OwnerInv)
<1>1. Init => TypeInv /\ OwnerInv
  BY TypeInit, OwnerInit
<1>2. TypeInv /\ OwnerInv /\ [Next]_vars => (TypeInv /\ OwnerInv)'
  BY TypeStep, OwnerStep
<1> QED
  BY <1>1, <1>2, PTL DEF Spec

(* What is left of mutual exclusion then: two ExclusiveRefs never coexist. *)
AtMostOneExclusive == \A g, h \in Exclusives : g = h

(* The store of unblock_refs can let a Ref in beside an ExclusiveRef (run  *)
(* WipedCount), but never a second ExclusiveRef.                           *)
THEOREM ExclusivesExclude == Spec => []AtMostOneExclusive
<1>1. TypeInv /\ OwnerInv => AtMostOneExclusive
  BY DEF OwnerInv, OneBlocker, AtMostOneExclusive, Exclusives, Blockers
<1> QED
  BY <1>1, OneOwner, PTL

(* Every block that try_block_refs has set has an owner who is to release  *)
(* it, whatever else goes wrong, as long as no pending future is dropped   *)
(* (run LeakedBlock shows what happens otherwise).                         *)
THEOREM BlocksAreOwned ==
  ASSUME ~Cancellation
  PROVE  Spec => []BlockedHasOwner
<1> DEFINE IInv == TypeInv /\ OwnerInv /\ BlockedHasOwner
<1>1. Init => IInv
  BY TypeInit, OwnerInit
<1>2. IInv /\ [Next]_vars => IInv'
  BY TypeStep, OwnerStep
<1> QED
  BY <1>1, <1>2, PTL DEF Spec

-----------------------------------------------------------------------------
(* What observers have told *)

(* One step, seen by the handle h that reads the word before and after it. *)
LastsFor(h) ==
  /\ h \in Blockers /\ h \in Blockers' =>
       /\ IsBlocked(count) => IsBlocked(count')
       /\ NoStandardRefs(count) => NoStandardRefs(count')
       /\ TotalRefCount(count') <= TotalRefCount(count)
  /\ h \in Shared /\ h \in Shared' => (NoStandardRefs(count') => NoStandardRefs(count))

(* A step that changes neither the word nor its meaning. *)
LEMMA SameWordLasts ==
  ASSUME TypeInv, count' = count, NEW g \in Handle
  PROVE  LastsFor(g)
<1>1. TotalRefCount(count) \in Int
  BY RefLimitAssumption DEF TypeInv, TypeOK, Word, WordSize, TotalRefCount,
     StandardRefCount, BlockState
<1> QED
  BY <1>1 DEF LastsFor

(* A compare-and-swap meets no owner of a block; Drop for Ref only lowers  *)
(* the count; unblock_refs leaves no owner, and there was one only.        *)
LEMMA LastingStep ==
  ASSUME RoomForAll, TypeInv, LockInv, [CarefulNext]_vars, NEW g \in Handle
  PROVE  LastsFor(g)
<1>1. LockInv'
  BY LockInvStep
<1>2. g \in Shared' => ~NoStandardRefs(count')
  <2> SUFFICES ASSUME g \in Shared'
               PROVE  ~NoStandardRefs(count')
    OBVIOUS
  <2>1. Shared' \subseteq Handle
    BY DEF Shared
  <2>2. IsFiniteSet(Shared') /\ Cardinality(Shared') \in Nat
    BY <2>1, FS_Subset, FS_CardinalityType DEF RoomForAll
  <2>3. Cardinality(Shared') # 0
    BY <2>2, FS_EmptySet
  <2> QED
    BY <1>1, <2>3 DEF LockInv, CountExact, NoStandardRefs
<1>3. ASSUME NEW h \in Handle, CasSucceeds(h)
      PROVE  LastsFor(g)
  <2>1. Blockers = {}
    BY <1>3, CasEffect
  <2> QED
    BY <1>2, <2>1 DEF LastsFor
<1>4. ASSUME NEW h \in Handle, DropRef(h)
      PROVE  LastsFor(g)
  <2>1. count \in Word /\ count' = SubRef(count) /\ h \in Shared
    BY <1>4 DEF DropRef, Shared, TypeInv, TypeOK
  <2>2. StandardRefCount(count) > 0
    BY <2>1, SharedFacts DEF LockInv, CountExact
  <2>3. /\ BlockState(count') = BlockState(count)
        /\ StandardRefCount(count') = StandardRefCount(count) - 1
    BY <2>1, <2>2, SubFacts
  <2>4. BlockState(count) \in Int /\ StandardRefCount(count) \in Int
    BY <2>1, RefLimitAssumption DEF Word, WordSize, BlockState, StandardRefCount
  <2> QED
    BY <1>2, <2>2, <2>3, <2>4
       DEF LastsFor, IsBlocked, RawState, NoStandardRefs, TotalRefCount
<1>5. ASSUME NEW h \in Handle, UnblockRefs(h), ~DiscardsRefs
      PROVE  LastsFor(g)
  <2>1. Blockers' = {}
    BY <1>5, UnblockEffect
  <2> QED
    BY <1>2, <2>1 DEF LastsFor
<1>6. ASSUME NEW h \in Handle, CheckPasses(h)
      PROVE  LastsFor(g)
  BY <1>6, SameWordLasts DEF CheckPasses
<1>7. ASSUME NEW h \in Handle, Quiet(h)
      PROVE  LastsFor(g)
  BY <1>7, QuietFacts, SameWordLasts DEF QuietFrame, LockInv
<1>8. CASE UNCHANGED vars
  BY <1>8, SameWordLasts DEF vars
<1> QED
  BY <1>3, <1>4, <1>5, <1>6, <1>7, <1>8, NextCases DEF CarefulNext

(* no_standard_refs(), is_blocked() and ref_count() do not go stale in the *)
(* hands of the owner of a block, nor no_standard_refs() in those of a     *)
(* Ref's holder, as long as no block is released over references.          *)
THEOREM CarefulObservations ==
  ASSUME RoomForAll
  PROVE  CarefulSpec => ObservationsLast
<1>1. TypeInv /\ LockInv /\ [CarefulNext]_vars => [\A h \in Handle : LastsFor(h)]_vars
  BY LastingStep
<1> QED
  BY <1>1, LockInvariant, PTL DEF CarefulSpec, ObservationsLast, LastsFor
=============================================================================
