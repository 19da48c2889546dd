------------------------------ MODULE RefCount -------------------------------
(***************************************************************************)
(* RefCount (src/src/lib.rs) and its futures (src/src/futures.rs).         *)
(*                                                                         *)
(* A handle stands for one acquisition: the call that asks for a           *)
(* reference, the future that call may return, and the guard it ends in.   *)
(* A thread that holds several guards at once is several handles.  Every   *)
(* access to a shared atomic and every queue operation is a step of its    *)
(* own, so the handles interleave between any two of them; compare-and-    *)
(* swap is the weak one.  A handle that parks hands its task back to the   *)
(* executor, which polls a task after it has been woken.                   *)
(***************************************************************************)
EXTENDS CountWord, WaiterQueue, FiniteSets

CONSTANTS Api,              \* the functions of RefCount that the clients call
          CasAttempts,      \* compare-and-swaps per call: 4 in the macros
          ExclusiveChecks,  \* looks of try_get_exclusive_ref at the count: 5
          WeakCas,          \* compare_exchange_weak may fail without cause
          SpuriousPolls,    \* the executor may poll a task nobody woke
          Cancellation,     \* clients may drop a pending future
          Repeat            \* a handle that is done may be used again

(* The functions and futures, by what they are after. *)
RefOps   == {"get_ref", "try_get_ref", "blocking_get_ref", "FutureRef"}
ExclOps  == {"get_exclusive_ref", "try_get_exclusive_ref",
             "blocking_get_exclusive_ref", "FutureExclusiveRef"}
BlockOps == {"block_refs", "try_block_refs", "FutureBlockedRefs"}
Futures  == {"FutureRef", "FutureExclusiveRef", "FutureBlockedRefs"}
Ops      == RefOps \cup ExclOps \cup BlockOps

(* The future that a call falls back on (MaybeFuture::Future). *)
FutureOf(f) == CASE f = "get_ref"           -> "FutureRef"
                 [] f = "get_exclusive_ref" -> "FutureExclusiveRef"
                 [] f = "block_refs"        -> "FutureBlockedRefs"

ASSUME RefCountAssumption ==
  /\ Api \subseteq Ops \ Futures
  /\ CasAttempts \in Nat \ {0}
  /\ ExclusiveChecks \in Nat \ {0}
  /\ {WeakCas, SpuriousPolls, Cancellation, Repeat} \subseteq BOOLEAN

VARIABLES count,   \* RefCount::count
          pc,      \* where the handle's code is, or what the client holds
          op,      \* the function or future whose code is running
          expect,  \* the word its compare-and-swap expects
          tries    \* the attempt it is at

frameVars == <<op, expect, tries>>
vars == <<count, pc, op, expect, tries, queue, registered, woken, hand>>

(* Running code: load .. give_up acquire, pop_first .. wake drain the queue. *)
PCs == {"idle", "done", "load", "cas", "check", "give_up",
        "probe", "register", "flag", "parked", "owner_parked",
        "shared", "exclusive", "blocked",
        "pop_first", "pop", "unregister", "wake"}

TypeOK ==
  /\ count \in Word
  /\ pc \in [Handle -> PCs]
  /\ op \in [Handle -> Ops \cup {"none"}]
  /\ expect \in [Handle -> Word]
  /\ tries \in [Handle -> 0 .. CasAttempts + ExclusiveChecks]
  /\ WaiterTypeOK

Init ==
  /\ count = REF_ALLOWED
  /\ pc = [h \in Handle |-> "idle"]
  /\ op = [h \in Handle |-> "none"]
  /\ expect = [h \in Handle |-> 0]
  /\ tries = [h \in Handle |-> 0]
  /\ WaiterInit

Goto(h, l) == pc' = [pc EXCEPT ![h] = l]

(* The call is over: its locals are gone. *)
Return(h, l) ==
  /\ Goto(h, l)
  /\ op' = [op EXCEPT ![h] = "none"]
  /\ expect' = [expect EXCEPT ![h] = 0]
  /\ tries' = [tries EXCEPT ![h] = 0]

Finished == IF Repeat THEN "idle" ELSE "done"

(* Poll::Pending after wake_by_ref, or a new future about to be awaited. *)
ParkWoken(h, l, f) ==
  /\ Goto(h, l)
  /\ op' = [op EXCEPT ![h] = f]
  /\ expect' = [expect EXCEPT ![h] = 0]
  /\ tries' = [tries EXCEPT ![h] = 0]
  /\ WakeByRef(h)

-----------------------------------------------------------------------------
(* Acquisition *)

Call(h, f) ==
  /\ pc[h] = "idle"
  /\ f \in Api
  /\ Goto(h, "load")
  /\ op' = [op EXCEPT ![h] = f]
  /\ UNCHANGED <<count, expect, tries, waiterVars>>

(* count.load(Relaxed) & REF_COUNT_MASK *)
Load(h) ==
  /\ pc[h] = "load"
  /\ Goto(h, "cas")
  /\ expect' = [expect EXCEPT ![h] = MaskCount(count)]
  /\ tries' = [tries EXCEPT ![h] = 1]
  /\ UNCHANGED <<count, op, waiterVars>>

(* The word that the compare-and-swap of op f stores. *)
NextWord(f, w) == IF f \in RefOps THEN AddRef(w) ELSE WithBlock(w)

(* Ref::new; Ready(()) of a raw block; or go on to look for references. *)
CasSucceeds(h) ==
  /\ pc[h] = "cas"
  /\ count = expect[h]
  /\ count' = NextWord(op[h], expect[h])
  /\ \/ op[h] \in RefOps /\ Return(h, "shared")
     \/ op[h] \in BlockOps /\ Return(h, "blocked")
     \/ /\ op[h] \in ExclOps
        /\ Goto(h, "check")
        /\ expect' = [expect EXCEPT ![h] = 0]
        /\ tries' = [tries EXCEPT ![h] = 1]
        /\ UNCHANGED op
  /\ DropFlag(h)

CasFails(h) == pc[h] = "cas" /\ (count # expect[h] \/ WeakCas)

(* A retry that does not take over the word it has just seen. *)
CasRetriesStale(h) ==
  /\ CasFails(h)
  /\ tries[h] < CasAttempts
  /\ tries' = [tries EXCEPT ![h] = @ + 1]
  /\ UNCHANGED <<count, pc, op, expect, waiterVars>>

CasRetries(h) ==
  /\ CasFails(h)
  /\ tries[h] < CasAttempts
  /\ expect' = [expect EXCEPT ![h] = MaskCount(count)]
  /\ tries' = [tries EXCEPT ![h] = @ + 1]
  /\ UNCHANGED <<count, pc, op, waiterVars>>

(* The last attempt leaves the expected word as it is. *)
CasExhausted(h) == CasFails(h) /\ tries[h] >= CasAttempts /\ UNCHANGED count

SpinAgain(h) ==
  /\ CasExhausted(h)
  /\ \/ op[h] = "blocking_get_ref" /\ UNCHANGED pc
     \/ op[h] = "blocking_get_exclusive_ref" /\ Goto(h, "load")
  /\ tries' = [tries EXCEPT ![h] = 1]
  /\ UNCHANGED <<op, expect, waiterVars>>

(* A call that has given up and unblocks references all the same, whoever  *)
(* has blocked them.                                                       *)
ReturnNoneUnblocks(h) ==
  /\ CasFails(h) /\ tries[h] >= CasAttempts
  /\ op[h] \in {"try_get_ref", "try_get_exclusive_ref", "try_block_refs"}
  /\ count' = REF_ALLOWED
  /\ Return(h, "pop_first")
  /\ UNCHANGED waiterVars

ReturnNone(h) ==
  /\ CasExhausted(h)
  /\ op[h] \in {"try_get_ref", "try_get_exclusive_ref", "try_block_refs"}
  /\ Return(h, Finished)
  /\ UNCHANGED waiterVars

BecomeFuture(h) ==
  /\ CasExhausted(h)
  /\ op[h] \in {"get_ref", "get_exclusive_ref", "block_refs"}
  /\ ParkWoken(h, "parked", FutureOf(op[h]))

(* FutureRef::poll asks to be polled again; FutureBlockedRefs::poll looks. *)
PollExhausted(h) ==
  /\ CasExhausted(h)
  /\ \/ op[h] = "FutureRef" /\ ParkWoken(h, "parked", "FutureRef")
     \/ /\ op[h] \in {"FutureBlockedRefs", "FutureExclusiveRef"}
        /\ Goto(h, "probe")
        /\ UNCHANGED <<frameVars, waiterVars>>

(* An exclusive reference as soon as references are blocked. *)
PassUnchecked(h) ==
  /\ pc[h] = "check"
  /\ Return(h, "exclusive")
  /\ UNCHANGED <<count, waiterVars>>

(* no_standard_refs(), by the handle that has just blocked references.    *)
(* blocking_get_exclusive_ref repeats it, which changes nothing.          *)
CheckPasses(h) ==
  /\ pc[h] = "check"
  /\ StandardRefCount(count) = 0
  /\ Return(h, "exclusive")
  /\ UNCHANGED <<count, waiterVars>>

(* A future that forgets that it owns the block. *)
ParkWithBlockedFut(h) ==
  /\ pc[h] = "check"
  /\ StandardRefCount(count) # 0
  /\ op[h] \in {"get_exclusive_ref", "FutureExclusiveRef"}
  /\ ParkWoken(h, "parked", "FutureExclusiveRef")
  /\ UNCHANGED count

(* A future that waits for the references to leave without being woken. *)
ParkAsleep(h) ==
  /\ pc[h] = "check"
  /\ StandardRefCount(count) # 0
  /\ op[h] \in {"get_exclusive_ref", "FutureExclusiveRef"}
  /\ Goto(h, "owner_parked")
  /\ op' = [op EXCEPT ![h] = "FutureExclusiveRef"]
  /\ UNCHANGED <<count, expect, tries, waiterVars>>

CheckFails(h) ==
  /\ pc[h] = "check"
  /\ StandardRefCount(count) # 0
  /\ \/ /\ op[h] \in {"get_exclusive_ref", "FutureExclusiveRef"}
        /\ ParkWoken(h, "owner_parked", "FutureExclusiveRef")
     \/ /\ op[h] = "try_get_exclusive_ref"
        /\ \/ tries[h] < ExclusiveChecks /\ UNCHANGED pc
           \/ tries[h] >= ExclusiveChecks /\ Goto(h, "give_up")
        /\ tries' = [tries EXCEPT ![h] = @ + 1]
        /\ UNCHANGED <<op, expect, waiterVars>>
  /\ UNCHANGED count

-----------------------------------------------------------------------------
(* Polling *)

(* FutureExclusiveRef with blocked_fut = None goes straight to the count. *)
StartPoll(h) ==
  /\ \/ pc[h] = "owner_parked" /\ Goto(h, "check")
     \/ pc[h] = "parked" /\ op[h] = "FutureRef" /\ Goto(h, "probe")
     \/ pc[h] = "parked" /\ op[h] # "FutureRef" /\ Goto(h, "load")
  /\ woken' = [woken EXCEPT ![h] = FALSE]
  /\ UNCHANGED <<count, frameVars, queue, registered, hand>>

Poll(h) == woken[h] /\ StartPoll(h)

SpuriousPoll(h) == SpuriousPolls /\ ~woken[h] /\ StartPoll(h)

(* is_blocked() *)
Probe(h) ==
  /\ pc[h] = "probe"
  /\ \/ /\ BlockState(count) = 1
        /\ Goto(h, "register")
        /\ UNCHANGED <<frameVars, waiterVars>>
     \/ /\ BlockState(count) = 0
        /\ op[h] = "FutureRef"
        /\ Goto(h, "load")
        /\ UNCHANGED <<frameVars, waiterVars>>
     \/ /\ BlockState(count) = 0
        /\ op[h] # "FutureRef"
        /\ ParkWoken(h, "parked", op[h])
  /\ UNCHANGED count

(* try_register_future! up to the push, and the store that follows it. *)
Register(h) ==
  /\ pc[h] = "register"
  /\ \/ AlreadyRegistered(h) /\ Goto(h, "parked")
     \/ PushWaiter(h) /\ Goto(h, "flag")
     \/ PushRefused(h) /\ Goto(h, "parked")
  /\ UNCHANGED <<count, frameVars>>

SetFlag(h) ==
  /\ pc[h] = "flag"
  /\ StoreRegistered(h)
  /\ Goto(h, "parked")
  /\ UNCHANGED <<count, frameVars>>

(* A Drop for the futures that opens the RefCount, whoever has blocked it. *)
CancelUnblocks(h) ==
  /\ Cancellation
  /\ pc[h] \in {"parked", "owner_parked"}
  /\ count' = REF_ALLOWED
  /\ Return(h, Finished)
  /\ DropFlag(h)

(* The client drops the pending future: there is no Drop to undo anything. *)
Cancel(h) ==
  /\ Cancellation
  /\ pc[h] \in {"parked", "owner_parked"}
  /\ Return(h, Finished)
  /\ DropFlag(h)
  /\ UNCHANGED count

-----------------------------------------------------------------------------
(* Release *)

(* Drop for Ref *)
DropRef(h) ==
  /\ pc[h] = "shared"
  /\ count' = SubRef(count)
  /\ Return(h, Finished)
  /\ UNCHANGED waiterVars

(* unblock_refs: from Drop for ExclusiveRef, from the holder of a raw      *)
(* block, or from try_get_exclusive_ref when references outlast its looks. *)
UnblockRefs(h) ==
  /\ pc[h] \in {"exclusive", "blocked", "give_up"}
  /\ count' = REF_ALLOWED
  /\ Return(h, "pop_first")
  /\ UNCHANGED waiterVars

(* The first pop of unblock_refs may come back empty; the second ends it. *)
PopFirst(h) ==
  /\ pc[h] = "pop_first"
  /\ \/ PopWaiter(h) /\ Goto(h, "unregister")
     \/ PopNothing /\ Goto(h, "pop")
  /\ UNCHANGED <<count, frameVars>>

(* A drain that waits for another Waiter. *)
PopWaits(h) ==
  /\ pc[h] = "pop"
  /\ PopWaiter(h)
  /\ Goto(h, "unregister")
  /\ UNCHANGED <<count, frameVars>>

PopNext(h) ==
  /\ pc[h] = "pop"
  /\ \/ PopWaiter(h) /\ Goto(h, "unregister")
     \/ PopNothing /\ Goto(h, Finished)
  /\ UNCHANGED <<count, frameVars>>

Unregister(h) ==
  /\ pc[h] = "unregister"
  /\ SetUnregistered(h)
  /\ Goto(h, "wake")
  /\ UNCHANGED <<count, frameVars>>

(* An unblock_refs that wakes one Waiter only. *)
WakeOne(h) ==
  /\ pc[h] = "wake"
  /\ WakeTask(h)
  /\ Goto(h, Finished)
  /\ UNCHANGED <<count, frameVars>>

Wake(h) ==
  /\ pc[h] = "wake"
  /\ WakeTask(h)
  /\ Goto(h, "pop")
  /\ UNCHANGED <<count, frameVars>>

-----------------------------------------------------------------------------
Acquire(h) ==
  \/ Load(h) \/ CasSucceeds(h) \/ CasRetries(h)
  \/ SpinAgain(h) \/ ReturnNone(h) \/ BecomeFuture(h) \/ PollExhausted(h)
  \/ CheckPasses(h) \/ CheckFails(h)
  \/ Probe(h) \/ Register(h) \/ SetFlag(h)

Release(h) == PopFirst(h) \/ PopNext(h) \/ Unregister(h) \/ Wake(h)

Next == \E h \in Handle :
  \/ \E f \in Api : Call(h, f)
  \/ Acquire(h) \/ Release(h)
  \/ Poll(h) \/ SpuriousPoll(h) \/ Cancel(h)
  \/ DropRef(h) \/ UnblockRefs(h)

(* Threads run, executors poll what was woken, clients drop their guards. *)
Fairness == \A h \in Handle :
  /\ WF_vars(Acquire(h))
  /\ WF_vars(Release(h))
  /\ WF_vars(Poll(h))
  /\ WF_vars(DropRef(h))
  /\ WF_vars(UnblockRefs(h))

Spec == Init /\ [][Next]_vars
FairSpec == Spec /\ Fairness

-----------------------------------------------------------------------------
Shared     == {h \in Handle : pc[h] = "shared"}
Exclusives == {h \in Handle : pc[h] = "exclusive"}
(* The handles that have set the blocked bit and not cleared it. *)
Blockers   == {h \in Handle :
                 pc[h] \in {"check", "owner_parked", "give_up", "exclusive", "blocked"}}

(* A release in progress, from the store that reopens to the last pop. *)
Draining == \E d \in Handle : pc[d] \in {"pop_first", "pop", "unregister", "wake"}

(* unblock_refs overwrites the word while it still counts references. *)
DiscardsRefs ==
  /\ StandardRefCount(count) # 0
  /\ \E h \in Handle : UnblockRefs(h)

(* Clients and timing under which no block is released over references. *)
CarefulNext == Next /\ ~DiscardsRefs
CarefulSpec == Init /\ [][CarefulNext]_vars

-----------------------------------------------------------------------------
(* Safety *)

(* README.md:70 and 79 build a RwLock on this: "no exclusive references    *)
(* are granted when shared references exist", and only one at a time.  A   *)
(* compare-and-swap that expects a masked word, a later look at the count  *)
(* and the store of unblock_refs must never combine to let both in.        *)
MutualExclusion == \A h \in Exclusives : Shared \cup Exclusives = {h}

(* The counter is the number of Refs that clients hold.  get_ref,          *)
(* try_get_ref and blocking_get_ref count up, Drop for Ref counts down,    *)
(* and unblock_refs overwrites the whole word with REF_ALLOWED, which must *)
(* not forget anyone.                                                      *)
CountExact == StandardRefCount(count) = Cardinality(Shared)

(* Somebody is there to release every block: a blocked bit whose owner is  *)
(* gone shuts every client out for good.  try_block_refs sets the bit,     *)
(* get_exclusive_ref hands the duty over to FutureExclusiveRef with        *)
(* blocked_fut = None, or to the ExclusiveRef.                             *)
BlockedHasOwner == BlockState(count) = 1 => Blockers # {}

(* What an observer has told a handle that holds something is still so     *)
(* when the caller acts on it, however the word has changed in between.    *)
(* The owner of a block may go by no_standard_refs() (lib.rs:320, "do      *)
(* something with mutual exclusion"): references leave, and none enters    *)
(* until it unblocks.  The holder of a Ref counts on being counted: nobody *)
(* else's release makes the word say that no reference is left.            *)
ObservationsLast == [][\A h \in Handle :
  /\ h \in Blockers /\ h \in Blockers' =>
       /\ IsBlocked(count) => IsBlocked(count')
       /\ NoStandardRefs(count) => NoStandardRefs(count')
       /\ TotalRefCount(count') <= TotalRefCount(count)
  /\ h \in Shared /\ h \in Shared' =>
       (NoStandardRefs(count') => NoStandardRefs(count))]_vars

(* waiter.rs:20: the flag a Waiter points at lives as long as the Waiter,  *)
(* because a future leaves (Ready) only after unblock_refs has popped and  *)
(* woken its Waiter.                                                       *)
WaitersAlive ==
  /\ \A i \in DOMAIN queue : queue[i].alive
  /\ \A d \in Handle : hand[d] # NoWaiter => hand[d].alive

(* waiter.rs:13: `registered` tells "the future if it is currently         *)
(* registered in the queue".  A parked future that believes it is does not *)
(* register again, so somebody must still hold its Waiter.                 *)
RegisteredMeansQueued ==
  \A h \in Handle : pc[h] = "parked" /\ registered[h] => InQueue(h) \/ InHand(h)

(* A future sleeps for a reason: one that is pending and that nobody has   *)
(* woken has a Waiter, or trusts a flag that says it has one.  The owner   *)
(* of the block has neither and keeps itself awake, a refused push wakes   *)
(* the task that made it (futures.rs:44), and a drain wakes what it pops.  *)
SleepsForAReason == \A h \in Handle :
  /\ pc[h] = "owner_parked" => woken[h]
  /\ pc[h] = "flag" => woken[h] \/ InQueue(h) \/ InHand(h)
  /\ pc[h] = "parked" => woken[h] \/ InQueue(h) \/ InHand(h) \/ registered[h]

(* The flag of h is honest: if it is set, the Waiter is queued, or in the  *)
(* hand of a drain that is about to clear it.                              *)
FlagHonest(h) == registered[h] =>
  \/ InQueue(h)
  \/ \E d \in Handle : pc[d] = "unregister" /\ hand[d] # NoWaiter /\ hand[d].task = h

(* The store of `registered` comes after the drain has cleared the flag.   *)
StoresLate(h) == SetFlag(h) /\ ~FlagHonest(h)'

(* The only way a flag comes to lie, and with it the only way to what run  *)
(* StaleFlag shows: try_register_future! stores the flag after the push    *)
(* (futures.rs:43), when a drain has already popped the Waiter and cleared *)
(* the flag.  No push, pop, poll or release does it.                       *)
OnlyLateStoresLie ==
  [][\A h \in Handle : FlagHonest(h) /\ ~FlagHonest(h)' => StoresLate(h)]_vars

(* While the Waiter of h is queued somebody is to drain the queue, now or  *)
(* when the block is released.                                             *)
Attended(h) == InQueue(h) => Blockers # {} \/ Draining

(* The push comes when the block seen by is_blocked() is gone, and with it *)
(* the drain.                                                              *)
PushesLate(h) == Register(h) /\ ~Attended(h)'

(* The only way a Waiter is stranded in the queue, and with it the only    *)
(* way to what run LostWakeup shows: the push follows is_blocked()         *)
(* (futures.rs:79) and the release fits in between.  A drain leaves nobody *)
(* behind, even one that overlaps with the next block and its drain, and   *)
(* every block ends in a drain.                                            *)
OnlyLatePushesStrand ==
  [][\A h \in Handle : Attended(h) /\ ~Attended(h)' => PushesLate(h)]_vars

-----------------------------------------------------------------------------
(* The inductive invariants *)

(* try_get_exclusive_ref looks at the count ExclusiveChecks times at most. *)
LooksBounded ==
  \A h \in Handle : pc[h] \in {"check", "owner_parked"} => tries[h] <= ExclusiveChecks
TypeInv      == TypeOK /\ LooksBounded

(* Why a writer is alone: the bit is set while anybody owns the block, so  *)
(* a compare-and-swap, which expects it clear, fails; the owner is unique; *)
(* and once it has seen the counter at 0 no reference can come back.       *)
OneBlocker      == \A g, h \in Blockers : g = h
BlockersBlock   == Blockers # {} => BlockState(count) = 1
ExclusiveAlone  == Exclusives # {} => Shared = {}
ExpectUnblocked == \A h \in Handle : pc[h] = "cas" => BlockState(expect[h]) = 0
LockInv == CountExact /\ OneBlocker /\ BlockersBlock /\ ExclusiveAlone /\ ExpectUnblocked

(* The part of it that survives even a store over references: the block    *)
(* has one owner at most, and the bit is set as long as it has one.        *)
OwnerInv == OneBlocker /\ BlockersBlock /\ ExpectUnblocked

(* Why a Waiter never outlives its future: a future that has a Waiter      *)
(* sleeps, or is about to; it has one Waiter, queued or in the hand of a   *)
(* drain, which holds it from the pop until it has woken its task.         *)
Sleeping(h)   == pc[h] \in {"flag", "parked"} /\ ~woken[h]
WaitersSleep  == \A h \in Handle : InQueue(h) \/ InHand(h) => Sleeping(h)
AwakeIsPolled == \A h \in Handle : woken[h] => pc[h] \in {"flag", "parked", "owner_parked"}
OneWaiterEach ==
  /\ \A i, j \in DOMAIN queue : queue[i].task = queue[j].task => i = j
  /\ \A d \in Handle : hand[d] # NoWaiter =>
       /\ \A i \in DOMAIN queue : queue[i].task # hand[d].task
       /\ \A e \in Handle : hand[e] # NoWaiter /\ hand[e].task = hand[d].task => e = d
DrainHolds    == \A d \in Handle : pc[d] \in {"unregister", "wake"} <=> hand[d] # NoWaiter
WaiterInv == WaitersAlive /\ WaitersSleep /\ AwakeIsPolled /\ OneWaiterEach /\ DrainHolds

(* The functions that never release a block over references: without them, *)
(* only an ExclusiveRef releases.                                          *)
SafeApi == {"get_ref", "try_get_ref", "blocking_get_ref",
            "get_exclusive_ref", "blocking_get_exclusive_ref"}
OnlyExclusiveReleases ==
  \A h \in Handle : /\ op[h] \in SafeApi \cup {"FutureRef", "FutureExclusiveRef", "none"}
                    /\ pc[h] \notin {"blocked", "give_up"}

-----------------------------------------------------------------------------
(* Liveness and refinement *)

(* RefCount implements the readers-writer protocol: references enter only  *)
(* while nobody bars them, a writer bars first and is granted when the     *)
(* readers have left, and, with FairSpec, a barrier does not stay up for   *)
(* nothing: FutureExclusiveRef keeps itself awake until the count is 0.    *)
RW == INSTANCE ReadersWriter WITH
        readers <- Shared, barrier <- Blockers, writer <- Exclusives
RWSafeSpec == RW!RWSafeSpec
RWSpec     == RW!RWSpec

(* A Waiter that reaches the queue while references are blocked, or while  *)
(* unblock_refs still drains the queue, has its task woken.                *)
QueuedIsWoken == \A h \in Handle :
  InQueue(h) /\ (Blockers # {} \/ Draining) ~> woken[h]

(* README.md:13 ("free of deadlocks"): a client that asks once gets its    *)
(* reference, when every reference granted is dropped in the end.          *)
Served == \A h \in Handle :
  pc[h] = "load" ~> pc[h] \in {"shared", "exclusive"}

(* The same for the clients of the blocking functions, whatever becomes of *)
(* the futures that they compete with.                                     *)
BlockingServed == \A h \in Handle :
  pc[h] = "load" /\ op[h] \in {"blocking_get_ref", "blocking_get_exclusive_ref"}
    ~> pc[h] \in {"shared", "exclusive"}

(* unblock_refs (lib.rs:449) pops until the queue is empty, while futures   *)
(* that it has woken may queue up again behind the next owner of the block.*)
(* It still comes to an end, when every client asks once.                  *)
DrainEnds == \A h \in Handle : pc[h] = "pop_first" ~> pc[h] \in {"idle", "done"}

(* README.md:19: "starvation [is] prevented".  A future that is not asleep *)
(* but is polled again and again, and tries again and again, gets what it  *)
(* asks for.                                                               *)
PolledIsServed == \A h \in Handle :
  []<>(pc[h] = "cas" /\ op[h] \in Futures) => []<>(pc[h] \in {"shared", "exclusive"})
=============================================================================
