# A TLA+ model of `ref_count`

`ref_count` is a `no_std` asynchronous reference counter for Rust: any number of
shared references (`Ref`) or one exclusive reference (`ExclusiveRef`), granted
through futures, through functions that try, or through functions that block.
A readers-writer lock is built directly on it (`src/README.md:41-106`). This
directory models the crate in TLA+, checks it with TLC and proves its safety
with TLAPS. Paths such as `lib.rs:443` are relative to `src/src/`.

## The system

| Part | State | Operations | What makes it correct |
|---|---|---|---|
| Count word (`consts.rs`, `macros.rs:119-166`) | one `AtomicU32`: bit 0 blocks, 31 bits count | mask, set bit, add, subtract | bit and count do not disturb each other |
| `RefCount` (`lib.rs`) | the word, the waiter queue | `get_ref`, `try_get_ref`, `blocking_get_ref`, `get_exclusive_ref`, `try_get_exclusive_ref`, `blocking_get_exclusive_ref`, `block_refs`, `try_block_refs`, `unblock_refs`, two `Drop`s, observers | exclusion, an exact count, one owner of the block |
| Futures (`futures.rs`) | a `registered` flag each; `FutureExclusiveRef` also whether it already owns the block | `poll` | no future sleeps for ever |
| `Waiter` (`waiter.rs`) | a waker and a raw pointer to the flag | `wake` | the flag outlives the pointer and tells the truth |
| `ArrayQueue` (`array_queue.rs`) | head, tail, stamped slots | `push`, `force_push`, `pop`, `is_empty`, `is_full`, `len`, `Drop`, `IntoIter` | a bounded FIFO, no slot touched by two threads |
| Observers, `State` (`lib.rs:146-303`, `:932`) | none: one load of the word | `ref_count`, `no_refs`, `is_blocked`, `state`, ... | what they tell the owner of a block, or the holder of a `Ref`, lasts |
| `Backoff`, `CacheLine`, macros | none that is shared | | |

How they interact: an acquisition loads the word, masks the blocked bit away
and offers the result to a weak compare-and-swap, so the swap fails while
references are blocked. A failed call becomes a future. The future's `poll`
looks at the bit, pushes a `Waiter` into the queue and sets its flag. An
exclusive request sets the bit, then waits until the count is 0, waking itself.
`unblock_refs` stores 0 over the whole word, then pops every `Waiter`; each
clears the flag through its pointer and wakes the task.

The hard behaviours are therefore: the order of look, push, flag and drain; a
word overwritten rather than updated; a pointer into a future that may be gone;
an owner of the block that may be gone; a counter at its limit; and, in the
queue, stamps read at one moment and used at another. PROJECT.json lists each
of them at its line under "hazards".

## The modules

| Module | Models |
|---|---|
| `CountWord` | the packed word and the observers of it; `RefLimit` stands for 2^31 |
| `WaiterQueue` | the waiter queue as an atomic bounded FIFO, the flags, popped Waiters, wake flags |
| `RefCount` | every acquisition, poll and release, composed from the two above; its properties |
| `ReadersWriter` | the abstract specification: readers, a barrier, a writer |
| `RefCountProofs` | theorems about `RefCount`: types, exclusion, count, refinement |
| `RefCountBlockProofs` | theorems about the owner of the block and how long observations last |
| `RefCountWaiterProofs` | theorems about Waiters, the futures they point into, and why futures sleep |
| `ArrayQueue` | the queue, one step per access to head, tail, stamp or slot |
| `BoundedFifo` | the abstract specification of the queue |
| `ArrayQueueProofs` | theorems about `ArrayQueue`: stamps, slots, full, empty, length |
| `ArrayQueueFifoProofs` | the refinement of `BoundedFifo`, `Drop`, `IntoIter` |
| `RefCountOnQueue` | `RefCount` composed with `ArrayQueue` |
| `RefCountOnQueueProofs` | the refinement of `RefCount`'s `Spec`, and what carries over |
| `MCRefCount`, `MCArrayQueue`, `MCRefCountOnQueue` | symmetry sets for TLC |

### From code to `RefCount`

A *handle* is one acquisition: the call, the future it may return and the guard
it ends in. A thread with several guards is several handles. `pc[h]` says where
its code is, or what its client holds; `op[h]` which function runs.

| State | Code |
|---|---|
| `count` | `RefCount::count` |
| `expect`, `tries` | the local `ref_count` of an acquisition, and which of the four attempts (or of the five looks of `try_get_exclusive_ref`) it is at |
| `queue` | `waiter_queue`, a Waiter being the task it wakes and whether the future it points into still exists |
| `registered` | the `AtomicBool` in the future |
| `hand` | the Waiter in `unblock_refs`' local `waker` |
| `woken` | the task has been scheduled and not polled since |

| Actions | Code |
|---|---|
| `Call`, `Load`, `CasSucceeds`, `CasRetries` | the attempts that all acquisitions share |
| `SpinAgain`, `ReturnNone`, `BecomeFuture`, `PollExhausted` | what each function does after the last failed attempt |
| `CheckPasses`, `CheckFails` | `no_standard_refs()` by the owner of the block |
| `Poll`, `SpuriousPoll`, `Probe`, `Register`, `SetFlag` | the three `poll`s and `try_register_future!` |
| `Cancel` | the client drops a pending future |
| `DropRef`, `UnblockRefs` | the two `Drop`s, the raw release, the release inside `try_get_exclusive_ref` |
| `PopFirst`, `PopNext`, `Unregister`, `Wake` | the drain in `unblock_refs` and `Waiter::wake` |

Choices of the model:

- Steps on the count interleave sequentially consistently. Its
  read-modify-writes read the newest word whatever their ordering; a stale
  relaxed load only makes a compare-and-swap fail, which `WeakCas` allows
  anyway. `no_standard_refs()` is looked at by the owner of the block, whose own
  swap is the oldest word that it may still see, and from there on references
  only leave. A stale `is_blocked()` registers too late, as in `LostWakeup`, or
  leads to a swap that fails. The flag is read after a wake-up, which the
  executor orders after the store of `Waiter::wake`.
- Additions wrap, as in a release build.
- A store through a dangling pointer (`FlagsHit`) clears the flag of any future
  or none. A future borrows its `RefCount`, so its memory is never the count's.
- `pin!`, wakers, `slight_spin!` and `Backoff` have no state of their own.
- `blocking_get_exclusive_ref` re-reads the count until it is 0; a look that
  fails changes nothing and is not a step.
- The queue is atomic here; `RefCountOnQueue` takes that back.

### From code to `ArrayQueue`

`head`, `tail`, `stamp` and `slot` are the fields of the same names (`slot` is
`Slot::value`). A value is the thread that pushed it. `pos[p]` is the local
`head` or `tail`, `aux[p]` the head of `len()`, `got[p]` the value taken out.
Each `push_or_else` iteration is `LoadTail`, `LoadStamp` and then `PushCas`,
`WriteSlot`, `Publish`; or `PushFull` / `PushNotFull`; or, for `force_push`,
`Evict`, `MoveTail`, `Swap`, `Publish`. `pop` is `LoadHead`, `LookAtStamp` and
then `PopCas`, `ReadSlot`, `FreeSlot`; or `PopEmpty` / `PopNotEmpty`. The refinement
mapping puts a value in the FIFO when `tail` moves and takes it out when `head`
moves, so a thread between its compare-and-swap and its access to the slot
holds a value that is not written, or not read, yet. Values must survive that.
`Drop` and `IntoIter` own the queue, so they are functions of a state in which no
thread is inside a call (`DropsEachValue`, `IteratesInOrder`).

Memory orderings: a compare-and-swap reads what is there; so does a SeqCst load,
and a load behind a SeqCst fence, because head and tail are only changed by
SeqCst operations. With `StaleLoads`, all other loads (the Relaxed ones of head and
tail, those of a failed swap, the Acquire ones of stamps) may return any value
that was ever there (`Old`, `OldStamp`), which is more than the orderings allow.
Mutants without a fence (`FullUnfenced`, `EmptyUnfenced`) are caught. Slot
contents need no such choice: the Release store and the Acquire load of the
stamp order the accesses, and `NoDataRace` says that nobody gets there
otherwise.

### The composition

In `RefCountOnQueue` the actions `Register`, `PopFirst` and `PopNext` give way to
the steps of `ArrayQueue` (`Q == INSTANCE ArrayQueue`), interleaved with every
other step of `RefCount`; all other actions are `RefCount`'s own. A slot holds the
handle whose Waiter it is. `queue` and `hand` stay as history variables: a push
takes effect when it moves the tail (`PushTakesEffect`), a pop when it moves the
head (`PopTakesEffect`). `AtomicQueue` is the refinement: with `pc` advanced past
the queue operation from that moment on (`AtomicPc`), every behaviour is one of
`RefCount`'s `Spec`. What TLC and the proofs show of `Spec` therefore carries over.
`PoppedIsHead` ties the history to the slots: the Waiter read from a slot is the
one at the head of `queue`. Futures are not cancelled and not polled spuriously
here, which would leave a slot pointing into a future that is gone.

## The runs

| Run | Shows | Bounds |
|---|---|---|
| `RefCountHostile` | exclusion and an exact count under spurious polls, dropped futures, dangling flags, weak swaps, a full queue | 3 handles, queue of 1 |
| `RefCountCareful` | all eight functions refine `ReadersWriter`; the block has an owner; what an observer told whoever holds something stays true; futures sleep for a reason, and only two races mislead them; the proofs' `LockInv` and `WaiterInv` hold | 3 handles, the code's 4 attempts and 5 looks |
| `RefCountRefines` | clients that ask once refine `ReadersWriter` with its progress; whoever is queued under a block is woken; blocking clients are served; the drain ends | 3 handles, queue of 2, 2 attempts |
| `RefCountOnQueue` | on the step-level queue `RefCount` does nothing it does not do on an atomic one; Waiters never outlive their futures; a refused push puts nobody to sleep; the proofs' `QueueInv` holds | 3 handles, queue of 1, two laps (`MaxTail`) |
| `QueueAllCalls` | FIFO order, no data race, truthful answers, nobody waiting for nobody, exact `Drop` and `IntoIter`; the proofs' `StampInv` holds | 3 threads, 2 slots, 6 calls |
| `QueueReturns` | every call returns | 3 threads, 1 slot, 4 calls |

Three handles are a holder, a releaser and a waiter, or a writer between two
readers. `RefLimit = 4` has room for three references. One attempt instead of four
loses nothing where a retry can also be reached by a new poll or call;
`RefCountCareful` has the real numbers. Six calls on two slots take the queue
round its buffer up to three times; in `RefCountOnQueue` no push starts past
`MaxTail = 2`, the second lap of its one slot; the pushes of three handles that
have started by then reach further. A queue of one refuses pushes, which three
handles cannot reach with a queue of two. It has no order: that Waiters come out
in the order in which they went in is `FifoSpec` in `QueueAllCalls`, with two
slots, and for any capacity the theorems `OnQueueIsAtomic` and
`WakesTheLongestWaiting`. The run has `WeakCas = FALSE`, since a stale load makes
its swaps fail as well, and checks safety only: a push that may not start would
look like a future that sleeps for ever. `MaxWaiting` is reached by
`RefCountHostile` and `RefCountOnQueue`, where Waiters are refused. `count`'s limit
is reached by no run, since three handles are fewer than `RefLimit = 4`, and the
theorems exclude it with `RoomForAll`: a counter that wraps lets a writer in beside
2^31 references (see below). A queue run may stop, since
the calls are bounded; so may one whose clients ask once (`Repeat = FALSE`).

`RefCountRefines` has `Repeat = FALSE` because `BlockingServed` and `DrainEnds` need it:
clients that come back for ever can keep a blocking caller out, and can keep a
releaser in `unblock_refs` (`lib.rs:449`), which goes on popping the futures that
queue up behind later owners of the block. A handle that is used again is a new
acquisition like any other, so what this loses is only a fourth one.

Fairness: a thread that runs goes on running (`Acquire`, `Release`), an executor
polls what was woken (`Poll`), and clients drop what they were given
(`DropRef`, `UnblockRefs`): that last part is a demand on the client, without
which no lock makes progress. Calls, cancellations and spurious polls are never
owed. `WeakCas` is FALSE in the liveness runs, since a swap that may always fail
spuriously promises nothing; on x86-64 it does not. `StaleLoads` is FALSE in
`QueueReturns`: a store becomes visible in the end.

`CallsReturn` holds because `MaxCalls` bounds the competitors. The queue is lock-free,
not wait-free: threads that go on pushing and popping for ever may make one
call's compare-and-swap fail for ever. What the run shows is that a call which
nobody overtakes any more comes back, however many stamps it has to wait for.

### Where the code does something else

| Run | Disagreement |
|---|---|
| `WipedCount` | `try_get_exclusive_ref` gives up by `unblock_refs`, which stores 0 over a count that is not 0 (`lib.rs:545`, `:444`). The next writer is granted beside the forgotten `Ref`, whose drop then wraps the counter. |
| `LostWakeup` | `poll` sees the block, the release stores 0 and drains an empty queue, and only then the Waiter is pushed (`futures.rs:79-80`). Nobody wakes it. |
| `StaleFlag` | The Waiter is popped and woken between the push and `registered.store(true)` (`futures.rs:42-43`); the flag then claims a registration that is over. |
| `LeakedBlock` | Dropping a `FutureExclusiveRef` that owns the block leaves the bit set (`futures.rs:140`). |
| `DeadFlag` | A future polled between the release's store and its pop is Ready although its Waiter is queued; `Waiter::wake` then stores into a future that is gone (`waiter.rs:35`). |
| `StarvedWriter` | A future that is woken has no claim on what it waited for: it competes with clients that call for the first time (`futures.rs:124`), and can lose at every poll although the queue has room. `README.md:19` says that starvation is prevented. |

Three properties draw the line around `LostWakeup` and `StaleFlag`.
`OnlyLatePushesStrand`: a Waiter is stranded in the queue, with nobody to drain
it, only by a push that comes when the block and its drain are over.
`OnlyLateStoresLie`: a flag claims a registration that is over only by the store
of `futures.rs:43` that comes after the drain has cleared it. `QueuedIsWoken`:
a Waiter that arrives while somebody blocks or drains is woken. Setting the flag
before the push, and looking at the bit again after it, would close both.

Seen while modelling and kept out of the runs:

- `block_refs` and `unblock_refs` used as `lib.rs:416-425` shows wipe the count
  by the same store as `WipedCount`. `CarefulSpec` excludes both.
- The first example of `try_block_refs` (`lib.rs:318-329`, "Safe Usage") calls
  `unblock_refs` after a failed try as well, and so releases somebody else's
  block, which the Safety section of `unblock_refs` (`lib.rs:403`) forbids. In
  the model a client releases only what it has blocked; the mutant
  `ReturnNoneUnblocks` shows what the example does.
- `ref_count()` adds the blocked bit to the counter (`lib.rs:149`), so a request
  that is still waiting, or a raw block, counts as a reference: `ref_count()` is
  then 1 and `no_refs()` false with no reference left. `lib.rs:129` ("the number of
  current references") and `lib.rs:154` ("any references of any kind") say
  otherwise. `TotalRefCount` and `NoRefs` are what the code computes, and
  `ObservationsLast` does not go by those sentences.
- `is_allowed()` is true when references are allowed (`lib.rs:283`), as its example
  asserts; the sentence above it (`lib.rs:269`) says when they are blocked.
- With 2^31 `Ref`s alive the counter wraps in a release build (`lib.rs:682`), and
  the next exclusive request finds a count of 0; `README.md:70` says that it is not
  granted while a reference exists. `RefLimit` and `AddRef` have the wrap.
- `blocking_get_exclusive_ref` can lose every compare-and-swap in the same way as
  the future of `StarvedWriter`.
- A thread stopped between its swap and its stamp makes others spin in
  `ArrayQueue`, and `force_push` shows a shorter queue between its two moves.
  `BoundedFifo` has these as two steps.

## The proofs

Every theorem holds for any set of handles or threads, any capacity, any number
of attempts and any choice of functions. What it assumes beyond that is in its
row. TLC checked each inductive invariant, in the runs named above, before it was
proved.

### The lock (`RefCountProofs`, `RefCountBlockProofs`)

| Theorem | States | Assumes |
|---|---|---|
| `TypeCorrect` | `Spec => []TypeOK`; the queue never exceeds `MaxWaiting` | |
| `LockInvariant` | `CarefulSpec => [](TypeInv /\ LockInv)` | `RoomForAll` |
| `CarefulMutualExclusion`, `CarefulCountExact` | exclusion and an exact count under `CarefulSpec` | `RoomForAll` |
| `CarefulRefines` | `CarefulSpec => RWSafeSpec`, the safety half of the refinement | `RoomForAll` |
| `SafeIsCareful` | `Spec => CarefulSpec` for clients that never call `try_get_exclusive_ref`, `block_refs` or `try_block_refs` | `RoomForAll`, `Api \subseteq SafeApi` |
| `SafeMutualExclusion`, `SafeCountExact`, `SafeRefines` | the same three for those clients, of `Spec` | the same |
| `OneOwner` | `Spec => [](TypeInv /\ OwnerInv)` | |
| `ExclusivesExclude` | `Spec => []AtMostOneExclusive`: no two `ExclusiveRef`s | |
| `BlocksAreOwned` | `Spec => []BlockedHasOwner` | no `Cancellation` |
| `CarefulObservations` | `CarefulSpec => ObservationsLast`: what an observer told the owner of a block or the holder of a `Ref` stays true while it holds on | `RoomForAll` |

`CarefulSpec` is `Spec` without the step that `WipedCount` shows: a release over
a count that is not 0. The clients of `SafeIsCareful` cannot take that step:
`OnlyExclusiveReleases` shows that among them only an `ExclusiveRef`, which is
alone, releases. `RoomForAll` says that there are finitely many handles, fewer than
`RefLimit`.

`MutualExclusion` is not inductive. `LockInv` adds why it holds: the counter is
exact (`CountExact`), the block has at most one owner (`OneBlocker`) and the bit
is set while it has one (`BlockersBlock`), a compare-and-swap expects the bit
clear (`ExpectUnblocked`), and so no reference enters once a writer has seen the
count at 0 (`ExclusiveAlone`). Four lemmas say what a swap, a look, a drop and a
release do to the lock; `QuietEffect` says that all other operations do nothing
to it. The two main theorems, invariant and refinement, both rest on these.
`TypeOK` is strengthened by `LooksBounded`, which bounds the looks of
`try_get_exclusive_ref`.

`OwnerInv` is the part of `LockInv` that does not speak of the count. It survives
the store over references and a counter that wraps, so it needs no assumption,
beyond the model's own that clients release only what they have blocked
(`lib.rs:403`): what `WipedCount` lets in beside a writer is a reader, never a second
writer. The other half, that a blocked bit has an owner, fails when a future that
owns the block is dropped (`LeakedBlock`), and only then.

### The Waiters (`RefCountWaiterProofs`)

| Theorem | States | Assumes |
|---|---|---|
| `WaiterInvariant` | `Spec => [](TypeInv /\ WaiterInv)` | no `Cancellation`, no `SpuriousPolls` |
| `WaitersStayAlive` | `Spec => []WaitersAlive` | the same |
| `SleepersHaveAReason` | `Spec => []SleepsForAReason` | the same |
| `OnlyLateStores`, `OnlyLatePushes` | `Spec => OnlyLateStoresLie`, `Spec => OnlyLatePushesStrand` | the same |
| `TwoRacesOnly` | without late stores and late pushes, `[](RegisteredMeansQueued /\ \A h : WatchedOver(h))` | the same |

A Waiter dangles when its future leaves first. `WaiterInv` says why it cannot: a
future that has a Waiter sleeps and has not been woken (`WaitersSleep`), a task
that has been woken waits to be polled (`AwakeIsPolled`), a future has one Waiter
at most, queued or in one drain's hand (`OneWaiterEach`), and a drain has a Waiter
exactly from the pop to the wake (`DrainHolds`). Both assumptions are needed:
`DeadFlag` does without the second, and without the first a client that drops a
queued future leaves its Waiter behind.

The other theorems are about sleep. `SleepsForAReason` is inductive beside
`WaiterInv`: a pending future that nobody has woken has a Waiter, or trusts its
flag. `StepKinds` sorts the steps of `Next` by what they do to the Waiters, and
`SleepStep` and `HonestStep` follow each kind; a flag is honest (`FlagHonest`)
while its Waiter is queued or about to be unregistered, and only `StoresLate`
ends that. A Waiter is attended (`Attended`) while somebody owns the block or
drains; `AttendantStays` shows that a handle leaves that set only with the queue
empty, so only `PushesLate` ends it. `TwoRacesOnly` puts the three together: in a
behaviour without the two races every sleeping future is `WatchedOver`, its Waiter
in a drain's hand, or queued while a block is held or a drain runs. That such a
Waiter is then reached is liveness (`QueuedIsWoken`).

### The queue (`ArrayQueueProofs`, `ArrayQueueFifoProofs`)

| Theorem | States |
|---|---|
| `QueueTypeCorrect` | `Spec => []TypeOK`: no index runs past the buffer |
| `StampInvariant` | `Spec => [](TypeOK /\ StampInv)` |
| `QueueNoDataRace` | `Spec => []NoDataRace` |
| `QueueWaitsForSomebody` | `Spec => []WaitsForSomebody`: the safety core of `CallsReturn` |
| `QueueFullMeansFull`, `QueueEmptyMeansEmpty`, `QueueLenCovers` | the answers of `push`, `is_full`, `pop`, `is_empty` and `len` |
| `QueueRefinesFifo` | `Spec => FifoSpec` |
| `QueueDropsEachValue`, `QueueIteratesInOrder` | `Drop` and `IntoIter` |

`StampInv` is the argument that the code makes with its stamps. Head and tail are
within a lap (`WithinALap`). From its compare-and-swap to its store of the stamp a
thread holds the slot, alone (`OneHolder`), at a position between head and tail or
just behind the head (`HeldPosition`), with the stamp and the content it found or
made (`HeldSlot`). A slot that nobody holds has the stamp of its next use by the
tail if it is empty, and one more than that of its next use by the head if it is
full (`IdleSlot`). What a thread has loaded, however old, is not ahead of what is
there (`LocalsLag`), which with the fresh read of a compare-and-swap makes an old
value harmless. With `StaleLoads` the theorems cover every age of a loaded value.
The refinement then needs, per step, what happens to the sequence of values that
the stamps stand for: `PutStep` and `TakeStep` for the two moves, `SilentStep`,
`StartStep` and `SlotAccess` for all others.

`OneLap` is `(C + 1).next_power_of_two()` (`array_queue.rs:223`). The provers know
nothing of powers, so a power of two is a number whose divisors, 1 aside, are
even. `LapFits` proves that there is one between `C + 1` and `2C` and hence that an
index fits below a lap; the induction is over the least capacity without one
(`LeastNumber`, `TwiceAPower`, `PowerOfTwoExists`).

### The composition (`RefCountOnQueueProofs`)

| Theorem | States | Assumes |
|---|---|---|
| `OnQueueInvariant` | `QSpec => []QueueInv` | |
| `WakesTheLongestWaiting` | `QSpec => []PoppedIsHead` | |
| `OnQueueIsAtomic` | `QSpec => AtomicQueue` | |
| `OnQueueWaitersStayAlive` | `QSpec => []WaitersAlive` | no `Cancellation`, no `SpuriousPolls` |
| `OnQueueSleepersHaveAReason` | `QSpec => []SleepsForAReason` | the same |
| `OnQueueTwoRacesOnly` | `QSpec => AP!OnlyLateStoresLie /\ AP!OnlyLatePushesStrand` | the same |
| `OnQueueBlocksAreOwned` | `QSpec => [](AtMostOneExclusive /\ BlockedHasOwner)` | no `Cancellation` |
| `OnQueueCarefulRefines` | `QSpec => RWSafeSpec` in behaviours without `DiscardsRefs` | `RoomForAll` |
| `OnQueueCarefulExclusion` | `QSpec => [](MutualExclusion /\ CountExact)` in the same behaviours | `RoomForAll` |
| `OnQueueObservations` | `QSpec => ObservationsLast` in the same behaviours | `RoomForAll` |
| `OnQueueSafeRefines` | `QSpec => RWSafeSpec` for the clients of `SafeIsCareful` | `RoomForAll`, `Api \subseteq SafeApi` |
| `OnQueueMutualExclusion` | `QSpec => [](MutualExclusion /\ CountExact)` for the clients of `SafeIsCareful` | `RoomForAll`, `Api \subseteq SafeApi` |

The proof instantiates the proofs of the two components: `QP` is `ArrayQueue` with
its theorems, `AP` is `RefCount` with `pc <- AtomicPc` and its theorems. `QueueInv`
glues them: a handle is inside `push` or `pop` only where `RefCount` calls it
(`CallsFit`), the tasks of the history variable `queue` are what the stamps stand
for (`SameItems`), and a drain's Waiter is the one in its slot (`SameTaken`). A step
outside the queue is the same step of `RefCount` (`AsideIsAtomic`); inside, the
moves of tail and head and the returns of a refused push and an empty pop are
`RefCount`'s `Register`, `PopFirst` and `PopNext`, and everything else is a stutter
(`CallIsAtomic`). All theorems from `OnQueueWaitersStayAlive` on are theorems of
`RefCount` carried over along the refinement. For the careful ones, `OnlyUnblocks`
shows that a step which discards references on the atomic queue is a release on
the real one.

### Only model-checked

All liveness, which is beyond the prover: `BlockingServed`, `DrainEnds`,
`QueuedIsWoken`, `RWSpec`'s progress and `CallsReturn`. Every safety property of a
passing run, invariant or action property, is proved. `WaitsForSomebody`,
`SleepsForAReason` and `OnlyLatePushesStrand` are the parts of these that need no
fairness: nobody waits, or sleeps, where nothing is going to happen.

## Not modelled

- `Backoff` spins and, with `std`, yields. It delays a thread between two steps,
  which the interleaving allows anyway, and weak fairness says the delay ends.
- `CacheLine` is alignment and `Deref`. `Display` and `Debug` are formatting. The
  compatibility macros choose between core and loom types.
- `Waiter::inner_wake` has no caller.
- The wrap of 64-bit stamps, after 2^64 / one_lap laps: a small width in its
  place would let a stamp recur within a call, which the real one does not.
- Loads of the count and of the flags that return old values, for the reasons
  given under the choices of the model.

## What is left

1. Liveness by proof: `QueuedIsWoken` and `CallsReturn` would follow from the
   invariants above with rules for weak fairness that the prover does not have.
2. The sketch of a repair, flag before push and a second look at the bit after
   it, as a variant of `try_register_future!` with `Served` as its property.
