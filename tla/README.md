# dios: a TLA+ model of the frame pool and its driver

dios is a completion-based direct-I/O driver with a user-space frame pool on
top. An embedder opens files, asks for pages (`Pool::get`), is handed a guard
on the bytes of a resident frame or a token for a read under way, and makes
everything progress by polling. This directory models the concurrent core of
that program in TLA+, checks it with TLC on small instances, and proves with
TLAPS, for instances of every size, that epoch reclamation keeps its contract
and that a validated configuration has room for what it admits.

Paths below are relative to `src/src/` of the repository.

## 1. The system

### 1.1 Parts, state and operations

| Part | Source | State | Operations |
|---|---|---|---|
| Epoch reclamation | `pool/epoch.rs` | global epoch, reader slots (occupied, local epoch, guard count), evict queue | register, begin/commit/abort pin, release guard, `advance_epoch`, `drain_matured` |
| Frame residency | `pool/frames.rs` | packed word (state, generation) and identity per frame, free stack | claim, publish, begin evicting, reclaim |
| Page table | `pool/table.rs` | open-addressed cells, each a small sequence lock | lookup (lock-free), insert, remove with backward shift |
| CLOCK | `pool/clock.rs` | hand, reference bits, speculation markers | touch, consume a marker, choose a victim |
| Miss path | `pool/miss.rs`, `pool/mod.rs` | singleflight records, pending index, success index, generational waiter counts, read credits | `get`, `get_cold`, `ready`, token drop, completion routing, frame claim |
| Retention | `pool/retention.rs` | per-frame word (count, HELD), budget, release ring | `into_retained`, clone, drop, mature drain, `drain_releases` |
| Wait and wake | `product.rs`, `backend/uring.rs`, `driver.rs` | generation latch, parked count, eventfd and its ring poll | arm, park, resume, wake, consume, publish a release |
| Product operations | `product.rs`, `pool/mod.rs` | operation slots with a submission order, held fsyncs | `submit_write`, `submit_fsync`, route, deliver |
| File lifecycle | `pool/mod.rs` | pool entry, live generation word, lease counter per file slot | open, register, acquire and drop lease, begin and progress retirement, pool drop |
| Driver core | `driver.rs`, `driver/read_vector.rs` | file table, operation slab, ready queue, deferred completions, leases | open, close, submit, fill the ring, reap, retry, retire, quiesce |
| Backends | `backend/uring.rs`, `backend/eager.rs` | fixed-file slots, submission and completion queue | register and retire a file, push, reap |
| Prefetch | `pool/prefetch.rs`, `pool/prefetch/*` | ledger of speculative frames, access patterns, trees of dirty bits | observe, request, admit, promote, cancel, reconcile |
| Read spans | `pool/read_spans.rs` | multi-frame reservations | reserve, commit, route, finish |
| Write arena | `pool/write_arena.rs` | staging slots, a condition variable | allocate, release, wait |
| Per-file lists | `pool/file_slots.rs`, `pool/frame_pages.rs` | intrusive lists | link, unlink, walk |
| Construction | `driver.rs`, `memlock.rs`, `pool/mod.rs` | arenas, their locks and registration; capacities | build, fail, validate |

`completion.rs`, `error.rs`, `lib.rs`, `mock.rs`, the loom models, the
observation code and the programs in `bin/` hold plain data, test doubles or
measurements; they have no protocol of their own.

### 1.2 How they interact

* Readers pin **without** the control lock: page table, frame word, epoch slot.
* One thread at a time holds the pool's **control lock**: misses, polls,
  eviction, reclamation, file registration and retirement.
* Token drops, guard drops, handle drops and lease drops take no lock. They are
  the second half of almost every race below.
* A poll drains the driver and routes each completion to the miss table or to
  a product operation. It then submits held fsyncs, advances the epoch, drains
  the release ring and moves retirements on.
* The driver has a mutex of its own and a second one around the scratch list of
  files to retire. The backend's file slot is cleared outside the first.
* The kernel completes in any order, short, or with an error.

### 1.3 What is hard about it

PROJECT.json lists each hazard at its line. They fall into eight groups.

1. *Pin against reclaim.* An epoch is loaded, published and relied on in
   separate steps, while another thread scans the slots one by one.
2. *Word against word.* The mature drain, promotions and last drops update a
   retention word, the budget and a ring slot in separate atomic accesses.
3. *Sleep against wake.* A wake may fall between the scan, the arming and the
   kernel wait, and a second poller may take its completion.
4. *Lock against no lock.* The lock holder decides from a waiter count that
   lock-free token drops change.
5. *Identity against reuse.* Ring entries, tokens, leases and file ids carry
   slot numbers; file, operation and miss slots are all recycled.
6. *Order of endings.* Close, last completion, last lease, retirement, the
   barrier behind a write and the teardown all wait for each other.
7. *Guess against demand.* A page read ahead may be used, wanted, refused, cut
   short, evicted or retired before, while and after it arrives.
8. *Index against walker.* A removal shifts page-table cells under readers that
   walk them without a lock.

### 1.4 What should hold

* A guard or retained handle always reads the page it was asked for.
* What is evicted, released, queued, held or retiring is dealt with eventually.
* No page is read twice at once; no token is stranded; no credit, frame, budget
  unit or slot is lost or given back twice.
* No wake, release or operation is slept through.
* The kernel never works on a file other than the one it was given.
* A file is retired once, after everything that uses it has ended; an fsync
  never overtakes a write accepted before it.
* A lookup never returns a frame of another page, and misses a mapped page only
  when a removal came in its way.
* A reader whose observed accesses go on keeps its readahead stream.
* Arenas are unlocked and freed exactly when nothing can still write to them.
* The assertions written in the code never fail (section 5 has two that can).

## 2. Modules

| Module | Models | Lines of the code it stands for |
|---|---|---|
| `PageLease` | abstract contract of page guards | none: a specification |
| `EpochReclaim` | pins, hints, eviction, epoch advance, drain | `epoch.rs`, `frames.rs`, pin and evict paths of `pool/mod.rs` |
| `PageTable`, `FileSlots` | cells, probing, backward shift, per-file lists | `table.rs`, `file_slots.rs`, `frame_pages.rs` |
| `Retention` | promotion, release, ring, mature drain | `retention.rs`, `advance_and_reclaim` |
| `PoolWait` | latch, platform wake, poll passes | `product.rs`, `driver.rs` waits, `uring.rs` reap |
| `MissFlow` | `get`, `ready`, `poll`, miss table | `miss.rs`, `pool/mod.rs` |
| `Speculation` | markers, dirty-bit tree, CLOCK | `clock.rs`, `prefetch/notifications.rs`, `prefetch.rs` |
| `Prefetch` | ledger, patterns, admission, read spans | `prefetch.rs`, `prefetch/state.rs`, `prefetch/pattern.rs`, `read_spans.rs`, `pool/mod.rs` |
| `FileLifecycle` | files, leases, product operations, retirement, drop | `pool/mod.rs`, `product.rs` |
| `DriverCore` | the ring driver: file table, slab, leases, teardown | `driver.rs`, `read_vector.rs`, `uring.rs` |
| `DriverBuild`, `EagerDriver` | construction; the driver on the eager backend, write arena | `driver.rs`, `memlock.rs`, `eager.rs`, `write_arena.rs`, `open.rs`, `frames.rs` |
| `PoolSizing` | configuration arithmetic | `pool/mod.rs` builder, `prefetch/state.rs` |

`MC<Module>` holds what only TLC needs (set-ups, symmetry sets). The
`EpochReclaim*` modules other than `EpochReclaim` hold proofs; `PoolSizing` has
its proofs beside its operators. PROJECT.json maps every definition to its
source lines.

The modules overlap on purpose, each making one step of what another takes
apart. `Retention`, `MissFlow` and `PageTable` free a frame only when no guard
that could reach it is left, which is what `EpochReclaim` establishes. `MissFlow`
looks pages up in a map, which is what `PageTable` implements; `Prefetch` has
sets where `Speculation` has trees of bits. `FileLifecycle` takes a driver whose
file is closed once it has no operation in flight, which is what `DriverCore`
establishes. These links are arguments between models rather than checked
refinements; the checked one is that of `EpochReclaim` to `PageLease`.

### 2.1 EpochReclaim

A reader is at one of the program counters of `pin_owned` or
`pin_with_resident_hint`; one action is one atomic access another thread can
interleave with (`LoadEpoch`, `BeginPin`, `Lookup`, `ValidateWord`,
`ReadIdentity`, `CommitPin`, `AbortPin`, `ReleaseGuard`, the hint actions). The
control-lock holder claims, publishes, evicts (`Unmap`, then `Enqueue`
with the current epoch), scans one slot per step, stores the new epoch and
drains matured entries. The SeqCst fences of `begin_pin` and `advance_epoch`
justify one total order of these accesses. The one stale value the fences
permit, a global epoch loaded before the pin is published, has its own step.
The QUIESCENT sentinel is one above the epoch bound, as `u64::MAX` lies above
every real epoch. Retention is off.

### 2.2 Retention

Each access to a frame's word, to `occupied_budget` and to a ring slot is a
step. The word is a pair (count, HELD) with a ceiling `CountMask`, and the ring
is the code's bounded ring with per-slot sequence numbers: producers take
tickets, fill in any order, and one consumer pops while the head is ready. The
fast path that skips the words when the budget was zero at one load is kept.
Files retire and come back through `file_retiring`.

### 2.3 PoolWait

One owner runs `poll_wait`, other threads run `poll_report`, a submitter admits
an operation. The set-ups are the eager backend (condition variable), the ring
with a second poller, and the ring without. The eventfd, its poll in the
kernel, the completion of that poll and its re-arming are four bits, so that
the windows between them are visible.

### 2.4 MissFlow

The lock holder goes through the phases of `claim_frame`, `poll` and `ready`
(claim, drain, evict, reclaim, settle) as separate steps, since pins, token
drops and completions take no lock. Records carry generation, bytes filled and
position in the pending index; a read may fail, hit the end of the file, be
short and be continued, or have its continuation refused.

### 2.5 DriverCore

The ring driver: reserving, registering and opening a file; admission against
operations in flight plus deferred completions; filling the ring from the ready
queue; reaping with retries, short scatter reads and held leases; retirement
with its unlocked window; and the teardown that quiesces or gives up. The
result of an entry is chosen when it is reaped, as nobody can see it earlier.

### 2.6 FileLifecycle

Pool entries, live words and lease counters over an abstract driver, with one
page per file and a set of product operations in submission order. A thread
opening a file, a thread in `get`, lease holders, polls, waiting polls that
have taken completions but not routed them, `progress_retirements` slot by slot
with its window between close and the question whether the file is closed, and
the drop of the pool interleave.

### 2.7 PageTable and FileSlots

One action is one access to one word of a cell. A writer, the holder of the
control lock, makes a cell's version odd, stores its two words in any order and
makes it even again; a removal pulls later entries of the run back into the gap,
one cell at a time. A reader in `pin_owned` walks the cells, takes the words it
loaded only if the version has not moved, and validates the frame it was led to.
Versions are 64 bits and never return, so the model keeps whether a cell's
version has moved since a reader loaded it. `FileSlots` holds the intrusive
lists; publication links a frame to its file's list and reclamation unlinks it.

### 2.8 Speculation

A reader that touches a speculative frame claims its marker by
compare-and-swap, then sets the frame's bit at each level of the tree, from the
leaf to the root. The lock holder swaps words with zero from the root down and
asks each frame found for its marker. Every such access is a step, and so is
each look of CLOCK at a reference bit (`Look`), under the lock but between the
steps of readers that set bits and of token holders that let go of a page. A
search starts wherever the hand was left, skips frames that tokens wait for
(`prepare_eviction`) and speculative ones, and ends as the code does: with a
victim, with the frame under the hand after a whole round of set bits, or with
nothing after 2N + 1 calls. `Fan` is the 64 of the code made small.

### 2.9 Prefetch

The handlers that run under the control lock (`get`, `prefetch`, `poll`,
`ready`, retirement) are one step each, written as operators on the record of
the pool's state, one per function of the code. Lock-free pins, notifications
and token drops interleave. As in the code, the patterns are told of a page
consumed through the ledger and of a `get` that reaches the control lock; a warm
hit on a page that was resident for another reason is not observed. One file; its last page is where the granule index
of the code ends, so that streams run into the end. A set-up chooses the
readahead mode, the windows asked for and the parts of a page, so that vectors
come back short within a page.

### 2.10 DriverBuild and EagerDriver

`DriverBuild` takes a driver through allocation, locking and registration of its
two arenas, with failure possible at each step. `EagerDriver` goes on from
there on the eager backend: `open` with its probes and direct-I/O policy,
submission, execution of one attempt outside the mutex, retries, scatter reads
by parts into claimed frames, blocking writes and fsyncs, the write arena access
by access with its gate, waiter count and condition variable, the pump of a
waiting allocation and the backlog it fills, close, and drop. `quiesce` goes
pass by pass: the held leases are abandoned (`AbandonHeld`), poll drains the
backlog and executes what is ready, each completion of the batch is continued or
ended (`QuiesceContinue`), and the pass ends with another abandonment; a file
whose last operation ends there is retired. An assertion that fails in drop
ends the model in `panicked`, with the core leaked. That `close` and a blocking
call exclude each other is taken from the types (`close` consumes the handle
the call borrows), and no property is about it.

### 2.11 PoolSizing

No state: the checks of `PoolConfig::validate` on 32-bit numbers with 64-bit
sums, the watermark, the readahead capacity, and the capacities given to the
control, driver, file and page-table constructors, with what those assert.

## 3. What TLC checks

Run one with `tlc -config <cfg> <MC module>` (`Speculation` is its own). Twelve
runs, of which two are expected to end in a violation (section 5).

| Run | Instance | Shows |
|---|---|---|
| `epoch_reclaim` | 2 readers with 2 guards each, 1 frame, 2 epochs, 2 generations | pins, nested pins and hint pins against the slot-by-slot scan implement `PageLease` (`ImplementsLease`); a hint's identity is read only while the frame is published (`IdentityReadSafe`); an evicted frame is freed (`EvictedIsReclaimed`) |
| `page_table` | 1 reader, 3 pages in 2 files, tables of 4 and 8 cells | table and file lists agree with the resident frames after every change (`IndexesExact`); a pinned frame holds the page looked for (`PinnedIdentity`); a walk misses a mapped page only if a removal ran during it (`MissJustified`) |
| `retention` | 2 readers, 2 frames, ring of 2 | handle bytes are stable (`RetainedBytesStable`); counts and budget are exact (`AccountingExact`); the code's assertions hold (`AssertionsHold`); no last release is lost on its way to the drain (`ReleaseKept`) |
| `pool_wait` | owner, second poller, submitter; three set-ups | no wake (`UnsharedWakeReturnsWait`), release (`ReleaseIsDrained`) or operation (`OpCompletes`) is slept through |
| `pool_wait_swallowed` | the ring with a second poller | violation of `WakeReturnsWait` |
| `miss_flow` | 2 threads, up to 3 pages and 2 frames, granule of 1 or 2 | one read per page, and a slot chosen before the frame claim is good after it (`SingleFlight`); waiter counts name live tokens of live records (`WaiterExact`); a read page stays until its waiters had it (`SuccessProtects`); all indexes agree (`IndexesAgree`); every admitted read is decided (`MissTerminates`) |
| `miss_consumption` | 2 threads, 1 page, 1 frame | violation of `ConsumptionExact` |
| `speculation` | 1 reader, 3 frames, words of 2 bits | markers, ledger and tree agree and no notification is lost (`SpeculationExact`); consumption is reported in its order (`FeedbackOrdered`); the bounded search gives up, or takes a frame it has not found clear, only when readers set bits or dropped tokens meanwhile (`SearchExcused`); a consumed frame's credit comes back (`ConsumedIsRecovered`) |
| `prefetch` | 1 reader, 3 frames, 2 credits, 6 pages, vectors of 2 | credits match entries (`LedgerExact`); each page of a span is settled once (`SpansExact`); ready and obsolete queues are exact (`QueuesExact`); a reader whose observed accesses go on page by page is not mistaken for one that jumped (`StreamKept`; a warm hit that is not observed is a gap, and a gap resets the stream) |
| `driver_core` | 2 threads, 1 file slot, 2 operation slots, 2 generations of each | entries reach their own file and backend slots change hands as asserted (`BackendExact`); counters are exact and a file is retired once (`AccountingExact`); an operation is in one place (`OpPlaced`); a drained teardown leaves the kernel nothing (`TeardownQuiet`) |
| `eager_driver` | up to 3 threads, 2 frames of 2 parts, 1 staging slot, 2 operations | arenas stay locked and mapped as long as needed and no longer (`ArenasSettled`); a frame holds parts of its own page only (`FramesExact`); a staging slot has one owner (`SlotExclusive`); operations keep their file and slot until they end and fit the queue, teardown always has something to execute, and its one reachable assertion is that of section 5 (`OperationsServed`); a released slot reaches a waiter (`ReleaseReachesWaiter`) |
| `file_lifecycle` | 1 opener, 1 reader, 1 file slot with 2 generations, 2 operations | the registration assertions hold (`RegistrationFinds`); fsyncs keep their place behind writes (`BarrierOrder`); nothing outlives its file (`NothingOutlivesFile`); a drop that meets its deadline drains (`ShutdownDrains`); retirement ends, held fsyncs included (`RetirementCompletes`) |

For every property of a passing run PROJECT.json names a mutant: an operator
next to the definition it replaces, changing it as a slip in the code would.
Each property is violated by its mutant.

### 3.1 Bounds, and why they are enough

* **Set-ups.** A constant `Setups` holds several small worlds, and Init chooses
  one. Each is made for one kind of case, as a comment beside it says; one
  large world with all of them at once would not finish.
* **Epochs.** Maturity takes two advances, so two epochs let one frame mature
  with every stale load in between; what longer histories add is left to the
  proof. `Retention` has four, so that both frames mature twice.
* **Generations** (2, in one set-up 3). One reuse of a slot is enough for a
  stale name to meet its successor. A generation that would pass the bound
  disables the action; in the code 32- and 64-bit generations do not run out in
  practice. `FileLifecycle` bounds submissions per generation
  (`MaxSequence`): three in the first, one after reuse.
* **Threads** (2 or 3). Each race is between one lock holder and one lock-free
  party, or between two lock-free parties. `PoolWait` has three roles;
  `EagerDriver` has three threads on one staging slot, so that two sleep.
* **Frames.** `PoolBuilder` demands headroom of three frames per read in
  flight. The instances have fewer because the other frames may be pinned or
  resident with other pages outside the model; fewer frames only make
  eviction and refusals more frequent.
* **Cells.** 2 and 3 frames give tables of 4 and 8 cells, as in the code. Homes
  are three neighbours across the wrap, so that runs collide, shift and wrap.
  Lookups are explored at 4 cells, where every displaced position occurs.
* **Ring** (2 slots). Tickets wrap several times within the epoch bound.
* **Tree.** Three frames and words of two bits give two levels, the least with
  an inner word.
* **Credits** (2 of 3 frames). At this size automatic windows have one page, as
  the code decides; vectors come from explicit requests. `Speculation` has the
  same numbers: one frame fewer than the pool in the ledger leaves CLOCK
  something to find. An automatic window of
  several pages takes at least four credits, which is beyond the instance.
* **Retries** (1), **granule** and **parts** (2). One retry, and one short
  transfer with a continuation.
* **File slots** (1). Files interact through the slot they share in turn, and
  the properties are per slot.
* **Symmetry** is used for threads, frames and pages, only in runs without
  temporal properties.

`CHECK_DEADLOCK FALSE` is given for `DriverCore` and `FileLifecycle`, which end
when the driver or the pool is dropped. `EagerDriver` says with an action when
it has ended. In the other models some call can always be made, and TLC checks
that no state is stuck.

### 3.2 Fairness

Nothing in dios runs by itself: progress is what polls make of it. So every
liveness property assumes that the embedder keeps polling, and says so.

* `EpochReclaim`: the lock holder's step under way finishes and another advance
  follows; a thread finishes the pin it is in. A reader whose guards overlap for
  ever keeps its slot at one epoch and stalls reclamation, by design;
  `EvictedIsReclaimed` is therefore about readers that are without a guard
  again and again.
* `PoolWait`: the owner keeps calling `poll_wait`, and wakers and kernel finish
  what they began. Obtaining the mutex takes strong fairness: competing calls
  may hold it again and again, but it is assumed to be granted in the end. No
  deadline is relied on.
* `MissFlow`: the kernel answers each read, the lock holder finishes, a `get`
  obtains the lock, somebody polls.
* `Speculation`: the lock holder goes on with its drain or search and polls
  again; a reader finishes the touch it is in. Letting go of the lock has strong
  fairness: a critical section may begin another search, but only finitely many.
* `EagerDriver`: a thread inside a call goes on. Nothing is assumed of the
  calls it makes, and deadlines need not pass.
* `FileLifecycle`: the kernel answers each operation and each read; users drop
  the tokens, guards and leases they hold; a retirement under way moves; and
  polls go on. Polls get strong fairness, because other calls may take the lock
  again and again. Nobody is obliged to open, get or submit. That epochs mature
  is what `EpochReclaim` shows.

## 4. What is proved

### 4.1 Epoch reclamation

`EpochReclaimProofs` and the modules it extends prove, for any number of
readers, frames, pages and guards and any epoch bound:

| Theorem | Statement |
|---|---|
| `Invariance` | `Spec => []IndInv` |
| `TypeCorrect` | every variable keeps its type |
| `GuardSafety` | no guarded frame is freed, claimed or overwritten |
| `IdentitySafety` | a hint pin reads a frame's identity only while it is published |
| `EpochDiscipline` | a published epoch never runs ahead of the global one and exists exactly while a guard or a begun pin does |
| `QueueSoundness` | the evict queue is ordered by tag and fits the frames |
| `LeaseRefinement` | `Spec => Lease!Spec`: the epoch scheme implements the lease contract |

*Assumptions* (named `ASSUME`s of `EpochReclaim`): at least one reader slot and
one guard per reader, natural bounds, finitely many frames, sentinels outside
the sets they extend.

*Why an inductive invariant is needed.* "No guarded frame is freed" is not
preserved on its own: a state in which a guarded frame's queue entry is two
epochs old satisfies it, and the next drain breaks it. `ProtectInv` says why no
such state is reached. A reader that relies on an evicted frame, by a guard or
by a pin that has found it and not yet committed, has published an epoch no
later than the frame's tag. Hence the global epoch is at most one past the tag,
and not past it at all once an advance under way has already read that reader's
slot. The remaining conjuncts supply what this needs: guard counts count guards
(`CountInv`), a slot is quiescent exactly when nothing relies on it
(`EpochMatchesGuards`), published epochs do not run ahead (`LocalNeverAhead`),
mappings lead to resident frames (so a lookup never finds a queued one) and
queue tags are ordered (`FrameInv`).

*Layout.* `EpochReclaimLemmas` has the facts used by several actions;
`EpochReclaimPin`, `EpochReclaimGuard` and `EpochReclaimControl` have one lemma
per action, with one step per conjunct of `IndInv`; `EpochReclaimProofs` joins
them and derives the theorems. `tlapm <module>.tla` checks one module. The
refinement follows from `IndInv` action by action: `CommitPin` is `Acquire`,
`ReleaseGuard` is `Drop`, claim and publish are `Overwrite` of a frame nobody
leases, and everything else leaves the mapped variables unchanged.

### 4.2 Sizing

`PoolSizing` proves, for every configuration of 32-bit numbers:

| Theorem | Statement |
|---|---|
| `WatermarkFits` | the frames `validate` demands are computed without overflow of 64 bits |
| `ValidatedFits` | with all guards, retained handles and speculation credits in use, a validated pool has three frames left per admissible read |
| `CapacitiesFit` | a validated configuration meets the assertions of the constructors it is passed to, and one batch takes the completions of every operation the driver can hold |

The constructors' own `expect`s on sizes are outside: `validate` puts no bound
on the power of two the page table rounds up to, so a pool of more than 2^30
frames, should its arena be granted, ends in a panic and not in an error.

### 4.3 Only model-checked

All liveness (fairness is outside the proof system's reach), and the invariants
of the modules other than `EpochReclaim` and `PoolSizing`.

## 5. Where code and text disagree

1. **A wake can be slept through with two pollers on the ring**
   (`pool_wait_swallowed`). `poll_wait_ring_for_pool` (`driver.rs:2376`) arms a
   generation and enters the kernel wait without looking again. A concurrent
   `poll_report` can reap the wake completion and drain the eventfd in between,
   and the owner sleeps to its deadline. `design.md:246-249` of the v1 scope says
   a wake "immediately before or during the park changes the generation and must
   return the wait". Without the second poller, and on the eager backend with
   one, the property holds (`UnsharedWakeReturnsWait`).
2. **A debug assertion can fail** (`miss_consumption`). The Failed branch of
   `Pool::ready` (`pool/mod.rs:1931`) asserts that the waiter count is what its
   own decrement left. Another token of the same generation can be dropped in
   between without the lock. Release builds are unaffected, as the count is read
   again.
3. **Drop of an eager driver can panic.** `continue_read_vector` asserts
   "continuation owns the original generation" (`read_vector.rs:511-514`). An
   allocation waiting for a staging slot may have pumped a scatter read that came
   back short, so that its completion is in the backlog. `quiesce` abandons
   every held slot first; if another operation is still in flight, its poll then
   drains that completion and `quiesce_continue_vectors` continues it. The run
   `eager_driver` reaches the state (`panicked`), and `OperationsServed` says
   that this is the only way to it: a short read the teardown itself executed
   always finds its slot. Only builds with the pump (not Linux) are concerned.

## 6. What is not modelled

* The wait for a staging slot on the ring is in `EagerDriver` (the set-up
  without a pump), not in `DriverCore`, which has the ring's blocking calls.
* A reader's bound on spins at an odd cell (`SEQLOCK_READ_SPINS_MAX`): a reader
  retries until the version is even.
* Automatic readahead windows of several pages, and more than one reader's
  stream at a time: the code for them is translated, the instances do not reach
  it.
* Bytes, memory mapping, opcode encoding, error texts, observation, benches and
  test doubles: no protocol state.
* Weak memory: accesses are sequentially consistent, argued from the fences in
  section 2.1 and from acquire/release pairs elsewhere, except for the words of
  a page-table cell, whose relaxed accesses happen in any order. For the write
  arena this is an abstraction and not an argument: a release stores the free
  bit and loads the waiter count, a waiter stores the count and loads the bit,
  and acquire/release alone would let both loads miss the other's store.
  `ReleaseReachesWaiter` is about the interleavings of these accesses, and a
  waiter that misses a release on such hardware is left to its timeout. The
  repository's loom models exercise the orderings themselves.
