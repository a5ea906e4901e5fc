---------------------------- MODULE EagerDriver ----------------------------
(***************************************************************************)
(* The driver on the eager backend, from construction to drop: the write  *)
(* arena with its sleeping allocators, admission, operations executed on  *)
(* the polling thread, scatter reads into claimed frames, the backlog an  *)
(* allocating thread pumps into, blocking metadata writes (driver.rs,     *)
(* driver/read_vector.rs, backend/eager.rs, pool/write_arena.rs, open.rs, *)
(* the transfer side of pool/frames.rs).                                  *)
(*                                                                         *)
(* Bytes are counted in parts: a frame holds Parts of them and the file   *)
(* offset of a read is a part number.  DriverCore takes apart what is one *)
(* step here: the window of a retirement, deferred completions, the       *)
(* generations of operation tokens.                                       *)
(***************************************************************************)
EXTENDS DriverBuild, Sequences, SequencesExt, FiniteSetsExt

CONSTANTS
    Threads,         \* threads that call the driver
    Frames,          \* read frames
    Parts,           \* parts of one frame (the granule)
    WriteSlots,      \* number of staging slots of the write arena
    QueueCapacity,
    BatchCapacity,   \* completions one poll returns
    RetryBound,
    Setups           \* embedders: operation kinds, calling threads, I/O modes of
                     \* the files, opens (a bound), whether waits pump, whether
                     \* the arenas are locked

ASSUME EagerAssumption ==
    /\ Parts \in Nat \ {0} /\ WriteSlots \in Nat \ {0}
    /\ QueueCapacity \in Nat \ {0} /\ BatchCapacity \in Nat \ {0}
    /\ RetryBound \in Nat

VARIABLES
    setup,
    file,      \* the one file slot: generation, state, operations in flight
    backend,   \* generation of the file the backend has open, 0 when none
    handle,    \* the embedder's FileHandle: generation and alignment, or None
    slab,      \* operation slots
    ready,     \* queue of slots to execute
    backlog,   \* completions produced by a pumping allocation
    deferred,  \* completions of leases released off the poll path
    done,      \* completions the embedder holds and has not dealt with
    frame,     \* per frame: state, page it was claimed for, parts in it
    free,      \* free bits of the write arena
    own,       \* the WriteSlot a thread holds, 0 when none
    mutex,     \* owner of the submit mutex during a multi-step section
    gate,      \* owner of the write arena's gate
    waiters,   \* its waiter count
    asleep,    \* threads in the condition variable
    pc, ctx,
    at,        \* the free bit a scan looks at
    back,      \* where a thread goes on after an execution or a release
    drained,   \* completions the poll under way has produced
    batch      \* completions in the shutdown batch: out of the backlog, executed

lifeVars == <<setup, batch>>
fileVars == <<file, backend, handle>>
opVars == <<slab, ready, backlog, deferred, done>>
arenaVars == <<free, own, gate, waiters, asleep>>
threadVars == <<pc, ctx, at, back, drained>>
vars == <<buildVars, lifeVars, fileVars, opVars, frame, arenaVars, mutex,
          threadVars>>

OpSlots == 1..QueueCapacity
Slots == 1..WriteSlots
PartOf == 0..(Parts - 1)
Pages == 0..(Cardinality(Frames) - 1)
Running == step = "running"

\* A frame nobody has claimed.  Its old bytes are forgotten: a read that does
\* not write a part must show.
FreeFrame == [state |-> "Free", page |-> 0, bytes |-> [p \in PartOf |-> None]]

EmptyBatch == [old |-> <<>>, new |-> <<>>]

Init ==
    /\ BuildInit
    /\ setup = None
    /\ file = [gen |-> 0, state |-> "Free", inflight |-> 0]
    /\ backend = 0
    /\ handle = None
    /\ slab = [s \in OpSlots |-> None]
    /\ ready = <<>> /\ backlog = <<>> /\ deferred = 0 /\ done = {}
    /\ frame = [f \in Frames |-> FreeFrame]
    /\ free = Slots
    /\ own = [t \in Threads |-> 0]
    /\ mutex = None /\ gate = None /\ waiters = 0 /\ asleep = {}
    /\ pc = [t \in Threads |-> "idle"]
    /\ ctx = [t \in Threads |-> None]
    /\ at = [t \in Threads |-> 1]
    /\ back = [t \in Threads |-> "idle"]
    /\ drained = [t \in Threads |-> 0]
    /\ batch = EmptyBatch

\* The built eager driver is put to use; nothing reads its configuration again.
Start ==
    /\ step = "built" /\ config.backend = "eager"
    /\ step' = "running"
    /\ config' = [config EXCEPT !.posture = "Unregistered", !.lock = "BestEffort"]
    /\ refused' = None
    /\ setup' \in {s \in Setups : s.locked = (locked = Arenas)}
    /\ UNCHANGED <<mapped, locked, pinned, batch, fileVars, opVars, frame,
                   arenaVars, mutex, threadVars>>

\* A thread that is in no call may make one.
Callable(t) == Running /\ pc[t] = "idle" /\ t \in setup.callers

Goto(t, label) == pc' = [pc EXCEPT ![t] = label]

(***************************************************************************)
(* Files.                                                                  *)
(***************************************************************************)

IsLive(gen) == file.gen = gen /\ file.state = "Open"

\* on_complete: the file record after one operation of it ended, and whether
\* its deferred close is now due.
OnComplete(f) == [f EXCEPT !.inflight = @ - 1]
RetireDue(f) == f.inflight = 0 /\ f.state = "Closing"

\* statx_dio_alignment: both reported alignments must be powers of two.
StatxAlignments == {0, 1, 2, 4}
StatxAlignment(memory, offset) ==
    IF memory = 0 \/ offset = 0 THEN 0 ELSE Max({memory, offset})

\* probe_direct_alignment: statx, else the first candidate a direct read of
\* which succeeds (write_probe); 0 when there is none.
ProbeAlignment(statx, candidates) ==
    IF statx # 0 THEN statx
    ELSE IF candidates = {} THEN 0 ELSE Min(candidates)

\* direct_arena_compatible.
ArenaCompatible(alignment) == alignment <= Parts /\ Parts % alignment = 0

\* open::probe: 0 is buffered mode, a positive number direct mode with that
\* alignment, None the error that fails the open.
Probe(policy, alignment, enabled) ==
    IF policy = "Disabled" THEN 0
    ELSE IF alignment = 0 \/ ~ArenaCompatible(alignment) \/ ~enabled
         THEN IF policy = "Required" THEN None ELSE 0
         ELSE alignment

Modes == {Probe(policy, ProbeAlignment(StatxAlignment(m, o), c), enabled) :
            policy \in {"Disabled", "Preferred", "Required"},
            m \in StatxAlignments, o \in StatxAlignments,
            c \in SUBSET {1, 2, 4}, enabled \in BOOLEAN}

\* A file is retired when it is due: its backend entry goes first
\* (retire, finish_retire, EagerBackend::retire_file).
Retired(f, due) == IF due THEN [f EXCEPT !.state = "Closed"] ELSE f
BackendAfter(due) == IF due THEN 0 ELSE backend

\* flush_deferred: the completions of released leases are finalized, and the
\* one that ended a closing file retires it.
FlushDue == deferred > 0 /\ RetireDue(file)

\* Eager::register_file: the backend holds the file of this generation.
RegisterFile(gen) == backend' = gen

\* open_with_direct_io, create: reserve the slot, open, probe, register; every
\* failure aborts the reservation, which keeps the new generation.
OpenFile(t) ==
    /\ Callable(t) /\ mutex = None
    /\ handle = None
    /\ Retired(file, FlushDue).state \in {"Free", "Closed"}
    /\ file.gen < setup.opens
    /\ \E mode \in Modes \intersect (setup.modes \union {None}) :
         /\ file' = [gen |-> file.gen + 1, inflight |-> 0,
                     state |-> IF mode = None THEN "Free" ELSE "Open"]
         /\ RegisterFile(IF mode = None THEN BackendAfter(FlushDue) ELSE file.gen + 1)
         /\ handle' = IF mode = None THEN None
                      ELSE [gen |-> file.gen + 1, align |-> mode]
    /\ deferred' = 0
    /\ UNCHANGED <<buildVars, lifeVars, slab, ready, backlog, done, frame,
                   arenaVars, mutex, threadVars>>

\* A blocking call borrows the handle, so close waits for it.
Borrowed == \E t \in Threads : ctx[t] # None /\ ctx[t].slot = 0

\* Retires the backend entry of a file that still has operations.
CloseFileAtOnce(t) ==
    /\ Callable(t) /\ mutex = None
    /\ handle # None /\ ~Borrowed
    /\ file' = Retired([file EXCEPT !.state = "Closing"], file.inflight = 0)
    /\ backend' = 0
    /\ handle' = None /\ deferred' = 0
    /\ UNCHANGED <<buildVars, lifeVars, slab, ready, backlog, done, frame,
                   arenaVars, mutex, threadVars>>

CloseFile(t) ==
    /\ Callable(t) /\ mutex = None
    /\ handle # None /\ ~Borrowed
    /\ LET due == file.inflight = 0
       IN /\ file' = Retired([file EXCEPT !.state = "Closing"], due)
          /\ backend' = BackendAfter(due)
    /\ handle' = None /\ deferred' = 0
    /\ UNCHANGED <<buildVars, lifeVars, slab, ready, backlog, done, frame,
                   arenaVars, mutex, threadVars>>

(***************************************************************************)
(* Read vectors and the frames they own.                                   *)
(*                                                                         *)
(* A vector is [frames, ordinal, filled, io]: the frames not yet taken     *)
(* out, how many were, the parts transferred, and the descriptors of the   *)
(* transfer under way, one <<frame, part>> per part, or None.              *)
(***************************************************************************)

NewVector(frames) == [frames |-> frames, ordinal |-> 0, filled |-> 0, io |-> None]
Remaining(v) == (v.ordinal + Len(v.frames)) * Parts - v.filled
DestinationOffset(v) == v.filled % Parts
Completed(v) == v.filled \div Parts - v.ordinal

\* VectorStorage::prepare forgetting the offset into the first frame.
PrepareAtZero(v) ==
    [v EXCEPT !.io = [k \in 1..Remaining(v) |->
        <<v.frames[(k - 1) \div Parts + 1], (k - 1) % Parts>>]]

\* VectorStorage::prepare: the first descriptor starts at the offset into the
\* first frame, the others at the start of theirs.
Prepare(v) ==
    [v EXCEPT !.io = [k \in 1..Remaining(v) |->
        LET p == DestinationOffset(v) + k - 1
        IN <<v.frames[p \div Parts + 1], p % Parts>>]]

\* record_completion: progress, and the descriptors are dead.
RecordCompletion(v, n) == [v EXCEPT !.filled = @ + n, !.io = None]

\* take_completed removes the full prefix.
TakeCompleted(v) ==
    [v EXCEPT !.frames = SubSeq(@, Completed(v) + 1, Len(@)),
              !.ordinal = @ + Completed(v)]

\* claim, claim_unidentified: Free to InFlight.
Claimed(fr, frames, page) ==
    [f \in Frames |->
        IF f \in Range(frames)
        THEN [FreeFrame EXCEPT
                !.state = "InFlight",
                !.page = page + (CHOOSE i \in DOMAIN frames : frames[i] = f) - 1]
        ELSE fr[f]]

\* abort of a set of tokens: InFlight to Free.
Aborted(fr, frames) == [f \in Frames |-> IF f \in frames THEN FreeFrame ELSE fr[f]]

\* Drop for ReadVector: its tokens are aborted unless the kernel may write.
Dropped(fr, v) == IF v.io = None THEN Aborted(fr, Range(v.frames)) ELSE fr

(***************************************************************************)
(* Admission.                                                              *)
(***************************************************************************)

InFlight == file.inflight
Admits ==
    /\ handle # None /\ IsLive(handle.gen)
    /\ InFlight + Len(backlog) < QueueCapacity
    /\ \E s \in OpSlots : slab[s] = None

\* commit: fill a slot, count the operation, append it to the ready queue.
Commit(op) ==
    LET s == Min({i \in OpSlots : slab[i] = None})
    IN /\ slab' = [slab EXCEPT ![s] = op]
       /\ ready' = Append(ready, s)
       /\ file' = [file EXCEPT !.inflight = @ + 1]

Operation(kind, from, len, wslot, vec) ==
    [kind |-> kind, gen |-> handle.gen, align |-> handle.align, from |-> from,
     len |-> len, wslot |-> wslot, vec |-> vec, state |-> "Queued"]

\* The caller's WriteSlot is not consumed by the submission.
SubmitWriteKeeping(t) ==
    /\ Callable(t) /\ mutex = None
    /\ "write" \in setup.kinds
    /\ own[t] # 0 /\ Admits
    /\ Commit(Operation("write", 0, Parts, own[t], None))
    /\ deferred' = 0
    /\ UNCHANGED <<buildVars, lifeVars, backend, handle, backlog, done, frame,
                   arenaVars, mutex, threadVars>>

\* submit_write: the staging slot moves into the operation, or stays with the
\* caller when admission refuses.
SubmitWrite(t) ==
    /\ Callable(t) /\ mutex = None
    /\ "write" \in setup.kinds
    /\ own[t] # 0 /\ Admits
    /\ Commit(Operation("write", 0, Parts, own[t], None))
    /\ own' = [own EXCEPT ![t] = 0]
    /\ deferred' = 0
    /\ UNCHANGED <<buildVars, lifeVars, backend, handle, backlog, done, frame,
                   free, gate, waiters, asleep, mutex, threadVars>>

\* submit_fsync.
SubmitFsync(t) ==
    /\ Callable(t) /\ mutex = None
    /\ "fsync" \in setup.kinds /\ Admits
    /\ Commit(Operation("fsync", 0, 0, 0, None))
    /\ deferred' = 0
    /\ UNCHANGED <<buildVars, lifeVars, backend, handle, backlog, done, frame,
                   arenaVars, mutex, threadVars>>

\* The reads: into one frame or a vector of frames; for the pool, which publishes
\* the frames, or raw, for nobody but the reader of the completion.
RawReads == {"rawpoint", "raw"}
VectorReads == {"vector", "raw"}

\* n frames are claimed, then the read is admitted; a refused submission aborts
\* them again.
ReadInto(t, kind, n) ==
    /\ Callable(t) /\ mutex = None
    /\ kind \in setup.kinds /\ Admits
    /\ \E frames \in [1..n -> {f \in Frames : frame[f].state = "Free"}],
          page \in 0..(Cardinality(Frames) - n) :
         /\ IsInjective(frames)
         /\ frame' = Claimed(frame, frames, page)
         /\ Commit(Operation(kind, page * Parts, n * Parts, 0,
                             Prepare(NewVector(frames))))
    /\ deferred' = 0
    /\ UNCHANGED <<buildVars, lifeVars, backend, handle, backlog, done,
                   arenaVars, mutex, threadVars>>

SubmitRead(t) == ReadInto(t, "point", 1)
SubmitRawRead(t) == ReadInto(t, "rawpoint", 1)
SubmitReadVector(t) ==
    \E kind \in VectorReads, n \in 1..Cardinality(Frames) : ReadInto(t, kind, n)

\* is_closed, and any call that is then refused: the flush alone.
Flush(t) ==
    /\ Callable(t) /\ mutex = None
    /\ deferred > 0
    /\ deferred' = 0
    /\ file' = Retired(file, FlushDue)
    /\ backend' = BackendAfter(FlushDue)
    /\ UNCHANGED <<buildVars, lifeVars, handle, slab, ready, backlog, done, frame,
                   arenaVars, mutex, threadVars>>

\* classify: how an attempt can go wrong.  Failed is also the result of an
\* operation that ended in an error.
Failed == -1
Interrupted == -2
WouldBlock == -3
Classified == {Failed, Interrupted, WouldBlock}

(***************************************************************************)
(* Execution on the calling thread.                                        *)
(***************************************************************************)

\* poll: flush, drain the backlog into the batch, then execute ready operations
\* until the batch is full.  Completions without a destination end here.
BeginPoll(t) ==
    /\ Callable(t) /\ mutex = None
    /\ deferred > 0 \/ backlog # <<>> \/ ready # <<>>
    /\ LET n == Min({Len(backlog), BatchCapacity})
       IN /\ done' = done \union {c \in Range(SubSeq(backlog, 1, n)) : c.vec # None}
          /\ backlog' = SubSeq(backlog, n + 1, Len(backlog))
          /\ drained' = [drained EXCEPT ![t] = n]
    /\ deferred' = 0
    /\ file' = Retired(file, FlushDue)
    /\ backend' = BackendAfter(FlushDue)
    /\ Goto(t, "poll")
    /\ UNCHANGED <<buildVars, lifeVars, handle, slab, ready, frame, arenaVars,
                   mutex, ctx, at, back>>

\* OpContext: what an attempt needs, copied out of the slab entry.  The
\* destination is moved, so that the entry has none while it executes.
Context(s) ==
    [slot |-> s, kind |-> slab[s].kind, gen |-> slab[s].gen, vec |-> slab[s].vec,
     from |-> slab[s].from, left |-> slab[s].len, len |-> slab[s].len,
     retries |-> 0, result |-> None]

\* prepare_next, from poll (while the batch has room) or from a pump.
PrepareNext(t) ==
    /\ mutex = None /\ ready # <<>>
    /\ \/ pc[t] = "poll" /\ drained[t] < BatchCapacity
       \/ pc[t] = "pump"
    /\ ctx' = [ctx EXCEPT ![t] = Context(Head(ready))]
    /\ slab' = [slab EXCEPT ![Head(ready)].state = "Active",
                            ![Head(ready)].vec = None]
    /\ ready' = Tail(ready)
    /\ back' = [back EXCEPT ![t] = IF pc[t] = "pump" THEN "scan" ELSE "poll"]
    /\ Goto(t, "execute")
    /\ UNCHANGED <<buildVars, lifeVars, fileVars, backlog, deferred, done, frame,
                   arenaVars, mutex, at, drained>>

EndPoll(t) ==
    /\ pc[t] = "poll"
    /\ drained[t] >= BatchCapacity \/ (ready = <<>> /\ mutex = None)
    /\ Goto(t, "idle")
    /\ drained' = [drained EXCEPT ![t] = 0]
    /\ back' = [back EXCEPT ![t] = "idle"]
    /\ UNCHANGED <<buildVars, lifeVars, fileVars, opVars, frame, arenaVars, mutex,
                   ctx, at>>

\* write_all_blocking, fsync_blocking: liveness is checked under the mutex, the
\* call runs without it.
BeginBlocking(t) ==
    /\ Callable(t) /\ mutex = None
    /\ "blocking" \in setup.kinds
    /\ handle # None /\ IsLive(handle.gen)
    /\ \E kind \in {"write", "fsync"} :
         LET len == IF kind = "write" THEN Parts ELSE 0
         IN ctx' = [ctx EXCEPT ![t] =
                      [slot |-> 0, kind |-> kind, gen |-> handle.gen, vec |-> None,
                       from |-> 0, left |-> len, len |-> len, retries |-> 0,
                       result |-> None]]
    /\ Goto(t, "execute")
    /\ UNCHANGED <<buildVars, lifeVars, fileVars, opVars, frame, arenaVars, mutex,
                   at, back, drained>>

\* The frames after a transfer of n parts starting at file part c.from
\* (attempt_read_vector writes destination by destination and stops at the
\* first short or failed one).
Transferred(c, n) ==
    [f \in Frames |->
        [frame[f] EXCEPT !.bytes = [p \in PartOf |->
            IF \E k \in 1..n : c.vec.io[k] = <<f, p>>
            THEN c.from + (CHOOSE k \in 1..n : c.vec.io[k] = <<f, p>>) - 1
            ELSE @[p]]]]

\* attempt_map_transfer: a transfer moves at most what was asked for.
MapTransfer(requested) == 0..requested

\* Eager::attempt: what one system call for a context may report.
Attempts(c) ==
    IF backend = 0 THEN {Failed}
    ELSE Classified \union (IF c.kind = "fsync" THEN {0} ELSE MapTransfer(c.left))

\* EINTR is retried on every operation, EAGAIN on reads, and a write that
\* moved nothing is tried again; all within the bound.
Retries(c, a) ==
    /\ c.retries < RetryBound
    /\ \/ a = Interrupted
       \/ a = WouldBlock /\ c.kind \notin {"write", "fsync"}
       \/ a = 0 /\ c.kind = "write"

\* A write with bytes left goes on after the ones it moved.
GoesOn(c, a) == c.kind = "write" /\ 0 < a /\ a < c.left
AdvanceWrite(c, n) == [c EXCEPT !.from = @ + n, !.left = @ - n]

\* What execute reports: the bytes, for a write the length of all of it.
Outcome(c, a) ==
    IF a < 0 \/ (c.kind = "write" /\ a = 0) THEN Failed
    ELSE IF c.kind = "write" THEN c.len ELSE a

\* execute: attempts on the calling thread, without the mutex, until one of
\* them settles the operation.
Attempt(t) ==
    LET c == ctx[t] IN
    /\ pc[t] = "execute"
    /\ \E a \in Attempts(c) :
         /\ frame' = IF c.vec = None \/ a < 0 THEN frame ELSE Transferred(c, a)
         /\ \/ /\ Retries(c, a)
               /\ ctx' = [ctx EXCEPT ![t].retries = @ + 1]
               /\ UNCHANGED pc
            \/ /\ GoesOn(c, a)
               /\ ctx' = [ctx EXCEPT ![t] = AdvanceWrite(c, a)]
               /\ UNCHANGED pc
            \/ /\ ~Retries(c, a) /\ ~GoesOn(c, a)
               /\ ctx' = [ctx EXCEPT ![t].result = Outcome(c, a)]
               /\ Goto(t, "publish")
    /\ UNCHANGED <<buildVars, lifeVars, fileVars, opVars, arenaVars, mutex, at,
                   back, drained>>

EndBlocking(t) ==
    /\ pc[t] = "publish" /\ ctx[t].slot = 0
    /\ ctx' = [ctx EXCEPT ![t] = None]
    /\ Goto(t, "idle")
    /\ UNCHANGED <<buildVars, lifeVars, fileVars, opVars, frame, arenaVars, mutex,
                   at, back, drained>>

Progress(c) == IF c.result = Failed THEN 0 ELSE c.result

\* The lease of a completion: a short scatter read may be continued, a pool
\* read that ended still owns its slot, anything else has none.
LeaseOf(c) ==
    CASE c.kind \notin VectorReads -> None
      [] c.kind \in VectorReads /\ 0 < Progress(c) /\ Progress(c) < c.len
            -> "Continuation"
      [] c.kind = "vector" /\ ~(0 < Progress(c) /\ Progress(c) < c.len)
            -> "Terminal"
      [] OTHER -> None

\* finish_attempt: the slot is kept for a lease or reclaimed.
FinishAttempt(c) ==
    LET v == IF c.vec = None THEN None ELSE RecordCompletion(c.vec, Progress(c))
    IN [lease |-> LeaseOf(c), vec |-> v, raw |-> c.kind \in RawReads,
        entry |-> IF LeaseOf(c) = None THEN None
                  ELSE [slab[c.slot] EXCEPT !.state = LeaseOf(c), !.vec = None,
                                            !.from = @ + Progress(c),
                                            !.len = @ - Progress(c)]]

\* release_frame: the frames of a raw read that has ended are aborted here, the
\* completion carries none; those of a pool read go with the completion.
ReleaseFrame(fin, fr) ==
    IF fin.entry = None /\ fin.raw
    THEN [frame |-> Dropped(fr, fin.vec), vec |-> None]
    ELSE [frame |-> fr, vec |-> fin.vec]

\* finish_attempt and retire: the slot, the file record, the frames, the staging
\* slot's free bit, and the completion for the batch.
Finish(c, fr) ==
    LET fin == FinishAttempt(c)
        ended == fin.entry = None
        due == ended /\ RetireDue(OnComplete(file))
    IN /\ slab' = [slab EXCEPT ![c.slot] = fin.entry]
       /\ file' = IF ended THEN Retired(OnComplete(file), due) ELSE file
       /\ backend' = BackendAfter(due)
       /\ frame' = ReleaseFrame(fin, fr).frame
       /\ free' = free \union ({slab[c.slot].wslot} \ {0})

Completion(c, fr) ==
    LET fin == FinishAttempt(c)
    IN [slot |-> c.slot, lease |-> fin.lease, raw |-> fin.raw,
        vec |-> ReleaseFrame(fin, fr).vec]

\* publish, publish_to_backlog: finish under the mutex, hand the completion to
\* the batch or the backlog, retire a closed file.  The mutex stays held while
\* a write releases its staging slot.
Publish(t) ==
    LET c == ctx[t]
        completion == Completion(c, frame)
    IN
    /\ pc[t] = "publish" /\ c.slot # 0 /\ mutex = None
    /\ Finish(c, frame)
    /\ IF back[t] = "scan"
       THEN backlog' = Append(backlog, completion) /\ UNCHANGED <<done, drained>>
       ELSE /\ done' = done \union {d \in {completion} : d.vec # None}
            /\ drained' = [drained EXCEPT ![t] = @ + 1]
            /\ UNCHANGED backlog
    /\ ctx' = [ctx EXCEPT ![t] = None]
    /\ IF slab[c.slot].wslot # 0 THEN mutex' = t /\ Goto(t, "released")
       ELSE mutex' = None /\ Goto(t, back[t])
    /\ UNCHANGED <<buildVars, lifeVars, handle, ready, deferred, own, gate,
                   waiters, asleep, at, back>>

(***************************************************************************)
(* The write arena.                                                        *)
(***************************************************************************)

\* alloc_write_slot ("try") and alloc_write_slot_wait ("scan").
BeginAlloc(t) ==
    /\ Callable(t) /\ own[t] = 0
    /\ "write" \in setup.kinds
    /\ \E label \in {"try", "scan"} : Goto(t, label)
    /\ UNCHANGED <<buildVars, lifeVars, fileVars, opVars, frame, arenaVars, mutex,
                   ctx, at, back, drained>>

\* ArenaState::alloc: swap the free bits one after the other; the first that
\* was set is ours.
Scan(t) ==
    /\ pc[t] \in {"try", "scan"}
    /\ IF at[t] \in free
       THEN /\ free' = free \ {at[t]}
            /\ own' = [own EXCEPT ![t] = at[t]]
            /\ at' = [at EXCEPT ![t] = 1]
            /\ Goto(t, "idle")
       ELSE /\ at' = [at EXCEPT ![t] = (@ % WriteSlots) + 1]
            /\ IF at[t] < WriteSlots THEN UNCHANGED pc
               ELSE Goto(t, IF pc[t] = "try" THEN "idle" ELSE "decide")
            /\ UNCHANGED <<free, own>>
    /\ back' = [back EXCEPT ![t] = "idle"]
    /\ UNCHANGED <<buildVars, lifeVars, fileVars, opVars, frame, gate, waiters,
                   asleep, mutex, ctx, drained>>

\* alloc_write_slot_wait: the deadline has passed.
GiveUp(t) ==
    /\ pc[t] = "decide"
    /\ Goto(t, "idle")
    /\ UNCHANGED <<buildVars, lifeVars, fileVars, opVars, frame, arenaVars, mutex,
                   ctx, at, back, drained>>

\* On the eager backend the thread first pumps one admitted operation (see
\* PrepareNext); with nothing to pump, and always on the ring, it waits.
DecidePump(t) ==
    /\ \/ pc[t] = "decide" /\ Goto(t, IF setup.pumps THEN "pump" ELSE "wait")
       \/ pc[t] = "pump" /\ mutex = None /\ ready = <<>> /\ Goto(t, "wait")
    /\ UNCHANGED <<buildVars, lifeVars, fileVars, opVars, frame, arenaVars, mutex,
                   ctx, at, back, drained>>

\* wait_for_release: count ourselves as a waiter, under the gate.
EnterWait(t) ==
    /\ pc[t] = "wait" /\ gate = None
    /\ gate' = t
    /\ waiters' = waiters + 1
    /\ Goto(t, "check")
    /\ UNCHANGED <<buildVars, lifeVars, fileVars, opVars, frame, free, own, asleep,
                   mutex, ctx, at, back, drained>>

\* Goes to sleep without looking at the free bits again.
CheckBlindly(t) ==
    /\ pc[t] = "check"
    /\ gate' = None /\ asleep' = asleep \union {t}
    /\ Goto(t, "sleep")
    /\ UNCHANGED <<buildVars, lifeVars, fileVars, opVars, frame, free, own, waiters,
                   mutex, ctx, at, back, drained>>

\* wait_for_release: look at the free bits again; leave if one is set, sleep
\* and drop the gate when none is.
Check(t) ==
    /\ pc[t] = "check"
    /\ \/ /\ at[t] \in free
          /\ gate' = None /\ waiters' = waiters - 1
          /\ at' = [at EXCEPT ![t] = 1]
          /\ Goto(t, "scan")
          /\ UNCHANGED asleep
       \/ /\ at[t] \notin free
          /\ at' = [at EXCEPT ![t] = (@ % WriteSlots) + 1]
          /\ IF at[t] < WriteSlots THEN UNCHANGED <<gate, asleep, pc>>
             ELSE gate' = None /\ asleep' = asleep \union {t} /\ Goto(t, "sleep")
          /\ UNCHANGED waiters
    /\ UNCHANGED <<buildVars, lifeVars, fileVars, opVars, frame, free, own, mutex,
                   ctx, back, drained>>

\* The wait times out.
WaitTimeout(t) ==
    /\ t \in asleep
    /\ asleep' = asleep \ {t}
    /\ UNCHANGED <<buildVars, lifeVars, fileVars, opVars, frame, free, own, gate,
                   waiters, mutex, threadVars>>

\* Woken or timed out, it takes the gate back and scans again, before it looks
\* at the deadline.
Wake(t) ==
    /\ pc[t] = "sleep" /\ t \notin asleep /\ gate = None
    /\ waiters' = waiters - 1
    /\ Goto(t, "scan")
    /\ UNCHANGED <<buildVars, lifeVars, fileVars, opVars, frame, free, own, gate,
                   asleep, mutex, ctx, at, back, drained>>

\* Drop of a WriteSlot that was not consumed; no mutex is held.
DropSlot(t) ==
    /\ Callable(t) /\ own[t] # 0
    /\ free' = free \union {own[t]}
    /\ own' = [own EXCEPT ![t] = 0]
    /\ Goto(t, "released")
    /\ UNCHANGED <<buildVars, lifeVars, fileVars, opVars, frame, gate, waiters,
                   asleep, mutex, ctx, at, back, drained>>

EndRelease(t) ==
    /\ mutex' = IF mutex = t THEN None ELSE mutex
    /\ Goto(t, back[t])

\* ArenaState::release after its swap: load the waiter count; when there is
\* one, pass through the gate and notify.
LoadWaiters(t) ==
    /\ pc[t] = "released"
    /\ IF waiters = 0 THEN EndRelease(t) ELSE Goto(t, "signal") /\ UNCHANGED mutex
    /\ UNCHANGED <<buildVars, lifeVars, fileVars, opVars, frame, arenaVars, ctx, at,
                   back, drained>>

PassGate(t) ==
    /\ pc[t] = "signal" /\ gate = None
    /\ Goto(t, "notify")
    /\ UNCHANGED <<buildVars, lifeVars, fileVars, opVars, frame, arenaVars, mutex,
                   ctx, at, back, drained>>

\* notify_one wakes one thread in the wait; it may be one that has just timed
\* out and not yet left.
Notify(t) ==
    /\ pc[t] = "notify"
    /\ \/ \E u \in Threads : pc[u] = "sleep" /\ asleep' = asleep \ {u}
       \/ (\A u \in Threads : pc[u] # "sleep") /\ UNCHANGED asleep
    /\ EndRelease(t)
    /\ UNCHANGED <<buildVars, lifeVars, fileVars, opVars, frame, free, own, gate,
                   waiters, ctx, at, back, drained>>

(***************************************************************************)
(* The embedder deals with a completion it holds.                          *)
(***************************************************************************)

\* release_read_lease: the slot is reclaimed, its completion deferred.  The
\* lease may find that teardown has released the slot already.
ReleaseLease(c) ==
    IF c.lease # None /\ slab[c.slot] # None
    THEN /\ slab' = [slab EXCEPT ![c.slot] = None]
         /\ file' = OnComplete(file)
         /\ deferred' = deferred + 1
    ELSE UNCHANGED <<slab, file, deferred>>

\* take_completed: the pool publishes each full frame, a raw reader aborts it.
TakePrefix(c) ==
    LET full == Range(SubSeq(c.vec.frames, 1, Completed(c.vec)))
    IN /\ Completed(c.vec) > 0
       /\ frame' = IF c.raw THEN Aborted(frame, full)
                   ELSE [f \in Frames |-> IF f \in full
                            THEN [frame[f] EXCEPT !.state = "Resident"]
                            ELSE frame[f]]
       /\ done' = (done \ {c}) \union {[c EXCEPT !.vec = TakeCompleted(@)]}
       /\ UNCHANGED <<buildVars, lifeVars, fileVars, slab, ready, backlog, deferred,
                      arenaVars, mutex, threadVars>>

Aligned(op, v) ==
    \A x \in {op.from, DestinationOffset(v), Remaining(v)} :
        op.align # 0 => x % op.align = 0

\* continue_read_vector on an aligned tail: the operation is queued again.
ContinueRead(c) ==
    /\ Running /\ mutex = None
    /\ c.lease = "Continuation" /\ Completed(c.vec) = 0 /\ Remaining(c.vec) > 0
    /\ Aligned(slab[c.slot], c.vec)
    /\ slab' = [slab EXCEPT ![c.slot].state = "Queued",
                            ![c.slot].vec = Prepare(c.vec)]
    /\ ready' = Append(ready, c.slot)
    /\ done' = done \ {c}
    /\ UNCHANGED <<buildVars, lifeVars, fileVars, backlog, deferred, frame,
                   arenaVars, mutex, threadVars>>

\* The completion is dropped: after its last frame, on an error or end of
\* file, when the tail is not aligned (EINVAL), or because the embedder wants
\* no more.  The rest of the frames is aborted, the lease released.
Discard(c) ==
    /\ mutex = None
    /\ Completed(c.vec) = 0
    /\ frame' = Dropped(frame, c.vec)
    /\ done' = done \ {c}
    /\ ReleaseLease(c)
    /\ mapped' = IF step = "dropped" /\ done = {c} THEN {} ELSE mapped
    /\ UNCHANGED <<config, step, locked, refused, pinned, lifeVars, backend, handle,
                   ready, backlog, arenaVars, mutex, threadVars>>

\* Eviction of a published frame.
Evict(f) ==
    /\ Running /\ frame[f].state = "Resident"
    /\ frame' = [frame EXCEPT ![f] = FreeFrame]
    /\ UNCHANGED <<buildVars, lifeVars, fileVars, opVars, arenaVars, mutex,
                   threadVars>>

(***************************************************************************)
(* Drop of the driver.                                                     *)
(***************************************************************************)

Held(s) == slab[s] # None /\ slab[s].state \in {"Continuation", "Terminal"}

\* abandon_held_continuations: every held lease is released, wherever its
\* completion is, and the deferred completions are flushed.
AbandonHeld ==
    LET held == {s \in OpSlots : Held(s)}
        left == [file EXCEPT !.inflight = @ - Cardinality(held)]
        due == (deferred > 0 \/ held # {}) /\ RetireDue(left)
    IN /\ slab' = [s \in OpSlots |-> IF s \in held THEN None ELSE slab[s]]
       /\ file' = Retired(left, due)
       /\ backend' = BackendAfter(due)
       /\ deferred' = 0

\* Driver::drop, with no call under way: quiesce abandons the leases and loops
\* while operations are in flight.
BeginDrop ==
    /\ Running
    /\ \A t \in Threads : pc[t] = "idle" /\ own[t] = 0
    /\ AbandonHeld
    /\ step' = "quiesce"
    /\ handle' = None
    /\ UNCHANGED <<config, mapped, locked, refused, pinned, lifeVars, ready,
                   backlog, done, frame, arenaVars, mutex, threadVars>>

\* poll flushes and drains the backlog; the shutdown batch holds QueueCapacity
\* completions, so all of it.
QuiesceDrain ==
    /\ step = "quiesce" /\ file.inflight > 0
    /\ batch' = [old |-> backlog, new |-> <<>>]
    /\ backlog' = <<>>
    /\ deferred' = 0
    /\ file' = Retired(file, FlushDue)
    /\ backend' = BackendAfter(FlushDue)
    /\ step' = "execute"
    /\ UNCHANGED <<config, mapped, locked, refused, pinned, setup, handle, slab,
                   ready, done, frame, arenaVars, mutex, threadVars>>

BatchFull == Len(batch.old) + Len(batch.new) = QueueCapacity

\* poll executes a ready operation.  No other thread is in a call, so that its
\* attempts are one step.
QuiesceExecute ==
    /\ step = "execute" /\ ready # <<>> /\ ~BatchFull
    /\ LET s == Head(ready) IN
       \E a \in Attempts(Context(s)) :
         LET c == [Context(s) EXCEPT !.result = Outcome(Context(s), a)]
             fr == IF c.vec = None \/ a < 0 THEN frame ELSE Transferred(c, a)
         IN /\ Finish(c, fr)
            /\ batch' = [batch EXCEPT !.new = Append(@, Completion(c, fr))]
    /\ ready' = Tail(ready)
    /\ UNCHANGED <<buildVars, setup, handle, backlog, deferred, done, own, gate,
                   waiters, asleep, mutex, threadVars>>

\* poll has returned.
Polled == step = "continue" \/ (step = "execute" /\ (ready = <<>> \/ BatchFull))

PopBatch ==
    batch' = IF batch.old # <<>> THEN [batch EXCEPT !.old = Tail(@)]
             ELSE [batch EXCEPT !.new = Tail(@)]

\* quiesce_continue_vectors, one completion of the batch: its full frames are
\* aborted; an aligned tail is queued again; everything else ends, its frames are
\* aborted and its lease is released.  continue_read_vector asserts that the slot
\* is still the operation's: when it is not, drop panics and leaks the core.
QuiesceContinue(c) ==
    LET tail == TakeCompleted(c.vec)
        continues == c.lease = "Continuation"
        goesOn == continues /\ slab[c.slot] # None /\ Aligned(slab[c.slot], tail)
    IN
    /\ Polled
    /\ \/ /\ continues /\ slab[c.slot] = None
          /\ step' = "panicked"
          /\ frame' = Dropped(frame, c.vec)
          /\ UNCHANGED <<slab, ready, file, deferred, batch>>
       \/ /\ goesOn
          /\ slab' = [slab EXCEPT ![c.slot].state = "Queued",
                                  ![c.slot].vec = Prepare(tail)]
          /\ ready' = Append(ready, c.slot)
          /\ frame' = Aborted(frame, Range(c.vec.frames) \ Range(tail.frames))
          /\ step' = "continue" /\ PopBatch
          /\ UNCHANGED <<file, deferred>>
       \/ /\ ~goesOn /\ (continues => slab[c.slot] # None)
          /\ frame' = IF c.vec = None THEN frame ELSE Dropped(frame, c.vec)
          /\ ReleaseLease(c)
          /\ step' = "continue" /\ PopBatch
          /\ UNCHANGED ready
    /\ UNCHANGED <<config, mapped, locked, refused, pinned, setup, backend, handle,
                   backlog, done, arenaVars, mutex, threadVars>>

QuiesceFirst ==
    \/ batch.old # <<>> /\ QuiesceContinue(Head(batch.old))
    \/ batch.old = <<>> /\ batch.new # <<>> /\ QuiesceContinue(Head(batch.new))

\* The end of a pass of quiesce's loop.
QuiesceAgain ==
    /\ Polled /\ batch = EmptyBatch
    /\ AbandonHeld
    /\ step' = "quiesce"
    /\ UNCHANGED <<config, mapped, locked, refused, pinned, lifeVars, handle,
                   ready, backlog, done, frame, arenaVars, mutex, threadVars>>

\* Nothing is in flight: the core is dropped with the completions left in its
\* backlog, the lock guard before the arenas.  A completion the embedder keeps
\* holds its frames' arena.
FinishDrop ==
    LET vectors == {c.vec : c \in Range(backlog)} \ {None}
    IN
    /\ step = "quiesce" /\ file.inflight = 0
    /\ step' = "dropped"
    /\ locked' = {}
    /\ mapped' = IF done = {} THEN {} ELSE {"frames"}
    /\ frame' = Aborted(frame, UNION {Range(v.frames) : v \in vectors})
    /\ backlog' = <<>> /\ deferred' = 0
    /\ backend' = 0
    /\ UNCHANGED <<config, refused, pinned, lifeVars, file, handle, slab, ready,
                   done, arenaVars, mutex, threadVars>>

Quiesce == QuiesceDrain \/ QuiesceExecute \/ QuiesceFirst \/ QuiesceAgain

(***************************************************************************)
(* Specification.                                                          *)
(***************************************************************************)

\* The steps of a call once it has begun.
InCall(t) ==
    \/ PrepareNext(t) \/ EndPoll(t) \/ Attempt(t) \/ EndBlocking(t) \/ Publish(t)
    \/ Scan(t) \/ DecidePump(t) \/ EnterWait(t) \/ Check(t) \/ Wake(t)
    \/ LoadWaiters(t) \/ PassGate(t) \/ Notify(t)

Call(t) ==
    \/ OpenFile(t) \/ CloseFile(t) \/ SubmitWrite(t) \/ SubmitFsync(t)
    \/ SubmitRead(t) \/ SubmitRawRead(t) \/ SubmitReadVector(t) \/ Flush(t) \/ BeginPoll(t) \/ BeginBlocking(t)
    \/ BeginAlloc(t) \/ DropSlot(t)

Embedder ==
    \/ \E c \in done : TakePrefix(c) \/ ContinueRead(c) \/ Discard(c)
    \/ \E f \in Frames : Evict(f)

\* The construction part of the driver's life.
Construct ==
    \/ (BuildNext \/ DropRing)
         /\ UNCHANGED <<lifeVars, fileVars, opVars, frame, arenaVars, mutex, threadVars>>
    \/ Start

Ended ==
    /\ step \in Failures \union {"dropped", "leaked", "panicked"} /\ done = {}
    /\ UNCHANGED vars

Next ==
    \/ Construct
    \/ \E t \in Threads : InCall(t) \/ Call(t) \/ GiveUp(t) \/ WaitTimeout(t)
    \/ Embedder
    \/ BeginDrop \/ Quiesce \/ FinishDrop \/ Ended

Spec == Init /\ [][Next]_vars

\* A thread inside a call goes on; deadlines need not pass.
FairSpec == Spec /\ \A t \in Threads : WF_vars(InCall(t))

(***************************************************************************)
(* Properties.                                                             *)
(***************************************************************************)

\* Every place a vector can be, with the vector.
Vectors ==
    {<<"op", s, slab[s].vec>> : s \in {s \in OpSlots : slab[s] # None}}
    \union {<<"context", t, ctx[t].vec>> : t \in {t \in Threads : ctx[t] # None}}
    \union {<<"done", c.slot, c.vec>> : c \in done}
    \union {<<"backlog", i, backlog[i].vec>> : i \in DOMAIN backlog}

OwnersOf(f) == {v \in Vectors : v[3] # None /\ f \in Range(v[3].frames)}

(***************************************************************************)
(* While the driver runs, a frame is in flight exactly while one vector   *)
(* owns it, and a published frame holds the parts of the page it was      *)
(* claimed for, however often its read came back short and was continued  *)
(* (VectorStorage::prepare, finish_attempt, take_completed).              *)
(***************************************************************************)
FramesExact ==
    Running => \A f \in Frames :
        /\ frame[f].state = "InFlight" <=> Cardinality(OwnersOf(f)) = 1
        /\ Cardinality(OwnersOf(f)) <= 1
        /\ frame[f].state = "Resident" =>
             \A p \in PartOf : frame[f].bytes[p] = frame[f].page * Parts + p

(***************************************************************************)
(* A staging slot is free, held by one thread or in one operation: never  *)
(* two of these, so that no write's bytes are overwritten before it       *)
(* executes, and never none, so that no slot is lost                      *)
(* (WriteSlot::into_index, ArenaState::release and its assertion).        *)
(***************************************************************************)
SlotExclusive ==
    \A w \in Slots :
        Cardinality({t \in Threads : own[t] = w})
        + Cardinality({s \in OpSlots : slab[s] # None /\ slab[s].wslot = w})
        + (IF w \in free THEN 1 ELSE 0) = 1

(***************************************************************************)
(* An operation keeps its file and its slot until it ends, in teardown     *)
(* too: the backend holds the very file a queued or executing operation   *)
(* was admitted for, each operation in flight has its slot, and what is    *)
(* in flight or not yet returned fits the queue (admit, close, retire,     *)
(* publish_to_backlog).  A pass of quiesce always finds something to       *)
(* execute, so that its idle assertion is out of reach; the assertion of   *)
(* continue_read_vector, "continuation owns the original generation",      *)
(* fails in teardown only for a short read that an allocation had pumped   *)
(* into the backlog, whose slot quiesce has abandoned before.              *)
(***************************************************************************)
OperationsServed ==
    /\ \A s \in OpSlots :
         slab[s] # None /\ slab[s].state \in {"Queued", "Active"} => backend = slab[s].gen
    /\ file.inflight = Cardinality({s \in OpSlots : slab[s] # None})
    /\ Running => file.inflight + deferred
          + Cardinality({i \in DOMAIN backlog : backlog[i].lease = None})
            <= QueueCapacity
    /\ step = "quiesce" /\ file.inflight > 0 => ready # <<>>
    /\ step = "panicked" => batch.old # <<>>

(***************************************************************************)
(* A thread does not sleep through a release: if it sleeps in             *)
(* alloc_write_slot_wait while a slot is free, it is woken or the slot is *)
(* taken, without the help of its timeout (ArenaState::release,           *)
(* wait_for_release).                                                     *)
(***************************************************************************)
ReleaseReachesWaiter ==
    \A t \in Threads : (t \in asleep /\ free # {}) ~> (t \notin asleep \/ free = {})
=============================================================================
