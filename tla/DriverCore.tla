------------------------------ MODULE DriverCore ------------------------------
(***************************************************************************)
(* The shared driver composition over the io_uring backend: the fixed file *)
(* table, the completion slab, the ready queue, the submission and reap    *)
(* halves of a poll, the leases a scatter read leaves with its completion, *)
(* and the teardown that drains the ring (src/driver.rs,                   *)
(* src/driver/read_vector.rs, src/backend/uring.rs).                       *)
(*                                                                         *)
(* Every access of the tables is made under the submit mutex and is one    *)
(* atomic step; what a call does between two acquisitions of the mutex     *)
(* (opening and registering a file, clearing a closed one, waiting in the  *)
(* kernel) is a step of its own, so calls of several threads interleave    *)
(* there.  The kernel finishes submitted operations in any order.          *)
(*                                                                         *)
(* Abstracted: offsets and buffers (a transfer is a number of units left), *)
(* the wake poll of the ring (module PoolWait), the frames behind a read   *)
(* and the write arena, and the raw reads that own their frames.           *)
(***************************************************************************)
EXTENDS Integers, Sequences, FiniteSets, SequencesExt

CONSTANTS
  Threads,          \* threads calling the driver
  NumFiles,         \* capacity of the fixed file table
  QueueCapacity,    \* slots of the completion slab
  BatchCapacity,    \* capacity of a poll's completion batch
  RetryBound,       \* transparent retries of one operation
  Units,            \* transfer units of a read or a write
  Embedders,        \* sets of operation kinds: what one embedder makes use of
  MaxGeneration,    \* bound on the generations of a file slot
  MaxOpGeneration   \* bound on the generations of a slab slot

ASSUME DriverAssumption ==
  /\ NumFiles \in Nat \ {0} /\ QueueCapacity \in Nat \ {0}
  /\ BatchCapacity \in Nat \ {0} /\ RetryBound \in Nat /\ Units \in Nat \ {0}
  /\ Embedders \subseteq SUBSET {"read", "vector", "write", "fsync", "blocking"}
  /\ MaxGeneration \in Nat \ {0} /\ MaxOpGeneration \in Nat \ {0}

VARIABLES
  kinds,       \* operation kinds the embedder makes use of
  files,       \* slot -> [gen, state, inflight]: the file table
  registered,  \* slot -> generation of the file the backend holds, 0 if none
  slab,        \* slot -> [gen, op]: the completion slab
  free,        \* the slab's free stack
  ready,       \* slab slots waiting for a submission entry
  sq,          \* submission queue: entries the kernel has not taken
  kernel,      \* entries the kernel may be executing
  cq,          \* completion queue: entries the kernel has finished
  deferred,    \* logical completions of released leases: [file, retire]
  leases,      \* tokens whose completion holds a read lease
  handles,     \* file identities whose handle a client holds
  lock,        \* the thread holding the mutex across reaped entries
  scratch,     \* the thread holding the retire scratch list
  pc,          \* thread -> where it is in its call
  call,        \* thread -> the call: [op, file]
  count,       \* thread -> bounded loop counter of the call
  todo,        \* thread -> files it has to retire
  phase        \* "run", "quiesce", "drained" or "leaked"

fileVars == <<files, registered, handles>>
slabVars == <<slab, free, ready>>
ringVars == <<sq, kernel, cq>>
leaseVars == <<deferred, leases>>
threadVars == <<lock, scratch, pc, call, count, todo>>
vars == <<kinds, fileVars, slabVars, ringVars, leaseVars, threadVars, phase>>

FileSlots == 1 .. NumFiles
OpSlots == 1 .. QueueCapacity
NoThread == "none"
NoOp == [kind |-> "none"]
NoCall == [op |-> "none"]

Unlocked == lock = NoThread
Occupied(o) == slab[o].op # NoOp
SlabContains(token) == Occupied(token[1]) /\ slab[token[1]].gen = token[2]
IsLive(id) == files[id[1]].gen = id[2] /\ files[id[1]].state = "Open"
IsClosed(id) == \/ files[id[1]].gen > id[2]
                \/ files[id[1]].gen = id[2] /\ files[id[1]].state = "Closed"

Inflight == SumFunction([s \in FileSlots |-> files[s].inflight])

FreeSlots == [s \in FileSlots |-> [gen |-> 0, state |-> "Free", inflight |-> 0]]

Init ==
  /\ kinds \in Embedders
  /\ files = FreeSlots
  /\ registered = [s \in FileSlots |-> 0]
  /\ slab = [o \in OpSlots |-> [gen |-> 0, op |-> NoOp]]
  /\ free = [i \in OpSlots |-> QueueCapacity + 1 - i]
  /\ ready = << >> /\ sq = << >> /\ kernel = {} /\ cq = << >>
  /\ deferred = << >> /\ leases = {} /\ handles = {}
  /\ lock = NoThread /\ scratch = NoThread
  /\ pc = [t \in Threads |-> "idle"]
  /\ call = [t \in Threads |-> NoCall]
  /\ count = [t \in Threads |-> 0]
  /\ todo = [t \in Threads |-> << >>]
  /\ phase = "run"

-----------------------------------------------------------------------------
(* Starting calls.                                                           *)

\* A call starts by flushing the deferred completions.
Begin(t, c) ==
  /\ phase = "run" /\ pc[t] = "idle"
  /\ pc' = [pc EXCEPT ![t] = "flush"]
  /\ call' = [call EXCEPT ![t] = c]
  /\ count' = [count EXCEPT ![t] = 0]
  /\ UNCHANGED <<fileVars, slabVars, ringVars, leaseVars, lock, scratch, todo, phase>>

BeginOpen(t) == Begin(t, [op |-> "open"])
BeginPoll(t) == Begin(t, [op |-> "poll"])

\* A submission borrows its handle; a handle in use cannot be closed.
BeginSubmit(t) ==
  \E id \in handles, k \in kinds \ {"blocking"} : Begin(t, [op |-> "submit", file |-> id, kind |-> k])

\* A blocking write or fsync of metadata, past the ring; it borrows the handle.
BeginBlocking(t) ==
  \E id \in handles, k \in {"write", "fsync"} :
    /\ "blocking" \in kinds
    /\ phase = "run" /\ pc[t] = "idle"
    /\ pc' = [pc EXCEPT ![t] = "check_live"]
    /\ call' = [call EXCEPT ![t] = [op |-> "blocking", file |-> id, kind |-> k]]
    /\ UNCHANGED <<fileVars, slabVars, ringVars, leaseVars, lock, scratch, count, todo, phase>>

\* Closing consumes the handle.
BeginClose(t) ==
  \E id \in handles :
    /\ phase = "run" /\ pc[t] = "idle"
    /\ \A u \in Threads : call[u].op \in {"submit", "blocking"} => call[u].file # id
    /\ handles' = handles \ {id}
    /\ pc' = [pc EXCEPT ![t] = "flush"]
    /\ call' = [call EXCEPT ![t] = [op |-> "close", file |-> id]]
    /\ count' = [count EXCEPT ![t] = 0]
    /\ UNCHANGED <<files, registered, slabVars, ringVars, leaseVars, lock, scratch, todo, phase>>

\* The call returns to its caller; a poll of the teardown handles its batch.
Return(t) ==
  /\ pc' = [pc EXCEPT ![t] = IF phase = "run" THEN "idle" ELSE "batch"]
  /\ call' = [call EXCEPT ![t] = IF phase = "run" THEN NoCall ELSE @]
  /\ count' = [count EXCEPT ![t] = 0]

-----------------------------------------------------------------------------
(* Retiring a closed file, outside the mutex and then under it.              *)

\* The backend forgets the first file of the thread's list.
RetireFile(t) ==
  /\ pc[t] \in {"retire", "flush_retire"}
  /\ registered' = [registered EXCEPT ![Head(todo[t])[1]] = 0]
  /\ pc' = [pc EXCEPT ![t] = IF @ = "retire" THEN "finish" ELSE "flush_finish"]
  /\ UNCHANGED <<files, handles, slabVars, ringVars, leaseVars, lock, scratch, call,
                 count, todo, phase>>

\* Only now may the slot be reserved again.
FinishRetire(t) ==
  /\ pc[t] \in {"finish", "flush_finish"} /\ Unlocked
  /\ files' = [files EXCEPT ![Head(todo[t])[1]].state = "Closed"]
  /\ todo' = [todo EXCEPT ![t] = Tail(@)]
  /\ IF pc[t] = "flush_finish"
     THEN pc' = [pc EXCEPT ![t] = "flush"] /\ UNCHANGED <<call, count, scratch>>
     ELSE IF Len(todo[t]) > 1
          THEN pc' = [pc EXCEPT ![t] = "retire"] /\ UNCHANGED <<call, count, scratch>>
          ELSE Return(t) /\ scratch' = IF scratch = t THEN NoThread ELSE scratch
  /\ UNCHANGED <<registered, handles, slabVars, ringVars, leaseVars, lock, phase>>

\* One deferred completion is popped; if it was the last operation of a closing
\* file, the caller of the flush retires the file.
FlushDeferred(t) ==
  /\ pc[t] = "flush" /\ Unlocked
  /\ IF deferred # << >> /\ count[t] < QueueCapacity
     THEN /\ deferred' = Tail(deferred)
          /\ count' = [count EXCEPT ![t] = @ + 1]
          /\ IF Head(deferred).retire
             THEN /\ todo' = [todo EXCEPT ![t] = <<Head(deferred).file>>]
                  /\ pc' = [pc EXCEPT ![t] = "flush_retire"]
             ELSE UNCHANGED <<todo, pc>>
     ELSE /\ pc' = [pc EXCEPT ![t] = "body"]
          /\ count' = [count EXCEPT ![t] = 0]
          /\ UNCHANGED <<deferred, todo>>
  /\ UNCHANGED <<fileVars, slabVars, ringVars, leases, lock, scratch, call, phase>>

-----------------------------------------------------------------------------
(* Opening and closing files.                                                *)

Reusable(s) == files[s].state \in {"Free", "Closed"} /\ files[s].gen < MaxGeneration

\* The first free or closed slot is reserved under a new generation.
ReserveFile(t) ==
  /\ pc[t] = "body" /\ call[t].op = "open" /\ Unlocked
  /\ IF \E s \in FileSlots : Reusable(s)
     THEN LET s == CHOOSE s \in FileSlots :
                     Reusable(s) /\ \A u \in FileSlots : Reusable(u) => s <= u
          IN /\ files' = [files EXCEPT ![s] =
                            [gen |-> @.gen + 1, state |-> "Open", inflight |-> 0]]
             /\ call' = [call EXCEPT ![t] = [op |-> "open", file |-> <<s, files[s].gen + 1>>]]
             /\ pc' = [pc EXCEPT ![t] = "register"]
             /\ UNCHANGED count
     ELSE Return(t) /\ UNCHANGED files
  /\ UNCHANGED <<registered, handles, slabVars, ringVars, leaseVars, lock, scratch, todo, phase>>

\* register_file: the fixed-file slot names the file, which the backend retains.
Register(id) == registered' = [registered EXCEPT ![id[1]] = id[2]]

\* The opened file is registered with the backend and the handle minted.
RegisterFile(t) ==
  /\ pc[t] = "register"
  /\ Register(call[t].file)
  /\ handles' = handles \union {call[t].file}
  /\ Return(t)
  /\ UNCHANGED <<files, slabVars, ringVars, leaseVars, lock, scratch, todo, phase>>

\* Opening, probing or registering failed: the reservation is given back.
AbortFile(t) ==
  /\ pc[t] = "register" /\ Unlocked
  /\ files' = [files EXCEPT ![call[t].file[1]].state = "Free"]
  /\ Return(t)
  /\ UNCHANGED <<registered, handles, slabVars, ringVars, leaseVars, lock, scratch, todo, phase>>

\* Mutant: a file closed with operations in flight is unregistered at once.
CloseFileAtOnce(t) ==
  /\ pc[t] = "body" /\ call[t].op = "close" /\ Unlocked
  /\ files' = [files EXCEPT ![call[t].file[1]].state = "Closing"]
  /\ IF files[call[t].file[1]].inflight = 0
     THEN /\ todo' = [todo EXCEPT ![t] = <<call[t].file>>]
          /\ pc' = [pc EXCEPT ![t] = "retire"]
          /\ UNCHANGED <<registered, call, count>>
     ELSE Return(t) /\ registered' = [registered EXCEPT ![call[t].file[1]] = 0] /\ UNCHANGED todo
  /\ UNCHANGED <<handles, slabVars, ringVars, leaseVars, lock, scratch, phase>>

\* Closing a file with operations in flight leaves its retirement to the last.
CloseFile(t) ==
  /\ pc[t] = "body" /\ call[t].op = "close" /\ Unlocked
  /\ files' = [files EXCEPT ![call[t].file[1]].state = "Closing"]
  /\ IF files[call[t].file[1]].inflight = 0
     THEN /\ todo' = [todo EXCEPT ![t] = <<call[t].file>>]
          /\ pc' = [pc EXCEPT ![t] = "retire"]
          /\ UNCHANGED <<call, count>>
     ELSE Return(t) /\ UNCHANGED todo
  /\ UNCHANGED <<registered, handles, slabVars, ringVars, leaseVars, lock, scratch, phase>>

-----------------------------------------------------------------------------
(* Submission.                                                               *)

\* An operation is admitted while the operations in flight and the deferred
\* completions together leave a slab slot.
Admits(id) ==
  /\ IsLive(id)
  /\ Inflight + Len(deferred) < QueueCapacity
  /\ free # << >>
  /\ slab[Last(free)].gen < MaxOpGeneration

\* Admission and commit: the slab slot is filled under a new generation, the
\* operation counted in flight and queued for submission.
Submit(t) ==
  /\ pc[t] = "body" /\ call[t].op = "submit" /\ Unlocked
  /\ IF Admits(call[t].file)
     THEN LET o == Last(free)
          IN /\ free' = Front(free)
             /\ slab' = [slab EXCEPT ![o] =
                  [gen |-> @.gen + 1,
                   op  |-> [kind |-> call[t].kind, file |-> call[t].file,
                            left |-> IF call[t].kind = "fsync" THEN 0 ELSE Units,
                            retries |-> 0, state |-> "Queued"]]]
             /\ files' = [files EXCEPT ![call[t].file[1]].inflight = @ + 1]
             /\ ready' = Append(ready, o)
     ELSE UNCHANGED <<files, slabVars>>
  /\ Return(t)
  /\ UNCHANGED <<registered, handles, ringVars, leaseVars, lock, scratch, todo, phase>>

-----------------------------------------------------------------------------
(* Blocking calls, which go to the retained file and not through the ring.   *)

\* Only liveness is looked at under the mutex.
CheckLive(t) ==
  /\ pc[t] = "check_live" /\ Unlocked
  /\ IF IsLive(call[t].file)
     THEN pc' = [pc EXCEPT ![t] = call[t].kind] /\ UNCHANGED <<call, count>>
     ELSE Return(t)
  /\ UNCHANGED <<fileVars, slabVars, ringVars, leaseVars, lock, scratch, todo, phase>>

\* Whether the backend finds a file in the slot, which is all it asks for.
Retained(id) == registered[id[1]] # 0

\* One pwrite on the file in the slot; short writes go on, an error or an empty
\* slot ends the call.
BlockingWrite(t) ==
  /\ pc[t] = "write"
  /\ \/ Return(t)
     \/ /\ Retained(call[t].file)
        /\ \E n \in 1 .. (Units - count[t] - 1) : count' = [count EXCEPT ![t] = @ + n]
        /\ UNCHANGED <<pc, call>>
  /\ UNCHANGED <<fileVars, slabVars, ringVars, leaseVars, lock, scratch, todo, phase>>

BlockingFsync(t) ==
  /\ pc[t] = "fsync"
  /\ Return(t)
  /\ UNCHANGED <<fileVars, slabVars, ringVars, leaseVars, lock, scratch, todo, phase>>

-----------------------------------------------------------------------------
(* Polling the ring.                                                         *)

Min2(a, b) == IF a <= b THEN a ELSE b

\* push_read, push_read_vector, push_write, push_fsync: an entry names the
\* token, the fixed-file slot and what is left to transfer, but not the file.
PushEntry(o) ==
  [token |-> <<o, slab[o].gen>>, slot |-> slab[o].op.file[1], len |-> slab[o].op.left]

\* A poll enters the kernel when it has filled entries; a waiting poll, as the
\* teardown's, always does.
PollRing(n) == IF n > 0 THEN "enter" ELSE "reap"
PollWaitRing == "enter"

\* Queued operations become submission entries.
FillRing(t) ==
  LET n == Min2(Len(ready), BatchCapacity)
      taken == SubSeq(ready, 1, n)
  IN
  /\ pc[t] = "body" /\ call[t].op = "poll" /\ Unlocked
  /\ ready' = SubSeq(ready, n + 1, Len(ready))
  /\ slab' = [o \in OpSlots |->
       IF o \in Range(taken) THEN [slab[o] EXCEPT !.op.state = "Active"] ELSE slab[o]]
  /\ sq' = sq \o [i \in 1 .. n |-> PushEntry(taken[i])]
  /\ \E stage \in {PollWaitRing} \union (IF phase = "run" THEN {PollRing(n)} ELSE {}) :
       pc' = [pc EXCEPT ![t] = stage]
  /\ UNCHANGED <<fileVars, free, kernel, cq, leaseVars, lock, scratch, call, count, todo, phase>>

\* check_enter: a call the kernel refuses for now has taken nothing, and is no
\* error; the entries stay in the queue for the next call that enters.
Taken == 0 .. Len(sq)

\* submit, submit_and_wait: the kernel takes entries from the front.
Enter(t) ==
  /\ pc[t] = "enter"
  /\ \E n \in Taken :
       /\ kernel' = kernel \union {sq[i] : i \in 1 .. n}
       /\ sq' = SubSeq(sq, n + 1, Len(sq))
  /\ pc' = [pc EXCEPT ![t] = "reap"]
  /\ UNCHANGED <<fileVars, slabVars, cq, leaseVars, lock, scratch, call, count, todo, phase>>

EINTR == -1
EAGAIN == -2
EIO == -3

\* What the kernel may report for an entry.
RawResults(entry) == (0 .. entry.len) \union {EINTR, EAGAIN, EIO}

\* The kernel finishes any entry it has taken.  Nothing looks at the result
\* before the entry is reaped, so it is chosen there.
Complete(entry) ==
  /\ kernel' = kernel \ {entry}
  /\ cq' = Append(cq, entry)
  /\ UNCHANGED <<sq, fileVars, slabVars, leaseVars, threadVars, phase>>

\* A transient failure is resubmitted within the bound, and so is a write that
\* has bytes left.
Resubmits(op, raw) ==
  \/ /\ raw < 0 /\ op.retries < RetryBound
     /\ raw = EINTR \/ (raw = EAGAIN /\ op.kind \in {"read", "vector"})
  \/ /\ op.kind = "write" /\ raw >= 0 /\ raw < op.left
     /\ raw = 0 => op.retries < RetryBound

\* Mutant: a resubmitted operation stays marked active.
RequeuedActive(op, raw) ==
  [op EXCEPT !.left = IF raw > 0 THEN @ - raw ELSE @, !.retries = IF raw > 0 THEN @ ELSE @ + 1]

Requeued(op, raw) ==
  [op EXCEPT !.state   = "Queued",
             !.left    = IF raw > 0 THEN @ - raw ELSE @,
             !.retries = IF raw > 0 THEN @ ELSE @ + 1]

\* A short scatter read hands its slot to the caller to continue; a finished
\* one keeps its slot until the caller has published its frames.
Held(op, raw) ==
  IF raw > 0 /\ raw < op.left
  THEN [op EXCEPT !.left = @ - raw, !.state = "Continuation"]
  ELSE [op EXCEPT !.state = "Terminal"]

\* Mutant: a completion of a closed file is not counted.
OnCompleteOpen(id) ==
  [files EXCEPT ![id[1]].inflight = IF files[id[1]].state = "Open" THEN @ - 1 ELSE @]

\* The file table after the last use of an operation's slot, and whether that
\* was the last operation of a closing file.
OnComplete(id) == [files EXCEPT ![id[1]].inflight = @ - 1]
RetireDue(id) == files[id[1]].inflight = 1 /\ files[id[1]].state = "Closing"

\* One completion entry, under the mutex.  The first pass stops at the first
\* file it has to retire.
ReapEntry(t) ==
  LET token == Head(cq).token
      o == token[1]
      op == slab[o].op
  IN
  /\ pc[t] \in {"reap", "reap_more"} /\ lock \in {NoThread, t}
  /\ cq # << >> /\ count[t] < BatchCapacity
  /\ cq' = Tail(cq)
  /\ count' = [count EXCEPT ![t] = @ + 1]
  /\ \E raw \in RawResults(Head(cq)) :
       \/ /\ Resubmits(op, raw)
          /\ slab' = [slab EXCEPT ![o].op = Requeued(op, raw)]
          /\ ready' = Append(ready, o)
          /\ lock' = t
          /\ UNCHANGED <<files, free, leases, pc, todo>>
       \/ /\ ~Resubmits(op, raw) /\ op.kind = "vector"
          /\ slab' = [slab EXCEPT ![o].op = Held(op, raw)]
          /\ leases' = leases \union {token}
          /\ lock' = t
          /\ UNCHANGED <<files, free, ready, pc, todo>>
       \/ /\ ~Resubmits(op, raw) /\ op.kind # "vector"
          /\ slab' = [slab EXCEPT ![o].op = NoOp]
          /\ free' = Append(free, o)
          /\ files' = OnComplete(op.file)
          /\ todo' = [todo EXCEPT ![t] = IF RetireDue(op.file) THEN Append(@, op.file) ELSE @]
          /\ IF RetireDue(op.file) /\ pc[t] = "reap"
             THEN pc' = [pc EXCEPT ![t] = "scratch"] /\ lock' = NoThread
             ELSE lock' = t /\ UNCHANGED pc
          /\ UNCHANGED <<ready, leases>>
  /\ UNCHANGED <<registered, handles, sq, kernel, deferred, scratch, call, phase>>

\* The pass ends at an empty queue or a full batch.
ReapDone(t) ==
  /\ pc[t] \in {"reap", "reap_more"} /\ lock \in {NoThread, t}
  /\ cq = << >> \/ count[t] = BatchCapacity
  /\ lock' = NoThread
  /\ IF pc[t] = "reap"
     THEN Return(t)
     ELSE pc' = [pc EXCEPT ![t] = "retire"] /\ UNCHANGED <<call, count>>
  /\ UNCHANGED <<fileVars, slabVars, ringVars, leaseVars, scratch, todo, phase>>

\* With a file to retire, the rest of the batch is reaped before any retirement.
TakeScratch(t) ==
  /\ pc[t] = "scratch" /\ scratch = NoThread
  /\ scratch' = t
  /\ pc' = [pc EXCEPT ![t] = IF count[t] < BatchCapacity THEN "reap_more" ELSE "retire"]
  /\ UNCHANGED <<fileVars, slabVars, ringVars, leaseVars, lock, call, count, todo, phase>>

-----------------------------------------------------------------------------
(* Read leases.                                                              *)

\* A released lease reclaims its slot; the logical completion is deferred to the
\* next call into the driver.
ReleaseReadLease(o) ==
  LET id == slab[o].op.file
  IN /\ slab' = [slab EXCEPT ![o].op = NoOp]
     /\ free' = Append(free, o)
     /\ files' = OnComplete(id)
     /\ deferred' = Append(deferred, [file |-> id, retire |-> RetireDue(id)])

\* A client drops its completion's lease; a teardown may have released the slot
\* before.
DropLease(token) ==
  /\ Unlocked
  /\ phase = "run" \/ ~SlabContains(token) \/ \E t \in Threads : pc[t] = "abandon"
  /\ leases' = leases \ {token}
  /\ IF SlabContains(token)
     THEN ReleaseReadLease(token[1])
     ELSE UNCHANGED <<files, slab, free, deferred>>
  /\ UNCHANGED <<registered, handles, ready, ringVars, threadVars, phase>>

\* The rest of a short scatter read is queued again in the same slot.
Continue(token) ==
  /\ leases' = leases \ {token}
  /\ slab' = [slab EXCEPT ![token[1]].op.state = "Queued", ![token[1]].op.retries = 0]
  /\ ready' = Append(ready, token[1])

ContinueReadVector(token) ==
  /\ phase = "run" /\ Unlocked
  /\ slab[token[1]].op.state = "Continuation"
  /\ Continue(token)
  /\ UNCHANGED <<fileVars, free, ringVars, deferred, threadVars, phase>>

-----------------------------------------------------------------------------
(* Teardown.                                                                 *)

\* The driver is dropped: no call is running and none will start.  Leases of
\* completions the clients still hold may be dropped at any time.
BeginTeardown(t) ==
  /\ phase = "run" /\ \A u \in Threads : pc[u] = "idle"
  /\ phase' = "quiesce"
  /\ pc' = [pc EXCEPT ![t] = "abandon"]
  /\ call' = [call EXCEPT ![t] = [op |-> "poll"]]
  /\ UNCHANGED <<fileVars, slabVars, ringVars, leaseVars, lock, scratch, count, todo>>

IsHeld(o) == Occupied(o) /\ slab[o].op.state \in {"Continuation", "Terminal"}

\* Every slot a lease still holds is released under one lock hold.
AbandonHeld(t) ==
  /\ pc[t] = "abandon" /\ lock \in {NoThread, t}
  /\ IF \E o \in OpSlots : IsHeld(o)
     THEN /\ ReleaseReadLease(CHOOSE o \in OpSlots :
                                IsHeld(o) /\ \A u \in OpSlots : IsHeld(u) => o <= u)
          /\ lock' = t
          /\ UNCHANGED <<pc, call>>
     ELSE /\ lock' = NoThread
          /\ pc' = [pc EXCEPT ![t] = "flush"]
          /\ call' = [call EXCEPT ![t] = [op |-> "drain"]]
          /\ UNCHANGED <<files, slab, free, deferred>>
  /\ UNCHANGED <<registered, handles, ready, ringVars, leases, scratch, count, todo, phase>>

\* With operations left the teardown polls again, until its time budget is gone.
DrainPoll(t) ==
  /\ pc[t] = "body" /\ call[t].op = "drain" /\ Unlocked
  /\ Inflight > 0
  /\ \/ /\ pc' = [pc EXCEPT ![t] = "flush"]
        /\ call' = [call EXCEPT ![t] = [op |-> "poll"]]
        /\ UNCHANGED phase
     \/ /\ phase' = "leaked"
        /\ pc' = [pc EXCEPT ![t] = "idle"]
        /\ call' = [call EXCEPT ![t] = NoCall]
  /\ UNCHANGED <<fileVars, slabVars, ringVars, leaseVars, lock, scratch, count, todo>>

\* Mutant: the teardown ends when the ring is empty, with operations queued.
DrainDoneRing(t) ==
  /\ pc[t] = "body" /\ call[t].op = "drain" /\ Unlocked
  /\ sq = << >> /\ kernel = {} /\ cq = << >>
  /\ phase' = "drained"
  /\ pc' = [pc EXCEPT ![t] = "idle"]
  /\ call' = [call EXCEPT ![t] = NoCall]
  /\ UNCHANGED <<fileVars, slabVars, ringVars, leaseVars, lock, scratch, count, todo>>

DrainDone(t) ==
  /\ pc[t] = "body" /\ call[t].op = "drain" /\ Unlocked
  /\ Inflight = 0
  /\ phase' = "drained"
  /\ pc' = [pc EXCEPT ![t] = "idle"]
  /\ call' = [call EXCEPT ![t] = NoCall]
  /\ UNCHANGED <<fileVars, slabVars, ringVars, leaseVars, lock, scratch, count, todo>>

\* The teardown's batch: a scatter read with bytes left is continued, unless its
\* tail is not aligned (EINVAL); then, as for any other completion of the batch,
\* the lease is dropped.
QuiesceBatch(t) ==
  /\ pc[t] = "batch" /\ Unlocked
  /\ IF \E token \in leases : SlabContains(token)
     THEN \E token \in leases :
            /\ SlabContains(token)
            /\ \/ /\ slab[token[1]].op.state = "Continuation"
                  /\ Continue(token)
                  /\ UNCHANGED <<files, free, deferred>>
               \/ /\ ReleaseReadLease(token[1])
                  /\ leases' = leases \ {token}
                  /\ UNCHANGED ready
            /\ UNCHANGED pc
     ELSE /\ pc' = [pc EXCEPT ![t] = "abandon"]
          /\ UNCHANGED <<files, slabVars, leaseVars>>
  /\ UNCHANGED <<registered, handles, ringVars, lock, scratch, call, count, todo, phase>>

-----------------------------------------------------------------------------
Step(t) ==
  \/ RetireFile(t) \/ FinishRetire(t) \/ FlushDeferred(t)
  \/ ReserveFile(t) \/ RegisterFile(t) \/ AbortFile(t) \/ CloseFile(t)
  \/ Submit(t) \/ FillRing(t) \/ Enter(t) \/ ReapEntry(t) \/ ReapDone(t) \/ TakeScratch(t)
  \/ CheckLive(t) \/ BlockingWrite(t) \/ BlockingFsync(t)
  \/ AbandonHeld(t) \/ DrainPoll(t) \/ DrainDone(t) \/ QuiesceBatch(t)

Move ==
  \/ \E t \in Threads :
       \/ Step(t)
       \/ BeginOpen(t) \/ BeginClose(t) \/ BeginSubmit(t) \/ BeginPoll(t) \/ BeginBlocking(t)
       \/ BeginTeardown(t)
  \/ \E entry \in kernel : Complete(entry)
  \/ \E token \in leases : DropLease(token) \/ ContinueReadVector(token)

Next == Move /\ UNCHANGED kinds

Spec == Init /\ [][Next]_vars

-----------------------------------------------------------------------------
(* Properties.                                                               *)

\* Whatever the kernel executes or is about to be given, it executes on the file
\* it was submitted for: a ring entry names a fixed-file slot only (uring.rs
\* push_read and its kin), so the slot must not be cleared or reused while an
\* entry is outstanding.
BackendFileMatches ==
  \A entry \in kernel \union Range(sq) :
    registered[entry.slot] = slab[entry.token[1]].op.file[2]

\* A blocking call works on the file of its handle, register_file finds its slot
\* empty and retire_file finds its own file there,
\* however opens, closes and late completions interleave (the assertions "fd slot
\* reused before its prior file was retired" and "retire of a slot that holds no
\* live file").
BackendSlotExact ==
  \A t \in Threads :
    /\ pc[t] \in {"write", "fsync"} => registered[call[t].file[1]] = call[t].file[2]
    /\ pc[t] = "register" => registered[call[t].file[1]] = 0
    /\ pc[t] \in {"retire", "flush_retire"} =>
         registered[Head(todo[t])[1]] = Head(todo[t])[2]

\* The backend's file slots are right for everybody who relies on one: the
\* kernel, blocking calls, and threads about to register or retire a file.
BackendExact == BackendFileMatches /\ BackendSlotExact

\* The in-flight count of a file slot is the number of slab slots its current
\* generation occupies (FileTable::on_submit and on_complete are matched, never
\* across generations).
InflightExact ==
  \A s \in FileSlots :
    LET mine == {o \in OpSlots : Occupied(o) /\ slab[o].op.file[1] = s}
    IN /\ files[s].inflight = Cardinality(mine)
       /\ \A o \in mine : slab[o].op.file[2] = files[s].gen

\* Who owes a retirement of the file in slot s: a thread with it on its list, or
\* a deferred completion.
Owing(s) ==
  Cardinality({<<t, i>> \in Threads \X (1 .. NumFiles) :
                 i \in DOMAIN todo[t] /\ todo[t][i] = <<s, files[s].gen>>})
  + Cardinality({i \in DOMAIN deferred :
                   deferred[i].retire /\ deferred[i].file = <<s, files[s].gen>>})

\* A closing file without operations in flight is owed exactly one retirement,
\* and no other file is owed any: close, the last completion and the last
\* released lease never both retire a file and never both leave it to the other.
RetiredOnce ==
  \A s \in FileSlots :
    Owing(s) = IF files[s].state = "Closing" /\ files[s].inflight = 0 THEN 1 ELSE 0

\* Admission keeps the operations in flight and the deferred completions within
\* the queue capacity, so the bounded deferred queue never overflows
\* ("bounded logical completions") and an admitted operation finds a slab slot.
AdmissionBound ==
  /\ Inflight + Len(deferred) <= QueueCapacity
  /\ Len(free) = QueueCapacity - Inflight
  /\ \A i, j \in DOMAIN free : free[i] = free[j] => i = j
  /\ \A i \in DOMAIN free : ~Occupied(free[i])

\* The counters admission and retirement decide from are exact, and lead to one
\* retirement of each closed file.
AccountingExact == InflightExact /\ AdmissionBound /\ RetiredOnce

\* How often a token is in the submission queue, with the kernel or in the
\* completion queue.
Outstanding(token) ==
  Cardinality({entry \in kernel : entry.token = token})
  + Cardinality({i \in DOMAIN sq : sq[i].token = token})
  + Cardinality({i \in DOMAIN cq : cq[i].token = token})

\* Every operation is in the one place its state names: a queued one is once in
\* the ready queue, an active one is once in the ring, asking for exactly what is
\* left of it, a held one has a lease, and none was retried past the bound.  No
\* token of an earlier generation is left anywhere but in a lease ("CQE belongs
\* to the live generation").
OpPlaced ==
  /\ \A entry \in kernel \union Range(sq) \union Range(cq) :
       entry.len = slab[entry.token[1]].op.left
  /\ \A o \in OpSlots :
       LET state == IF Occupied(o) THEN slab[o].op.state ELSE "None"
       IN /\ Occupied(o) => slab[o].op.retries <= RetryBound
          /\ Cardinality({i \in DOMAIN ready : ready[i] = o}) =
               IF state = "Queued" THEN 1 ELSE 0
          /\ \A g \in 1 .. MaxOpGeneration :
               /\ Outstanding(<<o, g>>) =
                    IF state = "Active" /\ g = slab[o].gen THEN 1 ELSE 0
               /\ (<<o, g>> \in leases /\ SlabContains(<<o, g>>)) =
                    (IsHeld(o) /\ g = slab[o].gen)

\* A drained teardown leaves the kernel nothing to write (INV-8): the arenas may
\* be freed.
TeardownQuiet ==
  phase = "drained" =>
    sq = << >> /\ kernel = {} /\ cq = << >> /\ \A o \in OpSlots : ~Occupied(o)
=============================================================================
