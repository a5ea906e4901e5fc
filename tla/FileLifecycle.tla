---------------------------- MODULE FileLifecycle ----------------------------
(***************************************************************************)
(* Files of the pool: registration, resident-file leases, gets, product    *)
(* writes and fsync barriers, and retirement with reuse of the file slot   *)
(* (src/pool/mod.rs, over the driver's FileTable in src/driver.rs).        *)
(*                                                                         *)
(* Handlers that hold the control mutex are atomic, except that retirement *)
(* calls the driver twice, to close the file and to ask whether it is      *)
(* closed, and threads that open files reserve driver slots without the    *)
(* control mutex: the pass of progress_retirements is therefore one step   *)
(* per file slot and one between its two calls.                            *)
(*                                                                         *)
(* Abstracted: a file has one page, which always finds a free frame        *)
(* (modules EpochReclaim and MissFlow model frames, epochs and misses); a  *)
(* guard keeps an evicted page from being reclaimed.  Retention is off and *)
(* prefetch is off.                                                        *)
(***************************************************************************)
EXTENDS Integers, Sequences, FiniteSets, SequencesExt

CONSTANTS
  Openers,         \* threads opening files
  Readers,         \* threads getting pages
  NumFiles,        \* capacity of the file tables
  NumOps,          \* capacity of the product operation table
  QueueCapacity,   \* operations the driver admits
  MaxGeneration,   \* bound on the generations of a file slot
  MaxSequence,     \* generation -> bound on the submission order its files reach
  MaxLeases        \* bound on the resident-file leases of a slot

ASSUME FilesAssumption ==
  /\ NumFiles \in Nat \ {0} /\ NumOps \in Nat \ {0} /\ QueueCapacity \in Nat \ {0}
  /\ MaxGeneration \in Nat \ {0} /\ MaxSequence \in [1 .. MaxGeneration -> Nat] /\ MaxLeases \in Nat

VARIABLES
  table,      \* driver: slot -> [gen, state]
  entry,      \* pool: slot -> [gen, state, handle] or NoEntry
  live,       \* slot -> generation the lock-free live word admits, 0 if none
  leaseGen,   \* slot -> generation the lease state admits
  leases,     \* slot -> resident-file leases held
  ops,        \* product operation table
  sequence,   \* product submission order
  page,       \* file -> state of its page
  interest,   \* file -> outcomes of its misses that tokens still wait on
  guarded,    \* files whose page has a guard
  opening,    \* opener -> the file reserved in the driver, or NoFile
  getting,    \* reader -> [pc, file]
  scan,       \* slot the retirement pass is at, 0 while the mutex is free
  closing,    \* the pass is between close and is_closed
  phase       \* "up", "stopping" (pool drop), "closed" or "expired"

driverVars == <<table, opening>>
leaseVars == <<leaseGen, leases>>
opVars == <<ops, sequence>>
pageVars == <<page, interest, guarded>>
ctlVars == <<scan, closing, phase>>
vars == <<driverVars, entry, live, leaseVars, opVars, pageVars, getting, ctlVars>>

FileSlots == 1 .. NumFiles
OpSlots == 1 .. NumOps
FileIds == FileSlots \X (1 .. MaxGeneration)
NoFile == <<0, 0>>
NoEntry == [gen |-> 0, state |-> "Absent", handle |-> FALSE]
NoOp == [kind |-> "None"]
Idle == [pc |-> "idle", file |-> NoFile]


\* The pool is shared and its control mutex is free.
Unlocked == scan = 0 /\ phase = "up"

\* An operation or a read the driver counts in flight: not yet polled.
InDriver(op) == op.kind \in {"Write", "Fsync"} /\ op.stage \in {"flying", "done"}
ReadInDriver(id) == page[id] \in {"flying", "done"}
Reading(id) == page[id] \in {"flying", "done", "popped"}

FileInflight(id) ==
  ReadInDriver(id) \/ \E i \in OpSlots : InDriver(ops[i]) /\ ops[i].file = id

\* The driver has room for one more operation beside reads reads.
Admits(o, reads) ==
  Cardinality({i \in OpSlots : InDriver(o[i])}) + reads < QueueCapacity

DriverReads == Cardinality({id \in FileIds : ReadInDriver(id)})

(***************************************************************************)
(* A driver slot whose file is closed while operations are in flight is    *)
(* Closing in the code; here it is Closed and still in flight.             *)
(***************************************************************************)
IsLive(id) == table[id[1]] = [gen |-> id[2], state |-> "Open"]

Retired(s) ==
  table[s].state = "Closed" /\ (table[s].gen = 0 \/ ~FileInflight(<<s, table[s].gen>>))

\* Mutant: a slot reused since the close does not count as closed.
IsClosedExact(id) == table[id[1]].gen = id[2] /\ Retired(id[1])

IsClosed(id) ==
  table[id[1]].gen > id[2] \/ (table[id[1]].gen = id[2] /\ Retired(id[1]))

FileIsLive(id) == entry[id[1]].gen = id[2] /\ entry[id[1]].state = "Live"
FileGenerationIsLive(id) == live[id[1]] = id[2]

Init ==
  /\ table = [s \in FileSlots |-> [gen |-> 0, state |-> "Free"]]
  /\ entry = [s \in FileSlots |-> NoEntry]
  /\ live = [s \in FileSlots |-> 0]
  /\ leaseGen = [s \in FileSlots |-> 0] /\ leases = [s \in FileSlots |-> 0]
  /\ ops = [i \in OpSlots |-> NoOp] /\ sequence = 0
  /\ page = [id \in FileIds |-> "absent"] /\ interest = [id \in FileIds |-> {}] /\ guarded = {}
  /\ opening = [o \in Openers |-> NoFile]
  /\ getting = [r \in Readers |-> Idle]
  /\ scan = 0 /\ closing = FALSE /\ phase = "up"

-----------------------------------------------------------------------------
(***************************************************************************)
(* Opening: the driver reserves its first free slot, then the pool         *)
(* registers the handle under the control mutex.                           *)
(***************************************************************************)
Reusable(s) == table[s].state = "Free" \/ Retired(s)

OpenFile(o) ==
  /\ phase = "up" /\ opening[o] = NoFile
  /\ \E s \in FileSlots :
       /\ Reusable(s) /\ \A u \in 1 .. (s - 1) : ~Reusable(u)
       /\ table[s].gen < MaxGeneration
       /\ table' = [table EXCEPT ![s] = [gen |-> @.gen + 1, state |-> "Open"]]
       /\ opening' = [opening EXCEPT ![o] = <<s, table[s].gen + 1>>]
  /\ UNCHANGED <<entry, live, leaseVars, opVars, pageVars, getting, ctlVars>>

AbortOpen(o) ==
  /\ opening[o] # NoFile
  /\ table' = [table EXCEPT ![opening[o][1]].state = "Free"]
  /\ opening' = [opening EXCEPT ![o] = NoFile]
  /\ UNCHANGED <<entry, live, leaseVars, opVars, pageVars, getting, ctlVars>>

\* The assertions of these three are the invariant RegistrationFinds.
PublishGeneration(id) == leaseGen' = [leaseGen EXCEPT ![id[1]] = id[2]]

PublishLiveFile(id) ==
  /\ PublishGeneration(id)
  /\ entry' = [entry EXCEPT ![id[1]] = [gen |-> id[2], state |-> "Live", handle |-> TRUE]]
  /\ live' = [live EXCEPT ![id[1]] = id[2]]

RegisterFile(o) ==
  /\ Unlocked /\ opening[o] # NoFile
  /\ PublishLiveFile(opening[o])
  /\ opening' = [opening EXCEPT ![o] = NoFile]
  /\ UNCHANGED <<table, leases, opVars, pageVars, getting, ctlVars>>

-----------------------------------------------------------------------------
(***************************************************************************)
(* Resident-file leases.  A lease is dropped without the mutex.            *)
(***************************************************************************)
Acquire(id) ==
  /\ leaseGen[id[1]] = id[2]
  /\ leases[id[1]] < MaxLeases
  /\ leases' = [leases EXCEPT ![id[1]] = @ + 1]

LeaseFile(id) ==
  /\ Unlocked /\ FileIsLive(id) /\ Acquire(id)
  /\ UNCHANGED <<driverVars, entry, live, leaseGen, opVars, pageVars, getting, ctlVars>>

DropLease(s) ==
  /\ leases[s] > 0
  /\ leases' = [leases EXCEPT ![s] = @ - 1]
  /\ UNCHANGED <<driverVars, entry, live, leaseGen, opVars, pageVars, getting, ctlVars>>

-----------------------------------------------------------------------------
(***************************************************************************)
(* Getting the page of a file: the lock-free liveness check, the lock-free *)
(* pin, and the cold path under the mutex.                                 *)
(***************************************************************************)
Get(r, id) ==
  /\ phase = "up" /\ getting[r] = Idle /\ FileGenerationIsLive(id)
  /\ getting' = [getting EXCEPT ![r] = [pc |-> "pin", file |-> id]]
  /\ UNCHANGED <<driverVars, entry, live, leaseVars, opVars, pageVars, ctlVars>>

\* A pin that finds the page returns a guard; the first one that does not goes
\* on to the cold path, the one after the cold path returns Busy.
Pin(r) ==
  LET id == getting[r].file
  IN /\ getting[r].pc \in {"pin", "repin"}
     /\ IF page[id] = "resident"
        THEN guarded' = guarded \union {id} /\ getting' = [getting EXCEPT ![r] = Idle]
        ELSE /\ getting' = [getting EXCEPT ![r] =
                              IF @.pc = "pin" THEN [@ EXCEPT !.pc = "cold"] ELSE Idle]
             /\ UNCHANGED guarded
     /\ UNCHANGED <<driverVars, entry, live, leaseVars, opVars, page, interest, ctlVars>>

\* The cold path of get: stale file, a page made resident meanwhile, a pending
\* miss to join, a read the driver refuses, or a read submitted.
GetCold(r) ==
  LET id == getting[r].file
      Submitted == page[id] = "absent" /\ Admits(ops, DriverReads)
  IN /\ Unlocked /\ getting[r].pc = "cold"
     /\ getting' = [getting EXCEPT ![r] =
                      IF FileIsLive(id) /\ page[id] = "resident"
                      THEN [@ EXCEPT !.pc = "repin"] ELSE Idle]
     /\ page' = [page EXCEPT ![id] = IF FileIsLive(id) /\ Submitted THEN "flying" ELSE @]
     /\ interest' = [interest EXCEPT ![id] =
                       @ \union IF FileIsLive(id) /\ (Reading(id) \/ Submitted)
                                THEN {"pending"} ELSE {}]
     /\ UNCHANGED <<driverVars, entry, live, leaseVars, opVars, guarded, ctlVars>>

\* ready: a failed miss reports its error, a successful one pins the page.
Ready(id) ==
  /\ Unlocked
  /\ \E outcome \in interest[id] \ {"pending"} :
       /\ interest' = [interest EXCEPT ![id] = @ \ {outcome}]
       /\ guarded' = guarded \union IF outcome = "success" THEN {id} ELSE {}
  /\ UNCHANGED <<driverVars, entry, live, leaseVars, opVars, page, getting, ctlVars>>

\* A token dropped without its outcome, and a guard dropped: no mutex.
DropToken(id) ==
  /\ \E outcome \in interest[id] : interest' = [interest EXCEPT ![id] = @ \ {outcome}]
  /\ UNCHANGED <<driverVars, entry, live, leaseVars, opVars, page, guarded, getting, ctlVars>>

DropGuard(id) ==
  /\ id \in guarded
  /\ guarded' = guarded \ {id}
  /\ UNCHANGED <<driverVars, entry, live, leaseVars, opVars, page, interest, getting, ctlVars>>

-----------------------------------------------------------------------------
\* Mutant: a write the kernel has executed no longer holds the barrier.
PriorWriteFlying(o, i) ==
  \E j \in OpSlots : /\ o[j].kind = "Write" /\ o[j].stage = "flying"
                     /\ o[j].file = o[i].file /\ o[j].order < o[i].order

(***************************************************************************)
(* Product writes and fsync barriers.  An fsync is held until no write to  *)
(* its file that was submitted before it is unrouted.                      *)
(***************************************************************************)
PriorWrite(o, i) ==
  \E j \in OpSlots : o[j].kind = "Write" /\ o[j].file = o[i].file /\ o[j].order < o[i].order

\* Mutant: only the first held fsync is ever considered.
SubmitFirstHeld(o, reads) ==
  IF o[1].kind = "FsyncHeld" /\ ~PriorWrite(o, 1) /\ Admits(o, reads)
  THEN [o EXCEPT ![1].kind = "Fsync", ![1].stage = "flying"] ELSE o

SubmitHeldFsyncs(o, reads) ==
  FoldLeft(LAMBDA acc, i :
             IF acc[i].kind = "FsyncHeld" /\ ~PriorWrite(acc, i) /\ Admits(acc, reads)
             THEN [acc EXCEPT ![i].kind = "Fsync", ![i].stage = "flying"]
             ELSE acc,
           o, [i \in OpSlots |-> i])

\* The operation is submitted on the live entry's handle.
LiveFileHandle(id) == FileIsLive(id) /\ entry[id[1]].handle

FreeOp(i) == ops[i] = NoOp /\ \A j \in 1 .. (i - 1) : ops[j] # NoOp

\* Bounded by MaxSequence.
SubmitWrite(id) ==
  /\ Unlocked /\ LiveFileHandle(id) /\ sequence < MaxSequence[id[2]]
  /\ Admits(ops, DriverReads)
  /\ \E i \in OpSlots :
       /\ FreeOp(i)
       /\ ops' = [ops EXCEPT ![i] = [kind |-> "Write", file |-> id,
                                     order |-> sequence + 1, stage |-> "flying"]]
  /\ sequence' = sequence + 1
  /\ UNCHANGED <<driverVars, entry, live, leaseVars, pageVars, getting, ctlVars>>

SubmitFsync(id) ==
  /\ Unlocked /\ LiveFileHandle(id) /\ sequence < MaxSequence[id[2]]
  /\ \E i \in OpSlots :
       /\ FreeOp(i)
       /\ ops' = SubmitHeldFsyncs(
                   [ops EXCEPT ![i] = [kind |-> "FsyncHeld", file |-> id,
                                       order |-> sequence + 1, stage |-> "held"]],
                   DriverReads)
  /\ sequence' = sequence + 1
  /\ UNCHANGED <<driverVars, entry, live, leaseVars, pageVars, getting, ctlVars>>

\* The kernel executes an operation or a read.
CompleteOp(i) ==
  /\ InDriver(ops[i]) /\ ops[i].stage = "flying"
  /\ ops' = [ops EXCEPT ![i].stage = "done"]
  /\ UNCHANGED <<driverVars, entry, live, leaseVars, sequence, pageVars, getting, ctlVars>>

CompleteRead(id) ==
  /\ page[id] = "flying"
  /\ page' = [page EXCEPT ![id] = "done"]
  /\ UNCHANGED <<driverVars, entry, live, leaseVars, opVars, interest, guarded, getting,
                 ctlVars>>

-----------------------------------------------------------------------------
(***************************************************************************)
(* Polling.  A poll drains and routes the completions, reclaims evicted    *)
(* frames and delivers product results, and starts a retirement pass.  A   *)
(* waiting poll takes completions out of the driver without the control    *)
(* mutex and routes them once it has it.                                   *)
(***************************************************************************)
RoutedOps(o, stage) ==
  [i \in OpSlots |->
     IF o[i].kind \in {"Write", "Fsync"} /\ o[i].stage = stage
     THEN [o[i] EXCEPT !.kind = "Completed", !.stage = "held"] ELSE o[i]]

\* The first n completed operations, in table order, go to the caller's batch.
Delivered(o, n) ==
  [i \in OpSlots |->
     IF /\ o[i].kind = "Completed"
        /\ Cardinality({j \in 1 .. i : o[j].kind = "Completed"}) <= n
     THEN NoOp ELSE o[i]]

\* Reads at stage are routed, those in failed without their page.
RouteReads(stage, failed) ==
  /\ failed \subseteq {id \in FileIds : page[id] = stage}
  /\ interest' = [id \in FileIds |->
                    IF page[id] = stage /\ "pending" \in interest[id]
                    THEN (interest[id] \ {"pending"})
                         \union {IF id \in failed THEN "failed" ELSE "success"}
                    ELSE interest[id]]

RoutedPage(id, stage, failed) ==
  IF page[id] # stage THEN page[id] ELSE IF id \in failed THEN "absent" ELSE "resident"

\* Completions at stage are routed and n product results delivered; matured
\* says whether the epochs let unguarded evicted frames be reclaimed.
Progress(stage, n, matured) ==
  LET reads == Cardinality({id \in FileIds : ReadInDriver(id) /\ page[id] # stage})
  IN /\ ops' = Delivered(SubmitHeldFsyncs(RoutedOps(ops, stage), reads), n)
     /\ \E failed \in SUBSET FileIds :
          /\ RouteReads(stage, failed)
          /\ page' = [id \in FileIds |->
                        IF matured /\ page[id] = "evicting" /\ id \notin guarded
                        THEN "absent" ELSE RoutedPage(id, stage, failed)]
     /\ scan' = 1
     /\ UNCHANGED <<driverVars, entry, live, leaseVars, sequence, guarded, getting,
                    closing, phase>>

Poll(n, matured) == Unlocked /\ Progress("done", n, matured)

Popped == (\E i \in OpSlots : ops[i].kind \in {"Write", "Fsync"} /\ ops[i].stage = "popped")
          \/ \E id \in FileIds : page[id] = "popped"

WaitDrain ==
  /\ phase \in {"up", "stopping"} /\ ~Popped
  /\ \/ \E i \in OpSlots : InDriver(ops[i]) /\ ops[i].stage = "done"
     \/ \E id \in FileIds : page[id] = "done"
  /\ ops' = [i \in OpSlots |->
               IF InDriver(ops[i]) /\ ops[i].stage = "done"
               THEN [ops[i] EXCEPT !.stage = "popped"] ELSE ops[i]]
  /\ page' = [id \in FileIds |-> IF page[id] = "done" THEN "popped" ELSE page[id]]
  /\ UNCHANGED <<driverVars, entry, live, leaseVars, sequence, interest, guarded, getting,
                 ctlVars>>

PollWait(n, matured) == Unlocked /\ Popped /\ Progress("popped", n, matured)

-----------------------------------------------------------------------------
(***************************************************************************)
(* Retirement.                                                             *)
(***************************************************************************)
BeginFileRetirement(id) ==
  /\ entry' = [entry EXCEPT ![id[1]].state = "Retiring"]
  /\ live' = [live EXCEPT ![id[1]] = 0]

RetireFile(id) ==
  /\ Unlocked /\ entry[id[1]].gen = id[2] /\ entry[id[1]].state \in {"Live", "Retiring"}
  /\ BeginFileRetirement(id)
  /\ scan' = 1
  /\ UNCHANGED <<driverVars, leaseVars, opVars, pageVars, getting, closing, phase>>

\* Mutant: a token waiting for a finished miss does not keep its file.
MissLivePending(id) == Reading(id)

MissLive(id) == Reading(id) \/ interest[id] # {}
ProductLive(id) == \E i \in OpSlots : ops[i] # NoOp /\ ops[i].file = id

\* retire_file_frames: the page a successful miss still protects is kept.
RetiredFrames(id) ==
  [page EXCEPT ![id] =
     IF @ = "resident" /\ "success" \notin interest[id] THEN "evicting" ELSE @]

NextSlot == scan' = (scan + 1) % (NumFiles + 1)

\* One file of progress_retirements, up to the close of its handle.
RetireStep ==
  LET id == <<scan, entry[scan].gen>>
      Quiet == ~MissLive(id) /\ RetiredFrames(id)[id] \notin {"resident", "evicting"} /\ ~ProductLive(id)
  IN /\ scan > 0 /\ ~closing
     /\ IF entry[scan].state = "Retiring" /\ leases[scan] = 0
        THEN /\ page' = RetiredFrames(id)
             /\ IF Quiet
                THEN /\ entry' = [entry EXCEPT ![scan].handle = FALSE]
                     /\ table' = [table EXCEPT ![scan].state =
                                    IF entry[scan].handle THEN "Closed" ELSE @]
                     /\ closing' = TRUE /\ UNCHANGED scan
                ELSE NextSlot /\ UNCHANGED <<entry, table, closing>>
        ELSE NextSlot /\ UNCHANGED <<page, entry, table, closing>>
     /\ UNCHANGED <<opening, live, leaseVars, opVars, interest, guarded, getting, phase>>

\* is_closed, asked after close released the driver's lock.
RetireCheck ==
  /\ closing
  /\ entry' = [entry EXCEPT ![scan].state =
                 IF IsClosed(<<scan, entry[scan].gen>>) THEN "Retired" ELSE @]
  /\ closing' = FALSE /\ NextSlot
  /\ UNCHANGED <<driverVars, live, leaseVars, opVars, pageVars, getting, phase>>

-----------------------------------------------------------------------------
(***************************************************************************)
(* Dropping the pool: no thread is inside it and no guard borrows it, but  *)
(* tokens and leases may live on.  The loop waits for the reads and the    *)
(* product operations, then closes every file; the teardown deadline ends  *)
(* it early.                                                               *)
(***************************************************************************)
BeginShutdown ==
  /\ Unlocked /\ ~Popped /\ guarded = {}
  /\ \A o \in Openers : opening[o] = NoFile
  /\ \A r \in Readers : getting[r] = Idle
  /\ phase' = "stopping"
  /\ UNCHANGED <<driverVars, entry, live, leaseVars, opVars, pageVars, getting, scan, closing>>

\* Mutant: an fsync does not keep the shutdown loop going.
ProductActiveWrites(o) == \E i \in OpSlots : o[i].kind = "Write"

ProductActive(o) == \E i \in OpSlots : o[i] # NoOp

ShutdownPass ==
  LET left == Delivered(SubmitHeldFsyncs(ops, DriverReads), NumOps)
      Done == ~ProductActive(left) /\ \A id \in FileIds : ~Reading(id)
  IN /\ phase = "stopping" /\ ~Popped
     /\ ops' = left
     /\ IF Done
        THEN /\ table' = [s \in FileSlots |->
                            IF entry[s].handle THEN [table[s] EXCEPT !.state = "Closed"]
                            ELSE table[s]]
             /\ entry' = [s \in FileSlots |->
                            IF entry[s] = NoEntry THEN NoEntry
                            ELSE [entry[s] EXCEPT !.handle = FALSE, !.state = "Retired"]]
             /\ phase' = "closed"
        ELSE UNCHANGED <<table, entry, phase>>
     /\ UNCHANGED <<opening, live, leaseVars, sequence, pageVars, getting, scan, closing>>

ShutdownRoute ==
  /\ phase = "stopping" /\ Popped
  /\ ops' = SubmitHeldFsyncs(RoutedOps(ops, "popped"), DriverReads)
  /\ \E failed \in SUBSET FileIds :
       /\ RouteReads("popped", failed)
       /\ page' = [id \in FileIds |-> RoutedPage(id, "popped", failed)]
  /\ UNCHANGED <<driverVars, entry, live, leaseVars, sequence, guarded, getting, ctlVars>>

ShutdownExpires ==
  /\ phase = "stopping" /\ ~Popped
  /\ phase' = "expired"
  /\ UNCHANGED <<driverVars, entry, live, leaseVars, opVars, pageVars, getting, scan, closing>>

-----------------------------------------------------------------------------
Next ==
  \/ \E o \in Openers : OpenFile(o) \/ AbortOpen(o) \/ RegisterFile(o)
  \/ \E r \in Readers : Pin(r) \/ GetCold(r) \/ \E id \in FileIds : Get(r, id)
  \/ \E s \in FileSlots : DropLease(s)
  \/ \E i \in OpSlots : CompleteOp(i)
  \/ \E id \in FileIds :
       \/ LeaseFile(id) \/ Ready(id) \/ DropToken(id) \/ DropGuard(id)
       \/ SubmitWrite(id) \/ SubmitFsync(id) \/ CompleteRead(id) \/ RetireFile(id)
  \/ \E n \in 0 .. NumOps, matured \in BOOLEAN : Poll(n, matured) \/ PollWait(n, matured)
  \/ WaitDrain \/ RetireStep \/ RetireCheck
  \/ BeginShutdown \/ ShutdownPass \/ ShutdownRoute \/ ShutdownExpires

Spec == Init /\ [][Next]_vars

(***************************************************************************)
(* The kernel completes what it was given, owners drop their leases,       *)
(* tokens and guards, and the owner loop keeps polling with a batch that   *)
(* has room; epochs mature (liveness of EpochReclaim).  A poll competes    *)
(* for the control mutex: strong fairness.  Nothing is assumed of threads  *)
(* that open files or ask for pages.                                       *)
(***************************************************************************)
OwnerStep(id) == DropToken(id) \/ DropGuard(id) \/ DropLease(id[1])

PollStep == PollWait(NumOps, TRUE) \/ (~Popped /\ Poll(NumOps, TRUE))

Fairness ==
  /\ \A i \in OpSlots : WF_vars(CompleteOp(i))
  /\ \A id \in FileIds : WF_vars(CompleteRead(id)) /\ WF_vars(OwnerStep(id))
  /\ WF_vars(RetireStep \/ RetireCheck)
  /\ SF_vars(PollStep)

FairSpec == Spec /\ Fairness

-----------------------------------------------------------------------------
\* An fsync is with the driver only when every write to its file submitted
\* before it has been routed: submit_held_fsyncs never lets the barrier overtake
\* a write, whatever slots the operations reuse and whoever drains them.
BarrierOrder ==
  \A i, j \in OpSlots :
    /\ ops[i].kind = "Fsync" /\ ops[j].kind = "Write" /\ ops[i].file = ops[j].file
    => ops[i].order < ops[j].order

\* A file progress_retirements declares Retired has no lease, token, guard,
\* frame, read or undelivered product operation left, and its driver slot is
\* closed or already belongs to a later file.
RetiredIsQuiet ==
  \A s \in FileSlots :
    LET id == <<s, entry[s].gen>>
    IN phase = "up" /\ entry[s].state = "Retired" =>
         /\ leases[s] = 0 \/ leaseGen[s] # id[2]
         /\ ~Reading(id) /\ interest[id] = {}
         /\ \A i \in OpSlots : ops[i] # NoOp => ops[i].file # id
         /\ page[id] = "absent" /\ id \notin guarded
         /\ ~entry[s].handle /\ IsClosed(id)

\* A thread that has reserved a driver slot finds, whenever it gets the control
\* mutex, the pool's slot absent or retired and without leases: the assertions
\* of register_file_internal and publish_generation.
RegistrationFinds ==
  \A o \in Openers :
    Unlocked /\ opening[o] # NoFile =>
      /\ entry[opening[o][1]].state \in {"Absent", "Retired"}
      /\ leases[opening[o][1]] = 0

\* Whatever still uses a file (its live word, a read, an operation, a frame, a
\* guard) finds the pool entry of exactly that generation with its handle, and
\* the driver file open: registered_file and the held fsync never panic.
FileBacked ==
  \A id \in FileIds :
    /\ phase \in {"up", "stopping"}
    /\ \/ FileIsLive(id) \/ Reading(id) \/ id \in guarded \/ page[id] # "absent"
       \/ \E i \in OpSlots : ops[i] # NoOp /\ ops[i].file = id
    => /\ entry[id[1]].gen = id[2] /\ entry[id[1]].handle /\ IsLive(id)

\* Nothing outlives its file: what uses a file keeps it, a retired file has no
\* user.
NothingOutlivesFile == RetiredIsQuiet /\ FileBacked

\* A pool drop that does not run into its deadline leaves nothing behind: every
\* accepted product operation, held fsyncs included, and every read has
\* finished, and every file is closed.
ShutdownDrains ==
  phase = "closed" =>
    /\ \A i \in OpSlots : ops[i] = NoOp
    /\ \A id \in FileIds : ~Reading(id)
    /\ \A s \in FileSlots : table[s].state = "Open" => entry[s] = NoEntry

\* A retirement that has begun ends, unless the pool is dropped first: nothing
\* the file waits for (a fsync held behind writes or behind a full driver, a
\* completion a waiting poll has taken, a token, a guard, a lease, a slot reused
\* between close and is_closed) can stay behind for ever.
RetirementCompletes ==
  \A s \in FileSlots :
    entry[s].state = "Retiring" ~> (entry[s].state = "Retired" \/ phase # "up")

=============================================================================
