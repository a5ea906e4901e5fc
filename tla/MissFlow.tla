------------------------------ MODULE MissFlow ------------------------------
(***************************************************************************)
(* The miss path of the pool: get, ready and poll (pool/mod.rs) over the     *)
(* singleflight registry MissTable and its waiter counts MissInterests       *)
(* (pool/miss.rs).                                                          *)
(*                                                                         *)
(* A thread that holds the control lock works in steps, because pins, token  *)
(* drops and kernel completions do not take the lock. A pin is one step and  *)
(* an evicting frame is reclaimed once no guard is on it, both of which      *)
(* EpochReclaim refines. Prefetch, retention and file retirement are off;    *)
(* CLOCK may pick any frame that may be evicted.                             *)
(***************************************************************************)
EXTENDS Integers, Sequences, FiniteSets

CONSTANTS
  Threads, Pages, NoThread, NoPage, NoFrame, NoEntry, NoToken,
  Setups          \* the instances explored: frames, reads, granule, generations,
                  \* the alignment direct I/O asks for (1 when buffered), and
                  \* the pages each thread asks for

ASSUME MissAssumption ==
  /\ \A x \in Setups :
       /\ IsFiniteSet(x.frames) /\ NoFrame \notin x.frames
       /\ x.reads \in 1 .. Cardinality(x.frames)
       /\ x.granule \in Nat \ {0} /\ x.alignment \in {n \in 1 .. x.granule : x.granule % n = 0}
       /\ x.generations \in [1 .. Cardinality(x.frames) -> Nat]
       /\ x.asks \in [Threads -> SUBSET Pages]
  /\ IsFiniteSet(Threads)
  /\ NoPage \notin Pages /\ NoThread \notin Threads

VARIABLES
  setup,
  fstate, fpage, table, free,                \* frames, page table, free stack
  entry, igen, waiters, success, pending,    \* MissTable and MissInterests
  op, got, reads,                            \* a frame's read, reads_in_flight
  pc, want, token, guard,                    \* threads outside the lock
  holder, phase, attempt, slot, batch, remaining  \* the control-lock holder

frameVars == <<fstate, fpage, table, free>>
missVars == <<entry, igen, waiters, success, pending>>
ioVars == <<op, got, reads>>
threadVars == <<pc, want, token, guard>>
lockVars == <<holder, phase, attempt, slot, batch, remaining>>
vars == <<setup, frameVars, missVars, ioVars, threadVars, lockVars>>

\* The frames, max_inflight_reads, the bytes of a granule and the alignment of
\* its file's reads in sectors, and the bound on the generations of each miss slot; there are as many slots as frames.
Frames == setup.frames
MaxReads == setup.reads
Granule == setup.granule
Alignment == setup.alignment
MaxGeneration(s) == setup.generations[s]

NumSlots == Cardinality(Frames)
Slots == 1 .. NumSlots

\* What a read returns: an error, end of file, or a number of sectors.
ERROR == -1
EOF == 0

Init ==
  /\ setup \in Setups
  /\ fstate = [f \in Frames |-> "Free"]
  /\ fpage = [f \in Frames |-> NoPage]
  /\ table = [p \in Pages |-> NoFrame]
  /\ free = CHOOSE s \in [1 .. Cardinality(Frames) -> Frames] :
                \A i, j \in DOMAIN s : s[i] = s[j] => i = j
  /\ entry = [s \in Slots |-> NoEntry]
  /\ igen = [s \in Slots |-> 0]
  /\ waiters = [s \in Slots |-> 0]
  /\ success = [f \in Frames |-> 0]
  /\ pending = <<>>
  /\ op = [f \in Frames |-> "none"]
  /\ got = [f \in Frames |-> 0]
  /\ reads = 0
  /\ pc = [t \in Threads |-> "idle"]
  /\ want = [t \in Threads |-> NoPage]
  /\ token = [t \in Threads |-> NoToken]
  /\ guard = [t \in Threads |-> NoFrame]
  /\ holder = NoThread
  /\ phase = "free"
  /\ attempt = 0
  /\ slot = 0
  /\ batch = {}
  /\ remaining = 0

(***************************************************************************)
(* MissTable.                                                              *)
(***************************************************************************)

IsPending(s) == entry[s] # NoEntry /\ entry[s].outcome = "Pending"

\* An empty slot, or a terminal record nobody waits for.
Reusable(s) == entry[s] = NoEntry \/ (~IsPending(s) /\ waiters[s] = 0)

FirstReusable(s) == Reusable(s) /\ \A x \in 1 .. s - 1 : ~Reusable(x)

\* pending_remove: the last of the index takes the place of slot s.
PendingRemoved(s) ==
  [i \in 1 .. Len(pending) - 1 |->
     IF i = entry[s].position THEN pending[Len(pending)] ELSE pending[i]]

\* Mutant of Moved: the position of the miss that moved is not updated.
MovedUnnoticed(s, x) == FALSE

Moved(s, x) ==
  x = pending[Len(pending)] /\ entry[s].position < Len(pending)

\* The records after slot s leaves the pending index with the given outcome; a
\* record without waiters is cleaned at once (clean_terminal_zero).
Terminated(s, outcome) ==
  [x \in Slots |->
     CASE x = s /\ waiters[s] = 0 -> NoEntry
       [] x = s /\ waiters[s] > 0 -> [entry[s] EXCEPT !.outcome = outcome]
       [] x # s /\ Moved(s, x) -> [entry[x] EXCEPT !.position = entry[s].position]
       [] OTHER -> entry[x]]

\* clean_terminal_zero of slot s when w waiters are left.
Cleaned(s, w) ==
  IF entry[s] # NoEntry /\ ~IsPending(s) /\ w = 0
    THEN [entry EXCEPT ![s] = NoEntry] ELSE entry

Unprotected(s, w) ==
  IF entry[s] # NoEntry /\ entry[s].outcome = "Succeeded" /\ w = 0
    THEN [success EXCEPT ![entry[s].frame] = 0] ELSE success

\* MissInterests: a fresh generation with its first waiter, and one more waiter.
BeginInterest(s) ==
  /\ igen' = [igen EXCEPT ![s] = @ + 1]
  /\ waiters' = [waiters EXCEPT ![s] = 1]

JoinInterest(s) == waiters' = [waiters EXCEPT ![s] = @ + 1]

PendingPush(s) == pending' = Append(pending, s)

PendingToken(p, s, generation) == [page |-> p, slot |-> s, generation |-> generation]

\* Mutant of Evictable: a frame tokens wait for is a victim too.
EvictableUnread(f) == fstate[f] = "Resident"

\* prepare_eviction: a frame some token still waits for stays.
Evictable(f) ==
  fstate[f] = "Resident" /\ (success[f] # 0 => waiters[success[f]] = 0)

(***************************************************************************)
(* get: a lock-free pin, and on a miss the locked path.                     *)
(***************************************************************************)

Pinned(t, p) == guard' = [guard EXCEPT ![t] = table[p]]

Idle(t) == pc[t] = "idle" /\ holder # t

\* A thread holds one token or one guard at a time.
Ask(t, p) ==
  /\ Idle(t)
  /\ token[t] = NoToken /\ guard[t] = NoFrame
  /\ IF table[p] # NoFrame
       THEN Pinned(t, p) /\ UNCHANGED <<pc, want>>
       ELSE /\ pc' = [pc EXCEPT ![t] = "cold"]
            /\ want' = [want EXCEPT ![t] = p]
            /\ UNCHANGED guard
  /\ UNCHANGED <<frameVars, missVars, ioVars, token, lockVars>>

EndGet(t) ==
  /\ pc' = [pc EXCEPT ![t] = "idle"]
  /\ want' = [want EXCEPT ![t] = NoPage]

\* The page became resident before the lock was taken.
Recheck(t) ==
  /\ holder = NoThread
  /\ pc[t] = "cold"
  /\ table[want[t]] # NoFrame
  /\ pc' = [pc EXCEPT ![t] = "retry"]
  /\ UNCHANGED <<frameVars, missVars, ioVars, want, token, guard, lockVars>>

\* The second pin, after the lock is dropped: a hit, or Busy.
RetryPin(t) ==
  /\ pc[t] = "retry"
  /\ IF table[want[t]] # NoFrame THEN Pinned(t, want[t]) ELSE UNCHANGED guard
  /\ EndGet(t)
  /\ UNCHANGED <<frameVars, missVars, ioVars, token, lockVars>>

\* Mutant of Unmapped: the lock holder trusts the pin that missed before the lock.
UnmappedBefore(t) == TRUE

Unmapped(t) == table[want[t]] = NoFrame

\* get_cold: a pending read of the page is joined.
Join(t) ==
  /\ holder = NoThread
  /\ pc[t] = "cold"
  /\ Unmapped(t)
  /\ \E s \in Slots :
       /\ IsPending(s) /\ entry[s].page = want[t]
       /\ JoinInterest(s)
       /\ token' = [token EXCEPT ![t] = PendingToken(want[t], s, entry[s].generation)]
  /\ EndGet(t)
  /\ UNCHANGED <<frameVars, entry, igen, success, pending, ioVars, guard, lockVars>>

NoPending(p) == \A s \in Slots : ~(IsPending(s) /\ entry[s].page = p)

\* At the bound on generations a get is Busy, where the code would go on.
Admissible(s) == FirstReusable(s) /\ igen[s] < MaxGeneration(s)

\* A read of its own needs a credit and a miss slot ...
BeginCold(t) ==
  /\ holder = NoThread
  /\ pc[t] = "cold"
  /\ Unmapped(t)
  /\ NoPending(want[t])
  /\ reads < MaxReads
  /\ \E s \in Slots : Admissible(s) /\ slot' = s
  /\ holder' = t
  /\ phase' = "claim"
  /\ attempt' = 1
  /\ UNCHANGED <<frameVars, missVars, ioVars, threadVars, batch, remaining>>

\* ... and is Busy without.
RefuseCold(t) ==
  /\ holder = NoThread
  /\ pc[t] = "cold"
  /\ Unmapped(t)
  /\ NoPending(want[t])
  /\ reads >= MaxReads \/ \A s \in Slots : ~Admissible(s)
  /\ EndGet(t)
  /\ UNCHANGED <<frameVars, missVars, ioVars, token, guard, lockVars>>

Unlock ==
  /\ holder' = NoThread
  /\ phase' = "free"
  /\ attempt' = 0
  /\ slot' = 0

\* claim_frame_bounded: a free frame is taken at the first, the second or the
\* last attempt; in between come a drain and a reclaim, an eviction and a reclaim.
NextAttempt ==
  /\ phase = "claim"
  /\ free = <<>>
  /\ attempt < 3
  /\ phase' = IF attempt = 1 THEN "drain" ELSE "evict"
  /\ batch' = IF attempt = 1 THEN {f \in Frames : op[f] = "done"} ELSE batch
  /\ attempt' = attempt + 1
  /\ UNCHANGED <<frameVars, missVars, ioVars, threadVars, holder, slot, remaining>>

NoFreeFrame ==
  /\ phase = "claim"
  /\ free = <<>>
  /\ attempt = 3
  /\ EndGet(holder)
  /\ Unlock
  /\ UNCHANGED <<frameVars, missVars, ioVars, token, guard, batch, remaining>>

Top == free[Len(free)]

ClaimFreeFrame == free # <<>> /\ free' = SubSeq(free, 1, Len(free) - 1)

SubmitPageRead(f) == op' = [op EXCEPT ![f] = "inflight"]

\* The driver refuses the read: the frame goes back, the caller is Busy.
RefuseSubmit ==
  /\ phase = "claim"
  /\ free # <<>>
  /\ fpage' = [fpage EXCEPT ![Top] = want[holder]]
  /\ EndGet(holder)
  /\ Unlock
  /\ UNCHANGED <<fstate, table, free, missVars, ioVars, token, guard, batch, remaining>>

\* The read is submitted, takes its credit and is admitted under a fresh
\* generation with the caller as its waiter.
Admit ==
  /\ phase = "claim"
  /\ ClaimFreeFrame
  /\ LET t == holder f == Top IN
       /\ fstate' = [fstate EXCEPT ![f] = "InFlight"]
       /\ fpage' = [fpage EXCEPT ![f] = want[t]]
       /\ SubmitPageRead(f)
       /\ reads' = reads + 1
       /\ BeginInterest(slot)
       /\ success' = Unprotected(slot, waiters[slot])
       /\ entry' = [entry EXCEPT ![slot] =
                      [page |-> want[t], frame |-> f, generation |-> igen[slot] + 1,
                       filled |-> 0, position |-> Len(pending) + 1,
                       outcome |-> "Pending"]]
       /\ PendingPush(slot)
       /\ token' = [token EXCEPT ![t] = PendingToken(want[t], slot, igen[slot] + 1)]
       /\ EndGet(t)
  /\ Unlock
  /\ UNCHANGED <<table, got, guard, batch, remaining>>

(***************************************************************************)
(* Completions and reclamation, under the lock of a get or of a poll.       *)
(***************************************************************************)

\* The kernel answers a read with an error, an end of file or some sectors.
Complete(f) ==
  /\ op[f] = "inflight"
  /\ op' = [op EXCEPT ![f] = "done"]
  /\ \E n \in ERROR .. Granule :
       /\ \A s \in Slots :
            IsPending(s) /\ entry[s].frame = f => entry[s].filled + n <= Granule
       /\ got' = [got EXCEPT ![f] = n]
  /\ UNCHANGED <<frameVars, missVars, reads, threadVars, lockVars>>

BeginPoll(t) ==
  /\ holder = NoThread
  /\ pc[t] = "idle"
  /\ holder' = t
  /\ phase' = "drain"
  /\ attempt' = 0
  /\ batch' = {f \in Frames : op[f] = "done"}
  /\ UNCHANGED <<frameVars, missVars, ioVars, threadVars, slot, remaining>>

\* find_by_token: the pending record of the completed read.
Owner(f) == CHOOSE s \in Slots : IsPending(s) /\ entry[s].frame = f

Routed(f) ==
  /\ phase = "drain"
  /\ f \in batch
  /\ batch' = batch \ {f}
  /\ got' = [got EXCEPT ![f] = 0]

Filled(f) == entry[Owner(f)].filled + got[f]

ReleaseReadCredit == reads' = reads - 1

\* A direct read starts and ends on the alignment; the granule is a multiple of it.
RemainderSatisfiesIoMode(f) ==
  Filled(f) % Alignment = 0 /\ (Granule - Filled(f)) % Alignment = 0

AdvanceRemainder(f) == entry' = [entry EXCEPT ![Owner(f)].filled = Filled(f)]

\* finish_success: publish, map, and protect the frame while tokens wait.
Succeed(f) ==
  /\ Routed(f)
  /\ got[f] > 0 /\ Filled(f) >= Granule
  /\ LET s == Owner(f) IN
       /\ fstate' = [fstate EXCEPT ![f] = "Resident"]
       /\ table' = [table EXCEPT ![entry[s].page] = f]
       /\ entry' = Terminated(s, "Succeeded")
       /\ success' = [success EXCEPT ![f] = IF waiters[s] > 0 THEN s ELSE 0]
       /\ pending' = PendingRemoved(s)
  /\ op' = [op EXCEPT ![f] = "none"]
  /\ ReleaseReadCredit
  /\ UNCHANGED <<fpage, free, igen, waiters, threadVars, holder, phase, attempt,
                 slot, remaining>>

\* Mutant of Resubmit: a short read is started over.
ResubmitWhole(f) ==
  /\ Routed(f)
  /\ got[f] > 0 /\ Filled(f) < Granule /\ RemainderSatisfiesIoMode(f)
  /\ op' = [op EXCEPT ![f] = "inflight"]
  /\ UNCHANGED <<frameVars, missVars, reads, threadVars, holder, phase, attempt,
                 slot, remaining>>

\* A short read is continued with a read of the remainder ...
Resubmit(f) ==
  /\ Routed(f)
  /\ got[f] > 0 /\ Filled(f) < Granule /\ RemainderSatisfiesIoMode(f)
  /\ AdvanceRemainder(f)
  /\ op' = [op EXCEPT ![f] = "inflight"]
  /\ UNCHANGED <<frameVars, igen, waiters, success, pending, reads, threadVars,
                 holder, phase, attempt, slot, remaining>>

\* ... and fails when the driver refuses that read or its span is misaligned,
\* as an error and an end of file do: the frame is freed, the errno kept.
Fail(f) ==
  /\ Routed(f)
  /\ got[f] > 0 => Filled(f) < Granule
  /\ LET s == Owner(f) IN
       /\ entry' = Terminated(s, "Failed")
       /\ pending' = PendingRemoved(s)
  /\ fstate' = [fstate EXCEPT ![f] = "Free"]
  /\ free' = Append(free, f)
  /\ op' = [op EXCEPT ![f] = "none"]
  /\ ReleaseReadCredit
  /\ UNCHANGED <<fpage, table, igen, waiters, success, threadVars, holder, phase,
                 attempt, slot, remaining>>

EndDrain ==
  /\ phase = "drain"
  /\ batch = {}
  /\ phase' = "reclaim"
  /\ UNCHANGED <<frameVars, missVars, ioVars, threadVars, holder, attempt, slot,
                 batch, remaining>>

\* evict_clock_victim: unmap, release the protection of a record nobody waits
\* for, start evicting; or nothing is found to evict.
Evict ==
  /\ phase = "evict"
  /\ \/ /\ \E f \in Frames :
            /\ Evictable(f)
            /\ LET s == success[f] IN
                 /\ entry' = IF s = 0 THEN entry ELSE Cleaned(s, waiters[s])
                 /\ success' = IF s = 0 THEN success ELSE Unprotected(s, waiters[s])
            /\ table' = [table EXCEPT ![fpage[f]] = NoFrame]
            /\ fstate' = [fstate EXCEPT ![f] = "Evicting"]
     \/ UNCHANGED <<entry, success, table, fstate>>
  /\ phase' = "reclaim"
  /\ UNCHANGED <<fpage, free, igen, waiters, pending, ioVars, threadVars, holder,
                 attempt, slot, batch, remaining>>

\* advance_and_reclaim frees evicted frames that no guard is on.
Reclaim(f) ==
  /\ phase = "reclaim"
  /\ fstate[f] = "Evicting"
  /\ \A t \in Threads : guard[t] # f
  /\ fstate' = [fstate EXCEPT ![f] = "Free"]
  /\ free' = Append(free, f)
  /\ UNCHANGED <<fpage, table, missVars, ioVars, threadVars, lockVars>>

\* A poll ends with its reclaim; a get goes on to its next attempt.
EndReclaim ==
  /\ phase = "reclaim"
  /\ IF attempt = 0
       THEN Unlock
       ELSE phase' = "claim" /\ UNCHANGED <<holder, attempt, slot>>
  /\ UNCHANGED <<frameVars, missVars, ioVars, threadVars, batch, remaining>>

(***************************************************************************)
(* Tokens: ready, and a drop, which does not take the lock.                 *)
(***************************************************************************)

\* MissInterests::release of the token's waiter.
Release(t) ==
  /\ waiters' = [waiters EXCEPT ![token[t].slot] = @ - 1]
  /\ token' = [token EXCEPT ![t] = NoToken]

DropToken(t) ==
  /\ Idle(t)
  /\ token[t] # NoToken
  /\ Release(t)
  /\ UNCHANGED <<frameVars, entry, igen, success, pending, ioVars, pc, want, guard,
                 lockVars>>

\* ready on a terminal record: a success is pinned, the token is consumed ...
Ready(t) ==
  /\ holder = NoThread
  /\ pc[t] = "idle"
  /\ token[t] # NoToken
  /\ LET s == token[t].slot IN
       /\ ~IsPending(s)
       /\ IF entry[s].outcome = "Succeeded"
            THEN Pinned(t, token[t].page)
            ELSE UNCHANGED guard
       /\ remaining' = waiters[s] - 1
       /\ slot' = s
  /\ Release(t)
  /\ holder' = t
  /\ phase' = "settle"
  /\ UNCHANGED <<frameVars, entry, igen, success, pending, ioVars, pc, want,
                 attempt, batch>>

\* Mutant of Settle: the record is removed while others still wait.
SettleForAll ==
  /\ phase = "settle"
  /\ entry' = Cleaned(slot, 0)
  /\ success' = Unprotected(slot, waiters[slot])
  /\ remaining' = 0
  /\ Unlock
  /\ UNCHANGED <<frameVars, igen, waiters, pending, ioVars, threadVars, batch>>

\* ... and the record cleaned if that was its last waiter.
Settle ==
  /\ phase = "settle"
  /\ entry' = Cleaned(slot, waiters[slot])
  /\ success' = Unprotected(slot, waiters[slot])
  /\ remaining' = 0
  /\ Unlock
  /\ UNCHANGED <<frameVars, igen, waiters, pending, ioVars, threadVars, batch>>

DropGuard(t) ==
  /\ Idle(t)
  /\ guard[t] # NoFrame
  /\ guard' = [guard EXCEPT ![t] = NoFrame]
  /\ UNCHANGED <<frameVars, missVars, ioVars, pc, want, token, lockVars>>

LockStep ==
  \/ NextAttempt \/ NoFreeFrame \/ RefuseSubmit \/ Admit
  \/ \E f \in Frames : Succeed(f) \/ Resubmit(f) \/ Fail(f)
  \/ EndDrain \/ Evict \/ EndReclaim \/ Settle

ColdStep(t) ==
  Recheck(t) \/ RetryPin(t) \/ Join(t) \/ BeginCold(t) \/ RefuseCold(t)

Next ==
  /\ \/ \E t \in Threads :
          \/ \E p \in setup.asks[t] : Ask(t, p)
          \/ ColdStep(t)
          \/ BeginPoll(t) \/ DropToken(t) \/ Ready(t) \/ DropGuard(t)
     \/ \E f \in Frames : Complete(f) \/ Reclaim(f)
     \/ LockStep
  /\ UNCHANGED setup

Spec == Init /\ [][Next]_vars

\* The kernel answers every read, a lock holder finishes, a get obtains the lock in
\* the end, and some thread polls again and again: progress is poll-driven.
Fairness ==
  /\ \A f \in UNION {x.frames : x \in Setups} :
       WF_vars(f \in Frames /\ Complete(f) /\ UNCHANGED setup)
  /\ WF_vars(LockStep /\ UNCHANGED setup)
  /\ \A t \in Threads : SF_vars(ColdStep(t) /\ UNCHANGED setup)
  /\ SF_vars(UNCHANGED setup /\ \E t \in Threads : BeginPoll(t))

FairSpec == Spec /\ Fairness

(***************************************************************************)
(* Properties.                                                             *)
(***************************************************************************)

\* The miss slot chosen before claim_frame is still reusable when the read is
\* admitted, although claim_frame drains completions and evicts in between.
AdmissionSlotHeld ==
  phase # "settle" /\ slot # 0 =>
    Reusable(slot) /\ waiters[slot] = 0 /\ NoPending(want[holder])

\* INV-4, singleflight: whatever the order of concurrent gets, no page has two
\* reads in flight, and a page already mapped is not read again; what get decided
\* before it claimed a frame still holds when it admits the read.
SingleFlight ==
  /\ AdmissionSlotHeld
  /\ \A s \in Slots : IsPending(s) =>
       /\ table[entry[s].page] = NoFrame
       /\ \A x \in Slots \ {s} : IsPending(x) =>
            entry[x].page # entry[s].page /\ entry[x].frame # entry[s].frame

\* Every read credit belongs to exactly one pending miss, whose frame is in
\* flight; short reads and refusals neither leak a credit nor return it twice.
ReadCredit ==
  /\ reads = Cardinality({s \in Slots : IsPending(s)})
  /\ {f \in Frames : op[f] # "none"} = {entry[s].frame : s \in {x \in Slots : IsPending(x)}}
  /\ \A f \in Frames : op[f] # "none" => fstate[f] = "InFlight"

Holds(t, s) == token[t] # NoToken /\ token[t].slot = s

\* A waiter count is the number of live tokens of the slot, and each of them
\* names the record that is still there: a lock-free drop or a reuse of the slot
\* never strands a token (MissTable::validate, MissInterests::release).
WaiterExact ==
  \A s \in Slots :
    /\ waiters[s] = Cardinality({t \in Threads : Holds(t, s)})
    /\ \A t \in Threads : Holds(t, s) =>
         /\ entry[s] # NoEntry
         /\ token[t].generation = entry[s].generation
         /\ token[t].generation = igen[s]
         /\ token[t].page = entry[s].page

\* A page that was read stays mapped to its frame while a token waits for it, so
\* ready always pins what was read ("the protected successful frame remains
\* pinnable", Pool::ready).
SuccessProtects ==
  \A t \in Threads : token[t] # NoToken /\ entry[token[t].slot].outcome = "Succeeded" =>
    LET e == entry[token[t].slot] IN
      table[e.page] = e.frame /\ fstate[e.frame] = "Resident" /\ fpage[e.frame] = e.page

\* The compact pending index and the positions in the records name each other
\* after any order of swap-removals ("the pending index mirrors the pending
\* slots"), within the in-flight bound.
PendingMirrors ==
  /\ Len(pending) <= MaxReads
  /\ Len(pending) = Cardinality({s \in Slots : IsPending(s)})
  /\ \A s \in Slots : IsPending(s) =>
       entry[s].position <= Len(pending) /\ pending[entry[s].position] = s

\* The index of protected frames holds exactly the successful records, each under
\* its own frame, so that eviction and cleaning always find the right one.
SuccessIndexExact ==
  /\ \A f \in Frames : success[f] # 0 =>
       entry[success[f]] # NoEntry /\ entry[success[f]].outcome = "Succeeded"
                                /\ entry[success[f]].frame = f
  /\ \A s \in Slots : entry[s] # NoEntry /\ entry[s].outcome = "Succeeded" =>
       success[entry[s].frame] = s

\* A frame is on the free stack once when it is Free and never otherwise, and no
\* guard is left on it: no frame is handed to two reads or read under a guard.
FreeListExact ==
  /\ {free[i] : i \in DOMAIN free} = {f \in Frames : fstate[f] = "Free"}
  /\ Len(free) = Cardinality({f \in Frames : fstate[f] = "Free"})
  /\ \A t \in Threads : guard[t] # NoFrame => fstate[guard[t]] \in {"Resident", "Evicting"}

\* The page table maps a page only to a resident frame that holds it, and every
\* resident frame is mapped.
MappedExact ==
  /\ \A p \in Pages : table[p] # NoFrame =>
       fstate[table[p]] = "Resident" /\ fpage[table[p]] = p
  /\ \A f \in Frames : fstate[f] = "Resident" => table[fpage[f]] = f

\* The pool says the same thing in several places (records, credits, the two
\* indexes, the free stack, the page table), which agree whenever the lock
\* holder can be interleaved with.
IndexesAgree ==
  ReadCredit /\ PendingMirrors /\ SuccessIndexExact /\ FreeListExact /\ MappedExact

\* A read that was admitted is decided: under polling every pending miss becomes
\* terminal, however often it is short or continued.
MissTerminates ==
  \A s \in UNION {1 .. Cardinality(x.frames) : x \in Setups} :
    (s \in Slots /\ IsPending(s)) ~> (s \in Slots /\ ~IsPending(s))

\* ready asserts after it consumed a failed token that the waiter count is still
\* the one its own decrement left ("terminal consumption updates the exact
\* generation").
ConsumptionExact ==
  phase = "settle" /\ entry[slot].outcome = "Failed" => waiters[slot] = remaining
=============================================================================
