---------------------------- MODULE EpochReclaim ----------------------------
(***************************************************************************)
(* Epoch-based reclamation of pool frames: readers pin frames without the  *)
(* control lock (pool/epoch.rs, pool/mod.rs pin_owned and                   *)
(* pin_with_resident_hint) while the control-lock holder publishes, evicts  *)
(* and reclaims them (pool/frames.rs, EvictQueue, advance_and_reclaim).     *)
(*                                                                         *)
(* One action per atomic access another thread can interleave with. The    *)
(* SeqCst fences of begin_pin and advance_epoch make the publication of a   *)
(* local epoch and the reads after it sequentially consistent, so a step    *)
(* here is one access in that order; a global epoch loaded before a pin is  *)
(* published may be stale by then, which LoadEpoch keeps as a step of its   *)
(* own. The page table is its map from pages to frames: the probing and     *)
(* the cell protocol under it are another module's subject. Retention is    *)
(* off (max_retained = 0).                                                  *)
(***************************************************************************)
EXTENDS Integers, Sequences, FiniteSets

CONSTANTS
  NumReaders,     \* reader slots of the registry
  Frames,         \* pool frames
  Pages,          \* exact page identities (file, generation, granule)
  PeakGuards,     \* peak_guards_per_reader
  MaxEpoch,       \* bound on the global epoch counter
  MaxGeneration,  \* bound on a frame's residency generation
  NoFrame,        \* the absent frame (None)
  NoPage          \* bytes that are no page's: zeroed, or being overwritten

ASSUME ReadersAssumption == NumReaders \in Nat \ {0}
ASSUME PeakAssumption == PeakGuards \in Nat \ {0}
ASSUME BoundsAssumption == MaxEpoch \in Nat /\ MaxGeneration \in Nat
ASSUME FramesAssumption == IsFiniteSet(Frames) /\ NoFrame \notin Frames
ASSUME PagesAssumption == NoPage \notin Pages

Readers == 1 .. NumReaders
GuardIds == 1 .. PeakGuards

\* The sentinel lies above every real epoch, as u64::MAX does.
QUIESCENT == MaxEpoch + 1

VARIABLES
  globalEpoch,
  \* the reader registry
  occupied, localEpoch, guardCount,
  \* the guards a reader's thread holds: the frame and the page asked for
  guardFrame, guardPage,
  \* the pin a reader's thread is in
  pc, pinEpoch, pinPage, pinFrame,
  \* the advisory hint a reader's thread keeps
  hintFrame, hintStamp, hintPage,
  \* frames: packed state word (state, generation), exact identity, bytes
  fstate, fgen, fpage, content,
  table, evictQueue,
  \* the control-lock holder: what it is doing, its victim, slots scanned
  ctl, victim, scanned

registryVars == <<occupied, localEpoch, guardCount>>
guardVars == <<guardFrame, guardPage>>
pinVars == <<pc, pinEpoch, pinPage, pinFrame>>
hintVars == <<hintFrame, hintStamp, hintPage>>
frameVars == <<fstate, fgen, fpage, content>>
ctlVars == <<ctl, victim, scanned>>
readerVars == <<registryVars, guardVars, pinVars, hintVars>>
vars == <<globalEpoch, registryVars, guardVars, pinVars, hintVars, frameVars,
          table, evictQueue, ctlVars>>

Init ==
  /\ globalEpoch = 0
  /\ occupied = [r \in Readers |-> FALSE]
  /\ localEpoch = [r \in Readers |-> QUIESCENT]
  /\ guardCount = [r \in Readers |-> 0]
  /\ guardFrame = [r \in Readers |-> [g \in GuardIds |-> NoFrame]]
  /\ guardPage = [r \in Readers |-> [g \in GuardIds |-> NoPage]]
  /\ pc = [r \in Readers |-> "idle"]
  /\ pinEpoch = [r \in Readers |-> 0]
  /\ pinPage = [r \in Readers |-> NoPage]
  /\ pinFrame = [r \in Readers |-> NoFrame]
  /\ hintFrame = [r \in Readers |-> NoFrame]
  /\ hintStamp = [r \in Readers |-> 0]
  /\ hintPage = [r \in Readers |-> NoPage]
  /\ fstate = [f \in Frames |-> "Free"]
  /\ fgen = [f \in Frames |-> 0]
  /\ fpage = [f \in Frames |-> NoPage]
  /\ content = [f \in Frames |-> NoPage]
  /\ table = [p \in Pages |-> NoFrame]
  /\ evictQueue = <<>>
  /\ ctl = "idle"
  /\ victim = NoFrame
  /\ scanned = 0

(***************************************************************************)
(* Reader registration.                                                    *)
(***************************************************************************)

\* ReaderRegistry::register wins a vacant slot by compare-exchange.
Register(r) ==
  /\ ~occupied[r]
  /\ occupied' = [occupied EXCEPT ![r] = TRUE]
  /\ UNCHANGED <<globalEpoch, localEpoch, guardCount, guardVars, pinVars,
                 hintVars, frameVars, table, evictQueue, ctlVars>>

\* A dropped ReaderCtx vacates its slot; its borrow outlives pins and guards.
Vacate(r) ==
  /\ occupied[r]
  /\ pc[r] = "idle"
  /\ guardCount[r] = 0
  /\ localEpoch' = [localEpoch EXCEPT ![r] = QUIESCENT]
  /\ occupied' = [occupied EXCEPT ![r] = FALSE]
  /\ UNCHANGED <<globalEpoch, guardCount, guardVars, pinVars, hintVars,
                 frameVars, table, evictQueue, ctlVars>>

(***************************************************************************)
(* A pin: load the global epoch, publish it on the first guard, then look   *)
(* the page up (or validate a hint), then commit or abort.                  *)
(***************************************************************************)

FirstGuard(r) == guardCount[r] = 0

\* The call returns and its locals go out of scope.
EndCall(r) ==
  /\ pc' = [pc EXCEPT ![r] = "idle"]
  /\ pinPage' = [pinPage EXCEPT ![r] = NoPage]
  /\ pinFrame' = [pinFrame EXCEPT ![r] = NoFrame]

\* The load that precedes begin_pin; another guard stays within the peak
\* commit_pin asserts.
LoadEpoch(r, p, to) ==
  /\ occupied[r]
  /\ pc[r] = "idle"
  /\ guardCount[r] < PeakGuards
  /\ pinEpoch' = [pinEpoch EXCEPT ![r] = globalEpoch]
  /\ pinPage' = [pinPage EXCEPT ![r] = p]
  /\ pinFrame' = [pinFrame EXCEPT ![r] = NoFrame]
  /\ pc' = [pc EXCEPT ![r] = to]
  /\ UNCHANGED <<globalEpoch, registryVars, guardVars, hintVars, frameVars,
                 table, evictQueue, ctlVars>>

GetPage(r, p) == LoadEpoch(r, p, "loaded")

\* get_with_hint: the hint's granule must be the page's, which is all the hint
\* itself can be checked for before the pin.
GetWithHint(r) ==
  /\ hintFrame[r] # NoFrame
  /\ LoadEpoch(r, hintPage[r], "hinted")

\* begin_pin publishes the epoch loaded above, and fences.
BeginPin(r) ==
  /\ pc[r] \in {"loaded", "hinted"}
  /\ localEpoch' = [localEpoch EXCEPT ![r] =
                      IF FirstGuard(r) THEN pinEpoch[r] ELSE @]
  /\ pinEpoch' = [pinEpoch EXCEPT ![r] = 0]
  /\ pc' = [pc EXCEPT ![r] = IF @ = "loaded" THEN "begun" ELSE "stamping"]
  /\ UNCHANGED <<globalEpoch, occupied, guardCount, guardVars, pinPage,
                 pinFrame, hintVars, frameVars, table, evictQueue, ctlVars>>

\* table.lookup; the frame's state is not consulted.
Lookup(r) ==
  /\ pc[r] = "begun"
  /\ pinFrame' = [pinFrame EXCEPT ![r] = table[pinPage[r]]]
  /\ pc' = [pc EXCEPT ![r] = "looked"]
  /\ UNCHANGED <<globalEpoch, registryVars, guardVars, pinEpoch, pinPage,
                 hintVars, frameVars, table, evictQueue, ctlVars>>

\* Mutant: the stamp stands for the generation alone.
WordMatchesAnyState(r) == fgen[hintFrame[r]] = hintStamp[r]

WordMatches(r) ==
  fstate[hintFrame[r]] = "Resident" /\ fgen[hintFrame[r]] = hintStamp[r]

\* validate_resident compares the frame's word with the stamp ...
ValidateWord(r) ==
  /\ pc[r] = "stamping"
  /\ pinFrame' = [pinFrame EXCEPT ![r] =
                    IF WordMatches(r) THEN hintFrame[r] ELSE NoFrame]
  /\ pc' = [pc EXCEPT ![r] = IF WordMatches(r) THEN "stamped" ELSE "looked"]
  /\ UNCHANGED <<globalEpoch, registryVars, guardVars, pinEpoch, pinPage,
                 hintVars, frameVars, table, evictQueue, ctlVars>>

\* ... and then reads the exact identity, which must name the page.
ReadIdentity(r) ==
  /\ pc[r] = "stamped"
  /\ pinFrame' = [pinFrame EXCEPT ![r] =
                    IF fpage[@] = pinPage[r] THEN @ ELSE NoFrame]
  /\ pc' = [pc EXCEPT ![r] = "looked"]
  /\ UNCHANGED <<globalEpoch, registryVars, guardVars, pinEpoch, pinPage,
                 hintVars, frameVars, table, evictQueue, ctlVars>>

CommitPin(r) ==
  /\ pc[r] = "looked"
  /\ pinFrame[r] # NoFrame
  /\ \E g \in GuardIds :
       /\ guardFrame[r][g] = NoFrame
       /\ guardFrame' = [guardFrame EXCEPT ![r][g] = pinFrame[r]]
       /\ guardPage' = [guardPage EXCEPT ![r][g] = pinPage[r]]
  /\ guardCount' = [guardCount EXCEPT ![r] = @ + 1]
  /\ EndCall(r)
  /\ UNCHANGED <<globalEpoch, occupied, localEpoch, pinEpoch, hintVars,
                 frameVars, table, evictQueue, ctlVars>>

\* Mutant: a failed pin leaves the epoch it published behind.
AbortPinKeepsEpoch(r) ==
  /\ pc[r] = "looked"
  /\ pinFrame[r] = NoFrame
  /\ EndCall(r)
  /\ UNCHANGED <<globalEpoch, registryVars, guardVars, pinEpoch, hintVars,
                 frameVars, table, evictQueue, ctlVars>>

\* A failed first pin goes back to quiescence; a nested one published nothing.
AbortPin(r) ==
  /\ pc[r] = "looked"
  /\ pinFrame[r] = NoFrame
  /\ localEpoch' = [localEpoch EXCEPT ![r] =
                      IF FirstGuard(r) THEN QUIESCENT ELSE @]
  /\ EndCall(r)
  /\ UNCHANGED <<globalEpoch, occupied, guardCount, guardVars, pinEpoch,
                 hintVars, frameVars, table, evictQueue, ctlVars>>

\* Mutant: every dropped guard takes the reader quiescent.
AnyGuard(r) == guardCount[r] >= 1

LastGuard(r) == guardCount[r] = 1

\* A dropped FrameGuard: the last one takes the reader quiescent.
ReleaseGuard(r, g) ==
  /\ pc[r] = "idle"
  /\ guardFrame[r][g] # NoFrame
  /\ guardFrame' = [guardFrame EXCEPT ![r][g] = NoFrame]
  /\ guardPage' = [guardPage EXCEPT ![r][g] = NoPage]
  /\ guardCount' = [guardCount EXCEPT ![r] = @ - 1]
  /\ localEpoch' = [localEpoch EXCEPT ![r] =
                      IF LastGuard(r) THEN QUIESCENT ELSE @]
  /\ UNCHANGED <<globalEpoch, occupied, pinVars, hintVars, frameVars, table,
                 evictQueue, ctlVars>>

(***************************************************************************)
(* Advisory hints, minted without a pin (resident_hint: a lookup and then,  *)
(* as a second access, the frame's word) or under a guard.                  *)
(***************************************************************************)

HintLookup(r, p) ==
  /\ occupied[r]
  /\ pc[r] = "idle"
  /\ table[p] # NoFrame
  /\ pinPage' = [pinPage EXCEPT ![r] = p]
  /\ pinFrame' = [pinFrame EXCEPT ![r] = table[p]]
  /\ pc' = [pc EXCEPT ![r] = "hinting"]
  /\ UNCHANGED <<globalEpoch, registryVars, guardVars, pinEpoch, hintVars,
                 frameVars, table, evictQueue, ctlVars>>

TakeHint(r, f, p) ==
  /\ hintFrame' = [hintFrame EXCEPT ![r] = f]
  /\ hintStamp' = [hintStamp EXCEPT ![r] = fgen[f]]
  /\ hintPage' = [hintPage EXCEPT ![r] = p]

HintStamp(r) ==
  /\ pc[r] = "hinting"
  /\ IF fstate[pinFrame[r]] = "Resident"
       THEN TakeHint(r, pinFrame[r], pinPage[r])
       ELSE UNCHANGED hintVars
  /\ EndCall(r)
  /\ UNCHANGED <<globalEpoch, registryVars, guardVars, pinEpoch, frameVars,
                 table, evictQueue, ctlVars>>

HintForGuard(r, g) ==
  /\ pc[r] = "idle"
  /\ guardFrame[r][g] # NoFrame
  /\ fstate[guardFrame[r][g]] = "Resident"
  /\ TakeHint(r, guardFrame[r][g], guardPage[r][g])
  /\ UNCHANGED <<globalEpoch, registryVars, guardVars, pinVars, frameVars,
                 table, evictQueue, ctlVars>>

(***************************************************************************)
(* The control-lock holder.                                                *)
(***************************************************************************)

\* One read per page: get_cold joins a pending miss and get re-checks the
\* mapping under the lock before it claims a frame.
MayRead(p) ==
  /\ table[p] = NoFrame
  /\ \A f \in Frames : ~(fstate[f] = "InFlight" /\ fpage[f] = p)

\* Frames::claim: the frame's identity is written and its bytes now belong to
\* the read.
Claim(f, p) ==
  /\ ctl = "idle"
  /\ fstate[f] = "Free"
  /\ MayRead(p)
  /\ fstate' = [fstate EXCEPT ![f] = "InFlight"]
  /\ fpage' = [fpage EXCEPT ![f] = p]
  /\ content' = [content EXCEPT ![f] = NoPage]
  /\ UNCHANGED <<globalEpoch, readerVars, fgen, table, evictQueue, ctlVars>>

\* drain_completions_finish_success: publish, then map.
Publish(f) ==
  /\ ctl = "idle"
  /\ fstate[f] = "InFlight"
  /\ fgen[f] < MaxGeneration
  /\ fstate' = [fstate EXCEPT ![f] = "Resident"]
  /\ fgen' = [fgen EXCEPT ![f] = @ + 1]
  /\ content' = [content EXCEPT ![f] = fpage[f]]
  /\ table' = [table EXCEPT ![fpage[f]] = f]
  /\ UNCHANGED <<globalEpoch, readerVars, fpage, evictQueue, ctlVars>>

\* drain_completions_finish_failure: the generation is kept.
AbortRead(f) ==
  /\ ctl = "idle"
  /\ fstate[f] = "InFlight"
  /\ fstate' = [fstate EXCEPT ![f] = "Free"]
  /\ UNCHANGED <<globalEpoch, readerVars, fgen, fpage, content, table,
                 evictQueue, ctlVars>>

\* evict_resident removes the mapping ...
Unmap(f) ==
  /\ ctl = "idle"
  /\ fstate[f] = "Resident"
  /\ table[fpage[f]] = f
  /\ table' = [table EXCEPT ![fpage[f]] = NoFrame]
  /\ ctl' = "unmapped"
  /\ victim' = f
  /\ UNCHANGED <<globalEpoch, readerVars, frameVars, evictQueue, scanned>>

\* ... and then moves the frame to Evicting and queues it with the epoch.
Enqueue ==
  /\ ctl = "unmapped"
  /\ fstate' = [fstate EXCEPT ![victim] = "Evicting"]
  /\ evictQueue' = Append(evictQueue, [frame |-> victim, tag |-> globalEpoch])
  /\ ctl' = "idle"
  /\ victim' = NoFrame
  /\ UNCHANGED <<globalEpoch, readerVars, fgen, fpage, content, table, scanned>>

\* advance_epoch loads the epoch it may step from; MaxEpoch bounds the model.
BeginAdvance ==
  /\ ctl = "idle"
  /\ globalEpoch < MaxEpoch
  /\ ctl' = "scan"
  /\ scanned' = 0
  /\ UNCHANGED <<globalEpoch, readerVars, frameVars, table, evictQueue, victim>>

PermitsAdvance(r) == localEpoch[r] = QUIESCENT \/ localEpoch[r] = globalEpoch

\* `all` reads the slots in order and stops at the first that refuses.
ScanSlot ==
  /\ ctl = "scan"
  /\ scanned < NumReaders
  /\ IF PermitsAdvance(scanned + 1)
       THEN scanned' = scanned + 1 /\ ctl' = ctl
       ELSE scanned' = scanned /\ ctl' = "drain"
  /\ UNCHANGED <<globalEpoch, readerVars, frameVars, table, evictQueue, victim>>

StoreEpoch ==
  /\ ctl = "scan"
  /\ scanned = NumReaders
  /\ globalEpoch' = globalEpoch + 1
  /\ ctl' = "drain"
  /\ UNCHANGED <<readerVars, frameVars, table, evictQueue, victim, scanned>>

Matured(entry) == entry.tag + 2 <= globalEpoch

\* drain_matured frees the front while it has aged two epochs.
DrainMatured ==
  /\ ctl = "drain"
  /\ evictQueue # <<>>
  /\ Matured(Head(evictQueue))
  /\ evictQueue' = Tail(evictQueue)
  /\ fstate' = [fstate EXCEPT ![Head(evictQueue).frame] = "Free"]
  /\ UNCHANGED <<globalEpoch, readerVars, fgen, fpage, content, table, ctlVars>>

EndDrain ==
  /\ ctl = "drain"
  /\ evictQueue # <<>> => ~Matured(Head(evictQueue))
  /\ ctl' = "idle"
  /\ UNCHANGED <<globalEpoch, readerVars, frameVars, table, evictQueue, victim,
                 scanned>>

ReaderStep(r) ==
  \/ Register(r)
  \/ Vacate(r)
  \/ \E p \in Pages : GetPage(r, p)
  \/ GetWithHint(r)
  \/ BeginPin(r)
  \/ Lookup(r)
  \/ ValidateWord(r)
  \/ ReadIdentity(r)
  \/ CommitPin(r)
  \/ AbortPin(r)
  \/ \E g \in GuardIds : ReleaseGuard(r, g)
  \/ \E p \in Pages : HintLookup(r, p)
  \/ HintStamp(r)
  \/ \E g \in GuardIds : HintForGuard(r, g)

ControlStep ==
  \/ \E f \in Frames, p \in Pages : Claim(f, p)
  \/ \E f \in Frames : Publish(f)
  \/ \E f \in Frames : AbortRead(f)
  \/ \E f \in Frames : Unmap(f)
  \/ Enqueue
  \/ BeginAdvance
  \/ ScanSlot
  \/ StoreEpoch
  \/ DrainMatured
  \/ EndDrain

Next == (\E r \in Readers : ReaderStep(r)) \/ ControlStep

Spec == Init /\ [][Next]_vars

\* The embedder keeps polling, so the lock holder's step under way finishes and
\* another advance follows; a thread finishes the call it is in, and drops a
\* guard in the end whatever other calls it makes meanwhile (hence SF). Nothing
\* forces a reader to pin, or a page to be read or evicted.
Fairness ==
  /\ WF_vars(Enqueue) /\ WF_vars(BeginAdvance) /\ WF_vars(ScanSlot)
  /\ WF_vars(StoreEpoch) /\ WF_vars(DrainMatured) /\ WF_vars(EndDrain)
  /\ \A r \in Readers :
       /\ WF_vars(BeginPin(r)) /\ WF_vars(Lookup(r))
       /\ WF_vars(ValidateWord(r)) /\ WF_vars(ReadIdentity(r))
       /\ WF_vars(CommitPin(r)) /\ WF_vars(AbortPin(r))
       /\ WF_vars(HintStamp(r))

FairSpec == Spec /\ Fairness

(***************************************************************************)
(* Properties.                                                             *)
(***************************************************************************)

PcStates == {"idle", "loaded", "hinted", "begun", "stamping", "stamped",
             "looked", "hinting"}

EvictEntry == [frame : Frames, tag : 0 .. MaxEpoch]

RegistryType ==
  /\ occupied \in [Readers -> BOOLEAN]
  /\ localEpoch \in [Readers -> 0 .. QUIESCENT]
  /\ guardCount \in [Readers -> 0 .. PeakGuards]

GuardType ==
  /\ guardFrame \in [Readers -> [GuardIds -> Frames \cup {NoFrame}]]
  /\ guardPage \in [Readers -> [GuardIds -> Pages \cup {NoPage}]]

PinType ==
  /\ pc \in [Readers -> PcStates]
  /\ pinEpoch \in [Readers -> 0 .. MaxEpoch]
  /\ pinPage \in [Readers -> Pages \cup {NoPage}]
  /\ pinFrame \in [Readers -> Frames \cup {NoFrame}]

HintType ==
  /\ hintFrame \in [Readers -> Frames \cup {NoFrame}]
  /\ hintStamp \in [Readers -> 0 .. MaxGeneration]
  /\ hintPage \in [Readers -> Pages \cup {NoPage}]

FrameType ==
  /\ fstate \in [Frames -> {"Free", "InFlight", "Resident", "Evicting"}]
  /\ fgen \in [Frames -> 0 .. MaxGeneration]
  /\ fpage \in [Frames -> Pages \cup {NoPage}]
  /\ content \in [Frames -> Pages \cup {NoPage}]

ControlType ==
  /\ globalEpoch \in 0 .. MaxEpoch
  /\ table \in [Pages -> Frames \cup {NoFrame}]
  /\ evictQueue \in Seq(EvictEntry)
  /\ ctl \in {"idle", "unmapped", "scan", "drain"}
  /\ victim \in Frames \cup {NoFrame}
  /\ scanned \in 0 .. NumReaders

\* The type of every variable: epochs within the bound, reader slots either
\* quiescent or at a real epoch, queue entries pairing a frame with its tag.
TypeOK ==
  /\ RegistryType
  /\ GuardType
  /\ PinType
  /\ HintType
  /\ FrameType
  /\ ControlType

Published(f) == fstate[f] \in {"Resident", "Evicting"}

\* A live FrameGuard dereferences its frame until it is dropped, whatever the
\* control lock evicts and reclaims meanwhile: the frame is not free, not
\* claimed by another read, and holds the bytes of the page that was asked
\* for, also when the guard came from a hint taken on an earlier residency.
GuardedBytesStable ==
  \A r \in Readers, g \in GuardIds :
    guardFrame[r][g] # NoFrame =>
      /\ Published(guardFrame[r][g])
      /\ content[guardFrame[r][g]] = guardPage[r][g]

\* validate_resident reads the frame's exact identity after its word matched;
\* the published epoch keeps a new claim from writing that identity meanwhile.
IdentityReadSafe ==
  \A r \in Readers : pc[r] = "stamped" => Published(pinFrame[r])

\* permits_advance asserts that a published epoch never runs ahead of the
\* global one, though it was loaded before other threads advanced it.
LocalNeverAhead ==
  \A r \in Readers : localEpoch[r] # QUIESCENT => localEpoch[r] <= globalEpoch

\* A reader holds a published epoch exactly while it has a guard or a begun
\* pin: neither a guard without an epoch, nor an epoch that outlives them and
\* stalls every later advance.
EpochMatchesGuards ==
  \A r \in Readers :
    localEpoch[r] # QUIESCENT <=>
      guardCount[r] > 0 \/ pc[r] \in {"begun", "stamping", "stamped", "looked"}

\* EvictQueue: tags never decrease from front to back, so that a front that has
\* not matured ends the drain, and the queue never outgrows the frame count.
EvictQueueSound ==
  /\ Len(evictQueue) <= Cardinality(Frames)
  /\ \A i, j \in 1 .. Len(evictQueue) :
       i < j => evictQueue[i].tag <= evictQueue[j].tag

Queued(f) ==
  \E i \in 1 .. Len(evictQueue) :
    evictQueue[i].frame = f /\ evictQueue[i].tag + 2 <= MaxEpoch

\* A frame that advance_and_reclaim finds in the queue is freed in the end,
\* though readers keep pinning and unpinning: a stale epoch published by a slow
\* begin_pin delays an advance, and none is refused for ever.  A reader that
\* always holds one guard or another never lets the epoch pass it; every reader
\* is taken to be without a guard again and again.
EvictedIsReclaimed ==
  (\A r \in Readers : []<>(guardCount[r] = 0))
    => \A f \in Frames : Queued(f) ~> fstate[f] = "Free"

Lease == INSTANCE PageLease WITH
  Owners <- Readers, Slots <- GuardIds,
  bytes <- content, leaseFrame <- guardFrame, leasePage <- guardPage

\* The pool's readers and control-lock holder together implement the lease
\* contract: every commit takes a lease on a frame holding the page asked for,
\* and neither a claim nor a published read touches a leased frame's bytes.
ImplementsLease == Lease!Spec

(***************************************************************************)
(* The inductive invariant.                                                *)
(***************************************************************************)

LiveGuards(r) == {g \in GuardIds : guardFrame[r][g] # NoFrame}

\* Reader r relies on frame f: through a guard, or through a begun pin that has
\* found f and not yet committed.
Protects(r, f) ==
  \/ \E g \in GuardIds : guardFrame[r][g] = f
  \/ pc[r] \in {"stamped", "looked"} /\ pinFrame[r] = f

\* The guard count of a slot counts the guards its thread holds.
CountInv == \A r \in Readers : guardCount[r] = Cardinality(LiveGuards(r))

\* What a reader's thread has in hand at each step of a pin.
ReaderInv ==
  \A r \in Readers :
    /\ pinEpoch[r] <= globalEpoch
    /\ pc[r] \in {"loaded", "hinted", "begun", "stamping", "stamped", "looked"}
         => guardCount[r] < PeakGuards
    /\ pc[r] \in {"loaded", "begun", "hinting"} => pinPage[r] \in Pages
    /\ pc[r] \in {"hinted", "stamping"} => hintFrame[r] \in Frames
    /\ pc[r] \in {"stamped", "hinting"} => pinFrame[r] \in Frames
    /\ pc[r] = "idle" => pinFrame[r] = NoFrame
    /\ pc[r] # "idle" => occupied[r]

\* A claimed frame has an identity, and a published one holds its bytes.
BytesInv ==
  \A f \in Frames :
    /\ fstate[f] # "Free" => fpage[f] \in Pages
    /\ Published(f) => content[f] = fpage[f]

\* A mapping leads to a resident frame with the mapped page's identity.
MappingInv ==
  \A p \in Pages : table[p] # NoFrame =>
    fstate[table[p]] = "Resident" /\ fpage[table[p]] = p

\* The queue holds distinct evicting frames in the order of their tags.
QueueInv ==
  /\ \A i \in 1 .. Len(evictQueue) :
       /\ fstate[evictQueue[i].frame] = "Evicting"
       /\ evictQueue[i].tag <= globalEpoch
  /\ \A i, j \in 1 .. Len(evictQueue) :
       i < j => /\ evictQueue[i].frame # evictQueue[j].frame
                /\ evictQueue[i].tag <= evictQueue[j].tag

\* What the control-lock holder has in hand between two accesses.
LockInv ==
  /\ ctl = "unmapped" =>
       /\ victim \in Frames
       /\ fstate[victim] = "Resident"
       /\ \A p \in Pages : table[p] # victim
  /\ ctl = "scan" => globalEpoch < MaxEpoch

FrameInv == BytesInv /\ MappingInv /\ QueueInv /\ LockInv

\* A frame some reader relies on is published and is the page it asked for.
\* If it is already evicted, the reader's epoch is no later than the frame's
\* tag, the global epoch has moved at most one past the tag, and not at all if
\* an advance under way has already read that reader's slot: so no advance
\* takes the epoch to tag + 2 while the reader stays.
ProtectInv ==
  /\ \A r \in Readers, f \in Frames : Protects(r, f) =>
       /\ Published(f)
       /\ \A i \in 1 .. Len(evictQueue) : evictQueue[i].frame = f =>
            /\ localEpoch[r] <= evictQueue[i].tag
            /\ globalEpoch <= evictQueue[i].tag + 1
            /\ ctl = "scan" /\ r <= scanned => globalEpoch <= evictQueue[i].tag
  /\ \A r \in Readers, g \in GuardIds :
       guardFrame[r][g] # NoFrame => fpage[guardFrame[r][g]] = guardPage[r][g]
  /\ \A r \in Readers :
       pc[r] = "looked" /\ pinFrame[r] # NoFrame => fpage[pinFrame[r]] = pinPage[r]

\* TypeOK and the parts above together with the two reader invariants are
\* preserved by every step of readers and control-lock holder.
IndInv ==
  /\ TypeOK
  /\ CountInv
  /\ ReaderInv
  /\ EpochMatchesGuards
  /\ LocalNeverAhead
  /\ FrameInv
  /\ ProtectInv
=============================================================================
