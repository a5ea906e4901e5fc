----------------------------- MODULE PageTable -----------------------------
(***************************************************************************)
(* The page table of pool/table.rs: open addressing with linear probing,   *)
(* backward-shift deletion, one small sequence lock per cell.  The holder  *)
(* of the control lock is the only writer; readers walk the cells with no  *)
(* lock, between begin_pin and commit_pin (Pool::pin_owned).               *)
(*                                                                         *)
(* A step is one access to one word of a cell.  The words of a cell are    *)
(* stored with Relaxed ordering inside the odd window, and loaded so, so   *)
(* both happen in any order.  A version is 64 bits and never comes back,   *)
(* so of the versions a reader compares it is enough to know whether the   *)
(* cell's has moved since the reader loaded it (moved[r]).                 *)
(*                                                                         *)
(* What EpochReclaim establishes is taken over as one guard: a frame is    *)
(* freed when every reader that had begun a pin as it was queued is gone.  *)
(* A mapped frame is also on the list of its file (FramePages), from its   *)
(* publication until it is freed.                                          *)
(***************************************************************************)
EXTENDS Integers, FiniteSets

CONSTANTS
  Pages, Readers,
  FrameCounts,       \* the pool sizes explored
  ReadFrames,        \* lookups are explored in pools of at most this size
  Homes,             \* where page_hash may place a page: functions on Pages
  FileOf,            \* the file slot of each page
  NoPage, NoFrame

ASSUME FrameCountAssumption == FrameCounts \subseteq Nat \ {0}
ASSUME HomesAssumption == Homes \subseteq [Pages -> Nat]
ASSUME FileOfAssumption == DOMAIN FileOf = Pages
ASSUME NoneAssumption == NoPage \notin Pages /\ NoFrame \notin Nat

VARIABLES
  frameCount,  \* the pool's frame count
  home,        \* page_hash, before it is masked
  cell,        \* slot -> its version's parity and its words
  len,         \* number of entries
  fstate,      \* residency of each frame
  identity,    \* the page a frame holds (ExactPageCells)
  lists,       \* the frames of each file (FramePages)
  blockers,    \* the readers an evicted frame waits for
  writer,      \* what the lock holder is doing in the table
  pc,          \* where each reader is in pin_owned
  page,        \* the page it looks for
  slot,        \* the cell it reads
  probes,      \* how many cells it has read
  moved,       \* the version it started from is no longer the cell's
  loaded,      \* the words it has loaded, and the fields of loaded words
  got,         \* the frame its lookup returned
  excused      \* history: during its walk the page was unmapped or a removal ran

tableVars == <<cell, len>>
frameVars == <<fstate, identity, lists, blockers>>
readerVars == <<pc, page, slot, probes, moved, loaded, got, excused>>
constVars == <<frameCount, home>>
vars == <<constVars, tableVars, frameVars, writer, readerVars>>

INSTANCE FileSlots WITH NoLink <- NoFrame

-----------------------------------------------------------------------------
(* Geometry: try_with_frame_count and home_slot.                           *)

\* The smallest power of two not below twice the frame count.
CapacityFor(n) == CHOOSE c \in {2 ^ k : k \in 0 .. 2 * n} :
  c >= 2 * n /\ \A k \in 0 .. 2 * n : 2 ^ k >= 2 * n => c <= 2 ^ k
Capacity == CapacityFor(frameCount)
Slots == 0 .. Capacity - 1
Frames == 0 .. frameCount - 1
NextSlot(s) == IF s + 1 = Capacity THEN 0 ELSE s + 1
HomeSlot(p) == home[p] % Capacity

Vacant == [odd |-> FALSE, occupied |-> FALSE, page |-> NoPage, frame |-> NoFrame]
Words == {"occupied", "page", "frame"}

\* The number of cells from s on to t, going round.
Distance(s, t) == (t - s) % Capacity
SlotAt(s, n) == (s + n) % Capacity

\* The locked probe for p: the distance from its home to the cell that holds p
\* or to the first vacant cell, Capacity when there is neither.
ProbeLength(p) ==
  LET ends == {n \in 0 .. Capacity - 1 :
                 LET c == cell[SlotAt(HomeSlot(p), n)] IN ~c.occupied \/ c.page = p}
  IN IF ends = {} THEN Capacity ELSE CHOOSE n \in ends : \A m \in ends : n <= m
ProbeSlot(p) == SlotAt(HomeSlot(p), ProbeLength(p))
Found(p) == ProbeLength(p) < Capacity /\ cell[ProbeSlot(p)].occupied

\* PageTable::lookup under the control lock.
LockedLookup(p) == IF Found(p) THEN cell[ProbeSlot(p)].frame ELSE NoFrame

-----------------------------------------------------------------------------
(* Cell::write.  The lock holder opens a cell, stores its words in any     *)
(* order and closes it; `then' says what it does next.                     *)

Idle == [at |-> "idle"]

Writing(s, entry, then) ==
  [at |-> "write", cell |-> s, entry |-> entry, then |-> then,
   pending |-> IF entry.occupied THEN Words ELSE {"occupied"}]

Entry(p, f) == [occupied |-> TRUE, page |-> p, frame |-> f]
NoneEntry == [occupied |-> FALSE, page |-> NoPage, frame |-> NoFrame]

\* A reader's version goes stale the moment its cell's version moves.
Outdate(s) ==
  moved' = [r \in Readers |->
              moved[r] \/ (pc[r] \in {"words", "check"} /\ slot[r] = s)]

OpenCell(s) == cell' = [cell EXCEPT ![s].odd = TRUE] /\ Outdate(s)

\* A cell marked unoccupied keeps its other words in the code; a reader that
\* meets them meets a moved version as well, so the model forgets them.
StoreWord(w) ==
  /\ writer.at = "write"
  /\ w \in writer.pending
  /\ cell' = IF writer.entry.occupied
             THEN [cell EXCEPT ![writer.cell][w] = writer.entry[w]]
             ELSE [cell EXCEPT ![writer.cell] = [Vacant EXCEPT !.odd = TRUE]]
  /\ writer' = [writer EXCEPT !.pending = @ \ {w}]
  /\ UNCHANGED <<constVars, len, frameVars, readerVars>>

Excuse(S) ==
  excused' = [r \in Readers |-> excused[r] \/ (pc[r] # "idle" /\ r \in S)]

-----------------------------------------------------------------------------
(* insert_shared, called by drain_completions_finish_success: the read has *)
(* filled a free frame, the frame is published, then mapped.               *)

Mapped(p) == \E f \in Frames : fstate[f] = "Resident" /\ identity[f] = p

InsertOpen(p, f) ==
  /\ writer = Idle
  /\ fstate[f] = "Free"
  /\ ~Mapped(p)
  /\ ProbeLength(p) < Capacity
  /\ fstate' = [fstate EXCEPT ![f] = "Resident"]
  /\ identity' = [identity EXCEPT ![f] = p]
  /\ lists' = Linked(lists, f, FileOf[p])
  /\ OpenCell(ProbeSlot(p))
  /\ len' = IF Found(p) THEN len ELSE len + 1
  /\ writer' = Writing(ProbeSlot(p), Entry(p, f), [at |-> "idle"])
  /\ UNCHANGED <<constVars, blockers, pc, page, slot, probes, loaded, got, excused>>

-----------------------------------------------------------------------------
(* remove_shared and backward_shift, called by evict_resident and          *)
(* retire_file_frames: the cell is emptied, then the rest of the chain is  *)
(* moved up entry by entry, each one written to the gap before its old     *)
(* cell is emptied.                                                        *)

RemoveOpen(f) ==
  LET p == identity[f] IN
  /\ writer = Idle
  /\ fstate[f] = "Resident"
  /\ Found(p)
  /\ OpenCell(ProbeSlot(p))
  /\ len' = len - 1
  /\ writer' = Writing(ProbeSlot(p), NoneEntry,
                       [at |-> "shift", gap |-> ProbeSlot(p),
                        scan |-> NextSlot(ProbeSlot(p)), frame |-> f])
  /\ Excuse(Readers)
  /\ UNCHANGED <<constVars, frameVars, pc, page, slot, probes, loaded, got>>

\* Mutant: an entry stored in its home cell moves too.
FillsGapAtHome(h, g, s) == Distance(g, h) = 0 \/ Distance(g, h) >= Distance(g, s)

\* Whether the entry homed at h and stored at s may move to the gap g.
FillsGap(h, g, s) == Distance(g, h) = 0 \/ Distance(g, h) > Distance(g, s)

\* One round of backward_shift that moves the entry at scan.
ShiftMove ==
  /\ writer.at = "shift"
  /\ cell[writer.scan].occupied
  /\ FillsGap(HomeSlot(cell[writer.scan].page), writer.gap, writer.scan)
  /\ OpenCell(writer.gap)
  /\ writer' = Writing(writer.gap,
                       Entry(cell[writer.scan].page, cell[writer.scan].frame),
                       [at |-> "vacate", scan |-> writer.scan, frame |-> writer.frame])
  /\ Excuse(Readers)
  /\ UNCHANGED <<constVars, len, frameVars, pc, page, slot, probes, loaded, got>>

\* The moved entry's old cell is opened to be emptied.
VacateOpen ==
  /\ writer.at = "vacate"
  /\ OpenCell(writer.scan)
  /\ writer' = Writing(writer.scan, NoneEntry,
                       [at |-> "shift", gap |-> writer.scan,
                        scan |-> NextSlot(writer.scan), frame |-> writer.frame])
  /\ Excuse(Readers)
  /\ UNCHANGED <<constVars, len, frameVars, pc, page, slot, probes, loaded, got>>

\* One round that leaves the entry at scan where it is.
ShiftSkip ==
  /\ writer.at = "shift"
  /\ cell[writer.scan].occupied
  /\ ~FillsGap(HomeSlot(cell[writer.scan].page), writer.gap, writer.scan)
  /\ writer' = [writer EXCEPT !.scan = NextSlot(@)]
  /\ Excuse(Readers)
  /\ UNCHANGED <<constVars, tableVars, frameVars, pc, page, slot, probes, moved, loaded, got>>

\* The chain ends: the caller turns the frame Evicting and queues it with the
\* epoch of this moment.
Evict ==
  /\ writer.at = "shift"
  /\ ~cell[writer.scan].occupied
  /\ fstate' = [fstate EXCEPT ![writer.frame] = "Evicting"]
  /\ blockers' = [blockers EXCEPT ![writer.frame] = {r \in Readers : pc[r] # "idle"}]
  /\ writer' = Idle
  /\ Excuse(Readers)
  /\ UNCHANGED <<constVars, tableVars, identity, lists, pc, page, slot, probes, moved, loaded, got>>

\* Cell::write's last store.  The writer goes on with what follows.
CloseCell ==
  /\ writer.at = "write"
  /\ writer.pending = {}
  /\ cell' = [cell EXCEPT ![writer.cell].odd = FALSE]
  /\ Outdate(writer.cell)
  /\ writer' = writer.then
  /\ UNCHANGED <<constVars, len, frameVars, pc, page, slot, probes, loaded, got, excused>>

\* drain_matured frees the frame, and what it held no longer matters.
Reclaim(f) ==
  /\ writer = Idle
  /\ fstate[f] = "Evicting"
  /\ blockers[f] = {}
  /\ fstate' = [fstate EXCEPT ![f] = "Free"]
  /\ identity' = [identity EXCEPT ![f] = NoPage]
  /\ lists' = Unlinked(lists, f)
  /\ UNCHANGED <<constVars, tableVars, blockers, writer, readerVars>>

-----------------------------------------------------------------------------
(* A reader: begin_pin, PageTable::lookup by Cell::read, commit or abort.  *)

NothingLoaded == [words |-> {}, occupied |-> FALSE, page |-> NoPage, frame |-> NoFrame]

\* The locals of one Cell::read go out of scope.
EndRead(r) ==
  /\ moved' = [moved EXCEPT ![r] = FALSE]
  /\ loaded' = [loaded EXCEPT ![r] = NothingLoaded]

Removing ==
  \/ writer.at \in {"shift", "vacate"}
  \/ writer.at = "write" /\ writer.then.at # "idle"
Inserting(p) == writer.at = "write" /\ writer.entry.page = p

BeginPin(r, p) ==
  /\ pc[r] = "idle"
  /\ frameCount <= ReadFrames
  /\ pc' = [pc EXCEPT ![r] = "version"]
  /\ page' = [page EXCEPT ![r] = p]
  /\ slot' = [slot EXCEPT ![r] = HomeSlot(p)]
  /\ probes' = [probes EXCEPT ![r] = 0]
  /\ excused' = [excused EXCEPT ![r] = ~Mapped(p) \/ Removing \/ Inserting(p)]
  /\ UNCHANGED <<constVars, tableVars, frameVars, writer, moved, loaded, got>>

\* `before': an even version is needed to go on; on an odd one the loop spins.
LoadVersion(r) ==
  /\ pc[r] = "version"
  /\ ~cell[slot[r]].odd
  /\ pc' = [pc EXCEPT ![r] = "words"]
  /\ UNCHANGED <<constVars, tableVars, frameVars, writer, page, slot, probes, moved, loaded, got, excused>>

LoadWord(r, w) ==
  /\ pc[r] = "words"
  /\ w \notin loaded[r].words
  /\ loaded' = [loaded EXCEPT ![r] = [@ EXCEPT ![w] = cell[slot[r]][w],
                                               !.words = @ \union {w}]]
  /\ UNCHANGED <<constVars, tableVars, frameVars, writer, pc, page, slot, probes, moved, got, excused>>

\* An unoccupied cell's other words are not needed.
EndLoads(r) ==
  /\ pc[r] = "words"
  /\ "occupied" \in loaded[r].words
  /\ loaded[r].occupied => loaded[r].words = Words
  /\ pc' = [pc EXCEPT ![r] = "check"]
  /\ UNCHANGED <<constVars, tableVars, frameVars, writer, page, slot, probes, moved, loaded, got, excused>>

\* The version has moved: read the cell again.
Retry(r) ==
  /\ pc[r] = "check"
  /\ moved[r]
  /\ pc' = [pc EXCEPT ![r] = "version"]
  /\ EndRead(r)
  /\ UNCHANGED <<constVars, tableVars, frameVars, writer, page, slot, probes, got, excused>>

\* Mutant: the version is not compared after the loads.
HitUnchecked(r) ==
  /\ pc[r] = "check"
  /\ loaded[r].occupied
  /\ loaded[r].page = page[r]
  /\ pc' = [pc EXCEPT ![r] = "guarded"]
  /\ got' = [got EXCEPT ![r] = loaded[r].frame]
  /\ EndRead(r)
  /\ UNCHANGED <<constVars, tableVars, frameVars, writer, page, slot, probes, excused>>

\* The snapshot names the page: the lookup returns its frame and the pin commits.
Hit(r) ==
  /\ pc[r] = "check"
  /\ ~moved[r]
  /\ loaded[r].occupied
  /\ loaded[r].page = page[r]
  /\ pc' = [pc EXCEPT ![r] = "guarded"]
  /\ got' = [got EXCEPT ![r] = loaded[r].frame]
  /\ EndRead(r)
  /\ UNCHANGED <<constVars, tableVars, frameVars, writer, page, slot, probes, excused>>

\* The walk ends with None or goes on at cell s.
Advance(r, s, ends) ==
  /\ pc[r] = "check"
  /\ ~moved[r]
  /\ loaded[r].occupied
  /\ loaded[r].page # page[r]
  /\ probes' = [probes EXCEPT ![r] = @ + 1]
  /\ slot' = [slot EXCEPT ![r] = s]
  /\ pc' = [pc EXCEPT ![r] = IF ends THEN "missed" ELSE "version"]
  /\ EndRead(r)
  /\ UNCHANGED <<constVars, tableVars, frameVars, writer, page, got, excused>>

\* Mutant: the walk ends at the last cell.
ProbeToEnd(r) == Advance(r, NextSlot(slot[r]), NextSlot(slot[r]) = 0)

\* Another page: the next cell, or None after Capacity cells.
ProbeOn(r) == Advance(r, NextSlot(slot[r]), probes[r] + 1 = Capacity)

\* A vacant cell ends the walk.
Miss(r) ==
  /\ pc[r] = "check"
  /\ ~moved[r]
  /\ ~loaded[r].occupied
  /\ pc' = [pc EXCEPT ![r] = "missed"]
  /\ EndRead(r)
  /\ UNCHANGED <<constVars, tableVars, frameVars, writer, page, slot, probes, got, excused>>

Leave(r) ==
  /\ pc' = [pc EXCEPT ![r] = "idle"]
  /\ blockers' = [f \in Frames |-> blockers[f] \ {r}]
  /\ got' = [got EXCEPT ![r] = NoFrame]
  /\ page' = [page EXCEPT ![r] = NoPage]
  /\ slot' = [slot EXCEPT ![r] = 0]
  /\ probes' = [probes EXCEPT ![r] = 0]
  /\ excused' = [excused EXCEPT ![r] = FALSE]
  /\ UNCHANGED <<constVars, tableVars, fstate, identity, lists, writer, moved, loaded>>

\* The guard is dropped.
ReleaseGuard(r) == pc[r] = "guarded" /\ Leave(r)

\* The pin is aborted; `get' goes on under the control lock, where LockedLookup
\* decides.
AbortPin(r) == pc[r] = "missed" /\ Leave(r)

-----------------------------------------------------------------------------
Init ==
  /\ frameCount \in FrameCounts
  /\ home \in Homes
  /\ cell = [s \in Slots |-> Vacant]
  /\ len = 0
  /\ fstate = [f \in Frames |-> "Free"]
  /\ identity = [f \in Frames |-> NoPage]
  /\ lists = EmptyLists(Frames, {FileOf[p] : p \in Pages})
  /\ blockers = [f \in Frames |-> {}]
  /\ writer = Idle
  /\ pc = [r \in Readers |-> "idle"]
  /\ page = [r \in Readers |-> NoPage]
  /\ slot = [r \in Readers |-> 0]
  /\ probes = [r \in Readers |-> 0]
  /\ moved = [r \in Readers |-> FALSE]
  /\ loaded = [r \in Readers |-> NothingLoaded]
  /\ got = [r \in Readers |-> NoFrame]
  /\ excused = [r \in Readers |-> FALSE]

WriterStep ==
  \/ \E f \in Frames : RemoveOpen(f) \/ Reclaim(f) \/ \E p \in Pages : InsertOpen(p, f)
  \/ \E w \in Words : StoreWord(w)
  \/ CloseCell \/ ShiftMove \/ VacateOpen \/ ShiftSkip \/ Evict

ReaderStep(r) ==
  \/ \E p \in Pages : BeginPin(r, p)
  \/ LoadVersion(r) \/ EndLoads(r) \/ Retry(r) \/ Hit(r) \/ ProbeOn(r) \/ Miss(r)
  \/ ReleaseGuard(r) \/ AbortPin(r)
  \/ \E w \in Words : LoadWord(r, w)

Next == WriterStep \/ \E r \in Readers : ReaderStep(r)

Spec == Init /\ [][Next]_vars

-----------------------------------------------------------------------------
(* Properties.                                                             *)

\* Whenever no table operation is under way a probe from a page's home finds
\* exactly the frame the page is resident in: removal by backward shift leaves
\* no chain broken, across the wrap of the cell array too, and len counts the
\* entries.  get's check under the control lock relies on it.
LockedLookupExact ==
  writer = Idle =>
    /\ \A p \in Pages, f \in Frames :
         LockedLookup(p) = f <=> fstate[f] = "Resident" /\ identity[f] = p
    /\ len = Cardinality({f \in Frames : fstate[f] = "Resident"})

\* The retirement of a file finds its frames by walking its list, and waits for
\* the list to run empty: the walk ends and visits exactly the frames that
\* hold, or still hold while they await reclamation, a page of the file, and
\* the assertions of file_slots.rs never fail.
ListsExact ==
  /\ WellLinked(lists)
  /\ \A o \in DOMAIN lists.head :
       ForFile(lists, o) = {f \in Frames : fstate[f] # "Free" /\ FileOf[identity[f]] = o}

\* The two indexes of resident frames, by page and by file, are exact.
IndexesExact == LockedLookupExact /\ ListsExact

\* What pin_owned hands out without checking again: the frame a lock-free
\* lookup returned holds the page asked for, and is not freed, whatever
\* insertions, removals, shifts and reuses overlap the walk.
PinnedIdentity ==
  \A r \in Readers : pc[r] = "guarded" =>
    /\ got[r] \in Frames
    /\ fstate[got[r]] \in {"Resident", "Evicting"}
    /\ identity[got[r]] = page[r]

\* A lock-free lookup misses a page only if the page was not mapped for some
\* of the walk or a removal overlapped it: an insertion, or a writer that is
\* merely slow, never hides a mapped page.
MissJustified == \A r \in Readers : pc[r] = "missed" => excused[r]
=============================================================================
