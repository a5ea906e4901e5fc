----------------------------- MODULE Retention ------------------------------
(***************************************************************************)
(* Pinned-frame retention (pool/retention.rs): a reader turns its guard     *)
(* into a counted handle that outlives the epoch, the mature drain marks a  *)
(* counted frame HELD instead of freeing it, and the last handle of a HELD  *)
(* frame hands it back through a bounded release ring.                      *)
(*                                                                         *)
(* One action per atomic access to a frame's word, to the budget counter    *)
(* or to a ring slot. Pins and epoch advances are one step each, which      *)
(* EpochReclaim justifies: a frame matures only when no guard is on it.     *)
(* A read is one step too (Refill).                                         *)
(***************************************************************************)
EXTENDS Integers, Sequences, FiniteSets

CONSTANTS
  Readers,      \* reader threads (max_concurrent_readers of them)
  Frames, Pages, NoFrame, NoPage,
  HandleIds,    \* retained handles a thread can hold at a time
  MaxRetained,  \* max_retained_frames, positive
  RingCapacity, \* slots of the release ring
  Setups        \* the instances explored: count mask, retirement, epoch bound

ASSUME RetentionAssumption ==
  /\ MaxRetained \in Nat \ {0}
  /\ RingCapacity \in Nat \ {0, 1} /\ RingCapacity >= MaxRetained
  /\ Setups \subseteq [countMask : Nat \ {0}, retires : SUBSET BOOLEAN, epochs : Nat]
  /\ IsFiniteSet(Readers) /\ IsFiniteSet(Frames)
  /\ NoFrame \notin Frames /\ NoPage \notin Pages

VARIABLES
  setup,
  epoch,
  \* frames and the evict queue, under the control lock
  fstate, bytes, evictQueue,
  \* the retention word (count, HELD), the tag kept for a HELD frame, budget
  count, held, tag, occupiedBudget,
  \* file_retiring of the one file slot
  retiring,
  \* the release ring
  sequence, slotFrame, tail, cursor, ringPending,
  \* reader threads: guard, handles, and the call under way
  guardFrame, guardPage, guardEpoch, handleFrame, handlePage,
  pc, attempts, seen, relFrame, ticket,
  \* the control-lock holder inside advance_and_reclaim or the pool's drop
  ctl, dropping, passStart, popped, popFrame, occupied, matureSeen

frameVars == <<fstate, bytes, evictQueue>>
wordVars == <<count, held, tag>>
ringVars == <<sequence, slotFrame, tail, cursor, ringPending>>
guardVars == <<guardFrame, guardPage, guardEpoch>>
handleVars == <<handleFrame, handlePage>>
callVars == <<pc, attempts, seen, relFrame, ticket>>
ctlVars == <<ctl, dropping, passStart, popped, popFrame, occupied, matureSeen>>
vars == <<setup, epoch, frameVars, wordVars, occupiedBudget, retiring, ringVars,
          guardVars, handleVars, callVars, ctlVars>>

\* The count at which a frame's word refuses another handle, what retirement may
\* store in file_retiring, and the bound on the global epoch.
CountMask == setup.countMask
RetireFlags == setup.retires
MaxEpoch == setup.epochs

Slots == 0 .. RingCapacity - 1
SlotOf(t) == t % RingCapacity

InitWords ==
  /\ count = [f \in Frames |-> 0]
  /\ held = [f \in Frames |-> FALSE]
  /\ tag = [f \in Frames |-> 0]
  /\ occupiedBudget = 0
  /\ retiring = FALSE

InitRing ==
  /\ sequence = [i \in Slots |-> i]
  /\ slotFrame = [i \in Slots |-> NoFrame]
  /\ tail = 0

Init ==
  /\ setup \in Setups
  /\ epoch = 0
  /\ fstate = [f \in Frames |-> "Free"]
  /\ bytes = [f \in Frames |-> NoPage]
  /\ evictQueue = <<>>
  /\ InitWords
  /\ InitRing
  /\ cursor = 0
  /\ ringPending = FALSE
  /\ guardFrame = [r \in Readers |-> NoFrame]
  /\ guardPage = [r \in Readers |-> NoPage]
  /\ guardEpoch = [r \in Readers |-> 0]
  /\ handleFrame = [r \in Readers |-> [h \in HandleIds |-> NoFrame]]
  /\ handlePage = [r \in Readers |-> [h \in HandleIds |-> NoPage]]
  /\ pc = [r \in Readers |-> "idle"]
  /\ attempts = [r \in Readers |-> 0]
  /\ seen = [r \in Readers |-> 0]
  /\ relFrame = [r \in Readers |-> NoFrame]
  /\ ticket = [r \in Readers |-> 0]
  /\ ctl = "idle"
  /\ dropping = FALSE
  /\ passStart = 0
  /\ popped = 0
  /\ popFrame = NoFrame
  /\ occupied = FALSE
  /\ matureSeen = 0

(***************************************************************************)
(* Guards, and the promotion of a guard: into_retained.                    *)
(***************************************************************************)

Pin(r, f) ==
  /\ pc[r] = "idle" /\ ~dropping
  /\ guardFrame[r] = NoFrame
  /\ fstate[f] = "Resident"
  /\ guardFrame' = [guardFrame EXCEPT ![r] = f]
  /\ guardPage' = [guardPage EXCEPT ![r] = bytes[f]]
  /\ guardEpoch' = [guardEpoch EXCEPT ![r] = epoch]
  /\ UNCHANGED <<epoch, frameVars, wordVars, occupiedBudget, retiring, ringVars,
                 handleVars, callVars, ctlVars>>

ReleaseGuard(r) ==
  /\ guardFrame' = [guardFrame EXCEPT ![r] = NoFrame]
  /\ guardPage' = [guardPage EXCEPT ![r] = NoPage]
  /\ guardEpoch' = [guardEpoch EXCEPT ![r] = 0]

DropGuard(r) ==
  /\ pc[r] = "idle"
  /\ guardFrame[r] # NoFrame
  /\ ReleaseGuard(r)
  /\ UNCHANGED <<epoch, frameVars, wordVars, occupiedBudget, retiring, ringVars,
                 handleVars, callVars, ctlVars>>

\* promote: one attempt more than there are readers. A thread with no handle
\* slot left does not ask for another handle.
StartPromote(r) ==
  /\ pc[r] = "idle"
  /\ guardFrame[r] # NoFrame
  /\ \E h \in HandleIds : handleFrame[r][h] = NoFrame
  /\ pc' = [pc EXCEPT ![r] = "load"]
  /\ attempts' = [attempts EXCEPT ![r] = Cardinality(Readers) + 1]
  /\ UNCHANGED <<epoch, frameVars, wordVars, occupiedBudget, retiring, ringVars,
                 guardVars, handleVars, seen, relFrame, ticket, ctlVars>>

\* A refused promotion leaves the guard with the caller.
Refuse(r) ==
  /\ pc' = [pc EXCEPT ![r] = "idle"]
  /\ attempts' = [attempts EXCEPT ![r] = 0]

Retry(r) ==
  IF attempts[r] = 1
    THEN Refuse(r)
    ELSE /\ pc' = [pc EXCEPT ![r] = "load"]
         /\ attempts' = [attempts EXCEPT ![r] = @ - 1]

AtCeiling(n) == n = CountMask

LoadWord(r) ==
  /\ pc[r] = "load"
  /\ LET n == count[guardFrame[r]] IN
       \/ /\ AtCeiling(n)
          /\ Refuse(r)
          /\ UNCHANGED seen
       \/ /\ ~AtCeiling(n)
          /\ pc' = [pc EXCEPT ![r] = IF n > 0 THEN "increment" ELSE "reserve"]
          /\ seen' = [seen EXCEPT ![r] = n]
          /\ UNCHANGED attempts
  /\ UNCHANGED <<epoch, frameVars, wordVars, occupiedBudget, retiring, ringVars,
                 guardVars, handleVars, relFrame, ticket, ctlVars>>

\* compare_increment of a counted frame's word.
CompareIncrement(r) ==
  /\ pc[r] = "increment"
  /\ LET f == guardFrame[r] IN
       IF count[f] = seen[r] /\ ~held[f]
         THEN /\ count' = [count EXCEPT ![f] = @ + 1]
              /\ pc' = [pc EXCEPT ![r] = "counted"]
              /\ UNCHANGED attempts
         ELSE Retry(r) /\ UNCHANGED count
  /\ seen' = [seen EXCEPT ![r] = 0]
  /\ UNCHANGED <<epoch, frameVars, held, tag, occupiedBudget, retiring, ringVars,
                 guardVars, handleVars, relFrame, ticket, ctlVars>>

OverBudget == occupiedBudget >= MaxRetained

\* reserve_then_promote: take a budget unit first ...
Reserve(r) ==
  /\ pc[r] = "reserve"
  /\ occupiedBudget' = occupiedBudget + 1
  /\ pc' = [pc EXCEPT ![r] =
              IF OverBudget THEN "overbudget" ELSE "claim"]
  /\ UNCHANGED <<epoch, frameVars, wordVars, retiring, ringVars, guardVars,
                 handleVars, attempts, seen, relFrame, ticket, ctlVars>>

\* ... then count the frame's first handle, unless another thread has.
ClaimWord(r) ==
  /\ pc[r] = "claim"
  /\ LET f == guardFrame[r] IN
       IF count[f] = 0 /\ ~held[f]
         THEN /\ count' = [count EXCEPT ![f] = 1]
              /\ pc' = [pc EXCEPT ![r] = "counted"]
         ELSE /\ pc' = [pc EXCEPT ![r] = "lostrace"]
              /\ UNCHANGED count
  /\ UNCHANGED <<epoch, frameVars, held, tag, occupiedBudget, retiring, ringVars,
                 guardVars, handleVars, attempts, seen, relFrame, ticket, ctlVars>>

\* Either failure gives the unit back; over budget, the word is read again.
Unreserve(r) ==
  /\ occupiedBudget' = occupiedBudget - 1
  /\ \/ /\ pc[r] = "lostrace"
        /\ Retry(r)
     \/ /\ pc[r] = "overbudget"
        /\ pc' = [pc EXCEPT ![r] = "recheck"]
        /\ UNCHANGED attempts
  /\ UNCHANGED <<epoch, frameVars, wordVars, retiring, ringVars, guardVars,
                 handleVars, seen, relFrame, ticket, ctlVars>>

Recheck(r) ==
  /\ pc[r] = "recheck"
  /\ IF count[guardFrame[r]] > 0 THEN Retry(r) ELSE Refuse(r)
  /\ UNCHANGED <<epoch, frameVars, wordVars, occupiedBudget, retiring, ringVars,
                 guardVars, handleVars, seen, relFrame, ticket, ctlVars>>

\* Mutant: the rejected promotion keeps its count.
RejectKeepsCount(r) ==
  /\ pc[r] = "counted"
  /\ pc' = [pc EXCEPT ![r] = IF retiring THEN "idle" ELSE "retained"]
  /\ attempts' = [attempts EXCEPT ![r] = 0]
  /\ UNCHANGED <<epoch, frameVars, wordVars, occupiedBudget, retiring, ringVars,
                 guardVars, handleVars, seen, relFrame, ticket, ctlVars>>

\* reject_retiring reads the flag after the count is taken.
RejectRetiring(r) ==
  /\ pc[r] = "counted"
  /\ pc' = [pc EXCEPT ![r] = IF retiring THEN "reject" ELSE "retained"]
  /\ attempts' = [attempts EXCEPT ![r] = 0]
  /\ UNCHANGED <<epoch, frameVars, wordVars, occupiedBudget, retiring, ringVars,
                 guardVars, handleVars, seen, relFrame, ticket, ctlVars>>

\* The handle replaces the guard, whose epoch protection ends here.
Retain(r) ==
  /\ pc[r] = "retained"
  /\ \E h \in HandleIds :
       /\ handleFrame[r][h] = NoFrame
       /\ handleFrame' = [handleFrame EXCEPT ![r][h] = guardFrame[r]]
       /\ handlePage' = [handlePage EXCEPT ![r][h] = guardPage[r]]
  /\ ReleaseGuard(r)
  /\ pc' = [pc EXCEPT ![r] = "idle"]
  /\ UNCHANGED <<epoch, frameVars, wordVars, occupiedBudget, retiring, ringVars,
                 attempts, seen, relFrame, ticket, ctlVars>>

(***************************************************************************)
(* The release of a count: by a dropped handle, or by a promotion that met  *)
(* a retiring file.                                                         *)
(***************************************************************************)

\* fetch_sub on the word; only the last count has more to do.
ReleaseWord(r, f) ==
  /\ count' = [count EXCEPT ![f] = @ - 1]
  /\ pc' = [pc EXCEPT ![r] = CASE count[f] > 1 -> "idle"
                              [] count[f] = 1 /\ ~held[f] -> "unit"
                              [] OTHER -> "push"]
  /\ relFrame' = [relFrame EXCEPT ![r] = IF count[f] > 1 THEN NoFrame ELSE f]

DropHandle(r, h) ==
  /\ pc[r] = "idle"
  /\ handleFrame[r][h] # NoFrame
  /\ ReleaseWord(r, handleFrame[r][h])
  /\ handleFrame' = [handleFrame EXCEPT ![r][h] = NoFrame]
  /\ handlePage' = [handlePage EXCEPT ![r][h] = NoPage]
  /\ UNCHANGED <<epoch, frameVars, held, tag, occupiedBudget, retiring, ringVars,
                 guardVars, attempts, seen, ticket, ctlVars>>

RejectRelease(r) ==
  /\ pc[r] = "reject"
  /\ ReleaseWord(r, guardFrame[r])
  /\ UNCHANGED <<epoch, frameVars, held, tag, occupiedBudget, retiring, ringVars,
                 guardVars, handleVars, attempts, seen, ticket, ctlVars>>

\* The last count of a frame that is not HELD gives its unit back.
ReleaseUnit(r) ==
  /\ pc[r] = "unit"
  /\ occupiedBudget' = occupiedBudget - 1
  /\ relFrame' = [relFrame EXCEPT ![r] = NoFrame]
  /\ pc' = [pc EXCEPT ![r] = "idle"]
  /\ UNCHANGED <<epoch, frameVars, wordVars, retiring, ringVars, guardVars,
                 handleVars, attempts, seen, ticket, ctlVars>>

\* ReleaseRing::push: a ticket ...
TakeTicket(r) ==
  /\ pc[r] = "push"
  /\ ticket' = [ticket EXCEPT ![r] = tail]
  /\ tail' = tail + 1
  /\ pc' = [pc EXCEPT ![r] = "fill"]
  /\ UNCHANGED <<epoch, frameVars, wordVars, occupiedBudget, retiring, sequence,
                 slotFrame, cursor, ringPending, guardVars, handleVars, attempts,
                 seen, relFrame, ctlVars>>

\* Mutant: the slot's sequence is never stored.
FillSlotUnpublished(r) ==
  /\ pc[r] = "fill"
  /\ slotFrame' = [slotFrame EXCEPT ![SlotOf(ticket[r])] = relFrame[r]]
  /\ relFrame' = [relFrame EXCEPT ![r] = NoFrame]
  /\ ticket' = [ticket EXCEPT ![r] = 0]
  /\ pc' = [pc EXCEPT ![r] = "publish"]
  /\ UNCHANGED <<epoch, frameVars, wordVars, occupiedBudget, retiring, sequence,
                 tail, cursor, ringPending, guardVars, handleVars, attempts, seen,
                 ctlVars>>

\* ... and the slot it names, readable once its sequence is stored.
FillSlot(r) ==
  /\ pc[r] = "fill"
  /\ slotFrame' = [slotFrame EXCEPT ![SlotOf(ticket[r])] = relFrame[r]]
  /\ sequence' = [sequence EXCEPT ![SlotOf(ticket[r])] = ticket[r] + 1]
  /\ relFrame' = [relFrame EXCEPT ![r] = NoFrame]
  /\ ticket' = [ticket EXCEPT ![r] = 0]
  /\ pc' = [pc EXCEPT ![r] = "publish"]
  /\ UNCHANGED <<epoch, frameVars, wordVars, occupiedBudget, retiring, tail,
                 cursor, ringPending, guardVars, handleVars, attempts, seen,
                 ctlVars>>

PublishPending(r) ==
  /\ pc[r] = "publish"
  /\ ringPending' = TRUE
  /\ pc' = [pc EXCEPT ![r] = "idle"]
  /\ UNCHANGED <<epoch, frameVars, wordVars, occupiedBudget, retiring, sequence,
                 slotFrame, tail, cursor, guardVars, handleVars, attempts, seen,
                 relFrame, ticket, ctlVars>>

(***************************************************************************)
(* The control-lock holder: reads, evictions, retirement, and the reclaim   *)
(* pass advance_and_reclaim.                                                *)
(***************************************************************************)

readerVars == <<guardVars, handleVars, callVars>>

Refill(f, p) ==
  /\ ctl = "idle"
  /\ fstate[f] = "Free"
  /\ fstate' = [fstate EXCEPT ![f] = "Resident"]
  /\ bytes' = [bytes EXCEPT ![f] = p]
  /\ UNCHANGED <<epoch, evictQueue, wordVars, occupiedBudget, retiring, ringVars,
                 readerVars, ctlVars>>

Evict(f) ==
  /\ ctl = "idle"
  /\ fstate[f] = "Resident"
  /\ fstate' = [fstate EXCEPT ![f] = "Evicting"]
  /\ evictQueue' = Append(evictQueue, [frame |-> f, tag |-> epoch])
  /\ UNCHANGED <<epoch, bytes, wordVars, occupiedBudget, retiring, ringVars,
                 readerVars, ctlVars>>

\* mark_file_retiring on retirement, clear_file_retiring when the slot is
\* taken by a new file.
SetRetiring(b) ==
  /\ ctl = "idle"
  /\ retiring # b
  /\ retiring' = b
  /\ UNCHANGED <<epoch, frameVars, wordVars, occupiedBudget, ringVars, readerVars,
                 ctlVars>>

Ready == sequence[SlotOf(cursor)] = cursor + 1

\* release_drain_needed, then the epoch the pass starts from.
BeginReclaim ==
  /\ ctl = "idle"
  /\ \/ /\ Ready \/ ringPending
        /\ ctl' = "clear"
        /\ passStart' = epoch
     \/ /\ ~Ready /\ ~ringPending
        /\ ctl' = "advance"
        /\ UNCHANGED passStart
  /\ UNCHANGED <<epoch, dropping, frameVars, wordVars, occupiedBudget, retiring, ringVars,
                 readerVars, popped, popFrame, occupied, matureSeen>>

\* Pool's drop drains the ring once more. Nothing borrows the pool then: every
\* guard and handle is gone and every thread is out of its call.
DropPool ==
  /\ ctl = "idle"
  /\ \A r \in Readers :
       /\ pc[r] = "idle" /\ guardFrame[r] = NoFrame
       /\ \A h \in HandleIds : handleFrame[r][h] = NoFrame
  /\ ctl' = "clear"
  /\ dropping' = TRUE
  /\ passStart' = epoch
  /\ UNCHANGED <<epoch, frameVars, wordVars, occupiedBudget, retiring, ringVars,
                 readerVars, popped, popFrame, occupied, matureSeen>>

ClearPending ==
  /\ ctl = "clear"
  /\ ringPending' = FALSE
  /\ popped' = 0
  /\ ctl' = "pop"
  /\ UNCHANGED <<epoch, dropping, frameVars, wordVars, occupiedBudget, retiring, sequence,
                 slotFrame, tail, cursor, readerVars, passStart, popFrame,
                 occupied, matureSeen>>

\* The ticket that may use the popped slot next.
Recycled == cursor + RingCapacity

Pop ==
  /\ ctl = "pop"
  /\ popped < MaxRetained
  /\ Ready
  /\ popFrame' = slotFrame[SlotOf(cursor)]
  /\ slotFrame' = [slotFrame EXCEPT ![SlotOf(cursor)] = NoFrame]
  /\ sequence' = [sequence EXCEPT ![SlotOf(cursor)] = Recycled]
  /\ cursor' = cursor + 1
  /\ popped' = popped + 1
  /\ ctl' = "popped"
  /\ UNCHANGED <<epoch, dropping, frameVars, wordVars, occupiedBudget, retiring, tail,
                 ringPending, readerVars, passStart, occupied, matureSeen>>

\* HELD is cleared and the frame freed; its tag is dead until the next HELD.
ReclaimPopped ==
  /\ ctl = "popped"
  /\ held' = [held EXCEPT ![popFrame] = FALSE]
  /\ fstate' = [fstate EXCEPT ![popFrame] = "Free"]
  /\ tag' = [tag EXCEPT ![popFrame] = 0]
  /\ ctl' = "return"
  /\ UNCHANGED <<epoch, dropping, bytes, evictQueue, count, occupiedBudget, retiring,
                 ringVars, readerVars, passStart, popped, popFrame, occupied,
                 matureSeen>>

ReturnUnit ==
  /\ ctl = "return"
  /\ occupiedBudget' = occupiedBudget - 1
  /\ popFrame' = NoFrame
  /\ ctl' = "pop"
  /\ UNCHANGED <<epoch, dropping, frameVars, wordVars, retiring, ringVars, readerVars,
                 passStart, popped, occupied, matureSeen>>

EndPop ==
  /\ ctl = "pop"
  /\ popped = MaxRetained \/ ~Ready
  /\ popped' = 0
  /\ passStart' = 0
  /\ ctl' = IF dropping THEN "dropped" ELSE "advance"
  /\ UNCHANGED <<epoch, dropping, frameVars, wordVars, occupiedBudget, retiring, ringVars,
                 readerVars, popFrame, occupied, matureSeen>>

AdvanceEpoch ==
  /\ ctl = "advance"
  /\ epoch' = IF /\ epoch < MaxEpoch
                 /\ \A r \in Readers : guardFrame[r] # NoFrame => guardEpoch[r] = epoch
                THEN epoch + 1
                ELSE epoch
  /\ ctl' = "advanced"
  /\ UNCHANGED <<dropping, frameVars, wordVars, occupiedBudget, retiring, ringVars,
                 readerVars, passStart, popped, popFrame, occupied, matureSeen>>

\* Mutant: a single unit is not noticed.
LoadOccupiedAboveOne ==
  /\ ctl = "advanced"
  /\ occupied' = (occupiedBudget > 1)
  /\ ctl' = "mature"
  /\ UNCHANGED <<epoch, dropping, frameVars, wordVars, occupiedBudget, retiring, ringVars,
                 readerVars, passStart, popped, popFrame, matureSeen>>

\* With no unit taken, no frame is counted and the words need not be read.
LoadOccupied ==
  /\ ctl = "advanced"
  /\ occupied' = (occupiedBudget # 0)
  /\ ctl' = "mature"
  /\ UNCHANGED <<epoch, dropping, frameVars, wordVars, occupiedBudget, retiring, ringVars,
                 readerVars, passStart, popped, popFrame, matureSeen>>

Front == Head(evictQueue)

FrontMatured == evictQueue # <<>> /\ Front.tag + 2 <= epoch

FreeFront ==
  /\ fstate' = [fstate EXCEPT ![Front.frame] = "Free"]
  /\ evictQueue' = Tail(evictQueue)
  /\ UNCHANGED <<bytes, count, held>>

\* Mutant: the epoch of the drain is kept in place of the entry's tag.
MatureFrontAtEpoch ==
  /\ ctl = "mature"
  /\ FrontMatured
  /\ \/ /\ ~occupied \/ count[Front.frame] = 0
        /\ FreeFront
        /\ UNCHANGED <<tag, ctl, matureSeen>>
     \/ /\ occupied /\ count[Front.frame] > 0
        /\ tag' = [tag EXCEPT ![Front.frame] = epoch]
        /\ matureSeen' = count[Front.frame]
        /\ ctl' = "hold"
        /\ UNCHANGED <<frameVars, count, held>>
  /\ UNCHANGED <<epoch, dropping, occupiedBudget, retiring, ringVars, readerVars, passStart,
                 popped, popFrame, occupied>>

\* The front is freed if the words are not read or its word has no count;
\* otherwise matured_outcome keeps its tag and goes on to set HELD.
MatureFront ==
  /\ ctl = "mature"
  /\ FrontMatured
  /\ \/ /\ ~occupied \/ count[Front.frame] = 0
        /\ FreeFront
        /\ UNCHANGED <<tag, ctl, matureSeen>>
     \/ /\ occupied /\ count[Front.frame] > 0
        /\ tag' = [tag EXCEPT ![Front.frame] = Front.tag]
        /\ matureSeen' = count[Front.frame]
        /\ ctl' = "hold"
        /\ UNCHANGED <<frameVars, count, held>>
  /\ UNCHANGED <<epoch, dropping, occupiedBudget, retiring, ringVars, readerVars, passStart,
                 popped, popFrame, occupied>>

\* The compare-exchange that sets HELD, repeated while handles are dropped.
SetHeld ==
  /\ ctl = "hold"
  /\ LET n == count[Front.frame] IN
       \/ /\ n = matureSeen
          /\ held' = [held EXCEPT ![Front.frame] = TRUE]
          /\ evictQueue' = Tail(evictQueue)
          /\ UNCHANGED <<fstate, bytes, count, tag>>
          /\ matureSeen' = 0 /\ ctl' = "mature"
       \/ /\ n # matureSeen /\ n = 0
          /\ FreeFront
          /\ tag' = [tag EXCEPT ![Front.frame] = 0]
          /\ matureSeen' = 0 /\ ctl' = "mature"
       \/ /\ n # matureSeen /\ n > 0
          /\ matureSeen' = n
          /\ UNCHANGED <<ctl, frameVars, wordVars>>
  /\ UNCHANGED <<epoch, dropping, occupiedBudget, retiring, ringVars, readerVars, passStart,
                 popped, popFrame, occupied>>

EndReclaim ==
  /\ ctl = "mature"
  /\ ~FrontMatured
  /\ occupied' = FALSE
  /\ ctl' = "idle"
  /\ UNCHANGED <<epoch, dropping, frameVars, wordVars, occupiedBudget, retiring, ringVars,
                 readerVars, passStart, popped, popFrame, matureSeen>>

PromoteStep(r) ==
  \/ LoadWord(r) \/ CompareIncrement(r) \/ Reserve(r) \/ ClaimWord(r)
  \/ Unreserve(r) \/ Recheck(r) \/ RejectRetiring(r) \/ Retain(r)

ReleaseStep(r) ==
  RejectRelease(r) \/ ReleaseUnit(r) \/ TakeTicket(r) \/ FillSlot(r) \/ PublishPending(r)

ReaderStep(r) ==
  \/ \E f \in Frames : Pin(r, f)
  \/ DropGuard(r)
  \/ StartPromote(r)
  \/ PromoteStep(r)
  \/ \E h \in HandleIds : DropHandle(r, h)
  \/ ReleaseStep(r)

ReclaimStep ==
  \/ BeginReclaim \/ ClearPending \/ Pop \/ ReclaimPopped \/ ReturnUnit \/ EndPop
  \/ AdvanceEpoch \/ LoadOccupied \/ MatureFront \/ SetHeld \/ EndReclaim

ControlStep ==
  \/ \E f \in Frames, p \in Pages : Refill(f, p)
  \/ \E f \in Frames : Evict(f)
  \/ \E b \in RetireFlags : SetRetiring(b)
  \/ DropPool
  \/ ReclaimStep

Next ==
  /\ (\E r \in Readers : ReaderStep(r)) \/ ControlStep
  /\ UNCHANGED setup

Spec == Init /\ [][Next]_vars

(***************************************************************************)
(* Properties.                                                             *)
(***************************************************************************)

\* A retained handle's bytes stay those of its page however often the frame is
\* evicted and matures meanwhile, also on the passes that skip the words
\* because no budget unit was taken.
RetainedBytesStable ==
  \A r \in Readers, h \in HandleIds :
    handleFrame[r][h] # NoFrame =>
      /\ fstate[handleFrame[r][h]] # "Free"
      /\ bytes[handleFrame[r][h]] = handlePage[r][h]

Handles(f) == {rh \in Readers \X HandleIds : handleFrame[rh[1]][rh[2]] = f}
Counting(f) ==
  {r \in Readers : guardFrame[r] = f /\ pc[r] \in {"counted", "retained", "reject"}}

\* A frame's word counts its handles and the promotions that have counted but
\* not yet become one: release's "a retained handle owns one count".
CountExact ==
  \A f \in Frames : count[f] = Cardinality(Handles(f)) + Cardinality(Counting(f))

FrameUnits == {f \in Frames : count[f] > 0 \/ held[f]}
Reserving == {r \in Readers : pc[r] \in {"claim", "lostrace"}}
Overbudget == {r \in Readers : pc[r] = "overbudget"}
Returning == {r \in Readers : pc[r] = "unit"}
PopReturning == IF ctl = "return" THEN 1 ELSE 0

\* occupied_budget is conserved: one unit per counted or HELD frame, one per
\* reservation or return under way. So it never goes below zero
\* (release_budget_unit) and is zero again once every handle is gone, which
\* Pool's drop asserts.
BudgetExact ==
  occupiedBudget = Cardinality(FrameUnits) + Cardinality(Reserving)
                   + Cardinality(Overbudget) + Cardinality(Returning) + PopReturning

\* At most max_retained_frames distinct frames are retained or await release,
\* though refused reservations push the counter past it for a moment: the
\* bound PoolBuilder reserves frames for.
RetainedWithinBudget ==
  Cardinality(FrameUnits) + Cardinality(Reserving) + Cardinality(Returning)
    + PopReturning <= MaxRetained

\* Nothing is leaked or returned twice, whatever promotions, clones, drops and
\* drains interleave: words, budget counter and budget agree.
AccountingExact == CountExact /\ BudgetExact /\ RetainedWithinBudget

\* ReleaseRing::push's capacity argument: the slot a ticket names has been
\* popped and recycled before the ticket can be taken, so push never waits.
RingSlotFree ==
  \A r \in Readers : pc[r] = "fill" => sequence[SlotOf(ticket[r])] = ticket[r]

Releasable(f) ==
  /\ f \in Frames
  /\ fstate[f] = "Evicting"
  /\ held[f]
  /\ count[f] = 0
  /\ tag[f] + 2 <= passStart

\* What drain_releases asserts of every entry it pops: its tag matured before
\* the pass began, it has no handle, it is HELD and still Evicting.
PoppedIsReleasable ==
  /\ ctl = "pop" /\ Ready => Releasable(slotFrame[SlotOf(cursor)])
  /\ ctl = "popped" => Releasable(popFrame)

\* What promote_once and matured_outcome assert of the word: a guarded frame is
\* never HELD, a queued one is not HELD yet, and while the mature drain sets
\* HELD the count only falls.
WordAssertions ==
  /\ \A r \in Readers : guardFrame[r] # NoFrame => ~held[guardFrame[r]]
  /\ \A i \in 1 .. Len(evictQueue) : ~held[evictQueue[i].frame]
  /\ ctl = "hold" => count[Front.frame] <= matureSeen

\* What the drops of Pool and Retention assert ("retention handles must not be
\* forgotten"): the one bounded drain of the drop finds every frame whose last
\* handle was dropped and returns its unit.
NothingForgotten == ctl = "dropped" => occupiedBudget = 0

\* The assertions made of what is read from a frame's word, from the ring and,
\* when the pool is dropped, from the budget counter never fail.
AssertionsHold == WordAssertions /\ PoppedIsReleasable /\ RingSlotFree /\ NothingForgotten

InRing(f) ==
  \E t \in cursor .. tail - 1 :
    sequence[SlotOf(t)] = t + 1 /\ slotFrame[SlotOf(t)] = f

\* No frame is lost between the two ways back: an evicted frame is in the evict
\* queue or HELD, and a HELD one whose last handle is gone is being pushed by
\* the thread that dropped it, is in the ring, behind whatever stalled
\* producer, or has just been popped.
ReleaseKept ==
  \A f \in Frames :
    /\ fstate[f] = "Evicting" =>
         held[f] \/ \E i \in 1 .. Len(evictQueue) : evictQueue[i].frame = f
    /\ held[f] /\ count[f] = 0 =>
         \/ \E r \in Readers : pc[r] \in {"push", "fill"} /\ relFrame[r] = f
         \/ InRing(f)
         \/ ctl = "popped" /\ popFrame = f
=============================================================================
