---------------------------- MODULE Speculation ----------------------------
(***************************************************************************)
(* How the pool learns that a page read ahead has been used (pool/clock.rs, *)
(* prefetch/notifications.rs, Prefetch::reconcile and finish_index).       *)
(*                                                                         *)
(* A frame admitted speculatively carries a marker.  The first reader to   *)
(* touch it claims the marker with a compare-and-swap and then sets the    *)
(* frame's bit in a tree of bitmaps, leaf first and root last, without any *)
(* lock.  The holder of the control lock drains the tree from the root:    *)
(* each word is swapped with zero, and the frames found are asked for      *)
(* their marker.  Every access to a marker, a reference bit or a word of   *)
(* the tree is a step.  The credit of a frame is its entry in the ledger.  *)
(*                                                                         *)
(* CLOCK chooses its victims from the same reference bits, which readers   *)
(* set while its hand moves: each look at a bit is a step too.  The        *)
(* completed tree is only used under the lock and belongs to Prefetch.     *)
(***************************************************************************)
EXTENDS Integers, FiniteSets, Sequences, SequencesExt, FiniteSetsExt

CONSTANTS
  FrameCount,
  Credits,           \* the ledger's capacity
  Fan,               \* bits per word of the tree (64 in the code)
  Readers

ASSUME SizeAssumption ==
  FrameCount \in Nat \ {0} /\ Credits \in 0 .. FrameCount - 1 /\ Fan \in Nat \ {0, 1}

Frames == 0 .. FrameCount - 1

VARIABLES
  fstate,       \* residency of each frame
  entry,        \* the frames with an entry in the ledger
  marker,       \* Clock::speculation: Clear, Armed or the reader that consumed
  ref,          \* CLOCK's reference bits
  dirty,        \* level -> word -> bits set (DirtyFrames `consumed')
  pc,           \* where each reader is in reference_observed
  target,       \* the frame it has pinned
  level,        \* the next level its notify sets
  ctl,          \* what the lock holder is doing
  feedback,     \* consumed frames whose readers have not been told yet
  interest,     \* the frames whose pending tokens are alive
  outstanding,  \* history: what each reader consumed, in order, not fed back
  disturbed     \* history: referenced or released since CLOCK's search began

memVars == <<fstate, entry, marker, ref>>
readerVars == <<pc, target, level>>
clockVars == <<interest, disturbed>>
vars == <<memVars, dirty, readerVars, ctl, feedback, outstanding, clockVars>>

Clear == "clear"
Armed == "armed"
Idle == [at |-> "idle"]
Holding == [at |-> "holding"]     \* reconciled, the lock still held
Locked == ctl \in {Idle, Holding} \* a critical section may begin or go on

-----------------------------------------------------------------------------
(* The tree: DirtyFrames::try_new.  Level l has a word for every Fan words *)
(* of the level below, up to the level that has one.                       *)

CeilDiv(n, d) == (n + d - 1) \div d
WordCount[l \in 0 .. FrameCount] ==
  IF l = 0 THEN CeilDiv(FrameCount, Fan) ELSE CeilDiv(WordCount[l - 1], Fan)
Root == Min({l \in 0 .. FrameCount : WordCount[l] = 1})
Levels == 0 .. Root
WordOf[l \in Levels, f \in Frames] ==
  IF l = 0 THEN f \div Fan ELSE WordOf[l - 1, f] \div Fan
BitOf(l, f) == (IF l = 0 THEN f ELSE WordOf[l - 1, f]) % Fan

-----------------------------------------------------------------------------
(* finish_index: the entry goes, the marker is swapped to zero.  A frame   *)
(* consumed meanwhile counts as promoted whatever the caller wanted.       *)

Finish(f) ==
  /\ entry' = entry \ {f}
  /\ marker' = [marker EXCEPT ![f] = Clear]
  /\ feedback' = IF marker[f] \in Readers THEN feedback \union {f} ELSE feedback

\* Prefetch::finish on a frame that may have no entry.
FinishIfEntered(f) ==
  IF f \in entry THEN Finish(f) ELSE UNCHANGED <<entry, marker, feedback>>

-----------------------------------------------------------------------------
(* The lock holder, outside reconcile.  Each action is one critical section. *)

\* Prefetch::admit and begin_speculation.  Admission follows ordered feedback.
Admit(f) ==
  /\ ctl = Holding
  /\ fstate[f] = "Free"
  /\ feedback = {} /\ Cardinality(entry) < Credits
  /\ fstate' = [fstate EXCEPT ![f] = "InFlight"]
  /\ entry' = entry \union {f}
  /\ marker' = [marker EXCEPT ![f] = Armed]
  /\ ref' = [ref EXCEPT ![f] = FALSE]
  /\ UNCHANGED <<dirty, readerVars, ctl, feedback, outstanding, clockVars>>

\* drain_completions_finish_success; a demand page is referenced at once.
Publish(f) ==
  /\ ctl = Idle
  /\ fstate[f] = "InFlight"
  /\ fstate' = [fstate EXCEPT ![f] = "Resident"]
  /\ ref' = IF f \in entry THEN ref ELSE [ref EXCEPT ![f] = TRUE]
  /\ UNCHANGED <<entry, marker, dirty, readerVars, ctl, feedback, outstanding, clockVars>>

\* drain_completions_finish_failure.  The tokens of a failed read protect no
\* frame.
Fail(f) ==
  /\ ctl = Idle
  /\ fstate[f] = "InFlight"
  /\ FinishIfEntered(f)
  /\ fstate' = [fstate EXCEPT ![f] = "Free"]
  /\ interest' = interest \ {f}
  /\ UNCHANGED <<ref, dirty, readerVars, ctl, outstanding, disturbed>>

\* evict_resident of a frame of the ledger (prefetch_evict_unused, and file
\* retirement, which does not reconcile first).
EvictUnused(f) ==
  /\ Locked
  /\ f \notin interest
  /\ f \in entry
  /\ fstate[f] = "Resident"
  /\ Finish(f)
  /\ fstate' = [fstate EXCEPT ![f] = "Evicting"]
  /\ UNCHANGED <<ref, dirty, readerVars, ctl, outstanding, clockVars>>

\* The frame is freed once no reader holds it.
Reclaim(f) ==
  /\ ctl = Idle
  /\ fstate[f] = "Evicting"
  /\ \A r \in Readers : target[r] # f
  /\ fstate' = [fstate EXCEPT ![f] = "Free"]
  /\ UNCHANGED <<entry, marker, ref, dirty, readerVars, ctl, feedback, outstanding, clockVars>>

-----------------------------------------------------------------------------
(* CLOCK.  A call of evict_victim_shared looks at one bit after another,   *)
(* clearing the set ones, and returns the first frame whose bit is clear;  *)
(* after FrameCount + 1 set ones it returns the frame under the hand.      *)
(* evict_clock_victim calls it until the frame may go, 2 * FrameCount + 1  *)
(* times at most.  The hand is wherever the last call left it.             *)

\* Resident, prepare_eviction finds no waiter, not speculative.
MayGo(f) == fstate[f] = "Resident" /\ f \notin interest /\ marker[f] = Clear

\* claim_frame_bounded evicts when no frame is free and none read ahead can be
\* evicted unused; prefetch_top_up evicts when the frames that are free or on
\* their way do not cover the available credits.
Short ==
  \/ \A f \in Frames : fstate[f] # "Free" /\ (fstate[f] = "Resident" => f \notin entry)
  \/ Cardinality({f \in Frames : fstate[f] \in {"Free", "Evicting"}}) < Credits - Cardinality(entry)

BeginSearch(h) ==
  /\ ctl = Holding
  /\ Short
  /\ ctl' = [at |-> "look", hand |-> h, looks |-> 0, calls |-> 0]
  /\ disturbed' = {}
  /\ UNCHANGED <<memVars, dirty, readerVars, feedback, outstanding, interest>>

\* A look at the bit under the hand.  A set bit is cleared and passed, unless
\* it was the last of the call.  Otherwise the call returns a victim, which
\* goes, or the next call begins, or the search gives up.  The load and the
\* store of a set bit are one step, as nobody else clears bits; so are the load
\* of a clear bit and the tests of the victim, which depend on no bit.
LookUpTo(bound) ==
  LET next == (ctl.hand + 1) % FrameCount
      passed == ref[ctl.hand]
      victim == IF passed THEN next ELSE ctl.hand
  IN
  /\ ctl.at = "look"
  /\ ref' = [ref EXCEPT ![ctl.hand] = FALSE]
  /\ \/ /\ passed /\ ctl.looks < FrameCount
        /\ ctl' = [ctl EXCEPT !.hand = next, !.looks = @ + 1]
        /\ UNCHANGED fstate
     \/ /\ ~(passed /\ ctl.looks < FrameCount)
        /\ MayGo(victim)
        /\ fstate' = [fstate EXCEPT ![victim] = "Evicting"]
        /\ ctl' = Holding
     \/ /\ ~(passed /\ ctl.looks < FrameCount)
        /\ ~MayGo(victim)
        /\ ctl' = IF ctl.calls < bound
                  THEN [ctl EXCEPT !.hand = next, !.looks = 0, !.calls = @ + 1]
                  ELSE Holding
        /\ UNCHANGED fstate
  /\ disturbed' = IF ctl' = Holding THEN {} ELSE disturbed
  /\ UNCHANGED <<entry, marker, dirty, readerVars, feedback, outstanding, interest>>

\* Mutant: the search goes round once.
LookOnce == LookUpTo(FrameCount)

Look == LookUpTo(2 * FrameCount)

\* Whoever holds the lock lets it go.
Unlock ==
  /\ ctl = Holding
  /\ ctl' = Idle
  /\ UNCHANGED <<memVars, dirty, readerVars, feedback, outstanding, clockVars>>

\* The last pending token of a page is dropped or consumed, without the lock.
DropInterest(f) ==
  /\ f \in interest
  /\ interest' = interest \ {f}
  /\ disturbed' = IF ctl.at = "look" THEN disturbed \union {f} ELSE disturbed
  /\ UNCHANGED <<memVars, dirty, readerVars, ctl, feedback, outstanding>>

-----------------------------------------------------------------------------
(* Prefetch::reconcile: drain the tree, again after every drain that has   *)
(* recovered a credit, then flush the feedback.                            *)

NoBits == [l \in Levels |-> {}]

\* The root is swapped with zero.
DrainRoot(recovered) ==
  /\ ctl' = [at |-> "drain", word |-> [l \in Levels |-> 0],
             bits |-> [NoBits EXCEPT ![Root] = dirty[Root][0]], recovered |-> recovered]
  /\ dirty' = [dirty EXCEPT ![Root][0] = {}]

\* Mutant: credits are recovered only when none is left.
ReconcileWhenFull ==
  /\ ctl = Idle
  /\ IF Cardinality(entry) = Credits THEN DrainRoot(FALSE)
     ELSE ctl' = Holding /\ UNCHANGED dirty
  /\ UNCHANGED <<memVars, readerVars, feedback, outstanding, clockVars>>

Reconcile ==
  /\ ctl = Idle
  /\ DrainRoot(FALSE)
  /\ UNCHANGED <<memVars, readerVars, feedback, outstanding, clockVars>>

\* The lowest level with bits left is where the walk goes on.
Depth == Min({l \in Levels : ctl.bits[l] # {}})
Lowest == Min(ctl.bits[Depth])
Index == ctl.word[Depth] * Fan + Lowest

\* A bit above the leaves: the child word is swapped with zero.
DrainChild ==
  /\ ctl.at = "drain"
  /\ ctl.bits # NoBits
  /\ Depth > 0
  /\ ctl' = [ctl EXCEPT !.bits = [@ EXCEPT ![Depth] = @ \ {Lowest},
                                           ![Depth - 1] = dirty[Depth - 1][Index]],
                        !.word[Depth - 1] = Index]
  /\ dirty' = [dirty EXCEPT ![Depth - 1][Index] = {}]
  /\ UNCHANGED <<memVars, readerVars, feedback, outstanding, clockVars>>

\* Mutant: the tree is drained once, whatever was recovered.
VisitOnce ==
  /\ ctl.at = "drain"
  /\ ctl.bits # NoBits
  /\ Depth = 0
  /\ IF Index \in entry /\ marker[Index] \in Readers
     THEN Finish(Index) ELSE UNCHANGED <<entry, marker, feedback>>
  /\ ctl' = [ctl EXCEPT !.bits[0] = @ \ {Lowest}]
  /\ UNCHANGED <<fstate, ref, dirty, readerVars, outstanding, clockVars>>

\* A leaf bit: a consumed frame gives its credit back.  A bit left from an
\* earlier use of the frame finds the marker armed, or no entry.
Visit ==
  /\ ctl.at = "drain"
  /\ ctl.bits # NoBits
  /\ Depth = 0
  /\ IF Index \in entry /\ marker[Index] \in Readers
     THEN /\ Finish(Index)
          /\ ctl' = [ctl EXCEPT !.bits[0] = @ \ {Lowest}, !.recovered = TRUE]
     ELSE /\ ctl' = [ctl EXCEPT !.bits[0] = @ \ {Lowest}]
          /\ UNCHANGED <<entry, marker, feedback>>
  /\ UNCHANGED <<fstate, ref, dirty, readerVars, outstanding, clockVars>>

DrainAgain ==
  /\ ctl.at = "drain"
  /\ ctl.bits = NoBits
  /\ ctl.recovered
  /\ DrainRoot(FALSE)
  /\ UNCHANGED <<memVars, readerVars, feedback, outstanding, clockVars>>

\* Nothing recovered: flush_feedback tells the patterns.  What called
\* reconcile goes on under the lock.
Flush ==
  /\ ctl.at = "drain"
  /\ ctl.bits = NoBits
  /\ ~ctl.recovered
  /\ ctl' = Holding
  /\ feedback' = {}
  /\ outstanding' = [r \in Readers |-> SelectSeq(outstanding[r], LAMBDA f : f \notin feedback)]
  /\ UNCHANGED <<memVars, dirty, readerVars, clockVars>>

\* get, which has reconciled, joins a read in flight: the entry, if there is
\* one, is promoted for this reader, the token protects the frame, and observe
\* reconciles before the pattern is told.
Join(r, f) ==
  /\ ctl = Holding
  /\ pc[r] = "idle"
  /\ fstate[f] = "InFlight"
  /\ interest' = interest \union {f}
  /\ IF f \in entry
     THEN /\ entry' = entry \ {f}
          /\ marker' = [marker EXCEPT ![f] = Clear]
          /\ feedback' = feedback \union {f}
          /\ outstanding' = [outstanding EXCEPT ![r] = Append(@, f)]
     ELSE UNCHANGED <<entry, marker, feedback, outstanding>>
  /\ DrainRoot(FALSE)
  /\ UNCHANGED <<fstate, ref, readerVars, disturbed>>

-----------------------------------------------------------------------------
(* A reader: it has begun a pin and found the frame; reference_observed,   *)
(* consume_speculation and DirtyFrames::notify follow.                     *)

Pin(r, f) ==
  /\ pc[r] = "idle"
  /\ fstate[f] = "Resident"
  /\ target' = [target EXCEPT ![r] = f]
  /\ pc' = [pc EXCEPT ![r] = IF ref[f] THEN "guarded" ELSE "marker"]
  /\ UNCHANGED <<memVars, dirty, level, ctl, feedback, outstanding, clockVars>>

\* consume_speculation: the compare-and-swap.  The load before it only spares
\* the swap of a marker that is not armed, which would fail.
Claim(r) ==
  LET f == target[r] IN
  /\ pc[r] = "marker"
  /\ IF marker[f] = Armed
     THEN /\ marker' = [marker EXCEPT ![f] = r]
          /\ pc' = [pc EXCEPT ![r] = "notify"]
          /\ outstanding' = [outstanding EXCEPT ![r] = Append(@, f)]
     ELSE /\ pc' = [pc EXCEPT ![r] = "store"]
          /\ UNCHANGED <<marker, outstanding>>
  /\ UNCHANGED <<fstate, entry, ref, dirty, target, level, ctl, feedback, clockVars>>

\* Mutant: the root is set first and the leaf last.
NotifyDown(r) ==
  LET l == Root - level[r]
      f == target[r]
  IN
  /\ pc[r] = "notify"
  /\ dirty' = [dirty EXCEPT ![l][WordOf[l, f]] = @ \union {BitOf(l, f)}]
  /\ level' = [level EXCEPT ![r] = IF l = 0 THEN 0 ELSE @ + 1]
  /\ pc' = [pc EXCEPT ![r] = IF l = 0 THEN "store" ELSE "notify"]
  /\ UNCHANGED <<memVars, target, ctl, feedback, outstanding, clockVars>>

\* One level of notify: every ancestor is set again, set or not.
Notify(r) ==
  LET l == level[r]
      f == target[r]
  IN
  /\ pc[r] = "notify"
  /\ dirty' = [dirty EXCEPT ![l][WordOf[l, f]] = @ \union {BitOf(l, f)}]
  /\ level' = [level EXCEPT ![r] = IF l = Root THEN 0 ELSE l + 1]
  /\ pc' = [pc EXCEPT ![r] = IF l = Root THEN "store" ELSE "notify"]
  /\ UNCHANGED <<memVars, target, ctl, feedback, outstanding, clockVars>>

\* The reference bit, and commit_pin.
StoreRef(r) ==
  /\ pc[r] = "store"
  /\ ref' = [ref EXCEPT ![target[r]] = TRUE]
  /\ pc' = [pc EXCEPT ![r] = "guarded"]
  /\ disturbed' = IF ctl.at = "look" THEN disturbed \union {target[r]} ELSE disturbed
  /\ UNCHANGED <<fstate, entry, marker, dirty, target, level, ctl, feedback, outstanding, interest>>

ReleaseGuard(r) ==
  /\ pc[r] = "guarded"
  /\ pc' = [pc EXCEPT ![r] = "idle"]
  /\ target' = [target EXCEPT ![r] = FrameCount]
  /\ UNCHANGED <<memVars, dirty, level, ctl, feedback, outstanding, clockVars>>

-----------------------------------------------------------------------------
Init ==
  /\ fstate = [f \in Frames |-> "Free"]
  /\ entry = {}
  /\ marker = [f \in Frames |-> Clear]
  /\ ref = [f \in Frames |-> FALSE]
  /\ dirty = [l \in Levels |-> [w \in 0 .. WordCount[l] - 1 |-> {}]]
  /\ pc = [r \in Readers |-> "idle"]
  /\ target = [r \in Readers |-> FrameCount]
  /\ level = [r \in Readers |-> 0]
  /\ ctl = Idle
  /\ feedback = {}
  /\ interest = {}
  /\ outstanding = [r \in Readers |-> <<>>]
  /\ disturbed = {}

Drain == DrainChild \/ Visit \/ DrainAgain \/ Flush
ReaderStep(r) == Claim(r) \/ Notify(r) \/ StoreRef(r)

Next ==
  \/ \E f \in Frames : \/ Admit(f) \/ Publish(f) \/ Fail(f)
                       \/ EvictUnused(f) \/ Reclaim(f)
                       \/ BeginSearch(f) \/ DropInterest(f)
  \/ Reconcile \/ Drain \/ Look \/ Unlock
  \/ \E r \in Readers : ReaderStep(r) \/ ReleaseGuard(r) \/ \E f \in Frames : Pin(r, f) \/ Join(r, f)

Spec == Init /\ [][Next]_vars

\* The lock holder finishes what it began, leaves its critical section (its
\* loops are bounded) and polls for ever; a reader inside reference_observed
\* runs on.
Fairness ==
  /\ WF_vars(Reconcile \/ Drain \/ Look)
  /\ SF_vars(Unlock)
  /\ \A r \in Readers : WF_vars(ReaderStep(r))
FairSpec == Spec /\ Fairness

-----------------------------------------------------------------------------
(* Properties.                                                             *)

Set(l, f) == BitOf(l, f) \in dirty[l][WordOf[l, f]]
Held(l, f) == ctl.at = "drain" /\ ctl.word[l] = WordOf[l, f] /\ BitOf(l, f) \in ctl.bits[l]

\* No notification is lost, however notifies and a drain overlap: a consumed
\* frame's bits lead to it from the root, or from a word the drain under way
\* has taken, unless its consumer is still setting them.
NotificationKept ==
  \A f \in entry : marker[f] \in Readers =>
    \/ \E r \in Readers : pc[r] = "notify" /\ target[r] = f
    \/ \A l \in Levels : Set(l, f)
    \/ \E k \in Levels : Held(k, f) /\ \A l \in 0 .. k - 1 : Set(l, f)

\* The ledger and the markers agree, entry by entry: a credit is returned once
\* and a marker never outlives its credit (the assertions of begin_speculation,
\* finish and finish_index).  A frame of the ledger is being read or resident,
\* and its reference bit is clear until somebody has consumed it: otherwise the
\* first touch would pass the marker by.  A consumed frame is not forgotten.
SpeculationExact ==
  /\ NotificationKept
  /\ \A f \in Frames :
       /\ f \in entry <=> marker[f] # Clear
       /\ f \in entry => fstate[f] \in {"InFlight", "Resident"}
       /\ marker[f] = Armed => ~ref[f]
       /\ f \in feedback \union interest => f \notin entry

\* When the patterns are told, they are told of a reader's pages without a
\* gap: whatever it consumed earlier has been recovered too.  A stream read in
\* order is never taken for a jump because its notifications were drained out
\* of order.
FeedbackOrdered ==
  ctl.at = "drain" /\ ctl.bits = NoBits /\ ~ctl.recovered =>
    \A r \in Readers : \A j \in 1 .. Len(outstanding[r]) : \A i \in 1 .. j - 1 :
      outstanding[r][j] \in feedback => outstanding[r][i] \in feedback

\* CLOCK's bounded search fails only when it is interfered with: a search that
\* gives up leaves no frame that may go, except those that readers referenced,
\* or whose last token they dropped, while the hand moved.  And it takes a
\* frame that it has not found clear only when a reader has set again a bit
\* that this search had cleared.
SearchExcused ==
  [][ctl.at = "look" =>
       /\ ctl' = Holding /\ fstate' = fstate =>
            \A f \in Frames : MayGo(f) => f \in disturbed
       /\ \A f \in Frames \ {ctl.hand} : fstate'[f] # fstate[f] => ctl.hand \in disturbed]_vars

\* The credit of a consumed page comes back, as long as the pool is polled
\* (stated of frame 0, which shares a word of the tree with frame 1).
ConsumedIsRecovered == marker[0] \in Readers ~> marker[0] \notin Readers
=============================================================================
