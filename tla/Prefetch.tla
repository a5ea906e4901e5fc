------------------------------ MODULE Prefetch ------------------------------
(***************************************************************************)
(* Readahead: the ledger of speculative frames, the readers' access        *)
(* patterns, explicit and automatic admission, and the spans of vector     *)
(* reads (pool/prefetch.rs, prefetch/state.rs, prefetch/pattern.rs,        *)
(* pool/read_spans.rs).                                                    *)
(*                                                                         *)
(* The holder of the control lock runs get, prefetch, poll and so on as    *)
(* one step each.  What they do is written as operators from the pool's    *)
(* state s, a record, to its next value, one per function of the code, so  *)
(* that a handler reads as the calls it makes.  Pins, notifications and    *)
(* token drops take no lock and come in between.                           *)
(*                                                                         *)
(* One file; its pages are numbered up to LastPage, where the granule      *)
(* index of the code ends.  A page has parts, so that a read can end       *)
(* inside one.  An incarnation of a pattern never comes back, so of the    *)
(* incarnation kept with an entry it is enough to know whether it is still *)
(* the pattern's (`current').  The bitmaps of notifications are sets here; *)
(* module Speculation takes them apart.  Epochs are one choice: matured    *)
(* says whether the frames evicted so far, and not pinned, can be freed.   *)
(***************************************************************************)
EXTENDS Integers, FiniteSets, Sequences, SequencesExt, FiniteSetsExt

CONSTANTS
  Readers,
  FrameCount,
  Capacity,          \* speculative credits
  MaxReads,          \* max_inflight_reads
  VectorWidth,       \* pages a vector read may have
  LastPage,
  MaxTokens,         \* bound: tokens alive at once
  Setups,            \* what a run may be given: the Readahead mode, the windows
                     \* prefetch is called with, the parts a page is read in
  Starts,            \* bound: the pages a reader may jump to
  None

ASSUME SizeAssumption ==
  /\ FrameCount \in Nat /\ Capacity \in 1 .. FrameCount /\ MaxReads \in Nat \ {0}
  /\ VectorWidth \in Nat \ {0} /\ LastPage \in Nat
  /\ \A x \in Setups : /\ x.mode \in {"automatic", "disabled"}
                       /\ x.windows \subseteq Seq(0 .. LastPage)
                       /\ x.parts \in Nat \ {0}
  /\ Starts \subseteq 0 .. LastPage

Frames == 0 .. FrameCount - 1
Pages == 0 .. LastPage

VARIABLES
  setup,
  pool,   \* what the control lock protects, and the words shared with readers
  hold    \* reader -> the frame it has pinned and still has to notify of

vars == <<setup, pool, hold>>

\* try_with_geometry: automatic windows are vectors only in a large pool.
AutomaticWidth ==
  IF Min({Capacity, MaxReads - 1}) >= 2 * VectorWidth THEN VectorWidth ELSE 1

Clear == "clear"
Armed == "armed"

-----------------------------------------------------------------------------
(* What a state of the pool says.                                          *)

InState(s, x) == {f \in Frames : s.fstate[f] = x}
FreeList(s) == InState(s, "Free") \ s.reserve
Ledger(s) == {f \in Frames : s.entry[f] # None}
Available(s) == Capacity - Cardinality(Ledger(s))
Mapped(s, p) == \E f \in InState(s, "Resident") : s.page[f] = p
Pending(s, p) == \E f \in InState(s, "InFlight") : s.page[f] = p
Obsolete(s, f) == s.entry[f].owner # None /\ ~s.entry[f].current
Evictable(s, f) == s.fstate[f] = "Resident" /\ s.waiters[f] = 0
Waiters(s) == FoldFunction(LAMBDA x, y : x + y, 0, s.waiters)

\* prefetch_classify.
Absent(s, p) == s.live /\ ~Mapped(s, p) /\ ~Pending(s, p)

-----------------------------------------------------------------------------
(* Patterns.                                                               *)

Empty == [at |-> "empty"]
Following(p, run) == [at |-> "following", page |-> p, run |-> run]
Streaming(p, next, width) == [at |-> "streaming", page |-> p, next |-> next, width |-> width]

Horizon(t) == Min({t.page + t.width, LastPage})

\* Pattern::window: whether a whole turn lies inside the horizon.
HasWindow(t) ==
  /\ t.at = "streaming"
  /\ Horizon(t) - t.next + 1 >= Min({t.width, AutomaticWidth})

\* IndexQueue as the queue of readers whose turn may come: refresh_ready.
RefreshReady(s, r) ==
  [s EXCEPT !.ready = IF ~HasWindow(s.pattern[r]) THEN SelectSeq(@, LAMBDA x : x # r)
                      ELSE IF Contains(@, r) THEN @ ELSE Append(@, r)]

\* Pattern::reset with invalidate_reader: the entries of the incarnation are
\* obsolete and queued for cleanup.
Invalidate(s, r, t) ==
  LET own == {f \in Ledger(s) : s.entry[f].owner = r /\ s.entry[f].current} IN
  RefreshReady(
    [s EXCEPT !.pattern[r] = t,
              !.entry = [f \in Frames |-> IF f \in own THEN [@[f] EXCEPT !.current = FALSE]
                                          ELSE @[f]],
              !.cleanup = @ \union own,
              !.feedback = {[x EXCEPT !.current = @ /\ x.owner # r] : x \in @}], r)

\* History: the pool observes an access of r, whose stream is confirmed, to page
\* p.  The last page observed in order is kept; None once an access observed is
\* neither that page nor the next, or before there is a stream.  A hit on a
\* resident page that is not armed for r's stream is not observed (get returns
\* before observe) and leaves the trail alone: a reader that goes on behind such
\* a page has, for the pool, jumped.
Track(s, r, p) ==
  [s EXCEPT !.trail[r] = IF @ # None /\ p \in {@, @ + 1} THEN p ELSE None]

ResetReader(s, r) == Invalidate([s EXCEPT !.trail[r] = None], r, Empty)

\* Pattern::observe_sequential.
ObserveNext(s, r, p) ==
  LET t == s.pattern[r] IN
  IF p = LastPage THEN ResetReader(s, r)
  ELSE RefreshReady(
    [s EXCEPT
       !.pattern[r] = IF t.at = "streaming" THEN Streaming(p, Max({t.next, p + 1}), t.width)
                      ELSE IF t.run < 2 THEN Following(p, t.run + 1)
                      ELSE Streaming(p, p + 1, Min({Capacity, 4})),
       !.trail[r] = IF t.at = "following" /\ t.run >= 2 THEN p ELSE @], r)

\* Pattern::observe.
ObservePattern(s, r, p) ==
  LET t == s.pattern[r] IN
  IF setup.mode = "disabled" THEN s
  ELSE IF t.at # "empty" /\ t.page = p THEN RefreshReady(s, r)
  ELSE IF t.at # "empty" /\ t.page + 1 = p THEN ObserveNext(s, r, p)
  ELSE Invalidate(s, r, Following(p, 1))

\* Pattern::promoted.
Promoted(s, x) ==
  LET t == s.pattern[x.owner] IN
  IF ~x.current \/ x.page <= t.page THEN RefreshReady(s, x.owner)
  ELSE IF t.page + 1 = x.page
  THEN RefreshReady([s EXCEPT !.pattern[x.owner] =
                       Streaming(x.page, t.next, Min({2 * t.width, Capacity}))], x.owner)
  ELSE ObservePattern(s, x.owner, x.page)

\* Prefetch::issued.
Issued(s, r, p) ==
  IF p = LastPage THEN ResetReader(s, r)
  ELSE RefreshReady([s EXCEPT !.pattern[r].next = p + 1], r)

\* Mutant: feedback flushed as found, here the last page first.
RECURSIVE FlushFeedbackUnsorted(_)
FlushFeedbackUnsorted(s) ==
  IF s.feedback = {} THEN s
  ELSE LET x == CHOOSE x \in s.feedback : \A y \in s.feedback : x.page >= y.page
       IN FlushFeedbackUnsorted(Promoted([s EXCEPT !.feedback = @ \ {x}], x))

\* flush_feedback: reader by reader, in the order of the pages.
RECURSIVE FlushFeedback(_)
FlushFeedback(s) ==
  IF s.feedback = {} THEN s
  ELSE LET x == CHOOSE x \in s.feedback :
                  \A y \in s.feedback : x.owner = y.owner => x.page <= y.page
       IN FlushFeedback(Promoted([s EXCEPT !.feedback = @ \ {x}], x))

-----------------------------------------------------------------------------
(* The ledger.                                                             *)

\* finish_index: what a reader has consumed is promoted, whatever the caller
\* wanted; an unused page evicted or failed ends the stream it was read for.
FinishIndex(s, f, consumer) ==
  LET e == s.entry[f]
      user == IF s.marker[f] \in Readers THEN s.marker[f] ELSE consumer
      gone == [s EXCEPT !.entry[f] = None, !.marker[f] = Clear, !.cleanup = @ \ {f}]
  IN IF user # None
     THEN IF e.owner # user THEN gone
          ELSE [gone EXCEPT !.feedback =
                  @ \union {[owner |-> user, page |-> s.page[f], current |-> e.current]}]
     ELSE IF Obsolete(s, f) \/ e.owner = None THEN gone ELSE ResetReader(gone, e.owner)

\* Prefetch::finish.
Finish(s, f, consumer) == IF s.entry[f] = None THEN s ELSE FinishIndex(s, f, consumer)

\* Mutant: completions of dead incarnations are dropped.
ReconcileConsumed(s) ==
  LET used == {f \in s.consumed : s.marker[f] \in Readers}
      swept == [s EXCEPT !.completed = {}, !.consumed = {}]
  IN FlushFeedback(FoldSet(LAMBDA f, t : FinishIndex(t, f, None), swept, used))

\* Prefetch::reconcile: completed frames of dead incarnations are queued for
\* cleanup, consumed ones give their credit back, then the feedback is flushed.
Reconcile(s) ==
  LET found == {f \in s.completed : s.entry[f] # None /\ Obsolete(s, f)}
      used == {f \in s.consumed : s.marker[f] \in Readers}
      swept == [s EXCEPT !.cleanup = @ \union found, !.completed = {}, !.consumed = {}]
  IN FlushFeedback(FoldSet(LAMBDA f, t : FinishIndex(t, f, None), swept, used))

\* reconcile_feedback.
ReconcileFeedback(s) == IF s.feedback = {} THEN s ELSE Reconcile(s)

\* Prefetch::observe.
Observe(s, r, p) == ObservePattern(ReconcileFeedback(s), r, p)

\* fill_reserve.
RECURSIVE FillReserve(_)
FillReserve(s) ==
  IF s.active /\ Cardinality(s.reserve) < Available(s) /\ FreeList(s) # {}
  THEN FillReserve([s EXCEPT !.reserve = @ \union {Min(FreeList(s))}]) ELSE s

-----------------------------------------------------------------------------
(* Eviction and reclamation.                                               *)

\* Mutant: the ledger is not told.
EvictSilently(s, f) == [s EXCEPT !.fstate[f] = "Evicting", !.page[f] = 0]

\* evict_resident.  The page of a frame is kept only while the frame is being
\* read or resident: nothing here looks at it otherwise.
EvictResident(s, f) == [Finish(s, f, None) EXCEPT !.fstate[f] = "Evicting", !.page[f] = 0]

\* evict_clock_victim; `hint' stands for the hand and the reference bits.
ClockVictims(s) == {f \in Frames : Evictable(s, f) /\ s.marker[f] = Clear}
EvictClock(s, hint) ==
  IF ClockVictims(s) = {} THEN s
  ELSE EvictResident(s, IF hint \in ClockVictims(s) THEN hint ELSE Min(ClockVictims(s)))

\* prefetch_evict_unused, then CLOCK: evict_one_victim.
EvictOne(s, hint) ==
  LET t == Reconcile(s)
      unused == {f \in Ledger(t) : Evictable(t, f)}
  IN IF unused # {} THEN EvictResident(t, Min(unused)) ELSE EvictClock(t, hint)

\* advance_and_reclaim: never a frame a pin is on, else when the epoch allows.
Reclaim(s, matured) ==
  LET pinned == {hold[r] : r \in Readers} IN
  [s EXCEPT !.fstate = [f \in Frames |->
     IF matured /\ @[f] = "Evicting" /\ f \notin pinned THEN "Free" ELSE @[f]]]

-----------------------------------------------------------------------------
(* Spans: a read of one page or more, and the parts filled so far.         *)

Published(o) == o.filled \div setup.parts
Rest(o) == SubSeq(o.frames, Published(o) + 1, Len(o.frames))

\* drain_completions_finish_success: published, mapped; the completed tree is
\* told of a speculative frame.
FinishSuccess(s, f) ==
  [s EXCEPT !.reads = @ - 1, !.fstate[f] = "Resident",
            !.completed = IF s.marker[f] # Clear THEN @ \union {f} ELSE @]

\* drain_completions_finish_failure; the tokens of the miss will see the error.
FinishFailure(s, f) ==
  LET t == Finish([s EXCEPT !.reads = @ - 1], f, None)
  IN [t EXCEPT !.fstate[f] = "Free", !.page[f] = 0, !.waiters[f] = 0]

\* Mutant: a refused continuation fails the page it stopped in, not the rest.
RouteFailsOne(s, c) ==
  IF c = None THEN s
  ELSE LET o == c.op
           next == [o EXCEPT !.filled = @ + c.parts]
           full == SubSeq(o.frames, Published(o) + 1, Published(next))
           t == FoldLeft(FinishSuccess, [s EXCEPT !.ops = @ \ {o}], full)
       IN IF c.parts > 0 /\ c.continues THEN [t EXCEPT !.ops = @ \union {next}]
          ELSE IF Rest(next) = <<>> THEN t ELSE FinishFailure(t, Head(Rest(next)))

\* route_span_completion and, for one page, route_read_completion: the pages
\* that are full are published, the rest is read on or, after an error or a
\* refused continuation, fails.
RouteCompletion(s, c) ==
  IF c = None THEN s
  ELSE LET o == c.op
           next == [o EXCEPT !.filled = @ + c.parts]
           full == SubSeq(o.frames, Published(o) + 1, Published(next))
           t == FoldLeft(FinishSuccess, [s EXCEPT !.ops = @ \ {o}], full)
       IN IF c.parts > 0 /\ c.continues THEN [t EXCEPT !.ops = @ \union {next}]
          ELSE FoldLeft(FinishFailure, t, Rest(next))

\* What a drain may find: nothing, or one result.  No parts are an error or
\* the end of the file.
Completions(s) ==
  {None} \union
  UNION {{[op |-> o, parts |-> n, continues |-> b] :
            n \in 0 .. setup.parts * Len(o.frames) - o.filled, b \in BOOLEAN} : o \in s.ops}
Sensible(c) ==
  c # None => (c.continues => c.parts \in 1 .. setup.parts * Len(c.op.frames) - c.op.filled - 1)

-----------------------------------------------------------------------------
(* Admission.  `accepts' is the driver's answer to a submission.           *)

\* A read of the run of pages from first on, into the given frames.
Submit(s, first, frames) ==
  LET at(f) == CHOOSE i \in DOMAIN frames : frames[i] = f
      new == ToSet(frames)
  IN [s EXCEPT !.fstate = [f \in Frames |-> IF f \in new THEN "InFlight" ELSE @[f]],
               !.page = [f \in Frames |-> IF f \in new THEN first + at(f) - 1 ELSE @[f]],
               !.reserve = @ \ new,
               !.reads = @ + Len(frames),
               !.ops = @ \union {[frames |-> frames, filled |-> 0]}]

Deferred(s) == [pool |-> s, admitted |-> FALSE]

\* prefetch_admit_run, prefetch_admit_vector and Prefetch::admit.
AdmitRun(s, first, count, owner, accepts) ==
  LET t == FillReserve(s)
      frames == SubSeq(SetToSortSeq(t.reserve, <), 1, count)
      entered(f) == f \in ToSet(frames)
  IN IF Available(s) < count \/ MaxReads - s.reads < count THEN Deferred(s)
     ELSE IF Cardinality(t.reserve) < count \/ ~accepts THEN Deferred(t)
     ELSE [admitted |-> TRUE,
           pool |-> [Submit(t, first, frames) EXCEPT
                       !.entry = [f \in Frames |-> IF entered(f)
                                    THEN [owner |-> owner, current |-> owner # None] ELSE @[f]],
                       !.marker = [f \in Frames |-> IF entered(f) THEN Armed ELSE @[f]]]]

\* prefetch_examined_replace_unused: entries outside the new window make room.
RECURSIVE ReplaceUnused(_, _, _)
ReplaceUnused(s, wanted, window) ==
  LET loose == {f \in Ledger(s) : Evictable(s, f) /\ s.page[f] \notin window} IN
  IF Available(s) >= wanted \/ loose = {} THEN s
  ELSE ReplaceUnused(EvictResident(s, Min(loose)), wanted, window)

\* prefetch_examined_run_end: the length of the absent run a window begins with.
RunLength(s, pages) ==
  Max({n \in 1 .. Min({Len(pages), VectorWidth}) :
         \A i \in 2 .. n : pages[i] = pages[i - 1] + 1 /\ Absent(s, pages[i])})

\* prefetch_examined.
RECURSIVE Examined(_, _, _, _)
Examined(s, pages, window, accepts) ==
  IF pages = <<>> THEN s
  ELSE IF ~Absent(s, Head(pages)) THEN Examined(s, Tail(pages), window, accepts)
  ELSE LET wanted == RunLength(s, pages)
           t == ReplaceUnused(s, wanted, window)
           count == Min({wanted, Available(t), MaxReads - t.reads})
           u == AdmitRun(ReconcileFeedback(t), Head(pages), count, None, accepts).pool
       IN IF count = 0
          THEN Examined(t, SubSeq(pages, wanted + 1, Len(pages)), window, accepts)
          ELSE Examined(u, SubSeq(pages, count + 1, Len(pages)), window, accepts)

-----------------------------------------------------------------------------
(* Automatic windows.                                                      *)

\* prefetch_evict_obsolete.  A frame still being read is met again when it has
\* completed.  wait_cleanup is never needed: no token waits for an entry.
EvictObsolete(s) ==
  FoldSet(LAMBDA f, t : IF s.fstate[f] = "Resident" THEN EvictResident(t, f) ELSE t,
          [s EXCEPT !.cleanup = {}], s.cleanup)

\* prefetch_top_up: the reserve is filled up, by eviction when frames lack.
RECURSIVE EvictMany(_, _, _)
EvictMany(s, n, hint) == IF n <= 0 THEN s ELSE EvictMany(EvictClock(s, hint), n - 1, hint)
TopUp(s, hint, matured) ==
  LET t == FillReserve(s)
      deficit == Available(t) - Cardinality(t.reserve) - Cardinality(InState(t, "Evicting"))
  IN IF ~s.active THEN s
     ELSE IF deficit <= 0 THEN t
     ELSE FillReserve(Reclaim(EvictMany(t, deficit, hint), matured))

\* prefetch_automatic_window from page p on: runs of absent pages are admitted,
\* and every page passed is issued.  The feedback that comes before a run may
\* end the stream, and the window with it (Obsolete).
RECURSIVE Window(_, _, _, _, _)
Window(x, r, p, last, accepts) ==
  LET s == x.pool
      t == ReconcileFeedback(s)
      count == Max({n \in 1 .. last - p + 1 : \A q \in p .. p + n - 1 : Absent(s, q)})
      run == IF t.pattern[r].at = "streaming" THEN AdmitRun(t, p, count, r, accepts)
             ELSE Deferred(t)
      issue(u, n) == FoldLeft(LAMBDA v, i : Issued(v, r, p + i - 1), u, [i \in 1 .. n |-> i])
  IN IF p > last THEN x
     ELSE IF ~s.live
     THEN [x EXCEPT !.pool = ResetReader(s, r), !.stopped = TRUE]
     ELSE IF Absent(s, p)
     THEN IF run.admitted
          THEN Window([pool |-> issue(run.pool, count), admitted |-> TRUE, stopped |-> FALSE],
                      r, p + count, last, accepts)
          ELSE [x EXCEPT !.pool = run.pool, !.stopped = TRUE]
     ELSE Window([x EXCEPT !.pool = issue(s, 1)], r, p + 1, last, accepts)

\* advance_turn.
AdvanceTurn(s, r) == RefreshReady([s EXCEPT !.ready = SelectSeq(@, LAMBDA x : x # r)], r)

\* The turns of progress_prefetch, Capacity at most, until one is deferred.
RECURSIVE Turns(_, _, _)
Turns(s, n, accepts) ==
  IF n = 0 \/ s.ready = <<>> THEN s
  ELSE LET r == Head(s.ready)
           t == s.pattern[r]
           last == t.next + Min({t.width, AutomaticWidth}) - 1
           missing == Cardinality({q \in t.next .. last : Absent(s, q)})
           x == Window([pool |-> s, admitted |-> FALSE, stopped |-> FALSE],
                       r, t.next, last, accepts)
           u == IF x.stopped /\ ~x.admitted THEN x.pool ELSE AdvanceTurn(x.pool, r)
           deferred == x.stopped /\ x.pool.pattern[r].at = "streaming"
       IN IF Available(s) < missing \/ MaxReads - s.reads < missing THEN s
          ELSE IF deferred THEN u
          ELSE Turns(u, n - 1, accepts)

\* progress_prefetch.
ProgressPrefetch(s, hint, matured, accepts) ==
  LET t == TopUp(EvictObsolete(Reconcile(s)), hint, matured)
      u == IF t.ready # <<>> THEN [t EXCEPT !.active = TRUE] ELSE t
  IN TopUp(Turns(u, Capacity, accepts), hint, matured)
-----------------------------------------------------------------------------
(* The handlers that take the control lock.                                *)

Unlocked == pool.phase = "idle"

\* get_cold joins the read of p: a speculative one is promoted, and the access
\* is observed.
GetJoin(r, p) ==
  LET s == Reconcile(pool)
      f == CHOOSE f \in InState(s, "InFlight") : s.page[f] = p
      t == Finish([Track(s, r, p) EXCEPT !.waiters[f] = @ + 1], f, r)
  IN /\ Pending(pool, p)
     /\ pool' = Observe(t, r, p)

\* get_cold reads p into the frame it has claimed, or is refused.
ReadInto(s, r, p, accepts) ==
  LET f == IF FreeList(s) # {} THEN Min(FreeList(s)) ELSE Min(s.reserve)
      t == Submit(Track(s, r, p), p, <<f>>)
  IN IF InState(s, "Free") = {} THEN s                       \* Busy
     ELSE IF accepts THEN Observe([t EXCEPT !.waiters[f] = 1], r, p)
     ELSE [s EXCEPT !.reserve = @ \ {f}]                     \* aborted, Busy

GetFree(r, p) ==
  LET s == Reconcile(pool) IN
  /\ Absent(pool, p)
  /\ pool.reads < MaxReads
  /\ InState(pool, "Free") # {}
  /\ \E accepts \in BOOLEAN : pool' = ReadInto(s, r, p, accepts)

\* No frame is free: drain, reclaim, evict one victim, reclaim.
GetEvict(r, p) ==
  LET s == Reconcile(pool) IN
  /\ Absent(pool, p)
  /\ pool.reads < MaxReads
  /\ InState(pool, "Free") = {}
  /\ \E c \in Completions(s), matured \in BOOLEAN, hint \in Frames :
       LET t == Reclaim(RouteCompletion(s, c), matured)
           u == IF InState(t, "Free") # {} THEN t ELSE Reclaim(EvictOne(t, hint), matured)
       IN /\ Sensible(c)
          /\ pool' = ReadInto(u, r, p, TRUE)

Get(r, p) ==
  /\ Unlocked
  /\ hold[r] = None
  /\ pool.live
  /\ ~Mapped(pool, p)
  /\ p \in Starts \/ (pool.pattern[r].at # "empty" /\ p - pool.pattern[r].page \in {0, 1})
  /\ Waiters(pool) < MaxTokens
  /\ GetJoin(r, p) \/ GetFree(r, p) \/ GetEvict(r, p)
  /\ UNCHANGED hold

\* Pool::prefetch.
Prefetch(pages) ==
  /\ Unlocked
  /\ pages \in setup.windows
  /\ \E accepts \in BOOLEAN :
       pool' = Examined([Reconcile(pool) EXCEPT !.active = TRUE], pages, ToSet(pages), accepts)
  /\ UNCHANGED hold

\* Pool::poll up to advance_and_reclaim and progress_retirements, whose
\* retire_file_frames evicts what nobody waits for.
PollDrain(c, matured) ==
  LET s == Reclaim(RouteCompletion(pool, c), matured)
      gone == {f \in Frames : ~s.live /\ Evictable(s, f)}
  IN /\ Unlocked
     /\ Sensible(c)
     /\ pool' = [FoldSet(LAMBDA f, t : EvictResident(t, f), s, gone) EXCEPT !.phase = "progress"]
     /\ UNCHANGED hold

\* The rest of the poll; readers and token drops have come in between.
PollProgress(hint, matured, accepts) ==
  /\ pool.phase = "progress"
  /\ pool' = [ProgressPrefetch(pool, hint, matured, accepts) EXCEPT !.phase = "idle"]
  /\ UNCHANGED hold

\* Pool::retire_file.
Retire ==
  /\ Unlocked
  /\ pool.live
  /\ pool' = [pool EXCEPT !.live = FALSE]
  /\ UNCHANGED hold

-----------------------------------------------------------------------------
(* What takes no lock.                                                     *)

\* A token is dropped, or has been exchanged for a guard.
DropToken(f) ==
  /\ pool.waiters[f] > 0
  /\ pool' = [pool EXCEPT !.waiters[f] = @ - 1]
  /\ UNCHANGED hold

\* pin_owned, the first to touch a speculative frame: the reader consumes it and
\* then notifies.  Later hits, and the guard once the notification is out, change
\* nothing here but how soon an evicted frame matures.
Pin(r, f) ==
  LET e == pool.entry[f]
      s == IF e.owner = r /\ e.current THEN Track(pool, r, pool.page[f]) ELSE pool
  IN /\ hold[r] = None
     /\ pool.fstate[f] = "Resident"
     /\ pool.marker[f] = Armed
     /\ pool' = [s EXCEPT !.marker[f] = r]
     /\ hold' = [hold EXCEPT ![r] = f]

Notify(r) ==
  /\ hold[r] # None
  /\ pool' = [pool EXCEPT !.consumed = @ \union {hold[r]}]
  /\ hold' = [hold EXCEPT ![r] = None]

-----------------------------------------------------------------------------
Init ==
  /\ setup \in Setups
  /\ pool = [live |-> TRUE, phase |-> "idle", active |-> FALSE, reads |-> 0,
             fstate |-> [f \in Frames |-> "Free"], page |-> [f \in Frames |-> 0],
             waiters |-> [f \in Frames |-> 0], reserve |-> {}, ops |-> {},
             entry |-> [f \in Frames |-> None], marker |-> [f \in Frames |-> Clear],
             consumed |-> {}, completed |-> {}, cleanup |-> {}, feedback |-> {},
             pattern |-> [r \in Readers |-> Empty], ready |-> <<>>,
             trail |-> [r \in Readers |-> None]]
  /\ hold = [r \in Readers |-> None]

Step ==
  \/ \E r \in Readers : \/ Notify(r)
                        \/ \E p \in Pages : Get(r, p)
                        \/ \E f \in Frames : Pin(r, f)
  \/ \E pages \in UNION {x.windows : x \in Setups} : Prefetch(pages)
  \/ \E c \in Completions(pool), matured \in BOOLEAN : PollDrain(c, matured)
  \/ \E hint \in InState(pool, "Resident") \union {0}, matured, accepts \in BOOLEAN :
       PollProgress(hint, matured, accepts)
  \/ Retire
  \/ \E f \in Frames : DropToken(f)

Next == Step /\ UNCHANGED setup

Spec == Init /\ [][Next]_vars

-----------------------------------------------------------------------------
(* Properties.                                                             *)

\* The ledger, the markers, the frames and the credits agree after every step:
\* an entry is a frame being read or resident that no token waits for, its
\* marker is set as long as it is entered, the credits with the feedback not
\* yet flushed fit the capacity (finish_index_feedback's buffer), the reserve
\* holds free frames only, and reads_in_flight counts the frames being read.
LedgerExact ==
  /\ \A f \in Frames :
       /\ pool.entry[f] # None <=> pool.marker[f] # Clear
       /\ pool.entry[f] # None =>
            pool.fstate[f] \in {"InFlight", "Resident"} /\ pool.waiters[f] = 0
       /\ f \in pool.reserve => pool.fstate[f] = "Free"
  /\ Cardinality(Ledger(pool)) + Cardinality(pool.feedback) <= Capacity
  /\ pool.reads = Cardinality(InState(pool, "InFlight"))
  /\ pool.reads <= MaxReads

\* A page is read at most once at a time and never while it is resident,
\* whether demand, a request or a stream asked for it.
PageOnce ==
  \A f, g \in InState(pool, "InFlight") \union InState(pool, "Resident") :
    pool.page[f] = pool.page[g] => f = g

\* The rest of every span in flight is exactly what is being read: frame by
\* frame, each in one span, holding consecutive pages.  Short, failed and
\* refused vectors strand no frame and free none twice, and read no page twice.
SpansExact ==
  /\ PageOnce
  /\ \A f \in Frames : pool.fstate[f] = "InFlight" <=>
       \E o \in pool.ops : f \in ToSet(Rest(o))
  /\ \A o \in pool.ops :
       /\ Rest(o) # <<>>
       /\ \A i \in 2 .. Len(Rest(o)) : pool.page[Rest(o)[i]] = pool.page[Rest(o)[i - 1]] + 1
       /\ \A q \in pool.ops \ {o} : ToSet(Rest(q)) \intersect ToSet(Rest(o)) = {}

\* A frame read for a stream that no longer exists is not forgotten: it is
\* still being read, or queued for cleanup, or its completion or its consumer
\* will bring it up.
ObsoleteTracked ==
  \A f \in Ledger(pool) : Obsolete(pool, f) =>
    \/ pool.fstate[f] = "InFlight"
    \/ f \in pool.cleanup \union pool.completed
    \/ pool.marker[f] \in Readers

\* The queue of turns holds each reader whose stream has a whole window ahead,
\* once, and nobody else: progress_prefetch takes the window of its front for
\* granted ("ready stream has eligible horizon").
ReadyExact ==
  /\ ToSet(pool.ready) = {r \in Readers : HasWindow(pool.pattern[r])}
  /\ Cardinality(ToSet(pool.ready)) = Len(pool.ready)

\* The two queues the pool works through instead of scanning, of obsolete frames
\* and of readers whose turn it is, miss nobody.
QueuesExact == ObsoleteTracked /\ ReadyExact

\* A reader whose observed accesses (misses, joins of a read in flight, first
\* touches of the pages read ahead for its stream) follow page on page keeps its
\* stream, however late and in whatever order the notifications of the touches
\* are drained, unless a page was evicted unused, failed, or the file ended.
\* Nothing is claimed of a reader that crosses a page resident for another
\* reason: that hit is not observed, and Pattern::observe starts anew behind it.
StreamKept ==
  \A r \in Readers : pool.trail[r] # None => pool.pattern[r].at = "streaming"
=============================================================================
