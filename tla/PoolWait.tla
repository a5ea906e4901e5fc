------------------------------ MODULE PoolWait ------------------------------
(***************************************************************************)
(* How a pool owner parks and is woken: the generation latch WaitState      *)
(* (product.rs), its condition variable on the eager backend, its eventfd   *)
(* polled through the ring on io_uring (PlatformWake, driver.rs             *)
(* poll_wait_ring_for_pool, backend/uring.rs reap and rearm), the poll      *)
(* passes of pool/mod.rs that consume it, and the three things that wake:   *)
(* an external handle, a submitted or completed operation, and a release    *)
(* that reached the release ring.                                           *)
(*                                                                         *)
(* One thread, Owner, runs poll_wait in a loop; Others run poll_report      *)
(* concurrently; Submitter admits operations under the control lock. The    *)
(* latch's mutex makes each of its critical sections one step. One          *)
(* operation stands for all.                                                *)
(***************************************************************************)
EXTENDS Integers

CONSTANTS
  Owner, Others, Submitter, NoThread,
  Modes,        \* the set-ups explored, see Platform and SharedPolling
  MaxWakes,     \* bound on external wakes
  MaxReleases,  \* bound on last drops of HELD frames
  MaxOps        \* bound on submitted operations

ASSUME WaitAssumption ==
  /\ Owner \notin Others
  /\ Submitter \notin Others \cup {Owner}
  /\ NoThread \notin Others \cup {Owner, Submitter}
  /\ Modes \subseteq {"eager", "ring", "ring_alone"}
  /\ MaxWakes \in Nat /\ MaxReleases \in Nat /\ MaxOps \in Nat

Threads == Others \cup {Owner}
Actors == Threads \cup {Submitter}

VARIABLES
  mode,        \* the set-up of this behaviour
  current, consumed, ringPending, parks,  \* the latch
  notifying,   \* wakes that have bumped the generation and not yet notified
  ring,        \* release-ring entries not yet drained
  publishing,  \* releases that are in the ring and not yet published
  op,          \* the operation: none, queued, inflight, done
  eventfd, pollArmed, wakeCqe, wakeSqe,   \* the platform wake: counter, poll
                                          \* in the kernel, completed, queued
  control,     \* holder of the pool's control lock
  phase, progress, rearm,                 \* each thread's poll pass
  waited,      \* the owner's wait in this poll_wait: no, skipped, parked
  armed,       \* the generation the owner parked on
  expired,     \* the owner's deadline has passed
  roused,      \* the condition variable or the completion queue was signalled
  wakes, releases, ops                    \* what the environment has done

latchVars == <<current, consumed, ringPending, parks>>
platformVars == <<eventfd, pollArmed, wakeCqe, wakeSqe>>
passVars == <<control, phase, progress, rearm>>
ownerVars == <<waited, armed, expired>>
envVars == <<wakes, releases, ops>>
vars == <<mode, latchVars, notifying, ring, publishing, op, platformVars, passVars,
          ownerVars, roused, envVars>>

\* io_uring with an eventfd, or the eager backend with a condition variable.
Platform == mode # "eager"

\* Whether threads other than the owner poll.
SharedPolling == mode # "ring_alone"

Init ==
  /\ mode \in Modes
  /\ current = 0 /\ consumed = 0 /\ ringPending = FALSE /\ parks = 0
  /\ notifying = 0
  /\ ring = 0 /\ publishing = 0
  /\ op = "none"
  /\ eventfd = FALSE /\ pollArmed = Platform /\ wakeCqe = FALSE /\ wakeSqe = FALSE
  /\ control = NoThread
  /\ phase = [t \in Actors |-> "idle"]
  /\ progress = [t \in Threads |-> FALSE]
  /\ rearm = [t \in Threads |-> FALSE]
  /\ waited = "no" /\ armed = 0 /\ expired = FALSE /\ roused = FALSE
  /\ wakes = 0 /\ releases = 0 /\ ops = 0

Goto(t, to) == phase' = [phase EXCEPT ![t] = to]

\* The parked owner is signalled: notify_all, or a new completion entry.
Rouse == roused' = (roused \/ phase[Owner] = "parked")

(***************************************************************************)
(* What wakes.                                                             *)
(***************************************************************************)

\* Mutant: wake only signals the condition variable.
NotifyCondvarOnly == UNCHANGED platformVars /\ IF Platform THEN UNCHANGED roused ELSE Rouse

\* PlatformWake::notify: the counter becomes readable, and an armed poll posts
\* its completion; notify_all alone on the eager backend.
NotifyPlatform ==
  IF ~Platform THEN UNCHANGED platformVars /\ Rouse
  ELSE IF pollArmed
    THEN /\ eventfd' = TRUE /\ pollArmed' = FALSE /\ wakeCqe' = TRUE /\ Rouse
         /\ UNCHANGED wakeSqe
    ELSE eventfd' = TRUE /\ UNCHANGED <<pollArmed, wakeCqe, wakeSqe, roused>>

\* WaitState::wake: the generation under the mutex, the notification after it.
Bump == current' = current + 1 /\ notifying' = notifying + 1

Notify ==
  /\ notifying > 0
  /\ notifying' = notifying - 1
  /\ NotifyPlatform
  /\ UNCHANGED <<mode, latchVars, ring, publishing, op, passVars, ownerVars,
                 envVars>>

ExternalWake ==
  /\ wakes < MaxWakes
  /\ wakes' = wakes + 1
  /\ Bump
  /\ UNCHANGED <<mode, consumed, ringPending, parks, ring, publishing, op,
                 platformVars, passVars, ownerVars, roused, releases, ops>>

\* A miss or a product submission queues its operation and wakes the pool, all
\* of it under the control lock.
SubmitOp ==
  /\ phase[Submitter] = "idle"
  /\ control = NoThread
  /\ control' = Submitter
  /\ ops < MaxOps
  /\ op = "none"
  /\ op' = "queued"
  /\ ops' = ops + 1
  /\ Goto(Submitter, "bump")
  /\ UNCHANGED <<mode, latchVars, notifying, ring, publishing, platformVars,
                 progress, rearm, ownerVars, roused, wakes, releases>>

BumpOp ==
  /\ phase[Submitter] = "bump"
  /\ current' = current + 1
  /\ Goto(Submitter, "signal")
  /\ UNCHANGED <<mode, consumed, ringPending, parks, notifying, ring, publishing,
                 op, platformVars, control, progress, rearm, ownerVars, roused,
                 envVars>>

SignalOp ==
  /\ phase[Submitter] = "signal"
  /\ NotifyPlatform
  /\ control' = NoThread
  /\ Goto(Submitter, "idle")
  /\ UNCHANGED <<mode, latchVars, notifying, ring, publishing, op, progress, rearm,
                 ownerVars, envVars>>

\* The kernel completes the operation and posts its entry.
KernelCompletes ==
  /\ Platform
  /\ op = "inflight"
  /\ op' = "done"
  /\ Rouse
  /\ UNCHANGED <<mode, latchVars, notifying, ring, publishing, platformVars,
                 passVars, ownerVars, envVars>>

\* Retention::release pushes the frame into the ring ...
PushRelease ==
  /\ releases < MaxReleases
  /\ releases' = releases + 1
  /\ ring' = ring + 1
  /\ publishing' = publishing + 1
  /\ UNCHANGED <<mode, latchVars, notifying, op, platformVars, passVars, ownerVars,
                 roused, wakes, ops>>

\* Mutant: the flag is set and the parked owner is left alone.
PublishQuietly ==
  /\ publishing > 0
  /\ publishing' = publishing - 1
  /\ ringPending' = TRUE
  /\ UNCHANGED <<mode, current, consumed, parks, notifying, ring, op, platformVars,
                 passVars, ownerVars, roused, envVars>>

\* ... and then publishes it; only a parked owner is woken, under the mutex.
PublishRelease ==
  /\ publishing > 0
  /\ publishing' = publishing - 1
  /\ ringPending' = TRUE
  /\ IF parks = 0
       THEN UNCHANGED <<current, platformVars, roused>>
       ELSE current' = current + 1 /\ NotifyPlatform
  /\ UNCHANGED <<mode, consumed, parks, notifying, ring, op, passVars, ownerVars,
                 envVars>>

(***************************************************************************)
(* A poll pass of thread t: reap, rearm, signal, drain the ring, consume.   *)
(***************************************************************************)

\* The backend's poll: fill and reap on the ring, run what is queued otherwise.
PollStart == IF Platform THEN "fill" ELSE "reap"

BeginPoll(t) ==
  /\ t = Owner \/ SharedPolling
  /\ phase[t] = "idle"
  /\ control = NoThread
  /\ control' = t
  /\ Goto(t, PollStart)
  /\ progress' = [progress EXCEPT ![t] = FALSE]
  /\ UNCHANGED <<mode, latchVars, notifying, ring, publishing, op, platformVars,
                 rearm, ownerVars, roused, envVars>>

\* The submission queue reaches the kernel: a queued wake poll is armed, and one
\* on a readable eventfd completes at once.
FlushQueue ==
  /\ wakeSqe' = FALSE
  /\ wakeCqe' = (wakeCqe \/ (wakeSqe /\ eventfd))
  /\ pollArmed' = (pollArmed \/ (wakeSqe /\ ~eventfd))
  /\ UNCHANGED eventfd

\* poll_ring_progress: fill_ring, and a submit when that queued something.
Fill(t) ==
  /\ phase[t] = "fill"
  /\ IF op = "queued"
       THEN /\ op' = "inflight"
            /\ FlushQueue
            /\ IF wakeSqe /\ eventfd THEN Rouse ELSE UNCHANGED roused
       ELSE UNCHANGED <<op, platformVars, roused>>
  /\ Goto(t, "reap")
  /\ UNCHANGED <<mode, latchVars, notifying, ring, publishing, control, progress,
                 rearm, ownerVars, envVars>>

Reaped == IF Platform THEN op = "done" ELSE op = "queued"

\* PlatformWake::drain: the eventfd is read empty.
DrainPlatform == eventfd' = FALSE

\* reap_ring under the driver's lock: a wake entry drains the eventfd and queues
\* a fresh poll. The eager backend runs the queued operation on the spot.
Reap(t) ==
  /\ phase[t] = "reap"
  /\ op' = IF Reaped THEN "none" ELSE op
  /\ progress' = [progress EXCEPT ![t] = Reaped]
  /\ rearm' = [rearm EXCEPT ![t] = wakeCqe]
  /\ wakeCqe' = FALSE
  /\ wakeSqe' = (wakeSqe \/ wakeCqe)
  /\ IF wakeCqe THEN DrainPlatform ELSE UNCHANGED eventfd
  /\ Goto(t, "submit")
  /\ UNCHANGED <<mode, latchVars, notifying, ring, publishing, pollArmed, control,
                 ownerVars, roused, envVars>>

\* Where a pass goes once its reap is done: the owner in poll_wait still has to
\* see whether it was woken, and takes the control lock again.
AfterReap(t) ==
  CASE t # Owner \/ waited = "no" -> "drain"
    [] t = Owner /\ waited = "parked" /\ Platform -> "woken"
    [] OTHER -> "relock"

\* The fresh poll is submitted outside the lock; a taken completion signals the
\* latch.
Submit(t) ==
  /\ phase[t] = "submit"
  /\ rearm' = [rearm EXCEPT ![t] = FALSE]
  /\ IF rearm[t]
       THEN FlushQueue /\ IF wakeSqe /\ eventfd THEN Rouse ELSE UNCHANGED roused
       ELSE UNCHANGED <<platformVars, roused>>
  /\ current' = IF progress[t] THEN current + 1 ELSE current
  /\ Goto(t, IF progress[t] THEN "signal" ELSE AfterReap(t))
  /\ UNCHANGED <<mode, consumed, ringPending, parks, notifying, ring, publishing,
                 op, control, progress, ownerVars, envVars>>

\* signal_pool_wait's notification, after the generation it bumped.
Signal(t) ==
  /\ phase[t] = "signal"
  /\ NotifyPlatform
  /\ Goto(t, AfterReap(t))
  /\ UNCHANGED <<mode, latchVars, notifying, ring, publishing, op, control,
                 progress, rearm, ownerVars, envVars>>

ClearRingPending == ringPending' = FALSE

\* release_drain_needed, and the flag cleared before the ring is scanned.
ClearPending(t) ==
  /\ phase[t] = "drain"
  /\ IF ring > 0 \/ ringPending
       THEN ClearRingPending /\ Goto(t, "scan")
       ELSE UNCHANGED ringPending /\ Goto(t, "settle")
  /\ UNCHANGED <<mode, current, consumed, parks, notifying, ring, publishing, op,
                 platformVars, control, progress, rearm, ownerVars, roused,
                 envVars>>

ScanRing(t) ==
  /\ phase[t] = "scan"
  /\ ring' = 0
  /\ progress' = [progress EXCEPT ![t] = @ \/ ring > 0]
  /\ Goto(t, "settle")
  /\ UNCHANGED <<mode, latchVars, notifying, publishing, op, platformVars, control,
                 rearm, ownerVars, roused, envVars>>

\* A pass with progress consumes the generation; the owner without any goes on
\* to wait, unless it already has.
Settle(t) ==
  /\ phase[t] = "settle"
  /\ consumed' = IF progress[t] THEN current ELSE consumed
  /\ control' = NoThread
  /\ progress' = [progress EXCEPT ![t] = FALSE]
  /\ Goto(t, IF t = Owner /\ waited = "no" /\ ~progress[t] THEN "arm" ELSE "idle")
  /\ waited' = IF t = Owner THEN "no" ELSE waited
  /\ UNCHANGED <<mode, current, ringPending, parks, notifying, ring, publishing, op,
                 platformVars, rearm, armed, expired, roused, envVars>>

(***************************************************************************)
(* The owner's wait: WaitState::wait, or begin_platform_wait and the loop   *)
(* of poll_wait_ring_for_pool.                                              *)
(***************************************************************************)

\* Under the mutex: an unconsumed generation or a pending ring keeps the owner
\* from parking; otherwise its park is counted and the generation remembered.
Arm ==
  /\ phase[Owner] = "arm"
  /\ IF current # consumed \/ ringPending
       THEN /\ consumed' = current
            /\ waited' = "skipped"
            /\ Goto(Owner, PollStart)
            /\ UNCHANGED <<parks, armed, roused>>
       ELSE /\ parks' = parks + 1
            /\ armed' = current
            /\ waited' = "parked"
            /\ roused' = FALSE
            /\ Goto(Owner, IF Platform THEN "armed" ELSE "parked")
            /\ UNCHANGED consumed
  /\ UNCHANGED <<mode, current, ringPending, notifying, ring, publishing, op,
                 platformVars, control, progress, rearm, expired, envVars>>

\* poll_wait_ring_one: fill, submit, and wait for one completion entry.
EnterKernel ==
  /\ phase[Owner] = "armed"
  /\ op' = IF op = "queued" THEN "inflight" ELSE op
  /\ FlushQueue
  /\ roused' = FALSE
  /\ Goto(Owner, IF wakeCqe' \/ op = "done" THEN "reap" ELSE "parked")
  /\ UNCHANGED <<mode, latchVars, notifying, ring, publishing, control, progress,
                 rearm, ownerVars, envVars>>

\* Mutant: the loop compares with what was last consumed, by anyone.
ResumeOnUnconsumed ==
  /\ ~Platform
  /\ phase[Owner] = "parked"
  /\ roused
  /\ IF current # consumed
       THEN consumed' = current /\ parks' = parks - 1 /\ Goto(Owner, "reap")
       ELSE UNCHANGED <<consumed, parks, phase>>
  /\ roused' = FALSE
  /\ UNCHANGED <<mode, current, ringPending, notifying, ring, publishing, op,
                 platformVars, control, progress, rearm, ownerVars, envVars>>

\* The condition variable's loop ends on a new generation.
ResumeEager ==
  /\ ~Platform
  /\ phase[Owner] = "parked"
  /\ roused
  /\ IF current # armed
       THEN consumed' = current /\ parks' = parks - 1 /\ Goto(Owner, "reap")
       ELSE UNCHANGED <<consumed, parks, phase>>
  /\ roused' = FALSE
  /\ UNCHANGED <<mode, current, ringPending, notifying, ring, publishing, op,
                 platformVars, control, progress, rearm, ownerVars, envVars>>

ResumeRing ==
  /\ Platform
  /\ phase[Owner] = "parked"
  /\ roused
  /\ roused' = FALSE
  /\ Goto(Owner, "reap")
  /\ UNCHANGED <<mode, latchVars, notifying, ring, publishing, op, platformVars,
                 control, progress, rearm, ownerVars, envVars>>

\* The deadline passes: the eager wait returns, the ring's wait reaps once more.
Timeout ==
  /\ phase[Owner] = "parked"
  /\ Goto(Owner, "reap")
  /\ roused' = FALSE
  /\ IF Platform
       THEN expired' = TRUE /\ UNCHANGED <<consumed, parks>>
       ELSE /\ consumed' = IF current # armed THEN current ELSE consumed
            /\ parks' = parks - 1
            /\ UNCHANGED expired
  /\ UNCHANGED <<mode, current, ringPending, notifying, ring, publishing, op,
                 platformVars, control, progress, rearm, waited, armed, envVars>>

\* platform_woken: leave the loop on progress, on a new generation or at the
\* deadline; finish_platform_wait consumes under the mutex.
LeaveWait ==
  /\ phase[Owner] = "woken"
  /\ IF progress[Owner] \/ current # armed \/ expired
       THEN /\ consumed' = IF current # armed THEN current ELSE consumed
            /\ expired' = FALSE
            /\ Goto(Owner, "unpark")
       ELSE /\ Goto(Owner, "armed")
            /\ UNCHANGED <<consumed, expired>>
  /\ UNCHANGED <<mode, current, ringPending, parks, notifying, ring, publishing, op,
                 platformVars, control, progress, rearm, waited, armed, roused,
                 envVars>>

\* The park is uncounted after the mutex is released.
Unpark ==
  /\ phase[Owner] = "unpark"
  /\ parks' = parks - 1
  /\ Goto(Owner, "relock")
  /\ UNCHANGED <<mode, current, consumed, ringPending, notifying, ring, publishing,
                 op, platformVars, control, progress, rearm, ownerVars, roused,
                 envVars>>

Relock ==
  /\ phase[Owner] = "relock"
  /\ control = NoThread
  /\ control' = Owner
  /\ Goto(Owner, "drain")
  /\ UNCHANGED <<mode, latchVars, notifying, ring, publishing, op, platformVars,
                 progress, rearm, ownerVars, roused, envVars>>

PassStep(t) ==
  \/ BeginPoll(t) \/ Fill(t) \/ Reap(t) \/ Submit(t) \/ Signal(t)
  \/ ClearPending(t) \/ ScanRing(t) \/ Settle(t)

WaitStep ==
  \/ Arm \/ EnterKernel \/ ResumeEager \/ ResumeRing \/ LeaveWait \/ Unpark \/ Relock

Next ==
  \/ Notify \/ ExternalWake \/ SubmitOp \/ BumpOp \/ SignalOp \/ KernelCompletes
  \/ PushRelease \/ PublishRelease
  \/ \E t \in Threads : PassStep(t)
  \/ WaitStep
  \/ Timeout

Spec == Init /\ [][Next]_vars

\* The owner keeps calling poll_wait and its steps are scheduled, other threads
\* finish a pass they have begun, and wakes, releases and the kernel finish what
\* they have begun. No deadline is relied on, and nobody else has to poll.
FairSpec ==
  /\ Spec
  /\ WF_vars(PassStep(Owner)) /\ SF_vars(BeginPoll(Owner))
  /\ WF_vars(WaitStep) /\ SF_vars(Relock)
  /\ \A t \in Others : WF_vars(PassStep(t) /\ phase[t] # "idle")
  /\ WF_vars(Notify) /\ WF_vars(BumpOp) /\ WF_vars(SignalOp)
  /\ WF_vars(KernelCompletes) /\ WF_vars(PublishRelease)

(***************************************************************************)
(* Properties.                                                             *)
(***************************************************************************)

Parked == phase[Owner] \in {"armed", "parked"}

\* A generation that moved while the owner was arming or parked ends the wait
\* without its deadline.
WakeReturnsWait == (Parked /\ current # armed) ~> ~Parked

\* The same for an owner that is the only poller of its ring, and for the
\* condition variable whoever polls: nobody can take its wake (WaitState::wait,
\* poll_wait_ring_for_pool).
UnsharedWakeReturnsWait ==
  (mode # "ring" /\ Parked /\ current # armed) ~> ~Parked

\* A release that reached the ring is drained without a deadline, however its
\* publication falls between the owner's last scan and its park.
ReleaseIsDrained == ring > 0 ~> ring = 0

\* A submitted operation completes without a deadline, though the owner may
\* already be parked when it is queued and has to submit it.
OpCompletes == op = "queued" ~> op = "none"

=============================================================================
