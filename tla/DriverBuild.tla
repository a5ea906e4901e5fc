---------------------------- MODULE DriverBuild ----------------------------
(***************************************************************************)
(* Construction and release of a driver (driver.rs build,                 *)
(* build_with_frames, lock_arenas, ArenaLockGuard; memlock.rs; the        *)
(* constructors of both backends).                                        *)
(*                                                                         *)
(* A driver owns two arenas, the read frames and the write staging area.  *)
(* They are allocated, locked in memory when the system allows it, and    *)
(* registered with the ring when the posture asks for it.  Each step may  *)
(* fail, and what the earlier ones acquired is then given back by the     *)
(* destructors of the values already built.                               *)
(***************************************************************************)
EXTENDS Integers, FiniteSets

CONSTANT None   \* the absence of a value

VARIABLES
    config,   \* DriverBuilder: backend, registration policy, lock policy
    step,     \* the next construction step, or how construction ended
    mapped,   \* the arenas that are allocated
    locked,   \* the arenas that are locked in memory
    refused,  \* errno of a refused lock (ArenaLock::Refused), or None
    pinned    \* both arenas are registered with the ring

buildVars == <<config, step, mapped, locked, refused, pinned>>

Arenas == {"frames", "staging"}
Backends == {"eager", "ring"}
Postures == {"Auto", "Registered", "Unregistered"}
LockPolicies == {"BestEffort", "Required"}
Errnos == {"ENOMEM", "EPERM"}

\* The three errors a build reports (DriverBuildError).
Failures == {"Allocation", "Driver", "Configuration"}

BuildInit ==
    /\ config \in [backend: Backends, posture: Postures, lock: LockPolicies]
    /\ step = "frames"
    /\ mapped = {}
    /\ locked = {}
    /\ refused = None
    /\ pinned = FALSE

\* An error return: the ring is dropped before the arenas it has registered,
\* the lock guard unlocks both ranges while it still holds them, and the last
\* references free the allocations.
FailBuild(error) ==
    /\ step' = error
    /\ mapped' = {}
    /\ locked' = {}
    /\ refused' = None
    /\ pinned' = FALSE
    /\ UNCHANGED config

\* Frames::try_preallocated and try_shared_write_arena.
AllocateArena(arena, next) ==
    \/ /\ step = arena
       /\ step' = next
       /\ mapped' = mapped \union {arena}
       /\ UNCHANGED <<config, locked, refused, pinned>>
    \/ step = arena /\ FailBuild("Allocation")

AllocateFrames == AllocateArena("frames", "staging")
AllocateStaging == AllocateArena("staging", "shared")

\* Shared::try_new: the slab, the ready queue and the file table.
AllocateShared ==
    \/ /\ step = "shared"
       /\ step' = "lock"
       /\ UNCHANGED <<config, mapped, locked, refused, pinned>>
    \/ step = "shared" /\ FailBuild("Allocation")

\* memlock::lock_range over one arena: it fails or it does not.
LockRange(arena) == {[errno |-> None, locked |-> {arena}]}
    \union {[errno |-> e, locked |-> {}] : e \in Errnos}

\* A staging failure that forgets to unlock the frames.
TryLockKeeping ==
    {f \in LockRange("frames") : f.errno # None}
    \union {[errno |-> s.errno, locked |-> {"frames"} \union s.locked] :
                s \in LockRange("staging")}

\* ArenaLockGuard::try_lock: both ranges, or neither.
TryLock ==
    {f \in LockRange("frames") : f.errno # None}
    \union {[errno |-> s.errno,
             locked |-> IF s.errno = None THEN Arenas ELSE {}] :
                s \in LockRange("staging")}

\* lock_arenas: a refusal ends the build only under the Required policy.
LockArenas ==
    /\ step = "lock"
    /\ \E try \in TryLock :
         IF try.errno # None /\ config.lock = "Required"
         THEN FailBuild("Configuration")
         ELSE /\ step' = "executor"
              /\ locked' = try.locked
              /\ refused' = try.errno
              /\ UNCHANGED <<config, mapped, pinned>>

\* registration_policy_after_lock.
PolicyAfterLock ==
    IF refused = "ENOMEM" /\ config.posture = "Auto"
    THEN "Unregistered" ELSE config.posture

\* EagerBackend::new: registration is unsupported, the file table may not fit.
NewEager ==
    /\ step = "executor"
    /\ config.backend = "eager"
    /\ \/ PolicyAfterLock = "Registered" /\ FailBuild("Configuration")
       \/ PolicyAfterLock # "Registered" /\ FailBuild("Allocation")
       \/ /\ PolicyAfterLock # "Registered"
          /\ step' = "core"
          /\ UNCHANGED <<config, mapped, locked, refused, pinned>>

\* select_posture with register_arenas: what a posture and the kernel's
\* answer make of the build.
SelectPosture(policy, errno) ==
    CASE policy = "Unregistered" -> "unregistered"
      [] policy # "Unregistered" /\ errno = None -> "registered"
      [] policy # "Unregistered" /\ errno = "EPERM" -> "Driver"
      [] policy = "Registered" /\ errno = "ENOMEM" -> "Configuration"
      [] policy = "Auto" /\ errno = "ENOMEM" -> "unregistered"

\* UringBackend::new: file table, ring, eventfd and sparse file registration
\* may each fail before the posture is selected; the wake poll is armed last.
NewRing ==
    /\ step = "executor"
    /\ config.backend = "ring"
    /\ \/ FailBuild("Allocation")
       \/ FailBuild("Driver")
       \/ \E errno \in Errnos \union {None} :
            LET posture == SelectPosture(PolicyAfterLock, errno)
            IN IF posture \in Failures
               THEN FailBuild(posture)
               ELSE /\ step' = "core"
                    /\ pinned' = (posture = "registered")
                    /\ UNCHANGED <<config, mapped, locked, refused>>

\* DriverCore::try_new: vector storage, retire list, shutdown batch.
AllocateCore ==
    \/ /\ step = "core"
       /\ step' = "built"
       /\ UNCHANGED <<config, mapped, locked, refused, pinned>>
    \/ step = "core" /\ FailBuild("Allocation")

BuildNext ==
    \/ AllocateFrames \/ AllocateStaging \/ AllocateShared
    \/ LockArenas \/ NewEager \/ NewRing \/ AllocateCore

\* Driver::drop of a ring driver: once drained, the ring, the lock guard and
\* the arenas go in this order.  A ring that exhausts its budget is leaked with
\* everything the kernel may still use.
DropRing ==
    /\ step = "built"
    /\ config.backend = "ring"
    /\ \/ /\ step' = "dropped"
          /\ mapped' = {}
          /\ locked' = {}
          /\ pinned' = FALSE
          /\ UNCHANGED <<config, refused>>
       \/ /\ step' = "leaked"
          /\ UNCHANGED <<config, mapped, locked, refused, pinned>>

(***************************************************************************)
(* A lock or registration never outlives its arena and covers both arenas *)
(* or none.  A finished build has exactly what its configuration demands, *)
(* a failed one keeps nothing, and the public builder (Auto, BestEffort)  *)
(* is never refused for its configuration, which DriverBuilder::build     *)
(* marks unreachable.                                                     *)
(***************************************************************************)
ArenasSettled ==
    /\ locked \in {{}, Arenas}
    /\ locked \subseteq mapped
    /\ pinned => mapped = Arenas
    /\ step \in Failures => mapped = {} /\ ~pinned
    /\ step = "built" =>
         /\ mapped = Arenas
         /\ config.lock = "Required" => locked = Arenas
         /\ config.posture = "Registered" => pinned
         /\ config.posture = "Unregistered" => ~pinned
         /\ (locked = Arenas) <=> (refused = None)
    /\ step = "Configuration" =>
         config.lock = "Required" \/ config.posture = "Registered"
=============================================================================
