----------------------------- MODULE PageLease ------------------------------
(***************************************************************************)
(* What the frame pool promises to whoever holds a borrow of page bytes,    *)
(* with no mechanism: a frame's bytes change only while nobody holds a      *)
(* lease on it, and a lease names a frame that holds the page asked for.    *)
(* A FrameGuard is a lease, its owner a reader slot (pool/epoch.rs).        *)
(***************************************************************************)
CONSTANTS Owners, Slots, Frames, Pages, NoFrame, NoPage

VARIABLES
  bytes,       \* what each frame's memory holds
  leaseFrame,  \* the frame leased by an owner's slot, or NoFrame
  leasePage    \* the page that lease was asked for, or NoPage

leaseVars == <<bytes, leaseFrame, leasePage>>

Init ==
  /\ bytes = [f \in Frames |-> NoPage]
  /\ leaseFrame = [o \in Owners |-> [s \in Slots |-> NoFrame]]
  /\ leasePage = [o \in Owners |-> [s \in Slots |-> NoPage]]

Leased(f) == \E o \in Owners, s \in Slots : leaseFrame[o][s] = f

Acquire(o, s, f) ==
  /\ leaseFrame[o][s] = NoFrame
  /\ bytes[f] # NoPage
  /\ leaseFrame' = [leaseFrame EXCEPT ![o][s] = f]
  /\ leasePage' = [leasePage EXCEPT ![o][s] = bytes[f]]
  /\ UNCHANGED bytes

Drop(o, s) ==
  /\ leaseFrame[o][s] # NoFrame
  /\ leaseFrame' = [leaseFrame EXCEPT ![o][s] = NoFrame]
  /\ leasePage' = [leasePage EXCEPT ![o][s] = NoPage]
  /\ UNCHANGED bytes

\* The bytes become a page's, or nobody's while a read overwrites them.
Overwrite(f, p) ==
  /\ ~Leased(f)
  /\ bytes' = [bytes EXCEPT ![f] = p]
  /\ UNCHANGED <<leaseFrame, leasePage>>

Next ==
  \/ \E o \in Owners, s \in Slots, f \in Frames : Acquire(o, s, f)
  \/ \E o \in Owners, s \in Slots : Drop(o, s)
  \/ \E f \in Frames, p \in Pages \cup {NoPage} : Overwrite(f, p)

Spec == Init /\ [][Next]_leaseVars
=============================================================================
