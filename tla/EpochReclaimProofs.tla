------------------------- MODULE EpochReclaimProofs -------------------------
(***************************************************************************)
(* Theorems about EpochReclaim for every number of readers, frames, pages  *)
(* and guards per reader, and every bound on epochs and generations.       *)
(***************************************************************************)
EXTENDS EpochReclaimPin, EpochReclaimGuard, EpochReclaimControl

\* The pool starts with every slot vacant and every frame free.
LEMMA InitInd == Init => IndInv
<1> SUFFICES ASSUME Init PROVE IndInv
  OBVIOUS
<1> USE ReadersAssumption, PeakAssumption, BoundsAssumption, FramesAssumption, PagesAssumption
<1> USE DEF Init
<1>1. TypeOK
  BY DEF TypeOK, RegistryType, GuardType, PinType, HintType, FrameType, ControlType,
         PcStates, QUIESCENT
<1>2. CountInv
  <2>1. \A r \in Readers : LiveGuards(r) = {}
    BY DEF LiveGuards
  <2> QED  BY <2>1, FS_EmptySet DEF CountInv
<1>3. ReaderInv /\ EpochMatchesGuards /\ LocalNeverAhead
  BY DEF ReaderInv, EpochMatchesGuards, LocalNeverAhead
<1>4. FrameInv
  BY DEF FrameInv, BytesInv, MappingInv, QueueInv, LockInv, Published
<1>5. ProtectInv
  BY DEF ProtectInv, Protects
<1> QED  BY <1>1, <1>2, <1>3, <1>4, <1>5 DEF IndInv

\* Every step of a reader or of the control-lock holder preserves IndInv.
LEMMA StepInd == IndInv /\ [Next]_vars => IndInv'
<1> SUFFICES ASSUME IndInv, [Next]_vars PROVE IndInv'
  OBVIOUS
<1>1. ASSUME NEW r \in Readers, ReaderStep(r)
      PROVE  IndInv'
  BY <1>1, RegisterInd, VacateInd, GetPageInd, GetWithHintInd, BeginPinInd, LookupInd,
     ValidateWordInd, ReadIdentityInd, CommitPinInd, AbortPinInd, ReleaseGuardInd,
     HintLookupInd, HintStampInd, HintForGuardInd DEF ReaderStep
<1>2. CASE ControlStep
  BY <1>2, ClaimInd, PublishInd, AbortReadInd, UnmapInd, EnqueueInd, BeginAdvanceInd,
     ScanSlotInd, StoreEpochInd, DrainMaturedInd, EndDrainInd DEF ControlStep
<1>3. CASE UNCHANGED vars
  <2>1. UNCHANGED sharedVars /\ UNCHANGED readerVars
    BY <1>3 DEF vars, sharedVars, readerVars, frameVars, ctlVars
  <2>2. \A r \in Readers, f \in Frames : Protects(r, f) =>
          Published(f)' /\ fpage'[f] = fpage[f]
    BY <2>1 DEF IndInv, ProtectInv, Published, sharedVars, frameVars
  <2>3. ProtectInv'
    BY <2>1, <2>2, ControlKeepsProtect DEF sharedVars, ctlVars
  <2> QED
    BY <2>1, <2>3, ControlKeepsReaders, ReaderKeepsShared
       DEF IndInv, TypeOK, ControlType, sharedVars
<1> QED  BY <1>1, <1>2, <1>3 DEF Next

\* The inductive invariant holds in every reachable state.
THEOREM Invariance == Spec => []IndInv
BY InitInd, StepInd, PTL DEF Spec

\* Every variable keeps its type: in particular guard counts stay within the
\* declared peak and the epochs within the sentinel.
THEOREM TypeCorrect == Spec => []TypeOK
<1>1. IndInv => TypeOK
  BY DEF IndInv
<1> QED  BY <1>1, Invariance, PTL

\* No frame is freed, claimed or overwritten under a live FrameGuard, and the
\* guard's bytes are those of the page that was asked for.
THEOREM GuardSafety == Spec => []GuardedBytesStable
<1>1. IndInv => GuardedBytesStable
  <2> SUFFICES ASSUME IndInv, NEW r \in Readers, NEW g \in GuardIds,
                      guardFrame[r][g] # NoFrame
               PROVE  /\ Published(guardFrame[r][g])
                      /\ content[guardFrame[r][g]] = guardPage[r][g]
    BY DEF GuardedBytesStable
  <2>1. guardFrame[r][g] \in Frames
    BY DEF IndInv, TypeOK, GuardType
  <2>2. Protects(r, guardFrame[r][g])
    BY DEF Protects
  <2>3. Published(guardFrame[r][g]) /\ fpage[guardFrame[r][g]] = guardPage[r][g]
    BY <2>1, <2>2 DEF IndInv, ProtectInv
  <2> QED  BY <2>1, <2>3 DEF IndInv, FrameInv, BytesInv
<1> QED  BY <1>1, Invariance, PTL

\* The identity a hinted pin reads belongs to a frame no claim can be writing.
THEOREM IdentitySafety == Spec => []IdentityReadSafe
<1>1. IndInv => IdentityReadSafe
  BY DEF IndInv, ReaderInv, ProtectInv, Protects, IdentityReadSafe
<1> QED  BY <1>1, Invariance, PTL

\* A published local epoch is never ahead of the global one, and is published
\* exactly while a guard or a begun pin needs it.
THEOREM EpochDiscipline == Spec => [](LocalNeverAhead /\ EpochMatchesGuards)
<1>1. IndInv => LocalNeverAhead /\ EpochMatchesGuards
  BY DEF IndInv
<1> QED  BY <1>1, Invariance, PTL

\* Evict tags stay ordered and the queue never holds more entries than frames,
\* the two things EvictQueue::push asserts.
THEOREM QueueSoundness == Spec => []EvictQueueSound
<1>1. ASSUME IndInv
      PROVE  EvictQueueSound
  <2> DEFINE S == 1 .. Len(evictQueue)
             h == [i \in S |-> evictQueue[i].frame]
  <2>1. Len(evictQueue) \in Nat /\ h \in [S -> Frames]
    BY <1>1, QueueEntries
  <2>2. \A i, j \in S : h[i] = h[j] => i = j
    BY <1>1, <2>1 DEF IndInv, FrameInv, QueueInv
  <2>3. h \in Injection(S, Frames)
    BY <2>1, <2>2 DEF Injection, IsInjective
  <2>4. IsFiniteSet(S) /\ Cardinality(S) = Len(evictQueue)
    <3>1. PICK n \in Nat : n = Len(evictQueue)
      BY <2>1
    <3>2. IsFiniteSet(1 .. n) /\ Cardinality(1 .. n) = IF 1 > n THEN 0 ELSE n - 1 + 1
      BY FS_Interval
    <3> QED  BY <3>1, <3>2
  <2>5. Cardinality(S) <= Cardinality(Frames)
    BY <2>3, <2>4, FramesAssumption, FS_Injection
  <2> QED  BY <1>1, <2>4, <2>5 DEF EvictQueueSound, IndInv, FrameInv, QueueInv
<1> QED  BY <1>1, Invariance, PTL

\* The pool implements the lease contract: a commit acquires a lease on bytes
\* that are there, and a claim or a publication overwrites no leased frame.
THEOREM LeaseRefinement == Spec => ImplementsLease
<1>1. Init => Lease!Init
  BY DEF Init, Lease!Init
<1>2. ASSUME IndInv, [Next]_vars
      PROVE  [Lease!Next]_<<content, guardFrame, guardPage>>
  <2> USE <1>2
  <2> DEFINE Stutter == UNCHANGED <<content, guardFrame, guardPage>>
  <2>1. ASSUME NEW r \in Readers, CommitPin(r)
        PROVE  Lease!Next
    <3>1. PICK g \in GuardIds :
            /\ guardFrame[r][g] = NoFrame
            /\ guardFrame' = [guardFrame EXCEPT ![r][g] = pinFrame[r]]
            /\ guardPage' = [guardPage EXCEPT ![r][g] = pinPage[r]]
      BY <2>1 DEF CommitPin
    <3>2. pinFrame[r] \in Frames /\ Protects(r, pinFrame[r])
      BY <2>1 DEF CommitPin, IndInv, TypeOK, PinType, Protects
    <3>3. fpage[pinFrame[r]] = pinPage[r] /\ Published(pinFrame[r])
      BY <2>1, <3>2 DEF CommitPin, IndInv, ProtectInv
    <3>4. content[pinFrame[r]] = pinPage[r] /\ pinPage[r] \in Pages
      BY <3>2, <3>3 DEF IndInv, FrameInv, BytesInv, Published
    <3>5. Lease!Acquire(r, g, pinFrame[r])
      BY <2>1, <3>1, <3>4, PagesAssumption DEF Lease!Acquire, CommitPin, frameVars
    <3> QED  BY <3>2, <3>5 DEF Lease!Next
  <2>2. ASSUME NEW r \in Readers, NEW g \in GuardIds, ReleaseGuard(r, g)
        PROVE  Lease!Next
    BY <2>2 DEF ReleaseGuard, LastGuard, frameVars, Lease!Drop, Lease!Next
  <2>3. ASSUME NEW f \in Frames, ~Published(f)
        PROVE  ~Lease!Leased(f)
    BY <2>3 DEF IndInv, ProtectInv, Protects, Lease!Leased
  <2>4. ASSUME NEW f \in Frames, NEW p \in Pages, Claim(f, p)
        PROVE  Lease!Next
    <3>1. Lease!Overwrite(f, NoPage)
      BY <2>3, <2>4 DEF Claim, Published, Lease!Overwrite, readerVars, guardVars
    <3> QED  BY <3>1 DEF Lease!Next
  <2>5. ASSUME NEW f \in Frames, Publish(f)
        PROVE  Lease!Next
    <3>1. Lease!Overwrite(f, fpage[f]) /\ fpage[f] \in Pages
      BY <2>3, <2>5
         DEF Publish, Published, Lease!Overwrite, readerVars, guardVars, IndInv,
             FrameInv, BytesInv
    <3> QED  BY <3>1 DEF Lease!Next
  <2>6. ASSUME NEW r \in Readers, ReaderStep(r), ~CommitPin(r),
               \A g \in GuardIds : ~ReleaseGuard(r, g)
        PROVE  Stutter
    BY <2>6
       DEF ReaderStep, Register, Vacate, GetPage, GetWithHint, LoadEpoch, BeginPin,
           Lookup, ValidateWord, ReadIdentity, AbortPin, HintLookup, HintStamp,
           HintForGuard, guardVars, frameVars
  <2>7. ASSUME ControlStep, \A f \in Frames, p \in Pages : ~Claim(f, p),
               \A f \in Frames : ~Publish(f)
        PROVE  Stutter
    BY <2>7
       DEF ControlStep, AbortRead, Unmap, Enqueue, BeginAdvance, ScanSlot, StoreEpoch,
           DrainMatured, EndDrain, readerVars, guardVars, frameVars
  <2>8. CASE UNCHANGED vars
    BY <2>8 DEF vars, guardVars, frameVars
  <2> QED  BY <2>1, <2>2, <2>4, <2>5, <2>6, <2>7, <2>8 DEF Next
<1> QED  BY <1>1, <1>2, Invariance, PTL
            DEF Spec, ImplementsLease, Lease!Spec, Lease!leaseVars
=============================================================================
