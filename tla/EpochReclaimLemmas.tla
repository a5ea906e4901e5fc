------------------------- MODULE EpochReclaimLemmas -------------------------
(***************************************************************************)
(* Lemmas for the proofs about EpochReclaim: what the steps of the readers *)
(* and of the control-lock holder leave to each other.                     *)
(***************************************************************************)
EXTENDS EpochReclaim, FiniteSetTheorems, TLAPS

sharedVars == <<globalEpoch, frameVars, table, evictQueue, ctlVars>>

\* A step of the control-lock holder changes no reader's state and never takes
\* the global epoch back, so the readers' invariants survive it.
LEMMA ControlKeepsReaders ==
  ASSUME IndInv, UNCHANGED readerVars, globalEpoch' \in Nat, globalEpoch <= globalEpoch'
  PROVE  /\ (RegistryType /\ GuardType /\ PinType /\ HintType)'
         /\ (CountInv /\ ReaderInv /\ EpochMatchesGuards /\ LocalNeverAhead)'
<1> USE BoundsAssumption DEF readerVars, registryVars, guardVars, pinVars, hintVars
<1>1. (RegistryType /\ GuardType /\ PinType /\ HintType)'
  BY DEF IndInv, TypeOK, RegistryType, GuardType, PinType, HintType
<1>2. CountInv'
  BY DEF IndInv, CountInv, LiveGuards
<1>3. ReaderInv'
  BY DEF IndInv, TypeOK, ControlType, PinType, ReaderInv
<1>4. EpochMatchesGuards'
  BY DEF IndInv, EpochMatchesGuards
<1>5. LocalNeverAhead'
  BY DEF IndInv, TypeOK, ControlType, RegistryType, LocalNeverAhead
<1> QED  BY <1>1, <1>2, <1>3, <1>4, <1>5

\* A reader's step touches neither frames, mappings, queue nor the scan.
LEMMA ReaderKeepsShared ==
  ASSUME IndInv, UNCHANGED sharedVars
  PROVE  (FrameType /\ ControlType /\ FrameInv)'
<1> USE DEF sharedVars, frameVars, ctlVars
<1>1. FrameType' /\ ControlType'
  BY DEF IndInv, TypeOK, FrameType, ControlType
<1>2. FrameInv'
  BY DEF IndInv, FrameInv, BytesInv, MappingInv, QueueInv, LockInv, Published
<1> QED  BY <1>1, <1>2

\* A reader's step keeps the protection invariant if every frame its reader
\* relies on afterwards is resident, or was already relied on at the epoch
\* still published.
LEMMA ReaderKeepsProtect ==
  ASSUME IndInv, UNCHANGED sharedVars, NEW r \in Readers,
         \A q \in Readers \ {r} :
           /\ localEpoch'[q] = localEpoch[q]
           /\ guardFrame'[q] = guardFrame[q] /\ guardPage'[q] = guardPage[q]
           /\ pc'[q] = pc[q] /\ pinFrame'[q] = pinFrame[q] /\ pinPage'[q] = pinPage[q],
         \A f \in Frames : Protects(r, f)' =>
           \/ fstate[f] = "Resident"
           \/ Protects(r, f) /\ localEpoch'[r] = localEpoch[r],
         \A g \in GuardIds : guardFrame'[r][g] # NoFrame =>
           fpage[guardFrame'[r][g]] = guardPage'[r][g],
         pc'[r] = "looked" /\ pinFrame'[r] # NoFrame =>
           fpage[pinFrame'[r]] = pinPage'[r]
  PROVE  ProtectInv'
<1> USE DEF sharedVars, frameVars, ctlVars
<1>1. \A q \in Readers \ {r}, f \in Frames : Protects(q, f)' => Protects(q, f)
  BY DEF Protects
<1>2. ASSUME NEW q \in Readers, NEW f \in Frames, Protects(q, f)'
      PROVE  \/ fstate[f] = "Resident"
             \/ Protects(q, f) /\ localEpoch'[q] = localEpoch[q]
  BY <1>1, <1>2
<1>3. ASSUME NEW q \in Readers, NEW f \in Frames, Protects(q, f)'
      PROVE  /\ Published(f)'
             /\ \A i \in 1 .. Len(evictQueue') : evictQueue'[i].frame = f =>
                  /\ localEpoch'[q] <= evictQueue'[i].tag
                  /\ globalEpoch' <= evictQueue'[i].tag + 1
                  /\ ctl' = "scan" /\ q <= scanned' => globalEpoch' <= evictQueue'[i].tag
  <2>1. CASE fstate[f] = "Resident"
    <3>1. \A i \in 1 .. Len(evictQueue) : evictQueue[i].frame # f
      BY <2>1 DEF IndInv, FrameInv, QueueInv
    <3> QED  BY <2>1, <3>1 DEF Published
  <2>2. CASE Protects(q, f) /\ localEpoch'[q] = localEpoch[q]
    BY <2>2 DEF IndInv, ProtectInv, Published
  <2> QED  BY <1>2, <1>3, <2>1, <2>2
<1>4. \A q \in Readers, g \in GuardIds : guardFrame'[q][g] # NoFrame =>
        fpage'[guardFrame'[q][g]] = guardPage'[q][g]
  BY DEF IndInv, ProtectInv
<1>5. \A q \in Readers : pc'[q] = "looked" /\ pinFrame'[q] # NoFrame =>
        fpage'[pinFrame'[q]] = pinPage'[q]
  BY DEF IndInv, ProtectInv
<1> QED  BY <1>3, <1>4, <1>5 DEF ProtectInv

\* A reader holds finitely many guards.
LEMMA LiveGuardsFinite ==
  ASSUME NEW r \in Readers
  PROVE  IsFiniteSet(LiveGuards(r))
<1>1. IsFiniteSet(GuardIds)
  BY PeakAssumption, FS_Interval DEF GuardIds
<1> QED  BY <1>1, FS_Subset DEF LiveGuards

\* A slot whose guard count is zero has no guard.
LEMMA NoGuards ==
  ASSUME IndInv, NEW r \in Readers, guardCount[r] = 0
  PROVE  \A g \in GuardIds : guardFrame[r][g] = NoFrame
<1>1. LiveGuards(r) = {}
  BY LiveGuardsFinite, FS_EmptySet DEF IndInv, CountInv
<1> QED  BY <1>1 DEF LiveGuards

\* A reader that relies on a frame has its epoch published.
LEMMA ProtectorIsActive ==
  ASSUME IndInv, NEW r \in Readers, NEW f \in Frames, Protects(r, f)
  PROVE  localEpoch[r] # QUIESCENT
<1>1. CASE \E g \in GuardIds : guardFrame[r][g] = f
  <2>1. guardCount[r] # 0
    BY <1>1, NoGuards, FramesAssumption
  <2> QED  BY <2>1, PeakAssumption DEF IndInv, TypeOK, RegistryType, EpochMatchesGuards
<1>2. CASE pc[r] \in {"stamped", "looked"}
  BY <1>2 DEF IndInv, EpochMatchesGuards
<1> QED  BY <1>1, <1>2 DEF Protects
=============================================================================
