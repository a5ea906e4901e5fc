-------------------------- MODULE EpochReclaimGuard -------------------------
(***************************************************************************)
(* The steps with which a reader gives up or commits its pin, follows a    *)
(* hint and drops a guard preserve EpochReclaim's inductive invariant.     *)
(***************************************************************************)
EXTENDS EpochReclaimLemmas

\* A failed first pin held no guard, so the epoch it gives up protects nothing.
LEMMA AbortPinInd ==
  ASSUME IndInv, NEW r \in Readers, AbortPin(r)
  PROVE  IndInv'
<1> USE ReadersAssumption, PeakAssumption, BoundsAssumption, FramesAssumption
<1> USE DEF AbortPin, EndCall, FirstGuard, registryVars, guardVars, pinVars, hintVars
<1>1. UNCHANGED sharedVars
  BY DEF sharedVars
<1>2. (RegistryType /\ GuardType /\ PinType /\ HintType)'
  BY DEF IndInv, TypeOK, RegistryType, GuardType, PinType, HintType, PcStates, QUIESCENT
<1>3. CountInv'
  BY DEF IndInv, CountInv, LiveGuards
<1>4. ReaderInv'
  BY DEF IndInv, ReaderInv
<1>5. EpochMatchesGuards'
  BY DEF IndInv, TypeOK, RegistryType, PinType, EpochMatchesGuards
<1>6. LocalNeverAhead'
  BY DEF IndInv, LocalNeverAhead
<1>7. ProtectInv'
  <2>1. \A f \in Frames : Protects(r, f)' =>
           \/ fstate[f] = "Resident"
           \/ Protects(r, f) /\ localEpoch'[r] = localEpoch[r]
    BY NoGuards DEF Protects
  <2>2. pc'[r] = "looked" /\ pinFrame'[r] # NoFrame =>
           fpage[pinFrame'[r]] = pinPage'[r]
    BY DEF ProtectInv
  <2>3. \A g1 \in GuardIds : guardFrame'[r][g1] # NoFrame =>
           fpage[guardFrame'[r][g1]] = guardPage'[r][g1]
    BY DEF IndInv, ProtectInv
  <2>4. \A q \in Readers \ {r} :
           /\ localEpoch'[q] = localEpoch[q]
           /\ guardFrame'[q] = guardFrame[q] /\ guardPage'[q] = guardPage[q]
           /\ pc'[q] = pc[q] /\ pinFrame'[q] = pinFrame[q] /\ pinPage'[q] = pinPage[q]
    BY DEF PinType
  <2> QED  BY <1>1, <2>1, <2>2, <2>3, <2>4, ReaderKeepsProtect
<1> QED
  BY <1>1, <1>2, <1>3, <1>4, <1>5, <1>6, <1>7, ReaderKeepsShared DEF IndInv, TypeOK

\* A hint is looked up without protecting anything.
LEMMA HintLookupInd ==
  ASSUME IndInv, NEW r \in Readers, NEW p \in Pages, HintLookup(r, p)
  PROVE  IndInv'
<1> USE ReadersAssumption, PeakAssumption, BoundsAssumption, FramesAssumption
<1> USE DEF HintLookup, registryVars, guardVars, pinVars, hintVars
<1>1. UNCHANGED sharedVars
  BY DEF sharedVars
<1>2. (RegistryType /\ GuardType /\ PinType /\ HintType)'
  <2>1. RegistryType'
    BY DEF IndInv, TypeOK, RegistryType, GuardType, PinType, HintType, ControlType, FrameType, PcStates, QUIESCENT
  <2>2. GuardType'
    BY DEF IndInv, TypeOK, RegistryType, GuardType, PinType, HintType, ControlType, FrameType, PcStates, QUIESCENT
  <2>3. PinType'
    BY DEF IndInv, TypeOK, RegistryType, GuardType, PinType, HintType, ControlType, FrameType, PcStates, QUIESCENT
  <2>4. HintType'
    BY DEF IndInv, TypeOK, RegistryType, GuardType, PinType, HintType, ControlType, FrameType, PcStates, QUIESCENT
  <2> QED  BY <2>1, <2>2, <2>3, <2>4
<1>3. CountInv'
  BY DEF IndInv, CountInv, LiveGuards
<1>4. ReaderInv'
  BY DEF IndInv, TypeOK, PinType, ControlType, ReaderInv
<1>5. EpochMatchesGuards'
  BY DEF IndInv, EpochMatchesGuards
<1>6. LocalNeverAhead'
  BY DEF IndInv, LocalNeverAhead
<1>7. ProtectInv'
  <2>1. \A f \in Frames : Protects(r, f)' =>
           \/ fstate[f] = "Resident"
           \/ Protects(r, f) /\ localEpoch'[r] = localEpoch[r]
    BY DEF Protects
  <2>2. pc'[r] = "looked" /\ pinFrame'[r] # NoFrame =>
           fpage[pinFrame'[r]] = pinPage'[r]
    BY DEF IndInv, TypeOK, PinType
  <2>3. \A g1 \in GuardIds : guardFrame'[r][g1] # NoFrame =>
           fpage[guardFrame'[r][g1]] = guardPage'[r][g1]
    BY DEF IndInv, ProtectInv
  <2>4. \A q \in Readers \ {r} :
           /\ localEpoch'[q] = localEpoch[q]
           /\ guardFrame'[q] = guardFrame[q] /\ guardPage'[q] = guardPage[q]
           /\ pc'[q] = pc[q] /\ pinFrame'[q] = pinFrame[q] /\ pinPage'[q] = pinPage[q]
    BY DEF PinType
  <2> QED  BY <1>1, <2>1, <2>2, <2>3, <2>4, ReaderKeepsProtect
<1> QED
  BY <1>1, <1>2, <1>3, <1>4, <1>5, <1>6, <1>7, ReaderKeepsShared DEF IndInv, TypeOK

\* A stamped hint protects nothing.
LEMMA HintStampInd ==
  ASSUME IndInv, NEW r \in Readers, HintStamp(r)
  PROVE  IndInv'
<1> USE ReadersAssumption, PeakAssumption, BoundsAssumption, FramesAssumption
<1> USE DEF HintStamp, EndCall, TakeHint, registryVars, guardVars, pinVars, hintVars
<1>1. UNCHANGED sharedVars
  BY DEF sharedVars
<1>2. (RegistryType /\ GuardType /\ PinType /\ HintType)'
  <2>1. CASE fstate[pinFrame[r]] = "Resident"
    <3>1. pinFrame[r] \in Frames
      BY DEF IndInv, ReaderInv
    <3>2. fgen[pinFrame[r]] \in 0 .. MaxGeneration
      BY <3>1 DEF IndInv, TypeOK, FrameType
    <3>3. HintType'
      BY <2>1, <3>1, <3>2 DEF IndInv, TypeOK, HintType, PinType
    <3> QED
      BY <3>3 DEF IndInv, TypeOK, RegistryType, GuardType, PinType, PcStates
  <2>2. CASE fstate[pinFrame[r]] # "Resident"
    BY <2>2 DEF IndInv, TypeOK, RegistryType, GuardType, PinType, HintType, PcStates
  <2> QED  BY <2>1, <2>2
<1>3. CountInv'
  BY DEF IndInv, CountInv, LiveGuards
<1>4. ReaderInv'
  <2>1. \A q \in Readers \ {r} : hintFrame'[q] = hintFrame[q]
    BY DEF IndInv, TypeOK, HintType
  <2> QED  BY <2>1 DEF IndInv, TypeOK, PinType, ReaderInv
<1>5. EpochMatchesGuards'
  BY DEF IndInv, PinType, EpochMatchesGuards
<1>6. LocalNeverAhead'
  BY DEF IndInv, LocalNeverAhead
<1>7. ProtectInv'
  <2>1. \A f \in Frames : Protects(r, f)' =>
           \/ fstate[f] = "Resident"
           \/ Protects(r, f) /\ localEpoch'[r] = localEpoch[r]
    BY DEF Protects
  <2>2. pc'[r] = "looked" /\ pinFrame'[r] # NoFrame =>
           fpage[pinFrame'[r]] = pinPage'[r]
    BY DEF IndInv, TypeOK, PinType
  <2>3. \A g1 \in GuardIds : guardFrame'[r][g1] # NoFrame =>
           fpage[guardFrame'[r][g1]] = guardPage'[r][g1]
    BY DEF IndInv, ProtectInv
  <2>4. \A q \in Readers \ {r} :
           /\ localEpoch'[q] = localEpoch[q]
           /\ guardFrame'[q] = guardFrame[q] /\ guardPage'[q] = guardPage[q]
           /\ pc'[q] = pc[q] /\ pinFrame'[q] = pinFrame[q] /\ pinPage'[q] = pinPage[q]
    BY DEF PinType
  <2> QED  BY <1>1, <2>1, <2>2, <2>3, <2>4, ReaderKeepsProtect
<1> QED
  BY <1>1, <1>2, <1>3, <1>4, <1>5, <1>6, <1>7, ReaderKeepsShared DEF IndInv, TypeOK

\* A hint taken under a guard protects nothing beyond it.
LEMMA HintForGuardInd ==
  ASSUME IndInv, NEW r \in Readers, NEW g \in GuardIds, HintForGuard(r, g)
  PROVE  IndInv'
<1> USE ReadersAssumption, PeakAssumption, BoundsAssumption, FramesAssumption
<1> USE DEF HintForGuard, TakeHint, registryVars, guardVars, pinVars, hintVars
<1>1. UNCHANGED sharedVars
  BY DEF sharedVars
<1>2. (RegistryType /\ GuardType /\ PinType /\ HintType)'
  <2>1. RegistryType'
    BY DEF IndInv, TypeOK, RegistryType, GuardType, PinType, HintType, ControlType, FrameType, PcStates, QUIESCENT
  <2>2. GuardType'
    BY DEF IndInv, TypeOK, RegistryType, GuardType, PinType, HintType, ControlType, FrameType, PcStates, QUIESCENT
  <2>3. PinType'
    BY DEF IndInv, TypeOK, RegistryType, GuardType, PinType, HintType, ControlType, FrameType, PcStates, QUIESCENT
  <2>4. HintType'
    BY DEF IndInv, TypeOK, RegistryType, GuardType, PinType, HintType, ControlType, FrameType, PcStates, QUIESCENT
  <2> QED  BY <2>1, <2>2, <2>3, <2>4
<1>3. CountInv'
  BY DEF IndInv, CountInv, LiveGuards
<1>4. ReaderInv'
  BY DEF IndInv, ReaderInv
<1>5. EpochMatchesGuards'
  BY DEF IndInv, RegistryType, PinType, ControlType, ReaderInv, EpochMatchesGuards,
         QUIESCENT
<1>6. LocalNeverAhead'
  BY DEF IndInv, TypeOK, RegistryType, LocalNeverAhead
<1>7. ProtectInv'
  <2>1. \A f \in Frames : Protects(r, f)' =>
           \/ fstate[f] = "Resident"
           \/ Protects(r, f) /\ localEpoch'[r] = localEpoch[r]
    BY DEF GuardType, PinType, ControlType, HintType, Protects
  <2>2. pc'[r] = "looked" /\ pinFrame'[r] # NoFrame =>
           fpage[pinFrame'[r]] = pinPage'[r]
    BY DEF ReaderInv, FrameInv, MappingInv, QueueInv, LockInv, ProtectInv
  <2>3. \A g1 \in GuardIds : guardFrame'[r][g1] # NoFrame =>
           fpage[guardFrame'[r][g1]] = guardPage'[r][g1]
    BY DEF IndInv, ProtectInv
  <2>4. \A q \in Readers \ {r} :
           /\ localEpoch'[q] = localEpoch[q]
           /\ guardFrame'[q] = guardFrame[q] /\ guardPage'[q] = guardPage[q]
           /\ pc'[q] = pc[q] /\ pinFrame'[q] = pinFrame[q] /\ pinPage'[q] = pinPage[q]
    BY DEF GuardType, PinType
  <2> QED  BY <1>1, <2>1, <2>2, <2>3, <2>4, ReaderKeepsProtect
<1> QED
  BY <1>1, <1>2, <1>3, <1>4, <1>5, <1>6, <1>7, ReaderKeepsShared DEF IndInv, TypeOK

\* Committing turns the begun pin's frame into a guard of the same reader, at
\* the epoch already published.
LEMMA CommitPinInd ==
  ASSUME IndInv, NEW r \in Readers, CommitPin(r)
  PROVE  IndInv'
<1> USE ReadersAssumption, PeakAssumption, BoundsAssumption, FramesAssumption
<1> USE DEF EndCall
<1>1. PICK g \in GuardIds :
        /\ guardFrame[r][g] = NoFrame
        /\ guardFrame' = [guardFrame EXCEPT ![r][g] = pinFrame[r]]
        /\ guardPage' = [guardPage EXCEPT ![r][g] = pinPage[r]]
  BY DEF CommitPin
<1>2. UNCHANGED sharedVars
  BY DEF CommitPin, sharedVars
<1>3. guardCount[r] < PeakGuards /\ pinFrame[r] \in Frames
  BY DEF CommitPin, IndInv, TypeOK, PinType, ReaderInv
<1>4. (RegistryType /\ GuardType /\ PinType /\ HintType)'
  <2>1. RegistryType' /\ HintType'
    BY <1>3 DEF CommitPin, IndInv, TypeOK, RegistryType, HintType, hintVars
  <2>2. GuardType'
    BY <1>1 DEF IndInv, TypeOK, GuardType, PinType
  <2>3. PinType'
    BY DEF CommitPin, IndInv, TypeOK, PinType, PcStates
  <2> QED  BY <2>1, <2>2, <2>3
<1>5. CountInv'
  <2>1. LiveGuards(r)' = LiveGuards(r) \cup {g}
    BY <1>1, <1>3 DEF LiveGuards, IndInv, TypeOK, GuardType
  <2>2. g \notin LiveGuards(r)
    BY <1>1 DEF LiveGuards
  <2>3. IsFiniteSet(LiveGuards(r))
    BY LiveGuardsFinite
  <2>4. Cardinality(LiveGuards(r)') = Cardinality(LiveGuards(r)) + 1
    BY <2>1, <2>2, <2>3, FS_AddElement
  <2>5. \A q \in Readers \ {r} : LiveGuards(q)' = LiveGuards(q)
    BY <1>1 DEF LiveGuards
  <2> QED
    BY <2>4, <2>5 DEF CommitPin, CountInv, IndInv, TypeOK, RegistryType
<1>6. ReaderInv'
  BY DEF CommitPin, IndInv, TypeOK, PinType, ReaderInv, hintVars
<1>7. EpochMatchesGuards'
  BY DEF CommitPin, IndInv, TypeOK, RegistryType, EpochMatchesGuards
<1>8. LocalNeverAhead'
  BY DEF CommitPin, IndInv, LocalNeverAhead
<1>9. ProtectInv'
  <2>1. \A f \in Frames : Protects(r, f)' =>
          \/ fstate[f] = "Resident"
          \/ Protects(r, f) /\ localEpoch'[r] = localEpoch[r]
    BY <1>1 DEF CommitPin, GuardType, Protects
  <2>2. pc'[r] = "looked" /\ pinFrame'[r] # NoFrame =>
          fpage[pinFrame'[r]] = pinPage'[r]
    BY DEF CommitPin, IndInv, TypeOK, PinType
  <2>3. fpage[pinFrame[r]] = pinPage[r]
    BY <1>3 DEF CommitPin, IndInv, ProtectInv
  <2>4. \A g1 \in GuardIds : guardFrame'[r][g1] # NoFrame =>
          fpage[guardFrame'[r][g1]] = guardPage'[r][g1]
    BY <1>1, <2>3 DEF IndInv, TypeOK, GuardType, ProtectInv
  <2>5. \A q \in Readers \ {r} :
          /\ localEpoch'[q] = localEpoch[q]
          /\ guardFrame'[q] = guardFrame[q] /\ guardPage'[q] = guardPage[q]
          /\ pc'[q] = pc[q] /\ pinFrame'[q] = pinFrame[q] /\ pinPage'[q] = pinPage[q]
    BY <1>1 DEF CommitPin, TypeOK
  <2> QED  BY <1>2, <2>1, <2>2, <2>4, <2>5, ReaderKeepsProtect
<1> QED
  BY <1>2, <1>4, <1>5, <1>6, <1>7, <1>8, <1>9, ReaderKeepsShared DEF IndInv, TypeOK

\* Dropping a guard: the last one withdraws the epoch, and then no guard is
\* left that needed it.
LEMMA ReleaseGuardInd ==
  ASSUME IndInv, NEW r \in Readers, NEW g \in GuardIds, ReleaseGuard(r, g)
  PROVE  IndInv'
<1> USE ReadersAssumption, PeakAssumption, BoundsAssumption, FramesAssumption
<1>1. UNCHANGED sharedVars
  BY DEF ReleaseGuard, LastGuard, sharedVars
<1>2. /\ IsFiniteSet(LiveGuards(r)) /\ g \in LiveGuards(r)
      /\ LiveGuards(r)' = LiveGuards(r) \ {g}
      /\ guardCount[r] = Cardinality(LiveGuards(r))
  <2>1. IsFiniteSet(LiveGuards(r))
    BY LiveGuardsFinite
  <2>2. g \in LiveGuards(r) /\ LiveGuards(r)' = LiveGuards(r) \ {g}
    BY DEF ReleaseGuard, LiveGuards, IndInv, TypeOK, GuardType
  <2> QED  BY <2>1, <2>2 DEF IndInv, CountInv
<1>3. /\ guardCount[r] > 0
      /\ Cardinality(LiveGuards(r)') = guardCount[r] - 1
  <2>1. Cardinality(LiveGuards(r)) \in Nat /\ Cardinality(LiveGuards(r)) # 0
    BY <1>2, FS_CardinalityType, FS_EmptySet
  <2>2. Cardinality(LiveGuards(r) \ {g}) = Cardinality(LiveGuards(r)) - 1
    BY <1>2, FS_RemoveElement
  <2> QED  BY <1>2, <2>1, <2>2
<1>4. (RegistryType /\ GuardType /\ PinType /\ HintType)'
  <2>1. RegistryType'
    BY <1>3 DEF ReleaseGuard, IndInv, TypeOK, RegistryType, QUIESCENT
  <2>2. GuardType'
    BY DEF ReleaseGuard, IndInv, TypeOK, GuardType
  <2> QED
    BY <2>1, <2>2
       DEF ReleaseGuard, LastGuard, IndInv, TypeOK, PinType, HintType, pinVars, hintVars
<1>5. CountInv'
  <2>1. \A q \in Readers \ {r} : LiveGuards(q)' = LiveGuards(q)
    BY DEF ReleaseGuard, LiveGuards
  <2> QED
    BY <1>3, <2>1 DEF ReleaseGuard, CountInv, IndInv, TypeOK, RegistryType
<1>6. ReaderInv'
  BY DEF ReleaseGuard, IndInv, ReaderInv, pinVars, hintVars
<1>7. EpochMatchesGuards'
  BY <1>3
     DEF ReleaseGuard, LastGuard, IndInv, TypeOK, RegistryType, EpochMatchesGuards,
         pinVars
<1>8. LocalNeverAhead'
  BY DEF ReleaseGuard, IndInv, LocalNeverAhead
<1>9. ProtectInv'
  <2>1. guardCount[r] = 1 => \A g1 \in GuardIds : guardFrame'[r][g1] = NoFrame
    <3>1. guardCount[r] = 1 => LiveGuards(r)' = {}
      BY <1>2, <1>3, FS_RemoveElement, FS_EmptySet
    <3> QED  BY <3>1 DEF LiveGuards
  <2>2. \A f \in Frames : Protects(r, f)' =>
          \/ fstate[f] = "Resident"
          \/ Protects(r, f) /\ localEpoch'[r] = localEpoch[r]
    BY <2>1 DEF ReleaseGuard, LastGuard, IndInv, Protects, pinVars
  <2>3. pc'[r] = "looked" /\ pinFrame'[r] # NoFrame =>
          fpage[pinFrame'[r]] = pinPage'[r]
    BY DEF ReleaseGuard, pinVars
  <2>4. \A g1 \in GuardIds : guardFrame'[r][g1] # NoFrame =>
          fpage[guardFrame'[r][g1]] = guardPage'[r][g1]
    BY DEF ReleaseGuard, IndInv, TypeOK, GuardType, ProtectInv
  <2>5. \A q \in Readers \ {r} :
          /\ localEpoch'[q] = localEpoch[q]
          /\ guardFrame'[q] = guardFrame[q] /\ guardPage'[q] = guardPage[q]
          /\ pc'[q] = pc[q] /\ pinFrame'[q] = pinFrame[q] /\ pinPage'[q] = pinPage[q]
    BY DEF ReleaseGuard, LastGuard, pinVars
  <2> QED  BY <1>1, <2>2, <2>3, <2>4, <2>5, ReaderKeepsProtect
<1> QED
  BY <1>1, <1>4, <1>5, <1>6, <1>7, <1>8, <1>9, ReaderKeepsShared DEF IndInv, TypeOK
=============================================================================
