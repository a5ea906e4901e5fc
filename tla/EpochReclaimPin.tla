--------------------------- MODULE EpochReclaimPin --------------------------
(***************************************************************************)
(* The steps with which a reader registers, starts a get and looks its   *)
(* page up preserve the inductive invariant of EpochReclaim.               *)
(***************************************************************************)
EXTENDS EpochReclaimLemmas

\* A slot that is taken has no guard and no epoch.
LEMMA RegisterInd ==
  ASSUME IndInv, NEW r \in Readers, Register(r)
  PROVE  IndInv'
<1> USE ReadersAssumption, PeakAssumption, BoundsAssumption, FramesAssumption
<1> USE DEF Register, registryVars, guardVars, pinVars, hintVars
<1>1. UNCHANGED sharedVars
  BY DEF sharedVars
<1>2. (RegistryType /\ GuardType /\ PinType /\ HintType)'
  BY DEF IndInv, TypeOK, RegistryType, GuardType, PinType, HintType
<1>3. CountInv'
  BY DEF IndInv, CountInv, LiveGuards
<1>4. ReaderInv'
  BY DEF IndInv, ReaderInv
<1>5. EpochMatchesGuards'
  BY DEF IndInv, EpochMatchesGuards
<1>6. LocalNeverAhead'
  BY DEF IndInv, LocalNeverAhead
<1>7. ProtectInv'
  <2>1. \A f \in Frames : Protects(r, f)' =>
           \/ fstate[f] = "Resident"
           \/ Protects(r, f) /\ localEpoch'[r] = localEpoch[r]
    BY DEF Protects
  <2>2. pc'[r] = "looked" /\ pinFrame'[r] # NoFrame =>
           fpage[pinFrame'[r]] = pinPage'[r]
    BY DEF IndInv, ProtectInv
  <2>3. \A g1 \in GuardIds : guardFrame'[r][g1] # NoFrame =>
           fpage[guardFrame'[r][g1]] = guardPage'[r][g1]
    BY DEF IndInv, ProtectInv
  <2>4. \A q \in Readers \ {r} :
           /\ localEpoch'[q] = localEpoch[q]
           /\ guardFrame'[q] = guardFrame[q] /\ guardPage'[q] = guardPage[q]
           /\ pc'[q] = pc[q] /\ pinFrame'[q] = pinFrame[q] /\ pinPage'[q] = pinPage[q]
    BY DEF PinType
  <2> QED  BY <1>1, <2>1, <2>2, <2>3, <2>4, ReaderKeepsProtect
<1> QED
  BY <1>1, <1>2, <1>3, <1>4, <1>5, <1>6, <1>7, ReaderKeepsShared DEF IndInv, TypeOK

\* A vacated slot has no guard, so nothing relies on the epoch it gives up.
LEMMA VacateInd ==
  ASSUME IndInv, NEW r \in Readers, Vacate(r)
  PROVE  IndInv'
<1> USE ReadersAssumption, PeakAssumption, BoundsAssumption, FramesAssumption
<1> USE DEF Vacate, registryVars, guardVars, pinVars, hintVars
<1>1. UNCHANGED sharedVars
  BY DEF sharedVars
<1>2. (RegistryType /\ GuardType /\ PinType /\ HintType)'
  BY DEF IndInv, TypeOK, RegistryType, GuardType, PinType, HintType, QUIESCENT
<1>3. CountInv'
  BY DEF IndInv, CountInv, LiveGuards
<1>4. ReaderInv'
  BY DEF IndInv, ReaderInv
<1>5. EpochMatchesGuards'
  BY DEF IndInv, EpochMatchesGuards
<1>6. LocalNeverAhead'
  BY DEF IndInv, LocalNeverAhead
<1>7. ProtectInv'
  <2>1. \A f \in Frames : Protects(r, f)' =>
           \/ fstate[f] = "Resident"
           \/ Protects(r, f) /\ localEpoch'[r] = localEpoch[r]
    BY NoGuards DEF Protects
  <2>2. pc'[r] = "looked" /\ pinFrame'[r] # NoFrame =>
           fpage[pinFrame'[r]] = pinPage'[r]
    BY DEF ProtectInv
  <2>3. \A g1 \in GuardIds : guardFrame'[r][g1] # NoFrame =>
           fpage[guardFrame'[r][g1]] = guardPage'[r][g1]
    BY DEF IndInv, ProtectInv
  <2>4. \A q \in Readers \ {r} :
           /\ localEpoch'[q] = localEpoch[q]
           /\ guardFrame'[q] = guardFrame[q] /\ guardPage'[q] = guardPage[q]
           /\ pc'[q] = pc[q] /\ pinFrame'[q] = pinFrame[q] /\ pinPage'[q] = pinPage[q]
    BY DEF PinType
  <2> QED  BY <1>1, <2>1, <2>2, <2>3, <2>4, ReaderKeepsProtect
<1> QED
  BY <1>1, <1>2, <1>3, <1>4, <1>5, <1>6, <1>7, ReaderKeepsShared DEF IndInv, TypeOK

\* Loading the epoch publishes nothing yet.
LEMMA GetPageInd ==
  ASSUME IndInv, NEW r \in Readers, NEW p \in Pages, GetPage(r, p)
  PROVE  IndInv'
<1> USE ReadersAssumption, PeakAssumption, BoundsAssumption, FramesAssumption
<1> USE DEF GetPage, LoadEpoch, registryVars, guardVars, pinVars, hintVars
<1>1. UNCHANGED sharedVars
  BY DEF sharedVars
<1>2. (RegistryType /\ GuardType /\ PinType /\ HintType)'
  <2>1. RegistryType'
    BY DEF IndInv, TypeOK, RegistryType, GuardType, PinType, HintType, ControlType, FrameType, PcStates, QUIESCENT
  <2>2. GuardType'
    BY DEF IndInv, TypeOK, RegistryType, GuardType, PinType, HintType, ControlType, FrameType, PcStates, QUIESCENT
  <2>3. PinType'
    BY DEF IndInv, TypeOK, RegistryType, GuardType, PinType, HintType, ControlType, FrameType, PcStates, QUIESCENT
  <2>4. HintType'
    BY DEF IndInv, TypeOK, RegistryType, GuardType, PinType, HintType, ControlType, FrameType, PcStates, QUIESCENT
  <2> QED  BY <2>1, <2>2, <2>3, <2>4
<1>3. CountInv'
  BY DEF IndInv, CountInv, LiveGuards
<1>4. ReaderInv'
  BY DEF IndInv, TypeOK, PinType, ControlType, ReaderInv
<1>5. EpochMatchesGuards'
  BY DEF IndInv, EpochMatchesGuards
<1>6. LocalNeverAhead'
  BY DEF IndInv, LocalNeverAhead
<1>7. ProtectInv'
  <2>1. \A f \in Frames : Protects(r, f)' =>
           \/ fstate[f] = "Resident"
           \/ Protects(r, f) /\ localEpoch'[r] = localEpoch[r]
    BY DEF Protects
  <2>2. pc'[r] = "looked" /\ pinFrame'[r] # NoFrame =>
           fpage[pinFrame'[r]] = pinPage'[r]
    BY DEF ProtectInv
  <2>3. \A g1 \in GuardIds : guardFrame'[r][g1] # NoFrame =>
           fpage[guardFrame'[r][g1]] = guardPage'[r][g1]
    BY DEF IndInv, ProtectInv
  <2>4. \A q \in Readers \ {r} :
           /\ localEpoch'[q] = localEpoch[q]
           /\ guardFrame'[q] = guardFrame[q] /\ guardPage'[q] = guardPage[q]
           /\ pc'[q] = pc[q] /\ pinFrame'[q] = pinFrame[q] /\ pinPage'[q] = pinPage[q]
    BY DEF PinType
  <2> QED  BY <1>1, <2>1, <2>2, <2>3, <2>4, ReaderKeepsProtect
<1> QED
  BY <1>1, <1>2, <1>3, <1>4, <1>5, <1>6, <1>7, ReaderKeepsShared DEF IndInv, TypeOK

\* Loading the epoch for a hinted pin publishes nothing yet.
LEMMA GetWithHintInd ==
  ASSUME IndInv, NEW r \in Readers, GetWithHint(r)
  PROVE  IndInv'
<1> USE ReadersAssumption, PeakAssumption, BoundsAssumption, FramesAssumption
<1> USE DEF GetWithHint, LoadEpoch, registryVars, guardVars, pinVars, hintVars
<1>1. UNCHANGED sharedVars
  BY DEF sharedVars
<1>2. (RegistryType /\ GuardType /\ PinType /\ HintType)'
  <2>1. RegistryType'
    BY DEF IndInv, TypeOK, RegistryType, GuardType, PinType, HintType, ControlType, FrameType, PcStates, QUIESCENT
  <2>2. GuardType'
    BY DEF IndInv, TypeOK, RegistryType, GuardType, PinType, HintType, ControlType, FrameType, PcStates, QUIESCENT
  <2>3. PinType'
    BY DEF IndInv, TypeOK, RegistryType, GuardType, PinType, HintType, ControlType, FrameType, PcStates, QUIESCENT
  <2>4. HintType'
    BY DEF IndInv, TypeOK, RegistryType, GuardType, PinType, HintType, ControlType, FrameType, PcStates, QUIESCENT
  <2> QED  BY <2>1, <2>2, <2>3, <2>4
<1>3. CountInv'
  BY DEF IndInv, CountInv, LiveGuards
<1>4. ReaderInv'
  BY DEF IndInv, TypeOK, PinType, HintType, ControlType, ReaderInv
<1>5. EpochMatchesGuards'
  BY DEF IndInv, EpochMatchesGuards
<1>6. LocalNeverAhead'
  BY DEF IndInv, LocalNeverAhead
<1>7. ProtectInv'
  <2>1. \A f \in Frames : Protects(r, f)' =>
           \/ fstate[f] = "Resident"
           \/ Protects(r, f) /\ localEpoch'[r] = localEpoch[r]
    BY DEF Protects
  <2>2. pc'[r] = "looked" /\ pinFrame'[r] # NoFrame =>
           fpage[pinFrame'[r]] = pinPage'[r]
    BY DEF ProtectInv
  <2>3. \A g1 \in GuardIds : guardFrame'[r][g1] # NoFrame =>
           fpage[guardFrame'[r][g1]] = guardPage'[r][g1]
    BY DEF IndInv, ProtectInv
  <2>4. \A q \in Readers \ {r} :
           /\ localEpoch'[q] = localEpoch[q]
           /\ guardFrame'[q] = guardFrame[q] /\ guardPage'[q] = guardPage[q]
           /\ pc'[q] = pc[q] /\ pinFrame'[q] = pinFrame[q] /\ pinPage'[q] = pinPage[q]
    BY DEF PinType
  <2> QED  BY <1>1, <2>1, <2>2, <2>3, <2>4, ReaderKeepsProtect
<1> QED
  BY <1>1, <1>2, <1>3, <1>4, <1>5, <1>6, <1>7, ReaderKeepsShared DEF IndInv, TypeOK

\* begin_pin publishes an epoch no later than the global one; a nested pin
\* leaves the published epoch alone.
LEMMA BeginPinInd ==
  ASSUME IndInv, NEW r \in Readers, BeginPin(r)
  PROVE  IndInv'
<1> USE ReadersAssumption, PeakAssumption, BoundsAssumption, FramesAssumption
<1> USE DEF BeginPin, FirstGuard, registryVars, guardVars, pinVars, hintVars
<1>1. UNCHANGED sharedVars
  BY DEF sharedVars
<1>2. (RegistryType /\ GuardType /\ PinType /\ HintType)'
  BY DEF IndInv, TypeOK, RegistryType, GuardType, PinType, HintType, PcStates, QUIESCENT
<1>3. CountInv'
  BY DEF IndInv, CountInv, LiveGuards
<1>4. ReaderInv'
  BY DEF IndInv, TypeOK, RegistryType, PinType, ControlType, ReaderInv
<1>5. EpochMatchesGuards'
  BY DEF IndInv, TypeOK, RegistryType, PinType, EpochMatchesGuards, QUIESCENT
<1>6. LocalNeverAhead'
  BY DEF IndInv, ReaderInv, LocalNeverAhead
<1>7. ProtectInv'
  <2>1. \A f \in Frames : Protects(r, f)' =>
           \/ fstate[f] = "Resident"
           \/ Protects(r, f) /\ localEpoch'[r] = localEpoch[r]
    BY NoGuards DEF Protects
  <2>2. pc'[r] = "looked" /\ pinFrame'[r] # NoFrame =>
           fpage[pinFrame'[r]] = pinPage'[r]
    BY DEF ProtectInv
  <2>3. \A g1 \in GuardIds : guardFrame'[r][g1] # NoFrame =>
           fpage[guardFrame'[r][g1]] = guardPage'[r][g1]
    BY DEF IndInv, ProtectInv
  <2>4. \A q \in Readers \ {r} :
           /\ localEpoch'[q] = localEpoch[q]
           /\ guardFrame'[q] = guardFrame[q] /\ guardPage'[q] = guardPage[q]
           /\ pc'[q] = pc[q] /\ pinFrame'[q] = pinFrame[q] /\ pinPage'[q] = pinPage[q]
    BY DEF PinType
  <2> QED  BY <1>1, <2>1, <2>2, <2>3, <2>4, ReaderKeepsProtect
<1> QED
  BY <1>1, <1>2, <1>3, <1>4, <1>5, <1>6, <1>7, ReaderKeepsShared DEF IndInv, TypeOK

\* A lookup finds a resident frame, which no drain can reach.
LEMMA LookupInd ==
  ASSUME IndInv, NEW r \in Readers, Lookup(r)
  PROVE  IndInv'
<1> USE ReadersAssumption, PeakAssumption, BoundsAssumption, FramesAssumption
<1> USE DEF Lookup, registryVars, guardVars, pinVars, hintVars
<1>1. UNCHANGED sharedVars
  BY DEF sharedVars
<1>2. (RegistryType /\ GuardType /\ PinType /\ HintType)'
  BY DEF IndInv, TypeOK, RegistryType, GuardType, PinType, HintType, ControlType,
         ReaderInv, PcStates
<1>3. CountInv'
  BY DEF IndInv, CountInv, LiveGuards
<1>4. ReaderInv'
  BY DEF IndInv, ReaderInv
<1>5. EpochMatchesGuards'
  BY DEF IndInv, EpochMatchesGuards
<1>6. LocalNeverAhead'
  BY DEF IndInv, LocalNeverAhead
<1>7. ProtectInv'
  <2>1. \A f \in Frames : Protects(r, f)' =>
           \/ fstate[f] = "Resident"
           \/ Protects(r, f) /\ localEpoch'[r] = localEpoch[r]
    BY DEF IndInv, TypeOK, PinType, ControlType, ReaderInv, FrameInv, MappingInv, Protects
  <2>2. pc'[r] = "looked" /\ pinFrame'[r] # NoFrame =>
           fpage[pinFrame'[r]] = pinPage'[r]
    BY DEF IndInv, TypeOK, PinType, ReaderInv, FrameInv, MappingInv
  <2>3. \A g1 \in GuardIds : guardFrame'[r][g1] # NoFrame =>
           fpage[guardFrame'[r][g1]] = guardPage'[r][g1]
    BY DEF IndInv, ProtectInv
  <2>4. \A q \in Readers \ {r} :
           /\ localEpoch'[q] = localEpoch[q]
           /\ guardFrame'[q] = guardFrame[q] /\ guardPage'[q] = guardPage[q]
           /\ pc'[q] = pc[q] /\ pinFrame'[q] = pinFrame[q] /\ pinPage'[q] = pinPage[q]
    BY DEF PinType
  <2> QED  BY <1>1, <2>1, <2>2, <2>3, <2>4, ReaderKeepsProtect
<1> QED
  BY <1>1, <1>2, <1>3, <1>4, <1>5, <1>6, <1>7, ReaderKeepsShared DEF IndInv, TypeOK

\* A word that matches is that of a resident frame.
LEMMA ValidateWordInd ==
  ASSUME IndInv, NEW r \in Readers, ValidateWord(r)
  PROVE  IndInv'
<1> USE ReadersAssumption, PeakAssumption, BoundsAssumption, FramesAssumption
<1> USE DEF ValidateWord, WordMatches, registryVars, guardVars, pinVars, hintVars
<1>1. UNCHANGED sharedVars
  BY DEF sharedVars
<1>2. (RegistryType /\ GuardType /\ PinType /\ HintType)'
  BY DEF IndInv, TypeOK, RegistryType, GuardType, PinType, HintType, PcStates
<1>3. CountInv'
  BY DEF IndInv, CountInv, LiveGuards
<1>4. ReaderInv'
  BY DEF IndInv, TypeOK, PinType, ReaderInv
<1>5. EpochMatchesGuards'
  BY DEF IndInv, EpochMatchesGuards
<1>6. LocalNeverAhead'
  BY DEF IndInv, LocalNeverAhead
<1>7. ProtectInv'
  <2>1. \A f \in Frames : Protects(r, f)' =>
           \/ fstate[f] = "Resident"
           \/ Protects(r, f) /\ localEpoch'[r] = localEpoch[r]
    BY DEF IndInv, TypeOK, PinType, Protects
  <2>2. pc'[r] = "looked" /\ pinFrame'[r] # NoFrame =>
           fpage[pinFrame'[r]] = pinPage'[r]
    BY DEF IndInv, TypeOK, PinType
  <2>3. \A g1 \in GuardIds : guardFrame'[r][g1] # NoFrame =>
           fpage[guardFrame'[r][g1]] = guardPage'[r][g1]
    BY DEF IndInv, ProtectInv
  <2>4. \A q \in Readers \ {r} :
           /\ localEpoch'[q] = localEpoch[q]
           /\ guardFrame'[q] = guardFrame[q] /\ guardPage'[q] = guardPage[q]
           /\ pc'[q] = pc[q] /\ pinFrame'[q] = pinFrame[q] /\ pinPage'[q] = pinPage[q]
    BY DEF PinType
  <2> QED  BY <1>1, <2>1, <2>2, <2>3, <2>4, ReaderKeepsProtect
<1> QED
  BY <1>1, <1>2, <1>3, <1>4, <1>5, <1>6, <1>7, ReaderKeepsShared DEF IndInv, TypeOK

\* The identity read keeps the frame only if it is the page asked for.
LEMMA ReadIdentityInd ==
  ASSUME IndInv, NEW r \in Readers, ReadIdentity(r)
  PROVE  IndInv'
<1> USE ReadersAssumption, PeakAssumption, BoundsAssumption, FramesAssumption
<1> USE DEF ReadIdentity, registryVars, guardVars, pinVars, hintVars
<1>1. UNCHANGED sharedVars
  BY DEF sharedVars
<1>2. (RegistryType /\ GuardType /\ PinType /\ HintType)'
  BY DEF IndInv, TypeOK, RegistryType, GuardType, PinType, HintType, PcStates
<1>3. CountInv'
  BY DEF IndInv, CountInv, LiveGuards
<1>4. ReaderInv'
  BY DEF IndInv, TypeOK, PinType, ReaderInv
<1>5. EpochMatchesGuards'
  BY DEF IndInv, EpochMatchesGuards
<1>6. LocalNeverAhead'
  BY DEF IndInv, LocalNeverAhead
<1>7. ProtectInv'
  <2>1. \A f \in Frames : Protects(r, f)' =>
           \/ fstate[f] = "Resident"
           \/ Protects(r, f) /\ localEpoch'[r] = localEpoch[r]
    BY DEF Protects
  <2>2. pc'[r] = "looked" /\ pinFrame'[r] # NoFrame =>
           fpage[pinFrame'[r]] = pinPage'[r]
    BY DEF IndInv, TypeOK, PinType
  <2>3. \A g1 \in GuardIds : guardFrame'[r][g1] # NoFrame =>
           fpage[guardFrame'[r][g1]] = guardPage'[r][g1]
    BY DEF IndInv, ProtectInv
  <2>4. \A q \in Readers \ {r} :
           /\ localEpoch'[q] = localEpoch[q]
           /\ guardFrame'[q] = guardFrame[q] /\ guardPage'[q] = guardPage[q]
           /\ pc'[q] = pc[q] /\ pinFrame'[q] = pinFrame[q] /\ pinPage'[q] = pinPage[q]
    BY DEF PinType
  <2> QED  BY <1>1, <2>1, <2>2, <2>3, <2>4, ReaderKeepsProtect
<1> QED
  BY <1>1, <1>2, <1>3, <1>4, <1>5, <1>6, <1>7, ReaderKeepsShared DEF IndInv, TypeOK
=============================================================================
