------------------------- MODULE EpochReclaimControl ------------------------
(***************************************************************************)
(* The steps of the control-lock holder (claim, publish, abort, evict,     *)
(* advance the epoch, reclaim) preserve the inductive invariant of         *)
(* EpochReclaim.                                                           *)
(***************************************************************************)
EXTENDS EpochReclaimLemmas

\* Which frames a reader relies on depends on the reader alone.
LEMMA ControlKeepsProtects ==
  ASSUME UNCHANGED readerVars, NEW r \in Readers, NEW f \in Frames
  PROVE  Protects(r, f)' <=> Protects(r, f)
BY DEF Protects, readerVars, guardVars, pinVars

\* The protection invariant survives a step of the lock holder that keeps the
\* queue, the epoch, and the identity and publication of every frame some
\* reader relies on, and has not just counted a reader as scanned.
LEMMA ControlKeepsProtect ==
  ASSUME IndInv, UNCHANGED readerVars, UNCHANGED <<globalEpoch, evictQueue>>,
         ctl' = "scan" => (ctl = "scan" /\ scanned' = scanned) \/ scanned' = 0,
         \A r \in Readers, f \in Frames : Protects(r, f) =>
           Published(f)' /\ fpage'[f] = fpage[f]
  PROVE  ProtectInv'
<1> USE ControlKeepsProtects
<1>1. ASSUME NEW r \in Readers, NEW f \in Frames, Protects(r, f)'
      PROVE  /\ Published(f)'
             /\ \A i \in 1 .. Len(evictQueue') : evictQueue'[i].frame = f =>
                  /\ localEpoch'[r] <= evictQueue'[i].tag
                  /\ globalEpoch' <= evictQueue'[i].tag + 1
                  /\ ctl' = "scan" /\ r <= scanned' => globalEpoch' <= evictQueue'[i].tag
  BY <1>1 DEF IndInv, ProtectInv, readerVars, registryVars, Readers
<1>2. \A r \in Readers, g \in GuardIds : guardFrame'[r][g] # NoFrame =>
        fpage'[guardFrame'[r][g]] = guardPage'[r][g]
  BY DEF IndInv, TypeOK, GuardType, ProtectInv, Protects, readerVars, guardVars
<1>3. \A r \in Readers : pc'[r] = "looked" /\ pinFrame'[r] # NoFrame =>
        fpage'[pinFrame'[r]] = pinPage'[r]
  BY DEF IndInv, TypeOK, PinType, ProtectInv, Protects, readerVars, pinVars
<1> QED  BY <1>1, <1>2, <1>3 DEF ProtectInv

\* Queue entries pair frames with epochs.
LEMMA QueueEntries ==
  ASSUME IndInv
  PROVE  /\ Len(evictQueue) \in Nat
         /\ \A i \in 1 .. Len(evictQueue) :
              evictQueue[i].frame \in Frames /\ evictQueue[i].tag \in Nat
<1>1. evictQueue \in Seq(EvictEntry)
  BY DEF IndInv, TypeOK, ControlType
<1>2. \A i \in 1 .. Len(evictQueue) : evictQueue[i] \in EvictEntry
  BY <1>1
<1>3. \A e \in EvictEntry : e.frame \in Frames /\ e.tag \in Nat
  BY BoundsAssumption DEF EvictEntry
<1> QED  BY <1>1, <1>2, <1>3

\* A free frame is relied on by nobody, so its bytes may go.
LEMMA ClaimInd ==
  ASSUME IndInv, NEW f \in Frames, NEW p \in Pages, Claim(f, p)
  PROVE  IndInv'
<1> USE BoundsAssumption, FramesAssumption DEF Claim, ctlVars
<1>1. FrameType' /\ ControlType'
  BY DEF IndInv, TypeOK, FrameType, ControlType
<1>2. FrameInv'
  <2>1. BytesInv'
    BY DEF IndInv, TypeOK, FrameType, FrameInv, BytesInv, Published
  <2>2. MappingInv'
    BY DEF IndInv, FrameInv, MappingInv
  <2>3. QueueInv'
    BY QueueEntries DEF IndInv, FrameInv, QueueInv
  <2>4. LockInv'
    BY DEF IndInv, FrameInv, LockInv
  <2> QED  BY <2>1, <2>2, <2>3, <2>4 DEF FrameInv
<1>3. ProtectInv'
  <2>1. \A r \in Readers, f1 \in Frames : Protects(r, f1) =>
          Published(f1)' /\ fpage'[f1] = fpage[f1]
    BY DEF IndInv, ProtectInv, Published
  <2> QED  BY <2>1, ControlKeepsProtect
<1> QED
  BY <1>1, <1>2, <1>3, ControlKeepsReaders DEF IndInv, TypeOK, ControlType

\* A published read maps its page to the frame it filled.
LEMMA PublishInd ==
  ASSUME IndInv, NEW f \in Frames, Publish(f)
  PROVE  IndInv'
<1> USE BoundsAssumption, FramesAssumption DEF Publish, ctlVars
<1>0. fpage[f] \in Pages
  BY DEF IndInv, FrameInv, BytesInv
<1>1. FrameType' /\ ControlType'
  BY <1>0 DEF IndInv, TypeOK, FrameType, ControlType
<1>2. FrameInv'
  <2>1. BytesInv'
    BY <1>0 DEF IndInv, TypeOK, FrameType, FrameInv, BytesInv, Published
  <2>2. MappingInv'
    BY <1>0 DEF IndInv, TypeOK, FrameType, FrameInv, MappingInv
  <2>3. QueueInv'
    BY QueueEntries DEF IndInv, TypeOK, FrameInv, QueueInv
  <2>4. LockInv'
    BY DEF IndInv, FrameInv, LockInv
  <2> QED  BY <2>1, <2>2, <2>3, <2>4 DEF FrameInv
<1>3. ProtectInv'
  <2>1. \A r \in Readers, f1 \in Frames : Protects(r, f1) =>
          Published(f1)' /\ fpage'[f1] = fpage[f1]
    BY DEF IndInv, ProtectInv, Published
  <2> QED  BY <2>1, ControlKeepsProtect
<1> QED
  BY <1>1, <1>2, <1>3, ControlKeepsReaders DEF IndInv, TypeOK, ControlType

\* A failed read frees a frame nobody relies on.
LEMMA AbortReadInd ==
  ASSUME IndInv, NEW f \in Frames, AbortRead(f)
  PROVE  IndInv'
<1> USE BoundsAssumption, FramesAssumption DEF AbortRead, ctlVars
<1>1. FrameType' /\ ControlType'
  BY DEF IndInv, TypeOK, FrameType, ControlType
<1>2. FrameInv'
  <2>1. BytesInv'
    BY DEF IndInv, FrameType, FrameInv, BytesInv, Published
  <2>2. MappingInv'
    BY DEF IndInv, FrameInv, MappingInv
  <2>3. QueueInv'
    BY QueueEntries DEF IndInv, FrameInv, QueueInv
  <2>4. LockInv'
    BY DEF IndInv, FrameInv, LockInv
  <2> QED  BY <2>1, <2>2, <2>3, <2>4 DEF FrameInv
<1>3. ProtectInv'
  <2>1. \A r \in Readers, f1 \in Frames : Protects(r, f1) =>
          Published(f1)' /\ fpage'[f1] = fpage[f1]
    BY DEF IndInv, ProtectInv, Published
  <2> QED  BY <2>1, ControlKeepsProtect
<1> QED
  BY <1>1, <1>2, <1>3, ControlKeepsReaders DEF IndInv, TypeOK, ControlType

\* A frame that loses its mapping stays resident until it is queued.
LEMMA UnmapInd ==
  ASSUME IndInv, NEW f \in Frames, Unmap(f)
  PROVE  IndInv'
<1> USE BoundsAssumption, FramesAssumption DEF Unmap, frameVars
<1>0. fpage[f] \in Pages
  BY DEF IndInv, FrameInv, BytesInv, MappingInv
<1>1. FrameType' /\ ControlType'
  BY <1>0 DEF IndInv, TypeOK, FrameType, ControlType
<1>2. FrameInv'
  BY <1>0
     DEF IndInv, TypeOK, ControlType, FrameInv, BytesInv, MappingInv, QueueInv, LockInv,
         Published
<1>3. ProtectInv'
  <2>1. \A r \in Readers, f1 \in Frames : Protects(r, f1) =>
          Published(f1)' /\ fpage'[f1] = fpage[f1]
    BY DEF IndInv, ProtectInv, Published
  <2> QED  BY <2>1, ControlKeepsProtect
<1> QED
  BY <1>1, <1>2, <1>3, ControlKeepsReaders DEF IndInv, TypeOK, ControlType

\* The victim is tagged with the current epoch: no reader relying on it has
\* published a later one, and no advance is under way.
LEMMA EnqueueInd ==
  ASSUME IndInv, Enqueue
  PROVE  IndInv'
<1> USE BoundsAssumption, FramesAssumption DEF Enqueue
<1> DEFINE entry == [frame |-> victim, tag |-> globalEpoch]
<1>0. victim \in Frames /\ fstate[victim] = "Resident" /\ entry \in EvictEntry
  BY DEF IndInv, TypeOK, ControlType, FrameInv, BytesInv, MappingInv, LockInv, EvictEntry
<1>1. /\ Len(evictQueue') = Len(evictQueue) + 1
      /\ Len(evictQueue) \in Nat
      /\ \A i \in 1 .. Len(evictQueue) : evictQueue'[i] = evictQueue[i]
      /\ evictQueue'[Len(evictQueue) + 1] = entry
      /\ evictQueue' \in Seq(EvictEntry)
      /\ \A i \in 1 .. Len(evictQueue) : evictQueue[i] \in EvictEntry
  BY <1>0 DEF IndInv, TypeOK, ControlType
<1>2. FrameType' /\ ControlType'
  BY <1>0, <1>1 DEF IndInv, TypeOK, FrameType, ControlType
<1>3. FrameInv'
  <2>1. \A f \in Frames :
          /\ fstate'[f] # "Free" => fpage'[f] \in Pages
          /\ Published(f)' => content'[f] = fpage'[f]
    BY <1>0 DEF IndInv, TypeOK, FrameInv, BytesInv, QueueInv, LockInv, Published
  <2>2. \A p \in Pages : table'[p] # NoFrame =>
          fstate'[table'[p]] = "Resident" /\ fpage'[table'[p]] = p
    BY <1>0 DEF IndInv, ControlType, FrameInv, BytesInv, MappingInv, LockInv
  <2>3. \A i \in 1 .. Len(evictQueue') :
          fstate'[evictQueue'[i].frame] = "Evicting" /\ evictQueue'[i].tag <= globalEpoch'
    BY <1>0, <1>1 DEF IndInv, TypeOK, FrameType, ControlType, FrameInv, BytesInv, MappingInv, QueueInv, LockInv, EvictEntry
  <2>4. \A i, j \in 1 .. Len(evictQueue') :
          i < j => /\ evictQueue'[i].frame # evictQueue'[j].frame
                   /\ evictQueue'[i].tag <= evictQueue'[j].tag
    <3> TAKE i, j \in 1 .. Len(evictQueue')
    <3>1. CASE j = Len(evictQueue) + 1
      BY <1>0, <1>1, <3>1 DEF IndInv, FrameInv, BytesInv, QueueInv, LockInv
    <3>2. CASE j # Len(evictQueue) + 1
      BY <1>1, <3>2 DEF IndInv, FrameInv, BytesInv, QueueInv, LockInv
    <3> QED  BY <3>1, <3>2
  <2> QED  BY <2>1, <2>2, <2>3, <2>4 DEF FrameInv, BytesInv, MappingInv, QueueInv, LockInv
<1>4. ProtectInv'
  <2>1. ASSUME NEW r \in Readers, NEW f \in Frames, Protects(r, f)
        PROVE  /\ Published(f)'
               /\ \A i \in 1 .. Len(evictQueue') : evictQueue'[i].frame = f =>
                    /\ localEpoch[r] <= evictQueue'[i].tag
                    /\ globalEpoch <= evictQueue'[i].tag + 1
    <3>1. Published(f)'
      BY <1>0, <2>1 DEF IndInv, FrameType, ProtectInv, Published
    <3>2. localEpoch[r] <= globalEpoch
      BY <2>1, ProtectorIsActive DEF IndInv, LocalNeverAhead
    <3> QED  BY <1>0, <1>1, <2>1, <3>1, <3>2 DEF IndInv, TypeOK, ControlType, ProtectInv
  <2> QED
    BY <2>1, ControlKeepsProtects
       DEF IndInv, ProtectInv, readerVars, registryVars, guardVars, pinVars
<1> QED
  BY <1>2, <1>3, <1>4, ControlKeepsReaders DEF IndInv, TypeOK, ControlType

\* The scan starts with no slot read.
LEMMA BeginAdvanceInd ==
  ASSUME IndInv, BeginAdvance
  PROVE  IndInv'
<1> USE ReadersAssumption, BoundsAssumption DEF BeginAdvance
<1>1. FrameType' /\ ControlType'
  BY DEF IndInv, TypeOK, FrameType, ControlType, frameVars
<1>2. FrameInv'
  BY DEF IndInv, FrameInv, BytesInv, MappingInv, QueueInv, LockInv, Published, frameVars
<1>3. ProtectInv'
  <2>1. \A r \in Readers, f \in Frames : Protects(r, f) =>
          Published(f)' /\ fpage'[f] = fpage[f]
    BY DEF IndInv, ProtectInv, Published, frameVars
  <2> QED  BY <2>1, ControlKeepsProtect
<1> QED
  BY <1>1, <1>2, <1>3, ControlKeepsReaders DEF IndInv, TypeOK, ControlType

\* A slot that permits the advance while its reader relies on an evicted frame
\* sits at the global epoch, which is therefore at most that frame's tag.
LEMMA ScanSlotInd ==
  ASSUME IndInv, ScanSlot
  PROVE  IndInv'
<1> USE ReadersAssumption, BoundsAssumption DEF ScanSlot
<1>1. FrameType' /\ ControlType'
  BY DEF IndInv, TypeOK, FrameType, ControlType, frameVars
<1>2. FrameInv'
  BY DEF IndInv, FrameInv, BytesInv, MappingInv, QueueInv, LockInv, Published, frameVars
<1>3. ProtectInv'
  <2>1. ASSUME NEW r \in Readers, NEW f \in Frames, Protects(r, f),
               NEW i \in 1 .. Len(evictQueue), evictQueue[i].frame = f,
               ctl' = "scan", r <= scanned'
        PROVE  globalEpoch <= evictQueue[i].tag
    <3>0. scanned \in Nat /\ scanned' = scanned + 1 /\ PermitsAdvance(scanned + 1)
      BY <2>1 DEF IndInv, TypeOK, ControlType
    <3>1. CASE r <= scanned
      BY <2>1, <3>1 DEF IndInv, ProtectInv
    <3>2. CASE r = scanned + 1
      <4>1. localEpoch[r] = globalEpoch
        BY <2>1, <3>0, <3>2, ProtectorIsActive DEF PermitsAdvance
      <4> QED  BY <2>1, <4>1 DEF IndInv, ProtectInv
    <3> QED  BY <2>1, <3>0, <3>1, <3>2 DEF Readers
  <2>2. ASSUME NEW r \in Readers, NEW f \in Frames, Protects(r, f)'
        PROVE  /\ Published(f)'
               /\ \A i \in 1 .. Len(evictQueue') : evictQueue'[i].frame = f =>
                    /\ localEpoch'[r] <= evictQueue'[i].tag
                    /\ globalEpoch' <= evictQueue'[i].tag + 1
                    /\ ctl' = "scan" /\ r <= scanned' => globalEpoch' <= evictQueue'[i].tag
    <3>1. Protects(r, f)
      BY <2>2, ControlKeepsProtects
    <3> QED
      BY <2>1, <3>1 DEF IndInv, ProtectInv, Published, frameVars, readerVars, registryVars
  <2> QED
    BY <2>2 DEF IndInv, ProtectInv, frameVars, readerVars, guardVars, pinVars
<1> QED
  BY <1>1, <1>2, <1>3, ControlKeepsReaders DEF IndInv, TypeOK, ControlType

\* The store follows a scan of every slot, so each frame still relied on has a
\* tag no less than the epoch left behind.
LEMMA StoreEpochInd ==
  ASSUME IndInv, StoreEpoch
  PROVE  IndInv'
<1> USE ReadersAssumption, BoundsAssumption DEF StoreEpoch
<1>0. globalEpoch \in Nat /\ globalEpoch < MaxEpoch /\ evictQueue \in Seq(EvictEntry)
  BY DEF IndInv, TypeOK, ControlType, FrameInv, LockInv
<1>1. FrameType' /\ ControlType'
  BY <1>0 DEF IndInv, TypeOK, FrameType, ControlType, frameVars
<1>2. FrameInv'
  <2>1. BytesInv' /\ MappingInv' /\ LockInv'
    BY DEF IndInv, FrameInv, BytesInv, MappingInv, LockInv, Published, frameVars
  <2>2. QueueInv'
    BY <1>0, QueueEntries DEF IndInv, FrameInv, QueueInv, frameVars
  <2> QED  BY <2>1, <2>2 DEF FrameInv
<1>3. ProtectInv'
  <2>1. ASSUME NEW r \in Readers, NEW f \in Frames, Protects(r, f)'
        PROVE  /\ Published(f)'
               /\ \A i \in 1 .. Len(evictQueue') : evictQueue'[i].frame = f =>
                    /\ localEpoch'[r] <= evictQueue'[i].tag
                    /\ globalEpoch' <= evictQueue'[i].tag + 1
                    /\ ctl' = "scan" /\ r <= scanned' => globalEpoch' <= evictQueue'[i].tag
    <3>1. Protects(r, f)
      BY <2>1, ControlKeepsProtects
    <3>2. r <= scanned
      BY DEF Readers
    <3>3. \A i \in 1 .. Len(evictQueue) : evictQueue[i].tag \in Nat
      BY QueueEntries
    <3> QED
      BY <1>0, <3>1, <3>2, <3>3
         DEF IndInv, ProtectInv, Published, frameVars, readerVars, registryVars
  <2> QED
    BY <2>1 DEF IndInv, ProtectInv, frameVars, readerVars, guardVars, pinVars
<1> QED
  BY <1>0, <1>1, <1>2, <1>3, ControlKeepsReaders DEF IndInv, TypeOK, ControlType

\* A matured frame is relied on by nobody: the epoch is two past its tag.
LEMMA DrainMaturedInd ==
  ASSUME IndInv, DrainMatured
  PROVE  IndInv'
<1> USE ReadersAssumption, BoundsAssumption, FramesAssumption DEF DrainMatured
<1> DEFINE head == Head(evictQueue)
<1>1. /\ evictQueue \in Seq(EvictEntry)
      /\ Len(evictQueue) \in Nat /\ Len(evictQueue) >= 1
      /\ head = evictQueue[1] /\ head \in EvictEntry
      /\ evictQueue' \in Seq(EvictEntry)
      /\ Len(evictQueue') = Len(evictQueue) - 1
      /\ \A i \in 1 .. Len(evictQueue') : evictQueue'[i] = evictQueue[i + 1]
      /\ \A i \in 1 .. Len(evictQueue) : evictQueue[i] \in EvictEntry
  BY DEF IndInv, TypeOK, ControlType
<1>2. head.frame \in Frames /\ head.tag \in Nat /\ fstate[head.frame] = "Evicting"
  BY <1>1 DEF EvictEntry, IndInv, FrameInv, QueueInv
<1>3. \A r \in Readers : ~Protects(r, head.frame)
  BY <1>1, <1>2 DEF IndInv, TypeOK, ControlType, ProtectInv, Matured
<1>4. FrameType' /\ ControlType'
  BY <1>1, <1>2 DEF IndInv, TypeOK, FrameType, ControlType, ctlVars
<1>5. FrameInv'
  <2>1. BytesInv'
    BY <1>2 DEF IndInv, FrameType, FrameInv, BytesInv, Published
  <2>2. MappingInv'
    BY <1>2 DEF IndInv, FrameType, ControlType, FrameInv, MappingInv
  <2>3. QueueInv'
    <3>1. \A i \in 1 .. Len(evictQueue') :
            /\ fstate'[evictQueue'[i].frame] = "Evicting"
            /\ evictQueue'[i].tag <= globalEpoch'
      <4> TAKE i \in 1 .. Len(evictQueue')
      <4>1. /\ i + 1 \in 1 .. Len(evictQueue) /\ 1 \in 1 .. Len(evictQueue)
            /\ 1 < i + 1 /\ evictQueue'[i] = evictQueue[i + 1]
        BY <1>1
      <4>2. evictQueue[i + 1].frame # head.frame
        BY <1>1, <4>1 DEF IndInv, FrameInv, QueueInv
      <4>3. /\ fstate[evictQueue[i + 1].frame] = "Evicting"
            /\ evictQueue[i + 1].tag <= globalEpoch
        BY <4>1 DEF IndInv, FrameInv, QueueInv
      <4> QED  BY <4>1, <4>2, <4>3, QueueEntries DEF IndInv, TypeOK, FrameType
    <3>2. \A i, j \in 1 .. Len(evictQueue') :
            i < j => /\ evictQueue'[i].frame # evictQueue'[j].frame
                     /\ evictQueue'[i].tag <= evictQueue'[j].tag
      BY <1>1 DEF IndInv, FrameInv, QueueInv
    <3> QED  BY <3>1, <3>2 DEF QueueInv
  <2>4. LockInv'
    BY DEF FrameInv, LockInv, ctlVars
  <2> QED  BY <2>1, <2>2, <2>3, <2>4 DEF FrameInv
<1>6. ProtectInv'
  <2>1. ASSUME NEW r \in Readers, NEW f \in Frames, Protects(r, f)'
        PROVE  /\ Published(f)'
               /\ \A i \in 1 .. Len(evictQueue') : evictQueue'[i].frame = f =>
                    /\ localEpoch'[r] <= evictQueue'[i].tag
                    /\ globalEpoch' <= evictQueue'[i].tag + 1
                    /\ ctl' = "scan" /\ r <= scanned' => globalEpoch' <= evictQueue'[i].tag
    <3>1. Protects(r, f) /\ f # head.frame
      BY <1>3, <2>1, ControlKeepsProtects
    <3>2. Published(f)'
      <4>1. Published(f)
        BY <3>1 DEF IndInv, ProtectInv
      <4>2. fstate'[f] = fstate[f]
        BY <3>1 DEF IndInv, TypeOK, FrameType
      <4> QED  BY <4>1, <4>2 DEF Published
    <3>3. UNCHANGED <<localEpoch, globalEpoch, ctl, scanned>>
      BY DEF readerVars, registryVars, ctlVars
    <3>4. ASSUME NEW i \in 1 .. Len(evictQueue'), evictQueue'[i].frame = f
          PROVE  /\ localEpoch'[r] <= evictQueue'[i].tag
                 /\ globalEpoch' <= evictQueue'[i].tag + 1
                 /\ ctl' = "scan" /\ r <= scanned' => globalEpoch' <= evictQueue'[i].tag
      <4>1. i + 1 \in 1 .. Len(evictQueue) /\ evictQueue'[i] = evictQueue[i + 1]
        BY <1>1
      <4> QED  BY <3>1, <3>3, <3>4, <4>1 DEF IndInv, ProtectInv
    <3> QED  BY <3>2, <3>4
  <2> QED
    BY <2>1 DEF IndInv, ProtectInv, readerVars, guardVars, pinVars
<1> QED
  BY <1>4, <1>5, <1>6, ControlKeepsReaders DEF IndInv, TypeOK, ControlType

\* Ending the drain changes nothing a reader can see.
LEMMA EndDrainInd ==
  ASSUME IndInv, EndDrain
  PROVE  IndInv'
<1> USE ReadersAssumption, BoundsAssumption DEF EndDrain
<1>1. FrameType' /\ ControlType'
  BY DEF IndInv, TypeOK, FrameType, ControlType, frameVars
<1>2. FrameInv'
  BY DEF IndInv, FrameInv, BytesInv, MappingInv, QueueInv, LockInv, Published, frameVars
<1>3. ProtectInv'
  <2>1. \A r \in Readers, f \in Frames : Protects(r, f) =>
          Published(f)' /\ fpage'[f] = fpage[f]
    BY DEF IndInv, ProtectInv, Published, frameVars
  <2> QED  BY <2>1, ControlKeepsProtect
<1> QED
  BY <1>1, <1>2, <1>3, ControlKeepsReaders DEF IndInv, TypeOK, ControlType
=============================================================================
