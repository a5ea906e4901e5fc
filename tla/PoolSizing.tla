----------------------------- MODULE PoolSizing -----------------------------
(***************************************************************************)
(* The arithmetic of a pool's configuration (pool/mod.rs                  *)
(* PoolBuilder::validate, validate_retention_capacity, build and the      *)
(* preallocation; pool/prefetch.rs prefetch_capacity).                    *)
(*                                                                         *)
(* Every field of a builder is a u32 the embedder chooses freely.  The    *)
(* deadlock-freedom watermark is computed from them in u64.  The theorems *)
(* say that this arithmetic never leaves its machine type and that what a *)
(* validated configuration promises to guards, handles, speculation and   *)
(* misses fits the frames together.                                       *)
(***************************************************************************)
EXTENDS Integers, TLAPS

U32Max == 4294967295
U64Max == (U32Max + 1) * (U32Max + 1) - 1
U32 == 0..U32Max

SectorBytes == 512
RingLimit == 2147483648
SpeculationBytes == 524288
NoHeadroom == -1   \* prefetch_headroom: None

\* PoolBuilder: the fields the checks read.
Configs ==
    [frame_count: U32, granule: U32, max_concurrent_readers: U32,
     peak_guards_per_reader: U32, max_inflight_reads: U32, miss_headroom: U32,
     max_retained_frames: U32, write_slots: U32, max_inflight_product_ops: U32,
     registered_file_capacity: U32, prefetch_headroom: U32 \union {NoHeadroom}]

AtLeast(a, b) == IF a < b THEN b ELSE a
AtMost(a, b) == IF a < b THEN a ELSE b
SaturatingSub(a, b) == IF a < b THEN 0 ELSE a - b

IsPowerOfTwo(n) == \E k \in 0..31 : n = 2^k

\* validate_retention_capacity.  The last test of the code, that one more than
\* the readers fits u32, also refuses a full reader count without retention.
RetentionRepresentable(c) ==
    /\ c.max_retained_frames <= RingLimit
    /\ c.max_retained_frames <= U32Max - c.max_concurrent_readers
    /\ c.max_concurrent_readers + 1 <= U32Max

GuardFrames(c) == c.max_concurrent_readers * c.peak_guards_per_reader

\* The frames without which the pool could deadlock.
Watermark(c) ==
    AtLeast(GuardFrames(c) + c.miss_headroom, 1) + c.max_retained_frames

\* prefetch_capacity: the frames left for speculation, and the credits.
Committed(c) == GuardFrames(c) + c.miss_headroom + c.max_retained_frames
Spare(c) == SaturatingSub(c.frame_count, Committed(c))
Credits(c) ==
    IF c.prefetch_headroom # NoHeadroom THEN c.prefetch_headroom
    ELSE AtMost(AtMost(Spare(c), SaturatingSub(c.max_inflight_reads, 1)),
                SpeculationBytes \div c.granule)

\* PoolBuilder::validate: its checks, in order, with the error of each.
Validate(c) ==
    IF c.max_inflight_reads + c.max_inflight_product_ops > U32Max
    THEN "QueueCapacityOverflow"
    ELSE IF ~IsPowerOfTwo(c.granule) THEN "GranuleNotPowerOfTwo"
    ELSE IF c.granule < SectorBytes THEN "GranuleBelowSector"
    ELSE IF ~RetentionRepresentable(c) THEN "RetentionUnrepresentable"
    ELSE IF \/ 3 * c.max_inflight_reads > U32Max
            \/ c.miss_headroom < 3 * c.max_inflight_reads
         THEN "MissHeadroomTooSmall"
    ELSE IF c.frame_count < Watermark(c) THEN "BelowWatermark"
    ELSE IF Credits(c) > Spare(c) THEN "PrefetchHeadroomTooLarge"
    ELSE "Valid"

\* PoolBuilder::build: what the driver under the pool is built with.
QueueCapacity(c) ==
    AtLeast(AtMost(c.max_inflight_reads + c.max_inflight_product_ops, U32Max), 1)
DriverConfig(c) ==
    [frames |-> c.frame_count, frame_bytes |-> c.granule,
     queue_capacity |-> QueueCapacity(c), write_slots |-> AtLeast(c.write_slots, 1),
     files |-> c.registered_file_capacity]

\* check_backend_geometry, for a pool composed over a given driver.
GeometryMatches(c, count, granule) == count = c.frame_count /\ granule = c.granule

\* try_preallocated_control, try_preallocated, try_preallocated_file_state: the
\* capacities of what is allocated up front.
ControlCapacities(c) ==
    [evict_queue |-> c.frame_count, miss_records |-> c.frame_count,
     miss_reads |-> c.max_inflight_reads, free_frames |-> c.frame_count,
     read_spans |-> c.max_inflight_reads, batch |-> QueueCapacity(c),
     product_ops |-> c.max_inflight_product_ops, credits |-> Credits(c)]
PoolCapacities(c) ==
    [readers |-> c.max_concurrent_readers, guards |-> c.peak_guards_per_reader,
     table |-> c.frame_count, clock |-> c.frame_count,
     interests |-> c.frame_count, wait_batch |-> QueueCapacity(c)]
FileCapacities(c) ==
    [live |-> c.registered_file_capacity, leases |-> c.registered_file_capacity,
     retained |-> c.max_retained_frames,
     words |-> IF c.max_retained_frames = 0 THEN 0 ELSE c.frame_count]

(***************************************************************************)
(* Theorems.                                                               *)
(***************************************************************************)

\* u32::MAX is a natural number; nothing else about it matters below.
LEMMA U32Type == U32Max \in Nat /\ 1 <= U32Max /\ U32 \subseteq Nat
<1>1. U32Max \in Nat /\ 1 <= U32Max
    BY SMT DEF U32Max
<1>2. \A n \in U32 : n \in Nat
    BY <1>1, SMT DEF U32
<1> QED
    BY <1>1, <1>2

\* The product of two u32 values is at most the square of the largest one.
LEMMA ProductBound ==
    ASSUME NEW a \in U32, NEW b \in U32
    PROVE  a * b \in Nat /\ a * b <= U32Max * U32Max
<1>1. a \in Nat /\ b \in Nat /\ a <= U32Max /\ b <= U32Max
    BY U32Type, SMT DEF U32
<1>2. a * b <= U32Max * b
    BY <1>1, U32Type, SMT
<1>3. U32Max * b <= U32Max * U32Max
    BY <1>1, U32Type, SMT
<1>4. a * b \in Nat
    BY <1>1, SMT
<1> QED
    BY <1>1, <1>2, <1>3, <1>4, U32Type, SMT

\* The spare frames and the credits of a validated configuration are integers,
\* and no more frames are spare than there are.
LEMMA CreditsType ==
    ASSUME NEW c \in Configs, Validate(c) = "Valid"
    PROVE  Spare(c) \in Int /\ Spare(c) <= c.frame_count /\ Credits(c) \in Int
<1>1. GuardFrames(c) \in Nat
    BY ProductBound DEF GuardFrames, Configs
<1>2. /\ c.frame_count \in Nat /\ c.miss_headroom \in Nat
      /\ c.max_retained_frames \in Nat /\ c.max_inflight_reads \in Nat
    BY U32Type, SMT DEF Configs, U32
<1>3. Spare(c) \in Int /\ Spare(c) <= c.frame_count
    BY <1>1, <1>2, SMT DEF Spare, SaturatingSub, Committed
<1>4. c.granule \in Nat \ {0}
    BY U32Type, SMT DEF Validate, SectorBytes, Configs, U32
<1>5. c.prefetch_headroom \in Int
    BY U32Type, SMT DEF Configs, U32, NoHeadroom
<1>6. Credits(c) \in Int
    BY <1>2, <1>3, <1>4, <1>5, SMT DEF Credits, AtMost, SaturatingSub, SpeculationBytes
<1> QED
    BY <1>3, <1>6

(***************************************************************************)
(* For every builder the embedder can write, validated or not, the u64    *)
(* arithmetic of the watermark and of prefetch_capacity does not          *)
(* overflow: both sums are at most 2^64 - 1.                              *)
(***************************************************************************)
THEOREM WatermarkFits ==
    ASSUME NEW c \in Configs
    PROVE  Watermark(c) \in 0..U64Max /\ Committed(c) \in 0..U64Max
<1>1. GuardFrames(c) \in Nat /\ GuardFrames(c) <= U32Max * U32Max
    BY ProductBound DEF GuardFrames, Configs
<1>2. /\ c.miss_headroom \in Nat /\ c.miss_headroom <= U32Max
      /\ c.max_retained_frames \in Nat /\ c.max_retained_frames <= U32Max
    BY U32Type, SMT DEF Configs, U32
<1>3. U64Max = U32Max * U32Max + U32Max + U32Max
    BY U32Type, SMT DEF U64Max
<1>4. U32Max <= U32Max * U32Max
    BY U32Type, SMT
<1> QED
    BY <1>1, <1>2, <1>3, <1>4, U32Type, SMT DEF Watermark, Committed, AtLeast

(***************************************************************************)
(* A validated pool has room for everything at once: with every guard,    *)
(* every retained handle and every speculation credit in use, three       *)
(* frames per admissible read are left for misses and reclamation.        *)
(***************************************************************************)
THEOREM ValidatedFits ==
    ASSUME NEW c \in Configs, Validate(c) = "Valid",
           NEW guarded \in 0..GuardFrames(c),
           NEW retained \in 0..c.max_retained_frames,
           NEW speculative \in 0..Credits(c)
    PROVE  c.frame_count - (guarded + retained + speculative)
              >= 3 * c.max_inflight_reads
<1>1. GuardFrames(c) \in Nat
    BY ProductBound DEF GuardFrames, Configs
<1>2. /\ c.frame_count \in Nat /\ c.miss_headroom \in Nat
      /\ c.max_retained_frames \in Nat /\ c.max_inflight_reads \in Nat
    BY U32Type, SMT DEF Configs, U32
<1>3. /\ c.miss_headroom >= 3 * c.max_inflight_reads
      /\ c.frame_count >= Watermark(c)
      /\ Credits(c) \in Int /\ Credits(c) <= Spare(c)
    <2>1. /\ ~(c.miss_headroom < 3 * c.max_inflight_reads)
          /\ ~(c.frame_count < Watermark(c))
          /\ ~(Credits(c) > Spare(c))
        BY Zenon DEF Validate
    <2>2. Watermark(c) \in Int
        BY <1>1, <1>2, SMT DEF Watermark, AtLeast
    <2>3. Spare(c) \in Int /\ Credits(c) \in Int
        BY CreditsType
    <2> QED
        BY <1>2, <2>1, <2>2, <2>3, SMT
<1>4. Spare(c) = c.frame_count - Committed(c)
    BY <1>1, <1>2, <1>3, SMT DEF Spare, SaturatingSub, Committed, Watermark, AtLeast
<1> QED
    BY <1>1, <1>2, <1>3, <1>4, SMT DEF Committed

(***************************************************************************)
(* What the constructors assert of a validated configuration: arena,      *)
(* table, CLOCK and lists have a frame and a usable granule; the reads     *)
(* fit the miss records; one batch, which is never empty, takes the        *)
(* completion of every read and product operation the driver can hold; the *)
(* driver has the geometry of the pool; the speculation credits fit the    *)
(* free stack; and a ring tally of all handles and readers fits a u32.     *)
(***************************************************************************)
THEOREM CapacitiesFit ==
    ASSUME NEW c \in Configs, Validate(c) = "Valid"
    PROVE  LET control == ControlCapacities(c)
               driver == DriverConfig(c)
           IN /\ driver.frames > 0 /\ IsPowerOfTwo(driver.frame_bytes)
              /\ GeometryMatches(c, driver.frames, driver.frame_bytes)
              /\ control.miss_reads <= control.miss_records
              /\ control.batch > 0
              /\ control.read_spans + control.product_ops <= control.batch
              /\ driver.queue_capacity = control.batch
              /\ PoolCapacities(c).wait_batch = control.batch
              /\ control.credits <= control.free_frames
              /\ FileCapacities(c).retained + PoolCapacities(c).readers <= U32Max
<1>1. GuardFrames(c) \in Nat
    BY ProductBound DEF GuardFrames, Configs
<1>2. /\ c.frame_count \in Nat /\ c.miss_headroom \in Nat
      /\ c.max_retained_frames \in Nat /\ c.max_inflight_reads \in Nat
      /\ c.max_inflight_product_ops \in Nat /\ c.max_concurrent_readers \in Nat
    BY U32Type, SMT DEF Configs, U32
<1>3. /\ ~(c.max_inflight_reads + c.max_inflight_product_ops > U32Max)
      /\ IsPowerOfTwo(c.granule) /\ RetentionRepresentable(c)
      /\ ~(c.miss_headroom < 3 * c.max_inflight_reads)
      /\ ~(c.frame_count < Watermark(c))
      /\ ~(Credits(c) > Spare(c))
    BY Zenon DEF Validate
<1>4. c.frame_count > 0 /\ c.max_inflight_reads <= c.frame_count
    BY <1>1, <1>2, <1>3, SMT DEF Watermark, AtLeast
<1>5. /\ QueueCapacity(c) > 0
      /\ c.max_inflight_reads + c.max_inflight_product_ops <= QueueCapacity(c)
    BY <1>2, <1>3, U32Type, SMT DEF QueueCapacity, AtLeast, AtMost
<1>6. Credits(c) <= c.frame_count
    BY <1>2, <1>3, CreditsType, SMT
<1>7. c.max_retained_frames + c.max_concurrent_readers <= U32Max
    BY <1>2, <1>3, U32Type, SMT DEF RetentionRepresentable
<1> QED
    BY <1>3, <1>4, <1>5, <1>6, <1>7, Zenon
       DEF ControlCapacities, DriverConfig, PoolCapacities, FileCapacities, GeometryMatches
=============================================================================
