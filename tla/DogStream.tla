----------------------------- MODULE DogStream -----------------------------
(***************************************************************************)
(* The image/pose/scan synchroniser of dog_log_adaptor: DogStream          *)
(* (dog_stream.cpp) with the PoseInterpolator it owns (pose_interp.cpp).   *)
(*                                                                         *)
(* A scan is named by its arrival number s, its timestamp is scanT[s]; it  *)
(* stands for a body pose and a world cloud.  An image is named by its     *)
(* arrival number i.  images[i].seen, the number of scans that had arrived *)
(* before the image, is history the properties use; the program does not   *)
(* keep it.  A SyncedFrame given to the consumer is the image, the pose    *)
(* samples lo and hi its pose was interpolated from (lo = hi on an exact   *)
(* hit) and the attached scan.                                             *)
(*                                                                         *)
(* pushScan, pushImage and flush each end in drain(), a loop that calls    *)
(* the consumer's hook; mode tells which drain is running, so that every   *)
(* iteration of the loop is a step and no push happens until it ends.  The *)
(* hook may throw (inf_client's timeout): the exception leaves the loop.   *)
(***************************************************************************)
EXTENDS Integers, Sequences

CONSTANTS
  PoseBuffer,     \* constructor argument pose_buffer
  ScanRingArg,    \* constructor argument scan_ring
  MaxPendingArg,  \* constructor argument max_pending_images
  Times,          \* the timestamps of scans and images
  MaxScans,       \* bound: scans pushed
  MaxImages,      \* bound: images pushed
  MaxThrows,      \* bound: exceptions thrown by the hook
  NoScan          \* "no scan attached" (scan_t = 0, empty cloud)

ASSUME DogStreamAssumption ==
  /\ PoseBuffer \in Nat /\ ScanRingArg \in Nat /\ MaxPendingArg \in Nat
  /\ Times \subseteq Int
  /\ MaxScans \in Nat /\ MaxImages \in Nat /\ MaxThrows \in Nat
  /\ NoScan \notin Nat

MaxSamplesUnclamped == PoseBuffer  \* mutant: no clamping

\* The sizes after the constructors' clamping.
MaxSamples == IF PoseBuffer < 2 THEN 2 ELSE PoseBuffer
ScanRing   == IF ScanRingArg < 1 THEN 1 ELSE ScanRingArg
MaxPending == IF MaxPendingArg < 1 THEN 1 ELSE MaxPendingArg

VARIABLES
  scanT,            \* history: timestamps of the scans pushed
  images,           \* history: [t, seen] of the images pushed
  poses,            \* interp_.buf_: scans whose pose is buffered, oldest first
  scans,            \* scans_: the scan ring, oldest first
  pending,          \* pending_: images not yet bracketed, oldest first
  frames,           \* history: the SyncedFrames handed to the hook
  lost,             \* history: the images dropped
  emitted,          \* emitted_
  droppedOld,       \* dropped_old_
  droppedOverflow,  \* dropped_overflow_
  throws,           \* history: how often the hook threw
  ordered,          \* environment: do both streams arrive in timestamp order?
  mode              \* "idle", or the drain that runs: "drain", "flush"

vars == <<scanT, images, poses, scans, pending, frames, lost, emitted,
          droppedOld, droppedOverflow, throws, ordered, mode>>

Init ==
  /\ scanT = <<>> /\ images = <<>>
  /\ poses = <<>> /\ scans = <<>> /\ pending = <<>>
  /\ frames = <<>> /\ lost = {}
  /\ emitted = 0 /\ droppedOld = 0 /\ droppedOverflow = 0
  /\ throws = 0
  /\ ordered \in BOOLEAN
  /\ mode = "idle"
-----------------------------------------------------------------------------
Last(s) == s[Len(s)]

PushRingUnbounded(s, x, n) == Append(s, x)  \* mutant: never trims

\* Append to a ring of at most n elements; the oldest one leaves when it is full.
PushRing(s, x, n) ==
  IF Len(s) < n THEN Append(s, x) ELSE Append(Tail(s), x)

PushPoseUnordered(t, s) == PushRing(poses, s, MaxSamples)  \* mutant: keeps late samples

\* PoseInterpolator::push: a sample not newer than the newest one is ignored.
PushPose(t, s) ==
  IF poses # <<>> /\ t <= scanT[Last(poses)]
    THEN poses
    ELSE PushRing(poses, s, MaxSamples)

NeedsNewerInclusive(t) == poses # <<>> => t >= scanT[Last(poses)]  \* mutant: off by one

\* PoseInterpolator::sample, its four answers for the time t.
NeedsNewer(t) == poses # <<>> => t > scanT[Last(poses)]
TooOld(t)     == poses # <<>> /\ t < scanT[Head(poses)]
Bracketed(t)  == ~NeedsNewer(t) /\ ~TooOld(t)

\* The first buffered sample not older than t (std::lower_bound) ...
Upper(t) == CHOOSE k \in DOMAIN poses :
              /\ scanT[poses[k]] >= t
              /\ \A j \in DOMAIN poses : scanT[poses[j]] >= t => k <= j
\* ... and the one before it, unless the hit is exact.
Lower(t) == IF scanT[poses[Upper(t)]] = t THEN Upper(t) ELSE Upper(t) - 1

Distance(s, t) == IF scanT[s] >= t THEN scanT[s] - t ELSE t - scanT[s]

NewestScan(t) == IF scans = <<>> THEN NoScan ELSE Last(scans)  \* mutant: the latest scan

\* nearestScan: the first of the buffered scans at the least distance.
NearestScan(t) ==
  IF scans = <<>> THEN NoScan
  ELSE scans[CHOOSE k \in DOMAIN scans :
               \A j \in DOMAIN scans :
                 \/ Distance(scans[k], t) < Distance(scans[j], t)
                 \/ Distance(scans[k], t) = Distance(scans[j], t) /\ k <= j]

SyncedFrame(i) ==
  LET t == images[i].t
  IN  [image |-> i, lo |-> poses[Lower(t)], hi |-> poses[Upper(t)],
       scan |-> NearestScan(t)]
-----------------------------------------------------------------------------
PushScan(t) ==
  /\ mode = "idle"
  /\ Len(scanT) < MaxScans
  /\ ordered /\ scanT # <<>> => Last(scanT) <= t
  /\ scanT' = Append(scanT, t)
  /\ poses' = PushPose(t, Len(scanT) + 1)
  /\ scans' = PushRing(scans, Len(scanT) + 1, ScanRing)
  /\ mode' = "drain"
  /\ UNCHANGED <<images, pending, frames, lost, emitted, droppedOld,
                 droppedOverflow, throws, ordered>>

\* pending_ after the push of image i.
Enqueue(i) == PushRing(pending, i, MaxPending)

PushImage(t) ==
  /\ mode = "idle"
  /\ Len(images) < MaxImages
  /\ ordered /\ images # <<>> => Last(images).t <= t
  /\ images' = Append(images, [t |-> t, seen |-> Len(scanT)])
  /\ pending' = Enqueue(Len(images) + 1)
  /\ \/ /\ Len(pending) < MaxPending
        /\ UNCHANGED <<lost, droppedOverflow>>
     \/ /\ Len(pending) >= MaxPending
        /\ lost' = lost \union {[image |-> Head(pending), why |-> "overflow"]}
        /\ droppedOverflow' = droppedOverflow + 1
  /\ mode' = "drain"
  /\ UNCHANGED <<scanT, poses, scans, frames, emitted, droppedOld, throws,
                 ordered>>

Flush ==
  /\ mode = "idle"
  /\ mode' = "flush"
  /\ UNCHANGED <<scanT, images, poses, scans, pending, frames, lost, emitted,
                 droppedOld, droppedOverflow, throws, ordered>>

\* drain returns: nothing is pending, or the oldest pending image must wait.
DrainReturn ==
  /\ \/ mode # "idle" /\ pending = <<>>
     \/ mode = "drain" /\ pending # <<>> /\ NeedsNewer(images[Head(pending)].t)
  /\ mode' = "idle"
  /\ UNCHANGED <<scanT, images, poses, scans, pending, frames, lost, emitted,
                 droppedOld, droppedOverflow, throws, ordered>>

DropHead(why) ==
  /\ pending' = Tail(pending)
  /\ lost' = lost \union {[image |-> Head(pending), why |-> why]}
  /\ droppedOld' = droppedOld + 1
  /\ UNCHANGED <<scanT, images, poses, scans, frames, emitted,
                 droppedOverflow, throws, ordered, mode>>

DropTooOld ==
  /\ mode # "idle" /\ pending # <<>>
  /\ TooOld(images[Head(pending)].t)
  /\ DropHead("too_old")

\* No newer pose will come: at flush the waiting image is undeliverable.
DropAtFlush ==
  /\ mode = "flush" /\ pending # <<>>
  /\ NeedsNewer(images[Head(pending)].t)
  /\ DropHead("unbracketed")

\* Mutant: the image is popped and counted after the hook has returned.
EmitThenPop ==
  /\ mode # "idle" /\ pending # <<>>
  /\ Bracketed(images[Head(pending)].t)
  /\ frames' = Append(frames, SyncedFrame(Head(pending)))
  /\ \/ /\ pending' = Tail(pending)
        /\ emitted' = emitted + 1
        /\ UNCHANGED <<throws, mode>>
     \/ /\ throws < MaxThrows
        /\ throws' = throws + 1
        /\ mode' = "idle"
        /\ UNCHANGED <<pending, emitted>>
  /\ UNCHANGED <<scanT, images, poses, scans, lost, droppedOld, droppedOverflow,
                 ordered>>

\* The image is popped and counted before the hook runs.
Emit ==
  /\ mode # "idle" /\ pending # <<>>
  /\ Bracketed(images[Head(pending)].t)
  /\ frames' = Append(frames, SyncedFrame(Head(pending)))
  /\ pending' = Tail(pending)
  /\ emitted' = emitted + 1
  /\ \/ UNCHANGED <<throws, mode>>
     \/ /\ throws < MaxThrows
        /\ throws' = throws + 1
        /\ mode' = "idle"
  /\ UNCHANGED <<scanT, images, poses, scans, lost, droppedOld, droppedOverflow,
                 ordered>>

Drain == DrainReturn \/ DropTooOld \/ DropAtFlush \/ Emit

Next ==
  \/ \E t \in Times : PushScan(t) \/ PushImage(t)
  \/ Flush
  \/ Drain

Spec == Init /\ [][Next]_vars

\* The drain loop runs on the caller's thread: once entered it goes on.  Nothing
\* makes the caller push again.
FairSpec == Spec /\ WF_vars(Drain)
-----------------------------------------------------------------------------
Scans  == 1 .. Len(scanT)
Images == 1 .. Len(images)
Frame  == [image : Images, lo : Scans, hi : Scans, scan : Scans \union {NoScan}]

\* Every variable stays in its range, and the three buffers within their caps:
\* an online run never grows (pose_interp.h:11, dog_stream.cpp:44-46).
TypeOK ==
  /\ scanT \in Seq(Times) /\ Len(scanT) <= MaxScans
  /\ images \in Seq([t : Times, seen : Nat]) /\ Len(images) <= MaxImages
  /\ poses \in Seq(Scans) /\ Len(poses) <= MaxSamples
  /\ scans \in Seq(Scans) /\ Len(scans) <= ScanRing
  /\ pending \in Seq(Images) /\ Len(pending) <= MaxPending
  /\ frames \in Seq(Frame)
  /\ lost \subseteq [image : Images, why : {"overflow", "too_old", "unbracketed"}]
  /\ emitted \in Nat /\ droppedOld \in Nat /\ droppedOverflow \in Nat
  /\ throws \in 0 .. MaxThrows
  /\ ordered \in BOOLEAN
  /\ mode \in {"idle", "drain", "flush"}

\* The diagnostics account for every image: pushed = emitted + dropped + waiting,
\* whatever the order of the streams, the overflows and the exceptions.
Accounting ==
  /\ Len(images) = emitted + droppedOld + droppedOverflow + Len(pending)
  /\ emitted = Len(frames)

\* DogStream implements ImageDelivery: arrival order, at most one delivery, exactly
\* one fate (gmd_stream_check.cpp:7 "emitted exactly once").
Delivery == INSTANCE ImageDelivery WITH
  accepted  <- Len(images),
  queue     <- pending,
  delivered <- [k \in 1 .. Len(frames) |-> frames[k].image],
  lost      <- {l.image : l \in lost}

DeliverySpec == Delivery!Spec

\* A scan's pose is a sample of the trajectory iff the scan was newer than all
\* earlier ones (pose_interp.h:27-28).
Samples == {s \in Scans : \A r \in 1 .. s - 1 : scanT[r] < scanT[s]}

\* The pose of an emitted frame is interpolated between two samples of the
\* trajectory that bracket its capture time with no other sample in between,
\* also when scans arrive late, twice or out of order (pose_interp.h:32).
TightBracket ==
  \A k \in 1 .. Len(frames) :
    LET f == frames[k]
        t == images[f.image].t
    IN  /\ f.lo \in Samples /\ f.hi \in Samples
        /\ IF f.lo = f.hi THEN scanT[f.lo] = t
                          ELSE scanT[f.lo] < t /\ t < scanT[f.hi]
        /\ \A s \in Samples : scanT[s] <= scanT[f.lo] \/ scanT[f.hi] <= scanT[s]

\* Between the oldest and the newest buffered sample.
Placeable(t) ==
  poses # <<>> /\ scanT[Head(poses)] <= t /\ t <= scanT[Last(poses)]

\* Not older than any scan that had arrived before it, and not the first arrival.
OnTime(i) ==
  /\ images[i].seen > 0
  /\ \A s \in 1 .. images[i].seen : scanT[s] <= images[i].t

\* An image that is on time is never given up as too old, however small the pose
\* buffer and however far apart the scans: the pair that brackets it is still
\* buffered when the drain reaches it.
OnTimeNeverTooOld ==
  ordered /\ throws = 0 =>
    \A l \in lost : l.why = "too_old" => ~OnTime(l.image)

\* An image that is on time gets the nearest scan of the whole stream, the scans
\* still to come included (dog_stream.h:33-34), as soon as the ring holds two.
OnTimeGetsNearestScan ==
  ordered /\ throws = 0 /\ ScanRing >= 2 =>
    \A k \in 1 .. Len(frames) :
      LET f == frames[k]
          t == images[f.image].t
      IN  OnTime(f.image) =>
            /\ f.scan # NoScan
            /\ \A s \in Scans : Distance(f.scan, t) <= Distance(s, t)

\* In order and without exceptions, an image that can be placed leaves the queue
\* without waiting for another push.
PlaceableImageLeaves ==
  \A i \in 1 .. MaxImages :
    (/\ ordered /\ i \in Images
     /\ \E k \in 1 .. Len(pending) : pending[k] = i
     /\ Placeable(images[i].t))
      ~> (throws > 0 \/ ~ \E k \in 1 .. Len(pending) : pending[k] = i)
=============================================================================
