-------------------------- MODULE DogStreamProofs --------------------------
(***************************************************************************)
(* DogStream for every buffer size, every set of timestamps and any number *)
(* of pushes, exceptions included: the variables stay in their ranges, the *)
(* diagnostics account for every image, the queue of images implements     *)
(* ImageDelivery, a frame's pose comes from the tightest bracket, and an   *)
(* image that comes on time is placed, with the scan nearest to it.        *)
(***************************************************************************)
EXTENDS DogStream, NatLemmas

LEMMA SizesPositive ==
  MaxSamples \in Nat \ {0, 1} /\ ScanRing \in Nat \ {0} /\ MaxPending \in Nat \ {0}
BY DogStreamAssumption DEF MaxSamples, ScanRing, MaxPending

LEMMA Timestamps ==
  ASSUME TypeOK
  PROVE  /\ \A s \in Scans : scanT[s] \in Times /\ scanT[s] \in Int
         /\ \A i \in Images : images[i].t \in Times /\ images[i].t \in Int
         /\ pending # <<>> => Head(pending) \in Images
<1>1. scanT \in Seq(Times) /\ \A s \in Scans : scanT[s] \in Times
  BY DEF TypeOK, Scans
<1>2. \A i \in Images : images[i].t \in Times
  <2>1. images \in Seq([t : Times, seen : Nat])
    BY DEF TypeOK
  <2>2. \A i \in 1 .. Len(images) : images[i] \in [t : Times, seen : Nat]
    BY <2>1, SeqElements
  <2>3. QED
    BY <2>2 DEF Images
<1>3. pending # <<>> => Head(pending) \in Images
  <2>1. pending \in Seq(Images)
    BY DEF TypeOK
  <2>2. QED
    BY <2>1
<1>4. QED
  BY <1>1, <1>2, <1>3, DogStreamAssumption

\* What a push does to a ring within its cap.
LEMMA PushRingProperties ==
  ASSUME NEW S, NEW s \in Seq(S), NEW x \in S, NEW n \in Nat \ {0}, Len(s) <= n
  PROVE  /\ PushRing(s, x, n) \in Seq(S)
         /\ Len(PushRing(s, x, n)) = IF Len(s) < n THEN Len(s) + 1 ELSE n
         /\ Last(PushRing(s, x, n)) = x
         /\ \A k \in 1 .. Len(PushRing(s, x, n)) - 1 :
              PushRing(s, x, n)[k] = IF Len(s) < n THEN s[k] ELSE s[k + 1]
<1>1. CASE Len(s) < n
  BY <1>1 DEF PushRing, Last
<1>2. CASE ~(Len(s) < n)
  <2>1. Len(s) = n /\ s # <<>>
    BY <1>2
  <2>2. /\ Tail(s) \in Seq(S) /\ Len(Tail(s)) = n - 1
        /\ \A k \in 1 .. n - 1 : Tail(s)[k] = s[k + 1]
    BY <2>1
  <2>3. PushRing(s, x, n) = Append(Tail(s), x)
    BY <1>2 DEF PushRing
  <2>4. /\ Append(Tail(s), x) \in Seq(S) /\ Len(Append(Tail(s), x)) = n
        /\ Append(Tail(s), x)[n] = x
        /\ \A k \in 1 .. n - 1 : Append(Tail(s), x)[k] = Tail(s)[k]
    BY <2>2
  <2>5. QED
    BY <1>2, <2>2, <2>3, <2>4 DEF Last
<1>3. QED
  BY <1>1, <1>2

\* A bracketed time has a first sample not older than it, and a sample before that
\* one unless the hit is exact.
LEMMA BracketExists ==
  ASSUME TypeOK, NEW t \in Times, Bracketed(t)
  PROVE  /\ Upper(t) \in 1 .. Len(poses) /\ Lower(t) \in 1 .. Len(poses)
         /\ scanT[poses[Upper(t)]] >= t
         /\ \A j \in 1 .. Len(poses) : scanT[poses[j]] >= t => Upper(t) <= j
         /\ Lower(t) = IF scanT[poses[Upper(t)]] = t THEN Upper(t) ELSE Upper(t) - 1
<1>1. /\ poses \in Seq(Scans) /\ Len(poses) \in Nat \ {0} /\ DOMAIN poses = 1 .. Len(poses)
      /\ Head(poses) = poses[1]
  BY DEF TypeOK, Bracketed, NeedsNewer
<1>2. \A k \in 1 .. Len(poses) : scanT[poses[k]] \in Int
  BY <1>1, Timestamps
<1>3. t \in Int
  BY DogStreamAssumption
<1>4. scanT[poses[Len(poses)]] >= t /\ ~(t < scanT[poses[1]])
  BY <1>1, <1>2, <1>3 DEF Bracketed, NeedsNewer, TooOld, Last
<1> DEFINE T == {k \in 1 .. Len(poses) : scanT[poses[k]] >= t}
<1>5. \E m \in T : \A k \in T : m <= k
  <2>1. T \subseteq Nat /\ T # {}
    BY <1>1, <1>4
  <2>2. QED
    BY <2>1, LeastElement
<1>6. /\ Upper(t) \in 1 .. Len(poses) /\ scanT[poses[Upper(t)]] >= t
      /\ \A j \in 1 .. Len(poses) : scanT[poses[j]] >= t => Upper(t) <= j
  <2>1. \E k \in DOMAIN poses :
          /\ scanT[poses[k]] >= t
          /\ \A j \in DOMAIN poses : scanT[poses[j]] >= t => k <= j
    BY <1>1, <1>5
  <2>2. QED
    BY <1>1, <2>1 DEF Upper
<1>7. CASE scanT[poses[Upper(t)]] = t
  BY <1>6, <1>7 DEF Lower
<1>8. CASE scanT[poses[Upper(t)]] # t
  <2>1. Upper(t) # 1
    BY <1>2, <1>3, <1>4, <1>6, <1>8
  <2>2. QED
    BY <1>1, <1>6, <1>8, <2>1 DEF Lower
<1>9. QED
  BY <1>7, <1>8

\* nearestScan on a nonempty ring: a buffered scan, none of them nearer.
LEMMA NearestScanIs ==
  ASSUME TypeOK, NEW t \in Times, scans # <<>>
  PROVE  \E k \in 1 .. Len(scans) :
           /\ NearestScan(t) = scans[k] /\ scans[k] \in Scans
           /\ \A j \in 1 .. Len(scans) : Distance(scans[k], t) <= Distance(scans[j], t)
<1>1. /\ Len(scans) \in Nat \ {0} /\ DOMAIN scans = 1 .. Len(scans)
      /\ \A k \in 1 .. Len(scans) : scans[k] \in Scans
  BY DEF TypeOK
<1>2. \A k \in 1 .. Len(scans) : Distance(scans[k], t) \in Nat
  <2>1. TAKE k \in 1 .. Len(scans)
  <2>2. scanT[scans[k]] \in Int /\ t \in Int
    BY <1>1, Timestamps, DogStreamAssumption
  <2>3. QED
    BY <2>2 DEF Distance
<1> DEFINE D == {Distance(scans[k], t) : k \in 1 .. Len(scans)}
<1>3. PICK d \in D : \A e \in D : d <= e
  <2>1. D \subseteq Nat /\ D # {}
    BY <1>1, <1>2
  <2>2. QED
    BY <2>1, LeastElement
<1> DEFINE K == {k \in 1 .. Len(scans) : Distance(scans[k], t) = d}
<1>4. PICK k \in K : \A j \in K : k <= j
  <2>1. K \subseteq Nat /\ K # {}
    BY <1>1, <1>3
  <2>2. QED
    BY <2>1, LeastElement
<1> DEFINE First(m) == \A j \in DOMAIN scans :
                         \/ Distance(scans[m], t) < Distance(scans[j], t)
                         \/ Distance(scans[m], t) = Distance(scans[j], t) /\ m <= j
<1>5. \A j \in 1 .. Len(scans) :
        \/ Distance(scans[k], t) < Distance(scans[j], t)
        \/ Distance(scans[k], t) = Distance(scans[j], t) /\ k <= j
  <2>1. TAKE j \in 1 .. Len(scans)
  <2>2. Distance(scans[k], t) = d /\ d <= Distance(scans[j], t)
    BY <1>3, <1>4
  <2>3. CASE Distance(scans[j], t) = d
    BY <1>4, <2>2, <2>3
  <2>4. CASE Distance(scans[j], t) # d
    BY <1>2, <2>2, <2>4
  <2>5. QED
    BY <2>3, <2>4
<1>6. \E m \in DOMAIN scans : First(m)
  BY <1>1, <1>5
<1>7. NearestScan(t) = scans[CHOOSE m \in DOMAIN scans : First(m)]
  BY DEF NearestScan
<1>8. PICK m \in DOMAIN scans : First(m) /\ NearestScan(t) = scans[m]
  <2> HIDE DEF First
  <2> QED BY <1>6, <1>7
<1>9. QED
  BY <1>1, <1>2, <1>8

LEMMA NearestScanType ==
  ASSUME TypeOK, NEW t \in Times
  PROVE  NearestScan(t) \in Scans \union {NoScan}
<1>1. CASE scans = <<>>
  BY <1>1 DEF NearestScan
<1>2. CASE scans # <<>>
  BY <1>2, NearestScanIs
<1>3. QED
  BY <1>1, <1>2

LEMMA SyncedFrameType ==
  ASSUME TypeOK, pending # <<>>, Bracketed(images[Head(pending)].t)
  PROVE  SyncedFrame(Head(pending)) \in Frame
<1>1. Head(pending) \in Images /\ images[Head(pending)].t \in Times
  BY Timestamps
<1>2. /\ poses[Lower(images[Head(pending)].t)] \in Scans
      /\ poses[Upper(images[Head(pending)].t)] \in Scans
  <2>1. poses \in Seq(Scans)
    BY DEF TypeOK
  <2>2. QED
    BY <1>1, <2>1, BracketExists
<1>3. NearestScan(images[Head(pending)].t) \in Scans \union {NoScan}
  BY <1>1, NearestScanType
<1>4. QED
  BY <1>1, <1>2, <1>3 DEF SyncedFrame, Frame
-----------------------------------------------------------------------------
LEMMA InitTypeOK == Init => TypeOK
BY SizesPositive, DogStreamAssumption
DEF Init, TypeOK, Scans, Images, Frame

LEMMA PushScanTypeOK == TypeOK /\ (\E t \in Times : PushScan(t)) => TypeOK'
<1> SUFFICES ASSUME TypeOK, NEW t \in Times, PushScan(t) PROVE TypeOK'
  OBVIOUS
<1>1. /\ scanT' \in Seq(Times) /\ Len(scanT') = Len(scanT) + 1 /\ Len(scanT') <= MaxScans
      /\ Len(scanT) \in Nat
  BY DogStreamAssumption DEF PushScan, TypeOK
<1>2. Scans \subseteq Scans' /\ Len(scanT) + 1 \in Scans' /\ Images' = Images
  BY <1>1 DEF Scans, Images, PushScan
<1>3. Frame \subseteq Frame'
  BY <1>2 DEF Frame
<1>4. poses' \in Seq(Scans') /\ Len(poses') <= MaxSamples
  <2>1. poses \in Seq(Scans') /\ Len(poses) <= MaxSamples
    <3>1. poses \in Seq(Scans) /\ Len(poses) <= MaxSamples
      BY DEF TypeOK
    <3>2. QED
      BY <1>2, <3>1
  <2>2. /\ PushRing(poses, Len(scanT) + 1, MaxSamples) \in Seq(Scans')
        /\ Len(PushRing(poses, Len(scanT) + 1, MaxSamples)) <= MaxSamples
    BY <1>2, <2>1, SizesPositive, PushRingProperties
  <2>3. QED
    BY <2>1, <2>2 DEF PushScan, PushPose
<1>5. scans' \in Seq(Scans') /\ Len(scans') <= ScanRing
  <2>1. scans \in Seq(Scans') /\ Len(scans) <= ScanRing
    <3>1. scans \in Seq(Scans) /\ Len(scans) <= ScanRing
      BY DEF TypeOK
    <3>2. QED
      BY <1>2, <3>1
  <2>2. /\ PushRing(scans, Len(scanT) + 1, ScanRing) \in Seq(Scans')
        /\ Len(PushRing(scans, Len(scanT) + 1, ScanRing)) <= ScanRing
    BY <1>2, <2>1, SizesPositive, PushRingProperties
  <2>3. QED
    BY <2>2 DEF PushScan
<1>6. frames' \in Seq(Frame')
  <2>1. frames \in Seq(Frame)
    BY DEF TypeOK
  <2>2. QED
    BY <1>3, <2>1 DEF PushScan
<1>7. QED
  BY <1>1, <1>2, <1>4, <1>5, <1>6 DEF PushScan, TypeOK

LEMMA PushImageTypeOK == TypeOK /\ (\E t \in Times : PushImage(t)) => TypeOK'
<1> SUFFICES ASSUME TypeOK, NEW t \in Times, PushImage(t) PROVE TypeOK'
  OBVIOUS
<1>1. /\ images' \in Seq([t : Times, seen : Nat]) /\ Len(images') = Len(images) + 1
      /\ Len(images') <= MaxImages /\ Len(images) \in Nat
  <2>1. [t |-> t, seen |-> Len(scanT)] \in [t : Times, seen : Nat]
    BY DEF TypeOK
  <2>2. images \in Seq([t : Times, seen : Nat])
    BY DEF TypeOK
  <2>3. QED
    BY <2>1, <2>2, DogStreamAssumption DEF PushImage
<1>2. Images \subseteq Images' /\ Len(images) + 1 \in Images' /\ Scans' = Scans
  BY <1>1 DEF Scans, Images, PushImage
<1>3. Frame \subseteq Frame'
  BY <1>2 DEF Frame
<1>4. /\ pending \in Seq(Images') /\ Len(pending) <= MaxPending
      /\ pending' \in Seq(Images') /\ Len(pending') <= MaxPending
  <2>1. pending \in Seq(Images') /\ Len(pending) <= MaxPending
    <3>1. pending \in Seq(Images) /\ Len(pending) <= MaxPending
      BY DEF TypeOK
    <3>2. QED
      BY <1>2, <3>1
  <2>2. /\ PushRing(pending, Len(images) + 1, MaxPending) \in Seq(Images')
        /\ Len(PushRing(pending, Len(images) + 1, MaxPending)) <= MaxPending
    BY <1>2, <2>1, SizesPositive, PushRingProperties
  <2>3. QED
    BY <2>1, <2>2 DEF PushImage, Enqueue
<1>5. frames' \in Seq(Frame')
  <2>1. frames \in Seq(Frame)
    BY DEF TypeOK
  <2>2. QED
    BY <1>3, <2>1 DEF PushImage
<1>6. /\ lost' \subseteq [image : Images', why : {"overflow", "too_old", "unbracketed"}]
      /\ droppedOverflow' \in Nat
  <2>1. lost \subseteq [image : Images', why : {"overflow", "too_old", "unbracketed"}]
    BY <1>2 DEF TypeOK
  <2>2. CASE UNCHANGED <<lost, droppedOverflow>>
    BY <2>1, <2>2 DEF TypeOK
  <2>3. CASE /\ Len(pending) >= MaxPending
             /\ lost' = lost \union {[image |-> Head(pending), why |-> "overflow"]}
             /\ droppedOverflow' = droppedOverflow + 1
    <3>1. pending # <<>>
      BY <1>4, <2>3, SizesPositive
    <3>2. Head(pending) \in Images'
      BY <1>4, <3>1
    <3>3. QED
      BY <2>1, <2>3, <3>2 DEF TypeOK
  <2>4. QED
    BY <2>2, <2>3 DEF PushImage
<1>7. QED
  BY <1>1, <1>2, <1>4, <1>5, <1>6 DEF PushImage, TypeOK

\* The front image leaves the queue.
LEMMA PopType ==
  ASSUME TypeOK, pending # <<>>
  PROVE  Tail(pending) \in Seq(Images) /\ Len(Tail(pending)) <= MaxPending
<1>1. pending \in Seq(Images) /\ Len(pending) <= MaxPending
  BY DEF TypeOK
<1>2. QED
  BY <1>1, SizesPositive

LEMMA DropHeadTypeOK ==
  ASSUME TypeOK, pending # <<>>, NEW why \in {"too_old", "unbracketed"}, DropHead(why)
  PROVE  TypeOK'
<1>1. Scans' = Scans /\ Images' = Images /\ Frame' = Frame
  BY DEF DropHead, Scans, Images, Frame
<1>2. [image |-> Head(pending), why |-> why]
        \in [image : Images, why : {"overflow", "too_old", "unbracketed"}]
  BY Timestamps
<1>3. lost' \subseteq [image : Images, why : {"overflow", "too_old", "unbracketed"}]
  BY <1>2 DEF TypeOK, DropHead
<1>4. QED
  BY <1>1, <1>3, PopType DEF TypeOK, DropHead

LEMMA EmitTypeOK == TypeOK /\ Emit => TypeOK'
<1> SUFFICES ASSUME TypeOK, Emit PROVE TypeOK'
  OBVIOUS
<1>1. Scans' = Scans /\ Images' = Images /\ Frame' = Frame
  BY DEF Emit, Scans, Images, Frame
<1>2. SyncedFrame(Head(pending)) \in Frame
  BY SyncedFrameType DEF Emit
<1>3. frames' \in Seq(Frame)
  <2>1. frames \in Seq(Frame)
    BY DEF TypeOK
  <2>2. QED
    BY <1>2, <2>1 DEF Emit
<1>4. throws' \in 0 .. MaxThrows /\ mode' \in {"idle", "drain", "flush"}
  <2>1. throws \in 0 .. MaxThrows /\ mode \in {"idle", "drain", "flush"} /\ MaxThrows \in Nat
    BY DogStreamAssumption DEF TypeOK
  <2>2. \/ throws' = throws /\ mode' = mode
        \/ throws < MaxThrows /\ throws' = throws + 1 /\ mode' = "idle"
    BY DEF Emit
  <2>3. QED
    BY <2>1, <2>2
<1>5. Tail(pending) \in Seq(Images) /\ Len(Tail(pending)) <= MaxPending
  BY PopType DEF Emit
<1>6. QED
  BY <1>1, <1>3, <1>4, <1>5 DEF TypeOK, Emit

LEMMA NextTypeOK == TypeOK /\ [Next]_vars => TypeOK'
<1> SUFFICES ASSUME TypeOK, [Next]_vars PROVE TypeOK'
  OBVIOUS
<1>1. CASE Flush \/ DrainReturn
  BY <1>1 DEF Flush, DrainReturn, TypeOK, Scans, Images, Frame
<1>2. CASE DropTooOld
  BY <1>2, DropHeadTypeOK DEF DropTooOld
<1>3. CASE DropAtFlush
  BY <1>3, DropHeadTypeOK DEF DropAtFlush
<1>4. CASE UNCHANGED vars
  BY <1>4 DEF vars, TypeOK, Scans, Images, Frame
<1>5. QED
  BY <1>1, <1>2, <1>3, <1>4, PushScanTypeOK, PushImageTypeOK, EmitTypeOK DEF Next, Drain

\* The buffers stay within their caps and every variable in its range, however long
\* the streams run.
THEOREM TypeCorrect == Spec => []TypeOK
BY InitTypeOK, NextTypeOK, PTL DEF Spec
-----------------------------------------------------------------------------
LEMMA QueueLengths ==
  ASSUME TypeOK
  PROVE  /\ Len(images) \in Nat /\ Len(pending) \in Nat /\ Len(frames) \in Nat
         /\ pending # <<>> => Len(Tail(pending)) = Len(pending) - 1
         /\ Len(Enqueue(Len(images) + 1)) =
              IF Len(pending) < MaxPending THEN Len(pending) + 1 ELSE Len(pending)
<1>1. /\ images \in Seq([t : Times, seen : Nat]) /\ frames \in Seq(Frame)
      /\ pending \in Seq(Images) /\ Len(pending) <= MaxPending
  BY DEF TypeOK
<1>2. Len(images) \in Nat /\ Len(pending) \in Nat /\ Len(frames) \in Nat
  BY <1>1, SeqElements
<1>3. pending # <<>> => Len(Tail(pending)) = Len(pending) - 1
  BY <1>1
<1>4. CASE Len(pending) < MaxPending
  BY <1>1, <1>2, <1>3, <1>4 DEF Enqueue, PushRing
<1>5. CASE ~(Len(pending) < MaxPending)
  <2>1. pending # <<>> /\ Tail(pending) \in Seq(Images)
    BY <1>1, <1>5, SizesPositive
  <2>2. Len(Append(Tail(pending), Len(images) + 1)) = Len(Tail(pending)) + 1
    BY <2>1, <1>2
  <2>3. QED
    BY <1>2, <1>3, <1>5, <2>1, <2>2 DEF Enqueue, PushRing
<1>6. QED
  BY <1>2, <1>3, <1>4, <1>5

LEMMA NextAccounting == TypeOK /\ Accounting /\ [Next]_vars => Accounting'
<1> SUFFICES ASSUME TypeOK, Accounting, [Next]_vars PROVE Accounting'
  OBVIOUS
<1> USE DEF Accounting
<1>1. emitted \in Nat /\ droppedOld \in Nat /\ droppedOverflow \in Nat
  BY DEF TypeOK
<1>2. CASE Flush \/ DrainReturn \/ UNCHANGED vars
  BY <1>2 DEF Flush, DrainReturn, vars
<1>3. CASE \E t \in Times : PushScan(t)
  BY <1>3 DEF PushScan
<1>4. ASSUME NEW t \in Times, PushImage(t) PROVE Accounting'
  <2>1. Len(images') = Len(images) + 1
    <3>1. images \in Seq([t : Times, seen : Nat])
      BY DEF TypeOK
    <3>2. QED
      BY <1>4, <3>1 DEF PushImage
  <2>2. pending' = Enqueue(Len(images) + 1) /\ frames' = frames /\ emitted' = emitted
        /\ droppedOld' = droppedOld
    BY <1>4 DEF PushImage
  <2>3. CASE Len(pending) < MaxPending /\ droppedOverflow' = droppedOverflow
    BY <1>1, <2>1, <2>2, <2>3, QueueLengths
  <2>4. CASE Len(pending) >= MaxPending /\ droppedOverflow' = droppedOverflow + 1
    BY <1>1, <2>1, <2>2, <2>4, QueueLengths, SizesPositive
  <2>5. QED
    BY <1>4, <2>3, <2>4 DEF PushImage
<1>5. CASE DropTooOld \/ DropAtFlush
  <2>1. /\ pending # <<>> /\ pending' = Tail(pending) /\ droppedOld' = droppedOld + 1
        /\ UNCHANGED <<images, frames, emitted, droppedOverflow>>
    BY <1>5 DEF DropTooOld, DropAtFlush, DropHead
  <2>2. QED
    BY <1>1, <2>1, QueueLengths
<1>6. CASE Emit
  <2>1. /\ pending # <<>> /\ pending' = Tail(pending) /\ emitted' = emitted + 1
        /\ frames' = Append(frames, SyncedFrame(Head(pending)))
        /\ UNCHANGED <<images, droppedOld, droppedOverflow>>
    BY <1>6 DEF Emit
  <2>2. Len(frames') = Len(frames) + 1
    <3>1. frames \in Seq(Frame) /\ SyncedFrame(Head(pending)) \in Frame
      BY <1>6, SyncedFrameType DEF TypeOK, Emit
    <3>2. QED
      BY <2>1, <3>1
  <2>3. PICK i, p, f, e, o, v : /\ i = Len(images) /\ p = Len(pending) /\ f = Len(frames)
                                /\ e = emitted /\ o = droppedOld /\ v = droppedOverflow
    OBVIOUS
  <2>4. /\ p \in Nat /\ e \in Nat /\ o \in Nat /\ v \in Nat /\ i = e + o + v + p /\ e = f
    BY <1>1, <2>3, QueueLengths
  <2>5. /\ Len(images') = i /\ Len(pending') = p - 1 /\ Len(frames') = f + 1
        /\ emitted' = e + 1 /\ droppedOld' = o /\ droppedOverflow' = v
    BY <2>1, <2>2, <2>3, QueueLengths
  <2>6. i = (e + 1) + o + v + (p - 1) /\ e + 1 = f + 1
    BY <2>4
  <2>7. QED
    BY <2>5, <2>6
<1>7. QED
  BY <1>2, <1>3, <1>4, <1>5, <1>6 DEF Next, Drain

\* No image is counted twice or forgotten by the diagnostics, over any mix of
\* overflows, drops, flushes and exceptions thrown by the consumer.
THEOREM AccountingHolds == Spec => []Accounting
<1>1. Init => Accounting
  BY DEF Init, Accounting
<1>2. QED
  BY <1>1, NextAccounting, TypeCorrect, PTL DEF Spec
-----------------------------------------------------------------------------
\* The delivered images, as the refinement maps them.
Handed == [k \in 1 .. Len(frames) |-> frames[k].image]

LEMMA OneMoreFrame ==
  ASSUME TypeOK, NEW f \in Frame, frames' = Append(frames, f)
  PROVE  Handed' = Append(Handed, f.image)
<1>1. frames \in Seq(Frame)
  BY DEF TypeOK
<1>2. /\ Len(frames) \in Nat /\ Len(frames') = Len(frames) + 1
      /\ frames'[Len(frames) + 1] = f
      /\ \A k \in 1 .. Len(frames) : frames'[k] = frames[k]
  BY <1>1
<1>3. Handed \in Seq(Images) /\ Len(Handed) = Len(frames)
  <2>1. \A k \in 1 .. Len(frames) : frames[k].image \in Images
    <3>1. \A k \in 1 .. Len(frames) : frames[k] \in Frame
      BY <1>1, SeqElements
    <3>2. QED
      BY <3>1 DEF Frame
  <2>2. QED
    BY <1>2, <2>1 DEF Handed
<1>4. f.image \in Images
  BY DEF Frame
<1>5. /\ Append(Handed, f.image) \in Seq(Images)
      /\ Len(Append(Handed, f.image)) = Len(frames) + 1
      /\ Append(Handed, f.image)[Len(frames) + 1] = f.image
      /\ \A k \in 1 .. Len(frames) : Append(Handed, f.image)[k] = frames[k].image
  BY <1>2, <1>3, <1>4 DEF Handed
<1>6. Append(Handed, f.image) = [k \in 1 .. Len(frames) + 1 |-> Append(Handed, f.image)[k]]
  BY <1>2, <1>5
<1>7. Handed' = [k \in 1 .. Len(frames) + 1 |-> frames'[k].image]
  BY <1>2 DEF Handed
<1>8. \A k \in 1 .. Len(frames) + 1 : frames'[k].image = Append(Handed, f.image)[k]
  BY <1>2, <1>5
<1>9. QED
  BY <1>6, <1>7, <1>8

LEMMA OneMoreLost ==
  ASSUME NEW L, NEW i, NEW why
  PROVE  {l.image : l \in L \union {[image |-> i, why |-> why]}}
           = {l.image : l \in L} \union {i}
<1> DEFINE r == [image |-> i, why |-> why]
<1>1. r.image = i
  OBVIOUS
<1>2. {l.image : l \in L \union {r}} = {l.image : l \in L} \union {r.image}
  <2> HIDE DEF r
  <2> QED OBVIOUS
<1>3. QED
  BY <1>1, <1>2

LEMMA InitRefines == Init => Delivery!Init
<1> SUFFICES ASSUME Init PROVE Delivery!Init
  OBVIOUS
<1>1. [k \in 1 .. Len(frames) |-> frames[k].image] = <<>>
  BY DEF Init
<1>2. QED
  BY <1>1 DEF Init, Delivery!Init

LEMMA StepRefines ==
  TypeOK /\ [Next]_vars => [Delivery!Next]_Delivery!deliveryVars
<1> SUFFICES ASSUME TypeOK, [Next]_vars
             PROVE  [Delivery!Next]_Delivery!deliveryVars
  OBVIOUS
<1>1. CASE UNCHANGED <<images, pending, frames, lost>>
  BY <1>1 DEF Delivery!deliveryVars
<1>2. CASE Flush \/ DrainReturn \/ UNCHANGED vars \/ \E t \in Times : PushScan(t)
  BY <1>1, <1>2 DEF Flush, DrainReturn, vars, PushScan
<1>3. ASSUME NEW t \in Times, PushImage(t) PROVE Delivery!Accept
  <2>1. Len(images') = Len(images) + 1
    <3>1. images \in Seq([t : Times, seen : Nat])
      BY DEF TypeOK
    <3>2. QED
      BY <1>3, <3>1 DEF PushImage
  <2>2. Len(pending) \in Nat /\ Len(pending) <= MaxPending
    BY QueueLengths DEF TypeOK
  <2>3. frames' = frames /\ pending' = Enqueue(Len(images) + 1)
    BY <1>3 DEF PushImage
  <2>4. CASE Len(pending) < MaxPending
    <3>1. lost' = lost /\ pending' = Append(pending, Len(images) + 1)
      BY <1>3, <2>2, <2>3, <2>4, SizesPositive DEF PushImage, Enqueue, PushRing
    <3>2. QED
      BY <2>1, <2>3, <2>4, <3>1 DEF Delivery!Accept
  <2>5. CASE ~(Len(pending) < MaxPending)
    <3>1. Len(pending) = MaxPending
      BY <2>2, <2>5, SizesPositive
    <3>2. /\ lost' = lost \union {[image |-> Head(pending), why |-> "overflow"]}
          /\ pending' = Append(Tail(pending), Len(images) + 1)
      BY <1>3, <2>3, <2>5 DEF PushImage, Enqueue, PushRing
    <3>3. {l.image : l \in lost'} = {l.image : l \in lost} \union {Head(pending)}
      BY <3>2, OneMoreLost
    <3>4. QED
      BY <2>1, <2>3, <3>1, <3>2, <3>3 DEF Delivery!Accept
  <2>6. QED
    BY <2>4, <2>5
<1>4. ASSUME NEW why \in {"too_old", "unbracketed"}, pending # <<>>, DropHead(why)
      PROVE  Delivery!Discard
  <2>1. {l.image : l \in lost'} = {l.image : l \in lost} \union {Head(pending)}
    BY <1>4, OneMoreLost DEF DropHead
  <2>2. QED
    BY <1>4, <2>1 DEF DropHead, Delivery!Discard
<1>5. CASE DropTooOld \/ DropAtFlush
  BY <1>4, <1>5 DEF DropTooOld, DropAtFlush, Delivery!Next
<1>6. CASE Emit
  <2>1. /\ pending # <<>> /\ pending' = Tail(pending)
        /\ frames' = Append(frames, SyncedFrame(Head(pending)))
        /\ UNCHANGED <<images, lost>>
    BY <1>6 DEF Emit
  <2>2. SyncedFrame(Head(pending)) \in Frame
    BY <1>6, SyncedFrameType DEF Emit
  <2>3. SyncedFrame(Head(pending)).image = Head(pending)
    BY DEF SyncedFrame
  <2>4. Handed' = Append(Handed, Head(pending))
    BY <2>1, <2>2, <2>3, OneMoreFrame
  <2>5. Delivery!Deliver
    BY <2>1, <2>4 DEF Handed, Delivery!Deliver
  <2>6. QED
    BY <2>5 DEF Delivery!Next
<1>7. QED
  BY <1>2, <1>3, <1>5, <1>6 DEF Next, Drain, Delivery!Next

\* DogStream implements ImageDelivery: every push, drop and emission is a step of
\* the abstract queue or leaves it alone.
THEOREM Refinement == Spec => DeliverySpec
<1>1. Spec => Delivery!Init /\ [][Delivery!Next]_Delivery!deliveryVars
  BY InitRefines, StepRefines, TypeCorrect, PTL DEF Spec
<1>2. QED
  BY <1>1, PTL DEF DeliverySpec, Delivery!Spec

(***************************************************************************)
(* What ImageDelivery keeps: of a images accepted, those in q wait, d were *)
(* delivered and l lost.  Order and fate need the numbering of the queue.  *)
(***************************************************************************)
Waiting(a, q) ==
  /\ a \in Nat /\ q \in Seq(Nat) /\ Len(q) <= a
  /\ \A k \in 1 .. Len(q) : q[k] = (a - Len(q)) + k

Fates(n, d, l) ==
  /\ d \in Seq(Nat)
  /\ \A j, k \in 1 .. Len(d) : j < k => d[j] < d[k]
  /\ \A k \in 1 .. Len(d) : d[k] \in 1 .. n /\ d[k] \notin l
  /\ l \subseteq 1 .. n
  /\ \A i \in 1 .. n : i \in l \/ \E k \in 1 .. Len(d) : d[k] = i

Ledger(a, q, d, l) == Waiting(a, q) /\ Fates(a - Len(q), d, l)

LEMMA LedgerAccepts ==
  ASSUME NEW a, NEW q, NEW d, NEW l, Ledger(a, q, d, l)
  PROVE  Ledger(a + 1, Append(q, a + 1), d, l)
<1>1. /\ a \in Nat /\ q \in Seq(Nat) /\ Len(q) \in Nat /\ Len(q) <= a
      /\ \A k \in 1 .. Len(q) : q[k] = (a - Len(q)) + k
      /\ Fates(a - Len(q), d, l)
  BY DEF Ledger, Waiting
<1> DEFINE p == Append(q, a + 1)
<1>2. /\ p \in Seq(Nat) /\ Len(p) = Len(q) + 1 /\ p[Len(q) + 1] = a + 1
      /\ \A k \in 1 .. Len(q) : p[k] = q[k]
  BY <1>1
<1> HIDE DEF p
<1>3. (a + 1) - Len(p) = a - Len(q) /\ Len(p) <= a + 1 /\ a + 1 \in Nat
  BY <1>1, <1>2
<1>4. ASSUME NEW k \in 1 .. Len(p) PROVE p[k] = ((a + 1) - Len(p)) + k
  <2>1. CASE k \in 1 .. Len(q)
    BY <1>1, <1>2, <1>3, <2>1
  <2>2. CASE k = Len(q) + 1
    BY <1>1, <1>2, <2>2
  <2>3. QED
    BY <1>1, <1>2, <2>1, <2>2
<1>5. Waiting(a + 1, p)
  BY <1>2, <1>3, <1>4 DEF Waiting
<1>6. Fates((a + 1) - Len(p), d, l)
  BY <1>1, <1>3
<1>7. Ledger(a + 1, p, d, l)
  BY <1>5, <1>6 DEF Ledger
<1>8. QED
  BY <1>7 DEF p

\* What popping the front of the queue leaves.
LEMMA LedgerFront ==
  ASSUME NEW a, NEW q, Waiting(a, q), q # <<>>
  PROVE  LET n == a - Len(q)
         IN  /\ n \in Nat /\ Head(q) = n + 1
             /\ Waiting(a, Tail(q)) /\ a - Len(Tail(q)) = n + 1
<1> DEFINE n == a - Len(q)
           p == Tail(q)
<1>1. /\ a \in Nat /\ q \in Seq(Nat) /\ Len(q) <= a
      /\ \A k \in 1 .. Len(q) : q[k] = n + k
  BY DEF Waiting
<1>2. Len(q) \in Nat \ {0} /\ Head(q) = q[1]
  BY <1>1
<1>3. /\ p \in Seq(Nat) /\ Len(p) = Len(q) - 1
      /\ \A k \in 1 .. Len(p) : p[k] = q[k + 1]
  BY <1>1, <1>2
<1>4. n \in Nat /\ Head(q) = n + 1
  BY <1>1, <1>2
<1>5. Len(p) <= a /\ a - Len(p) = n + 1 /\ Len(p) \in Nat
  BY <1>1, <1>2, <1>3
<1> HIDE DEF n, p
<1>6. ASSUME NEW k \in 1 .. Len(p) PROVE p[k] = (a - Len(p)) + k
  <2>1. k \in Nat /\ k + 1 \in 1 .. Len(q)
    BY <1>2, <1>3, <1>5
  <2>2. q[k + 1] = n + (k + 1)
    BY <1>1, <2>1
  <2>3. QED
    BY <1>3, <1>4, <1>5, <2>1, <2>2
<1>7. Waiting(a, p)
  BY <1>1, <1>3, <1>5, <1>6 DEF Waiting
<1>8. QED
  BY <1>4, <1>5, <1>7 DEF n, p

LEMMA FateLost ==
  ASSUME NEW n \in Nat, NEW d, NEW l, Fates(n, d, l)
  PROVE  Fates(n + 1, d, l \union {n + 1})
<1>1. 1 .. n + 1 = (1 .. n) \union {n + 1} /\ n + 1 \notin 1 .. n
  OBVIOUS
<1>2. QED
  BY <1>1 DEF Fates

LEMMA FateDelivered ==
  ASSUME NEW n \in Nat, NEW d, NEW l, Fates(n, d, l)
  PROVE  Fates(n + 1, Append(d, n + 1), l)
<1> DEFINE e == Append(d, n + 1)
<1>1. /\ d \in Seq(Nat)
      /\ \A j, k \in 1 .. Len(d) : j < k => d[j] < d[k]
      /\ \A k \in 1 .. Len(d) : d[k] \in 1 .. n /\ d[k] \notin l
      /\ l \subseteq 1 .. n
      /\ \A i \in 1 .. n : i \in l \/ \E k \in 1 .. Len(d) : d[k] = i
  BY DEF Fates
<1>2. /\ e \in Seq(Nat) /\ Len(e) = Len(d) + 1 /\ Len(d) \in Nat
      /\ e[Len(d) + 1] = n + 1
      /\ \A k \in 1 .. Len(d) : e[k] = d[k]
  BY <1>1
<1> HIDE DEF e
<1>3. 1 .. n + 1 = (1 .. n) \union {n + 1} /\ n + 1 \notin 1 .. n
  OBVIOUS
<1>4. \A k \in 1 .. Len(e) : k \in 1 .. Len(d) \/ k = Len(d) + 1
  BY <1>2
<1>5. ASSUME NEW j \in 1 .. Len(e), NEW k \in 1 .. Len(e), j < k PROVE e[j] < e[k]
  <2>1. j \in 1 .. Len(d)
    BY <1>2, <1>5
  <2>2. e[j] = d[j] /\ d[j] \in 1 .. n
    BY <1>1, <1>2, <2>1
  <2>3. CASE k \in 1 .. Len(d)
    BY <1>1, <1>2, <1>5, <2>1, <2>3
  <2>4. CASE k = Len(d) + 1
    BY <1>2, <2>2, <2>4
  <2>5. QED
    BY <1>4, <2>3, <2>4
<1>6. \A k \in 1 .. Len(e) : e[k] \in 1 .. n + 1 /\ e[k] \notin l
  BY <1>1, <1>2, <1>3, <1>4
<1>7. ASSUME NEW i \in 1 .. n + 1 PROVE i \in l \/ \E k \in 1 .. Len(e) : e[k] = i
  <2>1. CASE i = n + 1
    <3>1. Len(d) + 1 \in 1 .. Len(e)
      BY <1>2
    <3>2. QED
      BY <1>2, <2>1, <3>1
  <2>2. CASE i \in 1 .. n
    <3>1. \A k \in 1 .. Len(d) : k \in 1 .. Len(e)
      BY <1>2
    <3>2. QED
      BY <1>1, <1>2, <2>2, <3>1
  <2>3. QED
    BY <1>3, <2>1, <2>2
<1>8. l \subseteq 1 .. n + 1
  BY <1>1, <1>3
<1>9. Fates(n + 1, e, l)
  BY <1>2, <1>5, <1>6, <1>7, <1>8 DEF Fates
<1>10. QED
  BY <1>9 DEF e

LEMMA LedgerPops ==
  ASSUME NEW a, NEW q, NEW d, NEW l, Ledger(a, q, d, l), q # <<>>
  PROVE  /\ Ledger(a, Tail(q), d, l \union {Head(q)})
         /\ Ledger(a, Tail(q), Append(d, Head(q)), l)
<1> DEFINE n == a - Len(q)
<1>1. Waiting(a, q) /\ Fates(n, d, l)
  BY DEF Ledger
<1>2. n \in Nat /\ Head(q) = n + 1 /\ Waiting(a, Tail(q)) /\ a - Len(Tail(q)) = n + 1
  BY <1>1, LedgerFront
<1> HIDE DEF n
<1>3. Fates(n + 1, d, l \union {n + 1}) /\ Fates(n + 1, Append(d, n + 1), l)
  BY <1>1, <1>2, FateLost, FateDelivered
<1>4. QED
  BY <1>2, <1>3 DEF Ledger

Gone == {l.image : l \in lost}

DeliveryLedger == Ledger(Len(images), pending, Handed, Gone)

LEMMA LedgerHolds == Spec => []DeliveryLedger
<1>1. Init => DeliveryLedger
  <2> SUFFICES ASSUME Init PROVE DeliveryLedger
    OBVIOUS
  <2>2. images = <<>> /\ pending = <<>> /\ frames = <<>> /\ lost = {}
    BY DEF Init
  <2>3. Handed = <<>> /\ Gone = {} /\ Len(images) = 0
    BY <2>2 DEF Handed, Gone
  <2>4. Waiting(0, <<>>) /\ Fates(0, <<>>, {})
    BY DEF Waiting, Fates
  <2>5. QED
    BY <2>2, <2>3, <2>4 DEF DeliveryLedger, Ledger
<1>2. TypeOK /\ DeliveryLedger /\ [Next]_vars => DeliveryLedger'
  <2> SUFFICES ASSUME DeliveryLedger, [Delivery!Next]_Delivery!deliveryVars
               PROVE  DeliveryLedger'
    BY StepRefines
  <2>2. CASE UNCHANGED Delivery!deliveryVars
    <3>1. Len(images)' = Len(images) /\ pending' = pending /\ Handed' = Handed /\ Gone' = Gone
      BY <2>2 DEF Delivery!deliveryVars, Handed, Gone
    <3>2. QED
      BY <3>1 DEF DeliveryLedger
  <2>3. CASE Delivery!Accept
    <3>1. Len(images)' = Len(images) + 1 /\ Handed' = Handed
      BY <2>3 DEF Delivery!Accept, Handed
    <3>2. CASE pending' = Append(pending, Len(images) + 1) /\ Gone' = Gone
      <4>1. Ledger(Len(images) + 1, Append(pending, Len(images) + 1), Handed, Gone)
        BY LedgerAccepts DEF DeliveryLedger
      <4>2. QED
        BY <3>1, <3>2, <4>1 DEF DeliveryLedger
    <3>3. CASE /\ Len(pending) = MaxPending
               /\ pending' = Append(Tail(pending), Len(images) + 1)
               /\ Gone' = Gone \union {Head(pending)}
      <4>1. pending # <<>>
        BY <3>3, SizesPositive
      <4>2. Ledger(Len(images), Tail(pending), Handed, Gone \union {Head(pending)})
        BY <4>1, LedgerPops DEF DeliveryLedger
      <4>3. Ledger(Len(images) + 1, Append(Tail(pending), Len(images) + 1), Handed,
                   Gone \union {Head(pending)})
        BY <4>2, LedgerAccepts
      <4>4. QED
        BY <3>1, <3>3, <4>3 DEF DeliveryLedger
    <3>4. QED
      BY <2>3, <3>2, <3>3 DEF Delivery!Accept, Gone
  <2>4. CASE Delivery!Deliver
    <3>1. /\ pending # <<>> /\ pending' = Tail(pending) /\ Len(images)' = Len(images)
          /\ Handed' = Append(Handed, Head(pending)) /\ Gone' = Gone
      BY <2>4 DEF Delivery!Deliver, Handed, Gone
    <3>2. Ledger(Len(images), Tail(pending), Append(Handed, Head(pending)), Gone)
      BY <3>1, LedgerPops DEF DeliveryLedger
    <3>3. QED
      BY <3>1, <3>2 DEF DeliveryLedger
  <2>5. CASE Delivery!Discard
    <3>1. /\ pending # <<>> /\ pending' = Tail(pending) /\ Len(images)' = Len(images)
          /\ Gone' = Gone \union {Head(pending)} /\ Handed' = Handed
      BY <2>5 DEF Delivery!Discard, Handed, Gone
    <3>2. Ledger(Len(images), Tail(pending), Handed, Gone \union {Head(pending)})
      BY <3>1, LedgerPops DEF DeliveryLedger
    <3>3. QED
      BY <3>1, <3>2 DEF DeliveryLedger
  <2>6. QED
    BY <2>2, <2>3, <2>4, <2>5 DEF Delivery!Next
<1>3. QED
  BY <1>1, <1>2, TypeCorrect, PTL DEF Spec

\* Every image pushed into DogStream is delivered at most once, in arrival order, and
\* is waiting, delivered or lost, never two of these.
THEOREM DeliverySafety == Spec => [](Delivery!InArrivalOrder /\ Delivery!ExactlyOneFate)
<1>1. DeliveryLedger => Delivery!InArrivalOrder /\ Delivery!ExactlyOneFate
  BY DEF DeliveryLedger, Ledger, Fates, Handed, Gone, Delivery!InArrivalOrder,
         Delivery!ExactlyOneFate, Delivery!Resolved
<1>2. QED
  BY <1>1, LedgerHolds, PTL
-----------------------------------------------------------------------------
(***************************************************************************)
(* What the pose buffer holds: the newest samples of the trajectory, in    *)
(* order, with no sample missing between the oldest one kept and now.      *)
(***************************************************************************)
PosesComplete ==
  /\ \A s \in Scans : poses # <<>> /\ scanT[s] <= scanT[Last(poses)]
  /\ \A j, k \in 1 .. Len(poses) : j < k => scanT[poses[j]] < scanT[poses[k]]
  /\ \A k \in 1 .. Len(poses) : poses[k] \in Samples
  /\ \A s \in Samples :
       \/ \E k \in 1 .. Len(poses) : poses[k] = s
       \/ scanT[s] < scanT[poses[1]]

LEMMA SampleStable ==
  ASSUME TypeOK, NEW t \in Times, scanT' = Append(scanT, t)
  PROVE  /\ Len(scanT) \in Nat /\ Len(scanT') = Len(scanT) + 1
         /\ Scans' = Scans \union {Len(scanT) + 1}
         /\ scanT'[Len(scanT) + 1] = t
         /\ \A s \in Scans : scanT'[s] = scanT[s] /\ scanT[s] \in Int
         /\ Samples' \ {Len(scanT) + 1} = Samples
<1>1. /\ Len(scanT) \in Nat /\ Len(scanT') = Len(scanT) + 1
      /\ scanT'[Len(scanT) + 1] = t
      /\ \A s \in 1 .. Len(scanT) : scanT'[s] = scanT[s]
  <2>1. scanT \in Seq(Times)
    BY DEF TypeOK
  <2>2. QED
    BY <2>1
<1>2. Scans' = Scans \union {Len(scanT) + 1}
  BY <1>1 DEF Scans
<1>3. \A s \in Scans : scanT[s] \in Int
  BY Timestamps
<1>4. Samples' \ {Len(scanT) + 1} = Samples
  BY <1>1 DEF Samples, Scans
<1>5. QED
  BY <1>1, <1>2, <1>3, <1>4 DEF Scans

LEMMA PushScanPosesComplete ==
  ASSUME TypeOK, PosesComplete, NEW t \in Times, PushScan(t)
  PROVE  PosesComplete'
<1> DEFINE n == Len(scanT) + 1
<1>1. scanT' = Append(scanT, t) /\ poses' = PushPose(t, n)
  BY DEF PushScan
<1>2. /\ Len(scanT) \in Nat /\ n = Len(scanT) + 1 /\ Scans' = Scans \union {n} /\ scanT'[n] = t
      /\ \A s \in Scans : scanT'[s] = scanT[s] /\ scanT[s] \in Int
      /\ Samples' \ {n} = Samples /\ Samples \subseteq Scans
  BY <1>1, SampleStable DEF Samples
<1>3. /\ poses \in Seq(Scans) /\ Len(poses) <= MaxSamples /\ Len(poses) \in Nat
      /\ \A k \in 1 .. Len(poses) : poses[k] \in Scans
      /\ poses # <<>> => Len(poses) >= 1 /\ Last(poses) = poses[Len(poses)]
  <2>1. poses \in Seq(Scans) /\ Len(poses) <= MaxSamples
    BY DEF TypeOK
  <2>2. poses # <<>> => Len(poses) >= 1
    BY <2>1
  <2>3. QED
    BY <2>1, <2>2, SeqElements DEF Last
<1>4. t \in Int /\ (n \in Samples' <=> \A r \in Scans : scanT[r] < t)
  <2>1. t \in Int
    BY DogStreamAssumption
  <2>2. n \in Samples' <=> \A r \in 1 .. n - 1 : scanT'[r] < scanT'[n]
    BY <1>2 DEF Samples
  <2>3. 1 .. n - 1 = Scans
    BY <1>2 DEF Scans
  <2>4. QED
    BY <1>2, <2>1, <2>2, <2>3
<1> HIDE DEF n
<1>5. CASE poses # <<>> /\ t <= scanT[Last(poses)]
  <2>1. poses' = poses
    BY <1>1, <1>5 DEF PushPose
  <2>2. n \notin Samples'
    BY <1>2, <1>3, <1>4, <1>5
  <2>3. \A s \in Scans' : poses' # <<>> /\ scanT'[s] <= scanT'[Last(poses')]
    BY <1>2, <1>3, <1>5, <2>1 DEF PosesComplete
  <2>4. \A j, k \in 1 .. Len(poses') : j < k => scanT'[poses'[j]] < scanT'[poses'[k]]
    BY <1>2, <1>3, <2>1 DEF PosesComplete
  <2>5. \A k \in 1 .. Len(poses') : poses'[k] \in Samples'
    BY <1>2, <1>3, <2>1 DEF PosesComplete
  <2>6. \A s \in Samples' : \/ \E k \in 1 .. Len(poses') : poses'[k] = s
                          \/ scanT'[s] < scanT'[poses'[1]]
    BY <1>2, <1>3, <1>5, <2>1, <2>2 DEF PosesComplete
  <2>7. QED
    BY <2>3, <2>4, <2>5, <2>6 DEF PosesComplete
<1>6. CASE ~(poses # <<>> /\ t <= scanT[Last(poses)])
  <2> DEFINE d == IF Len(poses) < MaxSamples THEN 0 ELSE 1
  <2>1. /\ Len(poses') = Len(poses) + 1 - d /\ Len(poses') >= 1
        /\ Last(poses') = n /\ Last(poses') = poses'[Len(poses')]
        /\ \A k \in 1 .. Len(poses') - 1 : poses'[k] = poses[k + d] /\ k + d \in 1 .. Len(poses)
    <3>1. poses' = PushRing(poses, n, MaxSamples)
      BY <1>1, <1>6 DEF PushPose
    <3>2. poses \in Seq(Scans') /\ n \in Scans'
      <4>1. Scans \subseteq Scans'
        BY <1>2
      <4>2. QED
        BY <1>2, <1>3, <4>1
    <3>3. /\ Len(poses') = IF Len(poses) < MaxSamples THEN Len(poses) + 1 ELSE MaxSamples
          /\ Last(poses') = n
          /\ \A k \in 1 .. Len(poses') - 1 :
               poses'[k] = IF Len(poses) < MaxSamples THEN poses[k] ELSE poses[k + 1]
      <4>1. MaxSamples \in Nat \ {0} /\ Len(poses) <= MaxSamples
        BY <1>3, SizesPositive
      <4> DEFINE r == PushRing(poses, n, MaxSamples)
      <4>2. /\ Len(r) = IF Len(poses) < MaxSamples THEN Len(poses) + 1 ELSE MaxSamples
            /\ Last(r) = n
            /\ \A k \in 1 .. Len(r) - 1 :
                 r[k] = IF Len(poses) < MaxSamples THEN poses[k] ELSE poses[k + 1]
        BY <3>2, <4>1, PushRingProperties
      <4>3. QED
        BY <3>1, <4>2
    <3>4. QED
      BY <1>3, <3>3, SizesPositive DEF Last
  <2>2. d \in {0, 1}
    OBVIOUS
  <2>3. \A r \in Scans : scanT[r] < t
    BY <1>2, <1>3, <1>4, <1>6 DEF PosesComplete
  <2>4. \A k \in 1 .. Len(poses') - 1 :
          poses'[k] \in Scans /\ scanT'[poses'[k]] = scanT[poses[k + d]]
    BY <1>2, <1>3, <2>1
  <2> HIDE DEF d
  <2>5. \A s \in Scans' : poses' # <<>> /\ scanT'[s] <= scanT'[Last(poses')]
    BY <1>2, <1>4, <2>1, <2>3
  <2>6. \A j, k \in 1 .. Len(poses') : j < k => scanT'[poses'[j]] < scanT'[poses'[k]]
    <3>1. TAKE j, k \in 1 .. Len(poses')
    <3>2. HAVE j < k
    <3>3. j \in 1 .. Len(poses') - 1
      BY <1>3, <2>1, <2>2, <3>2
    <3>4. CASE k = Len(poses')
      BY <1>2, <1>3, <2>1, <2>3, <2>4, <3>3, <3>4
    <3>5. CASE k # Len(poses')
      <4>1. k \in 1 .. Len(poses') - 1
        BY <1>3, <2>1, <2>2, <3>5
      <4>2. j + d < k + d /\ j + d \in 1 .. Len(poses) /\ k + d \in 1 .. Len(poses)
        BY <2>1, <2>2, <3>2, <3>3, <4>1
      <4>3. scanT[poses[j + d]] < scanT[poses[k + d]]
        BY <4>2 DEF PosesComplete
      <4>4. QED
        BY <2>4, <3>3, <4>1, <4>3
    <3>6. QED
      BY <3>4, <3>5
  <2>7. \A k \in 1 .. Len(poses') : poses'[k] \in Samples'
    <3>1. TAKE k \in 1 .. Len(poses')
    <3>2. CASE k = Len(poses')
      BY <1>4, <2>1, <2>3, <3>2
    <3>3. CASE k # Len(poses')
      <4>1. k \in 1 .. Len(poses') - 1
        BY <1>3, <2>1, <2>2, <3>3
      <4>2. poses[k + d] \in Samples /\ poses'[k] = poses[k + d] /\ poses[k + d] \in Scans
        BY <1>3, <2>1, <4>1 DEF PosesComplete
      <4>3. QED
        BY <1>2, <4>2
    <3>4. QED
      BY <3>2, <3>3
  <2>8. \A s \in Samples' : \/ \E k \in 1 .. Len(poses') : poses'[k] = s
                          \/ scanT'[s] < scanT'[poses'[1]]
    <3>1. TAKE s \in Samples'
    <3>2. CASE s = n
      <4>1. Len(poses) \in Nat /\ Len(poses') = Len(poses) + 1 - d /\ Len(poses') >= 1
        BY <1>3, <2>1
      <4>2. Len(poses') \in 1 .. Len(poses')
        BY <2>2, <4>1
      <4>3. poses'[Len(poses')] = s
        BY <2>1, <3>2
      <4>4. QED
        BY <4>2, <4>3
    <3>3. CASE s # n
      <4>1. s \in Samples /\ s \in Scans /\ scanT'[s] = scanT[s]
        BY <1>2, <3>3
      <4>3. ASSUME NEW k \in 1 .. Len(poses), poses[k] = s
            PROVE  \/ \E i \in 1 .. Len(poses') : poses'[i] = s
                   \/ scanT'[s] < scanT'[poses'[1]]
        <5>1. CASE k - d >= 1
          <6>1. k - d \in 1 .. Len(poses') - 1 /\ (k - d) + d = k
            BY <1>3, <2>1, <2>2, <5>1
          <6>2. poses'[k - d] = s
            BY <2>1, <4>3, <6>1
          <6>3. QED
            BY <1>3, <2>1, <2>2, <6>1, <6>2
        <5>2. CASE ~(k - d >= 1)
          <6>1. k = 1 /\ d = 1
            BY <2>2, <5>2
          <6>2. CASE Len(poses') = 1
            BY <1>2, <2>1, <2>3, <4>1, <6>2
          <6>3. CASE Len(poses') # 1
            <7>1. 1 \in 1 .. Len(poses') - 1
              BY <1>3, <2>1, <2>2, <6>3
            <7>2. scanT'[poses'[1]] = scanT[poses[2]] /\ 2 \in 1 .. Len(poses)
              BY <2>1, <2>4, <6>1, <7>1
            <7>3. scanT[poses[1]] < scanT[poses[2]]
              BY <1>3, <7>2 DEF PosesComplete
            <7>4. QED
              BY <4>1, <4>3, <6>1, <7>2, <7>3
          <6>4. QED
            BY <6>2, <6>3
        <5>3. QED
          BY <5>1, <5>2
      <4>4. CASE scanT[s] < scanT[poses[1]]
        <5>1. CASE Len(poses') = 1
          BY <1>2, <2>1, <2>3, <4>1, <5>1
        <5>2. CASE Len(poses') # 1
          <6>1. 1 \in 1 .. Len(poses') - 1
            BY <1>3, <2>1, <2>2, <5>2
          <6>2. scanT'[poses'[1]] = scanT[poses[1 + d]] /\ 1 + d \in 1 .. Len(poses) /\ 1 \in 1 .. Len(poses)
            <7>1. scanT'[poses'[1]] = scanT[poses[1 + d]]
              BY <2>4, <6>1
            <7>2. Len(poses) \in Nat /\ Len(poses') = Len(poses) + 1 - d
              BY <1>3, <2>1
            <7>3. 1 + d \in 1 .. Len(poses) /\ 1 \in 1 .. Len(poses)
              BY <2>2, <6>1, <7>2
            <7>4. QED
              BY <7>1, <7>3
          <6>3. scanT[poses[1]] <= scanT[poses[1 + d]]
            BY <1>2, <1>3, <2>2, <6>2 DEF PosesComplete
          <6>4. QED
            BY <1>2, <1>3, <4>1, <4>4, <6>2, <6>3
        <5>3. QED
          BY <5>1, <5>2
      <4>5. QED
        BY <4>1, <4>3, <4>4 DEF PosesComplete
    <3>4. QED
      BY <3>2, <3>3
  <2>9. QED
    BY <2>5, <2>6, <2>7, <2>8 DEF PosesComplete
<1>7. QED
  BY <1>5, <1>6

\* The pair sample() picks for a bracketed image.
LEMMA BracketIsTight ==
  ASSUME TypeOK, PosesComplete, pending # <<>>, Bracketed(images[Head(pending)].t),
         NEW f, f = SyncedFrame(Head(pending)), NEW t, t = images[f.image].t
  PROVE  /\ f.lo \in Samples /\ f.hi \in Samples
         /\ IF f.lo = f.hi THEN scanT[f.lo] = t
                           ELSE scanT[f.lo] < t /\ t < scanT[f.hi]
         /\ \A s \in Samples : scanT[s] <= scanT[f.lo] \/ scanT[f.hi] <= scanT[s]
<1>1. /\ t = images[Head(pending)].t /\ f.lo = poses[Lower(t)] /\ f.hi = poses[Upper(t)]
  BY DEF SyncedFrame
<1>2. t \in Times /\ t \in Int /\ Bracketed(t)
  BY <1>1, Timestamps
<1> DEFINE u == Upper(t)
           l == Lower(t)
<1>3. /\ u \in 1 .. Len(poses) /\ l \in 1 .. Len(poses) /\ scanT[poses[u]] >= t
      /\ \A j \in 1 .. Len(poses) : scanT[poses[j]] >= t => u <= j
      /\ l = IF scanT[poses[u]] = t THEN u ELSE u - 1
  BY <1>2, BracketExists
<1> HIDE DEF u, l
<1>4. /\ Len(poses) \in Nat
      /\ \A k \in 1 .. Len(poses) : poses[k] \in Scans /\ scanT[poses[k]] \in Int
  <2>1. poses \in Seq(Scans)
    BY DEF TypeOK
  <2>2. QED
    BY <2>1, SeqElements, Timestamps
<1>5. \A k \in 1 .. Len(poses) : poses[k] \in Samples
  BY DEF PosesComplete
<1>6. IF l = u THEN scanT[poses[u]] = t
               ELSE l = u - 1 /\ scanT[poses[l]] < t /\ t < scanT[poses[u]]
  BY <1>2, <1>3, <1>4
<1>7. ~TooOld(t) /\ poses # <<>>
  BY <1>2 DEF Bracketed, NeedsNewer
<1>8. ASSUME NEW s \in Samples
      PROVE  scanT[s] <= scanT[poses[l]] \/ scanT[poses[u]] <= scanT[s]
  <2>1. scanT[s] \in Int
    BY Timestamps DEF Samples
  <2>2. CASE scanT[s] < scanT[poses[1]]
    <3>1. scanT[poses[1]] <= t /\ 1 \in 1 .. Len(poses)
      <4>1. Head(poses) = poses[1] /\ 1 \in 1 .. Len(poses)
        BY <1>3, <1>4
      <4>2. QED
        BY <1>2, <1>4, <1>7, <4>1 DEF TooOld
    <3>2. scanT[poses[1]] <= scanT[poses[l]]
      BY <1>3, <1>4, <3>1 DEF PosesComplete
    <3>3. QED
      BY <1>3, <1>4, <2>1, <2>2, <3>1, <3>2
  <2>3. ASSUME NEW k \in 1 .. Len(poses), poses[k] = s
        PROVE  scanT[s] <= scanT[poses[l]] \/ scanT[poses[u]] <= scanT[s]
    <3>1. CASE k <= l
      <4>1. k < l => scanT[poses[k]] < scanT[poses[l]]
        BY <1>3 DEF PosesComplete
      <4>2. QED
        BY <1>3, <1>4, <2>3, <3>1, <4>1
    <3>2. CASE k >= u
      BY <1>3, <1>4, <2>3, <3>2 DEF PosesComplete
    <3>3. k <= l \/ k >= u
      BY <1>3, <1>4
    <3>4. QED
      BY <3>1, <3>2, <3>3
  <2>4. QED
    BY <2>2, <2>3 DEF PosesComplete
<1>9. f.lo = poses[l] /\ f.hi = poses[u]
  BY <1>1 DEF u, l
<1>10. f.lo = f.hi => l = u
  BY <1>2, <1>4, <1>3, <1>6, <1>9
<1>11. QED
  BY <1>3, <1>5, <1>6, <1>8, <1>9, <1>10

LEMMA NextTightBracket ==
  TypeOK /\ PosesComplete /\ TightBracket /\ [Next]_vars => PosesComplete' /\ TightBracket'
<1> SUFFICES ASSUME TypeOK, PosesComplete, TightBracket, [Next]_vars
             PROVE  PosesComplete' /\ TightBracket'
  OBVIOUS
<1>1. ASSUME UNCHANGED <<scanT, poses, images, frames>>
      PROVE  PosesComplete' /\ TightBracket'
  BY <1>1 DEF PosesComplete, TightBracket, Samples, Scans
<1>2. CASE Flush \/ DrainReturn \/ DropTooOld \/ DropAtFlush \/ UNCHANGED vars
  BY <1>1, <1>2 DEF Flush, DrainReturn, DropTooOld, DropAtFlush, DropHead, vars
<1>3. frames \in Seq(Frame) /\ Len(frames) \in Nat
      /\ \A k \in 1 .. Len(frames) :
           /\ frames[k].image \in Images /\ images[frames[k].image].t \in Int
           /\ frames[k].lo \in Scans /\ frames[k].hi \in Scans
  <2>1. frames \in Seq(Frame)
    BY DEF TypeOK
  <2>2. \A k \in 1 .. Len(frames) : frames[k] \in Frame
    BY <2>1, SeqElements
  <2>3. \A k \in 1 .. Len(frames) :
          frames[k].image \in Images /\ frames[k].lo \in Scans /\ frames[k].hi \in Scans
    BY <2>2 DEF Frame
  <2>4. QED
    BY <2>1, <2>3, SeqElements, Timestamps
<1>4. ASSUME NEW t \in Times, PushScan(t) PROVE PosesComplete' /\ TightBracket'
  <2>1. PosesComplete'
    BY <1>4, PushScanPosesComplete
  <2>2. scanT' = Append(scanT, t) /\ UNCHANGED <<images, frames>>
    BY <1>4 DEF PushScan
  <2>3. /\ Len(scanT) \in Nat
        /\ Samples' \ {Len(scanT) + 1} = Samples /\ Samples \subseteq Scans
        /\ scanT'[Len(scanT) + 1] = t /\ t \in Int
        /\ \A s \in Scans : scanT'[s] = scanT[s] /\ scanT[s] \in Int
        /\ \A s \in Scans : Len(scanT) + 1 \in Samples' => scanT[s] < t
    <3>1. /\ Len(scanT) \in Nat /\ scanT'[Len(scanT) + 1] = t
          /\ Samples' \ {Len(scanT) + 1} = Samples /\ Samples \subseteq Scans
          /\ \A s \in Scans : scanT'[s] = scanT[s] /\ scanT[s] \in Int
      BY <2>2, SampleStable DEF Samples
    <3>2. \A s \in Scans : Len(scanT) + 1 \in Samples' => scanT'[s] < scanT'[Len(scanT) + 1]
      BY <3>1 DEF Samples, Scans
    <3>3. t \in Int
      BY DogStreamAssumption
    <3>4. QED
      BY <3>1, <3>2, <3>3
  <2>4. TightBracket'
    <3> SUFFICES ASSUME NEW k \in 1 .. Len(frames)
        PROVE  /\ frames[k].lo \in Samples' /\ frames[k].hi \in Samples'
               /\ IF frames[k].lo = frames[k].hi
                    THEN scanT'[frames[k].lo] = images[frames[k].image].t
                    ELSE /\ scanT'[frames[k].lo] < images[frames[k].image].t
                         /\ images[frames[k].image].t < scanT'[frames[k].hi]
               /\ \A s \in Samples' :
                    scanT'[s] <= scanT'[frames[k].lo] \/ scanT'[frames[k].hi] <= scanT'[s]
      BY <2>2 DEF TightBracket
    <3>1. /\ frames[k].lo \in Samples /\ frames[k].hi \in Samples
          /\ IF frames[k].lo = frames[k].hi
               THEN scanT[frames[k].lo] = images[frames[k].image].t
               ELSE /\ scanT[frames[k].lo] < images[frames[k].image].t
                    /\ images[frames[k].image].t < scanT[frames[k].hi]
          /\ \A s \in Samples :
               scanT[s] <= scanT[frames[k].lo] \/ scanT[frames[k].hi] <= scanT[s]
      BY DEF TightBracket
    <3>2. ASSUME NEW s \in Samples'
          PROVE  scanT'[s] <= scanT'[frames[k].lo] \/ scanT'[frames[k].hi] <= scanT'[s]
      <4>1. CASE s = Len(scanT) + 1
        BY <1>3, <2>3, <4>1
      <4>2. CASE s # Len(scanT) + 1
        BY <1>3, <2>3, <3>1, <4>2
      <4>3. QED
        BY <4>1, <4>2
    <3>3. QED
      BY <1>3, <2>3, <3>1, <3>2
  <2>5. QED
    BY <2>1, <2>4
<1>5. CASE \E t \in Times : PushImage(t)
  <2>1. PICK t \in Times : PushImage(t)
    BY <1>5
  <2>2. images' = Append(images, [t |-> t, seen |-> Len(scanT)])
        /\ UNCHANGED <<scanT, poses, frames>>
    BY <2>1 DEF PushImage
  <2>3. \A i \in Images : images'[i] = images[i]
    <3> DEFINE o == [t |-> t, seen |-> Len(scanT)]
           S == [t : Times, seen : Nat]
    <3>1. images \in Seq(S) /\ images' = Append(images, o)
      BY <2>2 DEF TypeOK
    <3> HIDE DEF o, S
    <3>2. \A i \in 1 .. Len(images) : Append(images, o)[i] = images[i]
      BY <3>1
    <3>3. QED
      BY <3>1, <3>2 DEF Images
  <2>4. PosesComplete'
    BY <2>2 DEF PosesComplete, Samples, Scans
  <2>5. Samples' = Samples
    BY <2>2 DEF Samples, Scans
  <2>6. TightBracket'
    BY <1>3, <2>2, <2>3, <2>5 DEF TightBracket
  <2>7. QED
    BY <2>4, <2>6
<1>6. CASE Emit
  <2>1. /\ pending # <<>> /\ Bracketed(images[Head(pending)].t)
        /\ frames' = Append(frames, SyncedFrame(Head(pending)))
        /\ UNCHANGED <<scanT, images, poses>>
    BY <1>6 DEF Emit
  <2>2. SyncedFrame(Head(pending)) \in Frame
    BY <2>1, SyncedFrameType
  <2>3. /\ Len(frames') = Len(frames) + 1
        /\ frames'[Len(frames) + 1] = SyncedFrame(Head(pending))
        /\ \A k \in 1 .. Len(frames) : frames'[k] = frames[k]
    BY <1>3, <2>1, <2>2
  <2>4. PosesComplete'
    BY <2>1 DEF PosesComplete, Samples, Scans
  <2>5. TightBracket'
    <3> DEFINE Tight(f) ==
          /\ f.lo \in Samples /\ f.hi \in Samples
          /\ IF f.lo = f.hi THEN scanT[f.lo] = images[f.image].t
                            ELSE scanT[f.lo] < images[f.image].t /\ images[f.image].t < scanT[f.hi]
          /\ \A s \in Samples : scanT[s] <= scanT[f.lo] \/ scanT[f.hi] <= scanT[s]
    <3>1. \A k \in 1 .. Len(frames) : Tight(frames[k])
      BY DEF TightBracket
    <3>2. Tight(SyncedFrame(Head(pending)))
      BY <2>1, BracketIsTight
    <3> HIDE DEF Tight
    <3>3. \A k \in 1 .. Len(frames') : Tight(frames'[k])
      BY <1>3, <2>3, <3>1, <3>2
    <3>4. Samples' = Samples
      BY <2>1 DEF Samples, Scans
    <3>5. QED
      BY <2>1, <3>3, <3>4 DEF Tight, TightBracket
  <2>6. QED
    BY <2>4, <2>5
<1>7. QED
  BY <1>2, <1>4, <1>5, <1>6 DEF Next, Drain

\* Every pose handed to the consumer is interpolated inside the tightest bracket of
\* the trajectory, for streams in any order.
THEOREM BracketsAreTight == Spec => []TightBracket
<1>1. Init => PosesComplete /\ TightBracket
  BY DEF Init, PosesComplete, TightBracket, Samples, Scans
<1>2. QED
  BY <1>1, NextTightBracket, TypeCorrect, PTL DEF Spec
-----------------------------------------------------------------------------
(***************************************************************************)
(* Why an image that is on time is in time.  Between two drains every      *)
(* waiting image is newer than the newest pose (the drain returned because *)
(* of it), so the next scan is the first one that can be newer than the    *)
(* image: when it is pushed, the scan before it is still in both rings,    *)
(* which hold at least two.  An exception would leave images behind that   *)
(* later scans overtake, hence throws = 0.                                 *)
(***************************************************************************)
InStep == ordered /\ throws = 0

\* Both streams and the queue run in timestamp order; no image has seen a scan
\* that is still to come.
StreamsInOrder ==
  /\ \A i \in Images : images[i].seen <= Len(scanT)
  /\ ordered =>
       /\ \A r, s \in Scans : r < s => scanT[r] <= scanT[s]
       /\ \A i, j \in Images : i < j => images[i].t <= images[j].t
       /\ \A j, k \in 1 .. Len(pending) :
            j < k => images[pending[j]].t <= images[pending[k]].t

\* The scan ring holds the last scans of the stream.
RingIsTail ==
  /\ Len(scans) = IF Len(scanT) < ScanRing THEN Len(scanT) ELSE ScanRing
  /\ \A k \in 1 .. Len(scans) : scans[k] = Len(scanT) - Len(scans) + k

\* Between drains every waiting image is newer than the newest pose.
WaitingAreNewer ==
  InStep /\ mode = "idle" =>
    \A k \in 1 .. Len(pending) : NeedsNewer(images[pending[k]].t)

\* Both rings still reach back to every waiting image that is on time.
StillReached ==
  InStep =>
    \A k \in 1 .. Len(pending) :
      LET t == images[pending[k]].t
      IN  OnTime(pending[k]) =>
            /\ poses # <<>> /\ scanT[poses[1]] <= t
            /\ scans # <<>> /\ (ScanRing >= 2 => scanT[scans[1]] <= t)

StreamInv ==
  StreamsInOrder /\ RingIsTail /\ WaitingAreNewer /\ StillReached
LEMMA StreamSequences ==
  ASSUME TypeOK
  PROVE  /\ Len(scanT) \in Nat /\ Len(images) \in Nat
         /\ \A i \in Images : images[i].seen \in Nat /\ images[i].t \in Int
         /\ \A s \in Scans : scanT[s] \in Int
         /\ Len(pending) \in Nat /\ \A k \in 1 .. Len(pending) : pending[k] \in Images
         /\ Len(poses) \in Nat /\ \A k \in 1 .. Len(poses) : poses[k] \in Scans
         /\ Len(scans) \in Nat /\ \A k \in 1 .. Len(scans) : scans[k] \in Scans
         /\ poses # <<>> => Len(poses) >= 1 /\ Head(poses) = poses[1]
         /\ scans # <<>> <=> Len(scans) >= 1
         /\ pending # <<>> => Len(pending) >= 1 /\ Head(pending) = pending[1]
<1>1. /\ scanT \in Seq(Times) /\ images \in Seq([t : Times, seen : Nat])
      /\ pending \in Seq(Images) /\ poses \in Seq(Scans) /\ scans \in Seq(Scans)
  BY DEF TypeOK
<1>2. \A i \in Images : images[i].seen \in Nat
  <2>1. \A i \in 1 .. Len(images) : images[i] \in [t : Times, seen : Nat]
    BY <1>1, SeqElements
  <2>2. QED
    BY <2>1 DEF Images
<1>3. Len(scanT) \in Nat /\ Len(images) \in Nat
  BY <1>1
<1>4. Len(pending) \in Nat /\ \A k \in 1 .. Len(pending) : pending[k] \in Images
  BY <1>1, SeqElements
<1>5. /\ Len(poses) \in Nat /\ \A k \in 1 .. Len(poses) : poses[k] \in Scans
      /\ Len(scans) \in Nat /\ \A k \in 1 .. Len(scans) : scans[k] \in Scans
  BY <1>1, SeqElements
<1>6. /\ poses # <<>> => Len(poses) >= 1 /\ Head(poses) = poses[1]
      /\ scans # <<>> <=> Len(scans) >= 1
      /\ pending # <<>> => Len(pending) >= 1 /\ Head(pending) = pending[1]
  BY <1>1
<1>7. QED
  BY <1>2, <1>3, <1>4, <1>5, <1>6, Timestamps

LEMMA PushScanStreams ==
  ASSUME TypeOK, PosesComplete, StreamInv, NEW t \in Times, PushScan(t)
  PROVE  StreamsInOrder' /\ RingIsTail'
<1> DEFINE n == Len(scanT) + 1
<1>1. /\ scanT' = Append(scanT, t) /\ scans' = PushRing(scans, n, ScanRing)
      /\ ordered /\ scanT # <<>> => Last(scanT) <= t
      /\ UNCHANGED <<images, pending, ordered>>
  BY DEF PushScan
<1>2. /\ Len(scanT) \in Nat /\ Len(scanT') = n /\ Scans' = Scans \union {n} /\ scanT'[n] = t
      /\ \A s \in Scans : scanT'[s] = scanT[s] /\ scanT[s] \in Int
  BY <1>1, SampleStable
<1>3. Images' = Images /\ t \in Int
  BY <1>1, DogStreamAssumption DEF Images
<1>4. ordered => \A s \in Scans : scanT[s] <= t
  <2>1. SUFFICES ASSUME ordered, NEW s \in Scans PROVE scanT[s] <= t
    OBVIOUS
  <2>2. Len(scanT) \in Scans /\ scanT # <<>>
    BY <1>2 DEF Scans
  <2>3. scanT[Len(scanT)] <= t
    BY <1>1, <2>1, <2>2 DEF Last
  <2>4. s < Len(scanT) => scanT[s] <= scanT[Len(scanT)]
    BY <2>1, <2>2 DEF StreamInv, StreamsInOrder
  <2>5. QED
    BY <1>2, <1>3, <2>2, <2>3, <2>4 DEF Scans
<1>5. \A i \in Images : images[i].seen \in Nat /\ images[i].seen <= Len(scanT)
  BY StreamSequences DEF StreamInv, StreamsInOrder
<1>6. StreamsInOrder'
  <2>1. \A i \in Images' : images'[i].seen <= Len(scanT')
    BY <1>1, <1>2, <1>3, <1>5
  <2>2. ordered' => \A r, s \in Scans' : r < s => scanT'[r] <= scanT'[s]
    BY <1>1, <1>2, <1>3, <1>4 DEF StreamInv, StreamsInOrder, Scans
  <2>3. QED
    BY <1>1, <1>3, <2>1, <2>2 DEF StreamInv, StreamsInOrder
<1>7. RingIsTail'
  <2>1. /\ scans \in Seq(Scans') /\ n \in Scans' /\ ScanRing \in Nat \ {0}
        /\ Len(scans) \in Nat /\ Len(scans) <= ScanRing /\ n = Len(scanT) + 1
    <3>1. scans \in Seq(Scans) /\ Len(scans) <= ScanRing
      BY DEF TypeOK
    <3>2. Scans \subseteq Scans' /\ n \in Scans'
      BY <1>2
    <3>3. QED
      BY <3>1, <3>2, SizesPositive
  <2> HIDE DEF n
  <2>2. /\ Len(scans') = IF Len(scans) < ScanRing THEN Len(scans) + 1 ELSE ScanRing
        /\ Last(scans') = n
        /\ \A k \in 1 .. Len(scans') - 1 :
             scans'[k] = IF Len(scans) < ScanRing THEN scans[k] ELSE scans[k + 1]
    <3> DEFINE r == PushRing(scans, n, ScanRing)
    <3>1. /\ Len(r) = IF Len(scans) < ScanRing THEN Len(scans) + 1 ELSE ScanRing
          /\ Last(r) = n
          /\ \A k \in 1 .. Len(r) - 1 :
               r[k] = IF Len(scans) < ScanRing THEN scans[k] ELSE scans[k + 1]
      BY <2>1, PushRingProperties
    <3>2. QED
      BY <1>1, <3>1
  <2>3. /\ Len(scans) = IF Len(scanT) < ScanRing THEN Len(scanT) ELSE ScanRing
        /\ \A k \in 1 .. Len(scans) : scans[k] = Len(scanT) - Len(scans) + k
    BY DEF StreamInv, RingIsTail
  <2>4. Len(scans') = IF Len(scanT') < ScanRing THEN Len(scanT') ELSE ScanRing
    BY <1>2, <2>1, <2>2, <2>3
  <2>5. ASSUME NEW k \in 1 .. Len(scans') PROVE scans'[k] = Len(scanT') - Len(scans') + k
    <3>1. CASE k = Len(scans')
      BY <1>2, <2>1, <2>2, <3>1 DEF Last
    <3>2. CASE k # Len(scans') /\ Len(scans) < ScanRing
      <4>1. k \in 1 .. Len(scans) /\ k \in 1 .. Len(scans') - 1
        BY <2>1, <2>2, <3>2
      <4>2. scans'[k] = Len(scanT) - Len(scans) + k
        BY <2>2, <2>3, <3>2, <4>1
      <4>3. QED
        BY <1>2, <2>1, <2>2, <3>2, <4>2
    <3>3. CASE k # Len(scans') /\ ~(Len(scans) < ScanRing)
      <4>1. /\ k + 1 \in 1 .. Len(scans) /\ k \in 1 .. Len(scans') - 1
            /\ Len(scans) = ScanRing
        BY <2>1, <2>2, <3>3
      <4>2. scans'[k] = Len(scanT) - Len(scans) + (k + 1)
        <5>1. scans'[k] = scans[k + 1]
          BY <2>2, <3>3, <4>1
        <5>2. QED
          BY <2>3, <4>1, <5>1
      <4>3. QED
        BY <1>2, <2>1, <2>2, <4>1, <4>2
    <3>4. QED
      BY <3>1, <3>2, <3>3
  <2>6. QED
    BY <2>4, <2>5 DEF RingIsTail
<1>8. QED
  BY <1>6, <1>7

\* Scans pushed after an image do not change whether it was on time.
LEMMA OnTimeStable ==
  ASSUME TypeOK, StreamsInOrder, NEW t \in Times, scanT' = Append(scanT, t),
         images' = images, NEW i \in Images
  PROVE  OnTime(i)' <=> OnTime(i)
<1>1. /\ Len(scanT) \in Nat /\ images[i].seen \in Nat /\ images[i].seen <= Len(scanT)
      /\ \A s \in Scans : scanT'[s] = scanT[s]
  BY SampleStable, StreamSequences DEF StreamsInOrder
<1>2. \A s \in 1 .. images[i].seen : s \in Scans
  BY <1>1 DEF Scans
<1>3. QED
  BY <1>1, <1>2 DEF OnTime

LEMMA PushScanReached ==
  ASSUME TypeOK, PosesComplete, StreamInv, NEW t \in Times, PushScan(t)
  PROVE  StillReached'
<1> DEFINE n == Len(scanT) + 1
<1>1. /\ scanT' = Append(scanT, t) /\ scans' = PushRing(scans, n, ScanRing)
      /\ poses' = PushPose(t, n) /\ mode = "idle"
      /\ UNCHANGED <<images, pending, ordered, throws>>
  BY DEF PushScan
<1>2. /\ Len(scanT) \in Nat /\ Len(scanT') = n /\ Scans' = Scans \union {n} /\ scanT'[n] = t
      /\ \A s \in Scans : scanT'[s] = scanT[s] /\ scanT[s] \in Int
  BY <1>1, SampleStable
<1>3. SUFFICES ASSUME InStep, NEW k \in 1 .. Len(pending), OnTime(pending[k])'
      PROVE  /\ poses' # <<>> /\ scanT'[poses'[1]] <= images[pending[k]].t
             /\ scans' # <<>>
             /\ ScanRing >= 2 => scanT'[scans'[1]] <= images[pending[k]].t
  BY <1>1 DEF StillReached, InStep
<1> DEFINE i == pending[k]
           ti == images[pending[k]].t
<1>4. i \in Images /\ ti \in Int /\ OnTime(i) /\ images[i].seen \in Nat
      /\ images[i].seen <= Len(scanT)
  <2>1. i \in Images /\ ti \in Int /\ images[i].seen \in Nat
    BY StreamSequences
  <2>2. QED
    BY <1>1, <1>3, <2>1, OnTimeStable DEF StreamInv, StreamsInOrder
<1>5. Len(scanT) \in Scans /\ poses # <<>>
  BY <1>2, <1>4 DEF OnTime, Scans, PosesComplete
<1>6. \A s \in Scans : scanT[s] < ti
  <2>1. NeedsNewer(ti)
    BY <1>1, <1>3 DEF StreamInv, WaitingAreNewer
  <2>2. \A s \in Scans : scanT[s] <= scanT[Last(poses)]
    BY DEF PosesComplete
  <2>3. scanT[Last(poses)] \in Int
    BY <1>2, <1>5, StreamSequences DEF Last
  <2>4. QED
    BY <1>2, <1>4, <1>5, <2>1, <2>2, <2>3 DEF NeedsNewer
<1> HIDE DEF i, ti
<1>7. poses' # <<>> /\ poses'[1] \in Scans
  <2>1. CASE poses' = poses
    BY <1>5, <2>1, StreamSequences
  <2>2. CASE poses' = PushRing(poses, n, MaxSamples)
    <3>1. /\ poses \in Seq(Scans') /\ n \in Scans' /\ MaxSamples \in Nat \ {0, 1}
          /\ Len(poses) <= MaxSamples /\ Len(poses) >= 1 /\ Len(poses) \in Nat
      <4>1. poses \in Seq(Scans) /\ Len(poses) <= MaxSamples
        BY DEF TypeOK
      <4>2. Scans \subseteq Scans' /\ n \in Scans'
        BY <1>2
      <4>3. QED
        BY <1>5, <4>1, <4>2, SizesPositive, StreamSequences
    <3>2. /\ poses' \in Seq(Scans')
          /\ Len(poses') = IF Len(poses) < MaxSamples THEN Len(poses) + 1 ELSE MaxSamples
          /\ \A j \in 1 .. Len(poses') - 1 :
               poses'[j] = IF Len(poses) < MaxSamples THEN poses[j] ELSE poses[j + 1]
      <4> DEFINE r == PushRing(poses, n, MaxSamples)
      <4>1. MaxSamples \in Nat \ {0} /\ Len(poses) <= MaxSamples
        BY <3>1
      <4>2. poses \in Seq(Scans') /\ n \in Scans'
        BY <3>1
      <4> HIDE DEF n
      <4>3. /\ r \in Seq(Scans')
            /\ Len(r) = IF Len(poses) < MaxSamples THEN Len(poses) + 1 ELSE MaxSamples
            /\ \A j \in 1 .. Len(r) - 1 :
                 r[j] = IF Len(poses) < MaxSamples THEN poses[j] ELSE poses[j + 1]
        BY <4>1, <4>2, PushRingProperties
      <4>4. poses' = r
        BY <2>2
      <4> HIDE DEF r
      <4>5. QED
        BY <4>3, <4>4
    <3>3. Len(poses') >= 2 /\ poses' \in Seq(Scans') /\ Len(poses') \in Nat
          /\ poses'[1] = IF Len(poses) < MaxSamples THEN poses[1] ELSE poses[2]
      BY <3>1, <3>2
    <3>4. QED
      BY <3>1, <3>3, StreamSequences
  <2>3. QED
    BY <1>1, <2>1, <2>2 DEF PushPose
<1>8. scans' # <<>> /\ (ScanRing >= 2 => scans'[1] \in Scans)
  <2>1. RingIsTail' /\ ScanRing \in Nat \ {0}
    BY PushScanStreams, SizesPositive
  <2>2. Len(scans') = IF n < ScanRing THEN n ELSE ScanRing
    BY <1>2, <2>1 DEF RingIsTail
  <2>3. Len(scanT) >= 1
    BY <1>2, <1>5 DEF Scans
  <2>4. Len(scans') >= 1 /\ scans'[1] = n - Len(scans') + 1
    <3>1. Len(scans') \in Nat /\ 1 \in 1 .. Len(scans')
      BY <1>2, <2>1, <2>2, <2>3
    <3>2. scans'[1] = Len(scanT') - Len(scans') + 1
      BY <2>1, <3>1 DEF RingIsTail
    <3>3. QED
      BY <1>2, <3>1, <3>2
  <2>5. scans' # <<>>
    BY <2>4
  <2>6. QED
    BY <1>2, <2>1, <2>2, <2>3, <2>4, <2>5 DEF Scans
<1>9. /\ scanT'[poses'[1]] <= ti
      /\ ScanRing >= 2 => scanT'[scans'[1]] <= ti
  <2>1. \A s \in Scans : scanT'[s] < ti /\ scanT'[s] \in Int /\ ti \in Int
    BY <1>2, <1>4, <1>6
  <2>2. \A s \in Scans : scanT'[s] <= ti
    BY <2>1
  <2>3. QED
    BY <1>7, <1>8, <2>2
<1>10. QED
  BY <1>7, <1>8, <1>9 DEF ti
LEMMA PushScanStreamInv ==
  ASSUME TypeOK, PosesComplete, StreamInv, NEW t \in Times, PushScan(t)
  PROVE  StreamInv'
<1>1. WaitingAreNewer'
  BY DEF PushScan, WaitingAreNewer
<1>2. QED
  BY <1>1, PushScanStreams, PushScanReached DEF StreamInv

LEMMA ImagesStable ==
  ASSUME TypeOK, NEW t \in Times, PushImage(t)
  PROVE  /\ Len(images) \in Nat /\ Len(images') = Len(images) + 1
         /\ Images' = Images \union {Len(images) + 1}
         /\ images'[Len(images) + 1] = [t |-> t, seen |-> Len(scanT)]
         /\ \A i \in Images : images'[i] = images[i]
<1>1. images' = Append(images, [t |-> t, seen |-> Len(scanT)]) /\ scanT' = scanT
  BY DEF PushImage
<1>2. images \in Seq([t : Times, seen : Nat]) /\ Len(scanT) \in Nat
  BY DEF TypeOK
<1>3. /\ Len(images) \in Nat /\ Len(images') = Len(images) + 1
      /\ images'[Len(images) + 1] = [t |-> t, seen |-> Len(scanT)]
      /\ \A i \in 1 .. Len(images) : images'[i] = images[i]
  BY <1>1, <1>2
<1>4. Images' = Images \union {Len(images) + 1}
  BY <1>3 DEF Images
<1>5. \A i \in Images : images'[i] = images[i]
  BY <1>3 DEF Images
<1>6. QED
  BY <1>3, <1>4, <1>5

LEMMA PushImageStreamInv ==
  ASSUME TypeOK, PosesComplete, StreamInv, NEW t \in Times, PushImage(t)
  PROVE  StreamInv'
<1> DEFINE n == Len(images) + 1
           d == IF Len(pending) < MaxPending THEN 0 ELSE 1
<1>1. /\ images' = Append(images, [t |-> t, seen |-> Len(scanT)]) /\ mode' = "drain"
      /\ pending' = PushRing(pending, n, MaxPending)
      /\ ordered /\ images # <<>> => Last(images).t <= t
      /\ UNCHANGED <<scanT, poses, scans, ordered, throws>>
  BY DEF PushImage, Enqueue
<1>2. /\ Len(images) \in Nat /\ n = Len(images) + 1
      /\ Images' = Images \union {n} /\ images'[n].t = t /\ images'[n].seen = Len(scanT)
      /\ \A i \in Images : images'[i] = images[i]
  <2>1. [t |-> t, seen |-> Len(scanT)].t = t /\ [t |-> t, seen |-> Len(scanT)].seen = Len(scanT)
    OBVIOUS
  <2>2. QED
    BY <2>1, ImagesStable
<1>3. t \in Int /\ Len(scanT) \in Nat /\ Scans' = Scans
      /\ \A i \in Images : images[i].t \in Int /\ images[i].seen \in Nat
  BY <1>1, DogStreamAssumption, StreamSequences DEF Scans
<1>4. ordered => \A i \in Images : images[i].t <= t
  <2>1. SUFFICES ASSUME ordered, NEW i \in Images PROVE images[i].t <= t
    OBVIOUS
  <2>2. Len(images) \in Images /\ images # <<>>
    BY <1>2 DEF Images
  <2>3. images[Len(images)].t <= t
    BY <1>1, <2>1, <2>2 DEF Last
  <2>4. i < Len(images) => images[i].t <= images[Len(images)].t
    BY <2>1, <2>2 DEF StreamInv, StreamsInOrder
  <2>5. QED
    BY <1>2, <1>3, <2>2, <2>3, <2>4 DEF Images
<1> HIDE DEF n
<1>5. /\ Len(pending) \in Nat /\ Len(pending') \in Nat /\ d \in {0, 1}
      /\ pending'[Len(pending')] = n
      /\ \A k \in 1 .. Len(pending') - 1 :
           /\ k + d \in 1 .. Len(pending) /\ pending'[k] = pending[k + d]
           /\ pending'[k] \in Images
  <2>1. pending \in Seq(Images) /\ Len(pending) <= MaxPending /\ MaxPending \in Nat \ {0}
        /\ Len(pending) \in Nat
    BY SizesPositive, StreamSequences DEF TypeOK
  <2>2. pending \in Seq(Images') /\ n \in Images'
    <3>1. Images \subseteq Images' /\ n \in Images'
      BY <1>2
    <3>2. QED
      BY <2>1, <3>1
  <2> DEFINE r == PushRing(pending, n, MaxPending)
  <2>3. /\ r \in Seq(Images') /\ Last(r) = n
        /\ Len(r) = IF Len(pending) < MaxPending THEN Len(pending) + 1 ELSE MaxPending
        /\ \A k \in 1 .. Len(r) - 1 :
             r[k] = IF Len(pending) < MaxPending THEN pending[k] ELSE pending[k + 1]
    BY <2>1, <2>2, PushRingProperties
  <2>4. /\ Len(pending') \in Nat /\ pending'[Len(pending')] = n
        /\ Len(pending') = IF Len(pending) < MaxPending THEN Len(pending) + 1 ELSE MaxPending
        /\ \A k \in 1 .. Len(pending') - 1 :
             pending'[k] = IF Len(pending) < MaxPending THEN pending[k] ELSE pending[k + 1]
    <3>1. pending' = r
      BY <1>1
    <3> HIDE DEF r
    <3>2. QED
      BY <2>1, <2>3, <3>1 DEF Last
  <2>5. ASSUME NEW k \in 1 .. Len(pending') - 1
        PROVE  k + d \in 1 .. Len(pending) /\ pending'[k] = pending[k + d]
    BY <2>1, <2>4
  <2>6. QED
    BY <2>1, <2>4, <2>5, StreamSequences
<1> HIDE DEF d
<1>6. StreamsInOrder'
  <2>1. \A i \in Images' : images'[i].seen <= Len(scanT')
    <3>1. \A i \in Images : images[i].seen <= Len(scanT)
      BY DEF StreamInv, StreamsInOrder
    <3>2. scanT' = scanT
      BY <1>1
    <3>3. QED
      BY <1>2, <1>3, <3>1, <3>2
  <2>2. ordered' => \A r, s \in Scans' : r < s => scanT'[r] <= scanT'[s]
    BY <1>1, <1>3 DEF StreamInv, StreamsInOrder
  <2>3. ordered' => \A i, j \in Images' : i < j => images'[i].t <= images'[j].t
    <3>1. \A i \in Images : i < n
      BY <1>2 DEF Images
    <3>2. \A i, j \in Images' : i < j => i \in Images
      BY <1>2, <3>1 DEF Images
    <3>3. ordered => \A i, j \in Images : i < j => images[i].t <= images[j].t
      BY DEF StreamInv, StreamsInOrder
    <3>4. ordered' = ordered
      BY <1>1
    <3>5. QED
      BY <1>2, <1>4, <3>1, <3>2, <3>3, <3>4
  <2>4. ASSUME ordered', NEW j \in 1 .. Len(pending'), NEW k \in 1 .. Len(pending'), j < k
        PROVE  images'[pending'[j]].t <= images'[pending'[k]].t
    <3>1. j \in 1 .. Len(pending') - 1
      BY <1>5, <2>4
    <3>2. CASE k = Len(pending')
      BY <1>1, <1>2, <1>4, <1>5, <2>4, <3>1, <3>2
    <3>3. CASE k # Len(pending')
      <4>1. k \in 1 .. Len(pending') - 1
        BY <1>5, <3>3
      <4>2. j + d < k + d /\ j + d \in 1 .. Len(pending) /\ k + d \in 1 .. Len(pending)
        BY <1>5, <2>4, <3>1, <4>1
      <4>3. images[pending[j + d]].t <= images[pending[k + d]].t
        BY <1>1, <2>4, <4>2 DEF StreamInv, StreamsInOrder
      <4>4. QED
        BY <1>2, <1>5, <3>1, <4>1, <4>3
    <3>4. QED
      BY <3>2, <3>3
  <2>5. QED
    BY <2>1, <2>2, <2>3, <2>4 DEF StreamsInOrder
<1>7. RingIsTail' /\ WaitingAreNewer'
  BY <1>1 DEF StreamInv, RingIsTail, WaitingAreNewer
<1>8. StillReached'
  <2>1. SUFFICES ASSUME InStep, NEW k \in 1 .. Len(pending'), OnTime(pending[k])'
        PROVE  /\ poses # <<>> /\ scanT[poses[1]] <= images'[pending'[k]].t
               /\ scans # <<>>
               /\ ScanRing >= 2 => scanT[scans[1]] <= images'[pending'[k]].t
    BY <1>1 DEF StillReached, InStep
  <2>2. CASE k = Len(pending')
    <3>1. pending'[k] = n
      BY <1>5, <2>2
    <3>2. Len(scanT) > 0 /\ \A s \in Scans : scanT[s] <= t
      <4>1. /\ images'[n].seen > 0
            /\ \A s \in 1 .. images'[n].seen : scanT'[s] <= images'[n].t
        BY <2>1, <3>1 DEF OnTime
      <4>2. scanT' = scanT
        BY <1>1
      <4>3. QED
        BY <1>2, <4>1, <4>2 DEF Scans
    <3>3. poses # <<>> /\ poses[1] \in Scans
      <4>1. Len(scanT) \in Scans
        BY <1>3, <3>2 DEF Scans
      <4>2. QED
        BY <4>1, StreamSequences DEF PosesComplete
    <3>4. scans # <<>> /\ scans[1] \in Scans
      <4>1. Len(scans) >= 1
        BY <1>3, <3>2, SizesPositive DEF StreamInv, RingIsTail
      <4>2. QED
        BY <4>1, StreamSequences
    <3>5. QED
      BY <1>2, <3>1, <3>2, <3>3, <3>4
  <2>3. CASE k # Len(pending')
    <3>1. k \in 1 .. Len(pending') - 1
      BY <1>5, <2>3
    <3>2. pending'[k] = pending[k + d] /\ k + d \in 1 .. Len(pending) /\ pending'[k] \in Images
      BY <1>5, <3>1
    <3>3. OnTime(pending[k + d]) /\ images'[pending'[k]].t = images[pending[k + d]].t
      <4> DEFINE i == pending[k + d]
      <4>1. images'[i] = images[i] /\ pending'[k] = i /\ scanT' = scanT
        BY <1>1, <1>2, <3>2
      <4>2. /\ images'[i].seen > 0
            /\ \A s \in 1 .. images'[i].seen : scanT'[s] <= images'[i].t
        BY <2>1, <4>1 DEF OnTime
      <4>3. QED
        BY <4>1, <4>2 DEF OnTime
    <3>4. QED
      BY <2>1, <3>2, <3>3 DEF StreamInv, StillReached
  <2>4. QED
    BY <2>2, <2>3
<1>9. QED
  BY <1>6, <1>7, <1>8 DEF StreamInv
\* A step of the drain takes at most the front image off the queue.
LEMMA DrainStreamInv ==
  ASSUME TypeOK, StreamInv, WaitingAreNewer', throws' >= throws,
         UNCHANGED <<scanT, images, poses, scans, ordered>>,
         \/ pending' = pending
         \/ pending # <<>> /\ pending' = Tail(pending)
  PROVE  StreamInv'
<1>1. PICK d \in {0, 1} :
        \A k \in 1 .. Len(pending') :
          k + d \in 1 .. Len(pending) /\ pending'[k] = pending[k + d]
  <2>1. pending \in Seq(Images)
    BY DEF TypeOK
  <2>2. CASE pending' = pending
    <3>1. \A k \in 1 .. Len(pending') : k + 0 \in 1 .. Len(pending) /\ pending'[k] = pending[k + 0]
      BY <2>1, <2>2
    <3>2. QED
      BY <3>1
  <2>3. CASE pending # <<>> /\ pending' = Tail(pending)
    <3>1. \A k \in 1 .. Len(pending') : k + 1 \in 1 .. Len(pending) /\ pending'[k] = pending[k + 1]
      BY <2>1, <2>3
    <3>2. QED
      BY <3>1
  <2>4. QED
    BY <2>2, <2>3
<1>2. Len(pending) \in Nat /\ \A k \in 1 .. Len(pending') : k \in Nat
  BY StreamSequences
<1>3. StreamsInOrder'
  <2>1. ASSUME ordered, NEW j \in 1 .. Len(pending'), NEW k \in 1 .. Len(pending'), j < k
        PROVE  images[pending'[j]].t <= images[pending'[k]].t
    <3>1. j + d < k + d
      BY <1>2, <2>1
    <3>2. QED
      BY <1>1, <2>1, <3>1 DEF StreamInv, StreamsInOrder
  <2>2. Scans' = Scans /\ Images' = Images
    BY DEF Scans, Images
  <2>3. QED
    BY <2>1, <2>2 DEF StreamInv, StreamsInOrder
<1>4. RingIsTail'
  BY DEF StreamInv, RingIsTail
<1>5. StillReached'
  <2>1. SUFFICES ASSUME InStep', NEW k \in 1 .. Len(pending'), OnTime(pending[k])'
        PROVE  /\ poses # <<>> /\ scanT[poses[1]] <= images[pending'[k]].t
               /\ scans # <<>>
               /\ ScanRing >= 2 => scanT[scans[1]] <= images[pending'[k]].t
    BY DEF StillReached
  <2>2. InStep
    <3>1. throws \in Nat
      BY DogStreamAssumption DEF TypeOK
    <3>2. QED
      BY <2>1, <3>1 DEF InStep
  <2>3. pending'[k] = pending[k + d] /\ k + d \in 1 .. Len(pending)
    BY <1>1
  <2>4. OnTime(pending[k + d])
    <3> DEFINE i == pending[k + d]
    <3>1. /\ images'[pending'[k]].seen > 0
          /\ \A s \in 1 .. images'[pending'[k]].seen : scanT'[s] <= images'[pending'[k]].t
      BY <2>1 DEF OnTime
    <3>2. pending'[k] = i
      BY <2>3
    <3> HIDE DEF i
    <3>3. OnTime(i)
      BY <3>1, <3>2 DEF OnTime
    <3>4. QED
      BY <3>3 DEF i
  <2>5. QED
    BY <2>2, <2>3, <2>4 DEF StreamInv, StillReached
<1>6. QED
  BY <1>3, <1>4, <1>5 DEF StreamInv

LEMMA NextStreamInv == TypeOK /\ PosesComplete /\ StreamInv /\ [Next]_vars => StreamInv'
<1> SUFFICES ASSUME TypeOK, PosesComplete, StreamInv, [Next]_vars PROVE StreamInv'
  OBVIOUS
<1>1. throws \in Nat
  BY DogStreamAssumption DEF TypeOK
<1>2. CASE UNCHANGED vars
  <2>1. WaitingAreNewer'
    BY <1>2 DEF vars, StreamInv, WaitingAreNewer, InStep, NeedsNewer, Last
  <2>2. QED
    BY <1>1, <1>2, <2>1, DrainStreamInv DEF vars
<1>3. CASE Flush
  BY <1>1, <1>3, DrainStreamInv DEF Flush, WaitingAreNewer
<1>4. CASE DrainReturn
  <2>1. ASSUME InStep', NEW k \in 1 .. Len(pending) PROVE NeedsNewer(images[pending[k]].t)
    <3>1. ordered
      BY <1>4, <2>1 DEF InStep, DrainReturn
    <3>2. /\ Len(pending) \in Nat /\ pending # <<>> /\ 1 \in 1 .. Len(pending)
          /\ Head(pending) = pending[1]
      BY StreamSequences
    <3>3. NeedsNewer(images[pending[1]].t)
      BY <1>4, <3>2 DEF DrainReturn
    <3>4. 1 < k => images[pending[1]].t <= images[pending[k]].t
      BY <3>1, <3>2 DEF StreamInv, StreamsInOrder
    <3>5. images[pending[1]].t \in Int /\ images[pending[k]].t \in Int
      BY <3>2, StreamSequences
    <3>6. poses # <<>> => scanT[Last(poses)] \in Int
      BY StreamSequences DEF Last
    <3>7. CASE k = 1
      BY <3>3, <3>7
    <3>8. CASE k # 1
      BY <3>2, <3>3, <3>4, <3>5, <3>6, <3>8 DEF NeedsNewer
    <3>9. QED
      BY <3>7, <3>8
  <2>2. WaitingAreNewer'
    BY <1>4, <2>1 DEF DrainReturn, WaitingAreNewer, NeedsNewer, Last
  <2>3. QED
    BY <1>1, <1>4, <2>2, DrainStreamInv DEF DrainReturn
<1>5. CASE DropTooOld \/ DropAtFlush
  BY <1>1, <1>5, DrainStreamInv DEF DropTooOld, DropAtFlush, DropHead, WaitingAreNewer
<1>6. CASE Emit
  <2>1. /\ pending # <<>> /\ pending' = Tail(pending) /\ mode # "idle"
        /\ UNCHANGED <<scanT, images, poses, scans, ordered>>
        /\ UNCHANGED <<throws, mode>> \/ throws' = throws + 1
    BY <1>6 DEF Emit
  <2>2. throws' >= throws /\ WaitingAreNewer'
    BY <1>1, <2>1 DEF WaitingAreNewer, InStep
  <2>3. QED
    BY <2>1, <2>2, DrainStreamInv
<1>7. QED
  BY <1>2, <1>3, <1>4, <1>5, <1>6, PushScanStreamInv, PushImageStreamInv DEF Next, Drain
-----------------------------------------------------------------------------
\* Streams that are in order, and a hook that has not thrown, were so all along.
LEMMA InStepBefore ==
  ASSUME TypeOK, [Next]_vars
  PROVE  ordered' = ordered /\ (InStep' => InStep)
<1>1. throws \in Nat
  BY DogStreamAssumption DEF TypeOK
<1>2. CASE Emit
  <2>1. ordered' = ordered /\ (throws' = throws \/ throws' = throws + 1)
    BY <1>2 DEF Emit
  <2>2. QED
    BY <1>1, <2>1 DEF InStep
<1>3. CASE UNCHANGED <<ordered, throws>>
  BY <1>3 DEF InStep
<1>4. QED
  BY <1>2, <1>3
  DEF Next, PushScan, PushImage, Flush, Drain, DrainReturn, DropTooOld, DropAtFlush, DropHead,
      vars

LEMMA NextNeverTooOld ==
  TypeOK /\ StreamInv /\ OnTimeNeverTooOld /\ [Next]_vars => OnTimeNeverTooOld'
<1> SUFFICES ASSUME TypeOK, StreamInv, OnTimeNeverTooOld, [Next]_vars,
                    InStep', NEW l \in lost', l.why = "too_old"
             PROVE  ~OnTime(l.image)'
  BY DEF OnTimeNeverTooOld, InStep
<1>2. InStep
  BY InStepBefore
<1>4. ASSUME l \in lost PROVE l.image \in Images /\ ~OnTime(l.image)
  BY <1>2, <1>4 DEF OnTimeNeverTooOld, TypeOK, InStep
<1>5. CASE UNCHANGED <<scanT, images, lost>>
  BY <1>4, <1>5 DEF OnTime
<1>6. CASE \E t \in Times : PushScan(t)
  <2>1. PICK t \in Times : PushScan(t)
    BY <1>6
  <2>2. l \in lost /\ scanT' = Append(scanT, t) /\ images' = images
    BY <2>1 DEF PushScan
  <2>3. QED
    BY <1>4, <2>2, OnTimeStable DEF StreamInv
<1>7. CASE \E t \in Times : PushImage(t)
  <2>1. PICK t \in Times : PushImage(t)
    BY <1>7
  <2>2. l \in lost
    <3>1. ASSUME NEW i PROVE l # [image |-> i, why |-> "overflow"]
      OBVIOUS
    <3>2. lost' = lost \/ lost' = lost \union {[image |-> Head(pending), why |-> "overflow"]}
      BY <2>1 DEF PushImage
    <3>3. QED
      BY <3>1, <3>2
  <2>3. images'[l.image] = images[l.image] /\ scanT' = scanT
    BY <1>4, <2>1, <2>2, ImagesStable DEF PushImage
  <2>4. QED
    BY <1>4, <2>2, <2>3 DEF OnTime
<1>8. CASE DropTooOld
  <2>1. /\ pending # <<>> /\ TooOld(images[Head(pending)].t)
        /\ lost' = lost \union {[image |-> Head(pending), why |-> "too_old"]}
        /\ UNCHANGED <<scanT, images>>
    BY <1>8 DEF DropTooOld, DropHead
  <2>2. CASE l \in lost
    BY <1>4, <2>1, <2>2 DEF OnTime
  <2>3. CASE l = [image |-> Head(pending), why |-> "too_old"]
    <3>1. l.image = pending[1] /\ 1 \in 1 .. Len(pending) /\ Head(pending) = pending[1]
      BY <2>1, <2>3, StreamSequences
    <3>2. poses # <<>> /\ Head(poses) = poses[1] /\ images[pending[1]].t < scanT[poses[1]]
      BY <2>1, <3>1, StreamSequences DEF TooOld
    <3>3. images[pending[1]].t \in Int /\ scanT[poses[1]] \in Int
      BY <3>1, <3>2, StreamSequences
    <3>4. ~OnTime(pending[1])
      <4>1. OnTime(pending[1]) => scanT[poses[1]] <= images[pending[1]].t
        BY <1>2, <3>1 DEF StreamInv, StillReached
      <4>2. QED
        BY <3>2, <3>3, <4>1
    <3>5. QED
      BY <2>1, <3>1, <3>4 DEF OnTime
  <2>4. QED
    BY <2>1, <2>2, <2>3
<1>9. CASE DropAtFlush
  <2>1. /\ lost' = lost \union {[image |-> Head(pending), why |-> "unbracketed"]}
        /\ UNCHANGED <<scanT, images>>
    BY <1>9 DEF DropAtFlush, DropHead
  <2>2. l # [image |-> Head(pending), why |-> "unbracketed"]
    OBVIOUS
  <2>3. QED
    BY <1>4, <2>1, <2>2 DEF OnTime
<1>10. CASE Flush \/ DrainReturn \/ Emit \/ UNCHANGED vars
  BY <1>5, <1>10 DEF Flush, DrainReturn, Emit, vars
<1>11. QED
  BY <1>6, <1>7, <1>8, <1>9, <1>10 DEF Next, Drain

LEMMA InitStreamInv == Init => StreamInv
BY SizesPositive DEF Init, StreamInv, StreamsInOrder, RingIsTail, WaitingAreNewer, StillReached,
                     Scans, Images

\* The invariant of the theorems below, and of the drains they are about.
THEOREM StreamsKeepStep == Spec => [](PosesComplete /\ TightBracket /\ StreamInv)
<1>1. Init => PosesComplete /\ TightBracket
  BY DEF Init, PosesComplete, TightBracket, Samples, Scans
<1>2. QED
  BY <1>1, InitStreamInv, NextTightBracket, NextStreamInv, TypeCorrect, PTL DEF Spec

\* An image that is on time is never given up as too old, for any sizes of the
\* buffers, any gaps between the scans and any burst of images.
THEOREM OnTimeIsPlaced == Spec => []OnTimeNeverTooOld
<1>1. Init => OnTimeNeverTooOld
  BY DEF Init, OnTimeNeverTooOld
<1>2. QED
  BY <1>1, NextNeverTooOld, StreamsKeepStep, TypeCorrect, PTL DEF Spec
-----------------------------------------------------------------------------
\* The scan attached to an image that is on time is the nearest one of the stream so
\* far: a scan that left the ring is older than the oldest one in it, which is not
\* newer than the image.
LEMMA NearestSoFar ==
  ASSUME TypeOK, StreamInv, InStep, ScanRing >= 2, pending # <<>>, OnTime(Head(pending)),
         NEW t, t = images[Head(pending)].t
  PROVE  /\ NearestScan(t) \in Scans
         /\ \A s \in Scans : Distance(NearestScan(t), t) <= Distance(s, t)
<1>1. Head(pending) = pending[1] /\ 1 \in 1 .. Len(pending) /\ pending[1] \in Images
  BY StreamSequences
<1>2. t \in Times /\ t \in Int
  BY <1>1, Timestamps
<1>3. scans # <<>> /\ scanT[scans[1]] <= t
  BY <1>1 DEF StreamInv, StillReached
<1>4. /\ Len(scanT) \in Nat /\ Len(scans) \in Nat /\ Len(scans) >= 1 /\ ScanRing \in Nat
      /\ \A s \in Scans : scanT[s] \in Int
      /\ \A k \in 1 .. Len(scans) : scans[k] \in Scans
  BY <1>3, StreamSequences, SizesPositive
<1>5. PICK m \in 1 .. Len(scans) :
        /\ NearestScan(t) = scans[m] /\ scans[m] \in Scans
        /\ \A j \in 1 .. Len(scans) : Distance(scans[m], t) <= Distance(scans[j], t)
  BY <1>2, <1>3, NearestScanIs
<1>6. \A s \in Scans : Distance(s, t) \in Nat
  BY <1>2, <1>4 DEF Distance
<1>7. ASSUME NEW s \in Scans PROVE Distance(scans[m], t) <= Distance(s, t)
  <2> DEFINE j == s - (Len(scanT) - Len(scans))
  <2>1. CASE j \in 1 .. Len(scans)
    <3>1. scans[j] = Len(scanT) - Len(scans) + j
      BY <2>1 DEF StreamInv, RingIsTail
    <3>2. scans[j] = s
      BY <1>4, <2>1, <3>1 DEF Scans
    <3>3. QED
      BY <1>5, <2>1, <3>2
  <2>2. CASE j \notin 1 .. Len(scans)
    <3>1. 1 \in 1 .. Len(scans) /\ scans[1] = Len(scanT) - Len(scans) + 1
      <4>1. 1 \in 1 .. Len(scans)
        BY <1>4
      <4>2. QED
        BY <4>1 DEF StreamInv, RingIsTail
    <3>2. s < scans[1] /\ scans[1] \in Scans
      <4>1. j \in Int /\ j <= Len(scans)
        BY <1>4 DEF Scans
      <4>2. j < 1
        BY <1>4, <2>2, <4>1
      <4>3. s < scans[1]
        BY <1>4, <3>1, <4>2 DEF Scans
      <4>4. QED
        BY <1>4, <3>1, <4>3
    <3>3. scanT[s] <= scanT[scans[1]]
      BY <3>2 DEF StreamInv, StreamsInOrder, InStep
    <3>4. Distance(scans[1], t) <= Distance(s, t)
      <4>1. scanT[s] \in Int /\ scanT[scans[1]] \in Int
        BY <1>4, <3>2
      <4>2. Distance(scans[1], t) = t - scanT[scans[1]]
        BY <1>2, <1>3, <4>1 DEF Distance
      <4>3. Distance(s, t) = t - scanT[s]
        BY <1>2, <1>3, <3>3, <4>1 DEF Distance
      <4>4. QED
        BY <1>2, <3>3, <4>1, <4>2, <4>3
    <3>5. Distance(scans[m], t) <= Distance(scans[1], t)
      BY <1>5, <3>1
    <3>6. QED
      BY <1>5, <1>6, <3>2, <3>4, <3>5
  <2>3. QED
    BY <2>1, <2>2
<1>8. QED
  BY <1>5, <1>7

\* What the property says of one frame.
NearestAttached(f) ==
  OnTime(f.image) =>
    /\ f.scan # NoScan
    /\ \A s \in Scans :
         Distance(f.scan, images[f.image].t) <= Distance(s, images[f.image].t)

\* A scan pushed later is not nearer than the sample that closed the bracket.
LEMMA PushScanNearest ==
  ASSUME TypeOK, StreamInv, ordered, NEW t \in Times, PushScan(t),
         NEW f \in Frame, images[f.image].t <= scanT[f.hi], NearestAttached(f)
  PROVE  NearestAttached(f)'
<1>n. PICK n \in Nat : n = Len(scanT) + 1
  BY StreamSequences
<1>1. scanT' = Append(scanT, t) /\ images' = images /\ (scanT # <<>> => Last(scanT) <= t)
  BY DEF PushScan
<1>2. /\ Len(scanT) \in Nat /\ Scans' = Scans \union {n} /\ scanT'[n] = t /\ t \in Int
      /\ \A s \in Scans : scanT'[s] = scanT[s] /\ scanT[s] \in Int
  BY <1>1, <1>n, SampleStable, DogStreamAssumption
<1>3. PICK i \in Images, h \in Scans, sc \in Scans \union {NoScan} :
        f.image = i /\ f.hi = h /\ f.scan = sc
  BY DEF Frame
<1>4. PICK ti \in Int : images[i].t = ti
  BY Timestamps
<1>5. ti <= scanT[h] /\ scanT[h] \in Int
  BY <1>2, <1>3, <1>4
<1>6. scanT[h] <= t
  <2>1. Len(scanT) \in Scans /\ scanT # <<>>
    BY <1>2 DEF Scans
  <2>2. h < Len(scanT) => scanT[h] <= scanT[Len(scanT)]
    BY <2>1 DEF StreamInv, StreamsInOrder
  <2>3. QED
    BY <1>1, <1>2, <2>1, <2>2 DEF Last, Scans
<1>7. SUFFICES ASSUME OnTime(i)'
      PROVE  sc # NoScan /\ \A s \in Scans' : Distance(sc, ti)' <= Distance(s, ti)'
  BY <1>1, <1>3, <1>4 DEF NearestAttached
<1>8. OnTime(i)
  BY <1>1, <1>7, OnTimeStable DEF StreamInv
<1>9. /\ sc # NoScan /\ sc \in Scans
      /\ \A s \in Scans : Distance(sc, ti) <= Distance(s, ti)
  BY <1>3, <1>4, <1>8 DEF NearestAttached
<1>10. \A s \in Scans : Distance(s, ti)' = Distance(s, ti) /\ Distance(s, ti) \in Nat
  BY <1>2 DEF Distance
<1>11. Distance(h, ti) <= Distance(n, ti)' /\ Distance(n, ti)' \in Nat
  BY <1>2, <1>5, <1>6 DEF Distance
<1>12. Distance(sc, ti)' <= Distance(n, ti)'
  BY <1>9, <1>10, <1>11
<1>13. \A s \in Scans : Distance(sc, ti)' <= Distance(s, ti)'
  BY <1>9, <1>10
<1>14. QED
  BY <1>2, <1>9, <1>12, <1>13
LEMMA NextNearest ==
  TypeOK /\ StreamInv /\ TightBracket /\ OnTimeGetsNearestScan /\ [Next]_vars
    => OnTimeGetsNearestScan'
<1> SUFFICES ASSUME TypeOK, StreamInv, TightBracket, OnTimeGetsNearestScan, [Next]_vars,
                    InStep', ScanRing >= 2
             PROVE  \A k \in 1 .. Len(frames') : NearestAttached(frames[k])'
  BY DEF OnTimeGetsNearestScan, NearestAttached, InStep, ScanRing
<1>1. InStep /\ ordered
  BY InStepBefore DEF InStep
<1>2. \A k \in 1 .. Len(frames) : NearestAttached(frames[k])
  BY <1>1 DEF OnTimeGetsNearestScan, NearestAttached, InStep
<1>3. /\ frames \in Seq(Frame) /\ Len(frames) \in Nat
      /\ \A k \in 1 .. Len(frames) : frames[k] \in Frame
  BY SeqElements DEF TypeOK
<1>4. ASSUME UNCHANGED <<scanT, images>>, NEW f, NearestAttached(f) PROVE NearestAttached(f)'
  BY <1>4 DEF NearestAttached, OnTime, Distance, Scans
<1>5. CASE UNCHANGED <<scanT, images, frames>>
  <2> SUFFICES ASSUME NEW k \in 1 .. Len(frames) PROVE NearestAttached(frames[k])'
    BY <1>5
  <2>1. PICK f : f = frames[k]
    OBVIOUS
  <2>2. NearestAttached(f)'
    BY <1>2, <1>4, <1>5, <2>1
  <2>3. f = frames'[k]
    BY <1>5, <2>1
  <2>4. QED
    BY <2>2, <2>3 DEF NearestAttached
<1>6. CASE \E t \in Times : PushScan(t)
  <2>1. PICK t \in Times : PushScan(t)
    BY <1>6
  <2>2. frames' = frames
    BY <2>1 DEF PushScan
  <2> SUFFICES ASSUME NEW k \in 1 .. Len(frames) PROVE NearestAttached(frames[k])'
    BY <2>2
  <2>3. PICK f \in Frame : f = frames[k]
    BY <1>3
  <2>4. images[f.image].t <= scanT[f.hi] /\ NearestAttached(f)
    <3>1. IF f.lo = f.hi THEN scanT[f.lo] = images[f.image].t
                         ELSE scanT[f.lo] < images[f.image].t /\ images[f.image].t < scanT[f.hi]
      BY <2>3 DEF TightBracket
    <3>2. images[f.image].t \in Int /\ scanT[f.hi] \in Int
      BY Timestamps DEF Frame
    <3>3. QED
      BY <1>2, <2>3, <3>1, <3>2
  <2>5. NearestAttached(f)'
    BY <1>1, <2>1, <2>4, PushScanNearest
  <2>6. f = frames'[k]
    BY <2>2, <2>3
  <2>7. QED
    BY <2>5, <2>6 DEF NearestAttached
<1>7. CASE \E t \in Times : PushImage(t)
  <2>1. PICK t \in Times : PushImage(t)
    BY <1>7
  <2>2. frames' = frames /\ scanT' = scanT
    BY <2>1 DEF PushImage
  <2> SUFFICES ASSUME NEW k \in 1 .. Len(frames) PROVE NearestAttached(frames[k])'
    BY <2>2
  <2>3. PICK f \in Frame : f = frames[k]
    BY <1>3
  <2>4. PICK i \in Images : f.image = i
    BY DEF Frame
  <2>5. images'[i] = images[i]
    BY <2>1, ImagesStable
  <2>6. NearestAttached(f)
    BY <1>2, <2>3
  <2>7. NearestAttached(f)'
    BY <2>2, <2>4, <2>5, <2>6 DEF NearestAttached, OnTime, Distance, Scans
  <2>8. f = frames'[k]
    BY <2>2, <2>3
  <2>9. QED
    BY <2>7, <2>8 DEF NearestAttached
<1>8. CASE Emit
  <2>1. /\ pending # <<>> /\ Bracketed(images[Head(pending)].t)
        /\ frames' = Append(frames, SyncedFrame(Head(pending)))
        /\ UNCHANGED <<scanT, images>>
    BY <1>8 DEF Emit
  <2>2. PICK g \in Frame : g = SyncedFrame(Head(pending))
    BY <2>1, SyncedFrameType
  <2>3. /\ Len(frames') = Len(frames) + 1 /\ frames'[Len(frames) + 1] = g
        /\ \A k \in 1 .. Len(frames) : frames'[k] = frames[k]
    BY <1>3, <2>1, <2>2
  <2>4. NearestAttached(g)
    <3>1. /\ g.image = Head(pending)
          /\ g.scan = NearestScan(images[Head(pending)].t)
      BY <2>2 DEF SyncedFrame
    <3>2. ASSUME OnTime(Head(pending))
          PROVE  /\ NearestScan(images[Head(pending)].t) \in Scans
                 /\ \A s \in Scans :
                      Distance(NearestScan(images[Head(pending)].t), images[Head(pending)].t)
                        <= Distance(s, images[Head(pending)].t)
      BY <1>1, <2>1, <3>2, NearestSoFar
    <3>3. NoScan \notin Scans
      BY DogStreamAssumption DEF Scans
    <3>4. QED
      BY <3>1, <3>2, <3>3 DEF NearestAttached
  <2> SUFFICES ASSUME NEW k \in 1 .. Len(frames) + 1 PROVE NearestAttached(frames[k])'
    BY <2>3
  <2>5. PICK f : f = frames'[k] /\ NearestAttached(f)
    <3>1. CASE k = Len(frames) + 1
      BY <2>3, <2>4, <3>1
    <3>2. CASE k # Len(frames) + 1
      <4>1. k \in 1 .. Len(frames)
        BY <1>3, <3>2
      <4>2. QED
        BY <1>2, <2>3, <4>1
    <3>3. QED
      BY <3>1, <3>2
  <2>6. NearestAttached(f)'
    BY <1>4, <2>1, <2>5
  <2>7. QED
    BY <2>5, <2>6 DEF NearestAttached
<1>9. CASE Flush \/ DrainReturn \/ DropTooOld \/ DropAtFlush \/ UNCHANGED vars
  BY <1>5, <1>9 DEF Flush, DrainReturn, DropTooOld, DropAtFlush, DropHead, vars
<1>10. QED
  BY <1>6, <1>7, <1>8, <1>9 DEF Next, Drain

\* An image that is on time keeps the nearest scan of the whole stream, whatever the
\* ring has forgotten by then and whatever is still to be pushed.
THEOREM OnTimeIsMatched == Spec => []OnTimeGetsNearestScan
<1>1. Init => OnTimeGetsNearestScan
  BY DEF Init, OnTimeGetsNearestScan
<1>2. QED
  BY <1>1, NextNearest, StreamsKeepStep, TypeCorrect, PTL DEF Spec
=============================================================================
