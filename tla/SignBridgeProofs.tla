-------------------------- MODULE SignBridgeProofs --------------------------
(***************************************************************************)
(* The single-in-flight gate and the counters of SignBridge, for any       *)
(* number of frames, any signs and objects, and any detector that keeps    *)
(* the promise of SignDetector: it may reject, fail or never answer.       *)
(*                                                                         *)
(* SingleInFlight is not inductive: it says nothing of the pipeline that   *)
(* stands between two critical sections.  GateInv adds what onFrame knows  *)
(* at each such point, and relates the counters there too.  The cache of   *)
(* answers and the matching of signs with objects follow: the matching     *)
(* serves the signs one by one, so its result is described by what the     *)
(* signs before a given one have left.                                     *)
(*                                                                         *)
(* The mock's two threads implement SignDetector, for any queue and any    *)
(* number of requests.                                                     *)
(***************************************************************************)
EXTENDS SignBridge, MockDetector, NatLemmas, FiniteSetTheorems, TLAPS

Reading == [footprint : Footprints \union {{}}, text : Nat]

\* The request just enqueued is not counted yet, and one being enqueued was not sent.
Uncounted == IF pc = "count" THEN 1 ELSE 0
InFlight  == IF pc \in {"enqueue", "undo"} THEN 0 ELSE inflight

Types ==
  /\ pc \in {"frame", "reserve", "enqueue", "count", "undo", "annotate", "compute",
             "destroy", "gone"}
  /\ sign \in Footprints \union {{}}
  /\ inflight \in {0, 1}
  /\ nextId \in Nat \ {0}
  /\ DOMAIN pending \subseteq 1 .. nextId - 1
  /\ \A id \in DOMAIN pending : pending[id] \in Footprints \union {{}}
  /\ resolved \in Seq(Reading)
  /\ nDispatched \in Nat /\ nFailed \in Nat

Slot ==
  /\ NeverRacesGate
  /\ inflight = 0 => DOMAIN pending = {}
  /\ inflight = 1 => \E id \in 1 .. nextId - 1 : DOMAIN pending = {id}
  /\ pc \in {"enqueue", "undo"} => inflight = 1 /\ DOMAIN pending = {nextId - 1}
  /\ outstanding = IF pc \in {"enqueue", "undo"} THEN {} ELSE DOMAIN pending

Balance == nDispatched + Uncounted = Len(resolved) + nFailed + InFlight

GateInv == Types /\ Slot /\ Balance

LEMMA InitGateInv == Init => GateInv
BY DEF Init, GateInv, Types, Slot, Balance, Uncounted, InFlight, NeverRacesGate,
       DetectorInit

LEMMA ReserveGateInv == GateInv /\ Reserve => GateInv'
<1> SUFFICES ASSUME GateInv, Reserve PROVE GateInv'
  OBVIOUS
<1> USE DEF GateInv
<1>1. /\ pc = "reserve" /\ inflight = 0 /\ pc' = "enqueue" /\ inflight' = 1
      /\ nextId' = nextId + 1 /\ pending' = With(pending, nextId, sign)
      /\ UNCHANGED <<sign, resolved, nFailed, nDispatched, outstanding>>
  BY DEF Reserve, Slot, NeverRacesGate, resultVars, detectorVars
<1>2. nextId \in Nat \ {0} /\ DOMAIN pending = {} /\ outstanding = {}
  BY <1>1 DEF Types, Slot
<1>3. DOMAIN pending' = {nextId} /\ pending'[nextId] = sign
  BY <1>1, <1>2 DEF With
<1>4. Types'
  BY <1>1, <1>2, <1>3 DEF Types
<1>5. Slot'
  BY <1>1, <1>2, <1>3 DEF Slot, NeverRacesGate
<1>6. Balance'
  BY <1>1 DEF Balance, Uncounted, InFlight
<1>7. QED
  BY <1>4, <1>5, <1>6

LEMMA OnResultGateInv ==
  ASSUME GateInv, NEW id \in outstanding, NEW read \in BOOLEAN, OnResult(id, read)
  PROVE  GateInv'
<1> USE DEF GateInv
<1>1. /\ pc \notin {"enqueue", "undo"} /\ inflight = 1 /\ DOMAIN pending = {id}
      /\ id \in Nat /\ outstanding = {id} /\ pending[id] \in Footprints \union {{}}
  <2>1. pc \notin {"enqueue", "undo"} /\ outstanding = DOMAIN pending
    BY DEF Slot
  <2>2. inflight = 1
    BY <2>1 DEF Slot, Types
  <2>3. PICK x \in 1 .. nextId - 1 : DOMAIN pending = {x}
    BY <2>2 DEF Slot
  <2>4. id = x
    BY <2>1, <2>3
  <2>5. nextId \in Nat /\ pending[id] \in Footprints \union {{}}
    BY <2>1 DEF Types
  <2>6. QED
    BY <2>1, <2>2, <2>3, <2>4, <2>5
<1>2. /\ inflight' = 0 /\ outstanding' = {} /\ pending' = Without(pending, id)
      /\ UNCHANGED <<pc, sign, nextId, nDispatched>>
  BY <1>1 DEF OnResult, Answer
<1>3. DOMAIN pending' = {}
  BY <1>1, <1>2 DEF Without
<1>4. resolved \in Seq(Reading) /\ nFailed \in Nat /\ nDispatched \in Nat /\ Len(resolved) \in Nat
  BY DEF Types
<1>5. resolved' \in Seq(Reading) /\ nFailed' \in Nat
      /\ Len(resolved') + nFailed' = Len(resolved) + nFailed + 1
  <2>1. CASE read
    <3>1. resolved' = Append(resolved, [footprint |-> pending[id], text |-> id])
          /\ nFailed' = nFailed
      BY <1>1, <2>1 DEF OnResult
    <3>2. [footprint |-> pending[id], text |-> id] \in Reading
      BY <1>1 DEF Reading
    <3>3. QED
      BY <1>4, <3>1, <3>2
  <2>2. CASE ~read
    <3>1. resolved' = resolved /\ nFailed' = nFailed + 1
      BY <1>1, <2>2 DEF OnResult
    <3>2. QED
      BY <1>4, <3>1
  <2>3. QED
    BY <2>1, <2>2
<1>6. Types'
  BY <1>2, <1>3, <1>5 DEF Types
<1>7. Slot'
  BY <1>1, <1>2, <1>3 DEF Slot, NeverRacesGate
<1>8. Balance'
  <2>1. Len(resolved') \in Nat
    BY <1>5
  <2>2. QED
    BY <1>1, <1>2, <1>4, <1>5, <2>1 DEF Balance, Uncounted, InFlight
<1>9. QED
  BY <1>6, <1>7, <1>8

LEMMA OnFrameGateInv == GateInv /\ OnFrame => GateInv'
<1> SUFFICES ASSUME GateInv, OnFrame PROVE GateInv'
  OBVIOUS
<1> USE DEF GateInv
<1>1. CASE FrameWithoutSign
  BY <1>1 DEF FrameWithoutSign, Types, Slot, Balance, Uncounted, InFlight, NeverRacesGate,
              dispatchVars, resultVars, detectorVars
<1>2. ASSUME NEW fp \in Footprints, FrameWithSign(fp) PROVE GateInv'
  BY <1>2 DEF FrameWithSign, Types, Slot, Balance, Uncounted, InFlight, NeverRacesGate,
              resultVars, detectorVars
<1>3. CASE EnqueueAccepted
  <2>1. /\ pc = "enqueue" /\ pc' = "count" /\ inflight = 1 /\ DOMAIN pending = {nextId - 1}
        /\ outstanding' = {nextId - 1}
        /\ UNCHANGED <<sign, inflight, nextId, pending, resolved, nFailed, nDispatched>>
    BY <1>3 DEF EnqueueAccepted, Accept, Slot, dispatchVars, resultVars
  <2>2. Types' /\ Slot'
    BY <2>1 DEF Types, Slot, NeverRacesGate
  <2>3. nDispatched \in Nat /\ nFailed \in Nat /\ Len(resolved) \in Nat
    BY DEF Types
  <2>4. Balance'
    BY <2>1, <2>3 DEF Balance, Uncounted, InFlight
  <2>5. QED
    BY <2>2, <2>4
<1>4. CASE EnqueueRejected
  BY <1>4 DEF EnqueueRejected, Types, Slot, Balance, Uncounted, InFlight, NeverRacesGate,
              dispatchVars, resultVars, detectorVars
<1>5. CASE Undo
  <2>1. /\ pc = "undo" /\ pc' = "annotate" /\ inflight' = 0
        /\ pending' = Without(pending, nextId - 1)
        /\ UNCHANGED <<sign, nextId, resolved, nFailed, nDispatched, outstanding>>
    BY <1>5 DEF Undo, resultVars, detectorVars
  <2>2. DOMAIN pending = {nextId - 1} /\ outstanding = {}
    BY <2>1 DEF Slot
  <2>3. DOMAIN pending' = {}
    BY <2>1, <2>2 DEF Without
  <2>4. QED
    BY <2>1, <2>2, <2>3 DEF Types, Slot, Balance, Uncounted, InFlight, NeverRacesGate
<1>6. CASE Count
  <2>1. /\ pc = "count" /\ pc' = "annotate" /\ nDispatched' = nDispatched + 1
        /\ UNCHANGED <<sign, inflight, nextId, pending, resolved, nFailed, outstanding>>
    BY <1>6 DEF Count, resultVars, detectorVars
  <2>2. nDispatched \in Nat /\ nFailed \in Nat /\ Len(resolved) \in Nat
    BY DEF Types
  <2>3. Types'
    BY <2>1, <2>2 DEF Types
  <2>4. Slot'
    BY <2>1 DEF Slot, NeverRacesGate
  <2>5. Balance'
    BY <2>1, <2>2 DEF Balance, Uncounted, InFlight
  <2>6. QED
    BY <2>3, <2>4, <2>5
<1>7. QED
  BY <1>1, <1>2, <1>3, <1>4, <1>5, <1>6, ReserveGateInv DEF OnFrame

\* Steps that touch neither the gate nor the counters.
LEMMA OtherGateInv ==
  ASSUME GateInv, pc \notin {"reserve", "enqueue", "undo", "count"},
         pc' \in {"frame", "annotate", "compute", "destroy", "gone"},
         UNCHANGED <<sign, inflight, nextId, pending, resolved, nFailed, nDispatched, outstanding>>
  PROVE  GateInv'
BY DEF GateInv, Types, Slot, Balance, Uncounted, InFlight, NeverRacesGate

LEMMA NextGateInv == GateInv /\ [Next]_vars => GateInv'
<1> SUFFICES ASSUME GateInv, [Next]_vars PROVE GateInv'
  OBVIOUS
<1>1. CASE Annotate
  BY <1>1, OtherGateInv
  DEF Annotate, SkipAnnotate, AnnotateNothing, AnnotateFromCache, AnnotateBegin, AnnotateEnd,
      dispatchVars, resultVars, detectorVars
<1>2. CASE Consolidate \/ Destroy \/ Destroyed
  BY <1>2, OtherGateInv
  DEF Consolidate, Destroy, Destroyed, StopReturn, dispatchVars, resultVars, detectorVars
<1>3. CASE UNCHANGED vars
  BY <1>3 DEF vars, dispatchVars, resultVars, detectorVars, GateInv, Types, Slot, Balance,
              Uncounted, InFlight, NeverRacesGate
<1>4. QED
  BY <1>1, <1>2, <1>3, OnFrameGateInv, OnResultGateInv DEF Next, Pipeline, Detector

\* At most one request is with the detector, its footprint is kept until the answer,
\* and the gate is open exactly when there is none; onFrame never races it.
THEOREM GateHolds == Spec => [](SingleInFlight /\ NeverRacesGate)
<1>1. GateInv => SingleInFlight /\ NeverRacesGate
  BY DEF GateInv, Slot, SingleInFlight
<1>2. QED
  BY <1>1, InitGateInv, NextGateInv, PTL DEF Spec

\* Every request sent is read, failed or in flight, and counted once.
THEOREM CountersHold == Spec => []CountersAddUp
<1>1. GateInv => CountersAddUp
  BY DEF GateInv, Balance, Types, Uncounted, InFlight, CountersAddUp
<1>2. QED
  BY <1>1, InitGateInv, NextGateInv, PTL DEF Spec
-----------------------------------------------------------------------------
(* The cache of annotate *)

\* A frame dispatches one request at most, so there are fewer signs than frames
\* and no generation is ever Never.
Underway == IF pc \in {"reserve", "enqueue", "undo", "count"} THEN 1 ELSE 0

Paced == frames \in 0 .. MaxFrames /\ nDispatched + Underway <= frames

\* What the cache was computed from is what its generation and its age say.
CacheInv ==
  /\ gen = Len(resolved) /\ callsSince \in Nat
  /\ basis \in [signs : Nat, calls : Nat]
  /\ pc # "compute" /\ cachedGen # Never => basis.signs = cachedGen /\ basis.calls = callsSince
  /\ pc = "compute" => cachedGen = Len(signs) /\ callsSince = 0
  /\ AnswerIsCurrent

AnswerInv == GateInv /\ Paced /\ CacheInv

LEMMA GenIsBounded ==
  ASSUME AnswerInv
  PROVE  gen \in Nat /\ gen <= MaxFrames /\ gen # Never
<1>1. /\ nDispatched \in Nat /\ nFailed \in Nat /\ Len(resolved) \in Nat /\ gen = Len(resolved)
      /\ frames \in 0 .. MaxFrames /\ MaxFrames \in Nat
  BY SignBridgeAssumption DEF AnswerInv, GateInv, Types, Paced, CacheInv
<1>2. nDispatched + Uncounted <= frames
  BY <1>1 DEF AnswerInv, Paced, Underway, Uncounted
<1>3. Len(resolved) <= nDispatched + Uncounted
  <2>1. InFlight \in Nat
    BY DEF AnswerInv, GateInv, Types, InFlight
  <2>2. QED
    BY <1>1, <2>1 DEF AnswerInv, GateInv, Balance, Uncounted
<1>4. QED
  BY <1>1, <1>2, <1>3 DEF Never, Uncounted

LEMMA InitAnswerInv == Init => AnswerInv
<1> SUFFICES ASSUME Init PROVE AnswerInv
  OBVIOUS
<1>1. GateInv
  BY InitGateInv
<1>2. Paced
  BY SignBridgeAssumption DEF Init, Paced, Underway
<1>3. CacheInv
  BY SignBridgeAssumption DEF Init, CacheInv, AnswerIsCurrent
<1>4. QED
  BY <1>1, <1>2, <1>3 DEF AnswerInv

LEMMA NextPaced == AnswerInv /\ [Next]_vars => Paced'
<1> SUFFICES ASSUME AnswerInv, [Next]_vars PROVE Paced'
  OBVIOUS
<1>1. frames \in Nat /\ frames <= MaxFrames /\ nDispatched \in Nat /\ MaxFrames \in Nat
      /\ nDispatched + Underway <= frames
  BY SignBridgeAssumption DEF AnswerInv, GateInv, Types, Paced
<1>2. CASE FrameWithoutSign \/ \E fp \in Footprints : FrameWithSign(fp)
  BY <1>1, <1>2 DEF FrameWithoutSign, FrameWithSign, Paced, Underway, dispatchVars
<1>3. CASE Count
  BY <1>1, <1>3 DEF Count, Paced, Underway
<1>4. CASE Reserve \/ EnqueueAccepted \/ EnqueueRejected \/ Undo
  BY <1>1, <1>4 DEF Reserve, EnqueueAccepted, EnqueueRejected, Undo, Paced, Underway, dispatchVars
<1>5. CASE Consolidate \/ Annotate \/ Destroy \/ Destroyed
  BY <1>1, <1>5 DEF Consolidate, Annotate, SkipAnnotate, AnnotateNothing, AnnotateFromCache,
                    AnnotateBegin, AnnotateEnd, Destroy, Destroyed, Paced, Underway, dispatchVars
<1>6. CASE Detector
  BY <1>1, <1>6 DEF Detector, OnResult, Paced, Underway
<1>7. CASE UNCHANGED vars
  BY <1>1, <1>7 DEF vars, dispatchVars, Paced, Underway
<1>8. QED
  BY <1>2, <1>3, <1>4, <1>5, <1>6, <1>7 DEF Next, Pipeline, OnFrame

LEMMA NextCacheInv == AnswerInv /\ [Next]_vars => CacheInv'
<1> SUFFICES ASSUME AnswerInv, [Next]_vars PROVE CacheInv'
  OBVIOUS
<1> USE DEF AnswerInv
<1>1. gen \in Nat /\ gen # Never /\ resolved \in Seq(Reading) /\ Len(resolved) \in Nat
  BY GenIsBounded DEF GateInv, Types
<1>2. CASE OnFrame \/ Consolidate \/ SkipAnnotate \/ Destroy \/ Destroyed \/ UNCHANGED vars
  <2>1. /\ UNCHANGED <<resolved, gen, cachedGen, callsSince, cached, signs, basis, served>>
        /\ (pc' # "compute" /\ pc # "compute") \/ pc' = pc
    BY <1>2 DEF OnFrame, FrameWithoutSign, FrameWithSign, Reserve, EnqueueAccepted,
                EnqueueRejected, Undo, Count, Consolidate, SkipAnnotate, Destroy, Destroyed,
                vars, resultVars, annotateVars
  <2>2. QED
    BY <2>1 DEF CacheInv, AnswerIsCurrent
<1>3. CASE AnnotateNothing
  BY <1>3, SignBridgeAssumption
  DEF AnnotateNothing, CacheInv, AnswerIsCurrent, resultVars
<1>4. CASE AnnotateFromCache
  <2>1. /\ cachedGen = gen /\ callsSince + 1 < Stride /\ callsSince' = callsSince + 1
        /\ basis' = [basis EXCEPT !.calls = @ + 1]
        /\ served' = [text |-> cached, signs |-> basis.signs, known |-> Len(resolved),
                      calls |-> basis.calls + 1]
        /\ pc = "annotate" /\ pc' = "frame" /\ UNCHANGED <<resolved, gen, cachedGen>>
    BY <1>4 DEF AnnotateFromCache, Fresh, resultVars
  <2>2. basis.signs = Len(resolved) /\ basis.calls = callsSince /\ callsSince \in Nat
    BY <1>1, <2>1 DEF CacheInv
  <2>3. basis' \in [signs : Nat, calls : Nat] /\ basis'.signs = cachedGen /\ basis'.calls = callsSince + 1
    BY <1>1, <2>1, <2>2 DEF CacheInv
  <2>4. AnswerIsCurrent'
    BY <2>1, <2>2 DEF AnswerIsCurrent
  <2>5. QED
    BY <2>1, <2>2, <2>3, <2>4 DEF CacheInv
<1>5. CASE AnnotateBegin
  BY <1>1, <1>5 DEF AnnotateBegin, CacheInv, AnswerIsCurrent, resultVars
<1>6. CASE AnnotateEnd
  <2>1. /\ pc = "compute" /\ pc' = "frame" /\ Len(signs) \in Nat
        /\ basis' = [signs |-> Len(signs), calls |-> 0]
        /\ served'.signs = Len(signs) /\ served'.known = Len(signs) /\ served'.calls = 0
        /\ UNCHANGED <<resolved, gen, cachedGen, callsSince>>
    BY <1>6 DEF AnnotateEnd, resultVars
  <2>2. QED
    BY <2>1, SignBridgeAssumption DEF CacheInv, AnswerIsCurrent
<1>7. ASSUME NEW id \in outstanding, NEW read \in BOOLEAN, OnResult(id, read) PROVE CacheInv'
  <2>1. UNCHANGED <<pc, cachedGen, callsSince, cached, signs, basis, served>>
    BY <1>7 DEF OnResult, annotateVars
  <2>2. gen' = Len(resolved')
    BY <1>1, <1>7 DEF OnResult, CacheInv
  <2>3. QED
    BY <2>1, <2>2 DEF CacheInv, AnswerIsCurrent
<1>8. QED
  BY <1>2, <1>3, <1>4, <1>5, <1>6, <1>7 DEF Next, Pipeline, Annotate, Detector

\* AnswerIsCurrent (sign_bridge.h:61-64): annotate answers for every sign resolved
\* when it looked, over objects less than Stride calls old, whenever results arrive.
THEOREM AnswersAreCurrent == Spec => []AnswerIsCurrent
<1>1. AnswerInv /\ [Next]_vars => AnswerInv'
  BY NextGateInv, NextPaced, NextCacheInv DEF AnswerInv
<1>2. AnswerInv => AnswerIsCurrent
  BY DEF AnswerInv, CacheInv
<1>3. QED
  BY <1>1, <1>2, InitAnswerInv, PTL DEF Spec
-----------------------------------------------------------------------------
(* The matching of signs with objects *)

Object == [id : Nat, vox : SUBSET UNION Footprints, pts : Nat]

\* A list of objects the pipeline can hold.
ObjectList(objs) ==
  /\ objs \in Seq(Object)
  /\ \A i, j \in DOMAIN objs : objs[i].id = objs[j].id => i = j

LEMMA OverlapType ==
  ASSUME NEW s \in Reading, NEW o
  PROVE  Overlap(s, o) \in Nat
<1>1. IsFiniteSet(s.footprint)
  <2>1. s.footprint \in Footprints \union {{}}
    BY DEF Reading
  <2>2. QED
    BY <2>1, SignBridgeAssumption, FS_EmptySet
<1>2. s.footprint \intersect o.vox \in SUBSET s.footprint
  OBVIOUS
<1>3. QED
  BY <1>1, <1>2, FS_Subset, FS_CardinalityType DEF Overlap

\* The order in which objects are preferred has a first one in every list.
LEMMA BestExists ==
  ASSUME NEW s \in Reading, NEW objs \in Seq(Object), NEW k \in DOMAIN objs
  PROVE  BestObject(s, objs) \in DOMAIN objs
<1> DEFINE ov(i) == Overlap(s, objs[i])
           B(i, j) == Better(s, objs, i, j)
           Upto(n) == {n2 \in DOMAIN objs : n2 <= n + 1}
           Reach == {n \in Nat : n + 1 <= Len(objs) =>
                       \E i \in 1 .. n + 1 : \A j \in 1 .. n + 1 : B(i, j)}
<1>1. /\ Len(objs) \in Nat /\ DOMAIN objs = 1 .. Len(objs) /\ Len(objs) >= 1
      /\ \A i \in 1 .. Len(objs) : objs[i].pts \in Nat
  <2>1. /\ Len(objs) \in Nat /\ DOMAIN objs = 1 .. Len(objs)
        /\ \A i \in 1 .. Len(objs) : objs[i] \in Object
    BY SeqElements
  <2>2. QED
    BY <2>1 DEF Object
<1>2. \A i : ov(i) \in Nat
  BY OverlapType
<1>3. \A i, j : B(i, j) <=> \/ ov(i) > ov(j)
                            \/ ov(i) = ov(j) /\ (\/ objs[i].pts > objs[j].pts
                                                 \/ objs[i].pts = objs[j].pts /\ i <= j)
  BY DEF Better
<1> HIDE DEF ov, B
<1>4. \A i, j \in 1 .. Len(objs) : B(i, j) \/ B(j, i)
  <2>1. ASSUME NEW i \in 1 .. Len(objs), NEW j \in 1 .. Len(objs) PROVE B(i, j) \/ B(j, i)
    <3>1. /\ ov(i) \in Nat /\ ov(j) \in Nat
          /\ objs[i].pts \in Nat /\ objs[j].pts \in Nat
      BY <1>1, <1>2
    <3>2. \/ ov(i) > ov(j) \/ (ov(i) = ov(j) /\ (objs[i].pts > objs[j].pts
                                                \/ (objs[i].pts = objs[j].pts /\ i <= j)))
          \/ ov(j) > ov(i) \/ (ov(j) = ov(i) /\ (objs[j].pts > objs[i].pts
                                                \/ (objs[j].pts = objs[i].pts /\ j <= i)))
      BY <1>1, <3>1
    <3>3. QED
      BY <1>3, <3>2
  <2>2. QED
    BY <2>1
<1>5. \A i, j, l \in 1 .. Len(objs) : B(i, j) /\ B(j, l) => B(i, l)
  <2>1. ASSUME NEW i \in 1 .. Len(objs), NEW j \in 1 .. Len(objs), NEW l \in 1 .. Len(objs),
               B(i, j), B(j, l)
        PROVE  B(i, l)
    <3>1. /\ ov(i) \in Nat /\ ov(j) \in Nat /\ ov(l) \in Nat
          /\ objs[i].pts \in Nat /\ objs[j].pts \in Nat /\ objs[l].pts \in Nat
      BY <1>1, <1>2
    <3>2. /\ ov(i) > ov(j) \/ (ov(i) = ov(j) /\ (objs[i].pts > objs[j].pts
                                                 \/ (objs[i].pts = objs[j].pts /\ i <= j)))
          /\ ov(j) > ov(l) \/ (ov(j) = ov(l) /\ (objs[j].pts > objs[l].pts
                                                 \/ (objs[j].pts = objs[l].pts /\ j <= l)))
      BY <1>3, <2>1
    <3>3. ov(i) > ov(l) \/ (ov(i) = ov(l) /\ (objs[i].pts > objs[l].pts
                                              \/ (objs[i].pts = objs[l].pts /\ i <= l)))
      BY <1>1, <3>1, <3>2
    <3>4. QED
      BY <1>3, <3>3
  <2>2. QED
    BY <2>1
<1>6. 0 \in Reach
  <2>1. B(1, 1)
    BY <1>1, <1>4
  <2>2. QED
    BY <2>1
<1>7. ASSUME NEW n \in Nat, n \in Reach PROVE n + 1 \in Reach
  <2>1. SUFFICES ASSUME n + 2 <= Len(objs)
                 PROVE  \E i \in 1 .. n + 2 : \A j \in 1 .. n + 2 : B(i, j)
    OBVIOUS
  <2>2. PICK i \in 1 .. n + 1 : \A j \in 1 .. n + 1 : B(i, j)
    BY <1>1, <1>7, <2>1
  <2>3. /\ \A j \in 1 .. n + 2 : j \in 1 .. n + 1 \/ j = n + 2
        /\ n + 2 \in 1 .. Len(objs) /\ 1 .. n + 1 \subseteq 1 .. Len(objs)
        /\ i \in 1 .. n + 2 /\ n + 2 \in 1 .. n + 2
    BY <1>1, <2>1
  <2>4. CASE B(i, n + 2)
    BY <2>2, <2>3, <2>4
  <2>5. CASE B(n + 2, i)
    <3>1. \A j \in 1 .. n + 2 : B(n + 2, j)
      BY <1>4, <1>5, <2>2, <2>3, <2>5
    <3>2. QED
      BY <2>3, <3>1
  <2>6. QED
    BY <1>4, <2>3, <2>4, <2>5
<1>8. Len(objs) - 1 \in Reach
  <2>1. Nat \subseteq Reach
    <3> HIDE DEF Reach
    <3>1. QED
      BY <1>6, <1>7, SetInduction
  <2>2. Len(objs) - 1 \in Nat
    BY <1>1
  <2> HIDE DEF Reach
  <2>3. QED
    BY <2>1, <2>2
<1>9. \E i \in DOMAIN objs : \A j \in DOMAIN objs : B(i, j)
  BY <1>1, <1>8
<1>10. QED
  BY <1>9 DEF BestObject, B

\* The recursion over the signs is well defined.
LEMMA ClaimsAre ==
  ASSUME NEW ss \in Seq(Reading), NEW objs
  PROVE  /\ Claims(ss, objs)[0] = NoText
         /\ \A n \in 1 .. Len(ss) :
              Claims(ss, objs)[n] = Claim(Claims(ss, objs)[n - 1], ss[n], objs)
<1> DEFINE Step(c, n) == IF n = 0 THEN NoText ELSE Claim(c[n - 1], ss[n], objs)
           Defined == {m \in Nat : \E c : c = [n \in 0 .. m |-> Step(c, n)]}
<1>1. Len(ss) \in Nat
  OBVIOUS
<1>2. 0 \in Defined
  <2> DEFINE c == [n \in 0 .. 0 |-> NoText]
  <2>1. c = [n \in 0 .. 0 |-> Step(c, n)]
    OBVIOUS
  <2>2. QED
    BY <2>1
<1>3. ASSUME NEW m \in Nat, m \in Defined PROVE m + 1 \in Defined
  <2>1. PICK c : c = [n \in 0 .. m |-> Step(c, n)]
    BY <1>3
  <2> DEFINE d == [n \in 0 .. m + 1 |-> IF n = m + 1 THEN Claim(c[m], ss[m + 1], objs) ELSE c[n]]
  <2>2. ASSUME NEW n \in 0 .. m + 1 PROVE d[n] = Step(d, n)
    <3>1. CASE n = m + 1
      <4>1. d[m] = c[m] /\ d[n] = Claim(c[m], ss[m + 1], objs) /\ n # 0 /\ n - 1 = m
        BY <3>1
      <4> HIDE DEF d
      <4>2. QED
        BY <3>1, <4>1
    <3>2. CASE n \in 1 .. m
      <4>1. c[n] = Step(c, n)
        BY <2>1, <3>2
      <4>2. d[n] = c[n] /\ d[n - 1] = c[n - 1]
        BY <3>2
      <4> HIDE DEF d
      <4>3. QED
        BY <3>2, <4>1, <4>2
    <3>3. CASE n = 0
      <4>1. c[0] = NoText
        BY <2>1
      <4>2. d[0] = c[0]
        OBVIOUS
      <4>3. QED
        BY <3>3, <4>1, <4>2
    <3>4. QED
      BY <3>1, <3>2, <3>3
  <2>3. d = [n \in 0 .. m + 1 |-> d[n]]
    OBVIOUS
  <2> HIDE DEF d
  <2>4. d = [n \in 0 .. m + 1 |-> Step(d, n)]
    <3> HIDE DEF Step
    <3>1. QED
      BY <2>2, <2>3
  <2>5. QED
    <3> HIDE DEF Step
    <3>1. QED
      BY <2>4
<1>4. Len(ss) \in Defined
  <2> HIDE DEF Defined
  <2>1. QED
    BY <1>1, <1>2, <1>3, SetInduction
<1>5. Claims(ss, objs) = [n \in 0 .. Len(ss) |-> Step(Claims(ss, objs), n)]
  BY <1>4 DEF Claims
<1> DEFINE cl == Claims(ss, objs)
<1> HIDE DEF cl
<1>6. cl[0] = NoText /\ \A n \in 1 .. Len(ss) : cl[n] = Claim(cl[n - 1], ss[n], objs)
  <2>1. cl = [n \in 0 .. Len(ss) |-> Step(cl, n)]
    BY <1>5 DEF cl
  <2>2. \A n \in 0 .. Len(ss) : cl[n] = Step(cl, n)
    <3> HIDE DEF Step
    <3>1. QED
      BY <2>1
  <2>3. QED
    BY <1>1, <2>2
<1>7. QED
  BY <1>6 DEF cl

\* Sign k of ss claims object i.
Claimant(ss, objs, k, i) == Matched(ss[k], objs) /\ BestObject(ss[k], objs) = i

\* Object i is claimed by a strongest of the first n signs, if any of them claims it.
Held(ss, objs, c, i, n) ==
  /\ objs[i].id \in DOMAIN c <=> \E k \in 1 .. n : Claimant(ss, objs, k, i)
  /\ objs[i].id \in DOMAIN c =>
       \E w \in 1 .. n :
         /\ Claimant(ss, objs, w, i)
         /\ c[objs[i].id] = [text |-> ss[w].text, overlap |-> Overlap(ss[w], objs[i])]
         /\ \A k \in 1 .. n : Claimant(ss, objs, k, i) =>
              Overlap(ss[w], objs[i]) >= Overlap(ss[k], objs[i])

LEMMA ClaimStep ==
  ASSUME NEW ss \in Seq(Reading), NEW objs, ObjectList(objs), NEW n \in Nat, n + 1 <= Len(ss),
         NEW c, NEW i \in DOMAIN objs, Held(ss, objs, c, i, n)
  PROVE  Held(ss, objs, Claim(c, ss[n + 1], objs), i, n + 1)
<1> DEFINE ov(k) == Overlap(ss[k], objs[i])
           Cl(k) == Claimant(ss, objs, k, i)
           s == ss[n + 1]
           id == objs[i].id
           d == Claim(c, s, objs)
<1>1. Len(ss) \in Nat /\ \A k \in 1 .. Len(ss) : ss[k] \in Reading /\ ov(k) \in Nat
  BY SeqElements, OverlapType
<1>2. \A k \in 1 .. n + 1 : k \in 1 .. Len(ss) /\ (k \in 1 .. n \/ k = n + 1)
  BY <1>1
<1>3. 1 .. n \subseteq 1 .. n + 1 /\ n + 1 \in 1 .. n + 1
  OBVIOUS
<1>4. /\ id \in DOMAIN c <=> \E k \in 1 .. n : Cl(k)
      /\ id \in DOMAIN c =>
           \E w \in 1 .. n : /\ Cl(w) /\ c[id] = [text |-> ss[w].text, overlap |-> ov(w)]
                             /\ \A k \in 1 .. n : Cl(k) => ov(w) >= ov(k)
  BY DEF Held
<1>5. CASE ~ Cl(n + 1)
  <2>1. id \in DOMAIN d <=> id \in DOMAIN c
    <3>1. CASE ~ Matched(s, objs)
      BY <3>1 DEF Claim
    <3>2. CASE Matched(s, objs)
      <4>1. BestObject(s, objs) \in DOMAIN objs /\ BestObject(s, objs) # i
        BY <1>1, <1>2, <1>3, <1>5, <3>2, BestExists DEF Matched, ObjectList, Claimant
      <4>2. objs[BestObject(s, objs)].id # id
        BY <4>1 DEF ObjectList
      <4>3. QED
        BY <3>2, <4>2 DEF Claim, With
    <3>3. QED
      BY <3>1, <3>2
  <2>2. id \in DOMAIN c => d[id] = c[id]
    <3>1. CASE ~ Matched(s, objs)
      BY <3>1 DEF Claim
    <3>2. CASE Matched(s, objs)
      <4>1. BestObject(s, objs) \in DOMAIN objs /\ BestObject(s, objs) # i
        BY <1>1, <1>2, <1>3, <1>5, <3>2, BestExists DEF Matched, ObjectList, Claimant
      <4>2. objs[BestObject(s, objs)].id # id
        BY <4>1 DEF ObjectList
      <4>3. QED
        BY <3>2, <4>2 DEF Claim, With
    <3>3. QED
      BY <3>1, <3>2
  <2> HIDE DEF d, Cl, ov, id
  <2>3. /\ id \in DOMAIN d <=> \E k \in 1 .. n + 1 : Cl(k)
        /\ id \in DOMAIN d =>
             \E w \in 1 .. n + 1 : /\ Cl(w) /\ d[id] = [text |-> ss[w].text, overlap |-> ov(w)]
                                   /\ \A k \in 1 .. n + 1 : Cl(k) => ov(w) >= ov(k)
    BY <1>2, <1>3, <1>4, <1>5, <2>1, <2>2
  <2>4. QED
    BY <2>3 DEF Held, d, Cl, ov, id
<1>6. CASE Cl(n + 1)
  <2>1. Matched(s, objs) /\ BestObject(s, objs) = i
    BY <1>6 DEF Claimant
  <2>2. CASE id \in DOMAIN c /\ ov(n + 1) <= c[id].overlap
    <3>1. d = c
      BY <2>1, <2>2 DEF Claim
    <3>2. PICK w \in 1 .. n : /\ Cl(w) /\ c[id] = [text |-> ss[w].text, overlap |-> ov(w)]
                              /\ \A k \in 1 .. n : Cl(k) => ov(w) >= ov(k)
      BY <1>4, <2>2
    <3>3. ov(w) >= ov(n + 1)
      <4>1. c[id].overlap = ov(w)
        BY <3>2
      <4>2. ov(w) \in Nat /\ ov(n + 1) \in Nat
        BY <1>1, <1>2, <1>3
      <4>3. QED
        BY <2>2, <4>1, <4>2
    <3> HIDE DEF d, Cl, ov, id
    <3>4. /\ id \in DOMAIN d /\ Cl(w) /\ w \in 1 .. n + 1
          /\ d[id] = [text |-> ss[w].text, overlap |-> ov(w)]
          /\ \A k \in 1 .. n + 1 : Cl(k) => ov(w) >= ov(k)
      BY <1>2, <1>3, <2>2, <3>1, <3>2, <3>3
    <3>5. QED
      BY <3>4 DEF Held, d, Cl, ov, id
  <2>3. CASE ~ (id \in DOMAIN c /\ ov(n + 1) <= c[id].overlap)
    <3>1. d = With(c, id, [text |-> s.text, overlap |-> ov(n + 1)])
      BY <2>1, <2>3 DEF Claim
    <3>2. id \in DOMAIN d /\ d[id] = [text |-> s.text, overlap |-> ov(n + 1)]
      BY <3>1 DEF With
    <3>3. ASSUME NEW k \in 1 .. n, Cl(k) PROVE ov(n + 1) >= ov(k)
      <4>1. id \in DOMAIN c
        BY <1>4, <3>3
      <4>2. PICK w \in 1 .. n : c[id] = [text |-> ss[w].text, overlap |-> ov(w)] /\ ov(w) >= ov(k)
        BY <1>4, <3>3, <4>1
      <4>3. ~ (ov(n + 1) <= ov(w))
        <5>1. c[id].overlap = ov(w)
          BY <4>2
        <5>2. QED
          BY <2>3, <4>1, <5>1
      <4>4. ov(w) \in Nat /\ ov(n + 1) \in Nat /\ ov(k) \in Nat
        BY <1>1, <1>2, <1>3
      <4> HIDE DEF ov
      <4>5. QED
        BY <4>2, <4>3, <4>4
    <3>4. ov(n + 1) >= ov(n + 1)
      BY <1>1, <1>2, <1>3
    <3> HIDE DEF d, Cl, ov, id
    <3>5. /\ id \in DOMAIN d /\ Cl(n + 1) /\ n + 1 \in 1 .. n + 1
          /\ d[id] = [text |-> ss[n + 1].text, overlap |-> ov(n + 1)]
          /\ \A k \in 1 .. n + 1 : Cl(k) => ov(n + 1) >= ov(k)
      BY <1>2, <1>3, <1>6, <3>2, <3>3, <3>4
    <3>6. QED
      BY <3>5 DEF Held, d, Cl, ov, id
  <2>4. QED
    BY <2>2, <2>3
<1>7. QED
  BY <1>5, <1>6

LEMMA AllHeld ==
  ASSUME NEW ss \in Seq(Reading), NEW objs, ObjectList(objs), NEW i \in DOMAIN objs
  PROVE  Held(ss, objs, Claims(ss, objs)[Len(ss)], i, Len(ss))
<1> DEFINE cl == Claims(ss, objs)
           Good == {n \in Nat : n <= Len(ss) => Held(ss, objs, cl[n], i, n)}
<1>1. cl[0] = NoText /\ \A n \in 1 .. Len(ss) : cl[n] = Claim(cl[n - 1], ss[n], objs)
  BY ClaimsAre
<1> HIDE DEF cl
<1>2. Len(ss) \in Nat
  OBVIOUS
<1>3. 0 \in Good
  <2>1. DOMAIN cl[0] = {} /\ 1 .. 0 = {}
    BY <1>1 DEF NoText
  <2>2. Held(ss, objs, cl[0], i, 0)
    BY <2>1 DEF Held
  <2>3. QED
    BY <2>2
<1>4. ASSUME NEW n \in Nat, n \in Good PROVE n + 1 \in Good
  <2>1. SUFFICES ASSUME n + 1 <= Len(ss) PROVE Held(ss, objs, cl[n + 1], i, n + 1)
    OBVIOUS
  <2>2. Held(ss, objs, cl[n], i, n)
    BY <1>2, <1>4, <2>1
  <2>3. cl[n + 1] = Claim(cl[n], ss[n + 1], objs)
    <3>1. n + 1 \in 1 .. Len(ss) /\ (n + 1) - 1 = n
      BY <1>2, <2>1
    <3>2. cl[n + 1] = Claim(cl[(n + 1) - 1], ss[n + 1], objs)
      BY <1>1, <3>1
    <3>3. QED
      BY <3>1, <3>2
  <2>4. QED
    BY <2>1, <2>2, <2>3, ClaimStep
<1>5. Len(ss) \in Good
  <2> HIDE DEF Good
  <2>1. QED
    BY <1>2, <1>3, <1>4, SetInduction
<1>6. QED
  BY <1>2, <1>5 DEF cl

\* What the matching works on.
MatchInv == signs \in Seq(Reading) /\ world \in DOMAIN Worlds

LEMMA NextMatchInv == GateInv /\ MatchInv /\ [Next]_vars => MatchInv'
<1> SUFFICES ASSUME GateInv, MatchInv, [Next]_vars PROVE MatchInv'
  OBVIOUS
<1>1. resolved \in Seq(Reading)
  BY DEF GateInv, Types
<1>2. CASE AnnotateBegin
  BY <1>1, <1>2 DEF AnnotateBegin, MatchInv
<1>3. CASE Consolidate
  <2>1. world < Len(Worlds) /\ world' = world + 1 /\ UNCHANGED signs
    BY <1>3 DEF Consolidate, annotateVars
  <2>2. Len(Worlds) \in Nat /\ DOMAIN Worlds = 1 .. Len(Worlds)
    BY SignBridgeAssumption
  <2>3. QED
    BY <2>1, <2>2 DEF MatchInv
<1>4. CASE OnFrame \/ SkipAnnotate \/ AnnotateNothing \/ AnnotateFromCache \/ AnnotateEnd
           \/ Destroy \/ Destroyed \/ Detector \/ UNCHANGED vars
  <2>1. UNCHANGED <<signs, world>>
    BY <1>4 DEF OnFrame, FrameWithoutSign, FrameWithSign, Reserve, EnqueueAccepted,
                EnqueueRejected, Undo, Count, SkipAnnotate, AnnotateNothing, AnnotateFromCache,
                AnnotateEnd, Destroy, Destroyed, Detector, OnResult, vars, annotateVars
  <2>2. QED
    BY <2>1 DEF MatchInv
<1>5. QED
  BY <1>2, <1>3, <1>4 DEF Next, Pipeline, Annotate

LEMMA WorldsAreLists ==
  ASSUME NEW w \in DOMAIN Worlds
  PROVE  ObjectList(Worlds[w])
BY SignBridgeAssumption DEF ObjectList, Object

LEMMA StrongestHolds == MatchInv => StrongestSignWins
<1> SUFFICES ASSUME MatchInv PROVE StrongestSignWins
  OBVIOUS
<1> DEFINE objs == Worlds[world]
           claims == Claims(signs, objs)[Len(signs)]
<1>1. ObjectList(objs) /\ signs \in Seq(Reading) /\ DOMAIN signs = 1 .. Len(signs)
  BY WorldsAreLists DEF MatchInv
<1>2. Match(signs, objs) = [o \in DOMAIN claims |-> claims[o].text]
  BY DEF Match
<1> HIDE DEF objs, claims
<1>3. ASSUME NEW i \in DOMAIN objs
      PROVE  LET text == Match(signs, objs)
                 claimants == {k \in DOMAIN signs : Matched(signs[k], objs) /\ BestObject(signs[k], objs) = i}
             IN  /\ objs[i].id \in DOMAIN text <=> claimants # {}
                 /\ \A k \in claimants :
                      \E w \in claimants :
                        /\ text[objs[i].id] = signs[w].text
                        /\ Overlap(signs[w], objs[i]) >= Overlap(signs[k], objs[i])
  <2> DEFINE text == Match(signs, objs)
             claimants == {k \in DOMAIN signs : Matched(signs[k], objs) /\ BestObject(signs[k], objs) = i}
  <2>1. Held(signs, objs, claims, i, Len(signs))
    BY <1>1, AllHeld DEF claims
  <2>2. \A k : k \in claimants <=> k \in 1 .. Len(signs) /\ Claimant(signs, objs, k, i)
    BY <1>1 DEF Claimant
  <2>3. DOMAIN text = DOMAIN claims /\ \A o \in DOMAIN claims : text[o] = claims[o].text
    BY <1>2
  <2> HIDE DEF claimants, text
  <2>4. objs[i].id \in DOMAIN text <=> claimants # {}
    BY <2>1, <2>2, <2>3 DEF Held
  <2>5. ASSUME NEW k \in claimants
        PROVE  \E w \in claimants : /\ text[objs[i].id] = signs[w].text
                                    /\ Overlap(signs[w], objs[i]) >= Overlap(signs[k], objs[i])
    <3>1. objs[i].id \in DOMAIN claims
      BY <2>3, <2>4, <2>5
    <3>2. PICK w \in 1 .. Len(signs) :
            /\ Claimant(signs, objs, w, i)
            /\ claims[objs[i].id] = [text |-> signs[w].text, overlap |-> Overlap(signs[w], objs[i])]
            /\ \A l \in 1 .. Len(signs) : Claimant(signs, objs, l, i) =>
                 Overlap(signs[w], objs[i]) >= Overlap(signs[l], objs[i])
      BY <2>1, <3>1 DEF Held
    <3>3. text[objs[i].id] = signs[w].text
      BY <2>3, <3>1, <3>2
    <3>4. QED
      BY <2>2, <2>5, <3>2, <3>3
  <2>6. QED
    BY <2>4, <2>5 DEF claimants, text
<1>4. QED
  BY <1>3 DEF StrongestSignWins, objs

\* StrongestSignWins (sign_bridge.cpp:219-221): an object is named by a sign that
\* overlaps it at least as much as every other that wants it, whatever the order in
\* which the reader answered, for any signs and any lists of objects.
THEOREM StrongestWins == Spec => []StrongestSignWins
<1>1. Init => GateInv /\ MatchInv
  BY InitGateInv, SignBridgeAssumption DEF Init, MatchInv
<1>2. GateInv /\ MatchInv /\ [Next]_vars => GateInv' /\ MatchInv'
  BY NextGateInv, NextMatchInv
<1>3. QED
  BY <1>1, <1>2, StrongestHolds, PTL DEF Spec
-----------------------------------------------------------------------------
(* The mock behind the seam *)

MockTypes ==
  /\ client \in {"new", "idle", "notify", "join", "done"}
  /\ calls \in 0 .. MaxRequests
  /\ running \in BOOLEAN
  /\ q \in Seq(1 .. calls)
  /\ worker \in {"none", "lock", "park", "waiting", "ready", "work", "done"}
  /\ current \in 0 .. calls

\* The queue holds what was accepted after the request in work, in order, so that a
\* request is outstanding once.  The worker leaves only an empty queue that nothing
\* joins any more.
MockInv ==
  /\ MockTypes
  /\ \A i, j \in 1 .. Len(q) : i < j => q[i] < q[j]
  /\ \A i \in 1 .. Len(q) : current < q[i]
  /\ worker = "work" <=> current # 0
  /\ client = "new" => worker = "none" /\ q = <<>>
  /\ running <=> client = "idle"
  /\ worker = "done" => q = <<>> /\ client \in {"notify", "join", "done"}
  /\ client = "done" => worker = "done"

LEMMA MockInitInv == MockInit => MockInv
<1> SUFFICES ASSUME MockInit PROVE MockInv
  OBVIOUS
<1>1. MockTypes /\ Len(q) = 0
  <2>1. q = <<>> /\ calls = 0 /\ current = 0
    BY DEF MockInit
  <2>2. calls \in 0 .. MaxRequests /\ current \in 0 .. calls
    BY <2>1, MockAssumption
  <2>3. q \in Seq(1 .. calls) /\ Len(q) = 0
    BY <2>1
  <2>4. QED
    BY <2>2, <2>3 DEF MockInit, MockTypes
<1>2. (running <=> client = "idle") /\ (worker = "work" <=> current # 0)
  BY DEF MockInit
<1>3. QED
  BY <1>1, <1>2 DEF MockInit, MockInv

\* Every step of the two threads keeps it.
LEMMA MockNextInv == MockInv /\ [MockNext]_mockVars => MockInv'
<1> SUFFICES ASSUME MockInv, [MockNext]_mockVars PROVE MockInv'
  OBVIOUS
<1> USE MockAssumption DEF MockInv, MockTypes
<1>1. CASE UNCHANGED mockVars
  BY <1>1 DEF mockVars
<1>2. CASE Start
  BY <1>2 DEF Start
<1>3. CASE Enqueue
  <2>1. CASE UNCHANGED <<q, worker>>
    BY <1>3, <2>1 DEF Enqueue
  <2>2. CASE q' = Append(q, calls + 1) /\ Notify
    <3>1. /\ q' \in Seq(1 .. calls') /\ Len(q') = Len(q) + 1
          /\ \A i \in 1 .. Len(q) : q'[i] = q[i] /\ q[i] \in 1 .. calls
          /\ q'[Len(q) + 1] = calls + 1
      BY <1>3, <2>2 DEF Enqueue
    <3>2. \A i, j \in 1 .. Len(q') : i < j => q'[i] < q'[j]
      <4>1. ASSUME NEW i \in 1 .. Len(q'), NEW j \in 1 .. Len(q'), i < j PROVE q'[i] < q'[j]
        <5>1. CASE j = Len(q) + 1
          BY <3>1, <4>1, <5>1
        <5>2. CASE j \in 1 .. Len(q)
          <6>1. i \in 1 .. Len(q) /\ q'[i] = q[i] /\ q'[j] = q[j]
            BY <3>1, <4>1, <5>2
          <6>2. QED
            BY <4>1, <5>2, <6>1
        <5>3. QED
          BY <3>1, <4>1, <5>1, <5>2
      <4>2. QED
        BY <4>1
    <3>3. \A i \in 1 .. Len(q') : current < q'[i]
      <4>1. ASSUME NEW i \in 1 .. Len(q') PROVE current < q'[i]
        <5>1. CASE i = Len(q) + 1
          BY <3>1, <5>1
        <5>2. CASE i \in 1 .. Len(q)
          BY <3>1, <5>2
        <5>3. QED
          BY <3>1, <4>1, <5>1, <5>2
      <4>2. QED
        BY <4>1
    <3>4. /\ worker' \in {"none", "lock", "park", "ready", "work", "done"}
          /\ worker' = "work" <=> worker = "work"
          /\ worker # "done" /\ worker' # "done"
      BY <1>3, <2>2 DEF Enqueue, Notify
    <3>5. QED
      BY <1>3, <3>1, <3>2, <3>3, <3>4 DEF Enqueue
  <2>3. QED
    BY <1>3, <2>1, <2>2 DEF Enqueue, Push
<1>4. CASE StopClear
  BY <1>4 DEF StopClear
<1>5. CASE StopNotify
  BY <1>5 DEF StopNotify, Notify
<1>6. CASE StopJoin
  BY <1>6 DEF StopJoin
<1>7. CASE Evaluate
  BY <1>7 DEF Evaluate
<1>8. CASE Park
  BY <1>8 DEF Park
<1>9. CASE Exit
  BY <1>9 DEF Exit
<1>10. CASE Take
  <2>1. /\ Len(q) \in Nat \ {0} /\ Head(q) = q[1] /\ q[1] \in 1 .. calls
        /\ Tail(q) \in Seq(1 .. calls) /\ Len(Tail(q)) = Len(q) - 1
        /\ \A i \in 1 .. Len(Tail(q)) : Tail(q)[i] = q[i + 1]
    BY <1>10 DEF Take
  <2>2. \A i, j \in 1 .. Len(Tail(q)) : i < j => Tail(q)[i] < Tail(q)[j]
    BY <2>1
  <2>3. \A i \in 1 .. Len(Tail(q)) : Head(q) < Tail(q)[i]
    BY <2>1
  <2>4. QED
    BY <1>10, <2>1, <2>2, <2>3 DEF Take
<1>11. CASE Callback
  <2>1. \A i \in 1 .. Len(q) : q[i] \in 1 .. calls
    OBVIOUS
  <2>2. QED
    BY <1>11, <2>1 DEF Callback
<1>12. CASE SpuriousWakeup
  BY <1>12 DEF SpuriousWakeup
<1>13. QED
  BY <1>1, <1>2, <1>3, <1>4, <1>5, <1>6, <1>7, <1>8, <1>9, <1>10, <1>11, <1>12
     DEF MockNext, Client, Worker

\* A step of the mock is a step of the seam: an accepted request, an answer, the
\* return of stop(), or nothing.
LEMMA MockStepRefines ==
  MockInv /\ MockInv' /\ [MockNext]_mockVars => [Seam!DetectorNext]_Seam!detectorVars
<1> SUFFICES ASSUME MockInv, MockInv', [MockNext]_mockVars
             PROVE  [Seam!DetectorNext]_Seam!detectorVars
  OBVIOUS
<1> DEFINE out == ToSet(q) \union ({current} \ {0})
           stop == client = "done"
<1>1. ToSet(q) = {q[i] : i \in 1 .. Len(q)} /\ ToSet(q)' = {q'[i] : i \in 1 .. Len(q')}
  BY DEF MockInv, MockTypes, ToSet
<1>2. ASSUME out' = out, stop' = stop PROVE UNCHANGED Seam!detectorVars
  BY <1>2 DEF Seam!detectorVars
<1>3. CASE UNCHANGED <<q, current, client>>
  BY <1>2, <1>3 DEF ToSet
<1>4. CASE Start \/ StopClear \/ StopNotify
  <2>1. out' = out /\ stop' = stop
    BY <1>4 DEF Start, StopClear, StopNotify, ToSet
  <2>2. QED
    BY <1>2, <2>1
<1>5. CASE Enqueue /\ ~UNCHANGED <<q, worker>>
  <2>1. q' = Append(q, calls + 1) /\ calls + 1 \in 1 .. MaxRequests
        /\ client = "idle" /\ client' = client /\ current' = current
    BY <1>5, MockAssumption DEF Enqueue, Push, MockInv, MockTypes
  <2>2. /\ Len(q') = Len(q) + 1 /\ Len(q) \in Nat
        /\ \A i \in 1 .. Len(q) : q'[i] = q[i] /\ q[i] <= calls
        /\ q'[Len(q) + 1] = calls + 1
    BY <2>1 DEF MockInv, MockTypes
  <2>3. ToSet(q)' = ToSet(q) \union {calls + 1}
    BY <1>1, <2>2
  <2>4. calls + 1 \notin out
    BY <1>1, <2>2 DEF MockInv, MockTypes
  <2>5. out' = out \union {calls + 1} /\ ~stop /\ stop' = stop
    BY <2>1, <2>3
  <2>6. Seam!Accept(calls + 1)
    BY <2>4, <2>5 DEF Seam!Accept
  <2>7. QED
    BY <2>1, <2>6 DEF Seam!DetectorNext
<1>6. CASE StopJoin
  <2>1. q = <<>> /\ current = 0 /\ client = "join" /\ client' = "done" /\ q' = q /\ current' = current
    BY <1>6 DEF StopJoin, MockInv
  <2>2. out = {} /\ out' = out /\ ~stop /\ stop'
    BY <1>1, <2>1
  <2>3. Seam!StopReturn
    BY <2>2 DEF Seam!StopReturn
  <2>4. QED
    BY <2>3 DEF Seam!DetectorNext
<1>7. CASE Take
  <2>1. /\ Len(q) \in Nat \ {0} /\ q[1] # 0 /\ current = 0
        /\ current' = q[1] /\ client' = client
        /\ Len(q') = Len(q) - 1 /\ \A i \in 1 .. Len(q') : q'[i] = q[i + 1]
    BY <1>7 DEF Take, MockInv, MockTypes
  <2>2. ToSet(q) = ToSet(q)' \union {q[1]}
    <3>1. ASSUME NEW i \in 1 .. Len(q) PROVE q[i] \in ToSet(q)' \union {q[1]}
      <4>1. CASE i = 1
        BY <4>1
      <4>2. CASE i # 1
        <5>1. i - 1 \in 1 .. Len(q') /\ q'[i - 1] = q[i]
          BY <2>1, <4>2
        <5>2. QED
          BY <1>1, <5>1
      <4>3. QED
        BY <4>1, <4>2
    <3>2. ASSUME NEW i \in 1 .. Len(q') PROVE q'[i] \in ToSet(q)
      <4>1. i + 1 \in 1 .. Len(q) /\ q'[i] = q[i + 1]
        BY <2>1
      <4>2. QED
        BY <1>1, <4>1
    <3>3. q[1] \in ToSet(q)
      BY <1>1, <2>1
    <3>4. QED
      BY <1>1, <3>1, <3>2, <3>3
  <2>3. out' = out /\ stop' = stop
    BY <2>1, <2>2
  <2>4. QED
    BY <1>2, <2>3
<1>8. CASE Callback
  <2>1. current # 0 /\ current' = 0 /\ q' = q /\ client' = client /\ current \notin ToSet(q)
    <3>1. \A i \in 1 .. Len(q) : q[i] # current
      BY DEF MockInv, MockTypes
    <3>2. QED
      BY <1>1, <1>8, <3>1 DEF Callback, MockInv
  <2>2. ToSet(q)' = ToSet(q)
    BY <2>1
  <2>3. current \in out /\ out' = out \ {current} /\ stop' = stop
    BY <2>1, <2>2
  <2>4. Seam!Answer(current)
    BY <2>3 DEF Seam!Answer
  <2>5. QED
    BY <2>3, <2>4 DEF Seam!DetectorNext
<1>9. CASE Enqueue /\ UNCHANGED <<q, worker>>
  BY <1>3, <1>9 DEF Enqueue
<1>10. CASE Evaluate \/ Park \/ Exit \/ SpuriousWakeup
  BY <1>3, <1>10 DEF Evaluate, Park, Exit, SpuriousWakeup
<1>11. QED
  BY <1>3, <1>4, <1>5, <1>6, <1>7, <1>8, <1>9, <1>10
     DEF MockNext, Client, Worker, mockVars

\* The mock keeps the promise the bridge relies on, for any queue size and any number of
\* requests: a request it accepted is answered at most once, one it rejected never, and
\* stop() returns only when none is left (sign_bridge.cpp:58).
THEOREM MockKeepsTheSeam == MockSpec => SeamSpec
<1>1. MockInit => Seam!DetectorInit
  BY DEF MockInit, Seam!DetectorInit, ToSet
<1>2. MockSpec => []MockInv
  BY MockInitInv, MockNextInv, PTL DEF MockSpec
<1>3. QED
  BY <1>1, <1>2, MockStepRefines, PTL DEF MockSpec, SeamSpec, Seam!DetectorSpec
=============================================================================
