---------------------------- MODULE SignBridge ----------------------------
(***************************************************************************)
(* The bridge between the pipeline and the sign reader (sign_bridge.cpp):  *)
(* onFrame and annotate run on the pipeline thread, onResult on a worker   *)
(* thread of the detector.  What they share is guarded by mu_; every       *)
(* critical section is one step, and the pipeline's program counter pc     *)
(* stands between two of them, so results arrive at every point where they *)
(* can.  The detector is any one that keeps the promise of SignDetector:   *)
(* it may reject a request, read it, find no text, or never answer.        *)
(*                                                                         *)
(* A sign is what a frame shows of it: the set of voxels behind its mask.  *)
(* Its text is named by the request that read it.  The objects, which the  *)
(* pipeline grows and merges between frames, are Worlds[world].            *)
(***************************************************************************)
EXTENDS SignDetector, Naturals, Sequences, FiniteSets

CONSTANTS
  Footprints,  \* what a frame can show of a sign: sets of voxels, {} for none
  Worlds,      \* the successive object lists: sequences of [id, vox, pts]
  Stride,      \* kAnnotateStride
  MaxFrames    \* bound: frames

ASSUME SignBridgeAssumption ==
  /\ \A fp \in Footprints : IsFiniteSet(fp)
  /\ Worlds \in Seq(Seq([id : Nat, vox : SUBSET UNION Footprints, pts : Nat]))
  /\ Len(Worlds) > 0
  /\ \A w \in DOMAIN Worlds : \A i, j \in DOMAIN Worlds[w] :
       Worlds[w][i].id = Worlds[w][j].id => i = j
  /\ Stride \in Nat \ {0} /\ MaxFrames \in Nat
  /\ Ids = 1 .. MaxFrames

VARIABLES
  frames,       \* frames_
  pc,           \* where the pipeline thread is
  sign,         \* local of onFrame: the footprint being dispatched
  inflight,     \* inflight_
  nextId,       \* next_id_
  pending,      \* pending_: match id -> footprint
  resolved,     \* resolved_: sequence of [footprint, text]
  nDispatched, nDropped, nFailed,
  gen,          \* gen_
  cachedGen,    \* cached_gen_, Never before the first computation
  callsSince,   \* calls_since_
  cached,       \* cached_: object id -> text
  signs,        \* local of annotate: the snapshot of resolved_
  world,        \* which object list the pipeline has
  basis,        \* history: how many signs cached was computed from, and how
                \* many calls of annotate it has answered since
  served        \* history: the last answer of annotate, with its basis and the
                \* number of signs resolved when annotate looked

Never == MaxFrames + 1  \* ~0ULL: no generation

dispatchVars == <<inflight, nextId, pending, nDispatched, nDropped>>
resultVars   == <<resolved, nFailed, gen>>
annotateVars == <<cachedGen, callsSince, cached, signs, basis, served>>

vars == <<frames, pc, sign, world, dispatchVars, resultVars, annotateVars, detectorVars>>

NoText == <<>>  \* the empty map

Init ==
  /\ frames = 0 /\ pc = "frame" /\ sign = {}
  /\ inflight = 0 /\ nextId = 1 /\ pending = <<>>
  /\ resolved = <<>>
  /\ nDispatched = 0 /\ nDropped = 0 /\ nFailed = 0
  /\ gen = 0 /\ cachedGen = Never /\ callsSince = 0
  /\ cached = NoText /\ signs = <<>>
  /\ world = 1
  /\ basis = [signs |-> 0, calls |-> 0]
  /\ served = [text |-> NoText, signs |-> 0, known |-> 0, calls |-> 0]
  /\ DetectorInit
-----------------------------------------------------------------------------
(* onFrame *)

\* No sign mask large enough in this frame.
FrameWithoutSign ==
  /\ pc = "frame" /\ frames < MaxFrames
  /\ frames' = frames + 1
  /\ pc' = "annotate"
  /\ UNCHANGED <<sign, world, dispatchVars, resultVars, annotateVars, detectorVars>>

\* The largest sign of the frame: first the gate, then its footprint, which is
\* empty when there is no geometry behind the mask.
FrameWithSign(fp) ==
  /\ pc = "frame" /\ frames < MaxFrames
  /\ frames' = frames + 1
  /\ \/ /\ inflight # 0
        /\ nDropped' = nDropped + 1
        /\ pc' = "annotate"
        /\ UNCHANGED sign
     \/ /\ inflight = 0
        /\ pc' = IF fp = {} THEN "annotate" ELSE "reserve"
        /\ sign' = fp
        /\ UNCHANGED nDropped
  /\ UNCHANGED <<inflight, nextId, pending, nDispatched, world, resultVars, annotateVars,
                 detectorVars>>

Without(f, k) == [j \in DOMAIN f \ {k} |-> f[j]]
With(f, k, x) == [j \in DOMAIN f \union {k} |-> IF j = k THEN x ELSE f[j]]

ReserveUngated ==  \* mutant: forgets to close the gate
  /\ pc = "reserve"
  /\ nextId' = nextId + 1
  /\ pending' = With(pending, nextId, sign)
  /\ pc' = "enqueue"
  /\ UNCHANGED <<frames, sign, world, inflight, nDispatched, nDropped, resultVars,
                 annotateVars, detectorVars>>

\* Reserve a match id, unless the gate closed meanwhile.
Reserve ==
  /\ pc = "reserve"
  /\ IF inflight # 0
       THEN pc' = "annotate" /\ UNCHANGED <<inflight, nextId, pending>>
       ELSE /\ nextId' = nextId + 1
            /\ pending' = With(pending, nextId, sign)
            /\ inflight' = 1
            /\ pc' = "enqueue"
  /\ UNCHANGED <<frames, sign, world, nDispatched, nDropped, resultVars, annotateVars,
                 detectorVars>>

\* det_->enqueue: the reserved id is the newest one.
EnqueueAccepted ==
  /\ pc = "enqueue"
  /\ Accept(nextId - 1)
  /\ pc' = "count"
  /\ UNCHANGED <<frames, sign, world, dispatchVars, resultVars, annotateVars>>

EnqueueRejected ==
  /\ pc = "enqueue"
  /\ pc' = "undo"
  /\ UNCHANGED <<frames, sign, world, dispatchVars, resultVars, annotateVars, detectorVars>>

UndoGateOnly ==  \* mutant: the footprint stays
  /\ pc = "undo"
  /\ inflight' = 0
  /\ pc' = "annotate"
  /\ UNCHANGED <<frames, sign, world, nextId, pending, nDispatched, nDropped, resultVars,
                 annotateVars, detectorVars>>

Undo ==
  /\ pc = "undo"
  /\ pending' = Without(pending, nextId - 1)
  /\ inflight' = 0
  /\ pc' = "annotate"
  /\ UNCHANGED <<frames, sign, world, nextId, nDispatched, nDropped, resultVars,
                 annotateVars, detectorVars>>

Count ==
  /\ pc = "count"
  /\ nDispatched' = nDispatched + 1
  /\ pc' = "annotate"
  /\ UNCHANGED <<frames, sign, world, inflight, nextId, pending, nDropped, resultVars,
                 annotateVars, detectorVars>>
-----------------------------------------------------------------------------
(* onResult, on a worker thread *)

OnResultKeepsGate(id, read) ==  \* mutant: only a read sign reopens the gate
  /\ Answer(id)
  /\ IF id \in DOMAIN pending /\ read
       THEN /\ resolved' = Append(resolved, [footprint |-> pending[id], text |-> id])
            /\ gen' = gen + 1
            /\ inflight' = 0
            /\ UNCHANGED nFailed
       ELSE nFailed' = nFailed + 1 /\ UNCHANGED <<resolved, gen, inflight>>
  /\ pending' = Without(pending, id)
  /\ UNCHANGED <<frames, pc, sign, world, nextId, nDispatched, nDropped, annotateVars>>

\* read: the detector succeeded and found text.  The gate reopens in any case.
OnResult(id, read) ==
  /\ Answer(id)
  /\ IF id \notin DOMAIN pending
       THEN UNCHANGED <<resolved, gen, nFailed>>
       ELSE IF read
              THEN /\ resolved' = Append(resolved, [footprint |-> pending[id], text |-> id])
                   /\ gen' = gen + 1
                   /\ UNCHANGED nFailed
              ELSE nFailed' = nFailed + 1 /\ UNCHANGED <<resolved, gen>>
  /\ pending' = Without(pending, id)
  /\ inflight' = 0
  /\ UNCHANGED <<frames, pc, sign, world, nextId, nDispatched, nDropped, annotateVars>>
-----------------------------------------------------------------------------
(* annotate *)

\* Between onFrame and annotate the frame's consolidation grows and merges objects.
Consolidate ==
  /\ pc = "annotate" /\ world < Len(Worlds)
  /\ world' = world + 1
  /\ UNCHANGED <<frames, pc, sign, dispatchVars, resultVars, annotateVars, detectorVars>>

Overlap(s, o) == Cardinality(s.footprint \intersect o.vox)

\* The positions of the objects a sign can be matched to, best first: more shared
\* voxels, then more points, then earlier in the list.
Better(s, objs, i, j) ==
  \/ Overlap(s, objs[i]) > Overlap(s, objs[j])
  \/ /\ Overlap(s, objs[i]) = Overlap(s, objs[j])
     /\ \/ objs[i].pts > objs[j].pts
        \/ objs[i].pts = objs[j].pts /\ i <= j

BestObject(s, objs) ==
  CHOOSE i \in DOMAIN objs : \A j \in DOMAIN objs : Better(s, objs, i, j)

Matched(s, objs) == \E i \in DOMAIN objs : Overlap(s, objs[i]) > 0

\* Mutant: the sign read last takes the object.
ClaimLast(claims, s, objs) ==
  IF ~Matched(s, objs) THEN claims
  ELSE LET o == objs[BestObject(s, objs)]
       IN  With(claims, o.id, [text |-> s.text, overlap |-> Overlap(s, o)])

\* One sign claims its best object, unless an earlier one holds it as strongly.
Claim(claims, s, objs) ==
  IF ~Matched(s, objs) THEN claims
  ELSE LET o == objs[BestObject(s, objs)]
       IN  IF o.id \in DOMAIN claims /\ Overlap(s, o) <= claims[o.id].overlap
             THEN claims
             ELSE With(claims, o.id, [text |-> s.text, overlap |-> Overlap(s, o)])

\* The signs claim in the order they were read: the claims after the first n.
Claims(ss, objs) ==
  LET claims[n \in 0 .. Len(ss)] ==
        IF n = 0 THEN NoText ELSE Claim(claims[n - 1], ss[n], objs)
  IN  claims

\* object id -> text.
Match(ss, objs) ==
  LET claims == Claims(ss, objs)[Len(ss)]
  IN  [o \in DOMAIN claims |-> claims[o].text]

\* annotate is called on the frames that reach a consumer, not on every one.
SkipAnnotate ==
  /\ pc = "annotate"
  /\ pc' = "frame"
  /\ UNCHANGED <<frames, sign, world, dispatchVars, resultVars, annotateVars, detectorVars>>

AnnotateNothing ==
  /\ pc = "annotate" /\ resolved = <<>>
  /\ served' = [text |-> NoText, signs |-> 0, known |-> 0, calls |-> 0]
  /\ pc' = "frame"
  /\ UNCHANGED <<frames, sign, world, dispatchVars, resultVars, cachedGen, callsSince,
                 cached, signs, basis, detectorVars>>

\* The cache serves: no new sign, and fewer than Stride calls.
Fresh == cachedGen = gen /\ callsSince + 1 < Stride

AnnotateFromCache ==
  /\ pc = "annotate" /\ resolved # <<>> /\ Fresh
  /\ callsSince' = callsSince + 1
  /\ basis' = [basis EXCEPT !.calls = @ + 1]
  /\ served' = [text |-> cached, signs |-> basis.signs, known |-> Len(resolved),
                calls |-> basis.calls + 1]
  /\ pc' = "frame"
  /\ UNCHANGED <<frames, sign, world, dispatchVars, resultVars, cachedGen, cached, signs,
                 detectorVars>>

\* Take a snapshot of the signs; the matching runs without the mutex.
AnnotateBegin ==
  /\ pc = "annotate" /\ resolved # <<>> /\ ~Fresh
  /\ cachedGen' = gen
  /\ callsSince' = 0
  /\ signs' = resolved
  /\ pc' = "compute"
  /\ UNCHANGED <<frames, sign, world, dispatchVars, resultVars, cached, basis, served,
                 detectorVars>>

AnnotateEndLateGen ==  \* mutant: takes the generation it finds when it is done
  /\ pc = "compute"
  /\ cached' = Match(signs, Worlds[world])
  /\ cachedGen' = gen
  /\ basis' = [signs |-> Len(signs), calls |-> 0]
  /\ served' = [text |-> cached', signs |-> Len(signs), known |-> Len(signs), calls |-> 0]
  /\ pc' = "frame"
  /\ UNCHANGED <<frames, sign, world, dispatchVars, resultVars, callsSince, signs,
                 detectorVars>>

AnnotateEnd ==
  /\ pc = "compute"
  /\ cached' = Match(signs, Worlds[world])
  /\ basis' = [signs |-> Len(signs), calls |-> 0]
  /\ served' = [text |-> cached', signs |-> Len(signs), known |-> Len(signs), calls |-> 0]
  /\ pc' = "frame"
  /\ UNCHANGED <<frames, sign, world, dispatchVars, resultVars, cachedGen, callsSince,
                 signs, detectorVars>>
-----------------------------------------------------------------------------
\* ~SignBridge calls stop(); results keep arriving until it returns.
Destroy ==
  /\ pc = "frame"
  /\ pc' = "destroy"
  /\ UNCHANGED <<frames, sign, world, dispatchVars, resultVars, annotateVars, detectorVars>>

Destroyed ==
  /\ pc = "destroy"
  /\ StopReturn
  /\ pc' = "gone"
  /\ UNCHANGED <<frames, sign, world, dispatchVars, resultVars, annotateVars>>

OnFrame  == \/ FrameWithoutSign
            \/ \E fp \in Footprints : FrameWithSign(fp)
            \/ Reserve \/ EnqueueAccepted \/ EnqueueRejected \/ Undo \/ Count
Annotate == SkipAnnotate \/ AnnotateNothing \/ AnnotateFromCache \/ AnnotateBegin \/ AnnotateEnd
Pipeline == OnFrame \/ Consolidate \/ Annotate \/ Destroy \/ Destroyed
Detector == \E id \in outstanding, read \in BOOLEAN : OnResult(id, read)

Next == Pipeline \/ Detector

Spec == Init /\ [][Next]_vars

\* The detector answers every request it accepted (MockDetector does).
AnsweringSpec == Spec /\ WF_vars(Detector)
-----------------------------------------------------------------------------
\* The gate is closed exactly while one reservation is unanswered, and the detector
\* never has two requests (sign_bridge.h:89 "0 or 1 (single-in-flight gate)").
SingleInFlight ==
  /\ inflight = 0 => DOMAIN pending = {}
  /\ inflight = 1 => \E id \in 1 .. nextId - 1 : DOMAIN pending = {id}
  /\ outstanding = IF pc \in {"enqueue", "undo"} THEN {} ELSE DOMAIN pending

\* The gate cannot close between the two critical sections of onFrame: the branch
\* for it (sign_bridge.cpp:146 "raced the gate") is never taken.
NeverRacesGate == pc = "reserve" => inflight = 0

\* The counters account for every request, whenever they are read between two
\* frames: sent = read + empty or failed + in flight (run_semantic_universe.cpp:281).
CountersAddUp ==
  pc \in {"frame", "annotate", "compute", "destroy", "gone"} =>
    nDispatched = Len(resolved) + nFailed + inflight

\* annotate always answers for every sign that was resolved when it looked, over an
\* object list less than Stride calls old (sign_bridge.h:61-64), also when a result
\* arrives while it is matching.
AnswerIsCurrent ==
  served.signs = served.known /\ served.calls < Stride

\* On conflict the strongest sign keeps the object: no other sign whose best object
\* it is overlaps it more (sign_bridge.cpp:219-221).
StrongestSignWins ==
  pc = "compute" =>
    LET objs == Worlds[world]
        text == Match(signs, objs)
    IN  \A i \in DOMAIN objs :
          LET claimants == {k \in DOMAIN signs : Matched(signs[k], objs) /\ BestObject(signs[k], objs) = i}
          IN  /\ objs[i].id \in DOMAIN text <=> claimants # {}
              /\ \A k \in claimants :
                   \E w \in claimants :
                     /\ text[objs[i].id] = signs[w].text
                     /\ Overlap(signs[w], objs[i]) >= Overlap(signs[k], objs[i])

\* With a detector that answers, a dispatched sign reopens the gate.
GateReopens == pc = "count" ~> inflight = 0
=============================================================================
