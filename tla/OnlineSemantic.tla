--------------------------- MODULE OnlineSemantic ---------------------------
(***************************************************************************)
(* The driver OnlineSemantic (online_semantic.h) with the hooks its two    *)
(* users install, VizPublisher (viz_publisher.cpp) and the viewer at the   *)
(* other end of its socket (viz_server/main.py).                           *)
(*                                                                         *)
(* What the stages compute is the subject of other modules; here a store   *)
(* is known by the call of onSynced that made it.  onSynced runs on one    *)
(* thread and nothing interleaves with it, so a call is one step, with the *)
(* stage at which an exception left it, if one did: a store is new if its  *)
(* stage lies before.  A stage that throws half way is the throw before it *)
(* or the throw after it.                                                  *)
(***************************************************************************)
EXTENDS Integers, Sequences, FiniteSets, SequencesExt

CONSTANTS
  Tiers,     \* the stages run.yaml may enable: sets of
             \*   "superpoints", "hdbscan", "grow", "objects", "overlay"
  Stride,    \* consol_stride
  SendHwm,   \* messages the PUSH socket holds for a slow or absent viewer
  None

ASSUME DriverAssumption == Stride \in Nat /\ SendHwm \in Nat \ {0} /\ None \notin Nat

VARIABLES
  program,      \* "replay" (run_semantic_universe) or "runner" (SemanticRunner)
  phase,        \* "starting", "running", "flushing", "finished", "error" or "exited"
  on,           \* the enabled stages
  viz,          \* is the publisher enabled (viz_publisher.h active())?
  calls,        \* history: calls of onSynced
  done,         \* done_
  map,          \* the call that last extended the world map
  proposals,    \* the call that last seeded
  superpoints,  \* the call that last refreshed, and version()
  objects,      \* the call that last consolidated, and did finish() merge more
  seg,          \* g_fr: the call whose FrameResult it points to, or None
  lastSp,       \* last_sp_ver
  folded,       \* history: the consolidations, [number, call, returned]
  unsent,       \* history: the calls whose frame message never left
  wire,         \* messages sent and not yet handled by the viewer
  screen,       \* what the viewer shows on its timeline
  shown,        \* history: the screens of all handled frames
  snapshot      \* what the viewer logged static at the end, or None

driverVars == <<program, phase, on, viz, calls, done, map, proposals, superpoints,
                objects, seg, lastSp, folded, unsent>>
viewerVars == <<screen, shown, snapshot>>

Blank == [idx |-> None, call |-> None, seg |-> None, superpoints |-> None,
          proposals |-> None, objects |-> None]

\* The hooks are installed, the server has not been called yet.
DriverInit ==
  /\ program \in {"replay", "runner"} /\ phase = "starting"
  /\ on \in Tiers /\ viz \in BOOLEAN
  /\ calls = 0 /\ done = 0 /\ map = 0
  /\ proposals = 0 /\ superpoints = [made |-> 0, version |-> 0]
  /\ objects = [made |-> 0, tidied |-> FALSE]
  /\ seg = None /\ lastSp = 0
  /\ folded = <<>> /\ unsent = {}
  /\ wire = <<>>
  /\ screen = Blank /\ shown = <<>> /\ snapshot = None

\* What begin() and the start of a program leave alone.
startVars == <<program, on, viz, calls, done, map, proposals, superpoints, objects, seg,
               lastSp, folded, unsent>>

\* begin(), and viz.begin(): the header is the first message on the wire.
Begin ==
  /\ phase = "starting" /\ phase' = "running"
  /\ wire' = IF viz THEN <<[type |-> "begin"]>> ELSE <<>>
  /\ UNCHANGED <<startVars, viewerVars>>

\* The server does not answer, or refuses the vocabulary: there is no run.
StartFails ==
  /\ phase = "starting" /\ phase' = "exited"
  /\ UNCHANGED <<startVars, wire, viewerVars>>
-----------------------------------------------------------------------------
(* One synced frame *)

\* Mutant: the consumer sees the frame before the stages refresh their stores.
OrderHookFirst == <<"infer", "label", "overlay", "note", "frame", "seed", "superpoints",
                    "grow", "consolidate", "return">>

\* The stages of onSynced that change state or hand it on, in their order; "note"
\* is where the frame hook remembers the superpoint version.
Order == <<"infer", "label", "overlay", "seed", "superpoints", "grow", "consolidate",
           "note", "frame", "return">>

\* The stage reached last: an exception leaves onSynced there, or it returns.
Ends == ToSet(Order)

Before(stage, end) ==
  \E i, j \in DOMAIN Order : i < j /\ Order[i] = stage /\ Order[j] = end

\* A store as the stage `end` finds it.
Made(stage, enabled, end, old) == IF enabled /\ Before(stage, end) THEN calls + 1 ELSE old

Seeding    == "hdbscan" \in on
Refreshing == "superpoints" \in on
Objecting  == {"hdbscan", "superpoints", "grow", "objects"} \subseteq on

\* Mutant: the stride counts the frames handed in, not those completed.
DueByCalls == Objecting /\ (Stride <= 1 \/ calls % Stride = 0)

\* Consolidation is due on frames 0, stride, 2*stride, ...
Due == Objecting /\ (Stride <= 1 \/ done % Stride = 0)

Versions(end) ==
  superpoints.version + (IF Refreshing /\ Before("superpoints", end) THEN 1 ELSE 0)

\* The frame message, of what the stores hold when the frame hook runs.
FrameMessage ==
  [type        |-> "frame",
   idx         |-> done,
   call        |-> calls + 1,
   seg         |-> Made("overlay", "overlay" \in on, "frame", seg),
   superpoints |-> IF Refreshing /\ Versions("note") # lastSp
                     THEN Made("superpoints", TRUE, "frame", superpoints.made) ELSE None,
   proposals   |-> IF Seeding THEN Made("seed", TRUE, "frame", proposals) ELSE None,
   objects     |-> IF "objects" \in on
                     THEN Made("consolidate", Due, "frame", objects.made) ELSE None]

\* A frame message goes out with DONTWAIT: it is dropped when the queue is full.
Send(end) ==
  IF viz /\ Before("frame", end) /\ Len(wire) < SendHwm
    THEN wire' = Append(wire, FrameMessage) /\ unsent' = unsent
    ELSE wire' = wire /\ unsent' = unsent \union {calls + 1}

\* onSynced, left at the stage `end`.
OnSynced(end) ==
  /\ calls' = calls + 1
  /\ done' = IF end = "return" THEN done + 1 ELSE done
  /\ map' = Made("label", TRUE, end, map)
  /\ proposals' = Made("seed", Seeding, end, proposals)
  /\ superpoints' = [made    |-> Made("superpoints", Refreshing, end, superpoints.made),
                     version |-> Versions(end)]
  /\ objects' = [objects EXCEPT !.made = Made("consolidate", Due, end, @)]
  /\ folded' = IF Due /\ Before("consolidate", end)
                 THEN Append(folded, [number |-> done, call |-> calls + 1,
                                      returned |-> end = "return"])
                 ELSE folded
  /\ lastSp' = IF viz /\ Refreshing /\ Before("note", end) THEN Versions("note") ELSE lastSp
  /\ seg' = IF Before("frame", end) THEN None ELSE Made("overlay", viz /\ "overlay" \in on, end, seg)
  /\ Send(end)
  /\ UNCHANGED <<program, on, viz>>

\* finish() and the last message: small components may be merged once more, and
\* the final map is sent if there is room within the send timeout.
Finish ==
  /\ phase' = "finished"
  /\ objects' \in {objects} \union (IF Objecting THEN {[objects EXCEPT !.tidied = TRUE]} ELSE {})
  /\ \/ viz /\ Len(wire) < SendHwm /\ wire' = Append(wire, [type |-> "finish", map |-> map])
     \/ (viz => Len(wire) = SendHwm) /\ wire' = wire
  /\ UNCHANGED <<program, on, viz, calls, done, map, proposals, superpoints, seg, lastSp,
                 folded, unsent>>

\* The process ends; linger 0 discards what the socket has not transmitted.
Exit ==
  /\ phase \in {"finished", "error"}
  /\ phase' = "exited"
  /\ \E n \in 0 .. Len(wire) : wire' = SubSeq(wire, 1, n)
  /\ UNCHANGED <<program, on, viz, calls, done, map, proposals, superpoints, objects,
                 seg, lastSp, folded, unsent>>
-----------------------------------------------------------------------------
(* The viewer *)

ShowHeader == Head(wire).type = "begin" /\ UNCHANGED viewerVars

\* on_frame: what the message carries replaces what was shown, the rest stays up.
ShowFrame ==
  /\ Head(wire).type = "frame"
  /\ screen' = [k \in DOMAIN Blank |->
                  IF Head(wire)[k] = None THEN screen[k] ELSE Head(wire)[k]]
  /\ shown' = Append(shown, screen')
  /\ UNCHANGED snapshot

\* on_finish: the final map, and the retained objects once more as a static layer.
ShowFinish ==
  /\ Head(wire).type = "finish"
  /\ snapshot' = [map |-> Head(wire).map, objects |-> screen.objects]
  /\ UNCHANGED <<screen, shown>>

\* The viewer may be slow or absent: nothing makes it take the next message.
Handle ==
  /\ wire # <<>>
  /\ wire' = Tail(wire)
  /\ ShowHeader \/ ShowFrame \/ ShowFinish
  /\ UNCHANGED driverVars
-----------------------------------------------------------------------------
(* Properties *)

\* The newest consolidation not later than the call c.
FoldedBy(c) ==
  LET past == {folded[k].call : k \in {i \in DOMAIN folded : folded[i].call <= c}}
  IN  IF past = {} THEN 0 ELSE CHOOSE x \in past : \A y \in past : y <= x

\* Whatever was thrown before and whatever was dropped, a position on the viewer's
\* timeline shows one frame: numbers increase, masks (the kept pointer is never
\* read after its frame), superpoints and proposals are of the same call, and the
\* objects are those of the last consolidation (online_semantic.h:89-91).  What is
\* logged static at the end are the final objects, if the last frame's message was
\* sent and finish() merged nothing: such a merge is never shown.
OneFrameOnScreen ==
  /\ \A j, k \in DOMAIN shown : j < k => shown[j].idx < shown[k].idx
  /\ \A k \in DOMAIN shown :
       LET s == shown[k]
       IN  /\ s.seg = IF "overlay" \in on THEN s.call ELSE None
           /\ Refreshing => s.superpoints = s.call
           /\ Seeding => s.proposals = s.call
           /\ Objecting => s.objects = FoldedBy(s.call)
  /\ snapshot # None /\ calls > 0 /\ calls \notin unsent /\ "objects" \in on /\ ~objects.tidied =>
       snapshot.objects = objects.made

\* Support counts viewpoints a stride apart: among the calls that returned, each
\* multiple of the stride was consolidated once and no other frame was.  Only a
\* call that threw after consolidating adds one more, for its own number.
StrideIsKept ==
  Objecting /\ Stride >= 1 =>
    /\ \A n \in 0 .. done - 1 :
         Cardinality({k \in DOMAIN folded : folded[k].number = n /\ folded[k].returned})
           = (IF n % Stride = 0 THEN 1 ELSE 0)
    /\ \A k \in DOMAIN folded : folded[k].number % Stride = 0 /\ folded[k].number <= done
    /\ Cardinality({k \in DOMAIN folded : ~folded[k].returned}) <= calls - done
=============================================================================
