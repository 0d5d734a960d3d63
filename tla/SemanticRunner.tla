--------------------------- MODULE SemanticRunner ---------------------------
(***************************************************************************)
(* The call-per-frame entry point (semantic_runner.cpp): runOnInput drives *)
(* one frame and returns the whole object list as room objects, with a     *)
(* cache of the polygons of objects that look unchanged.  The robot's code *)
(* around it is external: it may go on after an exception, and it keeps a  *)
(* store it overwrites by object id with what ObjectDelta says has changed *)
(* (object_publisher.h:17-19).                                             *)
(***************************************************************************)
EXTENDS OnlineSemantic, RoomObjects

CONSTANTS
  Ids,          \* object ids (union-find roots)
  Listable,     \* [Ids -> what may be listed: sets of [points, class, level]], the
                \*   points being a sequence
  Points,       \* points of the map, those not yet mapped included
  Places,       \* the positions they may have, [x, y : Int]
  Frames,       \* what a frame may do to the map: [at, killed], at being where it leaves
                \*   the points it sees and killed the points it tombstones
  Inputs,       \* what a call is given: sequences of images, [width, height, encoding, step, bytes]
  Texts,        \* resolved sign texts, "" for none
  SigSamples,   \* how many members a signature samples (8 in the code)
  MaxCalls      \* bound: calls of runOnInput

\* rebuildCache lists no object without a point.
ASSUME EgressAssumption ==
  /\ SigSamples \in Nat \ {0} /\ SorK \in Nat
  /\ IsFiniteSet(Points)
  /\ \A f \in Frames : /\ DOMAIN f.at \subseteq Points /\ f.killed \subseteq Points
                       /\ \A p \in DOMAIN f.at : f.at[p] \in Places
  /\ \A id \in Ids : \A o \in Listable[id] : o.points \in Seq(Points) /\ o.points # <<>>

VARIABLES
  at,        \* the world map: mapped point -> position
  alive,     \* the mapped points that are not tombstoned
  list,      \* Objects::list(): id -> [points, class, level]
  text,      \* sign_text: id -> text
  cache,     \* id -> [sig, obj]
  looks,     \* history: id -> [look, sights]
  returned,  \* what the last call returned: id -> room object
  outcome,   \* history: "none", "returned", "empty" or "threw"
  seen,      \* ObjectDelta::seen_
  store      \* external: the robot's object store

egressVars == <<at, alive, list, text, cache, looks, returned, outcome, seen, store>>

Nothing == <<>>  \* the function with an empty domain

EgressInit ==
  /\ at = Nothing /\ alive = {}
  /\ list = Nothing /\ text = Nothing /\ cache = Nothing /\ looks = Nothing
  /\ returned = Nothing /\ outcome = "none"
  /\ seen = Nothing /\ store = Nothing

\* The constructor asks the server too, but goes on without an answer; it throws when
\* begin() does.
Construct == (Begin \/ StartFails) /\ UNCHANGED egressVars
-----------------------------------------------------------------------------
(* The input *)

BytesPerPixel(encoding) ==
  CASE encoding \in {"RGB8", "BGR8"} -> 3
    [] encoding = "MONO8"  -> 1
    [] encoding = "MONO16" -> 2
    [] OTHER -> 0

\* toDogImage: the rows of a known encoding are as long as they claim to be and all there.
Convertible(img) ==
  LET row  == img.width * BytesPerPixel(img.encoding)
      step == IF img.step > 0 THEN img.step ELSE row
  IN  /\ img.width > 0 /\ img.height > 0 /\ BytesPerPixel(img.encoding) # 0
      /\ row <= step /\ step * img.height <= img.bytes

Accepted(images) == Len(images) = 1 /\ Convertible(images[1])
-----------------------------------------------------------------------------
(* The objects handed out *)

\* objectSig: class, support, size, every step-th member and the last one.
Signature(o) ==
  LET n == Len(o.points)
      step == n \div SigSamples + 1
  IN  [class |-> o.class, level |-> o.level, size |-> n,
       sampled |-> [i \in 0 .. (n - 1) \div step |-> o.points[i * step + 1]],
       last |-> Last(o.points)]

\* The live members and where they are.
Sight(o) == [p \in ToSet(o.points) \intersect alive' |-> at'[p]]

\* Mutant: a cached polygon is good as long as the class stays.
HitOfClass(id) == id \in DOMAIN cache /\ cache[id].sig.class = list'[id].class

Hit(id) == id \in DOMAIN cache /\ cache[id].sig = Signature(list'[id])

\* An object without a live member is left out, unless its polygon is cached.
Listed == {id \in DOMAIN list' : Hit(id) \/ DOMAIN Sight(list'[id]) # {}}

\* What the cache may hold of an object then ...
Entries(id) ==
  LET o == list'[id]
  IN  IF Hit(id) THEN {cache[id]}
      ELSE {[sig |-> Signature(o), obj |-> BuildRoomObject(o.class, Sight(o), kept)] :
              kept \in Cleaned(Sight(o))}

\* ... and of all of them.  (Bound, so that it is built once.)
Built ==
  UNION {{entry \in [Listed -> UNION Range(entries)] : \A id \in Listed : entry[id] \in entries[id]} :
         entries \in {[id \in Listed |-> Entries(id)]}}

\* collect: cached or rebuilt, texts filled in, entries of vanished ids evicted.
Collect ==
  \E entry \in Built :
    /\ cache' = entry
    /\ text' \in [DOMAIN list' -> Texts]
    /\ returned' = [id \in Listed |-> [entry[id].obj EXCEPT !.text = text'[id]]]

\* What tells two objects of an id apart for sure.
Look(o) == <<o.class, o.level, Len(o.points), o.points[1], Last(o.points)>>

\* The sights of an object at the calls that returned, as long as it looks the same.
Remember ==
  looks' =
    [id \in DOMAIN list' |->
      LET look == Look(list'[id])
      IN  [look   |-> look,
           sights |-> {Sight(list'[id])} \union
                        (IF id \in DOMAIN looks /\ looks[id].look = look
                           THEN looks[id].sights ELSE {})]]

\* The caller publishes what changed.
Publish ==
  LET changed == ChangedSince(seen, returned')
  IN  /\ seen'  = [id \in changed \union DOMAIN seen |->
                    IF id \in changed THEN Fingerprint(returned'[id]) ELSE seen[id]]
      /\ store' = [id \in changed \union DOMAIN store |->
                    IF id \in changed THEN returned'[id] ELSE store[id]]

\* The lists a rebuild may leave: it leaves dead points out.
Lists ==
  UNION {{l \in [ids -> UNION {Listable[id] : id \in Ids}] :
            \A id \in ids : l[id] \in Listable[id] /\ ToSet(l[id].points) \subseteq alive'} :
         ids \in SUBSET Ids}

\* What the frame did to the map and to the list.  integrate appends points, revives
\* them in place and moves them by its running mean; what dies afterwards may have been
\* seen by the same frame.  A consolidation that is due rebuilds the list, unless it had
\* no proposals or changed nothing: then the old list stays, dead points and all.
FrameEffects(end) ==
  /\ \/ /\ Before("label", end)
        /\ \E f \in Frames :
             /\ at' = [p \in DOMAIN f.at \union DOMAIN at |->
                         IF p \in DOMAIN f.at THEN f.at[p] ELSE at[p]]
             /\ alive' = (alive \union DOMAIN f.at) \ f.killed
     \/ ~Before("label", end) /\ UNCHANGED <<at, alive>>
  /\ \/ Due /\ Before("consolidate", end) /\ list' \in Lists \union {list}
     \/ ~(Due /\ Before("consolidate", end)) /\ list' = list

RunOnInput ==
  /\ phase = "running" /\ calls < MaxCalls
  /\ \E images \in Inputs : Accepted(images)
  /\ OnSynced("return") /\ FrameEffects("return")
  /\ Collect /\ Remember
  /\ Publish
  /\ outcome' = "returned"
  /\ UNCHANGED <<phase, viewerVars>>

\* The exception leaves runOnInput before collect; the caller may go on.
RunOnInputThrows ==
  /\ phase = "running" /\ calls < MaxCalls
  /\ \E images \in Inputs : Accepted(images)
  /\ \E end \in Ends \ {"return"} : OnSynced(end) /\ FrameEffects(end)
  /\ outcome' = "threw" /\ returned' = Nothing
  /\ UNCHANGED <<phase, text, cache, looks, seen, store, viewerVars>>

\* No input: an empty list is returned, and publishing it changes nothing.  Input
\* without exactly one image, or with one that cannot be converted, throws.
RunOnNothing ==
  /\ phase = "running" /\ returned' = Nothing
  /\ outcome' = "empty" \/ (outcome' = "threw" /\ \E images \in Inputs : ~Accepted(images))
  /\ UNCHANGED <<at, alive, list, text, cache, looks, seen, store, driverVars, wire, viewerVars>>

\* The destructor.  The list finish() leaves is collected by nobody.
Destroy ==
  /\ phase = "running"
  /\ Finish
  /\ UNCHANGED <<egressVars, viewerVars>>

RunnerNext == Construct \/ RunOnInput \/ RunOnInputThrows \/ RunOnNothing \/ Destroy
-----------------------------------------------------------------------------
\* convexHull2D is right on every set of positions.
HullsAreRight == \A P \in (SUBSET Places) \ {{}} : Encloses(ConvexHull(P), P)

\* After a call that returned, every listed object with a live member was handed out,
\* and the robot's store has each object handed out with its class, its text and a
\* counter-clockwise polygon around where its live members were, but for strays, at
\* some call since when it has kept its size, its support and its ends.  So when one of
\* these has changed the polygon is that of this very call.  Else it may be older than
\* the kills (semantic_runner.cpp:74-77 documents them), revivals and moves since, but
\* it never dates from before the object was gone or another.
StoreMirrorsObjects ==
  phase = "running" /\ outcome = "returned" =>
    /\ \A id \in DOMAIN list :
         ToSet(list[id].points) \intersect alive # {} => id \in DOMAIN returned
    /\ \A id \in DOMAIN returned :
         /\ id \in DOMAIN list /\ id \in DOMAIN store
         /\ store[id].label = list[id].class /\ store[id].text = text[id]
         /\ \E sight \in looks[id].sights : \E kept \in Cleaned(sight) \ {{}} :
              Encloses(store[id].polygon, Overhead(sight, kept))
=============================================================================
