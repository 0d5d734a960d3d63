---------------------------- MODULE RoomObjects ----------------------------
(***************************************************************************)
(* The published form of an object, object_publisher.cpp: the overhead     *)
(* polygon of its live members and the delta of what changed.  A position  *)
(* is a pair of integers, heights being dropped.  A sight of an object is  *)
(* a function from its live members to where they are.  The centroid is    *)
(* left out.                                                               *)
(***************************************************************************)
EXTENDS Integers, Sequences, FiniteSets, SequencesExt

CONSTANT SorK   \* neighbours the outlier pass looks at (8 in the code)

\* projectToXY of some of the members.
Overhead(sight, members) == {sight[p] : p \in members}

\* statisticalOutlierRemoval: which members it may leave.  None goes when there are too
\* few; at least half stay, since no more lie beyond one standard deviation above the
\* mean (Cantelli).
Cleaned(sight) ==
  LET members == DOMAIN sight
  IN  IF Cardinality(members) <= SorK + 1 THEN {members}
      ELSE {kept \in SUBSET members : 2 * Cardinality(kept) >= Cardinality(members)}

\* > 0: the turn o, a, b is counter-clockwise.
Cross(o, a, b) == (a.x - o.x) * (b.y - o.y) - (a.y - o.y) * (b.x - o.x)

Lexicographic(a, b) == a.x < b.x \/ (a.x = b.x /\ a.y < b.y)

\* The positions in order: before the i-th there are i - 1.
InOrder(positions) ==
  [i \in 1 .. Cardinality(positions) |->
     CHOOSE p \in positions :
       Cardinality({q \in positions : Lexicographic(q, p)}) = i - 1]

\* One round of the monotone chain: corners that do not turn left are popped, down
\* to `floor` of them, then p is pushed.
PushCorner(chain, p, floor) ==
  LET keep == CHOOSE n \in 0 .. Len(chain) :
                /\ n < floor \/ Cross(chain[n - 1], chain[n], p) > 0
                /\ \A m \in n + 1 .. Len(chain) :
                     m >= floor /\ Cross(chain[m - 1], chain[m], p) <= 0
  IN  Append(SubSeq(chain, 1, keep), p)

\* convexHull2D of a set of positions: lower chain, then upper chain back.
ConvexHull(positions) ==
  LET pts   == InOrder(positions)
      lower == FoldLeft(LAMBDA chain, p : PushCorner(chain, p, 2), <<>>, pts)
      both  == FoldLeft(LAMBDA chain, p : PushCorner(chain, p, Len(lower) + 1),
                        lower, Tail(Reverse(pts)))
  IN  IF Len(pts) < 3 THEN pts ELSE Front(both)

\* buildRoomObject, of the members the outlier pass left.  The sign's text is filled in
\* later.
BuildRoomObject(label, sight, kept) ==
  [label |-> label, polygon |-> ConvexHull(Overhead(sight, kept)), text |-> ""]

\* Everything of a published object but its id.
Fingerprint(o) == <<o.label, o.text, o.polygon>>

\* ObjectDelta::changedSince: the ids that are new or whose fingerprint differs.
ChangedSince(seen, objs) ==
  {id \in DOMAIN objs : id \notin DOMAIN seen \/ seen[id] # Fingerprint(objs[id])}
-----------------------------------------------------------------------------
(* Reference *)

\* p lies in the convex hull of the others: between two of them or in a triangle.
Inside(p, others) ==
  \/ \E a, b \in others : /\ Cross(a, b, p) = 0
                          /\ (p.x - a.x) * (p.x - b.x) <= 0
                          /\ (p.y - a.y) * (p.y - b.y) <= 0
  \/ \E a, b, c \in others : Cross(a, b, p) >= 0 /\ Cross(b, c, p) >= 0 /\ Cross(c, a, p) >= 0
                             /\ Cross(a, b, c) > 0

Corners(positions) == {p \in positions : ~Inside(p, positions \ {p})}

\* A polygon around the positions: the corners and nothing else, each once,
\* counter-clockwise.
Encloses(polygon, positions) ==
  /\ ToSet(polygon) = Corners(positions)
  /\ Len(polygon) = Cardinality(Corners(positions))
  /\ \A i, j, k \in DOMAIN polygon :
       i < j /\ j < k => Cross(polygon[i], polygon[j], polygon[k]) > 0
=============================================================================
