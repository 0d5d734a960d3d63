---------------------------- MODULE Superpoints ----------------------------
(***************************************************************************)
(* Superpoints of one view (superpoints.cpp) and their affinity to a       *)
(* proposal (object_grow.cpp).  PCL's VCCS is external: any disjoint       *)
(* groups of the points of the view.  A view is a function from its points *)
(* to their class, Other for anything that is not a thing: stuff,          *)
(* unlabelled, or killed in this very frame.  A point is its place on a    *)
(* line and alone in its voxel, whose edge is 1.                           *)
(***************************************************************************)
EXTENDS Integers, FiniteSets, FiniteSetsExt, Functions, SetSums

CONSTANTS
  Things,      \* ids of the thing classes
  Other,       \* any other label
  Groups,      \* sets of points VCCS may return as a superpoint
  MaxSegments, \* bound: superpoints of a view
  MinSegment,  \* 8: fewer points are not segmented
  ThingFrac,   \* thing_frac, in percent
  PoolK        \* pool_k

ASSUME SuperpointsAssumption ==
  /\ Things \subseteq Nat /\ IsFiniteSet(Things) /\ Other \notin Things
  /\ \A s \in Groups : s # {} /\ IsFiniteSet(s)
  /\ MaxSegments \in Nat /\ MinSegment \in Nat /\ PoolK \in Nat /\ ThingFrac \in 0 .. 100

\* segmentCrop and the grouping of buildFromCrop: label 0 is dropped.
Segmentations(view) ==
  IF Cardinality(DOMAIN view) < MinSegment THEN {{}}
  ELSE LET found == {s \in Groups : s \subseteq DOMAIN view}
           families == {{}} \union {Range(f) : f \in [1 .. MaxSegments -> found]}
       IN  {F \in families : \A a, b \in F : a # b => a \intersect b = {}}

\* hist: the tallies of the thing classes.
Hist(view, s) == [c \in Things |-> Cardinality({p \in s : view[p] = c})]

\* class_id: the commonest thing class, the lowest on a tie, if its share of all
\* the members is large enough.
ClassOf(view, s) ==
  LET h == Hist(view, s)
      best == CHOOSE c \in Things : \A d \in Things : h[c] > h[d] \/ (h[c] = h[d] /\ c <= d)
  IN  IF h[best] > 0 /\ 100 * h[best] >= ThingFrac * Cardinality(s) THEN best ELSE Other
-----------------------------------------------------------------------------
(* Affinity *)

Total(s) == SumOver(s, [p \in s |-> p])  \* |s| times the centroid

Abs(n) == IF n < 0 THEN -n ELSE n

\* The distance of two centroids, times |a| |b|, against that of a and c.
Nearer(a, b, c) ==
  Abs(Total(a) * Cardinality(b) - Total(b) * Cardinality(a)) * Cardinality(c)
    < Abs(Total(a) * Cardinality(c) - Total(c) * Cardinality(a)) * Cardinality(b)

\* The PoolK nearest other superpoints.
Nearest(segs, s) ==
  LET others == segs \ {s}
      k == Min({PoolK, Cardinality(others)})
  IN  CHOOSE N \in SUBSET others :
        Cardinality(N) = k /\ \A a \in N, b \in others \ N : ~Nearer(s, b, a)

\* neighbor_pool: the neighbours' tallies count half (doubled here).
Pooled(view, segs, s) ==
  [c \in Things |-> 2 * Hist(view, s)[c]
                    + SumOver(Nearest(segs, s), [n \in segs |-> Hist(view, n)[c]])]

\* The superpoint's centroid lies in the bounding box, one voxel wider.
InBox(points, s) ==
  LET n == Cardinality(s)
  IN  n * (Min(points) - 1) <= Total(s) /\ Total(s) <= n * (Max(points) + 1)

Shared(points, s) == Cardinality(points \intersect s)

\* Mutant: any contact will do, whatever its share of the superpoint.
ClearsByContact(points, s, h, class, bar) ==
  LET norm2 == SumOver(Things, [c \in Things |-> h[c] * h[c]])
  IN  /\ InBox(points, s)
      /\ Shared(points, s) > 0
      /\ 100 * h[class] * 100 * h[class] >= bar * bar * norm2

\* cosine(shist, c.hist) * containment >= bar percent, squared, for a proposal
\* whose own tallies are a spike at its class, the superpoint's.
Clears(points, s, h, class, bar) ==
  LET norm2 == SumOver(Things, [c \in Things |-> h[c] * h[c]])
      cosShared == 100 * h[class] * Shared(points, s)
  IN  /\ InBox(points, s)
      /\ Shared(points, s) > 0
      /\ cosShared * cosShared >= bar * bar * norm2 * Cardinality(s) * Cardinality(s)
=============================================================================
