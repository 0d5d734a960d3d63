---------------------------- MODULE ClusterTree ----------------------------
(***************************************************************************)
(* Flat clusters out of an HDBSCAN* dendrogram (hdbscan_extract.cpp).      *)
(*                                                                         *)
(* Points lie on a line, at the coordinates x.  A node of the dendrogram   *)
(* is the set of the points below it; a dendrogram is a function from its  *)
(* inner nodes to their height and their two children.  Building it is the *)
(* vendored library's part (pargeo::hdbscan, pargeo::dendrogram): single   *)
(* linkage on the mutual reachability distance, in any order where the     *)
(* distances tie.  A condensed cluster, which the code numbers in the order*)
(* of a walk from the root, is named by the node it begins at, its head.   *)
(***************************************************************************)
EXTENDS Integers, FiniteSets, Functions, SetSums

CONSTANTS
  MinPts,          \* min_pts, at least 1 (object_seeds.cpp:274)
  MinClusterSize,  \* min_cluster_size
  Scale            \* the density of height 1; heights divide it

ASSUME ClusterTreeAssumption ==
  MinPts \in Nat \ {0} /\ MinClusterSize \in Nat /\ Scale \in Nat \ {0}

MinSize == Max({2, MinClusterSize})
-----------------------------------------------------------------------------
(* The dendrograms of a set of points *)

Dist(x, p, q) == IF x[p] <= x[q] THEN x[q] - x[p] ELSE x[p] - x[q]

\* The distance to the MinPts-th nearest point, the point itself included.
Core(S, x, p) ==
  Min({Dist(x, p, q) : q \in {q \in S :
         Cardinality({r \in S : Dist(x, p, r) <= Dist(x, p, q)}) >= MinPts}})

\* The mutual reachability distance of every pair.
Reach(S, x) ==
  [p \in S |-> [q \in S |-> Max({Core(S, x, p), Core(S, x, q), Dist(x, p, q)})]]

\* The ways to cut T in two, each by the side of the least point, and the shortest
\* link across.
Cuts(T) == {A \in SUBSET T : Min(T) \in A /\ A # T}
Across(reach, T, A) == Min({reach[p][q] : p \in A, q \in T \ A})

\* The widest cut of T: links of that length connect it, shorter ones do not.
Width(reach, T) == Max({0} \union {Across(reach, T, A) : A \in Cuts(T)})

\* The links that may be the last of T: one side and the height of each.  Both
\* sides were connected before.
LastLinks(reach, T) ==
  LET height == Width(reach, T)
      Last(A) == /\ Across(reach, T, A) = height
                 /\ Width(reach, A) <= height /\ Width(reach, T \ A) <= height
  IN  {[low |-> A, height |-> height] : A \in {A \in Cuts(T) : Last(A)}}

\* The dendrogram of T that link k makes of those of its two sides.
Joined(T, k, l, r) ==
  [s \in {T} \union DOMAIN l \union DOMAIN r |->
     IF s = T THEN [height |-> k.height, kids |-> {k.low, T \ k.low}]
     ELSE IF s \in DOMAIN l THEN l[s] ELSE r[s]]

\* The dendrograms of every part of S.
Linkage(S, reach) ==
  LET under[T \in SUBSET S] ==
        IF Cardinality(T) < 2 THEN {<<>>}
        ELSE UNION {{Joined(T, k, l, r) : l \in under[k.low], r \in under[T \ k.low]} :
                      k \in LastLinks(reach, T)}
  IN  under

\* Bound rather than passed, reach is evaluated once.
Dendrograms(S, x) == UNION {Linkage(S, reach)[S] : reach \in {Reach(S, x)}}
-----------------------------------------------------------------------------
(* The condensed tree of dendrogram t on the points S *)

Density(height) == Scale \div height

Smallest(N) == CHOOSE s \in N : \A r \in N : s \subseteq r

\* A split into two clusters: both sides are large enough.
Genuine(t, s) == \A k \in t[s].kids : Cardinality(k) >= MinSize

\* The node at which a point falls out of its cluster: below it, the point's
\* side is too small.
FallsAt(t, S, p) ==
  Smallest({s \in DOMAIN t : p \in s /\ (s = S \/ Cardinality(s) >= MinSize)})

\* The clusters by their heads, the cluster and the density at which each point
\* falls out, and the density at which each cluster is born.
Condense(t, S) ==
  LET heads == {S} \union UNION {t[s].kids : s \in {s \in DOMAIN t : Genuine(t, s)}}
      HeadOf(s) == Smallest({h \in heads : s \subseteq h})
      Parent(h) == Smallest({s \in DOMAIN t : h \subseteq s /\ h # s})
  IN  [root  |-> S,
       heads |-> heads,
       home  |-> [p \in S |-> HeadOf(FallsAt(t, S, p))],
       falls |-> [p \in S |-> Density(t[FallsAt(t, S, p)].height)],
       birth |-> [h \in heads |-> IF h = S THEN 0 ELSE Density(t[Parent(h)].height)]]

\* The clusters a cluster splits into.
Under(c, h) ==
  LET below == {d \in c.heads : d \subseteq h /\ d # h}
  IN  {d \in below : \A e \in below : d \subseteq e => d = e}

Stability(c, h) ==
    SumOver({p \in h : c.home[p] = h}, [p \in h |-> c.falls[p] - c.birth[h]])
  + SumOver(Under(c, h), [d \in c.heads |-> (c.birth[d] - c.birth[h]) * Cardinality(d)])

Stabilities(c) == [h \in c.heads |-> Stability(c, h)]
-----------------------------------------------------------------------------
(* Selection *)

Eligible(c, single) == IF single THEN c.heads ELSE c.heads \ {c.root}

\* Mutant: the stability of the parts is not handed up.
ExcessOfMassOneLevel(c, single) ==
  LET own == Stabilities(c)
      Keeps(h) == own[h] >= SumOver(Under(c, h), own)
  IN  {h \in Eligible(c, single) :
         Keeps(h) /\ \A a \in Eligible(c, single) : h \subseteq a /\ a # h => ~Keeps(a)}

\* The stability a cluster hands up: its own, or what its parts hand up together.
HandedUp(c) ==
  LET own == Stabilities(c)
      best[h \in c.heads] == Max({own[h], SumOver(Under(c, h), best)})
  IN  best

\* Bottom-up: a cluster is kept if it is at least as stable as what is kept
\* below it, and then nothing below it is.
ExcessOfMass(c, single) ==
  LET own == Stabilities(c)
      best == HandedUp(c)
      Keeps(h) == best[h] = own[h]
  IN  {h \in Eligible(c, single) :
         Keeps(h) /\ \A a \in Eligible(c, single) : h \subseteq a /\ a # h => ~Keeps(a)}

LeafClusters(c, single) == {h \in Eligible(c, single) : Under(c, h) = {}}

\* extractFlatClusters: every point takes the nearest selected cluster at or
\* above the one it falls out of; a point without one is noise.
FlatClusters(c, single, leaf) ==
  LET sel == IF leaf THEN LeafClusters(c, single) ELSE ExcessOfMass(c, single)
      Above(p) == {h \in sel : c.home[p] \subseteq h}
  IN  {{p \in c.root : Above(p) # {} /\ Smallest(Above(p)) = h} : h \in sel}
-----------------------------------------------------------------------------
(* Reference: what the selections are meant to be *)

Antichain(A) == \A a, b \in A : a # b => a \intersect b = {}

\* No choice of disjoint clusters has more mass.
IsHeaviest(c, A, single) ==
  LET own == Stabilities(c)
      Mass(B) == SumOver(B, own)
  IN  /\ Antichain(A)
      /\ \A B \in SUBSET Eligible(c, single) : Antichain(B) => Mass(A) >= Mass(B)

\* No two disjoint clusters lie within one of them.
IsFinest(c, A, single) ==
  /\ Antichain(A)
  /\ \A h \in Eligible(c, single) : \E a \in A : a \subseteq h
  /\ \A h \in c.heads, a \in A : ~(h \subseteq a /\ h # a)
=============================================================================
