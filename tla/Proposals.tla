----------------------------- MODULE Proposals -----------------------------
(***************************************************************************)
(* Tier 2, the proposals of a frame (ObjectSeeds): cluster the visible     *)
(* thing points into seeds, then let the seeds annex the superpoints of    *)
(* the view (object_seeds.cpp, object_grow.cpp).  One action per class     *)
(* seeded, one per superpoint evaluated.                                   *)
(*                                                                         *)
(* Outlier removal is external: it may drop any few points.  Centroids,    *)
(* DVIS ids and version() are left out; a membership vector is a set, as   *)
(* it is after growLocal's clean-up.  require_class is on.                 *)
(***************************************************************************)
EXTENDS ClusterTree, Superpoints, Sequences, SequencesExt

CONSTANTS
  Views,        \* the views of the first, second, ... frame
  Modes,        \* the parameters a run may have, see mode
  MinInput,     \* kHdbscanMinInput
  ClassGap,     \* CLASS_GAP
  SplitRadius,  \* split_radius
  MeanK,        \* sor_mean_k
  MaxOutliers,  \* bound: points outlier removal drops from a class
  CellSize,     \* maturity_res
  MaturityMin   \* maturity_min

ASSUME ProposalsAssumption ==
  /\ MinInput \in Nat /\ ClassGap \in Nat \ {0} /\ SplitRadius \in Nat /\ MeanK \in Nat
  /\ MaxOutliers \in Nat /\ CellSize \in Nat \ {0} /\ MaturityMin \in Nat
  /\ Modes \subseteq [overlap : BOOLEAN, local : BOOLEAN, scan : BOOLEAN, single : BOOLEAN,
                      leaf : BOOLEAN, sor : BOOLEAN, pool : BOOLEAN,
                      minClass : Nat, bar : Nat, sweeps : Nat]
  /\ Len(Views) \in Nat
  /\ \A n \in 1 .. Len(Views) : \A v \in Views[n] :
       /\ IsFiniteSet(DOMAIN v) /\ DOMAIN v \subseteq Int
       /\ \A p \in DOMAIN v : v[p] \in Things \union {Other}
       \* ">> any spatial extent", and so are the densities
       /\ \A p, q \in DOMAIN v : q < p =>
            2 * (p - q) < ClassGap /\ 2 * Density(ClassGap - (p - q)) < Density(p - q)

VARIABLES
  mode,    \* [overlap, local, scan, single, leaf, sor, pool: booleans,
           \*  minClass, bar, sweeps: numbers], the parameters
  frame,   \* frames begun
  stage,   \* "idle", "seed", "segment", "grow"
  view,    \* the points handed in, and their class
  todo,    \* by_class: classes not clustered yet
  last,    \* the condensed tree of the frame's last clustering, or NoTree
  list,    \* list_: [class, seed, points, spike], seed the points at birth
  owner,   \* owner_: point -> position in list, 0 for unclaimed
  segs,    \* the superpoints
  left,    \* superpoints this sweep has still to evaluate
  sweep,   \* sweeps begun
  moved,   \* sweep_changed
  annexed  \* annexed_sp: pairs of a proposal and a superpoint

seedVars == <<todo, last, list, owner>>
growVars == <<segs, left, sweep, moved, annexed>>
vars == <<mode, frame, stage, view, seedVars, growVars>>

NoTree == [root |-> {}]

Claimed(p) == p \in DOMAIN owner /\ owner[p] # 0

Init ==
  /\ mode \in Modes
  /\ frame = 0 /\ stage = "idle" /\ view = <<>>
  /\ todo = {} /\ last = NoTree /\ list = <<>> /\ owner = <<>>
  /\ segs = {} /\ left = {} /\ sweep = 0 /\ moved = FALSE /\ annexed = {}
-----------------------------------------------------------------------------
(* Seeding *)

\* seedFromIndices starts from scratch; seedLocal adds to what there is.
Wipe ==
  IF mode.local THEN UNCHANGED <<list, owner>>
  ELSE list' = <<>> /\ owner' = [p \in DOMAIN owner |-> 0]

BeginFrame ==
  /\ stage = "idle" /\ frame < Len(Views)
  /\ frame' = frame + 1
  /\ view' \in Views[frame']
  /\ Wipe
  /\ todo' = Range(view') \ {Other}
  /\ stage' = "seed"
  /\ last' = NoTree
  /\ segs' = {} /\ left' = {} /\ sweep' = 0 /\ moved' = FALSE /\ annexed' = {}
  /\ UNCHANGED mode

\* The maturity gate of seedLocal: enough points of the window in the cell.
Mature(p) ==
  Cardinality({q \in DOMAIN view : q \div CellSize = p \div CellSize}) >= Max({1, MaturityMin})

\* by_class
Bucket(c) ==
  {p \in DOMAIN view : /\ view[p] = c
                       /\ (mode.overlap /\ ~mode.local) \/ ~Claimed(p)
                       /\ mode.local => Mature(p)}

\* sorFilterIndices: a no-op unless there is a full neighbourhood.
Inliers(S) ==
  IF mode.sor /\ ~mode.local /\ Cardinality(S) > MeanK
    THEN {T \in SUBSET S : Cardinality(S) - Cardinality(T) <= MaxOutliers}
    ELSE {S}

Enough(n) == n > MinPts /\ n >= MinInput

\* euclideanSplit: the pieces linked by steps of at most SplitRadius, if it is positive.
Pieces(S) ==
  LET Linked(p, q) == \A r \in S : p <= r /\ r < q =>
                        \E s \in S : r < s /\ s - r <= SplitRadius
  IN  {{q \in S : Linked(p, q) /\ Linked(q, p)} : p \in S}

Split(S) == IF mode.local \/ SplitRadius = 0 THEN {S} \ {{}} ELSE Pieces(S)

\* Mutant: seeding forgets to claim.
AppendUnclaimed(seeds) ==
  /\ list' = list \o seeds
  /\ UNCHANGED owner

\* appendSeed for each of the seeds.  seedLocal leaves the tallies empty.
AppendSeeds(seeds) ==
  /\ list' = list \o seeds
  /\ owner' = [p \in DOMAIN owner \union DOMAIN view |->
                 LET mine == {i \in DOMAIN seeds : p \in seeds[i].points}
                 IN  IF mine # {} THEN Len(list) + Max(mine)
                     ELSE IF p \in DOMAIN owner THEN owner[p] ELSE 0]

Seed(c, S) == [class |-> c, seed |-> S, points |-> S, spike |-> ~mode.local]

\* One clustering of the points S at x: the flat clusters, each broken into
\* pieces, become proposals of the cluster's class, in the order of a hash table.
Cluster(S, x, class) ==
  IF Cardinality(S) < 2 THEN AppendSeeds(<<>>) /\ UNCHANGED last
  ELSE \E t \in Dendrograms(S, x) :
         /\ last' = Condense(t, S)
         /\ \E seeds \in SetToSeqs(UNION {{Seed(class[F], P) : P \in Split(F)} :
                           F \in FlatClusters(Condense(t, S), mode.single, mode.leaf)}) :
              AppendSeeds(seeds)

Place(S) == [p \in S |-> p]

\* clusterClass, and the body of seedLocal's loop.
SeedClass ==
  /\ stage = "seed" /\ todo # {} /\ (mode.local \/ ~mode.scan)
  /\ LET c == Min(todo)
     IN  /\ todo' = todo \ {c}
         /\ \E S \in Inliers(Bucket(c)) :
              IF Cardinality(S) >= mode.minClass /\ Enough(Cardinality(S))
                THEN Cluster(S, Place(S), [F \in SUBSET S |-> c])
                ELSE UNCHANGED <<last, list, owner>>
  /\ UNCHANGED <<mode, frame, stage, view, growVars>>

\* single_scan: one clustering, the classes far apart on a fourth axis.  A seed
\* gets the class of the cluster's last point.
SeedAll ==
  /\ stage = "seed" /\ todo # {} /\ ~mode.local /\ mode.scan
  /\ todo' = {}
  /\ \E kept \in [todo -> SUBSET DOMAIN view] :
       /\ \A c \in todo : kept[c] \in Inliers(Bucket(c))
       /\ LET S == UNION {kept[c] : c \in {c \in todo : Cardinality(kept[c]) >= mode.minClass}}
              Slot(c) == Cardinality({d \in Things : d < c /\ \E p \in S : view[p] = d})
              x == [p \in S |-> p + ClassGap * Slot(view[p])]
              LastOf == [F \in (SUBSET S) \ {{}} |-> Max({view[p] : p \in F})]
         IN  IF Enough(Cardinality(S)) THEN Cluster(S, x, LastOf)
              ELSE UNCHANGED <<last, list, owner>>
  /\ UNCHANGED <<mode, frame, stage, view, growVars>>

\* Superpoints::refreshFromIndices.  Nothing grows what seedLocal found here.
Segment ==
  /\ stage = "seed" /\ todo = {} /\ ~mode.local
  /\ segs' \in Segmentations(view)
  /\ stage' = "grow"
  /\ left' = segs' /\ sweep' = 1 /\ moved' = FALSE /\ annexed' = {}
  /\ last' = NoTree
  /\ UNCHANGED <<mode, frame, view, todo, list, owner>>

EndLocal ==
  /\ stage = "seed" /\ todo = {} /\ mode.local
  /\ stage' = "idle"
  /\ UNCHANGED <<mode, frame, view, seedVars, growVars>>
-----------------------------------------------------------------------------
(* Growing *)

Tallies(s) == IF mode.pool THEN Pooled(view, segs, s) ELSE Hist(view, s)

\* affOf(i) >= affinity_thresh, the proposal holding the points P
Takes(i, P, s) ==
  /\ list[i].class = ClassOf(view, s)
  /\ list[i].spike
  /\ Clears(P, s, Tallies(s), list[i].class, mode.bar)

Candidates(s) == {i \in DOMAIN list : Takes(i, list[i].points, s)}

\* The best affinity, the last one on a tie: among proposals of one class that
\* is the largest share.
Best(s) ==
  LET share(i) == Shared(list[i].points, s)
  IN  CHOOSE i \in Candidates(s) : \A j \in Candidates(s) :
        share(i) > share(j) \/ (share(i) = share(j) /\ i >= j)

Enlarge(i, new) == list' = [list EXCEPT ![i].points = @ \union new]

\* Exclusive: the best proposal annexes the points nobody has claimed.
AnnexBest(s) ==
  LET i == Best(s)
      free == {p \in s : ~Claimed(p)}
  IN  /\ Enlarge(i, free)
      /\ owner' = [p \in DOMAIN owner \union s |-> IF p \in free THEN i ELSE owner[p]]
      /\ UNCHANGED annexed

\* Mutant: only the best proposal annexes.
NewBest(s) ==
  {i \in Candidates(s) : <<i, s>> \notin annexed
     /\ \A j \in Candidates(s) : Shared(list[i].points, s) >= Shared(list[j].points, s)}

\* Those that have not annexed it yet.
New(s) == {i \in Candidates(s) : <<i, s>> \notin annexed}

\* overlap_sets: every proposal that clears the bar annexes it whole, once.
AnnexAll(s) ==
  /\ list' = [i \in DOMAIN list |->
                IF i \in New(s) THEN [list[i] EXCEPT !.points = @ \union s] ELSE list[i]]
  /\ annexed' = annexed \union (New(s) \X {s})
  /\ UNCHANGED owner

\* Only a superpoint with a dominant thing class is annexed, and in exclusive
\* mode one that has an unclaimed point.
Wanted(s) ==
  /\ ClassOf(view, s) # Other
  /\ IF mode.overlap THEN New(s) # {}
     ELSE Candidates(s) # {} /\ \E p \in s : ~Claimed(p)

\* One superpoint of a sweep; the order of the list is that of the frame's
\* indices, any order here.
Evaluate ==
  /\ stage = "grow"
  /\ \E s \in left :
       /\ left' = left \ {s}
       /\ IF Wanted(s)
            THEN moved' = TRUE /\ (IF mode.overlap THEN AnnexAll(s) ELSE AnnexBest(s))
            ELSE UNCHANGED <<list, owner, moved, annexed>>
  /\ UNCHANGED <<mode, frame, stage, view, todo, last, segs, sweep>>

NextSweep ==
  /\ stage = "grow" /\ left = {} /\ moved /\ sweep < mode.sweeps
  /\ sweep' = sweep + 1 /\ left' = segs /\ moved' = FALSE
  /\ UNCHANGED <<mode, frame, stage, view, seedVars, segs, annexed>>

\* Converged, or out of sweeps.
EndGrow ==
  /\ stage = "grow" /\ left = {} /\ (~moved \/ sweep >= mode.sweeps)
  /\ stage' = "idle"
  /\ UNCHANGED <<mode, frame, view, seedVars, growVars>>

Next ==
  \/ BeginFrame \/ SeedClass \/ SeedAll \/ Segment \/ EndLocal
  \/ Evaluate \/ NextSweep \/ EndGrow

Spec == Init /\ [][Next]_vars
-----------------------------------------------------------------------------
(* Properties *)

\* Unless sets may overlap, a point belongs to one proposal at most and the
\* claims say to which, through every frame, seed and annexation.
OwnersTell ==
  ~mode.overlap =>
    /\ \A i \in DOMAIN list, p \in DOMAIN view \union DOMAIN owner :
         p \in list[i].points <=> Claimed(p) /\ owner[p] = i
    /\ \A p \in DOMAIN owner : owner[p] \in 0 .. Len(list)

\* The flat clusters of a clustering are the condensed clusters the selection is
\* meant to pick, with all their points: the heaviest choice of disjoint ones
\* (excess of mass), or the finest (leaf).  None is smaller than
\* min_cluster_size, provided the class gate is not below it.
FlatClustersAreBest ==
  last # NoTree =>
    LET flat == FlatClusters(last, mode.single, mode.leaf)
    IN  /\ flat \subseteq last.heads
        /\ IF mode.leaf THEN IsFinest(last, flat, mode.single)
           ELSE IsHeaviest(last, flat, mode.single)
        /\ mode.minClass >= MinSize => \A C \in flat : Cardinality(C) >= MinSize

\* A seed is made of points this frame shows as one thing class, its own, also
\* when all classes are clustered at once, provided the class gate is not below
\* min_cluster_size nor, then, below min_pts; and however far it grows, at least
\* the bar's share of its points stays of that class, although what it annexes
\* need not be.
ProposalsKeepTheirClass ==
  ~mode.local /\ mode.minClass >= MinSize /\ (mode.scan => mode.minClass >= MinPts) =>
    \A i \in DOMAIN list :
      LET Own(S) == {p \in S : p \in DOMAIN view /\ view[p] = list[i].class}
          P == list[i].points
      IN  stage # "idle" =>
            /\ Own(list[i].seed) = list[i].seed
            /\ 100 * Cardinality(Own(P)) >= mode.bar * Cardinality(P)

\* object_grow.cpp: growing is "order-insensitive".  When sets may overlap and a
\* sweep changed nothing, every proposal is its seed with the least family of
\* superpoints that leaves nothing more to annex, whatever the order was.
GrowthIsOrderFree ==
  stage = "grow" /\ left = {} /\ ~moved /\ mode.overlap =>
    \A i \in DOMAIN list :
      LET With(A) == list[i].seed \union UNION A
          Closed(A) == \A s \in segs \ A : ~Takes(i, With(A), s)
          Families == {A \in SUBSET segs : Closed(A)}
          least == {s \in segs : \A A \in Families : s \in A}
      IN  list[i].points = With(least)
=============================================================================
