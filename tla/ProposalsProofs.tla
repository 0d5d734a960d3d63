-------------------------- MODULE ProposalsProofs --------------------------
(***************************************************************************)
(* Proposals for any views, classes, superpoints and parameters, and any   *)
(* clustering: the claims tell whose a point is, growing does not depend   *)
(* on the order the superpoints are evaluated in, a proposal keeps its     *)
(* class however far it grows, and the flat clusters are the best choice   *)
(* of the condensed ones.                                                  *)
(***************************************************************************)
EXTENDS Proposals, NatLemmas
-----------------------------------------------------------------------------
(* Finite sets of numbers *)

\* The least and the greatest element of a finite set of integers.
LEMMA MinMax ==
  ASSUME NEW S, IsFiniteSet(S), S # {}, S \subseteq Int
  PROVE  /\ Min(S) \in S /\ \A y \in S : Min(S) <= y
         /\ Max(S) \in S /\ \A y \in S : Max(S) >= y
<1> DEFINE F == {s \in SUBSET S : s = {} \/ /\ \E m \in s : \A y \in s : m <= y
                                            /\ \E m \in s : \A y \in s : m >= y}
<1>1. {} \in F
  OBVIOUS
<1>2. ASSUME NEW s \in SUBSET S, NEW x \in S, s \in F, x \notin s PROVE s \union {x} \in F
  <2>1. CASE s = {}
    BY <2>1
  <2>2. CASE s # {}
    <3>1. PICK m \in s : \A y \in s : m <= y
      BY <1>2, <2>2
    <3>2. PICK n \in s : \A y \in s : n >= y
      BY <1>2, <2>2
    <3>3. \E k \in s \union {x} : \A y \in s \union {x} : k <= y
      <4>1. CASE x <= m
        BY <3>1, <4>1
      <4>2. CASE ~(x <= m)
        BY <3>1, <4>2
      <4>3. QED
        BY <4>1, <4>2
    <3>4. \E k \in s \union {x} : \A y \in s \union {x} : k >= y
      <4>1. CASE x >= n
        BY <3>2, <4>1
      <4>2. CASE ~(x >= n)
        BY <3>2, <4>2
      <4>3. QED
        BY <4>1, <4>2
    <3>5. QED
      BY <3>3, <3>4
  <2>3. QED
    BY <2>1, <2>2
<1>3. S \in F
  <2> HIDE DEF F
  <2>1. QED
    BY <1>1, <1>2, FiniteInduction
<1>4. QED
  BY <1>3 DEF Min, Max

LEMMA MaxSingle == ASSUME NEW n \in Int PROVE Max({n}) = n
<1>1. IsFiniteSet({n}) /\ {n} # {} /\ {n} \subseteq Int
  BY FS_Singleton
<1>2. QED
  BY <1>1, MinMax
-----------------------------------------------------------------------------
(* Seeding *)

IsView(v) ==
  /\ IsFiniteSet(DOMAIN v) /\ DOMAIN v \subseteq Int
  /\ \A p \in DOMAIN v : v[p] \in Things \union {Other}

Proposal == [class : Things, seed : SUBSET Int, points : SUBSET Int, spike : BOOLEAN]

TypeInv ==
  /\ mode \in Modes
  /\ frame \in Nat
  /\ stage \in {"idle", "seed", "grow"}
  /\ IsView(view)
  /\ todo \subseteq Things
  /\ list \in Seq(Proposal)
  /\ segs \subseteq Groups
  /\ \A s \in segs : s \subseteq DOMAIN view
  /\ \A a, b \in segs : a # b => a \intersect b = {}
  /\ left \subseteq segs
  /\ annexed \subseteq (DOMAIN list) \X segs
  /\ moved \in BOOLEAN
  /\ stage = "grow" => ~mode.local
  /\ ~mode.local => \A i \in DOMAIN list :
       list[i].points \subseteq DOMAIN view /\ list[i].seed \subseteq list[i].points

\* A point lies in one flat cluster at most, whatever the selection.
LEMMA FlatAreDisjoint ==
  ASSUME NEW c, NEW single, NEW leaf,
         NEW F \in FlatClusters(c, single, leaf), NEW G \in FlatClusters(c, single, leaf),
         NEW p, p \in F, p \in G
  PROVE  F = G
<1> DEFINE sel == IF leaf THEN LeafClusters(c, single) ELSE ExcessOfMass(c, single)
           Above(q) == {h \in sel : c.home[q] \subseteq h}
           Flat(h) == {q \in c.root : Above(q) # {} /\ Smallest(Above(q)) = h}
<1>1. FlatClusters(c, single, leaf) = {Flat(h) : h \in sel}
  BY DEF FlatClusters
<1> HIDE DEF sel
<1>2. PICK g \in sel : F = Flat(g)
  BY <1>1
<1>3. PICK h \in sel : G = Flat(h)
  BY <1>1
<1>4. g = h
  BY <1>2, <1>3
<1>5. QED
  BY <1>2, <1>3, <1>4

LEMMA FlatAreClusters ==
  ASSUME NEW t, NEW S, NEW single, NEW leaf, NEW F \in FlatClusters(Condense(t, S), single, leaf)
  PROVE  F \subseteq S
<1>1. Condense(t, S).root = S
  BY DEF Condense
<1>2. F \subseteq Condense(t, S).root
  BY DEF FlatClusters
<1>3. QED
  BY <1>1, <1>2

\* The pieces of a set are a partition of it.
LEMMA PiecesArePartition ==
  ASSUME NEW S, S \subseteq Int
  PROVE  /\ \A P \in Pieces(S) : P \subseteq S /\ P # {}
         /\ \A P, Q \in Pieces(S) : \A p \in P : p \in Q => P = Q
<1> DEFINE Linked(p, q) == \A r \in S : p <= r /\ r < q =>
                             \E s \in S : r < s /\ s - r <= SplitRadius
           Piece(p) == {q \in S : Linked(p, q) /\ Linked(q, p)}
<1>1. Pieces(S) = {Piece(p) : p \in S}
  BY DEF Pieces
<1>2. \A p \in S : Linked(p, p)
  BY DEF Linked
<1>3. ASSUME NEW p \in S, NEW q \in S, NEW t \in S, Linked(p, q), Linked(q, t) PROVE Linked(p, t)
  <2>1. ASSUME NEW r \in S, p <= r, r < t PROVE \E s \in S : r < s /\ s - r <= SplitRadius
    <3>1. r < q \/ q <= r
      OBVIOUS
    <3>2. QED
      BY <1>3, <2>1, <3>1
  <2>2. QED
    BY <2>1
<1> HIDE DEF Linked
<1>4. ASSUME NEW a \in S, NEW b \in S, NEW p, p \in Piece(a), p \in Piece(b)
      PROVE  Piece(a) = Piece(b)
  <2>1. p \in S /\ Linked(a, p) /\ Linked(p, a) /\ Linked(b, p) /\ Linked(p, b)
    BY <1>4
  <2>2. Linked(a, b) /\ Linked(b, a)
    BY <1>3, <2>1
  <2>3. \A q \in S : Linked(a, q) <=> Linked(b, q)
    BY <1>3, <2>2
  <2>4. \A q \in S : Linked(q, a) <=> Linked(q, b)
    BY <1>3, <2>2
  <2>5. QED
    BY <2>3, <2>4
<1>5. \A a \in S : Piece(a) \subseteq S /\ Piece(a) # {}
  BY <1>2
<1> HIDE DEF Piece
<1>6. QED
  BY <1>1, <1>4, <1>5

\* The seeds of one clustering of S: of the classes class gives, disjoint, each within
\* one cluster.
Seeding(seeds, S, class) ==
  /\ seeds \in Seq(Proposal)
  /\ \A k \in 1 .. Len(seeds) :
       \E F \in SUBSET S : \E P \in Split(F) :
         seeds[k] = Seed(class[F], P) /\ P \subseteq F
  /\ \A k, l \in 1 .. Len(seeds) : k # l => seeds[k].points \intersect seeds[l].points = {}

LEMMA SplitWithin ==
  ASSUME NEW F, F \subseteq Int
  PROVE  /\ \A P \in Split(F) : P \subseteq F /\ F # {}
         /\ \A P, Q \in Split(F) : \A p \in P : p \in Q => P = Q
<1>1. CASE mode.local \/ SplitRadius = 0
  BY <1>1 DEF Split
<1>2. CASE ~(mode.local \/ SplitRadius = 0)
  <2>1. Split(F) = Pieces(F)
    BY <1>2 DEF Split
  <2>2. /\ \A P \in Pieces(F) : P \subseteq F /\ P # {}
        /\ \A P, Q \in Pieces(F) : \A p \in P : p \in Q => P = Q
    BY PiecesArePartition
  <2>3. QED
    BY <2>1, <2>2
<1>3. QED
  BY <1>1, <1>2

\* The flat clusters of every dendrogram of S.
Flats(S, x) ==
  UNION {FlatClusters(Condense(t, S), mode.single, mode.leaf) : t \in Dendrograms(S, x)}

\* Every seed is part of a flat cluster and has its class.
FromFlats(seeds, S, x, class) ==
  \A k \in 1 .. Len(seeds) : \E F \in Flats(S, x) :
    F \in SUBSET S /\ \E P \in SUBSET F : seeds[k] = Seed(class[F], P)

LEMMA ClusterSeeds ==
  ASSUME TypeInv, NEW S, IsFiniteSet(S), S \subseteq Int, NEW x, NEW class,
         \A F \in SUBSET S : F # {} \/ mode.local => class[F] \in Things,
         Cluster(S, x, class)
  PROVE  \E seeds : /\ Seeding(seeds, S, class) /\ AppendSeeds(seeds)
                    /\ FromFlats(seeds, S, x, class)
<1>1. CASE Cardinality(S) < 2
  <2>1. AppendSeeds(<<>>)
    BY <1>1 DEF Cluster
  <2>2. Seeding(<<>>, S, class) /\ FromFlats(<<>>, S, x, class)
    BY DEF Seeding, FromFlats
  <2>3. QED
    BY <2>1, <2>2
<1>2. CASE ~(Cardinality(S) < 2)
  <2>1. PICK t \in Dendrograms(S, x) :
          \E seeds \in SetToSeqs(UNION {{Seed(class[F], P) : P \in Split(F)} :
                           F \in FlatClusters(Condense(t, S), mode.single, mode.leaf)}) :
             AppendSeeds(seeds)
    BY <1>2 DEF Cluster
  <2> DEFINE flat == FlatClusters(Condense(t, S), mode.single, mode.leaf)
             of(F) == {Seed(class[F], P) : P \in Split(F)}
             all == UNION {of(F) : F \in flat}
  <2>2. PICK seeds \in SetToSeqs(all) : AppendSeeds(seeds)
    BY <2>1
  <2>3. \A F \in flat : F \in SUBSET S /\ F \subseteq Int
    BY FlatAreClusters
  <2>4. \A F, G \in flat : \A p \in F : p \in G => F = G
    BY FlatAreDisjoint
  <2> HIDE DEF flat
  <2>5. ASSUME NEW s \in all
        PROVE  \E F \in flat : \E P \in Split(F) :
                 s = Seed(class[F], P) /\ P \subseteq F /\ class[F] \in Things
    <3>1. PICK F \in flat : s \in of(F)
      OBVIOUS
    <3>2. PICK P \in Split(F) : s = Seed(class[F], P)
      BY <3>1
    <3>3. P \subseteq F /\ (~mode.local => F # {})
      BY <2>3, SplitWithin
    <3>4. QED
      BY <2>3, <3>2, <3>3
  <2>6. ASSUME NEW r \in all, NEW s \in all, NEW p, p \in r.points, p \in s.points PROVE r = s
    <3>1. PICK F \in flat : \E P \in Split(F) : r = Seed(class[F], P) /\ P \subseteq F
      BY <2>5
    <3>2. PICK P \in Split(F) : r = Seed(class[F], P) /\ P \subseteq F
      BY <3>1
    <3>3. PICK G \in flat : \E Q \in Split(G) : s = Seed(class[G], Q) /\ Q \subseteq G
      BY <2>5
    <3>4. PICK Q \in Split(G) : s = Seed(class[G], Q) /\ Q \subseteq G
      BY <3>3
    <3>5. p \in P /\ p \in Q
      BY <2>6, <3>2, <3>4 DEF Seed
    <3>6. F = G
      BY <2>4, <3>2, <3>4, <3>5
    <3>7. P = Q
      BY <2>3, <3>5, <3>6, SplitWithin
    <3>8. QED
      BY <3>2, <3>4, <3>6, <3>7
  <2>7. all \subseteq Proposal
    <3>1. ASSUME NEW s \in all PROVE s \in Proposal
      <4>1. PICK F \in flat : \E P \in Split(F) :
               s = Seed(class[F], P) /\ P \subseteq F /\ class[F] \in Things
        BY <2>5
      <4>2. PICK P \in Split(F) :
               s = Seed(class[F], P) /\ P \subseteq F /\ class[F] \in Things
        BY <4>1
      <4>3. P \in SUBSET Int
        BY <2>3, <4>2
      <4>4. (~mode.local) \in BOOLEAN
        OBVIOUS
      <4>5. QED
        BY <4>2, <4>3, <4>4 DEF Seed, Proposal
    <3>2. QED
      BY <3>1
  <2>8. IsFiniteSet(all)
    <3> DEFINE G == [u \in Things \X SUBSET S |-> Seed(u[1], u[2])]
               image == {G[u] : u \in Things \X SUBSET S}
    <3>1. IsFiniteSet(Things \X SUBSET S)
      BY SuperpointsAssumption, FS_SUBSET, FS_Product
    <3>2. IsFiniteSet(image)
      <4> HIDE DEF G
      <4>1. QED
        BY <3>1, ImageFinite
    <3>3. ASSUME NEW s \in all PROVE s \in image
      <4>1. PICK F \in flat : \E P \in Split(F) :
               s = Seed(class[F], P) /\ P \subseteq F /\ class[F] \in Things
        BY <2>5
      <4>2. PICK P \in Split(F) :
               s = Seed(class[F], P) /\ P \subseteq F /\ class[F] \in Things
        BY <4>1
      <4>3. <<class[F], P>> \in Things \X SUBSET S
        BY <2>3, <4>2
      <4>4. G[<<class[F], P>>] = s
        BY <4>2, <4>3
      <4> HIDE DEF G
      <4>5. QED
        BY <4>3, <4>4
    <3>4. all \subseteq image
      BY <3>3
    <3> HIDE DEF all, image
    <3>5. QED
      BY <3>2, <3>4, FS_Subset
  <2>9. /\ seeds \in [1 .. Cardinality(all) -> all]
        /\ \A k, l \in 1 .. Cardinality(all) : k # l => seeds[k] # seeds[l]
    <3> HIDE DEF all
    <3>1. QED
      BY <2>2 DEF SetToSeqs
  <2>10. /\ seeds \in Seq(Proposal) /\ Len(seeds) = Cardinality(all)
         /\ \A k \in 1 .. Len(seeds) : seeds[k] \in all
    <3>1. Cardinality(all) \in Nat
      <4> HIDE DEF all
      <4>1. QED
        BY <2>8, FS_CardinalityType
    <3> HIDE DEF all
    <3>2. QED
      BY <2>7, <2>9, <3>1
  <2>11. \A k, l \in 1 .. Len(seeds) : k # l => seeds[k].points \intersect seeds[l].points = {}
    <3> HIDE DEF all
    <3>1. QED
      BY <2>6, <2>9, <2>10
  <2>12. ASSUME NEW k \in 1 .. Len(seeds)
         PROVE  \E F \in SUBSET S : \E P \in Split(F) :
                  seeds[k] = Seed(class[F], P) /\ P \subseteq F
    <3>1. PICK F \in flat : \E P \in Split(F) :
             seeds[k] = Seed(class[F], P) /\ P \subseteq F /\ class[F] \in Things
      <4> HIDE DEF all
      <4>1. QED
        BY <2>5, <2>10
    <3>2. QED
      BY <2>3, <3>1
  <2>13. \A F \in flat : F \in Flats(S, x)
    BY <2>1 DEF Flats, flat
  <2>14. ASSUME NEW k \in 1 .. Len(seeds)
         PROVE  \E F \in Flats(S, x) :
                  F \in SUBSET S /\ \E P \in SUBSET F : seeds[k] = Seed(class[F], P)
    <3>1. PICK F \in flat : \E P \in Split(F) :
             seeds[k] = Seed(class[F], P) /\ P \subseteq F /\ class[F] \in Things
      <4> HIDE DEF all
      <4>1. QED
        BY <2>5, <2>10
    <3>2. PICK P \in Split(F) : seeds[k] = Seed(class[F], P) /\ P \subseteq F
      BY <3>1
    <3>3. F \in Flats(S, x) /\ F \in SUBSET S /\ P \in SUBSET F
      BY <2>3, <2>13, <3>2
    <3>4. QED
      BY <3>2, <3>3
  <2>15. QED
    <3>1. Seeding(seeds, S, class)
      BY <2>10, <2>11, <2>12 DEF Seeding
    <3>2. FromFlats(seeds, S, x, class)
      BY <2>14 DEF FromFlats
    <3>3. QED
      BY <2>2, <3>1, <3>2
<1>3. QED
  BY <1>1, <1>2

\* The points a clustering may use.
Open == {p \in DOMAIN view : (mode.overlap /\ ~mode.local) \/ ~Claimed(p)}

LEMMA InlierFacts ==
  ASSUME TypeInv, NEW c, NEW S \in Inliers(Bucket(c))
  PROVE  /\ S \subseteq Open /\ IsFiniteSet(S) /\ S \subseteq Int
         /\ \A p \in S : view[p] = c
<1>1. S \subseteq Bucket(c)
  BY DEF Inliers
<1>2. Bucket(c) \subseteq Open /\ \A p \in Bucket(c) : view[p] = c
  BY DEF Bucket, Open
<1>3. IsFiniteSet(DOMAIN view) /\ DOMAIN view \subseteq Int
  BY DEF TypeInv, IsView
<1>4. S \subseteq DOMAIN view
  BY <1>1, <1>2 DEF Open
<1>5. QED
  BY <1>1, <1>2, <1>3, <1>4, FS_Subset

LEMMA ThingsAreInts == IsFiniteSet(Things) /\ Things \subseteq Int /\ Things \subseteq Nat
BY SuperpointsAssumption

LEMMA LeastClass ==
  ASSUME TypeInv, todo # {}
  PROVE  Min(todo) \in todo /\ Min(todo) \in Things
<1>1. todo \subseteq Things /\ IsFiniteSet(Things) /\ Things \subseteq Int
  BY ThingsAreInts DEF TypeInv
<1>2. IsFiniteSet(todo) /\ todo \subseteq Int
  BY <1>1, FS_Subset
<1>3. QED
  BY <1>1, <1>2, MinMax

\* One class at a time: seeds of that class, of points that show it.
OneClass(seeds, S, class, c) ==
  /\ c \in Things
  /\ S \subseteq Open /\ Seeding(seeds, S, class)
  /\ \A p \in S : view[p] = c
  /\ \A F \in SUBSET S : class[F] = c

LEMMA SeedClassStep ==
  ASSUME TypeInv, SeedClass
  PROVE  \/ UNCHANGED <<list, owner>>
         \/ \E seeds, S, class, c : OneClass(seeds, S, class, c) /\ AppendSeeds(seeds)
<1> DEFINE c == Min(todo)
<1>1. PICK S \in Inliers(Bucket(c)) :
        IF Cardinality(S) >= mode.minClass /\ Enough(Cardinality(S))
          THEN Cluster(S, Place(S), [F \in SUBSET S |-> c])
          ELSE UNCHANGED <<last, list, owner>>
  BY DEF SeedClass
<1>2. c \in Things
  BY LeastClass DEF SeedClass
<1> HIDE DEF c
<1>3. /\ S \subseteq Open /\ IsFiniteSet(S) /\ S \subseteq Int
      /\ \A p \in S : view[p] = c
  BY InlierFacts
<1>4. CASE Cluster(S, Place(S), [F \in SUBSET S |-> c])
  <2> DEFINE class == [F \in SUBSET S |-> c]
  <2>1. \A F \in SUBSET S : class[F] = c
    OBVIOUS
  <2> HIDE DEF class
  <2>2. PICK seeds : Seeding(seeds, S, class) /\ AppendSeeds(seeds)
    <3>1. Cluster(S, Place(S), class)
      BY <1>4 DEF class
    <3>2. QED
      BY <1>2, <1>3, <2>1, <3>1, ClusterSeeds
  <2>3. OneClass(seeds, S, class, c)
    BY <1>2, <1>3, <2>1, <2>2 DEF OneClass
  <2>4. QED
    BY <2>2, <2>3
<1>5. QED
  BY <1>1, <1>4

\* What single_scan clusters: the points of each class big enough, in their order, and
\* further along the line the higher their class.
LEMMA SeedAllScan ==
  ASSUME TypeInv, SeedAll
  PROVE  \E S, x :
           /\ S \subseteq Open /\ IsFiniteSet(S) /\ S \subseteq Int
           /\ \A p \in S : view[p] \in Things /\ x[p] \in Int
           /\ \A p \in S : Cardinality({q \in S : view[q] = view[p]}) >= mode.minClass
           /\ \A p, q \in S : view[p] = view[q] => x[q] - x[p] = q - p
           /\ \A p, q \in S : view[p] < view[q] => x[q] - x[p] >= ClassGap - (p - q)
           /\ IF Enough(Cardinality(S))
                THEN Cluster(S, x, [F \in (SUBSET S) \ {{}} |-> Max({view[p] : p \in F})])
                ELSE UNCHANGED <<last, list, owner>>
<1>1. PICK kept \in [todo -> SUBSET DOMAIN view] :
        /\ \A c \in todo : kept[c] \in Inliers(Bucket(c))
        /\ LET S == UNION {kept[c] : c \in {c \in todo : Cardinality(kept[c]) >= mode.minClass}}
               Slot(c) == Cardinality({d \in Things : d < c /\ \E p \in S : view[p] = d})
               x == [p \in S |-> p + ClassGap * Slot(view[p])]
               LastOf == [F \in (SUBSET S) \ {{}} |-> Max({view[p] : p \in F})]
           IN  IF Enough(Cardinality(S)) THEN Cluster(S, x, LastOf)
                ELSE UNCHANGED <<last, list, owner>>
  BY DEF SeedAll
<1>2. PICK S : S = UNION {kept[c] : c \in {c \in todo : Cardinality(kept[c]) >= mode.minClass}}
  OBVIOUS
<1> DEFINE Lower(c) == {d \in Things : d < c /\ \E p \in S : view[p] = d}
           Slot(c) == Cardinality(Lower(c))
           x == [p \in S |-> p + ClassGap * Slot(view[p])]
           LastOf == [F \in (SUBSET S) \ {{}} |-> Max({view[p] : p \in F})]
<1>3. IF Enough(Cardinality(S)) THEN Cluster(S, x, LastOf) ELSE UNCHANGED <<last, list, owner>>
  BY <1>1, <1>2
<1>4. ASSUME NEW c \in todo PROVE kept[c] \subseteq Open /\ \A p \in kept[c] : view[p] = c
  <2>1. kept[c] \in Inliers(Bucket(c))
    BY <1>1
  <2>2. QED
    BY <2>1, InlierFacts
<1>5. ASSUME NEW p \in S
      PROVE  \E c \in todo : p \in kept[c] /\ Cardinality(kept[c]) >= mode.minClass
                             /\ kept[c] \subseteq S
  BY <1>2
<1>6. ASSUME NEW p \in S PROVE p \in Open /\ view[p] \in Things
  BY <1>4, <1>5 DEF TypeInv
<1>7. IsFiniteSet(S) /\ S \subseteq Int
  <2>1. S \subseteq DOMAIN view /\ IsFiniteSet(DOMAIN view) /\ DOMAIN view \subseteq Int
    BY <1>6 DEF Open, TypeInv, IsView
  <2>2. QED
    BY <2>1, FS_Subset
<1>8. ASSUME NEW p \in S PROVE Cardinality({q \in S : view[q] = view[p]}) >= mode.minClass
  <2>1. PICK c \in todo : p \in kept[c] /\ Cardinality(kept[c]) >= mode.minClass
                          /\ kept[c] \subseteq S
    BY <1>5
  <2>2. PICK G : G = {q \in S : view[q] = view[p]}
    OBVIOUS
  <2>3. kept[c] \subseteq G /\ IsFiniteSet(G)
    BY <1>4, <1>7, <2>1, <2>2, FS_Subset
  <2>4. /\ Cardinality(kept[c]) <= Cardinality(G)
        /\ Cardinality(kept[c]) \in Nat /\ Cardinality(G) \in Nat
    BY <2>3, FS_Subset, FS_CardinalityType
  <2>5. mode.minClass \in Nat
    BY ProposalsAssumption DEF TypeInv
  <2>6. QED
    BY <2>1, <2>2, <2>4, <2>5
<1>9. ASSUME NEW c PROVE IsFiniteSet(Lower(c)) /\ Slot(c) \in Nat
  <2>1. IsFiniteSet(Lower(c))
    BY ThingsAreInts, FS_Subset
  <2>2. QED
    BY <2>1, FS_CardinalityType
<1>10. ASSUME NEW p \in S, NEW q \in S, view[p] < view[q]
       PROVE  Slot(view[p]) + 1 <= Slot(view[q])
  <2>1. view[p] \in Nat /\ view[q] \in Nat /\ Things \subseteq Nat /\ view[p] \in Things
    BY <1>6, ThingsAreInts
  <2>2. Lower(view[p]) \subseteq Lower(view[q])
    <3>1. ASSUME NEW d \in Things, d < view[p] PROVE d < view[q]
      BY <1>10, <2>1, <3>1
    <3>2. QED
      BY <3>1
  <2>3. view[p] \in Lower(view[q]) /\ view[p] \notin Lower(view[p])
    BY <1>10, <2>1
  <2>4. /\ IsFiniteSet(Lower(view[p])) /\ Slot(view[p]) \in Nat
        /\ IsFiniteSet(Lower(view[q])) /\ Slot(view[q]) \in Nat
    BY <1>9
  <2> HIDE DEF Lower
  <2>5. Cardinality(Lower(view[p])) < Cardinality(Lower(view[q]))
    BY <2>2, <2>3, <2>4, FS_Subset
  <2>6. QED
    BY <2>4, <2>5
<1>11. \A p \in S : x[p] = p + ClassGap * Slot(view[p])
  OBVIOUS
<1> HIDE DEF Slot, Lower, x, LastOf
<1>12. ClassGap \in Nat
  BY ProposalsAssumption
<1>13. ASSUME NEW p \in S PROVE x[p] \in Int
  <2>1. p \in Int /\ Slot(view[p]) \in Nat
    BY <1>7, <1>9
  <2>2. QED
    BY <1>11, <1>12, <2>1
<1>14. ASSUME NEW p \in S, NEW q \in S
       PROVE  /\ view[p] = view[q] => x[q] - x[p] = q - p
              /\ view[p] < view[q] => x[q] - x[p] >= ClassGap - (p - q)
  <2>1. PICK m, n : m = Slot(view[p]) /\ n = Slot(view[q])
    OBVIOUS
  <2>2. PICK a, b : a = ClassGap * m /\ b = ClassGap * n
    OBVIOUS
  <2>3. m \in Nat /\ n \in Nat /\ p \in Int /\ q \in Int
    BY <1>7, <1>9, <2>1
  <2>4. a \in Int /\ b \in Int
    BY <1>12, <2>2, <2>3
  <2>5. x[p] = p + a /\ x[q] = q + b
    BY <1>11, <2>1, <2>2
  <2>6. view[p] = view[q] => a = b
    BY <2>1, <2>2
  <2>7. view[p] < view[q] => a + ClassGap <= b
    <3>1. SUFFICES ASSUME m + 1 <= n PROVE a + ClassGap <= b
      BY <1>10, <2>1
    <3>2. ClassGap * (m + 1) <= ClassGap * n
      BY <1>12, <2>3, <3>1, MulMono
    <3>3. ClassGap * (m + 1) = a + ClassGap
      BY <1>12, <2>2, <2>3
    <3>4. QED
      BY <2>2, <3>2, <3>3
  <2>8. QED
    BY <1>12, <2>3, <2>4, <2>5, <2>6, <2>7
<1>15. QED
  BY <1>3, <1>6, <1>7, <1>8, <1>13, <1>14 DEF LastOf

\* All classes at once: seeds of thing classes.
LEMMA SeedAllStep ==
  ASSUME TypeInv, SeedAll
  PROVE  \/ UNCHANGED <<list, owner>>
         \/ \E seeds, S, class :
              S \subseteq Open /\ Seeding(seeds, S, class) /\ AppendSeeds(seeds)
<1>1. PICK S, x :
        /\ S \subseteq Open /\ IsFiniteSet(S) /\ S \subseteq Int
        /\ \A p \in S : view[p] \in Things
        /\ IF Enough(Cardinality(S))
             THEN Cluster(S, x, [F \in (SUBSET S) \ {{}} |-> Max({view[p] : p \in F})])
             ELSE UNCHANGED <<last, list, owner>>
  BY SeedAllScan
<1>2. mode.local = FALSE
  BY DEF SeedAll, TypeInv
<1> DEFINE class == [F \in (SUBSET S) \ {{}} |-> Max({view[p] : p \in F})]
<1>3. ASSUME NEW F \in SUBSET S, F # {} PROVE class[F] \in Things
  <2> DEFINE seen == {view[p] : p \in F}
  <2>1. class[F] = Max(seen)
    BY <1>3
  <2>2. seen \subseteq Things /\ seen # {}
    BY <1>1, <1>3
  <2> HIDE DEF seen, class
  <2>3. IsFiniteSet(seen) /\ seen \subseteq Int
    BY <2>2, ThingsAreInts, FS_Subset
  <2>4. QED
    BY <2>1, <2>2, <2>3, MinMax
<1>4. CASE Cluster(S, x, class)
  <2> HIDE DEF class
  <2>1. \E seeds : Seeding(seeds, S, class) /\ AppendSeeds(seeds)
    BY <1>1, <1>2, <1>3, <1>4, ClusterSeeds
  <2>2. QED
    BY <1>1, <2>1
<1>5. QED
  BY <1>1, <1>4

\* What appendSeed does to the list.
LEMMA Appended ==
  ASSUME TypeInv, NEW seeds, NEW S, NEW class, S \subseteq Open, Seeding(seeds, S, class),
         AppendSeeds(seeds)
  PROVE  /\ list' \in Seq(Proposal) /\ Len(list) \in Nat /\ Len(seeds) \in Nat
         /\ Len(list') = Len(list) + Len(seeds)
         /\ \A i \in 1 .. Len(list) : list'[i] = list[i]
         /\ \A k \in 1 .. Len(seeds) : list'[Len(list) + k] = seeds[k]
         /\ \A i \in 1 .. Len(list') :
              i \in 1 .. Len(list) \/ \E k \in 1 .. Len(seeds) : i = Len(list) + k
         /\ \A k \in 1 .. Len(seeds) :
              /\ seeds[k].points = seeds[k].seed /\ seeds[k].seed \subseteq S
              /\ seeds[k].spike = ~mode.local
              /\ \E F \in SUBSET S : seeds[k].class = class[F]
<1>1. list \in Seq(Proposal) /\ seeds \in Seq(Proposal) /\ list' = list \o seeds
  BY DEF TypeInv, Seeding, AppendSeeds
<1>2. Len(list) \in Nat /\ Len(seeds) \in Nat
  BY <1>1
<1>3. /\ list' \in Seq(Proposal) /\ Len(list') = Len(list) + Len(seeds)
      /\ \A i \in 1 .. Len(list) : list'[i] = list[i]
      /\ \A k \in 1 .. Len(seeds) : list'[Len(list) + k] = seeds[k]
  BY <1>1, <1>2
<1>4. ASSUME NEW i \in 1 .. Len(list'), i \notin 1 .. Len(list)
      PROVE  \E k \in 1 .. Len(seeds) : i = Len(list) + k
  <2>1. i - Len(list) \in 1 .. Len(seeds) /\ i = Len(list) + (i - Len(list))
    BY <1>2, <1>3, <1>4
  <2>2. QED
    BY <2>1
<1>5. ASSUME NEW k \in 1 .. Len(seeds)
      PROVE  /\ seeds[k].points = seeds[k].seed /\ seeds[k].seed \subseteq S
             /\ seeds[k].spike = ~mode.local
             /\ \E F \in SUBSET S : seeds[k].class = class[F]
  <2>0. PICK F \in SUBSET S : \E P \in Split(F) : seeds[k] = Seed(class[F], P) /\ P \subseteq F
    BY DEF Seeding
  <2>1. PICK P : seeds[k] = Seed(class[F], P) /\ P \subseteq F
    BY <2>0
  <2>2. QED
    BY <2>1 DEF Seed
<1>6. QED
  BY <1>2, <1>3, <1>4, <1>5

LEMMA SeedType ==
  ASSUME TypeInv, SeedClass \/ SeedAll
  PROVE  TypeInv'
<1>1. \/ UNCHANGED <<list, owner>>
      \/ \E seeds, S, class :
           S \subseteq Open /\ Seeding(seeds, S, class) /\ AppendSeeds(seeds)
  <2>1. CASE SeedClass
    BY <2>1, SeedClassStep DEF OneClass
  <2>2. CASE SeedAll
    BY <2>2, SeedAllStep
  <2>3. QED
    BY <2>1, <2>2
<1>2. /\ UNCHANGED <<mode, frame, stage, view, growVars>>
      /\ todo' \subseteq todo /\ stage = "seed"
  BY DEF SeedClass, SeedAll
<1>3. CASE UNCHANGED <<list, owner>>
  BY <1>2, <1>3 DEF TypeInv, growVars, IsView
<1>4. ASSUME NEW seeds, NEW S, NEW class,
             S \subseteq Open, Seeding(seeds, S, class), AppendSeeds(seeds)
      PROVE  TypeInv'
  <2>1. /\ list' \in Seq(Proposal) /\ Len(list) \in Nat /\ Len(seeds) \in Nat
        /\ Len(list') = Len(list) + Len(seeds)
        /\ \A i \in 1 .. Len(list) : list'[i] = list[i]
        /\ \A k \in 1 .. Len(seeds) : list'[Len(list) + k] = seeds[k]
        /\ \A i \in 1 .. Len(list') :
             i \in 1 .. Len(list) \/ \E k \in 1 .. Len(seeds) : i = Len(list) + k
        /\ \A k \in 1 .. Len(seeds) : seeds[k].points = seeds[k].seed /\ seeds[k].seed \subseteq S
    BY <1>4, Appended
  <2>2. DOMAIN list = 1 .. Len(list) /\ DOMAIN list' = 1 .. Len(list')
    BY <2>1 DEF TypeInv
  <2>3. DOMAIN list \subseteq DOMAIN list'
    BY <2>1, <2>2
  <2>4. annexed' \subseteq (DOMAIN list') \X segs'
    BY <1>2, <2>3 DEF TypeInv, growVars
  <2>5. ASSUME ~mode.local, NEW i \in DOMAIN list'
        PROVE  list'[i].points \subseteq DOMAIN view /\ list'[i].seed \subseteq list'[i].points
    <3>1. CASE i \in 1 .. Len(list)
      BY <2>1, <2>2, <2>5, <3>1 DEF TypeInv
    <3>2. ASSUME NEW k \in 1 .. Len(seeds), i = Len(list) + k
          PROVE  list'[i].points \subseteq DOMAIN view /\ list'[i].seed \subseteq list'[i].points
      <4>1. list'[i] = seeds[k] /\ S \subseteq DOMAIN view
        BY <1>4, <2>1, <3>2 DEF Open
      <4>2. QED
        BY <2>1, <4>1
    <3>3. QED
      BY <2>1, <2>2, <3>1, <3>2
  <2>6. QED
    BY <1>2, <2>1, <2>4, <2>5 DEF TypeInv, growVars, IsView
<1>5. QED
  BY <1>1, <1>3, <1>4

\* The shares of a superpoint that the proposals hold are sizes, so one is the largest.
LEMMA SharesAreSizes ==
  ASSUME TypeInv, NEW s \in segs
  PROVE  /\ IsFiniteSet(s) /\ s # {} /\ Cardinality(s) \in Nat \ {0}
         /\ \A P : Shared(P, s) \in Nat /\ Shared(P, s) <= Cardinality(s)
<1>1. IsFiniteSet(s) /\ s # {}
  BY SuperpointsAssumption DEF TypeInv
<1>2. Cardinality(s) \in Nat /\ Cardinality(s) # 0
  BY <1>1, FS_CardinalityType, FS_EmptySet
<1>3. ASSUME NEW P PROVE Shared(P, s) \in Nat /\ Shared(P, s) <= Cardinality(s)
  <2>1. IsFiniteSet(P \intersect s) /\ Cardinality(P \intersect s) <= Cardinality(s)
    BY <1>1, FS_Subset
  <2>2. QED
    BY <2>1, FS_CardinalityType DEF Shared
<1>4. QED
  BY <1>1, <1>2, <1>3

LEMMA BestIsCandidate ==
  ASSUME TypeInv, NEW s \in segs, Candidates(s) # {}
  PROVE  Best(s) \in Candidates(s)
<1> DEFINE C == Candidates(s)
           share(i) == Shared(list[i].points, s)
           T == {share(i) : i \in C}
<1>1. C \subseteq 1 .. Len(list) /\ Len(list) \in Nat
  BY DEF Candidates, TypeInv
<1>2. \A i \in C : share(i) \in Nat /\ share(i) <= Cardinality(s) /\ Cardinality(s) \in Nat
  BY SharesAreSizes
<1> HIDE DEF C, share
<1>3. PICK m \in T : \A k \in T : k <= m
  <2>1. T \subseteq Nat /\ T # {} /\ Cardinality(s) \in Nat /\ \A k \in T : k <= Cardinality(s)
    BY <1>2, SharesAreSizes DEF C
  <2> HIDE DEF T
  <2>2. QED
    BY <2>1, GreatestElement
<1> DEFINE U == {i \in C : share(i) = m}
<1>4. PICK b \in U : \A i \in U : i <= b
  <2>1. U \subseteq Nat /\ U # {} /\ \A i \in U : i <= Len(list)
    BY <1>1, <1>3
  <2> HIDE DEF U
  <2>2. QED
    BY <1>1, <2>1, GreatestElement
<1>5. ASSUME NEW j \in C PROVE share(b) > share(j) \/ (share(b) = share(j) /\ b >= j)
  <2>1. share(j) <= m /\ share(j) \in Nat /\ m \in Nat /\ share(b) = m
    BY <1>2, <1>3, <1>4
  <2>2. CASE share(j) = m
    <3>1. j \in U
      BY <2>2
    <3>2. j <= b /\ j \in Nat /\ b \in Nat
      BY <1>1, <1>4, <3>1
    <3>3. QED
      BY <2>1, <2>2, <3>2
  <2>3. CASE share(j) # m
    BY <2>1, <2>3
  <2>4. QED
    BY <2>2, <2>3
<1>6. \E i \in C : \A j \in C : share(i) > share(j) \/ (share(i) = share(j) /\ i >= j)
  BY <1>4, <1>5
<1>7. QED
  BY <1>6 DEF Best, C, share

LEMMA SegmentsAreGroups ==
  ASSUME NEW v, NEW F \in Segmentations(v)
  PROVE  /\ F \subseteq Groups /\ \A s \in F : s \subseteq DOMAIN v
         /\ \A a, b \in F : a # b => a \intersect b = {}
<1> DEFINE found == {s \in Groups : s \subseteq DOMAIN v}
<1>1. CASE F = {}
  BY <1>1
<1>2. CASE F # {}
  <2>1. /\ F \in {{}} \union {Range(f) : f \in [1 .. MaxSegments -> found]}
        /\ \A a, b \in F : a # b => a \intersect b = {}
    BY <1>2 DEF Segmentations
  <2>2. PICK f \in [1 .. MaxSegments -> found] : F = Range(f)
    BY <1>2, <2>1
  <2>3. F \subseteq found
    BY <2>2 DEF Range
  <2>4. QED
    BY <2>1, <2>3
<1>3. QED
  BY <1>1, <1>2

\* A proposal that grows gains points of the view and nothing else changes.
LEMMA GrowType ==
  ASSUME TypeInv, ~mode.local, NEW l, NEW a,
         DOMAIN l = DOMAIN list,
         \A i \in DOMAIN list :
           \E new \in SUBSET DOMAIN view :
             l[i] = [list[i] EXCEPT !.points = @ \union new],
         l = [i \in DOMAIN list |-> l[i]],
         list' = l, annexed' = a, a \subseteq (DOMAIN list) \X segs,
         UNCHANGED <<mode, frame, stage, view, todo, segs>>,
         left' \subseteq segs, moved' \in BOOLEAN
  PROVE  TypeInv'
<1>1. list \in Seq(Proposal) /\ Len(list) \in Nat /\ DOMAIN list = 1 .. Len(list)
  BY DEF TypeInv
<1>2. DOMAIN view \subseteq Int
  BY DEF TypeInv, IsView
<1>3. ASSUME NEW i \in DOMAIN list
      PROVE  /\ l[i] \in Proposal
             /\ l[i].points \subseteq DOMAIN view /\ l[i].seed \subseteq l[i].points
  <2>1. list[i] \in Proposal
    BY <1>1
  <2>2. PICK new \in SUBSET DOMAIN view : l[i] = [list[i] EXCEPT !.points = @ \union new]
    OBVIOUS
  <2>3. list[i].points \subseteq DOMAIN view /\ list[i].seed \subseteq list[i].points
    BY DEF TypeInv
  <2>4. l[i] = [class |-> list[i].class, seed |-> list[i].seed,
                points |-> list[i].points \union new, spike |-> list[i].spike]
    BY <2>1, <2>2 DEF Proposal
  <2>5. list[i].points \union new \in SUBSET Int
    BY <1>2, <2>3
  <2>6. QED
    BY <2>1, <2>3, <2>4, <2>5 DEF Proposal
<1>4. list' \in Seq(Proposal)
  <2>1. l \in [1 .. Len(list) -> Proposal]
    BY <1>1, <1>3
  <2>2. QED
    BY <1>1, <2>1
<1>5. QED
  BY <1>1, <1>3, <1>4 DEF TypeInv, IsView

\* An evaluation changes nothing, or the best proposal annexes what is free, or every
\* new one the whole.
LEMMA EvaluateStep ==
  ASSUME TypeInv, Evaluate
  PROVE  \E s \in left :
           /\ left' = left \ {s} /\ s \in segs /\ s \subseteq DOMAIN view
           /\ \/ ~Wanted(s) /\ UNCHANGED <<list, owner, moved, annexed>>
              \/ ~mode.overlap /\ Wanted(s) /\ moved' = TRUE /\ AnnexBest(s)
              \/ mode.overlap /\ Wanted(s) /\ moved' = TRUE /\ AnnexAll(s)
           /\ UNCHANGED <<mode, frame, stage, view, todo, last, segs, sweep>>
           /\ ~mode.local /\ stage = "grow"
BY DEF TypeInv, Evaluate

LEMMA EvaluateType == ASSUME TypeInv, Evaluate PROVE TypeInv'
<1>1. PICK s \in left :
        /\ left' = left \ {s} /\ s \in segs /\ s \subseteq DOMAIN view
        /\ \/ ~Wanted(s) /\ UNCHANGED <<list, owner, moved, annexed>>
           \/ ~mode.overlap /\ Wanted(s) /\ moved' = TRUE /\ AnnexBest(s)
           \/ mode.overlap /\ Wanted(s) /\ moved' = TRUE /\ AnnexAll(s)
        /\ UNCHANGED <<mode, frame, stage, view, todo, last, segs, sweep>>
        /\ ~mode.local /\ stage = "grow"
  BY EvaluateStep
<1>2. left' \subseteq segs
  BY <1>1 DEF TypeInv
<1>3. DOMAIN list = 1 .. Len(list) /\ list \in Seq(Proposal)
  BY DEF TypeInv
<1>4. CASE UNCHANGED <<list, owner, moved, annexed>>
  BY <1>1, <1>2, <1>4 DEF TypeInv, IsView
<1>5. CASE ~mode.overlap /\ Wanted(s) /\ moved' = TRUE /\ AnnexBest(s)
  <2> DEFINE b == Best(s)
             free == {p \in s : ~Claimed(p)}
             l == [list EXCEPT ![b].points = @ \union free]
  <2>1. list' = l /\ annexed' = annexed
    BY <1>5 DEF AnnexBest, Enlarge
  <2>2. b \in DOMAIN list
    BY <1>1, <1>5, BestIsCandidate DEF Wanted, Candidates
  <2>3. free \in SUBSET DOMAIN view
    BY <1>1
  <2> HIDE DEF free, b
  <2>4. DOMAIN l = DOMAIN list /\ l = [i \in DOMAIN list |-> l[i]]
    BY <1>3
  <2>5. ASSUME NEW i \in DOMAIN list
        PROVE  \E new \in SUBSET DOMAIN view : l[i] = [list[i] EXCEPT !.points = @ \union new]
    <3>1. CASE i = b
      BY <2>3, <3>1
    <3>2. CASE i # b
      <4>1. l[i] = list[i] /\ list[i] \in Proposal
        BY <1>3, <3>2
      <4>2. list[i] = [list[i] EXCEPT !.points = @ \union {}]
        BY <4>1 DEF Proposal
      <4>3. QED
        BY <4>1, <4>2
    <3>3. QED
      BY <3>1, <3>2
  <2>6. annexed \subseteq (DOMAIN list) \X segs /\ moved' \in BOOLEAN
    BY <1>5 DEF TypeInv
  <2> HIDE DEF l
  <2>7. QED
    BY <1>1, <1>2, <2>1, <2>4, <2>5, <2>6, GrowType
<1>6. CASE mode.overlap /\ Wanted(s) /\ moved' = TRUE /\ AnnexAll(s)
  <2> DEFINE l == [i \in DOMAIN list |->
                     IF i \in New(s) THEN [list[i] EXCEPT !.points = @ \union s] ELSE list[i]]
  <2>1. list' = l /\ annexed' = annexed \union (New(s) \X {s})
    BY <1>6 DEF AnnexAll
  <2>2. New(s) \subseteq DOMAIN list
    BY DEF New, Candidates
  <2>3. annexed' \subseteq (DOMAIN list) \X segs /\ moved' \in BOOLEAN
    BY <1>1, <1>6, <2>1, <2>2 DEF TypeInv
  <2>4. DOMAIN l = DOMAIN list /\ l = [i \in DOMAIN list |-> l[i]]
    OBVIOUS
  <2>5. ASSUME NEW i \in DOMAIN list
        PROVE  \E new \in SUBSET DOMAIN view : l[i] = [list[i] EXCEPT !.points = @ \union new]
    <3>1. CASE i \in New(s)
      BY <1>1, <3>1
    <3>2. CASE i \notin New(s)
      <4>1. l[i] = list[i] /\ list[i] \in Proposal
        BY <1>3, <3>2
      <4>2. list[i] = [list[i] EXCEPT !.points = @ \union {}]
        BY <4>1 DEF Proposal
      <4>3. QED
        BY <4>1, <4>2
    <3>3. QED
      BY <3>1, <3>2
  <2> HIDE DEF l
  <2>6. QED
    BY <1>1, <1>2, <2>1, <2>3, <2>4, <2>5, GrowType
<1>7. QED
  BY <1>1, <1>4, <1>5, <1>6

LEMMA InitType == Init => TypeInv
<1> SUFFICES ASSUME Init PROVE TypeInv
  OBVIOUS
<1>1. /\ mode \in Modes /\ frame = 0 /\ stage = "idle" /\ view = <<>> /\ todo = {}
      /\ list = <<>> /\ segs = {} /\ left = {} /\ moved = FALSE /\ annexed = {}
  BY DEF Init
<1>2. IsView(view)
  BY <1>1, FS_EmptySet DEF IsView
<1>3. list \in Seq(Proposal) /\ DOMAIN list = {} /\ annexed \subseteq (DOMAIN list) \X segs
  BY <1>1
<1>4. QED
  BY <1>1, <1>2, <1>3 DEF TypeInv

LEMMA BeginType == ASSUME TypeInv, BeginFrame PROVE TypeInv'
<1>1. /\ frame' = frame + 1 /\ frame < Len(Views) /\ view' \in Views[frame']
      /\ todo' = Range(view') \ {Other} /\ stage' = "seed" /\ mode' = mode
      /\ segs' = {} /\ left' = {} /\ moved' = FALSE /\ annexed' = {}
  BY DEF BeginFrame
<1>2. IsView(view')
  <2>1. frame' \in 1 .. Len(Views)
    BY <1>1, ProposalsAssumption DEF TypeInv
  <2>2. QED
    BY <1>1, <2>1, ProposalsAssumption DEF IsView
<1>3. todo' \subseteq Things
  BY <1>1, <1>2 DEF Range, IsView
<1>4. CASE mode.local
  <2>1. list' = list
    BY <1>4 DEF BeginFrame, Wipe
  <2>2. annexed' \subseteq (DOMAIN list') \X segs' /\ frame + 1 \in Nat
    BY <1>1 DEF TypeInv
  <2>3. QED
    BY <1>1, <1>2, <1>3, <1>4, <2>1, <2>2 DEF TypeInv
<1>5. CASE ~mode.local
  <2>1. list' = <<>>
    BY <1>5 DEF BeginFrame, Wipe
  <2>2. annexed' \subseteq (DOMAIN list') \X segs' /\ frame + 1 \in Nat
    BY <1>1 DEF TypeInv
  <2>3. list' \in Seq(Proposal) /\ DOMAIN list' = {}
    BY <2>1
  <2>4. QED
    BY <1>1, <1>2, <1>3, <2>2, <2>3 DEF TypeInv
<1>6. QED
  BY <1>4, <1>5

LEMMA NextType == ASSUME TypeInv, [Next]_vars PROVE TypeInv'
<1>1. CASE UNCHANGED vars
  BY <1>1 DEF TypeInv, IsView, vars, seedVars, growVars
<1>2. CASE Segment
  <2>1. /\ segs' \in Segmentations(view) /\ stage' = "grow" /\ left' = segs' /\ moved' = FALSE
        /\ annexed' = {} /\ ~mode.local /\ UNCHANGED <<mode, frame, view, todo, list>>
    BY <1>2 DEF Segment
  <2>2. /\ segs' \subseteq Groups /\ \A s \in segs' : s \subseteq DOMAIN view'
        /\ \A a, b \in segs' : a # b => a \intersect b = {}
    BY <2>1, SegmentsAreGroups
  <2>3. QED
    BY <2>1, <2>2 DEF TypeInv, IsView
<1>3. CASE EndLocal \/ EndGrow
  BY <1>3 DEF TypeInv, IsView, EndLocal, EndGrow, seedVars, growVars
<1>4. CASE NextSweep
  BY <1>4 DEF TypeInv, IsView, NextSweep, seedVars
<1>5. QED
  BY <1>1, <1>2, <1>3, <1>4, BeginType, SeedType, EvaluateType DEF Next
-----------------------------------------------------------------------------
(* Whose a point is *)

\* What OwnersTell says, of every point.
ClaimInv ==
  ~mode.overlap =>
    /\ \A i \in DOMAIN list : \A p : p \in list[i].points <=> p \in DOMAIN owner /\ owner[p] = i
    /\ \A p \in DOMAIN owner : owner[p] \in 0 .. Len(list)

LEMMA AppendKeepsClaims ==
  ASSUME TypeInv, ClaimInv, mode' = mode, NEW seeds, NEW S, NEW class,
         S \subseteq Open, Seeding(seeds, S, class), AppendSeeds(seeds)
  PROVE  ClaimInv'
<1>1. SUFFICES ASSUME ~mode.overlap
               PROVE  /\ \A i \in DOMAIN list' : \A p :
                           p \in list'[i].points <=> p \in DOMAIN owner' /\ owner'[p] = i
                      /\ \A p \in DOMAIN owner' : owner'[p] \in 0 .. Len(list')
  BY DEF ClaimInv
<1>2. /\ list' \in Seq(Proposal) /\ Len(list) \in Nat /\ Len(seeds) \in Nat
      /\ Len(list') = Len(list) + Len(seeds)
      /\ \A i \in 1 .. Len(list) : list'[i] = list[i]
      /\ \A k \in 1 .. Len(seeds) : list'[Len(list) + k] = seeds[k]
      /\ \A i \in 1 .. Len(list') :
           i \in 1 .. Len(list) \/ \E k \in 1 .. Len(seeds) : i = Len(list) + k
      /\ \A k \in 1 .. Len(seeds) : seeds[k].points = seeds[k].seed /\ seeds[k].seed \subseteq S
  BY Appended
<1> DEFINE Mine(p) == {i \in DOMAIN seeds : p \in seeds[i].points}
<1>3. owner' = [p \in DOMAIN owner \union DOMAIN view |->
                  IF Mine(p) # {} THEN Len(list) + Max(Mine(p))
                  ELSE IF p \in DOMAIN owner THEN owner[p] ELSE 0]
  BY DEF AppendSeeds
<1>4. DOMAIN seeds = 1 .. Len(seeds) /\ DOMAIN list = 1 .. Len(list) /\ DOMAIN list' = 1 .. Len(list')
  BY <1>2 DEF Seeding, TypeInv
<1>5. ASSUME NEW k \in 1 .. Len(seeds), NEW p, p \in seeds[k].points
      PROVE  p \in DOMAIN view /\ ~Claimed(p) /\ Mine(p) = {k} /\ Max(Mine(p)) = k
  <2>1. p \in Open
    BY <1>2, <1>5
  <2>2. p \in DOMAIN view /\ ~Claimed(p)
    BY <1>1, <2>1 DEF Open
  <2>3. Mine(p) = {k}
    <3>1. \A i \in 1 .. Len(seeds) : p \in seeds[i].points => i = k
      BY <1>5 DEF Seeding
    <3>2. QED
      BY <1>4, <1>5, <3>1
  <2>4. k \in Int
    BY <1>2
  <2> HIDE DEF Mine
  <2>5. QED
    BY <2>2, <2>3, <2>4, MaxSingle
<1>6. ASSUME NEW p, Mine(p) # {}
      PROVE  \E k \in 1 .. Len(seeds) : p \in seeds[k].points
  BY <1>4, <1>6
<1> HIDE DEF Mine
<1>7. ASSUME NEW p \in DOMAIN owner' PROVE owner'[p] \in 0 .. Len(list')
  <2>1. CASE Mine(p) # {}
    <3>1. PICK k \in 1 .. Len(seeds) : p \in seeds[k].points
      BY <1>6, <2>1
    <3>2. owner'[p] = Len(list) + k
      BY <1>3, <1>5, <1>7, <2>1, <3>1
    <3>3. QED
      BY <1>2, <3>2
  <2>2. CASE Mine(p) = {} /\ p \in DOMAIN owner
    <3>1. owner'[p] = owner[p] /\ owner[p] \in 0 .. Len(list)
      BY <1>1, <1>3, <2>2 DEF ClaimInv
    <3>2. QED
      BY <1>2, <3>1
  <2>3. CASE Mine(p) = {} /\ p \notin DOMAIN owner
    <3>1. owner'[p] = 0
      BY <1>3, <1>7, <2>3
    <3>2. QED
      BY <1>2, <3>1
  <2>4. QED
    BY <2>1, <2>2, <2>3
<1>8. ASSUME NEW i \in 1 .. Len(list), NEW p
      PROVE  p \in list'[i].points <=> p \in DOMAIN owner' /\ owner'[p] = i
  <2>1. p \in list'[i].points <=> p \in DOMAIN owner /\ owner[p] = i
    BY <1>1, <1>2, <1>4 DEF ClaimInv
  <2>2. CASE Mine(p) # {}
    <3>1. PICK k \in 1 .. Len(seeds) : p \in seeds[k].points
      BY <1>6, <2>2
    <3>2. p \in DOMAIN view /\ ~Claimed(p) /\ owner'[p] = Len(list) + k
      BY <1>3, <1>5, <2>2, <3>1
    <3>3. Len(list) + k # i /\ i # 0
      BY <1>2
    <3>4. ~(p \in DOMAIN owner /\ owner[p] = i)
      BY <3>2, <3>3 DEF Claimed
    <3>5. QED
      BY <2>1, <3>2, <3>3, <3>4
  <2>3. CASE Mine(p) = {}
    <3>1. i # 0
      BY <1>2
    <3>2. QED
      BY <1>3, <2>1, <2>3, <3>1
  <2>4. QED
    BY <2>2, <2>3
<1>9. ASSUME NEW k \in 1 .. Len(seeds), NEW p
      PROVE  p \in list'[Len(list) + k].points
               <=> p \in DOMAIN owner' /\ owner'[p] = Len(list) + k
  <2>1. CASE p \in seeds[k].points
    <3>1. p \in DOMAIN view /\ Mine(p) = {k} /\ Max(Mine(p)) = k
      BY <1>5, <2>1
    <3>2. p \in DOMAIN owner' /\ owner'[p] = Len(list) + k
      BY <1>3, <3>1
    <3>3. QED
      BY <1>2, <2>1, <3>2
  <2>2. CASE p \notin seeds[k].points
    <3>1. ASSUME p \in DOMAIN owner', owner'[p] = Len(list) + k PROVE FALSE
      <4>1. CASE Mine(p) # {}
        <5>1. PICK l \in 1 .. Len(seeds) : p \in seeds[l].points
          BY <1>6, <4>1
        <5>2. owner'[p] = Len(list) + l
          BY <1>3, <1>5, <3>1, <4>1, <5>1
        <5>3. l = k
          BY <1>2, <3>1, <5>2
        <5>4. QED
          BY <2>2, <5>1, <5>3
      <4>2. CASE Mine(p) = {}
        <5>1. owner'[p] = 0 \/ (p \in DOMAIN owner /\ owner'[p] = owner[p])
          BY <1>3, <3>1, <4>2
        <5>2. p \in DOMAIN owner => owner[p] \in 0 .. Len(list)
          BY <1>1 DEF ClaimInv
        <5>3. QED
          BY <1>2, <3>1, <5>1, <5>2
      <4>3. QED
        BY <4>1, <4>2
    <3>2. QED
      BY <1>2, <2>2, <3>1
  <2>3. QED
    BY <2>1, <2>2
<1>10. ASSUME NEW i \in DOMAIN list', NEW p
       PROVE  p \in list'[i].points <=> p \in DOMAIN owner' /\ owner'[p] = i
  <2>1. CASE i \in 1 .. Len(list)
    BY <1>8, <2>1
  <2>2. ASSUME NEW k \in 1 .. Len(seeds), i = Len(list) + k
        PROVE  p \in list'[i].points <=> p \in DOMAIN owner' /\ owner'[p] = i
    BY <1>9, <2>2
  <2>3. QED
    BY <1>2, <1>4, <2>1, <2>2
<1>11. QED
  BY <1>7, <1>10

LEMMA AnnexKeepsClaims ==
  ASSUME TypeInv, ClaimInv, mode' = mode, NEW s \in segs, Wanted(s), ~mode.overlap, AnnexBest(s)
  PROVE  ClaimInv'
<1> DEFINE b == Best(s)
           free == {p \in s : ~Claimed(p)}
<1>1. /\ list' = [list EXCEPT ![b].points = @ \union free]
      /\ owner' = [p \in DOMAIN owner \union s |-> IF p \in free THEN b ELSE owner[p]]
  BY DEF AnnexBest, Enlarge
<1>2. b \in DOMAIN list
  BY BestIsCandidate DEF Wanted, Candidates
<1>3. DOMAIN list = 1 .. Len(list) /\ Len(list) \in Nat /\ list \in Seq(Proposal)
  BY DEF TypeInv
<1>4. \A p \in free : ~(p \in DOMAIN owner /\ owner[p] # 0)
  BY DEF Claimed
<1>5. \A p \in s : p \notin free => p \in DOMAIN owner /\ owner[p] # 0
  BY DEF Claimed
<1>6. /\ \A i \in DOMAIN list : \A p : p \in list[i].points <=> p \in DOMAIN owner /\ owner[p] = i
      /\ \A p \in DOMAIN owner : owner[p] \in 0 .. Len(list)
  BY DEF ClaimInv
<1> HIDE DEF b, free
<1>7. /\ DOMAIN list' = DOMAIN list /\ Len(list') = Len(list)
      /\ \A i \in DOMAIN list : list'[i].points =
           IF i = b THEN list[i].points \union free ELSE list[i].points
  <2>1. DOMAIN list' = DOMAIN list /\ \A i \in DOMAIN list : i # b => list'[i] = list[i]
    BY <1>1, <1>2, <1>3
  <2>2. list'[b].points = list[b].points \union free
    <3>1. list[b] \in Proposal
      BY <1>2, <1>3
    <3>2. QED
      BY <1>1, <1>2, <3>1 DEF Proposal
  <2>3. Len(list') = Len(list)
    BY <1>1, <1>3
  <2>4. QED
    BY <2>1, <2>2, <2>3
<1>8. ASSUME NEW i \in DOMAIN list, NEW p
      PROVE  p \in list'[i].points <=> p \in DOMAIN owner' /\ owner'[p] = i
  <2>1. p \in list[i].points <=> p \in DOMAIN owner /\ owner[p] = i
    BY <1>6
  <2>2. i # 0 /\ i \in Nat
    BY <1>3
  <2>3. CASE p \in free
    <3>1. p \in DOMAIN owner' /\ owner'[p] = b
      BY <1>1, <2>3 DEF free
    <3>2. p \notin list[i].points
      BY <1>4, <2>1, <2>2, <2>3
    <3>3. QED
      BY <1>7, <2>3, <3>1, <3>2
  <2>4. CASE p \notin free
    <3>1. p \in list'[i].points <=> p \in list[i].points
      BY <1>7, <2>4
    <3>2. p \in DOMAIN owner' <=> p \in DOMAIN owner
      BY <1>1, <1>5, <2>4
    <3>3. p \in DOMAIN owner => owner'[p] = owner[p]
      BY <1>1, <2>4
    <3>4. QED
      BY <2>1, <3>1, <3>2, <3>3
  <2>5. QED
    BY <2>3, <2>4
<1>9. ASSUME NEW p \in DOMAIN owner' PROVE owner'[p] \in 0 .. Len(list)
  <2>1. CASE p \in free
    <3>1. owner'[p] = b
      BY <1>1, <1>9, <2>1
    <3>2. QED
      BY <1>2, <1>3, <3>1
  <2>2. CASE p \notin free
    <3>1. p \in DOMAIN owner /\ owner'[p] = owner[p]
      BY <1>1, <1>5, <1>9, <2>2
    <3>2. QED
      BY <1>6, <3>1
  <2>3. QED
    BY <2>1, <2>2
<1>10. QED
  BY <1>7, <1>8, <1>9 DEF ClaimInv

LEMMA NextClaims == ASSUME TypeInv, ClaimInv, [Next]_vars PROVE ClaimInv'
<1>1. CASE UNCHANGED <<mode, list, owner>>
  BY <1>1 DEF ClaimInv
<1>2. CASE BeginFrame
  <2>1. mode' = mode
    BY <1>2 DEF BeginFrame
  <2>2. CASE mode.local
    BY <1>1, <1>2, <2>1, <2>2 DEF BeginFrame, Wipe
  <2>3. CASE ~mode.local
    <3>1. list' = <<>> /\ owner' = [p \in DOMAIN owner |-> 0]
      BY <1>2, <2>3 DEF BeginFrame, Wipe
    <3>2. DOMAIN list' = {} /\ Len(list') = 0 /\ \A p \in DOMAIN owner' : owner'[p] \in 0 .. 0
      BY <3>1
    <3>3. QED
      BY <3>2 DEF ClaimInv
  <2>4. QED
    BY <2>2, <2>3
<1>3. CASE SeedClass \/ SeedAll
  <2>1. mode' = mode
    BY <1>3 DEF SeedClass, SeedAll
  <2>2. \/ UNCHANGED <<list, owner>>
        \/ \E seeds, S, class :
             S \subseteq Open /\ Seeding(seeds, S, class) /\ AppendSeeds(seeds)
    <3>1. CASE SeedClass
      BY <3>1, SeedClassStep DEF OneClass
    <3>2. CASE SeedAll
      BY <3>2, SeedAllStep
    <3>3. QED
      BY <1>3, <3>1, <3>2
  <2>3. QED
    BY <1>1, <2>1, <2>2, AppendKeepsClaims
<1>4. CASE Segment \/ EndLocal \/ NextSweep \/ EndGrow \/ UNCHANGED vars
  BY <1>1, <1>4 DEF Segment, EndLocal, NextSweep, EndGrow, seedVars, vars
<1>5. CASE Evaluate
  <2>1. PICK s \in left :
          /\ left' = left \ {s} /\ s \in segs /\ s \subseteq DOMAIN view
          /\ \/ ~Wanted(s) /\ UNCHANGED <<list, owner, moved, annexed>>
             \/ ~mode.overlap /\ Wanted(s) /\ moved' = TRUE /\ AnnexBest(s)
             \/ mode.overlap /\ Wanted(s) /\ moved' = TRUE /\ AnnexAll(s)
          /\ UNCHANGED <<mode, frame, stage, view, todo, last, segs, sweep>>
          /\ ~mode.local /\ stage = "grow"
    BY <1>5, EvaluateStep
  <2>2. CASE UNCHANGED <<list, owner, moved, annexed>>
    BY <1>1, <2>1, <2>2
  <2>3. CASE ~mode.overlap /\ Wanted(s) /\ AnnexBest(s)
    BY <2>1, <2>3, AnnexKeepsClaims
  <2>4. CASE mode.overlap
    BY <2>1, <2>4 DEF ClaimInv
  <2>5. QED
    BY <2>1, <2>2, <2>3, <2>4
<1>6. QED
  BY <1>2, <1>3, <1>4, <1>5 DEF Next

LEMMA InitClaims == Init => ClaimInv
BY DEF Init, ClaimInv

\* OwnersTell (object_seeds.cpp, the claims of appendSeed; object_grow.cpp, the exclusive
\* branch): unless sets may overlap a point belongs to the proposal its claim names and
\* to no other, for any clustering, superpoints and number of frames.
THEOREM OwnersHold == Spec => []OwnersTell
<1>1. TypeInv /\ ClaimInv => OwnersTell
  <2> SUFFICES ASSUME TypeInv, ClaimInv, ~mode.overlap
               PROVE  /\ \A i \in DOMAIN list, p \in DOMAIN view \union DOMAIN owner :
                           p \in list[i].points <=> Claimed(p) /\ owner[p] = i
                      /\ \A p \in DOMAIN owner : owner[p] \in 0 .. Len(list)
    BY DEF OwnersTell
  <2>1. \A i \in DOMAIN list : i # 0
    BY DEF TypeInv
  <2>2. QED
    BY <2>1 DEF ClaimInv, Claimed
<1>2. QED
  BY <1>1, InitType, NextType, InitClaims, NextClaims, PTL DEF Spec
-----------------------------------------------------------------------------
(* Affinity *)

\* Fractions are compared transitively.
LEMMA FractionTrans ==
  ASSUME NEW a \in Nat, NEW b \in Nat, NEW c \in Nat,
         NEW k \in Nat, NEW m \in Nat \ {0}, NEW n \in Nat,
         a * m <= b * k, b * n <= c * m
  PROVE  a * n <= c * k
<1>1. /\ a * m \in Nat /\ b * k \in Nat /\ b * n \in Nat /\ c * m \in Nat
      /\ a * n \in Nat /\ c * k \in Nat
  BY SMT
<1>2. n * (a * m) <= n * (b * k)
  BY <1>1, MulMono
<1>3. k * (b * n) <= k * (c * m)
  BY <1>1, MulMono
<1>4. n * (b * k) = k * (b * n) /\ n * (a * m) = m * (a * n) /\ k * (c * m) = m * (c * k)
  BY SMT
<1>5. m * (a * n) <= m * (c * k)
  <2>1. /\ n * (a * m) \in Nat /\ n * (b * k) \in Nat /\ k * (b * n) \in Nat
        /\ k * (c * m) \in Nat
    BY <1>1, SMT
  <2>2. QED
    BY <1>2, <1>3, <1>4, <2>1
<1>6. QED
  BY <1>1, <1>5, MulCancel

\* There are PoolK nearest superpoints, and they are superpoints of the view.
LEMMA NearestAreOthers ==
  ASSUME NEW F, IsFiniteSet(F), \A s \in F : IsFiniteSet(s) /\ s # {} /\ s \subseteq Int,
         NEW s \in F
  PROVE  Nearest(F, s) \subseteq F
<1> DEFINE others == F \ {s}
           top == Cardinality(others)
           gap(a) == Abs(Total(s) * Cardinality(a) - Total(a) * Cardinality(s))
           size(a) == Cardinality(a)
           Le(a, b) == gap(a) * size(b) <= gap(b) * size(a)
           k == Min({PoolK, top})
           Ranked(N) == \A a \in N, b \in others \ N : Le(a, b)
<1>1. IsFiniteSet(others) /\ top \in Nat
  BY FS_Subset, FS_CardinalityType
<1>2. ASSUME NEW a \in F PROVE size(a) \in Nat \ {0} /\ Total(a) \in Int
  <2>1. Cardinality(a) \in Nat \ {0}
    BY FS_CardinalityType, FS_EmptySet
  <2>2. SumOver(a, [p \in a |-> p]) \in Int
    <3>1. PICK f : f = [p \in a |-> p]
      OBVIOUS
    <3>2. \A p \in a : f[p] \in Int
      BY <3>1
    <3>3. QED
      BY <3>1, <3>2, SumInt
  <2>3. QED
    BY <2>1, <2>2 DEF Total
<1>3. ASSUME NEW a \in F PROVE gap(a) \in Nat
  <2>1. PICK t, u, m, n : t = Total(s) /\ u = Total(a) /\ m = Cardinality(a) /\ n = Cardinality(s)
    OBVIOUS
  <2>2. t \in Int /\ u \in Int /\ m \in Nat /\ n \in Nat
    BY <1>2, <2>1
  <2>3. t * m - u * n \in Int
    BY <2>2, SMT
  <2>4. PICK d : d = t * m - u * n
    OBVIOUS
  <2>5. Abs(d) \in Nat
    BY <2>3, <2>4 DEF Abs
  <2>6. QED
    BY <2>1, <2>4, <2>5
<1>4. \A a, b \in F : Nearer(s, b, a) <=> gap(b) * size(a) < gap(a) * size(b)
  BY DEF Nearer
<1> HIDE DEF gap, size
<1>5. \A a, b \in F : gap(a) * size(b) \in Nat
  <2>1. ASSUME NEW a \in F, NEW b \in F PROVE gap(a) * size(b) \in Nat
    <3>1. gap(a) \in Nat /\ size(b) \in Nat
      BY <1>2, <1>3
    <3>2. QED
      BY <3>1, SMT
  <2>2. QED
    BY <2>1
<1>6. \A a, b \in F : Le(a, b) \/ Le(b, a)
  BY <1>5
<1>7. ASSUME NEW a \in F, NEW b \in F, NEW c \in F, Le(a, b), Le(b, c) PROVE Le(a, c)
  BY <1>2, <1>3, <1>7, FractionTrans
<1>8. \A a, b \in F : Le(a, b) => ~Nearer(s, b, a)
  BY <1>4, <1>5
<1> HIDE DEF Le
<1>9. ASSUME NEW T \in SUBSET others, T # {} PROVE \E m \in T : \A t \in T : Le(m, t)
  <2> DEFINE G == {t \in SUBSET T : t = {} \/ \E m \in t : \A y \in t : Le(m, y)}
  <2>1. IsFiniteSet(T) /\ T \subseteq F
    BY <1>1, FS_Subset
  <2>2. {} \in G
    OBVIOUS
  <2>3. ASSUME NEW t \in SUBSET T, NEW x \in T, t \in G, x \notin t PROVE t \union {x} \in G
    <3>0. Le(x, x)
      BY <1>6, <2>1
    <3>1. CASE t = {}
      BY <3>0, <3>1
    <3>2. CASE t # {}
      <4>1. PICK m \in t : \A y \in t : Le(m, y)
        BY <2>3, <3>2
      <4>2. CASE Le(m, x)
        BY <4>1, <4>2
      <4>3. CASE Le(x, m)
        <5>1. \A y \in t : Le(x, y)
          BY <1>7, <2>1, <4>1, <4>3
        <5>2. \E n \in t \union {x} : \A y \in t \union {x} : Le(n, y)
          BY <3>0, <5>1
        <5>3. QED
          BY <5>2
      <4>4. QED
        BY <1>6, <2>1, <4>2, <4>3
    <3>3. QED
      BY <3>1, <3>2
  <2>4. T \in G
    <3> HIDE DEF G
    <3>1. QED
      BY <2>1, <2>2, <2>3, FiniteInduction
  <2>5. QED
    BY <1>9, <2>4
<1> DEFINE Good == {j \in Nat : j <= top => \E N \in SUBSET others : Cardinality(N) = j /\ Ranked(N)}
<1>10. 0 \in Good
  <2>1. Cardinality({}) = 0 /\ {} \in SUBSET others
    BY FS_EmptySet
  <2>2. QED
    BY <2>1
<1>11. ASSUME NEW j \in Nat, j \in Good PROVE j + 1 \in Good
  <2> SUFFICES ASSUME j + 1 <= top
               PROVE  \E N \in SUBSET others : Cardinality(N) = j + 1 /\ Ranked(N)
    OBVIOUS
  <2>1. PICK N \in SUBSET others : Cardinality(N) = j /\ Ranked(N)
    BY <1>1, <1>11
  <2>2. IsFiniteSet(N) /\ others \ N # {}
    <3>1. IsFiniteSet(N)
      BY <1>1, FS_Subset
    <3>2. Cardinality(N) # Cardinality(others)
      <4>1. Cardinality(N) = j /\ Cardinality(others) \in Nat /\ j + 1 <= Cardinality(others)
        BY <1>1, <2>1
      <4> HIDE DEF others
      <4>2. QED
        BY <4>1
    <3>3. QED
      BY <3>1, <3>2
  <2>3. PICK m \in others \ N : \A t \in others \ N : Le(m, t)
    BY <1>9, <2>2
  <2>4. Cardinality(N \union {m}) = j + 1
    BY <2>1, <2>2, <2>3, FS_AddElement
  <2>5. Ranked(N \union {m})
    BY <2>1, <2>3
  <2>6. N \union {m} \in SUBSET others
    BY <2>3
  <2> HIDE DEF Ranked, others, top
  <2>7. QED
    BY <2>4, <2>5, <2>6
<1>12. k \in Nat /\ k <= top
  <2>1. PICK S : S = {PoolK, top}
    OBVIOUS
  <2>2. IsFiniteSet(S) /\ S # {} /\ S \subseteq Int /\ S \subseteq Nat /\ top \in S
    <3> HIDE DEF top
    <3>1. IsFiniteSet({PoolK, top})
      <4>1. IsFiniteSet({PoolK}) /\ {PoolK} \union {top} = {PoolK, top}
        BY FS_Singleton
      <4>2. IsFiniteSet({PoolK} \union {top})
        BY <4>1, FS_AddElement
      <4>3. QED
        BY <4>1, <4>2
    <3>2. QED
      BY <1>1, <2>1, <3>1, SuperpointsAssumption
  <2> HIDE DEF top
  <2>3. Min(S) \in S /\ Min(S) <= top
    BY <2>2, MinMax
  <2>4. QED
    BY <2>1, <2>2, <2>3
<1>13. \E N \in SUBSET others : Cardinality(N) = k /\ Ranked(N)
  <2>1. \A j \in Nat : j \in Good
    <3> HIDE DEF Good
    <3>1. QED
      BY <1>10, <1>11, SetInduction
  <2> HIDE DEF k, Ranked, others, top
  <2>2. QED
    BY <1>12, <2>1
<1>14. \E N \in SUBSET others :
         Cardinality(N) = k /\ \A a \in N, b \in others \ N : ~Nearer(s, b, a)
  <2>1. PICK N \in SUBSET others : Cardinality(N) = k /\ Ranked(N)
    BY <1>13
  <2>2. \A a \in N, b \in others \ N : ~Nearer(s, b, a)
    BY <1>8, <2>1
  <2> HIDE DEF k, Ranked, others, top
  <2>3. QED
    BY <2>1, <2>2
<1>15. Nearest(F, s) \in SUBSET others
  BY <1>14 DEF Nearest
<1>16. QED
  BY <1>15

\* The tallies, pooled or not, are counts, and so is the square of their norm.
LEMMA TalliesAreCounts ==
  ASSUME TypeInv, NEW s \in segs
  PROVE  /\ \A c \in Things : Tallies(s)[c] \in Nat
         /\ SumOver(Things, [c \in Things |-> Tallies(s)[c] * Tallies(s)[c]]) \in Nat
         /\ \A c \in Things :
              Tallies(s)[c] * Tallies(s)[c]
                <= SumOver(Things, [d \in Things |-> Tallies(s)[d] * Tallies(s)[d]])
<1>1. \A n \in segs : IsFiniteSet(n) /\ n # {} /\ n \subseteq Int
  BY SuperpointsAssumption DEF TypeInv, IsView
<1>2. IsFiniteSet(segs)
  <2>1. segs \subseteq SUBSET DOMAIN view /\ IsFiniteSet(SUBSET DOMAIN view)
    BY FS_SUBSET DEF TypeInv, IsView
  <2>2. QED
    BY <2>1, FS_Subset
<1>3. ASSUME NEW n \in segs, NEW c \in Things PROVE Hist(view, n)[c] \in Nat
  <2>1. IsFiniteSet({p \in n : view[p] = c})
    BY <1>1, FS_Subset
  <2>2. QED
    BY <2>1, FS_CardinalityType DEF Hist
<1>4. Nearest(segs, s) \subseteq segs /\ IsFiniteSet(Nearest(segs, s))
  BY <1>1, <1>2, NearestAreOthers, FS_Subset
<1>5. ASSUME NEW c \in Things PROVE Tallies(s)[c] \in Nat
  <2>1. PICK f : f = [n \in segs |-> Hist(view, n)[c]]
    OBVIOUS
  <2>2. \A n \in Nearest(segs, s) : f[n] \in Nat
    BY <1>3, <1>4, <2>1
  <2>3. SumOver(Nearest(segs, s), f) \in Nat
    BY <1>4, <2>2, SumAdd
  <2>4. Pooled(view, segs, s)[c] = 2 * Hist(view, s)[c] + SumOver(Nearest(segs, s), f)
    BY <2>1 DEF Pooled
  <2>5. Pooled(view, segs, s)[c] \in Nat /\ Hist(view, s)[c] \in Nat
    BY <1>3, <2>3, <2>4
  <2>6. QED
    BY <2>5 DEF Tallies
<1>6. PICK h : h = Tallies(s)
  OBVIOUS
<1>7. PICK sq : sq = [c \in Things |-> h[c] * h[c]]
  OBVIOUS
<1>8. \A c \in Things : sq[c] \in Nat /\ sq[c] = h[c] * h[c]
  BY <1>5, <1>6, <1>7, SquareMono
<1>9. IsFiniteSet(Things)
  BY SuperpointsAssumption
<1>10. SumOver(Things, sq) \in Nat /\ \A c \in Things : sq[c] <= SumOver(Things, sq)
  <2>1. SumOver(Things, sq) \in Nat
    BY <1>8, <1>9, SumAdd
  <2>2. ASSUME NEW c \in Things PROVE sq[c] <= SumOver(Things, sq)
    <3>1. PICK rest : rest = SumOver(Things \ {c}, sq)
      OBVIOUS
    <3>2. rest \in Nat /\ SumOver(Things, sq) = sq[c] + rest
      BY <1>8, <1>9, <3>1, SumAdd
    <3>3. QED
      BY <1>8, <3>2
  <2>3. QED
    BY <2>1, <2>2
<1>11. QED
  BY <1>5, <1>6, <1>7, <1>8, <1>10

\* A proposal that clears the bar still clears it with more points.
LEMMA TakesMonotone ==
  ASSUME TypeInv, NEW i \in DOMAIN list, NEW s \in segs, NEW P, NEW Q,
         P \subseteq Q, Q \subseteq DOMAIN view, Takes(i, P, s)
  PROVE  Takes(i, Q, s)
<1> DEFINE h == Tallies(s)
           class == list[i].class
           norm2 == SumOver(Things, [c \in Things |-> h[c] * h[c]])
           n == Cardinality(s)
           K == mode.bar * mode.bar * norm2 * n * n
<1>1. class \in Things
  <2>1. list[i] \in Proposal
    BY DEF TypeInv
  <2>2. QED
    BY <2>1 DEF Proposal
<1>2. h[class] \in Nat /\ norm2 \in Nat
  BY <1>1, TalliesAreCounts
<1>3. n \in Nat /\ Shared(P, s) \in Nat /\ Shared(Q, s) \in Nat /\ Total(s) \in Int
  <2>1. IsFiniteSet(s) /\ s \subseteq Int
    BY SharesAreSizes DEF TypeInv, IsView
  <2>2. PICK f : f = [p \in s |-> p]
    OBVIOUS
  <2>3. SumOver(s, f) \in Int
    BY <2>1, <2>2, SumInt
  <2>4. QED
    BY <2>2, <2>3, SharesAreSizes DEF Total
<1>4. mode.bar \in Nat
  BY ProposalsAssumption DEF TypeInv
<1>5. Clears(P, s, h, class, mode.bar)
  BY DEF Takes
<1>6. /\ InBox(P, s) /\ Shared(P, s) > 0
      /\ (100 * h[class] * Shared(P, s)) * (100 * h[class] * Shared(P, s)) >= K
  BY <1>5 DEF Clears
<1>7. K \in Nat
  <2> HIDE DEF norm2, n
  <2>1. mode.bar * mode.bar \in Nat
    BY <1>4, SquareMono
  <2>2. mode.bar * mode.bar * norm2 \in Nat
    BY <1>2, <2>1
  <2>3. mode.bar * mode.bar * norm2 * n \in Nat
    BY <1>3, <2>2
  <2>4. QED
    BY <1>3, <2>3
<1>8. IsFiniteSet(P) /\ IsFiniteSet(Q) /\ P # {} /\ P \subseteq Int /\ Q \subseteq Int
  <2>1. IsFiniteSet(Q) /\ Q \subseteq Int
    BY FS_Subset DEF TypeInv, IsView
  <2>2. P \intersect s # {}
    BY <1>6, FS_EmptySet DEF Shared
  <2>3. QED
    BY <2>1, <2>2, FS_Subset
<1>9. Shared(P, s) <= Shared(Q, s)
  <2>1. P \intersect s \subseteq Q \intersect s /\ IsFiniteSet(Q \intersect s)
    BY <1>8, FS_Subset
  <2>2. QED
    BY <2>1, FS_Subset DEF Shared
<1>10. InBox(Q, s)
  <2>1. Min(P) \in P /\ Max(P) \in P
    BY <1>8, MinMax
  <2>2. Min(Q) \in Int /\ Max(Q) \in Int /\ Min(P) \in Int /\ Max(P) \in Int
    BY <1>8, <2>1, MinMax
  <2>3. Min(Q) <= Min(P) /\ Max(Q) >= Max(P)
    BY <1>8, <2>1, MinMax
  <2>4. PICK a, b, c, d, t, m :
          /\ a = Min(Q) /\ b = Min(P) /\ c = Max(P) /\ d = Max(Q) /\ t = Total(s) /\ m = n
          /\ a \in Int /\ b \in Int /\ c \in Int /\ d \in Int /\ t \in Int /\ m \in Nat
    BY <1>3, <2>2
  <2>5. m * (b - 1) <= t /\ t <= m * (c + 1)
    BY <1>6, <2>4 DEF InBox
  <2>6. m * (a - 1) <= m * (b - 1)
    BY <2>3, <2>4, MulMono
  <2>7. m * (c + 1) <= m * (d + 1)
    BY <2>3, <2>4, MulMono
  <2>8. m * (a - 1) \in Int /\ m * (b - 1) \in Int /\ m * (c + 1) \in Int /\ m * (d + 1) \in Int
    BY <2>4
  <2>9. m * (a - 1) <= t /\ t <= m * (d + 1)
    BY <2>4, <2>5, <2>6, <2>7, <2>8
  <2>10. QED
    BY <2>4, <2>9 DEF InBox
<1>11. (100 * h[class] * Shared(Q, s)) * (100 * h[class] * Shared(Q, s)) >= K
  <2>1. PICK g, x, y : g = h[class] /\ x = Shared(P, s) /\ y = Shared(Q, s)
    OBVIOUS
  <2>2. g \in Nat /\ x \in Nat /\ y \in Nat /\ x <= y
    BY <1>2, <1>3, <1>9, <2>1
  <2>3. 100 * g \in Nat
    BY <2>2
  <2>4. 100 * g * x <= 100 * g * y
    BY <2>2, <2>3, MulMono
  <2>5. 100 * g * x \in Nat /\ 100 * g * y \in Nat
    BY <2>2, <2>3, SMT
  <2>6. PICK u, v : u = 100 * g * x /\ v = 100 * g * y
    OBVIOUS
  <2>7. u * u <= v * v /\ u * u \in Nat /\ v * v \in Nat
    BY <2>4, <2>5, <2>6, SquareMono
  <2>8. u * u >= K
    BY <1>6, <2>1, <2>6
  <2> HIDE DEF K
  <2>9. v * v >= K
    BY <1>7, <2>7, <2>8
  <2>10. QED
    BY <2>1, <2>6, <2>9
<1>12. Shared(Q, s) > 0
  BY <1>3, <1>6, <1>9
<1>13. Clears(Q, s, h, class, mode.bar)
  BY <1>10, <1>11, <1>12 DEF Clears
<1>14. QED
  BY <1>13 DEF Takes
-----------------------------------------------------------------------------
(* Growing when sets may overlap *)

With(i, A) == list[i].seed \union UNION A

Closed(i, A) == \A s \in segs \ A : ~Takes(i, With(i, A), s)

\* What proposal i has annexed.
Got(i) == {s \in segs : <<i, s>> \in annexed}

\* A proposal is its seed and what it annexed, which any closed family has; a sweep
\* that changed nothing so far leaves nothing wanted behind.
GrowInv ==
  /\ stage = "seed" /\ ~mode.local => \A i \in DOMAIN list : list[i].points = list[i].seed
  /\ stage = "grow" /\ mode.overlap =>
       /\ \A i \in DOMAIN list : list[i].points = With(i, Got(i))
       /\ \A i \in DOMAIN list : \A A \in SUBSET segs : Closed(i, A) => Got(i) \subseteq A
       /\ ~moved => \A s \in segs \ left : ~Wanted(s)

LEMMA SeedGrow ==
  ASSUME TypeInv, GrowInv, SeedClass \/ SeedAll
  PROVE  GrowInv'
<1>1. stage = "seed" /\ stage' = stage /\ mode' = mode
  BY DEF SeedClass, SeedAll
<1>2. \/ UNCHANGED <<list, owner>>
      \/ \E seeds, S, class :
           S \subseteq Open /\ Seeding(seeds, S, class) /\ AppendSeeds(seeds)
  <2>1. CASE SeedClass
    BY <2>1, SeedClassStep DEF OneClass
  <2>2. CASE SeedAll
    BY <2>2, SeedAllStep
  <2>3. QED
    BY <2>1, <2>2
<1>3. CASE UNCHANGED <<list, owner>>
  BY <1>1, <1>3 DEF GrowInv
<1>4. ASSUME NEW seeds, NEW S, NEW class,
             S \subseteq Open, Seeding(seeds, S, class), AppendSeeds(seeds)
      PROVE  GrowInv'
  <2>1. /\ list' \in Seq(Proposal) /\ Len(list) \in Nat /\ Len(seeds) \in Nat
        /\ \A i \in 1 .. Len(list) : list'[i] = list[i]
        /\ \A k \in 1 .. Len(seeds) : list'[Len(list) + k] = seeds[k]
        /\ \A i \in 1 .. Len(list') :
             i \in 1 .. Len(list) \/ \E k \in 1 .. Len(seeds) : i = Len(list) + k
        /\ \A k \in 1 .. Len(seeds) : seeds[k].points = seeds[k].seed
    BY <1>4, Appended
  <2>2. DOMAIN list = 1 .. Len(list) /\ DOMAIN list' = 1 .. Len(list')
    BY <2>1 DEF TypeInv
  <2>3. ASSUME ~mode.local, NEW i \in DOMAIN list' PROVE list'[i].points = list'[i].seed
    <3>1. CASE i \in 1 .. Len(list)
      BY <1>1, <2>1, <2>2, <2>3, <3>1 DEF GrowInv
    <3>2. ASSUME NEW k \in 1 .. Len(seeds), i = Len(list) + k
          PROVE  list'[i].points = list'[i].seed
      BY <2>1, <3>2
    <3>3. QED
      BY <2>1, <2>2, <2>3, <3>1, <3>2
  <2>4. QED
    BY <1>1, <2>3 DEF GrowInv
<1>5. QED
  BY <1>2, <1>3, <1>4

\* Whether a proposal takes a superpoint depends on its class and the points tried.
LEMMA TakesSame ==
  ASSUME UNCHANGED <<mode, view, segs>>, NEW i,
         list'[i].class = list[i].class, list'[i].spike = list[i].spike
  PROVE  \A P, s : Takes(i, P, s)' <=> Takes(i, P, s)
<1>1. \A s : Tallies(s)' = Tallies(s)
  BY DEF Tallies
<1>2. QED
  BY <1>1 DEF Takes

LEMMA ClosedSame ==
  ASSUME UNCHANGED <<mode, view, segs>>, NEW i,
         list'[i].class = list[i].class, list'[i].spike = list[i].spike,
         list'[i].seed = list[i].seed
  PROVE  \A A : With(i, A)' = With(i, A) /\ (Closed(i, A)' <=> Closed(i, A))
<1>1. \A A : With(i, A)' = With(i, A)
  BY DEF With
<1>2. \A P, s : Takes(i, P, s)' <=> Takes(i, P, s)
  BY TakesSame
<1>3. QED
  BY <1>1, <1>2 DEF Closed

LEMMA WantedSame ==
  ASSUME UNCHANGED <<mode, view, segs, list, owner, annexed>>
  PROVE  \A s : Wanted(s)' <=> Wanted(s)
<1>1. \A i, P, s : Takes(i, P, s)' <=> Takes(i, P, s)
  BY TakesSame
<1>2. \A s : Candidates(s)' = Candidates(s)
  BY <1>1 DEF Candidates
<1>3. \A s : New(s)' = New(s)
  BY <1>2 DEF New
<1>4. QED
  BY <1>2, <1>3 DEF Wanted, Claimed

LEMMA AnnexAllGrow ==
  ASSUME TypeInv, GrowInv, stage = "grow", mode.overlap, NEW s \in segs, AnnexAll(s),
         UNCHANGED <<mode, stage, view, segs>>, moved' = TRUE
  PROVE  GrowInv'
<1>1. /\ list' = [i \in DOMAIN list |->
                    IF i \in New(s) THEN [list[i] EXCEPT !.points = @ \union s] ELSE list[i]]
      /\ annexed' = annexed \union (New(s) \X {s})
  BY DEF AnnexAll
<1>2. DOMAIN list' = DOMAIN list
  BY <1>1
<1>3. ASSUME NEW i \in DOMAIN list
      PROVE  /\ list'[i].class = list[i].class /\ list'[i].spike = list[i].spike
             /\ list'[i].seed = list[i].seed
             /\ list'[i].points = IF i \in New(s) THEN list[i].points \union s ELSE list[i].points
  <2>1. list[i] \in Proposal
    BY DEF TypeInv
  <2>2. QED
    BY <1>1, <2>1 DEF Proposal
<1>4. ASSUME NEW i \in DOMAIN list
      PROVE  Got(i)' = IF i \in New(s) THEN Got(i) \union {s} ELSE Got(i)
  BY <1>1 DEF Got
<1>5. ASSUME NEW i \in DOMAIN list PROVE (list[i].points = With(i, Got(i)))'
  <2>1. list[i].points = list[i].seed \union UNION Got(i)
    BY DEF GrowInv, With
  <2>2. With(i, Got(i))' = list[i].seed \union UNION (Got(i)')
    BY <1>3 DEF With
  <2>3. CASE i \in New(s)
    <3>1. UNION (Got(i)') = (UNION Got(i)) \union s
      BY <1>4, <2>3
    <3>2. list'[i].points = list[i].points \union s
      BY <1>3, <2>3
    <3>3. QED
      BY <2>1, <2>2, <3>1, <3>2
  <2>4. CASE i \notin New(s)
    BY <1>3, <1>4, <2>1, <2>2, <2>4
  <2>5. QED
    BY <2>3, <2>4
<1>6. ASSUME NEW i \in DOMAIN list, NEW A \in SUBSET segs, Closed(i, A)
      PROVE  Got(i)' \subseteq A
  <2>1. Got(i) \subseteq A /\ list[i].points = With(i, Got(i))
    BY <1>6 DEF GrowInv
  <2>2. ASSUME i \in New(s), s \notin A PROVE FALSE
    <3>1. Takes(i, list[i].points, s)
      BY <2>2 DEF New, Candidates
    <3>2. list[i].points \subseteq With(i, A)
      BY <2>1 DEF With
    <3>3. With(i, A) \subseteq DOMAIN view
      BY DEF With, TypeInv
    <3>4. Takes(i, With(i, A), s)
      BY <3>1, <3>2, <3>3, TakesMonotone
    <3>5. QED
      BY <1>6, <2>2, <3>4 DEF Closed
  <2>3. QED
    BY <1>4, <2>1, <2>2
<1>7. \A i \in DOMAIN list : \A A : Closed(i, A)' <=> Closed(i, A)
  BY <1>3, ClosedSame
<1>8. \A i \in DOMAIN list' : \A A \in SUBSET segs' : Closed(i, A)' => Got(i)' \subseteq A
  BY <1>2, <1>6, <1>7
<1>9. \A i \in DOMAIN list' : (list[i].points = With(i, Got(i)))'
  BY <1>2, <1>5
<1>10. QED
  BY <1>8, <1>9 DEF GrowInv

LEMMA NextGrow == ASSUME TypeInv, TypeInv', GrowInv, [Next]_vars PROVE GrowInv'
<1>1. CASE UNCHANGED vars
  <2>1. \A s : Wanted(s)' <=> Wanted(s)
    BY <1>1, WantedSame DEF vars, seedVars, growVars
  <2>2. \A i \in DOMAIN list : \A A : With(i, A)' = With(i, A) /\ (Closed(i, A)' <=> Closed(i, A))
    BY <1>1, ClosedSame DEF vars, seedVars, growVars
  <2>3. \A i : Got(i)' = Got(i)
    BY <1>1 DEF Got, vars, growVars
  <2>4. QED
    BY <1>1, <2>1, <2>2, <2>3 DEF GrowInv, vars, seedVars, growVars
<1>2. CASE BeginFrame
  <2>1. stage' = "seed" /\ mode' = mode
    BY <1>2 DEF BeginFrame
  <2>2. ~mode.local => DOMAIN list' = {}
    BY <1>2 DEF BeginFrame, Wipe
  <2>3. QED
    BY <2>1, <2>2 DEF GrowInv
<1>3. CASE EndLocal \/ EndGrow
  BY <1>3 DEF EndLocal, EndGrow, GrowInv
<1>4. CASE Segment
  <2>1. /\ stage' = "grow" /\ left' = segs' /\ annexed' = {} /\ UNCHANGED <<mode, list>>
        /\ stage = "seed" /\ ~mode.local
    BY <1>4 DEF Segment
  <2>2. \A i : Got(i)' = {}
    BY <2>1 DEF Got
  <2>3. \A i \in DOMAIN list' : (list[i].points = With(i, Got(i)))'
    <3>1. \A i \in DOMAIN list : list[i].points = list[i].seed
      BY <2>1 DEF GrowInv
    <3>2. QED
      BY <2>1, <2>2, <3>1 DEF With
  <2>4. QED
    BY <2>1, <2>2, <2>3 DEF GrowInv
<1>5. CASE NextSweep
  <2>1. /\ stage = "grow" /\ left' = segs /\ UNCHANGED <<mode, stage, view, list, owner, segs, annexed>>
    BY <1>5 DEF NextSweep, seedVars
  <2>2. \A i \in DOMAIN list : \A A : With(i, A)' = With(i, A) /\ (Closed(i, A)' <=> Closed(i, A))
    BY <2>1, ClosedSame
  <2>3. \A i : Got(i)' = Got(i)
    BY <2>1 DEF Got
  <2>4. QED
    BY <2>1, <2>2, <2>3 DEF GrowInv
<1>6. CASE Evaluate
  <2>1. PICK s \in left :
          /\ left' = left \ {s} /\ s \in segs /\ s \subseteq DOMAIN view
          /\ \/ ~Wanted(s) /\ UNCHANGED <<list, owner, moved, annexed>>
             \/ ~mode.overlap /\ Wanted(s) /\ moved' = TRUE /\ AnnexBest(s)
             \/ mode.overlap /\ Wanted(s) /\ moved' = TRUE /\ AnnexAll(s)
          /\ UNCHANGED <<mode, frame, stage, view, todo, last, segs, sweep>>
          /\ ~mode.local /\ stage = "grow"
    BY <1>6, EvaluateStep
  <2>2. CASE ~mode.overlap
    BY <2>1, <2>2 DEF GrowInv
  <2>3. CASE mode.overlap /\ ~Wanted(s) /\ UNCHANGED <<list, owner, moved, annexed>>
    <3>1. \A t : Wanted(t)' <=> Wanted(t)
      BY <2>1, <2>3, WantedSame
    <3>2. \A i \in DOMAIN list : \A A : With(i, A)' = With(i, A) /\ (Closed(i, A)' <=> Closed(i, A))
      BY <2>1, <2>3, ClosedSame
    <3>3. \A i : Got(i)' = Got(i)
      BY <2>1, <2>3 DEF Got
    <3>4. \A t \in segs \ left' : t \in segs \ left \/ t = s
      BY <2>1
    <3>5. ~moved' => \A t \in segs' \ left' : ~Wanted(t)'
      BY <2>1, <2>3, <3>1, <3>4 DEF GrowInv
    <3>6. QED
      BY <2>1, <2>3, <3>2, <3>3, <3>5 DEF GrowInv
  <2>4. CASE mode.overlap /\ moved' = TRUE /\ AnnexAll(s)
    BY <2>1, <2>4, AnnexAllGrow
  <2>5. QED
    BY <2>1, <2>2, <2>3, <2>4
<1>7. QED
  BY <1>1, <1>2, <1>3, <1>4, <1>5, <1>6, SeedGrow DEF Next

LEMMA InitGrow == Init => GrowInv
BY DEF Init, GrowInv

LEMMA GrownIsLeast ==
  ASSUME TypeInv, GrowInv
  PROVE  GrowthIsOrderFree
<1> SUFFICES ASSUME stage = "grow", left = {}, ~moved, mode.overlap, NEW i \in DOMAIN list
             PROVE  LET W(A) == list[i].seed \union UNION A
                        C(A) == \A s \in segs \ A : ~Takes(i, W(A), s)
                        Families == {A \in SUBSET segs : C(A)}
                        least == {s \in segs : \A A \in Families : s \in A}
                    IN  list[i].points = W(least)
  BY DEF GrowthIsOrderFree
<1> DEFINE Families == {A \in SUBSET segs : Closed(i, A)}
           least == {s \in segs : \A A \in Families : s \in A}
<1>1. list[i].points = With(i, Got(i)) /\ \A A \in Families : Got(i) \subseteq A
  BY DEF GrowInv
<1>2. \A s \in segs : ~Wanted(s)
  BY DEF GrowInv
<1>3. list[i] \in Proposal
  BY DEF TypeInv
<1>4. Closed(i, Got(i))
  <2> SUFFICES ASSUME NEW s \in segs \ Got(i), Takes(i, With(i, Got(i)), s) PROVE FALSE
    BY DEF Closed
  <2>1. i \in Candidates(s)
    BY <1>1 DEF Candidates
  <2>2. <<i, s>> \notin annexed
    BY DEF Got
  <2>3. i \in New(s)
    BY <2>1, <2>2 DEF New
  <2>4. ClassOf(view, s) # Other
    BY <1>3, SuperpointsAssumption DEF Takes, Proposal
  <2>5. QED
    BY <1>2, <2>3, <2>4 DEF Wanted
<1>5. Got(i) \in Families
  BY <1>4 DEF Got
<1>6. least = Got(i)
  BY <1>1, <1>5 DEF Got
<1>7. QED
  BY <1>1, <1>6 DEF With, Closed

\* GrowthIsOrderFree (object_grow.cpp: growing is "order-insensitive"): for any view,
\* seeds and superpoints, when sets may overlap and a sweep changed nothing, every
\* proposal is its seed with the least closed family of superpoints, in whatever order
\* they were evaluated.
THEOREM GrowthHasNoOrder == Spec => []GrowthIsOrderFree
<1>1. Init => TypeInv /\ GrowInv
  BY InitType, InitGrow
<1>2. TypeInv /\ GrowInv /\ [Next]_vars => TypeInv' /\ GrowInv'
  BY NextType, NextGrow
<1>3. TypeInv /\ GrowInv => GrowthIsOrderFree
  BY GrownIsLeast
<1>4. QED
  BY <1>1, <1>2, <1>3, PTL DEF Spec
-----------------------------------------------------------------------------
(* A proposal keeps its class *)

\* The cosine of an affinity is one at most, so a proposal that clears the bar holds
\* that share of the superpoint.
LEMMA ClearsShare ==
  ASSUME TypeInv, NEW i \in DOMAIN list, NEW s \in segs, NEW P, Takes(i, P, s)
  PROVE  mode.bar * Cardinality(s) <= 100 * Shared(P, s)
<1> DEFINE h == Tallies(s)
           class == list[i].class
           norm2 == SumOver(Things, [c \in Things |-> h[c] * h[c]])
           n == Cardinality(s)
<1>1. class \in Things
  <2>1. list[i] \in Proposal
    BY DEF TypeInv
  <2>2. QED
    BY <2>1 DEF Proposal
<1>2. h[class] \in Nat /\ norm2 \in Nat /\ h[class] * h[class] <= norm2
  BY <1>1, TalliesAreCounts
<1>3. n \in Nat /\ Shared(P, s) \in Nat
  BY SharesAreSizes
<1>4. mode.bar \in Nat
  BY ProposalsAssumption DEF TypeInv
<1>5. Clears(P, s, h, class, mode.bar) /\ class = ClassOf(view, s)
  BY DEF Takes
<1>6. (100 * h[class] * Shared(P, s)) * (100 * h[class] * Shared(P, s))
        >= mode.bar * mode.bar * norm2 * n * n
  BY <1>5 DEF Clears
<1>7. h[class] # 0
  <2>1. Hist(view, s)[class] > 0
    BY <1>1, <1>5, SuperpointsAssumption DEF ClassOf
  <2>2. Hist(view, s)[class] \in Nat
    <3>1. IsFiniteSet(s)
      BY SharesAreSizes
    <3>2. IsFiniteSet({p \in s : view[p] = class})
      BY <3>1, FS_Subset
    <3>3. QED
      BY <1>1, <3>2, FS_CardinalityType DEF Hist
  <2>3. CASE mode.pool
    <3>1. PICK r : r = SumOver(Nearest(segs, s), [m \in segs |-> Hist(view, m)[class]])
      OBVIOUS
    <3>2. h[class] = 2 * Hist(view, s)[class] + r
      BY <1>1, <2>3, <3>1 DEF Tallies, Pooled
    <3>3. r \in Nat
      <4>1. IsFiniteSet(segs) /\ \A m \in segs : IsFiniteSet(m) /\ m # {} /\ m \subseteq Int
        <5>1. segs \subseteq SUBSET DOMAIN view /\ IsFiniteSet(SUBSET DOMAIN view)
          BY FS_SUBSET DEF TypeInv, IsView
        <5>2. IsFiniteSet(segs)
          BY <5>1, FS_Subset
        <5>3. QED
          BY <5>2, SuperpointsAssumption DEF TypeInv, IsView
      <4>2. Nearest(segs, s) \subseteq segs /\ IsFiniteSet(Nearest(segs, s))
        BY <4>1, NearestAreOthers, FS_Subset
      <4>3. PICK f : f = [m \in segs |-> Hist(view, m)[class]]
        OBVIOUS
      <4>4. ASSUME NEW m \in segs PROVE f[m] \in Nat
        <5>1. IsFiniteSet({p \in m : view[p] = class})
          BY <4>1, FS_Subset
        <5>2. f[m] = Cardinality({p \in m : view[p] = class})
          BY <1>1, <4>3 DEF Hist
        <5>3. QED
          BY <5>1, <5>2, FS_CardinalityType
      <4>5. \A m \in Nearest(segs, s) : f[m] \in Nat
        BY <4>2, <4>4
      <4>6. QED
        BY <3>1, <4>2, <4>3, <4>5, SumAdd
    <3>4. QED
      BY <2>1, <2>2, <3>2, <3>3
  <2>4. CASE ~mode.pool
    BY <2>1, <2>4 DEF Tallies
  <2>5. QED
    BY <2>3, <2>4
<1> HIDE DEF h, class, norm2, n
<1>8. PICK g, x, b, N, m : g = h[class] /\ x = Shared(P, s) /\ b = mode.bar /\ N = norm2 /\ m = n
  OBVIOUS
<1>9. /\ g \in Nat \ {0} /\ x \in Nat /\ b \in Nat /\ N \in Nat /\ m \in Nat /\ g * g <= N
      /\ (100 * g * x) * (100 * g * x) >= b * b * N * m * m
  BY <1>2, <1>3, <1>4, <1>6, <1>7, <1>8
<1>10. b * b * (g * g) * m * m <= b * b * N * m * m
  <2>1. b * b \in Nat /\ g * g \in Nat /\ m * m \in Nat
    BY <1>9, SquareMono
  <2>2. PICK u, v, w : u = b * b /\ v = g * g /\ w = m * m
    OBVIOUS
  <2>3. u \in Nat /\ v \in Nat /\ w \in Nat /\ v <= N
    BY <1>9, <2>1, <2>2
  <2>4. u * w \in Nat
    BY <2>3, SMT
  <2>5. (u * w) * v <= (u * w) * N
    BY <1>9, <2>3, <2>4, MulMono
  <2>6. (u * w) * v = u * v * m * m /\ (u * w) * N = u * N * m * m
    BY <1>9, <2>2, <2>3, SMT
  <2>7. QED
    BY <2>2, <2>5, <2>6
<1>11. b * b * (g * g) * m * m = (g * (b * m)) * (g * (b * m))
  BY <1>9, SMT
<1>12. g * (b * m) \in Nat /\ g * (100 * x) \in Nat /\ b * b * N * m * m \in Nat
  <2>1. b * m \in Nat /\ 100 * x \in Nat /\ b * b \in Nat /\ m * m \in Nat
    BY <1>9, SMT
  <2>2. g * (b * m) \in Nat /\ g * (100 * x) \in Nat
    BY <1>9, <2>1, SMT
  <2>3. b * b * N \in Nat
    BY <1>9, <2>1, SMT
  <2>4. b * b * N * m \in Nat
    BY <1>9, <2>3, SMT
  <2>5. QED
    BY <1>9, <2>2, <2>4, SMT
<1>13. 100 * g * x = g * (100 * x)
  BY <1>9, SMT
<1>14. (g * (b * m)) * (g * (b * m)) <= (g * (100 * x)) * (g * (100 * x))
  <2>1. PICK u, v, K : u = g * (b * m) /\ v = g * (100 * x) /\ K = b * b * N * m * m
    OBVIOUS
  <2>2. u * u <= K /\ K <= v * v /\ u \in Nat /\ v \in Nat /\ K \in Nat
    BY <1>9, <1>10, <1>11, <1>12, <1>13, <2>1
  <2>3. u * u \in Nat /\ v * v \in Nat
    BY <2>2, SquareMono
  <2>4. u * u <= v * v
    BY <2>2, <2>3
  <2>5. QED
    BY <2>1, <2>4
<1>15. g * (b * m) <= g * (100 * x)
  BY <1>12, <1>14, SquareMono
<1>16. b * m <= 100 * x
  <2>1. b * m \in Int /\ 100 * x \in Int
    BY <1>9, SMT
  <2>2. QED
    BY <1>9, <1>15, <2>1, MulCancel
<1>17. QED
  BY <1>8, <1>16 DEF n

\* Outside the superpoints a proposal is its seed; in each it is its seed too, or its
\* seed holds the bar's share of the superpoint.
ShareInv ==
  stage = "grow" =>
    \A i \in DOMAIN list :
      /\ list[i].points \ UNION segs = list[i].seed \ UNION segs
      /\ \A s \in segs : \/ list[i].points \intersect s = list[i].seed \intersect s
                         \/ mode.bar * Cardinality(s) <= 100 * Shared(list[i].seed, s)

\* What a superpoint adds to a proposal.
Grows(s) ==
  /\ DOMAIN list' = DOMAIN list
  /\ \A i \in DOMAIN list :
       /\ list'[i].class = list[i].class /\ list'[i].seed = list[i].seed
       /\ \/ list'[i].points = list[i].points
          \/ /\ Takes(i, list[i].points, s)
             /\ \E new \in SUBSET s : list'[i].points = list[i].points \union new

LEMMA AnnexGrows ==
  ASSUME TypeInv, NEW s \in segs, Wanted(s),
         (~mode.overlap /\ AnnexBest(s)) \/ (mode.overlap /\ AnnexAll(s))
  PROVE  Grows(s)
<1>1. \A i \in DOMAIN list : list[i] \in Proposal
  BY DEF TypeInv
<1>2. CASE ~mode.overlap /\ AnnexBest(s)
  <2> DEFINE b == Best(s)
             free == {p \in s : ~Claimed(p)}
  <2>1. b \in DOMAIN list /\ Takes(b, list[b].points, s)
    BY <1>2, BestIsCandidate DEF Wanted, Candidates
  <2>2. list' = [list EXCEPT ![b].points = @ \union free] /\ free \in SUBSET s
    BY <1>2 DEF AnnexBest, Enlarge
  <2> HIDE DEF b, free
  <2>3. DOMAIN list' = DOMAIN list /\ \A i \in DOMAIN list : i # b => list'[i] = list[i]
    BY <2>2
  <2>4. /\ list'[b].class = list[b].class /\ list'[b].seed = list[b].seed
        /\ list'[b].points = list[b].points \union free
    <3>1. list[b] \in Proposal /\ list'[b] = [list[b] EXCEPT !.points = @ \union free]
      BY <1>1, <2>1, <2>2
    <3>2. QED
      BY <3>1 DEF Proposal
  <2>5. QED
    BY <2>1, <2>2, <2>3, <2>4 DEF Grows
<1>3. CASE mode.overlap /\ AnnexAll(s)
  <2>1. list' = [i \in DOMAIN list |->
                   IF i \in New(s) THEN [list[i] EXCEPT !.points = @ \union s] ELSE list[i]]
    BY <1>3 DEF AnnexAll
  <2>2. \A i \in New(s) : Takes(i, list[i].points, s)
    BY DEF New, Candidates
  <2>3. ASSUME NEW i \in DOMAIN list
        PROVE  /\ list'[i].class = list[i].class /\ list'[i].seed = list[i].seed
               /\ i \notin New(s) => list'[i].points = list[i].points
               /\ i \in New(s) => list'[i].points = list[i].points \union s
    <3>1. list[i] \in Proposal
      BY <1>1
    <3>2. QED
      BY <2>1, <3>1 DEF Proposal
  <2>4. DOMAIN list' = DOMAIN list
    BY <2>1
  <2>5. QED
    BY <2>2, <2>3, <2>4 DEF Grows
<1>4. QED
  BY <1>2, <1>3

LEMMA GrowsKeepsShares ==
  ASSUME TypeInv, ShareInv, stage = "grow", NEW s \in segs, Grows(s),
         UNCHANGED <<mode, stage, segs>>
  PROVE  ShareInv'
<1> SUFFICES ASSUME NEW i \in DOMAIN list'
             PROVE  /\ list'[i].points \ UNION segs = list'[i].seed \ UNION segs
                    /\ \A t \in segs :
                         \/ list'[i].points \intersect t = list'[i].seed \intersect t
                         \/ mode.bar * Cardinality(t) <= 100 * Shared(list'[i].seed, t)
  BY DEF ShareInv
<1>1. /\ i \in DOMAIN list /\ list'[i].seed = list[i].seed
      /\ \/ list'[i].points = list[i].points
         \/ /\ Takes(i, list[i].points, s)
            /\ \E new \in SUBSET s : list'[i].points = list[i].points \union new
  BY DEF Grows
<1>2. /\ list[i].points \ UNION segs = list[i].seed \ UNION segs
      /\ \A t \in segs : \/ list[i].points \intersect t = list[i].seed \intersect t
                         \/ mode.bar * Cardinality(t) <= 100 * Shared(list[i].seed, t)
  BY <1>1 DEF ShareInv
<1>3. CASE list'[i].points = list[i].points
  BY <1>1, <1>2, <1>3
<1>4. ASSUME Takes(i, list[i].points, s),
             NEW new \in SUBSET s, list'[i].points = list[i].points \union new
      PROVE  /\ list'[i].points \ UNION segs = list'[i].seed \ UNION segs
             /\ \A t \in segs :
                  \/ list'[i].points \intersect t = list'[i].seed \intersect t
                  \/ mode.bar * Cardinality(t) <= 100 * Shared(list'[i].seed, t)
  <2>1. list'[i].points \ UNION segs = list'[i].seed \ UNION segs
    BY <1>1, <1>2, <1>4
  <2>2. ASSUME NEW t \in segs, t # s
        PROVE  list'[i].points \intersect t = list[i].points \intersect t
    <3>1. s \intersect t = {}
      BY <2>2 DEF TypeInv
    <3>2. QED
      BY <1>4, <3>1
  <2>3. mode.bar * Cardinality(s) <= 100 * Shared(list[i].seed, s)
    <3>1. CASE list[i].points \intersect s = list[i].seed \intersect s
      <4>1. mode.bar * Cardinality(s) <= 100 * Shared(list[i].points, s)
        BY <1>1, <1>4, ClearsShare
      <4>2. QED
        BY <3>1, <4>1 DEF Shared
    <3>2. QED
      BY <1>2, <3>1
  <2>4. QED
    BY <1>1, <1>2, <2>1, <2>2, <2>3
<1>5. QED
  BY <1>1, <1>3, <1>4

LEMMA NextShare ==
  ASSUME TypeInv, GrowInv, ShareInv, [Next]_vars
  PROVE  ShareInv'
<1>1. CASE UNCHANGED <<mode, stage, list, segs>>
  BY <1>1 DEF ShareInv
<1>2. CASE BeginFrame \/ EndLocal \/ EndGrow
  BY <1>2 DEF ShareInv, BeginFrame, EndLocal, EndGrow
<1>3. CASE SeedClass \/ SeedAll
  BY <1>3 DEF ShareInv, SeedClass, SeedAll
<1>4. CASE Segment
  <2>1. stage = "seed" /\ ~mode.local /\ UNCHANGED <<mode, list>>
    BY <1>4 DEF Segment
  <2>2. \A i \in DOMAIN list' : list'[i].points = list'[i].seed
    BY <2>1 DEF GrowInv
  <2>3. QED
    BY <2>2 DEF ShareInv
<1>5. CASE NextSweep \/ UNCHANGED vars
  BY <1>1, <1>5 DEF NextSweep, seedVars, vars, growVars
<1>6. CASE Evaluate
  <2>1. PICK s \in left :
          /\ left' = left \ {s} /\ s \in segs /\ s \subseteq DOMAIN view
          /\ \/ ~Wanted(s) /\ UNCHANGED <<list, owner, moved, annexed>>
             \/ ~mode.overlap /\ Wanted(s) /\ moved' = TRUE /\ AnnexBest(s)
             \/ mode.overlap /\ Wanted(s) /\ moved' = TRUE /\ AnnexAll(s)
          /\ UNCHANGED <<mode, frame, stage, view, todo, last, segs, sweep>>
          /\ ~mode.local /\ stage = "grow"
    BY <1>6, EvaluateStep
  <2>2. CASE UNCHANGED <<list, owner, moved, annexed>>
    BY <1>1, <2>1, <2>2
  <2>3. CASE Wanted(s) /\ ((~mode.overlap /\ AnnexBest(s)) \/ (mode.overlap /\ AnnexAll(s)))
    BY <2>1, <2>3, AnnexGrows, GrowsKeepsShares
  <2>4. QED
    BY <2>1, <2>2, <2>3
<1>7. QED
  BY <1>2, <1>3, <1>4, <1>5, <1>6 DEF Next

LEMMA InitShares == Init => ShareInv
BY DEF Init, ShareInv

\* Superpoint by superpoint, the seed outweighs the bar's share of the proposal.
LEMMA SeedOutweighs ==
  ASSUME TypeInv, GrowInv, ShareInv, ~mode.local, stage # "idle", mode.bar <= 100,
         NEW i \in DOMAIN list
  PROVE  mode.bar * Cardinality(list[i].points) <= 100 * Cardinality(list[i].seed)
<1> DEFINE P == list[i].points
           Q == list[i].seed
           b == mode.bar
           In(F) == Cardinality(P \intersect UNION F)
           SeedIn(F) == Cardinality(Q \intersect UNION F)
           Good == {F \in SUBSET segs : b * In(F) <= 100 * SeedIn(F)}
<1>1. /\ IsFiniteSet(P) /\ IsFiniteSet(Q) /\ Q \subseteq P
      /\ Cardinality(P) \in Nat /\ Cardinality(Q) \in Nat /\ b \in Nat /\ b <= 100
  <2>1. IsFiniteSet(DOMAIN view) /\ P \subseteq DOMAIN view /\ Q \subseteq P
    BY DEF TypeInv, IsView
  <2>2. b \in Nat
    BY ProposalsAssumption DEF TypeInv
  <2>3. QED
    BY <2>1, <2>2, FS_Subset, FS_CardinalityType
<1>2. \A n \in Nat : b * n <= 100 * n
  <2>1. ASSUME NEW n \in Nat PROVE b * n <= 100 * n
    <3>1. n * b <= n * 100
      BY <1>1, MulMono
    <3>2. n * b = b * n /\ n * 100 = 100 * n
      BY <1>1
    <3>3. QED
      BY <3>1, <3>2
  <2>2. QED
    BY <2>1
<1>3. CASE stage = "seed"
  <2>1. P = Q
    BY <1>3 DEF GrowInv
  <2>2. QED
    BY <1>1, <1>2, <2>1
<1>4. CASE stage = "grow"
  <2>1. /\ P \ UNION segs = Q \ UNION segs
        /\ \A s \in segs : \/ P \intersect s = Q \intersect s
                           \/ b * Cardinality(s) <= 100 * Shared(Q, s)
    BY <1>4 DEF ShareInv
  <2>2. \A F : In(F) \in Nat /\ SeedIn(F) \in Nat
    <3>1. \A T : IsFiniteSet(P \intersect T) /\ IsFiniteSet(Q \intersect T)
      BY <1>1, FS_Intersection
    <3>2. QED
      BY <3>1, FS_CardinalityType
  <2>3. {} \in Good
    <3>1. P \intersect UNION {} = {} /\ Q \intersect UNION {} = {}
      OBVIOUS
    <3>2. In({}) = 0 /\ SeedIn({}) = 0
      BY <3>1, FS_EmptySet
    <3>3. QED
      BY <1>1, <3>2
  <2>4. ASSUME NEW F \in SUBSET segs, NEW s \in segs, F \in Good, s \notin F
        PROVE  F \union {s} \in Good
    <3>1. s \intersect UNION F = {}
      BY <2>4 DEF TypeInv
    <3>2. ASSUME NEW R, IsFiniteSet(R)
          PROVE  Cardinality(R \intersect UNION (F \union {s}))
                   = Cardinality(R \intersect UNION F) + Cardinality(R \intersect s)
      <4>1. PICK x, y : x = R \intersect UNION F /\ y = R \intersect s
        OBVIOUS
      <4>2. x \intersect y = {} /\ R \intersect UNION (F \union {s}) = x \union y
        BY <3>1, <4>1
      <4>3. IsFiniteSet(x) /\ IsFiniteSet(y)
        BY <3>2, <4>1, FS_Intersection
      <4>4. Cardinality(x \union y) = Cardinality(x) + Cardinality(y) - 0
        BY <4>2, <4>3, FS_Union, FS_EmptySet
      <4>5. Cardinality(x) \in Nat /\ Cardinality(y) \in Nat
        BY <4>3, FS_CardinalityType
      <4>6. Cardinality(x \union y) = Cardinality(x) + Cardinality(y)
        BY <4>4, <4>5
      <4>7. QED
        BY <4>1, <4>2, <4>6
    <3>3. PICK m, n : m = Cardinality(P \intersect s) /\ n = Cardinality(Q \intersect s)
      OBVIOUS
    <3>4. /\ In(F \union {s}) = In(F) + m /\ SeedIn(F \union {s}) = SeedIn(F) + n
          /\ m \in Nat /\ n \in Nat
      <4>1. IsFiniteSet(P \intersect s) /\ IsFiniteSet(Q \intersect s)
        BY <1>1, FS_Intersection
      <4>2. QED
        BY <1>1, <3>2, <3>3, <4>1, FS_CardinalityType
    <3>5. b * m <= 100 * n
      <4>1. CASE P \intersect s = Q \intersect s
        BY <1>2, <3>3, <3>4, <4>1
      <4>2. CASE b * Cardinality(s) <= 100 * Shared(Q, s)
        <5>1. IsFiniteSet(s) /\ Cardinality(s) \in Nat
          BY SharesAreSizes
        <5>2. m <= Cardinality(s)
          BY <3>3, <5>1, FS_Subset
        <5>3. b * m <= b * Cardinality(s)
          BY <1>1, <3>4, <5>1, <5>2, MulMono
        <5>4. b * Cardinality(s) <= 100 * n
          BY <3>3, <4>2 DEF Shared
        <5>5. b * m \in Int /\ b * Cardinality(s) \in Int
          BY <1>1, <3>4, <5>1, SMT
        <5>6. QED
          BY <3>4, <5>3, <5>4, <5>5
      <4>3. QED
        BY <2>1, <4>1, <4>2
    <3>6. b * In(F) <= 100 * SeedIn(F)
      BY <2>4
    <3>7. PICK u, v : u = In(F) /\ v = SeedIn(F)
      OBVIOUS
    <3>8. u \in Nat /\ v \in Nat
      BY <2>2, <3>7
    <3>9. b * (u + m) = b * u + b * m
      BY <1>1, <3>4, <3>8
    <3>10. b * u \in Int /\ b * m \in Int
      BY <1>1, <3>4, <3>8
    <3>11. b * (u + m) <= 100 * (v + n)
      BY <3>4, <3>5, <3>6, <3>7, <3>8, <3>9, <3>10
    <3>12. QED
      BY <3>4, <3>7, <3>11
  <2>5. segs \in Good
    <3>1. IsFiniteSet(segs)
      <4>1. segs \subseteq SUBSET DOMAIN view /\ IsFiniteSet(SUBSET DOMAIN view)
        BY FS_SUBSET DEF TypeInv, IsView
      <4>2. QED
        BY <4>1, FS_Subset
    <3> HIDE DEF Good
    <3>2. QED
      BY <2>3, <2>4, <3>1, FiniteInduction
  <2>6. PICK r : r = Cardinality(Q \ UNION segs)
    OBVIOUS
  <2>7. Cardinality(P) = In(segs) + r /\ Cardinality(Q) = SeedIn(segs) + r /\ r \in Nat
    <3>1. IsFiniteSet(Q \ UNION segs) /\ IsFiniteSet(P \ UNION segs)
      BY <1>1, FS_Difference
    <3>2. r = Cardinality(Q) - SeedIn(segs) /\ r = Cardinality(P) - In(segs)
      BY <1>1, <2>1, <2>6, FS_Difference
    <3>3. r \in Nat
      BY <2>6, <3>1, FS_CardinalityType
    <3>4. PICK x, y, u, v : x = Cardinality(P) /\ y = Cardinality(Q) /\ u = In(segs) /\ v = SeedIn(segs)
      OBVIOUS
    <3>5. x \in Nat /\ y \in Nat /\ u \in Nat /\ v \in Nat /\ r = y - v /\ r = x - u
      BY <1>1, <2>2, <3>2, <3>4
    <3>6. x = u + r /\ y = v + r
      BY <3>3, <3>5
    <3>7. QED
      BY <3>3, <3>4, <3>6
  <2>8. b * In(segs) <= 100 * SeedIn(segs)
    BY <2>5
  <2>9. PICK u, v : u = In(segs) /\ v = SeedIn(segs)
    OBVIOUS
  <2>10. u \in Nat /\ v \in Nat /\ b * r <= 100 * r
    BY <1>2, <2>2, <2>7, <2>9
  <2>11. b * (u + r) = b * u + b * r /\ b * u \in Int /\ b * r \in Int
    BY <1>1, <2>7, <2>10
  <2>12. b * (u + r) <= 100 * (v + r)
    BY <2>7, <2>8, <2>9, <2>10, <2>11
  <2>13. QED
    BY <2>7, <2>9, <2>12
<1>5. QED
  BY <1>3, <1>4 DEF TypeInv
-----------------------------------------------------------------------------
(* The dendrograms are trees *)

\* One unfolding of the recursion of Linkage.
Joins(T, k, below, above) == {Joined(T, k, l, r) : l \in below, r \in above}

LinkStep(under, T, reach) ==
  IF Cardinality(T) < 2 THEN {<<>>}
  ELSE UNION {Joins(T, k, under[k.low], under[T \ k.low]) : k \in LastLinks(reach, T)}

LEMMA JoinsHas ==
  ASSUME NEW T, NEW k, NEW below, NEW above, NEW t \in Joins(T, k, below, above)
  PROVE  \E l \in below, r \in above : t = Joined(T, k, l, r)
BY DEF Joins

LEMMA LinkageIs ==
  ASSUME NEW S, NEW reach
  PROVE  Linkage(S, reach) = CHOOSE under : under = [T \in SUBSET S |-> LinkStep(under, T, reach)]
BY DEF Linkage, LinkStep, Joins

\* A last link leaves something on either side, and its height is that of a pair.
LEMMA LinksWithin ==
  ASSUME NEW reach, NEW T, NEW k \in LastLinks(reach, T)
  PROVE  /\ k.low \subseteq T /\ k.low # {} /\ k.low # T /\ Min(T) \in k.low
         /\ k.height = Across(reach, T, k.low) /\ k.height = Width(reach, T)
<1>1. PICK A \in Cuts(T) : /\ k = [low |-> A, height |-> Width(reach, T)]
                          /\ Across(reach, T, A) = Width(reach, T)
  BY DEF LastLinks
<1>2. A \subseteq T /\ A # T /\ Min(T) \in A
  BY DEF Cuts
<1>3. k.low = A /\ k.height = Across(reach, T, A) /\ k.height = Width(reach, T)
  BY <1>1
<1>4. QED
  BY <1>2, <1>3

LEMMA LinkStepSame ==
  ASSUME NEW f, NEW g, NEW T, NEW reach,
         \A k \in LastLinks(reach, T) : f[k.low] = g[k.low] /\ f[T \ k.low] = g[T \ k.low]
  PROVE  LinkStep(f, T, reach) = LinkStep(g, T, reach)
<1> DEFINE K == LastLinks(reach, T)
           A(k) == Joins(T, k, f[k.low], f[T \ k.low])
           B(k) == Joins(T, k, g[k.low], g[T \ k.low])
<1>1. \A k \in K : A(k) = B(k)
  OBVIOUS
<1>2. /\ LinkStep(f, T, reach) = IF Cardinality(T) < 2 THEN {<<>>} ELSE UNION {A(k) : k \in K}
      /\ LinkStep(g, T, reach) = IF Cardinality(T) < 2 THEN {<<>>} ELSE UNION {B(k) : k \in K}
  BY DEF LinkStep
<1> HIDE DEF A, B, K
<1>3. UNION {A(k) : k \in K} = UNION {B(k) : k \in K}
  BY <1>1
<1>4. QED
  BY <1>2, <1>3

\* The recursive function exists: it is built cardinality by cardinality.
LEMMA LinkageUnfold ==
  ASSUME NEW S, IsFiniteSet(S), NEW reach
  PROVE  \A T \in SUBSET S :
           Linkage(S, reach)[T] = LinkStep(Linkage(S, reach), T, reach)
<1> DEFINE Step(g, T) == LinkStep(g, T, reach)
           Upto(m) == {T \in SUBSET S : Cardinality(T) <= m}
           Defined == {m \in Nat : \E g : g = [T \in Upto(m) |-> Step(g, T)]}
<1>1. \A T \in SUBSET S : IsFiniteSet(T) /\ Cardinality(T) \in Nat /\ Cardinality(T) <= Cardinality(S)
  BY FS_Subset, FS_CardinalityType
<1>2. ASSUME NEW T \in SUBSET S, NEW k \in LastLinks(reach, T)
      PROVE  k.low \subseteq T /\ k.low # {} /\ k.low # T
  <2> HIDE DEF Step, Upto, Defined
  <2>1. QED
    BY ONLY k \in LastLinks(reach, T), LinksWithin
<1>3. 0 \in Defined
  <2>1. PICK g : g = [T \in Upto(0) |-> {<<>>}]
    OBVIOUS
  <2>2. \A T \in Upto(0) : Step(g, T) = {<<>>}
    BY <1>1 DEF LinkStep
  <2> HIDE DEF Upto, Step
  <2>3. g = [T \in Upto(0) |-> Step(g, T)]
    BY <2>1, <2>2
  <2>4. QED
    BY <2>3
<1>4. ASSUME NEW m \in Nat, m \in Defined PROVE m + 1 \in Defined
  <2>1. PICK g : g = [T \in Upto(m) |-> Step(g, T)]
    BY <1>4
  <2>2. PICK h : h = [T \in Upto(m + 1) |-> IF T \in Upto(m) THEN g[T] ELSE Step(g, T)]
    OBVIOUS
  <2>3. Upto(m) \subseteq Upto(m + 1)
    BY <1>1
  <2>4. ASSUME NEW T \in Upto(m + 1), NEW k \in LastLinks(reach, T)
        PROVE  k.low \in Upto(m) /\ T \ k.low \in Upto(m)
    <3>1. k.low \subseteq T /\ k.low # {} /\ k.low # T
      BY <1>2, <2>4
    <3>2. IsFiniteSet(T) /\ Cardinality(T) <= m + 1
      BY <1>1
    <3>3. PICK U : U = T \ k.low
      OBVIOUS
    <3>4. U \subseteq T /\ U # T /\ k.low \subseteq T /\ k.low # T
      BY <3>1, <3>3
    <3>5. Cardinality(U) \in Nat /\ Cardinality(k.low) \in Nat /\ Cardinality(T) \in Nat
      BY <1>1, <3>4
    <3>6. Cardinality(U) < Cardinality(T) /\ Cardinality(k.low) < Cardinality(T)
      BY <3>2, <3>4, <3>5, FS_Subset
    <3>7. QED
      BY <3>2, <3>3, <3>4, <3>5, <3>6
  <2> HIDE DEF Upto
  <2>5. \A T \in Upto(m) : g[T] = Step(g, T)
    <3> HIDE DEF Step
    <3>1. QED
      BY <2>1
  <2>6. ASSUME NEW T \in Upto(m + 1) PROVE h[T] = Step(h, T)
    <3>1. h[T] = Step(g, T)
      <4> HIDE DEF Step
      <4>1. QED
        BY <2>2, <2>5
    <3>2. \A U \in Upto(m) : h[U] = g[U]
      <4> HIDE DEF Step
      <4>1. QED
        BY <2>2, <2>3
    <3>3. \A k \in LastLinks(reach, T) : g[k.low] = h[k.low] /\ g[T \ k.low] = h[T \ k.low]
      BY <2>4, <3>2
    <3>4. Step(g, T) = Step(h, T)
      BY <3>3, LinkStepSame
    <3>5. QED
      BY <3>1, <3>4
  <2>7. h = [T \in Upto(m + 1) |-> h[T]]
    <3> HIDE DEF Step
    <3>1. QED
      BY <2>2
  <2>8. h = [T \in Upto(m + 1) |-> Step(h, T)]
    <3> HIDE DEF Step
    <3>1. QED
      BY <2>6, <2>7
  <2>9. QED
    <3> HIDE DEF Step
    <3>1. QED
      BY <2>8
<1>5. Cardinality(S) \in Defined
  <2> HIDE DEF Defined
  <2>1. QED
    BY <1>1, <1>3, <1>4, SetInduction
<1>6. Upto(Cardinality(S)) = SUBSET S
  BY <1>1
<1> HIDE DEF Upto, Step
<1>7. \E g : g = [T \in SUBSET S |-> Step(g, T)]
  BY <1>5, <1>6
<1>8. PICK link : link = Linkage(S, reach)
  OBVIOUS
<1>9. link = CHOOSE g : g = [T \in SUBSET S |-> Step(g, T)]
  BY <1>8, LinkageIs DEF Step
<1>10. link = [T \in SUBSET S |-> Step(link, T)]
  BY <1>7, <1>9
<1>11. \A T \in SUBSET S : link[T] = Step(link, T)
  BY <1>10
<1>12. QED
  BY <1>8, <1>11 DEF Step

\* t is a binary tree on T: its nodes are nested or apart, every part of a node that is
\* not a point is a node, and so is T itself.
IsTree(t, T) ==
  /\ \A s \in DOMAIN t : s \subseteq T /\ s # {}
  /\ \A s, r \in DOMAIN t : s \subseteq r \/ r \subseteq s \/ s \intersect r = {}
  /\ \A s \in DOMAIN t : t[s].height \in Nat \ {0}
  /\ \A s \in DOMAIN t : \A k \in t[s].kids :
       k # {} /\ k \subseteq s /\ (Cardinality(k) >= 2 => k \in DOMAIN t)
  /\ Cardinality(T) >= 2 => T \in DOMAIN t

LEMMA JoinedIsTree ==
  ASSUME NEW T, NEW k, k.low \subseteq T, k.low # {}, k.low # T, k.height \in Nat \ {0},
         NEW l, IsTree(l, k.low), NEW r, IsTree(r, T \ k.low)
  PROVE  IsTree(Joined(T, k, l, r), T)
<1> DEFINE j == Joined(T, k, l, r)
           A == k.low
           B == T \ A
<1>1. /\ DOMAIN j = {T} \union DOMAIN l \union DOMAIN r
      /\ j[T] = [height |-> k.height, kids |-> {A, B}]
      /\ \A s \in DOMAIN l : s # T => j[s] = l[s]
      /\ \A s \in DOMAIN r : s # T /\ s \notin DOMAIN l => j[s] = r[s]
  BY DEF Joined
<1>2. /\ \A s \in DOMAIN l : s \subseteq A /\ s # {} /\ s # T
      /\ \A s \in DOMAIN r : s \subseteq B /\ s # {} /\ s # T
  <2>1. \A s \in DOMAIN l : s \subseteq A /\ s # {}
    BY DEF IsTree
  <2>2. \A s \in DOMAIN r : s \subseteq B /\ s # {}
    BY DEF IsTree
  <2>3. ~(T \subseteq A) /\ ~(T \subseteq B)
    OBVIOUS
  <2> HIDE DEF A, B
  <2>4. QED
    BY <2>1, <2>2, <2>3
<1>3. \A s \in DOMAIN r : s \notin DOMAIN l
  BY <1>2
<1>4. j[T].height = k.height /\ j[T].kids = {A, B}
  BY <1>1
<1>5. A # {} /\ B # {} /\ A \subseteq T /\ B \subseteq T
  OBVIOUS
<1> HIDE DEF j
<1>6. \A s \in DOMAIN j : s = T \/ (s \in DOMAIN l /\ j[s] = l[s]) \/ (s \in DOMAIN r /\ j[s] = r[s])
  BY <1>1, <1>2, <1>3
<1>7. \A s \in DOMAIN j : s \subseteq T /\ s # {}
  BY <1>1, <1>2, <1>5
<1>8. \A s, u \in DOMAIN j : s \subseteq u \/ u \subseteq s \/ s \intersect u = {}
  <2>1. \A s, u \in DOMAIN l : s \subseteq u \/ u \subseteq s \/ s \intersect u = {}
    BY DEF IsTree
  <2>2. \A s, u \in DOMAIN r : s \subseteq u \/ u \subseteq s \/ s \intersect u = {}
    BY DEF IsTree
  <2>3. \A s \in DOMAIN l, u \in DOMAIN r : s \intersect u = {} /\ u \intersect s = {}
    BY <1>2
  <2>4. TAKE s, u \in DOMAIN j
  <2>5. CASE s = T \/ u = T
    BY <1>7, <2>5
  <2>6. CASE s # T /\ u # T
    BY <1>1, <2>1, <2>2, <2>3, <2>6
  <2>7. QED
    BY <2>5, <2>6
<1>9. \A s \in DOMAIN j : j[s].height \in Nat \ {0}
  BY <1>4, <1>6 DEF IsTree
<1>10. ASSUME NEW s \in DOMAIN j, NEW q \in j[s].kids
       PROVE  q # {} /\ q \subseteq s /\ (Cardinality(q) >= 2 => q \in DOMAIN j)
  <2>1. CASE s = T
    <3>1. q = A \/ q = B
      BY <1>4, <2>1
    <3>2. /\ Cardinality(A) >= 2 => A \in DOMAIN l
          /\ Cardinality(B) >= 2 => B \in DOMAIN r
      BY DEF IsTree
    <3>3. QED
      BY <1>1, <1>5, <2>1, <3>1, <3>2
  <2>2. CASE s \in DOMAIN l /\ j[s] = l[s]
    BY <1>1, <2>2 DEF IsTree
  <2>3. CASE s \in DOMAIN r /\ j[s] = r[s]
    BY <1>1, <2>3 DEF IsTree
  <2>4. QED
    BY <1>6, <2>1, <2>2, <2>3
<1>11. T \in DOMAIN j
  BY <1>1
<1>12. IsTree(j, T)
  BY <1>7, <1>8, <1>9, <1>10, <1>11 DEF IsTree
<1>13. QED
  BY <1>12 DEF j

\* A dendrogram of two points or more has a last link, with one of each side below it.
Splits(t, T, link, reach) ==
  \/ DOMAIN t = {} /\ Cardinality(T) < 2
  \/ \E k \in LastLinks(reach, T) : \E l \in link[k.low], r \in link[T \ k.low] :
       /\ t = Joined(T, k, l, r)
       /\ k.low \subseteq T /\ k.low # {} /\ k.low # T /\ k.height \in Nat \ {0}

LEMMA LinkageSplits ==
  ASSUME NEW S, IsFiniteSet(S), NEW reach,
         \A p, q \in S : p # q => reach[p][q] \in Nat \ {0}
  PROVE  \A T \in SUBSET S : \A t \in Linkage(S, reach)[T] :
           Splits(t, T, Linkage(S, reach), reach)
<1>0. PICK link : link = Linkage(S, reach)
  OBVIOUS
<1> SUFFICES ASSUME NEW T \in SUBSET S, NEW t \in link[T] PROVE Splits(t, T, link, reach)
  BY <1>0
<1>1. t \in LinkStep(link, T, reach)
  BY <1>0, LinkageUnfold
<1>2. CASE Cardinality(T) < 2
  <2>1. LinkStep(link, T, reach) = {<<>>}
    BY <1>2 DEF LinkStep
  <2>2. QED
    BY <1>1, <1>2, <2>1 DEF Splits
<1>3. CASE ~(Cardinality(T) < 2)
  <2>1. t \in UNION {Joins(T, k, link[k.low], link[T \ k.low]) : k \in LastLinks(reach, T)}
    BY <1>1, <1>3 DEF LinkStep
  <2>2. PICK k \in LastLinks(reach, T) : t \in Joins(T, k, link[k.low], link[T \ k.low])
    BY <2>1
  <2>3. \E l \in link[k.low], r \in link[T \ k.low] : t = Joined(T, k, l, r)
    BY <2>2, JoinsHas
  <2>4. /\ k.low \subseteq T /\ k.low # {} /\ k.low # T
        /\ k.height = Across(reach, T, k.low)
    BY <2>2, LinksWithin
  <2>5. k.height \in Nat \ {0}
    <3> DEFINE H == {reach[p][q] : p \in k.low, q \in T \ k.low}
    <3>0. Across(reach, T, k.low) = Min(H)
      BY DEF Across
    <3>1. \A p \in k.low, q \in T \ k.low : reach[p][q] \in Nat \ {0}
      BY <2>4
    <3>2. H \subseteq Nat \ {0} /\ H # {}
      <4>1. PICK p \in k.low, q \in T \ k.low : TRUE
        BY <2>4
      <4>2. reach[p][q] \in H
        BY <4>1
      <4>3. H \subseteq Nat \ {0}
        BY <3>1
      <4> HIDE DEF H
      <4>4. QED
        BY <4>2, <4>3
    <3> HIDE DEF H
    <3>3. \E m \in H : \A i \in H : m <= i
      BY <3>2, LeastElement
    <3>4. Min(H) \in H
      BY <3>3 DEF Min
    <3>5. QED
      BY <2>4, <3>0, <3>2, <3>4
  <2>6. QED
    BY <2>3, <2>4, <2>5 DEF Splits
<1>4. QED
  BY <1>2, <1>3

LEMMA LinkageMakesTrees ==
  ASSUME NEW S, IsFiniteSet(S), NEW reach,
         \A p, q \in S : p # q => reach[p][q] \in Nat \ {0}
  PROVE  \A t \in Linkage(S, reach)[S] : IsTree(t, S)
<1>1. PICK link : link = Linkage(S, reach)
  OBVIOUS
<1> DEFINE Good == {T \in SUBSET S : \A t \in link[T] : IsTree(t, T)}
<1>2. ASSUME NEW T \in SUBSET S, \A U \in SUBSET T : U # T => U \in Good PROVE T \in Good
  <2> SUFFICES ASSUME NEW t \in link[T] PROVE IsTree(t, T)
    OBVIOUS
  <2>1. CASE DOMAIN t = {} /\ Cardinality(T) < 2
    <3>1. ~(Cardinality(T) >= 2)
      BY <2>1, FS_Subset, FS_CardinalityType
    <3>2. QED
      BY <2>1, <3>1 DEF IsTree
  <2>2. ASSUME NEW k, NEW l \in link[k.low], NEW r \in link[T \ k.low], t = Joined(T, k, l, r),
               k.low \subseteq T, k.low # {}, k.low # T, k.height \in Nat \ {0}
        PROVE  IsTree(t, T)
    <3>1. PICK A, B : A = k.low /\ B = T \ k.low
      OBVIOUS
    <3>2. A \in SUBSET T /\ B \in SUBSET T /\ A # T /\ B # T
      BY <2>2, <3>1
    <3>3. IsTree(l, A) /\ IsTree(r, B)
      BY <1>2, <2>2, <3>1, <3>2
    <3>4. QED
      BY <2>2, <3>1, <3>3, JoinedIsTree
  <2>3. Splits(t, T, link, reach)
    <3> HIDE DEF Good
    <3>1. QED
      BY <1>1, LinkageSplits
  <2>4. QED
    BY <2>1, <2>2, <2>3 DEF Splits
<1>3. S \in Good
  <2> HIDE DEF Good
  <2>1. QED
    BY <1>2, SubsetInduction
<1>4. QED
  BY <1>1, <1>3

LEMMA MaxOfThree ==
  ASSUME NEW a \in Nat, NEW b \in Nat, NEW d \in Nat
  PROVE  Max({a, b, d}) \in Nat /\ Max({a, b, d}) >= d /\ Max({a, b, d}) \in {a, b, d}
<1>1. IsFiniteSet({a, b, d})
  <2>1. IsFiniteSet({a}) /\ IsFiniteSet({b}) /\ IsFiniteSet({d})
    BY FS_Singleton
  <2>2. IsFiniteSet(({a} \union {b}) \union {d})
    BY <2>1, FS_Union
  <2>3. ({a} \union {b}) \union {d} = {a, b, d}
    OBVIOUS
  <2>4. QED
    BY <2>2, <2>3
<1>2. PICK T : T = {a, b, d}
  OBVIOUS
<1>3. IsFiniteSet(T) /\ T # {} /\ T \subseteq Int /\ T \subseteq Nat /\ d \in T
  BY <1>1, <1>2
<1>4. Max(T) \in T /\ \A y \in T : Max(T) >= y
  BY <1>3, MinMax
<1>5. QED
  BY <1>2, <1>3, <1>4

\* Points apart are a positive distance from each other, whatever their density.
LEMMA ReachPositive ==
  ASSUME NEW S, IsFiniteSet(S), NEW x, \A p \in S : x[p] \in Int,
         \A p, q \in S : p # q => x[p] # x[q], Cardinality(S) >= MinPts
  PROVE  \A p, q \in S : p # q => Reach(S, x)[p][q] \in Nat \ {0}
<1>1. \A p, q \in S : Dist(x, p, q) \in Nat /\ (p # q => Dist(x, p, q) # 0)
  BY DEF Dist
<1>2. Cardinality(S) \in Nat /\ MinPts \in Nat
  BY FS_CardinalityType, ClusterTreeAssumption
<1>3. ASSUME NEW p \in S PROVE Core(S, x, p) \in Nat
  <2> DEFINE dist == [q \in S |-> Dist(x, p, q)]
             D == {dist[q] : q \in S}
             Near(q) == {r \in S : Dist(x, p, r) <= Dist(x, p, q)}
             N == {q \in S : Cardinality(Near(q)) >= MinPts}
             H == {Dist(x, p, q) : q \in N}
  <2>1. IsFiniteSet(D)
    <3> HIDE DEF dist
    <3>1. QED
      BY ImageFinite
  <2>2. \A q \in S : dist[q] = Dist(x, p, q)
    OBVIOUS
  <2> HIDE DEF dist
  <2>3. D # {} /\ D \subseteq Int
    BY <1>1, <2>2
  <2>4. Max(D) \in D /\ \A y \in D : Max(D) >= y
    <3> HIDE DEF D
    <3>1. QED
      BY <2>1, <2>3, MinMax
  <2>5. PICK q \in S : Max(D) = dist[q]
    BY <2>4
  <2>6. Near(q) = S
    BY <2>2, <2>4, <2>5
  <2>7. q \in N
    BY <2>6
  <2>8. H # {} /\ H \subseteq Nat
    BY <1>1, <2>7
  <2>9. Core(S, x, p) = Min(H)
    BY DEF Core
  <2> HIDE DEF H
  <2>10. \E m \in H : \A k \in H : m <= k
    BY <2>8, LeastElement
  <2>11. Min(H) \in H
    BY <2>10 DEF Min
  <2>12. QED
    BY <2>8, <2>9, <2>11
<1>4. ASSUME NEW p \in S, NEW q \in S, p # q PROVE Reach(S, x)[p][q] \in Nat \ {0}
  <2>1. Reach(S, x)[p][q] = Max({Core(S, x, p), Core(S, x, q), Dist(x, p, q)})
    BY DEF Reach
  <2>2. PICK a, b, d : a = Core(S, x, p) /\ b = Core(S, x, q) /\ d = Dist(x, p, q)
    OBVIOUS
  <2>3. a \in Nat /\ b \in Nat /\ d \in Nat /\ d # 0
    BY <1>1, <1>3, <1>4, <2>2
  <2>4. Max({a, b, d}) \in Nat /\ Max({a, b, d}) >= d
    BY <2>3, MaxOfThree
  <2>5. QED
    BY <2>1, <2>2, <2>3, <2>4
<1>5. QED
  BY <1>4

LEMMA DendrogramsOf ==
  ASSUME NEW S, NEW x
  PROVE  Dendrograms(S, x) = Linkage(S, Reach(S, x))[S]
<1>1. PICK link : link = Linkage(S, Reach(S, x))[S]
  OBVIOUS
<1>2. PICK reach : reach = Reach(S, x)
  OBVIOUS
<1>3. Dendrograms(S, x) = UNION {Linkage(S, r)[S] : r \in {reach}}
  BY <1>2 DEF Dendrograms
<1>4. {Linkage(S, r)[S] : r \in {reach}} = {link}
  BY <1>1, <1>2
<1>5. QED
  BY <1>1, <1>3, <1>4

LEMMA DendrogramsAreTrees ==
  ASSUME NEW S, IsFiniteSet(S), NEW x, \A p \in S : x[p] \in Int,
         \A p, q \in S : p # q => x[p] # x[q], Cardinality(S) >= MinPts,
         NEW t \in Dendrograms(S, x)
  PROVE  IsTree(t, S)
<1>1. PICK reach : reach = Reach(S, x)
  OBVIOUS
<1>2. \A p, q \in S : p # q => reach[p][q] \in Nat \ {0}
  BY <1>1, ReachPositive
<1>3. t \in Linkage(S, reach)[S]
  BY <1>1, DendrogramsOf
<1>4. QED
  BY <1>2, <1>3, LinkageMakesTrees
-----------------------------------------------------------------------------
(* Groups of points far from each other *)

\* The points of T are of one group, g the group of a point.
OfOne(g, T) == \A p, q \in T : g[p] = g[q]

\* T holds the whole group of each of its points.
Whole(S, g, T) == \A p \in T, q \in S : g[p] = g[q] => q \in T

\* Within a group no pair of points is linked at more than E, between two none at
\* less than L.
Grouped(S, g, reach, E, L) ==
  /\ E \in Nat /\ L \in Nat /\ E < L
  /\ \A p \in S : g[p] \in Int
  /\ \A p, q \in S : /\ p # q /\ g[p] = g[q] => reach[p][q] <= E
                     /\ g[p] # g[q] => reach[p][q] >= L

\* Above height E the nodes are made of whole groups, and so are their children.
Layered(t, S, g, E, L) ==
  \A s \in DOMAIN t :
    /\ \A p \in s : \E k \in t[s].kids : p \in k
    /\ \A k \in t[s].kids : k # s
    /\ OfOne(g, s) => t[s].height <= E
    /\ ~OfOne(g, s) => /\ Whole(S, g, s) /\ t[s].height >= L
                       /\ \A k \in t[s].kids : Whole(S, g, k)

\* The least of a set of numbers, bounded from either side.
LEMMA MinBounds ==
  ASSUME NEW H, H \subseteq Nat, H # {}
  PROVE  /\ Min(H) \in Nat /\ \A n \in H : Min(H) <= n
         /\ \A n \in Nat : (\A i \in H : i >= n) => Min(H) >= n
<1>1. \E n \in H : \A i \in H : n <= i
  BY LeastElement
<1>2. Min(H) \in H /\ \A n \in H : Min(H) <= n
  BY <1>1 DEF Min
<1>3. QED
  BY <1>2

\* No cut of a set is wider than its last link.
LEMMA LinksWidest ==
  ASSUME NEW T, IsFiniteSet(T), NEW reach, \A p, q \in T : p # q => reach[p][q] \in Nat,
         NEW A \in Cuts(T)
  PROVE  Across(reach, T, A) \in Nat /\ Across(reach, T, A) <= Width(reach, T)
<1> DEFINE across == [B \in Cuts(T) |-> Across(reach, T, B)]
           R == {0} \union {across[B] : B \in Cuts(T)}
<1>1. ASSUME NEW B \in Cuts(T) PROVE Across(reach, T, B) \in Nat
  <2> DEFINE H == {reach[p][q] : p \in B, q \in T \ B}
  <2>1. \A p \in B, q \in T \ B : reach[p][q] \in H
    OBVIOUS
  <2>2. B \subseteq T /\ Min(T) \in B /\ B # T
    BY DEF Cuts
  <2>3. PICK p \in B, q \in T \ B : TRUE
    BY <2>2
  <2>4. \A a \in B, b \in T \ B : reach[a][b] \in Nat
    BY <2>2
  <2>5. H \subseteq Nat
    BY <2>4
  <2>6. Across(reach, T, B) = Min(H)
    BY DEF Across
  <2> HIDE DEF H
  <2>7. H # {}
    BY <2>1, <2>3
  <2>8. QED
    BY <2>5, <2>6, <2>7, MinBounds
<1>2. IsFiniteSet(Cuts(T))
  <2>1. IsFiniteSet(SUBSET T) /\ Cuts(T) \subseteq SUBSET T
    BY FS_SUBSET DEF Cuts
  <2>2. QED
    BY <2>1, FS_Subset
<1>3. Width(reach, T) = Max(R)
  BY DEF Width
<1>4. \A B \in Cuts(T) : across[B] = Across(reach, T, B) /\ across[B] \in Nat
  BY <1>1
<1>5. across[A] = Across(reach, T, A)
  OBVIOUS
<1> HIDE DEF across
<1>6. IsFiniteSet({across[B] : B \in Cuts(T)})
  BY <1>2, ImageFinite
<1>7. IsFiniteSet({0})
  BY FS_Singleton
<1>8. IsFiniteSet(R) /\ R # {} /\ R \subseteq Int /\ across[A] \in R
  <2>1. IsFiniteSet(R)
    BY <1>6, <1>7, FS_Union
  <2>2. R \subseteq Int /\ across[A] \in R
    BY <1>4
  <2>3. QED
    BY <2>1, <2>2
<1> HIDE DEF R
<1>9. Max(R) \in R /\ \A y \in R : Max(R) >= y
  BY <1>8, MinMax
<1>10. QED
  BY <1>1, <1>3, <1>5, <1>8, <1>9

\* So a set of whole groups is cut between two of them.
LEMMA GroupLinks ==
  ASSUME NEW S, IsFiniteSet(S), NEW reach,
         \A p, q \in S : p # q => reach[p][q] \in Nat,
         NEW g, NEW E, NEW L, Grouped(S, g, reach, E, L),
         NEW T \in SUBSET S, NEW k \in LastLinks(reach, T)
  PROVE  /\ OfOne(g, T) => k.height <= E
         /\ ~OfOne(g, T) /\ Whole(S, g, T) =>
              k.height >= L /\ Whole(S, g, k.low) /\ Whole(S, g, T \ k.low)
<1>1. /\ E \in Nat /\ L \in Nat /\ E < L
      /\ \A p \in S : g[p] \in Int
      /\ \A p, q \in S : /\ p # q /\ g[p] = g[q] => reach[p][q] <= E
                         /\ g[p] # g[q] => reach[p][q] >= L
  BY DEF Grouped
<1>2. (\A p, q \in T : p # q => reach[p][q] \in Nat) /\ IsFiniteSet(T)
  BY FS_Subset
<1> DEFINE H == {reach[p][q] : p \in k.low, q \in T \ k.low}
<1>3. /\ k.low \subseteq T /\ k.low # {} /\ k.low # T /\ k.height = Min(H)
      /\ Min(T) \in k.low /\ k.height = Width(reach, T)
  <2>1. Across(reach, T, k.low) = Min(H)
    BY DEF Across
  <2> HIDE DEF H
  <2>2. QED
    BY <2>1, LinksWithin
<1>4. PICK a \in k.low, b \in T \ k.low : TRUE
  BY <1>3
<1>5. reach[a][b] \in H /\ a \in S /\ b \in S /\ a # b
  BY <1>3, <1>4
<1>6. H \subseteq Nat
  <2>1. \A p \in k.low, q \in T \ k.low : reach[p][q] \in Nat
    BY <1>2, <1>3
  <2>2. QED
    BY <2>1
<1>7. \A p \in k.low, q \in T \ k.low : reach[p][q] \in H
  OBVIOUS
<1> HIDE DEF H
<1>8. k.height \in Nat /\ \A n \in H : k.height <= n
  BY <1>3, <1>5, <1>6, MinBounds
<1>9. ASSUME OfOne(g, T) PROVE k.height <= E
  <2>1. g[a] = g[b]
    BY <1>3, <1>9 DEF OfOne
  <2>2. reach[a][b] <= E /\ reach[a][b] \in Nat
    BY <1>1, <1>5, <1>6, <2>1
  <2>3. QED
    BY <1>1, <1>5, <1>8, <2>2
<1>10. ASSUME ~OfOne(g, T) PROVE k.height >= L
  <2>1. PICK m : m = Min(T)
    OBVIOUS
  <2>2. PICK A : A = {r \in T : g[r] = g[m]}
    OBVIOUS
  <2>3. m \in A /\ A \subseteq T /\ A # T
    BY <1>3, <1>10, <2>1, <2>2 DEF OfOne
  <2>4. A \in Cuts(T)
    BY <2>1, <2>3 DEF Cuts
  <2> DEFINE J == {reach[c][d] : c \in A, d \in T \ A}
  <2>5. ASSUME NEW c \in A, NEW d \in T \ A PROVE reach[c][d] \in Nat /\ reach[c][d] >= L
    <3>1. c \in S /\ d \in S /\ c # d /\ g[c] # g[d]
      BY <2>2, <2>3
    <3>2. QED
      BY <1>1, <3>1
  <2>6. J \subseteq Nat /\ J # {} /\ \A i \in J : i >= L
    <3>1. PICK d \in T \ A : TRUE
      BY <2>3
    <3>2. reach[m][d] \in J
      BY <2>3, <3>1
    <3>3. J \subseteq Nat /\ \A i \in J : i >= L
      BY <2>5
    <3> HIDE DEF J
    <3>4. QED
      BY <3>2, <3>3
  <2>7. Across(reach, T, A) = Min(J)
    BY DEF Across
  <2> HIDE DEF J
  <2>8. Min(J) \in Nat /\ Min(J) >= L
    BY <1>1, <2>6, MinBounds
  <2>9. Across(reach, T, A) <= Width(reach, T)
    BY <1>2, <2>4, LinksWidest
  <2>10. QED
    BY <1>1, <1>3, <1>8, <2>7, <2>8, <2>9
<1>11. ASSUME ~OfOne(g, T), Whole(S, g, T)
       PROVE  Whole(S, g, k.low) /\ Whole(S, g, T \ k.low)
  <2>1. ASSUME NEW p \in k.low, NEW q \in T \ k.low PROVE g[p] # g[q]
    <3>1. reach[p][q] \in H /\ p \in S /\ q \in S /\ p # q
      BY <1>3, <1>7
    <3>2. k.height <= reach[p][q] /\ reach[p][q] \in Nat
      BY <1>6, <1>8, <3>1
    <3>3. QED
      BY <1>1, <1>8, <1>10, <1>11, <3>1, <3>2
  <2>2. \A p \in T, q \in S : g[p] = g[q] => q \in T
    BY <1>11 DEF Whole
  <2>3. QED
    BY <1>3, <2>1, <2>2 DEF Whole
<1>12. QED
  BY <1>9, <1>10, <1>11

LEMMA JoinedIsLayered ==
  ASSUME NEW S, NEW g, NEW E, NEW L, NEW T, NEW k, k.low \subseteq T,
         OfOne(g, T) => k.height <= E,
         ~OfOne(g, T) => /\ k.height >= L /\ Whole(S, g, T)
                         /\ Whole(S, g, k.low) /\ Whole(S, g, T \ k.low),
         NEW l, IsTree(l, k.low), Layered(l, S, g, E, L),
         NEW r, IsTree(r, T \ k.low), Layered(r, S, g, E, L), k.low # {}, k.low # T
  PROVE  Layered(Joined(T, k, l, r), S, g, E, L)
<1>1. PICK j, A, B : j = Joined(T, k, l, r) /\ A = k.low /\ B = T \ k.low
  OBVIOUS
<1>2. /\ DOMAIN j = {T} \union DOMAIN l \union DOMAIN r
      /\ j[T] = [height |-> k.height, kids |-> {A, B}]
      /\ \A s \in DOMAIN l : s # T => j[s] = l[s]
      /\ \A s \in DOMAIN r : s # T /\ s \notin DOMAIN l => j[s] = r[s]
  BY <1>1 DEF Joined
<1>3. /\ \A s \in DOMAIN l : s \subseteq A /\ s # {} /\ s # T
      /\ \A s \in DOMAIN r : s \subseteq B /\ s # {} /\ s # T
  <2>1. \A s \in DOMAIN l : s \subseteq A /\ s # {}
    BY <1>1 DEF IsTree
  <2>2. \A s \in DOMAIN r : s \subseteq B /\ s # {}
    BY <1>1 DEF IsTree
  <2>3. ~(T \subseteq A) /\ ~(T \subseteq B)
    BY <1>1
  <2>4. QED
    BY <2>1, <2>2, <2>3
<1>4. \A s \in DOMAIN r : s \notin DOMAIN l
  BY <1>1, <1>3
<1>5. \A s \in DOMAIN j : s = T \/ (s \in DOMAIN l /\ j[s] = l[s]) \/ (s \in DOMAIN r /\ j[s] = r[s])
  BY <1>2, <1>3, <1>4
<1>6. /\ \A p \in T : \E q \in j[T].kids : p \in q
      /\ \A q \in j[T].kids : q # T
      /\ OfOne(g, T) => j[T].height <= E
      /\ ~OfOne(g, T) => /\ Whole(S, g, T) /\ j[T].height >= L
                         /\ \A q \in j[T].kids : Whole(S, g, q)
  <2>1. j[T].height = k.height /\ j[T].kids = {A, B}
    BY <1>2
  <2>2. A # T /\ B # T /\ \A p \in T : p \in A \/ p \in B
    BY <1>1
  <2>3. QED
    BY <1>1, <2>1, <2>2
<1>7. ASSUME NEW s \in DOMAIN j
      PROVE  /\ \A p \in s : \E q \in j[s].kids : p \in q
             /\ \A q \in j[s].kids : q # s
             /\ OfOne(g, s) => j[s].height <= E
             /\ ~OfOne(g, s) => /\ Whole(S, g, s) /\ j[s].height >= L
                                /\ \A q \in j[s].kids : Whole(S, g, q)
  <2>1. CASE s = T
    BY <1>6, <2>1
  <2>2. CASE s \in DOMAIN l /\ j[s] = l[s]
    BY <2>2 DEF Layered
  <2>3. CASE s \in DOMAIN r /\ j[s] = r[s]
    BY <2>3 DEF Layered
  <2>4. QED
    BY <1>5, <2>1, <2>2, <2>3
<1>8. Layered(j, S, g, E, L)
  BY <1>7 DEF Layered
<1>9. QED
  BY <1>1, <1>8

\* Every dendrogram of groups far from each other has them one below the other.
LEMMA LinkageLayers ==
  ASSUME NEW S, IsFiniteSet(S), NEW reach,
         \A p, q \in S : p # q => reach[p][q] \in Nat \ {0},
         NEW g, NEW E, NEW L, Grouped(S, g, reach, E, L)
  PROVE  \A t \in Linkage(S, reach)[S] : Layered(t, S, g, E, L)
<1>1. PICK link : link = Linkage(S, reach)
  OBVIOUS
<1> DEFINE Fits(T) == OfOne(g, T) \/ Whole(S, g, T)
           Good == {T \in SUBSET S : Fits(T) =>
                      \A t \in link[T] : IsTree(t, T) /\ Layered(t, S, g, E, L)}
<1>2. ASSUME NEW T \in SUBSET S, \A U \in SUBSET T : U # T => U \in Good PROVE T \in Good
  <2> SUFFICES ASSUME Fits(T), NEW t \in link[T] PROVE IsTree(t, T) /\ Layered(t, S, g, E, L)
    OBVIOUS
  <2>1. CASE DOMAIN t = {} /\ Cardinality(T) < 2
    <3>1. ~(Cardinality(T) >= 2)
      BY <2>1, FS_Subset, FS_CardinalityType
    <3>2. QED
      BY <2>1, <3>1 DEF IsTree, Layered
  <2>2. ASSUME NEW k \in LastLinks(reach, T),
               NEW l \in link[k.low], NEW r \in link[T \ k.low], t = Joined(T, k, l, r),
               k.low \subseteq T, k.low # {}, k.low # T, k.height \in Nat \ {0}
        PROVE  IsTree(t, T) /\ Layered(t, S, g, E, L)
    <3>1. \A p, q \in S : p # q => reach[p][q] \in Nat
      OBVIOUS
    <3>2. /\ OfOne(g, T) => k.height <= E
          /\ ~OfOne(g, T) /\ Whole(S, g, T) =>
               k.height >= L /\ Whole(S, g, k.low) /\ Whole(S, g, T \ k.low)
      BY <3>1, GroupLinks
    <3>3. PICK A, B : A = k.low /\ B = T \ k.low
      OBVIOUS
    <3>4. A \in SUBSET T /\ B \in SUBSET T /\ A # T /\ B # T
      BY <2>2, <3>3
    <3>5. Fits(A) /\ Fits(B)
      <4>1. CASE OfOne(g, T)
        BY <3>4, <4>1 DEF OfOne
      <4>2. CASE ~OfOne(g, T)
        BY <3>2, <3>3, <4>2
      <4>3. QED
        BY <4>1, <4>2
    <3> HIDE DEF Fits
    <3>6. IsTree(l, A) /\ Layered(l, S, g, E, L) /\ IsTree(r, B) /\ Layered(r, S, g, E, L)
      BY <1>2, <2>2, <3>3, <3>4, <3>5
    <3>7. IsTree(t, T)
      BY <2>2, <3>3, <3>6, JoinedIsTree
    <3>8. ~OfOne(g, T) => Whole(S, g, T)
      BY DEF Fits
    <3>9. Layered(Joined(T, k, l, r), S, g, E, L)
      BY <2>2, <3>2, <3>3, <3>6, <3>8, JoinedIsLayered
    <3>10. QED
      BY <2>2, <3>7, <3>9
  <2>3. Splits(t, T, link, reach)
    <3> HIDE DEF Good
    <3>1. QED
      BY <1>1, LinkageSplits
  <2>4. QED
    BY <2>1, <2>2, <2>3 DEF Splits
<1>3. Fits(S)
  BY DEF Whole
<1>4. S \in Good
  <2> HIDE DEF Good
  <2>1. QED
    BY <1>2, SubsetInduction
<1>5. QED
  BY <1>1, <1>3, <1>4

\* Distances and counts decide how groups are linked: each has MinPts points, so the
\* density of none reaches into another.
LEMMA ReachGrouped ==
  ASSUME NEW S, IsFiniteSet(S), NEW x, \A p \in S : x[p] \in Int,
         NEW g, \A p \in S : g[p] \in Int,
         NEW E \in Nat, NEW L \in Nat, E < L,
         \A p, q \in S : g[p] = g[q] => x[q] - x[p] <= E,
         \A p, q \in S : g[p] < g[q] => x[q] - x[p] >= L,
         \A p \in S : Cardinality({q \in S : g[q] = g[p]}) >= MinPts
  PROVE  Grouped(S, g, Reach(S, x), E, L)
<1>1. \A p, q \in S : /\ Dist(x, p, q) \in Nat
                      /\ g[p] = g[q] => Dist(x, p, q) <= E
                      /\ g[p] # g[q] => Dist(x, p, q) >= L
                      /\ g[p] < g[q] => x[p] < x[q]
  <2>1. TAKE p, q \in S
  <2>2. /\ x[p] \in Int /\ x[q] \in Int /\ g[p] \in Int /\ g[q] \in Int
        /\ g[p] = g[q] => x[q] - x[p] <= E /\ x[p] - x[q] <= E
        /\ g[p] < g[q] => x[q] - x[p] >= L
        /\ g[q] < g[p] => x[p] - x[q] >= L
    OBVIOUS
  <2>3. QED
    BY <2>2 DEF Dist
<1>2. ASSUME NEW p \in S PROVE Core(S, x, p) \in Nat /\ Core(S, x, p) <= E
  <2> DEFINE G == {q \in S : g[q] = g[p]}
             dist == [q \in S |-> Dist(x, p, q)]
             D == {dist[q] : q \in G}
             Near(q) == {r \in S : Dist(x, p, r) <= Dist(x, p, q)}
             N == {q \in S : Cardinality(Near(q)) >= MinPts}
             H == {Dist(x, p, q) : q \in N}
  <2>1. IsFiniteSet(G) /\ p \in G /\ G \subseteq S
    BY FS_Subset
  <2>2. \A q \in S : dist[q] = Dist(x, p, q)
    OBVIOUS
  <2>3. \A q \in G : g[q] = g[p]
    OBVIOUS
  <2>4. Cardinality(G) >= MinPts
    OBVIOUS
  <2> HIDE DEF dist, G
  <2>5. IsFiniteSet(D) /\ D # {} /\ D \subseteq Int
    <3>1. IsFiniteSet(D)
      BY <2>1, ImageFinite
    <3>2. QED
      BY <1>1, <2>1, <2>2, <3>1
  <2>6. PICK q \in G : \A r \in G : Dist(x, p, r) <= Dist(x, p, q)
    <3> HIDE DEF D
    <3>1. Max(D) \in D /\ \A y \in D : Max(D) >= y
      BY <2>5, MinMax
    <3>2. PICK q \in G : Max(D) = dist[q]
      BY <3>1 DEF D
    <3>3. \A r \in G : dist[r] \in D
      BY DEF D
    <3>4. \A r \in G : dist[r] = Dist(x, p, r) /\ Dist(x, p, r) \in Nat
      BY <1>1, <2>1, <2>2
    <3>5. \A r \in G : Dist(x, p, r) <= Dist(x, p, q)
      BY <3>1, <3>2, <3>3, <3>4
    <3>6. QED
      BY <3>5
  <2>7. q \in N
    <3>1. G \subseteq Near(q) /\ Near(q) \subseteq S
      BY <2>1, <2>6
    <3>2. IsFiniteSet(Near(q))
      BY <3>1, FS_Subset
    <3> HIDE DEF Near
    <3>3. /\ Cardinality(G) <= Cardinality(Near(q))
          /\ Cardinality(G) \in Nat /\ Cardinality(Near(q)) \in Nat
      BY <2>1, <3>1, <3>2, FS_Subset, FS_CardinalityType
    <3>4. Cardinality(Near(q)) >= MinPts
      BY <2>4, <3>3, ClusterTreeAssumption
    <3>5. QED
      BY <2>1, <3>4
  <2>8. H \subseteq Nat /\ Dist(x, p, q) \in H
    BY <1>1, <2>7
  <2>9. Core(S, x, p) = Min(H)
    BY DEF Core
  <2> HIDE DEF H
  <2>10. Min(H) \in Nat /\ Min(H) <= Dist(x, p, q)
    BY <2>8, MinBounds
  <2>11. Dist(x, p, q) \in Nat /\ Dist(x, p, q) <= E
    BY <1>1, <2>1, <2>3
  <2>12. QED
    BY <2>9, <2>10, <2>11
<1>3. ASSUME NEW p \in S, NEW q \in S
      PROVE  /\ g[p] = g[q] => Reach(S, x)[p][q] <= E
             /\ g[p] # g[q] => Reach(S, x)[p][q] >= L
  <2>1. PICK a, b, d : a = Core(S, x, p) /\ b = Core(S, x, q) /\ d = Dist(x, p, q)
    OBVIOUS
  <2>2. a \in Nat /\ b \in Nat /\ d \in Nat /\ a <= E /\ b <= E
    BY <1>1, <1>2, <2>1
  <2>3. Max({a, b, d}) \in {a, b, d} /\ Max({a, b, d}) >= d /\ Max({a, b, d}) \in Nat
    BY <2>2, MaxOfThree
  <2>4. Reach(S, x)[p][q] = Max({a, b, d})
    BY <2>1 DEF Reach
  <2>5. (g[p] = g[q] => d <= E) /\ (g[p] # g[q] => d >= L)
    BY <1>1, <2>1
  <2>6. QED
    BY <2>2, <2>3, <2>4, <2>5
<1>4. QED
  BY <1>1, <1>3 DEF Grouped

\* The lower, the denser.
LEMMA DensityFalls ==
  ASSUME NEW a \in Nat \ {0}, NEW b \in Nat \ {0}, a <= b
  PROVE  Density(b) <= Density(a) /\ Density(a) \in Nat /\ Density(b) \in Nat
<1>1. PICK s : s = Scale
  OBVIOUS
<1>2. s \in Nat
  BY <1>1, ClusterTreeAssumption
<1>3. PICK m, n : m = s \div a /\ n = s \div b
  OBVIOUS
<1>4. m \in Int /\ n \in Int /\ n >= 0 /\ m >= 0 /\ b * n <= s /\ s < a * (m + 1)
  BY <1>2, <1>3, SMT
<1>5. a * n <= b * n
  <2>1. n * a <= n * b
    BY <1>4, MulMono
  <2>2. QED
    BY <1>4, <2>1
<1>6. a * n < a * (m + 1)
  <2>1. PICK u, v, w : u = a * n /\ v = b * n /\ w = a * (m + 1)
    OBVIOUS
  <2>2. u \in Int /\ v \in Int /\ w \in Int
    BY <1>4, <2>1
  <2>3. QED
    BY <1>2, <1>4, <1>5, <2>1, <2>2
<1>7. n <= m
  <2>1. SUFFICES ASSUME m + 1 <= n PROVE FALSE
    BY <1>4
  <2>2. a * (m + 1) <= a * n
    BY <1>4, <2>1, MulMono
  <2>3. a * n \in Int /\ a * (m + 1) \in Int
    BY <1>4
  <2>4. QED
    BY <1>6, <2>2, <2>3
<1>8. QED
  BY <1>1, <1>3, <1>4, <1>7 DEF Density
-----------------------------------------------------------------------------
(* The condensed tree of one *)

\* Of sets that lie within each other one is the smallest.
LEMMA SmallestIs ==
  ASSUME NEW N, N # {}, \A s \in N : IsFiniteSet(s), \A s, r \in N : s \subseteq r \/ r \subseteq s
  PROVE  Smallest(N) \in N /\ \A r \in N : Smallest(N) \subseteq r
<1> DEFINE C == {Cardinality(s) : s \in N}
<1>1. \A s \in N : Cardinality(s) \in Nat
  BY FS_CardinalityType
<1>2. C # {} /\ C \subseteq Nat
  BY <1>1
<1>3. PICK m \in C : \A k \in C : m <= k
  <2> HIDE DEF C
  <2>1. QED
    BY <1>2, LeastElement
<1>4. PICK s \in N : m = Cardinality(s)
  OBVIOUS
<1>5. ASSUME NEW r \in N PROVE s \subseteq r
  <2>1. Cardinality(s) <= Cardinality(r)
    BY <1>3, <1>4
  <2>2. CASE r \subseteq s
    <3>1. IsFiniteSet(s)
      OBVIOUS
    <3>2. Cardinality(r) <= Cardinality(s) /\ (Cardinality(s) = Cardinality(r) => s = r)
      BY <2>2, <3>1, FS_Subset
    <3>3. QED
      BY <1>1, <2>1, <3>2
  <2>3. QED
    BY <2>2
<1>6. QED
  BY <1>5 DEF Smallest

\* The clusters are nested or apart; the home of a point is the smallest that holds it,
\* and but for the root none is too small.
IsCondensed(c) ==
  /\ IsFiniteSet(c.root) /\ c.root # {} /\ c.root \in c.heads
  /\ \A h \in c.heads : h # {} /\ h \subseteq c.root /\ (h = c.root \/ Cardinality(h) >= MinSize)
  /\ \A h, d \in c.heads : h \subseteq d \/ d \subseteq h \/ h \intersect d = {}
  /\ \A p \in c.root : /\ c.home[p] \in c.heads /\ p \in c.home[p]
                       /\ \A h \in c.heads : p \in h => c.home[p] \subseteq h
  /\ \A p \in c.root : c.falls[p] \in Int
  /\ \A h \in c.heads : c.birth[h] \in Int

LEMMA DensityInt == \A n \in Nat \ {0} : Density(n) \in Int
BY ClusterTreeAssumption DEF Density

LEMMA MinSizeIs == MinSize \in Nat /\ MinSize >= 2
<1>1. PICK T : T = {2, MinClusterSize}
  OBVIOUS
<1>2. IsFiniteSet(T)
  <2>1. IsFiniteSet({2}) /\ IsFiniteSet({MinClusterSize})
    BY FS_Singleton
  <2>2. IsFiniteSet({2} \union {MinClusterSize})
    BY <2>1, FS_Union
  <2>3. {2} \union {MinClusterSize} = T
    BY <1>1
  <2>4. QED
    BY <2>2, <2>3
<1>3. T # {} /\ T \subseteq Nat /\ T \subseteq Int /\ 2 \in T
  BY <1>1, ClusterTreeAssumption
<1>4. Max(T) \in T /\ \A y \in T : Max(T) >= y
  BY <1>2, <1>3, MinMax
<1>5. QED
  BY <1>1, <1>3, <1>4 DEF MinSize

\* The condensed tree c of t in terms of t.
CondensedFrom(c, t, S) ==
  /\ c.root = S /\ S \in c.heads
  /\ \A h \in c.heads : h \in DOMAIN t /\ (h = S \/ Cardinality(h) >= MinSize)
  /\ \A h \in c.heads : h = S \/ \E s \in DOMAIN t : h \in t[s].kids
  /\ \A s \in DOMAIN t : Genuine(t, s) => t[s].kids \subseteq c.heads
  /\ \A p \in S : \E f \in DOMAIN t :
       /\ p \in f /\ \A h \in c.heads : p \in h => f \subseteq h
       /\ c.falls[p] = Density(t[f].height)
       /\ c.home[p] = Smallest({h \in c.heads : f \subseteq h})
  /\ c.birth[S] = 0
  /\ \A h \in c.heads : h # S => \E s \in DOMAIN t :
       /\ h \subseteq s /\ h # s
       /\ \A r \in DOMAIN t : h \subseteq r /\ h # r => s \subseteq r
       /\ c.birth[h] = Density(t[s].height)

LEMMA CondenseHas ==
  ASSUME NEW S, IsFiniteSet(S), Cardinality(S) >= 2, NEW t, IsTree(t, S)
  PROVE  CondensedFrom(Condense(t, S), t, S)
<1> DEFINE c == Condense(t, S)
           H == {S} \union UNION {t[s].kids : s \in {s \in DOMAIN t : Genuine(t, s)}}
           Falls(p) == {s \in DOMAIN t : p \in s /\ (s = S \/ Cardinality(s) >= MinSize)}
           Heads(s) == {h \in H : s \subseteq h}
           Above(h) == {s \in DOMAIN t : h \subseteq s /\ h # s}
<1>1. /\ c.root = S /\ c.heads = H
      /\ c.home = [p \in S |-> Smallest(Heads(FallsAt(t, S, p)))]
      /\ c.falls = [p \in S |-> Density(t[FallsAt(t, S, p)].height)]
      /\ c.birth = [h \in H |-> IF h = S THEN 0 ELSE Density(t[Smallest(Above(h))].height)]
  BY DEF Condense
<1>2. \A p \in S : FallsAt(t, S, p) = Smallest(Falls(p))
  BY DEF FallsAt
<1> HIDE DEF c
<1>3. /\ \A s \in DOMAIN t : s \subseteq S /\ s # {}
      /\ \A s, r \in DOMAIN t : s \subseteq r \/ r \subseteq s \/ s \intersect r = {}
      /\ S \in DOMAIN t
  BY DEF IsTree
<1>4. \A s \in DOMAIN t : IsFiniteSet(s)
  BY <1>3, FS_Subset
<1>5. ASSUME NEW h \in H
      PROVE  /\ h \in DOMAIN t /\ (h = S \/ Cardinality(h) >= MinSize)
             /\ h = S \/ \E s \in DOMAIN t : h \in t[s].kids
  <2>1. CASE h = S
    BY <1>3, <2>1
  <2>2. CASE h # S
    <3>1. PICK s \in DOMAIN t : Genuine(t, s) /\ h \in t[s].kids
      BY <2>2
    <3>2. Cardinality(h) >= MinSize
      BY <3>1 DEF Genuine
    <3>3. IsFiniteSet(h)
      BY <1>4, <3>1, FS_Subset DEF IsTree
    <3>4. Cardinality(h) >= 2
      BY <3>2, <3>3, MinSizeIs, FS_CardinalityType
    <3>5. QED
      BY <3>1, <3>2, <3>4 DEF IsTree
  <2>3. QED
    BY <2>1, <2>2
<1>6. S \in H /\ \A s \in DOMAIN t : Genuine(t, s) => t[s].kids \subseteq H
  OBVIOUS
<1> HIDE DEF H
<1>7. \A h \in H : h # {} /\ h \subseteq S /\ IsFiniteSet(h)
  BY <1>3, <1>4, <1>5
<1>8. ASSUME NEW p \in S
      PROVE  \E f \in DOMAIN t :
               /\ p \in f /\ \A h \in c.heads : p \in h => f \subseteq h
               /\ c.falls[p] = Density(t[f].height)
               /\ c.home[p] = Smallest({h \in c.heads : f \subseteq h})
  <2> DEFINE N == Falls(p)
             f == FallsAt(t, S, p)
  <2>1. S \in N
    BY <1>3
  <2>2. \A s \in N : s \in DOMAIN t /\ p \in s
    OBVIOUS
  <2>3. \A h \in H : p \in h => h \in N
    BY <1>5
  <2>4. f = Smallest(N)
    BY <1>2
  <2>5. /\ c.falls[p] = Density(t[f].height)
        /\ c.home[p] = Smallest({h \in c.heads : f \subseteq h})
    BY <1>1
  <2> HIDE DEF N, f
  <2>6. \A s, r \in N : s \subseteq r \/ r \subseteq s
    BY <1>3, <2>2
  <2>7. \A s \in N : IsFiniteSet(s)
    BY <1>4, <2>2
  <2>8. Smallest(N) \in N /\ \A r \in N : Smallest(N) \subseteq r
    BY <2>1, <2>6, <2>7, SmallestIs
  <2>9. f \in DOMAIN t /\ p \in f /\ \A h \in c.heads : p \in h => f \subseteq h
    BY <1>1, <2>2, <2>3, <2>4, <2>8
  <2>10. QED
    BY <2>5, <2>9
<1>9. ASSUME NEW h \in H, h # S
      PROVE  \E s \in DOMAIN t :
               /\ h \subseteq s /\ h # s
               /\ \A r \in DOMAIN t : h \subseteq r /\ h # r => s \subseteq r
               /\ c.birth[h] = Density(t[s].height)
  <2> DEFINE N == Above(h)
  <2>1. S \in N
    BY <1>3, <1>7, <1>9
  <2>2. /\ \A s \in N : s \in DOMAIN t /\ h \subseteq s /\ h # s
        /\ \A r \in DOMAIN t : h \subseteq r /\ h # r => r \in N
    OBVIOUS
  <2>3. c.birth[h] = Density(t[Smallest(N)].height)
    BY <1>1, <1>9
  <2> HIDE DEF N
  <2>4. \A s, r \in N : s \subseteq r \/ r \subseteq s
    BY <1>3, <1>7, <2>2
  <2>5. \A s \in N : IsFiniteSet(s)
    BY <1>4, <2>2
  <2>6. Smallest(N) \in N /\ \A r \in N : Smallest(N) \subseteq r
    BY <2>1, <2>4, <2>5, SmallestIs
  <2>7. PICK s : s = Smallest(N)
    OBVIOUS
  <2>8. s \in DOMAIN t /\ h \subseteq s /\ h # s
    BY <2>2, <2>6, <2>7
  <2>9. \A r \in DOMAIN t : h \subseteq r /\ h # r => s \subseteq r
    BY <2>2, <2>6, <2>7
  <2>10. QED
    BY <2>3, <2>7, <2>8, <2>9
<1>10. c.birth[S] = 0
  BY <1>1, <1>6
<1>11. QED
  <2>1. CondensedFrom(c, t, S)
    BY <1>1, <1>5, <1>6, <1>8, <1>9, <1>10 DEF CondensedFrom
  <2>2. QED
    BY <2>1 DEF c

LEMMA CondenseIs ==
  ASSUME NEW S, IsFiniteSet(S), Cardinality(S) >= 2, NEW t, IsTree(t, S)
  PROVE  IsCondensed(Condense(t, S)) /\ Condense(t, S).root = S
<1>1. PICK c : c = Condense(t, S)
  OBVIOUS
<1>2. /\ c.root = S /\ S \in c.heads
      /\ \A h \in c.heads : h \in DOMAIN t /\ (h = S \/ Cardinality(h) >= MinSize)
      /\ \A p \in S : \E f \in DOMAIN t :
           /\ p \in f /\ \A h \in c.heads : p \in h => f \subseteq h
           /\ c.falls[p] = Density(t[f].height)
           /\ c.home[p] = Smallest({h \in c.heads : f \subseteq h})
      /\ c.birth[S] = 0
      /\ \A h \in c.heads : h # S => \E s \in DOMAIN t : c.birth[h] = Density(t[s].height)
  <2>1. CondensedFrom(c, t, S)
    BY <1>1, CondenseHas
  <2>2. QED
    BY <2>1 DEF CondensedFrom
<1>3. /\ \A s \in DOMAIN t : s \subseteq S /\ s # {}
      /\ \A s, r \in DOMAIN t : s \subseteq r \/ r \subseteq s \/ s \intersect r = {}
      /\ \A s \in DOMAIN t : t[s].height \in Nat \ {0}
  BY DEF IsTree
<1>4. \A h \in c.heads : h # {} /\ h \subseteq S /\ IsFiniteSet(h)
  BY <1>2, <1>3, FS_Subset
<1>5. \A h, d \in c.heads : h \subseteq d \/ d \subseteq h \/ h \intersect d = {}
  BY <1>2, <1>3
<1>6. ASSUME NEW p \in S
      PROVE  /\ c.home[p] \in c.heads /\ p \in c.home[p]
             /\ \A h \in c.heads : p \in h => c.home[p] \subseteq h
  <2>1. PICK f \in DOMAIN t : /\ p \in f /\ \A h \in c.heads : p \in h => f \subseteq h
                              /\ c.home[p] = Smallest({h \in c.heads : f \subseteq h})
    BY <1>2
  <2> DEFINE N == {h \in c.heads : f \subseteq h}
  <2>2. S \in N
    BY <1>2, <1>3, <2>1
  <2>3. \A h \in N : h \in c.heads /\ p \in h /\ f \subseteq h
    BY <2>1
  <2>4. \A h \in c.heads : p \in h => h \in N
    BY <2>1
  <2>5. c.home[p] = Smallest(N)
    BY <2>1
  <2> HIDE DEF N
  <2>6. \A s, r \in N : s \subseteq r \/ r \subseteq s
    BY <1>5, <2>3
  <2>7. \A s \in N : IsFiniteSet(s)
    BY <1>4, <2>3
  <2>8. PICK m : m = Smallest(N)
    OBVIOUS
  <2>9. m \in N /\ \A r \in N : m \subseteq r
    BY <2>2, <2>6, <2>7, <2>8, SmallestIs
  <2>10. c.home[p] = m
    BY <2>5, <2>8
  <2>11. m \in c.heads /\ p \in m
    BY <2>3, <2>9
  <2>12. \A h \in c.heads : p \in h => m \subseteq h
    BY <2>4, <2>9
  <2>13. QED
    BY <2>10, <2>11, <2>12
<1>7. \A p \in S : c.falls[p] \in Int
  <2>1. ASSUME NEW p \in S PROVE c.falls[p] \in Int
    <3>1. PICK f \in DOMAIN t : c.falls[p] = Density(t[f].height)
      BY <1>2
    <3>2. QED
      BY <1>3, <3>1, DensityInt
  <2>2. QED
    BY <2>1
<1>8. \A h \in c.heads : c.birth[h] \in Int
  <2>1. ASSUME NEW h \in c.heads, h # S PROVE c.birth[h] \in Int
    <3>1. PICK s \in DOMAIN t : c.birth[h] = Density(t[s].height)
      BY <1>2, <2>1
    <3>2. QED
      BY <1>3, <3>1, DensityInt
  <2>2. QED
    BY <1>2, <2>1
<1>9. S # {}
  BY FS_EmptySet
<1>10. IsCondensed(c)
  BY <1>2, <1>4, <1>5, <1>6, <1>7, <1>8, <1>9 DEF IsCondensed
<1>11. QED
  BY <1>1, <1>2, <1>10
-----------------------------------------------------------------------------
(* The stability handed up *)

LEMMA HeadsFinite ==
  ASSUME NEW c, IsCondensed(c)
  PROVE  /\ IsFiniteSet(c.heads)
         /\ \A h \in c.heads : IsFiniteSet(h) /\ Cardinality(h) \in Nat
                               /\ Cardinality(h) <= Cardinality(c.root)
         /\ Cardinality(c.root) \in Nat
<1>1. IsFiniteSet(c.root) /\ \A h \in c.heads : h \subseteq c.root
  BY DEF IsCondensed
<1>2. IsFiniteSet(SUBSET c.root) /\ c.heads \subseteq SUBSET c.root
  BY <1>1, FS_SUBSET
<1>3. QED
  BY <1>1, <1>2, FS_Subset, FS_CardinalityType

\* The parts of a cluster are disjoint, and everything below it is below one of them.
LEMMA UnderIs ==
  ASSUME NEW c, IsCondensed(c), NEW h \in c.heads
  PROVE  /\ Under(c, h) \subseteq c.heads /\ IsFiniteSet(Under(c, h))
         /\ \A d \in Under(c, h) : d \subseteq h /\ d # h
         /\ \A d, e \in Under(c, h) : d # e => d \intersect e = {}
         /\ \A d \in c.heads : d \subseteq h /\ d # h => \E e \in Under(c, h) : d \subseteq e
<1> DEFINE B == {d \in c.heads : d \subseteq h /\ d # h}
<1>1. Under(c, h) = {d \in B : \A e \in B : d \subseteq e => d = e}
  BY DEF Under
<1>2. \A d, e \in c.heads : d \subseteq e \/ e \subseteq d \/ d \intersect e = {}
  BY DEF IsCondensed
<1>3. Under(c, h) \subseteq c.heads /\ \A d \in Under(c, h) : d \subseteq h /\ d # h
  BY <1>1
<1>4. IsFiniteSet(Under(c, h))
  BY <1>3, HeadsFinite, FS_Subset
<1>5. ASSUME NEW d \in Under(c, h), NEW e \in Under(c, h), d # e PROVE d \intersect e = {}
  <2>1. ~(d \subseteq e) /\ ~(e \subseteq d)
    BY <1>1, <1>5
  <2>2. QED
    BY <1>2, <1>3, <2>1
<1>6. ASSUME NEW d \in c.heads, d \subseteq h, d # h PROVE \E e \in Under(c, h) : d \subseteq e
  <2> DEFINE A == {e \in B : d \subseteq e}
             C == {Cardinality(e) : e \in A}
  <2>1. d \in A
    BY <1>6
  <2>2. \A e \in A : IsFiniteSet(e) /\ Cardinality(e) \in Nat /\ Cardinality(e) <= Cardinality(c.root)
    BY HeadsFinite
  <2>3. C # {} /\ C \subseteq Nat /\ \A k \in C : k <= Cardinality(c.root)
    BY <2>1, <2>2
  <2>4. PICK m \in C : \A k \in C : k <= m
    <3> HIDE DEF C
    <3>1. QED
      BY <2>3, HeadsFinite, GreatestElement
  <2>5. PICK e \in A : m = Cardinality(e)
    OBVIOUS
  <2>6. ASSUME NEW g \in B, e \subseteq g PROVE e = g
    <3>1. g \in A
      BY <2>6
    <3>2. Cardinality(g) <= Cardinality(e)
      BY <2>4, <2>5, <3>1
    <3>3. IsFiniteSet(g)
      BY <2>2, <3>1
    <3>4. Cardinality(e) <= Cardinality(g) /\ (Cardinality(g) = Cardinality(e) => g = e)
      BY <2>6, <3>3, FS_Subset
    <3>5. Cardinality(e) \in Nat /\ Cardinality(g) \in Nat
      BY <2>2, <3>1
    <3>6. QED
      BY <3>2, <3>4, <3>5
  <2>7. QED
    BY <1>1, <2>6
<1>7. QED
  BY <1>3, <1>4, <1>5, <1>6

LEMMA StabilitiesInt ==
  ASSUME NEW c, IsCondensed(c), NEW h \in c.heads
  PROVE  Stabilities(c)[h] \in Int
<1> DEFINE P == {p \in h : c.home[p] = h}
           f == [p \in h |-> c.falls[p] - c.birth[h]]
           g == [d \in c.heads |-> (c.birth[d] - c.birth[h]) * Cardinality(d)]
<1>1. Stabilities(c)[h] = SumOver(P, f) + SumOver(Under(c, h), g)
  BY DEF Stabilities, Stability
<1>2. /\ c.birth[h] \in Int /\ h \subseteq c.root
      /\ \A p \in c.root : c.falls[p] \in Int
      /\ \A d \in c.heads : c.birth[d] \in Int
  BY DEF IsCondensed
<1>3. \A p \in P : f[p] \in Int
  BY <1>2
<1>4. \A d \in c.heads : g[d] \in Int
  <2>1. \A d \in c.heads : Cardinality(d) \in Int
    BY HeadsFinite
  <2>2. \A m, n \in Int : m * n \in Int
    OBVIOUS
  <2>3. \A d \in c.heads : c.birth[d] - c.birth[h] \in Int
    BY <1>2
  <2>4. QED
    BY <2>1, <2>2, <2>3
<1>5. IsFiniteSet(P)
  <2>1. IsFiniteSet(h)
    BY HeadsFinite
  <2>2. QED
    BY <2>1, FS_Subset
<1>6. IsFiniteSet(Under(c, h)) /\ Under(c, h) \subseteq c.heads
  BY UnderIs
<1> HIDE DEF P, f, g
<1>7. SumOver(P, f) \in Int
  BY <1>3, <1>5, SumInt
<1>8. \A d \in Under(c, h) : g[d] \in Int
  BY <1>4, <1>6
<1>9. SumOver(Under(c, h), g) \in Int
  BY <1>6, <1>8, SumInt
<1>10. QED
  BY <1>1, <1>7, <1>9

\* One unfolding of the recursion of HandedUp.
HandStep(best, c, h) == Max({Stabilities(c)[h], SumOver(Under(c, h), best)})

LEMMA HandedUpIs ==
  ASSUME NEW c
  PROVE  HandedUp(c) = CHOOSE best : best = [h \in c.heads |-> HandStep(best, c, h)]
BY DEF HandedUp, HandStep

\* The recursive function exists: it is built by the size of the clusters.
LEMMA HandedUpUnfold ==
  ASSUME NEW c, IsCondensed(c)
  PROVE  \A h \in c.heads : HandedUp(c)[h] = HandStep(HandedUp(c), c, h)
<1> DEFINE Step(g, h) == HandStep(g, c, h)
           Upto(m) == {h \in c.heads : Cardinality(h) <= m}
           Defined == {m \in Nat : \E g : g = [h \in Upto(m) |-> Step(g, h)]}
<1>1. \A h \in c.heads : IsFiniteSet(h) /\ Cardinality(h) \in Nat
                         /\ Cardinality(h) <= Cardinality(c.root)
  BY HeadsFinite
<1>2. ASSUME NEW h \in c.heads, NEW d \in Under(c, h)
      PROVE  d \in c.heads /\ Cardinality(d) < Cardinality(h)
  <2>1. d \in c.heads /\ d \subseteq h /\ d # h
    BY UnderIs
  <2>2. IsFiniteSet(h) /\ Cardinality(h) \in Nat /\ Cardinality(d) \in Nat
    BY <1>1, <2>1
  <2>3. QED
    BY <2>1, <2>2, FS_Subset
<1>3. 0 \in Defined
  <2>1. Upto(0) = {}
    <3>1. \A h \in c.heads : h # {}
      BY DEF IsCondensed
    <3>2. \A h \in c.heads : Cardinality(h) # 0
      BY <1>1, <3>1, FS_EmptySet
    <3>3. QED
      BY <1>1, <3>2
  <2>2. PICK g : g = [h \in {} |-> 0]
    OBVIOUS
  <2> HIDE DEF Upto, Step
  <2>3. g = [h \in Upto(0) |-> Step(g, h)]
    BY <2>1, <2>2
  <2>4. QED
    BY <2>3
<1>4. ASSUME NEW m \in Nat, m \in Defined PROVE m + 1 \in Defined
  <2>1. PICK g : g = [h \in Upto(m) |-> Step(g, h)]
    BY <1>4
  <2>2. PICK f : f = [h \in Upto(m + 1) |-> IF h \in Upto(m) THEN g[h] ELSE Step(g, h)]
    OBVIOUS
  <2>3. Upto(m) \subseteq Upto(m + 1)
    BY <1>1
  <2>4. ASSUME NEW h \in Upto(m + 1), NEW d \in Under(c, h) PROVE d \in Upto(m)
    <3>1. h \in c.heads /\ Cardinality(h) <= m + 1
      OBVIOUS
    <3>2. d \in c.heads /\ Cardinality(d) < Cardinality(h)
      BY <1>2, <3>1
    <3>3. QED
      BY <1>1, <3>1, <3>2
  <2>5. \A h \in Upto(m + 1) : IsFiniteSet(Under(c, h))
    BY UnderIs
  <2> HIDE DEF Upto, Step
  <2>6. \A h \in Upto(m) : g[h] = Step(g, h)
    BY <2>1
  <2>7. ASSUME NEW h \in Upto(m + 1) PROVE f[h] = Step(f, h)
    <3>1. f[h] = Step(g, h)
      BY <2>2, <2>6
    <3>2. \A d \in Under(c, h) : g[d] = f[d]
      BY <2>2, <2>3, <2>4
    <3>3. IsFiniteSet(Under(c, h))
      BY <2>5
    <3>4. SumOver(Under(c, h), g) = SumOver(Under(c, h), f)
      BY <3>2, <3>3, SumSame
    <3>5. Step(g, h) = Step(f, h)
      BY <3>4 DEF Step, HandStep
    <3>6. QED
      BY <3>1, <3>5
  <2>8. f = [h \in Upto(m + 1) |-> f[h]]
    BY <2>2
  <2>9. f = [h \in Upto(m + 1) |-> Step(f, h)]
    BY <2>7, <2>8
  <2>10. QED
    BY <2>9
<1>5. Cardinality(c.root) \in Defined
  <2> HIDE DEF Defined
  <2>1. QED
    BY <1>3, <1>4, SetInduction, HeadsFinite
<1>6. Upto(Cardinality(c.root)) = c.heads
  BY <1>1
<1> HIDE DEF Upto, Step
<1>7. \E g : g = [h \in c.heads |-> Step(g, h)]
  BY <1>5, <1>6
<1>8. PICK best : best = HandedUp(c)
  OBVIOUS
<1>9. best = CHOOSE g : g = [h \in c.heads |-> Step(g, h)]
  BY <1>8, HandedUpIs DEF Step
<1>10. best = [h \in c.heads |-> Step(best, h)]
  BY <1>7, <1>9
<1>11. \A h \in c.heads : best[h] = Step(best, h)
  BY <1>10
<1>12. QED
  BY <1>8, <1>11 DEF Step

\* Of the cluster's own stability and what its parts hand up, the greater.
LEMMA HandedUpMax ==
  ASSUME NEW c, IsCondensed(c), NEW h \in c.heads,
         \A d \in Under(c, h) : HandedUp(c)[d] \in Int
  PROVE  LET own   == Stabilities(c)[h]
             parts == SumOver(Under(c, h), HandedUp(c))
         IN  /\ own \in Int /\ parts \in Int /\ HandedUp(c)[h] \in Int
             /\ HandedUp(c)[h] >= own /\ HandedUp(c)[h] >= parts
             /\ HandedUp(c)[h] = own \/ HandedUp(c)[h] = parts
<1>1. PICK a, b : a = Stabilities(c)[h] /\ b = SumOver(Under(c, h), HandedUp(c))
  OBVIOUS
<1>2. a \in Int
  BY <1>1, StabilitiesInt
<1>3. b \in Int
  <2>1. IsFiniteSet(Under(c, h))
    BY UnderIs
  <2>2. QED
    BY <1>1, <2>1, SumInt
<1>4. HandedUp(c)[h] = Max({a, b})
  BY <1>1, HandedUpUnfold DEF HandStep
<1>5. PICK T : T = {a, b}
  OBVIOUS
<1>6. IsFiniteSet(T) /\ T # {} /\ T \subseteq Int
  <2>1. IsFiniteSet({a}) /\ IsFiniteSet({b})
    BY FS_Singleton
  <2>2. IsFiniteSet({a} \union {b}) /\ {a} \union {b} = T
    BY <1>5, <2>1, FS_Union
  <2>3. QED
    BY <1>2, <1>3, <1>5, <2>2
<1>7. Max(T) \in T /\ \A y \in T : Max(T) >= y
  BY <1>6, MinMax
<1>8. QED
  BY <1>1, <1>2, <1>3, <1>4, <1>5, <1>6, <1>7
-----------------------------------------------------------------------------
(* The heaviest choice *)

Keeps(c, h) == HandedUp(c)[h] = Stabilities(c)[h]

\* The clusters of D that are kept while nothing of D above them is.
Kept(c, D) == {h \in D : Keeps(c, h) /\ \A a \in D : h \subseteq a /\ a # h => ~Keeps(c, a)}

LEMMA ExcessIsKept ==
  ASSUME NEW c, NEW single
  PROVE  ExcessOfMass(c, single) = Kept(c, Eligible(c, single))
BY DEF ExcessOfMass, Kept, Keeps

LEMMA KeptApart ==
  ASSUME NEW c, IsCondensed(c), NEW D, D \subseteq c.heads
  PROVE  Antichain(Kept(c, D)) /\ Kept(c, D) \subseteq D
<1>1. Kept(c, D) \subseteq D
  BY DEF Kept
<1>2. ASSUME NEW a \in Kept(c, D), NEW b \in Kept(c, D), a # b PROVE a \intersect b = {}
  <2>1. ~(a \subseteq b) /\ ~(b \subseteq a)
    BY <1>2 DEF Kept
  <2>2. QED
    BY <1>1, <2>1 DEF IsCondensed
<1>3. QED
  BY <1>1, <1>2 DEF Antichain

\* The clusters within h.
Within(c, h) == {d \in c.heads : d \subseteq h}

\* What is kept within h has the stability h hands up, and nothing there has more.
HandsUpTheMost(c, h) ==
  /\ HandedUp(c)[h] \in Int
  /\ SumOver(Kept(c, Within(c, h)), Stabilities(c)) = HandedUp(c)[h]
  /\ \A B \in SUBSET Within(c, h) :
       Antichain(B) => SumOver(B, Stabilities(c)) <= HandedUp(c)[h]

\* Then the same holds of several disjoint clusters together.
Beneath(c, U) == {d \in c.heads : \E u \in U : d \subseteq u}

TogetherTheMost(c, U, D) ==
  /\ SumOver(Kept(c, D), Stabilities(c)) = SumOver(U, HandedUp(c))
  /\ \A B \in SUBSET D : Antichain(B) =>
       SumOver(B, Stabilities(c)) <= SumOver(U, HandedUp(c))

LEMMA Together ==
  ASSUME NEW c, IsCondensed(c), NEW U, U \subseteq c.heads,
         \A u, v \in U : u # v => u \intersect v = {},
         \A u \in U : HandsUpTheMost(c, u)
  PROVE  TogetherTheMost(c, U, Beneath(c, U))
<1>0. PICK D : D = Beneath(c, U)
  OBVIOUS
<1>1. PICK own, best : own = Stabilities(c) /\ best = HandedUp(c)
  OBVIOUS
<1>2. IsFiniteSet(c.heads) /\ IsFiniteSet(U) /\ IsFiniteSet(D) /\ D \subseteq c.heads
  BY <1>0, HeadsFinite, FS_Subset DEF Beneath
<1>3. \A d \in D : own[d] \in Int
  BY <1>1, <1>2, StabilitiesInt
<1>4. \A d \in c.heads : d # {}
  BY DEF IsCondensed
<1>5. \A u, v \in U, d \in D : d \subseteq u /\ d \subseteq v => u = v
  BY <1>2, <1>4
<1>6. ASSUME NEW B \in SUBSET D, Antichain(B)
      PROVE  SumOver(B, own) <= SumOver(U, best)
  <2>1. PICK V : V = [u \in U |-> {b \in B : b \subseteq u}]
    OBVIOUS
  <2>2. PICK f : f = [u \in U |-> SumOver(V[u], own)]
    OBVIOUS
  <2>3. /\ \A u \in U : V[u] = {b \in B : b \subseteq u}
        /\ \A u \in U : f[u] = SumOver(V[u], own)
    BY <2>1, <2>2
  <2>4. \A u \in U : V[u] \subseteq D
    BY <2>3
  <2>5. \A u, v \in U : u # v => V[u] \intersect V[v] = {}
    BY <1>5, <2>3
  <2>6. UNION {V[u] : u \in U} = B
    BY <1>0, <2>3 DEF Beneath
  <2>7. SumOver(UNION {V[u] : u \in U}, own) = SumOver(U, f)
    BY <1>2, <1>3, <2>3, <2>4, <2>5, SumParts
  <2>8. ASSUME NEW u \in U PROVE f[u] \in Int /\ best[u] \in Int /\ f[u] <= best[u]
    <3>1. V[u] \in SUBSET Within(c, u)
      BY <1>2, <2>3 DEF Within
    <3>2. Antichain(V[u])
      BY <1>6, <2>3 DEF Antichain
    <3>3. SumOver(V[u], own) <= best[u] /\ best[u] \in Int
      BY <1>1, <3>1, <3>2 DEF HandsUpTheMost
    <3>4. IsFiniteSet(V[u]) /\ \A d \in V[u] : own[d] \in Int
      BY <1>2, <1>3, <2>4, FS_Subset
    <3>5. SumOver(V[u], own) \in Int
      BY <3>4, SumInt
    <3>6. QED
      BY <2>3, <3>3, <3>5
  <2>9. SumOver(U, f) <= SumOver(U, best)
    BY <1>2, <2>8, SumAtMost
  <2>10. QED
    BY <2>6, <2>7, <2>9
<1>7. SumOver(Kept(c, D), own) = SumOver(U, best)
  <2>1. PICK V : V = [u \in U |-> Kept(c, Within(c, u))]
    OBVIOUS
  <2>2. \A u \in U : V[u] = Kept(c, Within(c, u))
    BY <2>1
  <2>3. \A u \in U : Within(c, u) \subseteq D /\ \A d \in Within(c, u) : d \subseteq u
    BY <1>0 DEF Within, Beneath
  <2>4. \A u \in U : V[u] \subseteq Within(c, u)
    BY <2>2 DEF Kept
  <2>5. \A u \in U : V[u] \subseteq D
    BY <2>3, <2>4
  <2>6. \A u, v \in U : u # v => V[u] \intersect V[v] = {}
    BY <1>5, <2>3, <2>4, <2>5
  <2>7. ASSUME NEW u \in U, NEW d \in D, d \subseteq u PROVE d \in Kept(c, D) <=> d \in V[u]
    <3>1. d \in Within(c, u)
      BY <1>2, <2>7 DEF Within
    <3>2. \A a \in D : d \subseteq a => a \in Within(c, u)
      <4>1. TAKE a \in D
      <4>2. HAVE d \subseteq a
      <4>3. PICK v \in U : a \subseteq v
        BY <1>0 DEF Beneath
      <4>4. v = u
        BY <1>5, <2>7, <4>2, <4>3
      <4>5. QED
        BY <1>2, <4>3, <4>4 DEF Within
    <3>3. \A a \in Within(c, u) : a \in D
      BY <2>3
    <3>4. QED
      BY <2>2, <3>1, <3>2, <3>3 DEF Kept
  <2>8. PICK X : X = UNION {V[u] : u \in U}
    OBVIOUS
  <2>9. X = Kept(c, D)
    <3>1. Kept(c, D) \subseteq D
      BY DEF Kept
    <3>2. \A d \in D : \E u \in U : d \subseteq u
      BY <1>0 DEF Beneath
    <3>3. \A u \in U : \A d \in V[u] : d \in D /\ d \subseteq u
      BY <2>3, <2>4
    <3>4. ASSUME NEW d, d \in Kept(c, D) PROVE \E u \in U : d \in V[u]
      <4>1. PICK u \in U : d \in D /\ d \subseteq u
        BY <3>1, <3>2, <3>4
      <4>2. d \in V[u]
        BY <2>7, <3>4, <4>1
      <4>3. QED
        BY <4>2
    <3>5. ASSUME NEW u \in U, NEW d \in V[u] PROVE d \in Kept(c, D)
      <4>1. d \in D /\ d \subseteq u
        BY <3>3
      <4>2. QED
        BY <2>7, <4>1
    <3>6. \A d : d \in X <=> \E u \in U : d \in V[u]
      BY <2>8
    <3>7. QED
      BY <3>4, <3>5, <3>6
  <2>10. \A u \in U : best[u] = SumOver(V[u], own)
    BY <1>1, <2>2 DEF HandsUpTheMost
  <2>11. SumOver(UNION {V[u] : u \in U}, own) = SumOver(U, best)
    BY <1>2, <1>3, <2>5, <2>6, <2>10, SumParts
  <2>12. SumOver(X, own) = SumOver(U, best)
    BY <2>8, <2>11
  <2>13. QED
    BY <2>9, <2>12
<1>8. QED
  BY <1>0, <1>1, <1>6, <1>7 DEF TogetherTheMost

LEMMA HandsUpStep ==
  ASSUME NEW c, IsCondensed(c), NEW h \in c.heads,
         \A d \in Under(c, h) : HandsUpTheMost(c, d)
  PROVE  HandsUpTheMost(c, h)
<1>1. PICK own, best, U : own = Stabilities(c) /\ best = HandedUp(c) /\ U = Under(c, h)
  OBVIOUS
<1>2. /\ U \subseteq c.heads
      /\ \A d \in U : d \subseteq h /\ d # h
      /\ \A d, e \in U : d # e => d \intersect e = {}
      /\ \A d \in c.heads : d \subseteq h /\ d # h => \E e \in U : d \subseteq e
  BY <1>1, UnderIs
<1>3. PICK D : D = {d \in c.heads : \E u \in U : d \subseteq u}
  OBVIOUS
<1>4. /\ SumOver(Kept(c, D), own) = SumOver(U, best)
      /\ \A B \in SUBSET D : Antichain(B) => SumOver(B, own) <= SumOver(U, best)
  <2>1. \A u \in U : HandsUpTheMost(c, u)
    BY <1>1
  <2>2. TogetherTheMost(c, U, Beneath(c, U))
    BY <1>2, <2>1, Together
  <2>3. D = Beneath(c, U)
    BY <1>3 DEF Beneath
  <2>4. QED
    BY <1>1, <2>2, <2>3 DEF TogetherTheMost
<1>5. /\ own[h] \in Int /\ SumOver(U, best) \in Int /\ best[h] \in Int
      /\ best[h] >= own[h] /\ best[h] >= SumOver(U, best)
      /\ best[h] = own[h] \/ best[h] = SumOver(U, best)
  <2>1. \A d \in Under(c, h) : HandedUp(c)[d] \in Int
    BY DEF HandsUpTheMost
  <2>2. QED
    BY <1>1, <2>1, HandedUpMax
<1>6. \A d \in Within(c, h) : d = h \/ d \in D
  BY <1>2, <1>3 DEF Within
<1>7. D \subseteq Within(c, h) /\ h \notin D /\ h \in Within(c, h)
  <2>1. D \subseteq Within(c, h) /\ h \in Within(c, h)
    BY <1>2, <1>3 DEF Within
  <2>2. ASSUME NEW u \in U, h \subseteq u PROVE FALSE
    <3>1. u = h
      BY <1>2, <2>2
    <3>2. QED
      BY <1>2, <3>1
  <2>3. h \notin D
    <3>1. \A d \in D : \E u \in U : d \subseteq u
      BY <1>3
    <3>2. QED
      BY <2>2, <3>1
  <2>4. QED
    BY <2>1, <2>3
<1>8. SumOver({h}, own) = own[h]
  BY <1>5, SumSingle
<1>9. ASSUME NEW B \in SUBSET Within(c, h), Antichain(B) PROVE SumOver(B, own) <= best[h]
  <2>1. CASE h \in B
    <3>1. \A b \in B : b # {} /\ b \subseteq h
      BY DEF Within, IsCondensed
    <3>2. B = {h}
      BY <1>9, <2>1, <3>1 DEF Antichain
    <3>3. QED
      BY <1>5, <1>8, <3>2
  <2>2. CASE h \notin B
    <3>1. B \in SUBSET D
      BY <1>6, <2>2
    <3>2. SumOver(B, own) <= SumOver(U, best)
      BY <1>4, <1>9, <3>1
    <3>3. SumOver(B, own) \in Int
      <4>1. IsFiniteSet(B) /\ B \subseteq c.heads
        BY <1>3, <3>1, HeadsFinite, FS_Subset
      <4>2. \A d \in B : own[d] \in Int
        BY <1>1, <4>1, StabilitiesInt
      <4>3. QED
        BY <4>1, <4>2, SumInt
    <3>4. QED
      BY <1>5, <3>2, <3>3
  <2>3. QED
    BY <2>1, <2>2
<1>10. SumOver(Kept(c, Within(c, h)), own) = best[h]
  <2>1. CASE Keeps(c, h)
    <3>1. \A d \in Within(c, h) : d \subseteq h
      BY DEF Within
    <3>2. Kept(c, Within(c, h)) = {h}
      BY <1>7, <2>1, <3>1 DEF Kept
    <3>3. QED
      BY <1>1, <1>8, <2>1, <3>2 DEF Keeps
  <2>2. CASE ~Keeps(c, h)
    <3>1. Kept(c, Within(c, h)) = Kept(c, D)
      BY <1>6, <1>7, <2>2 DEF Kept
    <3>2. best[h] = SumOver(U, best)
      BY <1>1, <1>5, <2>2 DEF Keeps
    <3>3. QED
      BY <1>4, <3>1, <3>2
  <2>3. QED
    BY <2>1, <2>2
<1>11. QED
  BY <1>1, <1>5, <1>9, <1>10 DEF HandsUpTheMost

LEMMA AllHandUpTheMost ==
  ASSUME NEW c, IsCondensed(c)
  PROVE  \A h \in c.heads : HandsUpTheMost(c, h)
<1> DEFINE Good == {n \in Nat : \A h \in c.heads : Cardinality(h) <= n => HandsUpTheMost(c, h)}
<1>1. \A h \in c.heads : Cardinality(h) \in Nat /\ Cardinality(h) <= Cardinality(c.root)
                         /\ IsFiniteSet(h) /\ Cardinality(h) # 0
  <2>1. \A h \in c.heads : h # {}
    BY DEF IsCondensed
  <2>2. QED
    BY <2>1, HeadsFinite, FS_EmptySet
<1>2. 0 \in Good
  BY <1>1
<1>3. ASSUME NEW n \in Nat, n \in Good PROVE n + 1 \in Good
  <2>1. ASSUME NEW h \in c.heads, Cardinality(h) <= n + 1 PROVE HandsUpTheMost(c, h)
    <3>1. ASSUME NEW d \in Under(c, h) PROVE HandsUpTheMost(c, d)
      <4>1. d \in c.heads /\ d \subseteq h /\ d # h
        BY UnderIs
      <4>2. IsFiniteSet(h) /\ Cardinality(h) \in Nat /\ Cardinality(d) \in Nat
        BY <1>1, <4>1
      <4>3. Cardinality(d) < Cardinality(h)
        BY <4>1, <4>2, FS_Subset
      <4>4. Cardinality(d) <= n
        BY <2>1, <4>2, <4>3
      <4>5. QED
        BY <1>3, <4>1, <4>4
    <3>2. QED
      BY <3>1, HandsUpStep
  <2>2. QED
    BY <2>1
<1>4. Cardinality(c.root) \in Nat /\ Cardinality(c.root) \in Good
  <2> HIDE DEF Good
  <2>1. QED
    BY <1>2, <1>3, SetInduction, HeadsFinite
<1>5. QED
  BY <1>1, <1>4

\* Excess of mass, with the root among the choices or without it.
LEMMA ExcessIsHeaviest ==
  ASSUME NEW c, IsCondensed(c), NEW single \in BOOLEAN
  PROVE  IsHeaviest(c, ExcessOfMass(c, single), single)
<1>1. PICK E, A, own : /\ E = Eligible(c, single) /\ A = ExcessOfMass(c, single)
                       /\ own = Stabilities(c)
  OBVIOUS
<1>2. A = Kept(c, E) /\ E \subseteq c.heads
  BY <1>1, ExcessIsKept DEF Eligible
<1>3. Antichain(A) /\ A \subseteq E
  BY <1>2, KeptApart
<1>4. \E m : SumOver(A, own) = m /\ \A B \in SUBSET E : Antichain(B) => SumOver(B, own) <= m
  <2>1. CASE single
    <3>1. E = Within(c, c.root) /\ c.root \in c.heads
      BY <1>1, <2>1 DEF Eligible, Within, IsCondensed
    <3>2. HandsUpTheMost(c, c.root)
      BY <3>1, AllHandUpTheMost
    <3>3. QED
      BY <1>1, <1>2, <3>1, <3>2 DEF HandsUpTheMost
  <2>2. CASE ~single
    <3>1. c.root \in c.heads /\ \A d \in c.heads : d \subseteq c.root
      BY DEF IsCondensed
    <3>2. PICK U : U = Under(c, c.root)
      OBVIOUS
    <3>3. /\ U \subseteq c.heads
          /\ \A d \in U : d \subseteq c.root /\ d # c.root
          /\ \A d, e \in U : d # e => d \intersect e = {}
          /\ \A d \in c.heads : d \subseteq c.root /\ d # c.root => \E e \in U : d \subseteq e
      BY <3>1, <3>2, UnderIs
    <3>4. E = c.heads \ {c.root}
      BY <1>1, <2>2 DEF Eligible
    <3>5. E = {d \in c.heads : \E u \in U : d \subseteq u}
      <4>1. ASSUME NEW u \in U, c.root \subseteq u PROVE FALSE
        <5>1. u = c.root
          BY <3>3, <4>1
        <5>2. QED
          BY <3>3, <5>1
      <4>2. \A d \in c.heads : d # c.root => \E u \in U : d \subseteq u
        BY <3>1, <3>3
      <4>3. \A d \in c.heads : (\E u \in U : d \subseteq u) => d # c.root
        BY <4>1
      <4>4. QED
        BY <3>4, <4>2, <4>3
    <3>6. \A u \in U : HandsUpTheMost(c, u)
      BY <3>3, AllHandUpTheMost
    <3>7. /\ SumOver(Kept(c, E), Stabilities(c)) = SumOver(U, HandedUp(c))
          /\ \A B \in SUBSET E : Antichain(B) =>
               SumOver(B, Stabilities(c)) <= SumOver(U, HandedUp(c))
      <4>1. TogetherTheMost(c, U, Beneath(c, U))
        BY <3>3, <3>6, Together
      <4>2. E = Beneath(c, U)
        BY <3>5 DEF Beneath
      <4>3. QED
        BY <4>1, <4>2 DEF TogetherTheMost
    <3>8. QED
      BY <1>1, <1>2, <3>7
  <2>3. QED
    BY <2>1, <2>2
<1>5. ASSUME NEW B \in SUBSET E, Antichain(B) PROVE SumOver(A, own) >= SumOver(B, own)
  <2>1. PICK m : SumOver(A, own) = m /\ SumOver(B, own) <= m
    BY <1>4, <1>5
  <2>2. IsFiniteSet(A) /\ IsFiniteSet(B) /\ A \subseteq c.heads /\ B \subseteq c.heads
    BY <1>2, <1>3, HeadsFinite, FS_Subset
  <2>3. (\A d \in A : own[d] \in Int) /\ (\A d \in B : own[d] \in Int)
    BY <1>1, <2>2, StabilitiesInt
  <2>4. SumOver(A, own) \in Int /\ SumOver(B, own) \in Int
    BY <2>2, <2>3, SumInt
  <2>5. QED
    BY <2>1, <2>4
<1>6. QED
  BY <1>1, <1>3, <1>5 DEF IsHeaviest
-----------------------------------------------------------------------------
(* What a clustering selects *)

LEMMA LeavesAreFinest ==
  ASSUME NEW c, IsCondensed(c), NEW single \in BOOLEAN
  PROVE  IsFinest(c, LeafClusters(c, single), single)
<1> DEFINE A == LeafClusters(c, single)
           E == Eligible(c, single)
<1>1. A = {h \in E : Under(c, h) = {}} /\ E \subseteq c.heads /\ c.heads \ {c.root} \subseteq E
  BY DEF LeafClusters, Eligible
<1> HIDE DEF A, E
<1>2. ASSUME NEW a \in A, NEW h \in c.heads, h \subseteq a PROVE h = a
  BY <1>1, <1>2, UnderIs
<1>3. Antichain(A)
  <2>1. ASSUME NEW a \in A, NEW b \in A, a # b PROVE a \intersect b = {}
    <3>1. ~(a \subseteq b) /\ ~(b \subseteq a)
      BY <1>1, <1>2, <2>1
    <3>2. QED
      BY <1>1, <3>1 DEF IsCondensed
  <2>2. QED
    BY <2>1 DEF Antichain
<1>4. ASSUME NEW h \in E PROVE \E a \in A : a \subseteq h
  <2> DEFINE D == {d \in c.heads : d \subseteq h}
  <2>1. h \in D
    BY <1>1
  <2>2. PICK C : C = {Cardinality(d) : d \in D}
    OBVIOUS
  <2>3. C # {} /\ C \subseteq Nat
    BY <2>1, <2>2, HeadsFinite
  <2>4. PICK m \in C : \A k \in C : m <= k
    BY <2>3, LeastElement
  <2>5. PICK a \in D : m = Cardinality(a)
    BY <2>2, <2>4
  <2>6. ASSUME NEW d \in Under(c, a) PROVE FALSE
    <3>1. d \in c.heads /\ d \subseteq a /\ d # a
      BY UnderIs
    <3>2. IsFiniteSet(a) /\ Cardinality(a) \in Nat /\ Cardinality(d) \in Nat
      BY <3>1, HeadsFinite
    <3>3. Cardinality(d) < Cardinality(a)
      BY <3>1, <3>2, FS_Subset
    <3>4. d \in D
      BY <3>1
    <3>5. QED
      BY <2>2, <2>4, <2>5, <3>2, <3>3, <3>4
  <2>7. a \in E
    <3>1. CASE a = c.root
      <4>1. h \subseteq a /\ a \subseteq h
        BY <1>1, <3>1 DEF IsCondensed
      <4>2. a = h
        BY <4>1
      <4>3. QED
        BY <4>2
    <3>2. CASE a # c.root
      BY <1>1, <3>2
    <3>3. QED
      BY <3>1, <3>2
  <2>8. a \in A
    BY <1>1, <2>6, <2>7
  <2>9. QED
    BY <2>8
<1>5. QED
  BY <1>2, <1>3, <1>4 DEF IsFinest, A, E

\* Every point takes the selected cluster that holds it, so a flat cluster is a
\* selected one with all its points.
LEMMA FlatIsSelection ==
  ASSUME NEW c, IsCondensed(c), NEW single, NEW leaf,
         NEW sel, sel = IF leaf THEN LeafClusters(c, single) ELSE ExcessOfMass(c, single),
         sel \subseteq c.heads, Antichain(sel)
  PROVE  FlatClusters(c, single, leaf) = sel
<1> DEFINE Above(p) == {h \in sel : c.home[p] \subseteq h}
           Flat(h) == {p \in c.root : Above(p) # {} /\ Smallest(Above(p)) = h}
<1>1. FlatClusters(c, single, leaf) = {Flat(h) : h \in sel}
  BY DEF FlatClusters
<1>2. /\ \A h \in c.heads : h # {} /\ h \subseteq c.root
      /\ \A p \in c.root : p \in c.home[p] /\ \A h \in c.heads : p \in h => c.home[p] \subseteq h
  BY DEF IsCondensed
<1>3. ASSUME NEW h \in sel, NEW p \in c.root, c.home[p] \subseteq h
      PROVE  Above(p) = {h} /\ Smallest(Above(p)) = h
  <2>1. ASSUME NEW g \in sel, c.home[p] \subseteq g PROVE g = h
    <3>1. p \in g /\ p \in h
      BY <1>2, <1>3, <2>1
    <3>2. QED
      BY <3>1 DEF Antichain
  <2>2. Above(p) = {h}
    BY <1>3, <2>1
  <2>3. Smallest({h}) = h
    BY DEF Smallest
  <2>4. QED
    BY <2>2, <2>3
<1>4. ASSUME NEW h \in sel PROVE Flat(h) = h
  <2>1. ASSUME NEW p \in h PROVE p \in Flat(h)
    <3>1. p \in c.root /\ c.home[p] \subseteq h
      BY <1>2
    <3>2. QED
      BY <1>3, <3>1
  <2>2. ASSUME NEW p \in Flat(h) PROVE p \in h
    <3>1. PICK g \in sel : c.home[p] \subseteq g
      OBVIOUS
    <3>2. p \in c.root /\ Smallest(Above(p)) = h
      OBVIOUS
    <3>3. g = h
      BY <1>3, <3>1, <3>2
    <3>4. QED
      BY <1>2, <3>1, <3>2, <3>3
  <2>3. QED
    BY <2>1, <2>2
<1> HIDE DEF Flat
<1>5. QED
  BY <1>1, <1>4

LEMMA FlatAreBest ==
  ASSUME NEW c, IsCondensed(c), NEW single \in BOOLEAN, NEW leaf \in BOOLEAN
  PROVE  LET flat == FlatClusters(c, single, leaf)
         IN  /\ flat = IF leaf THEN LeafClusters(c, single) ELSE ExcessOfMass(c, single)
             /\ flat \subseteq c.heads
             /\ IF leaf THEN IsFinest(c, flat, single) ELSE IsHeaviest(c, flat, single)
<1>1. PICK sel : sel = IF leaf THEN LeafClusters(c, single) ELSE ExcessOfMass(c, single)
  OBVIOUS
<1>2. sel \subseteq c.heads
  BY <1>1 DEF LeafClusters, ExcessOfMass, Eligible
<1>3. IF leaf THEN IsFinest(c, sel, single) ELSE IsHeaviest(c, sel, single)
  BY <1>1, LeavesAreFinest, ExcessIsHeaviest
<1>4. Antichain(sel)
  BY <1>3 DEF IsFinest, IsHeaviest
<1>5. FlatClusters(c, single, leaf) = sel
  BY <1>1, <1>2, <1>4, FlatIsSelection
<1>6. QED
  BY <1>1, <1>2, <1>3, <1>5

-----------------------------------------------------------------------------
(* What a clustering selects keeps to one group *)

\* Every group is a cluster; what is made of whole groups is born at a density of lo or
\* less, what happens within a group does so at hi or more.
GroupsBelow(c, g, lo, hi) ==
  /\ lo \in Nat /\ hi \in Nat /\ 2 * lo < hi
  /\ \A h \in c.heads : OfOne(g, h) \/ Whole(c.root, g, h)
  /\ \A p \in c.root : \E b \in c.heads : p \in b /\ OfOne(g, b) /\ Whole(c.root, g, b)
  /\ \A p \in c.root : c.falls[p] >= hi
  /\ \A h \in c.heads : Whole(c.root, g, h) => c.birth[h] \in 0 .. lo
  /\ \A h, d \in c.heads : OfOne(g, h) /\ d \subseteq h /\ d # h => c.birth[d] >= hi

LEMMA CondensedGroups ==
  ASSUME NEW S, IsFiniteSet(S), Cardinality(S) >= 2, NEW t, IsTree(t, S),
         NEW g, NEW E \in Nat \ {0}, NEW L \in Nat \ {0}, Layered(t, S, g, E, L),
         2 * Density(L) < Density(E),
         \A p \in S : Cardinality({q \in S : g[q] = g[p]}) >= MinSize
  PROVE  GroupsBelow(Condense(t, S), g, Density(L), Density(E))
<1>1. PICK c : c = Condense(t, S)
  OBVIOUS
<1>2. /\ c.root = S /\ S \in c.heads
      /\ \A h \in c.heads : h \in DOMAIN t /\ (h = S \/ Cardinality(h) >= MinSize)
      /\ \A h \in c.heads : h = S \/ \E s \in DOMAIN t : h \in t[s].kids
      /\ \A s \in DOMAIN t : Genuine(t, s) => t[s].kids \subseteq c.heads
      /\ \A p \in S : \E f \in DOMAIN t :
           /\ p \in f /\ \A h \in c.heads : p \in h => f \subseteq h
           /\ c.falls[p] = Density(t[f].height)
      /\ c.birth[S] = 0
      /\ \A h \in c.heads : h # S => \E s \in DOMAIN t :
           /\ h \subseteq s /\ h # s
           /\ \A r \in DOMAIN t : h \subseteq r /\ h # r => s \subseteq r
           /\ c.birth[h] = Density(t[s].height)
  <2>1. CondensedFrom(c, t, S)
    BY <1>1, CondenseHas
  <2>2. QED
    BY <2>1 DEF CondensedFrom
<1>3. /\ \A s \in DOMAIN t : s \subseteq S /\ s # {}
      /\ \A s, r \in DOMAIN t : s \subseteq r \/ r \subseteq s \/ s \intersect r = {}
      /\ \A s \in DOMAIN t : t[s].height \in Nat \ {0}
      /\ \A s \in DOMAIN t : \A k \in t[s].kids : k # {} /\ k \subseteq s
  BY DEF IsTree
<1>4. \A s \in DOMAIN t :
        /\ \A p \in s : \E k \in t[s].kids : p \in k
        /\ \A k \in t[s].kids : k # s
        /\ OfOne(g, s) => t[s].height <= E
        /\ ~OfOne(g, s) => /\ Whole(S, g, s) /\ t[s].height >= L
                           /\ \A k \in t[s].kids : Whole(S, g, k)
  BY DEF Layered
<1>5. ASSUME NEW s \in DOMAIN t
      PROVE  /\ OfOne(g, s) => Density(t[s].height) >= Density(E)
             /\ ~OfOne(g, s) => Density(t[s].height) \in 0 .. Density(L)
  <2>1. t[s].height \in Nat \ {0} /\ (OfOne(g, s) => t[s].height <= E)
        /\ (~OfOne(g, s) => L <= t[s].height)
    BY <1>3, <1>4
  <2>2. OfOne(g, s) => Density(E) <= Density(t[s].height) /\ Density(E) \in Nat
                       /\ Density(t[s].height) \in Nat
    BY <2>1, DensityFalls
  <2>3. ~OfOne(g, s) => Density(t[s].height) <= Density(L) /\ Density(L) \in Nat
                        /\ Density(t[s].height) \in Nat
    BY <2>1, DensityFalls
  <2>4. QED
    BY <2>2, <2>3
<1>6. ASSUME NEW h \in c.heads PROVE OfOne(g, h) \/ Whole(S, g, h)
  <2>1. CASE h = S
    BY <2>1 DEF Whole
  <2>2. CASE h # S
    <3>1. PICK s \in DOMAIN t : h \in t[s].kids
      BY <1>2, <2>2
    <3>2. CASE OfOne(g, s)
      BY <1>3, <3>1, <3>2 DEF OfOne
    <3>3. CASE ~OfOne(g, s)
      BY <1>4, <3>1, <3>3
    <3>4. QED
      BY <3>2, <3>3
  <2>3. QED
    BY <2>1, <2>2
<1>7. ASSUME NEW p \in S PROVE \E b \in c.heads : p \in b /\ OfOne(g, b) /\ Whole(S, g, b)
  <2> DEFINE N == {h \in c.heads : p \in h /\ Whole(S, g, h)}
  <2>1. S \in N
    BY <1>2 DEF Whole
  <2>2. \A h \in N : h \in c.heads /\ p \in h /\ Whole(S, g, h) /\ h \in DOMAIN t
    BY <1>2
  <2>3. \A h \in c.heads : p \in h /\ Whole(S, g, h) => h \in N
    OBVIOUS
  <2> HIDE DEF N
  <2>4. \A s, r \in N : s \subseteq r \/ r \subseteq s
    BY <1>3, <2>2
  <2>5. \A s \in N : IsFiniteSet(s)
    BY <1>3, <2>2, FS_Subset
  <2>6. Smallest(N) \in N /\ \A r \in N : Smallest(N) \subseteq r
    BY <2>1, <2>4, <2>5, SmallestIs
  <2>7. PICK b \in N : \A r \in N : b \subseteq r
    BY <2>6
  <2>8. b \in c.heads /\ p \in b /\ Whole(S, g, b) /\ b \in DOMAIN t
    BY <2>2
  <2>9. CASE OfOne(g, b)
    BY <2>8, <2>9
  <2>10. CASE ~OfOne(g, b)
    <3>1. ASSUME NEW k \in t[b].kids PROVE Cardinality(k) >= MinSize
      <4>1. k # {} /\ k \subseteq S /\ Whole(S, g, k)
        BY <1>3, <1>4, <2>8, <2>10
      <4>2. PICK q \in k : TRUE
        BY <4>1
      <4>3. PICK G : G = {r \in S : g[r] = g[q]}
        OBVIOUS
      <4>4. G \subseteq k /\ IsFiniteSet(k)
        BY <4>1, <4>2, <4>3, FS_Subset DEF Whole
      <4>5. Cardinality(G) >= MinSize /\ Cardinality(G) <= Cardinality(k)
        BY <4>1, <4>2, <4>3, <4>4, FS_Subset
      <4>6. Cardinality(G) \in Nat /\ Cardinality(k) \in Nat /\ MinSize \in Nat
        BY <4>4, FS_Subset, FS_CardinalityType, MinSizeIs
      <4>7. QED
        BY <4>5, <4>6
    <3>2. t[b].kids \subseteq c.heads
      BY <1>2, <2>8, <3>1 DEF Genuine
    <3>3. PICK k \in t[b].kids : p \in k
      BY <1>4, <2>8
    <3>4. k \subseteq b /\ k # b /\ Whole(S, g, k)
      BY <1>3, <1>4, <2>8, <2>10, <3>3
    <3>5. k \in N
      BY <2>3, <3>2, <3>3, <3>4
    <3>6. QED
      BY <2>7, <3>4, <3>5
  <2>11. QED
    BY <2>9, <2>10
<1>8. ASSUME NEW p \in S PROVE c.falls[p] >= Density(E)
  <2>1. PICK f \in DOMAIN t : /\ p \in f /\ \A h \in c.heads : p \in h => f \subseteq h
                              /\ c.falls[p] = Density(t[f].height)
    BY <1>2
  <2>2. PICK b \in c.heads : p \in b /\ OfOne(g, b)
    BY <1>7
  <2>3. OfOne(g, f)
    BY <2>1, <2>2 DEF OfOne
  <2>4. QED
    BY <1>5, <2>1, <2>3
<1>9. ASSUME NEW h \in c.heads, Whole(S, g, h) PROVE c.birth[h] \in 0 .. Density(L)
  <2>1. CASE h = S
    BY <1>2, <2>1, DensityFalls
  <2>2. CASE h # S
    <3>1. PICK s \in DOMAIN t : h \subseteq s /\ h # s /\ c.birth[h] = Density(t[s].height)
      BY <1>2, <2>2
    <3>2. PICK p \in h : TRUE
      BY <1>2, <1>3
    <3>3. ASSUME OfOne(g, s) PROVE FALSE
      <4>1. \A q \in s : g[p] = g[q] /\ q \in S
        BY <1>3, <3>1, <3>2, <3>3 DEF OfOne
      <4>2. s \subseteq h
        BY <1>9, <3>2, <4>1 DEF Whole
      <4>3. QED
        BY <3>1, <4>2
    <3>4. QED
      BY <1>5, <3>1, <3>3
  <2>3. QED
    BY <2>1, <2>2
<1>10. ASSUME NEW h \in c.heads, NEW d \in c.heads, OfOne(g, h), d \subseteq h, d # h
       PROVE  c.birth[d] >= Density(E)
  <2>1. d # S
    <3>1. h \subseteq S
      BY <1>2, <1>3
    <3>2. QED
      BY <1>10, <3>1
  <2>2. PICK s \in DOMAIN t : /\ \A r \in DOMAIN t : d \subseteq r /\ d # r => s \subseteq r
                              /\ c.birth[d] = Density(t[s].height)
    BY <1>2, <2>1
  <2>3. s \subseteq h
    BY <1>2, <1>10, <2>2
  <2>4. OfOne(g, s)
    BY <1>10, <2>3 DEF OfOne
  <2>5. QED
    BY <1>5, <2>2, <2>4
<1>11. Density(L) \in Nat /\ Density(E) \in Nat
  BY DensityFalls
<1>12. QED
  BY <1>1, <1>2, <1>6, <1>7, <1>8, <1>9, <1>10, <1>11 DEF GroupsBelow

\* The points a cluster is home to.
AtHome(c, h) == {p \in h : c.home[p] = h}

\* A cluster is the points it is home to and its parts.
LEMMA PartsOf ==
  ASSUME NEW c, IsCondensed(c), NEW h \in c.heads
  PROVE  /\ AtHome(c, h) \union UNION Under(c, h) = h
         /\ AtHome(c, h) \intersect UNION Under(c, h) = {}
         /\ IsFiniteSet(AtHome(c, h)) /\ IsFiniteSet(UNION Under(c, h))
         /\ Cardinality(h) = Cardinality(AtHome(c, h)) + Cardinality(UNION Under(c, h))
<1>0. PICK P, U : P = AtHome(c, h) /\ U = UNION Under(c, h)
  OBVIOUS
<1>1. /\ \A d \in Under(c, h) : d \in c.heads /\ d \subseteq h /\ d # h
      /\ \A d \in c.heads : d \subseteq h /\ d # h => \E e \in Under(c, h) : d \subseteq e
  BY UnderIs
<1>2. /\ h \subseteq c.root
      /\ \A p \in c.root : /\ c.home[p] \in c.heads /\ p \in c.home[p]
                           /\ \A d \in c.heads : p \in d => c.home[p] \subseteq d
  BY DEF IsCondensed
<1>3. ASSUME NEW p \in h, p \notin P PROVE p \in U
  <2>1. c.home[p] \in c.heads /\ p \in c.home[p] /\ c.home[p] \subseteq h /\ c.home[p] # h
    BY <1>0, <1>2, <1>3 DEF AtHome
  <2>2. QED
    BY <1>0, <1>1, <2>1
<1>4. ASSUME NEW p \in U, p \in P PROVE FALSE
  <2>1. PICK d \in Under(c, h) : p \in d
    BY <1>0, <1>4
  <2>2. d \subseteq h /\ d # h /\ c.home[p] \subseteq d /\ c.home[p] = h
    BY <1>0, <1>1, <1>2, <1>4, <2>1 DEF AtHome
  <2>3. QED
    BY <2>2
<1>5. U \subseteq h /\ P \subseteq h
  BY <1>0, <1>1 DEF AtHome
<1>6. P \union U = h /\ P \intersect U = {}
  BY <1>3, <1>4, <1>5
<1>7. IsFiniteSet(P) /\ IsFiniteSet(U)
  <2>1. IsFiniteSet(h)
    BY HeadsFinite
  <2>2. QED
    BY <1>5, <2>1, FS_Subset
<1>8. Cardinality(P \union U) = Cardinality(P) + Cardinality(U)
  <2>1. Cardinality(P \union U) = Cardinality(P) + Cardinality(U) - Cardinality(P \intersect U)
    BY <1>7, FS_Union
  <2>2. Cardinality(P \intersect U) = 0 /\ Cardinality(P) \in Nat /\ Cardinality(U) \in Nat
    BY <1>6, <1>7, FS_EmptySet, FS_CardinalityType
  <2>3. QED
    BY <2>1, <2>2
<1>9. QED
  BY <1>0, <1>6, <1>7, <1>8

\* Parts that weigh n a point weigh n a point together.
LEMMA WeightOfParts ==
  ASSUME NEW c, IsCondensed(c), NEW h \in c.heads, NEW n \in Int,
         NEW f, \A d \in Under(c, h) : f[d] = n * Cardinality(d)
  PROVE  SumOver(Under(c, h), f) = n * Cardinality(UNION Under(c, h))
<1>1. PICK U : U = Under(c, h)
  OBVIOUS
<1>2. /\ IsFiniteSet(U) /\ \A d \in U : d \subseteq h
      /\ \A d, e \in U : d # e => d \intersect e = {}
  BY <1>1, UnderIs
<1>3. IsFiniteSet(h)
  BY HeadsFinite
<1>4. PICK v : v = [p \in h |-> n]
  OBVIOUS
<1>5. \A p \in h : v[p] = n /\ v[p] \in Int
  BY <1>4
<1>6. ASSUME NEW d \in U PROVE f[d] = SumOver(d, v)
  <2>1. IsFiniteSet(d) /\ \A p \in d : v[p] = n
    BY <1>2, <1>3, <1>5, FS_Subset
  <2>2. SumOver(d, v) = n * Cardinality(d)
    BY <2>1, SumConst
  <2>3. QED
    BY <1>1, <2>2
<1>7. PICK V : V = [d \in U |-> d]
  OBVIOUS
<1>8. \A d \in U : V[d] = d
  BY <1>7
<1>9. SumOver(UNION {V[d] : d \in U}, v) = SumOver(U, f)
  <2>1. \A d \in U : V[d] \subseteq h /\ f[d] = SumOver(V[d], v)
    BY <1>2, <1>6, <1>8
  <2>2. \A d, e \in U : d # e => V[d] \intersect V[e] = {}
    BY <1>2, <1>8
  <2>3. QED
    BY <1>2, <1>3, <1>5, <2>1, <2>2, SumParts
<1>10. UNION {V[d] : d \in U} = UNION U
  BY <1>8
<1>11. SumOver(UNION U, v) = n * Cardinality(UNION U)
  <2>1. UNION U \subseteq h
    BY <1>2
  <2>2. PICK W : W = UNION U
    OBVIOUS
  <2>3. IsFiniteSet(W) /\ \A p \in W : v[p] = n
    BY <1>3, <1>5, <2>1, <2>2, FS_Subset
  <2>4. SumOver(W, v) = n * Cardinality(W)
    BY <2>3, SumConst
  <2>5. QED
    BY <2>2, <2>4
<1>12. QED
  BY <1>1, <1>9, <1>10, <1>11

\* A whole group is stable: more so than its points are dense outside of it.
LEMMA GroupWeighs ==
  ASSUME NEW c, IsCondensed(c), NEW g, NEW lo, NEW hi, GroupsBelow(c, g, lo, hi),
         NEW h \in c.heads, OfOne(g, h), Whole(c.root, g, h)
  PROVE  Stabilities(c)[h] >= (lo + 1) * Cardinality(h)
<1> DEFINE P == AtHome(c, h)
           f == [p \in h |-> c.falls[p] - c.birth[h]]
           r == [d \in c.heads |-> (c.birth[d] - c.birth[h]) * Cardinality(d)]
           U == Under(c, h)
           e == [d \in c.heads |-> (lo + 1) * Cardinality(d)]
           w == [p \in h |-> lo + 1]
<1>1. Stabilities(c)[h] = SumOver(P, f) + SumOver(U, r)
  BY DEF Stabilities, Stability, AtHome
<1>2. /\ lo \in Nat /\ hi \in Nat /\ 2 * lo < hi /\ c.birth[h] \in 0 .. lo
      /\ \A p \in c.root : c.falls[p] >= hi
      /\ \A d \in c.heads : d \subseteq h /\ d # h => c.birth[d] >= hi
  BY DEF GroupsBelow
<1>3. /\ h \subseteq c.root /\ \A p \in c.root : c.falls[p] \in Int
      /\ \A d \in c.heads : c.birth[d] \in Int
  BY DEF IsCondensed
<1>4. IsFiniteSet(U) /\ \A d \in U : d \in c.heads /\ d \subseteq h /\ d # h
  BY UnderIs
<1>5. /\ IsFiniteSet(P) /\ IsFiniteSet(UNION U)
      /\ Cardinality(h) = Cardinality(P) + Cardinality(UNION U)
  BY PartsOf
<1>6. \A p \in P : w[p] = lo + 1 /\ f[p] \in Int /\ w[p] \in Int /\ w[p] <= f[p]
  BY <1>2, <1>3 DEF AtHome
<1>7. ASSUME NEW d \in U PROVE e[d] = (lo + 1) * Cardinality(d) /\ r[d] \in Int /\ e[d] \in Int
                               /\ e[d] <= r[d]
  <2>1. PICK m, n : m = c.birth[d] - c.birth[h] /\ n = Cardinality(d)
    OBVIOUS
  <2>2. m \in Int /\ n \in Nat /\ lo + 1 <= m
    BY <1>2, <1>3, <1>4, <2>1, HeadsFinite
  <2>3. r[d] = m * n /\ e[d] = (lo + 1) * n
    BY <1>4, <2>1
  <2>4. m * n = n * m /\ (lo + 1) * n = n * (lo + 1) /\ m * n \in Int /\ (lo + 1) * n \in Int
    BY <1>2, <2>2
  <2>5. n * (lo + 1) <= n * m
    BY <1>2, <2>2, MulMono
  <2>6. QED
    BY <2>1, <2>3, <2>4, <2>5
<1> HIDE DEF P, f, r, U, e, w
<1>8. SumOver(P, w) <= SumOver(P, f) /\ SumOver(P, w) = (lo + 1) * Cardinality(P)
      /\ SumOver(P, f) \in Int
  <2>1. SumOver(P, w) <= SumOver(P, f)
    BY <1>5, <1>6, SumAtMost
  <2>2. lo + 1 \in Int
    BY <1>2
  <2>3. SumOver(P, w) = (lo + 1) * Cardinality(P)
    BY <1>5, <1>6, <2>2, SumConst
  <2>4. SumOver(P, f) \in Int
    BY <1>5, <1>6, SumInt
  <2>5. QED
    BY <2>1, <2>3, <2>4
<1>9. SumOver(U, e) <= SumOver(U, r) /\ SumOver(U, e) = (lo + 1) * Cardinality(UNION U)
      /\ SumOver(U, r) \in Int
  <2>1. SumOver(U, e) <= SumOver(U, r)
    BY <1>4, <1>7, SumAtMost
  <2>2. lo + 1 \in Int
    BY <1>2
  <2>3. SumOver(U, e) = (lo + 1) * Cardinality(UNION U)
    BY <1>7, <2>2, WeightOfParts DEF U
  <2>4. SumOver(U, r) \in Int
    BY <1>4, <1>7, SumInt
  <2>5. QED
    BY <2>1, <2>3, <2>4
<1>10. PICK a, b, k : a = Cardinality(P) /\ b = Cardinality(UNION U) /\ k = lo + 1
  OBVIOUS
<1>11. a \in Nat /\ b \in Nat /\ k \in Nat
  BY <1>2, <1>5, <1>10, FS_CardinalityType
<1>12. k * (a + b) = k * a + k * b /\ k * a \in Int /\ k * b \in Int
  BY <1>11
<1>13. QED
  BY <1>1, <1>5, <1>8, <1>9, <1>10, <1>12

\* A cluster of several groups is home to no point, its parts are whole groups too, and
\* its own stability is what its points have outside of any group.
LEMMA MixedIsLight ==
  ASSUME NEW c, IsCondensed(c), NEW g, NEW lo, NEW hi, GroupsBelow(c, g, lo, hi),
         NEW h \in c.heads, ~OfOne(g, h)
  PROVE  /\ UNION Under(c, h) = h
         /\ \A d \in Under(c, h) : Whole(c.root, g, d)
         /\ Stabilities(c)[h] <= lo * Cardinality(h)
<1> DEFINE P == AtHome(c, h)
           f == [p \in h |-> c.falls[p] - c.birth[h]]
           r == [d \in c.heads |-> (c.birth[d] - c.birth[h]) * Cardinality(d)]
           U == Under(c, h)
           e == [d \in c.heads |-> lo * Cardinality(d)]
<1>1. Stabilities(c)[h] = SumOver(P, f) + SumOver(U, r)
  BY DEF Stabilities, Stability, AtHome
<1>2. /\ lo \in Nat /\ Whole(c.root, g, h)
      /\ \A d \in c.heads : OfOne(g, d) \/ Whole(c.root, g, d)
      /\ \A p \in c.root : \E b \in c.heads : p \in b /\ OfOne(g, b) /\ Whole(c.root, g, b)
      /\ \A d \in c.heads : Whole(c.root, g, d) => c.birth[d] \in 0 .. lo
  BY DEF GroupsBelow
<1>3. /\ h \subseteq c.root
      /\ \A p \in c.root : \A d \in c.heads : p \in d => c.home[p] \subseteq d
      /\ \A d \in c.heads : d # {} /\ d \subseteq c.root
  BY DEF IsCondensed
<1>4. /\ IsFiniteSet(U) /\ \A d \in U : d \in c.heads /\ d \subseteq h /\ d # h
      /\ \A d, b \in U : d # b => d \intersect b = {}
      /\ \A d \in c.heads : d \subseteq h /\ d # h => \E b \in U : d \subseteq b
  BY UnderIs
<1>5. ASSUME NEW p \in h
      PROVE  \E b \in c.heads : p \in b /\ OfOne(g, b) /\ Whole(c.root, g, b) /\ b \subseteq h /\ b # h
  <2>1. PICK b \in c.heads : p \in b /\ OfOne(g, b) /\ Whole(c.root, g, b)
    BY <1>2, <1>3
  <2>2. ASSUME NEW q \in b PROVE q \in h
    <3>1. g[p] = g[q] /\ q \in c.root
      BY <1>3, <2>1 DEF OfOne
    <3>2. QED
      BY <1>2, <3>1 DEF Whole
  <2>3. QED
    BY <2>1, <2>2
<1>6. P = {}
  <2>1. ASSUME NEW p \in h, c.home[p] = h PROVE FALSE
    <3>1. PICK b \in c.heads : p \in b /\ b \subseteq h /\ b # h
      BY <1>5
    <3>2. c.home[p] \subseteq b
      BY <1>3, <3>1
    <3>3. QED
      BY <2>1, <3>1, <3>2
  <2>2. QED
    BY <2>1 DEF AtHome
<1>7. UNION U = h
  <2>1. P \union UNION U = h
    BY PartsOf
  <2>2. QED
    BY <1>6, <2>1
<1>8. ASSUME NEW d \in U PROVE Whole(c.root, g, d)
  <2> SUFFICES ASSUME OfOne(g, d) PROVE Whole(c.root, g, d)
    BY <1>2, <1>4
  <2>1. PICK p \in d : p \in h
    BY <1>3, <1>4
  <2>2. PICK b \in c.heads : p \in b /\ Whole(c.root, g, b) /\ b \subseteq h /\ b # h
    BY <1>5, <2>1
  <2>3. PICK b2 \in U : b \subseteq b2
    BY <1>4, <2>2
  <2>4. b2 = d
    BY <1>4, <2>1, <2>2, <2>3
  <2>5. d \subseteq b
    <3>1. ASSUME NEW q \in d PROVE q \in b
      <4>1. g[p] = g[q] /\ q \in c.root
        BY <1>3, <1>4, <2>1, <3>1 DEF OfOne
      <4>2. QED
        BY <2>2, <4>1 DEF Whole
    <3>2. QED
      BY <3>1
  <2>6. d = b
    BY <2>3, <2>4, <2>5
  <2>7. QED
    BY <2>2, <2>6
<1>9. ASSUME NEW d \in U PROVE e[d] = lo * Cardinality(d) /\ r[d] \in Int /\ e[d] \in Int
                               /\ r[d] <= e[d]
  <2>1. PICK m, n : m = c.birth[d] - c.birth[h] /\ n = Cardinality(d)
    OBVIOUS
  <2>2. c.birth[d] \in 0 .. lo /\ c.birth[h] \in 0 .. lo
    BY <1>2, <1>4, <1>8
  <2>3. m \in Int /\ n \in Nat /\ m <= lo
    BY <1>2, <1>4, <2>1, <2>2, HeadsFinite
  <2>4. r[d] = m * n /\ e[d] = lo * n
    BY <1>4, <2>1
  <2>5. m * n = n * m /\ lo * n = n * lo /\ m * n \in Int /\ lo * n \in Int
    BY <1>2, <2>3
  <2>6. n * m <= n * lo
    BY <1>2, <2>3, MulMono
  <2>7. QED
    BY <2>1, <2>4, <2>5, <2>6
<1>10. SumOver(P, f) = 0
  BY <1>6, SumUnfold
<1> HIDE DEF P, f, r, U, e
<1>11. SumOver(U, r) <= SumOver(U, e)
  BY <1>4, <1>9, SumAtMost
<1>12. SumOver(U, e) = lo * Cardinality(UNION U)
  BY <1>2, <1>9, WeightOfParts DEF U
<1>13. SumOver(U, r) \in Int
  BY <1>4, <1>9, SumInt
<1>14. Stabilities(c)[h] = SumOver(U, r)
  BY <1>1, <1>10, <1>13
<1>15. Stabilities(c)[h] <= lo * Cardinality(h)
  BY <1>7, <1>11, <1>12, <1>14
<1>16. QED
  BY <1>7, <1>8, <1>15 DEF U

LEMMA HandedUpInt ==
  ASSUME NEW c, IsCondensed(c), NEW h \in c.heads
  PROVE  /\ HandedUp(c)[h] \in Int /\ Stabilities(c)[h] \in Int
         /\ HandedUp(c)[h] >= Stabilities(c)[h]
         /\ HandedUp(c)[h] >= SumOver(Under(c, h), HandedUp(c))
<1>1. \A d \in c.heads : HandedUp(c)[d] \in Int
  BY AllHandUpTheMost DEF HandsUpTheMost
<1>2. \A d \in Under(c, h) : HandedUp(c)[d] \in Int
  BY <1>1, UnderIs
<1>3. QED
  BY <1>1, <1>2, HandedUpMax

LEMMA WholeHandsUp ==
  ASSUME NEW c, IsCondensed(c), NEW g, NEW lo, NEW hi, GroupsBelow(c, g, lo, hi)
  PROVE  \A h \in c.heads : Whole(c.root, g, h) => HandedUp(c)[h] >= (lo + 1) * Cardinality(h)
<1> DEFINE Hands(h) == HandedUp(c)[h] >= (lo + 1) * Cardinality(h)
           F == {T \in SUBSET c.root : T \in c.heads /\ Whole(c.root, g, T) => Hands(T)}
<1>1. lo \in Nat /\ IsFiniteSet(c.root)
  BY DEF GroupsBelow, IsCondensed
<1>2. ASSUME NEW T \in SUBSET c.root, \A V \in SUBSET T : V # T => V \in F PROVE T \in F
  <2> SUFFICES ASSUME T \in c.heads, Whole(c.root, g, T) PROVE Hands(T)
    OBVIOUS
  <2>1. /\ HandedUp(c)[T] \in Int /\ Stabilities(c)[T] \in Int
        /\ HandedUp(c)[T] >= Stabilities(c)[T]
        /\ HandedUp(c)[T] >= SumOver(Under(c, T), HandedUp(c))
    BY HandedUpInt
  <2>2. Cardinality(T) \in Nat
    BY HeadsFinite
  <2>3. PICK b : b = (lo + 1) * Cardinality(T)
    OBVIOUS
  <2>4. b \in Int
    BY <1>1, <2>2, <2>3
  <2>5. CASE OfOne(g, T)
    <3>1. Stabilities(c)[T] >= b
      BY <2>3, <2>5, GroupWeighs
    <3>2. QED
      BY <2>1, <2>3, <2>4, <3>1
  <2>6. CASE ~OfOne(g, T)
    <3>1. UNION Under(c, T) = T /\ \A d \in Under(c, T) : Whole(c.root, g, d)
      BY <2>6, MixedIsLight
    <3>2. IsFiniteSet(Under(c, T)) /\ \A d \in Under(c, T) : d \in c.heads /\ d \subseteq T /\ d # T
      BY UnderIs
    <3>3. PICK e : e = [d \in Under(c, T) |-> (lo + 1) * Cardinality(d)]
      OBVIOUS
    <3>4. ASSUME NEW d \in Under(c, T)
          PROVE  e[d] \in Int /\ HandedUp(c)[d] \in Int /\ e[d] <= HandedUp(c)[d]
      <4>1. Hands(d)
        BY <1>2, <3>1, <3>2
      <4>2. Cardinality(d) \in Nat /\ HandedUp(c)[d] \in Int
        BY <3>2, HeadsFinite, HandedUpInt
      <4>3. PICK n : n = (lo + 1) * Cardinality(d)
        OBVIOUS
      <4>4. n \in Int
        BY <1>1, <4>2, <4>3
      <4>5. QED
        BY <3>3, <4>1, <4>2, <4>3, <4>4
    <3>5. SumOver(Under(c, T), e) <= SumOver(Under(c, T), HandedUp(c))
      BY <3>2, <3>4, SumAtMost
    <3>6. SumOver(Under(c, T), e) = b
      <4>1. \A d \in Under(c, T) : e[d] = (lo + 1) * Cardinality(d)
        BY <3>3
      <4>2. lo + 1 \in Int
        BY <1>1
      <4>3. SumOver(Under(c, T), e) = (lo + 1) * Cardinality(UNION Under(c, T))
        BY <4>1, <4>2, WeightOfParts
      <4>4. QED
        BY <2>3, <3>1, <4>3
    <3>7. SumOver(Under(c, T), HandedUp(c)) \in Int
      BY <3>2, <3>4, SumInt
    <3>8. QED
      BY <2>1, <2>3, <2>4, <3>5, <3>6, <3>7
  <2>7. QED
    BY <2>5, <2>6
<1>3. \A T \in SUBSET c.root : T \in F
  <2>1. ASSUME NEW T \in SUBSET c.root PROVE T \in F
    <3>1. IsFiniteSet(T)
      BY <1>1, FS_Subset
    <3>2. \A W \in SUBSET T : (\A V \in SUBSET W : V # W => V \in F) => W \in F
      BY <1>2
    <3> HIDE DEF F
    <3>3. QED
      BY <3>1, <3>2, SubsetInduction
  <2>2. QED
    BY <2>1
<1>4. \A h \in c.heads : h \in SUBSET c.root
  BY DEF IsCondensed
<1>5. QED
  BY <1>3, <1>4

\* Neither selection takes a cluster of several groups.
LEMMA FlatOfOne ==
  ASSUME NEW c, IsCondensed(c), NEW g, NEW lo, NEW hi, GroupsBelow(c, g, lo, hi),
         NEW single \in BOOLEAN, NEW leaf \in BOOLEAN
  PROVE  \A F \in FlatClusters(c, single, leaf) : F \in c.heads /\ OfOne(g, F)
<1>1. PICK sel : sel = FlatClusters(c, single, leaf)
  OBVIOUS
<1>2. /\ sel = IF leaf THEN LeafClusters(c, single) ELSE ExcessOfMass(c, single)
      /\ sel \subseteq c.heads
  BY <1>1, FlatAreBest
<1>3. ASSUME NEW h \in sel, ~OfOne(g, h) PROVE FALSE
  <2>1. /\ UNION Under(c, h) = h
        /\ Stabilities(c)[h] <= lo * Cardinality(h)
    BY <1>2, <1>3, MixedIsLight
  <2>2. h # {} /\ h \in c.heads /\ IsFiniteSet(h) /\ Cardinality(h) \in Nat /\ Cardinality(h) # 0
    BY <1>2, HeadsFinite, FS_EmptySet DEF IsCondensed
  <2>3. CASE leaf
    <3>1. Under(c, h) = {}
      BY <1>2, <1>3, <2>3 DEF LeafClusters
    <3>2. UNION Under(c, h) = {}
      BY <3>1
    <3>3. QED
      BY <2>1, <2>2, <3>2
  <2>4. CASE ~leaf
    <3>1. Whole(c.root, g, h) /\ lo \in Nat
      BY <1>3, <2>2 DEF GroupsBelow
    <3>2. HandedUp(c)[h] >= (lo + 1) * Cardinality(h)
      BY <2>2, <3>1, WholeHandsUp
    <3>3. HandedUp(c)[h] = Stabilities(c)[h]
      BY <1>2, <1>3, <2>4 DEF ExcessOfMass
    <3>4. PICK a, n : a = Stabilities(c)[h] /\ n = Cardinality(h)
      OBVIOUS
    <3>5. a \in Int /\ n \in Nat /\ n # 0
      BY <2>2, <3>4, HandedUpInt
    <3>6. (lo + 1) * n = lo * n + n /\ lo * n \in Int
      BY <3>1, <3>5
    <3>7. a <= lo * n /\ a >= (lo + 1) * n
      <4>1. a <= lo * n
        <5>1. Stabilities(c)[h] <= lo * Cardinality(h)
          BY <2>1
        <5>2. QED
          BY <3>4, <5>1
      <4>2. a >= (lo + 1) * n
        BY <3>2, <3>3, <3>4
      <4>3. QED
        BY <4>1, <4>2
    <3>8. QED
      BY <3>5, <3>6, <3>7
  <2>5. QED
    BY <2>3, <2>4
<1>4. QED
  BY <1>1, <1>2, <1>3
-----------------------------------------------------------------------------
(* The clusters a clustering selects *)

\* The view is narrower than the gap between classes, and denser than that gap.
Narrow(v) ==
  \A p, q \in DOMAIN v : q < p =>
    2 * (p - q) < ClassGap /\ 2 * Density(ClassGap - (p - q)) < Density(p - q)

\* The tree a clustering leaves is that of points apart from each other, as many as the
\* class gate asks for.
TreeInv ==
  /\ Narrow(view)
  /\ last # NoTree => IsCondensed(last) /\ Cardinality(last.root) >= mode.minClass

LEMMA ClusterTreeIs ==
  ASSUME NEW S, IsFiniteSet(S), Enough(Cardinality(S)), Cardinality(S) >= mode.minClass,
         NEW x, \A p \in S : x[p] \in Int, \A p, q \in S : p # q => x[p] # x[q],
         NEW class, Cluster(S, x, class)
  PROVE  last' = last \/ (IsCondensed(last') /\ Cardinality(last'.root) >= mode.minClass)
<1>1. CASE Cardinality(S) < 2
  BY <1>1 DEF Cluster
<1>2. CASE ~(Cardinality(S) < 2)
  <2>1. PICK t \in Dendrograms(S, x) : last' = Condense(t, S)
    BY <1>2 DEF Cluster
  <2>2. Cardinality(S) \in Nat /\ Cardinality(S) >= MinPts
    BY FS_CardinalityType, ClusterTreeAssumption DEF Enough
  <2>3. IsTree(t, S)
    BY <2>2, DendrogramsAreTrees
  <2>4. IsCondensed(Condense(t, S)) /\ Condense(t, S).root = S
    BY <1>2, <2>2, <2>3, CondenseIs
  <2>5. QED
    BY <2>1, <2>4
<1>3. QED
  BY <1>1, <1>2


LEMMA SeedClassTree == ASSUME TypeInv, TreeInv, SeedClass PROVE TreeInv'
<1>1. \E c : \E S \in Inliers(Bucket(c)) :
        IF Cardinality(S) >= mode.minClass /\ Enough(Cardinality(S))
          THEN Cluster(S, Place(S), [F \in SUBSET S |-> c])
          ELSE UNCHANGED last
  BY DEF SeedClass
<1>2. PICK c : \E S \in Inliers(Bucket(c)) :
        IF Cardinality(S) >= mode.minClass /\ Enough(Cardinality(S))
          THEN Cluster(S, Place(S), [F \in SUBSET S |-> c])
          ELSE UNCHANGED last
  BY <1>1
<1>3. PICK S \in Inliers(Bucket(c)) :
        IF Cardinality(S) >= mode.minClass /\ Enough(Cardinality(S))
          THEN Cluster(S, Place(S), [F \in SUBSET S |-> c])
          ELSE UNCHANGED last
  BY <1>2
<1>4. IsFiniteSet(S) /\ S \subseteq Int
  BY InlierFacts
<1>5. /\ \A p \in S : Place(S)[p] \in Int
      /\ \A p, q \in S : p # q => Place(S)[p] # Place(S)[q]
  BY <1>4 DEF Place
<1>6. last' = last \/ (IsCondensed(last') /\ Cardinality(last'.root) >= mode.minClass)
  BY <1>3, <1>4, <1>5, ClusterTreeIs
<1>7. mode' = mode /\ view' = view
  BY DEF SeedClass
<1>8. QED
  BY <1>6, <1>7 DEF TreeInv

\* All classes at once: the fourth axis keeps points of two classes apart.
LEMMA SeedAllTree == ASSUME TypeInv, TreeInv, SeedAll PROVE TreeInv'
<1>1. PICK S, x :
        /\ S \subseteq Open /\ IsFiniteSet(S) /\ S \subseteq Int
        /\ \A p \in S : view[p] \in Things /\ x[p] \in Int
        /\ \A p \in S : Cardinality({q \in S : view[q] = view[p]}) >= mode.minClass
        /\ \A p, q \in S : view[p] = view[q] => x[q] - x[p] = q - p
        /\ \A p, q \in S : view[p] < view[q] => x[q] - x[p] >= ClassGap - (p - q)
        /\ IF Enough(Cardinality(S))
             THEN Cluster(S, x, [F \in (SUBSET S) \ {{}} |-> Max({view[p] : p \in F})])
             ELSE UNCHANGED <<last, list, owner>>
  BY SeedAllScan
<1>2. ASSUME NEW p \in S, NEW q \in S, p # q PROVE x[p] # x[q]
  <2>1. /\ p \in Int /\ q \in Int /\ x[p] \in Int /\ x[q] \in Int
        /\ view[p] \in Int /\ view[q] \in Int /\ ClassGap \in Nat \ {0}
    BY <1>1, ThingsAreInts, ProposalsAssumption
  <2>2. p - q < ClassGap /\ q - p < ClassGap
    <3>1. p \in DOMAIN view /\ q \in DOMAIN view
      BY <1>1 DEF Open
    <3>2. (q < p => 2 * (p - q) < ClassGap) /\ (p < q => 2 * (q - p) < ClassGap)
      BY <3>1 DEF TreeInv, Narrow
    <3>3. QED
      BY <1>2, <2>1, <3>2
  <2>3. /\ view[p] = view[q] => x[q] - x[p] = q - p
        /\ view[p] < view[q] => x[q] - x[p] >= ClassGap - (p - q)
        /\ view[q] < view[p] => x[p] - x[q] >= ClassGap - (q - p)
    BY <1>1
  <2>4. QED
    BY <1>2, <2>1, <2>2, <2>3
<1>3. mode' = mode /\ view' = view
  BY DEF SeedAll
<1> DEFINE class == [F \in (SUBSET S) \ {{}} |-> Max({view[p] : p \in F})]
<1>4. IF Enough(Cardinality(S)) THEN Cluster(S, x, class) ELSE UNCHANGED last
  BY <1>1
<1> HIDE DEF class
<1>5. CASE Enough(Cardinality(S))
  <2>1. Cardinality(S) \in Nat /\ S # {}
    BY <1>1, <1>5, FS_CardinalityType, FS_EmptySet, ClusterTreeAssumption DEF Enough
  <2>2. PICK p \in S : TRUE
    BY <2>1
  <2>3. PICK G : G = {q \in S : view[q] = view[p]}
    OBVIOUS
  <2>4. G \subseteq S /\ Cardinality(G) >= mode.minClass
    BY <1>1, <2>3
  <2>5. Cardinality(G) <= Cardinality(S) /\ Cardinality(G) \in Nat /\ mode.minClass \in Nat
    BY <1>1, <2>4, FS_Subset, FS_CardinalityType, ProposalsAssumption DEF TypeInv
  <2>6. Cardinality(S) >= mode.minClass
    BY <2>1, <2>4, <2>5
  <2>7. Cluster(S, x, class)
    BY <1>4, <1>5
  <2>8. \A q \in S : x[q] \in Int
    BY <1>1
  <2>9. last' = last \/ (IsCondensed(last') /\ Cardinality(last'.root) >= mode.minClass)
    BY <1>1, <1>2, <1>5, <2>6, <2>7, <2>8, ClusterTreeIs
  <2>10. QED
    BY <1>3, <2>9 DEF TreeInv
<1>6. CASE ~Enough(Cardinality(S))
  BY <1>3, <1>4, <1>6 DEF TreeInv
<1>7. QED
  BY <1>5, <1>6

LEMMA NextTree == ASSUME TypeInv, TreeInv, [Next]_vars PROVE TreeInv'
<1>1. CASE BeginFrame
  <2>1. /\ frame' \in 1 .. Len(Views) /\ view' \in Views[frame'] /\ last' = NoTree
        /\ mode' = mode
    BY <1>1, ProposalsAssumption DEF BeginFrame, TypeInv
  <2>2. Narrow(view')
    BY <2>1, ProposalsAssumption DEF Narrow
  <2>3. QED
    BY <2>1, <2>2 DEF TreeInv
<1>2. CASE SeedClass
  BY <1>2, SeedClassTree
<1>3. CASE SeedAll
  BY <1>3, SeedAllTree
<1>4. CASE Segment
  <2>1. last' = NoTree /\ UNCHANGED <<mode, view>>
    BY <1>4 DEF Segment
  <2>2. QED
    BY <2>1 DEF TreeInv
<1>5. CASE EndLocal \/ Evaluate \/ NextSweep \/ EndGrow \/ UNCHANGED vars
  <2>1. UNCHANGED <<mode, view, last>>
    <3>1. CASE Evaluate
      <4>1. PICK s \in left :
              IF Wanted(s)
                THEN moved' = TRUE /\ (IF mode.overlap THEN AnnexAll(s) ELSE AnnexBest(s))
                ELSE UNCHANGED <<list, owner, moved, annexed>>
        BY <3>1 DEF Evaluate
      <4>2. QED
        BY <3>1 DEF Evaluate
    <3>2. QED
      BY <1>5, <3>1 DEF EndLocal, NextSweep, EndGrow, vars, seedVars
  <2>2. QED
    BY <2>1 DEF TreeInv
<1>6. QED
  BY <1>1, <1>2, <1>3, <1>4, <1>5 DEF Next

LEMMA InitTree == Init => TreeInv
BY DEF Init, TreeInv, Narrow

\* FlatClustersAreBest (hdbscan_extract.cpp, the bottom-up pass of excess of mass, the leaf
\* walk, extractFlatClusters), for any points, any dendrogram of them and any parameters:
\* the flat clusters are the heaviest choice of disjoint condensed clusters, or the
\* finest, with all their points, and none is smaller than min_cluster_size.
THEOREM FlatClustersHold == Spec => []FlatClustersAreBest
<1>1. Init => TypeInv /\ TreeInv
  BY InitType, InitTree
<1>2. TypeInv /\ TreeInv /\ [Next]_vars => TypeInv' /\ TreeInv'
  BY NextType, NextTree
<1>3. TypeInv /\ TreeInv => FlatClustersAreBest
  <2> SUFFICES ASSUME TypeInv, TreeInv, last # NoTree PROVE FlatClustersAreBest
    BY DEF FlatClustersAreBest
  <2>1. IsCondensed(last) /\ Cardinality(last.root) >= mode.minClass
    BY DEF TreeInv
  <2>2. mode.single \in BOOLEAN /\ mode.leaf \in BOOLEAN /\ mode.minClass \in Nat
    BY ProposalsAssumption DEF TypeInv
  <2>3. PICK flat : flat = FlatClusters(last, mode.single, mode.leaf)
    OBVIOUS
  <2>4. /\ flat \subseteq last.heads
        /\ IF mode.leaf THEN IsFinest(last, flat, mode.single)
           ELSE IsHeaviest(last, flat, mode.single)
    BY <2>1, <2>2, <2>3, FlatAreBest
  <2>5. ASSUME mode.minClass >= MinSize, NEW C \in flat PROVE Cardinality(C) >= MinSize
    <3>1. C \in last.heads /\ IsFiniteSet(last.root)
      BY <2>1, <2>4 DEF IsCondensed
    <3>2. CASE C = last.root
      <4>1. Cardinality(last.root) \in Nat /\ MinSize \in Nat
        BY <3>1, FS_CardinalityType, MinSizeIs
      <4>2. QED
        BY <2>1, <2>2, <2>5, <3>2, <4>1
    <3>3. CASE C # last.root
      BY <2>1, <3>1, <3>3 DEF IsCondensed
    <3>4. QED
      BY <3>2, <3>3
  <2>6. QED
    BY <2>3, <2>4, <2>5 DEF FlatClustersAreBest
<1>4. QED
  BY <1>1, <1>2, <1>3, PTL DEF Spec
-----------------------------------------------------------------------------
(* Seeds are of one class *)

\* Clustered at once, classes of min_pts points or more each keep to themselves.
LEMMA ScanKeepsClasses ==
  ASSUME TypeInv, Narrow(view), mode.minClass >= MinSize, mode.minClass >= MinPts,
         NEW S, S \subseteq Open, IsFiniteSet(S), S \subseteq Int, Enough(Cardinality(S)),
         NEW x, \A p \in S : view[p] \in Things /\ x[p] \in Int,
         \A p \in S : Cardinality({q \in S : view[q] = view[p]}) >= mode.minClass,
         \A p, q \in S : view[p] = view[q] => x[q] - x[p] = q - p,
         \A p, q \in S : view[p] < view[q] => x[q] - x[p] >= ClassGap - (p - q)
  PROVE  \A F \in Flats(S, x) : F # {} /\ OfOne(view, F)
<1>1. /\ MinSize \in Nat /\ MinSize >= 2 /\ MinPts \in Nat /\ MinPts >= 1 /\ mode.minClass \in Nat
      /\ mode.single \in BOOLEAN /\ mode.leaf \in BOOLEAN /\ ClassGap \in Nat \ {0}
  BY MinSizeIs, ClusterTreeAssumption, ProposalsAssumption DEF TypeInv
<1>2. \A p \in S : view[p] \in Int /\ p \in Int /\ x[p] \in Int /\ p \in DOMAIN view
  BY ThingsAreInts DEF Open
<1>3. ASSUME NEW p \in S
      PROVE  /\ Cardinality({q \in S : view[q] = view[p]}) >= MinSize
             /\ Cardinality({q \in S : view[q] = view[p]}) >= MinPts
  <2>1. IsFiniteSet({q \in S : view[q] = view[p]})
    BY FS_Subset
  <2>2. Cardinality({q \in S : view[q] = view[p]}) \in Nat
    BY <2>1, FS_CardinalityType
  <2>3. QED
    BY <1>1, <2>2
<1>4. Cardinality(S) \in Nat /\ Cardinality(S) >= 2 /\ Cardinality(S) >= MinPts
  BY <1>1, FS_CardinalityType DEF Enough
<1>5. PICK a \in S, b \in S : b < a /\ \A p \in S : b <= p /\ p <= a
  <2>1. S # {}
    BY <1>4, FS_EmptySet
  <2>2. PICK a, b : a = Max(S) /\ b = Min(S)
    OBVIOUS
  <2>3. /\ b \in S /\ \A y \in S : b <= y
        /\ a \in S /\ \A y \in S : a >= y
    BY <2>1, <2>2, MinMax
  <2>4. \A y \in S : y \in Int
    BY <1>2
  <2>5. a # b
    <3>1. SUFFICES ASSUME a = b PROVE FALSE
      OBVIOUS
    <3>2. \A y \in S : y = b
      BY <2>3, <2>4, <3>1
    <3>3. S = {b}
      BY <2>3, <3>2
    <3>4. Cardinality(S) = 1
      BY <3>3, FS_Singleton
    <3>5. QED
      BY <1>4, <3>4
  <2>6. b < a /\ \A p \in S : b <= p /\ p <= a
    BY <2>3, <2>4, <2>5
  <2>7. QED
    BY <2>3, <2>6
<1>6. PICK E, L : E = a - b /\ L = ClassGap - E
  OBVIOUS
<1>7. E \in Nat \ {0} /\ L \in Nat \ {0} /\ E < L /\ 2 * Density(L) < Density(E)
  <2>1. 2 * (a - b) < ClassGap /\ 2 * Density(ClassGap - (a - b)) < Density(a - b)
    BY <1>2, <1>5 DEF Narrow
  <2>2. a \in Int /\ b \in Int
    BY <1>2
  <2>3. QED
    BY <1>1, <1>5, <1>6, <2>1, <2>2
<1>8. ASSUME NEW p \in S, NEW q \in S
      PROVE  /\ view[p] = view[q] => x[q] - x[p] <= E
             /\ view[p] < view[q] => x[q] - x[p] >= L
             /\ p # q => x[p] # x[q]
  <2>1. /\ p \in Int /\ q \in Int /\ a \in Int /\ b \in Int /\ x[p] \in Int /\ x[q] \in Int
        /\ view[p] \in Int /\ view[q] \in Int
        /\ b <= p /\ p <= a /\ b <= q /\ q <= a
    BY <1>2, <1>5
  <2>2. /\ view[p] = view[q] => x[q] - x[p] = q - p
        /\ view[p] < view[q] => x[q] - x[p] >= ClassGap - (p - q)
        /\ view[q] < view[p] => x[p] - x[q] >= ClassGap - (q - p)
    OBVIOUS
  <2>3. QED
    BY <1>1, <1>6, <1>7, <2>1, <2>2
<1>9. Grouped(S, view, Reach(S, x), E, L)
  BY <1>2, <1>3, <1>7, <1>8, ReachGrouped
<1>10. \A p, q \in S : p # q => Reach(S, x)[p][q] \in Nat \ {0}
  BY <1>2, <1>4, <1>8, ReachPositive
<1>11. ASSUME NEW t \in Dendrograms(S, x),
              NEW F \in FlatClusters(Condense(t, S), mode.single, mode.leaf)
       PROVE  F # {} /\ OfOne(view, F)
  <2>1. IsTree(t, S)
    BY <1>2, <1>4, <1>8, DendrogramsAreTrees
  <2>2. Layered(t, S, view, E, L)
    <3>1. PICK reach : reach = Reach(S, x)
      OBVIOUS
    <3>2. t \in Linkage(S, reach)[S]
      BY <3>1, DendrogramsOf
    <3>3. \A p, q \in S : p # q => reach[p][q] \in Nat \ {0}
      BY <1>10, <3>1
    <3>4. Grouped(S, view, reach, E, L)
      BY <1>9, <3>1
    <3>5. \A u \in Linkage(S, reach)[S] : Layered(u, S, view, E, L)
      BY <1>2, <3>3, <3>4, LinkageLayers
    <3>6. QED
      BY <3>2, <3>5
  <2>3. PICK c : c = Condense(t, S)
    OBVIOUS
  <2>4. GroupsBelow(c, view, Density(L), Density(E))
    BY <1>3, <1>4, <1>7, <2>1, <2>2, <2>3, CondensedGroups
  <2>5. IsCondensed(c)
    BY <1>4, <2>1, <2>3, CondenseIs
  <2>6. F \in c.heads /\ OfOne(view, F)
    BY <1>1, <1>11, <2>3, <2>4, <2>5, FlatOfOne
  <2>7. QED
    BY <2>5, <2>6 DEF IsCondensed
<1>12. QED
  BY <1>11 DEF Flats

\* So every seed it makes is of the class it is given.
LEMMA SeedAllOwn ==
  ASSUME TypeInv, Narrow(view), SeedAll, mode.minClass >= MinSize, mode.minClass >= MinPts
  PROVE  \/ UNCHANGED <<list, owner>>
         \/ \E seeds, S, class :
              /\ S \subseteq Open /\ Seeding(seeds, S, class) /\ AppendSeeds(seeds)
              /\ \A k \in 1 .. Len(seeds) : \A p \in seeds[k].seed : view[p] = seeds[k].class
<1>1. PICK S, x :
        /\ S \subseteq Open /\ IsFiniteSet(S) /\ S \subseteq Int
        /\ \A p \in S : view[p] \in Things /\ x[p] \in Int
        /\ \A p \in S : Cardinality({q \in S : view[q] = view[p]}) >= mode.minClass
        /\ \A p, q \in S : view[p] = view[q] => x[q] - x[p] = q - p
        /\ \A p, q \in S : view[p] < view[q] => x[q] - x[p] >= ClassGap - (p - q)
        /\ IF Enough(Cardinality(S))
             THEN Cluster(S, x, [F \in (SUBSET S) \ {{}} |-> Max({view[p] : p \in F})])
             ELSE UNCHANGED <<last, list, owner>>
  BY SeedAllScan
<1>2. mode.local = FALSE
  BY DEF SeedAll, TypeInv
<1> DEFINE class == [F \in (SUBSET S) \ {{}} |-> Max({view[p] : p \in F})]
<1>3. ASSUME NEW F \in SUBSET S, F # {}
      PROVE  class[F] \in Things /\ (OfOne(view, F) => \A p \in F : view[p] = class[F])
  <2> DEFINE seen == {view[p] : p \in F}
  <2>1. class[F] = Max(seen)
    BY <1>3
  <2>2. seen \subseteq Things /\ seen # {}
    BY <1>1, <1>3
  <2>3. \A p \in F : view[p] \in seen
    OBVIOUS
  <2>4. OfOne(view, F) => \A u, v \in seen : u = v
    BY DEF OfOne
  <2> HIDE DEF seen, class
  <2>5. IsFiniteSet(seen) /\ seen \subseteq Int
    BY <2>2, ThingsAreInts, FS_Subset
  <2>6. Max(seen) \in seen
    BY <2>2, <2>5, MinMax
  <2>7. QED
    BY <2>1, <2>2, <2>3, <2>4, <2>6
<1>4. ASSUME Enough(Cardinality(S)), Cluster(S, x, class)
      PROVE  \E seeds : /\ Seeding(seeds, S, class) /\ AppendSeeds(seeds)
                        /\ \A k \in 1 .. Len(seeds) :
                             \A p \in seeds[k].seed : view[p] = seeds[k].class
  <2> HIDE DEF class
  <2>1. PICK seeds : /\ Seeding(seeds, S, class) /\ AppendSeeds(seeds)
                     /\ FromFlats(seeds, S, x, class)
    BY <1>1, <1>2, <1>3, <1>4, ClusterSeeds
  <2>2. \A F \in Flats(S, x) : F # {} /\ OfOne(view, F)
    BY <1>1, <1>4, ScanKeepsClasses
  <2>3. ASSUME NEW k \in 1 .. Len(seeds), NEW p \in seeds[k].seed
        PROVE  view[p] = seeds[k].class
    <3>1. PICK F \in Flats(S, x) : F \in SUBSET S /\ \E P \in SUBSET F : seeds[k] = Seed(class[F], P)
      BY <2>1 DEF FromFlats
    <3>2. PICK P \in SUBSET F : seeds[k] = Seed(class[F], P)
      BY <3>1
    <3>3. seeds[k].class = class[F] /\ p \in F
      BY <2>3, <3>2 DEF Seed
    <3>4. F # {} /\ OfOne(view, F)
      BY <2>2
    <3>5. QED
      BY <1>3, <3>1, <3>3, <3>4
  <2>4. QED
    BY <2>1, <2>3
<1>5. QED
  BY <1>1, <1>4

\* Every seed is made of points of its class; clustered at once, when the class gate is
\* below neither min_cluster_size nor min_pts.
SeedInv ==
  ~mode.local /\ (mode.scan => mode.minClass >= MinSize /\ mode.minClass >= MinPts) =>
    \A i \in DOMAIN list : \A p \in list[i].seed : p \in DOMAIN view /\ view[p] = list[i].class

\* New seeds of one class each keep it so.
LEMMA AppendOwn ==
  ASSUME TypeInv, SeedInv, mode' = mode, view' = view,
         NEW seeds, NEW S, NEW class, S \subseteq Open, Seeding(seeds, S, class),
         AppendSeeds(seeds),
         \A k \in 1 .. Len(seeds) : \A p \in seeds[k].seed : view[p] = seeds[k].class
  PROVE  SeedInv'
<1> SUFFICES ASSUME ~mode.local,
                    mode.scan => mode.minClass >= MinSize /\ mode.minClass >= MinPts,
                    NEW i \in DOMAIN list', NEW p \in list'[i].seed
             PROVE  p \in DOMAIN view /\ view[p] = list'[i].class
  BY DEF SeedInv
<1>1. /\ list' \in Seq(Proposal) /\ Len(list) \in Nat
      /\ \A k \in 1 .. Len(list) : list'[k] = list[k]
      /\ \A k \in 1 .. Len(seeds) : list'[Len(list) + k] = seeds[k]
      /\ \A j \in 1 .. Len(list') :
           j \in 1 .. Len(list) \/ \E k \in 1 .. Len(seeds) : j = Len(list) + k
      /\ \A k \in 1 .. Len(seeds) : seeds[k].seed \subseteq S
  BY Appended
<1>2. DOMAIN list = 1 .. Len(list) /\ i \in 1 .. Len(list')
  BY <1>1 DEF TypeInv
<1>3. CASE i \in 1 .. Len(list)
  <2>1. list'[i] = list[i] /\ i \in DOMAIN list
    BY <1>1, <1>2, <1>3
  <2>2. QED
    BY <2>1 DEF SeedInv
<1>4. ASSUME NEW k \in 1 .. Len(seeds), i = Len(list) + k
      PROVE  p \in DOMAIN view /\ view[p] = list'[i].class
  <2>1. list'[i] = seeds[k] /\ p \in S
    BY <1>1, <1>4
  <2>2. QED
    BY <2>1 DEF Open
<1>5. QED
  BY <1>1, <1>2, <1>3, <1>4

LEMMA NextSeed ==
  ASSUME TypeInv, TreeInv, SeedInv, [Next]_vars
  PROVE  SeedInv'
<1>1. CASE UNCHANGED <<mode, view, list>>
  BY <1>1 DEF SeedInv
<1>2. CASE BeginFrame
  <2>1. mode' = mode /\ (~mode.local => DOMAIN list' = {})
    BY <1>2 DEF BeginFrame, Wipe
  <2>2. QED
    BY <2>1 DEF SeedInv
<1>3. CASE SeedAll
  <2>1. mode' = mode /\ view' = view /\ mode.scan
    BY <1>3 DEF SeedAll
  <2>2. CASE UNCHANGED <<list, owner>>
    BY <1>1, <2>1, <2>2
  <2>3. CASE ~(mode.minClass >= MinSize /\ mode.minClass >= MinPts)
    BY <2>1, <2>3 DEF SeedInv
  <2>4. CASE mode.minClass >= MinSize /\ mode.minClass >= MinPts /\ ~UNCHANGED <<list, owner>>
    <3>1. PICK seeds, S, class :
            /\ S \subseteq Open /\ Seeding(seeds, S, class) /\ AppendSeeds(seeds)
            /\ \A k \in 1 .. Len(seeds) : \A p \in seeds[k].seed : view[p] = seeds[k].class
      BY <1>3, <2>4, SeedAllOwn DEF TreeInv
    <3>2. QED
      BY <2>1, <3>1, AppendOwn
  <2>5. QED
    BY <2>2, <2>3, <2>4
<1>4. CASE SeedClass
  <2>1. mode' = mode /\ view' = view
    BY <1>4 DEF SeedClass
  <2>2. CASE UNCHANGED <<list, owner>>
    BY <1>1, <2>1, <2>2
  <2>3. ASSUME NEW seeds, NEW S, NEW class, NEW c,
               OneClass(seeds, S, class, c), AppendSeeds(seeds)
        PROVE  SeedInv'
    <3>1. /\ S \subseteq Open /\ Seeding(seeds, S, class)
          /\ \A q \in S : view[q] = c
          /\ \A F \in SUBSET S : class[F] = c
      BY <2>3 DEF OneClass
    <3>2. \A k \in 1 .. Len(seeds) :
            seeds[k].seed \subseteq S /\ \E F \in SUBSET S : seeds[k].class = class[F]
      BY <2>3, <3>1, Appended
    <3>3. \A k \in 1 .. Len(seeds) : \A p \in seeds[k].seed : view[p] = seeds[k].class
      BY <3>1, <3>2
    <3>4. QED
      BY <2>1, <2>3, <3>1, <3>3, AppendOwn
  <2>4. QED
    BY <1>4, <2>2, <2>3, SeedClassStep
<1>5. CASE Segment \/ EndLocal \/ NextSweep \/ EndGrow \/ UNCHANGED vars
  BY <1>1, <1>5 DEF Segment, EndLocal, NextSweep, EndGrow, seedVars, vars
<1>6. CASE Evaluate
  <2>1. PICK s \in left :
          /\ left' = left \ {s} /\ s \in segs /\ s \subseteq DOMAIN view
          /\ \/ ~Wanted(s) /\ UNCHANGED <<list, owner, moved, annexed>>
             \/ ~mode.overlap /\ Wanted(s) /\ moved' = TRUE /\ AnnexBest(s)
             \/ mode.overlap /\ Wanted(s) /\ moved' = TRUE /\ AnnexAll(s)
          /\ UNCHANGED <<mode, frame, stage, view, todo, last, segs, sweep>>
          /\ ~mode.local /\ stage = "grow"
    BY <1>6, EvaluateStep
  <2>2. CASE UNCHANGED <<list, owner, moved, annexed>>
    BY <1>1, <2>1, <2>2
  <2>3. CASE Wanted(s) /\ ((~mode.overlap /\ AnnexBest(s)) \/ (mode.overlap /\ AnnexAll(s)))
    <3>1. Grows(s)
      BY <2>1, <2>3, AnnexGrows
    <3>2. QED
      BY <2>1, <3>1 DEF Grows, SeedInv
  <2>4. QED
    BY <2>1, <2>2, <2>3
<1>7. QED
  BY <1>2, <1>3, <1>4, <1>5, <1>6 DEF Next

LEMMA InitSeed == Init => SeedInv
BY DEF Init, SeedInv

\* ProposalsKeepTheirClass (object_seeds.cpp, clusterClass and single_scan;
\* object_grow.cpp, affOf), for any view, superpoints and clustering: with the bar at most
\* 100 percent, every seed is of its class, also where all classes are clustered at once,
\* and the share of a proposal's points that show its class is never below the bar,
\* however far it grows, as its seed alone outweighs it.
THEOREM ClassesHold == Spec => [](mode.bar <= 100 => ProposalsKeepTheirClass)
<1> DEFINE Inv == TypeInv /\ GrowInv /\ ShareInv /\ TreeInv /\ SeedInv
<1>1. Init => Inv
  BY InitType, InitGrow, InitShares, InitTree, InitSeed
<1>2. Inv /\ [Next]_vars => Inv'
  BY NextType, NextGrow, NextShare, NextTree, NextSeed
<1>3. Inv => (mode.bar <= 100 => ProposalsKeepTheirClass)
  <2> SUFFICES ASSUME TypeInv, GrowInv, ShareInv, SeedInv, mode.bar <= 100, ~mode.local,
                      mode.minClass >= MinSize, mode.scan => mode.minClass >= MinPts,
                      stage # "idle", NEW i \in DOMAIN list
               PROVE  LET Own(S) == {p \in S : p \in DOMAIN view /\ view[p] = list[i].class}
                      IN  /\ Own(list[i].seed) = list[i].seed
                          /\ 100 * Cardinality(Own(list[i].points))
                               >= mode.bar * Cardinality(list[i].points)
    BY DEF ProposalsKeepTheirClass
  <2> DEFINE Own(S) == {p \in S : p \in DOMAIN view /\ view[p] = list[i].class}
             P == list[i].points
             Q == list[i].seed
  <2>1. \A p \in Q : p \in DOMAIN view /\ view[p] = list[i].class
    BY DEF SeedInv
  <2>2. Own(Q) = Q
    BY <2>1
  <2>3. Q \subseteq P /\ IsFiniteSet(P)
    <3>1. P \subseteq DOMAIN view /\ Q \subseteq P /\ IsFiniteSet(DOMAIN view)
      BY DEF TypeInv, IsView
    <3>2. QED
      BY <3>1, FS_Subset
  <2>4. Q \subseteq Own(P) /\ Own(P) \subseteq P
    BY <2>1, <2>3
  <2>5. mode.bar * Cardinality(P) <= 100 * Cardinality(Q)
    BY SeedOutweighs
  <2>6. mode.bar \in Nat
    BY ProposalsAssumption DEF TypeInv
  <2> HIDE DEF Own, P, Q
  <2>7. /\ Cardinality(Q) <= Cardinality(Own(P))
        /\ Cardinality(Q) \in Nat /\ Cardinality(Own(P)) \in Nat /\ Cardinality(P) \in Nat
    BY <2>3, <2>4, FS_Subset, FS_CardinalityType
  <2>8. PICK x : x = mode.bar * Cardinality(P)
    OBVIOUS
  <2>9. x \in Nat
    BY <2>6, <2>7, <2>8, SMT
  <2>10. 100 * Cardinality(Own(P)) >= x
    BY <2>5, <2>7, <2>8, <2>9
  <2>11. QED
    BY <2>2, <2>8, <2>10 DEF Own, P, Q
<1>4. QED
  BY <1>1, <1>2, <1>3, PTL DEF Spec
=============================================================================
