------------------------------- MODULE Objects -------------------------------
(***************************************************************************)
(* The object tier (Objects, objects.h): a union-find over COMPONENTS.     *)
(* Every proposal of a consolidated frame joins the component that best    *)
(* contains it.  Without global context it also bridges every other        *)
(* component it overlaps enough; with it, it deposits affinity on the      *)
(* edges between them, and resolveMerges unites components once enough     *)
(* views agree.  mergeSmallComps absorbs the weak ones at the end.         *)
(*                                                                         *)
(* A point is an occupied voxel: the map keeps one point per voxel, and    *)
(* point_owner and the voxel maps are one relation, owners.  root is what  *)
(* find returns; path compression never changes it.  Affinities and        *)
(* thresholds are compared as exact fractions.                             *)
(***************************************************************************)
EXTENDS Integers, Sequences, FiniteSets, FiniteSetsExt, SequencesExt, SetSums

CONSTANTS
  Points, Classes,
  Proposals,    \* what growing can hand over: records [pts, class]
  Weights,      \* what a proposal can deposit: records [sim, conf], 0 unseen
  MergeThresh,  \* merge_thresh in percent, by level
  MinMerges, MinEvidence, SmallMin,
  Decay,        \* dis_decay in percent
  MaxProposals, \* bound: proposals per frame
  MaxJoined,    \* bound: proposals that join a component
  MaxChurn,     \* bound: points a scan kills or revives
  MaxFrames     \* bound: consolidated frames, with or without proposals

ASSUME ObjectsAssumption ==
  /\ IsFiniteSet(Points) /\ IsFiniteSet(Classes)
  /\ Proposals \subseteq [pts : (SUBSET Points) \ {{}}, class : Classes]
  /\ Weights \subseteq {w \in [sim : Nat, conf : Nat] : w.sim <= w.conf}
  /\ MergeThresh \in Seq(1..100) /\ MergeThresh # <<>>
  /\ MinMerges \in Nat \ {0} /\ MinEvidence \in Nat /\ SmallMin \in Nat
  /\ Decay \in 0..100 /\ MaxProposals \in Nat /\ MaxFrames \in Nat
  /\ MaxJoined \in Nat /\ MaxChurn \in Nat

VARIABLES
  gc, ov,       \* global_context, overlap_sets
  live,         \* pointAlive
  root,         \* component id -> find(id)
  vox, cls, support,  \* comp_
  owners,       \* pt_owner_, pt_vox_: point -> component ids
  edges,        \* edges_: pair of ids -> accumulated [sim, conf]
  cache,        \* cache_: listed id -> object
  step,         \* "idle", inside consolidate or mergeSmallComps, or "done"
  todo,         \* proposals of the frame still to fold in
  home, bridge, \* the component being joined, the targets still to unite
  touched,      \* edges deposited this frame, then the merges to apply
  changed, merged, progress,
  best, next,   \* mergeSmallComps: best neighbours, id the sweep is at
  frame,
  observed,     \* history: joins, [home, class, size]
  deposits      \* history: the edge store if it were never compacted

comps == <<root, vox, cls, support>>
cleanup == <<progress, best, next>>
history == <<observed, deposits>>
vars == <<gc, ov, live, comps, owners, edges, cache, step, todo, home, bridge,
          touched, changed, merged, cleanup, frame, history>>

NoEdges == [k \in {} |-> [sim |-> 0, conf |-> 0]]

Init ==
  /\ gc \in BOOLEAN /\ ov \in BOOLEAN
  /\ live = Points
  /\ root = <<>> /\ vox = <<>> /\ cls = <<>> /\ support = <<>>
  /\ owners = [p \in Points |-> {}]
  /\ edges = NoEdges /\ cache = NoEdges
  /\ step = "idle" /\ todo = <<>> /\ home = 0 /\ bridge = {} /\ touched = <<>>
  /\ changed = FALSE /\ merged = FALSE
  /\ progress = FALSE /\ best = <<>> /\ next = 0
  /\ frame = 0 /\ observed = <<>> /\ deposits = NoEdges
-----------------------------------------------------------------------------
Ids == 1..Len(root)
Roots == {r \in Ids : root[r] = r}

Bar(level) == MergeThresh[Min({Max({level, 1}), Len(MergeThresh)})]

\* unite(a, b) of two different roots: the smaller footprint, b on a tie, is
\* drained into the other.
Winner(a, b) == IF Cardinality(vox[a]) < Cardinality(vox[b]) THEN b ELSE a
Loser(a, b) == IF Winner(a, b) = a THEN b ELSE a

Unite(a, b) ==
  LET w == Winner(a, b)
      l == Loser(a, b)
  IN /\ root' = [i \in Ids |-> IF root[i] = l THEN w ELSE root[i]]
     /\ vox' = [vox EXCEPT ![w] = @ \union vox[l], ![l] = {}]
     /\ cls' = [cls EXCEPT ![w] = [c \in Classes |-> @[c] + cls[l][c]],
                           ![l] = [c \in Classes |-> 0]]
     /\ support' = [support EXCEPT ![w] = @ + support[l], ![l] = 0]

NewComp ==
  /\ root' = Append(root, Len(root) + 1)
  /\ vox' = Append(vox, {})
  /\ cls' = Append(cls, [c \in Classes |-> 0])
  /\ support' = Append(support, 0)

\* The dominant classes of a component (several on a tie, none before the
\* first vote).
Majority(r) ==
  {c \in Classes : cls[r][c] > 0 /\ \A d \in Classes : cls[r][d] <= cls[r][c]}
-----------------------------------------------------------------------------
\* An edge store, resolved to roots: internal edges dropped, others summed.
Resolved(k) == {root[i] : i \in k}

AtRoots(store) ==
  LET pairs == {k \in {Resolved(j) : j \in DOMAIN store} : Cardinality(k) = 2}
      Of(k) == {j \in DOMAIN store : Resolved(j) = k}
  IN [k \in pairs |->
        [sim  |-> SumOver(Of(k), [j \in DOMAIN store |-> store[j].sim]),
         conf |-> SumOver(Of(k), [j \in DOMAIN store |-> store[j].conf])]]

Deposited(store, gain) ==
  LET At(f, k) == IF k \in DOMAIN f THEN f[k] ELSE [sim |-> 0, conf |-> 0]
  IN [k \in DOMAIN store \union DOMAIN gain |->
        [sim  |-> At(store, k).sim + At(gain, k).sim,
         conf |-> At(store, k).conf + At(gain, k).conf]]

Neighbours(radj, a) == {b \in Ids \ {a} : {a, b} \in DOMAIN radj}

\* Does a's mean affinity to b and, decayed, to b's neighbours, each weighted
\* by its voxels, reach the bar?
RegionClears(radj, a, b, bar) ==
  LET near == {b} \union (Neighbours(radj, b) \ {a})
      Weight(k) == (IF k = b THEN 100 ELSE Decay) * Max({1, Cardinality(vox[k])})
      Linked == {k \in near : {a, k} \in DOMAIN radj}
      scale == MapThenFoldSet(LAMBDA x, y : x * y, 1, LAMBDA k : radj[{a, k}].conf,
                              LAMBDA S : CHOOSE x \in S : TRUE, Linked)
      Share(k) == Weight(k) * radj[{a, k}].sim * (scale \div radj[{a, k}].conf)
  IN 100 * MapThenSumSet(Share, Linked) >= bar * scale * MapThenSumSet(Weight, near)

\* The elements of s that are in S, in their order.
Kept(s, S) ==
  LET kept[n \in 0..Len(s)] ==
        IF n = 0 THEN <<>>
        ELSE IF s[n] \in S THEN Append(kept[n - 1], s[n]) ELSE kept[n - 1]
  IN  kept

\* The gates of resolveMerges on a touched pair of roots.
Agreed(radj, k) ==
  /\ k \in DOMAIN radj
  /\ radj[k].conf >= MinEvidence
  /\ LET bar == Bar(Min({support[r] : r \in k}))
     IN /\ 100 * radj[k].sim >= bar * radj[k].conf
        /\ \A a \in k : \A b \in k \ {a} : RegionClears(radj, a, b, bar)
-----------------------------------------------------------------------------
\* rebuildCache.  A point several promoted components hold goes to the one
\* with the highest support, then the larger one, then the lower id.
Promoted == {r \in Roots : support[r] >= MinMerges}

BetterWithoutId(a, b) ==  \* mutant: a full tie has no winner
  \/ support[a] > support[b]
  \/ support[a] = support[b] /\ Cardinality(vox[a]) > Cardinality(vox[b])
Better(a, b) ==
  \/ support[a] > support[b]
  \/ /\ support[a] = support[b]
     /\ \/ Cardinality(vox[a]) > Cardinality(vox[b])
        \/ Cardinality(vox[a]) = Cardinality(vox[b]) /\ a < b

Holds(r, p) ==
  /\ p \in vox[r]
  /\ ov => \A s \in Promoted \ {r} : p \in vox[s] => Better(r, s)

Shown(r) == {p \in live : Holds(r, p)}

Listing ==
  [r \in {s \in Promoted : Shown(s) # {}} |->
     [class |-> CHOOSE c \in Majority(r) : TRUE,
      points |-> Shown(r), level |-> support[r]]]

RebuildIf(b) == cache' = IF b THEN Listing ELSE cache
-----------------------------------------------------------------------------
P == Head(todo)

\* Roots of the proposal's class that own some of its points.
Shared(r) == {p \in P.pts : \E i \in owners[p] : root[i] = r}
OverlapAnyClass == {r \in Roots : Shared(r) # {}}  \* mutant: no class guard
Overlap == {r \in Roots : Shared(r) # {} /\ P.class \in Majority(r)}

\* What the proposal contributes.
FreshStealing == P.pts  \* mutant: owned points too
Fresh == {p \in P.pts : ov \/ owners[p] = {}}

\* Containment is |Shared(r)| / Smaller(r).
Smaller(r) == Min({Cardinality(P.pts), Cardinality(vox[r])})

Targets ==
  {r \in Overlap : 100 * Cardinality(Shared(r)) >= Bar(support[r]) * Smaller(r)}

\* The targets that contain it best: the code keeps the first in hash order.
Primaries ==
  {r \in Targets : \A t \in Targets :
     Cardinality(Shared(r)) * Smaller(t) >= Cardinality(Shared(t)) * Smaller(r)}

\* The scan of the frame killed the points K and revived R.  Growing returns
\* proposals, of points alive or just killed, disjoint unless sets overlap;
\* with none of them consolidate returns at once.
Frame(K, R, ps) ==
  /\ step = "idle" /\ frame < MaxFrames
  /\ Cardinality(K \union R) <= MaxChurn /\ Len(observed) + Len(ps) <= MaxJoined
  /\ \A i \in DOMAIN ps : ps[i].pts \subseteq live \union R
  /\ ov \/ \A i, j \in DOMAIN ps : i # j => ps[i].pts \intersect ps[j].pts = {}
  /\ live' = (live \ K) \union R
  /\ frame' = frame + 1
  /\ todo' = ps
  /\ step' = IF ps = <<>> THEN "idle" ELSE "fold"
  /\ UNCHANGED <<gc, ov, comps, owners, edges, cache, home, bridge, touched,
                 changed, merged, cleanup, history>>

\* The component a proposal joins: its primary, or a new one for its unowned
\* points.
Home(h) ==
  \/ h \in Primaries /\ UNCHANGED comps
  \/ Primaries = {} /\ Fresh # {} /\ h = Len(root) + 1 /\ NewComp

\* The legacy route.
FoldLegacy(h) ==
  /\ step = "fold" /\ todo # <<>> /\ ~gc
  /\ Home(h)
  /\ home' = h /\ bridge' = Targets \ {h}
  /\ step' = "join"
  /\ UNCHANGED <<gc, ov, live, owners, edges, cache, todo, touched, changed,
                 merged, cleanup, frame, history>>

\* Nothing to join and nothing to contribute.
Drop ==
  /\ step = "fold" /\ todo # <<>> /\ ~gc
  /\ Primaries = {} /\ Fresh = {}
  /\ todo' = Tail(todo)
  /\ UNCHANGED <<gc, ov, live, comps, owners, edges, cache, step, home, bridge,
                 touched, changed, merged, cleanup, frame, history>>

\* Affinity onto the edges between rep and the other components the proposal
\* overlaps, in hash order; those out of view get none.
Deposit(rep) ==
  \E w \in [Overlap \ {rep} -> Weights] :
    LET seen == {r \in Overlap \ {rep} : w[r].conf > 0}
        gain == [k \in {{rep, r} : r \in seen} |-> w[CHOOSE r \in seen : r \in k]]
    IN \E order \in SetToSeqs(seen) :
         /\ edges' = Deposited(edges, gain)
         /\ deposits' = Deposited(deposits, gain)
         /\ touched' = touched \o [i \in DOMAIN order |->
              IF rep < order[i] THEN <<rep, order[i]>> ELSE <<order[i], rep>>]

\* The graph route.
FoldGraph(h) ==
  /\ step = "fold" /\ todo # <<>> /\ gc
  /\ Home(h)
  /\ Deposit(h)
  /\ home' = h
  /\ step' = "join"
  /\ UNCHANGED <<gc, ov, live, owners, cache, todo, bridge, changed, merged,
                 cleanup, frame, observed>>

\* Nothing to join: the deposit is between the components it overlaps.
DepositOnly ==
  /\ step = "fold" /\ todo # <<>> /\ gc
  /\ Primaries = {} /\ Fresh = {}
  /\ IF Overlap = {} THEN UNCHANGED <<edges, deposits, touched>>
     ELSE \E rep \in Overlap :
            /\ \A r \in Overlap : Cardinality(Shared(r)) <= Cardinality(Shared(rep))
            /\ Deposit(rep)
  /\ todo' = Tail(todo)
  /\ UNCHANGED <<gc, ov, live, comps, owners, cache, step, home, bridge,
                 changed, merged, cleanup, frame, observed>>

\* Progressive bridge: one more target united with the home.
Bridge(t) ==
  /\ step = "join" /\ t \in bridge
  /\ Unite(home, t)
  /\ home' = Winner(home, t)
  /\ bridge' = bridge \ {t}
  /\ UNCHANGED <<gc, ov, live, owners, edges, cache, step, todo, touched,
                 changed, merged, cleanup, frame, history>>

\* claimVoxels, the class votes and one unit of support.
Join ==
  /\ step = "join" /\ bridge = {}
  /\ vox' = [vox EXCEPT ![home] = @ \union Fresh]
  /\ owners' = [p \in Points |->
       IF p \in Fresh /\ \A i \in owners[p] : root[i] # home
         THEN owners[p] \union {home} ELSE owners[p]]
  /\ cls' = [cls EXCEPT ![home][P.class] = @ + Cardinality(P.pts)]
  /\ support' = [support EXCEPT ![home] = @ + 1]
  /\ observed' = Append(observed,
       [home |-> home, class |-> P.class, size |-> Cardinality(P.pts)])
  /\ changed' = TRUE
  /\ todo' = Tail(todo) /\ step' = "fold" /\ home' = 0
  /\ UNCHANGED <<gc, ov, live, root, edges, cache, bridge, touched, merged,
                 cleanup, frame, deposits>>

\* The proposals are folded in: resolveMerges gates the touched pairs on one
\* snapshot, or consolidate ends.
EndFold ==
  /\ step = "fold" /\ todo = <<>>
  /\ LET radj == AtRoots(edges)
         agreed == {k \in ToSet(touched) : Agreed(radj, {k[1], k[2]})}
     IN IF touched # <<>>
          THEN /\ touched' = Kept(touched, agreed)[Len(touched)] /\ step' = "merge"
               /\ UNCHANGED <<cache, changed>>
          ELSE RebuildIf(changed) /\ step' = "idle" /\ changed' = FALSE
               /\ UNCHANGED touched
  /\ UNCHANGED <<gc, ov, live, comps, owners, edges, todo, home, bridge, merged,
                 cleanup, frame, history>>

\* The next surviving merge, unless an earlier one has united the two.
MergeUnguarded ==  \* mutant: no test that the two are still apart
  /\ step = "merge" /\ touched # <<>>
  /\ LET a == root[Head(touched)[1]]
         b == root[Head(touched)[2]]
     IN Unite(a, b) /\ merged' = TRUE
  /\ touched' = Tail(touched)
  /\ UNCHANGED <<gc, ov, live, owners, edges, cache, step, todo, home, bridge,
                 changed, cleanup, frame, history>>

Merge ==
  /\ step = "merge" /\ touched # <<>>
  /\ LET a == root[Head(touched)[1]]
         b == root[Head(touched)[2]]
     IN IF a = b THEN UNCHANGED <<comps, merged>>
        ELSE Unite(a, b) /\ merged' = TRUE
  /\ touched' = Tail(touched)
  /\ UNCHANGED <<gc, ov, live, owners, edges, cache, step, todo, home, bridge,
                 changed, cleanup, frame, history>>

EndMergeStale ==  \* mutant: a merge alone does not rebuild the list
  /\ step = "merge" /\ touched = <<>>
  /\ edges' = IF merged THEN AtRoots(edges) ELSE edges
  /\ RebuildIf(changed)
  /\ changed' = FALSE /\ merged' = FALSE
  /\ step' = "idle"
  /\ UNCHANGED <<gc, ov, live, comps, owners, todo, home, bridge, touched,
                 cleanup, frame, history>>

EndMergeOverwriting ==  \* mutant: an edge overwrites instead of adding
  /\ step = "merge" /\ touched = <<>>
  /\ edges' = IF merged
               THEN [k \in DOMAIN AtRoots(edges) |->
                       edges[CHOOSE j \in DOMAIN edges : {root[i] : i \in j} = k]]
               ELSE edges
  /\ RebuildIf(changed \/ merged)
  /\ changed' = FALSE /\ merged' = FALSE
  /\ step' = "idle"
  /\ UNCHANGED <<gc, ov, live, comps, owners, todo, home, bridge, touched,
                 cleanup, frame, history>>

EndMerge ==
  /\ step = "merge" /\ touched = <<>>
  /\ edges' = IF merged THEN AtRoots(edges) ELSE edges
  /\ RebuildIf(changed \/ merged)
  /\ changed' = FALSE /\ merged' = FALSE
  /\ step' = "idle"
  /\ UNCHANGED <<gc, ov, live, comps, owners, todo, home, bridge, touched,
                 cleanup, frame, history>>
-----------------------------------------------------------------------------
\* finish, at the end of a log of MaxFrames frames: mergeSmallComps.
Finish ==
  /\ step = "idle" /\ frame = MaxFrames
  /\ step' = IF gc /\ SmallMin > 0 THEN "snapshot" ELSE "done"
  /\ UNCHANGED <<gc, ov, live, comps, owners, edges, cache, todo, home, bridge,
                 touched, changed, merged, cleanup, frame, history>>

\* A best neighbour for every component that has an edge; ties are broken by
\* hash order, which may differ from component to component.
BestNeighbours ==
  LET radj == AtRoots(edges)
      Stronger(j, k) == radj[j].sim * radj[k].conf > radj[k].sim * radj[j].conf
      Best(a) == {b \in Neighbours(radj, a) :
                    \A c \in Neighbours(radj, a) : ~Stronger({a, c}, {a, b})}
  IN {f \in [UNION DOMAIN radj -> Ids] : \A a \in DOMAIN f : f[a] \in Best(a)}

SnapshotKeepingProgress ==  \* mutant: progress is not reset
  /\ step = "snapshot"
  /\ best' \in BestNeighbours
  /\ next' = 1 /\ step' = "sweep"
  /\ UNCHANGED <<gc, ov, live, comps, owners, edges, cache, todo, home, bridge,
                 touched, changed, merged, progress, frame, history>>

\* A sweep starts from a new snapshot of the edges.
Snapshot ==
  /\ step = "snapshot"
  /\ best' \in BestNeighbours
  /\ progress' = FALSE /\ next' = 1
  /\ step' = "sweep"
  /\ UNCHANGED <<gc, ov, live, comps, owners, edges, cache, todo, home, bridge,
                 touched, changed, merged, frame, history>>

\* The next id of the sweep, absorbed when it is a small root whose best
\* neighbour is not yet part of it.
Sweep ==
  /\ step = "sweep" /\ next <= Len(root)
  /\ IF /\ next \in Roots /\ support[next] < SmallMin
        /\ next \in DOMAIN best /\ root[best[next]] # next
       THEN Unite(next, root[best[next]]) /\ merged' = TRUE /\ progress' = TRUE
       ELSE UNCHANGED <<comps, merged, progress>>
  /\ next' = next + 1
  /\ UNCHANGED <<gc, ov, live, owners, edges, cache, step, todo, home, bridge,
                 touched, changed, best, frame, history>>

EndSweepAfterOne ==  \* mutant: one sweep only
  /\ step = "sweep" /\ next > Len(root)
  /\ step' = "done" /\ RebuildIf(merged) /\ merged' = FALSE
  /\ best' = <<>> /\ next' = 0 /\ UNCHANGED progress
  /\ UNCHANGED <<gc, ov, live, comps, owners, edges, todo, home, bridge,
                 touched, changed, frame, history>>

EndSweep ==
  /\ step = "sweep" /\ next > Len(root)
  /\ IF progress THEN step' = "snapshot" /\ UNCHANGED <<cache, merged>>
     ELSE step' = "done" /\ RebuildIf(merged) /\ merged' = FALSE
  /\ best' = <<>> /\ next' = 0 /\ UNCHANGED progress
  /\ UNCHANGED <<gc, ov, live, comps, owners, edges, todo, home, bridge,
                 touched, changed, frame, history>>
-----------------------------------------------------------------------------
Consolidate ==
  \/ \E h \in 1..(Len(root) + 1) : FoldLegacy(h) \/ FoldGraph(h)
  \/ Drop \/ DepositOnly
  \/ \E t \in bridge : Bridge(t)
  \/ Join \/ EndFold \/ Merge \/ EndMerge

Cleanup ==
  \/ Snapshot \/ Sweep \/ EndSweep

Next ==
  \/ \E K \in SUBSET live, R \in SUBSET (Points \ live),
        ps \in UNION {[1..n -> Proposals] : n \in 0..MaxProposals} : Frame(K, R, ps)
  \/ Consolidate
  \/ Finish
  \/ Cleanup

\* consolidate and mergeSmallComps run to their end on the caller's thread.
Spec == Init /\ [][Next]_vars /\ WF_vars(Consolidate) /\ WF_vars(Cleanup)
-----------------------------------------------------------------------------

\* The owner index, whose entries are never rewritten when components unite
\* (object_consolidate.cpp:217-247), still finds exactly the components that
\* hold a point, and without overlap_sets at most one does: no voxel is
\* stolen ("fresh-only claim", object_consolidate.cpp:16-17).
OwnersMatch ==
  \A p \in Points :
    /\ {root[i] : i \in owners[p]} = {r \in Ids : p \in vox[r]}
    /\ ~ov => Cardinality(owners[p]) <= 1

\* However components were united since, the support and the class votes of a
\* component are those of the proposals that joined any part of it, and an
\* absorbed component holds nothing ("SIZE IS its multi-view support",
\* objects.h:14).
SupportIsObservations ==
  \A r \in Ids :
    LET mine == {i \in DOMAIN observed : root[observed[i].home] = r}
    IN /\ support[r] = Cardinality(mine)
       /\ \A c \in Classes :
            cls[r][c] = SumOver({i \in mine : observed[i].class = c},
                                [i \in DOMAIN observed |-> observed[i].size])

\* Proposals of two classes never end up in one component, neither by a join
\* nor through a chain of bridges, merges and absorptions: the class guard is
\* applied only where an overlap is tallied (object_consolidate.cpp:210-248).
ComponentsArePure ==
  \A i, j \in DOMAIN observed :
    root[observed[i].home] = root[observed[j].home] =>
      observed[i].class = observed[j].class

\* Between two frames the list, which a frame without proposals or changes
\* does not rebuild, still speaks of the components as they are: its ids are
\* roots, with their support and class, and no point is listed twice.
ListIsExact ==
  step \in {"idle", "done"} =>
    /\ \A r \in DOMAIN cache :
         /\ r \in Promoted /\ cache[r].level = support[r]
         /\ cache[r].class \in Majority(r)
         /\ cache[r].points # {} /\ cache[r].points \subseteq vox[r]
    /\ \A r, s \in DOMAIN cache :
         r # s => cache[r].points \intersect cache[s].points = {}

\* A rebuilt list is a partition of the live points of the promoted
\* components: a contested point is given to one of them, not to none.
RebuiltIsPartition ==
  [][cache' # cache =>
       UNION {cache'[r].points : r \in DOMAIN cache'}
         = live \intersect UNION {vox[r] : r \in Promoted}]_vars

\* Compacting the edge store after a merge loses no affinity between two
\* components that are still apart, and invents none.
EvidenceIsKept == AtRoots(edges) = AtRoots(deposits)

\* After the final cleanup a component below SmallMin is left only if it has
\* no neighbour at all (objects.h:113-116), although absorbing changes the
\* neighbours of those already swept.
SmallAreIsolated ==
  step = "done" /\ gc /\ SmallMin > 0 =>
    \A r \in Roots : support[r] < SmallMin => Neighbours(AtRoots(edges), r) = {}

\* Every consolidate and every cleanup returns: a sweep is repeated only
\* while components disappear.
CallsReturn == step \notin {"idle", "done"} ~> step \in {"idle", "done"}
=============================================================================
