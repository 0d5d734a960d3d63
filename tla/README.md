# lift3d in TLA+

A verification development kept beside lift3d: TLA+ modules for the parts of
the program whose correctness depends on order, interleaving, bounded buffers
and persistent indices, TLC configurations that check them on small instances,
and TLAPS proofs of the properties that matter most for every value of the
constants. Source references are relative to the repository.

lift3d builds a semantic 3D map on a robot. Camera images, body poses and lidar
scans are synchronised; every synced frame is labelled by a 2D video instance
segmenter (a Python server), the labels are lifted onto a persistent voxel map,
visible thing points are clustered into proposals, and the proposals are
consolidated over frames into objects, which are published to the robot and to
a visualiser. A side channel reads the text of signs asynchronously.

## Inventory

| Component | Source | State it keeps | Operations | Hard behaviour | What makes it correct |
|---|---|---|---|---|---|
| Synchroniser | `dog_log_adaptor/dog_stream.*`, `pose_interp.*` | pose ring, scan ring, queue of images, three counters | `pushScan`, `pushImage`, `flush`, each ending in `drain` | three buffers trim independently; head-of-line blocking; streams late, twice or out of order; the consumer throws out of the loop | tight bracket; one fate per image, in arrival order; nothing that can be placed waits; the diagnostics add up |
| Sign bridge | `sign_adaptor/sign_bridge.*` | single-in-flight gate, pending footprints, resolved signs, annotation cache | `onFrame`, `onResult` (detector thread), `annotate`, destructor | results arrive between any two critical sections; rejection; lost answers; a cache computed without the mutex | the gate is shut exactly while one request is open; counters add up; the cache is never served stale |
| Mock sign reader | `sign_adaptor/sign_detector_mock.cpp` | queue, running flag, one thread | `start`, `enqueue`, `stop`, worker loop | mutex and condition variable; stop with work queued | accepted requests are answered once, in order; no wakeup is lost |
| Real sign reader | `sign_adaptor/sign_detector_real.cpp` | none of its own | adapter onto `sign-unds` | | the seam `IDetector` |
| Universe | `universe/universe.*` | cloud, voxel hash, `alive_`, per-frame labels, 16-bit votes, views, vocabulary | `integrate`, `local`/`project*`, `killPoint`, `clearFrameLabels`, `setFrameLabel`, `castVote`, `pointClassId` | a slot is killed and revived in place while others hold its index; saturation; thing/stuff ties | indices never shift; evidence belongs to the present occupant; a dead point reads as nothing |
| Label step | `universe/semantic_pipeline.h`, `point_pixel_mapping/` | locals of one frame; the depth buffer of the GPU | `stepFrameSynced`: infer, reject dynamic returns, fuse, project, kill or label | the working set is collected before the kill; occlusion by tombstones; GPU threads in any order; a CUDA call fails | labels are this frame's; the front shell is that of the live map; both back ends see the same |
| Driver | `universe/online_semantic.h` | `done_`, all stages | `begin`, `onSynced`, `finish` | an exception in mid-frame; consolidation stride; hooks that pass pointers on | every stride-th frame is consolidated once; what a hook hands on is of this frame |
| Proposals | `universe/object_seeds.*`, `object_grow.cpp`, `hdbscan_extract.*`, `superpoints.*` | per-frame proposals, ownership of points, superpoints | seed, split, segment, grow | first claim wins; sweeps; a selection over a condensed tree | claims and proposals agree; proposals keep their class; the flat clusters are the best ones; overlapping growth does not depend on the order |
| Objects | `universe/objects.h`, `object_consolidate.cpp` | union-find, components, voxel owners, affinity edges, cached list | `consolidate`, `resolveMerges`, `mergeSmallComps`, `list` | long runs of merges; the cache is not rebuilt on an empty frame | one owner per voxel; support is what was folded in; classes never mix; evidence survives compaction; the list names components that exist |
| Inference protocol | `inf_client/`, `inf_server/main.py`, `protocol.py`, `dvis_runner.py` | REQ socket, vocabulary on both sides, model, tracker | `ping`, `setVocab`, `reset`, `frame` | timeout of a lockstep socket; crash and restart of the server; a server state that outlives its clients | a reply answers its own call; labels keep their names; no run continues the tracks of another |
| Call-per-frame runner | `universe/semantic_runner.*` | pipeline, hull cache | constructor, `runOnInput`, destructor | cache keyed by a signature that ignores kills, revivals and moves; a list that stays when there are no proposals; a caller that goes on after an exception | the caller's store agrees with what is listed, with polygons no older than the look of the object |
| Object publisher | `gmd_adaptor/object_publisher.*` | fingerprints of published objects | hull, `buildRoomObject`, `ObjectDelta` | degenerate hulls, a change the fingerprint misses | the polygon goes around the members; every change is published |
| Visualisation | `universe/viz_publisher.*`, `viz_server/` | PUSH socket, last superpoint version; what the viewer retains | `begin`, `frame`, `finish` | frames dropped when the queue is full, linger 0 at exit | a position on the viewer's timeline shows one frame |
| Frame sources | `dog_log_adaptor/log_frame_source.h`, `dog_log_ingestor.*`, `dog_log_adaptor.*`, `gmd_adaptor/gmd_frame_source.*` | log index, two cursors | index of a log, window, merge of scans and images by time; conversion | equal timestamps, ends of the window, a log cut short | every image of the window that can be placed goes through, in order |
| Drivers, configuration | `universe/run_*.cpp`, `run_config.*`, `exp_per_view.cpp` | | command line, YAML | | |
| Dormant / vendored | `mask3d_feat/`, `gmdDataTypesForInterns2/` | | | | |

How they interact: a frame source calls the synchroniser on the caller's
thread; its hook is `OnlineSemantic::onSynced`, which runs the whole pipeline
of a frame synchronously (one request to the inference server, then the map,
then the stages) and calls the hooks of the sign bridge, the object consumer
and the visualiser. Two things run concurrently with that thread: the worker
of the sign reader, which calls back into the bridge, and the servers behind
sockets. Every later stage refers to map points by global index only
(`docs/architecture.md:35`), which is why the stability of the indices and the
meaning of a reused slot are the load-bearing properties of the map.

`PROJECT.json` lists every hazard found in this code at the line where it
bites, with the properties that cover it.

## Modules

| Module | Models | State and actions against the code |
|---|---|---|
| `ImageDelivery` | abstract: what the synchroniser promises of an image | `Accept`, `Deliver`, `Discard` over a bounded queue; an image leaves the front once |
| `DogStream` | the synchroniser, exceptions included | `poses`, `scans`, `pending` are `interp_.buf_`, `scans_`, `pending_`; one action per iteration of `drain` (`DrainReturn`, `DropTooOld`, `DropAtFlush`, `Emit`), pushes only between drains |
| `SignDetector` | abstract: what `IDetector` promises the bridge | the set of requests accepted and not answered |
| `MockDetector` | the mock reader's two threads | `holder` is who holds `mu_`; `park` is the instant between the predicate of `cv_.wait` and the blocking |
| `SignBridge` | the bridge, composed with `SignDetector` | `pc` stands between the critical sections of `onFrame` and `annotate`; `OnResult` may happen wherever the mutex is free |
| `Universe` | the map | `place`/`vox` are `map_`/`vox_`; `integrate` is `AppendPoint`, `RevivePoint` or `RefinePoint`; `Relabel` is a frame's clear, kills and labels; `Kind` is the vocabulary, in which the first declaration of a name decides |
| `SemanticPipeline` | one synced frame over the map, extends `Universe` | `Infer`, then any number of `Fuse`, then `Stamp` (project, z-buffer, front shell, kill or label) |
| `DepthKernels` | the label step with either back end, extends `SemanticPipeline` | `LaunchProject`, one `Splat` per `fetch_min` of a GPU thread, `TestVisible` after the last of them, `CopyBack`; `CudaError` at any call |
| `Objects` | the object tier, both routes and both ownership modes | `root` is what `find` returns; `vox`, `cls`, `support` are `comp_`; `owners` is `pt_owner_` or `pt_vox_`, its ids never rewritten; one action per step of `consolidate` (`FoldLegacy`/`FoldGraph`/`DepositOnly`/`Drop`, `Bridge`, `Join`, `EndFold`, `Merge`, `EndMerge`) and of `mergeSmallComps` (`Snapshot`, `Sweep`, `EndSweep`) |
| `ClusterTree` | the flat-cluster extraction of HDBSCAN*, a pure algorithm | every dendrogram of points on a line; condensed tree, stabilities, both selections, labelling; a cluster is named by the dendrogram node it begins at |
| `Superpoints` | the superpoints of a view and their affinity to a proposal | any disjoint groups; histogram, majority class, pooling, cosine times containment |
| `Proposals` | the proposals of a frame, extends the two above | `list`, `owner` are `list_`, `owner_`; one action per class seeded (`SeedClass`) or for all at once (`SeedAll`), `Segment`, one per superpoint and sweep (`Evaluate`, `NextSweep`) |
| `InfServer` | the inference server | the runner's `model`, `tc`/`num_thing`, `keep`, tracker memory; one `Serve` per turn of the REP loop, with one disjunct per handler and per failure; `Crash`, `Restart`; `Resolve` is `_resolve_vps` |
| `Inference` | the client and the runs that use it, extends `InfServer` | `stage`, `calling`, `stuck` are where the REQ socket stands; `Send`, `SendRefused` (EFSM), `Return`, `ReturnError`, `Timeout`; runs start, end and are killed |
| `OnlineSemantic` | the driver, its hooks, the publisher and the viewer | `Begin` or `StartFails`, then frames, then `finish`; a store is known by the call that made it; `OnSynced(end)` is a call left at the stage `end`; `wire` is the PUSH queue, `screen` what the viewer retains |
| `LogReplay` | the log replay, composes the ingestor, `DogStream` and `OnlineSemantic` | `si`, `ki` are the ingestor's cursors; an `Emit` of the synchroniser is a call of `onSynced` |
| `RoomObjects` | the published form of an object, pure | what the outlier pass may leave, `convexHull2D` against a reference, fingerprint, `changedSince` |
| `SemanticRunner` | the call-per-frame entry point, composes `OnlineSemantic` and `RoomObjects` | `cache`, `returned`; `at` and `alive` are the world map, `Frames` what a frame may do to it (append, revive, move, kill); `list` is rebuilt or stays (`FrameEffects`); `Inputs` is what a call may be given, `Accepted` and `Convertible` the checks on it; `store` is the caller's, external; `looks` is history |
| `Drivers` | the two programs, composes `LogReplay` and `SemanticRunner` | a process is one or the other; `View` is the viewer taking a message, `Leave` the end of the process, with linger 0 |
| `MC*` | the small instances | values of the constants for TLC |
| `SetSums` | the sum of a function over a finite set | |
| `NatLemmas` | lemmas on naturals, sequences, and sums and products over finite sets | |
| `*Proofs` | the theorems about the module they extend | |

What is abstracted: a timestamp is an integer and a scan is its arrival number;
an interpolated pose is the pair of samples it comes from; a sign is the set of
voxels behind its mask and its text is the request that read it; a map point is
its voxel, a class is its registry id; a camera is a table of pixels, splat
covers and depths; an inference result is a pair of functions on pixels, and in
`InfServer` what the network says is any set of queries; a class name is a
number that sorts like it; in `Objects` a proposal is a set of voxels with a
class, and what it deposits on an edge is any weight; the thresholds compare
exact fractions; in `Proposals` the points lie on a line, so that a distance is
a difference, while distances, densities, stabilities and affinities are
computed as the code computes them; in `OnlineSemantic` a store is the number of
the call that filled it, and an exception inside a stage is one before or after
it; positions of published points are integers, the outlier pass drops any points
but no more than half, and the signature is not hashed. Where the code takes the first of equals in hash order, any of
them is taken. The control is kept: every guard, early return and error path of
the mapped functions, in the order of the code.

## Runs

| Run | Question | Bounds, and why they are enough |
|---|---|---|
| `stream` | Is every image placed in the tightest bracket, delivered or lost once, never left waiting, whatever overflows, flushes or throws? | 3 scans, 3 images, 3 timestamps with unequal gaps, buffers of 2, one exception: every buffer overflows, every order of arrival occurs, images precede, meet and follow scans |
| `mock` | Do the mock's threads implement the detector seam? | queue of 2, 5 requests: the queue fills behind a request in work, and stop falls on every fill level |
| `sign` | Do the gate, the counters and the cache survive results between any two critical sections? | 4 frames, stride 2: two requests resolve, compete for one object, and a cached answer expires |
| `universe` | Do kills and revivals leave the indices, labels and votes consistent, on the CPU and on the GPU? | 3 voxels, 3 classes, 2 cameras, 3 frames, bins of 2 votes: a slot is labelled, killed, revived and labelled again, a bin fills, a point hides another, two GPU threads race for a cell and one of them covers two, any CUDA call fails (829,000 states) |
| `objects` | Do classes stay apart, does the list partition what is promoted, does every call return? | 3 voxels, 3 proposals of every footprint in 2 frames, one voxel dying or reviving per frame, all four modes: components bridge, tie, contest voxels and are absorbed |
| `objects_wide` | Do the owner index, support, edge store and list agree with what was folded in? | 4 voxels, 4 pair-shaped proposals in 3 frames: a proposal that joins nothing but deposits, two merges of one component in one frame, a ring of four components that needs a second sweep |
| `inference` | Does every call come back with its own answer, and do labels, instances and tracks belong to the run that reads them? | 3 runs of either kind, 3 frames each, 2 crashes, 3 vocabularies (one empty), 2 pixels, 2 queries: a late reply, a restart between any two calls, a run after a killed one, two segments that contest a pixel (292,000 states) |
| `proposals` | Do claims match the proposals, are the flat clusters the best ones, do proposals keep their class, does the order of growing matter? | one class at 7 of 8 places or in three pairs, for the clustering (ties, deferred clusters, the root); two classes at 5 places, for classes and growing; 2 frames, 7 modes of parameters and `MinPts` 2, so that a core distance reaches the nearest neighbour (554,000 states). The `min_pts` side of the condition of `ProposalsKeepTheirClass` coincides with the other at these sizes and is left to `ClassesHold` |
| `drivers` | What do the viewer, the object tier and the robot see when frames fail, messages are dropped and logs end early? | a log of 2 or 3 scans and images, cut or whole; windows at the edge values of start, count and stride; buffers of 2, one exception at any stage, stride 2, a PUSH queue of 2 messages; or 3 calls of `runOnInput` with 5 points, 2 objects, 2 texts, a frame of each kind (nothing seen, all seen, kills, a point revived or moved) and an object large enough for the outlier pass: a list outlives its points, and a hull is found in the cache after kills and a move. With a viewer attached one log is replayed, and with a viewer or without the object tier no object is listed, which the viewer's part does not depend on; without a viewer a call throws before the map changes, after the superpoints or after the list (328,000 states) |
| `mock_stop` | Does `stop()` return? (expected: no) | 2 requests |
| `universe_live` | Is `out_gidx` live, as its comment says? (expected: no) | as `universe` |
| `universe_occlude` | Do tombstones hide nothing when the whole map is projected? (expected: no) | as `universe`, without the crop |

Every property of a passing run has a mutant: a plausible bug in one definition,
kept beside it, under which TLC finds the property violated.

Deadlock is checked in `stream`, where pushing and flushing are always
possible. In the other runs the system really stops: the detector is destroyed,
or the bound on frames is reached.

Fairness. `stream` assumes that a drain loop, once entered, goes on
(`WF(Drain)`): it is a loop on the caller's thread. Nobody is assumed to push
again. `mock` assumes that both threads are scheduled and that a `stop()` once
begun goes on; spurious wakeups may happen and need not. `sign` assumes in
`GateReopens` that the detector answers what it accepted; `mock` checks that of
the mock (`AcceptedIsAnswered`), the real reader's library is not in the
repository. `objects` assumes that `consolidate` and `mergeSmallComps`, once
entered, go on. `inference` assumes that a call with a reply reads it and that one
without is ended by the receive timeout (`WF(Return \/ ReturnError \/ Timeout)`):
`rcvtimeo` bounds every `recv`; nothing is assumed of the server. The safety
properties need no fairness.

## What the violations show

* `mock_stop`: `stop()` clears `running_` and notifies without holding `mu_`
  (`sign_detector_mock.cpp:37-38`). If both fall between the worker's evaluation
  of the predicate and its blocking, the wakeup is lost and `join` never
  returns; `sign_bridge.cpp:58` says the call drains and joins.
* `universe_live`: `semantic_pipeline.h:228-229` says `out_gidx` holds live
  indices; the index is appended (line 313) before the point is killed (line
  320). Seeding is not affected (`ActiveIsLive`, proved): a dead point has no
  class. Superpoints are built from the dead points too.
* `universe_occlude`: `universe.h:206-208` says a tombstone is skipped by every
  enumeration; `project()` (`universe.cpp:218`), used when neither radius is
  positive, gives the whole cloud to the z-buffer, and the tombstones hide the
  live points behind them.

Smaller disagreements are not runs.

* `universe.h:152-155` says a thing must *exceed* the stuff votes times the bias;
  on an exact tie the code takes the lower class id (`universe.cpp:320`), so a
  thing wins when it was declared first. `ThingsOutvoteStuff` proves what holds.
* `objects.h:119` says the list is rebuilt by each `consolidate()`, and line 39
  that its points are live; a frame without proposals returns first
  (`object_consolidate.cpp:183`) and the driver publishes the old list, points
  killed since included. `ListIsExact` states what that list still keeps. A
  point revived in place keeps the component of the old occupant of its slot,
  since the owner index is never cleared.
* `semantic_runner.h:49` says the constructor warns and does not throw when the
  server is down; `ping` throws on the receive timeout (`inf_client.cpp:32`), out
  of the constructor (`semantic_runner.cpp:150`).
* `point_pixel_mapping.cuh:144` says to check `ok()`; nobody does. `universe`
  checks that a failed frame leaves no votes (`EvidenceIsExact`); that it leaves no
  stale label either is proved only (`LabelsAreThisFrames`, in `BackendKeepsTheMap`).
* `object_seeds.cpp:390-391` says points of different classes never join a cluster
  when all are clustered at once. They may if `min_class_points` is below
  `min_cluster_size`, or below `min_pts`: the core distance of a point then reaches
  into another class. `run.yaml` sets 10, 10 and 7. `ProposalsKeepTheirClass` has
  both conditions, and with them the comment is true (`ClassesHold`).
* `hdbscan_extract.h` says no cluster is smaller than `min_cluster_size`; the root
  is, when the whole input is smaller and `allow_single_cluster` lets it be
  selected. `FlatClustersAreBest` has that condition.
* `object_grow.cpp:121` says growing is order-insensitive. That holds of the
  overlapping mode once a sweep changes nothing, not of one that ran out of sweeps
  (`GrowthIsOrderFree`).
* `online_semantic.h:215-217` says the last frame already produced the final
  objects; `finish()` may still merge small components, and the viewer, which
  keeps the objects of the last frame message (`viz_publisher.cpp:238-239`), never
  shows the merged ones. `OneFrameOnScreen` excepts that case.
* `semantic_runner.cpp:74-77` documents that a tombstoned member leaves a stale
  hull. So do a member revived in place or moved by the running mean
  (`universe.cpp:126-142`) and one exchanged for another that the signature does not
  sample, at equal size; and an object all of whose members are dead is still
  published while its hull is cached. On a due frame without proposals the old list
  stays, and a hull may be built then from those of its points that are left.
  `StoreMirrorsObjects` states what the store keeps.
* `dog_stream.h:51-52` says that images are handed on in increasing `image_t` order;
  the code sorts nothing and hands them on in order of arrival, which is increasing
  if they arrive so. `DeliverySpec` and `DeliverySafety` speak of arrival, and
  `ReplayDelivers` of logs in order of capture.
* After a first `set_vocab` that failed while loading weights, the server keeps
  the built model (`dvis_runner.py:187`), and the next `set_vocab` answers ok
  without loading them: the state `"bare"` in `InfServer`.

## Proofs

All proofs are for arbitrary constants under the assumptions named in the modules
(`...Assumption`), which TLC evaluates on every run. They say that buffers,
bounds and thresholds are numbers, that points and classes are finite, that `min_pts`
is at least 1, as the code makes it (`object_seeds.cpp:274`), and what the inputs look
like: an object is listed with at least one point and a frame leaves points at places
(`EgressAssumption`), the objects of a list have distinct ids (`SignBridgeAssumption`),
a view is less than half as wide as the gap between two classes, and points at its
distances are more than twice as dense as points a gap away (`ProposalsAssumption`),
a point's own pixel is among those its splat covers (`PipelineAssumption`), no depth
is as large as the empty depth buffer (`DepthAssumption`), no vocabulary has more
classes than `MaxClasses` (`InferenceAssumption`), a recorder writes scans and images in the
order it captured them (`ReplayAssumption`). Three theorems have a hypothesis of
their own, named below (`ProperNames`, `HullsAreRight`, and a bar of at most 100 per
cent), and one is about the configuration with a crop.

**Synchroniser** (`DogStreamProofs`). `TypeCorrect` is
inductive as it stands, `AccountingHolds` needs it. `Refinement` maps every step to
a step of `ImageDelivery` or a stutter: the delivered images are those of the
frames, and the front of `pending` is the front of the abstract queue;
`DeliverySafety` gives arrival order and one fate per image, from what the ledger of
the abstract module says of its own queue (`LedgerHolds`).
`BracketsAreTight` needs to know that the pose ring is a contiguous end of the
trajectory, so that two neighbours in the buffer are neighbours in it.
`OnTimeIsPlaced` and `OnTimeIsMatched` rest on `StreamInv`: while nothing was
thrown and the streams are in order, what waits between drains is newer than the
newest pose, and both rings still reach back to every waiting image that is on
time. Neither part is inductive alone: a push may evict the very sample that an
image needs, unless that image would have left in the drain before.

**Sign bridge** (`SignBridgeProofs`). `SingleInFlight` says nothing of the pipeline
between two critical sections; `GateInv` adds what `onFrame` knows at each `pc`,
and relates the counters there (`GateHolds`, `CountersHold`). `CacheInv` ties the
generation and the age of the cache to what it was computed from
(`AnswersAreCurrent`). The matching serves one sign after another;
`StrongestWins` describes its result by what the signs before a given one have left.
`MockKeepsTheSeam`: the mock's threads implement `SignDetector`, the very module the
bridge is composed with. `MockInv` says that what is queued is in order of request
and newer than the request in work, and what each thread knows of the other at every
point.

**Map and label step** (`SemanticPipelineProofs`). `PipelineInv` joins five facts
that need each other: the types, that a voxel and its slot name each other
(`OneSlot`), that a dead slot is swept clean (`Blank`), the exact votes, and the
freshness of the labels. From it: `MapIsTyped`, `SlotsAreStable`, `VotesAreExact`,
`DeadReadsBlank`, `LabelsAreFresh`, `SeedsAreLive`; `ThingsOutvoteStuff` by a lemma
on the biased argmax; `CropHidesNothing` for configurations with a crop. For the
GPU, `DeviceInv` says what a cell of the depth buffer holds when any of the threads
have run: the nearest of the splats done (`Nearest`). So `KernelsHold`, whatever the
order, and `BackendKeepsTheMap`, `BackendKeepsTheEvidence` and
`BackendKeepsTheSlots`: the theorems above hold of `BackendSpec`, with either back
end and with calls that fail.

**Inference** (`InferenceProofs`). One server serves all runs in turn.
`ChannelInv`: a request of the present client is the last in the queue and the only
one of its call; `SettledInv`: once a ping was answered nothing of an earlier run is
left in front of it, so the server's state is this client's own from then on.
`VocabularyInv` and `MemoryInv` say what that state is at each stage of the
protocol. Hence `EveryReplyAnswersItsCall`, `TracksStayApart` and, with lemmas on
how the two sides order the names and on what merging the queries leaves of them,
`LabelsMeanTheSame` and `InstancesMatchThings`. The last has the hypothesis `ProperNames`: no name of a
configuration is empty or both a thing and stuff. Without it the client takes the
first declaration, and the maps may disagree with it.

**Objects** (`ObjectsProofs`). To the components a step does one of four things:
nothing, a new one, two united, a proposal joined (`Steps`); each invariant is
preserved by the four.

* `TypesHold` (`TypeInv`): every reference names a component that exists, and
  `root` is a flat forest.
* `OwnersHold`: the two halves of `OwnersMatch` are inductive with it.
* `PurityHolds`: `ComponentsArePure` speaks only of what was folded. `ClassesApart`
  says that some assignment of a class to every component agrees with all that was
  folded, with each edge and with each pair still to be examined; the theorem
  picks that assignment and extends it at a new component.
* `ListHolds`: the list may be behind the components inside a call; `FlagsTell`
  says that `changed` and `merged` remember when, and that no call returns before it
  has caught up. `PartitionHolds`: the order on holders has a best one, ties broken
  by the id.
* `SmallIsolated`: `SweepInv` says that a sweep that has united nothing still has a
  true snapshot, and has passed no small component with a neighbour.
* `SupportHolds` and `EvidenceHolds` are about sums over finite sets. The folds of
  the library are unfolded once (`SumUnfold`), and sums over unions, images and
  groups derived (`SumUnion`, `SumFibres`, `SumBoth`), by induction over a *family*
  of sets (`FiniteInduction`), since the provers cannot instantiate an induction
  theorem with an operator. `RootedTwice` is what compaction rests on: adding up the
  edges by the roots of before a merge and then by those after it is the same as
  adding them up by the latter at once.

**Drivers** (`DriversProofs`). Both programs reach `OnlineSemantic` and the viewer
by few kinds of step (`StepKinds`). `StrideHolds`: `StrideInv` says that a
frame number is consolidated for good by the call that completes it. `ScreenHolds`:
`ScreenInv` follows the messages: the stores named on the wire agree with the calls
that made them, numbers increase along the wire into the screen, `finish` is the
last, and the last frame sent is on the wire or seen, unless it was dropped.

`StoreHolds`: the caller's store agrees with the objects handed out, and each polygon
was right at some call that returned, since when its object looks the same. The frames
are free: they may kill, revive and move any points, and leave the list behind the
map. The history `looks` keeps the sights of an object (its live members and where
they were) at the calls that returned, as long as its class, support, size and ends
stay. `StoreInv` says that what is cached looks as the history does and was built from
one of those sights: an entry is kept only by a hit, and equal signatures mean equal
looks (`SignatureTells`); and that the delta knows what the store holds. The
hypothesis `HullsAreRight` says that `convexHull2D` goes around its points and has
its corners among them; the hull is a loop over data, and TLC evaluates the
hypothesis on every set of the run's places (`MCHulls`).

`ReplayHolds`: a replay that ran to its end delivered every selected image that the
log can place, and no other. It takes the theorems of the synchroniser through the
`INSTANCE` and adds four facts about the source. `Cursors`: where the two cursors
stand. `Merged`: the synchroniser holds the scans and the selected images up to the
cursors, and no scan went before an older image nor an image before a scan that is
not newer. `Phases`: what each phase of a run says of the synchroniser. `FatesRight`:
every image dropped could not have been placed (it was not too old for a pose, did
not lack a newer scan, was not crowded out of the queue, unless the log itself makes
it so), and every one delivered could.

**Proposals** (`ProposalsProofs`). For any views, superpoints and parameters, and
whatever a clustering returns. `OwnersHold`: claims and membership agree, when a
frame starts over, when `seedLocal` adds to what there is, and as the superpoints
are annexed. `GrowthHasNoOrder`: in overlapping mode what a proposal has annexed is
in every family that leaves nothing to annex, since a share only grows
(`Takes` is monotone), and a sweep that changed nothing is such a family.
`FlatClustersHold`: the flat clusters of a clustering are the heaviest choice of
disjoint condensed clusters, or the finest. `TreeInv` keeps what a clustering leaves:
the points it was given are apart, so that every dendrogram of them is a binary tree of
positive heights (`DendrogramsAreTrees`, over the sets of points), and its condensed
clusters lie within or outside each other (`IsCondensed`). Going up from the smallest
cluster, what a cluster hands up is the mass of what is kept in it and no other choice
within it has more (`AllHandUpTheMost`, with sums taken part by part); and every point
is in the flat cluster that its selected cluster names (`FlatIsSelection`). The
recursions of `Linkage` and `HandedUp` are unfolded once each (`LinkageUnfold`,
`HandedUpUnfold`). When all classes are clustered at once the points are apart because
a view is narrower than `ClassGap` (`object_seeds.cpp:410`).

`ClassesHold`: every seed is of its class, and no proposal grows beyond it. What is
annexed is bounded by what the seed already holds, so a seed always outweighs the
bar's share of its proposal (`ShareInv`); stated for a bar of at most 100 per cent.
That the seeds are of one class each is immediate for classes clustered one by one.
For all classes clustered at once it is an argument about groups of points far from
each other. A last link goes between two whole groups as long as there are two
(`GroupLinks`), so in every dendrogram the groups lie below the links between them
(`LinkageLayers`). Then every group is a condensed cluster, what is made of whole
groups is born at a low density and what happens within a group does so at a high one
(`CondensedGroups`, from `min_class_points >= min_cluster_size`); a cluster of several
groups has less mass than the groups in it hand up, so excess of mass never keeps it,
and it is no leaf (`FlatOfOne`). The classes are such groups if each has `min_pts`
points, since then no core distance leaves its class (`ReachGrouped`).

`DeadReadsBlank`, `LabelsAreFresh`, `ThingsOutvoteStuff` and `TypesHold` are facts
that no run repeats.

Only model-checked:

* the liveness properties `PlaceableImageLeaves`, `AcceptedIsAnswered`,
  `GateReopens`, `CallsReturn` and `CallsComeBack`: fairness and ENABLED are beyond
  the prover;
* that the hull is right (`HullsAreRight`), a loop over data.


## Not modelled

Arithmetic of interpolation, centroids, intensities and outlier statistics;
rendering, parsing of chunks and images, YAML, the layout of msgpack and of the
robot's messages (`GmdFrameSource` converts them and keeps no state); the
segmentation network; VCCS and the building of the dendrogram (PCL and a vendored
library), which may return anything their interface allows; two clients on one
server at the same time, which nothing in the repository starts; a viewer that
restarts; `refreshLocal` and `refreshWhole` of the superpoints, which no driver
calls; `exp_per_view.cpp` (a one-off experiment); the real sign reader's library,
whose sources are not in the repository; `gmdDataTypesForInterns2` (vendored
types) and `mask3d_feat` (dormant). `setObjectsHook` is used by no driver, and
`ObjectDelta` only as its header describes it for the robot's code, so the store
it feeds is external in `SemanticRunner`. `PROJECT.json` gives the reason per
component.

## What could follow

The correctness of `convexHull2D` for every set of points, by an invariant of its
monotone-chain loop; it is checked on the runs' instances (`MCHulls`).
