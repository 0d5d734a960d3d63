-------------------------- MODULE SemanticPipeline --------------------------
(***************************************************************************)
(* One synced frame over the world map (stepFrameSynced,                   *)
(* semantic_pipeline.h): infer the 2D labels, fuse the scan without its    *)
(* dynamic points, project the map, keep the front shell of every pixel,   *)
(* and label it or, where it shows a dynamic object, kill it.  The thing   *)
(* points of the shell are the working set of the stages behind.           *)
(*                                                                         *)
(* A camera says where a voxel falls: its pixel (Off when it is behind or  *)
(* outside the image), the pixels its splat covers, its depth, and whether *)
(* it is within the projection radius.  A lidar return of a voxel may fall *)
(* on any pixel the voxel covers, whether or not something hides it.       *)
(***************************************************************************)
EXTENDS Universe

CONSTANTS
  Pixels, Off,
  Cameras,    \* records [near, pix, cover, depth]
  Frames2D,   \* inference results: records [label, inst], functions on Pixels
  Dynamic,    \* the classes whose geometry is rejected
  Crop,       \* is the effective projection radius positive?
  Tau,        \* z-buffer visibility tolerance
  Band,       \* surf_band
  MaxFrames   \* bound: frames

ASSUME PipelineAssumption ==
  /\ Off \notin Pixels
  /\ Cameras \subseteq [near : SUBSET Voxels, pix : [Voxels -> Pixels \union {Off}],
                        cover : [Voxels -> SUBSET Pixels], depth : [Voxels -> Nat]]
  /\ \A cam \in Cameras : \A v \in Voxels :
       cam.pix[v] # Off => cam.pix[v] \in cam.cover[v]
  /\ Frames2D \subseteq [label : [Pixels -> Classes \union {None}],
                         inst : [Pixels -> Instances \union {None}]]
  /\ Dynamic \subseteq Classes /\ Crop \in BOOLEAN
  /\ Tau \in Nat /\ Band \in Nat /\ MaxFrames \in Nat

VARIABLES
  thingsOnly,  \* things_only
  frames,      \* views registered
  step,        \* "next" between two frames, "fuse" while a scan is integrated
  cam, fr,     \* the frame's camera and inference result
  gidx,        \* out_gidx: the front shell of the last frame
  sightings    \* history: how often the present occupant of each slot was
               \* labelled with each class

vars == <<universeVars, thingsOnly, frames, step, cam, fr, gidx, sightings>>

Init ==
  /\ UniverseInit
  /\ thingsOnly \in BOOLEAN
  /\ frames = 0 /\ step = "next"
  /\ cam \in Cameras /\ fr \in Frames2D
  /\ gidx = {} /\ sightings = <<>>
-----------------------------------------------------------------------------
\* addView: views are numbered and kept; the last one is what is projected into.
AddView(c) == cam' = c /\ frames' = frames + 1

\* inf.frame returned; a frame it throws on changes nothing.
Infer(c, f) ==
  /\ step = "next" /\ frames < MaxFrames
  /\ AddView(c) /\ fr' = f
  /\ step' = "fuse"
  /\ UNCHANGED <<universeVars, thingsOnly, gidx, sightings>>

\* The pixels a return of voxel v can fall on.
HitPixels(v) == IF cam.pix[v] = Off THEN {Off} ELSE cam.cover[v]

Rejected(px) == px # Off /\ fr.label[px] \in Dynamic

\* The next point of the scan, a return of voxel v seen at pixel px.
Fuse(v, px) ==
  /\ step = "fuse"
  /\ ~Rejected(px)
  /\ FusePoint(v)
  /\ sightings' = IF v \notin DOMAIN vox THEN Append(sightings, NoVotes)
                  ELSE IF alive[vox[v]] THEN sightings
                  ELSE [sightings EXCEPT ![vox[v]] = NoVotes]
  /\ UNCHANGED <<thingsOnly, frames, step, cam, fr, gidx>>
-----------------------------------------------------------------------------
Pixel(i) == cam.pix[place[i]]
Depth(i) == cam.depth[place[i]]

CandidatesDeadToo == {i \in Points : Crop => place[i] \in cam.near}  \* mutant: dead ones too

\* What is projected: the live crop, or the whole map with its dead points.
Candidates == {i \in Points : Crop => alive[i] /\ place[i] \in cam.near}

\* The z-buffer: nothing is nearer, beyond the tolerance, at the point's pixel.
Visible(i) ==
  /\ Pixel(i) # Off
  /\ \A j \in Candidates :
       Pixel(j) # Off /\ Pixel(i) \in cam.cover[place[j]] => Depth(i) <= Depth(j) + Tau

Seen == {i \in Candidates : Visible(i) /\ alive[i]}

\* Of the live visible points those within Band of the nearest at their pixel.
Shell == {i \in Seen : \A j \in Seen : Pixel(j) = Pixel(i) => Depth(i) <= Depth(j) + Band}

ShowsDynamic(S) == {i \in S : fr.label[Pixel(i)] \in Dynamic}

Labelled(S) ==
  {i \in S : /\ fr.label[Pixel(i)] \notin Dynamic \union {None}
             /\ thingsOnly => fr.label[Pixel(i)] \notin Stuff}

\* The projection and both passes over it.
Stamp ==
  /\ step = "fuse"
  /\ Relabel(ShowsDynamic(Shell),
             [i \in Labelled(Shell) |-> [class |-> fr.label[Pixel(i)],
                                         inst  |-> fr.inst[Pixel(i)]]])
  /\ gidx' = Shell
  /\ sightings' = [i \in Points |->
       IF i \in Labelled(Shell) THEN [sightings[i] EXCEPT ![fr.label[Pixel(i)]] = @ + 1]
                                ELSE sightings[i]]
  /\ step' = "next"
  /\ UNCHANGED <<thingsOnly, frames, cam, fr>>

\* What seeding works on (onSynced): the shell's points of a thing class.
Active == {i \in gidx : PointClass(i) \in Things}

Next ==
  \/ \E c \in Cameras, f \in Frames2D : Infer(c, f)
  \/ \E v \in Voxels : \E px \in HitPixels(v) : Fuse(v, px)
  \/ Stamp

Spec == Init /\ [][Next]_vars
-----------------------------------------------------------------------------
\* Every array is as long as the map and in its range.
TypeOK ==
  /\ voting \in BOOLEAN /\ thingsOnly \in BOOLEAN
  /\ place \in Seq(Voxels)
  /\ DOMAIN vox \subseteq Voxels /\ \A v \in DOMAIN vox : vox[v] \in Points
  /\ alive \in [Points -> BOOLEAN]
  /\ flabel \in [Points -> Classes \union {None}]
  /\ fiid \in [Points -> Instances \union {None}]
  /\ votes \in [Points -> [Classes -> 0 .. VoteCap]]
  /\ sightings \in [Points -> [Classes -> Nat]]
  /\ frames \in 0 .. MaxFrames /\ step \in {"next", "fuse"}
  /\ cam \in Cameras /\ fr \in Frames2D
  /\ gidx \subseteq Points

\* Global indices stay valid: a slot never goes and never names another place
\* (universe.h:209 "The point KEEPS its index"; docs/architecture.md:35-39).
IndicesNeverShift ==
  [][\A i \in Points : i \in Points' /\ place'[i] = place[i] /\ vox'[place[i]] = i]_vars

\* A dead point reads as unlabelled in both modes, whoever forgets to skip it
\* (universe.h:211-212).
DeadIsBlank ==
  \A i \in Points : ~alive[i] => PointClass(i) = None /\ fiid[i] = None /\ votes[i] = NoVotes

\* The votes of a slot are exactly the sightings of its present occupant, cut off at
\* the cap: nothing of an occupant that was killed survives the revival, nothing is
\* counted twice, and a full bin does not wrap (universe.cpp:129-142, 262).
EvidenceIsExact ==
  \A i \in Points : \A c \in Classes :
    alive[i] => votes[i][c] =
                  IF ~voting THEN 0
                  ELSE IF sightings[i][c] < VoteCap THEN sightings[i][c] ELSE VoteCap

\* Between frames the transient labels are this frame's: a point that carries one is
\* a live point of the front shell and the label is the one at its pixel
\* (universe.h:141-144).
LabelsAreThisFrames ==
  step = "next" =>
    \A i \in Points :
      /\ flabel[i] # None => i \in gidx /\ alive[i] /\ flabel[i] = fr.label[Pixel(i)]
      /\ fiid[i] # None => i \in gidx /\ alive[i] /\ fiid[i] = fr.inst[Pixel(i)]

\* Seeding never works on a dead point, though the shell it is taken from still
\* holds the points this frame has killed.
ActiveIsLive == step = "next" => \A i \in Active : alive[i]

\* With voting, a thing that wins holds at least StuffBias times the votes of every
\* stuff class (universe.h:150-154), unless a bin is full.
ThingNeedsBias ==
  voting =>
    \A i \in Points :
      PointClass(i) \notin Stuff \union {None} =>
        \A c \in Stuff : sightings[i][c] < VoteCap =>
          sightings[i][PointClass(i)] >= StuffBias * sightings[i][c]

\* A live point near the camera that no live point hides is in the front shell:
\* tombstones hide nothing (universe.h:206-208 "so every read-time enumeration skips
\* it: local() crops (hence projection candidates, ...)").
TombstonesHideNothing ==
  step = "fuse" =>
    \A i \in Points :
      /\ alive[i] /\ place[i] \in cam.near /\ Pixel(i) # Off
      /\ \A j \in Points :
           alive[j] /\ Pixel(j) # Off /\ Pixel(i) \in cam.cover[place[j]] => Depth(i) <= Depth(j)
      => i \in Shell

\* semantic_pipeline.h:228-229 says out_gidx receives "visible, live global indices".
WorkingSetIsLive == step = "next" => \A i \in gidx : alive[i]
=============================================================================
