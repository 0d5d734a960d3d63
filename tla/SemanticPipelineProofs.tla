----------------------- MODULE SemanticPipelineProofs -----------------------
(***************************************************************************)
(* The world map under the synced pipeline, for any voxels, classes,       *)
(* cameras and inference results, and any number of frames.                *)
(*                                                                         *)
(* None of the properties is inductive.  PipelineInv joins what they need  *)
(* of each other: that a voxel and its slot name each other (OneSlot), so  *)
(* that a revived slot is the one whose history restarts; that a slot is   *)
(* swept clean when its point dies (Blank); that votes and sightings move  *)
(* together; that the labels left by a frame are those of its shell.       *)
(*                                                                         *)
(* DeviceInv says what the kernels know half way (Nearest), whichever      *)
(* threads have run; with it the theorems hold with either back end.       *)
(***************************************************************************)
EXTENDS DepthKernels, SequenceTheorems, TLAPS

\* A voxel that is in the map and its slot name each other.
OneSlot ==
  /\ \A v \in DOMAIN vox : place[vox[v]] = v
  /\ \A i \in Points : place[i] \in DOMAIN vox /\ vox[place[i]] = i

Blank == \A i \in Points : ~alive[i] => flabel[i] = None /\ fiid[i] = None /\ votes[i] = NoVotes

PipelineInv ==
  TypeOK /\ OneSlot /\ Blank /\ EvidenceIsExact /\ LabelsAreThisFrames
-----------------------------------------------------------------------------
\* g is the array f over S with x in one more slot, the others as they were.
Extends(g, f, n, S, x) ==
  g \in [1 .. n + 1 -> S] /\ g[n + 1] = x /\ \A i \in 1 .. n : g[i] = f[i]

\* Append on an array of the map.
LEMMA Extend ==
  ASSUME NEW S, NEW n \in Nat, NEW f \in [1 .. n -> S], NEW x \in S
  PROVE  Extends(Append(f, x), f, n, S, x)
<1>1. f \in Seq(S) /\ Len(f) = n
  BY SeqDef, LenProperties
<1>2. Append(f, x) \in Seq(S) /\ Len(Append(f, x)) = n + 1
  BY <1>1, AppendProperties
<1>3. Append(f, x) \in [1 .. n + 1 -> S]
  BY <1>2, LenProperties
<1>4. QED
  BY <1>1, <1>3, AppendProperties DEF Extends

\* The points are numbered from 1.
LEMMA PointsNumbered ==
  ASSUME TypeOK
  PROVE  Len(place) \in Nat /\ Points = 1 .. Len(place) /\ \A i \in Points : place[i] \in Voxels
BY LenProperties DEF TypeOK, Points

\* A point of the shell is alive and falls on a pixel, whose label and instance are typed.
LEMMA ShellFacts ==
  ASSUME TypeOK, NEW i \in Shell
  PROVE  /\ i \in Points /\ alive[i] /\ Pixel(i) \in Pixels
         /\ fr.label[Pixel(i)] \in Classes \union {None}
         /\ fr.inst[Pixel(i)] \in Instances \union {None}
<1>1. i \in Points /\ alive[i] /\ Pixel(i) # Off
  BY DEF Shell, Seen, Candidates, Visible
<1>2. place[i] \in Voxels /\ cam \in Cameras /\ fr \in Frames2D
  BY <1>1, PointsNumbered DEF TypeOK
<1>3. Pixel(i) \in Pixels
  BY <1>1, <1>2, PipelineAssumption DEF Pixel
<1>4. QED
  BY <1>1, <1>2, <1>3, PipelineAssumption

\* What one frame does to one point.
LEMMA StampPoint ==
  ASSUME TypeOK, Stamp, NEW i \in Points
  PROVE  /\ i \in Labelled(Shell) => i \in Shell \ ShowsDynamic(Shell)
         /\ alive'[i] = (alive[i] /\ i \notin ShowsDynamic(Shell))
         /\ flabel'[i] = IF i \in Labelled(Shell) /\ ~voting THEN fr.label[Pixel(i)] ELSE None
         /\ fiid'[i] = IF i \in Labelled(Shell) THEN fr.inst[Pixel(i)] ELSE None
         /\ votes'[i] = IF i \in ShowsDynamic(Shell) THEN NoVotes
                        ELSE IF i \in Labelled(Shell) /\ voting
                          THEN CastVote(votes[i], fr.label[Pixel(i)])
                        ELSE votes[i]
         /\ sightings'[i] = IF i \in Labelled(Shell)
                              THEN [sightings[i] EXCEPT ![fr.label[Pixel(i)]] = @ + 1]
                            ELSE sightings[i]
<1> DEFINE lab  == [j \in Labelled(Shell) |-> [class |-> fr.label[Pixel(j)],
                                               inst  |-> fr.inst[Pixel(j)]]]
           dyn == ShowsDynamic(Shell)
<1>1. Relabel(dyn, lab) /\ DOMAIN lab = Labelled(Shell)
  BY DEF Stamp
<1>2. i \in Labelled(Shell) =>
        lab[i].class = fr.label[Pixel(i)] /\ lab[i].inst = fr.inst[Pixel(i)]
  OBVIOUS
<1>3. i \in Labelled(Shell) => i \in Shell \ dyn
  BY DEF Labelled, ShowsDynamic
<1>4. sightings'[i] = IF i \in Labelled(Shell)
                        THEN [sightings[i] EXCEPT ![fr.label[Pixel(i)]] = @ + 1]
                      ELSE sightings[i]
  BY DEF Stamp
<1> HIDE DEF lab, dyn
<1>5. /\ alive'[i] = (alive[i] /\ i \notin dyn)
      /\ flabel'[i] = IF i \in DOMAIN lab /\ ~voting THEN lab[i].class ELSE None
      /\ fiid'[i] = IF i \in DOMAIN lab THEN lab[i].inst ELSE None
      /\ votes'[i] = IF i \in dyn THEN NoVotes
                     ELSE IF i \in DOMAIN lab /\ voting THEN CastVote(votes[i], lab[i].class)
                     ELSE votes[i]
  BY <1>1 DEF Relabel, Kill
<1>6. QED
  BY <1>1, <1>2, <1>3, <1>4, <1>5 DEF dyn
-----------------------------------------------------------------------------
LEMMA InitInv == Init => PipelineInv
<1> SUFFICES ASSUME Init PROVE PipelineInv
  OBVIOUS
<1>1. Points = {} /\ DOMAIN vox = {} /\ Len(place) = 0
  BY DEF Init, UniverseInit, Points
<1>2. TypeOK
  <2>1. place \in Seq(Voxels) /\ frames \in 0 .. MaxFrames
    BY PipelineAssumption DEF Init, UniverseInit
  <2>2. alive = [i \in {} |-> FALSE] /\ flabel = alive /\ fiid = alive
        /\ votes = alive /\ sightings = alive
    BY DEF Init, UniverseInit
  <2>3. QED
    BY <1>1, <2>1, <2>2 DEF Init, UniverseInit, TypeOK
<1>3. QED
  BY <1>1, <1>2 DEF PipelineInv, OneSlot, Blank, EvidenceIsExact, LabelsAreThisFrames

LEMMA InferInv ==
  ASSUME PipelineInv, NEW c \in Cameras, NEW f \in Frames2D, Infer(c, f)
  PROVE  PipelineInv'
<1>1. TypeOK'
  BY PipelineAssumption DEF PipelineInv, Infer, AddView, universeVars, TypeOK, Points
<1>2. OneSlot' /\ Blank' /\ EvidenceIsExact'
  BY DEF PipelineInv, Infer, AddView, universeVars, OneSlot, Blank, EvidenceIsExact, Points
<1>3. LabelsAreThisFrames'
  BY DEF Infer, AddView, LabelsAreThisFrames
<1>4. QED
  BY <1>1, <1>2, <1>3 DEF PipelineInv

\* A point in a new place gets the next index.
LEMMA AppendInv ==
  ASSUME PipelineInv, NEW v \in Voxels, NEW px, Fuse(v, px), AppendPoint(v)
  PROVE  PipelineInv'
<1> DEFINE n == Len(place)
<1>1. /\ n \in Nat /\ Points = 1 .. n /\ place \in [1 .. n -> Voxels]
      /\ TypeOK /\ OneSlot /\ Blank /\ EvidenceIsExact
  BY PointsNumbered DEF PipelineInv, TypeOK, Points
<1>2. NoVotes \in [Classes -> 0 .. VoteCap] /\ NoVotes \in [Classes -> Nat]
  BY UniverseAssumption DEF NoVotes
<1>3. /\ place' = Append(place, v) /\ alive' = Append(alive, TRUE)
      /\ flabel' = Append(flabel, None) /\ fiid' = Append(fiid, None)
      /\ votes' = Append(votes, NoVotes) /\ sightings' = Append(sightings, NoVotes)
  BY DEF AppendPoint, Fuse
<1>4. /\ alive \in [1 .. n -> BOOLEAN]
      /\ flabel \in [1 .. n -> Classes \union {None}]
      /\ fiid \in [1 .. n -> Instances \union {None}]
      /\ votes \in [1 .. n -> [Classes -> 0 .. VoteCap]]
      /\ sightings \in [1 .. n -> [Classes -> Nat]]
  BY <1>1 DEF TypeOK
<1> HIDE DEF n
<1>5. Extends(place', place, n, Voxels, v)
  BY <1>1, <1>3, Extend
<1>6. Extends(alive', alive, n, BOOLEAN, TRUE)
  BY <1>1, <1>3, <1>4, Extend
<1>7. Extends(flabel', flabel, n, Classes \union {None}, None)
      /\ Extends(fiid', fiid, n, Instances \union {None}, None)
  BY <1>1, <1>3, <1>4, Extend
<1>8. Extends(votes', votes, n, [Classes -> 0 .. VoteCap], NoVotes)
      /\ Extends(sightings', sightings, n, [Classes -> Nat], NoVotes)
  BY <1>1, <1>2, <1>3, <1>4, Extend
<1>9. /\ v \notin DOMAIN vox /\ DOMAIN vox' = DOMAIN vox \union {v}
      /\ vox'[v] = n + 1 /\ \A w \in DOMAIN vox : vox'[w] = vox[w]
      /\ UNCHANGED <<voting, thingsOnly, frames, step, cam, fr, gidx>>
  BY DEF AppendPoint, Fuse, FusePoint, n
<1>10. Points' = 1 .. n + 1
  BY <1>5 DEF Points, Extends
<1>11. place' \in Seq(Voxels)
  BY <1>1, <1>5, SeqDef DEF Extends
<1>12. TypeOK'
  BY <1>1, <1>6, <1>7, <1>8, <1>9, <1>10, <1>11 DEF TypeOK, Extends
<1>13. OneSlot'
  <2>1. ASSUME NEW w \in DOMAIN vox' PROVE place'[vox'[w]] = w
    BY <1>1, <1>5, <1>9 DEF OneSlot, TypeOK, Extends
  <2>2. ASSUME NEW i \in 1 .. n + 1 PROVE place'[i] \in DOMAIN vox' /\ vox'[place'[i]] = i
    <3>1. CASE i = n + 1
      BY <1>5, <1>9, <3>1 DEF Extends
    <3>2. CASE i # n + 1
      <4>1. i \in 1 .. n
        BY <1>1, <3>2
      <4>2. QED
        BY <1>1, <1>5, <1>9, <4>1 DEF OneSlot, Extends
    <3>3. QED
      BY <3>1, <3>2
  <2>3. QED
    BY <1>10, <2>1, <2>2 DEF OneSlot
<1>14. Blank'
  <2>1. ASSUME NEW i \in 1 .. n + 1, ~alive'[i]
        PROVE  flabel'[i] = None /\ fiid'[i] = None /\ votes'[i] = NoVotes
    <3>1. i \in 1 .. n
      BY <1>1, <1>6, <2>1 DEF Extends
    <3>2. QED
      BY <1>1, <1>6, <1>7, <1>8, <2>1, <3>1 DEF Blank, Extends
  <2>2. QED
    BY <1>10, <2>1 DEF Blank, NoVotes
<1>15. EvidenceIsExact'
  <2>1. ASSUME NEW i \in 1 .. n + 1, NEW c \in Classes, alive'[i]
        PROVE  votes'[i][c] = IF ~voting THEN 0
                              ELSE IF sightings'[i][c] < VoteCap THEN sightings'[i][c]
                              ELSE VoteCap
    <3>1. CASE i = n + 1
      BY <1>8, <3>1, UniverseAssumption DEF NoVotes, Extends
    <3>2. CASE i # n + 1
      <4>1. i \in 1 .. n
        BY <1>1, <3>2
      <4>2. alive[i] /\ votes'[i] = votes[i] /\ sightings'[i] = sightings[i]
        BY <1>6, <1>8, <2>1, <4>1 DEF Extends
      <4>3. QED
        BY <1>1, <4>1, <4>2 DEF EvidenceIsExact
    <3>3. QED
      BY <3>1, <3>2
  <2>2. QED
    BY <1>9, <1>10, <2>1 DEF EvidenceIsExact
<1>16. LabelsAreThisFrames'
  BY <1>9 DEF Fuse, LabelsAreThisFrames
<1>17. QED
  BY <1>12, <1>13, <1>14, <1>15, <1>16 DEF PipelineInv

\* The slot of a dead point is taken over, its history restarts.
LEMMA ReviveInv ==
  ASSUME PipelineInv, NEW v \in Voxels, NEW px, Fuse(v, px), RevivePoint(v)
  PROVE  PipelineInv'
<1> DEFINE s == vox[v]
<1>1. /\ v \in DOMAIN vox /\ s \in Points /\ ~alive[s]
      /\ TypeOK /\ OneSlot /\ Blank /\ EvidenceIsExact
  BY DEF PipelineInv, TypeOK, RevivePoint
<1>2. NoVotes \in [Classes -> 0 .. VoteCap] /\ NoVotes \in [Classes -> Nat]
  BY UniverseAssumption DEF NoVotes
<1>3. /\ alive'  = [alive EXCEPT ![s] = TRUE]
      /\ flabel' = [flabel EXCEPT ![s] = None]
      /\ fiid'   = [fiid EXCEPT ![s] = None]
      /\ votes'  = [votes EXCEPT ![s] = NoVotes]
      /\ sightings' = [sightings EXCEPT ![s] = NoVotes]
      /\ UNCHANGED <<place, vox, voting, thingsOnly, frames, step, cam, fr, gidx>>
  BY <1>1 DEF RevivePoint, Fuse, FusePoint
<1>4. Points' = Points
  BY <1>3 DEF Points
<1> HIDE DEF s
<1>5. TypeOK'
  BY <1>1, <1>2, <1>3, <1>4 DEF TypeOK
<1>6. OneSlot'
  BY <1>1, <1>3, <1>4 DEF OneSlot
<1>7. Blank'
  BY <1>1, <1>3, <1>4 DEF TypeOK, Blank, NoVotes
<1>8. EvidenceIsExact'
  <2>1. ASSUME NEW i \in Points, NEW c \in Classes, alive'[i]
        PROVE  votes'[i][c] = IF ~voting THEN 0
                              ELSE IF sightings'[i][c] < VoteCap THEN sightings'[i][c]
                              ELSE VoteCap
    <3>1. CASE i = s
      <4>1. votes'[i] = NoVotes /\ sightings'[i] = NoVotes
        BY <1>1, <1>3, <3>1 DEF TypeOK
      <4>2. QED
        BY <4>1, UniverseAssumption DEF NoVotes
    <3>2. CASE i # s
      <4>1. alive[i] /\ votes'[i] = votes[i] /\ sightings'[i] = sightings[i]
        BY <1>1, <1>3, <2>1, <3>2 DEF TypeOK
      <4>2. QED
        BY <1>1, <4>1 DEF EvidenceIsExact
    <3>3. QED
      BY <3>1, <3>2
  <2>2. QED
    BY <1>3, <1>4, <2>1 DEF EvidenceIsExact
<1>9. LabelsAreThisFrames'
  BY <1>3 DEF Fuse, LabelsAreThisFrames
<1>10. QED
  BY <1>5, <1>6, <1>7, <1>8, <1>9 DEF PipelineInv

LEMMA FuseInv ==
  ASSUME PipelineInv, NEW v \in Voxels, NEW px \in HitPixels(v), Fuse(v, px)
  PROVE  PipelineInv'
<1>1. CASE AppendPoint(v)
  BY <1>1, AppendInv
<1>2. CASE RevivePoint(v)
  BY <1>2, ReviveInv
<1>3. CASE RefinePoint(v)
  <2>1. UNCHANGED vars
    BY <1>3 DEF RefinePoint, Fuse, FusePoint, vars, universeVars
  <2>2. QED
    BY <2>1 DEF PipelineInv, TypeOK, OneSlot, Blank, EvidenceIsExact, LabelsAreThisFrames,
                Points, Pixel, vars, universeVars
<1>4. QED
  BY <1>1, <1>2, <1>3 DEF Fuse, FusePoint
-----------------------------------------------------------------------------
LEMMA CastVoteType ==
  ASSUME NEW hist \in [Classes -> 0 .. VoteCap], NEW c \in Classes
  PROVE  /\ CastVote(hist, c) \in [Classes -> 0 .. VoteCap]
         /\ \A d \in Classes : CastVote(hist, c)[d] =
              IF d = c /\ hist[d] < VoteCap THEN hist[d] + 1 ELSE hist[d]
BY UniverseAssumption DEF CastVote

LEMMA StampInv ==
  ASSUME PipelineInv, Stamp
  PROVE  PipelineInv'
<1> DEFINE L == Labelled(Shell)
           K == ShowsDynamic(Shell)
           Label(i) == fr.label[Pixel(i)]
<1>1. /\ TypeOK /\ OneSlot /\ Blank /\ EvidenceIsExact
      /\ UNCHANGED <<voting, place, vox, thingsOnly, frames, cam, fr>>
      /\ step' = "next" /\ gidx' = Shell /\ Points' = Points
  BY DEF PipelineInv, Stamp, Relabel, Points
<1>2. Shell \subseteq Points
  BY DEF Shell, Seen, Candidates
<1>3. ASSUME NEW i \in Points, i \in L
      PROVE  /\ i \in Shell /\ i \notin K /\ alive[i]
             /\ Label(i) \in Classes /\ fr.inst[Pixel(i)] \in Instances \union {None}
  <2>1. i \in Shell /\ i \notin K /\ Label(i) # None
    BY <1>3 DEF Labelled, ShowsDynamic
  <2>2. QED
    BY <1>1, <2>1, ShellFacts
<1>4. ASSUME NEW i \in Points
      PROVE  /\ alive'[i] = (alive[i] /\ i \notin K)
             /\ flabel'[i] = IF i \in L /\ ~voting THEN Label(i) ELSE None
             /\ fiid'[i] = IF i \in L THEN fr.inst[Pixel(i)] ELSE None
             /\ votes'[i] = IF i \in K THEN NoVotes
                            ELSE IF i \in L /\ voting THEN CastVote(votes[i], Label(i))
                            ELSE votes[i]
             /\ sightings'[i] = IF i \in L THEN [sightings[i] EXCEPT ![Label(i)] = @ + 1]
                                ELSE sightings[i]
  BY <1>1, StampPoint
<1>5. /\ DOMAIN alive' = Points /\ DOMAIN flabel' = Points /\ DOMAIN fiid' = Points
      /\ DOMAIN votes' = Points /\ DOMAIN sightings' = Points
      /\ alive' = [i \in Points |-> alive'[i]] /\ flabel' = [i \in Points |-> flabel'[i]]
      /\ fiid' = [i \in Points |-> fiid'[i]] /\ votes' = [i \in Points |-> votes'[i]]
      /\ sightings' = [i \in Points |-> sightings'[i]]
  BY DEF Stamp, Relabel, Kill
<1>6. NoVotes \in [Classes -> 0 .. VoteCap]
  BY UniverseAssumption DEF NoVotes
<1> HIDE DEF L, K, Label
<1>7. TypeOK'
  <2>1. ASSUME NEW i \in Points
        PROVE  /\ alive'[i] \in BOOLEAN
               /\ flabel'[i] \in Classes \union {None}
               /\ fiid'[i] \in Instances \union {None}
    BY <1>1, <1>3, <1>4 DEF TypeOK
  <2>2. ASSUME NEW i \in Points
        PROVE  votes'[i] \in [Classes -> 0 .. VoteCap]
    <3>1. votes[i] \in [Classes -> 0 .. VoteCap]
      BY <1>1 DEF TypeOK
    <3>2. i \in L => CastVote(votes[i], Label(i)) \in [Classes -> 0 .. VoteCap]
      BY <1>3, <3>1, CastVoteType
    <3>3. QED
      BY <1>4, <1>6, <3>1, <3>2
  <2>3. ASSUME NEW i \in Points
        PROVE  sightings'[i] \in [Classes -> Nat]
    <3>1. sightings[i] \in [Classes -> Nat]
      BY <1>1 DEF TypeOK
    <3>2. i \in L => [sightings[i] EXCEPT ![Label(i)] = @ + 1] \in [Classes -> Nat]
      BY <1>3, <3>1
    <3>3. QED
      BY <1>4, <3>1, <3>2
  <2>4. alive' \in [Points -> BOOLEAN] /\ flabel' \in [Points -> Classes \union {None}]
        /\ fiid' \in [Points -> Instances \union {None}]
    BY <1>5, <2>1
  <2>5. votes' \in [Points -> [Classes -> 0 .. VoteCap]]
        /\ sightings' \in [Points -> [Classes -> Nat]]
    BY <1>5, <2>2, <2>3
  <2>6. QED
    BY <1>1, <1>2, <2>4, <2>5 DEF TypeOK
<1>8. OneSlot'
  BY <1>1 DEF OneSlot
<1>9. Blank'
  <2>1. ASSUME NEW i \in Points, ~alive'[i]
        PROVE  flabel'[i] = None /\ fiid'[i] = None /\ votes'[i] = NoVotes
    <3>1. i \notin L /\ (i \in K \/ ~alive[i])
      BY <1>3, <1>4, <2>1
    <3>2. QED
      BY <1>1, <1>4, <3>1 DEF Blank
  <2>2. QED
    BY <1>1, <2>1 DEF Blank, NoVotes
<1>10. EvidenceIsExact'
  <2>1. ASSUME NEW i \in Points, NEW c \in Classes, alive'[i]
        PROVE  votes'[i][c] = IF ~voting THEN 0
                              ELSE IF sightings'[i][c] < VoteCap THEN sightings'[i][c]
                              ELSE VoteCap
    <3>1. /\ alive[i] /\ i \notin K
          /\ votes[i] \in [Classes -> 0 .. VoteCap] /\ sightings[i] \in [Classes -> Nat]
      BY <1>1, <1>4, <2>1 DEF TypeOK
    <3>2. votes[i][c] = IF ~voting THEN 0
                        ELSE IF sightings[i][c] < VoteCap THEN sightings[i][c] ELSE VoteCap
      BY <1>1, <3>1 DEF EvidenceIsExact
    <3>3. CASE i \notin L
      BY <1>4, <3>1, <3>2, <3>3
    <3>4. CASE i \in L
      <4>1. /\ Label(i) \in Classes /\ sightings'[i] = [sightings[i] EXCEPT ![Label(i)] = @ + 1]
            /\ votes'[i] = IF voting THEN CastVote(votes[i], Label(i)) ELSE votes[i]
        BY <1>3, <1>4, <3>1, <3>4
      <4>2. sightings'[i][c] = IF c = Label(i) THEN sightings[i][c] + 1 ELSE sightings[i][c]
        BY <3>1, <4>1
      <4>3. votes'[i][c] = IF voting /\ c = Label(i) /\ votes[i][c] < VoteCap
                             THEN votes[i][c] + 1 ELSE votes[i][c]
        <5>1. CastVote(votes[i], Label(i))[c] =
                IF c = Label(i) /\ votes[i][c] < VoteCap THEN votes[i][c] + 1 ELSE votes[i][c]
          BY <3>1, <4>1, CastVoteType
        <5>2. QED
          BY <4>1, <5>1
      <4>4. votes[i][c] \in Nat /\ sightings[i][c] \in Nat /\ VoteCap \in Nat \ {0}
        BY <3>1, UniverseAssumption
      <4>5. QED
        BY <3>2, <4>2, <4>3, <4>4
    <3>5. QED
      BY <3>3, <3>4
  <2>2. QED
    BY <1>1, <2>1 DEF EvidenceIsExact
<1>11. LabelsAreThisFrames'
  <2>1. ASSUME NEW i \in Points
        PROVE  /\ flabel'[i] # None => i \in Shell /\ alive'[i] /\ flabel'[i] = Label(i)
               /\ fiid'[i] # None => i \in Shell /\ alive'[i] /\ fiid'[i] = fr.inst[Pixel(i)]
    BY <1>3, <1>4
  <2>2. QED
    BY <1>1, <2>1 DEF LabelsAreThisFrames, Pixel, Label
<1>12. QED
  BY <1>7, <1>8, <1>9, <1>10, <1>11 DEF PipelineInv
-----------------------------------------------------------------------------
LEMMA NextInv == PipelineInv /\ [Next]_vars => PipelineInv'
<1> SUFFICES ASSUME PipelineInv, [Next]_vars PROVE PipelineInv'
  OBVIOUS
<1>1. ASSUME NEW c \in Cameras, NEW f \in Frames2D, Infer(c, f) PROVE PipelineInv'
  BY <1>1, InferInv
<1>2. ASSUME NEW v \in Voxels, NEW px \in HitPixels(v), Fuse(v, px) PROVE PipelineInv'
  BY <1>2, FuseInv
<1>3. CASE Stamp
  BY <1>3, StampInv
<1>4. CASE UNCHANGED vars
  BY <1>4 DEF PipelineInv, TypeOK, OneSlot, Blank, EvidenceIsExact, LabelsAreThisFrames,
              Points, Pixel, vars, universeVars
<1>5. QED
  BY <1>1, <1>2, <1>3, <1>4 DEF Next

\* The invariant behind the theorems below holds of every state of the pipeline.
THEOREM PipelineInvariant == Spec => []PipelineInv
<1>1. Init => PipelineInv
  BY InitInv
<1>2. PipelineInv /\ [Next]_vars => PipelineInv'
  BY NextInv
<1>3. QED
  BY <1>1, <1>2, PTL DEF Spec

\* Every array of the map stays as long as the map and in its range.
THEOREM MapIsTyped == Spec => []TypeOK
<1>1. PipelineInv => TypeOK
  BY DEF PipelineInv
<1>2. QED
  BY <1>1, PipelineInvariant, PTL

\* The votes of a slot are those of its present occupant, each counted once, up to
\* the cap: neither a kill and a revival nor a full bin makes them lie.
THEOREM VotesAreExact == Spec => []EvidenceIsExact
<1>1. PipelineInv => EvidenceIsExact
  BY DEF PipelineInv
<1>2. QED
  BY <1>1, PipelineInvariant, PTL

\* Between frames no point carries a label of an earlier frame.
THEOREM LabelsAreFresh == Spec => []LabelsAreThisFrames
<1>1. PipelineInv => LabelsAreThisFrames
  BY DEF PipelineInv
<1>2. QED
  BY <1>1, PipelineInvariant, PTL

\* A dead point reads as unlabelled, by the frame's labels and by the votes.
LEMMA DeadBlank == PipelineInv => DeadIsBlank
<1> SUFFICES ASSUME PipelineInv, NEW i \in Points, ~alive[i]
             PROVE  PointClass(i) = None /\ fiid[i] = None /\ votes[i] = NoVotes
  BY DEF DeadIsBlank
<1>1. flabel[i] = None /\ fiid[i] = None /\ votes[i] = NoVotes
  BY DEF PipelineInv, Blank
<1>2. \A c \in Classes : ~ (NoVotes[c] > 0)
  BY DEF NoVotes
<1>3. ~ \E c \in Classes : Leads(NoVotes, c)
  BY <1>2 DEF Leads
<1>4. Consensus(NoVotes) = None
  BY <1>3 DEF Consensus
<1>5. QED
  BY <1>1, <1>4 DEF PointClass

\* A dead point reads as unlabelled in both modes, whoever forgets to skip it
\* (universe.h:211-212).
THEOREM DeadReadsBlank == Spec => []DeadIsBlank
<1>1. QED
  BY DeadBlank, PipelineInvariant, PTL

LEMMA SeedsLive == PipelineInv => ActiveIsLive
<1> SUFFICES ASSUME PipelineInv, NEW i \in Active PROVE alive[i]
  BY DEF ActiveIsLive
<1>1. i \in Points /\ PointClass(i) # None
  BY UniverseAssumption DEF Active, Things, PipelineInv, TypeOK
<1>2. alive[i] \in BOOLEAN
  BY <1>1 DEF PipelineInv, TypeOK
<1>3. QED
  BY <1>1, <1>2, DeadBlank DEF DeadIsBlank

\* Seeding is never given a dead point, though it reads the labels of every point of
\* a shell that still holds those the frame has killed.
THEOREM SeedsAreLive == Spec => []ActiveIsLive
<1>1. QED
  BY SeedsLive, PipelineInvariant, PTL
-----------------------------------------------------------------------------
LEMMA StableStep ==
  ASSUME PipelineInv, [Next]_vars
  PROVE  \/ \A i \in Points : i \in Points' /\ place'[i] = place[i] /\ vox'[place[i]] = i
         \/ UNCHANGED vars
<1> DEFINE Stable == \A i \in Points : i \in Points' /\ place'[i] = place[i] /\ vox'[place[i]] = i
<1>1. TypeOK /\ OneSlot
  BY DEF PipelineInv
<1>2. CASE UNCHANGED <<place, vox>>
  BY <1>1, <1>2 DEF OneSlot, Points
<1>3. ASSUME NEW v \in Voxels, AppendPoint(v) PROVE Stable
  <2>1. v \notin DOMAIN vox /\ \A w \in DOMAIN vox : vox'[w] = vox[w]
    BY <1>3 DEF AppendPoint
  <2>2. Extends(place', place, Len(place), Voxels, v)
    <3>1. place \in [1 .. Len(place) -> Voxels] /\ Len(place) \in Nat
      BY <1>1, LenProperties DEF TypeOK
    <3>2. place' = Append(place, v)
      BY <1>3 DEF AppendPoint
    <3>3. QED
      BY <3>1, <3>2, Extend
  <2>3. Points' = 1 .. Len(place) + 1 /\ Points = 1 .. Len(place) /\ Len(place) \in Nat
    BY <1>1, <2>2, PointsNumbered DEF Points, Extends
  <2>4. QED
    BY <1>1, <2>1, <2>2, <2>3 DEF OneSlot, Extends
<1>4. ASSUME NEW v \in Voxels, NEW px \in HitPixels(v), Fuse(v, px)
      PROVE  Stable \/ UNCHANGED <<place, vox>>
  BY <1>3, <1>4 DEF Fuse, FusePoint, RevivePoint, RefinePoint
<1>5. (\E c \in Cameras, f \in Frames2D : Infer(c, f)) \/ Stamp => UNCHANGED <<place, vox>>
  BY DEF Infer, Stamp, Relabel, universeVars
<1>6. QED
  BY <1>2, <1>4, <1>5 DEF Next

\* A slot is never lost, moved or given to another voxel, by any step.
THEOREM SlotsAreStable == Spec => IndicesNeverShift
<1>1. QED
  BY StableStep, PipelineInvariant, PTL DEF Spec, IndicesNeverShift
-----------------------------------------------------------------------------
\* A weighted argmax: a thing that leads is at least StuffBias times ahead.
LEMMA LeaderIsAhead ==
  ASSUME NEW hist \in [Classes -> Nat], NEW t \in Classes \ Stuff, Leads(hist, t),
         NEW c \in Stuff
  PROVE  hist[t] >= StuffBias * hist[c]
<1>1. c \in Classes /\ hist[c] \in Nat /\ hist[t] \in Nat /\ StuffBias \in Nat
  BY UniverseAssumption DEF Stuff
<1>2. CASE hist[c] = 0
  BY <1>1, <1>2
<1>3. CASE hist[c] > 0
  <2>1. Weight(hist, t) = hist[t]
    BY <1>1 DEF Weight
  <2>2. Weight(hist, t) >= Weight(hist, c)
    <3>1. Weight(hist, c) \in Nat
      BY <1>1 DEF Weight
    <3>2. QED
      BY <1>1, <1>3, <2>1, <3>1 DEF Leads
  <2>3. CASE StuffBias > 1
    <3>1. Weight(hist, c) = hist[c] * StuffBias
      BY <2>3 DEF Weight
    <3>2. hist[c] * StuffBias = StuffBias * hist[c]
      BY <1>1
    <3>3. QED
      BY <1>1, <2>1, <2>2, <3>1, <3>2
  <2>4. CASE StuffBias \in {0, 1}
    <3>1. Weight(hist, c) = hist[c]
      BY <1>1, <2>4 DEF Weight
    <3>2. hist[t] >= hist[c]
      BY <2>1, <2>2, <3>1
    <3>3. QED
      BY <1>1, <2>4, <3>2
  <2>5. QED
    BY <1>1, <2>3, <2>4
<1>4. QED
  BY <1>1, <1>2, <1>3

LEMMA BiasHolds == PipelineInv => ThingNeedsBias
<1> SUFFICES ASSUME PipelineInv, voting, NEW i \in Points,
                    PointClass(i) \notin Stuff \union {None},
                    NEW c \in Stuff, sightings[i][c] < VoteCap
             PROVE  sightings[i][PointClass(i)] >= StuffBias * sightings[i][c]
  BY DEF ThingNeedsBias
<1> DEFINE t == PointClass(i)
<1>1. /\ votes[i] \in [Classes -> 0 .. VoteCap] /\ sightings[i] \in [Classes -> Nat]
      /\ alive[i] \in BOOLEAN
  BY DEF PipelineInv, TypeOK
<1>2. alive[i]
  BY <1>1, DeadBlank DEF DeadIsBlank
<1>3. t \in Classes \ Stuff /\ Leads(votes[i], t)
  <2>1. t = Consensus(votes[i])
    BY DEF PointClass
  <2>2. Consensus(votes[i]) # None /\ Consensus(votes[i]) \notin Stuff
    BY <2>1
  <2>3. PICK d \in Classes : Leads(votes[i], d)
    BY <2>2 DEF Consensus
  <2>4. Consensus(votes[i]) = CHOOSE e \in Classes : Leads(votes[i], e)
    BY <2>2 DEF Consensus
  <2>5. QED
    BY <2>1, <2>2, <2>3, <2>4
<1>4. c \in Classes /\ VoteCap \in Nat
  BY UniverseAssumption DEF Stuff
<1>5. \A d \in Classes : votes[i][d] = IF sightings[i][d] < VoteCap THEN sightings[i][d]
                                        ELSE VoteCap
  BY <1>2 DEF PipelineInv, EvidenceIsExact
<1> HIDE DEF t
<1>6. votes[i][c] = sightings[i][c] /\ sightings[i][t] >= votes[i][t]
  BY <1>1, <1>3, <1>4, <1>5
<1>7. votes[i] \in [Classes -> Nat]
  BY <1>1, <1>4
<1>8. votes[i][t] >= StuffBias * votes[i][c]
  BY <1>3, <1>7, LeaderIsAhead
<1>9. /\ sightings[i][t] \in Nat /\ votes[i][t] \in Nat /\ sightings[i][c] \in Nat
      /\ StuffBias * sightings[i][c] \in Nat
  BY <1>1, <1>3, <1>4, <1>7, UniverseAssumption
<1>10. sightings[i][t] >= StuffBias * sightings[i][c]
  BY <1>6, <1>8, <1>9
<1>11. QED
  BY <1>10 DEF t

\* In the voting mode the class of a point is a thing only when its present occupant was
\* seen as that thing StuffBias times as often as it was seen as any stuff class.
THEOREM ThingsOutvoteStuff == Spec => []ThingNeedsBias
<1>1. QED
  BY BiasHolds, PipelineInvariant, PTL
-----------------------------------------------------------------------------
LEMMA CropShows == TypeOK => (Crop => TombstonesHideNothing)
<1> SUFFICES ASSUME Crop, TypeOK, NEW i \in Points, alive[i], place[i] \in cam.near,
                    Pixel(i) # Off,
                    \A j \in Points : alive[j] /\ Pixel(j) # Off /\ Pixel(i) \in cam.cover[place[j]]
                                        => Depth(i) <= Depth(j)
             PROVE  i \in Shell
  BY DEF TombstonesHideNothing
<1>1. \A j \in Candidates : j \in Points /\ alive[j]
  BY DEF Candidates
<1>2. \A j \in Points : Depth(j) \in Nat
  <2>1. cam \in Cameras /\ \A j \in Points : place[j] \in Voxels
    BY PointsNumbered DEF TypeOK
  <2>2. QED
    BY <2>1, PipelineAssumption DEF Depth
<1>3. i \in Candidates
  BY DEF Candidates
<1>4. Visible(i)
  <2>1. ASSUME NEW j \in Candidates, Pixel(j) # Off, Pixel(i) \in cam.cover[place[j]]
        PROVE  Depth(i) <= Depth(j) + Tau
    <3>1. Depth(i) <= Depth(j) /\ Depth(i) \in Nat /\ Depth(j) \in Nat
      BY <1>1, <1>2, <2>1
    <3>2. QED
      BY <3>1, PipelineAssumption
  <2>2. QED
    BY <2>1 DEF Visible
<1>5. i \in Seen
  BY <1>3, <1>4 DEF Seen
<1>6. ASSUME NEW j \in Seen, Pixel(j) = Pixel(i)
      PROVE  Depth(i) <= Depth(j) + Band
  <2>1. j \in Points /\ alive[j] /\ Pixel(j) # Off
    BY <1>1, <1>6 DEF Seen
  <2>2. Pixel(i) \in cam.cover[place[j]]
    BY <1>6, <2>1, PointsNumbered, PipelineAssumption DEF Pixel, TypeOK
  <2>3. Depth(i) <= Depth(j) /\ Depth(i) \in Nat /\ Depth(j) \in Nat
    BY <1>2, <2>1, <2>2
  <2>4. QED
    BY <2>3, PipelineAssumption
<1>7. QED
  BY <1>5, <1>6 DEF Shell

\* With the crop, whatever died before, a live point that no live point hides is kept by
\* the visibility test: the front shell is that of the live map.
THEOREM CropHidesNothing == Crop => (Spec => []TombstonesHideNothing)
<1> SUFFICES ASSUME Crop PROVE Spec => []TombstonesHideNothing
  OBVIOUS
<1>1. TypeOK => TombstonesHideNothing
  BY CropShows
<1>2. QED
  BY <1>1, MapIsTyped, PTL
-----------------------------------------------------------------------------
(* Either back end *)

\* The device works on the frame the host waits with, and the depth of a cell is that of
\* the nearest of the splats that reached it: how many still have to does not matter.
AllSplats == UNION {{i} \X cam.cover[place[i]] : i \in InImage}

Reached(px) == {t \in AllSplats \ splats : t[2] = px}

Nearest ==
  /\ splats \subseteq AllSplats /\ zbuf \in [Pixels -> Nat]
  /\ \A px \in Pixels :
       /\ \A t \in Reached(px) : zbuf[px] <= Depth(t[1])
       /\ zbuf[px] = Empty \/ \E t \in Reached(px) : zbuf[px] = Depth(t[1])

DeviceInv ==
  /\ kernel \in {"none", "project", "test", "copied"}
  /\ kernel # "none" => step = "fuse"
  /\ kernel = "none" => visible = {}
  /\ failed => kernel = "copied" /\ visible = {}
  /\ kernel = "project" => Nearest
  /\ kernel \in {"test", "copied"} /\ ~failed => visible = {i \in Candidates : Visible(i)}

\* A splat is a point in the image with a pixel it covers, its own among them.
LEMMA SplatFacts ==
  ASSUME TypeOK
  PROVE  /\ cam \in Cameras
         /\ \A i \in InImage : /\ i \in Candidates /\ i \in Points /\ place[i] \in Voxels
                               /\ Pixel(i) \in Pixels /\ Depth(i) \in Nat /\ Depth(i) < Empty
                               /\ <<i, Pixel(i)>> \in AllSplats
         /\ \A t \in AllSplats : /\ t[1] \in InImage /\ t[2] \in Pixels
                                 /\ t[2] \in cam.cover[place[t[1]]]
         /\ \A i \in InImage : \A px \in cam.cover[place[i]] : <<i, px>> \in AllSplats
<1>1. cam \in Cameras /\ \A i \in Points : place[i] \in Voxels
  BY PointsNumbered DEF TypeOK
<1>2. \A i \in InImage : i \in Candidates /\ i \in Points /\ Pixel(i) # Off
  BY DEF InImage, Candidates
<1>3. cam \in [near : SUBSET Voxels, pix : [Voxels -> Pixels \union {Off}],
               cover : [Voxels -> SUBSET Pixels], depth : [Voxels -> Nat]]
  BY <1>1, PipelineAssumption
<1>4. ASSUME NEW i \in InImage
      PROVE  /\ place[i] \in Voxels /\ Pixel(i) \in Pixels /\ Depth(i) \in Nat /\ Depth(i) < Empty
             /\ Pixel(i) \in cam.cover[place[i]] /\ cam.cover[place[i]] \subseteq Pixels
  <2>1. place[i] \in Voxels /\ Pixel(i) # Off
    BY <1>1, <1>2
  <2>2. Pixel(i) \in Pixels /\ Depth(i) \in Nat /\ cam.cover[place[i]] \subseteq Pixels
    BY <1>3, <2>1 DEF Pixel, Depth
  <2>3. Pixel(i) \in cam.cover[place[i]]
    BY <1>1, <2>1, PipelineAssumption DEF Pixel
  <2>4. Depth(i) + Tau < Empty /\ Tau \in Nat /\ Empty \in Nat
    BY <1>1, <2>1, DepthAssumption, PipelineAssumption DEF Depth
  <2>5. QED
    BY <2>1, <2>2, <2>3, <2>4
<1>5. \A i \in InImage : \A px \in cam.cover[place[i]] : <<i, px>> \in AllSplats
  BY DEF AllSplats
<1>6. \A t \in AllSplats : t[1] \in InImage /\ t[2] \in cam.cover[place[t[1]]]
  BY DEF AllSplats
<1>7. QED
  BY <1>1, <1>2, <1>4, <1>5, <1>6

\* Once every splat has reached its cells, the test against the buffer is the test
\* against every point.
LEMMA BufferDecides ==
  ASSUME TypeOK, Nearest, splats = {}
  PROVE  {i \in InImage : Depth(i) <= zbuf[Pixel(i)] + Tau} = {i \in Candidates : Visible(i)}
<1>1. \A i \in Candidates : Visible(i) => i \in InImage
  BY DEF Visible, InImage
<1>2. ASSUME NEW i \in InImage
      PROVE  Depth(i) <= zbuf[Pixel(i)] + Tau <=> Visible(i)
  <2> DEFINE px == Pixel(i)
             z == zbuf[px]
  <2>1. /\ i \in Candidates /\ px \in Pixels /\ px # Off /\ Depth(i) \in Nat /\ Depth(i) < Empty
        /\ <<i, px>> \in AllSplats /\ z \in Nat /\ Tau \in Nat /\ Empty \in Nat
    BY SplatFacts, PipelineAssumption, DepthAssumption DEF Nearest, InImage
  <2>2. Reached(px) = {t \in AllSplats : t[2] = px}
    BY DEF Reached
  <2>3. \A j \in Candidates :
          Pixel(j) # Off /\ px \in cam.cover[place[j]] => j \in InImage /\ <<j, px>> \in Reached(px)
    BY <2>2, SplatFacts DEF InImage
  <2>4. \A t \in Reached(px) : /\ t[1] \in Candidates /\ Pixel(t[1]) # Off
                               /\ px \in cam.cover[place[t[1]]] /\ Depth(t[1]) \in Nat
    BY <2>2, SplatFacts DEF InImage
  <2> HIDE DEF px
  <2>5. ASSUME Depth(i) <= z + Tau PROVE Visible(i)
    <3>1. ASSUME NEW j \in Candidates, Pixel(j) # Off, px \in cam.cover[place[j]]
          PROVE  Depth(i) <= Depth(j) + Tau
      <4>1. z <= Depth(j) /\ Depth(j) \in Nat
        BY <2>1, <2>3, <3>1, SplatFacts DEF Nearest
      <4>2. QED
        BY <2>1, <2>5, <4>1
    <3>2. QED
      BY <2>1, <3>1 DEF Visible, px
  <2>6. ASSUME Visible(i) PROVE Depth(i) <= z + Tau
    <3>1. z <= Depth(i)
      BY <2>1, <2>2 DEF Nearest
    <3>2. PICK t \in Reached(px) : z = Depth(t[1])
      BY <2>1, <3>1 DEF Nearest
    <3>3. Depth(i) <= Depth(t[1]) + Tau
      BY <2>4, <2>6 DEF Visible, px
    <3>4. QED
      BY <3>2, <3>3
  <2>7. QED
    BY <2>5, <2>6 DEF px
<1>3. QED
  BY <1>1, <1>2 DEF InImage

LEMMA LowerTo ==
  ASSUME NEW a \in Nat, NEW b \in Nat
  PROVE  Min({a, b}) \in {a, b} /\ Min({a, b}) <= a /\ Min({a, b}) <= b
<1>1. \E x \in {a, b} : \A y \in {a, b} : x <= y
  OBVIOUS
<1>2. QED
  BY <1>1 DEF Min

LEMMA SplatInv ==
  ASSUME TypeOK, Nearest, Splat
  PROVE  Nearest'
<1>1. PICK t \in splats : /\ zbuf' = [zbuf EXCEPT ![t[2]] = Min({@, Depth(t[1])})]
                          /\ splats' = splats \ {t}
  BY DEF Splat, LowerDepth
<1>2. /\ AllSplats' = AllSplats /\ \A i : Depth(i)' = Depth(i)
      /\ splats \subseteq AllSplats /\ zbuf \in [Pixels -> Nat]
  BY DEF Splat, vars, universeVars, AllSplats, InImage, Candidates, Pixel, Depth, Points, Nearest
<1>3. t \in AllSplats /\ t[2] \in Pixels /\ t[1] \in InImage /\ Depth(t[1]) \in Nat
  BY <1>2, SplatFacts
<1> DEFINE d == Depth(t[1])
           z == zbuf[t[2]]
<1>4. z \in Nat /\ zbuf'[t[2]] = Min({z, d}) /\ zbuf' \in [Pixels -> Nat]
      /\ \A px \in Pixels \ {t[2]} : zbuf'[px] = zbuf[px]
  BY <1>1, <1>2, <1>3, LowerTo
<1>5. zbuf'[t[2]] \in {z, d} /\ zbuf'[t[2]] <= z /\ zbuf'[t[2]] <= d
  BY <1>3, <1>4, LowerTo
<1>6. \A px \in Pixels : Reached(px)' = Reached(px) \union (IF px = t[2] THEN {t} ELSE {})
  BY <1>1, <1>2, <1>3 DEF Reached
<1>7. ASSUME NEW px \in Pixels
      PROVE  /\ \A s \in Reached(px)' : zbuf'[px] <= Depth(s[1])
             /\ zbuf'[px] = Empty \/ \E s \in Reached(px)' : zbuf'[px] = Depth(s[1])
  <2>1. \A s \in Reached(px) : Depth(s[1]) \in Nat /\ zbuf[px] <= Depth(s[1])
    BY SplatFacts DEF Reached, Nearest
  <2>2. zbuf[px] = Empty \/ \E s \in Reached(px) : zbuf[px] = Depth(s[1])
    BY DEF Nearest
  <2>3. CASE px = t[2]
    <3>1. Reached(px)' = Reached(px) \union {t}
      BY <1>6, <2>3
    <3>2. \A s \in Reached(px) : zbuf'[px] <= Depth(s[1])
      BY <1>3, <1>4, <1>5, <2>1, <2>3
    <3>3. QED
      BY <1>5, <2>2, <2>3, <3>1, <3>2
  <2>4. CASE px # t[2]
    BY <1>4, <1>6, <2>1, <2>2, <2>4
  <2>5. QED
    BY <2>3, <2>4
<1>8. QED
  BY <1>1, <1>2, <1>4, <1>7 DEF Nearest

LEMMA DeviceStep ==
  ASSUME TypeOK, DeviceInv, [BackendNext]_backendVars
  PROVE  DeviceInv'
<1>1. /\ EmptyBuffer \in [Pixels -> Nat]
      /\ \A px \in Pixels : EmptyBuffer[px] = Empty
  BY DepthAssumption DEF EmptyBuffer
\* While the host waits, what is projected and what is visible do not change.
<1>2. ASSUME UNCHANGED vars
      PROVE  /\ AllSplats' = AllSplats /\ step' = step
             /\ {i \in Candidates : Visible(i)}' = {i \in Candidates : Visible(i)}
  BY <1>2 DEF vars, universeVars, AllSplats, InImage, Candidates, Visible, Pixel, Depth, Points
<1>3. CASE LaunchProject
  <2>1. /\ kernel' = "project" /\ zbuf' = EmptyBuffer /\ splats' = AllSplats
        /\ visible' = visible /\ failed' = failed /\ step = "fuse" /\ kernel = "none" /\ UNCHANGED vars
    BY <1>3 DEF LaunchProject, AllSplats
  <2>2. Nearest'
    BY <1>1, <1>2, <2>1 DEF Nearest, Reached
  <2>3. QED
    BY <1>2, <2>1, <2>2 DEF DeviceInv
<1>4. CASE Splat
  <2>1. /\ kernel = "project" /\ kernel' = kernel /\ visible' = visible /\ failed' = failed
        /\ UNCHANGED vars
    BY <1>4 DEF Splat
  <2>2. Nearest'
    BY <1>4, <2>1, SplatInv DEF DeviceInv
  <2>3. QED
    BY <1>2, <2>1, <2>2 DEF DeviceInv
<1>5. CASE TestVisible
  <2>1. /\ kernel = "project" /\ kernel' = "test" /\ splats = {} /\ failed' = failed
        /\ visible' = {i \in InImage : Depth(i) <= zbuf[Pixel(i)] + Tau}
        /\ UNCHANGED vars
    BY <1>5 DEF TestVisible
  <2>2. visible' = {i \in Candidates : Visible(i)}
    BY <2>1, BufferDecides DEF DeviceInv
  <2>3. QED
    BY <1>2, <2>1, <2>2 DEF DeviceInv
<1>6. CASE CopyBack
  <2>1. /\ kernel = "test" /\ kernel' = "copied" /\ visible' = visible /\ failed' = failed
        /\ UNCHANGED vars
    BY <1>6 DEF CopyBack
  <2>2. QED
    BY <1>2, <2>1 DEF DeviceInv
<1>7. CASE CudaError
  <2>1. kernel' = "copied" /\ failed' = TRUE /\ visible' = {} /\ step = "fuse" /\ UNCHANGED vars
    BY <1>7 DEF CudaError
  <2>2. QED
    BY <1>2, <2>1 DEF DeviceInv
<1>8. CASE StampMapped
  BY <1>8 DEF StampMapped, DeviceInv
<1>9. CASE kernel = "none" /\ UNCHANGED <<backend, deviceVars>>
  BY <1>9 DEF deviceVars, DeviceInv
<1>10. CASE UNCHANGED backendVars
  <2>1. UNCHANGED vars /\ UNCHANGED deviceVars
    BY <1>10 DEF backendVars
  <2>2. Nearest => Nearest'
    BY <1>2, <2>1 DEF Nearest, Reached, deviceVars, Depth, vars, universeVars
  <2>3. QED
    BY <1>2, <2>1, <2>2 DEF DeviceInv, deviceVars
<1>11. QED
  BY <1>3, <1>4, <1>5, <1>6, <1>7, <1>8, <1>9, <1>10 DEF BackendNext, Device

\* A frame without a visible point: the labels are cleared and nothing else moves.
LEMMA StampNothingInv ==
  ASSUME PipelineInv, StampNothing
  PROVE  PipelineInv'
<1>1. /\ UNCHANGED <<voting, place, vox, thingsOnly, frames, cam, fr, sightings>>
      /\ step' = "next" /\ gidx' = {} /\ Points' = Points
      /\ TypeOK /\ OneSlot /\ Blank /\ EvidenceIsExact
      /\ alive \in [Points -> BOOLEAN] /\ votes \in [Points -> [Classes -> 0 .. VoteCap]]
  BY DEF StampNothing, Relabel, Points, PipelineInv, TypeOK
<1>2. /\ alive' = [i \in Points |-> alive[i] /\ i \notin {}]
      /\ flabel' = [i \in Points |-> None] /\ fiid' = [i \in Points |-> None]
      /\ votes' = [i \in Points |-> votes[i]]
  BY DEF StampNothing, Relabel, Kill
<1>3. alive' = alive /\ votes' = votes
  <2>1. \A i \in Points : (alive[i] /\ i \notin {}) = alive[i]
    BY <1>1
  <2>2. alive' = alive
    BY <1>1, <1>2, <2>1
  <2>3. QED
    BY <1>1, <1>2, <2>2
<1>4. TypeOK'
  BY <1>1, <1>2, <1>3 DEF TypeOK
<1>5. OneSlot'
  BY <1>1 DEF OneSlot
<1>6. Blank'
  BY <1>1, <1>2, <1>3 DEF Blank
<1>7. EvidenceIsExact'
  BY <1>1, <1>3 DEF EvidenceIsExact
<1>8. LabelsAreThisFrames'
  BY <1>1, <1>2 DEF LabelsAreThisFrames
<1>9. QED
  BY <1>4, <1>5, <1>6, <1>7, <1>8 DEF PipelineInv

\* With either back end, and with kernels that fail, the map keeps all that the theorems
\* above rest on.
THEOREM BackendKeepsTheMap == BackendSpec => [](PipelineInv /\ DeviceInv)
<1>1. BackendInit => PipelineInv /\ DeviceInv
  BY InitInv DEF BackendInit, DeviceInv
<1>2. PipelineInv /\ DeviceInv /\ [BackendNext]_backendVars => PipelineInv' /\ DeviceInv'
  <2> SUFFICES ASSUME PipelineInv, DeviceInv, [BackendNext]_backendVars
               PROVE  PipelineInv' /\ DeviceInv'
    OBVIOUS
  <2>1. DeviceInv'
    BY DeviceStep DEF PipelineInv
  <2>2. [Next]_vars \/ StampNothing
    BY DEF BackendNext, StampMapped, Device, LaunchProject, Splat, TestVisible, CopyBack,
           CudaError, backendVars, Next
  <2>3. QED
    BY <2>1, <2>2, NextInv, StampNothingInv
<1>3. QED
  BY <1>1, <1>2, PTL DEF BackendSpec

\* The GPU's threads, in any order and however many, find the points visible that the
\* CPU's loop does; a failed call is the only way they differ.
THEOREM KernelsHold == BackendSpec => []KernelsAgree
<1>1. DeviceInv => KernelsAgree
  BY DEF DeviceInv, KernelsAgree
<1>2. QED
  BY <1>1, BackendKeepsTheMap, PTL

\* So the theorems above hold with either back end, too.
THEOREM BackendKeepsTheEvidence ==
  BackendSpec => [](/\ EvidenceIsExact /\ DeadIsBlank /\ ActiveIsLive /\ ThingNeedsBias
                    /\ Crop => TombstonesHideNothing)
<1>1. PipelineInv => TypeOK /\ EvidenceIsExact
  BY DEF PipelineInv
<1>2. QED
  BY <1>1, DeadBlank, SeedsLive, CropShows, BiasHolds, BackendKeepsTheMap, PTL

\* With either back end a slot never goes and never names another place (universe.h:209).
THEOREM BackendKeepsTheSlots == BackendSpec => IndicesNeverShift
<1> DEFINE Stable == \A i \in Points : i \in Points' /\ place'[i] = place[i] /\ vox'[place[i]] = i
<1>1. ASSUME PipelineInv, StampNothing PROVE Stable
  BY <1>1 DEF StampNothing, Relabel, PipelineInv, OneSlot, Points
<1>2. [BackendNext]_backendVars => [Next]_vars \/ StampNothing
  BY DEF BackendNext, StampMapped, Device, LaunchProject, Splat, TestVisible, CopyBack,
         CudaError, backendVars, Next
<1>3. PipelineInv /\ [BackendNext]_backendVars => Stable \/ UNCHANGED vars
  BY <1>1, <1>2, StableStep
<1>4. QED
  BY <1>3, BackendKeepsTheMap, PTL DEF BackendSpec, IndicesNeverShift
=============================================================================
