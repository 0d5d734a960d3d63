------------------------------ MODULE Universe ------------------------------
(***************************************************************************)
(* The persistent world map (universe.cpp): one point per voxel, named for *)
(* ever by its index, tombstoned and revived in place.  A point is its     *)
(* voxel; the running centroid, the fusion count and the intensity are     *)
(* abstracted (a centroid stays in its voxel), the colour is not modelled  *)
(* (nothing calls voteColor).  A class is the id its name was interned     *)
(* under: ids are given once, in order, and never change.                  *)
(*                                                                         *)
(* A vote histogram is a function on Classes, 0 for an absent bin; a bin   *)
(* is 16 bits wide and saturates, at VoteCap.                              *)
(***************************************************************************)
EXTENDS Integers, Sequences, FiniteSets, FiniteSetsExt

CONSTANTS
  Voxels,     \* the places of the world
  Classes,    \* the ids of the names interned, in the order of first sight
  ThingList,  \* the things and the stuff of run.yaml, as declareVocab gets them
  StuffList,
  Instances,  \* DVIS instance ids
  None,       \* -1: no label, no instance
  VoteCap,    \* 0xffff
  StuffBias,  \* vote_stuff_bias, a whole number
  MinVotes,   \* vote_min_votes
  MinConf     \* vote_min_conf, in percent

ASSUME UniverseAssumption ==
  /\ Classes \subseteq Nat /\ IsFiniteSet(Classes)
  /\ ThingList \subseteq Classes /\ StuffList \subseteq Classes
  /\ None \notin Classes /\ None \notin Instances
  /\ VoteCap \in Nat \ {0}
  /\ StuffBias \in Nat /\ MinVotes \in Nat /\ MinConf \in 0 .. 100

VARIABLES
  voting,  \* voting_
  place,   \* map_: the voxel of each point
  vox,     \* vox_: voxel -> index
  alive,   \* alive_
  flabel,  \* flabel_: this frame's class
  fiid,    \* fiid_: this frame's instance
  votes    \* votes_

universeVars == <<voting, place, vox, alive, flabel, fiid, votes>>

NoVotes == [c \in Classes |-> 0]

UniverseInit ==
  /\ voting \in BOOLEAN
  /\ place = <<>> /\ vox = <<>>
  /\ alive = <<>> /\ flabel = <<>> /\ fiid = <<>> /\ votes = <<>>

Points == DOMAIN place

\* The kind of a class is the one it was first declared with, things before stuff;
\* a name only ever seen in an answer has none.
Kind(c) ==
  IF c \in ThingList THEN "thing" ELSE IF c \in StuffList THEN "stuff" ELSE "unknown"

Things == {c \in Classes : Kind(c) = "thing"}
Stuff  == {c \in Classes : Kind(c) = "stuff"}
-----------------------------------------------------------------------------
(* integrate, one incoming point in voxel v *)

AppendPoint(v) ==
  /\ v \notin DOMAIN vox
  /\ vox' = [w \in DOMAIN vox \union {v} |-> IF w = v THEN Len(place) + 1 ELSE vox[w]]
  /\ place'  = Append(place, v)
  /\ alive'  = Append(alive, TRUE)
  /\ flabel' = Append(flabel, None)
  /\ fiid'   = Append(fiid, None)
  /\ votes'  = Append(votes, NoVotes)

RevivePointElsewhere(v) ==  \* mutant: the new occupant gets a new index
  /\ v \in DOMAIN vox /\ ~alive[vox[v]]
  /\ vox' = [vox EXCEPT ![v] = Len(place) + 1]
  /\ place'  = Append(place, v)
  /\ alive'  = Append(alive, TRUE)
  /\ flabel' = Append(flabel, None)
  /\ fiid'   = Append(fiid, None)
  /\ votes'  = Append(votes, NoVotes)

\* The slot of a dead point is taken over by a fresh one.
RevivePoint(v) ==
  /\ v \in DOMAIN vox /\ ~alive[vox[v]]
  /\ alive'  = [alive EXCEPT ![vox[v]] = TRUE]
  /\ flabel' = [flabel EXCEPT ![vox[v]] = None]
  /\ fiid'   = [fiid EXCEPT ![vox[v]] = None]
  /\ votes'  = [votes EXCEPT ![vox[v]] = NoVotes]
  /\ UNCHANGED <<place, vox>>

\* A live point only moves its centroid within the voxel.
RefinePoint(v) ==
  /\ v \in DOMAIN vox /\ alive[vox[v]]
  /\ UNCHANGED <<place, vox, alive, flabel, fiid, votes>>

FusePoint(v) ==
  /\ AppendPoint(v) \/ RevivePoint(v) \/ RefinePoint(v)
  /\ UNCHANGED voting
-----------------------------------------------------------------------------
(* one frame's labels *)

CastVoteWrapping(hist, c) == [hist EXCEPT ![c] = (@ + 1) % (VoteCap + 1)]  \* mutant: wraps

CastVote(hist, c) == [hist EXCEPT ![c] = IF @ < VoteCap THEN @ + 1 ELSE @]

RelabelKeepingVotes(killed, seen) ==  \* mutant: a killed point keeps its votes
  /\ alive'  = [i \in Points |-> alive[i] /\ i \notin killed]
  /\ flabel' = [i \in Points |-> IF i \in DOMAIN seen /\ ~voting THEN seen[i].class ELSE None]
  /\ fiid'   = [i \in Points |-> IF i \in DOMAIN seen THEN seen[i].inst ELSE None]
  /\ votes'  = [i \in Points |-> IF i \in DOMAIN seen /\ voting
                                   THEN CastVote(votes[i], seen[i].class) ELSE votes[i]]
  /\ UNCHANGED <<voting, place, vox>>

\* killPoint: the tombstone; labels and votes go with it (below).
Kill(killed) == alive' = [i \in Points |-> alive[i] /\ i \notin killed]

\* clearFrameLabels, then killPoint for the killed points and setFrameLabel for
\* the seen ones: seen[i] is the [class, inst] of point i.
Relabel(killed, seen) ==
  /\ Kill(killed)
  /\ flabel' = [i \in Points |-> IF i \in DOMAIN seen /\ ~voting THEN seen[i].class ELSE None]
  /\ fiid'   = [i \in Points |-> IF i \in DOMAIN seen THEN seen[i].inst ELSE None]
  /\ votes'  = [i \in Points |-> IF i \in killed THEN NoVotes
                                 ELSE IF i \in DOMAIN seen /\ voting
                                   THEN CastVote(votes[i], seen[i].class)
                                 ELSE votes[i]]
  /\ UNCHANGED <<voting, place, vox>>
-----------------------------------------------------------------------------
(* pointClassId *)

Weight(hist, c) == hist[c] * (IF c \in Stuff /\ StuffBias > 1 THEN StuffBias ELSE 1)

\* The stuff-biased argmax, the lower id on a tie.
Leads(hist, c) ==
  /\ hist[c] > 0
  /\ \A d \in Classes :
       hist[d] > 0 =>
         \/ Weight(hist, c) > Weight(hist, d)
         \/ Weight(hist, c) = Weight(hist, d) /\ c <= d

Total(hist) == MapThenSumSet(LAMBDA c : hist[c], Classes)

Consensus(hist) ==
  IF /\ \E c \in Classes : Leads(hist, c)
     /\ Total(hist) >= MinVotes
     /\ LET c == CHOOSE c \in Classes : Leads(hist, c)
        IN  hist[c] * 100 >= MinConf * Total(hist)
    THEN CHOOSE c \in Classes : Leads(hist, c)
    ELSE None

PointClass(i) == IF voting THEN Consensus(votes[i]) ELSE flabel[i]
=============================================================================
