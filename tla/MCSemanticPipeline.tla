------------------------- MODULE MCSemanticPipeline -------------------------
(***************************************************************************)
(* The label step in a world of three places.  The first camera sees       *)
(* front and back on one pixel, back beyond Tau behind front, and side on  *)
(* the other; the splat of front spreads over side's pixel.  The second    *)
(* one looks from behind: side is behind back but within Tau of it, and    *)
(* front is in the image but too far from the robot to be projected.       *)
(* Classes: 1 a person (dynamic), 2 a chair, 3 a wall (stuff).  Three      *)
(* frames label a point, kill it, and revive and label its slot; they also *)
(* fill a bin of two votes.                                                *)
(***************************************************************************)
EXTENDS DepthKernels

MCCameras == {
  [near  |-> {"front", "back", "side"},
   pix   |-> [front |-> "left", back |-> "left", side |-> "right"],
   cover |-> [front |-> {"left", "right"}, back |-> {"left"}, side |-> {"right"}],
   depth |-> [front |-> 2, back |-> 4, side |-> 2]],
  [near  |-> {"back", "side"},
   pix   |-> [front |-> "right", back |-> "left", side |-> "left"],
   cover |-> [front |-> {"right"}, back |-> {"left"}, side |-> {"left"}],
   depth |-> [front |-> 5, back |-> 1, side |-> 2]] }

Image(l, r) == [left |-> l, right |-> r]

MCFrames2D ==
  {[label |-> Image(l, r), inst |-> Image(IF l = None THEN None ELSE 7, None)] :
     l \in Classes \union {None}, r \in {1, 3}}
=============================================================================
