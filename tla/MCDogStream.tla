---------------------------- MODULE MCDogStream ----------------------------
(***************************************************************************)
(* DogStream on small instances.  Three timestamps are enough for a scan   *)
(* before, at and after an image; their gaps differ so that the nearest of *)
(* two scans is neither always the older nor always the newer one.  The    *)
(* buffers hold two elements, so that each overflows within the bounds.    *)
(***************************************************************************)
EXTENDS DogStream

MCTimes == {1, 2, 4}
=============================================================================
