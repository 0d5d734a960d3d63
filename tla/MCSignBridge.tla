---------------------------- MODULE MCSignBridge ----------------------------
(***************************************************************************)
(* SignBridge on a small world.  Voxels are numbers.  The footprints       *)
(* overlap, so that two signs compete for one object with unequal and with *)
(* equal strength, and one sign lies between two objects.  In the second   *)
(* object list the two objects have merged under the first one's id.       *)
(***************************************************************************)
EXTENDS SignBridge

MCFootprints == {{}, {1}, {1, 2}, {2, 3}}

MCWorlds == <<
  <<[id |-> 1, vox |-> {1, 2}, pts |-> 5], [id |-> 2, vox |-> {3}, pts |-> 7]>>,
  <<[id |-> 1, vox |-> {1, 2, 3}, pts |-> 12]>> >>
=============================================================================
