---------------------------- MODULE MCInference ----------------------------
(***************************************************************************)
(* Inference on a small instance: two vocabularies of different sizes that *)
(* share names in different places and are not given in sorted order, and  *)
(* an empty one.                                                           *)
(***************************************************************************)
EXTENDS Inference

MCConfigs == {
  [thing |-> <<3, 1>>, stuff |-> <<2>>],
  [thing |-> <<2>>, stuff |-> <<1>>],
  [thing |-> <<>>, stuff |-> <<>>] }
=============================================================================
