------------------------------ MODULE SetSums ------------------------------
(***************************************************************************)
(* The sum of the values of a function over a finite set: affinities and   *)
(* votes added up in Objects, coordinates and histograms in Superpoints,   *)
(* stabilities in ClusterTree.                                             *)
(***************************************************************************)
EXTENDS FiniteSetsExt

SumOver(S, f) == MapThenSumSet(LAMBDA x : f[x], S)
=============================================================================
