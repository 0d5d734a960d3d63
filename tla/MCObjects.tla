----------------------------- MODULE MCObjects -----------------------------
(***************************************************************************)
(* Objects on three voxels, with every footprint, and on four, with pairs  *)
(* only: there a proposal can bridge two components without joining        *)
(* either, and a ring of four small components needs a second sweep.  One  *)
(* class covers the footprints, the other overlaps all of them.            *)
(***************************************************************************)
EXTENDS Objects, TLC

MCProposals ==
  [pts : (SUBSET Points) \ {{}}, class : {"chair"}]
    \union [pts : {Points}, class : {"lamp"}]
MCPairs == [pts : {S \in SUBSET Points : Cardinality(S) = 2}, class : {"chair"}]
             \union [pts : {Points}, class : {"lamp"}]

MCWeights == {[sim |-> 0, conf |-> 0], [sim |-> 0, conf |-> 1], [sim |-> 1, conf |-> 1]}
MCThresh == <<100, 50>>
MCSteepThresh == <<100, 60>>

Symmetric == Permutations(Points)
=============================================================================
