---------------------------- MODULE MCProposals ----------------------------
(***************************************************************************)
(* Proposals on small instances: one class at seven places of eight, or in *)
(* three pairs further and further apart, for the clustering; two classes  *)
(* among other points at five places, for the classes and the growing.  A  *)
(* later frame has one of two views.                                       *)
(***************************************************************************)
EXTENDS Proposals

Chair == 1
Lamp == 2

Dense == {S \in SUBSET (11 .. 18) : Cardinality(S) = 7}
Pairs == {{11, 12, 11 + g, 12 + g, 11 + 2 * g, 12 + 2 * g} : g \in 3 .. 5}

Alone == {[p \in S |-> Chair] : S \in Dense \union Pairs}

Mixed == {f \in [{1, 2, 4, 5, 6} -> {Chair, Lamp, Other}] :
            Cardinality({p \in DOMAIN f : f[p] = Chair}) >= 2}

MCGroups == {S \in SUBSET {1, 2, 4, 5, 6} : Cardinality(S) \in 2 .. 4}

Pair == {[p \in {1, 2} |-> Chair], [p \in {2, 3, 4} |-> IF p = 2 THEN Other ELSE Lamp]}

MCViews == <<Alone \union Mixed, Pair>>

Plain == [overlap |-> FALSE, local |-> FALSE, scan |-> FALSE, single |-> TRUE,
          leaf |-> FALSE, sor |-> FALSE, pool |-> FALSE,
          minClass |-> 2, bar |-> 50, sweeps |-> 1]

MCModes == {
  Plain,
  [Plain EXCEPT !.scan = TRUE],
  [Plain EXCEPT !.overlap = TRUE, !.leaf = TRUE, !.bar = 12, !.sweeps = 3],
  [Plain EXCEPT !.scan = TRUE, !.minClass = 1, !.bar = 12, !.sweeps = 3],
  [Plain EXCEPT !.scan = TRUE, !.overlap = TRUE, !.single = FALSE, !.pool = TRUE, !.sweeps = 3],
  [Plain EXCEPT !.sor = TRUE, !.leaf = TRUE],
  [Plain EXCEPT !.local = TRUE] }
=============================================================================
