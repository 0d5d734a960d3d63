----------------------------- MODULE MCDrivers -----------------------------
(* Both programs around OnlineSemantic, on a small instance. *)
EXTENDS Drivers

MCWatchedLog == [scans |-> <<0, 3, 5>>, images |-> <<1, 2, 4>>, cut |-> "no"]

AnyOf(S) == CHOOSE x \in S : TRUE

\* The runner replays no log.  With a viewer, one log will do: what the viewer
\* shows depends on the calls of onSynced only ...
MCInit ==
  /\ Init
  /\ program = "runner" => log = AnyOf(Logs) /\ window = AnyOf(Windows)
  /\ program = "replay" /\ viz => log = MCWatchedLog /\ window = AnyOf(Windows)

\* ... and without one, what is listed does.  Then only the stages matter at which the
\* map and the list change: a throw is before the first, between them or after both.
MCNext ==
  /\ Next
  /\ program = "runner" =>
       /\ viz \/ ~Objecting => UNCHANGED <<list, at, alive>>
       /\ ~viz /\ calls' > calls => (map' = calls' <=> superpoints'.made = calls')

MCSpec == MCInit /\ [][MCNext]_vars
-----------------------------------------------------------------------------
Increasing(n, T) == {s \in [1 .. n -> T] : \A i \in 1 .. n - 1 : s[i] < s[i + 1]}

MCTimes == 0 .. 5
MCLogs ==
  [scans  : Increasing(2, {0, 1, 3, 5}) \union Increasing(3, {0, 2, 3, 5}),
   images : Increasing(2, {1, 2, 4}) \union Increasing(3, {1, 2, 3, 4}),
   cut    : {"no", "header", "pixels"}]
MCWindows ==
  {[start |-> 0, count |-> -1, stride |-> 1], [start |-> 1, count |-> 0, stride |-> 1],
   [start |-> 0, count |-> 2, stride |-> 0], [start |-> -1, count |-> 9, stride |-> 2]}

All == {"superpoints", "hdbscan", "grow", "objects", "overlay"}
MCTiers == {All, All \ {"grow"}}

Place(x, y) == [x |-> x, y |-> y]
MCPlaces == {Place(0, 0), Place(1, 1), Place(2, 0), Place(2, 2), Place(0, 2), Place(3, 1)}
MCSeen == <<Place(0, 0), Place(1, 1), Place(2, 0), Place(2, 2), Place(0, 2)>>
Object(s, c, l) == [points |-> s, class |-> c, level |-> l]
MCListable ==
  (7 :> {Object(<<1, 2, 4>>, "a", 2), Object(<<1, 3, 4>>, "a", 2), Object(<<1, 3, 4, 5>>, "a", 2),
         Object(<<1, 3, 4>>, "b", 2), Object(<<3, 4>>, "a", 3)})
  @@ (9 :> {Object(<<5>>, "a", 2)})
Picture(encoding, step, bytes) ==
  [width |-> 2, height |-> 2, encoding |-> encoding, step |-> step, bytes |-> bytes]
MCInputs ==
  {<<>>, <<Picture("RGB8", 6, 12)>>, <<Picture("RGB8", 6, 12), Picture("RGB8", 6, 12)>>,
   <<Picture("MONO16", 0, 8)>>, <<Picture("MONO8", 1, 8)>>, <<Picture("BGR8", 8, 12)>>,
   <<Picture("NOT_APPLICABLE", 0, 12)>>}
Effect(sees, killed) == [at |-> sees, killed |-> killed]
MCFrames ==
  {Effect(<<>>, {}), Effect(MCSeen, {}), Effect(<<>>, {2}), Effect(<<>>, {4, 3}),
   Effect(4 :> Place(3, 1), {5})}

\* What the theorem about the robot's store supposes, on these points.
ASSUME MCHulls == HullsAreRight
=============================================================================
