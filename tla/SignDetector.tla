---------------------------- MODULE SignDetector ----------------------------
(***************************************************************************)
(* What SignBridge relies on when it talks to a sign reader through the    *)
(* IDetector seam (sign_detector.h), whichever backend is behind it: a     *)
(* request that enqueue accepted is answered at most once, on a worker     *)
(* thread, and stop() returns only when nothing is left to answer.         *)
(***************************************************************************)
CONSTANT Ids  \* the match ids a request can carry

VARIABLES outstanding,  \* match ids accepted and not yet answered
          stopped       \* has stop() returned?

detectorVars == <<outstanding, stopped>>

DetectorInit ==
  /\ outstanding = {}
  /\ stopped = FALSE

\* enqueue returns true.  (Returning false changes nothing.)
Accept(id) ==
  /\ ~stopped
  /\ id \notin outstanding
  /\ outstanding' = outstanding \union {id}
  /\ UNCHANGED stopped

\* The result callback for id.
Answer(id) ==
  /\ id \in outstanding
  /\ outstanding' = outstanding \ {id}
  /\ UNCHANGED stopped

StopReturn ==
  /\ ~stopped
  /\ outstanding = {}
  /\ stopped' = TRUE
  /\ UNCHANGED outstanding

DetectorNext ==
  \/ \E id \in Ids : Accept(id)
  \/ \E id \in outstanding : Answer(id)
  \/ StopReturn

DetectorSpec == DetectorInit /\ [][DetectorNext]_detectorVars
=============================================================================
