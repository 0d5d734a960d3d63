-------------------------- MODULE MCMockDetector ---------------------------
(***************************************************************************)
(* MockDetector with a queue of two and five requests: enough to fill the  *)
(* queue behind a request being read, and to stop with requests waiting.   *)
(***************************************************************************)
EXTENDS MockDetector
=============================================================================
