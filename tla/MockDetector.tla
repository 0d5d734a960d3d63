---------------------------- MODULE MockDetector ----------------------------
(***************************************************************************)
(* The mock sign reader (sign_detector_mock.cpp): one client thread, the   *)
(* pipeline, that starts it, enqueues requests and finally stops it, and   *)
(* one worker thread that waits on a condition variable.                   *)
(*                                                                         *)
(* The mutex matters here.  enqueue pushes and notifies inside one         *)
(* critical section and is one step, taken when the mutex is free.  The    *)
(* worker evaluates the wait's predicate and blocks in two steps while it  *)
(* holds the mutex; stop() takes no mutex, so its two steps can fall       *)
(* between them.  The standard allows a wait to return spuriously.         *)
(***************************************************************************)
EXTENDS Naturals, Sequences, SequencesExt

CONSTANTS QueueSize,    \* cfg_.queue_size
          MaxRequests   \* bound: enqueue calls

ASSUME MockAssumption == QueueSize \in Nat /\ MaxRequests \in Nat

VARIABLES
  client,    \* the pipeline thread: "new", "idle", "notify", "join", "done"
  calls,     \* enqueue calls so far; the call number is the request's id
  running,   \* running_
  q,         \* q_
  holder,    \* mu_: the thread that holds it, "none" or "worker"
  worker,    \* the worker thread: "none", "lock", "park", "waiting", "ready",
             \* "work", "done"
  current,   \* the request the worker took from the queue, 0 for none
  answered   \* history: the ids the callback was called with, in order

mockVars == <<client, calls, running, q, holder, worker, current, answered>>

MockInit ==
  /\ client = "new"
  /\ calls = 0
  /\ running = FALSE
  /\ q = <<>>
  /\ holder = "none"
  /\ worker = "none"
  /\ current = 0
  /\ answered = <<>>
-----------------------------------------------------------------------------
\* start(): the thread begins in loop(), about to take the mutex.
Start ==
  /\ client = "new"
  /\ running' = TRUE
  /\ worker' = "lock"
  /\ client' = "idle"
  /\ UNCHANGED <<calls, q, holder, current, answered>>

\* The waiting worker is woken; it has yet to take the mutex back.
Notify == worker' = IF worker = "waiting" THEN "lock" ELSE worker

QueueFull == Len(q) >= QueueSize

EnqueueSilently(id) ==  \* mutant: the worker is not notified
  /\ q' = IF QueueFull THEN q ELSE Append(q, id)
  /\ UNCHANGED worker

\* The critical section of enqueue(); a full queue rejects the request.
Push(id) ==
  \/ QueueFull /\ UNCHANGED <<q, worker>>
  \/ ~QueueFull /\ q' = Append(q, id) /\ Notify

Enqueue ==
  /\ client = "idle" /\ holder = "none"
  /\ calls < MaxRequests
  /\ calls' = calls + 1
  /\ Push(calls + 1)
  /\ UNCHANGED <<client, running, holder, current, answered>>

\* stop(), without the mutex: clear the flag, notify, join the worker.
StopClear ==
  /\ client = "idle"
  /\ running' = FALSE
  /\ client' = "notify"
  /\ UNCHANGED <<calls, q, holder, worker, current, answered>>

StopNotify ==
  /\ client = "notify"
  /\ Notify
  /\ client' = "join"
  /\ UNCHANGED <<calls, running, q, holder, current, answered>>

StopJoin ==
  /\ client = "join"
  /\ worker = "done"
  /\ client' = "done"
  /\ UNCHANGED <<calls, running, q, holder, worker, current, answered>>
-----------------------------------------------------------------------------
\* The worker takes the mutex and evaluates the wait's predicate.
Evaluate ==
  /\ worker = "lock" /\ holder = "none"
  /\ holder' = "worker"
  /\ worker' = IF q # <<>> \/ ~running THEN "ready" ELSE "park"
  /\ UNCHANGED <<client, calls, running, q, current, answered>>

\* It blocks and gives the mutex back, as one step of the condition variable.
Park ==
  /\ worker = "park"
  /\ worker' = "waiting"
  /\ holder' = "none"
  /\ UNCHANGED <<client, calls, running, q, current, answered>>

SpuriousWakeup ==
  /\ worker = "waiting"
  /\ worker' = "lock"
  /\ UNCHANGED <<client, calls, running, q, holder, current, answered>>

ExitDroppingQueue ==  \* mutant: leaves requests behind
  /\ worker = "ready" /\ ~running
  /\ worker' = "done"
  /\ holder' = "none"
  /\ UNCHANGED <<client, calls, running, q, current, answered>>

\* Told to stop and nothing left to do.
Exit ==
  /\ worker = "ready" /\ ~running /\ q = <<>>
  /\ worker' = "done"
  /\ holder' = "none"
  /\ UNCHANGED <<client, calls, running, q, current, answered>>

Take ==
  /\ worker = "ready" /\ q # <<>>
  /\ current' = Head(q)
  /\ q' = Tail(q)
  /\ worker' = "work"
  /\ holder' = "none"
  /\ UNCHANGED <<client, calls, running, answered>>

\* The stand-in latency is over: the callback runs on this thread.
Callback ==
  /\ worker = "work"
  /\ answered' = Append(answered, current)
  /\ current' = 0
  /\ worker' = "lock"
  /\ UNCHANGED <<client, calls, running, q, holder>>

Client == Start \/ Enqueue \/ StopClear \/ StopNotify \/ StopJoin
Worker == Evaluate \/ Park \/ Exit \/ Take \/ Callback

MockNext == Client \/ Worker \/ SpuriousWakeup

MockSpec == MockInit /\ [][MockNext]_mockVars

\* Both threads are scheduled.  Whether the pipeline enqueues or stops is its
\* choice; a stop() once begun goes on.  Spurious wakeups need not happen.
FairMock == MockSpec /\ WF_mockVars(Worker) /\ WF_mockVars(StopNotify \/ StopJoin)
-----------------------------------------------------------------------------
\* The mock implements the seam: no request is answered twice, none that was
\* rejected is answered, and stop() returns only when every accepted one has been
\* (sign_bridge.cpp:58 "drains workers, joins threads").
Seam == INSTANCE SignDetector WITH
  Ids         <- 1 .. MaxRequests,
  outstanding <- ToSet(q) \union ({current} \ {0}),
  stopped     <- client = "done"

SeamSpec == Seam!DetectorSpec

\* Every request that enqueue accepted is answered, also when stop() has been called.
AcceptedIsAnswered ==
  \A id \in 1 .. MaxRequests : id \in ToSet(q) ~> id \in ToSet(answered)

\* sign_bridge.cpp:58 says stop() "drains workers, joins threads": once called it
\* returns.
StopReturns == client = "notify" ~> client = "done"
=============================================================================
