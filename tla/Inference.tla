----------------------------- MODULE Inference -----------------------------
(***************************************************************************)
(* The client side of inference and the runs that use it: InfClient        *)
(* (inf_client.cpp) on a ZeroMQ REQ socket, OnlineSemantic::begin, and the *)
(* two drivers around them.  "replay" is run_semantic_universe: the first  *)
(* exception ends the process.  "runner" is SemanticRunner: an exception   *)
(* in the constructor leaves no runner, one in runOnInput reaches the      *)
(* robot's caller, who may hand in the next frame.                         *)
(*                                                                         *)
(* Runs follow one another against one server, which may be down, slow,    *)
(* crash and be restarted at any time; a run may be killed at any time.    *)
(* ZeroMQ is external: a request sent while the server is down waits in    *)
(* the client's pipe, and a REQ socket whose receive timed out refuses to  *)
(* send for the rest of its life (EFSM).                                   *)
(***************************************************************************)
EXTENDS InfServer

CONSTANTS
  Configs,     \* the vocabularies of run.yaml files: [thing, stuff]
  MaxRuns,     \* bound: runs
  MaxFrames,   \* bound: frames handed to a run
  MaxCrashes   \* bound: crashes of the server

ASSUME InferenceAssumption ==
  /\ \A c \in Configs : /\ c.thing \in Seq(Nat) /\ c.stuff \in Seq(Nat)
                        /\ Len(c.thing \o c.stuff) <= MaxClasses
  /\ MaxRuns \in Nat /\ MaxFrames \in Nat /\ MaxCrashes \in Nat

VARIABLES
  run,      \* number of the present run, or of the last one
  entry,    \* "replay" or "runner"
  config,   \* the run's configuration
  stage,    \* the call the run makes next, or is in
  calling,  \* blocked in roundtrip
  stuck,    \* the REQ socket waits for a reply it will never read
  vocab,    \* vocab_
  calls,    \* calls of this run
  frames,   \* frames handed to this run
  thrown,   \* the call of this run that threw last
  result,   \* the FrameResult of the last frame() that returned one
  crashes   \* crashes so far

clientVars == <<run, entry, config, calling, stuck, vocab, calls, frames, thrown, result>>
vars == <<stage, clientVars, crashes, serverVars>>

Empty == [thing |-> <<>>, stuff |-> <<>>]

NoResult == [call |-> 0, ok |-> FALSE, body |-> None]

Init ==
  /\ ServerInit
  /\ run = 0 /\ entry = None /\ config = Empty /\ stage = "off"
  /\ calling = FALSE /\ stuck = FALSE
  /\ vocab = <<>> /\ calls = 0 /\ frames = 0
  /\ thrown = None /\ result = NoResult /\ crashes = 0
-----------------------------------------------------------------------------
(* A process starts and ends *)

\* A new process: a new socket, an empty vocabulary.  Both drivers ping first.
StartRun ==
  /\ stage = "off" /\ run < MaxRuns
  /\ run' = run + 1
  /\ entry' \in {"replay", "runner"}
  /\ config' \in Configs
  /\ stage' = "ping"
  /\ calling' = FALSE /\ stuck' = FALSE
  /\ vocab' = <<>> /\ calls' = 0 /\ frames' = 0
  /\ thrown' = None /\ result' = NoResult
  /\ UNCHANGED <<crashes, serverVars>>

\* The socket is closed with linger 0.  Its replies are gone; a request that
\* has not reached the server goes with it, one that has is still served.
CloseSocket ==
  /\ replies' = <<>>
  /\ requests' \in {<<>>} \union
       (IF up THEN {[i \in DOMAIN requests |-> [requests[i] EXCEPT !.peer = FALSE]]} ELSE {})

\* The run ends: it has all its frames, its caller gives up, or it is killed.
EndRun ==
  /\ stage # "off"
  /\ stage' = "off"
  /\ calling' = FALSE
  /\ CloseSocket
  /\ UNCHANGED <<run, entry, config, stuck, vocab, calls, frames, thrown, result,
                 crashes, up, runnerVars>>
-----------------------------------------------------------------------------
(* One round trip *)

Request ==
  [run |-> run, call |-> calls + 1, peer |-> TRUE, cmd |-> stage,
   thing |-> IF stage = "set_vocab" THEN config.thing ELSE <<>>,
   stuff |-> IF stage = "set_vocab" THEN config.stuff ELSE <<>>]

\* Mutant: the names in the order of run.yaml.
NoteVocabAsGiven ==
  vocab' = IF stage = "set_vocab" THEN config.thing \o config.stuff ELSE vocab

\* setVocab replaces the client's vocabulary before it speaks to the server.
NoteVocab ==
  vocab' = IF stage = "set_vocab" THEN Ordered(config.thing, config.stuff) ELSE vocab

\* What an exception out of the present call does, with unread replies: the
\* process ends, except that a runner's caller may come back with another frame.
Throw(unread) ==
  /\ calling' = FALSE
  /\ thrown' = stage
  /\ IF entry = "runner" /\ stage = "frame"
       THEN stage' = "idle" /\ replies' = unread /\ UNCHANGED requests
       ELSE stage' = "off" /\ CloseSocket

\* Mutant: a socket that may send again (ZMQ_REQ_RELAXED).
CanSendRelaxed == TRUE

\* zmq send: refused while the socket still waits for an earlier reply.
CanSend == ~stuck

InCall == stage \in {"ping", "set_vocab", "reset", "frame"}

Send ==
  /\ InCall /\ ~calling /\ CanSend
  /\ NoteVocab
  /\ calling' = TRUE
  /\ calls' = calls + 1
  /\ requests' = Append(requests, Request)
  /\ UNCHANGED <<run, entry, config, stage, stuck, frames, thrown, result, crashes,
                 up, runnerVars, replies>>

SendRefused ==
  /\ InCall /\ ~calling /\ ~CanSend
  /\ NoteVocab
  /\ calls' = calls + 1
  /\ Throw(replies)
  /\ UNCHANGED <<run, entry, config, stuck, frames, result, crashes, up, runnerVars>>

\* What follows a call that succeeded.  begin() is set_vocab, then reset.
Following(call) ==
  CASE call = "ping"      -> "set_vocab"
    [] call = "set_vocab" -> "reset"
    [] OTHER              -> "idle"

\* recv and checkOk: a reply, good.
Return ==
  /\ calling /\ replies # <<>> /\ Head(replies).ok
  /\ calling' = FALSE
  /\ replies' = Tail(replies)
  /\ result' = IF stage = "frame" THEN Head(replies) ELSE result
  /\ stage' = Following(stage)
  /\ UNCHANGED <<run, entry, config, stuck, vocab, calls, frames, thrown, crashes,
                 up, runnerVars, requests>>

\* A reply with an error: checkOk throws.  The socket is free again.
ReturnError ==
  /\ calling /\ replies # <<>> /\ ~Head(replies).ok
  /\ Throw(Tail(replies))
  /\ UNCHANGED <<run, entry, config, stuck, vocab, calls, frames, result, crashes,
                 up, runnerVars>>

\* Mutant: no receive timeout.
TimeoutNever == FALSE

\* rcvtimeo has passed without a reply: roundtrip throws.
Timeout ==
  /\ calling /\ replies = <<>>
  /\ stuck' = TRUE
  /\ Throw(replies)
  /\ UNCHANGED <<run, entry, config, vocab, calls, frames, result, crashes, up, runnerVars>>

\* The next frame of the log, or of the robot.
NextFrame ==
  /\ stage = "idle" /\ frames < MaxFrames
  /\ frames' = frames + 1
  /\ stage' = "frame"
  /\ UNCHANGED <<run, entry, config, calling, stuck, vocab, calls, thrown, result,
                 crashes, serverVars>>

Client == Send \/ SendRefused \/ Return \/ ReturnError \/ Timeout \/ NextFrame

Server ==
  \/ Serve /\ UNCHANGED crashes
  \/ Crash /\ crashes < MaxCrashes /\ crashes' = crashes + 1
  \/ Restart /\ UNCHANGED crashes

Next ==
  \/ StartRun \/ EndRun \/ Client
  \/ Server /\ UNCHANGED <<stage, clientVars>>

\* rcvtimeo bounds every recv: a call that has a reply reads it, and one that
\* gets none times out.  Nothing is assumed of the server.
Fairness == WF_vars(Return \/ ReturnError \/ Timeout)

Spec == Init /\ [][Next]_vars /\ Fairness
-----------------------------------------------------------------------------
(* Properties *)

\* A reply the client is about to read answers the call it is in: after a
\* timeout the late answer must never pass for the answer to a later call.
AnswersTheCall ==
  calling /\ replies # <<>> => Len(replies) = 1 /\ Head(replies).call = calls

\* className
ClassName(label) == IF label \in 0 .. Len(vocab) - 1 THEN vocab[label + 1] ELSE 0

HasFrame == stage # "off" /\ result # NoResult

\* className gives every label of a returned frame the name the server's
\* classifier meant by it, whatever was restarted, retried or killed before.
LabelsKeepTheirNames ==
  HasFrame => \A p \in Pixels :
    LET label == result.body.maps.label[p]
    IN  label # Background => ClassName(label) = result.body.meant[label + 1]

\* The three parts of a frame tell one story, in the client's own vocabulary: a
\* pixel has an instance id exactly where its class is one of the run's things,
\* the id is that of one instance, with the pixel's class, and every instance
\* shows somewhere.  The lifting and the sign bridge read all three.
ThingsHaveInstances ==
  HasFrame =>
    LET maps == result.body.maps
        IsThing(p) == ClassName(maps.label[p]) \in Range(config.thing)
        Of(p) == {i \in maps.instances : i.id = maps.id[p]}
    IN  /\ \A p \in Pixels :
             /\ IsThing(p) <=> maps.id[p] # Background
             /\ IsThing(p) => /\ Cardinality(Of(p)) = 1
                              /\ \A i \in Of(p) : i.label = maps.label[p]
        /\ \A i \in maps.instances : \E p \in Pixels : maps.id[p] = i.id

\* The instance ids of a run continue no track of another run: the server's
\* tracker outlives the processes that use it.
TracksAreThisRuns == HasFrame => result.body.tracked = {run}

\* Every call of the client comes back, with an answer or an exception, even if
\* the server dies with the request.
CallsComeBack == calling ~> ~calling
=============================================================================
