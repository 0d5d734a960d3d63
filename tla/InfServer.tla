----------------------------- MODULE InfServer -----------------------------
(***************************************************************************)
(* The Python inference server: one process, one REP socket, one           *)
(* DvisRunner behind it (inf_server/main.py, dvis_runner.py).  Its state   *)
(* is global: whoever speaks to it next finds the model, the vocabulary    *)
(* and the tracker memory the last caller left.                            *)
(*                                                                         *)
(* A class name is a number and sorts like its name.  A label is a         *)
(* position, from 0, in the vocabulary.  What the network says of an image *)
(* is nondeterministic: queries with a class, a score and a mask.  What    *)
(* _resolve_vps makes of them is not.                                      *)
(***************************************************************************)
EXTENDS Integers, Sequences, FiniteSets, FiniteSetsExt, SequencesExt

CONSTANTS
  Pixels,      \* pixels of an image
  NumQueries,  \* queries of the network
  Probs,       \* mask probabilities, in tenths
  Scores,      \* class scores, in tenths
  MaxClasses   \* bound: length of a vocabulary

ASSUME InfServerAssumption ==
  /\ Pixels # {} /\ IsFiniteSet(Pixels)
  /\ NumQueries \in Nat /\ MaxClasses \in Nat
  /\ Probs \subseteq 0 .. 10 /\ Scores \subseteq 0 .. 10

VARIABLES
  up,       \* the process runs
  model,    \* "none", "bare" (built, weights not loaded) or "loaded"
  classes,  \* the names behind the text classifier tc; <<>> for None
  things,   \* num_thing
  keep,     \* keep: the next frame resumes the tracker
  memory,   \* history: the runs whose frames the tracker remembers
  requests, \* ZeroMQ: requests the server has not taken
  replies   \* ZeroMQ: replies the present client has not read

runnerVars  == <<model, classes, things, keep, memory>>
channelVars == <<requests, replies>>
serverVars  == <<up, runnerVars, channelVars>>

None == "none"

Background == -1
-----------------------------------------------------------------------------
(* Per-pixel resolution of one image *)

MaskThreshold == 1     \* OBJECT_MASK_THRESH, in tenths
OverlapThreshold == 7  \* OVERLAP_THRESH, in tenths
Half == 5

\* What the network can answer for an image: one record per query.  The class
\* n stands for void in a vocabulary of n classes.
Answers(n) ==
  [1 .. NumQueries -> [class : 0 .. n, score : Scores, mask : [Pixels -> Probs]]]

Kept(q, n) == {k \in DOMAIN q : q[k].class # n /\ q[k].score > MaskThreshold}

\* cur_prob.argmax(0): the query that claims a pixel; a tie goes to the first.
Claims(q, K, p) ==
  LET prob(k) == q[k].score * q[k].mask[p]
  IN  Min({k \in K : \A j \in K : prob(k) >= prob(j)})

Original(q, k) == {p \in Pixels : q[k].mask[p] >= Half}

\* Mutant: a segment is its own mask, whoever claims the pixels.
SegmentUnclaimed(q, K, k) == Original(q, k)

Segment(q, K, k) == {p \in Original(q, k) : Claims(q, K, p) = k}

Stable(q, K, k) ==
  /\ Segment(q, K, k) # {}
  /\ 10 * Cardinality(Segment(q, K, k)) >= OverlapThreshold * Cardinality(Original(q, k))

\* label_map, id_map and the instance list of one image.
Resolve(q, n, nthing) ==
  LET K == Kept(q, n)
      S == {k \in K : Stable(q, K, k)}
      T == {k \in S : q[k].class < nthing}
      SegId(k) == Cardinality({j \in T : j <= k})
      At(p) == {k \in S : p \in Segment(q, K, k)}
  IN  [label |-> [p \in Pixels |-> IF At(p) = {} THEN Background
                                   ELSE q[Max(At(p))].class],
       id    |-> [p \in Pixels |-> IF At(p) \cap T = {} THEN Background
                                   ELSE SegId(Max(At(p) \cap T))],
       instances |-> {[id |-> SegId(k), label |-> q[k].class] : k \in T}]

\* The results a vocabulary of n classes, nthing of them things, can lead to.
Results == [n \in 1 .. MaxClasses |-> [nthing \in 0 .. n |->
              {Resolve(q, n, nthing) : q \in Answers(n)}]]
-----------------------------------------------------------------------------
(* The handlers *)

\* sorted: the names in ascending order.
Sorted(names) ==
  LET order == CHOOSE f \in Bijection(DOMAIN names, DOMAIN names) :
                 \A i, j \in DOMAIN names : i < j => names[f[i]] <= names[f[j]]
  IN  [i \in 1 .. Len(names) |-> names[order[i]]]

\* thing + stuff, each sorted by canonical name.
Ordered(thing, stuff) == Sorted(thing) \o Sorted(stuff)

ServerInit ==
  /\ up = TRUE
  /\ model = None /\ classes = <<>> /\ things = 0
  /\ keep = FALSE /\ memory = {}
  /\ requests = <<>> /\ replies = <<>>

\* socket.send(pack(reply)): the REP socket answers the request it took last;
\* a reply to a client that has gone is dropped.
Reply(req, ok, body) ==
  replies' = IF req.peer THEN Append(replies, [call |-> req.call, ok |-> ok, body |-> body])
             ELSE replies

\* Mutant: a reset that leaves the sequence to be continued.
ResetTrackerLater == UNCHANGED <<keep, memory>>

\* reset(): forget the sequence.
ResetTracker ==
  /\ keep' = FALSE
  /\ memory' = {}

HandlePing(req) ==
  /\ req.cmd = "ping"
  /\ Reply(req, TRUE, None)
  /\ UNCHANGED <<model, classes, things, keep, memory>>

HandleReset(req) ==
  /\ req.cmd = "reset"
  /\ ResetTracker
  /\ Reply(req, TRUE, None)
  /\ UNCHANGED <<model, classes, things>>

\* set_vocab.  The model is built and loaded by the first call only; the
\* classifier, its size and the sequence are replaced at the end.
HandleVocab(req) ==
  /\ req.cmd = "set_vocab"
  /\ req.thing \o req.stuff # <<>>
  /\ model' = IF model = None THEN "loaded" ELSE model
  /\ classes' = Ordered(req.thing, req.stuff)
  /\ things' = Len(req.thing)
  /\ ResetTracker
  /\ Reply(req, TRUE, None)

\* set_vocab raises: no class at all, or the model cannot be built or loaded, or
\* the classifier cannot be computed.  What was assigned before stays.
HandleVocabFails(req) ==
  /\ req.cmd = "set_vocab"
  /\ IF req.thing \o req.stuff = <<>> \/ model # None
       THEN UNCHANGED model
       ELSE model' \in {None, "bare", "loaded"}
  /\ Reply(req, FALSE, None)
  /\ UNCHANGED <<classes, things, keep, memory>>

\* The tracker takes the frame in: it resumes its memory, or starts a new one.
Track(req) ==
  /\ keep' = TRUE
  /\ memory' = (IF keep THEN memory ELSE {}) \union {req.run}

\* infer.  The reply also carries, as a history, what its labels meant to the
\* server and which runs the tracker was following.
HandleFrame(req) ==
  /\ req.cmd = "frame"
  /\ classes # <<>>
  /\ Track(req)
  /\ \E r \in Results[Len(classes)][things] :
       Reply(req, TRUE, [maps |-> r, meant |-> classes, tracked |-> memory'])
  /\ UNCHANGED <<model, classes, things>>

\* infer raises: no vocabulary, or out of memory, before or after the tracker.
HandleFrameFails(req) ==
  /\ req.cmd = "frame"
  /\ \/ UNCHANGED <<keep, memory>>
     \/ classes # <<>> /\ Track(req)
  /\ Reply(req, FALSE, None)
  /\ UNCHANGED <<model, classes, things>>

\* One turn of the loop: take a request, handle it, reply.
Serve ==
  /\ up /\ requests # <<>>
  /\ LET req == Head(requests)
     IN  \/ HandlePing(req)
         \/ HandleReset(req)
         \/ HandleVocab(req)
         \/ HandleVocabFails(req)
         \/ HandleFrame(req)
         \/ HandleFrameFails(req)
  /\ requests' = Tail(requests)
  /\ UNCHANGED up

\* The process dies with all its state.  A request it has taken, or a reply it
\* has not sent, dies with it; one still in the client's pipe does not.
Crash ==
  /\ up
  /\ up' = FALSE
  /\ model' = None /\ classes' = <<>> /\ things' = 0
  /\ keep' = FALSE /\ memory' = {}
  /\ requests' \in {requests, <<>>}
  /\ replies' \in {replies, <<>>}

Restart ==
  /\ ~up
  /\ up' = TRUE
  /\ UNCHANGED <<model, classes, things, keep, memory, requests, replies>>
=============================================================================
