-------------------------- MODULE InferenceProofs --------------------------
(***************************************************************************)
(* Proofs about Inference: for any vocabularies, any number of runs and    *)
(* frames, whatever times out, crashes, is restarted or killed, an answer  *)
(* is read by the call it answers, the labels of a frame carry the names   *)
(* of the client's own vocabulary, its parts agree with one another, and   *)
(* its instance ids belong to tracks of this run.                          *)
(*                                                                         *)
(* One server serves everybody in turn, so the invariant follows what is   *)
(* under way.  ChannelInv: a request of the present client is the last of  *)
(* the queue and the only one, and belongs to the call it is in, unless    *)
(* the socket is stuck.  SettledInv: once the server has answered a ping,  *)
(* no request of an earlier run is left, so from then on the state of the  *)
(* server is this client's own.  VocabularyInv and MemoryInv say what that *)
(* state is at each stage; a crash may empty it, never change it.          *)
(***************************************************************************)
EXTENDS Inference, NatLemmas, SequenceTheorems, FiniteSetTheorems, TLAPS

Commands == {"ping", "set_vocab", "reset", "frame"}

RequestType == [run : Nat, call : Nat, peer : BOOLEAN, cmd : Commands,
                thing : Seq(Nat), stuff : Seq(Nat)]

Maps == UNION {UNION {Results[n][k] : k \in 0 .. n} : n \in 1 .. MaxClasses}

ReplyType == [call : Nat, ok : BOOLEAN,
              body : {None} \union [maps : Maps, meant : Seq(Nat), tracked : SUBSET Nat]]

TypeInv ==
  /\ run \in Nat /\ calls \in Nat
  /\ calling \in BOOLEAN /\ stuck \in BOOLEAN /\ keep \in BOOLEAN
  /\ config \in Configs \union {Empty}
  /\ stage \in Commands \union {"off", "idle"}
  /\ vocab \in Seq(Nat) /\ classes \in Seq(Nat)
  /\ things \in Nat /\ memory \in SUBSET Nat
  /\ requests \in Seq(RequestType) /\ replies \in Seq(ReplyType)

\* A request of the present client.
OwnInv(req) ==
  /\ replies = <<>> /\ stage # "off" /\ (calling \/ stuck)
  /\ req.run = run
  /\ calling => req.call = calls /\ req.cmd = stage
  /\ stuck => req.cmd = "frame"
  /\ req.cmd = "set_vocab" => req.thing = config.thing /\ req.stuff = config.stuff

ChannelInv ==
  /\ calling => InCall /\ ~stuck
  /\ stage = "off" => ~calling /\ replies = <<>>
  /\ stuck /\ stage # "off" => stage \in {"idle", "frame"}
  /\ \A i \in 1 .. Len(requests) :
       requests[i].peer => i = Len(requests) /\ OwnInv(requests[i])
  /\ replies # <<>> => Len(replies) = 1 /\ (calling \/ stuck)
                       /\ (calling => Head(replies).call = calls)

SettledInv ==
  stage \in {"set_vocab", "reset", "idle", "frame"} \/ replies # <<>> =>
    \A i \in 1 .. Len(requests) : requests[i].peer

\* The call is answered, and well.
Answered(cmd) == stage = cmd /\ calling /\ replies # <<>> /\ Head(replies).ok

VocabularyInv ==
  /\ stage \in {"reset", "idle", "frame"} \/ (stage = "set_vocab" /\ calling) =>
       vocab = Ordered(config.thing, config.stuff)
  /\ stage \in {"reset", "idle", "frame"} \/ Answered("set_vocab") =>
       classes = <<>> \/ (classes = vocab /\ things = Len(config.thing))

MemoryInv ==
  stage \in {"idle", "frame"} \/ Answered("reset") => (keep => memory \subseteq {run})

GoodFrame(body) ==
  /\ body.meant = vocab /\ vocab # <<>>
  /\ body.tracked = {run}
  /\ body.maps \in Results[Len(vocab)][Len(config.thing)]

ResultInv ==
  /\ Answered("frame") => GoodFrame(Head(replies).body)
  /\ stage \in {"ping", "set_vocab", "reset"} => result = NoResult
  /\ HasFrame => GoodFrame(result.body)

RunInv == ChannelInv /\ SettledInv /\ VocabularyInv /\ MemoryInv /\ ResultInv

Inv == TypeInv /\ RunInv
-----------------------------------------------------------------------------
(* Sorting *)

\* Among finitely many names one is greatest.
LEMMA GreatestName ==
  ASSUME NEW n \in Nat, NEW t \in [1 .. n + 1 -> Nat]
  PROVE  \E m \in 1 .. n + 1 : \A i \in 1 .. n + 1 : t[i] <= t[m]
<1> DEFINE Top(k, m) == \A i \in 1 .. k + 1 : t[i] <= t[m]
           Reach == {k \in Nat : k <= n => \E m \in 1 .. k + 1 : Top(k, m)}
<1>1. 0 \in Reach
  <2>1. Top(0, 1)
    OBVIOUS
  <2>2. QED
    BY <2>1
<1>2. ASSUME NEW k \in Nat, k \in Reach PROVE k + 1 \in Reach
  <2>1. SUFFICES ASSUME k + 1 <= n PROVE \E m \in 1 .. k + 2 : Top(k + 1, m)
    OBVIOUS
  <2>2. PICK m \in 1 .. k + 1 : Top(k, m)
    BY <1>2, <2>1
  <2>3. \A i \in 1 .. k + 2 : i \in 1 .. k + 1 \/ i = k + 2
    OBVIOUS
  <2>4. t[m] \in Nat /\ t[k + 2] \in Nat /\ \A i \in 1 .. k + 1 : t[i] \in Nat
    BY <2>1
  <2>5. CASE t[k + 2] <= t[m]
    <3>1. Top(k + 1, m) /\ m \in 1 .. k + 2
      BY <2>2, <2>3, <2>5
    <3>2. QED
      BY <3>1
  <2>6. CASE ~ (t[k + 2] <= t[m])
    <3>1. Top(k + 1, k + 2)
      BY <2>2, <2>3, <2>4, <2>6
    <3>2. QED
      BY <3>1
  <2>7. QED
    BY <2>5, <2>6
<1>3. n \in Reach
  <2> HIDE DEF Reach
  <2>1. QED
    BY <1>1, <1>2, SetInduction
<1>4. QED
  BY <1>3

\* Every sequence of names has a permutation in ascending order: what comes last
\* is a greatest name, and the others are sorted by induction.
LEMMA CanBeSorted ==
  ASSUME NEW s \in Seq(Nat)
  PROVE  \E f \in Bijection(DOMAIN s, DOMAIN s) :
           \A i, j \in DOMAIN s : i < j => s[f[i]] <= s[f[j]]
<1> DEFINE InOrder(t, n, f) == \A i, j \in 1 .. n : i < j => t[f[i]] <= t[f[j]]
           Sortable == {n \in Nat : \A t \in [1 .. n -> Nat] :
                          \E f \in Bijection(1 .. n, 1 .. n) : InOrder(t, n, f)}
<1>1. 0 \in Sortable
  <2> DEFINE e == [i \in 1 .. 0 |-> i]
  <2>1. e \in [1 .. 0 -> 1 .. 0] /\ DOMAIN e = {} /\ 1 .. 0 = {}
    OBVIOUS
  <2> HIDE DEF e
  <2>2. e \in Bijection(1 .. 0, 1 .. 0)
    BY <2>1 DEF Bijection, Injection, Surjection, IsInjective
  <2>3. QED
    BY <2>2
<1>2. ASSUME NEW n \in Nat, n \in Sortable PROVE n + 1 \in Sortable
  <2>1. SUFFICES ASSUME NEW t \in [1 .. n + 1 -> Nat]
                 PROVE  \E f \in Bijection(1 .. n + 1, 1 .. n + 1) : InOrder(t, n + 1, f)
    <3> HIDE DEF InOrder
    <3>1. QED
      OBVIOUS
  <2>2. PICK m \in 1 .. n + 1 : \A i \in 1 .. n + 1 : t[i] <= t[m]
    BY GreatestName
  <2> DEFINE u == [i \in 1 .. n |-> IF i = m THEN t[n + 1] ELSE t[i]]
  <2>3. u \in [1 .. n -> Nat]
    OBVIOUS
  <2>4. PICK h \in Bijection(1 .. n, 1 .. n) : InOrder(u, n, h)
    BY <1>2, <2>3
  <2> DEFINE f == [i \in 1 .. n + 1 |-> IF i = n + 1 THEN m
                                        ELSE IF h[i] = m THEN n + 1 ELSE h[i]]
  <2>5. /\ h \in [1 .. n -> 1 .. n]
        /\ \A i, j \in 1 .. n : h[i] = h[j] => i = j
        /\ \A k \in 1 .. n : \E i \in 1 .. n : h[i] = k
    BY DEF Bijection, Injection, Surjection, IsInjective
  <2>6. /\ f = [i \in 1 .. n + 1 |-> f[i]]
        /\ f[n + 1] = m
        /\ \A i \in 1 .. n : f[i] = IF h[i] = m THEN n + 1 ELSE h[i]
        /\ \A i \in 1 .. n : u[i] = IF i = m THEN t[n + 1] ELSE t[i]
        /\ \A i \in 1 .. n + 1 : i \in 1 .. n \/ i = n + 1
        /\ 1 .. n \subseteq 1 .. n + 1 /\ n + 1 \in 1 .. n + 1 /\ n + 1 \notin 1 .. n
    OBVIOUS
  <2> HIDE DEF f, u
  <2>7. f \in Bijection(1 .. n + 1, 1 .. n + 1)
    <3>1. ASSUME NEW i \in 1 .. n + 1 PROVE f[i] \in 1 .. n + 1
      <4>1. CASE i \in 1 .. n
        <5>1. h[i] \in 1 .. n /\ f[i] = IF h[i] = m THEN n + 1 ELSE h[i]
          BY <2>5, <2>6, <4>1
        <5>2. QED
          BY <2>6, <5>1
      <4>2. CASE i = n + 1
        BY <2>6, <4>2
      <4>3. QED
        BY <2>6, <4>1, <4>2
    <3>2. ASSUME NEW i \in 1 .. n + 1, NEW j \in 1 .. n + 1, f[i] = f[j] PROVE i = j
      <4>1. \A k \in 1 .. n : h[k] \in 1 .. n /\ h[k] # n + 1 /\ f[k] # m
        <5>1. SUFFICES ASSUME NEW k \in 1 .. n PROVE h[k] \in 1 .. n /\ f[k] # m
          BY <2>6
        <5>2. h[k] \in 1 .. n
          BY <2>5
        <5>3. CASE h[k] = m
          BY <2>6, <5>2, <5>3
        <5>4. CASE h[k] # m
          BY <2>6, <5>2, <5>4
        <5>5. QED
          BY <5>2, <5>3, <5>4
      <4>2. CASE i \in 1 .. n /\ j \in 1 .. n
        <5>1. h[i] = h[j]
          BY <2>6, <3>2, <4>1, <4>2
        <5>2. QED
          BY <2>5, <4>2, <5>1
      <4>3. QED
        BY <2>6, <3>2, <4>1, <4>2
    <3>3. ASSUME NEW k \in 1 .. n + 1 PROVE \E i \in 1 .. n + 1 : f[i] = k
      <4>1. CASE k = m
        BY <2>6, <4>1
      <4>2. CASE k # m /\ k = n + 1
        <5>1. m \in 1 .. n
          BY <2>6, <4>2
        <5>2. PICK i \in 1 .. n : h[i] = m
          BY <2>5, <5>1
        <5>3. f[i] = k
          BY <2>6, <4>2, <5>2
        <5>4. QED
          BY <2>6, <5>3
      <4>3. CASE k # m /\ k \in 1 .. n
        <5>1. PICK i \in 1 .. n : h[i] = k
          BY <2>5, <4>3
        <5>2. f[i] = k
          BY <2>6, <4>3, <5>1
        <5>3. QED
          BY <2>6, <5>2
      <4>4. QED
        BY <2>6, <4>1, <4>2, <4>3
    <3>4. QED
      BY <2>6, <3>1, <3>2, <3>3 DEF Bijection, Injection, Surjection, IsInjective
  <2>8. InOrder(t, n + 1, f)
    <3>1. SUFFICES ASSUME NEW i \in 1 .. n + 1, NEW j \in 1 .. n + 1, i < j
                   PROVE  t[f[i]] <= t[f[j]]
      OBVIOUS
    <3>2. i \in 1 .. n
      BY <3>1
    <3> DEFINE At(k) == t[f[k]] = u[h[k]] /\ f[k] \in 1 .. n + 1
    <3>3. \A k \in 1 .. n : At(k)
      <4>1. ASSUME NEW k \in 1 .. n PROVE At(k)
        <5>1. h[k] \in 1 .. n /\ f[k] = IF h[k] = m THEN n + 1 ELSE h[k]
          BY <2>5, <2>6
        <5>2. u[h[k]] = IF h[k] = m THEN t[n + 1] ELSE t[h[k]]
          BY <2>6, <5>1
        <5>3. f[k] \in 1 .. n + 1
          BY <2>6, <5>1
        <5>4. QED
          BY <5>1, <5>2, <5>3
      <4> HIDE DEF At
      <4>2. QED
        BY <4>1
    <3>4. CASE j = n + 1
      BY <2>2, <2>6, <3>2, <3>3, <3>4
    <3>5. CASE j \in 1 .. n
      <4>1. u[h[i]] <= u[h[j]]
        BY <2>4, <3>1, <3>2, <3>5
      <4>2. t[f[i]] = u[h[i]] /\ t[f[j]] = u[h[j]]
        BY <3>2, <3>3, <3>5
      <4>3. QED
        BY <4>1, <4>2
    <3>6. QED
      BY <2>6, <3>4, <3>5
  <2>9. QED
    BY <2>7, <2>8
<1>3. Nat \subseteq Sortable
  <2> HIDE DEF Sortable
  <2>1. QED
    BY <1>1, <1>2, SetInduction
<1>4. Len(s) \in Nat /\ DOMAIN s = 1 .. Len(s) /\ s \in [1 .. Len(s) -> Nat]
  OBVIOUS
<1>5. QED
  BY <1>3, <1>4

\* A sorted vocabulary holds the same names, as many times over.
LEMMA SortedFacts ==
  ASSUME NEW s \in Seq(Nat)
  PROVE  /\ Sorted(s) \in Seq(Nat) /\ Len(Sorted(s)) = Len(s)
         /\ \A x : (\E i \in 1 .. Len(s) : Sorted(s)[i] = x) <=> (\E i \in 1 .. Len(s) : s[i] = x)
<1> DEFINE Good(f) == \A i, j \in DOMAIN s : i < j => s[f[i]] <= s[f[j]]
           order == CHOOSE f \in Bijection(DOMAIN s, DOMAIN s) : Good(f)
<1>1. Len(s) \in Nat /\ DOMAIN s = 1 .. Len(s) /\ \A i \in 1 .. Len(s) : s[i] \in Nat
  OBVIOUS
<1>2. order \in Bijection(DOMAIN s, DOMAIN s)
  BY CanBeSorted
<1>3. Sorted(s) = [i \in 1 .. Len(s) |-> s[order[i]]]
  BY DEF Sorted
<1> HIDE DEF order
<1>4. /\ order \in [1 .. Len(s) -> 1 .. Len(s)]
      /\ \A k \in 1 .. Len(s) : \E i \in 1 .. Len(s) : order[i] = k
  BY <1>1, <1>2 DEF Bijection, Injection, Surjection
<1>5. Sorted(s) \in [1 .. Len(s) -> Nat]
  BY <1>1, <1>3, <1>4
<1>6. Sorted(s) \in Seq(Nat) /\ Len(Sorted(s)) = Len(s)
  BY <1>1, <1>5
<1>7. \A i \in 1 .. Len(s) : Sorted(s)[i] = s[order[i]]
  BY <1>3
<1>8. ASSUME NEW x PROVE (\E i \in 1 .. Len(s) : Sorted(s)[i] = x) <=> (\E i \in 1 .. Len(s) : s[i] = x)
  <2>1. ASSUME NEW i \in 1 .. Len(s), Sorted(s)[i] = x PROVE \E k \in 1 .. Len(s) : s[k] = x
    BY <1>4, <1>7, <2>1
  <2>2. ASSUME NEW k \in 1 .. Len(s), s[k] = x PROVE \E i \in 1 .. Len(s) : Sorted(s)[i] = x
    <3>1. PICK i \in 1 .. Len(s) : order[i] = k
      BY <1>4
    <3>2. Sorted(s)[i] = x
      BY <1>7, <2>2, <3>1
    <3>3. QED
      BY <3>2
  <2>3. QED
    BY <2>1, <2>2
<1>9. QED
  BY <1>6, <1>8

LEMMA OrderedFacts ==
  ASSUME NEW thing \in Seq(Nat), NEW stuff \in Seq(Nat)
  PROVE  /\ Ordered(thing, stuff) \in Seq(Nat)
         /\ Len(Ordered(thing, stuff)) = Len(thing) + Len(stuff)
         /\ \A i \in 1 .. Len(thing) : Ordered(thing, stuff)[i] = Sorted(thing)[i]
         /\ \A i \in 1 .. Len(stuff) : Ordered(thing, stuff)[Len(thing) + i] = Sorted(stuff)[i]
<1>1. /\ Sorted(thing) \in Seq(Nat) /\ Len(Sorted(thing)) = Len(thing)
      /\ Sorted(stuff) \in Seq(Nat) /\ Len(Sorted(stuff)) = Len(stuff)
  BY SortedFacts
<1>2. Len(thing) \in Nat /\ Len(stuff) \in Nat
  OBVIOUS
<1>3. /\ Ordered(thing, stuff) \in Seq(Nat)
      /\ Len(Ordered(thing, stuff)) = Len(thing) + Len(stuff)
      /\ \A i \in 1 .. Len(thing) + Len(stuff) : Ordered(thing, stuff)[i] =
           IF i <= Len(thing) THEN Sorted(thing)[i] ELSE Sorted(stuff)[i - Len(thing)]
  <2>1. ASSUME NEW a \in Seq(Nat), NEW b \in Seq(Nat)
        PROVE  /\ a \o b \in Seq(Nat) /\ Len(a \o b) = Len(a) + Len(b)
               /\ \A i \in 1 .. Len(a) + Len(b) :
                    (a \o b)[i] = IF i <= Len(a) THEN a[i] ELSE b[i - Len(a)]
    BY ConcatProperties
  <2>2. Ordered(thing, stuff) = Sorted(thing) \o Sorted(stuff)
    BY DEF Ordered
  <2>3. /\ Sorted(thing) \o Sorted(stuff) \in Seq(Nat)
        /\ Len(Sorted(thing) \o Sorted(stuff)) = Len(Sorted(thing)) + Len(Sorted(stuff))
        /\ \A i \in 1 .. Len(Sorted(thing)) + Len(Sorted(stuff)) :
             (Sorted(thing) \o Sorted(stuff))[i] =
               IF i <= Len(Sorted(thing)) THEN Sorted(thing)[i]
               ELSE Sorted(stuff)[i - Len(Sorted(thing))]
    BY <1>1, <2>1
  <2>4. QED
    BY <1>1, <2>2, <2>3
<1>4. ASSUME NEW i \in 1 .. Len(thing)
      PROVE  Ordered(thing, stuff)[i] = Sorted(thing)[i]
  BY <1>2, <1>3
<1>5. ASSUME NEW i \in 1 .. Len(stuff)
      PROVE  Ordered(thing, stuff)[Len(thing) + i] = Sorted(stuff)[i]
  <2>1. /\ Len(thing) + i \in 1 .. Len(thing) + Len(stuff) /\ ~ (Len(thing) + i <= Len(thing))
        /\ (Len(thing) + i) - Len(thing) = i
    BY <1>2
  <2>2. QED
    BY <1>3, <2>1
<1>6. /\ \A i \in 1 .. Len(thing) : Ordered(thing, stuff)[i] = Sorted(thing)[i]
      /\ \A i \in 1 .. Len(stuff) : Ordered(thing, stuff)[Len(thing) + i] = Sorted(stuff)[i]
  BY <1>4, <1>5
<1>7. QED
  BY <1>3, <1>6

LEMMA ConfigFacts ==
  ASSUME NEW c \in Configs \union {Empty}
  PROVE  /\ c.thing \in Seq(Nat) /\ c.stuff \in Seq(Nat)
         /\ Len(c.thing) \in Nat /\ Len(c.stuff) \in Nat /\ MaxClasses \in Nat
         /\ Len(c.thing) + Len(c.stuff) <= MaxClasses
<1>1. CASE c \in Configs
  <2>1. c.thing \in Seq(Nat) /\ c.stuff \in Seq(Nat) /\ Len(c.thing \o c.stuff) <= MaxClasses
    BY <1>1, InferenceAssumption
  <2>2. Len(c.thing \o c.stuff) = Len(c.thing) + Len(c.stuff)
    BY <2>1, ConcatProperties
  <2>3. Len(c.thing) \in Nat /\ Len(c.stuff) \in Nat
    BY <2>1
  <2>4. QED
    BY <2>1, <2>2, <2>3, InfServerAssumption
<1>2. CASE c = Empty
  <2>1. c.thing = <<>> /\ c.stuff = <<>>
    BY <1>2 DEF Empty
  <2>2. QED
    BY <2>1, EmptySeq, InfServerAssumption
<1>3. QED
  BY <1>1, <1>2
-----------------------------------------------------------------------------
(* The queue of requests *)

LEMMA CloseFacts ==
  ASSUME TypeInv, CloseSocket
  PROVE  /\ requests' \in Seq(RequestType) /\ replies' = <<>> /\ replies' \in Seq(ReplyType)
         /\ \A i \in 1 .. Len(requests') : ~ requests'[i].peer
<1>1. Len(requests) \in Nat /\ DOMAIN requests = 1 .. Len(requests)
      /\ \A i \in 1 .. Len(requests) : requests[i] \in RequestType
  BY DEF TypeInv
<1>2. replies' = <<>> /\ <<>> \in Seq(ReplyType)
  BY DEF CloseSocket
<1>3. CASE requests' = <<>>
  BY <1>2, <1>3
<1>4. CASE requests' = [i \in DOMAIN requests |-> [requests[i] EXCEPT !.peer = FALSE]]
  <2>1. \A i \in 1 .. Len(requests) :
          requests'[i] \in RequestType /\ ~ requests'[i].peer
    BY <1>1, <1>4 DEF RequestType
  <2>2. requests' \in [1 .. Len(requests) -> RequestType]
    BY <1>1, <1>4, <2>1
  <2>3. requests' \in Seq(RequestType) /\ Len(requests') = Len(requests)
    BY <1>1, <2>2
  <2>4. QED
    BY <1>2, <2>1, <2>3
<1>5. QED
  BY <1>3, <1>4 DEF CloseSocket

LEMMA TailFacts ==
  ASSUME NEW S, NEW s \in Seq(S), s # <<>>
  PROVE  /\ Len(s) \in Nat /\ Len(s) >= 1 /\ Head(s) = s[1] /\ s[1] \in S
         /\ Tail(s) \in Seq(S) /\ Len(Tail(s)) = Len(s) - 1
         /\ \A i \in 1 .. Len(Tail(s)) : i + 1 \in 1 .. Len(s) /\ Tail(s)[i] = s[i + 1]
OBVIOUS

LEMMA AppendFacts ==
  ASSUME NEW S, NEW s \in Seq(S), NEW x \in S
  PROVE  /\ Append(s, x) \in Seq(S) /\ Len(Append(s, x)) = Len(s) + 1
         /\ Append(s, x)[Len(s) + 1] = x /\ Len(s) \in Nat
         /\ \A i \in 1 .. Len(s) : Append(s, x)[i] = s[i]
OBVIOUS

LEMMA RequestTyped ==
  ASSUME TypeInv, InCall
  PROVE  Request \in RequestType
<1>1. config.thing \in Seq(Nat) /\ config.stuff \in Seq(Nat) /\ <<>> \in Seq(Nat)
  BY ConfigFacts, EmptySeq DEF TypeInv
<1>2. stage \in Commands /\ run \in Nat /\ calls + 1 \in Nat
  BY DEF TypeInv, InCall, Commands
<1>3. QED
  BY <1>1, <1>2 DEF Request, RequestType
-----------------------------------------------------------------------------
(* The invariant holds *)

LEMMA InvInit == Init => Inv
<1> SUFFICES ASSUME Init PROVE Inv
  OBVIOUS
<1> USE DEF Init, ServerInit
<1>1. TypeInv
  BY EmptySeq DEF TypeInv
<1>2. RunInv
  BY DEF RunInv, ChannelInv, SettledInv, VocabularyInv, MemoryInv, ResultInv, Answered,
         HasFrame, InCall
<1>3. QED
  BY <1>1, <1>2 DEF Inv

LEMMA StartRunInv == Inv /\ StartRun => Inv'
<1> SUFFICES ASSUME Inv, StartRun PROVE Inv'
  OBVIOUS
<1> USE DEF Inv, StartRun, serverVars, runnerVars, channelVars
<1>1. TypeInv'
  <2>1. /\ UNCHANGED <<classes, things, keep, memory, requests, replies>>
        /\ vocab' \in Seq(Nat) /\ run' \in Nat /\ calls' \in Nat
        /\ stage' \in Commands \union {"off", "idle"}
    BY EmptySeq DEF TypeInv, Commands
  <2>2. QED
    BY <2>1 DEF TypeInv
<1>2. RunInv'
  BY DEF RunInv, ChannelInv, SettledInv, VocabularyInv, MemoryInv, ResultInv, Answered,
         HasFrame, InCall, OwnInv
<1>3. QED
  BY <1>1, <1>2

\* A run that is over leaves requests of nobody.
LEMMA OffInv ==
  ASSUME Inv, CloseSocket, stage' = "off", calling' = FALSE, stuck' \in BOOLEAN,
         vocab' \in Seq(Nat), calls' \in Nat, UNCHANGED <<run, config, up, runnerVars>>
  PROVE  Inv'
<1>1. /\ requests' \in Seq(RequestType) /\ replies' = <<>> /\ replies' \in Seq(ReplyType)
      /\ \A i \in 1 .. Len(requests') : ~ requests'[i].peer
  BY CloseFacts DEF Inv
<1>2. TypeInv'
  BY <1>1 DEF Inv, TypeInv, runnerVars
<1>3. RunInv'
  BY <1>1 DEF RunInv, ChannelInv, SettledInv, VocabularyInv, MemoryInv, ResultInv, Answered,
              HasFrame, InCall
<1>4. QED
  BY <1>2, <1>3 DEF Inv

LEMMA EndRunInv == Inv /\ EndRun => Inv'
<1> SUFFICES ASSUME Inv, EndRun PROVE Inv'
  OBVIOUS
<1>1. stuck' \in BOOLEAN /\ vocab' \in Seq(Nat) /\ calls' \in Nat
  BY DEF Inv, TypeInv, EndRun
<1>2. QED
  BY <1>1, OffInv DEF EndRun

LEMMA SendInv == Inv /\ Send => Inv'
<1> SUFFICES ASSUME Inv, Send PROVE Inv'
  OBVIOUS
<1>1. Request \in RequestType
  BY RequestTyped DEF Inv, Send
<1>2. /\ requests' \in Seq(RequestType) /\ Len(requests') = Len(requests) + 1
      /\ requests'[Len(requests) + 1] = Request /\ Len(requests) \in Nat
      /\ \A i \in 1 .. Len(requests) : requests'[i] = requests[i]
  BY <1>1, AppendFacts DEF Inv, TypeInv, Send
<1>3. vocab' \in Seq(Nat)
  BY ConfigFacts, OrderedFacts DEF Inv, TypeInv, Send, NoteVocab
<1>4. TypeInv'
  BY <1>2, <1>3 DEF Inv, TypeInv, Send, runnerVars
<1>5. \A i \in 1 .. Len(requests) : ~ requests[i].peer
  BY DEF Inv, RunInv, ChannelInv, OwnInv, Send, CanSend
<1>6. replies = <<>> /\ replies' = <<>> /\ ~ stuck'
  BY DEF Inv, RunInv, ChannelInv, Send, CanSend
<1>7. ChannelInv'
  <2>1. ASSUME NEW req, req = Request PROVE OwnInv(req)'
    BY <1>6, <2>1 DEF OwnInv, Send, Request, InCall
  <2>2. ASSUME NEW i \in 1 .. Len(requests'), requests'[i].peer
        PROVE  i = Len(requests') /\ OwnInv(requests[i])'
    <3>1. i = Len(requests) + 1 /\ requests'[i] = Request
      BY <1>2, <1>5, <2>2
    <3>2. QED
      BY <1>2, <2>1, <3>1
  <2>3. QED
    BY <1>6, <2>2 DEF ChannelInv, Send, InCall
<1>8. SettledInv'
  <2>1. Request.peer
    BY DEF Request
  <2>2. QED
    BY <1>2, <1>5, <1>6, <2>1 DEF Inv, RunInv, SettledInv, Send
<1>9. VocabularyInv' /\ MemoryInv' /\ ResultInv'
  BY <1>6 DEF Inv, RunInv, VocabularyInv, MemoryInv, ResultInv, Answered, HasFrame, GoodFrame,
              Send, NoteVocab, runnerVars, NoResult
<1>10. QED
  BY <1>4, <1>7, <1>8, <1>9 DEF Inv, RunInv

LEMMA SendRefusedInv == Inv /\ SendRefused => Inv'
<1> SUFFICES ASSUME Inv, SendRefused PROVE Inv'
  OBVIOUS
<1>1. stage = "frame" /\ stuck /\ vocab' = vocab
  BY DEF Inv, RunInv, ChannelInv, SendRefused, CanSend, InCall, NoteVocab
<1>2. calls' \in Nat /\ stuck' \in BOOLEAN /\ vocab' \in Seq(Nat)
  BY <1>1 DEF Inv, TypeInv, SendRefused
<1>3. CASE entry = "runner"
  <2>1. /\ stage' = "idle" /\ calling' = FALSE /\ ~ calling /\ stuck'
        /\ UNCHANGED <<replies, requests, run, config, vocab, result, runnerVars>>
    BY <1>1, <1>3 DEF SendRefused, Throw
  <2>2. TypeInv'
    BY <1>2, <2>1 DEF Inv, TypeInv, runnerVars
  <2>3. ChannelInv'
    BY <1>1, <2>1 DEF Inv, RunInv, ChannelInv, OwnInv, InCall
  <2>4. SettledInv' /\ VocabularyInv' /\ MemoryInv' /\ ResultInv'
    BY <1>1, <2>1 DEF Inv, RunInv, SettledInv, VocabularyInv, MemoryInv, ResultInv, Answered,
                      HasFrame, GoodFrame, runnerVars
  <2>5. QED
    BY <2>2, <2>3, <2>4 DEF Inv, RunInv
<1>4. CASE entry # "runner"
  BY <1>2, <1>4, OffInv DEF SendRefused, Throw
<1>5. QED
  BY <1>3, <1>4

LEMMA ReturnInv == Inv /\ Return => Inv'
<1> SUFFICES ASSUME Inv, Return PROVE Inv'
  OBVIOUS
<1>1. /\ Len(replies) = 1 /\ replies \in Seq(ReplyType)
      /\ \A i \in 1 .. Len(requests) : ~ requests[i].peer
  BY DEF Inv, TypeInv, RunInv, ChannelInv, OwnInv, Return
<1>2. replies' \in Seq(ReplyType) /\ replies' = <<>>
  <2>1. Tail(replies) \in Seq(ReplyType) /\ Len(Tail(replies)) = 0
    BY <1>1, TailFacts DEF Return
  <2>2. QED
    BY <2>1, EmptySeq DEF Return
<1>3. stage' \in Commands \union {"off", "idle"} /\ stage' # "off" /\ stage' \notin {"ping", "frame"}
  BY DEF Inv, TypeInv, Return, Following, Commands
<1>4. TypeInv'
  BY <1>2, <1>3 DEF Inv, TypeInv, Return, runnerVars
<1>5. requests' = requests /\ ~ stuck' /\ calling' = FALSE
  BY DEF Inv, RunInv, ChannelInv, Return
<1>6. ChannelInv'
  BY <1>1, <1>2, <1>3, <1>5 DEF ChannelInv
<1>7. SettledInv' 
  BY <1>1, <1>5, <1>2 DEF Inv, RunInv, SettledInv, Return
<1>8. VocabularyInv' /\ MemoryInv'
  BY <1>2, <1>5 DEF Inv, RunInv, ChannelInv, InCall, VocabularyInv, MemoryInv, Answered, Return,
                    Following, runnerVars
<1>9. ResultInv'
  BY <1>2, <1>5 DEF Inv, RunInv, ChannelInv, InCall, ResultInv, Answered, Return, Following,
                    HasFrame, GoodFrame
<1>10. QED
  BY <1>4, <1>6, <1>7, <1>8, <1>9 DEF Inv, RunInv

\* A call that throws ends the process, or leaves a runner idle: its frame has
\* been answered, or its socket is stuck.
LEMMA ThrowInv ==
  ASSUME Inv, calling, NEW unread, unread \in Seq(ReplyType), Throw(unread),
         unread = <<>>, stuck' \in BOOLEAN,
         replies = <<>> => stuck',
         replies # <<>> => UNCHANGED stuck,
         UNCHANGED <<run, entry, config, vocab, calls, frames, result, crashes, up, runnerVars>>
  PROVE  Inv'
<1>1. vocab' \in Seq(Nat) /\ calls' \in Nat
  BY DEF Inv, TypeInv
<1>2. CASE entry = "runner" /\ stage = "frame"
  <2>1. /\ stage' = "idle" /\ calling' = FALSE /\ ~ stuck
        /\ UNCHANGED <<requests, run, config, vocab, calls, result, runnerVars>>
        /\ replies' = <<>> /\ replies' \in Seq(ReplyType)
    BY <1>2 DEF Throw, Inv, RunInv, ChannelInv
  <2>2. TypeInv'
    BY <1>1, <2>1 DEF Inv, TypeInv, runnerVars
  <2>3. ASSUME NEW i \in 1 .. Len(requests), requests[i].peer
        PROVE  i = Len(requests) /\ OwnInv(requests[i])'
    BY <1>2, <2>1, <2>3 DEF Inv, RunInv, ChannelInv, OwnInv
  <2>4. ChannelInv'
    BY <1>2, <2>1, <2>3 DEF ChannelInv
  <2>5. SettledInv'
    BY <1>2, <2>1 DEF Inv, RunInv, SettledInv
  <2>6. VocabularyInv' /\ MemoryInv' /\ ResultInv'
    BY <1>2, <2>1 DEF Inv, RunInv, VocabularyInv, MemoryInv, ResultInv, Answered,
                      HasFrame, GoodFrame, runnerVars
  <2>7. QED
    BY <2>2, <2>4, <2>5, <2>6 DEF Inv, RunInv
<1>3. CASE ~ (entry = "runner" /\ stage = "frame")
  BY <1>1, <1>3, OffInv DEF Throw
<1>4. QED
  BY <1>2, <1>3

LEMMA ReturnErrorInv == Inv /\ ReturnError => Inv'
<1> SUFFICES ASSUME Inv, ReturnError PROVE Inv'
  OBVIOUS
<1>1. Len(replies) = 1 /\ replies \in Seq(ReplyType) /\ stuck' \in BOOLEAN
  BY DEF Inv, TypeInv, RunInv, ChannelInv, ReturnError
<1>2. Tail(replies) \in Seq(ReplyType) /\ Tail(replies) = <<>>
  <2>1. Tail(replies) \in Seq(ReplyType) /\ Len(Tail(replies)) = 0
    BY <1>1, TailFacts DEF ReturnError
  <2>2. QED
    BY <2>1, EmptySeq
<1>3. QED
  BY <1>1, <1>2, ThrowInv DEF ReturnError

LEMMA TimeoutInv == Inv /\ Timeout => Inv'
<1> SUFFICES ASSUME Inv, Timeout PROVE Inv'
  OBVIOUS
<1>1. replies \in Seq(ReplyType)
  BY DEF Inv, TypeInv
<1>2. QED
  BY <1>1, ThrowInv DEF Timeout

LEMMA NextFrameInv == Inv /\ NextFrame => Inv'
<1> SUFFICES ASSUME Inv, NextFrame PROVE Inv'
  OBVIOUS
<1>1. /\ stage' = "frame" /\ stage = "idle" /\ ~ calling /\ ~ calling'
      /\ UNCHANGED <<requests, replies, run, config, vocab, calls, result, calling, stuck,
                     model, classes, things, keep, memory>>
  BY DEF NextFrame, Inv, RunInv, ChannelInv, InCall, serverVars, runnerVars, channelVars
<1>2. TypeInv'
  BY <1>1 DEF Inv, TypeInv, Commands
<1>3. ASSUME NEW i \in 1 .. Len(requests), requests[i].peer
      PROVE  i = Len(requests) /\ OwnInv(requests[i])'
  BY <1>1, <1>3 DEF Inv, RunInv, ChannelInv, OwnInv
<1>4. ChannelInv'
  BY <1>1, <1>3 DEF ChannelInv, Inv, RunInv
<1>5. SettledInv'
  BY <1>1 DEF Inv, RunInv, SettledInv
<1>6. VocabularyInv' /\ MemoryInv' /\ ResultInv'
  BY <1>1 DEF Inv, RunInv, VocabularyInv, MemoryInv, ResultInv, Answered, HasFrame, GoodFrame
<1>7. QED
  BY <1>2, <1>4, <1>5, <1>6 DEF Inv, RunInv

\* A crash takes the whole state, and perhaps what was on its way.
LEMMA CrashInv == Inv /\ Crash /\ UNCHANGED <<stage, clientVars>> => Inv'
<1> SUFFICES ASSUME Inv, Crash, UNCHANGED <<stage, clientVars>> PROVE Inv'
  OBVIOUS
<1>1. /\ requests' \in {requests, <<>>} /\ replies' \in {replies, <<>>}
      /\ classes' = <<>> /\ things' = 0 /\ keep' = FALSE /\ memory' = {}
      /\ UNCHANGED <<stage, run, config, vocab, calls, result, calling, stuck>>
  BY DEF Crash, clientVars
<1>2. requests' \in Seq(RequestType) /\ replies' \in Seq(ReplyType)
  BY <1>1, EmptySeq DEF Inv, TypeInv
<1>3. TypeInv'
  BY <1>1, <1>2, EmptySeq DEF Inv, TypeInv
<1>4. replies = <<>> => replies' = <<>>
  BY <1>1
<1>5. ASSUME NEW i \in 1 .. Len(requests'), requests'[i].peer
      PROVE  i = Len(requests') /\ OwnInv(requests[i])'
  BY <1>1, <1>4, <1>5, EmptySeq DEF Inv, RunInv, ChannelInv, OwnInv
<1>6. ChannelInv'
  BY <1>1, <1>5 DEF ChannelInv, Inv, RunInv, InCall
<1>7. SettledInv'
  BY <1>1, EmptySeq DEF Inv, RunInv, SettledInv
<1>8. VocabularyInv' /\ MemoryInv' /\ ResultInv'
  BY <1>1 DEF Inv, RunInv, VocabularyInv, MemoryInv, ResultInv, Answered, HasFrame, GoodFrame
<1>9. QED
  BY <1>3, <1>6, <1>7, <1>8 DEF Inv, RunInv

LEMMA RestartInv == Inv /\ Restart /\ UNCHANGED <<stage, clientVars>> => Inv'
<1> SUFFICES ASSUME Inv, Restart, UNCHANGED <<stage, clientVars>> PROVE Inv'
  OBVIOUS
<1>1. UNCHANGED <<stage, run, config, vocab, calls, result, calling, stuck, requests, replies,
                  classes, things, keep, memory>>
  BY DEF Restart, clientVars
<1>2. TypeInv'
  BY <1>1 DEF Inv, TypeInv
<1>3. ChannelInv' /\ SettledInv'
  BY <1>1 DEF Inv, RunInv, ChannelInv, OwnInv, SettledInv, InCall
<1>4. VocabularyInv' /\ MemoryInv' /\ ResultInv'
  BY <1>1 DEF Inv, RunInv, VocabularyInv, MemoryInv, ResultInv, Answered, HasFrame, GoodFrame
<1>5. QED
  BY <1>2, <1>3, <1>4 DEF Inv, RunInv

\* The server takes a request; the client does nothing.
Turn(req) ==
  /\ requests # <<>> /\ req = Head(requests)
  /\ requests' = Tail(requests)
  /\ UNCHANGED <<stage, run, config, vocab, calls, result, calling, stuck>>

\* What a turn of the server finds: the request it takes is the present
\* client's, and the last, or nobody's.
LEMMA TakeFacts ==
  ASSUME Inv, NEW req, Turn(req)
  PROVE  /\ req \in RequestType
         /\ requests' \in Seq(RequestType)
         /\ req.peer => requests' = <<>> /\ OwnInv(req)
         /\ \A i \in 1 .. Len(requests') :
              /\ requests'[i].peer => i = Len(requests') /\ OwnInv(requests'[i])
              /\ (\A j \in 1 .. Len(requests) : requests[j].peer) => requests'[i].peer
         /\ (\A i \in 1 .. Len(requests) : requests[i].peer) => req.peer
<1>1. /\ Len(requests) \in Nat /\ Len(requests) >= 1 /\ req = requests[1]
      /\ requests[1] \in RequestType
      /\ requests' \in Seq(RequestType) /\ Len(requests') = Len(requests) - 1
      /\ \A i \in 1 .. Len(requests') : i + 1 \in 1 .. Len(requests) /\ requests'[i] = requests[i + 1]
  <2>1. requests \in Seq(RequestType)
    BY DEF Inv, TypeInv
  <2>2. QED
    BY <2>1, TailFacts DEF Turn
<1>2. \A i \in 1 .. Len(requests) :
        requests[i].peer => i = Len(requests) /\ OwnInv(requests[i])
  BY DEF Inv, RunInv, ChannelInv
<1>3. req.peer => Len(requests) = 1 /\ OwnInv(req)
  BY <1>1, <1>2
<1>4. Len(requests) = 1 => requests' = <<>>
  BY <1>1, EmptySeq
<1>5. ASSUME NEW i \in 1 .. Len(requests')
      PROVE  /\ requests'[i].peer => i = Len(requests') /\ OwnInv(requests'[i])
             /\ (\A j \in 1 .. Len(requests) : requests[j].peer) => requests'[i].peer
  <2>1. i + 1 \in 1 .. Len(requests) /\ requests'[i] = requests[i + 1]
    BY <1>1
  <2>2. i + 1 = Len(requests) => i = Len(requests')
    BY <1>1
  <2>3. QED
    BY <1>2, <2>1, <2>2
<1>6. QED
  BY <1>1, <1>3, <1>4, <1>5

\* A reply leaves the channel in order: the present client's is the only one,
\* and it answers the call the client is in, unless the client reads no more.
LEMMA ReplyChannel ==
  ASSUME Inv, NEW req, Turn(req), NEW ok \in BOOLEAN, NEW body,
         [call |-> req.call, ok |-> ok, body |-> body] \in ReplyType \/ ~ req.peer,
         Reply(req, ok, body)
  PROVE  /\ requests' \in Seq(RequestType) /\ replies' \in Seq(ReplyType)
         /\ ChannelInv' /\ SettledInv'
         /\ req.peer => /\ replies = <<>> /\ replies' # <<>>
                        /\ Head(replies') = [call |-> req.call, ok |-> ok, body |-> body]
         /\ ~ req.peer => UNCHANGED replies
<1> DEFINE rep == [call |-> req.call, ok |-> ok, body |-> body]
<1>1. /\ req \in RequestType
      /\ requests' \in Seq(RequestType)
      /\ req.peer => requests' = <<>> /\ OwnInv(req)
      /\ \A i \in 1 .. Len(requests') :
           /\ requests'[i].peer => i = Len(requests') /\ OwnInv(requests'[i])
           /\ (\A j \in 1 .. Len(requests) : requests[j].peer) => requests'[i].peer
      /\ (\A i \in 1 .. Len(requests) : requests[i].peer) => req.peer
  BY TakeFacts
<1>2. replies \in Seq(ReplyType)
  BY DEF Inv, TypeInv
<1>3. CASE req.peer
  <2>1. rep \in ReplyType /\ replies = <<>> /\ replies' = Append(<<>>, rep) /\ requests' = <<>>
    BY <1>1, <1>3 DEF Reply, OwnInv
  <2>2. /\ <<>> \in Seq(ReplyType) /\ Len(<<>>) = 0 /\ Len(requests') = 0
    BY <2>1, EmptySeq
  <2>3. /\ replies' \in Seq(ReplyType) /\ Len(replies') = 1 /\ replies' # <<>>
        /\ Head(replies') = rep
    <3> HIDE DEF rep
    <3>1. QED
      BY <2>1, <2>2
  <2>4. ChannelInv'
    BY <1>1, <1>3, <2>2, <2>3 DEF Inv, RunInv, ChannelInv, OwnInv, Turn, InCall
  <2>5. SettledInv'
    BY <2>2 DEF SettledInv
  <2>6. QED
    BY <1>1, <1>3, <2>1, <2>3, <2>4, <2>5
<1>4. CASE ~ req.peer
  <2>1. replies' = replies
    BY <1>4 DEF Reply
  <2>2. ASSUME NEW i \in 1 .. Len(requests'), requests'[i].peer
        PROVE  i = Len(requests') /\ OwnInv(requests[i])'
    BY <1>1, <2>1, <2>2 DEF OwnInv, Turn
  <2>3. ChannelInv'
    BY <2>1, <2>2 DEF Inv, RunInv, ChannelInv, Turn, InCall
  <2>4. SettledInv'
    BY <1>1, <1>4, <2>1 DEF Inv, RunInv, SettledInv, Turn
  <2>5. QED
    BY <1>1, <1>2, <1>4, <2>1, <2>3, <2>4
<1>5. QED
  BY <1>3, <1>4

\* A turn for nobody, at a time when the server's state is the client's, does not
\* happen.
LEMMA TurnForNobody ==
  ASSUME Inv, NEW req, Turn(req), ~ req.peer
  PROVE  stage \notin {"set_vocab", "reset", "idle", "frame"} /\ replies = <<>>
<1>1. ~ \A i \in 1 .. Len(requests) : requests[i].peer
  BY TakeFacts
<1>2. QED
  BY <1>1 DEF Inv, RunInv, SettledInv

\* So it breaks nothing.
LEMMA NobodyInv ==
  ASSUME Inv, NEW req, Turn(req), ~ req.peer, UNCHANGED replies, ChannelInv', SettledInv',
         requests' \in Seq(RequestType),
         classes' \in Seq(Nat), things' \in Nat, keep' \in BOOLEAN, memory' \in SUBSET Nat
  PROVE  Inv'
<1>1. stage \notin {"set_vocab", "reset", "idle", "frame"} /\ replies = <<>> /\ replies' = <<>>
  BY TurnForNobody
<1>2. TypeInv'
  BY <1>1 DEF Inv, TypeInv, Turn
<1>3. VocabularyInv' /\ MemoryInv' /\ ResultInv'
  BY <1>1 DEF Inv, RunInv, VocabularyInv, MemoryInv, ResultInv, Answered, HasFrame, GoodFrame, Turn
<1>4. QED
  BY <1>2, <1>3 DEF Inv, RunInv

\* A turn for the client, up to what the handler does.
LEMMA OwnTurn ==
  ASSUME Inv, NEW req, Turn(req), req.peer
  PROVE  /\ OwnInv(req) /\ req \in RequestType /\ replies = <<>>
         /\ UNCHANGED <<stage, run, config, vocab, calls, result, calling, stuck>>
BY TakeFacts DEF OwnInv, Turn

Blank(req, ok) == [call |-> req.call, ok |-> ok, body |-> None]

LEMMA BlankTyped ==
  ASSUME Inv, NEW req, Turn(req), NEW ok \in BOOLEAN
  PROVE  Blank(req, ok) \in ReplyType
<1>1. req \in RequestType
  BY TakeFacts
<1>2. QED
  BY <1>1 DEF Blank, ReplyType, RequestType

\* A turn that ends with a reply without a body.
LEMMA BlankTurn ==
  ASSUME Inv, NEW req, Turn(req), NEW ok \in BOOLEAN, Reply(req, ok, None)
  PROVE  /\ requests' \in Seq(RequestType) /\ replies' \in Seq(ReplyType)
         /\ ChannelInv' /\ SettledInv'
         /\ req.peer => /\ replies = <<>> /\ replies' # <<>>
                        /\ Head(replies') = Blank(req, ok)
                        /\ Head(replies').ok = ok
         /\ ~ req.peer => UNCHANGED replies
<1>1. [call |-> req.call, ok |-> ok, body |-> None] \in ReplyType
  BY BlankTyped DEF Blank
<1>2. QED
  BY <1>1, ReplyChannel DEF Blank

LEMMA PingInv == \A req : Inv /\ Turn(req) /\ HandlePing(req) => Inv'
<1> SUFFICES ASSUME NEW req, Inv, Turn(req), HandlePing(req) PROVE Inv'
  OBVIOUS
<1>1. /\ requests' \in Seq(RequestType) /\ replies' \in Seq(ReplyType)
      /\ ChannelInv' /\ SettledInv' /\ (~ req.peer => UNCHANGED replies)
  BY BlankTurn DEF HandlePing
<1>2. CASE ~ req.peer
  BY <1>1, <1>2, NobodyInv DEF HandlePing, Inv, TypeInv
<1>3. CASE req.peer
  <2>1. OwnInv(req) /\ replies = <<>>
        /\ UNCHANGED <<stage, run, config, vocab, calls, result, calling, stuck>>
    BY <1>3, OwnTurn
  <2>2. TypeInv'
    BY <1>1, <2>1 DEF HandlePing, Inv, TypeInv
  <2>3. calling => stage = "ping"
    BY <2>1 DEF OwnInv, HandlePing
  <2>4. VocabularyInv' /\ MemoryInv' /\ ResultInv'
    BY <2>1, <2>3 DEF HandlePing, Inv, RunInv, VocabularyInv, MemoryInv, ResultInv, Answered,
                      HasFrame, GoodFrame
  <2>5. QED
    BY <1>1, <2>2, <2>4 DEF Inv, RunInv
<1>4. QED
  BY <1>2, <1>3

LEMMA ResetInv == \A req : Inv /\ Turn(req) /\ HandleReset(req) => Inv'
<1> SUFFICES ASSUME NEW req, Inv, Turn(req), HandleReset(req) PROVE Inv'
  OBVIOUS
<1>1. /\ requests' \in Seq(RequestType) /\ replies' \in Seq(ReplyType)
      /\ ChannelInv' /\ SettledInv' /\ (~ req.peer => UNCHANGED replies)
  BY BlankTurn DEF HandleReset
<1>2. keep' = FALSE /\ memory' = {} /\ UNCHANGED <<classes, things>>
  BY DEF HandleReset, ResetTracker
<1>3. CASE ~ req.peer
  BY <1>1, <1>2, <1>3, NobodyInv DEF Inv, TypeInv
<1>4. CASE req.peer
  <2>1. OwnInv(req) /\ replies = <<>>
        /\ UNCHANGED <<stage, run, config, vocab, calls, result, calling, stuck>>
    BY <1>4, OwnTurn
  <2>2. TypeInv'
    BY <1>1, <1>2, <2>1 DEF Inv, TypeInv
  <2>3. calling => stage = "reset"
    BY <2>1 DEF OwnInv, HandleReset
  <2>4. VocabularyInv' /\ MemoryInv' /\ ResultInv'
    BY <1>2, <2>1, <2>3 DEF Inv, RunInv, VocabularyInv, MemoryInv, ResultInv, Answered,
                            HasFrame, GoodFrame
  <2>5. QED
    BY <1>1, <2>2, <2>4 DEF Inv, RunInv
<1>5. QED
  BY <1>3, <1>4

LEMMA VocabInv == \A req : Inv /\ Turn(req) /\ HandleVocab(req) => Inv'
<1> SUFFICES ASSUME NEW req, Inv, Turn(req), HandleVocab(req) PROVE Inv'
  OBVIOUS
<1>1. /\ requests' \in Seq(RequestType) /\ replies' \in Seq(ReplyType)
      /\ ChannelInv' /\ SettledInv' /\ (~ req.peer => UNCHANGED replies)
  BY BlankTurn DEF HandleVocab
<1>2. /\ keep' = FALSE /\ memory' = {}
      /\ classes' = Ordered(req.thing, req.stuff) /\ things' = Len(req.thing)
  BY DEF HandleVocab, ResetTracker
<1>3. req \in RequestType
  BY TakeFacts
<1>4. classes' \in Seq(Nat) /\ things' \in Nat
  <2>1. req.thing \in Seq(Nat) /\ req.stuff \in Seq(Nat)
    BY <1>3 DEF RequestType
  <2>2. QED
    BY <1>2, <2>1, OrderedFacts, LenProperties
<1>5. CASE ~ req.peer
  BY <1>1, <1>2, <1>4, <1>5, NobodyInv
<1>6. CASE req.peer
  <2>1. OwnInv(req) /\ replies = <<>>
        /\ UNCHANGED <<stage, run, config, vocab, calls, result, calling, stuck>>
    BY <1>6, OwnTurn
  <2>2. TypeInv'
    BY <1>1, <1>2, <1>4, <2>1 DEF Inv, TypeInv
  <2>3. /\ calling /\ stage = "set_vocab"
        /\ req.thing = config.thing /\ req.stuff = config.stuff
    BY <2>1 DEF OwnInv, HandleVocab
  <2>4. VocabularyInv' /\ MemoryInv' /\ ResultInv'
    BY <1>2, <2>1, <2>3 DEF Inv, RunInv, VocabularyInv, MemoryInv, ResultInv, Answered,
                            HasFrame, GoodFrame
  <2>5. QED
    BY <1>1, <2>2, <2>4 DEF Inv, RunInv
<1>7. QED
  BY <1>5, <1>6

LEMMA VocabFailsInv == \A req : Inv /\ Turn(req) /\ HandleVocabFails(req) => Inv'
<1> SUFFICES ASSUME NEW req, Inv, Turn(req), HandleVocabFails(req) PROVE Inv'
  OBVIOUS
<1>1. /\ requests' \in Seq(RequestType) /\ replies' \in Seq(ReplyType)
      /\ ChannelInv' /\ SettledInv' /\ (~ req.peer => UNCHANGED replies)
      /\ req.peer => ~ Head(replies').ok
  BY BlankTurn DEF HandleVocabFails
<1>2. UNCHANGED <<classes, things, keep, memory>>
  BY DEF HandleVocabFails
<1>3. CASE ~ req.peer
  BY <1>1, <1>2, <1>3, NobodyInv DEF Inv, TypeInv
<1>4. CASE req.peer
  <2>1. OwnInv(req) /\ replies = <<>>
        /\ UNCHANGED <<stage, run, config, vocab, calls, result, calling, stuck>>
    BY <1>4, OwnTurn
  <2>2. TypeInv'
    BY <1>1, <1>2, <2>1 DEF Inv, TypeInv
  <2>3. VocabularyInv' /\ MemoryInv' /\ ResultInv'
    BY <1>1, <1>2, <1>4, <2>1 DEF Inv, RunInv, VocabularyInv, MemoryInv, ResultInv, Answered,
                            HasFrame, GoodFrame
  <2>4. QED
    BY <1>1, <2>2, <2>3 DEF Inv, RunInv
<1>5. QED
  BY <1>3, <1>4

\* What the tracker remembers once the client's own frame went in.
LEMMA TrackFacts ==
  ASSUME Inv, NEW req, Turn(req), Track(req)
  PROVE  /\ keep' = TRUE /\ memory' \in SUBSET Nat
         /\ req.peer /\ req.cmd = "frame" => memory' = {run} /\ stage \in {"idle", "frame"}
<1>1. req \in RequestType
  BY TakeFacts
<1>2. keep' = TRUE /\ memory' \in SUBSET Nat
  BY <1>1 DEF Track, RequestType, Inv, TypeInv
<1>3. CASE req.peer /\ req.cmd = "frame"
  <2>1. OwnInv(req)
    BY <1>3, OwnTurn
  <2>2. stage \in {"idle", "frame"} /\ req.run = run
    BY <1>3, <2>1 DEF OwnInv, Inv, RunInv, ChannelInv
  <2>3. keep => memory \subseteq {run}
    BY <2>2 DEF Inv, RunInv, MemoryInv
  <2>4. QED
    BY <1>2, <2>2, <2>3 DEF Track
<1>4. QED
  BY <1>2, <1>3

LEMMA FrameFailsInv == \A req : Inv /\ Turn(req) /\ HandleFrameFails(req) => Inv'
<1> SUFFICES ASSUME NEW req, Inv, Turn(req), HandleFrameFails(req) PROVE Inv'
  OBVIOUS
<1>1. /\ requests' \in Seq(RequestType) /\ replies' \in Seq(ReplyType)
      /\ ChannelInv' /\ SettledInv' /\ (~ req.peer => UNCHANGED replies)
      /\ req.peer => ~ Head(replies').ok
  BY BlankTurn DEF HandleFrameFails
<1>2. UNCHANGED <<classes, things>> /\ (Track(req) \/ UNCHANGED <<keep, memory>>)
  BY DEF HandleFrameFails
<1>3. keep' \in BOOLEAN /\ memory' \in SUBSET Nat
  BY <1>2, TrackFacts DEF Inv, TypeInv
<1>4. CASE ~ req.peer
  BY <1>1, <1>2, <1>3, <1>4, NobodyInv DEF Inv, TypeInv
<1>5. CASE req.peer
  <2>1. OwnInv(req) /\ replies = <<>>
        /\ UNCHANGED <<stage, run, config, vocab, calls, result, calling, stuck>>
    BY <1>5, OwnTurn
  <2>2. TypeInv'
    BY <1>1, <1>2, <1>3, <2>1 DEF Inv, TypeInv
  <2>3. VocabularyInv' /\ ResultInv'
    BY <1>1, <1>2, <1>5, <2>1 DEF Inv, RunInv, VocabularyInv, ResultInv, Answered,
                            HasFrame, GoodFrame
  <2>4. MemoryInv'
    <3>1. CASE Track(req)
      <4>1. memory' = {run}
        BY <1>5, <3>1, TrackFacts DEF HandleFrameFails
      <4>2. QED
        BY <2>1, <4>1 DEF MemoryInv
    <3>2. CASE UNCHANGED <<keep, memory>>
      BY <1>1, <1>5, <2>1, <3>2 DEF Inv, RunInv, MemoryInv, Answered
    <3>3. QED
      BY <1>2, <3>1, <3>2
  <2>5. QED
    BY <1>1, <2>2, <2>3, <2>4 DEF Inv, RunInv
<1>6. QED
  BY <1>4, <1>5

LEMMA FrameInv == \A req : Inv /\ Turn(req) /\ HandleFrame(req) => Inv'
<1> SUFFICES ASSUME NEW req, Inv, Turn(req), HandleFrame(req) PROVE Inv'
  OBVIOUS
<1>1. PICK maps \in Results[Len(classes)][things] :
        Reply(req, TRUE, [maps |-> maps, meant |-> classes, tracked |-> memory'])
  BY DEF HandleFrame
<1> DEFINE body == [maps |-> maps, meant |-> classes, tracked |-> memory']
<1>2. UNCHANGED <<classes, things>> /\ keep' = TRUE /\ memory' \in SUBSET Nat /\ classes # <<>>
  BY TrackFacts DEF HandleFrame
<1>3. CASE ~ req.peer
  <2>1. /\ requests' \in Seq(RequestType)
        /\ ChannelInv' /\ SettledInv' /\ UNCHANGED replies
    BY <1>1, <1>3, ReplyChannel
  <2>2. QED
    BY <1>2, <1>3, <2>1, NobodyInv DEF Inv, TypeInv
<1>4. CASE req.peer
  <2>1. OwnInv(req) /\ req \in RequestType /\ replies = <<>>
        /\ UNCHANGED <<stage, run, config, vocab, calls, result, calling, stuck>>
    BY <1>4, OwnTurn
  <2>2. memory' = {run} /\ stage \in {"idle", "frame"}
    BY <1>4, TrackFacts DEF HandleFrame
  <2>3. /\ classes = vocab /\ things = Len(config.thing)
        /\ vocab = Ordered(config.thing, config.stuff)
    BY <1>2, <2>2 DEF Inv, RunInv, VocabularyInv
  <2>4. Len(classes) \in 1 .. MaxClasses /\ things \in 0 .. Len(classes)
    <3>1. /\ config.thing \in Seq(Nat) /\ config.stuff \in Seq(Nat)
          /\ Len(config.thing) \in Nat /\ Len(config.stuff) \in Nat /\ MaxClasses \in Nat
          /\ Len(config.thing) + Len(config.stuff) <= MaxClasses
      BY ConfigFacts DEF Inv, TypeInv
    <3>2. Len(classes) = Len(config.thing) + Len(config.stuff)
      BY <2>3, <3>1, OrderedFacts
    <3>3. Len(classes) # 0
      BY <1>2, EmptySeq DEF Inv, TypeInv
    <3>4. /\ Len(config.thing) + Len(config.stuff) \in 1 .. MaxClasses
          /\ Len(config.thing) \in 0 .. Len(config.thing) + Len(config.stuff)
      <4>1. \A a, b, c \in Nat : a + b <= c /\ a + b # 0 =>
                                   a + b \in 1 .. c /\ a \in 0 .. a + b
        OBVIOUS
      <4>2. QED
        BY <3>1, <3>2, <3>3, <4>1
    <3>5. QED
      BY <2>3, <3>2, <3>4
  <2>5. maps \in Maps
    BY <2>4 DEF Maps
  <2>6. [call |-> req.call, ok |-> TRUE, body |-> body] \in ReplyType
    <3>1. classes \in Seq(Nat) /\ req.call \in Nat
      BY <2>1 DEF RequestType, Inv, TypeInv
    <3>2. body \in [maps : Maps, meant : Seq(Nat), tracked : SUBSET Nat]
      BY <1>2, <2>5, <3>1
    <3> HIDE DEF body
    <3>3. QED
      BY <3>1, <3>2 DEF ReplyType, None
  <2>7. /\ requests' \in Seq(RequestType) /\ replies' \in Seq(ReplyType)
        /\ ChannelInv' /\ SettledInv' /\ Head(replies').body = body
    <3>1. Reply(req, TRUE, body)
      BY <1>1
    <3> HIDE DEF body
    <3>2. /\ requests' \in Seq(RequestType) /\ replies' \in Seq(ReplyType)
          /\ ChannelInv' /\ SettledInv'
          /\ Head(replies') = [call |-> req.call, ok |-> TRUE, body |-> body]
      BY <1>4, <2>6, <3>1, ReplyChannel
    <3>3. QED
      BY <3>2
  <2>8. TypeInv'
    BY <1>2, <2>1, <2>7 DEF Inv, TypeInv
  <2>9. VocabularyInv' /\ MemoryInv'
    BY <1>2, <2>1, <2>2 DEF Inv, RunInv, VocabularyInv, MemoryInv, Answered
  <2>10. GoodFrame(Head(replies).body)'
    <3>1. Head(replies').body.meant = vocab /\ Head(replies').body.tracked = {run}
          /\ Head(replies').body.maps = maps
      BY <2>2, <2>3, <2>7
    <3>2. vocab # <<>> /\ maps \in Results[Len(vocab)][Len(config.thing)]
      BY <1>1, <1>2, <2>3
    <3>3. QED
      BY <2>1, <3>1, <3>2 DEF GoodFrame
  <2>11. ResultInv'
    <3>1. HasFrame' => GoodFrame(result.body)'
      BY <2>1 DEF Inv, RunInv, ResultInv, HasFrame, GoodFrame
    <3>2. QED
      BY <2>1, <2>2, <2>10, <3>1 DEF ResultInv
  <2>12. QED
    BY <2>7, <2>8, <2>9, <2>11 DEF Inv, RunInv
<1>5. QED
  BY <1>3, <1>4

LEMMA ServeInv == Inv /\ Serve /\ UNCHANGED <<stage, clientVars>> => Inv'
<1> SUFFICES ASSUME Inv, Serve, UNCHANGED <<stage, clientVars>> PROVE Inv'
  OBVIOUS
<1>1. PICK req : /\ Turn(req)
                 /\ \/ HandlePing(req) \/ HandleReset(req) \/ HandleVocab(req)
                    \/ HandleVocabFails(req) \/ HandleFrame(req) \/ HandleFrameFails(req)
  <2>1. Turn(Head(requests))
    BY DEF Serve, Turn, clientVars
  <2>2. QED
    BY <2>1 DEF Serve
<1>2. QED
  BY <1>1, PingInv, ResetInv, VocabInv, VocabFailsInv, FrameInv, FrameFailsInv

LEMMA StutterInv == Inv /\ UNCHANGED vars => Inv'
<1> SUFFICES ASSUME Inv, UNCHANGED vars PROVE Inv'
  OBVIOUS
<1>1. UNCHANGED <<stage, run, config, vocab, calls, result, calling, stuck, requests, replies,
                  classes, things, keep, memory>>
  BY DEF vars, clientVars, serverVars, runnerVars, channelVars
<1>2. TypeInv'
  BY <1>1 DEF Inv, TypeInv
<1>3. ChannelInv' /\ SettledInv'
  BY <1>1 DEF Inv, RunInv, ChannelInv, OwnInv, SettledInv, InCall
<1>4. VocabularyInv' /\ MemoryInv' /\ ResultInv'
  BY <1>1 DEF Inv, RunInv, VocabularyInv, MemoryInv, ResultInv, Answered, HasFrame, GoodFrame
<1>5. QED
  BY <1>2, <1>3, <1>4 DEF Inv, RunInv

LEMMA InvNext == Inv /\ [Next]_vars => Inv'
BY StartRunInv, EndRunInv, SendInv, SendRefusedInv, ReturnInv, ReturnErrorInv, TimeoutInv,
   NextFrameInv, ServeInv, CrashInv, RestartInv, StutterInv DEF Next, Client, Server

\* The invariant of one server and the runs that follow one another on it.
THEOREM InferenceInvariant == Spec => []Inv
<1>1. QED
  BY InvInit, InvNext, PTL DEF Spec
-----------------------------------------------------------------------------
(* What it implies *)

\* AnswersTheCall (inf_client.cpp:28): a reply is read by the call it answers,
\* for any number of timeouts, late answers, restarts and frames.
THEOREM EveryReplyAnswersItsCall == Spec => []AnswersTheCall
<1>1. Inv => AnswersTheCall
  BY DEF Inv, RunInv, ChannelInv, AnswersTheCall
<1>2. QED
  BY <1>1, InferenceInvariant, PTL

\* TracksAreThisRuns (dvis_runner.py:207): the tracker never follows an instance
\* of an earlier run into a frame of this one.
THEOREM TracksStayApart == Spec => []TracksAreThisRuns
<1>1. Inv => TracksAreThisRuns
  BY DEF Inv, RunInv, ResultInv, GoodFrame, TracksAreThisRuns
<1>2. QED
  BY <1>1, InferenceInvariant, PTL
-----------------------------------------------------------------------------
(* The per-pixel resolution *)

\* The network's answers, and what Resolve makes of them.
StableOnes(q, n) == {k \in Kept(q, n) : Stable(q, Kept(q, n), k)}
ThingOnes(q, n, nthing) == {k \in StableOnes(q, n) : q[k].class < nthing}
IdOf(T, k) == Cardinality({j \in T : j <= k})
ShownAt(q, n, p) == {k \in StableOnes(q, n) : p \in Segment(q, Kept(q, n), k)}

LEMMA ResolveIs ==
  ASSUME NEW q, NEW n, NEW nthing
  PROVE  LET T == ThingOnes(q, n, nthing)
         IN  Resolve(q, n, nthing) =
    [label |-> [p \in Pixels |-> IF ShownAt(q, n, p) = {} THEN Background
                                 ELSE q[Max(ShownAt(q, n, p))].class],
     id    |-> [p \in Pixels |-> IF ShownAt(q, n, p) \cap T = {} THEN Background
                                 ELSE IdOf(T, Max(ShownAt(q, n, p) \cap T))],
     instances |-> {[id |-> IdOf(T, k), label |-> q[k].class] : k \in T}]
BY DEF Resolve, ThingOnes, StableOnes, IdOf, ShownAt

\* A pixel is claimed by one query, so it shows one segment at most.
LEMMA OneShows ==
  ASSUME NEW q, NEW n, NEW p, NEW k \in ShownAt(q, n, p), k \in Int
  PROVE  ShownAt(q, n, p) = {k} /\ Max({k}) = k
<1>1. \A j \in ShownAt(q, n, p) : j = Claims(q, Kept(q, n), p)
  BY DEF ShownAt, Segment
<1>2. Max({k}) = k
  BY DEF Max
<1>3. QED
  BY <1>1, <1>2

LEMMA StableFacts ==
  ASSUME NEW n \in Nat, NEW q \in Answers(n), NEW k \in StableOnes(q, n)
  PROVE  /\ k \in 1 .. NumQueries /\ q[k].class \in 0 .. n - 1
         /\ \E p \in Pixels : k \in ShownAt(q, n, p)
<1>1. k \in 1 .. NumQueries /\ q[k].class \in 0 .. n /\ q[k].class # n
  BY DEF StableOnes, Kept, Answers
<1>2. \E p \in Segment(q, Kept(q, n), k) : p \in Pixels
  BY DEF StableOnes, Stable, Segment, Original
<1>3. QED
  BY <1>1, <1>2 DEF ShownAt

\* Segment ids are numbers, and different instances have different ones.
LEMMA IdsDiffer ==
  ASSUME NEW T, T \subseteq 1 .. NumQueries, NEW i \in T, NEW j \in T
  PROVE  IdOf(T, i) \in Nat /\ (IdOf(T, i) = IdOf(T, j) => i = j)
<1> DEFINE Upto(k) == {x \in T : x <= k}
<1>1. NumQueries \in Nat
  BY InfServerAssumption
<1>2. IsFiniteSet(T)
  <2>1. 1 \in Int /\ NumQueries \in Int /\ T \in SUBSET (1 .. NumQueries)
    BY <1>1
  <2>2. IsFiniteSet(1 .. NumQueries)
    BY <2>1, FS_Interval
  <2>3. QED
    BY <2>1, <2>2, FS_Subset
<1>3. \A k : IsFiniteSet(Upto(k)) /\ Cardinality(Upto(k)) \in Nat
  <2>1. SUFFICES ASSUME NEW k PROVE IsFiniteSet(Upto(k)) /\ Cardinality(Upto(k)) \in Nat
    OBVIOUS
  <2>2. Upto(k) \in SUBSET T
    OBVIOUS
  <2>3. QED
    BY <1>2, <2>2, FS_Subset, FS_CardinalityType
<1>4. ASSUME NEW a \in T, NEW b \in T, a < b PROVE Cardinality(Upto(a)) # Cardinality(Upto(b))
  <2>1. Upto(a) \in SUBSET Upto(b) /\ b \in Upto(b) /\ b \notin Upto(a)
    <3>1. T \subseteq Nat
      BY <1>1
    <3>2. \A x \in T : x <= a => x <= b
      BY <1>4, <3>1
    <3>3. b <= b /\ ~ (b <= a)
      BY <1>4, <3>1
    <3>4. QED
      BY <3>2, <3>3
  <2> HIDE DEF Upto
  <2>2. QED
    BY <1>3, <2>1, FS_Subset
<1>5. i \in Nat /\ j \in Nat
  BY <1>1
<1>6. QED
  BY <1>3, <1>4, <1>5 DEF IdOf

\* The maps of an image agree with one another.
LEMMA ResolveAgrees ==
  ASSUME NEW n \in Nat, NEW nthing \in 0 .. n, NEW maps \in {Resolve(q, n, nthing) : q \in Answers(n)}
  PROVE  /\ \A p \in Pixels :
              /\ maps.label[p] \in {Background} \union 0 .. n - 1
              /\ maps.label[p] \in 0 .. nthing - 1 <=> maps.id[p] # Background
              /\ maps.label[p] \in 0 .. nthing - 1 =>
                   \E i \in maps.instances :
                     /\ i.id = maps.id[p] /\ i.label = maps.label[p]
                     /\ \A j \in maps.instances : j.id = maps.id[p] => j = i
         /\ \A i \in maps.instances : \E p \in Pixels : maps.id[p] = i.id
<1>1. PICK q \in Answers(n) : maps = Resolve(q, n, nthing)
  OBVIOUS
<1> DEFINE T == ThingOnes(q, n, nthing)
           At(p) == ShownAt(q, n, p)
<1>2. /\ \A p \in Pixels : maps.label[p] = IF At(p) = {} THEN Background ELSE q[Max(At(p))].class
      /\ \A p \in Pixels : maps.id[p] = IF At(p) \cap T = {} THEN Background
                                        ELSE IdOf(T, Max(At(p) \cap T))
      /\ maps.instances = {[id |-> IdOf(T, k), label |-> q[k].class] : k \in T}
  BY <1>1, ResolveIs
<1>3. /\ \A k \in StableOnes(q, n) : /\ k \in 1 .. NumQueries /\ q[k].class \in 0 .. n - 1
                                     /\ \E p \in Pixels : k \in At(p)
      /\ \A p : At(p) \subseteq StableOnes(q, n)
      /\ \A k : k \in T <=> k \in StableOnes(q, n) /\ q[k].class < nthing
  BY StableFacts DEF ThingOnes, ShownAt
<1>4. \A p : \A k \in At(p) : At(p) = {k} /\ Max({k}) = k
  <2>1. \A p : \A k \in At(p) : k \in Int
    BY <1>3, InfServerAssumption
  <2>2. QED
    BY <2>1, OneShows
<1>5. \A i, j \in T : IdOf(T, i) \in Nat /\ (IdOf(T, i) = IdOf(T, j) => i = j)
  <2>1. T \subseteq 1 .. NumQueries
    BY <1>3
  <2> HIDE DEF T
  <2>2. QED
    BY <2>1, IdsDiffer
<1> HIDE DEF T, At
<1>6. ASSUME NEW p \in Pixels, NEW k \in At(p), k \in T
      PROVE  /\ maps.label[p] = q[k].class /\ maps.id[p] = IdOf(T, k)
             /\ q[k].class \in 0 .. nthing - 1 /\ IdOf(T, k) \in Nat
  <2>1. At(p) = {k} /\ At(p) \cap T = {k} /\ Max({k}) = k
    <3>1. At(p) = {k} /\ Max({k}) = k
      BY <1>4, <1>6
    <3>2. At(p) \cap T = {k}
      BY <1>6, <3>1
    <3>3. QED
      BY <3>1, <3>2
  <2>2. q[k].class \in 0 .. n - 1 /\ q[k].class < nthing
    BY <1>3, <1>6
  <2>3. maps.label[p] = q[k].class /\ maps.id[p] = IdOf(T, k)
    BY <1>2, <2>1
  <2>4. q[k].class \in 0 .. nthing - 1
    BY <2>2
  <2>5. QED
    BY <1>5, <1>6, <2>3, <2>4
<1>7. ASSUME NEW p \in Pixels, NEW k \in At(p), k \notin T
      PROVE  /\ maps.label[p] = q[k].class /\ maps.id[p] = Background
             /\ q[k].class \in 0 .. n - 1 /\ q[k].class \notin 0 .. nthing - 1
  <2>1. At(p) = {k} /\ At(p) \cap T = {} /\ Max({k}) = k
    <3>1. At(p) = {k} /\ Max({k}) = k
      BY <1>4, <1>7
    <3>2. At(p) \cap T = {}
      BY <1>7, <3>1
    <3>3. QED
      BY <3>1, <3>2
  <2>2. q[k].class \in 0 .. n - 1 /\ ~ (q[k].class < nthing)
    BY <1>3, <1>7
  <2>3. maps.label[p] = q[k].class /\ maps.id[p] = Background
    BY <1>2, <2>1
  <2>4. QED
    BY <2>2, <2>3
<1>8. ASSUME NEW p \in Pixels, At(p) = {}
      PROVE  maps.label[p] = Background /\ maps.id[p] = Background
  BY <1>2, <1>8
<1>9. \A k \in Nat : k # Background
  BY DEF Background
<1>10. Background \notin 0 .. nthing - 1
  BY DEF Background
<1>11. ASSUME NEW p \in Pixels
       PROVE  /\ maps.label[p] \in {Background} \union 0 .. n - 1
              /\ maps.label[p] \in 0 .. nthing - 1 <=> maps.id[p] # Background
              /\ maps.label[p] \in 0 .. nthing - 1 => \E k \in At(p) : k \in T
  <2>1. CASE At(p) = {}
    BY <1>8, <1>10, <2>1
  <2>2. ASSUME NEW k \in At(p), k \in T
        PROVE  /\ maps.label[p] \in 0 .. n - 1 /\ maps.label[p] \in 0 .. nthing - 1
               /\ maps.id[p] # Background
    BY <1>3, <1>6, <1>9, <2>2
  <2>3. ASSUME NEW k \in At(p), k \notin T
        PROVE  /\ maps.label[p] \in 0 .. n - 1 /\ maps.label[p] \notin 0 .. nthing - 1
               /\ maps.id[p] = Background
    BY <1>7, <2>3
  <2>4. QED
    BY <2>1, <2>2, <2>3
<1>12. ASSUME NEW p \in Pixels, maps.label[p] \in 0 .. nthing - 1
       PROVE  \E i \in maps.instances :
                /\ i.id = maps.id[p] /\ i.label = maps.label[p]
                /\ \A j \in maps.instances : j.id = maps.id[p] => j = i
  <2>1. PICK k \in At(p) : k \in T
    BY <1>11, <1>12
  <2> DEFINE i == [id |-> IdOf(T, k), label |-> q[k].class]
  <2>2. i \in maps.instances /\ i.id = maps.id[p] /\ i.label = maps.label[p]
    BY <1>2, <1>6, <2>1
  <2>3. ASSUME NEW j \in maps.instances, j.id = maps.id[p] PROVE j = i
    <3>1. PICK l \in T : j = [id |-> IdOf(T, l), label |-> q[l].class]
      BY <1>2
    <3>2. IdOf(T, l) = IdOf(T, k)
      BY <1>6, <2>1, <2>3, <3>1
    <3>3. l = k
      BY <1>5, <2>1, <3>2
    <3>4. QED
      BY <3>1, <3>3
  <2>4. QED
    BY <2>2, <2>3
<1>13. ASSUME NEW i \in maps.instances PROVE \E p \in Pixels : maps.id[p] = i.id
  <2>1. PICK k \in T : i = [id |-> IdOf(T, k), label |-> q[k].class]
    BY <1>2
  <2>2. PICK p \in Pixels : k \in At(p)
    BY <1>3
  <2>3. QED
    BY <1>6, <2>1, <2>2
<1>14. QED
  BY <1>11, <1>12, <1>13
-----------------------------------------------------------------------------
(* What the labels of a frame mean *)

\* A returned frame was resolved for the client's own vocabulary.
LEMMA FrameFacts ==
  ASSUME Inv, HasFrame
  PROVE  /\ GoodFrame(result.body)
         /\ config.thing \in Seq(Nat) /\ config.stuff \in Seq(Nat)
         /\ Len(config.thing) \in Nat /\ Len(config.stuff) \in Nat
         /\ vocab = Ordered(config.thing, config.stuff)
         /\ Len(vocab) = Len(config.thing) + Len(config.stuff)
         /\ result.body.maps \in {Resolve(q, Len(vocab), Len(config.thing)) : q \in Answers(Len(vocab))}
<1>1. GoodFrame(result.body) /\ stage \in {"idle", "frame"}
  BY DEF Inv, TypeInv, RunInv, ResultInv, HasFrame, Commands
<1>2. vocab = Ordered(config.thing, config.stuff)
  BY <1>1 DEF Inv, RunInv, VocabularyInv
<1>3. /\ config.thing \in Seq(Nat) /\ config.stuff \in Seq(Nat)
      /\ Len(config.thing) \in Nat /\ Len(config.stuff) \in Nat /\ MaxClasses \in Nat
      /\ Len(config.thing) + Len(config.stuff) <= MaxClasses
  BY ConfigFacts DEF Inv, TypeInv
<1>4. vocab \in Seq(Nat) /\ Len(vocab) = Len(config.thing) + Len(config.stuff)
  BY <1>2, <1>3, OrderedFacts
<1>5. Len(vocab) # 0
  BY <1>1, <1>4, EmptySeq DEF GoodFrame
<1>6. Len(vocab) \in 1 .. MaxClasses /\ Len(config.thing) \in 0 .. Len(vocab)
  <2>1. \A a, b, c \in Nat : a + b <= c /\ a + b # 0 => a + b \in 1 .. c /\ a \in 0 .. a + b
    OBVIOUS
  <2>2. QED
    BY <1>3, <1>4, <1>5, <2>1
<1>7. Results[Len(vocab)][Len(config.thing)] =
        {Resolve(q, Len(vocab), Len(config.thing)) : q \in Answers(Len(vocab))}
  BY <1>6 DEF Results
<1>8. QED
  BY <1>1, <1>2, <1>3, <1>4, <1>7 DEF GoodFrame

\* LabelsKeepTheirNames (inf_client.cpp:90, dvis_runner.py:155): className gives
\* each label the name the server's classifier meant by it, whatever failed, was
\* restarted or was left behind by another run.
THEOREM LabelsMeanTheSame == Spec => []LabelsKeepTheirNames
<1>1. ASSUME Inv, HasFrame, NEW p \in Pixels, result.body.maps.label[p] # Background
      PROVE  ClassName(result.body.maps.label[p]) = result.body.meant[result.body.maps.label[p] + 1]
  <2> DEFINE n == Len(vocab)
             maps == result.body.maps
  <2>1. /\ GoodFrame(result.body) /\ n \in Nat /\ Len(config.thing) \in 0 .. n
        /\ maps \in {Resolve(q, n, Len(config.thing)) : q \in Answers(n)}
    <3>1. \A a, b \in Nat : a + b \in Nat /\ a \in 0 .. a + b
      OBVIOUS
    <3>2. QED
      BY <1>1, <3>1, FrameFacts
  <2>2. maps.label[p] \in {Background} \union 0 .. n - 1
    <3> HIDE DEF n, maps
    <3>1. QED
      BY <2>1, ResolveAgrees
  <2>3. QED
    BY <1>1, <2>1, <2>2 DEF ClassName, GoodFrame
<1>2. Inv => LabelsKeepTheirNames
  BY <1>1 DEF LabelsKeepTheirNames
<1>3. QED
  BY <1>2, InferenceInvariant, PTL

\* No name is a thing and stuff at once, and none is empty (className gives the
\* empty name to a label that names nothing).
ProperNames ==
  \A c \in Configs : Range(c.thing) \cap Range(c.stuff) = {} /\ 0 \notin Range(c.thing)

\* The labels below the number of things are the ones with the name of a thing.
LEMMA ThingLabels ==
  ASSUME Inv, HasFrame, ProperNames, NEW l \in {Background} \union 0 .. Len(vocab) - 1
  PROVE  ClassName(l) \in Range(config.thing) <=> l \in 0 .. Len(config.thing) - 1
<1> DEFINE t == Len(config.thing)
           s == Len(config.stuff)
<1>1. /\ config.thing \in Seq(Nat) /\ config.stuff \in Seq(Nat)
      /\ t \in Nat /\ s \in Nat /\ Len(vocab) = t + s
      /\ vocab = Ordered(config.thing, config.stuff)
  BY FrameFacts
<1>2. /\ Range(config.thing) \cap Range(config.stuff) = {} /\ 0 \notin Range(config.thing)
  <2>1. CASE config \in Configs
    BY <2>1 DEF ProperNames
  <2>2. CASE config = Empty
    BY <2>2 DEF Empty, Range
  <2>3. QED
    BY <2>1, <2>2 DEF Inv, TypeInv
<1>3. /\ \A x : x \in Range(config.thing) <=> \E i \in 1 .. t : config.thing[i] = x
      /\ \A x : x \in Range(config.stuff) <=> \E i \in 1 .. s : config.stuff[i] = x
  <2>1. DOMAIN config.thing = 1 .. t /\ DOMAIN config.stuff = 1 .. s
    BY <1>1
  <2>2. QED
    BY <2>1 DEF Range
<1>4. /\ \A i \in 1 .. t : vocab[i] = Sorted(config.thing)[i]
      /\ \A i \in 1 .. s : vocab[t + i] = Sorted(config.stuff)[i]
  BY <1>1, OrderedFacts
<1>5. /\ \A i \in 1 .. t : Sorted(config.thing)[i] \in Range(config.thing)
      /\ \A i \in 1 .. s : Sorted(config.stuff)[i] \in Range(config.stuff)
  <2>1. \A i \in 1 .. t : \E j \in 1 .. t : config.thing[j] = Sorted(config.thing)[i]
    BY <1>1, SortedFacts
  <2>2. \A i \in 1 .. s : \E j \in 1 .. s : config.stuff[j] = Sorted(config.stuff)[i]
    BY <1>1, SortedFacts
  <2>3. QED
    BY <1>3, <2>1, <2>2
<1> HIDE DEF t, s
<1>6. CASE l \in 0 .. t - 1
  <2>1. l + 1 \in 1 .. t /\ l \in 0 .. Len(vocab) - 1
    BY <1>1, <1>6
  <2>2. ClassName(l) = Sorted(config.thing)[l + 1]
    BY <1>4, <2>1 DEF ClassName
  <2>3. QED
    BY <1>5, <1>6, <2>1, <2>2 DEF t
<1>7. CASE l = Background
  <2>1. ClassName(l) = 0 /\ l \notin 0 .. t - 1
    BY <1>7 DEF ClassName, Background
  <2>2. QED
    BY <1>2, <2>1 DEF t
<1>8. CASE l \in t .. t + s - 1
  <2>1. /\ (l - t) + 1 \in 1 .. s /\ t + ((l - t) + 1) = l + 1
        /\ l \in 0 .. Len(vocab) - 1 /\ l \notin 0 .. t - 1
    BY <1>1, <1>8
  <2>2. ClassName(l) = Sorted(config.stuff)[(l - t) + 1]
    <3>1. vocab[t + ((l - t) + 1)] = Sorted(config.stuff)[(l - t) + 1]
      BY <1>4, <2>1
    <3>2. QED
      BY <2>1, <3>1 DEF ClassName
  <2>3. ClassName(l) \in Range(config.stuff)
    BY <1>5, <2>1, <2>2
  <2>4. QED
    BY <1>2, <2>1, <2>3 DEF t
<1>9. l = Background \/ l \in 0 .. t - 1 \/ l \in t .. t + s - 1
  BY <1>1
<1>10. QED
  BY <1>6, <1>7, <1>8, <1>9

\* ThingsHaveInstances (dvis_runner.py:207): the label map, the id map and the
\* instances of a frame agree, in the client's own vocabulary, for any answer of
\* the network.  The names must be proper ones.
THEOREM InstancesMatchThings == ProperNames => (Spec => []ThingsHaveInstances)
<1> SUFFICES ASSUME ProperNames PROVE Spec => []ThingsHaveInstances
  OBVIOUS
<1>1. ASSUME Inv, HasFrame PROVE ThingsHaveInstances
  <2> DEFINE n == Len(vocab)
             maps == result.body.maps
             t == Len(config.thing)
             Of(p) == {i \in maps.instances : i.id = maps.id[p]}
  <2>1. /\ n \in Nat /\ t \in 0 .. n
        /\ maps \in {Resolve(q, n, t) : q \in Answers(n)}
    <3>1. \A a, b \in Nat : a + b \in Nat /\ a \in 0 .. a + b
      OBVIOUS
    <3>2. QED
      BY <1>1, <3>1, FrameFacts
  <2>2. /\ \A p \in Pixels :
             /\ maps.label[p] \in {Background} \union 0 .. n - 1
             /\ maps.label[p] \in 0 .. t - 1 <=> maps.id[p] # Background
             /\ maps.label[p] \in 0 .. t - 1 =>
                  \E i \in maps.instances :
                    /\ i.id = maps.id[p] /\ i.label = maps.label[p]
                    /\ \A j \in maps.instances : j.id = maps.id[p] => j = i
        /\ \A i \in maps.instances : \E p \in Pixels : maps.id[p] = i.id
    <3> HIDE DEF n, maps, t
    <3>1. QED
      BY <2>1, ResolveAgrees
  <2>3. \A p \in Pixels : ClassName(maps.label[p]) \in Range(config.thing) <=> maps.label[p] \in 0 .. t - 1
    <3>1. ASSUME NEW p \in Pixels PROVE maps.label[p] \in {Background} \union 0 .. Len(vocab) - 1
      BY <2>2
    <3> HIDE DEF maps
    <3>2. QED
      BY <1>1, <3>1, ThingLabels
  <2>4. ASSUME NEW p \in Pixels, maps.label[p] \in 0 .. t - 1
        PROVE  Cardinality(Of(p)) = 1 /\ \A i \in Of(p) : i.label = maps.label[p]
    <3>1. PICK i \in maps.instances :
            /\ i.id = maps.id[p] /\ i.label = maps.label[p]
            /\ \A j \in maps.instances : j.id = maps.id[p] => j = i
      BY <2>2, <2>4
    <3>2. Of(p) = {i}
      BY <3>1
    <3>3. Cardinality({i}) = 1
      BY FS_Singleton
    <3>4. QED
      BY <3>1, <3>2, <3>3
  <2> HIDE DEF n, maps, t
  <2>5. QED
    BY <2>2, <2>3, <2>4 DEF ThingsHaveInstances, maps
<1>2. Inv => ThingsHaveInstances
  BY <1>1 DEF ThingsHaveInstances
<1>3. QED
  BY <1>2, InferenceInvariant, PTL
=============================================================================
