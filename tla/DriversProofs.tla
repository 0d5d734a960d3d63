--------------------------- MODULE DriversProofs ---------------------------
(***************************************************************************)
(* The two programs around OnlineSemantic, for any log, window, stride,    *)
(* queue size and set of stages, any number of frames and any exceptions.  *)
(*                                                                         *)
(* Whatever a program does between two frames, it reaches the driver and   *)
(* the viewer by few kinds of step (StepKinds); the invariants of the      *)
(* driver and of the wire are about these.  Then the store of the caller   *)
(* of runOnInput, and what a replay delivers, by the theorems about the    *)
(* synchroniser.                                                           *)
(***************************************************************************)
EXTENDS Drivers, NatLemmas, SequenceTheorems

\* Where the stages lie that the properties are about.
LEMMA StagesAreOrdered ==
  /\ "return" \in Ends
  /\ Before("consolidate", "return")
  /\ \A end \in Ends : Before("frame", end) <=> end = "return"
  /\ \A end \in Ends : Before("note", end) => Before("superpoints", end)
  /\ Before("superpoints", "note") /\ Before("superpoints", "frame") /\ Before("overlay", "frame")
  /\ Before("seed", "frame") /\ Before("consolidate", "frame")
<1>1. DOMAIN Order = 1 .. 10 /\ Order[1] = "infer" /\ Order[2] = "label" /\ Order[3] = "overlay"
      /\ Order[4] = "seed" /\ Order[5] = "superpoints" /\ Order[6] = "grow"
      /\ Order[7] = "consolidate" /\ Order[8] = "note" /\ Order[9] = "frame" /\ Order[10] = "return"
  BY DEF Order
<1>2. Ends = {Order[i] : i \in 1 .. 10}
  BY <1>1 DEF Ends, ToSet
<1>3. QED
  BY <1>1, <1>2 DEF Before
-----------------------------------------------------------------------------
(* What a step of either program is to the driver and the viewer *)

\* A frame goes through the driver, to its end or to an exception.
FrameStep ==
  /\ phase \in {"running", "flushing"} /\ phase' \in {"running", "flushing", "error"}
  /\ \E end \in Ends : OnSynced(end)
  /\ UNCHANGED viewerVars

\* The run ends in order.
FinishStep == phase \in {"running", "flushing"} /\ Finish /\ UNCHANGED viewerVars

ExitStep == Exit /\ UNCHANGED viewerVars

\* Only the phase moves, if anything: input is read, the synchroniser drops an image,
\* the server does not answer, an image cannot be read.
OtherStep ==
  /\ \/ phase' = phase
     \/ phase \in {"starting", "running", "flushing"} /\ phase' \in {"flushing", "error", "exited"}
  /\ UNCHANGED <<startVars, wire, viewerVars>>

LEMMA StepKinds ==
  ASSUME [Next]_vars
  PROVE  Begin \/ FrameStep \/ FinishStep \/ ExitStep \/ Handle \/ OtherStep
<1>1. CASE Replay
  <2>1. CASE StartReplay
    BY <2>1 DEF StartReplay, StartFails, OtherStep
  <2>2. CASE FeedScan \/ FeedImage \/ PassImage \/ DrainOnly
    BY <2>2 DEF FeedScan, FeedImage, PassImage, DrainOnly, driverVars, startVars, OtherStep
  <2>3. CASE UnreadableImage \/ FlushAtEnd
    BY <2>3 DEF UnreadableImage, ImageNext, Abort, FlushAtEnd, startVars, OtherStep
  <2>4. CASE Frame
    BY <2>4, StagesAreOrdered DEF Frame, Abort, FrameStep
  <2>5. CASE FinishReplay
    BY <2>5 DEF FinishReplay, FinishStep
  <2>6. QED
    BY <1>1, <2>1, <2>2, <2>3, <2>4, <2>5 DEF Replay, ReplayNext
<1>2. CASE Runner
  <2>1. CASE Construct
    BY <2>1 DEF Construct, StartFails, OtherStep
  <2>2. CASE RunOnInput
    BY <2>2, StagesAreOrdered DEF RunOnInput, FrameStep
  <2>3. CASE RunOnInputThrows
    BY <2>3 DEF RunOnInputThrows, FrameStep
  <2>4. CASE RunOnNothing
    BY <2>4 DEF RunOnNothing, driverVars, startVars, OtherStep
  <2>5. CASE Destroy
    BY <2>5 DEF Destroy, FinishStep
  <2>6. QED
    BY <1>2, <2>1, <2>2, <2>3, <2>4, <2>5 DEF Runner, RunnerNext
<1>3. CASE View
  BY <1>3 DEF View
<1>4. CASE Leave
  BY <1>4 DEF Leave, ExitStep
<1>5. CASE UNCHANGED vars
  BY <1>5 DEF vars, driverVars, startVars, OtherStep
<1>6. QED
  BY <1>1, <1>2, <1>3, <1>4, <1>5 DEF Next
-----------------------------------------------------------------------------
(* The consolidation stride *)

\* The consolidations whose call returned, and those whose call threw afterwards.
Returned   == {k \in DOMAIN folded : folded[k].returned}
Unreturned == {k \in DOMAIN folded : ~folded[k].returned}

OnStride(n) == Stride <= 1 \/ n % Stride = 0

FoldsTyped ==
  /\ calls \in Nat /\ done \in Nat
  /\ folded \in Seq([number : Nat, call : Nat, returned : BOOLEAN])

\* A frame number is consolidated for good once: by the call that completes it.  A call
\* that throws after its consolidation is one of the calls - done that left no number
\* behind, and each of those consolidated at most once.
StrideInv ==
  /\ FoldsTyped
  /\ \A k \in DOMAIN folded :
       /\ Objecting /\ OnStride(folded[k].number) /\ folded[k].number <= done
       /\ folded[k].returned => folded[k].number < done
  /\ \A j, k \in Returned : folded[j].number = folded[k].number => j = k
  /\ Objecting => \A n \in 0 .. done - 1 : OnStride(n) => \E k \in Returned : folded[k].number = n
  /\ IsFiniteSet(Unreturned) /\ Cardinality(Unreturned) <= calls - done

LEMMA FoldTyped ==
  ASSUME FoldsTyped, NEW k \in DOMAIN folded
  PROVE  folded[k].number \in Nat /\ folded[k].call \in Nat /\ folded[k].returned \in BOOLEAN
<1>1. folded[k] \in [number : Nat, call : Nat, returned : BOOLEAN]
  BY LenProperties, ElementOfSeq DEF FoldsTyped
<1>2. QED
  BY <1>1

\* A consolidation more, by a call that returns or throws.
LEMMA OneFoldMore ==
  ASSUME FoldsTyped, NEW b \in BOOLEAN,
         folded' = Append(folded, [number |-> done, call |-> calls + 1, returned |-> b])
  PROVE  /\ folded' \in Seq([number : Nat, call : Nat, returned : BOOLEAN])
         /\ DOMAIN folded' = DOMAIN folded \union {Len(folded) + 1}
         /\ Len(folded) + 1 \notin DOMAIN folded
         /\ \A k \in DOMAIN folded : folded'[k] = folded[k]
         /\ folded'[Len(folded) + 1] = [number |-> done, call |-> calls + 1, returned |-> b]
<1> DEFINE f == [number |-> done, call |-> calls + 1, returned |-> b]
           F == [number : Nat, call : Nat, returned : BOOLEAN]
<1>1. f \in F /\ folded \in Seq(F)
  BY DEF FoldsTyped
<1> HIDE DEF f, F
<1>2. /\ Append(folded, f) \in Seq(F) /\ Len(Append(folded, f)) = Len(folded) + 1
      /\ \A k \in 1 .. Len(folded) : Append(folded, f)[k] = folded[k]
      /\ Append(folded, f)[Len(folded) + 1] = f
  BY <1>1, AppendProperties
<1>3. DOMAIN folded = 1 .. Len(folded) /\ Len(folded) \in Nat
      /\ DOMAIN Append(folded, f) = 1 .. Len(folded) + 1
  BY <1>1, <1>2, LenProperties
<1>4. QED
  BY <1>2, <1>3 DEF f, F

LEMMA StrideInit == Init => StrideInv
<1> SUFFICES ASSUME Init PROVE StrideInv
  OBVIOUS
<1>1. /\ calls = 0 /\ done = 0 /\ folded = <<>> /\ DOMAIN folded = {}
      /\ Returned = {} /\ Unreturned = {}
  BY DEF Init, DriverInit, Returned, Unreturned
<1>2. QED
  BY <1>1, FS_EmptySet DEF StrideInv, FoldsTyped

LEMMA StrideStep == StrideInv /\ [Next]_vars => StrideInv'
<1> SUFFICES ASSUME StrideInv, [Next]_vars PROVE StrideInv'
  OBVIOUS
<1>1. CASE UNCHANGED <<calls, done, folded, on>>
  BY <1>1 DEF StrideInv, FoldsTyped, Returned, Unreturned, Objecting
<1>2. ASSUME NEW end \in Ends, OnSynced(end) PROVE StrideInv'
  <2> DEFINE r == end = "return"
             N == Len(folded) + 1
  <2>1. /\ calls' = calls + 1 /\ done' = (IF r THEN done + 1 ELSE done) /\ on' = on
        /\ calls \in Nat /\ done \in Nat /\ FoldsTyped
        /\ Objecting' = Objecting
    BY <1>2 DEF OnSynced, StrideInv, FoldsTyped, Objecting
  <2>2. Due <=> Objecting /\ OnStride(done)
    BY DEF Due, OnStride
  <2>3. CASE Due /\ Before("consolidate", end)
    <3>1. folded' = Append(folded, [number |-> done, call |-> calls + 1, returned |-> r])
      BY <1>2, <2>3 DEF OnSynced
    <3>2. r \in BOOLEAN
      OBVIOUS
    <3> HIDE DEF r
    <3>3. /\ folded' \in Seq([number : Nat, call : Nat, returned : BOOLEAN])
          /\ DOMAIN folded' = DOMAIN folded \union {N} /\ N \notin DOMAIN folded
          /\ \A k \in DOMAIN folded : folded'[k] = folded[k]
          /\ folded'[N] = [number |-> done, call |-> calls + 1, returned |-> r]
      BY <2>1, <3>1, <3>2, OneFoldMore
    <3> HIDE DEF N
    <3>4. /\ Returned' = IF r THEN Returned \union {N} ELSE Returned
          /\ Unreturned' = IF r THEN Unreturned ELSE Unreturned \union {N}
          /\ N \notin Returned /\ N \notin Unreturned
      BY <3>3 DEF Returned, Unreturned
    <3>5. \A k \in DOMAIN folded' :
            /\ Objecting' /\ OnStride(folded'[k].number) /\ folded'[k].number <= done'
            /\ folded'[k].returned => folded'[k].number < done'
      <4> TAKE k \in DOMAIN folded'
      <4>1. CASE k = N
        BY <2>1, <2>2, <2>3, <3>3, <4>1
      <4>2. CASE k \in DOMAIN folded
        <5>1. folded[k].number \in Nat
          BY <2>1, <4>2, FoldTyped
        <5>2. QED
          BY <2>1, <3>3, <4>2, <5>1 DEF StrideInv
      <4>3. QED
        BY <3>3, <4>1, <4>2
    <3>6. \A j, k \in Returned' : folded'[j].number = folded'[k].number => j = k
      <4>1. \A k \in Returned : k \in DOMAIN folded /\ folded[k].number < done
                               /\ folded[k].number \in Nat /\ folded'[k] = folded[k]
        BY <2>1, <3>3, FoldTyped DEF Returned, StrideInv
      <4>2. QED
        BY <2>1, <3>3, <3>4, <4>1 DEF StrideInv
    <3>7. Objecting' => \A n \in 0 .. done' - 1 :
                          OnStride(n) => \E k \in Returned' : folded'[k].number = n
      <4> SUFFICES ASSUME Objecting, NEW n \in 0 .. done' - 1, OnStride(n)
                   PROVE  \E k \in Returned' : folded'[k].number = n
        BY <2>1
      <4>1. CASE n \in 0 .. done - 1
        <5>1. PICK k \in Returned : folded[k].number = n
          BY <4>1 DEF StrideInv
        <5>2. k \in Returned' /\ folded'[k] = folded[k]
          BY <3>3, <3>4, <5>1 DEF Returned
        <5>3. QED
          BY <5>1, <5>2
      <4>2. CASE n \notin 0 .. done - 1
        <5>1. r /\ n = done
          BY <2>1, <4>2
        <5>2. QED
          BY <3>3, <3>4, <5>1
      <4>3. QED
        BY <4>1, <4>2
    <3>8. IsFiniteSet(Unreturned') /\ Cardinality(Unreturned') <= calls' - done'
      <4>1. IsFiniteSet(Unreturned) /\ Cardinality(Unreturned) <= calls - done
        BY DEF StrideInv
      <4>2. /\ Cardinality(Unreturned) \in Nat
            /\ IsFiniteSet(Unreturned \union {N})
            /\ Cardinality(Unreturned \union {N}) = Cardinality(Unreturned) + 1
        BY <3>4, <4>1, FS_AddElement, FS_CardinalityType
      <4>3. QED
        BY <2>1, <3>4, <4>1, <4>2
    <3>9. QED
      BY <2>1, <3>3, <3>5, <3>6, <3>7, <3>8 DEF StrideInv, FoldsTyped
  <2>4. CASE ~ (Due /\ Before("consolidate", end))
    <3>1. folded' = folded
      BY <1>2, <2>4 DEF OnSynced
    <3>2. r => ~Due
      BY <2>4, StagesAreOrdered
    <3>3. \A k \in DOMAIN folded : folded[k].number \in Nat
      BY <2>1, FoldTyped
    <3>4. Returned' = Returned /\ Unreturned' = Unreturned
      BY <3>1 DEF Returned, Unreturned
    <3>5. \A k \in DOMAIN folded :
            /\ Objecting /\ OnStride(folded[k].number) /\ folded[k].number <= done'
            /\ folded[k].returned => folded[k].number < done'
      BY <2>1, <3>3 DEF StrideInv
    <3>6. Objecting => \A n \in 0 .. done' - 1 :
                         OnStride(n) => \E k \in Returned : folded[k].number = n
      BY <2>1, <2>2, <3>2 DEF StrideInv
    <3>7. Cardinality(Unreturned) \in Nat /\ Cardinality(Unreturned) <= calls' - done'
      BY <2>1, <3>2, FS_CardinalityType DEF StrideInv
    <3>8. QED
      BY <2>1, <3>1, <3>4, <3>5, <3>6, <3>7 DEF StrideInv, FoldsTyped
  <2>5. QED
    BY <2>3, <2>4
<1>3. QED
  <2>1. Begin \/ FrameStep \/ FinishStep \/ ExitStep \/ Handle \/ OtherStep
    BY StepKinds
  <2>2. FrameStep => \E end \in Ends : OnSynced(end)
    BY DEF FrameStep
  <2>3. Begin \/ FinishStep \/ ExitStep \/ Handle \/ OtherStep =>
          UNCHANGED <<calls, done, folded, on>>
    BY DEF Begin, FinishStep, Finish, ExitStep, Exit, Handle, OtherStep, startVars, driverVars
  <2>4. QED
    BY <1>1, <1>2, <2>1, <2>2, <2>3

\* The stride counts the frames that were completed, whatever is thrown: each multiple of
\* it is consolidated once among the calls that returned, no other frame is, and only a
\* call that threw adds one more.
THEOREM StrideHolds == Spec => []StrideIsKept
<1>1. StrideInv => StrideIsKept
  <2> SUFFICES ASSUME StrideInv, Objecting, Stride >= 1
               PROVE  StrideIsKept
    BY DEF StrideIsKept
  <2>1. \A n \in Nat : OnStride(n) <=> n % Stride = 0
    <3>1. \A n \in Nat : n % 1 = 0
      OBVIOUS
    <3>2. QED
      BY <3>1, DriverAssumption DEF OnStride
  <2>2. ASSUME NEW n \in 0 .. done - 1
        PROVE  Cardinality({k \in DOMAIN folded : folded[k].number = n /\ folded[k].returned})
                 = (IF n % Stride = 0 THEN 1 ELSE 0)
    <3> DEFINE K == {k \in DOMAIN folded : folded[k].number = n /\ folded[k].returned}
    <3>1. n \in Nat /\ K = {k \in Returned : folded[k].number = n}
      BY DEF StrideInv, FoldsTyped, Returned
    <3>2. CASE n % Stride = 0
      <4>1. PICK k \in Returned : folded[k].number = n
        BY <2>1, <3>1, <3>2 DEF StrideInv
      <4>2. K = {k}
        BY <3>1, <4>1 DEF StrideInv
      <4>3. QED
        BY <3>2, <4>2, FS_Singleton
    <3>3. CASE n % Stride # 0
      <4>1. K = {}
        BY <2>1, <3>1, <3>3 DEF StrideInv, Returned
      <4>2. QED
        BY <3>3, <4>1, FS_EmptySet
    <3>4. QED
      BY <3>2, <3>3
  <2>3. \A k \in DOMAIN folded : folded[k].number % Stride = 0 /\ folded[k].number <= done
    BY <2>1, FoldTyped DEF StrideInv
  <2>4. Cardinality({k \in DOMAIN folded : ~folded[k].returned}) <= calls - done
    BY DEF StrideInv, Unreturned
  <2>5. QED
    BY <2>2, <2>3, <2>4 DEF StrideIsKept
<1>2. QED
  BY <1>1, StrideInit, StrideStep, PTL DEF Spec
-----------------------------------------------------------------------------
(* What the viewer shows *)

NatOrNone == Nat \union {None}

FrameMessages ==
  [type : {"frame"}, idx : Nat, call : Nat, seg : NatOrNone, superpoints : NatOrNone,
   proposals : NatOrNone, objects : NatOrNone]

Messages == [type : {"begin"}] \union FrameMessages \union [type : {"finish"}, map : Nat]

Screens ==
  [idx : NatOrNone, call : NatOrNone, seg : NatOrNone, superpoints : NatOrNone,
   proposals : NatOrNone, objects : NatOrNone]

IsFrame(m)  == m.type = "frame"
IsFinish(m) == m.type = "finish"

\* r is the newest of the consolidations F not later than the call c, or 0.
PastCalls(F, c) == {F[k].call : k \in {i \in DOMAIN F : F[i].call <= c}}

LastFold(r, F, c) ==
  \/ PastCalls(F, c) = {} /\ r = 0
  \/ r \in PastCalls(F, c) /\ \A x \in PastCalls(F, c) : x <= r

\* s, a frame message or a screen, is of one frame: with the stages o enabled, after the
\* consolidations F, among c calls of which d were completed.
OfOneFrame(s, o, F, c, d) ==
  /\ s.idx \in 0 .. d - 1 /\ s.call \in 1 .. c
  /\ s.seg = IF "overlay" \in o THEN s.call ELSE None
  /\ "superpoints" \in o => s.superpoints = s.call
  /\ "hdbscan" \in o => s.proposals = s.call
  /\ "objects" \in o => LastFold(s.objects, F, s.call)

ScreenTyped ==
  /\ FoldsTyped
  /\ superpoints \in [made : Nat, version : Nat] /\ objects \in [made : Nat, tidied : BOOLEAN]
  /\ map \in Nat /\ proposals \in Nat /\ lastSp \in Nat /\ seg \in NatOrNone
  /\ wire \in Seq(Messages) /\ screen \in Screens /\ shown \in Seq(Screens)

\* What the stores and the publisher keep between two calls.
StoresAgree ==
  /\ lastSp <= superpoints.version
  /\ "overlay" \notin on => seg = None
  /\ \A k \in DOMAIN folded : folded[k].call <= calls
  /\ LastFold(objects.made, folded, calls)

\* All that is on its way or on the screen is of one frame.
AllOfOneFrame ==
  /\ \A k \in DOMAIN wire : IsFrame(wire[k]) => OfOneFrame(wire[k], on, folded, calls, done)
  /\ \A k \in DOMAIN shown : OfOneFrame(shown[k], on, folded, calls, done)
  /\ screen = Blank \/ OfOneFrame(screen, on, folded, calls, done)

\* Numbers increase over what was shown and what is on its way.
NumbersIncrease ==
  /\ \A j, k \in DOMAIN shown : j < k => shown[j].idx < shown[k].idx
  /\ \A j \in DOMAIN shown, k \in DOMAIN wire : IsFrame(wire[k]) => shown[j].idx < wire[k].idx
  /\ \A j, k \in DOMAIN wire : j < k /\ IsFrame(wire[j]) /\ IsFrame(wire[k]) =>
                                wire[j].idx < wire[k].idx

\* The final message is the last one.
FinishIsLast ==
  /\ phase = "starting" => calls = 0 /\ wire = <<>>
  /\ \A k \in DOMAIN wire : IsFinish(wire[k]) =>
       k = Len(wire) /\ phase \in {"finished", "exited"} /\ snapshot = None
  /\ snapshot # None => wire = <<>> /\ phase \in {"finished", "exited"}
                         /\ snapshot.objects = screen.objects

NoFrameAfter(k) == \A j \in DOMAIN wire : j > k => ~IsFrame(wire[j])

\* Unless the process has ended before the final message left, the last frame, if it was
\* sent, is on its way or on the screen, and no other comes after it.
LastIsSeen ==
  /\ calls > 0 /\ calls \notin unsent
  /\ phase # "exited" \/ snapshot # None \/ \E k \in DOMAIN wire : IsFinish(wire[k])
  => \/ \E k \in DOMAIN wire : IsFrame(wire[k]) /\ wire[k].call = calls /\ NoFrameAfter(k)
     \/ screen.call = calls /\ NoFrameAfter(0)

ScreenInv ==
  ScreenTyped /\ StoresAgree /\ AllOfOneFrame /\ NumbersIncrease /\ FinishIsLast /\ LastIsSeen

LEMMA ScreenInit == Init => ScreenInv
<1> SUFFICES ASSUME Init PROVE ScreenInv
  OBVIOUS
<1>1. /\ calls = 0 /\ done = 0 /\ map = 0 /\ proposals = 0 /\ lastSp = 0 /\ seg = None
      /\ superpoints = [made |-> 0, version |-> 0] /\ objects = [made |-> 0, tidied |-> FALSE]
      /\ folded = <<>> /\ wire = <<>> /\ shown = <<>> /\ screen = Blank /\ snapshot = None
  BY DEF Init, DriverInit
<1>2. ScreenTyped
  BY <1>1 DEF ScreenTyped, FoldsTyped, Screens, Blank, NatOrNone
<1>3. StoresAgree
  <2>1. PastCalls(folded, calls) = {}
    BY <1>1 DEF PastCalls
  <2>2. QED
    BY <1>1, <2>1 DEF StoresAgree, LastFold
<1>4. AllOfOneFrame /\ NumbersIncrease /\ FinishIsLast /\ LastIsSeen
  BY <1>1 DEF AllOfOneFrame, NumbersIncrease, FinishIsLast, LastIsSeen
<1>5. QED
  BY <1>2, <1>3, <1>4 DEF ScreenInv

\* The consolidations up to an earlier call stay what they were.
LEMMA PastStays ==
  ASSUME FoldsTyped, NEW end \in Ends, OnSynced(end), NEW c \in Nat, c <= calls
  PROVE  PastCalls(folded', c) = PastCalls(folded, c)
<1>1. CASE folded' = folded
  BY <1>1 DEF PastCalls
<1>2. CASE folded' # folded
  <2>1. folded' = Append(folded, [number |-> done, call |-> calls + 1,
                                  returned |-> end = "return"])
    BY <1>2 DEF OnSynced
  <2>2. (end = "return") \in BOOLEAN
    OBVIOUS
  <2>3. /\ DOMAIN folded' = DOMAIN folded \union {Len(folded) + 1}
        /\ \A k \in DOMAIN folded : folded'[k] = folded[k]
        /\ folded'[Len(folded) + 1].call = calls + 1
    BY <2>1, <2>2, OneFoldMore
  <2>4. calls \in Nat
    BY DEF FoldsTyped
  <2>5. {i \in DOMAIN folded' : folded'[i].call <= c} = {i \in DOMAIN folded : folded[i].call <= c}
    BY <2>3, <2>4
  <2>6. QED
    BY <2>3, <2>5 DEF PastCalls
<1>3. QED
  BY <1>1, <1>2

LEMMA FrameKeepsStores ==
  ASSUME ScreenTyped, StoresAgree, NEW end \in Ends, OnSynced(end)
  PROVE  StoresAgree'
<1>1. /\ calls' = calls + 1 /\ calls \in Nat /\ on' = on /\ FoldsTyped
      /\ superpoints'.version = Versions(end)
      /\ superpoints.version \in Nat /\ lastSp \in Nat
  BY DEF OnSynced, ScreenTyped, FoldsTyped
<1>2. lastSp' <= superpoints'.version
  BY <1>1, StagesAreOrdered DEF OnSynced, StoresAgree, Versions
<1>3. "overlay" \notin on' => seg' = None
  BY <1>1 DEF OnSynced, StoresAgree, Made
<1>4. CASE Due /\ Before("consolidate", end)
  <2>1. folded' = Append(folded, [number |-> done, call |-> calls + 1,
                                  returned |-> end = "return"])
    BY <1>4 DEF OnSynced
  <2>2. (end = "return") \in BOOLEAN
    OBVIOUS
  <2>3. /\ DOMAIN folded' = DOMAIN folded \union {Len(folded) + 1}
        /\ \A k \in DOMAIN folded : folded'[k] = folded[k]
        /\ folded'[Len(folded) + 1].call = calls + 1
    BY <1>1, <2>1, <2>2, OneFoldMore
  <2>4. objects'.made = calls + 1
    BY <1>4 DEF OnSynced, Made, ScreenTyped
  <2>5. \A k \in DOMAIN folded : folded[k].call \in Nat /\ folded[k].call <= calls
    BY <1>1, FoldTyped DEF StoresAgree
  <2>6. \A k \in DOMAIN folded' : folded'[k].call <= calls'
    BY <1>1, <2>3, <2>5
  <2>7. calls + 1 \in PastCalls(folded', calls')
    BY <1>1, <2>3 DEF PastCalls
  <2>8. \A x \in PastCalls(folded', calls') : x <= calls + 1
    BY <1>1 DEF PastCalls
  <2>9. QED
    BY <1>2, <1>3, <2>4, <2>6, <2>7, <2>8 DEF StoresAgree, LastFold
<1>5. CASE ~ (Due /\ Before("consolidate", end))
  <2>1. folded' = folded /\ objects'.made = objects.made
    BY <1>5 DEF OnSynced, Made, ScreenTyped
  <2>2. \A k \in DOMAIN folded : folded[k].call \in Nat /\ folded[k].call <= calls
    BY <1>1, FoldTyped DEF StoresAgree
  <2>3. PastCalls(folded', calls') = PastCalls(folded, calls)
    BY <1>1, <2>1, <2>2 DEF PastCalls
  <2>4. \A k \in DOMAIN folded' : folded'[k].call <= calls'
    BY <1>1, <2>1, <2>2
  <2>5. QED
    BY <1>2, <1>3, <2>1, <2>3, <2>4 DEF StoresAgree, LastFold
<1>6. QED
  BY <1>4, <1>5

\* The message a frame sends is of this frame.
LEMMA MessageOfOneFrame ==
  ASSUME ScreenTyped, StoresAgree, OnSynced("return")
  PROVE  /\ FrameMessage \in FrameMessages
         /\ FrameMessage.idx = done /\ FrameMessage.call = calls'
         /\ OfOneFrame(FrameMessage, on', folded', calls', done')
<1> DEFINE m == FrameMessage
<1>1. /\ calls' = calls + 1 /\ done' = done + 1 /\ calls \in Nat /\ done \in Nat /\ on' = on
      /\ superpoints.version \in Nat /\ superpoints.made \in Nat /\ objects.made \in Nat
      /\ proposals \in Nat /\ lastSp \in Nat /\ lastSp <= superpoints.version
      /\ seg \in Nat \union {None} /\ ("overlay" \notin on => seg = None)
  BY DEF OnSynced, ScreenTyped, FoldsTyped, StoresAgree, NatOrNone
<1>2. /\ m.type = "frame" /\ m.idx = done /\ m.call = calls + 1
      /\ m.seg = IF "overlay" \in on THEN calls + 1 ELSE None
  <2>1. m.type = "frame" /\ m.idx = done /\ m.call = calls + 1
    BY DEF FrameMessage
  <2>2. m.seg = Made("overlay", "overlay" \in on, "frame", seg)
    BY DEF FrameMessage
  <2>3. CASE "overlay" \in on
    BY <2>1, <2>2, <2>3, StagesAreOrdered DEF Made
  <2>4. CASE "overlay" \notin on
    BY <1>1, <2>1, <2>2, <2>4 DEF Made
  <2>5. QED
    BY <2>3, <2>4
<1>3. m.superpoints = IF "superpoints" \in on THEN calls + 1 ELSE None
  <2>1. "superpoints" \in on => Versions("note") # lastSp
    BY <1>1, StagesAreOrdered DEF Versions, Refreshing
  <2>2. QED
    BY <2>1, StagesAreOrdered DEF FrameMessage, Made, Refreshing
<1>4. m.proposals = IF "hdbscan" \in on THEN calls + 1 ELSE None
  BY StagesAreOrdered DEF FrameMessage, Made, Seeding
<1>5. m.objects = IF "objects" \in on THEN objects'.made ELSE None
  BY StagesAreOrdered DEF FrameMessage, Made, OnSynced, ScreenTyped
<1>6. objects'.made \in Nat /\ LastFold(objects'.made, folded', calls')
  <2>1. "return" \in Ends /\ StoresAgree'
    BY StagesAreOrdered, FrameKeepsStores
  <2>2. objects'.made = Made("consolidate", Due, "return", objects.made)
    BY DEF OnSynced, ScreenTyped
  <2>3. QED
    BY <1>1, <2>1, <2>2 DEF Made, StoresAgree
<1>7. m = [type |-> m.type, idx |-> m.idx, call |-> m.call, seg |-> m.seg,
           superpoints |-> m.superpoints, proposals |-> m.proposals, objects |-> m.objects]
  BY DEF FrameMessage
<1> HIDE DEF m
<1>8. m \in FrameMessages
  BY <1>1, <1>2, <1>3, <1>4, <1>5, <1>6, <1>7 DEF FrameMessages, NatOrNone
<1>9. OfOneFrame(m, on', folded', calls', done')
  <2>1. m.idx \in 0 .. done' - 1 /\ m.call \in 1 .. calls'
    BY <1>1, <1>2
  <2>2. QED
    BY <1>1, <1>2, <1>3, <1>4, <1>5, <1>6, <2>1 DEF OfOneFrame
<1>10. QED
  BY <1>1, <1>2, <1>8, <1>9 DEF m

\* What was of one frame is of the same frame after the next.
LEMMA OlderStay ==
  ASSUME ScreenTyped, NEW end \in Ends, OnSynced(end), NEW s,
         OfOneFrame(s, on, folded, calls, done)
  PROVE  OfOneFrame(s, on', folded', calls', done')
<1>1. /\ calls' = calls + 1 /\ done' \in {done, done + 1} /\ on' = on
      /\ calls \in Nat /\ done \in Nat /\ FoldsTyped
  BY DEF OnSynced, ScreenTyped, FoldsTyped
<1>2. s.idx \in 0 .. done' - 1 /\ s.call \in 1 .. calls' /\ s.call \in Nat /\ s.call <= calls
  BY <1>1 DEF OfOneFrame
<1>3. PastCalls(folded', s.call) = PastCalls(folded, s.call)
  BY <1>1, <1>2, PastStays
<1>4. QED
  BY <1>1, <1>2, <1>3 DEF OfOneFrame, LastFold

LEMMA WireTyped ==
  ASSUME ScreenTyped
  PROVE  /\ Len(wire) \in Nat /\ DOMAIN wire = 1 .. Len(wire)
         /\ \A k \in DOMAIN wire :
              /\ IsFrame(wire[k]) => wire[k] \in FrameMessages
              /\ ~ (IsFrame(wire[k]) /\ IsFinish(wire[k]))
         /\ \A k \in DOMAIN shown : shown[k] \in Screens
<1>1. wire \in Seq(Messages) /\ shown \in Seq(Screens)
  BY DEF ScreenTyped
<1>2. \A k \in DOMAIN wire : wire[k] \in Messages
  BY <1>1, LenProperties, ElementOfSeq
<1>3. \A k \in DOMAIN shown : shown[k] \in Screens
  BY <1>1, LenProperties, ElementOfSeq
<1>4. \A msg \in Messages : IsFrame(msg) => msg \in FrameMessages
  BY DEF Messages, FrameMessages, IsFrame
<1>5. QED
  BY <1>1, <1>2, <1>3, <1>4, LenProperties DEF IsFrame, IsFinish

LEMMA ScreenFrameStep == ScreenInv /\ FrameStep => ScreenInv'
<1> SUFFICES ASSUME ScreenInv, FrameStep, NEW end \in Ends, OnSynced(end)
             PROVE  ScreenInv'
  BY DEF FrameStep
<1>1. /\ ScreenTyped /\ StoresAgree /\ FoldsTyped
      /\ calls' = calls + 1 /\ done' \in {done, done + 1} /\ calls \in Nat /\ done \in Nat
      /\ on' = on /\ screen' = screen /\ shown' = shown /\ snapshot' = snapshot
      /\ phase \in {"running", "flushing"} /\ phase' \in {"running", "flushing", "error"}
  BY DEF OnSynced, FrameStep, viewerVars, ScreenInv, ScreenTyped, FoldsTyped
<1>2. /\ Len(wire) \in Nat /\ DOMAIN wire = 1 .. Len(wire)
      /\ \A k \in DOMAIN wire : IsFrame(wire[k]) => wire[k] \in FrameMessages
      /\ \A k \in DOMAIN shown : shown[k] \in Screens
  BY <1>1, WireTyped
<1>3. StoresAgree'
  BY <1>1, FrameKeepsStores
<1>4. \A s : OfOneFrame(s, on, folded, calls, done) =>
               OfOneFrame(s, on', folded', calls', done')
  BY <1>1, OlderStay
<1>5. snapshot = None /\ \A k \in DOMAIN wire : ~IsFinish(wire[k])
  BY <1>1 DEF ScreenInv, FinishIsLast
<1>6. /\ FoldsTyped'
      /\ superpoints' \in [made : Nat, version : Nat]
      /\ objects' \in [made : Nat, tidied : BOOLEAN]
      /\ map' \in Nat /\ proposals' \in Nat /\ lastSp' \in Nat /\ seg' \in NatOrNone
  <2>1. folded' \in Seq([number : Nat, call : Nat, returned : BOOLEAN])
    <3>1. CASE Due /\ Before("consolidate", end)
      <4>1. folded' = Append(folded, [number |-> done, call |-> calls + 1,
                                      returned |-> end = "return"])
        BY <3>1 DEF OnSynced
      <4>2. (end = "return") \in BOOLEAN
        OBVIOUS
      <4>3. QED
        BY <1>1, <4>1, <4>2, OneFoldMore
    <3>2. CASE ~ (Due /\ Before("consolidate", end))
      BY <1>1, <3>2 DEF OnSynced, FoldsTyped
    <3>3. QED
      BY <3>1, <3>2
  <2>2. \A n \in Nat : n + 1 \in Nat
    OBVIOUS
  <2>3. FoldsTyped'
    BY <1>1, <2>1 DEF FoldsTyped
  <2>4. superpoints.version \in Nat /\ superpoints.made \in Nat /\ objects.made \in Nat
        /\ objects \in [made : Nat, tidied : BOOLEAN]
    BY DEF ScreenInv, ScreenTyped
  <2>5. Versions(end) \in Nat /\ Versions("note") \in Nat
    BY <2>4 DEF Versions
  <2>6. \A stage, enabled, old : old \in Nat => Made(stage, enabled, end, old) \in Nat
    BY <1>1 DEF Made
  <2>7. superpoints' \in [made : Nat, version : Nat]
    BY <2>4, <2>5, <2>6 DEF OnSynced
  <2>8. objects' \in [made : Nat, tidied : BOOLEAN]
    BY <2>4, <2>6 DEF OnSynced
  <2>9. map' \in Nat /\ proposals' \in Nat /\ lastSp' \in Nat
    BY <2>5, <2>6 DEF OnSynced, ScreenInv, ScreenTyped
  <2>10. seg' \in NatOrNone
    BY <1>1 DEF OnSynced, ScreenInv, ScreenTyped, NatOrNone, Made
  <2>11. QED
    BY <2>3, <2>7, <2>8, <2>9, <2>10
<1>7. CASE wire' = wire /\ calls' \in unsent'
  <2>1. ScreenTyped'
    BY <1>1, <1>6, <1>7 DEF ScreenTyped
  <2>2. AllOfOneFrame'
    BY <1>1, <1>4, <1>7 DEF ScreenInv, AllOfOneFrame
  <2>3. NumbersIncrease'
    BY <1>1, <1>7 DEF ScreenInv, NumbersIncrease
  <2>4. FinishIsLast' /\ LastIsSeen'
    BY <1>1, <1>5, <1>7 DEF ScreenInv, FinishIsLast, LastIsSeen
  <2>5. QED
    BY <1>3, <2>1, <2>2, <2>3, <2>4 DEF ScreenInv
<1>8. CASE end = "return" /\ wire' = Append(wire, FrameMessage)
  <2> DEFINE m == FrameMessage
             N == Len(wire) + 1
  <2>1. /\ m \in FrameMessages /\ m.idx = done /\ m.call = calls'
        /\ OfOneFrame(m, on', folded', calls', done')
    BY <1>1, <1>8, MessageOfOneFrame
  <2>2. m \in Messages /\ IsFrame(m) /\ ~IsFinish(m)
    BY <2>1 DEF Messages, FrameMessages, IsFrame, IsFinish
  <2> HIDE DEF m
  <2>3. /\ wire' \in Seq(Messages) /\ Len(wire') = N
        /\ DOMAIN wire' = DOMAIN wire \union {N}
        /\ \A k \in DOMAIN wire : wire'[k] = wire[k]
        /\ wire'[N] = m
    <3>1. wire \in Seq(Messages)
      BY <1>1 DEF ScreenTyped
    <3>2. /\ Append(wire, m) \in Seq(Messages) /\ Len(Append(wire, m)) = N
          /\ \A k \in 1 .. Len(wire) : Append(wire, m)[k] = wire[k]
          /\ Append(wire, m)[N] = m
      BY <2>2, <3>1, AppendProperties
    <3>3. DOMAIN Append(wire, m) = 1 .. N
      BY <3>2, LenProperties
    <3>4. wire' = Append(wire, m)
      BY <1>8 DEF m
    <3>5. QED
      BY <1>2, <3>2, <3>3, <3>4
  <2>4. ScreenTyped'
    BY <1>1, <1>6, <2>3 DEF ScreenTyped
  <2>5. AllOfOneFrame'
    BY <1>1, <1>4, <2>1, <2>3 DEF ScreenInv, AllOfOneFrame
  <2>6. NumbersIncrease'
    <3>1. \A k \in DOMAIN wire : IsFrame(wire[k]) => wire[k].idx \in Nat /\ wire[k].idx < done
      BY <1>1 DEF ScreenInv, AllOfOneFrame, OfOneFrame
    <3>2. \A k \in DOMAIN shown : shown[k].idx \in Nat /\ shown[k].idx < done
      BY <1>1 DEF ScreenInv, AllOfOneFrame, OfOneFrame
    <3>3. \A k \in DOMAIN wire : k \in Nat /\ k < N
      BY <1>2
    <3>4. \A j \in DOMAIN shown, k \in DOMAIN wire' :
            IsFrame(wire'[k]) => shown[j].idx < wire'[k].idx
      BY <2>1, <2>3, <3>2 DEF ScreenInv, NumbersIncrease
    <3>5. \A j, k \in DOMAIN wire' : j < k /\ IsFrame(wire'[j]) /\ IsFrame(wire'[k]) =>
                                       wire'[j].idx < wire'[k].idx
      <4> SUFFICES ASSUME NEW j \in DOMAIN wire', NEW k \in DOMAIN wire', j < k,
                          IsFrame(wire'[j]), IsFrame(wire'[k])
                   PROVE  wire'[j].idx < wire'[k].idx
        OBVIOUS
      <4>1. j \in DOMAIN wire
        BY <1>2, <2>3
      <4>2. CASE k = N
        BY <2>1, <2>3, <3>1, <4>1, <4>2
      <4>3. CASE k \in DOMAIN wire
        BY <2>3, <4>1, <4>3 DEF ScreenInv, NumbersIncrease
      <4>4. QED
        BY <2>3, <4>2, <4>3
    <3>6. QED
      BY <1>1, <3>4, <3>5 DEF ScreenInv, NumbersIncrease
  <2>7. FinishIsLast'
    BY <1>1, <1>5, <2>2, <2>3 DEF ScreenInv, FinishIsLast
  <2>8. LastIsSeen'
    <3>1. N \in DOMAIN wire' /\ IsFrame(wire'[N]) /\ wire'[N].call = calls'
      BY <2>1, <2>2, <2>3
    <3>2. \A j \in DOMAIN wire' : ~ (j > N)
      BY <1>2, <2>3
    <3>3. QED
      BY <3>1, <3>2 DEF LastIsSeen, NoFrameAfter
  <2>9. QED
    BY <1>3, <2>4, <2>5, <2>6, <2>7, <2>8 DEF ScreenInv
<1>9. QED
  <2>1. Before("frame", end) => end = "return"
    BY StagesAreOrdered
  <2>2. \/ wire' = wire /\ calls' \in unsent'
        \/ end = "return" /\ wire' = Append(wire, FrameMessage)
    BY <1>1, <2>1 DEF OnSynced, Send
  <2>3. QED
    BY <1>7, <1>8, <2>2

\* The steps that only send, drop or wait leave the stores and the viewer alone.
LEMMA StoresUnmoved ==
  ASSUME ScreenInv, UNCHANGED <<on, calls, done, map, proposals, superpoints, seg, lastSp,
                               folded, unsent, viewerVars>>,
         objects'.made = objects.made, objects' \in [made : Nat, tidied : BOOLEAN],
         wire' \in Seq(Messages)
  PROVE  ScreenTyped' /\ StoresAgree'
BY DEF ScreenInv, ScreenTyped, FoldsTyped, StoresAgree, viewerVars

LEMMA ScreenOtherSteps == ScreenInv /\ (Begin \/ FinishStep \/ ExitStep \/ OtherStep) => ScreenInv'
<1> SUFFICES ASSUME ScreenInv, Begin \/ FinishStep \/ ExitStep \/ OtherStep PROVE ScreenInv'
  OBVIOUS
<1>1. /\ UNCHANGED <<on, calls, done, map, proposals, superpoints, seg, lastSp, folded,
                     unsent, screen, shown, snapshot>>
      /\ objects'.made = objects.made /\ objects' \in [made : Nat, tidied : BOOLEAN]
  BY DEF ScreenInv, ScreenTyped, Begin, FinishStep, Finish, ExitStep, Exit, OtherStep, startVars,
         viewerVars
<1>2. /\ Len(wire) \in Nat /\ DOMAIN wire = 1 .. Len(wire) /\ wire \in Seq(Messages)
  BY WireTyped DEF ScreenInv, ScreenTyped
<1>3. CASE OtherStep
  <2>1. wire' = wire
    BY <1>3 DEF OtherStep
  <2>2. ScreenTyped' /\ StoresAgree'
    BY <1>1, <1>2, <2>1, StoresUnmoved DEF viewerVars
  <2>3. AllOfOneFrame' /\ NumbersIncrease'
    BY <1>1, <2>1 DEF ScreenInv, AllOfOneFrame, NumbersIncrease
  <2>4. \/ phase' = phase
        \/ phase \in {"starting", "running", "flushing"} /\ phase' \in {"flushing", "error", "exited"}
    BY <1>3 DEF OtherStep
  <2>5. FinishIsLast'
    BY <1>1, <2>1, <2>4 DEF ScreenInv, FinishIsLast
  <2>6. LastIsSeen'
    BY <1>1, <2>1, <2>4 DEF ScreenInv, LastIsSeen, NoFrameAfter
  <2>7. QED
    BY <2>2, <2>3, <2>5, <2>6 DEF ScreenInv
<1>4. CASE Begin
  <2>1. wire = <<>> /\ calls = 0 /\ snapshot = None /\ phase = "starting" /\ phase' = "running"
    BY <1>4 DEF ScreenInv, FinishIsLast, Begin
  <2>2. /\ wire' \in Seq(Messages)
        /\ \A k \in DOMAIN wire' : ~IsFrame(wire'[k]) /\ ~IsFinish(wire'[k])
    <3>1. wire' = <<>> \/ wire' = <<[type |-> "begin"]>>
      BY <1>4 DEF Begin
    <3> DEFINE header == [type |-> "begin"]
    <3>2. header \in Messages /\ ~IsFrame(header) /\ ~IsFinish(header)
      BY DEF Messages, IsFrame, IsFinish
    <3> HIDE DEF header
    <3>3. \A k \in DOMAIN <<header>> : <<header>>[k] = header
      OBVIOUS
    <3>4. CASE wire' = <<>>
      BY <3>4
    <3>5. CASE wire' = <<header>>
      BY <3>2, <3>3, <3>5
    <3>6. QED
      BY <3>1, <3>4, <3>5 DEF header
  <2>3. ScreenTyped' /\ StoresAgree'
    BY <1>1, <2>2, StoresUnmoved DEF viewerVars
  <2>4. AllOfOneFrame' /\ NumbersIncrease'
    BY <1>1, <2>2 DEF ScreenInv, AllOfOneFrame, NumbersIncrease
  <2>5. FinishIsLast' /\ LastIsSeen'
    BY <1>1, <2>1, <2>2 DEF FinishIsLast, LastIsSeen
  <2>6. QED
    BY <2>3, <2>4, <2>5 DEF ScreenInv
<1>5. CASE FinishStep
  <2>1. phase \in {"running", "flushing"} /\ phase' = "finished" /\ snapshot = None
        /\ \A k \in DOMAIN wire : ~IsFinish(wire[k])
    BY <1>5 DEF ScreenInv, FinishIsLast, FinishStep, Finish
  <2> DEFINE m == [type |-> "finish", map |-> map]
             N == Len(wire) + 1
  <2>2. m \in Messages /\ ~IsFrame(m)
    BY DEF ScreenInv, ScreenTyped, Messages, IsFrame
  <2>3. wire' = wire \/ wire' = Append(wire, m)
    BY <1>5 DEF FinishStep, Finish
  <2> HIDE DEF m
  <2>4. /\ wire' \in Seq(Messages)
        /\ \A k \in DOMAIN wire : k \in DOMAIN wire' /\ wire'[k] = wire[k]
        /\ \A k \in DOMAIN wire' : k \in DOMAIN wire \/ (k = N /\ Len(wire') = N /\ ~IsFrame(wire'[k]))
        /\ Len(wire') \in Nat /\ DOMAIN wire' = 1 .. Len(wire')
    <3>1. CASE wire' = wire
      BY <1>2, <3>1
    <3>2. CASE wire' = Append(wire, m)
      <4>1. /\ Append(wire, m) \in Seq(Messages) /\ Len(Append(wire, m)) = N
            /\ \A k \in 1 .. Len(wire) : Append(wire, m)[k] = wire[k]
            /\ Append(wire, m)[N] = m
        BY <1>2, <2>2, AppendProperties
      <4>2. DOMAIN Append(wire, m) = 1 .. N
        BY <4>1, LenProperties
      <4>3. QED
        BY <1>2, <2>2, <3>2, <4>1, <4>2
    <3>3. QED
      BY <2>3, <3>1, <3>2
  <2>5. ScreenTyped' /\ StoresAgree'
    BY <1>1, <2>4, StoresUnmoved DEF viewerVars
  <2>6. AllOfOneFrame' /\ NumbersIncrease'
    BY <1>1, <2>4 DEF ScreenInv, AllOfOneFrame, NumbersIncrease
  <2>7. FinishIsLast'
    <3>1. \A k \in DOMAIN wire' : IsFinish(wire'[k]) => k = Len(wire')
      BY <2>1, <2>4
    <3>2. QED
      BY <1>1, <2>1, <3>1 DEF FinishIsLast
  <2>8. LastIsSeen'
    <3>1. \A k : NoFrameAfter(k) => NoFrameAfter(k)'
      BY <2>4 DEF NoFrameAfter
    <3>2. calls > 0 /\ calls \notin unsent =>
            \/ \E k \in DOMAIN wire : IsFrame(wire[k]) /\ wire[k].call = calls /\ NoFrameAfter(k)
            \/ screen.call = calls /\ NoFrameAfter(0)
      BY <2>1 DEF ScreenInv, LastIsSeen
    <3>3. QED
      BY <1>1, <2>4, <3>1, <3>2 DEF LastIsSeen
  <2>9. QED
    BY <2>5, <2>6, <2>7, <2>8 DEF ScreenInv
<1>6. CASE ExitStep
  <2>1. phase \in {"finished", "error"} /\ phase' = "exited"
    BY <1>6 DEF ExitStep, Exit
  <2>2. PICK n \in 0 .. Len(wire) : wire' = SubSeq(wire, 1, n)
    BY <1>6 DEF ExitStep, Exit
  <2>3. /\ wire' \in Seq(Messages) /\ Len(wire') = n /\ DOMAIN wire' = 1 .. n
        /\ \A k \in 1 .. n : k \in DOMAIN wire /\ wire'[k] = wire[k]
    <3>1. \A k \in 1 .. n : k \in DOMAIN wire /\ wire[k] \in Messages
      BY <1>2, ElementOfSeq
    <3>2. /\ SubSeq(wire, 1, n) \in Seq(Messages)
          /\ Len(SubSeq(wire, 1, n)) = n
          /\ \A k \in 1 .. n : SubSeq(wire, 1, n)[k] = wire[k]
      BY <1>2, SubSeqProperties
    <3>3. QED
      BY <2>2, <3>1, <3>2, LenProperties
  <2>4. ScreenTyped' /\ StoresAgree'
    BY <1>1, <2>3, StoresUnmoved DEF viewerVars
  <2>5. AllOfOneFrame' /\ NumbersIncrease'
    BY <1>1, <2>3 DEF ScreenInv, AllOfOneFrame, NumbersIncrease
  \* If the final message is still there, so is all the rest.
  <2>6. (\E k \in DOMAIN wire' : IsFinish(wire'[k])) => n = Len(wire)
    <3>1. ASSUME NEW k \in DOMAIN wire', IsFinish(wire'[k]) PROVE n = Len(wire)
      <4>1. k \in 1 .. n /\ k = Len(wire)
        BY <2>3, <3>1 DEF ScreenInv, FinishIsLast
      <4>2. n \in Nat /\ n <= Len(wire) /\ Len(wire) \in Nat
        BY <1>2
      <4>3. QED
        BY <4>1, <4>2
    <3>2. QED
      BY <3>1
  <2>7. n = Len(wire) => wire' = wire
    BY <1>2, <2>2, SubSeqFull
  <2>8. wire = <<>> => wire' = <<>>
    <3>1. ASSUME wire = <<>> PROVE wire' = <<>>
      <4>1. Len(wire') = 0
        BY <1>2, <2>3, <3>1
      <4>2. QED
        BY <2>3, <4>1, EmptySeq
    <3>2. QED
      BY <3>1
  <2>9. FinishIsLast'
    <3>1. phase' = "exited"
      BY <2>1
    <3>2. \A k \in DOMAIN wire' : IsFinish(wire'[k]) => k = Len(wire') /\ snapshot' = None
      BY <1>1, <2>6, <2>7 DEF ScreenInv, FinishIsLast
    <3>3. snapshot' # None => wire' = <<>> /\ snapshot'.objects = screen'.objects
      BY <1>1, <2>8 DEF ScreenInv, FinishIsLast
    <3>4. QED
      BY <3>1, <3>2, <3>3 DEF FinishIsLast
  <2>10. LastIsSeen'
    <3>1. CASE wire' = wire
      BY <1>1, <2>1, <3>1 DEF ScreenInv, LastIsSeen, NoFrameAfter
    <3>2. CASE snapshot # None
      <4>1. wire' = wire
        BY <2>8, <3>2 DEF ScreenInv, FinishIsLast
      <4>2. QED
        BY <3>1, <4>1
    <3>3. CASE wire' # wire /\ snapshot = None
      BY <1>1, <2>1, <2>6, <2>7, <3>3 DEF LastIsSeen
    <3>4. QED
      BY <3>1, <3>2, <3>3
  <2>11. QED
    BY <2>4, <2>5, <2>9, <2>10 DEF ScreenInv
<1>7. QED
  BY <1>3, <1>4, <1>5, <1>6

LEMMA ScreenHandle == ScreenInv /\ Handle => ScreenInv'
<1> SUFFICES ASSUME ScreenInv, Handle PROVE ScreenInv'
  OBVIOUS
<1> DEFINE m == wire[1]
<1>1. /\ UNCHANGED <<phase, on, calls, done, map, proposals, superpoints, objects, seg, lastSp,
                     folded, unsent>>
      /\ wire # <<>> /\ wire' = Tail(wire)
  BY DEF Handle, driverVars
<1>2. /\ Len(wire) \in Nat /\ DOMAIN wire = 1 .. Len(wire) /\ wire \in Seq(Messages)
      /\ \A k \in DOMAIN wire : IsFrame(wire[k]) => wire[k] \in FrameMessages
      /\ \A k \in DOMAIN wire : ~ (IsFrame(wire[k]) /\ IsFinish(wire[k]))
  BY WireTyped DEF ScreenInv, ScreenTyped
<1>3. /\ wire' \in Seq(Messages) /\ Len(wire') = Len(wire) - 1 /\ DOMAIN wire' = 1 .. Len(wire')
      /\ 1 \in DOMAIN wire
      /\ \A k \in DOMAIN wire' : k + 1 \in DOMAIN wire /\ wire'[k] = wire[k + 1]
  <2>1. /\ Tail(wire) \in Seq(Messages) /\ Len(Tail(wire)) = Len(wire) - 1
        /\ \A i \in 1 .. Len(Tail(wire)) : Tail(wire)[i] = wire[i + 1]
    BY <1>1, <1>2, HeadTailProperties
  <2>2. QED
    BY <1>1, <1>2, <2>1, LenProperties
<1>4. Head(wire) = m
  BY <1>2
<1>5. /\ StoresAgree'
      /\ FoldsTyped' /\ map' \in Nat /\ proposals' \in Nat /\ lastSp' \in Nat /\ seg' \in NatOrNone
      /\ superpoints' \in [made : Nat, version : Nat]
      /\ objects' \in [made : Nat, tidied : BOOLEAN]
  BY <1>1 DEF ScreenInv, StoresAgree, ScreenTyped, FoldsTyped
<1>6. \A s : OfOneFrame(s, on, folded, calls, done) => OfOneFrame(s, on, folded, calls, done)'
  BY <1>1 DEF OfOneFrame, LastFold, PastCalls
<1>7. CASE IsFrame(m)
  <2>1. /\ m \in FrameMessages /\ OfOneFrame(m, on, folded, calls, done) /\ ~IsFinish(m)
        /\ phase # "starting" /\ snapshot' = snapshot /\ snapshot = None
        /\ screen' = [k \in DOMAIN Blank |-> IF m[k] = None THEN screen[k] ELSE m[k]]
        /\ shown' = Append(shown, screen')
    BY <1>1, <1>2, <1>3, <1>4, <1>7
       DEF Handle, ShowHeader, ShowFrame, ShowFinish, IsFrame, IsFinish, ScreenInv,
           AllOfOneFrame, FinishIsLast
  <2>2. /\ screen \in Screens
        /\ screen = Blank \/ OfOneFrame(screen, on, folded, calls, done)
    BY DEF ScreenInv, ScreenTyped, AllOfOneFrame
  <2> HIDE DEF m
  \* What the message leaves up is nothing, or of the same frame anyway.
  <2>3. /\ screen' \in Screens
        /\ screen'.idx = m.idx /\ screen'.call = m.call
        /\ OfOneFrame(screen', on, folded, calls, done)
    <3>1. /\ m.idx \in Nat /\ m.call \in Nat /\ m.seg \in NatOrNone /\ m.superpoints \in NatOrNone
          /\ m.proposals \in NatOrNone /\ m.objects \in NatOrNone
      BY <2>1 DEF FrameMessages
    <3>2. /\ screen'.idx = m.idx /\ screen'.call = m.call
          /\ screen'.seg = (IF m.seg = None THEN screen.seg ELSE m.seg)
          /\ screen'.superpoints = (IF m.superpoints = None THEN screen.superpoints ELSE m.superpoints)
          /\ screen'.proposals = (IF m.proposals = None THEN screen.proposals ELSE m.proposals)
          /\ screen'.objects = (IF m.objects = None THEN screen.objects ELSE m.objects)
          /\ screen' = [idx |-> screen'.idx, call |-> screen'.call, seg |-> screen'.seg,
                        superpoints |-> screen'.superpoints, proposals |-> screen'.proposals,
                        objects |-> screen'.objects]
      BY <2>1, <3>1, DriverAssumption DEF Blank
    <3>3. screen' \in Screens
      BY <2>2, <3>1, <3>2 DEF Screens, NatOrNone
    <3>4. screen.seg \in Nat => screen.seg = screen.call /\ "overlay" \in on
      BY <2>2, DriverAssumption DEF Blank, OfOneFrame
    <3>5. OfOneFrame(screen', on, folded, calls, done)
      <4>1. screen'.seg = IF "overlay" \in on THEN screen'.call ELSE None
        BY <2>1, <2>2, <3>1, <3>2, DriverAssumption DEF OfOneFrame, Blank
      <4>2. ASSUME "objects" \in on PROVE LastFold(screen'.objects, folded, screen'.call)
        <5>1. LastFold(m.objects, folded, m.call) /\ m.objects # None
          <6>1. LastFold(m.objects, folded, m.call)
            BY <2>1, <4>2 DEF OfOneFrame
          <6>2. PastCalls(folded, m.call) \subseteq Nat
            BY FoldTyped DEF PastCalls, ScreenInv, ScreenTyped
          <6>3. QED
            BY <6>1, <6>2, DriverAssumption DEF LastFold
        <5>2. QED
          BY <3>2, <5>1
      <4>3. QED
        BY <2>1, <3>1, <3>2, <4>1, <4>2, DriverAssumption DEF OfOneFrame
    <3>6. QED
      BY <3>2, <3>3, <3>5
  <2>4. /\ shown' \in Seq(Screens) /\ DOMAIN shown' = DOMAIN shown \union {Len(shown) + 1}
        /\ Len(shown) \in Nat /\ DOMAIN shown = 1 .. Len(shown)
        /\ \A k \in DOMAIN shown : shown'[k] = shown[k]
        /\ shown'[Len(shown) + 1] = screen'
    <3>1. shown \in Seq(Screens)
      BY DEF ScreenInv, ScreenTyped
    <3>2. /\ Append(shown, screen') \in Seq(Screens)
          /\ Len(Append(shown, screen')) = Len(shown) + 1
          /\ \A k \in 1 .. Len(shown) : Append(shown, screen')[k] = shown[k]
          /\ Append(shown, screen')[Len(shown) + 1] = screen'
      BY <2>3, <3>1, AppendProperties
    <3>3. QED
      BY <2>1, <3>1, <3>2, LenProperties
  <2>5. ScreenTyped'
    BY <1>3, <1>5, <2>3, <2>4 DEF ScreenTyped
  <2>6. AllOfOneFrame'
    BY <1>1, <1>3, <2>3, <2>4 DEF ScreenInv, AllOfOneFrame
  <2>7. NumbersIncrease'
    <3>1. \A k \in DOMAIN wire' : IsFrame(wire'[k]) => screen'.idx < wire'[k].idx
      BY <1>3, <1>7, <2>3 DEF m, ScreenInv, NumbersIncrease
    <3>2. \A j \in DOMAIN shown : shown[j].idx < screen'.idx
      BY <1>3, <1>7, <2>3 DEF m, ScreenInv, NumbersIncrease
    <3>3. \A j, k \in DOMAIN shown' : j < k => shown'[j].idx < shown'[k].idx
      BY <2>4, <3>2 DEF ScreenInv, NumbersIncrease
    <3>4. \A j \in DOMAIN shown', k \in DOMAIN wire' :
            IsFrame(wire'[k]) => shown'[j].idx < wire'[k].idx
      BY <1>3, <2>4, <3>1 DEF ScreenInv, NumbersIncrease
    <3>5. \A j, k \in DOMAIN wire' : j < k /\ IsFrame(wire'[j]) /\ IsFrame(wire'[k]) =>
                                       wire'[j].idx < wire'[k].idx
      BY <1>3 DEF ScreenInv, NumbersIncrease
    <3>6. QED
      BY <3>3, <3>4, <3>5 DEF NumbersIncrease
  <2>8. FinishIsLast'
    BY <1>1, <1>2, <1>3, <2>1 DEF ScreenInv, FinishIsLast
  <2>9. LastIsSeen'
    <3>1. CASE screen.call = calls /\ NoFrameAfter(0)
      BY <1>3, <1>7, <3>1 DEF m, NoFrameAfter
    <3>2. ASSUME NEW k \in DOMAIN wire, IsFrame(wire[k]), wire[k].call = calls, NoFrameAfter(k)
          PROVE  LastIsSeen'
      <4>1. CASE k = 1
        <5>1. screen'.call = calls' /\ NoFrameAfter(0)'
          BY <1>1, <1>2, <1>3, <2>3, <3>2, <4>1 DEF m, NoFrameAfter
        <5>2. QED
          BY <5>1 DEF LastIsSeen
      <4>2. CASE k # 1
        <5>1. k - 1 \in DOMAIN wire' /\ wire'[k - 1] = wire[k]
          BY <1>2, <1>3, <3>2, <4>2
        <5>2. NoFrameAfter(k - 1)'
          BY <1>2, <1>3, <3>2 DEF NoFrameAfter
        <5>3. QED
          BY <1>1, <3>2, <5>1, <5>2 DEF LastIsSeen
      <4>3. QED
        BY <4>1, <4>2
    <3>3. QED
      BY <1>1, <1>3, <2>1, <3>1, <3>2 DEF ScreenInv, LastIsSeen
  <2>10. QED
    BY <1>5, <2>5, <2>6, <2>7, <2>8, <2>9 DEF ScreenInv
<1>8. CASE ~IsFrame(m)
  <2>1. screen' = screen /\ shown' = shown
    BY <1>4, <1>8 DEF Handle, ShowHeader, ShowFrame, ShowFinish, IsFrame, viewerVars
  <2>2. ScreenTyped'
    BY <1>3, <1>5, <2>1 DEF ScreenInv, ScreenTyped
  <2>3. AllOfOneFrame'
    BY <1>1, <1>3, <2>1 DEF ScreenInv, AllOfOneFrame
  <2>4. NumbersIncrease'
    BY <1>3, <2>1 DEF ScreenInv, NumbersIncrease
  <2>5. CASE IsFinish(m)
    <3>1. /\ Len(wire) = 1 /\ phase \in {"finished", "exited"}
          /\ snapshot' = [map |-> m.map, objects |-> screen.objects]
      BY <1>3, <1>4, <2>5
         DEF ScreenInv, FinishIsLast, Handle, ShowHeader, ShowFrame, ShowFinish, IsFinish
    <3>2. wire' = <<>>
      BY <1>3, <3>1, EmptySeq
    <3>3. FinishIsLast'
      BY <1>1, <2>1, <3>1, <3>2 DEF FinishIsLast
    <3>4. LastIsSeen'
      BY <1>1, <1>2, <1>3, <2>1, <2>5, <3>1, <3>2 DEF ScreenInv, LastIsSeen, NoFrameAfter
    <3>5. QED
      BY <1>5, <2>2, <2>3, <2>4, <3>3, <3>4 DEF ScreenInv
  <2>6. CASE ~IsFinish(m)
    <3>1. snapshot' = snapshot /\ snapshot = None
      BY <1>1, <1>4, <1>8, <2>6
         DEF ScreenInv, FinishIsLast, Handle, ShowHeader, ShowFrame, ShowFinish, IsFinish,
             IsFrame, viewerVars
    <3>2. FinishIsLast'
      BY <1>1, <1>2, <1>3, <3>1 DEF ScreenInv, FinishIsLast
    <3>3. LastIsSeen'
      <4>1. CASE screen.call = calls /\ NoFrameAfter(0)
        BY <1>1, <1>2, <1>3, <2>1, <4>1 DEF LastIsSeen, NoFrameAfter
      <4>2. ASSUME NEW k \in DOMAIN wire, IsFrame(wire[k]), wire[k].call = calls, NoFrameAfter(k)
            PROVE  LastIsSeen'
        <5>1. k - 1 \in DOMAIN wire' /\ wire'[k - 1] = wire[k]
          BY <1>2, <1>3, <1>8, <4>2
        <5>2. NoFrameAfter(k - 1)'
          BY <1>2, <1>3, <4>2 DEF NoFrameAfter
        <5>3. QED
          BY <1>1, <4>2, <5>1, <5>2 DEF LastIsSeen
      <4>3. QED
        BY <1>1, <1>3, <3>1, <4>1, <4>2 DEF ScreenInv, LastIsSeen
    <3>4. QED
      BY <1>5, <2>2, <2>3, <2>4, <3>2, <3>3 DEF ScreenInv
  <2>7. QED
    BY <2>5, <2>6
<1>9. QED
  BY <1>7, <1>8

\* However slow the viewer, and whatever was thrown, dropped or cut off: what it shows
\* is of one frame, the newest it was sent, and the last objects stay up.
THEOREM ScreenHolds == Spec => []OneFrameOnScreen
<1>1. ScreenInv /\ [Next]_vars => ScreenInv'
  BY StepKinds, ScreenFrameStep, ScreenOtherSteps, ScreenHandle
<1>2. ASSUME ScreenInv, NEW c \in 0 .. calls, NEW r, LastFold(r, folded, c)
      PROVE  r = FoldedBy(c)
  <2>1. PastCalls(folded, c) \subseteq Nat
    BY <1>2, FoldTyped DEF PastCalls, ScreenInv, ScreenTyped
  <2>2. FoldedBy(c) = IF PastCalls(folded, c) = {} THEN 0
                      ELSE CHOOSE x \in PastCalls(folded, c) : \A y \in PastCalls(folded, c) : y <= x
    BY DEF FoldedBy, PastCalls
  <2>3. QED
    BY <1>2, <2>1, <2>2 DEF LastFold
<1>3. ScreenInv => OneFrameOnScreen
  <2> SUFFICES ASSUME ScreenInv PROVE OneFrameOnScreen
    OBVIOUS
  <2>1. \A j, k \in DOMAIN shown : j < k => shown[j].idx < shown[k].idx
    BY DEF ScreenInv, NumbersIncrease
  <2>2. ASSUME NEW k \in DOMAIN shown
        PROVE  LET s == shown[k]
               IN  /\ s.seg = IF "overlay" \in on THEN s.call ELSE None
                   /\ Refreshing => s.superpoints = s.call
                   /\ Seeding => s.proposals = s.call
                   /\ Objecting => s.objects = FoldedBy(s.call)
    <3>1. OfOneFrame(shown[k], on, folded, calls, done)
      BY DEF ScreenInv, AllOfOneFrame
    <3>2. calls \in Nat
      BY DEF ScreenInv, ScreenTyped, FoldsTyped
    <3>3. shown[k].call \in 0 .. calls
      BY <3>1, <3>2 DEF OfOneFrame
    <3>4. QED
      BY <1>2, <3>1, <3>3 DEF OfOneFrame, Refreshing, Seeding, Objecting
  <2>3. ASSUME snapshot # None, calls > 0, calls \notin unsent, "objects" \in on
        PROVE  snapshot.objects = objects.made
    <3>1. wire = <<>> /\ snapshot.objects = screen.objects
      BY <2>3 DEF ScreenInv, FinishIsLast
    <3>2. screen.call = calls /\ calls \in Nat
      BY <2>3, <3>1 DEF ScreenInv, LastIsSeen, ScreenTyped, FoldsTyped
    <3>3. OfOneFrame(screen, on, folded, calls, done)
      BY <3>2, DriverAssumption DEF ScreenInv, AllOfOneFrame, Blank
    <3>4. LastFold(screen.objects, folded, calls) /\ LastFold(objects.made, folded, calls)
      BY <2>3, <3>2, <3>3 DEF OfOneFrame, ScreenInv, StoresAgree
    <3>5. QED
      BY <1>2, <3>1, <3>2, <3>4
  <2>4. QED
    BY <2>1, <2>2, <2>3 DEF OneFrameOnScreen
<1>4. QED
  BY <1>1, <1>3, ScreenInit, PTL DEF Spec
-----------------------------------------------------------------------------
(* What the robot's store holds *)

PlacesKept ==
  /\ alive \subseteq DOMAIN at /\ DOMAIN at \subseteq Points
  /\ \A p \in DOMAIN at : at[p] \in Places

ListTyped == \A id \in DOMAIN list : id \in Ids /\ list[id] \in Listable[id]

SightsTyped == \A id \in DOMAIN looks : \A sight \in looks[id].sights :
                 \A p \in DOMAIN sight : sight[p] \in Places

\* What a signature tells of the look.
LookOf(sig) == <<sig.class, sig.level, sig.size, sig.sampled[0], sig.last>>

\* A polygon is that of one of the sights, all but strays of it.
DrawnFrom(obj, class, sights) ==
  \E sight \in sights : \E kept \in Cleaned(sight) \ {{}} :
    obj = BuildRoomObject(class, sight, kept)

\* What is cached looks like what the history knows, and was built since it does.
CacheRight ==
  \A id \in DOMAIN cache :
    /\ id \in DOMAIN looks /\ LookOf(cache[id].sig) = looks[id].look
    /\ DrawnFrom(cache[id].obj, cache[id].sig.class, looks[id].sights)

\* The delta knows what the store holds.
StoreKnown ==
  DOMAIN seen = DOMAIN store /\ \A id \in DOMAIN seen : seen[id] = Fingerprint(store[id])

StoreIsCurrent ==
  /\ \A id \in DOMAIN list : ToSet(list[id].points) \intersect alive # {} => id \in DOMAIN returned
  /\ \A id \in DOMAIN returned :
       /\ id \in DOMAIN list /\ id \in DOMAIN store /\ id \in DOMAIN cache
       /\ store[id].label = list[id].class /\ store[id].text = text[id]
       /\ store[id].polygon = cache[id].obj.polygon

StoreInv ==
  /\ PlacesKept /\ ListTyped /\ SightsTyped /\ CacheRight /\ StoreKnown
  /\ outcome = "returned" => StoreIsCurrent

LEMMA NonEmptySeq ==
  ASSUME NEW S, NEW s \in Seq(S), s # <<>>
  PROVE  Len(s) \in Nat \ {0}
BY EmptySeq, LenProperties

\* Equal signatures, equal looks.
LEMMA SignatureTells ==
  ASSUME NEW id \in Ids, NEW o \in Listable[id]
  PROVE  Signature(o).class = o.class /\ LookOf(Signature(o)) = Look(o)
<1> DEFINE n == Len(o.points)
           step == n \div SigSamples + 1
           sampled == [i \in 0 .. (n - 1) \div step |-> o.points[i * step + 1]]
<1>1. n \in Nat \ {0} /\ SigSamples \in Nat \ {0}
  BY NonEmptySeq, EgressAssumption
<1>2. step \in Nat \ {0} /\ 0 \in 0 .. (n - 1) \div step
  <2> HIDE DEF n
  <2>1. \A a \in Nat, b \in Nat \ {0} : a \div b \in Nat
    OBVIOUS
  <2>2. step \in Nat \ {0}
    BY <1>1, <2>1
  <2> HIDE DEF step
  <2>3. n - 1 \in Nat
    BY <1>1
  <2>4. (n - 1) \div step \in Nat
    BY <2>1, <2>2, <2>3
  <2>5. QED
    BY <2>2, <2>4
<1>3. sampled[0] = o.points[1]
  <2> HIDE DEF n
  <2>1. sampled[0] = o.points[0 * step + 1]
    BY <1>2
  <2>2. 0 * step + 1 = 1
    BY <1>2
  <2>3. QED
    BY <2>1, <2>2
<1>4. Signature(o) = [class |-> o.class, level |-> o.level, size |-> n,
                      sampled |-> sampled, last |-> Last(o.points)]
  BY DEF Signature
<1> HIDE DEF sampled, n
<1>5. QED
  BY <1>3, <1>4 DEF LookOf, Look, n

\* The outlier pass leaves something.
LEMMA SomeStay ==
  ASSUME NEW sight, IsFiniteSet(DOMAIN sight), DOMAIN sight # {}, NEW kept \in Cleaned(sight)
  PROVE  kept # {}
<1> DEFINE members == DOMAIN sight
<1>1. IsFiniteSet(members) /\ SorK \in Nat
  BY EgressAssumption
<1>2. Cardinality(members) \in Nat /\ Cardinality({}) = 0
  BY <1>1, FS_CardinalityType, FS_EmptySet
<1>3. CASE Cardinality(members) <= SorK + 1
  BY <1>3 DEF Cleaned
<1>4. CASE ~(Cardinality(members) <= SorK + 1)
  <2>1. 2 * Cardinality(kept) >= Cardinality(members)
    BY <1>4 DEF Cleaned
  <2>2. Cardinality(members) > 0
    BY <1>1, <1>2, <1>4
  <2>3. QED
    BY <1>2, <2>1, <2>2
<1>5. QED
  BY <1>3, <1>4

\* What is left are members, and they are somewhere.
LEMMA KeptSomewhere ==
  ASSUME NEW sight, \A p \in DOMAIN sight : sight[p] \in Places,
         NEW kept \in Cleaned(sight) \ {{}}
  PROVE  Overhead(sight, kept) \in (SUBSET Places) \ {{}}
<1>1. kept \subseteq DOMAIN sight /\ kept # {}
  BY DEF Cleaned
<1>2. QED
  BY <1>1 DEF Overhead

\* A frame leaves the map and the list well-formed, wherever it ended.
LEMMA EffectsKeep ==
  ASSUME PlacesKept, ListTyped, NEW end, FrameEffects(end)
  PROVE  PlacesKept' /\ ListTyped'
<1>1. PlacesKept'
  <2>1. CASE UNCHANGED <<at, alive>>
    BY <2>1 DEF PlacesKept
  <2>2. ASSUME NEW f \in Frames,
               at' = [p \in DOMAIN f.at \union DOMAIN at |->
                        IF p \in DOMAIN f.at THEN f.at[p] ELSE at[p]],
               alive' = (alive \union DOMAIN f.at) \ f.killed
        PROVE  PlacesKept'
    <3>1. /\ DOMAIN at' = DOMAIN f.at \union DOMAIN at
          /\ \A p \in DOMAIN at' : at'[p] = IF p \in DOMAIN f.at THEN f.at[p] ELSE at[p]
      BY <2>2
    <3>2. DOMAIN f.at \subseteq Points /\ \A p \in DOMAIN f.at : f.at[p] \in Places
      BY EgressAssumption
    <3>3. QED
      BY <2>2, <3>1, <3>2 DEF PlacesKept
  <2>3. QED
    BY <2>1, <2>2 DEF FrameEffects
<1>2. ListTyped'
  <2>1. CASE list' = list
    BY <2>1 DEF ListTyped
  <2>2. CASE list' \in Lists
    BY <2>2 DEF Lists, ListTyped
  <2>3. QED
    BY <2>1, <2>2 DEF FrameEffects
<1>3. QED
  BY <1>1, <1>2

LEMMA RoomObjectIs ==
  ASSUME NEW label, NEW sight, NEW kept
  PROVE  \E blank : BuildRoomObject(label, sight, kept) =
           [label |-> label, polygon |-> ConvexHull(Overhead(sight, kept)), text |-> blank]
BY Zenon DEF BuildRoomObject

\* What Remember leaves: the sight of this call, and those before it if nothing changed.
LEMMA RememberKeeps ==
  ASSUME SightsTyped, PlacesKept', Remember
  PROVE  /\ SightsTyped' /\ DOMAIN looks' = DOMAIN list'
         /\ \A id \in DOMAIN list' :
              /\ looks'[id].look = Look(list'[id]) /\ Sight(list'[id]) \in looks'[id].sights
              /\ id \in DOMAIN looks /\ looks[id].look = Look(list'[id]) =>
                   looks[id].sights \subseteq looks'[id].sights
<1> DEFINE SightsBefore(id) == IF id \in DOMAIN looks /\ looks[id].look = Look(list'[id])
                                 THEN looks[id].sights ELSE {}
<1>1. DOMAIN looks' = DOMAIN list'
  BY DEF Remember
<1>2. ASSUME NEW id \in DOMAIN list'
      PROVE  looks'[id] = [look   |-> Look(list'[id]),
                           sights |-> {Sight(list'[id])} \union SightsBefore(id)]
  BY DEF Remember
<1> HIDE DEF SightsBefore
<1>3. ASSUME NEW id \in DOMAIN list'
      PROVE  /\ looks'[id].look = Look(list'[id])
             /\ looks'[id].sights = {Sight(list'[id])} \union SightsBefore(id)
  <2>1. PICK look, sights : look = Look(list'[id]) /\ sights = {Sight(list'[id])} \union SightsBefore(id)
    OBVIOUS
  <2>2. looks'[id] = [look |-> look, sights |-> sights]
    BY <1>2, <2>1
  <2>3. QED
    BY <2>1, <2>2
<1>4. \A o : \A p \in DOMAIN Sight(o) : Sight(o)[p] \in Places
  BY DEF PlacesKept, Sight
<1>5. ASSUME NEW id \in DOMAIN list', NEW sight \in SightsBefore(id), NEW p \in DOMAIN sight
      PROVE  sight[p] \in Places
  BY DEF SightsTyped, SightsBefore
<1>6. SightsTyped'
  BY <1>1, <1>3, <1>4, <1>5 DEF SightsTyped
<1>7. QED
  BY <1>1, <1>3, <1>6 DEF SightsBefore

\* Whether it was found in the cache or built anew, what is cached is right.
LEMMA EntriesRight ==
  ASSUME CacheRight, SightsTyped, PlacesKept', ListTyped', Remember,
         NEW id \in Listed, NEW e \in Entries(id)
  PROVE  /\ id \in DOMAIN looks' /\ LookOf(e.sig) = looks'[id].look
         /\ e.sig.class = list'[id].class
         /\ DrawnFrom(e.obj, e.sig.class, looks'[id].sights)
<1> DEFINE o == list'[id]
           sights == looks'[id].sights
<1>1. id \in DOMAIN list' /\ id \in Ids /\ o \in Listable[id]
  BY DEF Listed, ListTyped
<1>2. Signature(o).class = o.class /\ LookOf(Signature(o)) = Look(o)
  BY <1>1, SignatureTells
<1>3. /\ id \in DOMAIN looks' /\ looks'[id].look = Look(o) /\ Sight(o) \in sights
      /\ id \in DOMAIN looks /\ looks[id].look = Look(o) => looks[id].sights \subseteq sights
  BY <1>1, RememberKeeps
<1>4. CASE Hit(id)
  <2>1. e = cache[id] /\ id \in DOMAIN cache /\ e.sig = Signature(o)
    BY <1>4 DEF Entries, Hit
  <2>2. /\ id \in DOMAIN looks /\ LookOf(e.sig) = looks[id].look
        /\ DrawnFrom(e.obj, e.sig.class, looks[id].sights)
    BY <2>1 DEF CacheRight
  <2>3. looks[id].sights \subseteq sights
    BY <1>2, <1>3, <2>1, <2>2
  <2>4. DrawnFrom(e.obj, e.sig.class, sights)
    BY <2>2, <2>3 DEF DrawnFrom
  <2>5. QED
    BY <1>2, <1>3, <2>1, <2>4
<1>5. CASE ~Hit(id)
  <2>1. PICK kept \in Cleaned(Sight(o)) :
          e = [sig |-> Signature(o), obj |-> BuildRoomObject(o.class, Sight(o), kept)]
    BY <1>5 DEF Entries
  <2>2. DOMAIN Sight(o) # {}
    BY <1>5 DEF Listed
  <2>3. IsFiniteSet(DOMAIN Sight(o))
    <3>1. DOMAIN Sight(o) \subseteq Points
      BY DEF Sight, PlacesKept
    <3>2. QED
      BY <3>1, EgressAssumption, FS_Subset
  <2>4. kept # {}
    BY <2>1, <2>2, <2>3, SomeStay
  <2>5. e.sig = Signature(o) /\ e.obj = BuildRoomObject(o.class, Sight(o), kept)
    BY <2>1
  <2>6. DrawnFrom(e.obj, o.class, sights)
    BY <1>3, <2>1, <2>4, <2>5 DEF DrawnFrom
  <2>7. QED
    BY <1>2, <1>3, <2>5, <2>6
<1>6. QED
  BY <1>4, <1>5

\* What is collected: the cache is right, and what is handed out is what it holds.
LEMMA CollectKeeps ==
  ASSUME CacheRight, SightsTyped, PlacesKept', ListTyped', Remember, Collect
  PROVE  /\ CacheRight' /\ DOMAIN cache' = Listed /\ DOMAIN returned' = Listed
         /\ \A id \in Listed : /\ returned'[id].label = list'[id].class
                               /\ returned'[id].text = text'[id]
                               /\ returned'[id].polygon = cache'[id].obj.polygon
<1>1. PICK entry \in Built :
        /\ cache' = entry
        /\ returned' = [id \in Listed |-> [entry[id].obj EXCEPT !.text = text'[id]]]
  BY DEF Collect
<1>2. DOMAIN entry = Listed /\ \A id \in Listed : entry[id] \in Entries(id)
  <2>1. PICK entries \in {[id \in Listed |-> Entries(id)]} :
          entry \in {f \in [Listed -> UNION Range(entries)] : \A id \in Listed : f[id] \in entries[id]}
    BY Zenon DEF Built
  <2>2. entries = [id \in Listed |-> Entries(id)]
    BY <2>1
  <2>3. \A id \in Listed : entries[id] = Entries(id)
    BY <2>2
  <2>4. DOMAIN entry = Listed /\ \A id \in Listed : entry[id] \in entries[id]
    BY <2>1
  <2>5. QED
    BY <2>3, <2>4
<1>3. ASSUME NEW id \in Listed
      PROVE  /\ id \in DOMAIN looks' /\ LookOf(cache'[id].sig) = looks'[id].look
             /\ cache'[id].sig.class = list'[id].class
             /\ DrawnFrom(cache'[id].obj, cache'[id].sig.class, looks'[id].sights)
  <2>1. PICK e \in Entries(id) : e = cache'[id]
    BY <1>1, <1>2
  <2>2. QED
    BY <2>1, EntriesRight
<1>4. CacheRight'
  BY <1>1, <1>2, <1>3 DEF CacheRight
<1>5. ASSUME NEW id \in Listed
      PROVE  /\ returned'[id].label = list'[id].class
             /\ returned'[id].text = text'[id]
             /\ returned'[id].polygon = cache'[id].obj.polygon
  <2>1. PICK e : e = cache'[id]
    OBVIOUS
  <2>2. returned'[id] = [e.obj EXCEPT !.text = text'[id]]
    BY <1>1, <2>1
  <2>3. e.sig.class = list'[id].class /\ DrawnFrom(e.obj, e.sig.class, looks'[id].sights)
    BY <1>3, <2>1
  <2>4. PICK sight, kept : e.obj = BuildRoomObject(e.sig.class, sight, kept)
    BY <2>3 DEF DrawnFrom
  <2>5. PICK hull, blank : e.obj = [label |-> e.sig.class, polygon |-> hull, text |-> blank]
    <3>1. PICK blank : BuildRoomObject(e.sig.class, sight, kept) =
            [label |-> e.sig.class, polygon |-> ConvexHull(Overhead(sight, kept)), text |-> blank]
      BY RoomObjectIs
    <3>2. QED
      BY <2>4, <3>1
  <2>6. returned'[id] = [label |-> e.sig.class, polygon |-> hull, text |-> text'[id]]
    BY <2>2, <2>5
  <2>7. QED
    BY <2>1, <2>3, <2>5, <2>6
<1>6. QED
  BY <1>1, <1>2, <1>4, <1>5

\* What is published leaves the store as it was handed out.
LEMMA PublishKeeps ==
  ASSUME StoreKnown, Publish
  PROVE  /\ StoreKnown'
         /\ \A id \in DOMAIN returned' : /\ id \in DOMAIN store'
                                         /\ Fingerprint(store'[id]) = Fingerprint(returned'[id])
<1> DEFINE changed == ChangedSince(seen, returned')
<1>1. /\ seen' = [id \in changed \union DOMAIN seen |->
                    IF id \in changed THEN Fingerprint(returned'[id]) ELSE seen[id]]
      /\ store' = [id \in changed \union DOMAIN store |->
                    IF id \in changed THEN returned'[id] ELSE store[id]]
      /\ changed = {id \in DOMAIN returned' : id \notin DOMAIN seen \/ seen[id] # Fingerprint(returned'[id])}
  BY DEF Publish, ChangedSince
<1> HIDE DEF changed
<1>2. DOMAIN seen = DOMAIN store /\ \A id \in DOMAIN seen : seen[id] = Fingerprint(store[id])
  BY DEF StoreKnown
<1>3. DOMAIN seen' = DOMAIN store' /\ \A id \in DOMAIN seen' : seen'[id] = Fingerprint(store'[id])
  BY <1>1, <1>2
<1>4. ASSUME NEW id \in DOMAIN returned'
      PROVE  id \in DOMAIN store' /\ Fingerprint(store'[id]) = Fingerprint(returned'[id])
  BY <1>1, <1>2, <1>4
<1>5. QED
  BY <1>3, <1>4 DEF StoreKnown

LEMMA FingerprintTells ==
  ASSUME NEW a, NEW b, Fingerprint(a) = Fingerprint(b)
  PROVE  a.label = b.label /\ a.text = b.text /\ a.polygon = b.polygon
BY DEF Fingerprint

LEMMA StoreRunOnInput == StoreInv /\ RunOnInput => StoreInv'
<1> SUFFICES ASSUME StoreInv, RunOnInput PROVE StoreInv'
  OBVIOUS
<1>1. FrameEffects("return") /\ Collect /\ Remember /\ Publish
  BY DEF RunOnInput
<1>2. PlacesKept' /\ ListTyped'
  BY <1>1, EffectsKeep DEF StoreInv
<1>3. SightsTyped'
  BY <1>1, <1>2, RememberKeeps DEF StoreInv
<1>4. /\ CacheRight' /\ DOMAIN cache' = Listed /\ DOMAIN returned' = Listed
      /\ \A id \in Listed : /\ returned'[id].label = list'[id].class
                            /\ returned'[id].text = text'[id]
                            /\ returned'[id].polygon = cache'[id].obj.polygon
  BY <1>1, <1>2, CollectKeeps DEF StoreInv
<1>5. /\ StoreKnown'
      /\ \A id \in Listed : id \in DOMAIN store' /\ Fingerprint(store'[id]) = Fingerprint(returned'[id])
  <2>1. StoreKnown
    BY DEF StoreInv
  <2>2. QED
    BY <1>1, <1>4, <2>1, PublishKeeps
<1>6. StoreIsCurrent'
  <2>1. ASSUME NEW id \in DOMAIN list', ToSet(list'[id].points) \intersect alive' # {}
        PROVE  id \in Listed
    <3>1. DOMAIN Sight(list'[id]) = ToSet(list'[id].points) \intersect alive'
      BY DEF Sight
    <3>2. QED
      BY <2>1, <3>1 DEF Listed
  <2>2. \A id \in Listed : /\ id \in DOMAIN store' /\ store'[id].label = list'[id].class
                           /\ store'[id].text = text'[id]
                           /\ store'[id].polygon = cache'[id].obj.polygon
    BY <1>4, <1>5, FingerprintTells
  <2>3. \A id \in Listed : id \in DOMAIN list'
    BY DEF Listed
  <2>4. QED
    BY <1>4, <2>1, <2>2, <2>3 DEF StoreIsCurrent
<1>7. QED
  BY <1>2, <1>3, <1>4, <1>5, <1>6 DEF StoreInv

\* A call that throws collects nothing: the cache and the store stay behind what the
\* frame did.
LEMMA StoreThrows == StoreInv /\ RunOnInputThrows => StoreInv'
<1> SUFFICES ASSUME StoreInv, RunOnInputThrows PROVE StoreInv'
  OBVIOUS
<1>1. PICK end \in Ends \ {"return"} : FrameEffects(end)
  BY DEF RunOnInputThrows
<1>2. UNCHANGED <<text, cache, looks, seen, store>> /\ outcome' = "threw"
  BY DEF RunOnInputThrows
<1>3. PlacesKept' /\ ListTyped'
  BY <1>1, EffectsKeep DEF StoreInv
<1>4. SightsTyped' /\ CacheRight' /\ StoreKnown'
  BY <1>2 DEF StoreInv, SightsTyped, CacheRight, StoreKnown
<1>5. QED
  BY <1>2, <1>3, <1>4 DEF StoreInv

\* Nothing else touches the map, the list, the cache, the delta or the store.
LEMMA StoreUntouched ==
  ASSUME StoreInv, UNCHANGED <<at, alive, list, text, cache, looks, seen, store>>,
         UNCHANGED <<returned, outcome>> \/ outcome' \in {"empty", "threw"}
  PROVE  StoreInv'
<1>1. PlacesKept' /\ ListTyped' /\ SightsTyped' /\ CacheRight' /\ StoreKnown'
  BY DEF StoreInv, PlacesKept, ListTyped, SightsTyped, CacheRight, StoreKnown
<1>2. outcome' = "returned" => StoreIsCurrent'
  BY DEF StoreInv, StoreIsCurrent
<1>3. QED
  BY <1>1, <1>2 DEF StoreInv

LEMMA StoreStep == StoreInv /\ [Next]_vars => StoreInv'
<1> SUFFICES ASSUME StoreInv, [Next]_vars PROVE StoreInv'
  OBVIOUS
<1>1. CASE Replay
  BY <1>1, StoreUntouched DEF Replay, egressVars
<1>2. CASE Runner
  <2>1. CASE Construct
    BY <2>1, StoreUntouched DEF Construct, egressVars
  <2>2. CASE RunOnInput
    BY <2>2, StoreRunOnInput
  <2>3. CASE RunOnInputThrows
    BY <2>3, StoreThrows
  <2>4. CASE RunOnNothing
    BY <2>4, StoreUntouched DEF RunOnNothing
  <2>5. CASE Destroy
    BY <2>5, StoreUntouched DEF Destroy, egressVars
  <2>6. QED
    BY <1>2, <2>1, <2>2, <2>3, <2>4, <2>5 DEF Runner, RunnerNext
<1>3. CASE View
  BY <1>3, StoreUntouched DEF View, egressVars
<1>4. CASE Leave
  BY <1>4, StoreUntouched DEF Leave, egressVars
<1>5. CASE UNCHANGED vars
  BY <1>5, StoreUntouched DEF vars, egressVars
<1>6. QED
  BY <1>1, <1>2, <1>3, <1>4, <1>5 DEF Next

\* Whatever frames do to the map and to the list, and whatever calls throw in between
\* and wherever: after a call that returned every listed object with a live member was
\* handed out, and the robot's store has each with its class, its text and a polygon
\* that was right at some call since when it looks the same.  What encloses the points
\* is convexHull2D, which is taken to be right here.
THEOREM StoreHolds == Spec => [](HullsAreRight => StoreMirrorsObjects)
<1>1. Init => StoreInv
  BY DEF Init, EgressInit, Nothing, StoreInv, PlacesKept, ListTyped, SightsTyped, CacheRight,
         StoreKnown
<1>2. StoreInv => (HullsAreRight => StoreMirrorsObjects)
  <2> SUFFICES ASSUME StoreInv, HullsAreRight, outcome = "returned"
               PROVE  StoreMirrorsObjects
    BY DEF StoreMirrorsObjects
  <2>1. StoreIsCurrent
    BY DEF StoreInv
  <2>2. ASSUME NEW id \in DOMAIN returned
        PROVE  \E sight \in looks[id].sights : \E kept \in Cleaned(sight) \ {{}} :
                 Encloses(store[id].polygon, Overhead(sight, kept))
    <3>1. PICK e : e = cache[id]
      OBVIOUS
    <3>2. /\ id \in DOMAIN looks /\ DrawnFrom(e.obj, e.sig.class, looks[id].sights)
          /\ store[id].polygon = e.obj.polygon
      BY <2>1, <3>1 DEF StoreInv, StoreIsCurrent, CacheRight
    <3>3. PICK sight \in looks[id].sights : \E kept \in Cleaned(sight) \ {{}} :
            e.obj = BuildRoomObject(e.sig.class, sight, kept)
      BY <3>2 DEF DrawnFrom
    <3>4. PICK kept \in Cleaned(sight) \ {{}} :
            e.obj = BuildRoomObject(e.sig.class, sight, kept)
      BY <3>3
    <3>5. e.obj.polygon = ConvexHull(Overhead(sight, kept))
      BY <3>4, RoomObjectIs
    <3>6. Overhead(sight, kept) \in (SUBSET Places) \ {{}}
      <4>1. \A p \in DOMAIN sight : sight[p] \in Places
        BY <3>2, <3>3 DEF StoreInv, SightsTyped
      <4>2. QED
        BY <4>1, KeptSomewhere
    <3>7. Encloses(store[id].polygon, Overhead(sight, kept))
      BY <3>2, <3>5, <3>6 DEF HullsAreRight
    <3>8. QED
      BY <3>7
  <2>3. QED
    BY <2>1, <2>2 DEF StoreMirrorsObjects, StoreIsCurrent
<1>3. QED
  BY <1>1, <1>2, StoreStep, PTL DEF Spec
-----------------------------------------------------------------------------
(* What a replay delivers: the log and its window *)

\* What is proved of the synchroniser, for the one a replay feeds.
Stream == INSTANCE DogStreamProofs

LEMMA StreamActions ==
  /\ Sync!Init <=> Stream!Init
  /\ \A t : (Sync!PushScan(t) <=> Stream!PushScan(t)) /\ (Sync!PushImage(t) <=> Stream!PushImage(t))
  /\ (Sync!Flush <=> Stream!Flush) /\ (Sync!Emit <=> Stream!Emit)
  /\ Sync!DrainReturn <=> Stream!DrainReturn
  /\ (Sync!DropTooOld <=> Stream!DropTooOld) /\ (Sync!DropAtFlush <=> Stream!DropAtFlush)
  /\ Sync!MaxPending = Stream!MaxPending
<1>1. \A t : Sync!PushScan(t) <=> Stream!PushScan(t)
  BY DEF Sync!PushScan, Sync!PushPose, Sync!PushRing, Sync!Last, Sync!ScanRing, Sync!MaxSamples,
         Stream!PushScan, Stream!PushPose, Stream!PushRing, Stream!Last, Stream!ScanRing,
         Stream!MaxSamples
<1>2. \A t : Sync!PushImage(t) <=> Stream!PushImage(t)
  BY DEF Sync!PushImage, Sync!Enqueue, Sync!PushRing, Sync!Last, Sync!MaxPending,
         Stream!PushImage, Stream!Enqueue, Stream!PushRing, Stream!Last, Stream!MaxPending
<1>3. Sync!Emit <=> Stream!Emit
  BY DEF Sync!Emit, Sync!Bracketed, Sync!NeedsNewer, Sync!TooOld, Sync!Last, Sync!SyncedFrame,
         Sync!Lower, Sync!Upper, Sync!NearestScan, Sync!Distance,
         Stream!Emit, Stream!Bracketed, Stream!NeedsNewer, Stream!TooOld, Stream!Last,
         Stream!SyncedFrame, Stream!Lower, Stream!Upper, Stream!NearestScan, Stream!Distance
<1>4. /\ Sync!DrainReturn <=> Stream!DrainReturn
      /\ (Sync!DropTooOld <=> Stream!DropTooOld) /\ (Sync!DropAtFlush <=> Stream!DropAtFlush)
  BY DEF Sync!DrainReturn, Sync!DropTooOld, Sync!DropAtFlush, Sync!DropHead, Sync!NeedsNewer,
         Sync!TooOld, Sync!Last,
         Stream!DrainReturn, Stream!DropTooOld, Stream!DropAtFlush, Stream!DropHead,
         Stream!NeedsNewer, Stream!TooOld, Stream!Last
<1>5. (Sync!Init <=> Stream!Init) /\ (Sync!Flush <=> Stream!Flush)
      /\ Sync!MaxPending = Stream!MaxPending
  BY DEF Sync!Init, Stream!Init, Sync!Flush, Stream!Flush, Sync!MaxPending, Stream!MaxPending
<1>6. QED
  BY <1>1, <1>2, <1>3, <1>4, <1>5

\* A log in order of capture, and the numbers of the images in the window.
LEMMA LogFacts ==
  ASSUME log \in Logs, window \in Windows
  PROVE  /\ AllScans = 1 .. Len(log.scans) /\ Len(log.scans) \in Nat
         /\ \A j \in AllScans : log.scans[j] \in Times /\ log.scans[j] \in Int
         /\ \A i, j \in AllScans : i <= j => log.scans[i] <= log.scans[j]
         /\ \A k \in Window : /\ k \in Nat /\ Start < k /\ k <= End
                              /\ TimeOf(k) \in Times /\ TimeOf(k) \in Int /\ Indexed[k] = TimeOf(k)
         /\ \A i, k \in Window : i < k => TimeOf(i) < TimeOf(k)
         /\ Start \in Nat /\ End \in Nat
         /\ \A k \in Nat : Start < k /\ k <= End => k \in Window
         /\ Selected \subseteq Window /\ IsFiniteSet(Selected)
<1>1. /\ log.scans \in Seq(Times) /\ log.images \in Seq(Times) /\ Times \subseteq Int
      /\ \A i, j \in DOMAIN log.scans : i < j => log.scans[i] <= log.scans[j]
      /\ \A i, j \in DOMAIN log.images : i < j => log.images[i] < log.images[j]
      /\ window.start \in Int /\ window.count \in Int
  BY ReplayAssumption DEF Sync!DogStreamAssumption
<1> DEFINE N == Len(log.images)
           n == Len(Indexed)
<1>2. /\ N \in Nat /\ DOMAIN log.images = 1 .. N /\ \A k \in 1 .. N : log.images[k] \in Times
      /\ Len(log.scans) \in Nat /\ DOMAIN log.scans = 1 .. Len(log.scans)
      /\ \A j \in 1 .. Len(log.scans) : log.scans[j] \in Times
  BY <1>1, SeqElements
<1>3. n \in Nat /\ n <= N /\ DOMAIN Indexed = 1 .. n /\ \A k \in 1 .. n : Indexed[k] = log.images[k]
  <2>1. CASE log.cut # "header"
    BY <1>2, <2>1 DEF Indexed
  <2>2. CASE log.cut = "header"
    <3>1. Indexed = SubSeq(log.images, 1, N - 1)
      BY <2>2 DEF Indexed, Front
    <3> DEFINE s == log.images
    <3>2. CASE N = 0
      <4>1. SubSeq(s, 1, N - 1) = <<>>
        BY <1>1, <1>2, <3>2
      <4>2. QED
        BY <1>2, <3>1, <3>2, <4>1
    <3>3. CASE N # 0
      <4>1. N - 1 \in Nat /\ 1 \in 1 .. N /\ \A k \in 1 .. N - 1 : k \in 1 .. N
        BY <1>2, <3>3
      <4>2. Len(Indexed) = N - 1 /\ \A k \in 1 .. N - 1 : Indexed[k] = s[k]
        BY <1>1, <1>2, <3>1, <3>3, <4>1, SubSeqProperties
      <4>3. DOMAIN Indexed = 1 .. N - 1
        BY <1>1, <1>2, <3>1, <4>1, <4>2, SubSeqProperties, LenProperties
      <4>4. QED
        BY <1>2, <4>1, <4>2, <4>3
    <3>4. QED
      BY <3>2, <3>3
  <2>3. QED
    BY <2>1, <2>2
<1> HIDE DEF N, n
<1>4. Start \in Nat /\ End \in Nat /\ End <= n
  <2>1. Start \in Nat
    BY <1>1 DEF Start
  <2>2. QED
    BY <1>1, <1>3, <2>1 DEF End, n
<1>5. Window = {k \in 1 .. n : Start < k /\ k <= End}
  BY <1>3 DEF Window
<1>6. ASSUME NEW k \in Window
      PROVE  /\ k \in 1 .. N /\ k \in Nat /\ Start < k /\ k <= End
             /\ TimeOf(k) \in Times /\ TimeOf(k) \in Int /\ Indexed[k] = TimeOf(k)
  <2>1. k \in 1 .. n /\ Start < k /\ k <= End
    BY <1>5
  <2>2. k \in 1 .. N /\ k \in Nat
    BY <1>2, <1>3, <2>1
  <2>3. log.images[k] \in Times /\ Indexed[k] = log.images[k]
    BY <1>2, <1>3, <2>1, <2>2
  <2>4. QED
    BY <1>1, <2>1, <2>2, <2>3 DEF TimeOf
<1>7. \A i, k \in Window : i < k => TimeOf(i) < TimeOf(k)
  BY <1>1, <1>2, <1>6 DEF TimeOf
<1>8. \A k \in Nat : Start < k /\ k <= End => k \in Window
  BY <1>3, <1>4, <1>5
<1>9. Selected \subseteq Window /\ IsFiniteSet(Selected)
  <2>1. Selected \subseteq Window /\ Selected \subseteq 1 .. n
    BY <1>5 DEF Selected
  <2>2. IsFiniteSet(1 .. n)
    BY <1>3, FS_Interval
  <2>3. QED
    BY <2>1, <2>2, FS_Subset
<1>10. AllScans = 1 .. Len(log.scans) /\ \A j \in AllScans : log.scans[j] \in Times /\ log.scans[j] \in Int
  <2>1. AllScans = 1 .. Len(log.scans)
    BY <1>2 DEF AllScans
  <2>2. QED
    BY <1>1, <1>2, <2>1
<1>11. ASSUME NEW i \in AllScans, NEW j \in AllScans, i <= j
       PROVE  log.scans[i] <= log.scans[j]
  <2>1. i \in Int /\ j \in Int /\ log.scans[i] \in Int
    BY <1>2, <1>10
  <2>2. i < j => log.scans[i] <= log.scans[j]
    BY <1>1 DEF AllScans
  <2>3. i < j \/ i = j
    BY <1>11, <2>1
  <2>4. QED
    BY <2>1, <2>2, <2>3
<1>12. QED
  BY <1>2, <1>4, <1>6, <1>7, <1>8, <1>9, <1>10, <1>11

\* The guard band reaches Guard beyond every image of the window.
LEMMA BandFacts ==
  ASSUME log \in Logs, window \in Windows
  PROVE  /\ FirstScan \in 1 .. Len(log.scans) + 1
         /\ Window # {} => LoGuard \in Int /\ HiGuard \in Int
         /\ \A k \in Window : LoGuard <= TimeOf(k) - Guard /\ TimeOf(k) + Guard <= HiGuard
         /\ \A k \in Window : \A j \in Near(k) :
              FirstScan <= j /\ j \in AllScans /\ log.scans[j] <= HiGuard
<1>1. /\ AllScans = 1 .. Len(log.scans) /\ Len(log.scans) \in Nat
      /\ \A j \in AllScans : log.scans[j] \in Int
      /\ \A i, j \in AllScans : i <= j => log.scans[i] <= log.scans[j]
      /\ \A k \in Window : k \in Nat /\ Start < k /\ k <= End /\ TimeOf(k) \in Int
      /\ \A i, k \in Window : i < k => TimeOf(i) < TimeOf(k)
      /\ Start \in Nat /\ End \in Nat
      /\ \A k \in Nat : Start < k /\ k <= End => k \in Window
  BY LogFacts
<1>2. Guard \in Nat
  BY ReplayAssumption
<1>3. CASE Window = {}
  <2>1. FirstScan = 1
    BY <1>3 DEF FirstScan
  <2>2. QED
    BY <1>1, <1>3, <2>1
<1>4. CASE Window # {}
  <2>1. Start + 1 \in Window /\ End \in Window
    <3>1. PICK k : k \in Window
      BY <1>4
    <3>2. QED
      BY <1>1, <3>1
  <2>2. /\ LoGuard = TimeOf(Start + 1) - Guard /\ HiGuard = TimeOf(End) + Guard
        /\ LoGuard \in Int /\ HiGuard \in Int
    BY <1>1, <1>2, <2>1 DEF LoGuard, HiGuard, TimeOf
  <2>3. ASSUME NEW k \in Window
        PROVE  LoGuard <= TimeOf(k) - Guard /\ TimeOf(k) + Guard <= HiGuard
    <3>1. TimeOf(Start + 1) <= TimeOf(k) /\ TimeOf(k) <= TimeOf(End)
      <4>1. (Start + 1 < k \/ k = Start + 1) /\ (k < End \/ k = End)
        BY <1>1, <2>3
      <4>2. QED
        BY <1>1, <2>1, <2>3, <4>1
    <3>2. QED
      BY <1>1, <1>2, <2>1, <2>2, <2>3, <3>1
  <2> DEFINE Reached(j) == /\ \A i \in 1 .. j - 1 : log.scans[i] < LoGuard
                           /\ j <= Len(log.scans) => LoGuard <= log.scans[j]
             M == {j \in 1 .. Len(log.scans) + 1 : j <= Len(log.scans) => LoGuard <= log.scans[j]}
  <2>4. \E j \in 1 .. Len(log.scans) + 1 : Reached(j)
    <3>1. M \subseteq Nat /\ Len(log.scans) + 1 \in M
      BY <1>1
    <3>2. PICK j \in M : \A i \in M : j <= i
      BY <3>1, LeastElement
    <3>3. j \in 1 .. Len(log.scans) + 1 /\ (j <= Len(log.scans) => LoGuard <= log.scans[j])
      OBVIOUS
    <3>4. ASSUME NEW i \in 1 .. j - 1 PROVE log.scans[i] < LoGuard
      <4>1. i \in AllScans /\ ~(j <= i) /\ i \in 1 .. Len(log.scans) + 1
        BY <1>1, <3>3, <3>4
      <4>2. i \notin M
        BY <3>2, <4>1
      <4>3. ~(LoGuard <= log.scans[i])
        BY <4>1, <4>2
      <4>4. QED
        BY <1>1, <2>2, <4>1, <4>3
    <3>5. QED
      BY <3>3, <3>4
  <2>5. FirstScan \in 1 .. Len(log.scans) + 1 /\ Reached(FirstScan)
    <3>1. FirstScan = CHOOSE j \in 1 .. Len(log.scans) + 1 : Reached(j)
      BY <1>4 DEF FirstScan
    <3> HIDE DEF Reached
    <3>2. QED
      BY <2>4, <3>1
  <2>6. ASSUME NEW k \in Window, NEW j \in Near(k)
        PROVE  FirstScan <= j /\ j \in AllScans /\ log.scans[j] <= HiGuard
    <3>1. /\ j \in AllScans /\ TimeOf(k) - Guard <= log.scans[j]
          /\ log.scans[j] <= TimeOf(k) + Guard
      BY DEF Near
    <3>2. LoGuard <= log.scans[j] /\ log.scans[j] <= HiGuard
      <4>1. log.scans[j] \in Int
        BY <1>1, <3>1
      <4>2. TimeOf(k) \in Int
        BY <1>1
      <4>3. LoGuard <= TimeOf(k) - Guard /\ TimeOf(k) + Guard <= HiGuard
        BY <2>3
      <4>4. QED
        BY <1>2, <2>2, <3>1, <4>1, <4>2, <4>3
    <3>3. ~(j \in 1 .. FirstScan - 1)
      BY <1>1, <2>2, <2>5, <3>1, <3>2
    <3>4. QED
      BY <1>1, <2>5, <3>1, <3>2, <3>3
  <2>7. QED
    BY <2>2, <2>3, <2>5, <2>6
<1>5. QED
  BY <1>3, <1>4


\* A replay looks at one log through one window.
LEMMA SourceKept ==
  ASSUME UNCHANGED <<log, window>>
  PROVE  /\ Start' = Start /\ End' = End /\ Window' = Window /\ Selected' = Selected
         /\ Indexed' = Indexed /\ HiGuard' = HiGuard /\ FirstScan' = FirstScan
         /\ AllScans' = AllScans
         /\ \A k : TimeOf(k)' = TimeOf(k)
<1>1. Indexed' = Indexed /\ Start' = Start /\ AllScans' = AllScans
  BY DEF Indexed, Start, AllScans
<1>2. End' = End
  BY <1>1 DEF End
<1>3. Window' = Window /\ HiGuard' = HiGuard /\ LoGuard' = LoGuard
  BY <1>1, <1>2 DEF Window, HiGuard, LoGuard
<1>4. Selected' = Selected
  BY <1>1, <1>3 DEF Selected, Step
<1>5. FirstScan' = FirstScan
  BY <1>3 DEF FirstScan
<1>6. \A k : TimeOf(k)' = TimeOf(k)
  BY DEF TimeOf
<1>7. QED
  BY <1>1, <1>2, <1>3, <1>4, <1>5, <1>6

\* The cursors stay inside the log.
Cursors ==
  /\ log \in Logs /\ window \in Windows
  /\ si \in FirstScan .. Len(log.scans) + 1
  /\ ki \in Nat /\ Start < ki /\ (Window # {} => ki <= End + 1)

\* What a step of either program is to the source and the synchroniser.
SourceIdle ==
  /\ UNCHANGED <<sourceVars, syncVars>>
  /\ \/ phase' \in {phase, "error", "exited"}
     \/ phase = "starting" /\ phase' = "running"
     \/ phase = "flushing" /\ mode = "idle" /\ phase' = "finished"
     \/ program # "replay"

DrainStep ==
  /\ phase \in {"running", "flushing"} /\ phase' = phase
  /\ Sync!DrainReturn \/ Sync!DropTooOld \/ Sync!DropAtFlush
  /\ UNCHANGED sourceVars

EmitStep ==
  /\ phase \in {"running", "flushing"} /\ Sync!Emit
  /\ (throws' = throws /\ phase' = phase) \/ phase' = "error"
  /\ UNCHANGED sourceVars

LEMMA ReplayKinds ==
  ASSUME [Next]_vars
  PROVE  /\ program' = program
         /\ \/ SourceIdle
            \/ program = "replay" /\ (FeedScan \/ FeedImage \/ PassImage \/ FlushAtEnd)
            \/ program = "replay" /\ (EmitStep \/ DrainStep)
<1>1. program' = program
  BY StepKinds DEF Begin, FrameStep, OnSynced, FinishStep, Finish, ExitStep, Exit, Handle,
                   OtherStep, startVars, driverVars
<1>2. CASE Replay
  <2>1. CASE StartReplay
    BY <2>1 DEF StartReplay, Begin, StartFails, startVars, SourceIdle
  <2>2. CASE UnreadableImage
    BY <2>2 DEF UnreadableImage, Abort, SourceIdle
  <2>3. CASE Frame
    BY <1>2, <2>3 DEF Frame, EmitStep, Abort, OnSynced, Replay
  <2>4. CASE DrainOnly
    BY <1>2, <2>4 DEF DrainOnly, DrainStep, driverVars, Replay
  <2>5. CASE FinishReplay
    BY <2>5 DEF FinishReplay, Finish, SourceIdle
  <2>6. CASE FeedScan \/ FeedImage \/ PassImage \/ FlushAtEnd
    BY <1>2, <2>6 DEF FeedScan, FeedImage, PassImage, FlushAtEnd, driverVars, Replay
  <2>7. QED
    BY <1>2, <2>1, <2>2, <2>3, <2>4, <2>5, <2>6 DEF Replay, ReplayNext
<1>3. CASE Runner
  BY <1>1, <1>3 DEF Runner, SourceIdle
<1>4. CASE View
  BY <1>4 DEF View, Handle, driverVars, SourceIdle
<1>5. CASE Leave
  BY <1>5 DEF Leave, Exit, SourceIdle
<1>6. CASE UNCHANGED vars
  BY <1>6 DEF vars, driverVars, SourceIdle
<1>7. QED
  BY <1>1, <1>2, <1>3, <1>4, <1>5, <1>6 DEF Next

LEMMA CursorsStep ==
  ASSUME Cursors, [Next]_vars
  PROVE  UNCHANGED <<log, window>> /\ Cursors'
<1>1. UNCHANGED <<log, window>>
  <2>1. CASE SourceIdle \/ DrainStep \/ EmitStep
    BY <2>1 DEF SourceIdle, DrainStep, EmitStep, sourceVars
  <2>2. CASE FeedScan \/ FeedImage \/ PassImage \/ FlushAtEnd
    BY <2>2 DEF FeedScan, FeedImage, PassImage, FlushAtEnd, sourceVars
  <2>3. QED
    BY <2>1, <2>2, ReplayKinds
<1>2. /\ log \in Logs /\ window \in Windows
      /\ si \in FirstScan .. Len(log.scans) + 1
      /\ ki \in Nat /\ Start < ki /\ (Window # {} => ki <= End + 1)
  BY DEF Cursors
<1>3. /\ FirstScan' = FirstScan /\ Start' = Start /\ End' = End /\ Window' = Window
      /\ log' = log /\ window' = window
  BY <1>1, SourceKept
<1>4. /\ FirstScan \in Nat /\ Len(log.scans) \in Nat /\ Start \in Nat /\ End \in Nat
      /\ \A k \in Window : k <= End
  BY <1>2, LogFacts, BandFacts
<1>5. /\ si' \in FirstScan .. Len(log.scans) + 1
      /\ ki' \in Nat /\ Start < ki' /\ (Window # {} => ki' <= End + 1)
  <2>1. CASE SourceIdle \/ DrainStep \/ EmitStep \/ FlushAtEnd
    BY <1>2, <2>1 DEF SourceIdle, DrainStep, EmitStep, FlushAtEnd, sourceVars
  <2>2. CASE FeedScan
    BY <1>2, <1>4, <2>2 DEF FeedScan, HaveScan
  <2>3. CASE FeedImage \/ PassImage
    BY <1>2, <1>4, <2>3 DEF FeedImage, PassImage, ImageNext, HaveImage
  <2>4. QED
    BY <2>1, <2>2, <2>3, ReplayKinds
<1>6. QED
  BY <1>1, <1>2, <1>3, <1>5 DEF Cursors

LEMMA CursorsHold == Spec => []Cursors
<1>1. Init => Cursors
  <2> SUFFICES ASSUME Init PROVE Cursors
    OBVIOUS
  <2>1. log \in Logs /\ window \in Windows /\ si = FirstScan /\ ki = Start + 1
    BY DEF Init, SourceInit
  <2>2. /\ FirstScan \in 1 .. Len(log.scans) + 1 /\ Len(log.scans) \in Nat /\ Start \in Nat
        /\ \A k \in Window : k \in Nat /\ Start < k /\ k <= End
        /\ End \in Nat
    BY <2>1, LogFacts, BandFacts
  <2>3. QED
    BY <2>1, <2>2 DEF Cursors
<1>2. Cursors /\ [Next]_vars => Cursors'
  BY CursorsStep
<1>3. QED
  BY <1>1, <1>2, PTL DEF Spec

\* What a replay feeds, and how it drains, are steps of the synchroniser.
LEMMA StreamSteps == Cursors /\ [Next]_vars => [Stream!Next]_(Stream!vars)
<1> SUFFICES ASSUME Cursors, [Next]_vars PROVE [Stream!Next]_(Stream!vars)
  OBVIOUS
<1>1. CASE UNCHANGED syncVars
  BY <1>1 DEF syncVars, Stream!vars
<1>2. CASE FeedScan
  <2>1. log.scans[si] \in Times
    <3>1. si \in AllScans
      BY <1>2, LogFacts, BandFacts DEF FeedScan, HaveScan, Cursors
    <3>2. QED
      BY <3>1, LogFacts DEF Cursors
  <2>2. Stream!PushScan(log.scans[si])
    BY <1>2, StreamActions DEF FeedScan
  <2>3. QED
    BY <2>1, <2>2 DEF Stream!Next
<1>3. CASE FeedImage
  <2>1. Indexed[ki] \in Times
    BY <1>3, LogFacts DEF FeedImage, ImageNext, HaveImage, Cursors
  <2>2. Stream!PushImage(Indexed[ki])
    BY <1>3, StreamActions DEF FeedImage
  <2>3. QED
    BY <2>1, <2>2 DEF Stream!Next
<1>4. CASE FlushAtEnd
  BY <1>4, StreamActions DEF FlushAtEnd, Stream!Next
<1>5. CASE DrainStep \/ EmitStep
  BY <1>5, StreamActions DEF DrainStep, EmitStep, Stream!Next, Stream!Drain
<1>6. QED
  BY <1>1, <1>2, <1>3, <1>4, <1>5, ReplayKinds DEF SourceIdle, PassImage

\* So all that is proved of the synchroniser holds of a replay's.
StreamFacts ==
  Stream!TypeOK /\ Stream!DeliveryLedger /\ Stream!PosesComplete /\ Stream!StreamInv

LEMMA StreamFactsHold == Spec => []StreamFacts
<1>0. Stream!DogStreamAssumption
  BY ReplayAssumption DEF Sync!DogStreamAssumption, Stream!DogStreamAssumption
<1>1. Init => Stream!Init
  BY StreamActions DEF Init, SourceInit
<1>2. Spec => Stream!Spec
  BY <1>1, StreamSteps, CursorsHold, PTL DEF Spec, Stream!Spec
<1>3. Stream!Spec => []Stream!TypeOK
  BY <1>0, Stream!TypeCorrect, PTL
<1>4. Stream!Spec => []Stream!DeliveryLedger
  BY <1>0, Stream!LedgerHolds, PTL
<1>5. Stream!Spec => [](Stream!PosesComplete /\ Stream!TightBracket /\ Stream!StreamInv)
  BY <1>0, Stream!StreamsKeepStep, PTL
<1>6. QED
  BY <1>2, <1>3, <1>4, <1>5, PTL DEF StreamFacts


LEMMA StreamAssumption == Stream!DogStreamAssumption
BY ReplayAssumption DEF Sync!DogStreamAssumption, Stream!DogStreamAssumption

\* The synchroniser's invariant, in terms of its variables.
LEMMA StreamReads ==
  ASSUME StreamFacts
  PROVE  /\ scanT \in Seq(Times) /\ Len(scanT) \in Nat
         /\ \A s \in 1 .. Len(scanT) : scanT[s] \in Int
         /\ images \in Seq([t : Times, seen : Nat]) /\ Len(images) \in Nat
         /\ \A n \in 1 .. Len(images) :
              images[n].t \in Int /\ images[n].seen \in 0 .. Len(scanT)
         /\ pending \in Seq(Nat) /\ Len(pending) \in Nat /\ Len(pending) <= Len(images)
         /\ Len(pending) <= Sync!MaxPending /\ Sync!MaxPending \in Nat \ {0}
         /\ \A k \in 1 .. Len(pending) : pending[k] = (Len(images) - Len(pending)) + k
         /\ pending # <<>> =>
              /\ Len(pending) >= 1 /\ Head(pending) = pending[1]
              /\ Head(pending) \in 1 .. Len(images)
         /\ throws \in Nat
<1>1. Stream!TypeOK /\ Stream!DeliveryLedger /\ Stream!StreamInv
  BY DEF StreamFacts
<1>2. /\ scanT \in Seq(Times) /\ images \in Seq([t : Times, seen : Nat])
      /\ Len(pending) <= Sync!MaxPending /\ throws \in Nat
  BY <1>1, StreamActions, StreamAssumption DEF Stream!TypeOK, Stream!DogStreamAssumption
<1>3. /\ Len(scanT) \in Nat /\ Len(images) \in Nat
      /\ \A n \in 1 .. Len(images) : images[n].t \in Int /\ images[n].seen \in Nat
      /\ \A s \in 1 .. Len(scanT) : scanT[s] \in Int
      /\ pending # <<>> => Len(pending) >= 1 /\ Head(pending) = pending[1]
  BY <1>1, Stream!StreamSequences, StreamAssumption DEF Stream!Images, Stream!Scans
<1>4. \A n \in 1 .. Len(images) : images[n].seen <= Len(scanT)
  BY <1>1 DEF Stream!StreamInv, Stream!StreamsInOrder, Stream!Images
<1>5. /\ pending \in Seq(Nat) /\ Len(pending) <= Len(images)
      /\ \A k \in 1 .. Len(pending) : pending[k] = (Len(images) - Len(pending)) + k
  BY <1>1 DEF Stream!DeliveryLedger, Stream!Ledger, Stream!Waiting
<1>6. Sync!MaxPending \in Nat \ {0}
  BY ReplayAssumption DEF Sync!DogStreamAssumption, Sync!MaxPending
<1>7. Len(pending) \in Nat
  BY <1>5
<1>8. pending # <<>> => Head(pending) \in 1 .. Len(images)
  BY <1>3, <1>5, <1>7
<1>9. QED
  BY <1>2, <1>3, <1>4, <1>5, <1>6, <1>7, <1>8

\* The synchroniser holds the log's scans from FirstScan to the cursor, and the
\* selected images up to the cursor.
PushedScans ==
  /\ Len(scanT) = si - FirstScan
  /\ \A s \in 1 .. Len(scanT) : scanT[s] = log.scans[FirstScan + s - 1]

PushedImages ==
  /\ fed \in Seq(Nat) /\ Len(fed) = Len(images)
  /\ \A n \in 1 .. Len(images) :
       fed[n] \in Selected /\ fed[n] < ki /\ images[n].t = TimeOf(fed[n])
  /\ \A m, n \in 1 .. Len(images) : m < n => fed[m] < fed[n]
  /\ \A k \in Selected : k < ki => \E n \in 1 .. Len(images) : fed[n] = k

\* They were merged in order of capture: no scan went before an image that is older,
\* and no image before a scan that is not newer.
MergedScans ==
  \A s \in 1 .. Len(scanT) : \A k \in Window : TimeOf(k) < scanT[s] => k < ki

MergedImages ==
  \A n \in 1 .. Len(images) :
    /\ \A s \in 1 .. images[n].seen : scanT[s] <= images[n].t
    /\ \A j \in AllScans :
         FirstScan <= j /\ log.scans[j] <= images[n].t => j < FirstScan + images[n].seen

Merged == PushedScans /\ PushedImages /\ MergedScans /\ MergedImages

LEMMA MergedFeedScan ==
  ASSUME Cursors, StreamFacts, Merged, FeedScan
  PROVE  Merged'
<1> DEFINE x == log.scans[si]
<1>1. /\ scanT' = Append(scanT, x) /\ si' = si + 1
      /\ UNCHANGED <<log, window, ki, fed, images>>
  BY DEF FeedScan, Sync!PushScan
<1>2. /\ FirstScan' = FirstScan /\ AllScans' = AllScans /\ Window' = Window
      /\ Selected' = Selected /\ \A k : TimeOf(k)' = TimeOf(k)
  BY <1>1, SourceKept
<1>3. /\ si \in Nat /\ FirstScan \in Nat /\ si \in AllScans /\ x \in Times /\ x \in Int
      /\ ki \in Nat
  <2>1. /\ FirstScan \in 1 .. Len(log.scans) + 1 /\ AllScans = 1 .. Len(log.scans)
        /\ Len(log.scans) \in Nat
        /\ \A j \in AllScans : log.scans[j] \in Times /\ log.scans[j] \in Int
    BY LogFacts, BandFacts DEF Cursors
  <2>2. si \in FirstScan .. Len(log.scans) + 1 /\ si <= Len(log.scans) /\ ki \in Nat
    BY DEF Cursors, FeedScan, HaveScan
  <2>3. si \in AllScans
    BY <2>1, <2>2
  <2>4. QED
    BY <2>1, <2>2, <2>3
<1>4. /\ scanT \in Seq(Times) /\ Len(scanT) \in Nat
      /\ \A n \in 1 .. Len(images) : images[n].seen \in 0 .. Len(scanT)
  BY StreamReads
<1>5. /\ Len(scanT') = Len(scanT) + 1 /\ scanT'[Len(scanT) + 1] = x
      /\ \A s \in 1 .. Len(scanT) : scanT'[s] = scanT[s]
  <2> HIDE DEF x
  <2>1. QED
    BY <1>1, <1>3, <1>4
<1>6. PushedScans'
  <2>1. Len(scanT) = si - FirstScan
    BY DEF Merged, PushedScans
  <2>2. ASSUME NEW s \in 1 .. Len(scanT')
        PROVE  scanT'[s] = log.scans[FirstScan + s - 1]
    <3>1. CASE s \in 1 .. Len(scanT)
      BY <1>5, <3>1 DEF Merged, PushedScans
    <3>2. CASE s = Len(scanT) + 1
      <4>1. FirstScan + s - 1 = si
        BY <1>3, <1>4, <2>1, <3>2
      <4>2. QED
        BY <1>5, <3>2, <4>1
    <3>3. QED
      BY <1>4, <1>5, <3>1, <3>2
  <2>3. Len(scanT') = si' - FirstScan
    BY <1>1, <1>3, <1>4, <1>5, <2>1
  <2>4. QED
    BY <1>1, <1>2, <2>2, <2>3 DEF PushedScans
<1>7. PushedImages'
  BY <1>1, <1>2 DEF Merged, PushedImages
<1>8. MergedScans'
  <2>1. ASSUME NEW s \in 1 .. Len(scanT'), NEW k \in Window, TimeOf(k) < scanT'[s]
        PROVE  k < ki
    <3>1. CASE s \in 1 .. Len(scanT)
      BY <1>5, <2>1, <3>1 DEF Merged, MergedScans
    <3>2. CASE s = Len(scanT) + 1
      <4>1. TimeOf(k) < x
        BY <1>5, <2>1, <3>2
      <4>2. /\ k \in Nat /\ k <= End /\ TimeOf(k) \in Int /\ End \in Nat
            /\ \A i \in Window : i < k => TimeOf(i) < TimeOf(k)
        BY LogFacts DEF Cursors
      <4>3. CASE ki \in Window
        <5>1. x <= TimeOf(ki) /\ TimeOf(ki) \in Int
          BY <4>3, LogFacts DEF FeedScan, ScanFirst, HaveImage, Cursors
        <5>2. ~(TimeOf(ki) < TimeOf(k)) /\ ki # k
          BY <1>3, <4>1, <4>2, <5>1
        <5>3. QED
          BY <1>3, <4>2, <4>3, <5>2
      <4>4. CASE ki \notin Window
        <5>1. ~(ki <= End)
          BY <4>4, LogFacts DEF Cursors
        <5>2. QED
          BY <1>3, <4>2, <5>1
      <4>5. QED
        BY <4>3, <4>4
    <3>3. QED
      BY <1>4, <1>5, <3>1, <3>2
  <2>2. QED
    BY <1>1, <1>2, <2>1 DEF MergedScans
<1>9. MergedImages'
  <2>1. \A n \in 1 .. Len(images) : \A s \in 1 .. images[n].seen : scanT'[s] = scanT[s]
    BY <1>4, <1>5
  <2>2. \A n \in 1 .. Len(images) : \A s \in 1 .. images[n].seen : scanT'[s] <= images[n].t
    BY <2>1 DEF Merged, MergedImages
  <2>3. QED
    BY <1>1, <1>2, <2>2 DEF Merged, MergedImages
<1>10. QED
  BY <1>6, <1>7, <1>8, <1>9 DEF Merged

LEMMA MergedFeedImage ==
  ASSUME Cursors, StreamFacts, Merged, FeedImage
  PROVE  Merged'
<1> DEFINE t == Indexed[ki]
           r == [t |-> t, seen |-> Len(scanT)]
           n == Len(images) + 1
<1>1. /\ images' = Append(images, r) /\ fed' = Append(fed, ki) /\ ki' = ki + 1
      /\ UNCHANGED <<log, window, si, scanT>> /\ ki \in Selected
      /\ ~(HaveScan /\ ScanFirst) /\ ki \in Window
  BY DEF FeedImage, ImageNext, HaveImage, Sync!PushImage
<1>2. /\ FirstScan' = FirstScan /\ AllScans' = AllScans /\ Window' = Window
      /\ Selected' = Selected /\ \A k : TimeOf(k)' = TimeOf(k)
  BY <1>1, SourceKept
<1>3. /\ ki \in Nat /\ t = TimeOf(ki) /\ t \in Times /\ t \in Int
      /\ Selected \subseteq Window /\ \A k \in Window : k \in Nat
  BY <1>1, LogFacts DEF Cursors
<1>4. /\ images \in Seq([t : Times, seen : Nat]) /\ Len(images) \in Nat /\ Len(scanT) \in Nat
      /\ \A s \in 1 .. Len(scanT) : scanT[s] \in Int
  BY StreamReads
<1>5. fed \in Seq(Nat) /\ Len(fed) = Len(images)
  BY DEF Merged, PushedImages
<1>6. /\ Len(images') = n /\ images'[n].t = TimeOf(ki) /\ images'[n].seen = Len(scanT)
      /\ \A m \in 1 .. Len(images) : images'[m] = images[m]
      /\ n \in Nat /\ n = Len(images) + 1
  <2>1. r.t = TimeOf(ki) /\ r.seen = Len(scanT) /\ r \in [t : Times, seen : Nat]
    BY <1>3, <1>4
  <2> HIDE DEF r
  <2>2. images'[n] = r /\ Len(images') = n /\ \A m \in 1 .. Len(images) : images'[m] = images[m]
    BY <1>1, <1>4, <2>1
  <2>3. QED
    BY <1>4, <2>1, <2>2
<1>7. /\ fed' \in Seq(Nat) /\ Len(fed') = n /\ fed'[n] = ki
      /\ \A m \in 1 .. Len(images) : fed'[m] = fed[m]
  <2>1. fed' \in Seq(Nat) /\ Len(fed') = Len(fed) + 1 /\ fed'[Len(fed) + 1] = ki
        /\ \A m \in 1 .. Len(fed) : fed'[m] = fed[m]
    BY <1>1, <1>3, <1>5
  <2>2. QED
    BY <1>5, <2>1
<1> HIDE DEF n, r, t
<1>8. PushedScans'
  BY <1>1, <1>2 DEF Merged, PushedScans
<1>9. PushedImages'
  <2>1. ASSUME NEW m \in 1 .. n
        PROVE  fed'[m] \in Selected /\ fed'[m] < ki + 1 /\ images'[m].t = TimeOf(fed'[m])
    <3>1. CASE m \in 1 .. Len(images)
      <4>1. fed[m] \in Selected /\ fed[m] < ki /\ images[m].t = TimeOf(fed[m])
        BY <3>1 DEF Merged, PushedImages
      <4>2. fed[m] \in Nat
        BY <1>3, <4>1
      <4>3. QED
        BY <1>3, <1>6, <1>7, <3>1, <4>1, <4>2
    <3>2. CASE m = n
      BY <1>1, <1>3, <1>6, <1>7, <3>2
    <3>3. QED
      BY <1>4, <1>6, <3>1, <3>2
  <2>2. ASSUME NEW l \in 1 .. n, NEW m \in 1 .. n, l < m
        PROVE  fed'[l] < fed'[m]
    <3>1. l \in 1 .. Len(images)
      BY <1>4, <1>6, <2>2
    <3>2. CASE m \in 1 .. Len(images)
      BY <1>7, <2>2, <3>1, <3>2 DEF Merged, PushedImages
    <3>3. CASE m = n
      BY <1>7, <3>1, <3>3 DEF Merged, PushedImages
    <3>4. QED
      BY <1>4, <1>6, <3>2, <3>3
  <2>3. ASSUME NEW k \in Selected, k < ki + 1
        PROVE  \E m \in 1 .. n : fed'[m] = k
    <3>1. CASE k < ki
      <4>1. PICK m \in 1 .. Len(images) : fed[m] = k
        BY <3>1 DEF Merged, PushedImages
      <4>2. m \in 1 .. n /\ fed'[m] = k
        BY <1>4, <1>6, <1>7, <4>1
      <4>3. QED
        BY <4>2
    <3>2. CASE k = ki
      <4>1. n \in 1 .. n
        BY <1>4, <1>6
      <4>2. QED
        BY <1>7, <3>2, <4>1
    <3>3. k \in Nat
      BY <1>3
    <3>4. QED
      BY <1>3, <2>3, <3>1, <3>2, <3>3
  <2>4. QED
    BY <1>1, <1>2, <1>6, <1>7, <2>1, <2>2, <2>3 DEF PushedImages
<1>10. MergedScans'
  <2>1. ASSUME NEW s \in 1 .. Len(scanT), NEW k \in Window, TimeOf(k) < scanT[s]
        PROVE  k < ki + 1
    BY <1>3, <2>1 DEF Merged, MergedScans
  <2>2. QED
    BY <1>1, <1>2, <2>1 DEF MergedScans
<1>11. \A s \in 1 .. Len(scanT) : scanT[s] <= TimeOf(ki)
  <2> TAKE s \in 1 .. Len(scanT)
  <2>1. ~(TimeOf(ki) < scanT[s])
    BY <1>1, <1>3 DEF Merged, MergedScans
  <2>2. QED
    BY <1>3, <1>4, <2>1 DEF t
<1>12. ASSUME NEW j \in AllScans, FirstScan <= j, log.scans[j] <= TimeOf(ki)
       PROVE  j < FirstScan + Len(scanT)
  <2>1. /\ FirstScan \in Nat \ {0} /\ AllScans = 1 .. Len(log.scans) /\ Len(log.scans) \in Nat
        /\ \A i \in AllScans : log.scans[i] \in Int
        /\ \A i \in AllScans : i <= j => log.scans[i] <= log.scans[j]
        /\ Guard \in Nat /\ HiGuard \in Int /\ TimeOf(ki) + Guard <= HiGuard
        /\ Indexed[ki] = TimeOf(ki) /\ TimeOf(ki) \in Int
    <3>1. log \in Logs /\ window \in Windows
      BY DEF Cursors
    <3>2. /\ FirstScan \in 1 .. Len(log.scans) + 1 /\ HiGuard \in Int
          /\ TimeOf(ki) + Guard <= HiGuard
      BY <1>1, <3>1, BandFacts
    <3>3. /\ AllScans = 1 .. Len(log.scans) /\ Len(log.scans) \in Nat
          /\ \A i \in AllScans : log.scans[i] \in Int
          /\ \A i \in AllScans : i <= j => log.scans[i] <= log.scans[j]
          /\ Indexed[ki] = TimeOf(ki) /\ TimeOf(ki) \in Int
      BY <1>1, <3>1, LogFacts
    <3>4. Guard \in Nat
      BY ReplayAssumption
    <3>5. QED
      BY <3>2, <3>3, <3>4
  <2>2. si \in FirstScan .. Len(log.scans) + 1 /\ Len(scanT) = si - FirstScan
    BY DEF Cursors, Merged, PushedScans
  <2>3. SUFFICES ASSUME si <= j PROVE FALSE
    BY <2>1, <2>2
  <2>4. si \in AllScans
    BY <2>1, <2>2, <2>3
  <2>5. log.scans[si] <= TimeOf(ki) /\ log.scans[si] <= HiGuard /\ si <= Len(log.scans)
    BY <1>12, <2>1, <2>2, <2>3, <2>4
  <2>6. QED
    BY <1>1, <2>1, <2>5 DEF HaveScan, ScanFirst
<1>13. MergedImages'
  <2>1. ASSUME NEW m \in 1 .. n
        PROVE  /\ \A s \in 1 .. images'[m].seen : scanT[s] <= images'[m].t
               /\ \A j \in AllScans : FirstScan <= j /\ log.scans[j] <= images'[m].t
                                        => j < FirstScan + images'[m].seen
    <3>1. CASE m \in 1 .. Len(images)
      BY <1>6, <3>1 DEF Merged, MergedImages
    <3>2. CASE m = n
      BY <1>6, <1>11, <1>12, <3>2
    <3>3. QED
      BY <1>4, <1>6, <3>1, <3>2
  <2>2. QED
    BY <1>1, <1>2, <1>6, <2>1 DEF MergedImages
<1>14. QED
  BY <1>8, <1>9, <1>10, <1>13 DEF Merged


LEMMA MergedOtherSteps ==
  ASSUME Cursors, Merged, SourceIdle \/ EmitStep \/ DrainStep \/ FlushAtEnd \/ PassImage
  PROVE  Merged'
<1>1. /\ UNCHANGED <<log, window, si, fed, scanT, images>>
      /\ ki' = ki \/ (ki' = ki + 1 /\ ki \notin Selected)
  <2>1. CASE SourceIdle
    BY <2>1 DEF SourceIdle, sourceVars, syncVars
  <2>2. CASE EmitStep
    BY <2>2 DEF EmitStep, Sync!Emit, sourceVars
  <2>3. CASE DrainStep
    BY <2>3 DEF DrainStep, Sync!DrainReturn, Sync!DropTooOld, Sync!DropAtFlush, Sync!DropHead,
                sourceVars
  <2>4. CASE FlushAtEnd
    BY <2>4 DEF FlushAtEnd, Sync!Flush, sourceVars
  <2>5. CASE PassImage
    BY <2>5 DEF PassImage, syncVars
  <2>6. QED
    BY <2>1, <2>2, <2>3, <2>4, <2>5
<1>2. /\ FirstScan' = FirstScan /\ AllScans' = AllScans /\ Window' = Window
      /\ Selected' = Selected /\ \A k : TimeOf(k)' = TimeOf(k)
  BY <1>1, SourceKept
<1>3. PushedScans' /\ MergedImages'
  BY <1>1, <1>2 DEF Merged, PushedScans, MergedImages
<1>4. ki \in Nat /\ \A k \in Window : k \in Nat
  BY LogFacts DEF Cursors
<1>5. \A k \in Window : k < ki => k < ki'
  BY <1>1, <1>4
<1>6. MergedScans'
  BY <1>1, <1>2, <1>5 DEF Merged, MergedScans
<1>7. PushedImages'
  <2>1. \A k \in Selected : (k < ki => k < ki') /\ (k < ki' => k < ki)
    <3>1. Selected \subseteq Window
      BY LogFacts DEF Cursors
    <3>2. \A k \in Selected : k \in Nat
      BY <1>4, <3>1
    <3>3. QED
      BY <1>1, <1>4, <3>2
  <2>2. QED
    BY <1>1, <1>2, <2>1 DEF Merged, PushedImages
<1>8. QED
  BY <1>3, <1>6, <1>7 DEF Merged

\* What the phases of a replay say of the synchroniser.
Phases ==
  /\ ordered = TRUE
  /\ throws # 0 => phase \in {"error", "exited"}
  /\ mode \in {"idle", "drain", "flush"}
  /\ mode = "drain" => phase \in {"running", "error", "exited"}
  /\ mode = "flush" => phase \in {"flushing", "error", "exited"}
  /\ phase \in {"flushing", "finished"} => ~HaveScan /\ ~HaveImage
  /\ phase \in {"flushing", "finished"} /\ mode = "idle" => pending = <<>>
  /\ phase = "finished" => mode = "idle"

LEMMA PhasesStep ==
  ASSUME Cursors, StreamFacts, Phases, program = "replay", [Next]_vars
  PROVE  Phases'
<1>1. UNCHANGED <<log, window>>
  BY CursorsStep
<1>2. HiGuard' = HiGuard /\ Window' = Window
  BY <1>1, SourceKept
<1>3. throws \in Nat
  BY StreamReads
<1>4. CASE SourceIdle
  <2>1. /\ UNCHANGED <<si, ki, ordered, throws, mode, pending>>
        /\ \/ phase' \in {phase, "error", "exited"}
           \/ phase = "starting" /\ phase' = "running"
           \/ phase = "flushing" /\ mode = "idle" /\ phase' = "finished"
    BY <1>4 DEF SourceIdle, sourceVars, syncVars
  <2>2. HaveScan' = HaveScan /\ HaveImage' = HaveImage
    BY <1>1, <1>2, <2>1 DEF HaveScan, HaveImage
  <2>3. QED
    BY <2>1, <2>2 DEF Phases
<1>5. CASE FeedScan \/ FeedImage
  <2>1. /\ UNCHANGED <<ordered, throws>> /\ phase = "running" /\ phase' = phase
        /\ mode' = "drain"
    BY <1>5 DEF FeedScan, FeedImage, ImageNext, Sync!PushScan, Sync!PushImage, driverVars
  <2>2. QED
    BY <2>1 DEF Phases
<1>6. CASE PassImage
  BY <1>6 DEF PassImage, ImageNext, syncVars, driverVars, Phases
<1>7. CASE FlushAtEnd
  <2>1. /\ UNCHANGED <<si, ki, ordered, throws>> /\ phase = "running" /\ phase' = "flushing"
        /\ mode' = "flush" /\ ~HaveScan /\ ~HaveImage
    BY <1>7 DEF FlushAtEnd, Sync!Flush, sourceVars
  <2>2. HaveScan' = HaveScan /\ HaveImage' = HaveImage
    BY <1>1, <1>2, <2>1 DEF HaveScan, HaveImage
  <2>3. QED
    BY <2>1, <2>2 DEF Phases
<1>8. CASE EmitStep
  <2>1. /\ UNCHANGED <<si, ki, ordered>> /\ phase \in {"running", "flushing"} /\ mode # "idle"
        /\ (throws' = throws /\ phase' = phase) \/ phase' = "error"
        /\ (throws' = throws /\ mode' = mode) \/ (throws' = throws + 1 /\ mode' = "idle")
    BY <1>8 DEF EmitStep, Sync!Emit, sourceVars
  <2>2. HaveScan' = HaveScan /\ HaveImage' = HaveImage
    BY <1>1, <1>2, <2>1 DEF HaveScan, HaveImage
  <2>3. CASE phase' = "error"
    BY <2>1, <2>3 DEF Phases
  <2>4. CASE throws' = throws /\ phase' = phase
    <3>1. mode' = mode
      BY <1>3, <2>1, <2>4
    <3>2. QED
      BY <2>1, <2>2, <2>4, <3>1 DEF Phases
  <2>5. QED
    BY <2>1, <2>3, <2>4
<1>9. CASE DrainStep
  <2>1. /\ UNCHANGED <<si, ki, ordered, throws>> /\ phase \in {"running", "flushing"}
        /\ phase' = phase /\ mode # "idle"
        /\ mode' = mode \/ (mode' = "idle" /\ pending' = pending
                            /\ (pending = <<>> \/ mode = "drain"))
    BY <1>9 DEF DrainStep, Sync!DrainReturn, Sync!DropTooOld, Sync!DropAtFlush, Sync!DropHead,
                sourceVars
  <2>2. HaveScan' = HaveScan /\ HaveImage' = HaveImage
    BY <1>1, <1>2, <2>1 DEF HaveScan, HaveImage
  <2>3. QED
    BY <2>1, <2>2 DEF Phases
<1>10. QED
  BY <1>4, <1>5, <1>6, <1>7, <1>8, <1>9, ReplayKinds


\* A scan between FirstScan and the cursor has been pushed.
LEMMA ScanPushed ==
  ASSUME Cursors, Merged, NEW j \in AllScans, FirstScan <= j, j < si
  PROVE  \E s \in 1 .. Len(scanT) : scanT[s] = log.scans[j]
<1>1. si \in FirstScan .. Len(log.scans) + 1 /\ Len(scanT) = si - FirstScan
  BY DEF Cursors, Merged, PushedScans
<1>2. FirstScan \in Nat /\ Len(log.scans) \in Nat /\ j \in Nat
  <2>1. FirstScan \in 1 .. Len(log.scans) + 1
    BY BandFacts DEF Cursors
  <2>2. AllScans = 1 .. Len(log.scans) /\ Len(log.scans) \in Nat
    BY LogFacts DEF Cursors
  <2>3. QED
    BY <2>1, <2>2
<1> DEFINE s == j - FirstScan + 1
<1>3. s \in 1 .. Len(scanT) /\ FirstScan + s - 1 = j
  BY <1>1, <1>2
<1>4. QED
  BY <1>3 DEF Merged, PushedScans

\* A pushed scan is one of the log's.
LEMMA PushedScan ==
  ASSUME Cursors, Merged, NEW s \in 1 .. Len(scanT)
  PROVE  \E j \in AllScans : scanT[s] = log.scans[j]
<1>1. /\ si \in FirstScan .. Len(log.scans) + 1 /\ Len(scanT) = si - FirstScan
      /\ scanT[s] = log.scans[FirstScan + s - 1]
  BY DEF Cursors, Merged, PushedScans
<1>2. FirstScan \in 1 .. Len(log.scans) + 1 /\ AllScans = 1 .. Len(log.scans)
      /\ Len(log.scans) \in Nat
  BY LogFacts, BandFacts DEF Cursors
<1>3. FirstScan + s - 1 \in AllScans
  BY <1>1, <1>2
<1>4. QED
  BY <1>1, <1>3

\* While a scan near an image of the window is to come, there is one to feed.
LEMMA ScanToCome ==
  ASSUME Cursors, NEW k \in Window, NEW j \in Near(k), si <= j
  PROVE  HaveScan /\ log.scans[si] <= log.scans[j] /\ log.scans[si] \in Int
<1>1. /\ si \in FirstScan .. Len(log.scans) + 1 /\ log \in Logs /\ window \in Windows
  BY DEF Cursors
<1>2. j \in AllScans /\ FirstScan <= j /\ log.scans[j] <= HiGuard /\ HiGuard \in Int
      /\ FirstScan \in 1 .. Len(log.scans) + 1
  BY <1>1, BandFacts
<1>3. /\ AllScans = 1 .. Len(log.scans) /\ Len(log.scans) \in Nat
      /\ \A i \in AllScans : log.scans[i] \in Int
      /\ \A i \in AllScans : i <= j => log.scans[i] <= log.scans[j]
  BY <1>1, <1>2, LogFacts
<1>4. si \in AllScans
  BY <1>1, <1>2, <1>3
<1>5. log.scans[si] <= log.scans[j] /\ log.scans[si] \in Int /\ log.scans[j] \in Int
  BY <1>2, <1>3, <1>4
<1>6. si <= Len(log.scans) /\ log.scans[si] <= HiGuard
  BY <1>2, <1>3, <1>4, <1>5
<1>7. QED
  BY <1>5, <1>6 DEF HaveScan

\* What the window, the stride, the guard band and the queue promise of an image, and
\* what they promise of one delivered.
Deliverable(k) == Bracketed(k, Near(k)) /\ ~Crowded(k, Near(k))
Placed(k)      == Bracketed(k, AllScans) /\ ~Crowded(k, AllScans)

LEMMA PromisesKept ==
  ASSUME UNCHANGED <<log, window>>, NEW k
  PROVE  (Deliverable(k)' <=> Deliverable(k)) /\ (Placed(k)' <=> Placed(k))
<1>1. AllScans' = AllScans /\ Selected' = Selected /\ \A m : TimeOf(m)' = TimeOf(m)
  BY SourceKept
<1>2. Near(k)' = Near(k)
  BY <1>1 DEF Near
<1>3. Bracketed(k, Near(k))' <=> Bracketed(k, Near(k))
  BY <1>1, <1>2 DEF Bracketed, Earlier, Later
<1>4. Bracketed(k, AllScans)' <=> Bracketed(k, AllScans)
  BY <1>1 DEF Bracketed, Earlier, Later
<1>5. Behind(k, Near(k))' = Behind(k, Near(k)) /\ Behind(k, AllScans)' = Behind(k, AllScans)
  BY <1>1, <1>2 DEF Behind, Later
<1>6. /\ Crowded(k, Near(k))' <=> Crowded(k, Near(k))
      /\ Crowded(k, AllScans)' <=> Crowded(k, AllScans)
  BY <1>5 DEF Crowded
<1>7. QED
  BY <1>3, <1>4, <1>6 DEF Deliverable, Placed

\* An image with a near scan before it comes when that scan is there, and no later one.
LEMMA FedOnTime ==
  ASSUME Cursors, StreamFacts, Merged, NEW n \in 1 .. Len(images), Deliverable(fed[n])
  PROVE  Stream!OnTime(n)
<1>1. fed[n] \in Selected /\ images[n].t = TimeOf(fed[n])
  BY DEF Merged, PushedImages
<1>2. fed[n] \in Window
  BY <1>1, LogFacts DEF Cursors
<1>3. PICK j \in Near(fed[n]) : log.scans[j] <= TimeOf(fed[n])
  BY DEF Deliverable, Bracketed, Earlier
<1>4. j \in AllScans /\ FirstScan <= j
  BY <1>2, <1>3, BandFacts DEF Cursors
<1>5. j < FirstScan + images[n].seen
  BY <1>1, <1>3, <1>4 DEF Merged, MergedImages
<1>6. images[n].seen \in Nat /\ FirstScan \in Nat /\ j \in Nat
  <2>1. images[n].seen \in 0 .. Len(scanT) /\ Len(scanT) \in Nat
    BY StreamReads
  <2>2. AllScans = 1 .. Len(log.scans) /\ FirstScan \in 1 .. Len(log.scans) + 1
        /\ Len(log.scans) \in Nat
    BY LogFacts, BandFacts DEF Cursors
  <2>3. QED
    BY <1>4, <2>1, <2>2
<1>7. images[n].seen > 0
  BY <1>4, <1>5, <1>6
<1>8. QED
  BY <1>7 DEF Stream!OnTime, Merged, MergedImages

\* So it is not dropped as too old ...
LEMMA NoneTooOld ==
  ASSUME Cursors, StreamFacts, Merged, Phases, throws = 0, Sync!DropTooOld
  PROVE  ~Deliverable(fed[Head(pending)])
<1> SUFFICES ASSUME Deliverable(fed[Head(pending)]) PROVE FALSE
  OBVIOUS
<1> DEFINE i == Head(pending)
<1>1. Stream!DropTooOld
  BY StreamActions
<1>2. pending # <<>> /\ Stream!TooOld(images[i].t)
  BY <1>1 DEF Stream!DropTooOld
<1>3. i \in 1 .. Len(images) /\ i = pending[1] /\ 1 \in 1 .. Len(pending)
  BY <1>2, StreamReads
<1>4. Stream!OnTime(pending[1])
  BY <1>3, FedOnTime
<1>5. Stream!InStep
  BY DEF Stream!InStep, Phases
<1>6. poses # <<>> /\ scanT[poses[1]] <= images[i].t
  BY <1>3, <1>4, <1>5 DEF StreamFacts, Stream!StreamInv, Stream!StillReached
<1>7. Head(poses) = poses[1] /\ scanT[poses[1]] \in Int /\ images[i].t \in Int
  <2>1. /\ Head(poses) = poses[1] /\ Len(poses) >= 1 /\ Len(poses) \in Nat
        /\ \A k \in 1 .. Len(poses) : poses[k] \in Stream!Scans
    BY <1>6, Stream!StreamSequences, StreamAssumption DEF StreamFacts
  <2>2. poses[1] \in 1 .. Len(scanT)
    BY <2>1 DEF Stream!Scans
  <2>3. QED
    BY <1>3, <2>1, <2>2, StreamReads
<1>8. images[i].t < scanT[poses[1]]
  BY <1>2, <1>7 DEF Stream!TooOld
<1>9. QED
  BY <1>6, <1>7, <1>8

\* A pushed scan is not newer than the newest pose.
LEMMA NewestPose ==
  ASSUME StreamFacts, NEW s \in 1 .. Len(scanT), NEW t \in Int, Stream!NeedsNewer(t)
  PROVE  scanT[s] < t
<1>1. poses # <<>> /\ scanT[s] <= scanT[Stream!Last(poses)]
  BY DEF StreamFacts, Stream!PosesComplete, Stream!Scans
<1>2. Stream!Last(poses) \in 1 .. Len(scanT)
  <2>1. /\ Len(poses) >= 1 /\ Len(poses) \in Nat
        /\ \A k \in 1 .. Len(poses) : poses[k] \in Stream!Scans
    BY <1>1, Stream!StreamSequences, StreamAssumption DEF StreamFacts
  <2>2. QED
    BY <2>1 DEF Stream!Last, Stream!Scans
<1>3. scanT[Stream!Last(poses)] < t
  BY <1>1 DEF Stream!NeedsNewer
<1>4. scanT[s] \in Int /\ scanT[Stream!Last(poses)] \in Int
  BY <1>2, StreamReads
<1>5. QED
  BY <1>1, <1>3, <1>4

\* While an image needs a newer pose, the near scans after it are to come ...
LEMMA LaterToCome ==
  ASSUME Cursors, StreamFacts, Merged, NEW n \in 1 .. Len(images),
         Stream!NeedsNewer(images[n].t), NEW j \in Later(fed[n], Near(fed[n]))
  PROVE  HaveScan /\ log.scans[si] <= log.scans[j] /\ log.scans[si] \in Int
<1>1. fed[n] \in Selected /\ images[n].t = TimeOf(fed[n])
  BY DEF Merged, PushedImages
<1>2. fed[n] \in Window /\ TimeOf(fed[n]) \in Int
  BY <1>1, LogFacts DEF Cursors
<1>3. j \in Near(fed[n]) /\ TimeOf(fed[n]) <= log.scans[j]
  BY DEF Later
<1>4. j \in AllScans /\ FirstScan <= j
  BY <1>2, <1>3, BandFacts DEF Cursors
<1>5. ~(j < si)
  <2>1. SUFFICES ASSUME j < si PROVE FALSE
    OBVIOUS
  <2>2. PICK s \in 1 .. Len(scanT) : scanT[s] = log.scans[j]
    BY <1>4, <2>1, ScanPushed
  <2>3. scanT[s] < images[n].t
    BY <1>1, <1>2, NewestPose
  <2>4. log.scans[j] \in Int
    BY <1>4, LogFacts DEF Cursors
  <2>5. QED
    BY <1>1, <1>2, <1>3, <2>2, <2>3, <2>4
<1>6. si <= j
  <2>1. si \in FirstScan .. Len(log.scans) + 1
    BY DEF Cursors
  <2>2. FirstScan \in 1 .. Len(log.scans) + 1 /\ AllScans = 1 .. Len(log.scans)
        /\ Len(log.scans) \in Nat
    BY LogFacts, BandFacts DEF Cursors
  <2>3. QED
    BY <1>4, <1>5, <2>1, <2>2
<1>7. QED
  BY <1>2, <1>3, <1>6, ScanToCome

\* ... so none is dropped as unbracketed at the flush ...
LEMMA NoneUnbracketed ==
  ASSUME Cursors, StreamFacts, Merged, ~HaveScan, Sync!DropAtFlush
  PROVE  ~Deliverable(fed[Head(pending)])
<1> SUFFICES ASSUME Deliverable(fed[Head(pending)]) PROVE FALSE
  OBVIOUS
<1>1. Stream!DropAtFlush
  BY StreamActions
<1>2. pending # <<>> /\ Stream!NeedsNewer(images[Head(pending)].t)
  BY <1>1 DEF Stream!DropAtFlush
<1>3. Head(pending) \in 1 .. Len(images)
  BY <1>2, StreamReads
<1>4. PICK j : j \in Later(fed[Head(pending)], Near(fed[Head(pending)]))
  BY DEF Deliverable, Bracketed
<1>5. QED
  BY <1>2, <1>3, <1>4, LaterToCome


\* ... and one crowded out of a full queue was crowded by the images selected before
\* the scan it waited for.
LEMMA NoneCrowdedOut ==
  ASSUME Cursors, StreamFacts, Merged, Phases, FeedImage, Len(pending) >= Sync!MaxPending
  PROVE  ~Deliverable(fed[Head(pending)])
<1> DEFINE i == Head(pending)
           k == fed[i]
           a == Len(images)
           g == [m \in 1 .. a + 1 |-> IF m <= a THEN fed[m] ELSE ki]
           B == Behind(k, Near(k))
<1>1. /\ phase = "running" /\ mode = "idle" /\ ki \in Window /\ ki \in Selected
      /\ ~(HaveScan /\ ScanFirst)
  BY DEF FeedImage, ImageNext, HaveImage
<1>2. Sync!MaxPending \in Nat \ {0} /\ Len(pending) \in Nat /\ Len(pending) <= Len(images)
      /\ Len(images) \in Nat /\ Len(pending) <= Sync!MaxPending
      /\ \A n \in 1 .. Len(images) : images[n].t \in Int
  BY StreamReads
<1>3. pending # <<>>
  BY <1>2
<1>4. i = pending[1] /\ i \in 1 .. a /\ i = a - Len(pending) + 1 /\ 1 \in 1 .. Len(pending)
  BY <1>2, <1>3, StreamReads
<1>5. Stream!NeedsNewer(images[i].t)
  <2>1. Stream!InStep
    BY <1>1 DEF Stream!InStep, Phases
  <2>2. QED
    BY <1>1, <1>4, <2>1 DEF StreamFacts, Stream!StreamInv, Stream!WaitingAreNewer
<1>6. /\ ki \in Nat /\ TimeOf(ki) \in Int /\ Indexed[ki] = TimeOf(ki)
      /\ Selected \subseteq Window /\ IsFiniteSet(Selected)
      /\ \A m \in Window : m \in Nat /\ TimeOf(m) \in Int
      /\ \A x, y \in Window : x < y => TimeOf(x) < TimeOf(y)
      /\ \A j \in AllScans : log.scans[j] \in Int
  BY <1>1, LogFacts DEF Cursors
<1>7. ASSUME NEW j \in Later(k, Near(k))
      PROVE  TimeOf(ki) < log.scans[j] /\ log.scans[j] \in Int
  <2>1. HaveScan /\ log.scans[si] <= log.scans[j] /\ log.scans[si] \in Int
    BY <1>4, <1>5, LaterToCome
  <2>2. ~(log.scans[si] <= TimeOf(ki))
    BY <1>1, <1>6, <2>1 DEF ScanFirst
  <2>3. log.scans[j] \in Int
    <3>1. j \in Near(k)
      BY DEF Later
    <3>2. j \in AllScans
      BY <3>1 DEF Near
    <3>3. QED
      BY <1>6, <3>2
  <2>4. QED
    BY <1>6, <2>1, <2>2, <2>3
<1>8. ASSUME NEW m \in Selected, k < m, m <= ki
      PROVE  m \in B
  <2>1. m \in Window /\ TimeOf(m) \in Int /\ TimeOf(m) <= TimeOf(ki)
    <3>1. m \in Window /\ m \in Nat /\ TimeOf(m) \in Int
      BY <1>6
    <3>2. m < ki \/ m = ki
      BY <1>6, <1>8, <3>1
    <3>3. QED
      BY <1>1, <1>6, <3>1, <3>2
  <2>2. \A j \in Later(k, Near(k)) : TimeOf(m) < log.scans[j]
    BY <1>6, <1>7, <2>1
  <2>3. m > k
    BY <1>8
  <2>4. QED
    BY <2>2, <2>3 DEF Behind
<1>9. /\ \A m \in 1 .. a : fed[m] \in Selected /\ fed[m] < ki /\ fed[m] \in Nat
      /\ \A l, m \in 1 .. a : l < m => fed[l] < fed[m]
  BY <1>6 DEF Merged, PushedImages
<1> HIDE DEF B, k
<1>10. \A m \in i + 1 .. a + 1 : g[m] \in Nat /\ g[m] \in Selected /\ k < g[m] /\ g[m] <= ki
  <2> TAKE m \in i + 1 .. a + 1
  <2>1. m \in 1 .. a + 1 /\ i < m /\ (m \in 1 .. a \/ m = a + 1)
    BY <1>2, <1>4
  <2>2. CASE m \in 1 .. a
    <3>1. g[m] = fed[m]
      BY <2>1, <2>2
    <3>2. fed[i] < fed[m]
      BY <1>4, <1>9, <2>1, <2>2
    <3>3. QED
      BY <1>6, <1>9, <2>2, <3>1, <3>2 DEF k
  <2>3. CASE m = a + 1
    <3>1. g[m] = ki
      BY <1>2, <2>1, <2>3
    <3>2. QED
      BY <1>1, <1>4, <1>6, <1>9, <3>1 DEF k
  <2>4. QED
    BY <2>1, <2>2, <2>3
<1>11. \A l, m \in i + 1 .. a + 1 : l < m => g[l] < g[m]
  <2> TAKE l, m \in i + 1 .. a + 1
  <2> SUFFICES ASSUME l < m PROVE g[l] < g[m]
    OBVIOUS
  <2>1. l \in 1 .. a /\ (m \in 1 .. a \/ m = a + 1) /\ l \in 1 .. a + 1 /\ m \in 1 .. a + 1
    <3>1. a \in Nat /\ i \in 1 .. a
      BY <1>2, <1>4
    <3>2. l \in Int /\ m \in Int /\ i + 1 <= l /\ l < m /\ m <= a + 1
      BY <3>1
    <3> HIDE DEF a, i
    <3>3. QED
      BY <3>1, <3>2
  <2>2. g[l] = fed[l]
    BY <2>1
  <2>3. CASE m \in 1 .. a
    BY <1>9, <2>1, <2>2, <2>3
  <2>4. CASE m = a + 1
    <3>1. g[m] = ki
      BY <1>2, <2>1, <2>4
    <3>2. QED
      BY <1>9, <2>1, <2>2, <3>1
  <2>5. QED
    BY <2>1, <2>3, <2>4
<1>12. IsFiniteSet(B) /\ Cardinality(B) \in Nat
  <2>1. B \subseteq Selected
    BY DEF B, Behind
  <2>2. QED
    BY <1>6, <2>1, FS_Subset, FS_CardinalityType
<1>13. \A m \in i + 1 .. a + 1 : g[m] \in B
  BY <1>8, <1>10
<1> HIDE DEF g, i, a
<1>14. i \in Nat /\ a + 1 \in Nat /\ i <= a + 1 /\ (a + 1) - i = Len(pending)
  BY <1>2, <1>4 DEF a
<1>15. (a + 1) - i <= Cardinality(B)
  <2>1. PICK h : h = a + 1
    OBVIOUS
  <2>2. /\ h \in Nat /\ i <= h
        /\ \A m \in i + 1 .. h : g[m] \in Nat /\ g[m] \in B
        /\ \A l, m \in i + 1 .. h : l < m => g[l] < g[m]
    BY <1>10, <1>11, <1>13, <1>14, <2>1
  <2>3. h - i <= Cardinality(B)
    BY <1>12, <1>14, <2>2, AscendingCount
  <2>4. QED
    BY <2>1, <2>3
<1>16. Cardinality(B) >= Sync!MaxPending
  BY <1>2, <1>12, <1>14, <1>15
<1>17. QED
  BY <1>16 DEF Deliverable, Crowded, B, k, i

\* An image is delivered between two scans of the log, and before more images than
\* the queue holds are selected behind it.
LEMMA EmittedIsPlaced ==
  ASSUME Cursors, StreamFacts, Merged, Sync!Emit
  PROVE  Placed(fed[Head(pending)])
<1> DEFINE i == Head(pending)
           k == fed[i]
           a == Len(images)
           B == Behind(k, AllScans)
<1>1. Stream!Emit
  BY StreamActions
<1>2. pending # <<>> /\ Stream!Bracketed(images[i].t)
  BY <1>1 DEF Stream!Emit
<1>3. /\ i \in 1 .. a /\ i = a - Len(pending) + 1 /\ Len(pending) <= Sync!MaxPending
      /\ Len(pending) \in Nat /\ Len(pending) >= 1 /\ a \in Nat /\ Sync!MaxPending \in Nat
      /\ images[i].t \in Int
  <2>1. 1 \in 1 .. Len(pending) /\ i = pending[1]
    BY <1>2, StreamReads
  <2>2. QED
    BY <1>2, <2>1, StreamReads
<1>4. k \in Selected /\ images[i].t = TimeOf(k)
  BY <1>3 DEF Merged, PushedImages
<1>5. /\ Selected \subseteq Window /\ IsFiniteSet(Selected)
      /\ \A m \in Window : m \in Nat /\ TimeOf(m) \in Int
      /\ \A j \in AllScans : log.scans[j] \in Int
  BY LogFacts DEF Cursors
<1>6. PICK r, s \in 1 .. Len(scanT) : scanT[r] <= TimeOf(k) /\ TimeOf(k) <= scanT[s]
  <2>1. poses # <<>> /\ ~(TimeOf(k) > scanT[Stream!Last(poses)])
        /\ ~(TimeOf(k) < scanT[Head(poses)])
    BY <1>2, <1>4 DEF Stream!Bracketed, Stream!NeedsNewer, Stream!TooOld
  <2>2. /\ Len(poses) >= 1 /\ Len(poses) \in Nat /\ Head(poses) = poses[1]
        /\ \A n \in 1 .. Len(poses) : poses[n] \in Stream!Scans
    BY <2>1, Stream!StreamSequences, StreamAssumption DEF StreamFacts
  <2>3. Head(poses) \in 1 .. Len(scanT) /\ Stream!Last(poses) \in 1 .. Len(scanT)
    BY <2>2 DEF Stream!Last, Stream!Scans
  <2>4. scanT[Head(poses)] \in Int /\ scanT[Stream!Last(poses)] \in Int /\ TimeOf(k) \in Int
    BY <1>4, <1>5, <2>3, StreamReads
  <2>5. scanT[Head(poses)] <= TimeOf(k) /\ TimeOf(k) <= scanT[Stream!Last(poses)]
    BY <2>1, <2>4
  <2>6. QED
    BY <2>3, <2>5
<1>7. PICK p, q \in AllScans : scanT[r] = log.scans[p] /\ scanT[s] = log.scans[q]
  BY PushedScan
<1>8. p \in Earlier(k, AllScans) /\ q \in Later(k, AllScans)
  BY <1>6, <1>7 DEF Earlier, Later
<1>9. ASSUME NEW m \in B
      PROVE  \E n \in i + 1 .. a : fed[n] = m
  <2>1. m \in Selected /\ m > k /\ TimeOf(m) < scanT[s]
    BY <1>7, <1>8 DEF Behind
  <2>2. m < ki
    BY <1>5, <2>1 DEF Merged, MergedScans
  <2>3. PICK n \in 1 .. a : fed[n] = m
    BY <2>1, <2>2 DEF Merged, PushedImages
  <2>4. ~(n < i) /\ n # i
    <3>1. n < i => fed[n] < fed[i]
      BY <1>3 DEF Merged, PushedImages
    <3>2. m \in Nat /\ k \in Nat
      BY <1>4, <1>5, <2>1
    <3>3. QED
      BY <2>1, <2>3, <3>1, <3>2
  <2>5. n \in i + 1 .. a
    BY <1>3, <2>4
  <2>6. QED
    BY <2>3, <2>5
<1>10. IsFiniteSet(B) /\ Cardinality(B) \in Nat
  <2>1. B \subseteq Selected
    BY DEF Behind
  <2> HIDE DEF B
  <2>2. QED
    BY <1>5, <2>1, FS_Subset, FS_CardinalityType
<1>11. /\ \A m \in i + 1 .. a : fed[m] \in Nat
       /\ \A l, m \in i + 1 .. a : l < m => fed[l] < fed[m]
  <2>1. \A m \in i + 1 .. a : m \in 1 .. a
    BY <1>3
  <2>2. \A m \in 1 .. a : fed[m] \in Nat
    BY <1>5 DEF Merged, PushedImages
  <2>3. QED
    BY <2>1, <2>2 DEF Merged, PushedImages
<1> HIDE DEF B, i, a, k
<1>12. Cardinality(B) <= a - i
  <2>1. i \in Nat /\ a \in Nat /\ i <= a
    BY <1>3
  <2>2. \A x \in B : \E m \in i + 1 .. a : fed[m] = x
    BY <1>9
  <2>3. QED
    BY <1>10, <1>11, <2>1, <2>2, AscendingCount
<1>13. ~(Cardinality(B) >= Sync!MaxPending)
  BY <1>3, <1>10, <1>12
<1>14. QED
  BY <1>8, <1>13 DEF Placed, Bracketed, Crowded, B, k, i


\* Every image dropped was not deliverable, every one delivered could be placed.
FatesRight ==
  /\ \A l \in lost : ~Deliverable(fed[l.image])
  /\ \A n \in 1 .. Len(frames) : Placed(fed[frames[n].image])

\* The synchroniser's ledger, in terms of its variables.
LEMMA DeliveryReads ==
  ASSUME StreamFacts
  PROVE  /\ frames \in Seq(Stream!Frame) /\ Len(frames) \in Nat
         /\ \A n \in 1 .. Len(frames) : frames[n].image \in 1 .. Len(images)
         /\ \A m, n \in 1 .. Len(frames) : m < n => frames[m].image < frames[n].image
         /\ \A l \in lost : l.image \in 1 .. Len(images)
         /\ pending = <<>> =>
              \A i \in 1 .. Len(images) :
                \/ \E l \in lost : l.image = i
                \/ \E n \in 1 .. Len(frames) : frames[n].image = i
<1>1. Stream!TypeOK /\ Stream!DeliveryLedger
  BY DEF StreamFacts
<1>2. /\ frames \in Seq(Stream!Frame) /\ Len(frames) \in Nat
      /\ lost \subseteq [image : Stream!Images, why : {"overflow", "too_old", "unbracketed"}]
  BY <1>1 DEF Stream!TypeOK
<1>3. \A n \in 1 .. Len(frames) : frames[n].image \in 1 .. Len(images)
  <2>1. \A n \in 1 .. Len(frames) : frames[n] \in Stream!Frame
    BY <1>2, SeqElements
  <2>2. QED
    BY <2>1 DEF Stream!Frame, Stream!Images
<1>4. \A l \in lost : l.image \in 1 .. Len(images)
  BY <1>2 DEF Stream!Images
<1> DEFINE H == Stream!Handed
<1>5. /\ H = [n \in 1 .. Len(frames) |-> frames[n].image]
      /\ Len(H) = Len(frames) /\ \A n \in 1 .. Len(frames) : H[n] = frames[n].image
  <2>1. H = [n \in 1 .. Len(frames) |-> frames[n].image]
    BY DEF Stream!Handed
  <2> HIDE DEF H
  <2>2. DOMAIN H = 1 .. Len(frames)
    BY <2>1
  <2>3. Len(H) = Len(frames)
    <3>1. H \in Seq(Nat)
      BY <1>1 DEF Stream!DeliveryLedger, Stream!Ledger, Stream!Fates, H
    <3>2. QED
      BY <1>2, <2>2, <3>1, LenProperties
  <2>4. QED
    BY <2>1, <2>3
<1> HIDE DEF H
<1>6. Stream!Fates(Len(images) - Len(pending), H, Stream!Gone)
  BY <1>1 DEF Stream!DeliveryLedger, Stream!Ledger, H
<1>7. \A m, n \in 1 .. Len(frames) : m < n => frames[m].image < frames[n].image
  BY <1>5, <1>6 DEF Stream!Fates
<1>8. ASSUME pending = <<>>, NEW i \in 1 .. Len(images)
      PROVE  \/ \E l \in lost : l.image = i
             \/ \E n \in 1 .. Len(frames) : frames[n].image = i
  <2>1. Len(images) - Len(pending) = Len(images)
    <3>1. Len(images) \in Nat /\ Len(pending) = 0
      BY <1>8, StreamReads
    <3>2. QED
      BY <3>1
  <2>2. i \in Stream!Gone \/ \E n \in 1 .. Len(H) : H[n] = i
    BY <1>6, <2>1 DEF Stream!Fates
  <2>3. QED
    BY <1>5, <2>2 DEF Stream!Gone
<1>9. QED
  BY <1>2, <1>3, <1>4, <1>7, <1>8

LEMMA FatesStep ==
  ASSUME Cursors, StreamFacts, Merged, Phases, FatesRight, program = "replay", [Next]_vars
  PROVE  FatesRight'
<1>1. UNCHANGED <<log, window>>
  BY CursorsStep
<1>2. \A i \in 1 .. Len(images) : fed'[i] = fed[i]
  <2>1. CASE FeedImage
    <3>1. fed' = Append(fed, ki) /\ ki \in Nat
      BY <2>1 DEF FeedImage, Cursors
    <3>2. fed \in Seq(Nat) /\ Len(fed) = Len(images)
      BY DEF Merged, PushedImages
    <3>3. QED
      BY <3>1, <3>2
  <2>2. CASE SourceIdle \/ FeedScan \/ PassImage \/ FlushAtEnd \/ EmitStep \/ DrainStep
    BY <2>2 DEF SourceIdle, FeedScan, PassImage, FlushAtEnd, EmitStep, DrainStep, sourceVars
  <2>3. QED
    BY <2>1, <2>2, ReplayKinds
<1>3. \A l \in lost : ~Deliverable(fed'[l.image])
  BY <1>2, DeliveryReads DEF FatesRight
<1>4. \A n \in 1 .. Len(frames) : Placed(fed'[frames[n].image])
  BY <1>2, DeliveryReads DEF FatesRight
<1>5. pending # <<>> => fed'[Head(pending)] = fed[Head(pending)]
  BY <1>2, StreamReads
<1>6. \A l \in lost' : ~Deliverable(fed'[l.image])
  <2>1. CASE lost' = lost
    BY <1>3, <2>1
  <2>2. CASE pending # <<>> /\ ~Deliverable(fed[Head(pending)])
             /\ \A l \in lost' : l \in lost \/ l.image = Head(pending)
    BY <1>3, <1>5, <2>2
  <2>3. CASE FeedImage
    <3>1. Sync!PushImage(Indexed[ki])
      BY <2>3 DEF FeedImage
    <3>2. CASE Len(pending) >= Sync!MaxPending
      <4>1. pending # <<>>
        BY <3>2, StreamReads
      <4>2. lost' = lost \/ lost' = lost \union {[image |-> Head(pending), why |-> "overflow"]}
        BY <3>1 DEF Sync!PushImage
      <4>3. QED
        BY <2>1, <2>2, <2>3, <3>2, <4>1, <4>2, NoneCrowdedOut
    <3>3. CASE ~(Len(pending) >= Sync!MaxPending)
      BY <2>1, <3>1, <3>3 DEF Sync!PushImage
    <3>4. QED
      BY <3>2, <3>3
  <2>4. CASE DrainStep
    <3>1. throws = 0
      BY <2>4 DEF DrainStep, Phases
    <3>2. CASE Sync!DrainReturn
      BY <2>1, <3>2 DEF Sync!DrainReturn
    <3>3. CASE Sync!DropTooOld
      <4>1. pending # <<>> /\ lost' = lost \union {[image |-> Head(pending), why |-> "too_old"]}
        BY <3>3 DEF Sync!DropTooOld, Sync!DropHead
      <4>2. QED
        BY <2>2, <3>1, <3>3, <4>1, NoneTooOld
    <3>4. CASE Sync!DropAtFlush
      <4>1. /\ pending # <<>> /\ mode = "flush"
            /\ lost' = lost \union {[image |-> Head(pending), why |-> "unbracketed"]}
        BY <3>4 DEF Sync!DropAtFlush, Sync!DropHead
      <4>2. ~HaveScan
        BY <2>4, <4>1 DEF DrainStep, Phases
      <4>3. QED
        BY <2>2, <3>4, <4>1, <4>2, NoneUnbracketed
    <3>5. QED
      BY <2>4, <3>2, <3>3, <3>4 DEF DrainStep
  <2>5. CASE SourceIdle \/ FeedScan \/ PassImage \/ FlushAtEnd \/ EmitStep
    <3>1. lost' = lost
      BY <2>5 DEF SourceIdle, FeedScan, PassImage, FlushAtEnd, EmitStep, syncVars,
                  Sync!PushScan, Sync!Flush, Sync!Emit
    <3>2. QED
      BY <2>1, <3>1
  <2>6. QED
    BY <2>3, <2>4, <2>5, ReplayKinds
<1>7. \A n \in 1 .. Len(frames') : Placed(fed'[frames'[n].image])
  <2>1. CASE EmitStep
    <3>1. Sync!Emit
      BY <2>1 DEF EmitStep
    <3>2. pending # <<>> /\ frames' = Append(frames, Sync!SyncedFrame(Head(pending)))
      BY <3>1 DEF Sync!Emit
    <3>3. PICK f : f = Sync!SyncedFrame(Head(pending))
      OBVIOUS
    <3>4. f.image = Head(pending)
      BY <3>3 DEF Sync!SyncedFrame
    <3>5. frames \in Seq(Stream!Frame) /\ Len(frames) \in Nat /\ frames' = Append(frames, f)
      BY <3>2, <3>3, DeliveryReads
    <3>6. /\ Len(frames') = Len(frames) + 1 /\ frames'[Len(frames) + 1] = f
          /\ \A n \in 1 .. Len(frames) : frames'[n] = frames[n]
      BY <3>5, AppendProperties
    <3>7. Placed(fed'[f.image])
      BY <1>5, <3>1, <3>2, <3>4, EmittedIsPlaced
    <3>8. QED
      BY <1>4, <3>5, <3>6, <3>7
  <2>2. CASE SourceIdle \/ FeedScan \/ FeedImage \/ PassImage \/ FlushAtEnd \/ DrainStep
    <3>1. frames' = frames
      BY <2>2 DEF SourceIdle, FeedScan, FeedImage, PassImage, FlushAtEnd, DrainStep, syncVars,
                  Sync!PushScan, Sync!PushImage, Sync!Flush, Sync!DrainReturn, Sync!DropTooOld,
                  Sync!DropAtFlush, Sync!DropHead
    <3>2. QED
      BY <1>4, <3>1
  <2>3. QED
    BY <2>1, <2>2, ReplayKinds
<1>8. \A k : (Deliverable(k)' <=> Deliverable(k)) /\ (Placed(k)' <=> Placed(k))
  BY <1>1, PromisesKept
<1>9. QED
  BY <1>6, <1>7, <1>8 DEF FatesRight


ReplayInv ==
  Cursors /\ (program = "replay" => Merged /\ Phases /\ FatesRight)

LEMMA ReplayInit == Init => ReplayInv
<1> SUFFICES ASSUME Init PROVE Cursors /\ Merged /\ Phases /\ FatesRight
  BY DEF ReplayInv
<1>1. /\ log \in Logs /\ window \in Windows /\ si = FirstScan /\ ki = Start + 1 /\ fed = <<>>
      /\ scanT = <<>> /\ images = <<>> /\ frames = <<>> /\ lost = {} /\ throws = 0
      /\ mode = "idle" /\ ordered = TRUE /\ phase = "starting"
  BY DEF Init, SourceInit, DriverInit, Sync!Init
<1>2. /\ FirstScan \in 1 .. Len(log.scans) + 1 /\ Len(log.scans) \in Nat /\ Start \in Nat
      /\ \A k \in Window : k \in Nat /\ Start < k /\ k <= End
      /\ End \in Nat /\ Selected \subseteq Window
  BY <1>1, LogFacts, BandFacts
<1>3. Cursors
  BY <1>1, <1>2 DEF Cursors
<1>4. PushedScans /\ MergedScans /\ MergedImages
  BY <1>1, <1>2 DEF PushedScans, MergedScans, MergedImages
<1>5. PushedImages
  <2>1. \A k \in Selected : ~(k < ki)
    BY <1>1, <1>2
  <2>2. QED
    BY <1>1, <2>1 DEF PushedImages
<1>6. Phases /\ FatesRight
  BY <1>1 DEF Phases, FatesRight
<1>7. QED
  BY <1>3, <1>4, <1>5, <1>6 DEF Merged

LEMMA ReplayStep == StreamFacts /\ ReplayInv /\ [Next]_vars => ReplayInv'
<1> SUFFICES ASSUME StreamFacts, ReplayInv, [Next]_vars PROVE ReplayInv'
  OBVIOUS
<1>1. Cursors' /\ program' = program
  BY CursorsStep, ReplayKinds DEF ReplayInv
<1>2. ASSUME program = "replay" PROVE Merged' /\ Phases' /\ FatesRight'
  <2>1. Cursors /\ Merged /\ Phases /\ FatesRight
    BY <1>2 DEF ReplayInv
  <2>2. Merged'
    BY <2>1, ReplayKinds, MergedFeedScan, MergedFeedImage, MergedOtherSteps
  <2>3. QED
    BY <1>2, <2>1, <2>2, PhasesStep, FatesStep
<1>3. QED
  BY <1>1, <1>2 DEF ReplayInv

\* A replay that ends normally put every deliverable image through and no other kind
\* of image, in the order of capture, for any log in order of capture, any window,
\* stride and guard band, any sizes of the buffers and the queue.
THEOREM ReplayHolds == Spec => []ReplayDelivers
<1>1. Spec => []ReplayInv
  BY ReplayInit, ReplayStep, StreamFactsHold, PTL DEF Spec
<1>2. StreamFacts /\ ReplayInv => ReplayDelivers
  <2> SUFFICES ASSUME StreamFacts, ReplayInv, program = "replay", phase = "finished"
               PROVE  /\ \A k \in Selected : Deliverable(k) => k \in Delivered
                      /\ \A k \in Delivered : k \in Selected /\ Placed(k)
                      /\ \A m, n \in DOMAIN frames : m < n =>
                           TimeOf(fed[frames[m].image]) < TimeOf(fed[frames[n].image])
    BY DEF ReplayDelivers, Deliverable, Placed
  <2>1. Cursors /\ Merged /\ Phases /\ FatesRight
    BY DEF ReplayInv
  <2>2. ~HaveImage /\ pending = <<>>
    BY <2>1 DEF Phases
  <2>3. /\ DOMAIN frames = 1 .. Len(frames)
        /\ \A n \in 1 .. Len(frames) : frames[n].image \in 1 .. Len(images)
        /\ \A m, n \in 1 .. Len(frames) : m < n => frames[m].image < frames[n].image
    BY DeliveryReads
  <2>4. /\ \A n \in 1 .. Len(images) : fed[n] \in Selected
        /\ \A m, n \in 1 .. Len(images) : m < n => fed[m] < fed[n]
        /\ Selected \subseteq Window
        /\ \A k, l \in Window : k < l => TimeOf(k) < TimeOf(l)
    BY <2>1, LogFacts DEF Cursors, Merged, PushedImages
  <2>5. ASSUME NEW k \in Selected, Deliverable(k) PROVE k \in Delivered
    <3>1. k < ki
      <4>1. k \in Nat /\ k <= End /\ End \in Nat /\ ki \in Nat
        BY <2>1, <2>4, LogFacts DEF Cursors
      <4>2. ~(ki <= End)
        BY <2>1, <2>2, LogFacts DEF Cursors, HaveImage
      <4>3. QED
        BY <4>1, <4>2
    <3>2. PICK n \in 1 .. Len(images) : fed[n] = k
      BY <2>1, <3>1 DEF Merged, PushedImages
    <3>3. ~\E l \in lost : l.image = n
      BY <2>1, <2>5, <3>2 DEF FatesRight
    <3>4. PICK j \in 1 .. Len(frames) : frames[j].image = n
      BY <2>2, <3>3, DeliveryReads
    <3>5. QED
      BY <2>3, <3>2, <3>4 DEF Delivered
  <2>6. ASSUME NEW k \in Delivered PROVE k \in Selected /\ Placed(k)
    <3>1. PICK n \in 1 .. Len(frames) : k = fed[frames[n].image]
      BY <2>3 DEF Delivered
    <3>2. QED
      BY <2>1, <2>3, <2>4, <3>1 DEF FatesRight
  <2>7. ASSUME NEW m \in DOMAIN frames, NEW n \in DOMAIN frames, m < n
        PROVE  TimeOf(fed[frames[m].image]) < TimeOf(fed[frames[n].image])
    <3>1. frames[m].image < frames[n].image
      BY <2>3, <2>7
    <3>2. frames[m].image \in 1 .. Len(images) /\ frames[n].image \in 1 .. Len(images)
      BY <2>3
    <3>3. QED
      BY <2>4, <3>1, <3>2
  <2>8. QED
    BY <2>5, <2>6, <2>7
<1>3. QED
  BY <1>1, <1>2, StreamFactsHold, PTL

=============================================================================
