----------------------------- MODULE LogReplay -----------------------------
(***************************************************************************)
(* run_semantic_universe: a recorded log (dog_log_adaptor.cpp) replayed by *)
(* DogLogIngestor (dog_log_ingestor.cpp) into the synchroniser, whose      *)
(* frames go through the driver.  The first exception ends the process.    *)
(*                                                                         *)
(* A log is the capture times of its scans and of its images, and whether  *)
(* the recorder was cut off while it wrote the last image; it has a scan,  *)
(* for a log without one is refused.  A scan cut off loses points but      *)
(* keeps its pose, which is all that matters here.                         *)
(***************************************************************************)
EXTENDS OnlineSemantic

CONSTANTS
  Logs,      \* [scans, images : sequences of times, cut : "no", "header" or "pixels"]
  Windows,   \* [start, count, stride] of run.yaml
  Guard,     \* GUARD_NS
  PoseBuffer, ScanRingArg, MaxPendingArg, Times, MaxScans, MaxImages, MaxThrows, NoScan

VARIABLES
  log, window,
  si, ki,    \* the cursors into scans and images
  fed,       \* history: the log images pushed, in order
  \* The synchroniser.
  scanT, images, poses, scans, pending, frames, lost, emitted,
  droppedOld, droppedOverflow, throws, ordered, mode

Sync == INSTANCE DogStream

\* A recorder writes scans, and images, in the order of capture.
ASSUME ReplayAssumption ==
  /\ Sync!DogStreamAssumption /\ Guard \in Nat
  /\ \A w \in Windows : w.start \in Int /\ w.count \in Int /\ w.stride \in Int
  /\ \A l \in Logs :
       /\ l.scans \in Seq(Times) /\ l.scans # <<>> /\ l.images \in Seq(Times)
       /\ \A i, j \in DOMAIN l.scans : i < j => l.scans[i] <= l.scans[j]
       /\ \A i, j \in DOMAIN l.images : i < j => l.images[i] < l.images[j]

syncVars   == <<scanT, images, poses, scans, pending, frames, lost, emitted,
                droppedOld, droppedOverflow, throws, ordered, mode>>
sourceVars == <<log, window, si, ki, fed>>
-----------------------------------------------------------------------------
\* The index openCamera builds: an image whose header is whole is in it, whether
\* or not its pixels are.
Indexed == IF log.cut = "header" THEN Front(log.images) ELSE log.images

\* decodeImageAt finds all pixels of the k-th image.
Readable(k) == ~ (log.cut = "pixels" /\ k = Len(log.images))

\* The window [start, end) of images, counted from 1 here.  The driver hands on a
\* count that is not positive as -1, all of them.
Start  == IF window.start < 0 THEN 0 ELSE window.start
End    == IF window.count <= 0 \/ Start + window.count > Len(Indexed)
            THEN Len(Indexed) ELSE Start + window.count
Step   == IF window.stride < 1 THEN 1 ELSE window.stride
Window == {k \in DOMAIN Indexed : Start < k /\ k <= End}

Selected == {k \in Window : (k - Start - 1) % Step = 0}

\* Mutant: no scan before the window is fed.
LoGuardTight == log.images[Start + 1]

\* Poses are fed from a guard band before the first image to one after the last.
LoGuard == log.images[Start + 1] - Guard
HiGuard == log.images[End] + Guard

\* The first scan inside the guard band, or the end of the log.
FirstScan ==
  IF Window = {} THEN 1
  ELSE CHOOSE j \in 1 .. Len(log.scans) + 1 :
         /\ \A i \in 1 .. j - 1 : log.scans[i] < LoGuard
         /\ j <= Len(log.scans) => LoGuard <= log.scans[j]

SourceInit ==
  /\ log \in Logs /\ window \in Windows
  /\ si = FirstScan /\ ki = Start + 1 /\ fed = <<>>
  /\ Sync!Init /\ ordered = TRUE

\* main: the server is asked first, then begin().
StartReplay == (Begin \/ StartFails) /\ UNCHANGED <<sourceVars, syncVars>>

HaveScan  == Window # {} /\ si <= Len(log.scans) /\ log.scans[si] <= HiGuard
HaveImage == ki \in Window

\* Scans win ties.
ScanFirst == HaveImage => log.scans[si] <= Indexed[ki]

FeedScan ==
  /\ phase = "running" /\ HaveScan /\ ScanFirst
  /\ Sync!PushScan(log.scans[si])
  /\ si' = si + 1
  /\ UNCHANGED <<log, window, ki, fed, driverVars, wire, viewerVars>>

ImageNext == phase = "running" /\ mode = "idle" /\ HaveImage /\ ~ (HaveScan /\ ScanFirst)

FeedImage ==
  /\ ImageNext
  /\ ki \in Selected /\ Readable(ki)
  /\ Sync!PushImage(Indexed[ki])
  /\ ki' = ki + 1
  /\ fed' = Append(fed, ki)
  /\ UNCHANGED <<log, window, si, driverVars, wire, viewerVars>>

PassImage ==
  /\ ImageNext
  /\ ki \notin Selected
  /\ ki' = ki + 1
  /\ UNCHANGED <<log, window, si, fed, syncVars, driverVars, wire, viewerVars>>

\* The exception of an unreadable image, or of a frame, reaches main: neither
\* finish() nor the final map.
Abort == phase' = "error"

UnreadableImage ==
  /\ ImageNext
  /\ ki \in Selected /\ ~Readable(ki)
  /\ Abort
  /\ UNCHANGED <<program, on, viz, calls, done, map, proposals, superpoints, objects, seg,
                 lastSp, folded, unsent, sourceVars, syncVars, wire, viewerVars>>

FlushAtEnd ==
  /\ phase = "running" /\ ~HaveScan /\ ~HaveImage
  /\ Sync!Flush
  /\ phase' = "flushing"
  /\ UNCHANGED <<program, on, viz, calls, done, map, proposals, superpoints, objects, seg,
                 lastSp, folded, unsent, sourceVars, wire, viewerVars>>

\* The synchroniser emits a frame: its hook is onSynced.
Frame ==
  /\ phase \in {"running", "flushing"}
  /\ Sync!Emit
  /\ \/ throws' = throws /\ OnSynced("return") /\ UNCHANGED phase
     \/ throws' # throws /\ \E end \in Ends \ {"return"} : OnSynced(end) /\ Abort
  /\ UNCHANGED <<sourceVars, viewerVars>>

DrainOnly ==
  /\ phase \in {"running", "flushing"}
  /\ Sync!DrainReturn \/ Sync!DropTooOld \/ Sync!DropAtFlush
  /\ UNCHANGED <<sourceVars, driverVars, wire, viewerVars>>

FinishReplay ==
  /\ phase = "flushing" /\ mode = "idle"
  /\ Finish
  /\ UNCHANGED <<sourceVars, syncVars, viewerVars>>

ReplayNext ==
  \/ StartReplay
  \/ FeedScan \/ FeedImage \/ PassImage \/ UnreadableImage \/ FlushAtEnd
  \/ Frame \/ DrainOnly \/ FinishReplay
-----------------------------------------------------------------------------
TimeOf(k) == log.images[k]

AllScans == DOMAIN log.scans
Near(k) == {j \in AllScans : TimeOf(k) - Guard <= log.scans[j] /\ log.scans[j] <= TimeOf(k) + Guard}

\* The scans of S on either side of an image.
Earlier(k, S) == {j \in S : log.scans[j] <= TimeOf(k)}
Later(k, S)   == {j \in S : TimeOf(k) <= log.scans[j]}

Bracketed(k, S) == Earlier(k, S) # {} /\ Later(k, S) # {}

\* The selected images waiting behind image k when the scan after it comes, too
\* many of which push it out of the queue.
Behind(k, S) == {m \in Selected : m > k /\ \A j \in Later(k, S) : TimeOf(m) < log.scans[j]}
Crowded(k, S) == Cardinality(Behind(k, S)) >= Sync!MaxPending

Delivered == {fed[frames[n].image] : n \in DOMAIN frames}

\* A replay that ends normally has put through every stride-th image of its window
\* that has scans within the guard band of it on either side, and is not crowded
\* out of the queue; also at both ends of the window (dog_log_ingestor.cpp:9-11 "so
\* the boundary images are bracketed").  None is put through that the log's scans do
\* not bracket, and the server's tracker, which is stateful, meets them in the order
\* of capture.
ReplayDelivers ==
  program = "replay" /\ phase = "finished" =>
    /\ \A k \in Selected : Bracketed(k, Near(k)) /\ ~Crowded(k, Near(k)) => k \in Delivered
    /\ \A k \in Delivered : k \in Selected /\ Bracketed(k, AllScans) /\ ~Crowded(k, AllScans)
    /\ \A m, n \in DOMAIN frames : m < n =>
         TimeOf(fed[frames[m].image]) < TimeOf(fed[frames[n].image])
=============================================================================
