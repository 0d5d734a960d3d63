--------------------------- MODULE ImageDelivery ---------------------------
(***************************************************************************)
(* What DogStream promises about the images pushed into it, without poses, *)
(* scans or time: an image waits in arrival order, leaves the front of the *)
(* queue, and on leaving is either delivered to the consumer or lost.      *)
(* Images are named by their arrival number.                               *)
(***************************************************************************)
EXTENDS Naturals, Sequences

CONSTANT MaxPending  \* how many images may wait (>= 1)

VARIABLES accepted,   \* number of images accepted so far
          queue,      \* arrival numbers of the waiting images, oldest first
          delivered,  \* arrival numbers delivered, in delivery order
          lost        \* arrival numbers that will never be delivered

deliveryVars == <<accepted, queue, delivered, lost>>

Init ==
  /\ accepted = 0
  /\ queue = <<>>
  /\ delivered = <<>>
  /\ lost = {}

\* A new image joins the queue; at capacity the oldest waiting image makes room.
Accept ==
  /\ accepted' = accepted + 1
  /\ \/ /\ Len(queue) < MaxPending
        /\ queue' = Append(queue, accepted + 1)
        /\ UNCHANGED lost
     \/ /\ Len(queue) = MaxPending
        /\ queue' = Append(Tail(queue), accepted + 1)
        /\ lost' = lost \union {Head(queue)}
  /\ UNCHANGED delivered

Deliver ==
  /\ queue # <<>>
  /\ queue' = Tail(queue)
  /\ delivered' = Append(delivered, Head(queue))
  /\ UNCHANGED <<accepted, lost>>

Discard ==
  /\ queue # <<>>
  /\ queue' = Tail(queue)
  /\ lost' = lost \union {Head(queue)}
  /\ UNCHANGED <<accepted, delivered>>

Next == Accept \/ Deliver \/ Discard

Spec == Init /\ [][Next]_deliveryVars
-----------------------------------------------------------------------------
\* The arrival number of the oldest image not yet resolved is Resolved + 1.
Resolved == accepted - Len(queue)

TypeOK ==
  /\ accepted \in Nat
  /\ queue \in Seq(Nat)
  /\ delivered \in Seq(Nat)
  /\ lost \subseteq Nat
  /\ Len(queue) <= MaxPending

\* The waiting images are exactly the last ones accepted, in arrival order.
QueueIsSuffix ==
  /\ Len(queue) <= accepted
  /\ \A k \in 1 .. Len(queue) : queue[k] = Resolved + k

\* Delivery is in arrival order, and so at most once.
InArrivalOrder ==
  \A j, k \in 1 .. Len(delivered) : j < k => delivered[j] < delivered[k]

\* No image is both delivered and lost, and no image that left the queue is
\* neither: nothing disappears silently and nothing is handed out after it was
\* reported dropped.
ExactlyOneFate ==
  /\ \A k \in 1 .. Len(delivered) : delivered[k] \in 1 .. Resolved
  /\ lost \subseteq 1 .. Resolved
  /\ \A k \in 1 .. Len(delivered) : delivered[k] \notin lost
  /\ \A i \in 1 .. Resolved : i \in lost \/ \E k \in 1 .. Len(delivered) : delivered[k] = i
=============================================================================
