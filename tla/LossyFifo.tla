------------------------------ MODULE LossyFifo ------------------------------
(***************************************************************************)
(* What the CAN transmit path promises to the code that queues frames,     *)
(* whatever happens to the queue: a frame is handed to the serial port     *)
(* after it was queued, at most once, and never after a frame that was     *)
(* queued later.  Frames may be lost; they are never duplicated or         *)
(* reordered.  Frames are named by the order in which they were queued.    *)
(***************************************************************************)
EXTENDS Naturals, Sequences

VARIABLES
  offered,    \* how many frames have been queued so far
  delivered   \* the frames handed to the serial port, in order

vars == <<offered, delivered>>

LastDelivered == IF delivered = <<>> THEN 0 ELSE delivered[Len(delivered)]

Init ==
  /\ offered = 0
  /\ delivered = <<>>

Offer ==
  /\ offered' = offered + 1
  /\ UNCHANGED delivered

\* Delivering a frame gives up every older one that was not delivered.
Deliver ==
  \E frame \in LastDelivered + 1 .. offered :
    /\ delivered' = Append(delivered, frame)
    /\ UNCHANGED offered

Next == Offer \/ Deliver

Spec == Init /\ [][Next]_vars
=============================================================================
