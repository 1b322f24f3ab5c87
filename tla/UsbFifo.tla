------------------------------ MODULE UsbFifo ------------------------------
(***************************************************************************)
(* The queue as a specification: what the ring of UsbData must look like   *)
(* from outside.  `handed' is the chunk given to the driver last.          *)
(***************************************************************************)
EXTENDS UsbQueue

CONSTANTS Buf, Lengths, NoChunk

VARIABLES queue, handed

Init == queue = EmptyQueue /\ handed = NoChunk

Send(buf, length) == queue' = Enqueue(queue, buf, length) /\ UNCHANGED handed

SendNext == /\ HasPacket(queue)
            /\ handed' = NextChunk(queue)
            /\ queue' = Dequeue(queue)

Next == \/ \E buf \in Buf, length \in Lengths : Send(buf, length)
        \/ SendNext

Spec == Init /\ [][Next]_<<queue, handed>>
=============================================================================
