------------------------------ MODULE UsbQueue ------------------------------
(***************************************************************************)
(* The queue of replies between commands.c and the interrupt endpoint, as  *)
(* its users see it: packets leave in the order they came, cut in chunks   *)
(* of at most 8 bytes.  A packet is a pointer and a length; the bytes are  *)
(* read from the buffer when a chunk is handed to the driver, not when the *)
(* packet is queued.  UsbData is the ring that implements this queue.      *)
(*                                                                         *)
(* A queue is a record: its packets, and how much of the first one has     *)
(* been handed out.                                                        *)
(***************************************************************************)
EXTENDS Integers, Sequences

MaxChunk == 8   \* bytes in a low-speed USB packet

EmptyQueue == [packets |-> <<>>, index |-> 0]

(* usb_send_data                                                           *)
Enqueue(q, buf, length) ==
  [q EXCEPT !.packets = Append(@, [buf |-> buf, length |-> length])]

HasPacket(q) == q.packets # <<>>

(* Mutant of NextChunk: every chunk is taken from the start of the buffer. *)
NextChunkFromStart(q) ==
  LET rest == Head(q.packets).length - q.index
  IN  [buf |-> Head(q.packets).buf,
       off |-> 0,
       len |-> IF rest > MaxChunk THEN MaxChunk ELSE rest]

(* Where the chunk that usb_send_next_data hands over lies.                *)
NextChunk(q) ==
  LET rest == Head(q.packets).length - q.index
  IN  [buf |-> Head(q.packets).buf,
       off |-> q.index,
       len |-> IF rest > MaxChunk THEN MaxChunk ELSE rest]

(* Mutant of Dequeue: a packet whose last chunk is full is kept.           *)
DequeueLate(q) ==
  IF Head(q.packets).length - q.index >= MaxChunk
    THEN [q EXCEPT !.index = @ + MaxChunk]
    ELSE [packets |-> Tail(q.packets), index |-> 0]

(* What usb_send_next_data leaves: a packet goes with its last chunk.      *)
Dequeue(q) ==
  IF Head(q.packets).length - q.index > MaxChunk
    THEN [q EXCEPT !.index = @ + MaxChunk]
    ELSE [packets |-> Tail(q.packets), index |-> 0]
=============================================================================
