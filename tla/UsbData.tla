------------------------------ MODULE UsbData ------------------------------
(***************************************************************************)
(* usbdata.c: the ring of pointers that queues the replies to the host.    *)
(* It has no test for being full; the code that calls usb_send_data must   *)
(* leave one slot free, which here is the guard of the environment and in  *)
(* MassStorage an invariant.                                               *)
(***************************************************************************)
EXTENDS Integers, Sequences

CONSTANTS
  BufferSize,  \* BUFFER_SIZE slots; 100 in the code
  Buf,         \* the buffers whose addresses are queued
  Lengths,     \* the lengths they are queued with
  NoBuf,       \* what a slot points to before it is used
  NoChunk      \* nothing has been handed to the driver

ASSUME RingAssumption ==
  /\ BufferSize \in Nat /\ BufferSize > 1
  /\ Lengths \subseteq 1 .. 255

VARIABLES
  packets,            \* packets[i]: the address in slot i
  packet_length,      \* packet_length[i]: its length
  packet_index_in,    \* where the next packet goes
  packet_index_out,   \* the packet being sent, or the next one to send
  during_send,        \* a packet has been started
  index_during_send,  \* bytes of it handed out; stale unless during_send
  handed              \* the chunk usbSetInterrupt got last

ring == <<packets, packet_length, packet_index_in, packet_index_out,
          during_send, index_during_send>>
vars == <<ring, handed>>

Slot == 0 .. BufferSize - 1

(* Mutant of NextSlot: the wrap comes one slot late.                       *)
NextSlotLate(i) == IF i + 1 > BufferSize THEN 0 ELSE i + 1

(* The increment of either index, with its wrap.                           *)
NextSlot(i) == IF i + 1 >= BufferSize THEN 0 ELSE i + 1

Occupied == (packet_index_in - packet_index_out) % BufferSize

Init == /\ packets = [i \in Slot |-> NoBuf]
        /\ packet_length = [i \in Slot |-> 0]
        /\ packet_index_in = 0
        /\ packet_index_out = 0
        /\ during_send = FALSE
        /\ index_during_send = 0
        /\ handed = NoChunk

(* The obligation of the callers.                                          *)
SlotLeft == NextSlot(packet_index_in) # packet_index_out

usb_send_data(buf, length) ==
  /\ packets' = [packets EXCEPT ![packet_index_in] = buf]
  /\ packet_length' = [packet_length EXCEPT ![packet_index_in] = length]
  /\ packet_index_in' = NextSlot(packet_index_in)
  /\ UNCHANGED <<packet_index_out, during_send, index_during_send, handed>>

(* Mutant of StartIndex: a new packet is not started at its first byte.    *)
StartIndexStale == index_during_send

(* Where the next chunk starts: a packet not started yet starts at 0.      *)
StartIndex == IF during_send THEN index_during_send ELSE 0

(* usb_send_next_data, when there is something to send: the last chunk of *)
(* a packet frees its slot.                                                *)
usb_send_next_data ==
  /\ during_send \/ packet_index_in # packet_index_out
  /\ LET rest == packet_length[packet_index_out] - StartIndex
         size == IF rest > 8 THEN 8 ELSE rest
     IN  /\ handed' = [buf |-> packets[packet_index_out],
                       off |-> StartIndex, len |-> size]
         /\ index_during_send' = StartIndex + size
         /\ during_send' = (rest > 8)
         /\ packet_index_out' = IF rest > 8 THEN packet_index_out
                                ELSE NextSlot(packet_index_out)
  /\ UNCHANGED <<packets, packet_length, packet_index_in>>

Send == /\ SlotLeft
        /\ \E buf \in Buf, length \in Lengths : usb_send_data(buf, length)

Next == Send \/ usb_send_next_data

Spec == Init /\ [][Next]_vars

-----------------------------------------------------------------------------
(* Indices stay inside the two arrays and the offset inside the longest    *)
(* packet; a slot in use holds a queued buffer.                            *)
TypeOK ==
  /\ packets \in [Slot -> Buf \union {NoBuf}]
  /\ packet_length \in [Slot -> Lengths \union {0}]
  /\ packet_index_in \in Slot
  /\ packet_index_out \in Slot
  /\ during_send \in BOOLEAN
  /\ index_during_send \in 0 .. 255

(* The queue the ring stands for.                                          *)
Abstract ==
  [packets |-> [i \in 1 .. Occupied |->
                  LET s == (packet_index_out + i - 1) % BufferSize
                  IN  [buf |-> packets[s], length |-> packet_length[s]]],
   index   |-> IF during_send THEN index_during_send ELSE 0]

Fifo == INSTANCE UsbFifo WITH queue <- Abstract

(* The ring of usbdata.c is a queue: through every wrap of the two indices *)
(* and every partly sent packet, each packet's bytes are handed out once,  *)
(* in order, none before its turn and none after its slot is reused.       *)
IsQueue == Fifo!Spec
=============================================================================
