----------------------------- MODULE UsbOutPipe -----------------------------
(***************************************************************************)
(* What the driver promises of an OUT endpoint: a slot for one packet      *)
(* between the interrupt routine that takes it and the main loop that      *)
(* processes it.  A packet taken is processed once, unchanged, before the  *)
(* next is taken; the host goes on to its next packet when it has seen the *)
(* acknowledgement, and sends the same one again when it has not.          *)
(***************************************************************************)
EXTENDS Integers

CONSTANTS Ids,     \* packets are numbered modulo Ids
          NoId     \* the slot is empty

VARIABLES next,    \* the packet the host sends next
          slot,    \* the packet taken and not processed, or NoId
          seen     \* the packet processed last

vars == <<next, slot, seen>>

Init == /\ next = 0
        /\ slot = NoId
        /\ seen = Ids - 1

(* The packet is taken; its acknowledgement may be lost.                   *)
Take == /\ slot = NoId
        /\ slot' = next
        /\ next' \in {next, (next + 1) % Ids}
        /\ UNCHANGED seen

Process == /\ slot # NoId
           /\ seen' = slot
           /\ slot' = NoId
           /\ UNCHANGED next

Next == Take \/ Process

Spec == Init /\ [][Next]_vars
=============================================================================
