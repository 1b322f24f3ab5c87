---------------------------- MODULE EepromPages ----------------------------
(***************************************************************************)
(* What a transfer to or from the EEPROM promises its caller: a page write *)
(* or a read happens whole and returns TWI_OK, or returns TWI_ERR and has  *)
(* changed nothing.  Storage's PageWritten and PageFails are these two.    *)
(***************************************************************************)
EXTENDS Integers

CONSTANTS PageSize, MemSize, Values, Calls, NoCall

VARIABLES
  eeprom,       \* the memory
  programming,  \* it is in its self-timed write cycle
  call,         \* the transfer asked for, or NoCall
  reply         \* what the last one returned, with the bytes of a read

vars == <<eeprom, programming, call, reply>>

Addr == 0 .. MemSize - 1

Returned(r) == [ret |-> r, bytes |-> <<>>]

Init == /\ eeprom \in [Addr -> Values]
        /\ programming = FALSE
        /\ call = NoCall
        /\ reply = Returned("none")

(* Byte i of a write starting at a: the write stays in the page of a.      *)
PageAddress(a, i) == (a - (a % PageSize)) + (((a % PageSize) + i) % PageSize)

Ask == /\ call = NoCall
       /\ call' \in Calls
       /\ reply' = Returned("none")
       /\ UNCHANGED <<eeprom, programming>>

WriteDone ==
  /\ call # NoCall /\ call.op = "write" /\ ~programming
  /\ eeprom' = [a \in Addr |->
       IF \E i \in 0 .. call.number - 1 : PageAddress(call.addr, i) = a
         THEN call.bytes[CHOOSE i \in 0 .. call.number - 1 :
                           PageAddress(call.addr, i) = a]
         ELSE eeprom[a]]
  /\ programming' = TRUE
  /\ call' = NoCall
  /\ reply' = Returned("TWI_OK")

ReadDone ==
  /\ call # NoCall /\ call.op = "read" /\ ~programming
  /\ reply' = [ret   |-> "TWI_OK",
               bytes |-> [i \in 0 .. call.number - 1 |->
                            eeprom[(call.addr + i) % MemSize]]]
  /\ call' = NoCall
  /\ UNCHANGED <<eeprom, programming>>

Fail == /\ call # NoCall
        /\ call' = NoCall
        /\ reply' = Returned("TWI_ERR")
        /\ UNCHANGED <<eeprom, programming>>

WriteCycleEnds == /\ programming
                  /\ programming' = FALSE
                  /\ UNCHANGED <<eeprom, call, reply>>

(* The caller is gone.                                                     *)
Reset == /\ call' = NoCall
         /\ reply' = Returned("none")
         /\ UNCHANGED <<eeprom, programming>>

Next == Ask \/ WriteDone \/ ReadDone \/ Fail \/ WriteCycleEnds \/ Reset

Spec == Init /\ [][Next]_vars
=============================================================================
