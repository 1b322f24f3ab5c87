------------------------------ MODULE RamCell ------------------------------
(***************************************************************************)
(* What ram_write_byte and ram_read_byte promise: a memory of bytes.  A    *)
(* write stores its byte at its address before it returns, and a read      *)
(* returns the byte last written there.                                    *)
(***************************************************************************)
CONSTANTS Address, Values,
          NoCall     \* no call is in progress

Call == [op : {"read"}, addr : Address]
          \union [op : {"write"}, addr : Address, data : Values]

VARIABLES mem, call, result

vars == <<mem, call, result>>

Init == /\ mem \in [Address -> Values]
        /\ call = NoCall
        /\ result \in Values

Begin == /\ call = NoCall
         /\ call' \in Call
         /\ UNCHANGED <<mem, result>>

Store == /\ call # NoCall /\ call.op = "write"
         /\ mem' = [mem EXCEPT ![call.addr] = call.data]
         /\ UNCHANGED <<call, result>>

Return == /\ call # NoCall
          /\ mem[call.addr] = IF call.op = "write" THEN call.data ELSE result
          /\ call' = NoCall
          /\ UNCHANGED <<mem, result>>

(* A read takes the byte before it returns.                                *)
Fetch == /\ call # NoCall /\ call.op = "read"
         /\ result' = mem[call.addr]
         /\ UNCHANGED <<mem, call>>

Next == Begin \/ Store \/ Fetch \/ Return

Spec == Init /\ [][Next]_vars
=============================================================================
