----------------------------- MODULE BlockStore -----------------------------
(***************************************************************************)
(* What the flash drive promises the host about its data, with nothing     *)
(* said of SRAM pages, dirty bits or the main loop.  The disk is what a    *)
(* READ returns; the durable copy is what survives a loss of power; the    *)
(* pending blocks are those the device has been given and has not finished *)
(* storing, the only ones in which the two may differ.                     *)
(***************************************************************************)
CONSTANTS Block,    \* the logical blocks
          Chunk,    \* the 8-byte pieces of a block, as they arrive by USB
          Values    \* what a piece can hold

VARIABLES disk,     \* disk[b][c]: what the host reads
          durable,  \* durable[b][c]: what a power cut leaves behind
          pending   \* the blocks whose durable copy may be out of date

vars == <<disk, durable, pending>>

Contents == [Block -> [Chunk -> Values]]

TypeOK == /\ disk \in Contents
          /\ durable \in Contents
          /\ pending \in SUBSET Block

Init == /\ disk \in Contents
        /\ durable = disk
        /\ pending = {}

Write(b, c, v) == /\ disk' = [disk EXCEPT ![b][c] = v]
                  /\ pending' = pending \union {b}
                  /\ UNCHANGED durable

(* Some pieces of a pending block reach permanent storage.                 *)
Persist(b, cs) ==
  /\ b \in pending
  /\ durable' = [durable EXCEPT ![b] =
                   [c \in Chunk |-> IF c \in cs THEN disk[b][c] ELSE @[c]]]
  /\ UNCHANGED <<disk, pending>>

(* A block stops being pending only when its durable copy is up to date.   *)
Settle(b) == /\ b \in pending
             /\ durable[b] = disk[b]
             /\ pending' = pending \ {b}
             /\ UNCHANGED <<disk, durable>>

(* A loss of power costs at most the contents of one pending block: the    *)
(* others keep their durable copy, and that is what is read afterwards.    *)
Crash == /\ durable' \in Contents
         /\ \E torn \in SUBSET pending :
              /\ \A b, bb \in torn : b = bb
              /\ \A b \in Block \ torn : durable'[b] = durable[b]
         /\ disk' = durable'
         /\ pending' = {}

Next == \/ \E b \in Block, c \in Chunk, v \in Values : Write(b, c, v)
        \/ \E b \in Block, cs \in SUBSET Chunk : Persist(b, cs)
        \/ \E b \in Block : Settle(b)
        \/ Crash

Spec == Init /\ [][Next]_vars
=============================================================================
