----------------------------- MODULE EepromBus -----------------------------
(***************************************************************************)
(* The EEPROM transfers of ext_eeprom.c on the TWI bus, one operation of   *)
(* twi.c per step: ext_eeprom_wait polls the chip until it answers, then a *)
(* page write or a read follows.  The chip, a 24AA512, runs beside it: its *)
(* address counter, the bytes it has taken for a page write, which a STOP  *)
(* makes it store and a new START makes it forget, and its write cycle, in *)
(* which it answers to nothing.                                            *)
(*                                                                         *)
(* An operation that fails ends the call without a STOP (RETURN_IF_ERROR), *)
(* so the next call begins with a repeated START.                          *)
(***************************************************************************)
EXTENDS Integers, Sequences

CONSTANTS
  PageSize,  \* EEPROM_PAGE_SIZE; 128 in the code
  Uint8,     \* 2^8: an address is two bytes
  MaxPolls,  \* the limit of ext_eeprom_wait; 10 in the code
  Values,    \* what a byte can hold
  NoValue,   \* a byte the chip was not given
  Reads,     \* the reads, <<addr, number>>
  Writes,    \* the page writes, <<addr, number>>
  Faults     \* of "bus" and "reset": operations that fail for no reason
             \* of the chip's, and watchdog resets

MemSize == Uint8 * Uint8
Addr    == 0 .. MemSize - 1

ASSUME BusAssumption ==
  /\ Uint8 \in Nat \ {0, 1}
  /\ PageSize \in 1 .. Uint8 /\ MemSize % PageSize = 0
  /\ MaxPolls \in Nat
  /\ NoValue \notin Values
  /\ Reads \subseteq Addr \X (1 .. Uint8)
  /\ \A w \in Writes : w[1] \in Addr /\ w[2] \in 1 .. PageSize
  /\ Faults \subseteq {"bus", "reset"}

(* The caller's buffer.                                                    *)
Index  == 0 .. Uint8 - 1
Buffer == [Index -> Values]

VARIABLES
  stage,         \* "idle" between calls, "poll" in ext_eeprom_wait, then
                 \* "transfer"
  op,            \* "read" for ext_eeprom_read_block, "write" for
                 \* ext_eeprom_write_page
  addr, number,  \* its arguments
  data,          \* the buffer it reads from or fills
  polls,         \* the count of ext_eeprom_wait
  pos,           \* operations of the transaction that are done
  ret,           \* what the last call returned
  held,          \* the chip keeps the data line low
  listening,     \* what the chip takes the next byte for
  pointer,       \* its address counter
  latch,         \* the bytes it has for a page write
  programming,   \* its write cycle is running
  eeprom         \* its memory

call == <<stage, op, addr, number, data, polls, pos, ret>>
chip == <<listening, pointer, latch, programming, eeprom>>
vars == <<call, held, chip>>

NoLatch == [a \in Addr |-> NoValue]

Init ==
  /\ stage = "idle" /\ ret = "none"
  /\ op = "read" /\ addr = 0 /\ number = 1
  /\ data \in {[i \in Index |-> v] : v \in Values}
  /\ polls = 0 /\ pos = 0
  /\ held = FALSE
  /\ listening = "off" /\ pointer = 0 /\ latch = NoLatch
  /\ programming = FALSE
  /\ eeprom \in [Addr -> Values]

(* ext_eeprom_is_ready reads one byte from address 0.                      *)
Reading == stage = "poll" \/ op = "read"
Target  == IF stage = "poll" THEN 0 ELSE addr
Length  == IF stage = "poll" THEN 1 ELSE number

(* The TWI operations of the transaction in progress: address_write_prefix *)
(* or address_read_prefix, the bytes, and twi_stop.                        *)
Transaction ==
  <<"START", "SLA_W", "HI", "LO">> \o
    IF Reading
      THEN <<"START", "SLA_R">> \o [i \in 1 .. Length - 1 |-> "READ_ACK"]
             \o <<"READ_NACK", "STOP">>
      ELSE [i \in 1 .. Length |-> "DATA"] \o <<"STOP">>

Operation == Transaction[pos + 1]

(* The byte of the buffer that DATA, READ_ACK and READ_NACK are about.     *)
DataIndex == IF Reading THEN pos - 6 ELSE pos - 4

Begin(o, a, n) ==
  /\ stage = "idle"
  /\ stage' = "poll" /\ polls' = 0 /\ pos' = 0
  /\ op' = o /\ addr' = a /\ number' = n
  /\ ret' = "none"
  /\ UNCHANGED <<held, chip>>

(* The reads of the functions for a byte and a word, from address a.       *)
ext_eeprom_read_byte(a) == <<a, 1>>
ext_eeprom_read_word(a) == <<a, 2>>

ext_eeprom_read_block ==
  \E r \in Reads : Begin("read", r[1], r[2]) /\ UNCHANGED data

ext_eeprom_write_page ==
  /\ data' \in Buffer
  /\ \E w \in Writes : Begin("write", w[1], w[2])

(***************************************************************************)
(* The chip.                                                               *)
(***************************************************************************)

(* In its write cycle the chip does not answer to its address.             *)
Acknowledged == Operation \in {"SLA_W", "SLA_R"} => ~programming

(* Mutant of AddressByte: the two bytes are sent in the wrong order.       *)
AddressByteSwapped(half) ==
  IF half = "HI" THEN Target % Uint8 ELSE Target \div Uint8

(* The two bytes address_write_prefix sends.                               *)
AddressByte(half) ==
  IF half = "HI" THEN Target \div Uint8 ELSE Target % Uint8

(* The counter stays in its page while it takes bytes.                     *)
NextInPage(a) == (a - (a % PageSize)) + ((a + 1) % PageSize)

ChipStart ==
  /\ Operation = "START"
  /\ listening' = "address"
  /\ latch' = NoLatch
  /\ UNCHANGED <<pointer, programming, eeprom>>

ChipAddressed ==
  /\ \/ Operation = "SLA_W" /\ listening' = "HI"
     \/ Operation = "SLA_R" /\ listening' = "read"
  /\ UNCHANGED <<pointer, latch, programming, eeprom>>

ChipPointer ==
  /\ \/ /\ Operation = "HI"
        /\ pointer' = (AddressByte("HI") * Uint8) + (pointer % Uint8)
        /\ listening' = "LO"
     \/ /\ Operation = "LO"
        /\ pointer' = (pointer \div Uint8) * Uint8 + AddressByte("LO")
        /\ listening' = "data"
  /\ UNCHANGED <<latch, programming, eeprom>>

ChipTakesByte ==
  /\ Operation = "DATA"
  /\ latch' = [latch EXCEPT ![pointer] = data[DataIndex]]
  /\ pointer' = NextInPage(pointer)
  /\ UNCHANGED <<listening, programming, eeprom>>

ChipGivesByte ==
  /\ Operation \in {"READ_ACK", "READ_NACK"}
  /\ pointer' = (pointer + 1) % MemSize
  /\ listening' = IF Operation = "READ_ACK" THEN "read" ELSE "off"
  /\ UNCHANGED <<latch, programming, eeprom>>

ChipStop ==
  /\ Operation = "STOP"
  /\ eeprom' = [a \in Addr |->
                  IF latch[a] = NoValue THEN eeprom[a] ELSE latch[a]]
  /\ programming' = (programming \/ latch # NoLatch)
  /\ latch' = NoLatch
  /\ listening' = "off"
  /\ UNCHANGED pointer

ChipSees == \/ ChipStart \/ ChipAddressed \/ ChipPointer
            \/ ChipTakesByte \/ ChipGivesByte \/ ChipStop

WriteCycleEnds ==
  /\ programming
  /\ programming' = FALSE
  /\ UNCHANGED <<call, held, listening, pointer, latch, eeprom>>

(***************************************************************************)
(* The calls.                                                              *)
(***************************************************************************)

(* What an operation that returns TWI_OK leads to.                         *)
Continue ==
  IF pos + 1 < Len(Transaction)
    THEN pos' = pos + 1 /\ UNCHANGED <<stage, ret>>
    ELSE /\ pos' = 0
         /\ \/ stage = "poll" /\ stage' = "transfer" /\ UNCHANGED ret
            \/ stage = "transfer" /\ stage' = "idle" /\ ret' = "TWI_OK"

(* twi_read_byte stores a byte when it has come.                           *)
Store ==
  data' = IF stage = "transfer" /\ Operation \in {"READ_ACK", "READ_NACK"}
            THEN [data EXCEPT ![DataIndex] = eeprom[pointer]]
            ELSE data

TwiOk ==
  /\ stage # "idle" /\ ~held
  /\ Acknowledged
  /\ ChipSees
  /\ Continue
  /\ Store
  /\ UNCHANGED <<op, addr, number, polls, held>>

(* Mutant of GiveUp: one poll too many.                                    *)
GiveUpLate == polls > MaxPolls

(* ext_eeprom_wait has polled often enough.                                *)
GiveUp == polls >= MaxPolls

(* Mutant of NextPoll: the polls are not counted.                          *)
NextPollUncounted == polls

NextPoll == polls + 1

(* What one that returns TWI_ERR leads to: the next poll, or the end.      *)
Abort ==
  /\ pos' = 0
  /\ IF stage = "poll" /\ ~GiveUp
       THEN polls' = NextPoll /\ UNCHANGED <<stage, ret>>
       ELSE stage' = "idle" /\ ret' = "TWI_ERR" /\ UNCHANGED polls
  /\ UNCHANGED <<op, addr, number, data, held>>

(* The chip does not acknowledge.                                          *)
TwiNack ==
  /\ stage # "idle" /\ ~held
  /\ ~Acknowledged
  /\ listening' = "off"
  /\ Abort
  /\ UNCHANGED <<pointer, latch, programming, eeprom>>

(* Any operation but twi_stop, which tests nothing, fails, whether or not  *)
(* the chip has seen it.                                                   *)
TwiFails ==
  /\ "bus" \in Faults
  /\ stage # "idle" /\ ~held
  /\ Operation # "STOP"
  /\ (Acknowledged /\ ChipSees) \/ UNCHANGED chip
  /\ Abort

(* The watchdog resets the processor; the chip goes on.  If it was driving *)
(* the data line low it keeps it low, and no START comes through.          *)
WatchdogReset ==
  /\ "reset" \in Faults
  /\ stage' = "idle" /\ ret' = "none"
  /\ op' = "read" /\ addr' = 0 /\ number' = 1
  /\ polls' = 0 /\ pos' = 0
  /\ held' \in IF listening = "off" THEN {held} ELSE {held, TRUE}
  /\ UNCHANGED <<data, chip>>

Next == \/ ext_eeprom_read_block
        \/ ext_eeprom_write_page
        \/ TwiOk
        \/ TwiNack
        \/ TwiFails
        \/ WriteCycleEnds
        \/ WatchdogReset

(* The TWI unit completes its operations unless the line is held.  Nothing *)
(* is asked of the chip's write cycle.                                     *)
Spec     == Init /\ [][Next]_vars
FairSpec == Spec /\ WF_vars(TwiOk \/ TwiNack)

-----------------------------------------------------------------------------
(* Every variable keeps to its range; the count of polls stays within its  *)
(* limit and the buffer is not left.                                       *)
TypeOK ==
  /\ stage \in {"idle", "poll", "transfer"}
  /\ op \in {"read", "write"}
  /\ addr \in Addr /\ number \in 1 .. Uint8
  /\ data \in Buffer
  /\ polls \in 0 .. MaxPolls
  /\ pos \in 0 .. Len(Transaction) - 1
  /\ ret \in {"none", "TWI_OK", "TWI_ERR"}
  /\ held \in BOOLEAN
  /\ listening \in {"off", "address", "HI", "LO", "data", "read"}
  /\ pointer \in Addr
  /\ latch \in [Addr -> Values \union {NoValue}]
  /\ programming \in BOOLEAN
  /\ eeprom \in [Addr -> Values]

(* The call as its caller sees it: what a read has fetched counts when it  *)
(* returns TWI_OK.                                                         *)
CallOf(o, a, n, bytes) == [op |-> o, addr |-> a, number |-> n, bytes |-> bytes]

AllCalls ==
  {CallOf("read", r[1], r[2], <<>>) : r \in Reads} \union
  {CallOf("write", w[1], w[2], d) : w \in Writes, d \in Buffer}

NoCall == CallOf("none", 0, 0, <<>>)

Promise == INSTANCE EepromPages
  WITH Calls <- AllCalls,
       call  <- IF stage = "idle" THEN NoCall
                ELSE CallOf(op, addr, number,
                            IF op = "write" THEN data ELSE <<>>),
       reply <- [ret   |-> ret,
                 bytes |-> IF stage = "idle" /\ ret = "TWI_OK" /\ op = "read"
                             THEN [i \in 0 .. number - 1 |-> data[i]]
                             ELSE <<>>]

(* A transfer is all or nothing: though ext_eeprom_wait moves the chip's   *)
(* address, though a call that fails leaves the bus without a STOP and the *)
(* chip with half a page, and though the processor may be reset in the     *)
(* middle, a call that returns TWI_OK has moved exactly its bytes and one  *)
(* that returns TWI_ERR has left the EEPROM as it was.                     *)
KeepsPromise == Promise!Spec

(* A call returns: ext_eeprom_wait (ext_eeprom.c:48-59) gives up although  *)
(* the write cycle may go on for ever; only a data line held low by the    *)
(* chip, where the loops of twi.c have no limit, keeps it from returning.  *)
CallsReturn == (stage # "idle") ~> (stage = "idle" \/ held)

(* The operations a call can still take: those of the polls that are left, *)
(* eight each, and of the transfer.                                        *)
Remaining ==
  (IF stage = "poll" THEN (MaxPolls - polls + 1) * 8 + number + 7
                     ELSE Len(Transaction)) - pos

(* A call takes a bounded number of operations, whatever they return:      *)
(* every one, the failed poll that makes ext_eeprom_wait (ext_eeprom.c:    *)
(* 48-59) begin again included, ends it or leaves it less to do.           *)
CallsRunDown ==
  [][TwiOk \/ TwiNack \/ TwiFails =>
       stage' = "idle" \/ Remaining' \in 0 .. Remaining - 1]_vars
=============================================================================
