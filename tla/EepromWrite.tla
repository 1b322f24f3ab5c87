---------------------------- MODULE EepromWrite ----------------------------
(***************************************************************************)
(* ext_eeprom_write_block: a block of bytes is cut into page writes for    *)
(* the EEPROM chip, one per iteration of the loop.  A call is its address  *)
(* and number of bytes; the i-th byte of its data is written i, whatever   *)
(* lies behind the data is written by the numbers that follow, and what    *)
(* the EEPROM held before is 0.                                            *)
(*                                                                         *)
(* Storage uses this for whole pages only; ext_eeprom.c promises it for    *)
(* any address and number.                                                 *)
(***************************************************************************)
EXTENDS Integers

CONSTANTS
  PageSize,   \* EEPROM_PAGE_SIZE; 128 in the code
  MemSize,    \* bytes of the EEPROM and values of a uint16_t address; 2^16
  Calls,      \* the calls, <<addr, number>>
  TwiMayFail  \* whether a page write may return TWI_ERR

ASSUME EepromAssumption ==
  /\ PageSize \in Nat \ {0}
  /\ MemSize \in Nat \ {0} /\ MemSize % PageSize = 0
  /\ \A c \in Calls : c[1] \in 0 .. MemSize - 1 /\ c[2] \in 1 .. MemSize - 1
  /\ TwiMayFail \in BOOLEAN

Addr == 0 .. MemSize - 1

(* The calls the functions for single values make, for address a.          *)
ext_eeprom_write_byte(a)  == <<a, 1>>
ext_eeprom_write_word(a)  == <<a, 2>>
ext_eeprom_write_dword(a) == <<a, 4>>

VARIABLES
  addr, number,    \* the arguments
  current_addr,    \* where the next page write starts
  current_number,  \* bytes written so far
  ret,             \* "none" in the loop, then what it returns
  eeprom           \* the memory of the chip

vars == <<addr, number, current_addr, current_number, ret, eeprom>>

Init == /\ \E c \in Calls : addr = c[1] /\ number = c[2]
        /\ current_addr = addr
        /\ current_number = 0
        /\ ret = "none"
        /\ eeprom = [a \in Addr |-> 0]

(* Mutants of ToWrite: without the limit at the end of the data, and with  *)
(* one byte less than is left.                                             *)
ToWriteUnlimited == PageSize - (addr % PageSize)

ToWriteShort ==
  LET toPageEnd == PageSize - (addr % PageSize)
  IN  IF current_addr + toPageEnd > addr + number
        THEN addr + number - current_addr - 1
        ELSE toPageEnd

(* How much the next page write is given: up to the end of the page that   *)
(* `addr' is in, or up to the end of the data, compared in 32 bits.        *)
ToWrite ==
  LET toPageEnd == PageSize - (addr % PageSize)
  IN  IF current_addr + toPageEnd > addr + number
        THEN addr + number - current_addr
        ELSE toPageEnd

(* A page write of n bytes from address a on: the chip counts up within    *)
(* the page and starts over at its beginning.                              *)
PageAddress(a, i) == (a - (a % PageSize)) + (((a % PageSize) + i) % PageSize)

PageWritten(a, first, n) ==
  [x \in Addr |->
     IF \E i \in 0 .. n - 1 : PageAddress(a, i) = x
       THEN first + 1 + CHOOSE i \in 0 .. n - 1 : PageAddress(a, i) = x
       ELSE eeprom[x]]

(* Mutant of BytesLeft: one byte too early.                                *)
BytesLeftEarly == current_number + 1 < number

(* The condition of the loop.                                              *)
BytesLeft == current_number < number

(* One iteration of the loop.                                              *)
WritePage ==
  /\ ret = "none"
  /\ BytesLeft
  /\ eeprom' = PageWritten(current_addr, current_number, ToWrite)
  /\ current_number' = current_number + ToWrite
  /\ current_addr' = (current_addr + ToWrite) % MemSize
  /\ UNCHANGED <<addr, number, ret>>

(* A page write that fails ends the call; without a stop condition the     *)
(* chip does not start to write.                                           *)
PageFails ==
  /\ TwiMayFail
  /\ ret = "none"
  /\ BytesLeft
  /\ ret' = "TWI_ERR"
  /\ UNCHANGED <<addr, number, current_addr, current_number, eeprom>>

Return ==
  /\ ret = "none"
  /\ ~BytesLeft
  /\ ret' = "TWI_OK"
  /\ UNCHANGED <<addr, number, current_addr, current_number, eeprom>>

Next == WritePage \/ PageFails \/ Return

Spec == Init /\ [][Next]_vars

-----------------------------------------------------------------------------
(* What the call is to leave at an address: byte i of the data at addr + i,*)
(* counted on from 0 past the end of the memory (ext_eeprom.c:140).        *)
Intended(a) ==
  LET i == (a - addr) % MemSize IN IF i < number THEN i + 1 ELSE 0

(* A write never leaves a byte where it does not belong: after each page,  *)
(* and after a failure in the middle, every byte of the EEPROM is the one  *)
(* the caller asked for or the old one.                                    *)
NothingMisplaced ==
  \A a \in Addr : eeprom[a] \in {0, Intended(a)}

(* When the call returns TWI_OK, all its bytes are in place.               *)
CompleteWhenOk ==
  ret = "TWI_OK" => \A a \in Addr : eeprom[a] = Intended(a)

(* Each iteration gives ext_eeprom_write_page at least one byte, so that   *)
(* the loop comes to its end, none past the end of the data, and none past *)
(* the end of the chip's page, where the chip would start over             *)
(* (ext_eeprom.c:150-168).                                                 *)
PageWritesFit ==
  ret = "none" /\ BytesLeft =>
    /\ ToWrite \in 1 .. number - current_number
    /\ (current_addr % PageSize) + ToWrite <= PageSize
=============================================================================
