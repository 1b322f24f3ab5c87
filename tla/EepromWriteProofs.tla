------------------------- MODULE EepromWriteProofs -------------------------
(***************************************************************************)
(* Theorems about EepromWrite, for every size of page and memory.          *)
(*                                                                         *)
(* They hold for the calls that WithinPages describes.  A call that starts *)
(* inside a page and is longer than one is cut in pieces of the distance   *)
(* to the end of its first page, and those come to lie across the end of   *)
(* another page as soon as that distance is no divisor of the page; the    *)
(* program has no such call.                                               *)
(***************************************************************************)
EXTENDS EepromWrite, DivMod

(* The call ends inside the memory, and starts at the beginning of a page  *)
(* or is not longer than a page.                                           *)
WithinPages == \A c \in Calls : /\ c[1] + c[2] <= MemSize
                                /\ c[1] % PageSize = 0 \/ c[2] <= PageSize

(* What is left of the first page.                                         *)
First == PageSize - (addr % PageSize)

Arguments ==
  /\ addr \in Addr /\ number \in 1 .. MemSize - 1
  /\ addr + number <= MemSize
  /\ addr % PageSize = 0 \/ number <= PageSize

(* Where the next page write starts: it comes in pages, or has passed the  *)
(* end of the first one.                                                   *)
Position ==
  /\ current_number \in 0 .. number
  /\ current_addr = (addr + current_number) % MemSize
  /\ \/ current_number = number
     \/ current_number = 0
     \/ addr % PageSize = 0 /\ current_number % PageSize = 0
     \/ number <= PageSize /\ current_number >= First

(* The memory has the bytes written so far, in place.                      *)
Written ==
  eeprom = [a \in Addr |-> IF a \in addr .. addr + current_number - 1
                             THEN a - addr + 1 ELSE 0]

WriteInv == /\ Arguments
            /\ Position
            /\ Written
            /\ ret = "TWI_OK" => current_number = number

USE EepromAssumption

-----------------------------------------------------------------------------
LEMMA FirstInPage ==
  ASSUME Arguments
  PROVE  /\ addr % PageSize \in 0 .. PageSize - 1
         /\ First \in 1 .. PageSize
         /\ First = PageSize - (addr % PageSize)
  BY Division DEF Arguments, Addr, First

(* Before the end of its data a call is inside the memory.                 *)
LEMMA NoWrap ==
  ASSUME Arguments, Position, BytesLeft
  PROVE  current_addr = addr + current_number /\ current_addr \in Addr
<1>1. addr + current_number \in 0 .. MemSize - 1
  BY DEF Arguments, Position, BytesLeft, Addr
<1> QED
  BY <1>1, RestOfSmall DEF Position, Addr

LEMMA WriteSize ==
  ASSUME Arguments, Position, BytesLeft
  PROVE  /\ ToWrite \in 1 .. number - current_number
         /\ ToWrite = number - current_number \/ ToWrite = First
         /\ ToWrite <= First
  BY NoWrap, FirstInPage DEF Arguments, Position, BytesLeft, ToWrite, First, Addr

(* A page write stays in its page.                                         *)
LEMMA InsidePage ==
  ASSUME Arguments, Position, BytesLeft
  PROVE  (current_addr % PageSize) + ToWrite <= PageSize
<1> DEFINE r == addr % PageSize
<1>1. /\ r \in 0 .. PageSize - 1 /\ First = PageSize - r
      /\ addr \in Nat /\ current_number \in Nat /\ number \in Nat
      /\ current_number < number
  BY FirstInPage DEF Arguments, Position, BytesLeft, Addr
<1>2. current_addr = addr + current_number
  BY NoWrap
<1>3. ToWrite \in 1 .. number - current_number /\ ToWrite <= First
  BY WriteSize
<1>4. CASE current_number = 0
  <2>1. current_addr = addr
    BY <1>1, <1>2, <1>4
  <2>2. current_addr % PageSize = r
    BY <2>1
  <2> HIDE DEF r
  <2> QED
    BY <1>1, <1>3, <2>2
<1>5. CASE r = 0 /\ current_number % PageSize = 0
  <2>1. current_addr % PageSize = 0
    BY <1>1, <1>2, <1>5, RestOfPages
  <2> HIDE DEF r
  <2> QED
    BY <1>1, <1>3, <1>5, <2>1
<1>6. CASE number <= PageSize /\ current_number >= First
  <2>1. r + current_number \in PageSize .. 2 * PageSize - 1
    <3> HIDE DEF r
    <3> QED
      BY <1>1, <1>6
  <2>2. current_addr % PageSize = r + current_number - PageSize
    BY <1>1, <1>2, <2>1, RestOfSum
  <2> HIDE DEF r
  <2> QED
    BY <1>1, <1>3, <1>6, <2>2
<1> QED
  BY <1>1, <1>4, <1>5, <1>6 DEF Position

(* So it writes its bytes one after the other.                             *)
LEMMA PageInOrder ==
  ASSUME NEW a \in Addr, NEW n \in Nat, (a % PageSize) + n <= PageSize,
         NEW i \in 0 .. n - 1
  PROVE  PageAddress(a, i) = a + i
<1> DEFINE r == a % PageSize
<1>1. r \in 0 .. PageSize - 1 /\ a \in Nat
  BY Division DEF Addr
<1> HIDE DEF r
<1>2. r + i \in 0 .. PageSize - 1
  BY <1>1 DEF r
<1>3. (r + i) % PageSize = r + i
  BY <1>2, RestOfSmall
<1>4. PageAddress(a, i) = (a - r) + (r + i)
  BY <1>3 DEF PageAddress, r
<1> QED
  BY <1>1, <1>4

LEMMA PageWrites ==
  ASSUME NEW a \in Addr, NEW n \in Nat, (a % PageSize) + n <= PageSize,
         NEW first \in Nat,
         NEW x \in Addr
  PROVE  PageWritten(a, first, n)[x] = IF x \in a .. a + n - 1
                                         THEN first + 1 + (x - a) ELSE eeprom[x]
<1> SUFFICES (IF \E i \in 0 .. n - 1 : PageAddress(a, i) = x
                THEN first + 1 + CHOOSE i \in 0 .. n - 1 : PageAddress(a, i) = x
                ELSE eeprom[x])
             = IF x \in a .. a + n - 1 THEN first + 1 + (x - a) ELSE eeprom[x]
  BY DEF PageWritten
<1>1. \A i \in 0 .. n - 1 : PageAddress(a, i) = a + i
  BY PageInOrder
<1>2. a \in Nat /\ x \in Nat
  BY DEF Addr
<1>3. CASE x \in a .. a + n - 1
  <2>1. x - a \in 0 .. n - 1 /\ PageAddress(a, x - a) = x
    BY <1>1, <1>2, <1>3
  <2>2. \A i \in 0 .. n - 1 : PageAddress(a, i) = x => i = x - a
    BY <1>1, <1>2
  <2>3. (CHOOSE i \in 0 .. n - 1 : PageAddress(a, i) = x) = x - a
    BY <2>1, <2>2
  <2> QED
    BY <1>3, <2>1, <2>3
<1>4. CASE x \notin a .. a + n - 1
  <2>1. \A i \in 0 .. n - 1 : PageAddress(a, i) # x
    BY <1>1, <1>2, <1>4
  <2> QED
    BY <1>4, <2>1
<1> QED
  BY <1>3, <1>4

-----------------------------------------------------------------------------
LEMMA WriteStarts == ASSUME WithinPages, Init PROVE WriteInv
<1>1. PICK c \in Calls : addr = c[1] /\ number = c[2]
  BY DEF Init
<1>2. /\ addr \in 0 .. MemSize - 1 /\ number \in 1 .. MemSize - 1
      /\ addr + number <= MemSize
      /\ addr % PageSize = 0 \/ number <= PageSize
  BY <1>1 DEF WithinPages
<1>3. Arguments
  BY <1>2 DEF Arguments, Addr
<1>4. Position
  <2>1. addr % MemSize = addr
    BY <1>2, RestOfSmall
  <2>2. current_number = 0 /\ current_addr = addr
    BY DEF Init
  <2> QED
    BY <1>2, <2>1, <2>2 DEF Position
<1>5. Written
  <2>1. \A a \in Addr : a \notin addr .. addr + current_number - 1
    BY <1>2 DEF Init, Addr
  <2> QED
    BY <2>1 DEF Init, Written
<1> QED
  BY <1>3, <1>4, <1>5 DEF WriteInv, Init

LEMMA WritePageKeeps ==
  ASSUME WriteInv, WritePage
  PROVE  WriteInv'
<1> DEFINE n == ToWrite
<1>1. /\ BytesLeft /\ ret' = "none"
      /\ eeprom' = PageWritten(current_addr, current_number, n)
      /\ current_number' = current_number + n
      /\ current_addr' = (current_addr + n) % MemSize
      /\ addr' = addr /\ number' = number
  BY DEF WritePage
<1>2. Arguments /\ Position /\ Written
  BY DEF WriteInv
<1>3. /\ n \in 1 .. number - current_number
      /\ n = number - current_number \/ n = First
      /\ (current_addr % PageSize) + n <= PageSize
      /\ current_addr = addr + current_number /\ current_addr \in Addr
  BY <1>1, <1>2, WriteSize, InsidePage, NoWrap
<1>4. /\ addr \in Nat /\ number \in Nat /\ current_number \in 0 .. number
      /\ addr % PageSize \in 0 .. PageSize - 1
      /\ First = PageSize - (addr % PageSize)
  BY <1>2, FirstInPage DEF Arguments, Position, Addr
<1> HIDE DEF n
<1>5. Arguments'
  BY <1>1, <1>2 DEF Arguments
<1>6. First' = First
  BY <1>1 DEF First
<1>7. Position'
  <2>1. current_number' \in 0 .. number'
    BY <1>1, <1>3, <1>4
  <2>2. current_addr' = (addr' + current_number') % MemSize
    <3>1. current_addr + n = addr + (current_number + n)
      BY <1>3, <1>4
    <3> QED
      BY <1>1, <3>1
  <2>3. CASE n = number - current_number
    <3>1. current_number' = number'
      BY <1>1, <1>3, <1>4, <2>3
    <3> QED
      BY <2>1, <2>2, <3>1 DEF Position
  <2>4. CASE n = First
    <3>1. CASE addr % PageSize = 0 /\ current_number % PageSize = 0
      <4>1. n = PageSize
        BY <1>4, <2>4, <3>1
      <4>2. PageSize % PageSize = 0
        OBVIOUS
      <4>3. current_number' % PageSize = 0
        BY <1>1, <1>4, <3>1, <4>1, <4>2, RestOfPages
      <4> QED
        BY <1>1, <2>1, <2>2, <3>1, <4>3 DEF Position
    <3>2. CASE number <= PageSize /\ current_number >= First
      <4>1. number' <= PageSize /\ current_number' >= First'
        BY <1>1, <1>3, <1>4, <1>6, <3>2
      <4> QED
        BY <2>1, <2>2, <4>1 DEF Position
    <3>3. CASE current_number = 0 /\ number <= PageSize
      <4>1. number' <= PageSize /\ current_number' >= First'
        BY <1>1, <1>3, <1>4, <1>6, <2>4, <3>3
      <4> QED
        BY <2>1, <2>2, <4>1 DEF Position
    <3>4. 0 % PageSize = 0
      OBVIOUS
    <3> QED
      BY <1>1, <1>2, <1>4, <3>1, <3>2, <3>3, <3>4
         DEF Position, Arguments, BytesLeft
  <2> QED
    BY <1>3, <2>3, <2>4
<1>8. Written'
  <2>1. \A x \in Addr :
          eeprom'[x] = IF x \in current_addr .. current_addr + n - 1
                         THEN current_number + 1 + (x - current_addr)
                         ELSE eeprom[x]
    <3>1. n \in Nat /\ current_number \in Nat
      BY <1>3, <1>4
    <3>2. /\ current_addr \in Addr
          /\ (current_addr % PageSize) + n <= PageSize
      BY <1>3
    <3>3. ASSUME NEW x \in Addr
          PROVE  PageWritten(current_addr, current_number, n)[x]
                   = IF x \in current_addr .. current_addr + n - 1
                       THEN current_number + 1 + (x - current_addr)
                       ELSE eeprom[x]
      BY <3>1, <3>2, PageWrites
    <3> QED
      BY <1>1, <3>3, Zenon
  <2>2. \A x \in Addr :
          eeprom[x] = IF x \in addr .. addr + current_number - 1
                        THEN x - addr + 1 ELSE 0
    BY <1>2 DEF Written
  <2>3. \A x \in Addr :
          eeprom'[x] = IF x \in addr' .. addr' + current_number' - 1
                         THEN x - addr' + 1 ELSE 0
    <3> SUFFICES ASSUME NEW x \in Addr
                 PROVE  eeprom'[x] =
                          IF x \in addr .. addr + (current_number + n) - 1
                            THEN x - addr + 1 ELSE 0
      BY <1>1
    <3>1. x \in Nat
      BY DEF Addr
    <3>2. CASE x \in current_addr .. current_addr + n - 1
      <4>1. eeprom'[x] = current_number + 1 + (x - current_addr)
        BY <2>1, <3>2
      <4> QED
        BY <1>3, <1>4, <3>1, <3>2, <4>1
    <3>3. CASE x \notin current_addr .. current_addr + n - 1
      <4>1. eeprom'[x] = IF x \in addr .. addr + current_number - 1
                           THEN x - addr + 1 ELSE 0
        BY <2>1, <2>2, <3>3
      <4>2. x \in addr .. addr + current_number - 1
              <=> x \in addr .. addr + (current_number + n) - 1
        BY <1>3, <1>4, <3>1, <3>3
      <4> QED
        BY <4>1, <4>2
    <3> QED
      BY <3>2, <3>3
  <2>4. eeprom' = [x \in Addr |-> eeprom'[x]]
    BY <1>1 DEF PageWritten
  <2> QED
    BY <2>3, <2>4 DEF Written
<1> QED
  BY <1>1, <1>5, <1>7, <1>8 DEF WriteInv

LEMMA OthersKeep ==
  ASSUME WriteInv, PageFails \/ Return \/ UNCHANGED vars
  PROVE  WriteInv'
<1>1. UNCHANGED <<addr, number, current_addr, current_number, eeprom>>
  BY DEF PageFails, Return, vars
<1>2. ret' = "TWI_OK" => current_number = number
  <2>1. CASE Return
    BY <2>1 DEF Return, BytesLeft, WriteInv, Arguments, Position
  <2>2. CASE PageFails \/ UNCHANGED vars
    BY <2>2 DEF PageFails, vars, WriteInv
  <2> QED
    BY <2>1, <2>2
<1>3. Arguments' /\ Position' /\ Written'
  BY <1>1 DEF WriteInv, Arguments, Position, Written, First
<1> QED
  BY <1>1, <1>2, <1>3 DEF WriteInv

LEMMA WriteSpecInv == ASSUME WithinPages PROVE Spec => []WriteInv
<1>1. Init => WriteInv
  BY WriteStarts
<1>2. WriteInv /\ [Next]_vars => WriteInv'
  BY WritePageKeeps, OthersKeep DEF Next
<1> QED
  BY <1>1, <1>2, PTL DEF Spec

(* Counted from the start of the data, an address before it comes last.    *)
LEMMA IntendedIs ==
  ASSUME Arguments, NEW a \in Addr
  PROVE  Intended(a) = IF a \in addr .. addr + number - 1
                         THEN a - addr + 1 ELSE 0
<1>1. /\ a \in 0 .. MemSize - 1 /\ addr \in 0 .. MemSize - 1
      /\ number \in Nat /\ addr + number <= MemSize /\ MemSize \in Nat \ {0}
  BY DEF Arguments, Addr
<1>2. CASE a >= addr
  <2>1. (a - addr) % MemSize = a - addr
    BY <1>1, <1>2, RestOfSmall
  <2> QED
    BY <1>1, <1>2, <2>1 DEF Intended
<1>3. CASE a < addr
  <2>1. (a - addr) % MemSize = a - addr + MemSize
    <3> DEFINE x == addr - a
    <3>1. x \in 1 .. MemSize - 1 /\ a - addr = -x
      BY <1>1, <1>3
    <3> HIDE DEF x
    <3>2. (-x) % MemSize = MemSize - x
      BY <1>1, <3>1, RestOfNegative
    <3> QED
      BY <1>1, <3>1, <3>2 DEF x
  <2> QED
    BY <1>1, <1>3, <2>1 DEF Intended
<1> QED
  BY <1>1, <1>2, <1>3

(* A write leaves no byte where it does not belong, also when a page write *)
(* fails in the middle.                                                    *)
THEOREM NothingIsMisplaced ==
  ASSUME WithinPages PROVE Spec => []NothingMisplaced
<1>1. WriteInv => NothingMisplaced
  <2> SUFFICES ASSUME WriteInv, NEW a \in Addr
               PROVE  eeprom[a] \in {0, Intended(a)}
    BY DEF NothingMisplaced
  <2>1. eeprom[a] = IF a \in addr .. addr + current_number - 1
                      THEN a - addr + 1 ELSE 0
    BY DEF WriteInv, Written
  <2>2. a \in addr .. addr + current_number - 1
          => a \in addr .. addr + number - 1
    BY DEF WriteInv, Arguments, Position, Addr
  <2>3. Intended(a) = IF a \in addr .. addr + number - 1
                        THEN a - addr + 1 ELSE 0
    BY IntendedIs DEF WriteInv
  <2> QED
    BY <2>1, <2>2, <2>3
<1> QED
  BY <1>1, WriteSpecInv, PTL

(* A write that returns TWI_OK has stored all its bytes.                   *)
THEOREM OkIsComplete ==
  ASSUME WithinPages PROVE Spec => []CompleteWhenOk
<1>1. WriteInv => CompleteWhenOk
  <2> SUFFICES ASSUME WriteInv, ret = "TWI_OK", NEW a \in Addr
               PROVE  eeprom[a] = Intended(a)
    BY DEF CompleteWhenOk
  <2>1. current_number = number
    BY DEF WriteInv
  <2>2. eeprom[a] = IF a \in addr .. addr + number - 1
                      THEN a - addr + 1 ELSE 0
    BY <2>1 DEF WriteInv, Written
  <2> QED
    BY <2>2, IntendedIs DEF WriteInv
<1> QED
  BY <1>1, WriteSpecInv, PTL

(* Each page write has at least one byte, ends with the data and stays in  *)
(* one page of the chip (ext_eeprom.c:150-168).                            *)
THEOREM PagesFit ==
  ASSUME WithinPages PROVE Spec => []PageWritesFit
<1>1. WriteInv => PageWritesFit
  <2> SUFFICES ASSUME WriteInv, BytesLeft
               PROVE  /\ ToWrite \in 1 .. number - current_number
                      /\ (current_addr % PageSize) + ToWrite <= PageSize
    BY DEF PageWritesFit
  <2> QED
    BY WriteSize, InsidePage DEF WriteInv
<1> QED
  BY <1>1, WriteSpecInv, PTL
=============================================================================
