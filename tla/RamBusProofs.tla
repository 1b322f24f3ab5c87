---------------------------- MODULE RamBusProofs ----------------------------
(***************************************************************************)
(* Theorems about RamBus, for every layout of the address pins and every   *)
(* set of values.                                                          *)
(*                                                                         *)
(* The pins of the USB are safe because the interrupt routine leaves both  *)
(* low, the levels they had when the register was loaded, so that the      *)
(* store brings back what is there.  The rest follows from what the pins   *)
(* are before each instruction of the two programs, which are numbered     *)
(* here from 1.                                                            *)
(***************************************************************************)
EXTENDS RamBus, SequenceTheorems, TLAPS

UsbLow == /\ isr \/ PORTD \intersect UsbPins = {}
          /\ loaded \intersect UsbPins = {}

LEMMA UsbPinsApart ==
  /\ AddrD \intersect UsbPins = {}
  /\ ChipPins \intersect UsbPins = {}
  /\ "LED" \notin UsbPins
  BY RamAssumption DEF UsbPins, ChipPins, AddrPins

(* An instruction finds the interrupt routine at rest, and changes no pin  *)
(* of the USB.                                                             *)
LEMMA InstructionUsb ==
  ASSUME UsbLow, Instruction
  PROVE  /\ ~ isr /\ isr' = isr
         /\ PORTD' \intersect UsbPins = {}
         /\ loaded' \intersect UsbPins = {}
<1>1. isr' = isr
  BY DEF Instruction
<1>2. CASE Address0 \/ Address1 \/ Data \/ Sample
  <2>1. ~ isr /\ PORTD' = PORTD /\ loaded' = loaded
    BY <1>2 DEF Address0, Address1, Data, Sample, Does, ports
  <2> QED
    BY <1>1, <2>1 DEF UsbLow
<1>3. CASE Load
  <2>1. ~ isr /\ PORTD' = PORTD /\ loaded' = PORTD
    BY <1>3 DEF Load, Does, ports
  <2> QED
    BY <1>1, <2>1 DEF UsbLow
<1>4. CASE Address2
  <2>1. /\ ~ isr /\ loaded' = loaded
        /\ \/ PORTD' = loaded \ AddrD
           \/ PORTD' = loaded \union (call.addr \intersect AddrD)
    BY <1>4 DEF Address2, Does
  <2> QED
    BY <1>1, <2>1, UsbPinsApart DEF UsbLow
<1>5. CASE Chip
  <2>1. /\ ~ isr /\ loaded' = loaded
        /\ \E pin \in ChipPins :
             PORTD' \in {PORTD \ {pin}, PORTD \union {pin}}
    BY <1>5 DEF Chip, Does, ChipPins
  <2> QED
    BY <1>1, <2>1, UsbPinsApart DEF UsbLow
<1> QED
  BY <1>2, <1>3, <1>4, <1>5 DEF Instruction

LEMMA PinsStep ==
  ASSUME UsbLow, [Next]_vars
  PROVE  /\ UsbLow'
         /\ IF isr = isr' THEN PORTD' \intersect UsbPins = PORTD \intersect UsbPins
                          ELSE PORTD' \ UsbPins = PORTD \ UsbPins
<1>1. CASE Instruction
  BY <1>1, InstructionUsb DEF UsbLow
<1>2. CASE Begin \/ Return \/ UNCHANGED vars
  <2>1. UNCHANGED <<isr, PORTD, loaded>>
    BY <1>2 DEF Begin, Return, vars, ports
  <2> QED
    BY <2>1 DEF UsbLow
<1>3. CASE Led
  <2>1. /\ isr' = isr /\ loaded' = loaded
        /\ PORTD' \in {PORTD \union {"LED"}, PORTD \ {"LED"}}
    BY <1>3 DEF Led
  <2> QED
    BY <2>1, UsbPinsApart DEF UsbLow
<1>4. CASE Interrupt
  <2>1. loaded' = loaded /\ isr' # isr
    BY <1>4 DEF Interrupt
  <2>2. PORTD' \ UsbPins = PORTD \ UsbPins
    BY <1>4 DEF Interrupt, AfterSending
  <2>3. isr' \/ PORTD' \intersect UsbPins = {}
    BY <1>4 DEF Interrupt, AfterSending
  <2> QED
    BY <2>1, <2>2, <2>3 DEF UsbLow
<1> QED
  BY <1>1, <1>2, <1>3, <1>4 DEF Next

(* Neither the main loop nor the interrupt routine takes back what the     *)
(* other did to port D, between whichever two instructions it comes.       *)
THEOREM PinsAreKept == Spec => PinsKept
<1>1. Init => UsbLow
  BY DEF Init, UsbLow, UsbPins, ChipPins
<1>2. UsbLow /\ [Next]_vars => UsbLow'
  BY PinsStep
<1>3. UsbLow /\ [Next]_vars
        => [IF isr = isr'
              THEN PORTD' \intersect UsbPins = PORTD \intersect UsbPins
              ELSE PORTD' \ UsbPins = PORTD \ UsbPins]_vars
  BY PinsStep
<1> QED
  BY <1>1, <1>2, <1>3, PTL DEF Spec, PinsKept

-----------------------------------------------------------------------------
(***************************************************************************)
(* The instructions of the two calls, by their number.                     *)
(***************************************************************************)
Steps == {"ADDR0", "ADDR1_and", "ADDR1_or", "load", "ADDR2_and", "ADDR2_or",
          "DDR_out", "DDR_in", "data", "sample",
          "CE_low", "CE_high", "WE_low", "WE_high", "OE_low", "OE_high"}

WriteTail == <<"DDR_out", "data", "CE_low", "WE_low",
               "DDR_out", "data", "WE_high", "CE_high", "DDR_in">>

ReadTail == <<"CE_low", "OE_low", "sample", "sample", "sample", "OE_high",
              "CE_high">>

LEMMA Parts ==
  /\ SetAddress \in Seq(Steps) /\ Len(SetAddress) = 7
  /\ WriteTail \in Seq(Steps) /\ Len(WriteTail) = 9
  /\ ReadTail \in Seq(Steps) /\ Len(ReadTail) = 7
  /\ <<"DDR_in">> \in Seq(Steps) /\ Len(<<"DDR_in">>) = 1
<1>1. SetAddress \in Seq(Steps)
  BY DEF SetAddress, Steps
<1>2. WriteTail \in Seq(Steps)
  BY DEF WriteTail, Steps
<1>3. ReadTail \in Seq(Steps)
  BY DEF ReadTail, Steps
<1>4. <<"DDR_in">> \in Seq(Steps) /\ Len(<<"DDR_in">>) = 1
  BY DEF Steps
<1>5. Len(SetAddress) = 7 /\ Len(WriteTail) = 9 /\ Len(ReadTail) = 7
  BY DEF SetAddress, WriteTail, ReadTail
<1> QED
  BY <1>1, <1>2, <1>3, <1>4, <1>5

LEMMA Joined ==
  ASSUME NEW s \in Seq(Steps), NEW t \in Seq(Steps)
  PROVE  /\ s \o t \in Seq(Steps) /\ Len(s \o t) = Len(s) + Len(t)
         /\ \A i \in 1 .. Len(s) + Len(t) :
              (s \o t)[i] = IF i <= Len(s) THEN s[i] ELSE t[i - Len(s)]
  BY ConcatProperties, Zenon

LEMMA WriteProgram ==
  /\ ram_write_byte \in Seq(Steps) /\ Len(ram_write_byte) = 23
  /\ \A i \in 1 .. 7 : /\ ram_write_byte[i] = SetAddress[i]
                       /\ ram_write_byte[i + 7] = SetAddress[i]
  /\ \A i \in 1 .. 9 : ram_write_byte[i + 14] = WriteTail[i]
<1> DEFINE two == SetAddress \o SetAddress
           all == two \o WriteTail
<1>1. ram_write_byte = all
  BY DEF ram_write_byte, WriteTail
<1>2. /\ two \in Seq(Steps) /\ Len(two) = Len(SetAddress) + Len(SetAddress)
      /\ \A i \in 1 .. Len(SetAddress) + Len(SetAddress) :
           two[i] = IF i <= Len(SetAddress) THEN SetAddress[i]
                                            ELSE SetAddress[i - Len(SetAddress)]
  <2>1. SetAddress \in Seq(Steps)
    BY Parts
  <2> QED
    BY <2>1, Joined, Zenon
<1> HIDE DEF two
<1>3. /\ Len(two) = 14
      /\ \A i \in 1 .. 14 : two[i] = IF i <= 7 THEN SetAddress[i]
                                               ELSE SetAddress[i - 7]
  BY <1>2, Parts
<1>4. /\ all \in Seq(Steps) /\ Len(all) = Len(two) + Len(WriteTail)
      /\ \A i \in 1 .. Len(two) + Len(WriteTail) :
           all[i] = IF i <= Len(two) THEN two[i] ELSE WriteTail[i - Len(two)]
  <2>1. two \in Seq(Steps) /\ WriteTail \in Seq(Steps)
    BY <1>2, Parts
  <2> QED
    BY <2>1, Joined, Zenon
<1> HIDE DEF all
<1>5. /\ Len(all) = 23
      /\ \A i \in 1 .. 23 : all[i] = IF i <= 14 THEN two[i] ELSE WriteTail[i - 14]
  BY <1>3, <1>4, Parts
<1>6. \A i \in 1 .. 7 : all[i] = SetAddress[i] /\ all[i + 7] = SetAddress[i]
  BY <1>3, <1>5
<1>7. \A i \in 1 .. 9 : all[i + 14] = WriteTail[i]
  BY <1>5
<1> QED
  BY <1>1, <1>4, <1>5, <1>6, <1>7

LEMMA ReadProgram ==
  /\ ram_read_byte \in Seq(Steps) /\ Len(ram_read_byte) = 22
  /\ ram_read_byte[1] = "DDR_in"
  /\ \A i \in 1 .. 7 : /\ ram_read_byte[i + 1] = SetAddress[i]
                       /\ ram_read_byte[i + 8] = SetAddress[i]
                       /\ ram_read_byte[i + 15] = ReadTail[i]
<1> DEFINE first == <<"DDR_in">>
           one == first \o SetAddress
           two == one \o SetAddress
           all == two \o ReadTail
<1>1. ram_read_byte = all
  BY DEF ram_read_byte, ReadTail
<1>2. first \in Seq(Steps) /\ Len(first) = 1 /\ first[1] = "DDR_in"
  BY Parts
<1> HIDE DEF first
<1>3. /\ one \in Seq(Steps) /\ Len(one) = Len(first) + Len(SetAddress)
      /\ \A i \in 1 .. Len(first) + Len(SetAddress) :
           one[i] = IF i <= Len(first) THEN first[i] ELSE SetAddress[i - Len(first)]
  <2>1. first \in Seq(Steps) /\ SetAddress \in Seq(Steps)
    BY <1>2, Parts
  <2> QED
    BY <2>1, Joined, Zenon
<1> HIDE DEF one
<1>4. /\ Len(one) = 8
      /\ \A i \in 1 .. 8 : one[i] = IF i <= 1 THEN first[i] ELSE SetAddress[i - 1]
  BY <1>2, <1>3, Parts
<1>5. /\ two \in Seq(Steps) /\ Len(two) = Len(one) + Len(SetAddress)
      /\ \A i \in 1 .. Len(one) + Len(SetAddress) :
           two[i] = IF i <= Len(one) THEN one[i] ELSE SetAddress[i - Len(one)]
  <2>1. one \in Seq(Steps) /\ SetAddress \in Seq(Steps)
    BY <1>3, Parts
  <2> QED
    BY <2>1, Joined, Zenon
<1> HIDE DEF two
<1>6. /\ Len(two) = 15
      /\ \A i \in 1 .. 15 : two[i] = IF i <= 8 THEN one[i] ELSE SetAddress[i - 8]
  BY <1>4, <1>5, Parts
<1>7. /\ all \in Seq(Steps) /\ Len(all) = Len(two) + Len(ReadTail)
      /\ \A i \in 1 .. Len(two) + Len(ReadTail) :
           all[i] = IF i <= Len(two) THEN two[i] ELSE ReadTail[i - Len(two)]
  <2>1. two \in Seq(Steps) /\ ReadTail \in Seq(Steps)
    BY <1>5, Parts
  <2> QED
    BY <2>1, Joined, Zenon
<1> HIDE DEF all
<1>8. /\ Len(all) = 22
      /\ \A i \in 1 .. 22 : all[i] = IF i <= 15 THEN two[i] ELSE ReadTail[i - 15]
  BY <1>6, <1>7, Parts
<1>9. \A i \in 1 .. 7 : all[i + 1] = SetAddress[i]
  BY <1>4, <1>6, <1>8
<1>10. \A i \in 1 .. 7 : all[i + 8] = SetAddress[i]
  BY <1>6, <1>8
<1>11. \A i \in 1 .. 7 : all[i + 15] = ReadTail[i]
  BY <1>8
<1>12. all[1] = "DDR_in"
  BY <1>2, <1>4, <1>6, <1>8
<1> QED
  BY <1>1, <1>7, <1>8, <1>9, <1>10, <1>11, <1>12

(* What they are.                                                          *)
LEMMA Cells ==
  /\ SetAddress[1] = "ADDR0" /\ SetAddress[2] = "ADDR1_and"
  /\ SetAddress[3] = "ADDR1_or" /\ SetAddress[4] = "load"
  /\ SetAddress[5] = "ADDR2_and" /\ SetAddress[6] = "load"
  /\ SetAddress[7] = "ADDR2_or"
  /\ WriteTail[1] = "DDR_out" /\ WriteTail[2] = "data"
  /\ WriteTail[3] = "CE_low" /\ WriteTail[4] = "WE_low"
  /\ WriteTail[5] = "DDR_out" /\ WriteTail[6] = "data"
  /\ WriteTail[7] = "WE_high" /\ WriteTail[8] = "CE_high"
  /\ WriteTail[9] = "DDR_in"
  /\ ReadTail[1] = "CE_low" /\ ReadTail[2] = "OE_low"
  /\ ReadTail[3] = "sample" /\ ReadTail[4] = "sample"
  /\ ReadTail[5] = "sample" /\ ReadTail[6] = "OE_high"
  /\ ReadTail[7] = "CE_high"
  BY DEF SetAddress, WriteTail, ReadTail

(* Where an instruction stands in the program.                             *)
WritePlace(k, s) ==
  /\ s = "ADDR0"     <=> k \in {1, 8}
  /\ s = "ADDR1_and" <=> k \in {2, 9}
  /\ s = "ADDR1_or"  <=> k \in {3, 10}
  /\ s = "load"      <=> k \in {4, 6, 11, 13}
  /\ s = "ADDR2_and" <=> k \in {5, 12}
  /\ s = "ADDR2_or"  <=> k \in {7, 14}
  /\ s = "DDR_out"   <=> k \in {15, 19}
  /\ s = "data"      <=> k \in {16, 20}
  /\ s = "CE_low"    <=> k = 17
  /\ s = "WE_low"    <=> k = 18
  /\ s = "WE_high"   <=> k = 21
  /\ s = "CE_high"   <=> k = 22
  /\ s = "DDR_in"    <=> k = 23
  /\ s \notin {"OE_low", "OE_high", "sample"}

ReadPlace(k, s) ==
  /\ s = "ADDR0"     <=> k \in {2, 9}
  /\ s = "ADDR1_and" <=> k \in {3, 10}
  /\ s = "ADDR1_or"  <=> k \in {4, 11}
  /\ s = "load"      <=> k \in {5, 7, 12, 14}
  /\ s = "ADDR2_and" <=> k \in {6, 13}
  /\ s = "ADDR2_or"  <=> k \in {8, 15}
  /\ s = "DDR_in"    <=> k = 1
  /\ s = "CE_low"    <=> k = 16
  /\ s = "OE_low"    <=> k = 17
  /\ s = "sample"    <=> k \in {18, 19, 20}
  /\ s = "OE_high"   <=> k = 21
  /\ s = "CE_high"   <=> k = 22
  /\ s \notin {"DDR_out", "data", "WE_low", "WE_high"}

LEMMA WritePlaces ==
  ASSUME NEW k \in 1 .. 23, NEW s, s = ram_write_byte[k]
  PROVE  WritePlace(k, s)
<1>1. CASE k \in 1 .. 7
  <2>1. s = SetAddress[k]
    BY <1>1, WriteProgram
  <2>2. k \in {1, 2, 3, 4, 5, 6, 7}
    BY <1>1
  <2> QED
    BY <2>1, <2>2, Cells DEF WritePlace
<1>2. CASE k \in 8 .. 14
  <2>1. PICK i \in 1 .. 7 : k = i + 7
    <3>1. k - 7 \in 1 .. 7 /\ k = (k - 7) + 7
      BY <1>2
    <3> QED
      BY <3>1
  <2>2. s = SetAddress[i]
    BY <2>1, WriteProgram
  <2>3. i \in {1, 2, 3, 4, 5, 6, 7}
    OBVIOUS
  <2> QED
    BY <2>1, <2>2, <2>3, Cells DEF WritePlace
<1>3. CASE k \in 15 .. 23
  <2>1. PICK i \in 1 .. 9 : k = i + 14
    <3>1. k - 14 \in 1 .. 9 /\ k = (k - 14) + 14
      BY <1>3
    <3> QED
      BY <3>1
  <2>2. s = WriteTail[i]
    BY <2>1, WriteProgram
  <2>3. i \in {1, 2, 3, 4, 5, 6, 7, 8, 9}
    OBVIOUS
  <2> QED
    BY <2>1, <2>2, <2>3, Cells DEF WritePlace
<1> QED
  BY <1>1, <1>2, <1>3

LEMMA ReadPlaces ==
  ASSUME NEW k \in 1 .. 22, NEW s, s = ram_read_byte[k]
  PROVE  ReadPlace(k, s)
<1>1. CASE k = 1
  BY <1>1, ReadProgram DEF ReadPlace
<1>2. CASE k \in 2 .. 8
  <2>1. PICK i \in 1 .. 7 : k = i + 1
    <3>1. k - 1 \in 1 .. 7 /\ k = (k - 1) + 1
      BY <1>2
    <3> QED
      BY <3>1
  <2>2. s = SetAddress[i]
    BY <2>1, ReadProgram
  <2>3. i \in {1, 2, 3, 4, 5, 6, 7}
    OBVIOUS
  <2> QED
    BY <2>1, <2>2, <2>3, Cells DEF ReadPlace
<1>3. CASE k \in 9 .. 15
  <2>1. PICK i \in 1 .. 7 : k = i + 8
    <3>1. k - 8 \in 1 .. 7 /\ k = (k - 8) + 8
      BY <1>3
    <3> QED
      BY <3>1
  <2>2. s = SetAddress[i]
    BY <2>1, ReadProgram
  <2>3. i \in {1, 2, 3, 4, 5, 6, 7}
    OBVIOUS
  <2> QED
    BY <2>1, <2>2, <2>3, Cells DEF ReadPlace
<1>4. CASE k \in 16 .. 22
  <2>1. PICK i \in 1 .. 7 : k = i + 15
    <3>1. k - 15 \in 1 .. 7 /\ k = (k - 15) + 15
      BY <1>4
    <3> QED
      BY <3>1
  <2>2. s = ReadTail[i]
    BY <2>1, ReadProgram
  <2>3. i \in {1, 2, 3, 4, 5, 6, 7}
    OBVIOUS
  <2> QED
    BY <2>1, <2>2, <2>3, Cells DEF ReadPlace
<1> QED
  BY <1>1, <1>2, <1>3, <1>4
-----------------------------------------------------------------------------
(***************************************************************************)
(* The invariant: what the pins, the memory and the byte read are before   *)
(* each instruction.                                                       *)
(***************************************************************************)
Writes == call # NoCall /\ call.op = "write"
Reads  == call # NoCall /\ call.op = "read"

Program == IF call.op = "write" THEN ram_write_byte ELSE ram_read_byte

(* The number of the next instruction.                                     *)
At == Len(Program) + 1 - Len(todo)

InProgram ==
  /\ todo \in Seq(Steps)
  /\ call = NoCall => todo = <<>>
  /\ call # NoCall => /\ call \in Call
                      /\ Len(todo) <= Len(Program)
                      /\ \A i \in 1 .. Len(todo) : todo[i] = Program[At - 1 + i]

CeLow == \/ Writes /\ At \in 18 .. 22
         \/ Reads /\ At \in 17 .. 22
WeLow == Writes /\ At \in 19 .. 21
OeLow == Reads /\ At \in 18 .. 21

Levels ==
  /\ "CE" \in PORTD <=> ~ CeLow
  /\ "WE" \in PORTD <=> ~ WeLow
  /\ "OE" \in PORTD <=> ~ OeLow
  /\ DDRA <=> (Writes /\ At \in 16 .. 23)
  /\ (Writes /\ At >= 17) => PORTA = call.data

(* The address is put out twice; the second time counts.                   *)
Pass == IF Writes THEN At - 7 ELSE At - 8

AddressPins ==
  call # NoCall =>
    /\ Pass >= 2 => PORTB = call.addr \intersect AddrB
    /\ Pass = 3 => PORTC = {}
    /\ Pass >= 4 => PORTC = call.addr \intersect AddrC
    /\ Pass \in 6 .. 7 => PORTD \intersect AddrD = {}
    /\ Pass >= 8 => PORTD \intersect AddrD = call.addr \intersect AddrD

(* What is to be stored in port D is, but for the pins of the USB, what is *)
(* there.                                                                  *)
Fresh == (todo # <<>> /\ Head(todo) \in {"ADDR2_and", "ADDR2_or"})
           => loaded \ UsbPins = PORTD \ UsbPins

Done == /\ (Writes /\ At >= 19) => sram[call.addr] = call.data
        /\ (Reads /\ At >= 19) => temp = sram[call.addr]

BusInv == TypeOK /\ InProgram /\ Levels /\ AddressPins /\ Fresh /\ Done

LEMMA CallKinds ==
  ASSUME call \in Call
  PROVE  /\ call # NoCall /\ call.addr \in Address
         /\ Writes <=> ~ Reads
         /\ Writes => /\ call.op = "write" /\ call.data \in Values
                      /\ Program = ram_write_byte /\ Len(Program) = 23
         /\ Reads => /\ call.op = "read"
                     /\ Program = ram_read_byte /\ Len(Program) = 22
         /\ Program \in Seq(Steps)
<1>1. call # NoCall
  BY RamAssumption
<1>2. /\ call.addr \in Address /\ call.op \in {"read", "write"}
      /\ call.op = "write" => call.data \in Values
  BY DEF Call
<1> QED
  BY <1>1, <1>2, WriteProgram, ReadProgram DEF Writes, Reads, Program

(* From one instruction to the next.                                       *)
LEMMA Advance ==
  ASSUME InProgram, todo # <<>>, todo' = Tail(todo), call' = call
  PROVE  /\ call \in Call /\ call # NoCall
         /\ At \in 1 .. Len(Program) /\ Head(todo) = Program[At]
         /\ At' = At + 1 /\ Len(Program) \in Nat
         /\ todo' # <<>> => /\ At + 1 \in 1 .. Len(Program)
                            /\ Head(todo') = Program[At + 1]
         /\ InProgram'
<1> DEFINE n == Len(todo)
           size == Len(Program)
<1>1. call \in Call /\ call # NoCall
  BY DEF InProgram
<1>2. /\ todo \in Seq(Steps) /\ n \in Nat /\ n # 0
      /\ size \in Nat /\ n <= size
      /\ \A i \in 1 .. n : todo[i] = Program[At - 1 + i]
  <2>1. size \in Nat
    BY <1>1, CallKinds
  <2> QED
    BY <1>1, <2>1 DEF InProgram
<1>3. /\ Tail(todo) \in Seq(Steps) /\ Len(Tail(todo)) = n - 1
      /\ \A i \in 1 .. n - 1 : Tail(todo)[i] = todo[i + 1]
  BY <1>2
<1>4. Program' = Program
  BY DEF Program
<1>5. At = size + 1 - n /\ At' = size + 1 - (n - 1)
  BY <1>3, <1>4 DEF At
<1> HIDE DEF n, size
<1>6. At \in 1 .. size /\ At' = At + 1
  BY <1>2, <1>5
<1>7. Head(todo) = Program[At]
  <2>1. Head(todo) = todo[1] /\ 1 \in 1 .. n /\ At - 1 + 1 = At
    BY <1>2, <1>6 DEF n
  <2> QED
    BY <1>2, <2>1
<1>8. \A i \in 1 .. n - 1 : todo'[i] = Program[At' - 1 + i]
  <2> TAKE i \in 1 .. n - 1
  <2>1. i + 1 \in 1 .. n /\ At - 1 + (i + 1) = At' - 1 + i
    BY <1>2, <1>6
  <2>2. todo[i + 1] = Program[At - 1 + (i + 1)]
    BY <1>2, <2>1
  <2> QED
    BY <1>3, <2>1, <2>2
<1>9. todo' # <<>> => At + 1 \in 1 .. size /\ Head(todo') = Program[At + 1]
  <2> SUFFICES ASSUME todo' # <<>>
               PROVE  At + 1 \in 1 .. size /\ Head(todo') = Program[At + 1]
    OBVIOUS
  <2>1. n - 1 # 0 /\ Head(todo') = todo'[1]
    BY <1>2, <1>3
  <2>2. 1 \in 1 .. n - 1 /\ At' - 1 + 1 = At + 1
    BY <1>2, <1>6, <2>1
  <2>3. todo'[1] = Program[At + 1]
    BY <1>8, <2>2
  <2> QED
    BY <1>2, <1>5, <1>6, <2>1, <2>2, <2>3
<1>10. InProgram'
  BY <1>1, <1>2, <1>3, <1>4, <1>8 DEF InProgram, n, size
<1> QED
  BY <1>1, <1>2, <1>6, <1>7, <1>9, <1>10 DEF size
(* Where the call is when it executes an instruction.                      *)
LEMMA Placed ==
  ASSUME InProgram, todo # <<>>, todo' = Tail(todo), call' = call
  PROVE  /\ Writes => At \in 1 .. 23 /\ WritePlace(At, Head(todo))
         /\ Reads  => At \in 1 .. 22 /\ ReadPlace(At, Head(todo))
<1>1. /\ call \in Call /\ At \in 1 .. Len(Program)
      /\ Head(todo) = Program[At]
  BY Advance
<1>2. ASSUME Writes
      PROVE  At \in 1 .. 23 /\ Head(todo) = ram_write_byte[At]
  BY <1>1, <1>2, CallKinds
<1>3. ASSUME Reads
      PROVE  At \in 1 .. 22 /\ Head(todo) = ram_read_byte[At]
  BY <1>1, <1>3, CallKinds
<1> QED
  BY <1>2, <1>3, WritePlaces, ReadPlaces, Zenon

(* What an instruction does to the pins.                                   *)
Effect(h) ==
  /\ PORTB' = IF h = "ADDR0" THEN call.addr \intersect AddrB ELSE PORTB
  /\ PORTC' = IF h = "ADDR1_and" THEN PORTC \ AddrC
              ELSE IF h = "ADDR1_or"
              THEN PORTC \union (call.addr \intersect AddrC) ELSE PORTC
  /\ PORTD' \intersect AddrD =
       IF h = "ADDR2_and" THEN {}
       ELSE IF h = "ADDR2_or"
       THEN (PORTD \intersect AddrD) \union (call.addr \intersect AddrD)
       ELSE PORTD \intersect AddrD
  /\ "CE" \in PORTD' <=> h = "CE_high" \/ (h # "CE_low" /\ "CE" \in PORTD)
  /\ "WE" \in PORTD' <=> h = "WE_high" \/ (h # "WE_low" /\ "WE" \in PORTD)
  /\ "OE" \in PORTD' <=> h = "OE_high" \/ (h # "OE_low" /\ "OE" \in PORTD)
  /\ DDRA' <=> h = "DDR_out" \/ (h # "DDR_in" /\ DDRA)
  /\ PORTA' = IF h = "data" THEN call.data ELSE PORTA
  /\ h = "load" => loaded' = PORTD /\ PORTD' = PORTD
  /\ h # "sample" => temp' = temp
  /\ h = "sample" => /\ temp' \in Values
                     /\ (Driving /\ ~ DDRA) => temp' = sram[OnBus]

LEMMA Effects ==
  ASSUME BusInv, Instruction
  PROVE  Effect(Head(todo)) /\ todo # <<>> /\ ~ isr
<1> DEFINE h == Head(todo)
<1>1. /\ Fresh
      /\ UNCHANGED DDRA => (DDRA' <=> DDRA)
  BY DEF BusInv
<1>2. CASE Address0
  BY <1>2 DEF Address0, LowAddress, Does, Effect
<1>3. CASE Address1
  BY <1>3 DEF Address1, Does, Effect
<1>4. CASE Load
  BY <1>4 DEF Load, Does, Effect, ports
<1>5. CASE Address2
  <2>1. loaded \ UsbPins = PORTD \ UsbPins
    BY <1>1, <1>5 DEF Address2, Does, Fresh
  <2>2. /\ loaded \intersect AddrD = PORTD \intersect AddrD
        /\ "CE" \in loaded <=> "CE" \in PORTD
        /\ "WE" \in loaded <=> "WE" \in PORTD
        /\ "OE" \in loaded <=> "OE" \in PORTD
        /\ "CE" \notin AddrD /\ "WE" \notin AddrD /\ "OE" \notin AddrD
    BY <2>1, RamAssumption DEF UsbPins, ChipPins, AddrPins
  <2> QED
    BY <1>5, <2>2 DEF Address2, Does, Effect
<1>6. CASE Chip
  <2>1. "CE" \notin AddrD /\ "WE" \notin AddrD /\ "OE" \notin AddrD
    BY RamAssumption DEF ChipPins, AddrPins
  <2> QED
    BY <1>6, <2>1 DEF Chip, Does, Effect
<1>7. CASE Data
  BY <1>7 DEF Data, Does, Effect
<1>8. CASE Sample
  BY <1>8 DEF Sample, Does, Effect, ports
<1> QED
  BY <1>2, <1>3, <1>4, <1>5, <1>6, <1>7, <1>8 DEF Instruction
(* What stays the same of the call.                                        *)
LEMMA SameCall ==
  ASSUME call' = call
  PROVE  (Writes' <=> Writes) /\ (Reads' <=> Reads) /\ Program' = Program
  BY DEF Writes, Reads, Program

LEMMA StepType ==
  ASSUME BusInv, Instruction
  PROVE  TypeOK'
<1>1. /\ TypeOK /\ InProgram
      /\ todo' = Tail(todo) /\ call' = call /\ SramFollows
  BY DEF BusInv, Instruction
<1>2. Effect(Head(todo)) /\ todo # <<>>
  BY Effects
<1>3. call \in Call /\ call.addr \in Address
  BY <1>1, <1>2, CallKinds DEF InProgram
<1>4. PORTB' \subseteq AddrB
  BY <1>1, <1>2 DEF Effect, TypeOK
<1>5. PORTC' \subseteq AddrC
  BY <1>1, <1>2 DEF Effect, TypeOK
<1>6. /\ PORTD' \subseteq AddrD \union UsbPins \union ChipPins \union {"LED"}
      /\ loaded' \subseteq AddrD \union UsbPins \union ChipPins \union {"LED"}
      /\ temp' \in Values
  <2> DEFINE pins == AddrD \union UsbPins \union ChipPins \union {"LED"}
  <2>1. PORTD \subseteq pins /\ loaded \subseteq pins /\ temp \in Values
    BY <1>1 DEF TypeOK
  <2>2. "CE" \in pins /\ "WE" \in pins /\ "OE" \in pins
    BY DEF ChipPins
  <2>3. call.addr \intersect AddrD \subseteq pins
    OBVIOUS
  <2> SUFFICES PORTD' \subseteq pins /\ loaded' \subseteq pins /\ temp' \in Values
    OBVIOUS
  <2> HIDE DEF pins
  <2>4. CASE Address0
    BY <2>1, <2>4 DEF Address0
  <2>5. CASE Address1
    BY <2>1, <2>5 DEF Address1
  <2>6. CASE Load
    BY <2>1, <2>6 DEF Load, ports
  <2>7. CASE Address2
    BY <2>1, <2>3, <2>7 DEF Address2
  <2>8. CASE Chip
    BY <2>1, <2>2, <2>8 DEF Chip
  <2>9. CASE Data
    BY <2>1, <2>9 DEF Data
  <2>10. CASE Sample
    BY <2>1, <2>10 DEF Sample, ports
  <2> QED
    BY <2>4, <2>5, <2>6, <2>7, <2>8, <2>9, <2>10 DEF Instruction
<1>7. PORTA' \in Values
  <2>1. Head(todo) = "data" => Writes
    BY <1>1, <1>2, <1>3, Placed, CallKinds DEF ReadPlace
  <2> QED
    BY <1>1, <1>2, <1>3, <2>1, CallKinds DEF Effect, TypeOK
<1>8. DDRA' \in BOOLEAN
  <2>1. DDRA \in BOOLEAN
    BY <1>1 DEF TypeOK
  <2>2. UNCHANGED DDRA \/ DDRA' = TRUE \/ DDRA' = FALSE
    BY DEF Instruction, Address0, Address1, Load, Address2, Chip, Data,
           Sample, ports
  <2> QED
    BY <2>1, <2>2, Zenon
<1>9. sram' \in [Address -> Values]
  BY <1>1 DEF SramFollows, TypeOK
<1> QED
  BY <1>1, <1>3, <1>4, <1>5, <1>6, <1>7, <1>8, <1>9 DEF TypeOK

LEMMA StepLevels ==
  ASSUME BusInv, Instruction
  PROVE  Levels'
<1>1. /\ Levels /\ InProgram
      /\ todo' = Tail(todo) /\ call' = call
  BY DEF BusInv, Instruction
<1>2. Effect(Head(todo)) /\ todo # <<>>
  BY Effects
<1>3. call \in Call /\ At' = At + 1
  BY <1>1, <1>2, Advance
<1>4. (Writes' <=> Writes) /\ (Reads' <=> Reads)
  BY <1>1, SameCall
<1> DEFINE h == Head(todo)
<1>5. CASE Writes
  <2>1. ~ Reads /\ At \in 1 .. 23 /\ WritePlace(At, h)
    BY <1>1, <1>2, <1>3, <1>5, CallKinds, Placed
  <2>2. "CE" \in PORTD' <=> ~ CeLow'
    BY <1>1, <1>2, <1>3, <1>4, <1>5, <2>1
       DEF Effect, Levels, CeLow, WritePlace
  <2>3. "WE" \in PORTD' <=> ~ WeLow'
    BY <1>1, <1>2, <1>3, <1>4, <1>5, <2>1
       DEF Effect, Levels, WeLow, WritePlace
  <2>4. "OE" \in PORTD' <=> ~ OeLow'
    BY <1>1, <1>2, <1>3, <1>4, <1>5, <2>1
       DEF Effect, Levels, OeLow, WritePlace
  <2>5. DDRA' <=> (Writes' /\ At' \in 16 .. 23)
    BY <1>1, <1>2, <1>3, <1>4, <1>5, <2>1 DEF Effect, Levels, WritePlace
  <2>6. (Writes' /\ At' >= 17) => PORTA' = call'.data
    BY <1>1, <1>2, <1>3, <1>4, <1>5, <2>1 DEF Effect, Levels, WritePlace
  <2> QED
    BY <2>2, <2>3, <2>4, <2>5, <2>6 DEF Levels
<1>6. CASE Reads
  <2>1. ~ Writes /\ At \in 1 .. 22 /\ ReadPlace(At, h)
    BY <1>1, <1>2, <1>3, <1>6, CallKinds, Placed
  <2>2. "CE" \in PORTD' <=> ~ CeLow'
    BY <1>1, <1>2, <1>3, <1>4, <1>6, <2>1
       DEF Effect, Levels, CeLow, ReadPlace
  <2>3. "WE" \in PORTD' <=> ~ WeLow'
    BY <1>1, <1>2, <1>3, <1>4, <1>6, <2>1
       DEF Effect, Levels, WeLow, ReadPlace
  <2>4. "OE" \in PORTD' <=> ~ OeLow'
    BY <1>1, <1>2, <1>3, <1>4, <1>6, <2>1
       DEF Effect, Levels, OeLow, ReadPlace
  <2>5. DDRA' <=> (Writes' /\ At' \in 16 .. 23)
    BY <1>1, <1>2, <1>3, <1>4, <1>6, <2>1 DEF Effect, Levels, ReadPlace
  <2> QED
    BY <1>4, <2>1, <2>2, <2>3, <2>4, <2>5 DEF Levels
<1> QED
  BY <1>3, <1>5, <1>6, CallKinds

LEMMA StepAddress ==
  ASSUME BusInv, Instruction
  PROVE  AddressPins'
<1>1. /\ AddressPins /\ InProgram
      /\ PORTB \subseteq AddrB /\ PORTC \subseteq AddrC
      /\ todo' = Tail(todo) /\ call' = call
  BY DEF BusInv, Instruction, TypeOK
<1>2. Effect(Head(todo)) /\ todo # <<>>
  BY Effects
<1>3. call \in Call /\ call # NoCall /\ At' = At + 1
  BY <1>1, <1>2, Advance
<1>4. (Writes' <=> Writes) /\ (Reads' <=> Reads)
  BY <1>1, SameCall
<1> DEFINE h == Head(todo)
<1>5. /\ Pass \in Int /\ Pass' = Pass + 1
      /\ h = "ADDR0"     <=> Pass \in {1, -6}
      /\ h = "ADDR1_and" <=> Pass \in {2, -5}
      /\ h = "ADDR1_or"  <=> Pass \in {3, -4}
      /\ h = "ADDR2_and" <=> Pass \in {5, -2}
      /\ h = "ADDR2_or"  <=> Pass \in {7, 0}
  <2>1. CASE Writes
    <3>1. At \in 1 .. 23 /\ WritePlace(At, h)
      BY <1>1, <1>2, <2>1, Placed
    <3> QED
      BY <1>3, <1>4, <2>1, <3>1 DEF Pass, WritePlace
  <2>2. CASE Reads
    <3>1. ~ Writes /\ At \in 1 .. 22 /\ ReadPlace(At, h)
      BY <1>1, <1>2, <1>3, <2>2, CallKinds, Placed
    <3> QED
      BY <1>3, <1>4, <3>1 DEF Pass, ReadPlace
  <2> QED
    BY <1>3, <2>1, <2>2, CallKinds
<1>6. Pass' >= 2 => PORTB' = call.addr \intersect AddrB
  BY <1>1, <1>2, <1>3, <1>5 DEF AddressPins, Effect
<1>7. Pass' = 3 => PORTC' = {}
  BY <1>1, <1>2, <1>3, <1>5 DEF AddressPins, Effect
<1>8. Pass' >= 4 => PORTC' = call.addr \intersect AddrC
  BY <1>1, <1>2, <1>3, <1>5 DEF AddressPins, Effect
<1>9. Pass' \in 6 .. 7 => PORTD' \intersect AddrD = {}
  BY <1>1, <1>2, <1>3, <1>5 DEF AddressPins, Effect
<1>10. Pass' >= 8 => PORTD' \intersect AddrD = call.addr \intersect AddrD
  BY <1>1, <1>2, <1>3, <1>5 DEF AddressPins, Effect
<1> QED
  BY <1>1, <1>6, <1>7, <1>8, <1>9, <1>10 DEF AddressPins

LEMMA StepFresh ==
  ASSUME BusInv, Instruction
  PROVE  Fresh'
<1>1. /\ InProgram /\ todo' = Tail(todo) /\ call' = call
  BY DEF BusInv, Instruction
<1>2. Effect(Head(todo)) /\ todo # <<>>
  BY Effects
<1>3. SUFFICES ASSUME todo' # <<>>, Head(todo') \in {"ADDR2_and", "ADDR2_or"}
               PROVE  loaded' \ UsbPins = PORTD' \ UsbPins
  BY DEF Fresh
<1>4. /\ call \in Call /\ At + 1 \in 1 .. Len(Program)
      /\ Head(todo') = Program[At + 1]
  BY <1>1, <1>2, <1>3, Advance
<1>5. Head(todo) = "load"
  <2>1. CASE Writes
    <3>1. At + 1 \in 1 .. 23 /\ Head(todo') = ram_write_byte[At + 1]
      BY <1>4, <2>1, CallKinds
    <3>2. WritePlace(At + 1, Head(todo'))
      BY <3>1, WritePlaces, Zenon
    <3>3. At \in 1 .. 23 /\ WritePlace(At, Head(todo))
      BY <1>1, <1>2, <2>1, Placed
    <3>4. At + 1 \in {5, 12, 7, 14}
      BY <1>3, <3>2 DEF WritePlace
    <3>5. At \in {4, 6, 11, 13}
      BY <3>3, <3>4
    <3> QED
      BY <3>3, <3>5 DEF WritePlace
  <2>2. CASE Reads
    <3>1. At + 1 \in 1 .. 22 /\ Head(todo') = ram_read_byte[At + 1]
      BY <1>4, <2>2, CallKinds
    <3>2. ReadPlace(At + 1, Head(todo'))
      BY <3>1, ReadPlaces, Zenon
    <3>3. At \in 1 .. 22 /\ ReadPlace(At, Head(todo))
      BY <1>1, <1>2, <2>2, Placed
    <3>4. At + 1 \in {6, 13, 8, 15}
      BY <1>3, <3>2 DEF ReadPlace
    <3>5. At \in {5, 7, 12, 14}
      BY <3>3, <3>4
    <3> QED
      BY <3>3, <3>5 DEF ReadPlace
  <2> QED
    BY <1>4, <2>1, <2>2, CallKinds
<1> QED
  BY <1>2, <1>5 DEF Effect

-----------------------------------------------------------------------------
(***************************************************************************)
(* The memory.                                                             *)
(***************************************************************************)

(* With the address on its pins, whatever is on the others of port D.      *)
LEMMA Wired ==
  ASSUME NEW a \in Address, NEW b, NEW c, NEW d,
         b = a \intersect AddrB, c = a \intersect AddrC,
         d \intersect AddrD = a \intersect AddrD,
         d \subseteq AddrD \union UsbPins \union ChipPins \union {"LED"}
  PROVE  (b \union c \union d) \intersect AddrPins = a
<1>1. AddrPins \intersect (UsbPins \union ChipPins \union {"LED"}) = {}
  BY RamAssumption
<1>2. d \intersect AddrPins = a \intersect AddrD
  BY <1>1 DEF AddrPins
<1> QED
  BY <1>2 DEF AddrPins, Address

LEMMA BusAddress ==
  ASSUME TypeOK, AddressPins, call \in Call, Pass \in Int, Pass >= 8
  PROVE  OnBus = call.addr
<1>1. /\ PORTB = call.addr \intersect AddrB
      /\ PORTC = call.addr \intersect AddrC
      /\ PORTD \intersect AddrD = call.addr \intersect AddrD
  BY CallKinds DEF AddressPins
<1>2. call.addr \in Address
  BY CallKinds
<1>3. PORTD \subseteq AddrD \union UsbPins \union ChipPins \union {"LED"}
  BY DEF TypeOK
<1> QED
  BY <1>1, <1>2, <1>3, Wired DEF OnBus

LEMMA NextBusAddress ==
  ASSUME TypeOK', AddressPins', call \in Call, call' = call,
         Pass' \in Int, Pass' >= 8
  PROVE  OnBus' = call.addr
<1>1. /\ PORTB' = call.addr \intersect AddrB
      /\ PORTC' = call.addr \intersect AddrC
      /\ PORTD' \intersect AddrD = call.addr \intersect AddrD
  BY CallKinds DEF AddressPins
<1>2. call.addr \in Address
  BY CallKinds
<1>3. PORTD' \subseteq AddrD \union UsbPins \union ChipPins \union {"LED"}
  BY DEF TypeOK
<1> QED
  BY <1>1, <1>2, <1>3, Wired DEF OnBus

(* What SramFollows comes to: in a write, once "WE" is low, the store that *)
(* is promised; else nothing.                                              *)
LEMMA Followed ==
  ASSUME TypeOK, TypeOK', Levels', AddressPins', call' = call, At' \in Int,
         call # NoCall => call \in Call, SramFollows
  PROVE  IF Writes /\ At' \in 19 .. 21
           THEN sram' = [sram EXCEPT ![call.addr] = call.data]
           ELSE sram' = sram
<1>1. (Writes' <=> Writes) /\ (Reads' <=> Reads) /\ Program' = Program
  BY SameCall
<1>2. Writing' <=> Writes /\ At' \in 19 .. 21
  <2>1. Writing' <=> CeLow' /\ WeLow'
    BY DEF Writing, Selected, Levels
  <2>2. WeLow' <=> Writes /\ At' \in 19 .. 21
    BY <1>1 DEF WeLow
  <2>3. WeLow' => CeLow'
    BY DEF WeLow, CeLow
  <2> QED
    BY <2>1, <2>2, <2>3
<1>3. CASE Writes /\ At' \in 19 .. 21
  <2>1. call \in Call
    BY <1>3 DEF Writes
  <2>2. Pass' \in Int /\ Pass' >= 8
    <3>1. Writes'
      BY <1>1, <1>3
    <3>2. Pass' = At' - 7
      BY <3>1, Zenon DEF Pass
    <3>3. At' \in 19 .. 21
      BY <1>3
    <3>4. \A n \in 19 .. 21 : n - 7 \in Int /\ n - 7 >= 8
      OBVIOUS
    <3> QED
      BY <3>2, <3>3, <3>4
  <2>3. OnBus' = call.addr
    BY <2>1, <2>2, NextBusAddress
  <2>4. DDRA' /\ PORTA' = call.data
    BY <1>1, <1>3 DEF Levels
  <2>5. Writing'
    BY <1>2, <1>3
  <2>6. PICK v \in Values : /\ DDRA' => v = PORTA'
                            /\ sram' = [sram EXCEPT ![OnBus'] = v]
    BY <2>5 DEF SramFollows
  <2> QED
    BY <1>3, <2>3, <2>4, <2>6
<1>4. CASE ~ (Writes /\ At' \in 19 .. 21)
  BY <1>2, <1>4 DEF SramFollows
<1> QED
  BY <1>3, <1>4

(* The step of RamCell that an instruction is.                             *)
CellStep ==
  \/ /\ Writes /\ sram' = [sram EXCEPT ![call.addr] = call.data]
     /\ UNCHANGED <<call, temp>>
  \/ Reads /\ temp' = sram[call.addr] /\ UNCHANGED <<call, sram>>
  \/ UNCHANGED <<call, sram, temp>>

LEMMA StepDone ==
  ASSUME BusInv, Instruction, TypeOK', Levels', AddressPins'
  PROVE  Done' /\ CellStep
<1>1. /\ TypeOK /\ Levels /\ AddressPins /\ Done /\ InProgram
      /\ todo' = Tail(todo) /\ call' = call /\ SramFollows
  BY DEF BusInv, Instruction
<1>2. Effect(Head(todo)) /\ todo # <<>>
  BY Effects
<1>3. /\ call \in Call /\ At' = At + 1 /\ At \in Int
      /\ (Writes' <=> Writes) /\ (Reads' <=> Reads)
  BY <1>1, <1>2, Advance, SameCall
<1>4. IF Writes /\ At' \in 19 .. 21
        THEN sram' = [sram EXCEPT ![call.addr] = call.data]
        ELSE sram' = sram
  BY <1>1, <1>3, Followed
<1>5. call.addr \in Address /\ sram \in [Address -> Values]
  BY <1>1, <1>3, CallKinds DEF TypeOK
<1>6. CASE Writes
  <2>1. ~ Reads /\ At \in 1 .. 23 /\ WritePlace(At, Head(todo))
    BY <1>1, <1>2, <1>3, <1>6, CallKinds, Placed
  <2>2. temp' = temp
    BY <1>2, <2>1 DEF Effect, WritePlace
  <2>3. At' >= 19 => sram'[call.addr] = call.data
    <3>1. At' \in 19 .. 21 => sram'[call.addr] = call.data
      BY <1>4, <1>5, <1>6
    <3>2. At' >= 22 => sram' = sram /\ At >= 19
      BY <1>3, <1>4, <2>1
    <3>3. At >= 19 => sram[call.addr] = call.data
      BY <1>1, <1>6 DEF Done
    <3> QED
      BY <1>3, <2>1, <3>1, <3>2, <3>3
  <2>4. Done'
    BY <1>1, <1>3, <2>1, <2>3 DEF Done
  <2>5. CellStep
    BY <1>1, <1>4, <1>6, <2>2 DEF CellStep
  <2> QED
    BY <2>4, <2>5
<1>7. CASE Reads
  <2>1. ~ Writes /\ At \in 1 .. 22 /\ ReadPlace(At, Head(todo))
    BY <1>1, <1>2, <1>3, <1>7, CallKinds, Placed
  <2>2. sram' = sram
    BY <1>4, <2>1
  <2>3. CASE Head(todo) = "sample"
    <3>1. At \in 18 .. 20
      BY <2>1, <2>3 DEF ReadPlace
    <3>2. Driving /\ ~ DDRA
      BY <1>1, <1>7, <2>1, <3>1
         DEF Levels, Driving, Selected, CeLow, WeLow, OeLow
    <3>3. Pass \in Int /\ Pass >= 8
      BY <1>3, <2>1, <3>1 DEF Pass
    <3>4. OnBus = call.addr
      BY <1>1, <1>3, <3>3, BusAddress
    <3>5. temp' = sram[call.addr]
      BY <1>2, <2>3, <3>2, <3>4 DEF Effect
    <3>6. Done'
      BY <1>1, <1>3, <2>1, <2>2, <3>5 DEF Done
    <3>7. CellStep
      BY <1>1, <1>7, <2>2, <3>5 DEF CellStep
    <3> QED
      BY <3>6, <3>7
  <2>4. CASE Head(todo) # "sample"
    <3>1. temp' = temp
      BY <1>2, <2>4 DEF Effect
    <3>2. At' >= 19 => At >= 19
      BY <1>3, <2>1, <2>4 DEF ReadPlace
    <3>3. At >= 19 => temp = sram[call.addr]
      BY <1>1, <1>7 DEF Done
    <3>4. Done'
      BY <1>1, <1>3, <2>1, <2>2, <3>1, <3>2, <3>3 DEF Done
    <3>5. CellStep
      BY <1>1, <2>2, <3>1 DEF CellStep
    <3> QED
      BY <3>4, <3>5
  <2> QED
    BY <2>3, <2>4
<1> QED
  BY <1>3, <1>6, <1>7, CallKinds

LEMMA InstructionInv ==
  ASSUME BusInv, Instruction
  PROVE  BusInv' /\ CellStep
<1>1. TypeOK' /\ Levels' /\ AddressPins' /\ Fresh'
  BY StepType, StepLevels, StepAddress, StepFresh
<1>2. Done' /\ CellStep
  BY <1>1, StepDone
<1>3. InProgram'
  <2>1. InProgram /\ todo' = Tail(todo) /\ call' = call
    BY DEF BusInv, Instruction
  <2>2. todo # <<>>
    BY Effects
  <2> QED
    BY <2>1, <2>2, Advance
<1> QED
  BY <1>1, <1>2, <1>3 DEF BusInv
LEMMA InitInv == Init => BusInv
<1> SUFFICES ASSUME Init PROVE BusInv
  OBVIOUS
<1>1. call = NoCall /\ todo = <<>> /\ ~ Writes /\ ~ Reads
  BY DEF Init, Writes, Reads
<1>2. TypeOK
  BY DEF Init, TypeOK, ChipPins
<1>3. InProgram
  BY <1>1 DEF InProgram
<1>4. Levels
  BY <1>1 DEF Init, Levels, CeLow, WeLow, OeLow, ChipPins
<1>5. AddressPins /\ Fresh /\ Done
  BY <1>1 DEF AddressPins, Fresh, Done
<1> QED
  BY <1>2, <1>3, <1>4, <1>5 DEF BusInv

(* A call begins with the memory not selected and the data pins inputs.    *)
LEMMA BeginInv ==
  ASSUME BusInv, Begin
  PROVE  BusInv'
<1>1. /\ TypeOK /\ Levels /\ ~ Writes /\ ~ Reads
      /\ UNCHANGED <<ports, sram, loaded, temp>>
      /\ call' \in Call /\ todo' = Program'
  BY DEF BusInv, Begin, Writes, Reads, Program
<1>2. /\ call' # NoCall /\ Program' \in Seq(Steps)
      /\ Len(Program') \in {22, 23}
      /\ Program'[1] \in {"ADDR0", "DDR_in"}
  <2>1. call' # NoCall
    BY <1>1, RamAssumption
  <2>2. Program' \in {ram_read_byte, ram_write_byte}
    BY DEF Program
  <2>3. ram_write_byte[1] = "ADDR0"
    BY WriteProgram, Cells
  <2> QED
    BY <2>1, <2>2, <2>3, WriteProgram, ReadProgram
<1>3. At' = 1
  BY <1>1, <1>2 DEF At
<1>4. TypeOK'
  BY <1>1 DEF TypeOK, ports
<1>5. InProgram'
  <2>1. \A i \in 1 .. Len(todo') : todo'[i] = Program'[At' - 1 + i]
    <3> TAKE i \in 1 .. Len(todo')
    <3>1. At' - 1 + i = i
      BY <1>2, <1>3
    <3> QED
      BY <1>1, <3>1
  <2> QED
    BY <1>1, <1>2, <2>1 DEF InProgram
<1>6. Levels'
  <2>1. /\ ~ CeLow' /\ ~ WeLow' /\ ~ OeLow'
        /\ At' \notin 16 .. 23 /\ ~ (At' >= 17)
    BY <1>3 DEF CeLow, WeLow, OeLow
  <2>2. PORTD' = PORTD /\ DDRA' = DDRA
    BY <1>1 DEF ports
  <2>3. "CE" \in PORTD /\ "WE" \in PORTD /\ "OE" \in PORTD /\ ~ DDRA
    BY <1>1 DEF Levels, CeLow, WeLow, OeLow
  <2> QED
    BY <2>1, <2>2, <2>3 DEF Levels
<1>7. AddressPins' /\ Done'
  <2>1. Pass' \in {-6, -7}
    BY <1>3 DEF Pass
  <2> QED
    BY <1>3, <2>1 DEF AddressPins, Done
<1>8. Fresh'
  BY <1>1, <1>2 DEF Fresh
<1> QED
  BY <1>4, <1>5, <1>6, <1>7, <1>8 DEF BusInv

(* It returns when the memory holds, or the caller has, the byte.          *)
LEMMA ReturnInv ==
  ASSUME BusInv, Return
  PROVE  /\ BusInv'
         /\ sram[call.addr] = IF call.op = "write" THEN call.data ELSE temp
<1>1. /\ TypeOK /\ Levels /\ Done
      /\ todo = <<>> /\ call \in Call /\ call' = NoCall
      /\ UNCHANGED <<ports, sram, todo, loaded, temp>>
  BY DEF BusInv, Return, InProgram
<1>2. /\ Writes => At = 24 /\ call.op = "write"
      /\ Reads => At = 23 /\ call.op = "read"
      /\ Writes <=> ~ Reads
  <2>1. Len(todo) = 0
    BY <1>1
  <2>2. /\ Writes => Len(Program) = 23 /\ call.op = "write"
        /\ Reads => Len(Program) = 22 /\ call.op = "read"
        /\ Writes <=> ~ Reads
    BY <1>1, CallKinds
  <2>3. ASSUME Writes PROVE At = 24
    <3>1. At = 23 + 1 - 0
      BY <2>1, <2>2, <2>3, Zenon DEF At
    <3> QED
      BY <3>1
  <2>4. ASSUME Reads PROVE At = 23
    <3>1. At = 22 + 1 - 0
      BY <2>1, <2>2, <2>4, Zenon DEF At
    <3> QED
      BY <3>1
  <2> QED
    BY <2>2, <2>3, <2>4
<1>3. sram[call.addr] = IF call.op = "write" THEN call.data ELSE temp
  BY <1>1, <1>2 DEF Done
<1>4. ~ Writes' /\ ~ Reads'
  BY <1>1 DEF Writes, Reads
<1>5. "CE" \in PORTD /\ "WE" \in PORTD /\ "OE" \in PORTD /\ ~ DDRA
  BY <1>1, <1>2 DEF Levels, CeLow, WeLow, OeLow
<1>6. Levels'
  BY <1>1, <1>4, <1>5 DEF Levels, CeLow, WeLow, OeLow, ports
<1>7. TypeOK'
  BY <1>1 DEF TypeOK, ports
<1>8. InProgram' /\ AddressPins' /\ Fresh' /\ Done'
  BY <1>1, <1>4 DEF InProgram, AddressPins, Fresh, Done
<1> QED
  BY <1>3, <1>6, <1>7, <1>8 DEF BusInv

(* What port D does to its other pins.                                     *)
LEMMA OtherPins ==
  ASSUME BusInv, TypeOK',
         UNCHANGED <<PORTB, PORTC, PORTA, DDRA, call, todo, loaded, temp>>,
         PORTD' \ (UsbPins \union {"LED"}) = PORTD \ (UsbPins \union {"LED"}),
         todo # <<>> => PORTD' \ UsbPins = PORTD \ UsbPins,
         sram' = sram \/ (Writes /\ At \in 19 .. 21
                          /\ sram' = [sram EXCEPT ![call.addr] = call.data])
  PROVE  BusInv'
<1>1. /\ TypeOK /\ InProgram /\ Levels /\ AddressPins /\ Fresh /\ Done
      /\ (Writes' <=> Writes) /\ (Reads' <=> Reads) /\ Program' = Program
  BY SameCall DEF BusInv
<1>2. At' = At
  BY <1>1 DEF At
<1>3. Pass' = Pass
  BY <1>1, <1>2 DEF Pass
<1>4. /\ "CE" \in PORTD' <=> "CE" \in PORTD
      /\ "WE" \in PORTD' <=> "WE" \in PORTD
      /\ "OE" \in PORTD' <=> "OE" \in PORTD
  BY DEF UsbPins
<1>5. PORTD' \intersect AddrD = PORTD \intersect AddrD
  <2>1. AddrD \intersect (UsbPins \union {"LED"}) = {}
    BY RamAssumption DEF AddrPins
  <2> QED
    BY <2>1
<1>6. InProgram'
  <2>1. todo' = todo /\ call' = call
    OBVIOUS
  <2> QED
    BY <1>1, <1>2, <2>1, Zenon DEF InProgram
<1>7. Levels'
  <2>1. (CeLow' <=> CeLow) /\ (WeLow' <=> WeLow) /\ (OeLow' <=> OeLow)
    BY <1>1, <1>2 DEF CeLow, WeLow, OeLow
  <2> QED
    BY <1>1, <1>2, <1>4, <2>1 DEF Levels
<1>8. AddressPins'
  BY <1>1, <1>3, <1>5 DEF AddressPins
<1>9. Fresh'
  BY <1>1 DEF Fresh
<1>10. Done'
  <2>1. CASE sram' = sram
    BY <1>1, <1>2, <2>1 DEF Done
  <2>2. CASE /\ Writes /\ At \in 19 .. 21
             /\ sram' = [sram EXCEPT ![call.addr] = call.data]
    <3>1. call \in Call
      BY <1>1, <2>2 DEF InProgram, Writes
    <3>2. call.addr \in Address /\ sram \in [Address -> Values] /\ ~ Reads
      BY <1>1, <2>2, <3>1, CallKinds DEF TypeOK
    <3> QED
      BY <1>1, <2>2, <3>2 DEF Done
  <2> QED
    BY <2>1, <2>2
<1> QED
  BY <1>6, <1>7, <1>8, <1>9, <1>10 DEF BusInv
LEMMA LedInv ==
  ASSUME BusInv, Led
  PROVE  BusInv' /\ UNCHANGED <<call, sram, temp>>
<1>1. /\ TypeOK /\ todo = <<>>
      /\ PORTD' \in {PORTD \union {"LED"}, PORTD \ {"LED"}}
      /\ UNCHANGED <<PORTB, PORTC, PORTA, DDRA, sram, call, todo, loaded, temp>>
  BY DEF BusInv, InProgram, Led
<1>2. TypeOK'
  BY <1>1 DEF TypeOK
<1> QED
  BY <1>1, <1>2, OtherPins

(* The memory goes on storing while the interrupt routine runs.            *)
LEMMA InterruptInv ==
  ASSUME BusInv, Interrupt
  PROVE  BusInv' /\ CellStep
<1>1. /\ TypeOK /\ Levels /\ AddressPins /\ InProgram
      /\ PORTD' \ UsbPins = PORTD \ UsbPins
      /\ PORTD' \subseteq PORTD \union UsbPins
      /\ UNCHANGED <<PORTB, PORTC, PORTA, DDRA, call, todo, loaded, temp>>
      /\ SramFollows
  BY DEF BusInv, Interrupt, AfterSending
<1>2. TypeOK'
  <2>1. sram' \in [Address -> Values]
    BY <1>1 DEF SramFollows, TypeOK
  <2>2. PORTD' \subseteq AddrD \union UsbPins \union ChipPins \union {"LED"}
    BY <1>1 DEF TypeOK
  <2> QED
    BY <1>1, <2>1, <2>2 DEF TypeOK
<1>3. (Writes' <=> Writes) /\ (Reads' <=> Reads) /\ Program' = Program
  BY <1>1, SameCall
<1>4. At' = At /\ Pass' = Pass
  <2>1. At' = At
    BY <1>1, <1>3 DEF At
  <2> QED
    BY <1>3, <2>1 DEF Pass
<1>5. Levels' /\ AddressPins'
  <2>1. (CeLow' <=> CeLow) /\ (WeLow' <=> WeLow) /\ (OeLow' <=> OeLow)
    BY <1>3, <1>4 DEF CeLow, WeLow, OeLow
  <2>2. /\ "CE" \in PORTD' <=> "CE" \in PORTD
        /\ "WE" \in PORTD' <=> "WE" \in PORTD
        /\ "OE" \in PORTD' <=> "OE" \in PORTD
    BY <1>1 DEF UsbPins
  <2>3. PORTD' \intersect AddrD = PORTD \intersect AddrD
    <3>1. AddrD \intersect UsbPins = {}
      BY UsbPinsApart
    <3> QED
      BY <1>1, <3>1
  <2>4. Levels'
    BY <1>1, <1>3, <1>4, <2>1, <2>2 DEF Levels
  <2>5. AddressPins'
    BY <1>1, <1>4, <2>3 DEF AddressPins
  <2> QED
    BY <2>4, <2>5
<1>6. /\ call # NoCall => call \in Call
      /\ At \in Int
  <2>1. Program \in {ram_read_byte, ram_write_byte} /\ Len(todo) \in Nat
    BY <1>1 DEF Program, InProgram
  <2>2. Len(Program) \in Int
    BY <2>1, ReadProgram, WriteProgram
  <2> QED
    BY <1>1, <2>1, <2>2 DEF InProgram, At
<1>7. IF Writes /\ At' \in 19 .. 21
        THEN sram' = [sram EXCEPT ![call.addr] = call.data]
        ELSE sram' = sram
  BY <1>1, <1>2, <1>4, <1>5, <1>6, Followed
<1>8. BusInv'
  BY <1>1, <1>2, <1>4, <1>7, OtherPins
<1>9. CellStep
  BY <1>1, <1>7 DEF CellStep
<1> QED
  BY <1>8, <1>9

LEMMA NextInv == BusInv /\ [Next]_vars => BusInv'
<1> SUFFICES ASSUME BusInv, [Next]_vars PROVE BusInv'
  OBVIOUS
<1>1. CASE UNCHANGED vars
  <2>1. /\ TypeOK /\ UNCHANGED <<PORTB, PORTC, PORTD, PORTA, DDRA, sram, call,
                                todo, loaded, temp, isr>>
    BY <1>1 DEF BusInv, vars, ports
  <2>2. TypeOK'
    BY <2>1 DEF TypeOK
  <2> QED
    BY <2>1, <2>2, OtherPins
<1> QED
  BY <1>1, InstructionInv, BeginInv, ReturnInv, LedInv, InterruptInv DEF Next

LEMMA SpecInv == Spec => []BusInv
<1> QED
  BY InitInv, NextInv, PTL DEF Spec

(* Every variable keeps to its range (ram.c).                              *)
THEOREM TypeCorrect == Spec => []TypeOK
<1>1. BusInv => TypeOK
  BY DEF BusInv
<1> QED
  BY <1>1, SpecInv, PTL

(* Processor and memory never drive the data pins at once, and the memory  *)
(* is never written from pins that nobody drives, with any address pins    *)
(* and wherever the interrupt comes (ram.c:56-68, 76-95).                  *)
THEOREM DataPinsShared == Spec => []NoContention
<1>1. BusInv => NoContention
  <2> SUFFICES ASSUME BusInv PROVE NoContention
    OBVIOUS
  <2>1. Levels
    BY DEF BusInv
  <2>2. ~ (Writes /\ Reads)
    BY DEF Writes, Reads
  <2>3. Driving => OeLow
    BY <2>1 DEF Driving, Levels
  <2>4. Driving => ~ DDRA
    BY <2>1, <2>2, <2>3 DEF Levels, OeLow
  <2>5. Writing => WeLow
    BY <2>1 DEF Writing, Levels
  <2>6. WeLow => DDRA
    BY <2>1 DEF Levels, WeLow
  <2> QED
    BY <2>4, <2>5, <2>6 DEF NoContention
<1> QED
  BY <1>1, SpecInv, PTL

(* The bus cycles of ram.c make a memory of bytes: a write stores its byte *)
(* at its address and nowhere else, and a read returns what is there.      *)
THEOREM CellImplemented == Spec => ImplementsCell
<1>1. Init => Cell!Init
  BY DEF Init, Cell!Init
<1>2. BusInv /\ [Next]_vars => [Cell!Next]_(Cell!vars)
  <2> SUFFICES ASSUME BusInv, [Next]_vars
               PROVE  Cell!Next \/ UNCHANGED <<sram, call, temp>>
    BY DEF Cell!vars
  <2>1. CASE CellStep
    BY <2>1 DEF CellStep, Writes, Reads, Cell!Next, Cell!Store, Cell!Fetch
  <2>2. CASE Begin
    <3>1. /\ call = NoCall /\ call' \in Call /\ UNCHANGED <<sram, temp>>
      BY <2>2 DEF Begin
    <3>2. Call = Cell!Call
      BY DEF Call, Cell!Call
    <3> QED
      BY <3>1, <3>2 DEF Cell!Next, Cell!Begin
  <2>3. CASE Return
    <3>1. /\ call # NoCall /\ call' = NoCall /\ UNCHANGED <<sram, temp>>
      BY <2>3 DEF Return
    <3>2. sram[call.addr] = IF call.op = "write" THEN call.data ELSE temp
      BY <2>3, ReturnInv
    <3> QED
      BY <3>1, <3>2 DEF Cell!Next, Cell!Return
  <2>4. CASE UNCHANGED vars
    BY <2>4 DEF vars
  <2> QED
    BY <2>1, <2>2, <2>3, <2>4, InstructionInv, LedInv, InterruptInv
       DEF Next, CellStep
<1> QED
  BY <1>1, <1>2, SpecInv, PTL DEF Spec, ImplementsCell, Cell!Spec
=============================================================================
