------------------------------- MODULE RamBus -------------------------------
(***************************************************************************)
(* The pins between the processor and the SRAM (ram.c), and the interrupt  *)
(* routine of the USB driver (usbdrvasm16.inc), which uses pins of the     *)
(* same port D and may come between any two instructions.                  *)
(*                                                                         *)
(* A port is the set of its pins that are high, an address the set of the  *)
(* address pins that are.  `todo' is what is left of the call, one         *)
(* instruction per step: a pin of a port is set and cleared by one (sbi,   *)
(* cbi), while a change of several is a load, and a store of the whole     *)
(* port.  The memory follows its pins after every step.                    *)
(***************************************************************************)
EXTENDS Naturals, Sequences

CONSTANTS AddrB, AddrC, AddrD,  \* the address pins of each port
          Values,               \* of a byte
          NoCall

UsbPins == {"D+", "D-"}
ChipPins == {"CE", "WE", "OE"}
AddrPins == AddrB \union AddrC \union AddrD
Address == SUBSET AddrPins

Call == [op : {"read"}, addr : Address]
          \union [op : {"write"}, addr : Address, data : Values]

ASSUME RamAssumption ==
  /\ AddrPins \intersect (UsbPins \union ChipPins \union {"LED"}) = {}
  /\ AddrB \intersect AddrC = {} /\ AddrB \intersect AddrD = {}
  /\ AddrC \intersect AddrD = {}
  /\ NoCall \notin Call

VARIABLES
  PORTB, PORTC, PORTD,  \* the pins that are high
  PORTA, DDRA,          \* the byte on the data pins; they are outputs
  sram,                 \* the contents of the memory
  call,                 \* the call in progress
  todo,                 \* its instructions that remain
  loaded,               \* the register of a load and store of port D
  temp,                 \* the byte read last
  isr                   \* the interrupt routine sends a packet

ports == <<PORTB, PORTC, PORTD, PORTA, DDRA>>
vars == <<ports, sram, call, todo, loaded, temp, isr>>

(* ram_init: the memory is not selected.                                   *)
Init ==
  /\ PORTB = {} /\ PORTC = {} /\ PORTD = ChipPins
  /\ PORTA \in Values /\ DDRA = FALSE
  /\ sram \in [Address -> Values]
  /\ call = NoCall /\ todo = <<>> /\ loaded = {} /\ temp \in Values
  /\ isr = FALSE

SetAddress == <<"ADDR0", "ADDR1_and", "ADDR1_or",
                "load", "ADDR2_and", "load", "ADDR2_or">>

ram_write_byte_early ==
  SetAddress \o <<"CE_low", "WE_low">> \o SetAddress \o
  <<"DDR_out", "data", "DDR_out", "data", "WE_high", "CE_high", "DDR_in">>

ram_write_byte ==
  SetAddress \o SetAddress \o
  <<"DDR_out", "data", "CE_low", "WE_low",
    "DDR_out", "data", "WE_high", "CE_high", "DDR_in">>

ram_read_byte_enabled ==
  <<"DDR_in">> \o SetAddress \o SetAddress \o
  <<"CE_low", "OE_low", "sample", "sample", "sample", "CE_high">>

ram_read_byte ==
  <<"DDR_in">> \o SetAddress \o SetAddress \o
  <<"CE_low", "OE_low", "sample", "sample", "sample", "OE_high", "CE_high">>

-----------------------------------------------------------------------------
(* The memory.                                                             *)
OnBus == (PORTB \union PORTC \union PORTD) \intersect AddrPins

Selected == "CE" \notin PORTD
Writing  == Selected /\ "WE" \notin PORTD
Driving  == Selected /\ "OE" \notin PORTD /\ "WE" \in PORTD

(* What the memory holds after a step: while it is written to, the byte on *)
(* the data pins at the address on the address pins.                       *)
SramFollows ==
  IF Writing'
  THEN \E v \in Values : /\ DDRA' => v = PORTA'
                         /\ sram' = [sram EXCEPT ![OnBus'] = v]
  ELSE sram' = sram

-----------------------------------------------------------------------------
(* The instructions.                                                       *)
Does(step) == todo # <<>> /\ Head(todo) = step /\ ~ isr

(* The part of the address for port B.                                     *)
LowAddressUnmasked == call.addr

LowAddress == call.addr \intersect AddrB

Address0 == /\ Does("ADDR0")
            /\ PORTB' = LowAddress
            /\ UNCHANGED <<PORTC, PORTD, PORTA, DDRA, loaded, temp>>

Address1 == /\ \/ Does("ADDR1_and") /\ PORTC' = PORTC \ AddrC
               \/ /\ Does("ADDR1_or")
                  /\ PORTC' = PORTC \union (call.addr \intersect AddrC)
            /\ UNCHANGED <<PORTB, PORTD, PORTA, DDRA, loaded, temp>>

Load == /\ Does("load")
        /\ loaded' = PORTD
        /\ UNCHANGED <<ports, temp>>

Address2 == /\ \/ Does("ADDR2_and") /\ PORTD' = loaded \ AddrD
               \/ /\ Does("ADDR2_or")
                  /\ PORTD' = loaded \union (call.addr \intersect AddrD)
            /\ UNCHANGED <<PORTB, PORTC, PORTA, DDRA, loaded, temp>>

Chip == /\ \/ Does("CE_low")  /\ PORTD' = PORTD \ {"CE"}
           \/ Does("CE_high") /\ PORTD' = PORTD \union {"CE"}
           \/ Does("WE_low")  /\ PORTD' = PORTD \ {"WE"}
           \/ Does("WE_high") /\ PORTD' = PORTD \union {"WE"}
           \/ Does("OE_low")  /\ PORTD' = PORTD \ {"OE"}
           \/ Does("OE_high") /\ PORTD' = PORTD \union {"OE"}
        /\ UNCHANGED <<PORTB, PORTC, PORTA, DDRA, loaded, temp>>

Data == /\ \/ Does("DDR_out") /\ DDRA' = TRUE /\ UNCHANGED PORTA
           \/ Does("DDR_in") /\ DDRA' = FALSE /\ UNCHANGED PORTA
           \/ Does("data") /\ PORTA' = call.data /\ UNCHANGED DDRA
        /\ UNCHANGED <<PORTB, PORTC, PORTD, loaded, temp>>

(* Data pins that nobody drives have any value.                            *)
Sample == /\ Does("sample")
          /\ temp' \in Values
          /\ DDRA => temp' = PORTA
          /\ (Driving /\ ~ DDRA) => temp' = sram[OnBus]
          /\ UNCHANGED <<ports, loaded>>

Instruction ==
  /\ Address0 \/ Address1 \/ Load \/ Address2 \/ Chip \/ Data \/ Sample
  /\ todo' = Tail(todo)
  /\ SramFollows
  /\ UNCHANGED <<call, isr>>

Begin == /\ call = NoCall /\ ~ isr
         /\ call' \in Call
         /\ todo' = IF call'.op = "write" THEN ram_write_byte ELSE ram_read_byte
         /\ UNCHANGED <<ports, sram, loaded, temp, isr>>

Return == /\ call # NoCall /\ todo = <<>> /\ ~ isr
          /\ call' = NoCall
          /\ UNCHANGED <<ports, sram, todo, loaded, temp, isr>>

(* LED_ON, LED_OFF.                                                        *)
Led == /\ call = NoCall /\ ~ isr
       /\ PORTD' \in {PORTD \union {"LED"}, PORTD \ {"LED"}}
       /\ UNCHANGED <<PORTB, PORTC, PORTA, DDRA, sram, call, todo, loaded,
                      temp, isr>>

(* usbSendAndReti: any levels on the pins of the USB while it sends, and   *)
(* low at the end, "no pull-up resistors".                                 *)
AfterSendingIdle == (PORTD \ UsbPins) \union {"D-"}

AfterSending == PORTD \ UsbPins

Interrupt ==
  /\ \/ /\ ~ isr /\ isr' = TRUE
        /\ \E levels \in SUBSET UsbPins :
             PORTD' = (PORTD \ UsbPins) \union levels
     \/ /\ isr /\ isr' = FALSE
        /\ PORTD' = AfterSending
  /\ UNCHANGED <<PORTB, PORTC, PORTA, DDRA, call, todo, loaded, temp>>
  /\ SramFollows

Next == Begin \/ Instruction \/ Return \/ Led \/ Interrupt

Spec == Init /\ [][Next]_vars

-----------------------------------------------------------------------------
TypeOK ==
  /\ PORTB \subseteq AddrB /\ PORTC \subseteq AddrC
  /\ PORTD \subseteq AddrD \union UsbPins \union ChipPins \union {"LED"}
  /\ PORTA \in Values /\ DDRA \in BOOLEAN /\ temp \in Values
  /\ sram \in [Address -> Values]
  /\ call \in Call \union {NoCall}
  /\ loaded \subseteq AddrD \union UsbPins \union ChipPins \union {"LED"}

(* The processor and the memory never drive the data pins at once, and the *)
(* memory is never written from data pins that nobody drives               *)
(* (ram.c:56-68, 76-95).                                                   *)
NoContention == /\ Driving => ~ DDRA
                /\ Writing => DDRA

(* Neither of the two that change port D takes back what the other did: a  *)
(* value of the port that was loaded before an interrupt and stored after  *)
(* it changes no pin of the USB, and the routine changes no other          *)
(* (ram.c:43-52, usbdrvasm16.inc:258-274).                                 *)
PinsKept ==
  [][IF isr = isr' THEN PORTD' \intersect UsbPins = PORTD \intersect UsbPins
                   ELSE PORTD' \ UsbPins = PORTD \ UsbPins]_vars

(* The bus cycles make a memory: no write reaches another address than its *)
(* own, whatever values pass over the address pins, and reads return the   *)
(* byte written last (ram.c:41-95).                                        *)
Cell == INSTANCE RamCell WITH mem <- sram, result <- temp
ImplementsCell == Cell!Spec
=============================================================================
