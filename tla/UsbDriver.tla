----------------------------- MODULE UsbDriver -----------------------------
(***************************************************************************)
(* The USB driver: usbPoll and what it calls (usbdrv.c), the interrupt     *)
(* routine (asmcommon.inc, usbdrvasm16.inc), the application's answers to  *)
(* control requests (main.c), and a host on the other end of the cable.    *)
(*                                                                         *)
(* The main loop is cut where the interrupt routine can tell the order of  *)
(* two of its stores; `pc' is the step that runs next.  The interrupt      *)
(* routine runs to its end, so a transaction of the host is one step:      *)
(* token, data and handshake.  A transaction answered with NAK, or not at  *)
(* all, changes nothing.                                                   *)
(*                                                                         *)
(* Data is abstract: a control packet carries a part of a named object,    *)
(* and a packet to endpoint 2 its number.  SETUP packets have 8 bytes.     *)
(***************************************************************************)
EXTENDS Integers

CONSTANTS
  Requests,   \* the control requests of the host: name, wLength, wValue
  Ids,        \* packets to endpoint 2 are numbered modulo Ids
  Faults      \* of "lost_in", "lost_ack": a packet of endpoint 1, or the
              \* acknowledgement of one to endpoint 2, that is lost

(* Handshakes have bit 4 set, the lengths of packets have not.             *)
USBPID_NAK == 90
IsHandshake(x) == (x \div 16) % 2 = 1

USB_NO_MSG  == 255
USB_BUFSIZE == 11

PID == {"DATA0", "DATA1"}
Toggled(pid) == IF pid = "DATA0" THEN "DATA1" ELSE "DATA0"
USB_INITIAL_DATATOKEN == "DATA1"

(* What a slot of the receive buffer holds: a request or the number of a   *)
(* packet to endpoint 2; junk holds neither.                               *)
NoRequest == [name |-> "none", wLength |-> 0, wValue |-> 0]
NoId      == Ids
Junk      == [request |-> NoRequest, id |-> NoId]
Packet    == [request : Requests \union {NoRequest}, id : 0 .. Ids]

ASSUME DriverAssumption ==
  /\ Ids \in Nat /\ Ids > 1
  /\ Requests \subseteq [name : STRING, wLength : Nat, wValue : Nat]

VARIABLES
  \* shared by the interrupt routine and the main loop
  usbRxBuf,          \* the two halves of the receive buffer
  usbInputBufOffset, \* the half the next packet is received into
  usbRxLen,          \* bytes received and not processed, 0 if none
  usbRxToken,        \* "SETUP", or "OUT2" for endpoint 2
  usbTxLen,          \* bytes to send on endpoint 0, or a handshake
  usbTxBuf,          \* the packet to send on endpoint 0
  usbTxStatus1,      \* length and packet for endpoint 1
  usbDeviceAddr,     \* the address the device answers to
  usbNewDeviceAddr,  \* the address it takes after its next data packet
  usbConfiguration,  \* the configuration selected, 0 for none
  \* of the main loop
  usbMsgPtr,         \* what is left of the reply: object, offset, memory
  usbMsgLen,         \* how much of it, or USB_NO_MSG
  usbMsgFlags,       \* USB_FLG_MSGPTR_IS_ROM
  pc,                \* the step that runs next
  half,              \* argument of usbProcessRx: the half to read
  seen,              \* the packet usbFunctionWriteOut got last
  \* the host
  line,              \* "up", or how far the device has seen the reset
  address,           \* the address the host uses
  configured,        \* endpoints 1 and 2 are in use
  stage,             \* where the host is in its control transfer
  request,           \* the request
  got,               \* bytes received of its reply
  toggle0,           \* the data token it expects next on endpoint 0
  toggle1,           \* and on endpoint 1
  next,              \* the packet it sends to endpoint 2 next
  dropped            \* it has discarded the last packet of endpoint 1

rxVars  == <<usbRxBuf, usbInputBufOffset, usbRxLen, usbRxToken>>
txVars  == <<usbTxLen, usbTxBuf>>
addrs   == <<usbDeviceAddr, usbNewDeviceAddr, usbConfiguration>>
msgVars == <<usbMsgPtr, usbMsgLen, usbMsgFlags>>
local   == <<half, seen>>
control == <<stage, request, got, toggle0>>
bus     == <<line, address, configured>>
bulk    == <<toggle1, next, dropped>>
device  == <<rxVars, txVars, usbTxStatus1, addrs, msgVars, pc, local>>
host    == <<control, bus, bulk>>
vars    == <<device, host>>

Nothing == [what |-> "nothing", off |-> 0, rom |-> FALSE]

(* usbInit: the first packet of endpoint 1 will have the other data token. *)
usbInit == usbTxStatus1 = [len |-> USBPID_NAK, pid |-> USB_INITIAL_DATATOKEN]

Init ==
  /\ usbRxBuf = [h \in 0 .. 1 |-> Junk]
  /\ usbInputBufOffset = 0
  /\ usbRxLen = 0
  /\ usbRxToken = "SETUP"
  /\ usbTxLen = USBPID_NAK
  /\ usbTxBuf = [pid |-> "DATA0", what |-> "nothing", off |-> 0, n |-> 0]
  /\ usbInit
  /\ usbDeviceAddr = 0 /\ usbNewDeviceAddr = 0 /\ usbConfiguration = 0
  /\ usbMsgPtr = Nothing
  /\ usbMsgLen = USB_NO_MSG
  /\ usbMsgFlags = FALSE
  /\ pc = "rx" /\ half = 0 /\ seen = Ids - 1
  /\ line = "up" /\ address = 0 /\ configured = FALSE
  /\ stage = "idle" /\ request = NoRequest /\ got = 0 /\ toggle0 = "DATA1"
  /\ toggle1 = "DATA0" /\ next = 0 /\ dropped = FALSE

-----------------------------------------------------------------------------
(* Answers to control requests: how many bytes, and from where.            *)

(* The descriptors, of which only the lengths matter.                      *)
usbDescriptorDevice == 18
configDescrCDC      == 9 + 9 + 2 * 7   \* with an interface and two endpoints

USB_CFG_VENDOR_NAME_LEN == 4
USB_CFG_DEVICE_NAME_LEN == 10

String(length) == 2 * length + 2

(* GET_DESCRIPTOR: objects in flash; there is no serial number.            *)
usbDriverDescriptor ==
  [DEVICE   |-> usbDescriptorDevice,
   CONFIG   |-> configDescrCDC,
   STRING_0 |-> String(1),
   STRING_1 |-> String(USB_CFG_VENDOR_NAME_LEN),
   STRING_2 |-> String(USB_CFG_DEVICE_NAME_LEN),
   STRING_3 |-> 0]

(* The other standard requests, answered from RAM.  HALT is not built.     *)
usbDriverSetup ==
  [GET_STATUS |-> 2, GET_CONFIGURATION |-> 1, GET_INTERFACE |-> 1,
   SET_ADDRESS |-> 0, SET_CONFIGURATION |-> 0, SET_INTERFACE |-> 0,
   CLEAR_FEATURE |-> 0, SET_FEATURE |-> 0]

(* Class and vendor requests; BULK_RESET is one it does not know.          *)
usbFunctionSetup ==
  [ECHO |-> 4, SET_LED |-> 0, LED_STATUS |-> 1, GET_MAX_LUN |-> 1,
   BULK_RESET |-> 0]

FromFlash(name) == name \in DOMAIN usbDriverDescriptor

ReplyLength(name) ==
  CASE name \in DOMAIN usbDriverDescriptor -> usbDriverDescriptor[name]
    [] name \in DOMAIN usbDriverSetup      -> usbDriverSetup[name]
    [] name \in DOMAIN usbFunctionSetup    -> usbFunctionSetup[name]
    [] OTHER                               -> 0

(* A reply is cut to wLength, if that fits the 8 bits of usbMsgLen.        *)
Limited(n, wLength) == IF wLength < 256 /\ n > wLength THEN wLength ELSE n

ReplyTo(rq) == [what |-> rq.name, off |-> 0, rom |-> FromFlash(rq.name)]

(* An object without length is not found; only standard requests set the   *)
(* pointer all the same.                                                   *)
SetsPointer(name) == ReplyLength(name) > 0 \/ name \in DOMAIN usbDriverSetup

-----------------------------------------------------------------------------
(* The main loop: usbPoll, then the application's use of endpoint 1.       *)

(* usbPoll: a packet has been received.                                    *)
Receive ==
  /\ pc = "rx"
  /\ IF usbRxLen > 0
     THEN half' = 1 - usbInputBufOffset /\ pc' = "process"
     ELSE UNCHANGED half /\ pc' = "tx"
  /\ UNCHANGED <<rxVars, txVars, usbTxStatus1, addrs, msgVars, seen, host>>

(* usbFunctionWriteOut gets the packet.                                    *)
ProcessOut ==
  /\ pc = "process" /\ usbRxToken = "OUT2"
  /\ seen' = usbRxBuf[half].id
  /\ pc' = "free"
  /\ UNCHANGED <<rxVars, txVars, usbTxStatus1, addrs, msgVars, half, host>>

(* usbProcessRx: what an answer pending from the request before is undone  *)
(* by, and the answer prepared.  usbTxLen keeps the interrupt routine from *)
(* the buffer.                                                             *)
AbortTransmitLate ==
  /\ usbTxBuf' = [usbTxBuf EXCEPT !.pid = "DATA0"]
  /\ UNCHANGED usbTxLen

AbortTransmit ==
  /\ usbTxLen' = USBPID_NAK
  /\ usbTxBuf' = [usbTxBuf EXCEPT !.pid = "DATA0"]

PrepareReply(rq) ==
  /\ usbMsgLen' = Limited(ReplyLength(rq.name), rq.wLength)
  /\ usbMsgFlags' = FromFlash(rq.name)
  /\ usbMsgPtr' = IF SetsPointer(rq.name) THEN ReplyTo(rq) ELSE usbMsgPtr

(* The data token of endpoint 1 starts anew, also that of a packet which   *)
(* waits to be sent.                                                       *)
usbResetDataToggling(rq) ==
  usbTxStatus1' = IF rq.name = "SET_INTERFACE"
                  THEN [usbTxStatus1 EXCEPT !.pid = USB_INITIAL_DATATOKEN]
                  ELSE usbTxStatus1

ProcessSetup ==
  /\ pc = "process" /\ usbRxToken = "SETUP"
  /\ LET rq == usbRxBuf[half].request IN
       /\ AbortTransmit
       /\ PrepareReply(rq)
       /\ usbResetDataToggling(rq)
       /\ usbNewDeviceAddr' = IF rq.name = "SET_ADDRESS" THEN rq.wValue
                                               ELSE usbNewDeviceAddr
       /\ usbConfiguration' = IF rq.name = "SET_CONFIGURATION" THEN rq.wValue
                                               ELSE usbConfiguration
  /\ pc' = "free"
  /\ UNCHANGED <<rxVars, usbDeviceAddr, local, host>>

(* The receive buffer is available again.                                  *)
Free ==
  /\ pc = "free"
  /\ usbRxLen' = 0
  /\ pc' = "tx"
  /\ UNCHANGED <<usbRxBuf, usbInputBufOffset, usbRxToken, txVars,
                 usbTxStatus1, addrs, msgVars, local, host>>

(* usbDeviceRead: flash and RAM have addresses of their own.               *)
ReadObject == IF usbMsgFlags = usbMsgPtr.rom THEN usbMsgPtr.what
                                             ELSE "garbage"

(* There may be a reply of no bytes: an empty packet.                      *)
ReplyPendingNonempty == usbMsgLen \notin {0, USB_NO_MSG}

ReplyPending == usbMsgLen # USB_NO_MSG

PacketSizeUnlimited == usbMsgLen

PacketSize == IF usbMsgLen > 8 THEN 8 ELSE usbMsgLen

(* A packet shorter than 8 bytes ends the reply.                           *)
LeftAfter(n) == IF n < 8 THEN USB_NO_MSG ELSE usbMsgLen - n

(* usbBuildTxBlock, up to the store to usbTxLen.                           *)
BuildTxBlock ==
  LET n == PacketSize IN
  /\ usbTxBuf' = [pid  |-> Toggled(usbTxBuf.pid),
                  what |-> IF n > 0 THEN ReadObject ELSE "nothing",
                  off  |-> IF n > 0 THEN usbMsgPtr.off ELSE 0,
                  n    |-> n]
  /\ usbMsgPtr' = [usbMsgPtr EXCEPT !.off = @ + n]
  /\ usbMsgLen' = LeftAfter(n)

Transmit ==
  /\ pc = "tx"
  /\ IF IsHandshake(usbTxLen) /\ ReplyPending
     THEN BuildTxBlock /\ pc' = "arm"
     ELSE UNCHANGED <<usbTxBuf, usbMsgPtr, usbMsgLen>> /\ pc' = "line"
  /\ UNCHANGED <<rxVars, usbTxLen, usbTxStatus1, addrs, usbMsgFlags, local,
                 host>>

Arm ==
  /\ pc = "arm"
  /\ usbTxLen' = usbTxBuf.n + 4
  /\ pc' = "line"
  /\ UNCHANGED <<rxVars, usbTxBuf, usbTxStatus1, addrs, msgVars, local,
                 host>>

(* The test for a reset, which lasts for two of them at least.             *)
Polled == [up |-> "up", se0 |-> "se0_polled",
           se0_polled |-> "se0_done", se0_done |-> "se0_done"]

ResetAddressesOne == usbDeviceAddr' = 0 /\ UNCHANGED usbNewDeviceAddr

ResetAddresses == usbDeviceAddr' = 0 /\ usbNewDeviceAddr' = 0

CheckReset ==
  /\ pc = "line"
  /\ line' = Polled[line]
  /\ IF line # "up"
     THEN ResetAddresses
     ELSE UNCHANGED <<usbDeviceAddr, usbNewDeviceAddr>>
  /\ pc' = "app"
  /\ UNCHANGED <<rxVars, txVars, usbTxStatus1, usbConfiguration, msgVars,
                 local, control, address, configured, bulk>>

(* Each packet of endpoint 1 has the other data token.                     *)
NextTxStatusSame == usbTxStatus1

NextTxStatus == [usbTxStatus1 EXCEPT !.pid = Toggled(@)]

(* usbSetInterrupt, when usbInterruptIsReady and there is a packet, up to  *)
(* the store to its length.                                                *)
FillInterrupt ==
  /\ pc = "app" /\ IsHandshake(usbTxStatus1.len)
  /\ usbTxStatus1' = NextTxStatus
  /\ pc' = "arm1"
  /\ UNCHANGED <<rxVars, txVars, addrs, msgVars, local, host>>

NothingToSend ==
  /\ pc = "app" /\ pc' = "rx"
  /\ UNCHANGED <<rxVars, txVars, usbTxStatus1, addrs, msgVars, local, host>>

ArmInterrupt ==
  /\ pc = "arm1"
  /\ usbTxStatus1' = [usbTxStatus1 EXCEPT !.len = 12]
  /\ pc' = "rx"
  /\ UNCHANGED <<rxVars, txVars, addrs, msgVars, local, host>>

MainLoop == \/ Receive \/ ProcessOut \/ ProcessSetup \/ Free
            \/ Transmit \/ Arm \/ CheckReset
            \/ FillInterrupt \/ NothingToSend \/ ArmInterrupt

-----------------------------------------------------------------------------
(* The host, and the interrupt routine that answers it.                    *)

(* The device hears a token only if it has its address.                    *)
CanHear == line = "up" /\ usbDeviceAddr = address

(* It answers NAK while a packet waits for the main loop.                  *)
ClearAlways == TRUE

Clear == usbRxLen = 0

(* handleData keeps a packet that is not empty, and turns to the other     *)
(* half of the buffer for the next.  That half holds junk from then on:    *)
(* whatever is sent on the bus, to this device or another, is received     *)
(* there, and stays there when the answer is NAK or none.                  *)
StorePacket(token, packet) ==
  /\ usbRxBuf' = [h \in 0 .. 1 |-> IF h = usbInputBufOffset THEN packet
                                                           ELSE Junk]
  /\ usbInputBufOffset' = 1 - usbInputBufOffset
  /\ usbRxLen' = USB_BUFSIZE
  /\ usbRxToken' = token

(* handleIn and usbSendAndReti: a data packet counts as received when it   *)
(* has been sent, and after it the device takes its new address.           *)
SendPacket == usbTxLen' = USBPID_NAK /\ usbDeviceAddr' = usbNewDeviceAddr

(* Requests after which endpoints 1 and 2 start anew.                      *)
ResetsPipes == {"SET_CONFIGURATION", "SET_INTERFACE"}

Transferring == {"setup", "data", "statusIn", "statusOut"}

PipesInUse == configured /\ ~ (/\ stage \in Transferring
                               /\ request.name \in ResetsPipes)

(* A host gives a new device its address, configures it, and only then     *)
(* uses its interface.                                                     *)
Sensible(rq) ==
  CASE rq.name = "SET_ADDRESS"       -> address = 0
    [] rq.name = "SET_CONFIGURATION" -> address # 0
    [] rq.name = "SET_INTERFACE"     -> configured
    [] OTHER                         -> TRUE

NewRequest ==
  /\ line = "up" /\ stage \in {"idle", "aborted"}
  /\ \E rq \in Requests : Sensible(rq) /\ request' = rq
  /\ stage' = "setup"
  /\ dropped' = (dropped /\ request'.name \notin ResetsPipes)
  /\ UNCHANGED <<device, got, toggle0, bus, toggle1, next>>

HostSetup ==
  /\ stage = "setup" /\ CanHear /\ Clear
  /\ StorePacket("SETUP", [request |-> request, id |-> NoId])
  /\ stage' = IF request.wLength > 0 THEN "data" ELSE "statusIn"
  /\ got' = 0 /\ toggle0' = "DATA1"
  /\ UNCHANGED <<txVars, usbTxStatus1, addrs, msgVars, pc, local, request,
                 bus, bulk>>

(* The data stage ends with a short packet, or with all the host wants.    *)
DataIn ==
  /\ stage = "data"
  /\ IF usbTxBuf.pid = toggle0
     THEN /\ got' = got + usbTxBuf.n
          /\ toggle0' = Toggled(toggle0)
          /\ stage' = IF usbTxBuf.n < 8 \/ got' >= request.wLength
                      THEN "statusOut" ELSE "data"
     ELSE UNCHANGED <<got, toggle0, stage>>
  /\ UNCHANGED <<request, bus, bulk>>

(* The status stage of a request without data: it is in effect.            *)
StatusIn ==
  /\ stage = "statusIn"
  /\ stage' = "idle" /\ got' = 0
  /\ address' = IF request.name = "SET_ADDRESS" THEN request.wValue
                                               ELSE address
  /\ configured' = (configured \/ request.name = "SET_CONFIGURATION")
  /\ toggle1' = IF request.name \in ResetsPipes THEN "DATA0" ELSE toggle1
  /\ UNCHANGED <<request, toggle0, line, next, dropped>>

HostIn0 ==
  /\ CanHear /\ Clear /\ ~ IsHandshake(usbTxLen)
  /\ SendPacket
  /\ DataIn \/ StatusIn
  /\ UNCHANGED <<rxVars, usbTxBuf, usbTxStatus1, usbNewDeviceAddr,
                 usbConfiguration, msgVars, pc, local>>

(* The status stage after data: an empty packet, which handleData          *)
(* acknowledges and does not keep.                                         *)
StatusOutKept ==
  /\ stage = "statusOut" /\ CanHear /\ Clear
  /\ StorePacket("OUT0", Junk)
  /\ stage' = "idle" /\ got' = 0
  /\ UNCHANGED <<txVars, usbTxStatus1, addrs, msgVars, pc, local, request,
                 toggle0, bus, bulk>>

StatusOut ==
  /\ stage = "statusOut" /\ CanHear /\ Clear
  /\ stage' = "idle" /\ got' = 0
  /\ UNCHANGED <<device, request, toggle0, bus, bulk>>

(* A packet to endpoint 2.  handleData does not look at its data token: a  *)
(* packet repeated after a lost acknowledgement is stored again.           *)
HostOut ==
  /\ PipesInUse /\ CanHear /\ Clear
  /\ StorePacket("OUT2", [request |-> NoRequest, id |-> next])
  /\ \/ next' = (next + 1) % Ids
     \/ "lost_ack" \in Faults /\ UNCHANGED next
  /\ UNCHANGED <<txVars, usbTxStatus1, addrs, msgVars, pc, local, control,
                 bus, toggle1, dropped>>

(* A packet from endpoint 1, which the host acknowledges and discards when *)
(* its data token is not the one due.                                      *)
HostIn1 ==
  /\ PipesInUse /\ CanHear /\ Clear /\ ~ IsHandshake(usbTxStatus1.len)
  /\ usbTxStatus1' = [usbTxStatus1 EXCEPT !.len = USBPID_NAK]
  /\ usbDeviceAddr' = usbNewDeviceAddr
  /\ \/ /\ usbTxStatus1.pid = toggle1
        /\ toggle1' = Toggled(toggle1) /\ dropped' = FALSE
     \/ /\ usbTxStatus1.pid # toggle1
        /\ dropped' = TRUE /\ UNCHANGED toggle1
     \/ /\ "lost_in" \in Faults
        /\ dropped' = FALSE /\ UNCHANGED toggle1
  /\ UNCHANGED <<rxVars, txVars, usbNewDeviceAddr, usbConfiguration,
                 msgVars, pc, local, control, bus, next>>

(* The host gives a transfer up.                                           *)
Abort ==
  /\ stage \in {"data", "statusIn", "statusOut"}
  /\ request.name # "SET_ADDRESS"
  /\ stage' = "aborted" /\ got' = 0
  /\ UNCHANGED <<device, request, toggle0, bus, bulk>>

BusReset ==
  /\ line = "up" /\ line' = "se0"
  /\ address' = 0 /\ configured' = FALSE
  /\ stage' = "idle" /\ got' = 0
  /\ UNCHANGED <<device, request, toggle0, bulk>>

EndReset ==
  /\ line = "se0_done" /\ line' = "up"
  /\ UNCHANGED <<device, control, address, configured, bulk>>

Bus == \/ NewRequest \/ HostSetup \/ HostIn0 \/ StatusOut
       \/ HostOut \/ HostIn1 \/ Abort \/ BusReset \/ EndReset

Next == MainLoop \/ Bus

Spec == Init /\ [][Next]_vars

(* The main loop runs on; the host repeats what was answered with NAK or   *)
(* not at all, and ends its resets.                                        *)
Fairness ==
  /\ WF_vars(MainLoop)
  /\ WF_vars(HostSetup) /\ WF_vars(HostIn0) /\ WF_vars(StatusOut)
  /\ WF_vars(EndReset)

FairSpec == Spec /\ Fairness

-----------------------------------------------------------------------------
(* What a packet sent on endpoint 0 may carry a part of.                   *)
Objects == {rq.name : rq \in Requests} \union {"none", "nothing", "garbage"}

TypeOK ==
  /\ usbRxBuf \in [0 .. 1 -> Packet] /\ usbInputBufOffset \in 0 .. 1
  /\ usbRxLen \in {0, USB_BUFSIZE} /\ usbRxToken \in {"SETUP", "OUT2"}
  /\ usbTxLen \in 4 .. 12 \union {USBPID_NAK}
  /\ usbTxBuf \in [pid : PID, what : Objects, off : Nat, n : 0 .. 8]
  /\ usbTxStatus1 \in [len : {USBPID_NAK, 12}, pid : PID]
  /\ usbDeviceAddr \in Nat /\ usbNewDeviceAddr \in Nat
  /\ usbConfiguration \in Nat /\ address \in Nat
  /\ usbMsgPtr \in [what : Objects, off : Nat, rom : BOOLEAN]
  /\ usbMsgLen \in 0 .. 255 /\ usbMsgFlags \in BOOLEAN
  /\ pc \in {"rx", "process", "free", "tx", "arm", "line", "app", "arm1"}
  /\ half \in 0 .. 1 /\ seen \in 0 .. Ids /\ next \in 0 .. Ids - 1
  /\ line \in DOMAIN Polled /\ configured \in BOOLEAN
  /\ stage \in Transferring \union {"idle", "aborted"}
  /\ request \in Requests \union {NoRequest} /\ got \in Nat
  /\ toggle0 \in PID /\ toggle1 \in PID /\ dropped \in BOOLEAN

(* What the interrupt routine would send on endpoint 0 is what the host    *)
(* asked for: the next part of the object its request names, in order,     *)
(* never a packet left over from a request before, whatever was aborted or *)
(* arrived meanwhile (asmcommon.inc:129-145, usbdrv.c:441-486).            *)
Due == [pid  |-> toggle0, what |-> request.name, off |-> got,
        n    |-> LET left == Limited(ReplyLength(request.name),
                                     request.wLength) - got
                 IN IF left > 8 THEN 8 ELSE left]
NextAnswerFits ==
  (CanHear /\ Clear /\ ~ IsHandshake(usbTxLen)) =>
    /\ usbTxLen = usbTxBuf.n + 4
    /\ stage = "data" =>
         IF Due.n > 0 THEN usbTxBuf = Due
                      ELSE usbTxBuf.n = 0 /\ usbTxBuf.pid = toggle0
    /\ stage = "statusIn" => usbTxBuf.pid = "DATA1" /\ usbTxBuf.n = 0

(* Once its request is processed, a host that waits for an answer is never *)
(* forgotten: a packet is there to be sent, or the driver knows of a reply *)
(* to build one from, an empty packet included (usbdrv.c:441-486, 589-593).*)
RequestWaits == usbRxLen # 0 /\ usbRxToken = "SETUP" /\ pc # "free"
AnswerComing ==
  (stage \in {"data", "statusIn"} /\ ~ RequestWaits) =>
    ~ IsHandshake(usbTxLen) \/ pc = "arm" \/ ReplyPending

(* Host and device use the same address whenever the bus is not being      *)
(* reset, through every order of SET_ADDRESS, other traffic and resets     *)
(* (usbdrvasm16.inc:320-328, usbdrv.c:594-601), and a device that the host *)
(* has configured is.                                                      *)
AddressAgreed ==
  /\ line = "up" => usbDeviceAddr = address
  /\ configured => usbConfiguration # 0

(* asmcommon.inc:117: "we must not NAK next SETUP".  When the host may     *)
(* begin a request, because the one before has ended or was given up, the  *)
(* status stage of the one before does not occupy the receive buffer.      *)
(* What may, and gets the next SETUP a NAK (asmcommon.inc:111-113), is a   *)
(* packet to endpoint 2, or the SETUP of the request the host gave up      *)
(* before usbPoll was done with it; never one of a request that ended.     *)
GivenUpSetup ==
  /\ stage = "aborted" /\ usbRxToken = "SETUP"
  /\ usbRxBuf[1 - usbInputBufOffset].request = request
SetupNotNaked ==
  (line = "up" /\ stage \in {"idle", "aborted"}) =>
    Clear \/ usbRxToken = "OUT2" \/ GivenUpSetup

(* After a packet of endpoint 1 that the host discarded, the next has the  *)
(* data token the host expects: a toggle that is reset while a packet      *)
(* waits, or one that is not reset, costs one packet (usbdrv.c:195-203).   *)
NextToken == IF IsHandshake(usbTxStatus1.len) /\ pc # "arm1"
             THEN Toggled(usbTxStatus1.pid) ELSE usbTxStatus1.pid
OneDropResyncs == (dropped /\ PipesInUse) => NextToken = toggle1

(* The double buffer with its flag usbRxLen is the slot of UsbOutPipe: no  *)
(* packet the device acknowledged is lost, overwritten or changed before   *)
(* it is processed (asmcommon.inc:104-127, usbdrv.c:573-587).              *)
Waiting == usbRxLen # 0 /\ usbRxToken = "OUT2" /\ pc # "free"
Pipe == INSTANCE UsbOutPipe
          WITH slot <- IF Waiting THEN usbRxBuf[1 - usbInputBufOffset].id
                                  ELSE NoId
ImplementsOutPipe == Pipe!Spec

(* Once the host leaves bulk traffic, aborts and resets alone, a control   *)
(* transfer it has begun ends.                                             *)
Quiet == <>[][~ (HostOut \/ Abort \/ BusReset)]_vars
ControlTransfersEnd ==
  Quiet => (stage \in Transferring ~> stage \in {"idle", "aborted"})
=============================================================================
