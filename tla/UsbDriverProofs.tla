-------------------------- MODULE UsbDriverProofs --------------------------
(***************************************************************************)
(* Theorems about UsbDriver, for every set of requests, every numbering of *)
(* the packets to endpoint 2, and with or without losses on endpoints 1    *)
(* and 2.                                                                  *)
(*                                                                         *)
(* Where a theorem needs it, requests are as the USB standard has them:    *)
(* those that change the state of the device have no data stage, and a     *)
(* configuration that is selected is not 0.                                *)
(***************************************************************************)
EXTENDS UsbDriver, TLAPS

StandardRequests ==
  \A rq \in Requests :
    /\ rq.name \in {"SET_ADDRESS", "SET_CONFIGURATION", "SET_INTERFACE"}
         => rq.wLength = 0
    /\ rq.name = "SET_CONFIGURATION" => rq.wValue # 0

-----------------------------------------------------------------------------
(***************************************************************************)
(* The inductive invariant, in parts.                                      *)
(***************************************************************************)

(* The packet that waits, and the states in which a SETUP does.            *)
Slot        == usbRxBuf[1 - usbInputBufOffset]
Unprocessed == usbRxLen # 0 /\ pc # "free"
SetupWaits  == Unprocessed /\ usbRxToken = "SETUP"

(* Where the main loop is, seen from the buffers it works on.              *)
LoopInv ==
  /\ pc \in {"process", "free"} => usbRxLen # 0
  /\ pc = "process" => half = 1 - usbInputBufOffset
  /\ SetupWaits => Slot.request \in Requests
  /\ Waiting => Slot.id \in 0 .. Ids - 1
  /\ pc = "arm" => IsHandshake(usbTxLen)
  /\ pc = "arm1" => IsHandshake(usbTxStatus1.len)

(* The host waits for an answer to the request it has sent.                *)
Awaiting == stage \in {"data", "statusIn"}

HostInv ==
  /\ stage \in Transferring => request \in Requests
  /\ stage = "data" => request.wLength > 0
  /\ stage = "statusIn" => request.wLength = 0
  /\ Awaiting /\ SetupWaits => Slot.request = request

(* What two tests for a reset leave behind.                                *)
ResetInv ==
  /\ line # "up" => stage = "idle" /\ address = 0 /\ ~ configured
  /\ line = "se0_polled" /\ pc \in {"tx", "arm", "line"} => usbRxLen = 0
  /\ line = "se0_done" =>
       usbRxLen = 0 /\ usbDeviceAddr = 0 /\ usbNewDeviceAddr = 0

(* What is in the receive buffer, but while the host begins a request: a   *)
(* packet to endpoint 2, or the SETUP of the request it is at or gave up.  *)
OwnSetup ==
  /\ stage \in {"data", "statusIn", "aborted"} /\ usbRxToken = "SETUP"
  /\ Slot.request = request
RoomInv ==
  (line = "up" /\ stage # "setup") =>
    Clear \/ usbRxToken = "OUT2" \/ OwnSetup

(* The host gives the device its address.                                  *)
Addressing == stage = "statusIn" /\ request.name = "SET_ADDRESS"

AddressInv ==
  /\ configured => address # 0
  /\ line = "up" => usbDeviceAddr = address
  /\ line = "up" /\ ~ Addressing =>
       /\ usbNewDeviceAddr = address
       /\ SetupWaits => Slot.request.name # "SET_ADDRESS"
  /\ Addressing /\ ~ SetupWaits => usbNewDeviceAddr = request.wValue
  /\ stage \in {"setup", "statusIn"} =>
       /\ request.name = "SET_ADDRESS" => address = 0
       /\ request.name = "SET_CONFIGURATION" => address # 0
  /\ \/ stage = "statusIn" /\ request.name = "SET_CONFIGURATION"
     \/ configured
     => SetupWaits \/ usbConfiguration # 0
  /\ configured => usbConfiguration # 0

(* No request that resets the data tokens is on its way while a packet of  *)
(* endpoint 1 has been discarded.                                          *)
TokenInv ==
  /\ dropped /\ configured =>
       /\ NextToken = toggle1
       /\ SetupWaits => Slot.request.name # "SET_INTERFACE"
  /\ dropped /\ stage \in Transferring => request.name \notin ResetsPipes

(* The answer being sent: how much of it there is, whether its next packet *)
(* has been built, and where the one after that will come from.            *)
Length == Limited(ReplyLength(request.name), request.wLength)
Built  == pc = "arm" \/ ~ IsHandshake(usbTxLen)
Answering == Awaiting /\ ~ SetupWaits

AnswerInv ==
  /\ ~ IsHandshake(usbTxLen) => usbTxLen = usbTxBuf.n + 4
  /\ Awaiting => got <= Length
  /\ stage = "statusIn" \/ (Awaiting /\ SetupWaits) =>
       got = 0 /\ toggle0 = "DATA1"
  /\ Answering /\ Built =>
       /\ usbTxBuf.pid = toggle0 /\ usbTxBuf.n = Due.n
       /\ Due.n > 0 => usbTxBuf = Due
       /\ Due.n = 8 => usbMsgLen = Length - got - 8
       /\ Length - got > 8 =>
            usbMsgPtr = [ReplyTo(request) EXCEPT !.off = got + 8]
  /\ Answering /\ ~ Built =>
       /\ usbTxBuf.pid # toggle0
       /\ usbMsgLen = Length - got
       /\ Length > got => usbMsgPtr = [ReplyTo(request) EXCEPT !.off = got]
  /\ Answering /\ Length > 0 => usbMsgFlags = FromFlash(request.name)

-----------------------------------------------------------------------------
(***************************************************************************)
(* Types.                                                                  *)
(***************************************************************************)

LEMMA Handshakes ==
  IsHandshake(USBPID_NAK) /\ \A n \in 4 .. 12 : ~ IsHandshake(n)
BY DEF IsHandshake, USBPID_NAK

LEMMA Lengths == \A name : ReplyLength(name) \in 0 .. 32
<1>1. ASSUME NEW name \in DOMAIN usbDriverDescriptor
      PROVE  usbDriverDescriptor[name] \in 0 .. 32
  BY <1>1 DEF usbDriverDescriptor, usbDescriptorDevice, configDescrCDC,
              String, USB_CFG_VENDOR_NAME_LEN, USB_CFG_DEVICE_NAME_LEN
<1>2. ASSUME NEW name \in DOMAIN usbDriverSetup
      PROVE  usbDriverSetup[name] \in 0 .. 32
  BY <1>2 DEF usbDriverSetup
<1>3. ASSUME NEW name \in DOMAIN usbFunctionSetup
      PROVE  usbFunctionSetup[name] \in 0 .. 32
  BY <1>3 DEF usbFunctionSetup
<1> QED
  BY <1>1, <1>2, <1>3 DEF ReplyLength

LEMMA Limits ==
  \A name, w : w \in Nat => Limited(ReplyLength(name), w) \in 0 .. 32
BY Lengths DEF Limited

LEMMA Toggles == \A pid \in PID : Toggled(pid) \in PID /\ Toggled(pid) # pid
BY DEF PID, Toggled

LEMMA Lines == DOMAIN Polled = {"up", "se0", "se0_polled", "se0_done"}
BY DEF Polled

LEMMA TypeInit == Init => TypeOK
<1> SUFFICES ASSUME Init PROVE TypeOK
  OBVIOUS
<1> USE DriverAssumption DEF Init
<1>1. usbRxBuf \in [0 .. 1 -> Packet]
  BY DEF Junk, NoRequest, NoId, Packet
<1>2. usbTxStatus1 \in [len : {USBPID_NAK, 12}, pid : PID]
  <2>1. usbTxStatus1 = [len |-> USBPID_NAK, pid |-> "DATA1"]
    BY DEF usbInit, USB_INITIAL_DATATOKEN
  <2> QED
    BY <2>1 DEF PID
<1>3. usbTxBuf \in [pid : PID, what : Objects, off : Nat, n : 0 .. 8]
  <2>1. usbTxBuf = [pid |-> "DATA0", what |-> "nothing", off |-> 0, n |-> 0]
    OBVIOUS
  <2> HIDE DEF Init
  <2> QED
    BY <2>1 DEF PID, Objects
<1>4. usbMsgPtr \in [what : Objects, off : Nat, rom : BOOLEAN]
  <2>1. usbMsgPtr = [what |-> "nothing", off |-> 0, rom |-> FALSE]
    BY DEF Nothing
  <2> HIDE DEF Init
  <2> QED
    BY <2>1 DEF Objects
<1>5. /\ usbMsgLen \in 0 .. 255
      /\ seen \in 0 .. Ids /\ next \in 0 .. Ids - 1
  BY DEF USB_NO_MSG
<1>6. /\ usbMsgFlags \in BOOLEAN /\ configured \in BOOLEAN
      /\ dropped \in BOOLEAN
  BY Zenon
<1>7. toggle0 \in PID /\ toggle1 \in PID /\ line \in DOMAIN Polled
  BY Lines DEF PID
<1>8. /\ usbInputBufOffset \in 0 .. 1 /\ half \in 0 .. 1
      /\ usbRxLen \in {0, USB_BUFSIZE} /\ usbRxToken \in {"SETUP", "OUT2"}
      /\ usbTxLen \in 4 .. 12 \union {USBPID_NAK}
      /\ usbDeviceAddr \in Nat /\ usbNewDeviceAddr \in Nat
      /\ usbConfiguration \in Nat /\ address \in Nat /\ got \in Nat
  OBVIOUS
<1>9. /\ pc \in {"rx", "process", "free", "tx", "arm", "line", "app", "arm1"}
      /\ stage \in Transferring \union {"idle", "aborted"}
      /\ request \in Requests \union {NoRequest}
  OBVIOUS
<1> HIDE DEF Init
<1> QED
  BY <1>1, <1>2, <1>3, <1>4, <1>5, <1>6, <1>7, <1>8, <1>9 DEF TypeOK

(* Every step keeps the types: the packet kept is one of the host's, and   *)
(* no length outgrows its buffer.                                          *)
LEMMA TypeStep == TypeOK /\ [Next]_vars => TypeOK'
<1> SUFFICES ASSUME TypeOK, [Next]_vars PROVE TypeOK'
  OBVIOUS
<1> USE DriverAssumption
<1>1. CASE Receive
  BY <1>1 DEF Receive, TypeOK, rxVars, txVars, addrs, msgVars, host, control,
              bus, bulk
<1>2. CASE ProcessOut
  BY <1>2 DEF ProcessOut, TypeOK, Packet, rxVars, txVars, addrs, msgVars,
              host, control, bus, bulk
<1>3. CASE ProcessSetup
  <2> DEFINE rq == usbRxBuf[half].request
  <2>1. rq.name \in Objects /\ rq.wLength \in Nat /\ rq.wValue \in Nat
    <3>1. usbRxBuf[half] \in Packet
      BY DEF TypeOK
    <3>2. rq \in Requests \union {NoRequest}
      BY <3>1 DEF Packet
    <3> QED
      BY <3>2 DEF NoRequest, Objects
  <2>2. usbMsgLen' \in 0 .. 255 /\ usbMsgFlags' \in BOOLEAN
    BY <1>3, <2>1, Limits DEF ProcessSetup, PrepareReply, FromFlash
  <2>3. usbMsgPtr' \in [what : Objects, off : Nat, rom : BOOLEAN]
    BY <1>3, <2>1 DEF ProcessSetup, PrepareReply, ReplyTo, FromFlash, TypeOK
  <2>4. /\ usbTxLen' = USBPID_NAK
        /\ usbTxBuf' \in [pid : PID, what : Objects, off : Nat, n : 0 .. 8]
        /\ usbTxStatus1' \in [len : {USBPID_NAK, 12}, pid : PID]
    BY <1>3 DEF ProcessSetup, AbortTransmit, usbResetDataToggling, TypeOK,
                PID, USB_INITIAL_DATATOKEN
  <2>5. usbNewDeviceAddr' \in Nat /\ usbConfiguration' \in Nat
    BY <1>3, <2>1 DEF ProcessSetup, TypeOK
  <2> QED
    BY <1>3, <2>2, <2>3, <2>4, <2>5
       DEF ProcessSetup, TypeOK, rxVars, local, host, control, bus, bulk
<1>4. CASE Free
  BY <1>4 DEF Free, TypeOK, txVars, addrs, msgVars, local, host, control,
              bus, bulk
<1>5. CASE Transmit
  <2>1. CASE IsHandshake(usbTxLen) /\ ReplyPending
    <3>1. PacketSize \in 0 .. 8 /\ LeftAfter(PacketSize) \in 0 .. 255
      BY <2>1 DEF PacketSize, LeftAfter, ReplyPending, USB_NO_MSG, TypeOK
    <3>2. usbTxBuf' \in [pid : PID, what : Objects, off : Nat, n : 0 .. 8]
      <4>1. ReadObject \in Objects /\ usbMsgPtr.off \in Nat
        BY DEF ReadObject, Objects, TypeOK
      <4>2. Toggled(usbTxBuf.pid) \in PID
        BY Toggles DEF TypeOK
      <4> QED
        BY <1>5, <2>1, <3>1, <4>1, <4>2
           DEF Transmit, BuildTxBlock, Objects
    <3>3. usbMsgPtr' \in [what : Objects, off : Nat, rom : BOOLEAN]
      BY <1>5, <2>1, <3>1 DEF Transmit, BuildTxBlock, TypeOK
    <3> QED
      BY <1>5, <2>1, <3>1, <3>2, <3>3
         DEF Transmit, BuildTxBlock, TypeOK, rxVars, addrs, local, host,
             control, bus, bulk
  <2>2. CASE ~ (IsHandshake(usbTxLen) /\ ReplyPending)
    BY <1>5, <2>2 DEF Transmit, TypeOK, rxVars, addrs, local, host, control,
                      bus, bulk
  <2> QED
    BY <2>1, <2>2
<1>6. CASE Arm
  BY <1>6 DEF Arm, TypeOK, rxVars, addrs, msgVars, local, host, control, bus,
              bulk
<1>7. CASE CheckReset
  BY <1>7, Lines DEF CheckReset, ResetAddresses, Polled, TypeOK, rxVars, txVars,
              msgVars, local, control, bulk
<1>8. CASE FillInterrupt
  BY <1>8, Toggles DEF FillInterrupt, NextTxStatus, TypeOK, rxVars, txVars,
              addrs, msgVars, local, host, control, bus, bulk
<1>9. CASE NothingToSend
  BY <1>9 DEF NothingToSend, TypeOK, rxVars, txVars, addrs, msgVars, local,
              host, control, bus, bulk
<1>10. CASE ArmInterrupt
  BY <1>10 DEF ArmInterrupt, TypeOK, rxVars, txVars, addrs, msgVars, local,
              host, control, bus, bulk
<1>11. CASE NewRequest
  BY <1>11 DEF NewRequest, TypeOK, Transferring, device, rxVars, txVars,
              addrs, msgVars, local, bus
<1>12. CASE HostSetup
  BY <1>12 DEF HostSetup, StorePacket, TypeOK, Packet, Junk, NoId, PID,
              Transferring, txVars, addrs, msgVars, local, bus, bulk
<1>13. CASE HostIn0
  <2>1. CASE DataIn
    BY <1>13, <2>1, Toggles
       DEF HostIn0, DataIn, SendPacket, TypeOK, Transferring, rxVars,
           msgVars, local, bus, bulk
  <2>2. CASE StatusIn
    <3>1. address' \in Nat
      BY <2>2 DEF StatusIn, TypeOK, NoRequest
    <3> QED
      BY <1>13, <2>2, <3>1
         DEF HostIn0, StatusIn, SendPacket, TypeOK, PID, rxVars, msgVars,
             local
  <2> QED
    BY <1>13, <2>1, <2>2 DEF HostIn0
<1>14. CASE StatusOut
  BY <1>14 DEF StatusOut, TypeOK, device, rxVars, txVars, addrs, msgVars,
              local, bus, bulk
<1>15. CASE HostOut
  BY <1>15 DEF HostOut, StorePacket, TypeOK, Packet, Junk, NoId, txVars,
              addrs, msgVars, local, control, bus
<1>16. CASE HostIn1
  <2>1. usbTxStatus1' \in [len : {USBPID_NAK, 12}, pid : PID]
    BY <1>16 DEF HostIn1, TypeOK
  <2>2. toggle1' \in PID /\ dropped' \in BOOLEAN
    BY <1>16, Toggles DEF HostIn1, TypeOK
  <2> QED
    BY <1>16, <2>1, <2>2 DEF HostIn1, TypeOK, rxVars, txVars, addrs, msgVars,
                             local, control, bus
<1>17. CASE Abort
  BY <1>17 DEF Abort, TypeOK, device, rxVars, txVars, addrs, msgVars, local,
              bus, bulk
<1>18. CASE BusReset
  <2>1. line' \in DOMAIN Polled
    BY <1>18, Lines DEF BusReset
  <2>2. configured' \in BOOLEAN
    BY <1>18 DEF BusReset
  <2>3. stage' \in Transferring \union {"idle", "aborted"} /\ address' \in Nat
        /\ got' \in Nat
    BY <1>18 DEF BusReset
  <2> QED
    BY <1>18, <2>1, <2>2, <2>3 DEF BusReset, TypeOK, device, rxVars, txVars, addrs,
                       msgVars, local, bulk
<1>19. CASE EndReset
  <2>1. line' \in DOMAIN Polled
    BY <1>19, Lines DEF EndReset
  <2> QED
    BY <1>19, <2>1 DEF EndReset, TypeOK, device, rxVars, txVars, addrs,
                       msgVars, local, control, bulk
<1>20. CASE UNCHANGED vars
  BY <1>20 DEF TypeOK, vars, device, host, rxVars, txVars, addrs, msgVars,
              local, control, bus, bulk
<1> QED
  BY <1>1, <1>2, <1>3, <1>4, <1>5, <1>6, <1>7, <1>8, <1>9, <1>10, <1>11,
     <1>12, <1>13, <1>14, <1>15, <1>16, <1>17, <1>18, <1>19, <1>20
     DEF Next, MainLoop, Bus

(* Types are kept, whatever host and main loop do.                         *)
THEOREM TypeCorrect == Spec => []TypeOK
<1>1. TypeOK /\ [Next]_vars => TypeOK'
  BY TypeStep
<1> QED
  BY TypeInit, <1>1, PTL DEF Spec

-----------------------------------------------------------------------------
(***************************************************************************)
(* The receive buffer.                                                     *)
(***************************************************************************)

(* A packet is stored while the main loop is not at one, and waits.        *)
LEMMA Stored ==
  ASSUME TypeOK, LoopInv, Clear, pc' = pc,
         NEW token, NEW packet, StorePacket(token, packet)
  PROVE  /\ Slot' = packet /\ usbRxToken' = token
         /\ usbRxLen' # 0 /\ Unprocessed' /\ ~ Unprocessed
         /\ pc \notin {"process", "free"}
<1>1. pc \notin {"process", "free"}
  BY DEF Clear, LoopInv
<1>2. usbInputBufOffset' = 1 - usbInputBufOffset
      /\ 1 - usbInputBufOffset' = usbInputBufOffset
      /\ usbInputBufOffset \in 0 .. 1
  BY DEF StorePacket, TypeOK
<1>3. Slot' = packet
  BY <1>2 DEF StorePacket, Slot
<1> QED
  BY <1>1, <1>3 DEF StorePacket, Unprocessed, Clear, USB_BUFSIZE

(* The main loop leaves what is received as it is, until it has processed  *)
(* it; and it leaves the host alone, but for the line it watches.          *)
LEMMA MainLoopKeeps ==
  ASSUME TypeOK, LoopInv, MainLoop
  PROVE  /\ UNCHANGED <<usbRxBuf, usbInputBufOffset, usbRxToken, Slot>>
         /\ UNCHANGED <<control, address, configured, bulk>>
         /\ Unprocessed' => Unprocessed
         /\ ~ (ProcessOut \/ ProcessSetup) => Unprocessed' = Unprocessed
<1>1. /\ UNCHANGED <<usbRxBuf, usbInputBufOffset, usbRxToken>>
      /\ UNCHANGED <<control, address, configured, bulk>>
  BY DEF MainLoop, Receive, ProcessOut, ProcessSetup, Free, Transmit, Arm,
         CheckReset, FillInterrupt, NothingToSend, ArmInterrupt, rxVars,
         host, bus
<1>2. Unprocessed' => Unprocessed
  BY DEF MainLoop, Receive, ProcessOut, ProcessSetup, Free, Transmit, Arm,
         CheckReset, FillInterrupt, NothingToSend, ArmInterrupt, rxVars,
         Unprocessed
<1>3. ~ (ProcessOut \/ ProcessSetup) => (Unprocessed => Unprocessed')
  BY DEF MainLoop, Receive, Free, Transmit, Arm,
         CheckReset, FillInterrupt, NothingToSend, ArmInterrupt, rxVars,
         Unprocessed
<1>4. Unprocessed \in BOOLEAN /\ Unprocessed' \in BOOLEAN
  BY DEF Unprocessed
<1>5. Slot' = Slot
  BY <1>1 DEF Slot
<1> QED
  BY <1>1, <1>2, <1>3, <1>4, <1>5

(* A step of the bus that stores no packet leaves the main loop alone.     *)
Storing == HostSetup \/ HostOut

LEMMA BusKeeps ==
  ASSUME Bus, ~ Storing
  PROVE  UNCHANGED <<rxVars, pc, half, Slot, Unprocessed, SetupWaits, Waiting>>
<1>1. UNCHANGED <<rxVars, pc, half>>
  BY DEF Bus, Storing, NewRequest, HostIn0, StatusOut, HostIn1, Abort,
         BusReset, EndReset, device, local
<1> QED
  BY <1>1 DEF rxVars, Slot, Unprocessed, SetupWaits, Waiting

LEMMA LoopStep ==
  ASSUME TypeOK, TypeOK', LoopInv, HostInv, [Next]_vars
  PROVE  LoopInv'
<1> USE DriverAssumption
<1>1. CASE MainLoop
  <2>1. /\ SetupWaits' => Slot'.request \in Requests
        /\ Waiting' => Slot'.id \in 0 .. Ids - 1
    <3>1. SetupWaits' => SetupWaits
      BY <1>1, MainLoopKeeps DEF SetupWaits
    <3>2. Waiting' => Waiting
      BY <1>1, MainLoopKeeps DEF Waiting, Unprocessed
    <3> QED
      BY <1>1, <3>1, <3>2, MainLoopKeeps DEF LoopInv
  <2>2. /\ (pc \in {"process", "free"} => usbRxLen # 0)'
        /\ (pc = "process" => half = 1 - usbInputBufOffset)'
    BY <1>1 DEF LoopInv, TypeOK, USB_BUFSIZE, MainLoop, Receive, ProcessOut,
                ProcessSetup, Free, Transmit, Arm, CheckReset, FillInterrupt,
                NothingToSend, ArmInterrupt, rxVars
  <2>3. (pc = "arm" => IsHandshake(usbTxLen))'
    BY <1>1 DEF MainLoop, Receive, ProcessOut, ProcessSetup, Free, Transmit,
                Arm, CheckReset, FillInterrupt, NothingToSend, ArmInterrupt
  <2>4. (pc = "arm1" => IsHandshake(usbTxStatus1.len))'
    BY <1>1 DEF MainLoop, Receive, ProcessOut, ProcessSetup, Free, Transmit,
                Arm, CheckReset, FillInterrupt, NextTxStatus, NothingToSend,
                ArmInterrupt, TypeOK
  <2> QED
    BY <2>1, <2>2, <2>3, <2>4 DEF LoopInv
<1>2. CASE HostSetup
  <2>1. request \in Requests
    BY <1>2 DEF HostSetup, HostInv, Transferring
  <2>2. /\ Slot' = [request |-> request, id |-> NoId]
        /\ usbRxToken' = "SETUP" /\ pc \notin {"process", "free"}
    BY <1>2, Stored DEF HostSetup
  <2> QED
    BY <1>2, <2>1, <2>2
       DEF HostSetup, LoopInv, Waiting, txVars
<1>3. CASE HostOut
  <2>1. /\ Slot' = [request |-> NoRequest, id |-> next]
        /\ usbRxToken' = "OUT2" /\ pc \notin {"process", "free"}
    BY <1>3, Stored DEF HostOut
  <2> QED
    BY <1>3, <2>1
       DEF HostOut, LoopInv, SetupWaits, txVars, TypeOK
<1>4. CASE Bus /\ ~ Storing
  <2>1. UNCHANGED <<usbRxLen, usbInputBufOffset, pc, half, Slot, SetupWaits,
                    Waiting>>
    BY <1>4, BusKeeps DEF rxVars
  <2>2. (pc = "arm" => IsHandshake(usbTxLen))'
    BY <1>4, <2>1, Handshakes
       DEF LoopInv, Bus, Storing, NewRequest, HostIn0, SendPacket, StatusOut,
           HostIn1, Abort, BusReset, EndReset, device, txVars
  <2>3. (pc = "arm1" => IsHandshake(usbTxStatus1.len))'
    BY <1>4, <2>1, Handshakes
       DEF LoopInv, Bus, Storing, NewRequest, HostIn0, StatusOut,
           HostIn1, Abort, BusReset, EndReset, device, TypeOK
  <2> QED
    BY <2>1, <2>2, <2>3 DEF LoopInv
<1>5. CASE UNCHANGED vars
  BY <1>5 DEF LoopInv, SetupWaits, Waiting, Unprocessed, Slot, vars, device,
              rxVars, txVars, local
<1> QED
  BY <1>1, <1>2, <1>3, <1>4, <1>5 DEF Next, Storing

LEMMA HostStep ==
  ASSUME TypeOK, TypeOK', LoopInv, HostInv, [Next]_vars
  PROVE  HostInv'
<1>1. CASE MainLoop
  <2>1. UNCHANGED <<stage, request, Slot>> /\ (SetupWaits' => SetupWaits)
    BY <1>1, MainLoopKeeps DEF SetupWaits, control
  <2> QED
    BY <2>1 DEF HostInv, Awaiting
<1>2. CASE HostSetup
  <2>1. Slot' = [request |-> request, id |-> NoId]
    BY <1>2, Stored DEF HostSetup
  <2>2. request \in Requests /\ request.wLength \in Nat
    BY <1>2, DriverAssumption DEF HostSetup, HostInv, Transferring
  <2> QED
    BY <1>2, <2>1, <2>2 DEF HostSetup, HostInv, Awaiting, Transferring
<1>3. CASE HostOut
  BY <1>3, Stored DEF HostOut, HostInv, SetupWaits, control, Awaiting
<1>4. CASE Bus /\ ~ Storing
  <2>1. UNCHANGED <<Slot, SetupWaits>>
    BY <1>4, BusKeeps
  <2>2. CASE NewRequest
    BY <2>2 DEF NewRequest, HostInv, Awaiting, Transferring
  <2>3. CASE HostIn0
    BY <2>1, <2>3 DEF HostIn0, DataIn, StatusIn, HostInv, Awaiting,
                      Transferring
  <2>4. CASE StatusOut \/ Abort \/ BusReset
    BY <2>4 DEF StatusOut, Abort, BusReset, HostInv, Awaiting, Transferring
  <2>5. CASE HostIn1 \/ EndReset
    BY <2>1, <2>5 DEF HostIn1, EndReset, HostInv, Awaiting, control
  <2> QED
    BY <1>4, <2>2, <2>3, <2>4, <2>5 DEF Bus, Storing
<1>5. CASE UNCHANGED vars
  BY <1>5 DEF HostInv, Awaiting, SetupWaits, Unprocessed, Slot, vars, device,
              host, control, rxVars
<1> QED
  BY <1>1, <1>2, <1>3, <1>4, <1>5 DEF Next, Storing

LEMMA LoopInit == Init => LoopInv /\ HostInv
BY DEF Init, LoopInv, HostInv, SetupWaits, Waiting, Unprocessed, Awaiting,
       Transferring

(* The part of the invariant every theorem needs.                          *)
Base == TypeOK /\ LoopInv /\ HostInv

LEMMA BaseStep == Base /\ [Next]_vars => Base'
BY TypeStep, LoopStep, HostStep DEF Base

LEMMA BaseCorrect == Spec => []Base
<1>1. Init => Base
  BY TypeInit, LoopInit DEF Base
<1> QED
  BY <1>1, BaseStep, PTL DEF Spec

-----------------------------------------------------------------------------
(***************************************************************************)
(* The double buffer implements the slot of UsbOutPipe.                    *)
(***************************************************************************)

SlotId == IF Waiting THEN Slot.id ELSE NoId

LEMMA PipeStep == Base /\ Base' /\ [Next]_vars => [Pipe!Next]_(Pipe!vars)
<1> SUFFICES ASSUME Base, Base', [Next]_vars
             PROVE  [Pipe!Next]_(Pipe!vars)
  OBVIOUS
<1> USE DriverAssumption
<1>0. Pipe!vars = <<next, SlotId, seen>>
  BY DEF Pipe!vars, SlotId, Slot
<1>1. CASE MainLoop
  <2>1. UNCHANGED <<next, Slot, usbRxToken>>
    BY <1>1, MainLoopKeeps DEF Base, bulk
  <2>2. CASE ProcessOut
    <3>1. Waiting /\ ~ Waiting'
      BY <2>2 DEF ProcessOut, Waiting, Base, LoopInv
    <3>2. Slot.id # NoId
      BY <3>1 DEF Base, LoopInv, NoId
    <3>3. usbRxBuf[half] = Slot
      BY <2>2 DEF ProcessOut, Slot, Base, LoopInv
    <3> QED
      BY <2>1, <2>2, <3>1, <3>2, <3>3
         DEF ProcessOut, Pipe!Next, Pipe!Process, Slot
  <2>3. CASE ~ ProcessOut
    <3>1. seen' = seen
      BY <1>1, <2>3
         DEF MainLoop, Receive, ProcessSetup, Free, Transmit, Arm,
             CheckReset, FillInterrupt, NothingToSend, ArmInterrupt, local
    <3>2. Waiting' = Waiting
      <4>1. CASE ProcessSetup
        BY <4>1 DEF ProcessSetup, Waiting, rxVars
      <4>2. CASE ~ ProcessSetup
        <5>1. Unprocessed' = Unprocessed
          BY <1>1, <2>3, <4>2, MainLoopKeeps DEF Base
        <5> QED
          BY <2>1, <5>1 DEF Unprocessed, Waiting
      <4> QED
        BY <4>1, <4>2
    <3> QED
      BY <1>0, <2>1, <3>1, <3>2 DEF Pipe!vars, Slot
  <2> QED
    BY <2>2, <2>3
<1>2. CASE HostSetup
  <2>1. usbRxToken' = "SETUP" /\ ~ Unprocessed
    BY <1>2, Stored DEF HostSetup, Base
  <2>2. ~ Waiting /\ ~ Waiting'
    BY <2>1 DEF Waiting, Unprocessed
  <2> QED
    BY <1>2, <2>2 DEF HostSetup, Pipe!vars, local, bulk
<1>3. CASE HostOut
  <2>1. Slot' = [request |-> NoRequest, id |-> next] /\ Waiting' /\ ~ Waiting
    BY <1>3, Stored DEF HostOut, Base, Waiting, Unprocessed
  <2> QED
    BY <1>3, <2>1 DEF HostOut, Pipe!Next, Pipe!Take, Slot, local
<1>4. CASE Bus /\ ~ Storing
  <2>1. UNCHANGED <<Slot, Waiting>>
    BY <1>4, BusKeeps
  <2>2. UNCHANGED <<next, seen>>
    BY <1>4 DEF Bus, Storing, NewRequest, HostIn0, DataIn, StatusIn,
                StatusOut, HostIn1, Abort, BusReset, EndReset, device, local,
                bulk
  <2> QED
    BY <2>1, <2>2 DEF Pipe!vars, Slot
<1>5. CASE UNCHANGED vars
  BY <1>5 DEF Pipe!vars, Waiting, vars, device, host, rxVars, local, bulk
<1> QED
  BY <1>1, <1>2, <1>3, <1>4, <1>5 DEF Next, Storing

(* No packet to endpoint 2 that was acknowledged is lost, overwritten or   *)
(* changed before it is processed, and none is processed twice unless it   *)
(* was sent twice.                                                         *)
THEOREM OutPipeImplemented == Spec => ImplementsOutPipe
<1>1. Init => Pipe!Init
  BY DEF Init, Pipe!Init, Waiting
<1>2. Base /\ Base' /\ [Next]_vars => [Pipe!Next]_(Pipe!vars)
  BY PipeStep
<1> QED
  BY <1>1, <1>2, BaseCorrect, PTL DEF Spec, ImplementsOutPipe, Pipe!Spec

-----------------------------------------------------------------------------
(***************************************************************************)
(* Resets and addresses.                                                   *)
(***************************************************************************)

(* A reset goes on until the main loop has seen it, and the buffer empty.  *)
LEMMA ResetStep ==
  ASSUME Base, Base', ResetInv, [Next]_vars
  PROVE  ResetInv'
<1> USE DEF Base
<1>1. CASE MainLoop
  <2>1. UNCHANGED <<stage, address, configured>>
    BY <1>1, MainLoopKeeps DEF control
  <2>2. usbRxLen = 0 => usbRxLen' = 0
    BY <1>1 DEF MainLoop, Receive, ProcessOut, ProcessSetup, Free, Transmit,
                Arm, CheckReset, FillInterrupt, NothingToSend, ArmInterrupt,
                rxVars
  <2>3. CASE CheckReset
    <3>1. line \in {"up", "se0", "se0_polled", "se0_done"}
      BY Lines DEF TypeOK
    <3>2. /\ line = "up" => line' = "up"
          /\ line = "se0" => line' = "se0_polled"
          /\ line \in {"se0_polled", "se0_done"} => line' = "se0_done"
      BY <2>3 DEF CheckReset, Polled
    <3> QED
      BY <2>1, <2>2, <2>3, <3>1, <3>2
         DEF CheckReset, ResetAddresses, ResetInv
  <2>4. CASE ~ CheckReset
    <3>1. line' = line
      BY <1>1, <2>4
         DEF MainLoop, Receive, ProcessOut, ProcessSetup, Free, Transmit, Arm,
             FillInterrupt, NothingToSend, ArmInterrupt, host, bus
    <3>2. line' # "up" => (stage = "idle" /\ address = 0 /\ ~ configured)'
      BY <2>1, <3>1 DEF ResetInv
    <3>3. (line = "se0_polled" /\ pc \in {"tx", "arm", "line"}
             => usbRxLen = 0)'
      BY <1>1, <2>2, <2>4, <3>1
         DEF ResetInv, TypeOK, USB_BUFSIZE, MainLoop, Receive, ProcessOut,
             ProcessSetup, Free, Transmit, Arm, FillInterrupt, NothingToSend,
             ArmInterrupt
    <3>4. (line = "se0_done" =>
             usbRxLen = 0 /\ usbDeviceAddr = 0 /\ usbNewDeviceAddr = 0)'
      BY <1>1, <2>2, <2>4, <3>1
         DEF ResetInv, LoopInv, MainLoop, Receive, ProcessOut, ProcessSetup,
             Free, Transmit, Arm, FillInterrupt, NothingToSend, ArmInterrupt,
             addrs
    <3> QED
      BY <3>2, <3>3, <3>4 DEF ResetInv
  <2> QED
    BY <2>3, <2>4
<1>2. CASE NewRequest
  BY <1>2 DEF NewRequest, ResetInv, bus
<1>3. CASE HostSetup
  BY <1>3 DEF HostSetup, CanHear, ResetInv, bus
<1>4. CASE HostIn0
  BY <1>4 DEF HostIn0, DataIn, StatusIn, CanHear, ResetInv, bus
<1>5. CASE StatusOut
  BY <1>5 DEF StatusOut, CanHear, ResetInv, bus
<1>6. CASE HostOut
  BY <1>6 DEF HostOut, CanHear, ResetInv, bus
<1>7. CASE HostIn1
  BY <1>7 DEF HostIn1, CanHear, ResetInv, bus
<1>8. CASE Abort
  BY <1>8 DEF Abort, ResetInv, bus
<1>9. CASE BusReset
  BY <1>9 DEF BusReset, ResetInv
<1>10. CASE EndReset
  BY <1>10 DEF EndReset, ResetInv
<1>11. CASE UNCHANGED vars
  BY <1>11 DEF ResetInv, vars, device, host, rxVars, addrs, control, bus
<1> QED
  BY <1>1, <1>2, <1>3, <1>4, <1>5, <1>6, <1>7, <1>8, <1>9, <1>10, <1>11
     DEF Next, Bus

(* The status stage finds the buffer clear and leaves it so; a SETUP is    *)
(* kept while its request is the host's.                                   *)
LEMMA RoomStep ==
  ASSUME Base, Base', ResetInv, RoomInv, [Next]_vars
  PROVE  RoomInv'
<1> USE DEF Base
<1>1. CASE MainLoop
  <2>1. UNCHANGED <<stage, request, usbRxToken, Slot>>
    BY <1>1, MainLoopKeeps DEF control
  <2>2. Clear => Clear'
    BY <1>1 DEF MainLoop, Receive, ProcessOut, ProcessSetup, Free, Transmit,
                Arm, CheckReset, FillInterrupt, NothingToSend, ArmInterrupt,
                rxVars, Clear
  <2>3. line' = "up" => line = "up"
    BY <1>1, Lines
       DEF MainLoop, Receive, ProcessOut, ProcessSetup, Free, Transmit, Arm,
           CheckReset, Polled, FillInterrupt, NothingToSend, ArmInterrupt,
           host, bus, TypeOK
  <2> QED
    BY <2>1, <2>2, <2>3 DEF RoomInv, OwnSetup
<1>2. CASE HostSetup
  <2>1. Slot'.request = request' /\ usbRxToken' = "SETUP"
    BY <1>2, Stored DEF HostSetup
  <2> QED
    BY <1>2, <2>1 DEF HostSetup, RoomInv, OwnSetup
<1>3. CASE HostOut
  BY <1>3 DEF HostOut, StorePacket, RoomInv
<1>4. CASE HostIn0 \/ StatusOut
  BY <1>4 DEF HostIn0, StatusOut, device, rxVars, RoomInv, Clear
<1>5. CASE HostIn1
  BY <1>5, BusKeeps
     DEF HostIn1, Bus, rxVars, control, bus, RoomInv, OwnSetup, Clear, CanHear
<1>6. CASE NewRequest
  BY <1>6 DEF NewRequest, RoomInv
<1>7. CASE Abort
  <2>1. UNCHANGED <<line, request, usbRxLen, usbRxToken, Slot>>
    BY <1>7 DEF Abort, device, rxVars, bus, Slot
  <2>2. stage \in {"data", "statusIn", "statusOut"} /\ stage' = "aborted"
    BY <1>7 DEF Abort
  <2> QED
    BY <2>1, <2>2 DEF RoomInv, OwnSetup, Clear
<1>8. CASE BusReset
  BY <1>8 DEF BusReset, RoomInv
<1>9. CASE EndReset
  BY <1>9 DEF EndReset, ResetInv, RoomInv, Clear, device, rxVars
<1>10. CASE UNCHANGED vars
  BY <1>10 DEF RoomInv, OwnSetup, Slot, Clear, vars, device, host, rxVars,
               control, bus
<1> QED
  BY <1>1, <1>2, <1>3, <1>4, <1>5, <1>6, <1>7, <1>8, <1>9, <1>10
     DEF Next, Bus

(* When the host may begin a request, a full receive buffer holds a packet *)
(* to endpoint 2 or the SETUP of the request it just gave up, which        *)
(* usbPoll has not freed yet; nothing of a request that ended, and no      *)
(* status stage (asmcommon.inc:111-117).                                   *)
THEOREM SetupFindsRoom == Spec => []SetupNotNaked
<1>1. Init => ResetInv /\ RoomInv
  BY DEF Init, ResetInv, RoomInv, Clear
<1>2. Base /\ Base' /\ ResetInv /\ RoomInv /\ [Next]_vars
        => ResetInv' /\ RoomInv'
  BY ResetStep, RoomStep
<1>3. RoomInv => SetupNotNaked
  BY DEF RoomInv, OwnSetup, Slot, SetupNotNaked, GivenUpSetup
<1> QED
  BY <1>1, <1>2, <1>3, BaseCorrect, PTL DEF Spec

(* One address, through SET_ADDRESS, all other traffic, and resets.        *)
LEMMA AddressStep ==
  ASSUME StandardRequests, Base, Base', ResetInv, AddressInv, [Next]_vars
  PROVE  AddressInv'
<1> USE DEF Base
<1>1. CASE ProcessSetup
  <2>1. SetupWaits /\ ~ SetupWaits' /\ usbRxBuf[half] = Slot
        /\ Slot.request \in Requests
    BY <1>1 DEF ProcessSetup, SetupWaits, Unprocessed, LoopInv, Slot
  <2>2. UNCHANGED <<host, usbDeviceAddr>>
    BY <1>1 DEF ProcessSetup
  <2>3. UNCHANGED <<line, stage, request, address, configured, Addressing>>
    BY <2>2 DEF host, control, bus, Addressing
  <2>4. usbNewDeviceAddr' = IF Slot.request.name = "SET_ADDRESS"
                            THEN Slot.request.wValue ELSE usbNewDeviceAddr
    BY <1>1, <2>1 DEF ProcessSetup
  <2>5. usbConfiguration' = IF Slot.request.name = "SET_CONFIGURATION"
                            THEN Slot.request.wValue ELSE usbConfiguration
    BY <1>1, <2>1 DEF ProcessSetup
  <2>6. Awaiting => Slot.request = request
    BY <2>1 DEF HostInv
  <2>7. Slot.request.name = "SET_CONFIGURATION" => usbConfiguration' # 0
    BY <2>1, <2>5 DEF StandardRequests
  <2> QED
    BY <2>1, <2>2, <2>3, <2>4, <2>5, <2>6, <2>7
       DEF AddressInv, Addressing, Awaiting
<1>2. CASE CheckReset
  <2>1. line' = "up" => line = "up"
    <3>1. line \in {"up", "se0", "se0_polled", "se0_done"}
      BY Lines DEF TypeOK
    <3>2. line' = Polled[line]
      BY <1>2 DEF CheckReset
    <3> QED
      BY <3>1, <3>2 DEF Polled
  <2>2. UNCHANGED <<stage, request, address, configured, Addressing, Slot,
                    usbConfiguration>>
    BY <1>2 DEF CheckReset, control, rxVars, Addressing, Slot
  <2>3. SetupWaits' = SetupWaits
    BY <1>2 DEF CheckReset, rxVars, SetupWaits, Unprocessed
  <2>4. line = "up" => UNCHANGED <<usbDeviceAddr, usbNewDeviceAddr>>
    BY <1>2 DEF CheckReset
  <2>5. Addressing => line = "up"
    BY DEF Addressing, ResetInv
  <2> QED
    BY <2>1, <2>2, <2>3, <2>4, <2>5 DEF AddressInv
<1>3. CASE MainLoop /\ ~ ProcessSetup /\ ~ CheckReset
  <2>1. UNCHANGED <<addrs, host>>
    BY <1>3 DEF MainLoop, Receive, ProcessOut, Free, Transmit, Arm,
                FillInterrupt, NothingToSend, ArmInterrupt
  <2>2. Slot' = Slot /\ SetupWaits' = SetupWaits
    <3>1. CASE ProcessOut
      BY <1>3, <3>1, MainLoopKeeps DEF ProcessOut, SetupWaits
    <3>2. CASE ~ ProcessOut
      BY <1>3, <3>2, MainLoopKeeps DEF SetupWaits
    <3> QED
      BY <3>1, <3>2
  <2> QED
    BY <2>1, <2>2 DEF AddressInv, Addressing, addrs, host, control, bus
<1>4. CASE HostSetup
  <2>1. Slot'.request = request /\ SetupWaits'
    BY <1>4, Stored DEF HostSetup, SetupWaits
  <2>2. request \in Requests /\ request.wLength \in Nat
    BY <1>4, DriverAssumption DEF HostSetup, HostInv, Transferring
  <2>3. request.name = "SET_ADDRESS" => Addressing'
    BY <1>4, <2>2 DEF HostSetup, StandardRequests, Addressing
  <2> QED
    BY <1>4, <2>1, <2>3
       DEF HostSetup, AddressInv, Addressing, addrs, bus
<1>5. CASE HostOut
  <2>1. ~ SetupWaits /\ ~ SetupWaits'
    BY <1>5, Stored DEF HostOut, SetupWaits
  <2> QED
    BY <1>5, <2>1 DEF HostOut, AddressInv, Addressing, addrs, control, bus
<1>6. CASE Bus /\ ~ Storing
  <2>1. UNCHANGED <<Slot, SetupWaits>>
    BY <1>6, BusKeeps
  <2>2. CASE NewRequest
    BY <2>1, <2>2
       DEF NewRequest, Sensible, AddressInv, Addressing, device, addrs, bus
  <2>3. CASE HostIn0
    <3>1. ~ SetupWaits
      BY <2>3 DEF HostIn0, Clear, SetupWaits, Unprocessed
    <3>2. CASE DataIn
      <4>1. ~ Addressing /\ ~ Addressing'
            /\ stage \notin {"setup", "statusIn"}
            /\ stage' \notin {"setup", "statusIn"}
        BY <3>2 DEF DataIn, Addressing
      <4> QED
        BY <2>1, <2>3, <3>1, <3>2, <4>1
           DEF HostIn0, DataIn, SendPacket, AddressInv, bus
    <3>3. CASE StatusIn
      <4>1. ~ Addressing' /\ stage' = "idle" /\ stage = "statusIn"
        BY <3>3 DEF StatusIn, Addressing
      <4>2. line = "up" /\ usbDeviceAddr' = usbNewDeviceAddr
            /\ UNCHANGED <<line, usbNewDeviceAddr, usbConfiguration>>
        BY <2>3, <3>3 DEF HostIn0, CanHear, SendPacket, StatusIn
      <4>3. address' = usbNewDeviceAddr
        BY <3>1, <3>3, <4>1, <4>2 DEF StatusIn, AddressInv, Addressing
      <4>4. configured' => address' # 0 /\ usbConfiguration # 0
        BY <3>1, <3>3, <4>1 DEF StatusIn, AddressInv
      <4> QED
        BY <2>1, <3>1, <4>1, <4>2, <4>3, <4>4 DEF AddressInv
    <3> QED
      BY <2>3, <3>2, <3>3 DEF HostIn0
  <2>4. CASE StatusOut \/ Abort
    BY <2>1, <2>4
       DEF StatusOut, Abort, AddressInv, Addressing, device, addrs, bus
  <2>5. CASE HostIn1
    <3>1. line = "up" /\ ~ Addressing /\ usbDeviceAddr = usbNewDeviceAddr
      BY <2>5 DEF HostIn1, PipesInUse, CanHear, AddressInv, Addressing
    <3> QED
      BY <2>1, <2>5, <3>1
         DEF HostIn1, AddressInv, Addressing, control, bus
  <2>6. CASE BusReset
    BY <2>1, <2>6 DEF BusReset, AddressInv, Addressing, device, addrs
  <2>7. CASE EndReset
    BY <2>1, <2>7 DEF EndReset, AddressInv, Addressing, ResetInv, SetupWaits,
                      Unprocessed, device, addrs, control
  <2> QED
    BY <1>6, <2>2, <2>3, <2>4, <2>5, <2>6, <2>7 DEF Bus, Storing
<1>7. CASE UNCHANGED vars
  BY <1>7 DEF AddressInv, Addressing, SetupWaits, Unprocessed, Slot, vars,
              device, host, rxVars, addrs, control, bus
<1> QED
  BY <1>1, <1>2, <1>3, <1>4, <1>5, <1>6, <1>7 DEF Next, Storing

(* Host and device agree on the address, and on being configured.          *)
THEOREM AddressesAgree == StandardRequests => (Spec => []AddressAgreed)
<1> SUFFICES ASSUME StandardRequests PROVE Spec => []AddressAgreed
  OBVIOUS
<1>1. Init => ResetInv /\ AddressInv
  BY DEF Init, ResetInv, AddressInv, Addressing, SetupWaits, Unprocessed
<1>2. Base /\ Base' /\ ResetInv /\ AddressInv /\ [Next]_vars
        => ResetInv' /\ AddressInv'
  BY ResetStep, AddressStep
<1>3. AddressInv => AddressAgreed
  BY DEF AddressInv, AddressAgreed
<1> QED
  BY <1>1, <1>2, <1>3, BaseCorrect, PTL DEF Spec

-----------------------------------------------------------------------------
(***************************************************************************)
(* The data tokens of endpoint 1.                                          *)
(***************************************************************************)

(* A packet changes the token that is due only when it is discarded, and a *)
(* reset of the token only when none was.                                  *)
LEMMA TokenStep ==
  ASSUME Base, Base', TokenInv, [Next]_vars
  PROVE  TokenInv'
<1> USE DEF Base
<1>1. CASE MainLoop
  <2>1. UNCHANGED <<Slot, stage, request, configured, toggle1, dropped>>
    BY <1>1, MainLoopKeeps DEF control, bulk
  <2>2. SetupWaits' => SetupWaits
    BY <1>1, MainLoopKeeps DEF SetupWaits
  <2>3. dropped /\ configured => NextToken' = NextToken
    <3>1. CASE ProcessSetup
      <4>1. SetupWaits /\ usbRxBuf[half] = Slot
        BY <3>1 DEF ProcessSetup, SetupWaits, Unprocessed, LoopInv, Slot
      <4> QED
        BY <3>1, <4>1
           DEF ProcessSetup, usbResetDataToggling, TokenInv, NextToken
    <3>2. CASE FillInterrupt
      <4>1. /\ usbTxStatus1'.len = usbTxStatus1.len
            /\ usbTxStatus1'.pid = Toggled(usbTxStatus1.pid)
        BY <3>2 DEF FillInterrupt, NextTxStatus, TypeOK
      <4> QED
        BY <3>2, <4>1 DEF FillInterrupt, NextToken
    <3>3. CASE ArmInterrupt
      <4>1. /\ usbTxStatus1'.len = 12
            /\ usbTxStatus1'.pid = usbTxStatus1.pid
        BY <3>3 DEF ArmInterrupt, TypeOK
      <4>2. ~ IsHandshake(usbTxStatus1'.len)
        BY <4>1, Handshakes
      <4> QED
        BY <3>3, <4>1, <4>2 DEF ArmInterrupt, NextToken
    <3>4. CASE ~ (ProcessSetup \/ FillInterrupt \/ ArmInterrupt)
      BY <1>1, <3>4
         DEF MainLoop, Receive, ProcessOut, Free, Transmit, Arm, CheckReset,
             NothingToSend, NextToken
    <3> QED
      BY <3>1, <3>2, <3>3, <3>4
  <2> QED
    BY <2>1, <2>2, <2>3 DEF TokenInv
<1>2. CASE HostSetup
  <2>1. Slot'.request = request
    BY <1>2, Stored DEF HostSetup
  <2>2. dropped => request.name \notin ResetsPipes
    BY <1>2 DEF HostSetup, TokenInv, Transferring
  <2> QED
    BY <1>2, <2>1, <2>2
       DEF HostSetup, TokenInv, NextToken, ResetsPipes, bus, bulk
<1>3. CASE HostOut
  <2>1. ~ SetupWaits'
    BY <1>3, Stored DEF HostOut, SetupWaits
  <2> QED
    BY <1>3, <2>1 DEF HostOut, TokenInv, NextToken, control, bus
<1>4. CASE HostIn1
  <2>1. ~ SetupWaits /\ ~ SetupWaits'
    BY <1>4 DEF HostIn1, Clear, SetupWaits, Unprocessed, rxVars
  <2>2. dropped' => /\ dropped' = TRUE
                    /\ usbTxStatus1.pid # toggle1 /\ toggle1' = toggle1
    BY <1>4 DEF HostIn1
  <2>3. NextToken' = Toggled(usbTxStatus1.pid)
    <3>1. /\ usbTxStatus1'.len = USBPID_NAK
          /\ usbTxStatus1'.pid = usbTxStatus1.pid
      BY <1>4 DEF HostIn1, TypeOK
    <3>2. pc' # "arm1"
      BY <1>4 DEF HostIn1, LoopInv
    <3> QED
      BY <3>1, <3>2, Handshakes DEF NextToken
  <2>4. dropped' => NextToken' = toggle1'
    BY <2>2, <2>3 DEF TypeOK, PID, Toggled
  <2>5. UNCHANGED <<stage, request, configured>>
    BY <1>4 DEF HostIn1, control, bus
  <2>6. configured /\ stage \in Transferring => request.name \notin ResetsPipes
    BY <1>4 DEF HostIn1, PipesInUse
  <2>7. configured
    BY <1>4 DEF HostIn1, PipesInUse
  <2> QED
    BY <2>1, <2>4, <2>5, <2>6, <2>7 DEF TokenInv
<1>5. CASE Bus /\ ~ Storing /\ ~ HostIn1
  <2>1. UNCHANGED <<Slot, SetupWaits, pc>>
    BY <1>5, BusKeeps
  <2>2. NextToken' = NextToken
    BY <1>5, <2>1
       DEF Bus, Storing, NewRequest, HostIn0, StatusOut, Abort, BusReset,
           EndReset, device, NextToken
  <2>3. CASE NewRequest
    BY <2>1, <2>2, <2>3 DEF NewRequest, TokenInv, bus
  <2>4. CASE HostIn0
    <3>1. CASE DataIn
      BY <2>1, <2>2, <3>1 DEF DataIn, TokenInv, Transferring, bus, bulk
    <3>2. CASE StatusIn
      BY <2>1, <2>2, <3>2 DEF StatusIn, TokenInv, Transferring, ResetsPipes
    <3> QED
      BY <2>4, <3>1, <3>2 DEF HostIn0
  <2>5. CASE StatusOut \/ Abort \/ BusReset
    BY <2>1, <2>2, <2>5
       DEF StatusOut, Abort, BusReset, TokenInv, Transferring, bus, bulk
  <2>6. CASE EndReset
    BY <2>1, <2>2, <2>6 DEF EndReset, TokenInv, control, bulk
  <2> QED
    BY <1>5, <2>3, <2>4, <2>5, <2>6 DEF Bus, Storing
<1>6. CASE UNCHANGED vars
  BY <1>6 DEF TokenInv, NextToken, SetupWaits, Unprocessed, Slot, vars,
              device, host, rxVars, control, bus, bulk
<1> QED
  BY <1>1, <1>2, <1>3, <1>4, <1>5, <1>6 DEF Next, Storing

(* At most one packet of endpoint 1 in a row is discarded.                 *)
THEOREM OneDropOnly == Spec => []OneDropResyncs
<1>1. Init => TokenInv
  BY DEF Init, TokenInv, Transferring
<1>2. Base /\ Base' /\ TokenInv /\ [Next]_vars => TokenInv'
  BY TokenStep
<1>3. TokenInv => OneDropResyncs
  BY DEF TokenInv, OneDropResyncs, PipesInUse
<1> QED
  BY <1>1, <1>2, <1>3, BaseCorrect, PTL DEF Spec

-----------------------------------------------------------------------------
(***************************************************************************)
(* Answers to control requests.                                            *)
(***************************************************************************)

LEMMA DueParts ==
  /\ Due.n = IF Length - got > 8 THEN 8 ELSE Length - got
  /\ Due.pid = toggle0
BY DEF Due, Length

LEMMA LengthBound ==
  ASSUME Base, stage \in Transferring
  PROVE  Length \in 0 .. 32 /\ (request.wLength = 0 => Length = 0)
<1>1. request.wLength \in Nat
  BY DriverAssumption DEF Base, HostInv
<1> QED
  BY <1>1, Limits, Lengths DEF Length, Limited

(* A new request: its answer starts at the beginning of its object.        *)
LEMMA AnswerProcessed ==
  ASSUME Base, Base', AnswerInv, ProcessSetup
  PROVE  AnswerInv'
<1> USE DEF Base
<1>1. SetupWaits /\ ~ SetupWaits' /\ usbRxBuf[half] = Slot
  BY DEF ProcessSetup, SetupWaits, Unprocessed, LoopInv, Slot
<1>2. UNCHANGED <<stage, request, got, toggle0, Length, Due, Awaiting>>
  BY DEF ProcessSetup, host, control, Length, Due, Awaiting
<1>3. IsHandshake(usbTxLen') /\ ~ Built' /\ usbTxBuf'.pid = "DATA0"
  BY Handshakes DEF ProcessSetup, AbortTransmit, Built, TypeOK
<1>4. ASSUME Awaiting
      PROVE  /\ usbMsgLen' = Length - got
             /\ usbMsgFlags' = FromFlash(request.name)
             /\ Length > got =>
                  usbMsgPtr' = [ReplyTo(request) EXCEPT !.off = got]
  <2>1. Slot.request = request /\ got = 0
    BY <1>1, <1>4 DEF HostInv, AnswerInv
  <2>2. Length \in 0 .. 32
    BY <1>4, LengthBound DEF Awaiting, Transferring
  <2>3. usbMsgLen' = Length /\ usbMsgFlags' = FromFlash(request.name)
    BY <1>1, <2>1 DEF ProcessSetup, PrepareReply, Length
  <2>4. ASSUME Length > 0 PROVE SetsPointer(request.name)
    <3>1. ReplyLength(request.name) > 0
      BY <2>4, Lengths, LengthBound, <1>4
         DEF Length, Limited, Awaiting, Transferring
    <3> QED
      BY <3>1 DEF SetsPointer
  <2>5. [ReplyTo(request) EXCEPT !.off = 0] = ReplyTo(request)
    BY DEF ReplyTo
  <2>6. Length > 0 => usbMsgPtr' = ReplyTo(request)
    BY <1>1, <2>1, <2>4 DEF ProcessSetup, PrepareReply
  <2> QED
    BY <2>1, <2>2, <2>3, <2>5, <2>6
<1>5. Awaiting => toggle0 = "DATA1" /\ got = 0 /\ got <= Length
  BY <1>1 DEF AnswerInv
<1>6. (stage = "statusIn" => got = 0 /\ toggle0 = "DATA1")
      /\ (Awaiting => got <= Length)
  BY DEF AnswerInv
<1> QED
  BY <1>1, <1>2, <1>3, <1>4, <1>5, <1>6 DEF AnswerInv, Answering

(* The next packet of an answer.                                           *)
LEMMA AnswerBuilt ==
  ASSUME Base, Base', AnswerInv, Transmit,
         IsHandshake(usbTxLen) /\ ReplyPending
  PROVE  AnswerInv'
<1> USE DEF Base
<1> DEFINE n == PacketSize
<1>1. UNCHANGED <<usbTxLen, stage, request, got, toggle0, Length, Due,
                  Awaiting, SetupWaits, usbMsgFlags>>
  BY DEF Transmit, host, control, Length, Due, Awaiting, SetupWaits,
         Unprocessed, rxVars
<1>2. ~ Built /\ Built'
  BY DEF Transmit, Built
<1>3. /\ usbTxBuf' = [pid  |-> Toggled(usbTxBuf.pid),
                      what |-> IF n > 0 THEN ReadObject ELSE "nothing",
                      off  |-> IF n > 0 THEN usbMsgPtr.off ELSE 0,
                      n    |-> n]
      /\ usbMsgPtr' = [usbMsgPtr EXCEPT !.off = @ + n]
      /\ usbMsgLen' = LeftAfter(n)
  BY DEF Transmit, BuildTxBlock
<1>4. ASSUME Answering
      PROVE  /\ usbTxBuf'.pid = toggle0 /\ usbTxBuf'.n = Due.n
             /\ Due.n > 0 => usbTxBuf' = Due
             /\ Due.n = 8 => usbMsgLen' = Length - got - 8
             /\ Length - got > 8 =>
                  usbMsgPtr' = [ReplyTo(request) EXCEPT !.off = got + 8]
  <2>1. /\ usbTxBuf.pid # toggle0 /\ usbMsgLen = Length - got
        /\ Length > got => usbMsgPtr = [ReplyTo(request) EXCEPT !.off = got]
        /\ Length > 0 => usbMsgFlags = FromFlash(request.name)
    BY <1>2, <1>4 DEF AnswerInv
  <2>2. Length \in 0 .. 32 /\ got \in Nat /\ got <= Length
    BY <1>4, LengthBound
       DEF Answering, Awaiting, Transferring, AnswerInv, TypeOK
  <2>3. Toggled(usbTxBuf.pid) = toggle0
    BY <2>1 DEF TypeOK, PID, Toggled
  <2>4. n = Due.n /\ n \in 0 .. 8
    BY <2>1, <2>2, DueParts DEF PacketSize
  <2>5. ASSUME n > 0
        PROVE  ReadObject = request.name /\ usbMsgPtr.off = got
    <3>1. usbMsgPtr = [ReplyTo(request) EXCEPT !.off = got]
          /\ usbMsgFlags = FromFlash(request.name)
      BY <2>1, <2>2, <2>4, <2>5, DueParts
    <3>2. /\ usbMsgPtr.what = request.name
          /\ usbMsgPtr.rom = FromFlash(request.name)
          /\ usbMsgPtr.off = got
      BY <3>1 DEF ReplyTo
    <3> QED
      BY <3>1, <3>2 DEF ReadObject
  <2>6. usbTxBuf'.pid = toggle0 /\ usbTxBuf'.n = Due.n
    BY <1>3, <2>3, <2>4
  <2>7. n > 0 => usbTxBuf' = [pid |-> toggle0, what |-> request.name,
                              off |-> got, n |-> Due.n]
    BY <1>3, <2>3, <2>4, <2>5
  <2>8. Due = [pid |-> toggle0, what |-> request.name, off |-> got,
               n |-> Due.n]
    BY DEF Due
  <2>9. Due.n = 8 => usbMsgLen' = Length - got - 8
    BY <1>3, <2>1, <2>2, <2>4 DEF LeftAfter
  <2>10. ASSUME Length - got > 8
         PROVE  usbMsgPtr' = [ReplyTo(request) EXCEPT !.off = got + 8]
    <3>1. n = 8 /\ usbMsgPtr = [ReplyTo(request) EXCEPT !.off = got]
      BY <2>1, <2>2, <2>4, <2>10, DueParts
    <3>2. usbMsgPtr' = [usbMsgPtr EXCEPT !.off = usbMsgPtr.off + 8]
      BY <1>3, <3>1
    <3> QED
      BY <3>1, <3>2 DEF ReplyTo
  <2> QED
    BY <2>4, <2>6, <2>7, <2>8, <2>9, <2>10
<1>5. /\ Awaiting => got <= Length
      /\ stage = "statusIn" \/ (Awaiting /\ SetupWaits) =>
           got = 0 /\ toggle0 = "DATA1"
      /\ Answering /\ Length > 0 => usbMsgFlags = FromFlash(request.name)
  BY DEF AnswerInv
<1> QED
  BY <1>1, <1>2, <1>4, <1>5 DEF AnswerInv, Answering

(* The host takes a packet: the next one due is the one after.             *)
LEMMA AnswerTaken ==
  ASSUME Base, Base', AnswerInv, HostIn0
  PROVE  AnswerInv'
<1> USE DEF Base
<1>1. ~ SetupWaits /\ SetupWaits' = SetupWaits
  BY DEF HostIn0, Clear, SetupWaits, Unprocessed, rxVars
<1>2. Built /\ ~ Built' /\ IsHandshake(usbTxLen')
  BY Handshakes DEF HostIn0, SendPacket, LoopInv, Built
<1>3. UNCHANGED <<usbTxBuf, msgVars, request, Length>>
  BY DEF HostIn0, DataIn, StatusIn, Length
<1>4. CASE stage' # "data"
  <2>1. ~ Awaiting'
    BY <1>4 DEF HostIn0, DataIn, StatusIn, Awaiting
  <2> QED
    BY <1>2, <2>1 DEF AnswerInv, Awaiting, Answering
<1>5. CASE stage' = "data"
  <2>1. stage = "data" /\ Answering /\ DataIn
    BY <1>1, <1>5 DEF HostIn0, DataIn, StatusIn, Awaiting, Answering
  <2>2. /\ usbTxBuf.pid = toggle0 /\ usbTxBuf.n = Due.n
        /\ Due.n = 8 => usbMsgLen = Length - got - 8
        /\ Length - got > 8 =>
             usbMsgPtr = [ReplyTo(request) EXCEPT !.off = got + 8]
        /\ Length > 0 => usbMsgFlags = FromFlash(request.name)
    BY <1>2, <2>1 DEF AnswerInv
  <2>3. Length \in 0 .. 32 /\ got \in Nat /\ got <= Length
    BY <2>1, LengthBound DEF Transferring, Awaiting, AnswerInv, TypeOK
  <2>4. got' = got + Due.n /\ toggle0' = Toggled(toggle0) /\ Due.n >= 8
    BY <1>5, <2>1, <2>2, <2>3, DueParts DEF DataIn
  <2>5. Due.n = 8 /\ got' = got + 8 /\ got' <= Length
    BY <2>3, <2>4, DueParts
  <2>6. usbTxBuf'.pid # toggle0'
    BY <1>3, <2>2, <2>4, Toggles DEF TypeOK
  <2>7. /\ usbMsgLen' = Length' - got'
        /\ Length' > got' =>
             usbMsgPtr' = [ReplyTo(request') EXCEPT !.off = got']
        /\ Length' > 0 => usbMsgFlags' = FromFlash(request'.name)
    BY <1>3, <2>2, <2>3, <2>5 DEF msgVars
  <2> QED
    BY <1>1, <1>2, <1>3, <1>5, <2>5, <2>6, <2>7
       DEF AnswerInv, Awaiting, Answering
<1> QED
  BY <1>4, <1>5

LEMMA AnswerStep ==
  ASSUME Base, Base', AnswerInv, [Next]_vars
  PROVE  AnswerInv'
<1> USE DEF Base
<1>1. CASE MainLoop
  <2>1. CASE ProcessSetup
    BY <2>1, AnswerProcessed
  <2>2. CASE Transmit /\ IsHandshake(usbTxLen) /\ ReplyPending
    BY <2>2, AnswerBuilt
  <2>3. CASE Arm
    <3>1. UNCHANGED <<usbTxBuf, msgVars, stage, request, got, toggle0, Due,
                      Length, Awaiting, SetupWaits, Answering>>
      BY <2>3 DEF Arm, host, control, Due, Length, Awaiting, SetupWaits,
                  Unprocessed, Answering, rxVars
    <3>2. usbTxLen' = usbTxBuf.n + 4 /\ usbTxBuf.n \in 0 .. 8
      BY <2>3 DEF Arm, TypeOK
    <3>3. Built /\ Built'
      BY <2>3, <3>2, Handshakes DEF Arm, Built
    <3> QED
      BY <3>1, <3>2, <3>3 DEF AnswerInv, msgVars
  <2>4. CASE ~ ProcessSetup /\ ~ Arm
             /\ ~ (Transmit /\ IsHandshake(usbTxLen) /\ ReplyPending)
    <3>1. UNCHANGED <<txVars, msgVars>>
      BY <1>1, <2>4
         DEF MainLoop, Receive, ProcessOut, Free, Transmit, CheckReset,
             FillInterrupt, NothingToSend, ArmInterrupt, txVars, msgVars
    <3>2. pc # "arm" /\ pc' # "arm"
      BY <1>1, <2>4
         DEF MainLoop, Receive, ProcessOut, Free, Transmit, CheckReset,
             FillInterrupt, NothingToSend, ArmInterrupt
    <3>3. UNCHANGED <<stage, request, got, toggle0>>
      BY <1>1, MainLoopKeeps DEF control
    <3>4. SetupWaits' = SetupWaits
      <4>1. CASE ProcessOut
        BY <1>1, <4>1, MainLoopKeeps DEF ProcessOut, SetupWaits
      <4>2. CASE ~ ProcessOut
        BY <1>1, <2>4, <4>2, MainLoopKeeps DEF SetupWaits
      <4> QED
        BY <4>1, <4>2
    <3> QED
      BY <3>1, <3>2, <3>3, <3>4
         DEF AnswerInv, Answering, Awaiting, Built, Due, Length, txVars,
             msgVars
  <2> QED
    BY <1>1, <2>1, <2>2, <2>3, <2>4 DEF MainLoop
<1>2. CASE HostSetup
  <2>1. SetupWaits'
    BY <1>2, Stored DEF HostSetup, SetupWaits
  <2>2. got' = 0 /\ toggle0' = "DATA1" /\ UNCHANGED txVars
    BY <1>2 DEF HostSetup
  <2>3. Awaiting' => got' <= Length'
    <3>1. Length \in 0 .. 32 /\ Length' = Length
      BY <1>2, LengthBound DEF HostSetup, Length, Transferring
    <3> QED
      BY <2>2, <3>1
  <2> QED
    BY <2>1, <2>2, <2>3 DEF AnswerInv, Answering, Awaiting, txVars
<1>3. CASE HostOut
  <2>1. ~ SetupWaits /\ ~ SetupWaits'
    BY <1>3, Stored DEF HostOut, SetupWaits
  <2> QED
    BY <1>3, <2>1
       DEF HostOut, AnswerInv, Answering, Awaiting, Built, Due, Length,
           txVars, msgVars, control
<1>4. CASE HostIn0
  BY <1>4, AnswerTaken
<1>5. CASE NewRequest \/ StatusOut \/ Abort \/ BusReset
  <2>1. ~ Awaiting' /\ UNCHANGED txVars
    BY <1>5 DEF NewRequest, StatusOut, Abort, BusReset, Awaiting, device
  <2> QED
    BY <2>1 DEF AnswerInv, Answering, Awaiting, txVars
<1>6. CASE HostIn1 \/ EndReset
  <2>1. SetupWaits' = SetupWaits
    BY <1>6 DEF HostIn1, EndReset, device, rxVars, SetupWaits, Unprocessed
  <2> QED
    BY <1>6, <2>1
       DEF HostIn1, EndReset, device, txVars, msgVars, control, AnswerInv,
           Answering, Awaiting, Built, Due, Length
<1>7. CASE UNCHANGED vars
  BY <1>7 DEF AnswerInv, Answering, Awaiting, Built, Due, Length, SetupWaits,
              Unprocessed, vars, device, host, rxVars, txVars, msgVars,
              control
<1> QED
  BY <1>1, <1>2, <1>3, <1>4, <1>5, <1>6, <1>7 DEF Next, Bus

LEMMA AnswerInvCorrect == Spec => []AnswerInv
<1>1. Init => AnswerInv
  BY Handshakes DEF Init, AnswerInv, Awaiting, Answering
<1>2. Base /\ Base' /\ AnswerInv /\ [Next]_vars => AnswerInv'
  BY AnswerStep
<1> QED
  BY <1>1, <1>2, BaseCorrect, PTL DEF Spec

(* What would be sent on endpoint 0 is the next part of what the host      *)
(* asked for, never of a request before.                                   *)
THEOREM AnswersFit == Spec => []NextAnswerFits
<1>1. Base /\ AnswerInv => NextAnswerFits
  <2> SUFFICES ASSUME Base, AnswerInv, CanHear, Clear,
                      ~ IsHandshake(usbTxLen)
               PROVE  NextAnswerFits
    BY DEF NextAnswerFits
  <2>1. Built /\ ~ SetupWaits
    BY DEF Built, Clear, SetupWaits, Unprocessed
  <2>2. ASSUME stage = "data"
        PROVE  IF Due.n > 0 THEN usbTxBuf = Due
               ELSE usbTxBuf.n = 0 /\ usbTxBuf.pid = toggle0
    <3>1. Answering
      BY <2>1, <2>2 DEF Answering, Awaiting
    <3>2. Due.n \in Nat
      <4>1. Length \in 0 .. 32 /\ got \in Nat /\ got <= Length
        BY <2>2, <3>1, LengthBound
           DEF Answering, Transferring, AnswerInv, Base, TypeOK
      <4> QED
        BY <4>1, DueParts
    <3> QED
      BY <2>1, <3>1, <3>2 DEF AnswerInv
  <2>3. ASSUME stage = "statusIn"
        PROVE  usbTxBuf.pid = "DATA1" /\ usbTxBuf.n = 0
    <3>1. Answering /\ got = 0 /\ toggle0 = "DATA1"
      BY <2>1, <2>3 DEF Answering, Awaiting, AnswerInv
    <3>2. Length = 0
      BY <2>3, LengthBound DEF Transferring, Base, HostInv
    <3>3. Due.n = 0
      BY <3>1, <3>2, DueParts
    <3> QED
      BY <2>1, <3>1, <3>3 DEF AnswerInv
  <2>4. usbTxLen = usbTxBuf.n + 4
    BY DEF AnswerInv
  <2> QED
    BY <2>2, <2>3, <2>4 DEF NextAnswerFits
<1> QED
  BY <1>1, BaseCorrect, AnswerInvCorrect, PTL

(* A host that waits for an answer to a request which has been processed   *)
(* finds one, or usbPoll will build it (usbdrv.c:589-593): no reply is so  *)
(* long that its length is taken for USB_NO_MSG, and none ends before the  *)
(* host has what it asked for.                                             *)
THEOREM HostIsAnswered == Spec => []AnswerComing
<1>1. Base /\ AnswerInv => AnswerComing
  <2> SUFFICES ASSUME Base, AnswerInv, Awaiting, ~ SetupWaits,
                      IsHandshake(usbTxLen), pc # "arm"
               PROVE  ReplyPending
    BY DEF AnswerComing, RequestWaits, Awaiting, SetupWaits, Unprocessed
  <2>1. Answering /\ ~ Built
    BY DEF Answering, Built
  <2>2. Length \in 0 .. 32 /\ got \in Nat
    BY LengthBound DEF Awaiting, Transferring, Base, TypeOK
  <2>3. usbMsgLen = Length - got
    BY <2>1 DEF AnswerInv
  <2> QED
    BY <2>2, <2>3 DEF ReplyPending, USB_NO_MSG
<1> QED
  BY <1>1, BaseCorrect, AnswerInvCorrect, PTL

=============================================================================
