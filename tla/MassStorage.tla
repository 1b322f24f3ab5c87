---------------------------- MODULE MassStorage ----------------------------
(***************************************************************************)
(* The whole device as the host sees it: the main loop of main.c, the SCSI *)
(* commands of commands.c on top of Storage, the reply queue of usbdata.c, *)
(* the two endpoint buffers that the main loop shares with the USB         *)
(* interrupt routine, and a host that follows the bulk-only protocol.      *)
(*                                                                         *)
(* The main loop is the sequence of its handlers; `pc' is the one that     *)
(* runs next.  The interrupt routine and the host may act between any two  *)
(* of them: IsrOut and IsrIn.  Inside a handler they may act too, but the  *)
(* interrupt routine answers NAK while usbRxLen is not zero, and only the  *)
(* main loop fills the transmit buffer, so that changes nothing.           *)
(***************************************************************************)
EXTENDS Storage, UsbQueue, FiniteSets

CONSTANTS
  Commands,  \* the operation codes the host uses
  Tags,      \* tags of command blocks
  NoTag,     \* the zeros in cbw_tag before the first command
  Empty      \* an endpoint buffer with nothing in it

(* The operation codes of commands.h, and any other.                       *)
INQUIRY         == "INQUIRY"
TEST_UNIT_READY == "TEST_UNIT_READY"
READ_CAPACITY   == "READ_CAPACITY"
MODE_SENSE      == "MODE_SENSE"
PREVENT_REMOVAL == "PREVENT_REMOVAL"
READ            == "READ"
WRITE           == "WRITE"
START_STOP_UNIT == "START_STOP_UNIT"
READ_FORMAT_CAPACITIES == "READ_FORMAT_CAPACITIES"
UNLISTED        == "UNLISTED"

WithReply   == {INQUIRY, READ_CAPACITY, MODE_SENSE, READ_FORMAT_CAPACITIES}
StatusOnly  == {TEST_UNIT_READY, PREVENT_REMOVAL, START_STOP_UNIT}
AllCommands == WithReply \union StatusOnly \union {READ, WRITE, UNLISTED}

ASSUME ProtocolAssumption ==
  /\ Commands \subseteq AllCommands
  /\ NoTag \notin Tags
  /\ \A t \in Tags : \E u \in Tags : u # t

(* What an endpoint buffer may hold: a packet from the host, and a chunk   *)
(* of a reply.                                                             *)
Writers == AllCommands \union {"zero"}

Packet ==
  [kind : {"cbw", "data"}, part : 0 .. 3,
   body : {<<x>> : x \in Tags \union Writers \union Values}
            \union ((0 .. LastLba) \X (0 .. LastLba + 1))]

TxChunk ==
  [buf : {"csw", "data", "data_null", "sram"}, off : Nat, len : 1 .. MaxChunk,
   body : {<<x>> : x \in Tags \union Values \union Writers
                            \union {NoTag, "CSW_PASSED", Unread}}
            \union (Writers \X Writers)]

ASSUME EmptyAssumption == Empty \notin Packet \union TxChunk

VARIABLES
  pc,             \* the handler of the main loop that runs next
  cbw,            \* the command block, as the contents of its four packets
  cbw_progress,   \* its first packet has been received
  cbw_finished,   \* it is complete and not executed
  index_write,    \* packets of it received
  cbw_tag,        \* tag of the command executed last
  csw,            \* the static CSW buffer: its tag, the rest is constant
  data,           \* the static buffer of the replies, by who wrote it
  should_read,    \* the data of a READ is being sent
  read_count,     \* the `count' of commands.c: chunks of this block sent
  transfer_length,            \* blocks of the READ still to be sent
  transfer_length_beginning,  \* blocks the READ has
  txq,            \* the reply queue
  rx,             \* usbRxBuf and usbRxLen: a packet received, or Empty
  tx1,            \* usbTxStatus1: the chunk to be sent, or Empty
  phase,          \* where the host is in its command
  command,        \* the command: tag, op, first block, blocks
  sent,           \* packets the host has got through in this phase
  got,            \* bytes the host has received in this phase
  hostdisk        \* what the host wrote to each block last

execution == <<cbw_tag, csw, data>>
reading   == <<should_read, read_count, transfer_length,
               transfer_length_beginning>>
assembly  == <<cbw, cbw_progress, cbw_finished, index_write>>
host      == <<phase, command, sent, got, hostdisk>>
msVars    == <<vars, pc, assembly, execution, reading, txq, rx, tx1, host>>

CSW_LENGTH == 13
CbwPackets == 4   \* CBW_SIZE is 31: three packets of 8 bytes and one of 7

-----------------------------------------------------------------------------
(***************************************************************************)
(* The static buffers.  A reply is told apart by the command that wrote    *)
(* it: bytes 0 to 7, 8 to 13 and 14 to 35 of `data' have writers of their  *)
(* own.                                                                    *)
(***************************************************************************)

ZeroData == [head |-> "zero", mid |-> "zero", tail |-> "zero"]

(* What each command stores in `data' before it queues it.                 *)
Filled(op) ==
  CASE op = INQUIRY -> [head |-> op, mid |-> op, tail |-> op]
    [] op = READ_CAPACITY -> [data EXCEPT !.head = op]
    [] op = MODE_SENSE -> [data EXCEPT !.head = op, !.mid = op]
    [] op = READ -> [data EXCEPT !.head = "zero"]
    [] OTHER -> data

(* The buffer and the length of the reply of a command without disk data.  *)
Reply(op) ==
  CASE op = INQUIRY -> <<"data", 36>>
    [] op = READ_CAPACITY -> <<"data", 8>>
    [] op = MODE_SENSE -> <<"data", 35>>
    [] op = READ_FORMAT_CAPACITIES -> <<"data_null", 4>>

(* The bytes of a buffer that a chunk covers.                              *)
Bytes(buf, off) ==
  CASE buf = "csw" /\ off = 0 -> <<csw>>
    [] buf = "csw" /\ off > 0 -> <<"CSW_PASSED">>
    [] buf = "data_null" -> <<"zero">>
    [] buf = "data" /\ off = 0 -> <<data.head>>
    [] buf = "data" /\ off = 8 -> <<data.mid, data.tail>>
    [] buf = "data" /\ off > 8 -> <<data.tail>>

-----------------------------------------------------------------------------
(***************************************************************************)
(* The device: one action per handler of the main loop.                    *)
(***************************************************************************)

(* usbFunctionWriteOut outside a WRITE: a packet of a command block.  The  *)
(* first must carry the signature, the others are taken for what follows.  *)
CbwOut ==
  /\ ~is_writing
  /\ \/ /\ ~cbw_progress /\ ~cbw_finished
        /\ IF rx.kind = "cbw" /\ rx.part = 0
             THEN /\ cbw' = [cbw EXCEPT ![0] = rx.body]
                  /\ index_write' = 1
                  /\ cbw_progress' = TRUE
             ELSE UNCHANGED <<cbw, index_write, cbw_progress>>
        /\ UNCHANGED cbw_finished
     \/ LET last == index_write + 1 >= CbwPackets
        IN  /\ cbw_progress \/ cbw_finished
            /\ cbw' = IF index_write < CbwPackets
                        THEN [cbw EXCEPT ![index_write] = rx.body] ELSE cbw
            /\ index_write' = IF last THEN CbwPackets ELSE index_write + 1
            /\ cbw_progress' = (cbw_progress /\ ~last)
            /\ cbw_finished' = (cbw_finished \/ last)
  /\ UNCHANGED <<vars, csw, txq>>

(* usbFunctionWriteOut inside a WRITE: a packet of data, whatever it was   *)
(* meant to be.  The last one queues the CSW.                              *)
DataOut ==
  /\ WriteOut(rx.body[1])
  /\ IF CompletesWrite
       THEN csw' = cbw_tag /\ txq' = Enqueue(txq, "csw", CSW_LENGTH)
       ELSE UNCHANGED <<csw, txq>>
  /\ UNCHANGED assembly

(* usbPoll: the packet received is processed, then its buffer is free.     *)
Poll ==
  /\ pc = "poll"
  /\ pc' = "send"
  /\ IF rx = Empty
       THEN UNCHANGED <<vars, assembly, csw, txq, rx>>
       ELSE (CbwOut \/ DataOut) /\ rx' = Empty
  /\ UNCHANGED <<cbw_tag, data, reading, tx1, host>>

(* usbInterruptIsReady, and usb_send_next_data if it says yes.             *)
SendNextData ==
  /\ pc = "send"
  /\ pc' = IF tx1 = Empty THEN "read" ELSE "exec"
  /\ IF tx1 = Empty /\ HasPacket(txq)
       THEN LET chunk == NextChunk(txq)
            IN  /\ tx1' = [buf |-> chunk.buf, off |-> chunk.off,
                           len |-> chunk.len,
                           body |-> Bytes(chunk.buf, chunk.off)]
                /\ txq' = Dequeue(txq)
       ELSE UNCHANGED <<tx1, txq>>
  /\ UNCHANGED <<vars, assembly, execution, reading, rx, host>>

(* The SRAM block that execute_read is at; the address wraps like that of  *)
(* a WRITE.                                                                *)
ReadBlock ==
  (logical_block + (transfer_length_beginning - transfer_length)) % Blocks

(* Mutant of LastReadBlock: compared before it is decremented.             *)
LastReadBlockLate == transfer_length = 0

(* The READ is at its last block.                                          *)
LastReadBlock == transfer_length = 1

(* execute_read, under the same answer of usbInterruptIsReady: one chunk   *)
(* of a READ goes to the endpoint, the last one queues the CSW.            *)
ExecuteRead ==
  /\ pc = "read"
  /\ pc' = "exec"
  /\ \/ /\ ~should_read
        /\ UNCHANGED <<csw, txq, tx1, reading>>
     \/ /\ should_read
        /\ tx1' = [buf |-> "sram", off |-> 0, len |-> MaxChunk,
                   body |-> <<ram[ReadBlock][read_count]>>]
        /\ \/ /\ read_count + 1 < ChunksPerBlock
              /\ read_count' = read_count + 1
              /\ UNCHANGED <<transfer_length, should_read, csw, txq>>
           \/ /\ read_count + 1 = ChunksPerBlock
              /\ transfer_length' = transfer_length - 1
              /\ IF LastReadBlock
                   THEN /\ csw' = cbw_tag
                        /\ txq' = Enqueue(txq, "csw", CSW_LENGTH)
                        /\ should_read' = FALSE
                        /\ read_count' = read_count + 1
                   ELSE /\ read_count' = 0
                        /\ UNCHANGED <<csw, txq, should_read>>
        /\ UNCHANGED transfer_length_beginning
  /\ UNCHANGED <<vars, assembly, cbw_tag, data, rx, host>>

(* Mutant of AnswerWithData: the CSW is queued a second time.              *)
AnswerWithTwoCsws(op) ==
  /\ op \in WithReply
  /\ csw' = cbw_tag'
  /\ txq' = Enqueue(Enqueue(Enqueue(txq, Reply(op)[1], Reply(op)[2]),
                            "csw", CSW_LENGTH), "csw", CSW_LENGTH)
  /\ UNCHANGED <<vars, reading>>

(* execute_cbw, one disjunct per kind of command: first those that queue a *)
(* reply and a CSW.                                                        *)
AnswerWithData(op) ==
  /\ op \in WithReply
  /\ csw' = cbw_tag'
  /\ txq' = Enqueue(Enqueue(txq, Reply(op)[1], Reply(op)[2]),
                    "csw", CSW_LENGTH)
  /\ UNCHANGED <<vars, reading>>

(* Mutants of AnswerWithStatus: the CSW carries the tag of the command     *)
(* before, and the CSW is queued twice.                                    *)
AnswerWithOldTag(op) ==
  /\ op \in StatusOnly
  /\ csw' = cbw_tag
  /\ txq' = Enqueue(txq, "csw", CSW_LENGTH)
  /\ UNCHANGED <<vars, reading>>

AnswerTwice(op) ==
  /\ op \in StatusOnly
  /\ csw' = cbw_tag'
  /\ txq' = Enqueue(Enqueue(txq, "csw", CSW_LENGTH), "csw", CSW_LENGTH)
  /\ UNCHANGED <<vars, reading>>

AnswerWithStatus(op) ==
  /\ op \in StatusOnly
  /\ csw' = cbw_tag'
  /\ txq' = Enqueue(txq, "csw", CSW_LENGTH)
  /\ UNCHANGED <<vars, reading>>

(* Mutant of StartRead: the CSW is queued before the data is sent.         *)
StartReadCswFirst(op, lba, length) ==
  /\ op = READ
  /\ BeginRead(lba)
  /\ should_read' = TRUE
  /\ read_count' = 0
  /\ transfer_length' = length
  /\ transfer_length_beginning' = length
  /\ csw' = cbw_tag'
  /\ txq' = Enqueue(txq, "csw", CSW_LENGTH)

StartRead(op, lba, length) ==
  /\ op = READ
  /\ BeginRead(lba)
  /\ should_read' = TRUE
  /\ read_count' = 0
  /\ transfer_length' = length
  /\ transfer_length_beginning' = length
  /\ UNCHANGED <<csw, txq>>

(* Mutant of StartWrite: one block too many is expected.                   *)
StartWriteLonger(op, lba, length) ==
  /\ op = WRITE
  /\ BeginWrite(lba, length + 1)
  /\ UNCHANGED <<csw, txq, reading>>

StartWrite(op, lba, length) ==
  /\ op = WRITE
  /\ BeginWrite(lba, length)
  /\ UNCHANGED <<csw, txq, reading>>

IgnoreCommand(op) ==
  /\ op = UNLISTED
  /\ UNCHANGED <<vars, csw, txq, reading>>

ExecuteCbw ==
  /\ pc = "exec"
  /\ pc' = "store"
  /\ IF cbw_finished
       THEN LET op     == cbw[1][1]
                lba    == cbw[2][1]
                length == cbw[2][2]
            IN  /\ cbw_finished' = FALSE
                /\ cbw_tag' = cbw[0][1]
                /\ data' = Filled(op)
                /\ \/ AnswerWithData(op)
                   \/ AnswerWithStatus(op)
                   \/ StartRead(op, lba, length)
                   \/ StartWrite(op, lba, length)
                   \/ IgnoreCommand(op)
       ELSE UNCHANGED <<vars, cbw_finished, execution, reading, txq>>
  /\ UNCHANGED <<cbw, cbw_progress, index_write, rx, tx1, host>>

(* The write-back; while the EEPROM is in a write cycle ext_eeprom_wait    *)
(* keeps the loop here.                                                    *)
NothingToStore == write_block = NoBlock /\ \A b \in Block : ~blocks_written[b]

Store ==
  /\ pc = "store"
  /\ pc' = "poll"
  /\ \/ PickBlock
     \/ CopyPage
     \/ NothingToStore /\ UNCHANGED vars
  /\ UNCHANGED <<assembly, execution, reading, txq, rx, tx1, host>>

WriteCycleEnds ==
  /\ EepromDone
  /\ UNCHANGED <<pc, assembly, execution, reading, txq, rx, tx1, host>>

-----------------------------------------------------------------------------
(***************************************************************************)
(* The interrupt routine, and a host that follows the protocol: a command, *)
(* its data in one direction, its status, and only then the next command.  *)
(***************************************************************************)

NoCommand == [tag |-> NoTag, op |-> UNLISTED, lba |-> 0, length |-> 0]

HostBlock == 0 .. LastLba

(* The bytes the host asks for at most; a short packet ends the reply.     *)
Wanted ==
  CASE command.op = INQUIRY -> 36
    [] command.op = READ_CAPACITY -> 8
    [] command.op = MODE_SENSE -> 192
    [] command.op = READ_FORMAT_CAPACITIES -> 252
    [] command.op = READ -> command.length * ChunksPerBlock * MaxChunk

(* The four packets of a command block.                                    *)
CbwPacket(part) ==
  [kind |-> "cbw", part |-> part,
   body |-> CASE part = 0 -> <<command.tag>>
              [] part = 1 -> <<command.op>>
              [] part = 2 -> <<command.lba, command.length>>
              [] part = 3 -> <<"zero">>]

(* A new command, with a tag that tells it from the one before.            *)
NewCommand ==
  /\ phase = "idle"
  /\ phase' = "command"
  /\ sent' = 0
  /\ got' = 0
  /\ \E op \in Commands, tag \in Tags \ {command.tag} :
       \/ /\ op \in {READ, WRITE}
          /\ \E r \in Request :
               command' = [tag |-> tag, op |-> op,
                           lba |-> r[1], length |-> r[2]]
       \/ /\ op \notin {READ, WRITE}
          /\ command' = [tag |-> tag, op |-> op, lba |-> 0, length |-> 0]
  /\ UNCHANGED <<vars, pc, assembly, execution, reading, txq, rx, tx1,
                 hostdisk>>

(* handleData: a packet is taken when the last one has been processed, and *)
(* refused with NAK, to be sent again, before that.                        *)
IsrOut ==
  /\ rx = Empty
  /\ \/ /\ phase = "command"
        /\ rx' = CbwPacket(sent)
        /\ IF sent + 1 < CbwPackets
             THEN sent' = sent + 1 /\ UNCHANGED phase
             ELSE /\ sent' = 0
                  /\ phase' = CASE command.op = WRITE -> "data_out"
                                [] command.op \in WithReply \union {READ}
                                     -> "data_in"
                                [] command.op \in StatusOnly \union {UNLISTED}
                                     -> "status"
        /\ UNCHANGED hostdisk
     \/ /\ phase = "data_out"
        /\ \E v \in Values :
             /\ rx' = [kind |-> "data", part |-> 0, body |-> <<v>>]
             /\ hostdisk' =
                  [hostdisk EXCEPT ![command.lba + sent \div ChunksPerBlock]
                                    [sent % ChunksPerBlock] = v]
        /\ sent' = sent + 1
        /\ phase' = IF sent + 1 < command.length * ChunksPerBlock
                      THEN "data_out" ELSE "status"
  /\ UNCHANGED <<vars, pc, assembly, execution, reading, txq, tx1,
                 command, got>>

(* handleIn1: the chunk in the endpoint is sent, and counts as received.   *)
IsrIn ==
  /\ rx = Empty
  /\ tx1 # Empty
  /\ tx1' = Empty
  /\ LET total == got + tx1.len
     IN  \/ /\ phase = "data_in"
            /\ IF total < Wanted /\ tx1.len = MaxChunk
                 THEN got' = total /\ UNCHANGED phase
                 ELSE got' = 0 /\ phase' = "status"
         \/ /\ phase = "status"
            /\ IF total < CSW_LENGTH /\ tx1.len = MaxChunk
                 THEN got' = total /\ UNCHANGED phase
                 ELSE got' = 0 /\ phase' = "idle"
  /\ UNCHANGED <<vars, pc, assembly, execution, reading, txq, rx, command,
                 sent, hostdisk>>

-----------------------------------------------------------------------------
(* A restart: the start-up code of Storage, every other variable at its    *)
(* initial value, and a host that finds a new device.                      *)
Restart ==
  /\ PowerCut \/ WatchdogReset
  /\ pc' = "poll"
  /\ cbw' = [part \in 0 .. CbwPackets - 1 |-> <<>>]
  /\ cbw_progress' = FALSE /\ cbw_finished' = FALSE /\ index_write' = 0
  /\ cbw_tag' = NoTag /\ csw' = NoTag /\ data' = ZeroData
  /\ should_read' = FALSE /\ read_count' = 0
  /\ transfer_length' = 0 /\ transfer_length_beginning' = 0
  /\ txq' = EmptyQueue /\ rx' = Empty /\ tx1' = Empty
  /\ phase' = "idle" /\ command' = NoCommand /\ sent' = 0 /\ got' = 0
  /\ hostdisk' = [b \in HostBlock |-> ram'[b % Blocks]]

MSInit ==
  /\ Init
  /\ pc = "poll"
  /\ cbw = [part \in 0 .. CbwPackets - 1 |-> <<>>]
  /\ cbw_progress = FALSE /\ cbw_finished = FALSE /\ index_write = 0
  /\ cbw_tag = NoTag /\ csw = NoTag /\ data = ZeroData
  /\ should_read = FALSE /\ read_count = 0
  /\ transfer_length = 0 /\ transfer_length_beginning = 0
  /\ txq = EmptyQueue /\ rx = Empty /\ tx1 = Empty
  /\ phase = "idle" /\ command = NoCommand /\ sent = 0 /\ got = 0
  /\ hostdisk = [b \in HostBlock |-> ram[b % Blocks]]

MainLoop == Poll \/ SendNextData \/ ExecuteRead \/ ExecuteCbw \/ Store

MSNext == \/ MainLoop
          \/ WriteCycleEnds
          \/ NewCommand
          \/ IsrOut
          \/ IsrIn
          \/ Restart

(* The loop never ends, the EEPROM finishes its write cycles, and a host   *)
(* that has begun a command goes on sending it and asking for its answer.  *)
MSFairness == /\ WF_msVars(MainLoop)
              /\ WF_msVars(WriteCycleEnds)
              /\ WF_msVars(IsrOut)
              /\ WF_msVars(IsrIn)

MSSpec     == MSInit /\ [][MSNext]_msVars
MSFairSpec == MSSpec /\ MSFairness

-----------------------------------------------------------------------------
(***************************************************************************)
(* Properties.                                                             *)
(***************************************************************************)

(* Every variable of the protocol keeps to its type.                       *)
MSTypeOK ==
  /\ TypeOK
  /\ pc \in {"poll", "send", "read", "exec", "store"}
  /\ DOMAIN cbw = 0 .. CbwPackets - 1
  /\ cbw_progress \in BOOLEAN /\ cbw_finished \in BOOLEAN
  /\ index_write \in 0 .. CbwPackets
  /\ cbw_tag \in Tags \union {NoTag} /\ csw \in Tags \union {NoTag}
  /\ data \in [head : Writers, mid : Writers, tail : Writers]
  /\ rx \in Packet \union {Empty} /\ tx1 \in TxChunk \union {Empty}
  /\ should_read \in BOOLEAN
  /\ read_count \in 0 .. ChunksPerBlock
  /\ transfer_length_beginning \in 0 .. LastLba + 1
  /\ transfer_length \in 0 .. transfer_length_beginning
  /\ phase \in {"idle", "command", "data_in", "data_out", "status"}
  /\ command \in [tag : Tags \union {NoTag}, op : AllCommands,
                   lba : HostBlock, length : 0 .. LastLba + 1]
  /\ hostdisk \in [HostBlock -> [Chunk -> Values \union {Unread}]]

(* One answer of usbInterruptIsReady serves both usb_send_next_data and    *)
(* execute_read (main.c:201-203): the second never overwrites a chunk that *)
(* the first has put into the endpoint and the host has not fetched.       *)
NothingOverwritten == pc = "read" /\ should_read => tx1 = Empty

(* usbdata.c queues addresses: between usb_send_data and the last chunk,   *)
(* no command writes to the static buffer of commands.c that is queued.    *)
BuffersStable ==
  [][\A i \in DOMAIN txq.packets :
       \/ txq'.packets = <<>>
       \/ /\ txq.packets[i].buf = "csw" => csw' = csw
          /\ txq.packets[i].buf = "data" => data' = data]_msVars

(* usb_send_data has no test for a full ring; a reply and its CSW are the  *)
(* most that is ever queued of the BUFFER_SIZE - 1 packets it can hold.    *)
QueueBounded == Len(txq.packets) <= 2

(* A packet reaches the parser it is meant for, although data may arrive   *)
(* before execute_cbw has run: when usbFunctionWriteOut is called, the     *)
(* part of a command block is the one it waits for, and data finds         *)
(* is_writing set.                                                         *)
PacketsReachTheirParser ==
  pc = "poll" /\ rx # Empty =>
    /\ is_writing <=> rx.kind = "data"
    /\ rx.kind = "cbw" =>
         rx.part = IF cbw_progress THEN index_write ELSE 0

(* Every CSW sent answers the host's command in progress: it carries its   *)
(* tag, comes after its data, and its two chunks come in order.            *)
CswAnswersCommand ==
  tx1 # Empty /\ tx1.buf = "csw" =>
    /\ phase = "status"
    /\ tx1.off = got
    /\ tx1.off = 0 => tx1.body = <<command.tag>>

(* Every other chunk is the next one of the data the command asks for:     *)
(* none is lost, sent twice, or left over from another command.            *)
ReplyFitsCommand ==
  tx1 # Empty /\ tx1.buf # "csw" =>
    /\ phase = "data_in"
    /\ tx1.buf = "sram" <=> command.op = READ
    /\ command.op # READ =>
         /\ tx1.buf = Reply(command.op)[1]
         /\ tx1.off = got
         /\ tx1.off = 0 /\ tx1.buf = "data" => tx1.body = <<command.op>>

(* The bytes on their way to the host: in the endpoint, in the one or two  *)
(* packets queued, and still to come from a READ with the CSW behind it.   *)
Queued ==
  LET ps == txq.packets
  IN  IF ps = <<>> THEN 0
      ELSE ps[1].length - txq.index
             + (IF Len(ps) > 1 THEN ps[2].length ELSE 0)

UnderWay ==
  (IF tx1 = Empty THEN 0 ELSE tx1.len) + Queued
    + (IF should_read
         THEN (transfer_length * ChunksPerBlock - read_count) * MaxChunk
                + CSW_LENGTH
         ELSE 0)

(* The bytes the host has still to get before it can go on.                *)
ReplySize == IF command.op = READ
               THEN command.length * ChunksPerBlock * MaxChunk
               ELSE Reply(command.op)[2]

Owed == CASE phase = "data_in" -> ReplySize - got + CSW_LENGTH
          [] phase = "status" -> CSW_LENGTH - got
          [] phase \in {"idle", "command", "data_out"} -> 0

(* Neither side waits for the other: once a command has been processed,    *)
(* exactly the bytes the host still waits for are on their way to it, so   *)
(* it never asks for what no handler will queue, and nothing is left in    *)
(* the queue or the endpoint for the next command.                         *)
OwedInFull ==
  rx = Empty /\ ~cbw_finished /\ command.op # UNLISTED => UnderWay = Owed

(* A READ returns what the host wrote last, chunk by chunk, whatever the   *)
(* write-back is doing at the time.                                        *)
ReadsSeeLastWrite ==
  tx1 # Empty /\ tx1.buf = "sram" =>
    LET chunk == got \div MaxChunk
    IN  tx1.body = <<hostdisk[command.lba + chunk \div ChunksPerBlock]
                             [chunk % ChunksPerBlock]>>

(* What commands.c:133 says of MODE SENSE, "return always the same data":  *)
(* every byte of its reply was written for it, or is zero.                 *)
ModeSenseSame ==
  tx1 # Empty /\ tx1.buf = "data" /\ command.op = MODE_SENSE =>
    \A i \in DOMAIN tx1.body : tx1.body[i] \in {MODE_SENSE, "zero"}

(* The device with its protocol is the storage with its requests.          *)
ImplementsStorage == Spec

(* Every command listed in commands.h is answered: the host comes to the   *)
(* end of its status phase, whatever else the main loop does.              *)
CommandsAnswered ==
  phase # "idle" /\ command.op # UNLISTED ~> phase = "idle"
=============================================================================
