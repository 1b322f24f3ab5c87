------------------------- MODULE MassStorageProofs -------------------------
(***************************************************************************)
(* Theorems about MassStorage, for every size of the memory, every set of  *)
(* commands, tags and values, and every choice of faults.                  *)
(*                                                                         *)
(* The bulk-only protocol is a dialogue, and its invariant is a list of    *)
(* the situations host and device can be in together.  Session says, for   *)
(* each, what lies in the two endpoint buffers, in the reply queue and in  *)
(* the variables of the command; it knows nothing of the contents of the   *)
(* disk, which DiskSeen adds.                                              *)
(***************************************************************************)
EXTENDS MassStorage, StorageProofs, DivMod, SequenceTheorems

(* The number of blocks of a request fits a uint8_t.  It does for a host   *)
(* that believes the READ CAPACITY of the device, one block too many.      *)
SmallRequests == LastLba + 1 < Uint8

-----------------------------------------------------------------------------
(***************************************************************************)
(* The situations.                                                         *)
(***************************************************************************)

Pkt(buf, length) == [buf |-> buf, length |-> length]
One(p, i)    == [packets |-> <<p>>, index |-> i]
Two(p, q, i) == [packets |-> <<p, q>>, index |-> i]
Csw == Pkt("csw", CSW_LENGTH)

TxOf(buf, off, len, body) ==
  [buf |-> buf, off |-> off, len |-> len, body |-> body]

Total == command.length * ChunksPerBlock

(* Where the host goes when it has sent its command block.                 *)
AfterCommand ==
  CASE command.op = WRITE -> "data_out"
    [] command.op \in WithReply \union {READ} -> "data_in"
    [] command.op \in StatusOnly \union {UNLISTED} -> "status"

(* Nothing is on its way to the host; no data is expected from it.         *)
Quiet == /\ txq = EmptyQueue /\ tx1 = Empty /\ got = 0
         /\ ~ should_read
         /\ ~ is_writing

(* p packets of the command block have been processed.                     *)
Assembled(p) ==
  /\ cbw_progress <=> p \in 1 .. 3
  /\ p # 0 => index_write = p
  /\ \A i \in 0 .. 3 : i < p => cbw[i] = CbwPacket(i).body

Idle ==
  /\ phase = "idle" /\ rx = Empty
  /\ Assembled(0) /\ ~ cbw_finished
  /\ Quiet

(* The command block is on its way, its next packet at the host or in the  *)
(* buffer.                                                                 *)
Sending(p) ==
  /\ Assembled(p) /\ ~ cbw_finished
  /\ command.tag \in Tags
  /\ Quiet
  /\ \/ rx = Empty /\ phase = "command" /\ sent = p
     \/ /\ rx = CbwPacket(p)
        /\ IF p < 3 THEN phase = "command" /\ sent = p + 1
                    ELSE phase = AfterCommand /\ sent = 0

(* The host goes on with the data of a WRITE, n chunks of it processed.    *)
DataPacket(v) == [kind |-> "data", part |-> 0, body |-> <<v>>]

DataFrom(n) ==
  /\ \/ rx = Empty /\ sent = n
     \/ sent = n + 1 /\ \E v \in Values : rx = DataPacket(v)
  /\ sent <= Total
  /\ phase = IF sent < Total THEN "data_out" ELSE "status"

(* The command is complete and not executed; this is so until execute_cbw  *)
(* in the same round of the main loop, and data may come in meanwhile.     *)
Parsed ==
  /\ cbw_finished /\ Assembled(4)
  /\ command.tag \in Tags
  /\ Quiet
  /\ pc \in {"send", "read", "exec"}
  /\ IF command.op = WRITE THEN DataFrom(0)
                           ELSE rx = Empty /\ phase = AfterCommand

Executed == /\ ~ cbw_progress /\ ~ cbw_finished
            /\ command.tag \in Tags /\ cbw_tag = command.tag

Ignored == /\ Executed /\ command.op = UNLISTED
           /\ Quiet
           /\ phase = "status" /\ rx = Empty

Writing ==
  /\ Executed /\ command.op = WRITE
  /\ txq = EmptyQueue /\ tx1 = Empty /\ got = 0 /\ ~ should_read
  /\ is_writing
  /\ logical_block = command.lba
  /\ transfer_length_write = command.length
  /\ write_page < command.length
  /\ DataFrom(write_page * ChunksPerBlock + count)

(* The host receives the `got' bytes that precede the chunk that is in the *)
(* endpoint, or is the next one to come there.                             *)
Replying ==
  /\ Executed /\ command.op \in WithReply
  /\ phase = "data_in" /\ rx = Empty
  /\ ~ is_writing /\ ~ should_read
  /\ csw = command.tag
  /\ Reply(command.op)[1] = "data" => data.head = command.op
  /\ got \in {0, 8, 16, 24, 32} /\ got < Reply(command.op)[2]
  /\ LET buf  == Reply(command.op)[1]
         rest == Reply(command.op)[2] - got
         reply == Pkt(buf, Reply(command.op)[2])
     IN  \/ tx1 = Empty /\ txq = Two(reply, Csw, got)
         \/ /\ tx1 # Empty
            /\ tx1 = TxOf(buf, got, IF rest > 8 THEN 8 ELSE rest, tx1.body)
            /\ got = 0 /\ buf = "data" => tx1.body = <<command.op>>
            /\ txq = IF rest > 8 THEN Two(reply, Csw, got + 8) ELSE One(Csw, 0)

(* The chunks of a READ that execute_read has handed over.                 *)
Handed == (command.length - transfer_length) * ChunksPerBlock + read_count

Reading ==
  /\ Executed /\ command.op = READ
  /\ phase = "data_in" /\ rx = Empty
  /\ ~ is_writing
  /\ logical_block = command.lba
  /\ transfer_length_beginning = command.length
  /\ tx1 # Empty => tx1 = TxOf("sram", 0, 8, tx1.body)
  /\ \/ /\ should_read
        /\ txq = EmptyQueue
        /\ transfer_length \in 1 .. command.length
        /\ read_count < ChunksPerBlock
        /\ got = IF tx1 = Empty THEN 8 * Handed ELSE 8 * (Handed - 1)
        /\ tx1 # Empty => Handed > 0
     \/ /\ ~ should_read
        /\ txq = One(Csw, 0) /\ csw = command.tag
        /\ tx1 # Empty
        /\ got = 8 * (Total - 1)

(* The CSW, in its two chunks.                                             *)
Status ==
  /\ Executed
  /\ phase = "status" /\ rx = Empty
  /\ ~ is_writing /\ ~ should_read
  /\ csw = command.tag
  /\ \/ tx1 = Empty /\ \E i \in {0, 8} : txq = One(Csw, i) /\ got = i
     \/ /\ tx1 # Empty
        /\ \/ /\ txq = One(Csw, 8) /\ got = 0
              /\ tx1 = TxOf("csw", 0, 8, <<csw>>)
           \/ /\ txq = EmptyQueue /\ got = 8
              /\ tx1 = TxOf("csw", 8, 5, tx1.body)

Session == \/ Idle
           \/ \E p \in 0 .. 3 : Sending(p)
           \/ Parsed
           \/ Ignored
           \/ Writing
           \/ Replying
           \/ Reading
           \/ Status

CommandOK == command.op \in {READ, WRITE} =>
               /\ command.length > 0
               /\ command.lba + command.length <= LastLba + 1

MSInv == /\ MSTypeOK
         /\ BeginningInside
         /\ CommandOK
         /\ Session
         /\ NothingOverwritten

-----------------------------------------------------------------------------
(***************************************************************************)
(* Nothing and something.                                                  *)
(***************************************************************************)

LEMMA PacketIsNotEmpty == \A x \in Packet \union TxChunk : x # Empty
  BY EmptyAssumption

LEMMA DataIsPacket == \A v \in Values : DataPacket(v) \in Packet
  BY DEF DataPacket, Packet

LEMMA CbwIsPacket ==
  ASSUME MSTypeOK, command.tag \in Tags, NEW p \in 0 .. 3
  PROVE  CbwPacket(p) \in Packet /\ CbwPacket(p).part = p
         /\ CbwPacket(p).kind = "cbw"
<1>1. command.op \in Writers
  BY DEF MSTypeOK, Writers
<1>2. command.lba \in 0 .. LastLba /\ command.length \in 0 .. LastLba + 1
  BY DEF MSTypeOK, HostBlock
<1> DEFINE b == CbwPacket(p).body
<1>3. CbwPacket(p) = [kind |-> "cbw", part |-> p, body |-> b]
  BY DEF CbwPacket
<1>4. b \in {<<x>> : x \in Tags \union Writers \union Values}
              \union ((0 .. LastLba) \X (0 .. LastLba + 1))
  <2>1. CASE p = 0
    BY <2>1 DEF CbwPacket
  <2>2. CASE p = 1
    BY <1>1, <2>2 DEF CbwPacket
  <2>3. CASE p = 2
    BY <1>2, <2>3 DEF CbwPacket
  <2>4. CASE p = 3
    BY <2>4 DEF CbwPacket, Writers
  <2> QED
    BY <2>1, <2>2, <2>3, <2>4
<1> HIDE DEF b
<1> QED
  BY <1>3, <1>4 DEF Packet

-----------------------------------------------------------------------------
(***************************************************************************)
(* The queue in the lengths it comes to.                                   *)
(***************************************************************************)

LEMMA AppendToOne ==
  ASSUME NEW p, NEW x PROVE Append(<<p>>, x) = <<p, x>>
<1> DEFINE S == {p, x}
           s == Append(<<p>>, x)
           t == <<p, x>>
<1>1. <<p>> \in Seq(S) /\ Len(<<p>>) = 1 /\ <<p>>[1] = p /\ x \in S
  OBVIOUS
<1>2. t \in Seq(S) /\ Len(t) = 2 /\ t[1] = p /\ t[2] = x
  OBVIOUS
<1> HIDE DEF S, t
<1>3. s \in Seq(S) /\ Len(s) = 2 /\ s[1] = p /\ s[2] = x
  BY <1>1, AppendProperties
<1> HIDE DEF s
<1>4. \A i \in 1 .. Len(s) : s[i] = t[i]
  BY <1>2, <1>3
<1>5. s = t
  BY <1>2, <1>3, <1>4, SeqEqual
<1> QED
  BY <1>5 DEF s, t

LEMMA QueueOfNone ==
  /\ ~ HasPacket(EmptyQueue)
  /\ \A b, l : Enqueue(EmptyQueue, b, l) = One(Pkt(b, l), 0)
  /\ \A b, l, c, m : Enqueue(Enqueue(EmptyQueue, b, l), c, m)
                       = Two(Pkt(b, l), Pkt(c, m), 0)
<1>1. ~ HasPacket(EmptyQueue)
  BY DEF HasPacket, EmptyQueue
<1>2. ASSUME NEW b, NEW l PROVE Enqueue(EmptyQueue, b, l) = One(Pkt(b, l), 0)
  BY DEF EmptyQueue, Enqueue, One, Pkt
<1>3. ASSUME NEW p, NEW c, NEW m
      PROVE  Enqueue(One(p, 0), c, m) = Two(p, Pkt(c, m), 0)
  <2>1. Append(<<p>>, Pkt(c, m)) = <<p, Pkt(c, m)>>
    BY AppendToOne
  <2>2. One(p, 0).packets = <<p>> /\ One(p, 0).index = 0
    BY DEF One
  <2> QED
    BY <2>1, <2>2 DEF Enqueue, One, Two, Pkt
<1> QED
  BY <1>1, <1>2, <1>3

LEMMA QueueOfOne ==
  ASSUME NEW b, NEW l \in Nat, NEW i \in Nat
  PROVE  LET q == One(Pkt(b, l), i)
         IN  /\ HasPacket(q)
             /\ NextChunk(q) = [buf |-> b, off |-> i,
                                len |-> IF l - i > 8 THEN 8 ELSE l - i]
             /\ Dequeue(q) = IF l - i > 8 THEN One(Pkt(b, l), i + 8)
                             ELSE EmptyQueue
<1> DEFINE q == One(Pkt(b, l), i)
<1>1. q.packets = <<Pkt(b, l)>> /\ q.index = i
  BY DEF One
<1>2. Head(q.packets) = Pkt(b, l) /\ Tail(q.packets) = << >>
      /\ q.packets # << >>
  BY <1>1
<1>3. Pkt(b, l).length = l /\ Pkt(b, l).buf = b
  BY DEF Pkt
<1>4. l - i > 8 => [q EXCEPT !.index = @ + 8] = One(Pkt(b, l), i + 8)
  BY DEF One
<1> HIDE DEF q
<1> QED
  BY <1>1, <1>2, <1>3, <1>4
     DEF HasPacket, NextChunk, Dequeue, EmptyQueue, MaxChunk, q

LEMMA QueueOfTwo ==
  ASSUME NEW b, NEW l \in Nat, NEW p, NEW i \in Nat
  PROVE  LET q == Two(Pkt(b, l), p, i)
         IN  /\ HasPacket(q)
             /\ NextChunk(q) = [buf |-> b, off |-> i,
                                len |-> IF l - i > 8 THEN 8 ELSE l - i]
             /\ Dequeue(q) = IF l - i > 8 THEN Two(Pkt(b, l), p, i + 8)
                             ELSE One(p, 0)
  BY DEF HasPacket, NextChunk, Dequeue, One, Two, Pkt, MaxChunk

-----------------------------------------------------------------------------
(***************************************************************************)
(* The storage under the protocol.  StorageProofs shows more, but for      *)
(* compliant hosts and transfers that do not fail.                         *)
(***************************************************************************)

LEMMA StartsTyped == Init => TypeOK /\ BeginningInside
<1> SUFFICES ASSUME Init PROVE TypeOK /\ BeginningInside
  OBVIOUS
<1>1. 0 \in Chunk /\ 0 \in Page
  BY BlockNotEmpty, SizesAssumption DEF Chunk, Page
<1>2. ram \in Image /\ eeprom \in Image
  BY LoadedImage DEF Init, Contents, Image
<1>3. programming \in (Block \X Page) \union {NoPage}
  BY DEF Init
<1>4. blocks_written \in [Block -> BOOLEAN]
  BY DEF Init
<1>5. is_writing \in BOOLEAN /\ is_writing_beginning \in BOOLEAN
  BY DEF Init
<1>6. /\ logical_block \in 0 .. LastLba
      /\ write_page \in 0 .. Uint8 - 1
      /\ transfer_length_write \in 0 .. Uint8 - 1
  BY SizesAssumption DEF Init
<1>7. write_block \in Block \union {NoBlock} /\ page_count \in Page
      /\ count \in Chunk
  BY <1>1 DEF Init
<1> QED
  BY <1>2, <1>3, <1>4, <1>5, <1>6, <1>7 DEF TypeOK, Init, BeginningInside

LEMMA BootTyped ==
  ASSUME NEW e \in Image, Boot(e)
  PROVE  TypeOK' /\ BeginningInside'
<1>1. 0 \in Chunk /\ 0 \in Page
  BY BlockNotEmpty, SizesAssumption DEF Chunk, Page
<1>2. ram' \in Image /\ eeprom' \in Image
  BY LoadedImage DEF Boot
<1>3. programming' \in (Block \X Page) \union {NoPage}
  BY DEF Boot
<1>4. blocks_written' \in [Block -> BOOLEAN]
  BY DEF Boot
<1>5. is_writing' \in BOOLEAN /\ is_writing_beginning' \in BOOLEAN
  BY DEF Boot
<1>6. /\ logical_block' \in 0 .. LastLba
      /\ write_page' \in 0 .. Uint8 - 1
      /\ transfer_length_write' \in 0 .. Uint8 - 1
  BY SizesAssumption DEF Boot
<1>7. write_block' \in Block \union {NoBlock} /\ page_count' \in Page
      /\ count' \in Chunk
  BY <1>1 DEF Boot
<1> QED
  BY <1>2, <1>3, <1>4, <1>5, <1>6, <1>7 DEF TypeOK, Boot, BeginningInside

LEMMA BeginWriteTyped ==
  ASSUME TypeOK, BeginningInside, SmallRequests,
         NEW lba \in HostBlock, NEW length \in 1 .. LastLba + 1,
         BeginWrite(lba, length)
  PROVE  /\ TypeOK' /\ BeginningInside'
         /\ is_writing' /\ write_page' = 0 /\ count' = 0
         /\ logical_block' = lba /\ transfer_length_write' = length
<1>1. 0 \in Chunk
  BY BlockNotEmpty DEF Chunk
<1>2. length % Uint8 = length
  <2>1. \A n \in Nat \ {0}, x \in Nat : x < n => x % n = x
    BY SMT
  <2> QED
    BY <2>1, SizesAssumption DEF SmallRequests
<1>3. /\ is_writing' /\ write_page' = 0 /\ count' = 0
      /\ logical_block' = lba /\ transfer_length_write' = length
      /\ is_writing_beginning'
  BY <1>2 DEF BeginWrite, BeginningInside
<1>4. is_writing' \in BOOLEAN /\ is_writing_beginning' \in BOOLEAN
  BY DEF BeginWrite
<1>5. UNCHANGED <<ram, eeprom, programming, blocks_written, write_block,
                  page_count>>
  BY DEF BeginWrite, memory, writeBack
<1> QED
  BY <1>1, <1>3, <1>4, <1>5, SizesAssumption
     DEF TypeOK, BeginningInside, SmallRequests, HostBlock

LEMMA BeginReadTyped ==
  ASSUME TypeOK, BeginningInside, NEW lba \in HostBlock, BeginRead(lba)
  PROVE  TypeOK' /\ BeginningInside' /\ ~ is_writing' /\ logical_block' = lba
  BY DEF TypeOK, BeginningInside, HostBlock, BeginRead, memory, writeBack

(* What a packet of data does, beside storing its chunk.                   *)
LEMMA WriteOutTyped ==
  ASSUME TypeOK, BeginningInside, NEW v \in Values, WriteOut(v)
  PROVE  /\ TypeOK' /\ BeginningInside'
         /\ UNCHANGED <<logical_block, transfer_length_write>>
<1>1. is_writing /\ ram' = [ram EXCEPT ![CurrentBlock][count] = v]
      /\ UNCHANGED <<eeprom, programming, write_block, page_count,
                     logical_block, transfer_length_write>>
  BY DEF WriteOut
<1>2. ram' \in Image
  BY <1>1 DEF TypeOK, Image
<1>3. CASE count + 1 < ChunksPerBlock
  <2>1. count' = count + 1 /\ UNCHANGED <<is_writing, is_writing_beginning,
                                          write_page, blocks_written>>
    <3>1. ~ (count + 1 = ChunksPerBlock)
      BY <1>3, BlockNotEmpty DEF TypeOK, Chunk
    <3> QED
      BY <3>1, Zenon DEF WriteOut
  <2>2. count' \in Chunk
    BY <1>3, <2>1, BlockNotEmpty DEF TypeOK, Chunk
  <2> QED
    BY <1>1, <1>2, <2>1, <2>2 DEF TypeOK, BeginningInside
<1>4. CASE ~ (count + 1 < ChunksPerBlock)
  <2>1. FinishBlock
    BY <1>4 DEF WriteOut
  <2>2. count' = 0 /\ count' \in Chunk
    BY <2>1, BlockNotEmpty DEF FinishBlock, Chunk
  <2>3. write_page' \in 0 .. Uint8 - 1
    BY <2>1, SizesAssumption DEF FinishBlock, Received, TypeOK
  <2>4. is_writing' \in BOOLEAN /\ is_writing_beginning' \in BOOLEAN
    BY <2>1 DEF FinishBlock
  <2>5. blocks_written' \in [Block -> BOOLEAN]
    BY <2>1 DEF FinishBlock, MarkWritten, TypeOK
  <2>6. BeginningInside'
    BY <1>1, <2>1 DEF FinishBlock, BeginningInside
  <2> QED
    BY <1>1, <1>2, <2>2, <2>3, <2>4, <2>5, <2>6 DEF TypeOK
<1> QED
  BY <1>1, <1>3, <1>4

LEMMA WriteBackTyped ==
  ASSUME TypeOK, BeginningInside, PickBlock \/ CopyPage \/ EepromDone
  PROVE  TypeOK' /\ BeginningInside' /\ UNCHANGED <<ram, receive>>
<1>1. CASE PickBlock
  <2>1. UNCHANGED <<ram, receive, eeprom, programming, page_count>>
    BY <1>1 DEF PickBlock, memory
  <2>2. write_block' \in Block /\ blocks_written' \in [Block -> BOOLEAN]
    BY <1>1 DEF PickBlock, TypeOK
  <2> QED
    BY <2>1, <2>2 DEF TypeOK, BeginningInside, receive
<1>2. CASE CopyPage
  <2>1. UNCHANGED <<ram, receive, blocks_written>> /\ write_block # NoBlock
    BY <1>2 DEF CopyPage
  <2>2. write_block \in Block /\ page_count \in 0 .. PagesPerBlock - 1
    BY <2>1 DEF TypeOK, Page
  <2>3. eeprom' \in Image
        /\ programming' \in (Block \X Page) \union {NoPage}
    <3>1. CASE PageFails
      BY <3>1 DEF PageFails, TypeOK
    <3>2. CASE PageWritten
      <4>1. eeprom' \in Image
        BY <2>2, <3>2 DEF PageWritten, TypeOK, Image
      <4>2. programming' = <<write_block, page_count>> /\ page_count \in Page
        BY <3>2 DEF PageWritten, TypeOK
      <4> QED
        BY <2>2, <4>1, <4>2
    <3> QED
      BY <1>2, <3>1, <3>2 DEF CopyPage
  <2>4. page_count' \in Page /\ write_block' \in Block \union {NoBlock}
    <3>1. CASE page_count + 1 >= PagesPerBlock
      BY <1>2, <3>1, SizesAssumption DEF CopyPage, NextPage, Page
    <3>2. CASE ~ (page_count + 1 >= PagesPerBlock)
      BY <1>2, <2>2, <3>2, SizesAssumption DEF CopyPage, NextPage, Page
    <3> QED
      BY <3>1, <3>2
  <2> QED
    BY <2>1, <2>3, <2>4 DEF TypeOK, BeginningInside, receive
<1>3. CASE EepromDone
  <2>1. UNCHANGED <<ram, eeprom, writeBack, receive>> /\ programming' = NoPage
    BY <1>3 DEF EepromDone
  <2> QED
    BY <2>1 DEF TypeOK, BeginningInside, receive, writeBack
<1> QED
  BY <1>1, <1>2, <1>3

LEMMA RestartTyped ==
  ASSUME TypeOK, PowerCut \/ WatchdogReset
  PROVE  \E e \in Image : Boot(e)
  BY DEF PowerCut, WatchdogReset, TypeOK, Contents, Image

-----------------------------------------------------------------------------
(***************************************************************************)
(* What a situation does not depend on.                                    *)
(***************************************************************************)

LEMMA CommandKept ==
  ASSUME UNCHANGED command
  PROVE  /\ Total' = Total /\ AfterCommand' = AfterCommand
         /\ CommandOK' = CommandOK
         /\ \A p : CbwPacket(p)' = CbwPacket(p)
  BY DEF Total, AfterCommand, CommandOK, CbwPacket

LEMMA AssemblyKept ==
  ASSUME UNCHANGED <<assembly, command>>, NEW p, Assembled(p)
  PROVE  Assembled(p)'
<1>1. /\ UNCHANGED <<cbw, cbw_progress, index_write>>
      /\ \A i : CbwPacket(i)' = CbwPacket(i)
  BY CommandKept DEF assembly
<1> QED
  BY <1>1 DEF Assembled

LEMMA DataKept ==
  ASSUME UNCHANGED <<rx, sent, phase, command>>, NEW n, DataFrom(n)
  PROVE  DataFrom(n)'
  BY DEF DataFrom, DataPacket, Total

(* Everything of the session but the program counter.                      *)
Dialogue == <<assembly, execution, reading, txq, rx, tx1,
              phase, command, sent, got, receive>>

LEMMA DialogueKept ==
  ASSUME MSInv, UNCHANGED Dialogue,
         cbw_finished => pc' \in {"send", "read", "exec"}
  PROVE  Session' /\ CommandOK' /\ BeginningInside'
<1>0. /\ UNCHANGED <<cbw, cbw_progress, cbw_finished, index_write>>
      /\ UNCHANGED <<cbw_tag, csw, data>>
      /\ UNCHANGED <<should_read, read_count, transfer_length,
                     transfer_length_beginning>>
      /\ UNCHANGED <<txq, rx, tx1, phase, command, sent, got>>
      /\ UNCHANGED <<is_writing, is_writing_beginning, logical_block,
                     write_page, count, transfer_length_write>>
  BY DEF Dialogue, assembly, execution, reading, receive
<1>1. /\ Total' = Total /\ AfterCommand' = AfterCommand
      /\ CommandOK' = CommandOK
      /\ \A p : CbwPacket(p)' = CbwPacket(p)
  BY <1>0, CommandKept
<1>2. CommandOK' /\ BeginningInside'
  BY <1>0, <1>1 DEF MSInv, BeginningInside
<1>3. \A p : Assembled(p) => Assembled(p)'
  BY <1>0, AssemblyKept DEF assembly
<1>4. ASSUME Quiet PROVE Quiet'
  BY <1>0, <1>4 DEF Quiet
<1>5. ASSUME Executed PROVE Executed'
  BY <1>0, <1>5 DEF Executed
<1>6. \A n : DataFrom(n) => DataFrom(n)'
  BY <1>0, DataKept
<1>7. ASSUME Idle PROVE Idle'
  BY <1>0, <1>3, <1>4, <1>7 DEF Idle
<1>8. ASSUME NEW p \in 0 .. 3, Sending(p) PROVE Sending(p)'
  BY <1>0, <1>1, <1>3, <1>4, <1>8 DEF Sending
<1>9. ASSUME Parsed PROVE Parsed'
  <2>1. UNCHANGED <<command, rx, phase, cbw_finished>>
    BY <1>0
  <2>2. command.op = WRITE => DataFrom(0)'
    BY <1>6, <1>9 DEF Parsed
  <2>3. command.op # WRITE => (rx = Empty /\ phase = AfterCommand)'
    BY <1>1, <1>9, <2>1 DEF Parsed
  <2>4. Assembled(4)' /\ Quiet'
    BY <1>3, <1>4, <1>9 DEF Parsed
  <2>5. pc' \in {"send", "read", "exec"}
    BY <1>9 DEF Parsed
  <2> QED
    BY <1>9, <2>1, <2>2, <2>3, <2>4, <2>5 DEF Parsed
<1>10. ASSUME Ignored PROVE Ignored'
  BY <1>0, <1>4, <1>5, <1>10 DEF Ignored
<1>11. ASSUME Writing PROVE Writing'
  <2>1. DataFrom(write_page * ChunksPerBlock + count)'
    <3> DEFINE n == write_page * ChunksPerBlock + count
    <3>1. n' = n /\ DataFrom(n)
      BY <1>0, <1>11 DEF Writing
    <3> QED
      BY <1>0, <1>1, <3>1 DEF DataFrom, DataPacket
  <2> QED
    BY <1>0, <1>5, <1>11, <2>1 DEF Writing
<1>12. ASSUME Replying PROVE Replying'
  BY <1>0, <1>5, <1>12 DEF Replying
<1>13. ASSUME Reading PROVE Reading'
  <2>1. Handed' = Handed
    BY <1>0 DEF Handed
  <2> QED
    BY <1>0, <1>1, <1>5, <1>13, <2>1 DEF Reading
<1>14. ASSUME Status PROVE Status'
  BY <1>0, <1>5, <1>14 DEF Status
<1> QED
  BY <1>2, <1>7, <1>8, <1>9, <1>10, <1>11, <1>12, <1>13, <1>14
     DEF MSInv, Session

-----------------------------------------------------------------------------
(***************************************************************************)
(* Which situation it is.                                                  *)
(***************************************************************************)

LEMMA PhaseAfterCommand ==
  ASSUME MSTypeOK
  PROVE  /\ AfterCommand \in {"data_out", "data_in", "status"}
         /\ command.op = WRITE => AfterCommand = "data_out"
         /\ command.op \in WithReply \union {READ} => AfterCommand = "data_in"
         /\ command.op \in StatusOnly \union {UNLISTED}
              => AfterCommand = "status"
         /\ AfterCommand = "data_out" => command.op = WRITE
<1> USE DEF WithReply, StatusOnly, AllCommands, INQUIRY, TEST_UNIT_READY,
            READ_CAPACITY, MODE_SENSE, PREVENT_REMOVAL, READ, WRITE,
            START_STOP_UNIT, READ_FORMAT_CAPACITIES, UNLISTED
<1>1. command.op \in AllCommands
  BY DEF MSTypeOK
<1>2. CASE command.op = WRITE
  BY <1>2 DEF AfterCommand
<1>3. CASE command.op \in WithReply \union {READ}
  BY <1>3 DEF AfterCommand
<1>4. CASE command.op \in StatusOnly \union {UNLISTED}
  BY <1>4 DEF AfterCommand
<1> QED
  BY <1>1, <1>2, <1>3, <1>4

LEMMA AtRest == ASSUME MSInv, phase = "idle" PROVE Idle
<1>1. /\ \A p : ~ Sending(p)
      /\ ~ Parsed /\ ~ Ignored /\ ~ Writing
      /\ ~ Replying /\ ~ Reading /\ ~ Status
  BY PhaseAfterCommand DEF MSInv, Sending, Parsed, Ignored, Writing,
     Replying, Reading, Status, DataFrom
<1> QED
  BY <1>1 DEF MSInv, Session

LEMMA InCommand ==
  ASSUME MSInv, phase = "command"
  PROVE  \E p \in 0 .. 3 : Sending(p)
<1>1. /\ ~ Idle
      /\ ~ Parsed /\ ~ Ignored /\ ~ Writing
      /\ ~ Replying /\ ~ Reading /\ ~ Status
  BY PhaseAfterCommand DEF MSInv, Idle, Parsed, Ignored, Writing,
     Replying, Reading, Status, DataFrom
<1> QED
  BY <1>1 DEF MSInv, Session

LEMMA IsParsed == ASSUME MSInv, cbw_finished PROVE Parsed
  BY DEF MSInv, Session, Idle, Sending, Ignored, Writing, Replying, Reading,
     Status, Executed

LEMMA IsReading == ASSUME MSInv, should_read PROVE Reading
  BY DEF MSInv, Session, Idle, Sending, Parsed, Ignored, Writing, Replying,
     Reading, Status, Quiet

LEMMA IsWriting == ASSUME MSInv, is_writing PROVE Writing
  BY DEF MSInv, Session, Idle, Sending, Parsed, Ignored, Writing, Replying,
     Reading, Status, Quiet

LEMMA HasReceived ==
  ASSUME MSInv, rx # Empty
  PROVE  Writing \/ Parsed \/ \E p \in 0 .. 3 : Sending(p) /\ rx = CbwPacket(p)
  BY DEF MSInv, Session, Idle, Sending, Parsed, Ignored, Writing, Replying,
     Reading, Status

LEMMA HasChunk ==
  ASSUME MSInv, tx1 # Empty
  PROVE  Replying \/ Reading \/ Status
  BY DEF MSInv, Session, Idle, Sending, Parsed, Ignored, Writing, Quiet

LEMMA HasReply ==
  ASSUME MSInv, tx1 = Empty, HasPacket(txq)
  PROVE  Replying \/ Status
  BY QueueOfNone DEF MSInv, Session, Idle, Sending, Parsed, Ignored, Writing,
     Reading, Quiet

-----------------------------------------------------------------------------
(***************************************************************************)
(* One lemma for each step.                                                *)
(***************************************************************************)

LEMMA StoreKeeps ==
  ASSUME MSInv, Store \/ WriteCycleEnds
  PROVE  MSInv'
<1>1. /\ UNCHANGED <<assembly, execution, reading, txq, rx, tx1, host>>
      /\ (pc = "store" /\ pc' = "poll") \/ UNCHANGED pc
      /\ PickBlock \/ CopyPage \/ EepromDone \/ UNCHANGED vars
  BY DEF Store, WriteCycleEnds
<1>2. TypeOK' /\ BeginningInside' /\ UNCHANGED receive
  <2>1. CASE UNCHANGED vars
    BY <2>1 DEF vars, memory, writeBack, receive, MSInv, MSTypeOK, TypeOK,
       BeginningInside
  <2> QED
    BY <1>1, <2>1, WriteBackTyped DEF MSInv, MSTypeOK
<1>3. MSTypeOK'
  BY <1>1, <1>2 DEF MSInv, MSTypeOK, assembly, execution, reading, host
<1>4. UNCHANGED Dialogue
  BY <1>1, <1>2 DEF Dialogue, host
<1>5. ASSUME cbw_finished PROVE pc' \in {"send", "read", "exec"}
  BY <1>1, <1>5, IsParsed DEF Parsed
<1>6. Session' /\ CommandOK' /\ BeginningInside'
  BY <1>4, <1>5, DialogueKept
<1>7. NothingOverwritten'
  BY <1>1 DEF MSInv, NothingOverwritten, reading
<1> QED
  BY <1>3, <1>6, <1>7 DEF MSInv

LEMMA NewCommandKeeps ==
  ASSUME MSInv, NewCommand
  PROVE  MSInv'
<1>1. Idle
  BY AtRest DEF NewCommand
<1>2. /\ phase' = "command" /\ sent' = 0 /\ got' = 0
      /\ UNCHANGED <<vars, pc, assembly, execution, reading, txq, rx, tx1,
                     hostdisk>>
  BY DEF NewCommand
<1>3. command' \in [tag : Tags, op : AllCommands,
                    lba : HostBlock, length : 0 .. LastLba + 1]
      /\ CommandOK'
  <2>1. PICK op \in Commands, tag \in Tags \ {command.tag} :
          \/ /\ op \in {READ, WRITE}
             /\ \E r \in Request :
                  command' = [tag |-> tag, op |-> op,
                              lba |-> r[1], length |-> r[2]]
          \/ /\ op \notin {READ, WRITE}
             /\ command' = [tag |-> tag, op |-> op, lba |-> 0, length |-> 0]
    BY DEF NewCommand
  <2>2. op \in AllCommands
    BY ProtocolAssumption
  <2>3. CASE op \in {READ, WRITE}
    <3>1. PICK r \in Request : command' = [tag |-> tag, op |-> op,
                                           lba |-> r[1], length |-> r[2]]
      BY <2>1, <2>3
    <3>2. /\ r[1] \in 0 .. LastLba /\ r[2] \in 1 .. LastLba + 1
          /\ r[1] + r[2] <= LastLba + 1
      BY DEF Request
    <3> QED
      BY <2>2, <3>1, <3>2, SizesAssumption DEF CommandOK, HostBlock
  <2>4. CASE op \notin {READ, WRITE}
    <3>1. command' = [tag |-> tag, op |-> op, lba |-> 0, length |-> 0]
      BY <2>1, <2>4
    <3> QED
      BY <2>2, <2>4, <3>1, SizesAssumption DEF CommandOK, HostBlock
  <2> QED
    BY <2>3, <2>4
<1>4. MSTypeOK'
  BY <1>2, <1>3 DEF MSInv, MSTypeOK, TypeOK, vars, memory, writeBack, receive,
     assembly, execution, reading
<1>5. Sending(0)'
  <2>1. UNCHANGED <<cbw_progress, cbw_finished, txq, rx, tx1, should_read,
                    is_writing>>
    BY <1>2 DEF vars, receive, assembly, reading
  <2>2. Assembled(0)'
    BY <1>1, <2>1 DEF Idle, Assembled
  <2>3. Quiet'
    BY <1>1, <1>2, <2>1 DEF Idle, Quiet
  <2>4. command'.tag \in Tags
    BY <1>3
  <2> QED
    BY <1>1, <1>2, <2>1, <2>2, <2>3, <2>4 DEF Idle, Sending
<1>6. NothingOverwritten' /\ BeginningInside'
  BY <1>2 DEF MSInv, NothingOverwritten, BeginningInside, reading, vars, receive
<1> QED
  BY <1>3, <1>4, <1>5, <1>6 DEF MSInv, Session

(***************************************************************************)
(* A packet from the host.                                                 *)
(***************************************************************************)
LEMMA IsrOutKeeps ==
  ASSUME MSInv, IsrOut
  PROVE  MSInv'
<1>1. /\ rx = Empty
      /\ UNCHANGED <<vars, pc, assembly, execution, reading, txq, tx1,
                     command, got>>
  BY DEF IsrOut
<1>2. /\ Total' = Total /\ AfterCommand' = AfterCommand
      /\ CommandOK' = CommandOK
      /\ \A p : CbwPacket(p)' = CbwPacket(p)
  BY <1>1, CommandKept
<1>3. NothingOverwritten' /\ BeginningInside' /\ CommandOK'
  BY <1>1, <1>2
     DEF MSInv, NothingOverwritten, BeginningInside, reading, vars, receive
<1>4. UNCHANGED <<cbw, cbw_progress, cbw_finished, index_write, cbw_tag,
                  should_read, is_writing, logical_block, write_page, count,
                  transfer_length_write, txq, tx1, command, got, pc>>
  BY <1>1 DEF assembly, execution, reading, vars, receive
<1>5. MSTypeOK' <=> /\ phase' \in {"idle", "command", "data_in", "data_out",
                                   "status"}
                    /\ rx' \in Packet \union {Empty}
                    /\ hostdisk' \in [HostBlock -> [Chunk -> Values \union {Unread}]]
  BY <1>1 DEF MSInv, MSTypeOK, TypeOK, vars, memory, writeBack, receive,
     assembly, execution, reading
<1>6. Quiet => Quiet'
  BY <1>4 DEF Quiet
<1>7. \A p : Assembled(p) => Assembled(p)'
  BY <1>1, AssemblyKept
<1>8. CASE phase = "command"
  <2>1. PICK p \in 0 .. 3 : Sending(p)
    BY <1>8, InCommand
  <2>2. CbwPacket(p) \in Packet /\ CbwPacket(p) # Empty
    BY <2>1, CbwIsPacket, PacketIsNotEmpty DEF Sending, MSInv
  <2>3. sent = p
    BY <1>1, <2>1, <2>2 DEF Sending
  <2>4. rx' = CbwPacket(p) /\ UNCHANGED hostdisk
    BY <1>8, <2>3 DEF IsrOut
  <2>5. CASE p < 3
    <3>1. sent' = p + 1 /\ phase' = "command"
      BY <1>8, <2>3, <2>5 DEF IsrOut, CbwPackets
    <3>2. Sending(p)'
      BY <1>2, <1>4, <1>6, <1>7, <2>1, <2>4, <2>5, <3>1 DEF Sending
    <3>3. MSTypeOK'
      BY <1>5, <2>2, <2>4, <3>1 DEF MSInv, MSTypeOK
    <3> QED
      BY <1>3, <3>2, <3>3 DEF MSInv, Session
  <2>6. CASE p = 3
    <3>1. sent' = 0 /\ phase' = AfterCommand
      <4>1. ~ (sent + 1 < CbwPackets)
        BY <2>3, <2>6 DEF CbwPackets
      <4>2. phase # "data_out"
        BY <1>8
      <4> QED
        BY <4>1, <4>2, Zenon DEF IsrOut, AfterCommand
    <3>2. Sending(p)'
      BY <1>2, <1>4, <1>6, <1>7, <2>1, <2>4, <2>6, <3>1 DEF Sending
    <3>3. MSTypeOK'
      BY <1>5, <2>2, <2>4, <3>1, PhaseAfterCommand DEF MSInv, MSTypeOK
    <3> QED
      BY <1>3, <3>2, <3>3 DEF MSInv, Session
  <2> QED
    BY <2>5, <2>6
<1>9. CASE phase = "data_out"
  <2>1. PICK v \in Values :
          /\ rx' = DataPacket(v)
          /\ hostdisk' =
               [hostdisk EXCEPT ![command.lba + sent \div ChunksPerBlock]
                                 [sent % ChunksPerBlock] = v]
    BY <1>9 DEF IsrOut, DataPacket
  <2>2. sent' = sent + 1
        /\ phase' = IF sent + 1 < Total THEN "data_out" ELSE "status"
    BY <1>9 DEF IsrOut, Total
  <2>3. rx' \in Packet /\ rx' # Empty
    BY <2>1, DataIsPacket, PacketIsNotEmpty
  <2>4. hostdisk' \in [HostBlock -> [Chunk -> Values \union {Unread}]]
    BY <2>1 DEF MSInv, MSTypeOK
  <2>5. MSTypeOK'
    BY <1>5, <2>2, <2>3, <2>4
  <2>6. ASSUME NEW n \in Nat, DataFrom(n) PROVE DataFrom(n)'
    <3>1. sent = n /\ n < Total
      BY <1>1, <1>9, <2>6, DataIsPacket, PacketIsNotEmpty DEF DataFrom
    <3>2. Total \in Nat
      BY BlockNotEmpty DEF Total, MSInv, MSTypeOK
    <3> QED
      BY <1>2, <2>1, <2>2, <3>1, <3>2 DEF DataFrom, DataPacket
  <2>7. Parsed \/ Writing
    <3>1. /\ ~ Idle /\ ~ Ignored /\ ~ Replying /\ ~ Reading /\ ~ Status
          /\ \A p \in 0 .. 3 : ~ Sending(p)
      <4>1. \A p \in 0 .. 3 : command.tag \in Tags => CbwPacket(p) # Empty
        BY CbwIsPacket, PacketIsNotEmpty DEF MSInv
      <4> QED
        BY <1>1, <1>9, <4>1 DEF Idle, Ignored, Replying, Reading, Status, Sending
    <3> QED
      BY <3>1 DEF MSInv, Session
  <2>8. CASE Parsed
    <3>1. command.op = WRITE
      BY <1>9, <2>8, PhaseAfterCommand DEF Parsed, MSInv
    <3>2. DataFrom(0)'
      BY <2>6, <2>8, <3>1 DEF Parsed
    <3>3. Parsed'
      BY <1>4, <1>6, <1>7, <2>8, <3>1, <3>2 DEF Parsed
    <3> QED
      BY <1>3, <2>5, <3>3 DEF MSInv, Session
  <2>9. CASE Writing
    <3> DEFINE n == write_page * ChunksPerBlock + count
    <3>1. n \in Nat /\ n' = n
      <4>1. /\ write_page \in Nat /\ count \in Nat
            /\ ChunksPerBlock \in Nat
        BY BlockNotEmpty, SizesAssumption DEF MSInv, MSTypeOK, TypeOK, Chunk
      <4> QED
        BY <1>4, <4>1
    <3>2. DataFrom(n)
      BY <2>9 DEF Writing
    <3>3. DataFrom(n)'
      <4> HIDE DEF n
      <4>1. PICK m \in Nat : m = n /\ m = n'
        BY <3>1
      <4>2. DataFrom(m)'
        BY <2>6, <3>2, <4>1
      <4> QED
        BY <4>1, <4>2 DEF DataFrom, DataPacket
    <3>4. Executed'
      BY <1>4, <2>9 DEF Executed, Writing
    <3>5. Writing'
      BY <1>4, <2>9, <3>3, <3>4 DEF Writing
    <3> QED
      BY <1>3, <2>5, <3>5 DEF MSInv, Session
  <2> QED
    BY <2>7, <2>8, <2>9
<1> QED
  BY <1>8, <1>9 DEF IsrOut

(***************************************************************************)
(* A chunk to the host.                                                    *)
(***************************************************************************)

(* The chunk c of block b is one of the n * k chunks of n blocks.          *)
LEMMA ChunkCount ==
  ASSUME NEW k \in Nat \ {0}, NEW n \in Nat, NEW b \in Nat, b < n,
         NEW c \in Nat, c < k
  PROVE  /\ n * k \in Nat /\ b * k + c \in Nat
         /\ b * k + c < n * k
         /\ c + 1 = k => b * k + c + 1 = (b + 1) * k
         /\ b + 1 < n => (b + 1) * k < n * k
<1>1. n * k \in Nat /\ b * k \in Nat /\ (b + 1) * k \in Nat
  OBVIOUS
<1>2. (b + 1) * k = b * k + k
  OBVIOUS
<1>3. \A m \in Nat : n = b + 1 + m => n * k = (b + 1) * k + m * k /\ m * k \in Nat
  OBVIOUS
<1>4. n - (b + 1) \in Nat /\ n = b + 1 + (n - (b + 1))
  OBVIOUS
<1>5. (b + 1) * k <= n * k
  BY <1>1, <1>3, <1>4
<1>6. b + 1 < n => (b + 1) * k < n * k
  <2> SUFFICES ASSUME b + 1 < n PROVE (b + 1) * k < n * k
    OBVIOUS
  <2> DEFINE m == n - (b + 1)
  <2>1. m * k >= k
    <3>1. m \in Nat \ {0}
      OBVIOUS
    <3> HIDE DEF m
    <3> QED
      BY <3>1
  <2>2. n * k = (b + 1) * k + m * k
    BY <1>3, <1>4
  <2>3. m * k \in Nat
    OBVIOUS
  <2> HIDE DEF m
  <2> QED
    BY <1>1, <2>1, <2>2, <2>3
<1> QED
  BY <1>1, <1>2, <1>5, <1>6

LEMMA ReplyFacts ==
  ASSUME command.op \in WithReply
  PROVE  /\ Reply(command.op)[1] \in {"data", "data_null"}
         /\ Reply(command.op)[2] \in {4, 8, 35, 36}
         /\ Wanted \in Nat /\ Reply(command.op)[2] <= Wanted
         /\ Reply(command.op)[2] = 8 => Wanted = 8
<1> USE DEF WithReply, INQUIRY, READ_CAPACITY, MODE_SENSE, READ,
            READ_FORMAT_CAPACITIES
<1>1. CASE command.op = INQUIRY
  <2>1. Reply(command.op) = <<"data", 36>>
    BY <1>1 DEF Reply
  <2>2. Wanted = 36
    BY <1>1 DEF Wanted
  <2> QED
    BY <2>1, <2>2
<1>2. CASE command.op = READ_CAPACITY
  <2>1. Reply(command.op) = <<"data", 8>>
    BY <1>2 DEF Reply
  <2>2. Wanted = 8
    BY <1>2 DEF Wanted
  <2> QED
    BY <2>1, <2>2
<1>3. CASE command.op = MODE_SENSE
  <2>1. Reply(command.op) = <<"data", 35>>
    BY <1>3 DEF Reply
  <2>2. Wanted = 192
    BY <1>3 DEF Wanted
  <2> QED
    BY <2>1, <2>2
<1>4. CASE command.op = READ_FORMAT_CAPACITIES
  <2>1. Reply(command.op) = <<"data_null", 4>>
    BY <1>4 DEF Reply
  <2>2. Wanted = 252
    BY <1>4 DEF Wanted
  <2> QED
    BY <2>1, <2>2
<1> QED
  BY <1>1, <1>2, <1>3, <1>4

LEMMA ReadFacts ==
  ASSUME command.op = READ PROVE Wanted = Total * 8
  BY DEF Wanted, Total, MaxChunk, READ, INQUIRY, READ_CAPACITY, MODE_SENSE,
     READ_FORMAT_CAPACITIES

LEMMA HandedInside ==
  ASSUME MSTypeOK, transfer_length \in 1 .. command.length,
         read_count < ChunksPerBlock
  PROVE  Handed \in Nat /\ Total \in Nat /\ Handed < Total
<1> DEFINE b == command.length - transfer_length
<1>1. /\ command.length \in Nat /\ b \in Nat /\ b < command.length
      /\ read_count \in Nat
  BY SizesAssumption DEF MSTypeOK
<1> HIDE DEF b
<1>2. LET h == b * ChunksPerBlock + read_count
      IN  h \in Nat /\ Total \in Nat /\ h < Total
  BY <1>1, BlockNotEmpty, ChunkCount DEF Total
<1> QED
  BY <1>2 DEF b, Handed

LEMMA IsrInKeeps ==
  ASSUME MSInv, IsrIn
  PROVE  MSInv'
<1> DEFINE total == got + tx1.len
<1>1. /\ rx = Empty /\ tx1 # Empty /\ tx1' = Empty
      /\ UNCHANGED <<vars, pc, assembly, execution, reading, txq, rx, command,
                     sent, hostdisk>>
  BY DEF IsrIn
<1>2. /\ Total' = Total /\ CommandOK' = CommandOK /\ Handed' = Handed
  BY <1>1, CommandKept DEF Handed, reading
<1>3. NothingOverwritten' /\ BeginningInside' /\ CommandOK'
  BY <1>1, <1>2
     DEF MSInv, NothingOverwritten, BeginningInside, reading, vars, receive
<1>4. UNCHANGED <<cbw_progress, cbw_finished, cbw_tag, csw, data, should_read,
                  read_count, transfer_length, transfer_length_beginning,
                  is_writing, logical_block, txq, rx, command>>
  BY <1>1 DEF assembly, execution, reading, vars, receive
<1>5. ASSUME phase' \in {"idle", "command", "data_in", "data_out", "status"}
      PROVE  MSTypeOK'
  BY <1>1, <1>5 DEF MSInv, MSTypeOK, TypeOK, vars, memory, writeBack, receive,
     assembly, execution, reading
<1>6. ASSUME Executed PROVE Executed'
  BY <1>4, <1>6 DEF Executed
<1>7. CASE Replying
  <2> DEFINE L == Reply(command.op)[2]
             buf == Reply(command.op)[1]
             rest == L - got
  <2>1. /\ L \in {4, 8, 35, 36} /\ Wanted \in Nat /\ L <= Wanted
        /\ L = 8 => Wanted = 8
    BY <1>7, ReplyFacts DEF Replying
  <2>2. got \in {0, 8, 16, 24, 32} /\ got < L /\ phase = "data_in"
    BY <1>7 DEF Replying
  <2>3. /\ tx1.len = IF rest > 8 THEN 8 ELSE rest
        /\ txq = IF rest > 8 THEN Two(Pkt(buf, L), Csw, got + 8)
                 ELSE One(Csw, 0)
    <3>1. tx1 = TxOf(buf, got, IF rest > 8 THEN 8 ELSE rest, tx1.body)
          /\ txq = IF rest > 8 THEN Two(Pkt(buf, L), Csw, got + 8)
                   ELSE One(Csw, 0)
      BY <1>1, <1>7 DEF Replying
    <3> HIDE DEF L, buf
    <3>2. TxOf(buf, got, IF rest > 8 THEN 8 ELSE rest, tx1.body).len
            = IF rest > 8 THEN 8 ELSE rest
      BY DEF TxOf
    <3> QED
      BY <3>1, <3>2
  <2>4. CASE rest > 8
    <3>1. total < Wanted /\ tx1.len = MaxChunk /\ total = got + 8
          /\ got + 8 < L /\ got + 8 \in {0, 8, 16, 24, 32}
      <4> HIDE DEF L
      <4> QED
        BY <2>1, <2>2, <2>3, <2>4 DEF MaxChunk
    <3>2. got' = got + 8 /\ phase' = phase
      BY <2>2, <3>1 DEF IsrIn
    <3>3. txq = Two(Pkt(buf, L), Csw, got + 8)
      BY <2>3, <2>4
    <3> HIDE DEF total
    <3>4. UNCHANGED <<Reply(command.op)[1], Reply(command.op)[2]>>
      BY <1>4 DEF Reply
    <3>5. Replying'
      BY <1>1, <1>4, <1>6, <1>7, <2>2, <3>1, <3>2, <3>3, <3>4 DEF Replying
    <3> QED
      BY <1>3, <1>5, <2>2, <3>2, <3>5 DEF MSInv, Session
  <2>5. CASE ~ (rest > 8)
    <3>1. ~ (total < Wanted /\ tx1.len = MaxChunk)
      <4> HIDE DEF L
      <4> QED
        BY <2>1, <2>2, <2>3, <2>5 DEF MaxChunk
    <3>2. got' = 0 /\ phase' = "status"
      BY <2>2, <3>1 DEF IsrIn
    <3>3. txq' = One(Csw, 0)
      BY <1>4, <2>3, <2>5
    <3>4. Status'
      BY <1>1, <1>4, <1>6, <1>7, <3>2, <3>3 DEF Replying, Status
    <3> QED
      BY <1>3, <1>5, <3>2, <3>4 DEF MSInv, Session
  <2> QED
    BY <2>4, <2>5
<1>8. CASE Reading
  <2>1. Wanted = Total * 8 /\ tx1.len = 8 /\ phase = "data_in"
    <3>1. tx1 = TxOf("sram", 0, 8, tx1.body)
      BY <1>1, <1>8 DEF Reading
    <3>2. tx1.len = 8
      BY <3>1 DEF TxOf
    <3> QED
      BY <1>8, <3>2, ReadFacts DEF Reading
  <2>2. CASE should_read
    <3>1. Handed \in Nat /\ Total \in Nat /\ Handed < Total
          /\ got = 8 * (Handed - 1)
      BY <1>1, <1>8, <2>2, HandedInside DEF Reading, MSInv
    <3>2. total < Wanted /\ tx1.len = MaxChunk /\ total = 8 * Handed
      BY <2>1, <3>1 DEF MaxChunk
    <3>3. got' = 8 * Handed /\ phase' = phase
      BY <2>1, <3>2 DEF IsrIn
    <3>4. Reading'
      BY <1>1, <1>2, <1>4, <1>6, <1>8, <2>2, <3>3 DEF Reading
    <3> QED
      BY <1>3, <1>5, <2>1, <3>3, <3>4 DEF MSInv, Session
  <2>3. CASE ~ should_read
    <3>1. Total \in Nat /\ got = 8 * (Total - 1)
      BY <1>8, <2>3, BlockNotEmpty DEF Reading, MSInv, MSTypeOK, Total
    <3>2. ~ (total < Wanted)
      BY <2>1, <3>1
    <3>3. got' = 0 /\ phase' = "status"
      BY <2>1, <3>2 DEF IsrIn
    <3>4. Status'
      BY <1>1, <1>4, <1>6, <1>8, <2>3, <3>3 DEF Reading, Status
    <3> QED
      BY <1>3, <1>5, <3>3, <3>4 DEF MSInv, Session
  <2> QED
    BY <2>2, <2>3
<1>9. CASE Status
  <2>1. CASE txq = One(Csw, 8) /\ tx1 = TxOf("csw", 0, 8, <<csw>>) /\ got = 0
    <3>1. tx1.len = 8
      BY <2>1 DEF TxOf
    <3>2. got' = 8 /\ phase' = "status"
      BY <1>9, <2>1, <3>1 DEF IsrIn, Status, CSW_LENGTH, MaxChunk
    <3>3. Status'
      BY <1>1, <1>4, <1>6, <1>9, <2>1, <3>2 DEF Status
    <3> QED
      BY <1>3, <1>5, <3>2, <3>3 DEF MSInv, Session
  <2>2. CASE txq = EmptyQueue /\ tx1 = TxOf("csw", 8, 5, tx1.body) /\ got = 8
    <3>1. tx1.len = 5
      BY <2>2 DEF TxOf
    <3>2. got' = 0 /\ phase' = "idle"
      BY <1>9, <2>2, <3>1 DEF IsrIn, Status, CSW_LENGTH, MaxChunk
    <3>3. Idle'
      BY <1>1, <1>4, <1>9, <2>2, <3>2
         DEF Status, Idle, Quiet, Executed, Assembled
    <3> QED
      BY <1>3, <1>5, <3>2, <3>3 DEF MSInv, Session
  <2> QED
    BY <1>1, <1>9, <2>1, <2>2 DEF Status
<1> QED
  BY <1>1, <1>7, <1>8, <1>9, HasChunk

(***************************************************************************)
(* The main loop: a chunk from the queue.                                  *)
(***************************************************************************)

LEMMA BytesTyped ==
  ASSUME MSTypeOK, NEW buf \in {"csw", "data", "data_null"}, NEW off \in Nat,
         NEW len \in 1 .. 8, buf = "data" => off = 0 \/ off >= 8
  PROVE  TxOf(buf, off, len, Bytes(buf, off)) \in TxChunk
<1> DEFINE B == {<<x>> : x \in Tags \union Values \union Writers
                                    \union {NoTag, "CSW_PASSED"}}
                  \union (Writers \X Writers)
<1>1. csw \in Tags \union {NoTag} /\ data.head \in Writers
      /\ data.mid \in Writers /\ data.tail \in Writers /\ "zero" \in Writers
  BY DEF MSTypeOK, Writers
<1>2. Bytes(buf, off) \in B
  <2>1. CASE buf = "csw" /\ off = 0
    <3>1. Bytes(buf, off) = <<csw>>
      BY <2>1 DEF Bytes
    <3> QED
      BY <1>1, <3>1
  <2>2. CASE buf = "csw" /\ off > 0
    <3>1. Bytes(buf, off) = <<"CSW_PASSED">>
      BY <2>2 DEF Bytes
    <3> QED
      BY <3>1
  <2>3. CASE buf = "data_null"
    <3>1. Bytes(buf, off) = <<"zero">>
      BY <2>3 DEF Bytes
    <3> QED
      BY <1>1, <3>1
  <2>4. CASE buf = "data" /\ off = 0
    <3>1. Bytes(buf, off) = <<data.head>>
      BY <2>4 DEF Bytes
    <3> QED
      BY <1>1, <3>1
  <2>5. CASE buf = "data" /\ off = 8
    <3>1. Bytes(buf, off) = <<data.mid, data.tail>>
      BY <2>5 DEF Bytes
    <3> QED
      BY <1>1, <3>1
  <2>6. CASE buf = "data" /\ off > 8
    <3>1. Bytes(buf, off) = <<data.tail>>
      BY <2>6 DEF Bytes
    <3> QED
      BY <1>1, <3>1
  <2> QED
    BY <2>1, <2>2, <2>3, <2>4, <2>5, <2>6
<1> DEFINE b == Bytes(buf, off)
<1> HIDE DEF B, b
<1>3. [buf |-> buf, off |-> off, len |-> len, body |-> b]
        \in [buf : {"csw", "data", "data_null", "sram"}, off : Nat,
             len : 1 .. MaxChunk, body : B]
  BY <1>2 DEF b, MaxChunk
<1> QED
  BY <1>3 DEF TxChunk, TxOf, B, b

LEMMA SendNextDataKeeps ==
  ASSUME MSInv, SendNextData
  PROVE  MSInv'
<1>1. /\ pc = "send" /\ pc' = IF tx1 = Empty THEN "read" ELSE "exec"
      /\ UNCHANGED <<vars, assembly, execution, reading, rx, host>>
  BY DEF SendNextData
<1>2. CommandOK' = CommandOK /\ Total' = Total /\ BeginningInside'
  BY <1>1, CommandKept DEF host, MSInv, BeginningInside, vars, receive
<1>3. ASSUME tx1' \in TxChunk \union {Empty} PROVE MSTypeOK'
  BY <1>1, <1>3 DEF MSInv, MSTypeOK, TypeOK, vars, memory, writeBack, receive,
     assembly, execution, reading, host
<1>4. CASE ~ (tx1 = Empty /\ HasPacket(txq))
  <2>1. UNCHANGED <<tx1, txq>>
    BY <1>4 DEF SendNextData
  <2>2. UNCHANGED Dialogue
    BY <1>1, <2>1 DEF Dialogue, host, vars
  <2>3. Session' /\ CommandOK' /\ BeginningInside'
    BY <1>1, <2>2, DialogueKept
  <2>4. NothingOverwritten'
    BY <1>1, <2>1 DEF NothingOverwritten
  <2> QED
    BY <1>3, <2>1, <2>3, <2>4 DEF MSInv, MSTypeOK
<1>5. CASE tx1 = Empty /\ HasPacket(txq)
  <2>1. LET chunk == NextChunk(txq)
        IN  /\ tx1' = [buf |-> chunk.buf, off |-> chunk.off,
                       len |-> chunk.len, body |-> Bytes(chunk.buf, chunk.off)]
            /\ txq' = Dequeue(txq)
    BY <1>5 DEF SendNextData
  <2>2. UNCHANGED <<cbw_progress, cbw_finished, cbw_tag, csw, data, should_read,
                    is_writing, rx, command, phase, got>>
    BY <1>1 DEF assembly, execution, reading, host, vars, receive
  <2>3. Executed => Executed'
    BY <2>2 DEF Executed
  <2>4. CASE Replying
    <3> DEFINE L == Reply(command.op)[2]
               buf == Reply(command.op)[1]
               len == IF L - got > 8 THEN 8 ELSE L - got
               body == Bytes(buf, got)
    <3>1. /\ L \in {4, 8, 35, 36} /\ buf \in {"data", "data_null"}
          /\ got \in {0, 8, 16, 24, 32} /\ got < L
          /\ txq = Two(Pkt(buf, L), Csw, got)
      <4>1. L \in {4, 8, 35, 36} /\ buf \in {"data", "data_null"}
        BY <2>4, ReplyFacts DEF Replying
      <4>2. got \in {0, 8, 16, 24, 32} /\ got < L
            /\ txq = Two(Pkt(buf, L), Csw, got)
        BY <1>5, <2>4 DEF Replying
      <4> QED
        BY <4>1, <4>2
    <3> HIDE DEF L, buf
    <3>2. /\ tx1' = TxOf(buf, got, len, body)
          /\ txq' = IF L - got > 8 THEN Two(Pkt(buf, L), Csw, got + 8)
                    ELSE One(Csw, 0)
      BY <2>1, <3>1, QueueOfTwo DEF TxOf
    <3>3. len \in 1 .. 8 /\ got \in Nat
      BY <3>1
    <3>4. tx1' \in TxChunk /\ tx1' # Empty
      BY <3>1, <3>2, <3>3, BytesTyped, PacketIsNotEmpty DEF MSInv
    <3>5. tx1'.body = body
      BY <3>2 DEF TxOf
    <3>6. got = 0 /\ buf = "data" => body = <<command.op>>
      BY <2>4 DEF Replying, buf, Bytes
    <3>7. UNCHANGED <<buf, L>>
      BY <2>2 DEF buf, L, Reply
    <3>8. /\ tx1' = TxOf(buf, got, IF L - got > 8 THEN 8 ELSE L - got, tx1'.body)
          /\ got = 0 /\ buf = "data" => tx1'.body = <<command.op>>
      BY <3>2, <3>5, <3>6
    <3> HIDE DEF len, body
    <3>9. Replying'
      BY <2>2, <2>3, <2>4, <3>2, <3>4, <3>7, <3>8 DEF Replying, L, buf
    <3>10. NothingOverwritten'
      BY <2>2, <2>4 DEF Replying, NothingOverwritten
    <3> QED
      BY <1>2, <1>3, <3>4, <3>9, <3>10 DEF MSInv, Session
  <2>5. CASE Status
    <3>1. NothingOverwritten'
      BY <2>2, <2>5 DEF Status, NothingOverwritten
    <3>2. PICK i \in {0, 8} : txq = One(Csw, i) /\ got = i
      BY <1>5, <2>5 DEF Status
    <3>3. Csw = Pkt("csw", 13)
      BY DEF Csw, CSW_LENGTH
    <3>4. /\ tx1' = TxOf("csw", i, IF 13 - i > 8 THEN 8 ELSE 13 - i,
                         Bytes("csw", i))
          /\ txq' = IF 13 - i > 8 THEN One(Csw, i + 8) ELSE EmptyQueue
      BY <2>1, <3>2, <3>3, QueueOfOne DEF TxOf
    <3>5. tx1' \in TxChunk /\ tx1' # Empty
      BY <3>4, BytesTyped, PacketIsNotEmpty DEF MSInv
    <3>6. Status'
      <4>1. CASE i = 0
        <5>1. /\ txq' = One(Csw, 8)
              /\ tx1' = TxOf("csw", 0, 8, <<csw>>)
          BY <3>4, <4>1 DEF Bytes
        <5> QED
          BY <2>2, <2>3, <2>5, <3>2, <3>5, <4>1, <5>1 DEF Status
      <4>2. CASE i = 8
        <5>1. /\ txq' = EmptyQueue
              /\ tx1' = TxOf("csw", 8, 5, Bytes("csw", 8))
          BY <3>4, <4>2
        <5>2. tx1' = TxOf("csw", 8, 5, tx1'.body)
          BY <5>1 DEF TxOf
        <5> QED
          BY <2>2, <2>3, <2>5, <3>2, <3>5, <4>2, <5>1, <5>2 DEF Status
      <4> QED
        BY <4>1, <4>2
    <3> QED
      BY <1>2, <1>3, <3>1, <3>5, <3>6 DEF MSInv, Session
  <2> QED
    BY <1>5, <2>4, <2>5, HasReply
<1> QED
  BY <1>4, <1>5

(***************************************************************************)
(* The main loop: a chunk of a READ.                                       *)
(***************************************************************************)
LEMMA SramChunkTyped ==
  ASSUME MSTypeOK, read_count < ChunksPerBlock
  PROVE  TxOf("sram", 0, 8, <<ram[ReadBlock][read_count]>>) \in TxChunk
<1>1. ReadBlock \in Block
  BY SizesAssumption DEF ReadBlock, Block, MSTypeOK, TypeOK
<1>2. read_count \in Chunk
  BY BlockNotEmpty DEF Chunk, MSTypeOK
<1> DEFINE v == ram[ReadBlock][read_count]
<1>3. v \in Values \union {Unread}
  BY <1>1, <1>2 DEF MSTypeOK, TypeOK, Image
<1> HIDE DEF v
<1>4. TxOf("sram", 0, 8, <<v>>) \in TxChunk
  BY <1>3 DEF TxOf, TxChunk, MaxChunk
<1> QED
  BY <1>4 DEF v

LEMMA ExecuteReadKeeps ==
  ASSUME MSInv, ExecuteRead
  PROVE  MSInv'
<1>1. /\ pc = "read" /\ pc' = "exec"
      /\ UNCHANGED <<vars, assembly, cbw_tag, data, rx, host>>
  BY DEF ExecuteRead
<1>2. CommandOK' = CommandOK /\ Total' = Total /\ BeginningInside'
  BY <1>1, CommandKept DEF host, MSInv, BeginningInside, vars, receive
<1>3. NothingOverwritten'
  BY <1>1 DEF NothingOverwritten
<1>4. CASE ~ should_read
  <2>1. UNCHANGED <<csw, txq, tx1, reading>>
    BY <1>4 DEF ExecuteRead
  <2>2. UNCHANGED Dialogue
    BY <1>1, <2>1 DEF Dialogue, host, vars, execution
  <2>3. Session' /\ CommandOK' /\ BeginningInside'
    BY <1>1, <2>2, DialogueKept
  <2>4. MSTypeOK'
    BY <1>1, <2>1 DEF MSInv, MSTypeOK, TypeOK, vars, memory, writeBack,
       receive, assembly, reading, host
  <2> QED
    BY <1>3, <2>3, <2>4 DEF MSInv
<1>5. CASE should_read
  <2> DEFINE body == <<ram[ReadBlock][read_count]>>
             b == command.length - transfer_length
  <2>1. /\ Reading /\ tx1 = Empty
        /\ transfer_length \in 1 .. command.length
        /\ read_count < ChunksPerBlock
        /\ transfer_length_beginning = command.length
        /\ txq = EmptyQueue
        /\ got = 8 * Handed
    BY <1>1, <1>5, IsReading DEF Reading, MSInv, NothingOverwritten
  <2>2. /\ tx1' = TxOf("sram", 0, 8, body)
        /\ UNCHANGED transfer_length_beginning
    BY <1>5 DEF ExecuteRead, TxOf, MaxChunk
  <2>3. tx1' \in TxChunk /\ tx1' # Empty
    BY <2>1, <2>2, SramChunkTyped, PacketIsNotEmpty DEF MSInv
  <2>4. tx1' = TxOf("sram", 0, 8, tx1'.body)
    BY <2>2 DEF TxOf
  <2>5. /\ command.length \in Nat /\ b \in Nat /\ b < command.length
        /\ transfer_length \in Nat /\ read_count \in Nat
        /\ Handed \in Nat /\ Total \in Nat /\ Handed < Total
        /\ ChunksPerBlock \in Nat \ {0}
    BY <2>1, HandedInside, BlockNotEmpty, SizesAssumption DEF MSInv, MSTypeOK
  <2>6. read_count + 1 = ChunksPerBlock => Handed + 1 = (b + 1) * ChunksPerBlock
    <3>1. Handed = b * ChunksPerBlock + read_count
      BY DEF Handed
    <3> HIDE DEF b
    <3> QED
      BY <2>1, <2>5, <3>1, ChunkCount
  <2>7. UNCHANGED <<cbw_progress, cbw_finished, cbw_tag, is_writing,
                    logical_block, rx, command, phase, got>>
    BY <1>1 DEF assembly, host, vars, receive
  <2>8. Executed'
    BY <2>1, <2>7 DEF Reading, Executed
  <2>9. ASSUME should_read' \in BOOLEAN, read_count' \in 0 .. ChunksPerBlock,
               transfer_length' \in 0 .. command.length,
               csw' \in Tags \union {NoTag}
        PROVE  MSTypeOK'
    BY <1>1, <2>1, <2>2, <2>3, <2>9
       DEF MSInv, MSTypeOK, TypeOK, vars, memory, writeBack, receive,
           assembly, host
  <2>10. CASE read_count + 1 < ChunksPerBlock
    <3>1. ~ (read_count + 1 = ChunksPerBlock)
      BY <2>5, <2>10
    <3>2. /\ read_count' = read_count + 1
          /\ UNCHANGED <<transfer_length, should_read, csw, txq>>
      BY <1>5, <3>1, Zenon DEF ExecuteRead
    <3>3. Handed' = Handed + 1
      <4>1. Handed = b * ChunksPerBlock + read_count
            /\ Handed' = b * ChunksPerBlock + read_count'
        BY <2>7, <3>2 DEF Handed
      <4>2. b * ChunksPerBlock \in Nat
        <5> HIDE DEF b
        <5> QED
          BY <2>5
      <4> HIDE DEF b
      <4> QED
        BY <2>5, <3>2, <4>1, <4>2
    <3>4. got = 8 * (Handed' - 1) /\ Handed' > 0
      BY <2>1, <2>5, <3>3
    <3>5. Reading'
      BY <1>5, <2>1, <2>3, <2>4, <2>7, <2>8, <2>10, <3>2, <3>4,
         <2>2 DEF Reading
    <3>6. MSTypeOK'
      BY <1>5, <2>1, <2>5, <2>9, <2>10, <3>2 DEF MSInv, MSTypeOK
    <3> QED
      BY <1>2, <1>3, <3>5, <3>6 DEF MSInv, Session
  <2>11. CASE ~ (read_count + 1 < ChunksPerBlock)
    <3>1. read_count + 1 = ChunksPerBlock
      BY <2>1, <2>5, <2>11
    <3>2. /\ transfer_length' = transfer_length - 1
          /\ IF LastReadBlock
               THEN /\ csw' = cbw_tag
                    /\ txq' = Enqueue(txq, "csw", CSW_LENGTH)
                    /\ should_read' = FALSE
                    /\ read_count' = read_count + 1
               ELSE /\ read_count' = 0
                    /\ UNCHANGED <<csw, txq, should_read>>
      BY <1>5, <2>11, Zenon DEF ExecuteRead
    <3>3. Handed + 1 = (b + 1) * ChunksPerBlock
      BY <2>6, <3>1
    <3>4. CASE LastReadBlock
      <4>1. b + 1 = command.length
        BY <2>5, <3>4 DEF LastReadBlock
      <4>2. Handed + 1 = Total
        BY <3>3, <4>1 DEF Total
      <4>3. got = 8 * (Total - 1)
        BY <2>1, <2>5, <4>2
      <4>4. csw' = command.tag /\ ~ should_read' /\ txq' = One(Csw, 0)
        BY <2>1, <3>2, <3>4, QueueOfNone DEF Reading, Executed, Csw
      <4>5. Reading'
        BY <1>2, <2>1, <2>2, <2>3, <2>4, <2>7, <2>8, <4>3, <4>4 DEF Reading
      <4>6. should_read' \in BOOLEAN
        BY <3>2, <3>4
      <4>7. MSTypeOK'
        <5>1. read_count' \in 0 .. ChunksPerBlock
          BY <2>5, <3>1, <3>2, <3>4
        <5>2. transfer_length' \in 0 .. command.length
          BY <2>1, <2>5, <3>2
        <5>3. csw' \in Tags \union {NoTag}
          BY <3>2, <3>4 DEF MSInv, MSTypeOK
        <5> QED
          BY <2>9, <4>6, <5>1, <5>2, <5>3
      <4> QED
        BY <1>2, <1>3, <4>5, <4>7 DEF MSInv, Session
    <3>5. CASE ~ LastReadBlock
      <4>1. transfer_length' \in 1 .. command.length /\ read_count' = 0
            /\ UNCHANGED <<csw, txq, should_read>>
        BY <2>1, <2>5, <3>2, <3>5 DEF LastReadBlock
      <4>2. Handed' = Handed + 1
        <5>1. command.length - transfer_length' = b + 1
          BY <2>5, <3>2
        <5>2. Handed' = (b + 1) * ChunksPerBlock + 0
          BY <2>7, <4>1, <5>1 DEF Handed
        <5> HIDE DEF b
        <5> QED
          BY <2>5, <3>3, <5>2
      <4>3. got = 8 * (Handed' - 1) /\ Handed' > 0
        BY <2>1, <2>5, <4>2
      <4>4. read_count' < ChunksPerBlock
        BY <2>5, <4>1
      <4>5. Reading'
        BY <1>5, <2>1, <2>2, <2>3, <2>4, <2>7, <2>8, <4>1, <4>3, <4>4
           DEF Reading
      <4>6. MSTypeOK'
        <5>1. read_count' \in 0 .. ChunksPerBlock
          BY <2>5, <4>1
        <5> QED
          BY <2>5, <2>9, <4>1, <5>1 DEF MSInv, MSTypeOK
      <4> QED
        BY <1>2, <1>3, <4>5, <4>6 DEF MSInv, Session
    <3> QED
      BY <3>4, <3>5
  <2> QED
    BY <2>10, <2>11
<1> QED
  BY <1>4, <1>5

(***************************************************************************)
(* The main loop: a command.                                               *)
(***************************************************************************)
LEMMA FilledTyped ==
  ASSUME MSTypeOK, NEW op \in AllCommands
  PROVE  /\ Filled(op) \in [head : Writers, mid : Writers, tail : Writers]
         /\ op \in WithReply /\ Reply(op)[1] = "data" => Filled(op).head = op
<1> USE DEF INQUIRY, READ_CAPACITY, MODE_SENSE, READ, READ_FORMAT_CAPACITIES
<1>1. op \in Writers /\ "zero" \in Writers
      /\ data \in [head : Writers, mid : Writers, tail : Writers]
  BY DEF MSTypeOK, Writers
<1>2. CASE op = INQUIRY
  <2>1. Filled(op) = [head |-> op, mid |-> op, tail |-> op]
    BY <1>2 DEF Filled
  <2> QED
    BY <1>1, <2>1
<1>3. CASE op = READ_CAPACITY
  <2>1. Filled(op) = [data EXCEPT !.head = op]
    BY <1>3 DEF Filled
  <2> QED
    BY <1>1, <2>1
<1>4. CASE op = MODE_SENSE
  <2>1. Filled(op) = [data EXCEPT !.head = op, !.mid = op]
    BY <1>4 DEF Filled
  <2> QED
    BY <1>1, <2>1
<1>5. CASE op = READ
  <2>1. Filled(op) = [data EXCEPT !.head = "zero"] /\ op \notin WithReply
    BY <1>5 DEF Filled, WithReply
  <2> QED
    BY <1>1, <2>1
<1>6. CASE op \notin {INQUIRY, READ_CAPACITY, MODE_SENSE, READ}
  <2>1. Filled(op) = data
    BY <1>6 DEF Filled
  <2>2. op \in WithReply => Reply(op) = <<"data_null", 4>>
    BY <1>6 DEF WithReply, Reply
  <2> QED
    BY <1>1, <2>1, <2>2
<1> QED
  BY <1>2, <1>3, <1>4, <1>5, <1>6

(* What execute_cbw finds in the block is the host's command.              *)
LEMMA ExecutesCommand ==
  ASSUME MSInv, ExecuteCbw, cbw_finished
  PROVE  /\ cbw_finished' = FALSE
         /\ cbw_tag' = command.tag
         /\ data' = Filled(command.op)
         /\ \/ AnswerWithData(command.op)
            \/ AnswerWithStatus(command.op)
            \/ StartRead(command.op, command.lba, command.length)
            \/ StartWrite(command.op, command.lba, command.length)
            \/ IgnoreCommand(command.op)
<1>1. /\ cbw[0] = CbwPacket(0).body /\ cbw[1] = CbwPacket(1).body
      /\ cbw[2] = CbwPacket(2).body
  BY IsParsed DEF Parsed, Assembled
<1>2. /\ CbwPacket(0).body = <<command.tag>>
      /\ CbwPacket(1).body = <<command.op>>
      /\ CbwPacket(2).body = <<command.lba, command.length>>
  BY DEF CbwPacket
<1>3. cbw[0][1] = command.tag /\ cbw[1][1] = command.op
      /\ cbw[2][1] = command.lba /\ cbw[2][2] = command.length
  BY <1>1, <1>2
<1> QED
  BY <1>3 DEF ExecuteCbw

LEMMA ExecuteCbwKeeps ==
  ASSUME MSInv, ExecuteCbw, SmallRequests
  PROVE  MSInv'
<1>1. /\ pc = "exec" /\ pc' = "store"
      /\ UNCHANGED <<cbw, cbw_progress, index_write, rx, tx1, host>>
  BY DEF ExecuteCbw
<1>2. /\ CommandOK' /\ Total' = Total /\ AfterCommand' = AfterCommand
  BY <1>1, CommandKept DEF host, MSInv
<1>3. NothingOverwritten'
  BY <1>1 DEF NothingOverwritten
<1>4. CASE ~ cbw_finished
  <2>1. UNCHANGED <<vars, cbw_finished, execution, reading, txq>>
    BY <1>4 DEF ExecuteCbw
  <2>2. UNCHANGED Dialogue
    BY <1>1, <2>1 DEF Dialogue, host, vars, assembly
  <2>3. Session' /\ CommandOK' /\ BeginningInside'
    BY <1>1, <1>4, <2>1, <2>2, DialogueKept
  <2>4. MSTypeOK'
    BY <1>1, <2>1 DEF MSInv, MSTypeOK, TypeOK, vars, memory, writeBack,
       receive, execution, reading, host
  <2> QED
    BY <1>3, <2>3, <2>4 DEF MSInv
<1>5. CASE cbw_finished
  <2> DEFINE op == command.op
  <2>1. Parsed
    BY <1>5, IsParsed
  <2>3. /\ cbw_finished' = FALSE
        /\ cbw_tag' = command.tag
        /\ data' = Filled(op)
        /\ \/ AnswerWithData(op)
           \/ AnswerWithStatus(op)
           \/ StartRead(op, command.lba, command.length)
           \/ StartWrite(op, command.lba, command.length)
           \/ IgnoreCommand(op)
    BY <1>5, ExecutesCommand
  <2>4. /\ op \in AllCommands /\ command.tag \in Tags
        /\ command.lba \in HostBlock /\ command.length \in 0 .. LastLba + 1
        /\ ~ cbw_progress
        /\ op \in {READ, WRITE} => command.length \in 1 .. LastLba + 1
    BY <2>1, SizesAssumption DEF Parsed, Assembled, MSInv, MSTypeOK, CommandOK
  <2>5. /\ data' \in [head : Writers, mid : Writers, tail : Writers]
        /\ op \in WithReply /\ Reply(op)[1] = "data" => data'.head = op
    BY <2>3, <2>4, FilledTyped DEF MSInv
  <2>6. Executed'
    BY <1>1, <2>3, <2>4 DEF Executed, host
  <2>7. /\ txq = EmptyQueue /\ tx1' = Empty /\ got' = 0 /\ ~ should_read
        /\ ~ is_writing /\ UNCHANGED <<rx, tx1, command, phase, sent, got>>
    BY <1>1, <2>1 DEF Parsed, Quiet, host
  <2>8. op # WRITE => rx' = Empty /\ phase' = AfterCommand
    BY <2>1, <2>7 DEF Parsed
  <2>9. ASSUME TypeOK', csw' \in Tags \union {NoTag}, should_read' \in BOOLEAN,
               read_count' \in 0 .. ChunksPerBlock,
               transfer_length_beginning' \in 0 .. LastLba + 1,
               transfer_length' \in 0 .. transfer_length_beginning'
        PROVE  MSTypeOK'
    BY <1>1, <2>3, <2>4, <2>5, <2>9 DEF MSInv, MSTypeOK, host
  <2>10. ASSUME UNCHANGED vars PROVE TypeOK' /\ BeginningInside' /\ ~ is_writing'
    BY <2>7, <2>10 DEF vars, memory, writeBack, receive, MSInv, MSTypeOK,
       TypeOK, BeginningInside
  <2>11. ASSUME UNCHANGED vars, UNCHANGED reading, csw' \in {csw, command.tag}
         PROVE  MSTypeOK' /\ BeginningInside' /\ ~ is_writing' /\ ~ should_read'
    <3>1. csw' \in Tags \union {NoTag}
      BY <2>4, <2>11 DEF MSInv, MSTypeOK
    <3>2. UNCHANGED <<should_read, read_count, transfer_length,
                      transfer_length_beginning>>
      BY <2>11 DEF reading
    <3>3. /\ should_read' \in BOOLEAN
          /\ read_count' \in 0 .. ChunksPerBlock
          /\ transfer_length_beginning' \in 0 .. LastLba + 1
          /\ transfer_length' \in 0 .. transfer_length_beginning'
      BY <3>2 DEF MSInv, MSTypeOK
    <3> QED
      BY <2>7, <2>9, <2>10, <2>11, <3>1, <3>2, <3>3
  <2>12. CASE AnswerWithData(op)
    <3>1. /\ op \in WithReply /\ csw' = command.tag
          /\ UNCHANGED <<vars, reading>>
          /\ txq' = Two(Pkt(Reply(op)[1], Reply(op)[2]), Csw, 0)
      BY <2>3, <2>7, <2>12, QueueOfNone DEF AnswerWithData, Csw
    <3>2. phase' = "data_in" /\ rx' = Empty
      <4>1. op # WRITE
        BY <3>1 DEF WithReply, WRITE, INQUIRY, READ_CAPACITY, MODE_SENSE,
           READ_FORMAT_CAPACITIES
      <4> QED
        BY <2>8, <3>1, <4>1, PhaseAfterCommand DEF MSInv
    <3>3. MSTypeOK' /\ BeginningInside' /\ ~ is_writing' /\ ~ should_read'
      BY <2>11, <3>1
    <3>4. 0 < Reply(op)[2]
      BY <3>1, ReplyFacts
    <3>5. Replying'
      BY <2>5, <2>6, <2>7, <3>1, <3>2, <3>3, <3>4 DEF Replying
    <3> QED
      BY <1>2, <1>3, <3>3, <3>5 DEF MSInv, Session
  <2>13. CASE AnswerWithStatus(op)
    <3>1. /\ op \in StatusOnly /\ csw' = command.tag
          /\ UNCHANGED <<vars, reading>>
          /\ txq' = One(Csw, 0)
      BY <2>3, <2>7, <2>13, QueueOfNone DEF AnswerWithStatus, Csw
    <3>2. phase' = "status" /\ rx' = Empty
      <4>1. op # WRITE
        BY <3>1 DEF StatusOnly, WRITE, TEST_UNIT_READY, PREVENT_REMOVAL,
           START_STOP_UNIT
      <4> QED
        BY <2>8, <3>1, <4>1, PhaseAfterCommand DEF MSInv
    <3>3. MSTypeOK' /\ BeginningInside' /\ ~ is_writing' /\ ~ should_read'
      BY <2>11, <3>1
    <3>4. Status'
      BY <2>6, <2>7, <3>1, <3>2, <3>3 DEF Status
    <3> QED
      BY <1>2, <1>3, <3>3, <3>4 DEF MSInv, Session
  <2>14. CASE StartRead(op, command.lba, command.length)
    <3>1. /\ op = READ /\ BeginRead(command.lba)
          /\ should_read' = TRUE /\ read_count' = 0
          /\ transfer_length' = command.length
          /\ transfer_length_beginning' = command.length
          /\ UNCHANGED <<csw, txq>>
      BY <2>14 DEF StartRead
    <3>2. phase' = "data_in" /\ rx' = Empty
      <4>1. op # WRITE
        BY <3>1 DEF READ, WRITE
      <4> QED
        BY <2>8, <3>1, <4>1, PhaseAfterCommand DEF MSInv
    <3>3. /\ TypeOK' /\ BeginningInside' /\ ~ is_writing'
          /\ logical_block' = command.lba
      BY <2>4, <3>1, BeginReadTyped DEF MSInv, MSTypeOK
    <3>4. should_read' /\ should_read' \in BOOLEAN
      BY <3>1
    <3>5. MSTypeOK'
      <4>1. /\ read_count' \in 0 .. ChunksPerBlock
            /\ csw' \in Tags \union {NoTag}
            /\ transfer_length_beginning' \in 0 .. LastLba + 1
            /\ transfer_length' \in 0 .. transfer_length_beginning'
        BY <2>4, <3>1, BlockNotEmpty DEF MSInv, MSTypeOK
      <4> QED
        BY <2>9, <3>3, <3>4, <4>1
    <3>6. Handed' = 0
      <4>1. Handed' = 0 * ChunksPerBlock + 0
        BY <2>4, <2>7, <3>1 DEF Handed
      <4> QED
        BY <4>1, BlockNotEmpty
    <3>7. /\ transfer_length' \in 1 .. command.length
          /\ read_count' < ChunksPerBlock
      BY <2>4, <3>1, BlockNotEmpty
    <3>8. Reading'
      BY <2>6, <2>7, <3>1, <3>2, <3>3, <3>4, <3>6, <3>7 DEF Reading
    <3> QED
      BY <1>2, <1>3, <3>3, <3>5, <3>8 DEF MSInv, Session
  <2>15. CASE StartWrite(op, command.lba, command.length)
    <3>1. /\ op = WRITE /\ BeginWrite(command.lba, command.length)
          /\ UNCHANGED <<csw, txq, reading>>
      BY <2>15 DEF StartWrite
    <3>2. /\ TypeOK' /\ BeginningInside'
          /\ is_writing' /\ write_page' = 0 /\ count' = 0
          /\ logical_block' = command.lba
          /\ transfer_length_write' = command.length
      BY <2>4, <3>1, BeginWriteTyped DEF MSInv, MSTypeOK
    <3>3. UNCHANGED <<should_read, read_count, transfer_length,
                      transfer_length_beginning>>
      BY <3>1 DEF reading
    <3>4. MSTypeOK'
      <4>1. /\ should_read' \in BOOLEAN
            /\ read_count' \in 0 .. ChunksPerBlock
            /\ csw' \in Tags \union {NoTag}
            /\ transfer_length_beginning' \in 0 .. LastLba + 1
            /\ transfer_length' \in 0 .. transfer_length_beginning'
        BY <3>1, <3>3 DEF MSInv, MSTypeOK
      <4> QED
        BY <2>9, <3>2, <4>1
    <3>5. DataFrom(0)'
      BY <2>1, <2>7, <3>1, DataKept DEF Parsed
    <3>6. DataFrom(write_page * ChunksPerBlock + count)'
      <4>1. (write_page * ChunksPerBlock + count)' = 0
        <5>1. (write_page * ChunksPerBlock + count)' = 0 * ChunksPerBlock + 0
          BY <3>2
        <5> QED
          BY <5>1, BlockNotEmpty
      <4> QED
        BY <3>5, <4>1 DEF DataFrom
    <3>7. Writing'
      BY <2>4, <2>6, <2>7, <3>1, <3>2, <3>3, <3>6 DEF Writing
    <3> QED
      BY <1>2, <1>3, <3>2, <3>4, <3>7 DEF MSInv, Session
  <2>16. CASE IgnoreCommand(op)
    <3>1. op = UNLISTED /\ UNCHANGED <<vars, csw, txq, reading>>
      BY <2>16 DEF IgnoreCommand
    <3>2. phase' = "status" /\ rx' = Empty
      <4>1. op # WRITE
        BY <3>1 DEF UNLISTED, WRITE
      <4> QED
        BY <2>8, <3>1, <4>1, PhaseAfterCommand DEF MSInv
    <3>3. MSTypeOK' /\ BeginningInside' /\ ~ is_writing' /\ ~ should_read'
      BY <2>11, <3>1
    <3>4. Ignored'
      BY <2>6, <2>7, <3>1, <3>2, <3>3 DEF Ignored, Quiet
    <3> QED
      BY <1>2, <1>3, <3>3, <3>4 DEF MSInv, Session
  <2> QED
    BY <2>3, <2>12, <2>13, <2>14, <2>15, <2>16
<1> QED
  BY <1>4, <1>5

(***************************************************************************)
(* The main loop: the packet that has been received.                       *)
(***************************************************************************)
LEMMA CbwOutKeeps ==
  ASSUME MSInv, Poll, rx # Empty, CbwOut
  PROVE  MSInv'
<1>1. /\ pc' = "send" /\ rx' = Empty /\ ~ is_writing
      /\ UNCHANGED <<vars, csw, txq, cbw_tag, data, reading, tx1, host>>
  BY DEF Poll, CbwOut
<1>2. PICK p \in 0 .. 3 : Sending(p) /\ rx = CbwPacket(p)
  BY HasReceived DEF Poll, Parsed, Writing, CbwOut
<1>3. /\ rx.kind = "cbw" /\ rx.part = p /\ rx.body = CbwPacket(p).body
      /\ command.tag \in Tags
  BY <1>2, CbwIsPacket DEF Sending, MSInv
<1>4. /\ CommandOK' /\ Total' = Total /\ AfterCommand' = AfterCommand
      /\ \A i : CbwPacket(i)' = CbwPacket(i)
  BY <1>1, CommandKept DEF host, MSInv
<1>5. NothingOverwritten' /\ BeginningInside'
  BY <1>1 DEF NothingOverwritten, BeginningInside, MSInv, vars, receive
<1>6. UNCHANGED <<txq, tx1, got, should_read, is_writing, phase, command, sent>>
  BY <1>1 DEF reading, vars, receive, host
<1>7. Quiet' /\ ~ cbw_finished
  BY <1>2, <1>6 DEF Sending, Quiet
<1>8. /\ DOMAIN cbw = 0 .. 3 /\ cbw_progress \in BOOLEAN
      /\ cbw_progress <=> p \in 1 .. 3
      /\ p # 0 => index_write = p
      /\ \A i \in 0 .. 3 : i < p => cbw[i] = CbwPacket(i).body
  BY <1>2 DEF MSInv, MSTypeOK, CbwPackets, Sending, Assembled
<1>9. ASSUME DOMAIN cbw' = 0 .. 3, cbw_progress' \in BOOLEAN,
             cbw_finished' \in BOOLEAN, index_write' \in 0 .. 4
      PROVE  MSTypeOK'
  BY <1>1, <1>9 DEF MSInv, MSTypeOK, TypeOK, vars, memory, writeBack, receive,
     reading, host, CbwPackets
<1>10. ASSUME cbw' = [cbw EXCEPT ![p] = rx.body]
       PROVE  /\ DOMAIN cbw' = 0 .. 3
              /\ \A i \in 0 .. 3 : i < p + 1 => cbw'[i] = CbwPacket(i).body
  BY <1>3, <1>8, <1>10
<1>11. CASE p < 3
  <2>1. /\ cbw' = [cbw EXCEPT ![p] = rx.body]
        /\ index_write' = p + 1 /\ cbw_progress' = TRUE
        /\ cbw_finished' = FALSE
    <3>1. CASE p = 0
      <4>1. ~ cbw_progress /\ rx.kind = "cbw" /\ rx.part = 0
        BY <1>3, <1>8, <3>1
      <4>2. /\ cbw' = [cbw EXCEPT ![0] = rx.body]
            /\ index_write' = 1 /\ cbw_progress' = TRUE
            /\ UNCHANGED cbw_finished
        BY <1>7, <4>1, Zenon DEF CbwOut
      <4> QED
        BY <1>7, <3>1, <4>2 DEF MSInv, MSTypeOK
    <3>2. CASE p \in 1 .. 2
      <4>1. cbw_progress /\ index_write = p
        BY <1>8, <3>2
      <4>2. /\ index_write < CbwPackets
            /\ ~ (index_write + 1 >= CbwPackets)
        BY <3>2, <4>1 DEF CbwPackets
      <4>3. /\ cbw' = [cbw EXCEPT ![index_write] = rx.body]
            /\ index_write' = index_write + 1
        BY <4>1, <4>2, Zenon DEF CbwOut
      <4>4. cbw_progress' = TRUE /\ cbw_finished' = FALSE
        <5> DEFINE last == index_write + 1 >= CbwPackets
        <5>1. /\ cbw_progress' = (cbw_progress /\ ~ last)
              /\ cbw_finished' = (cbw_finished \/ last)
          BY <4>1 DEF CbwOut
        <5>2. ~ last
          BY <4>2
        <5> HIDE DEF last
        <5>3. cbw_progress' = TRUE
          BY <4>1, <5>1, <5>2
        <5>4. cbw_finished' = FALSE
          BY <1>7, <5>1, <5>2
        <5> QED
          BY <5>3, <5>4
      <4> QED
        BY <4>1, <4>3, <4>4
    <3>3. p = 0 \/ p \in 1 .. 2
      BY <1>11
    <3> QED
      BY <3>1, <3>2, <3>3, Zenon
  <2>2. Assembled(p + 1)'
    BY <1>4, <1>10, <1>11, <2>1 DEF Assembled
  <2>3. phase = "command" /\ sent = p + 1
    BY <1>2, <1>3, <1>11, CbwIsPacket, PacketIsNotEmpty DEF Sending, Poll
  <2>4. Sending(p + 1)'
    BY <1>1, <1>3, <1>6, <1>7, <2>1, <2>2, <2>3 DEF Sending
  <2>5. MSTypeOK'
    <3>1. /\ cbw_progress' \in BOOLEAN /\ cbw_finished' \in BOOLEAN
      BY <2>1
    <3>2. index_write' \in 0 .. 4
      BY <1>11, <2>1
    <3> QED
      BY <1>9, <1>10, <2>1, <3>1, <3>2
  <2>6. p + 1 \in 0 .. 3
    BY <1>11
  <2> QED
    BY <1>4, <1>5, <2>4, <2>5, <2>6 DEF MSInv, Session
<1>12. CASE p = 3
  <2>1. cbw_progress /\ index_write = 3
    BY <1>8, <1>12
  <2>2. index_write < CbwPackets /\ index_write + 1 >= CbwPackets
    BY <2>1 DEF CbwPackets
  <2>3. /\ cbw' = [cbw EXCEPT ![3] = rx.body] /\ index_write' = 4
    <3>1. /\ cbw' = [cbw EXCEPT ![index_write] = rx.body]
          /\ index_write' = CbwPackets
      BY <2>1, <2>2, Zenon DEF CbwOut
    <3> QED
      BY <2>1, <3>1 DEF CbwPackets
  <2>4. cbw_progress' = FALSE /\ cbw_finished' = TRUE
    <3> DEFINE last == index_write + 1 >= CbwPackets
    <3>1. /\ cbw_progress' = (cbw_progress /\ ~ last)
          /\ cbw_finished' = (cbw_finished \/ last)
      BY <2>1 DEF CbwOut
    <3>2. last
      BY <2>2
    <3> HIDE DEF last
    <3>3. cbw_progress' = FALSE
      BY <3>1, <3>2
    <3>4. cbw_finished' = TRUE
      BY <3>1, <3>2
    <3> QED
      BY <3>3, <3>4
  <2>5. Assembled(4)'
    BY <1>4, <1>10, <1>12, <2>3, <2>4 DEF Assembled
  <2>6. phase = AfterCommand /\ sent = 0
    BY <1>2, <1>3, <1>12, CbwIsPacket, PacketIsNotEmpty DEF Sending, Poll
  <2>7. ASSUME command.op = WRITE PROVE DataFrom(0)'
    <3>1. command.length \in Nat \ {0}
      BY <2>7, SizesAssumption DEF MSInv, CommandOK, MSTypeOK
    <3>2. Total \in Nat /\ 0 < Total
      BY <3>1, BlockNotEmpty DEF Total
    <3>3. phase = "data_out"
      BY <2>6, <2>7, PhaseAfterCommand DEF MSInv
    <3> QED
      BY <1>1, <1>4, <1>6, <2>6, <3>2, <3>3 DEF DataFrom
  <2>8. Parsed'
    BY <1>1, <1>3, <1>4, <1>6, <1>7, <2>4, <2>5, <2>6, <2>7 DEF Parsed
  <2>9. MSTypeOK'
    <3>1. /\ cbw_progress' \in BOOLEAN /\ cbw_finished' \in BOOLEAN
      BY <2>4
    <3>2. index_write' \in 0 .. 4
      BY <2>3
    <3> QED
      BY <1>9, <1>10, <1>12, <2>3, <3>1, <3>2
  <2> QED
    BY <1>4, <1>5, <2>8, <2>9 DEF MSInv, Session
<1> QED
  BY <1>11, <1>12

LEMMA DataOutKeeps ==
  ASSUME MSInv, Poll, rx # Empty, DataOut, SmallRequests
  PROVE  MSInv'
<1> DEFINE n == write_page * ChunksPerBlock + count
<1>1. /\ pc' = "send" /\ rx' = Empty /\ is_writing
      /\ UNCHANGED <<assembly, cbw_tag, data, reading, tx1, host>>
  BY DEF Poll, DataOut, WriteOut
<1>2. Writing
  BY <1>1, IsWriting
<1>3. PICK v \in Values : rx = DataPacket(v) /\ sent = n + 1
  BY <1>2 DEF Writing, DataFrom, Poll
<1>4. WriteOut(v)
  BY <1>3 DEF DataOut, DataPacket
<1>5. /\ TypeOK' /\ BeginningInside'
      /\ UNCHANGED <<logical_block, transfer_length_write>>
  BY <1>4, WriteOutTyped DEF MSInv, MSTypeOK
<1>6. /\ CommandOK' /\ Total' = Total
  BY <1>1, CommandKept DEF host, MSInv
<1>7. NothingOverwritten'
  BY <1>1 DEF NothingOverwritten
<1>8. UNCHANGED <<tx1, got, should_read, phase, command, sent, cbw_tag,
                  cbw_progress, cbw_finished>>
  BY <1>1 DEF reading, host, assembly
<1>9. Executed'
  BY <1>2, <1>8 DEF Writing, Executed
<1>10. ASSUME csw' \in {csw, cbw_tag} PROVE MSTypeOK'
  BY <1>1, <1>5, <1>10 DEF MSInv, MSTypeOK, assembly, reading, host
<1>11. /\ write_page \in Nat /\ count \in Nat /\ count < ChunksPerBlock
       /\ ChunksPerBlock \in Nat \ {0}
       /\ command.length \in Nat /\ write_page < command.length
       /\ command.length < Uint8 /\ Uint8 \in Nat
       /\ logical_block = command.lba /\ transfer_length_write = command.length
       /\ txq = EmptyQueue /\ tx1 = Empty /\ got = 0 /\ ~ should_read
  BY <1>2, BlockNotEmpty, SizesAssumption
     DEF Writing, MSInv, MSTypeOK, TypeOK, Chunk, SmallRequests
<1>12. /\ n \in Nat /\ Total \in Nat
       /\ count + 1 = ChunksPerBlock
            => n + 1 = (write_page + 1) * ChunksPerBlock
  BY <1>11, ChunkCount DEF Total
<1>13. /\ phase = IF sent < Total THEN "data_out" ELSE "status"
       /\ sent <= Total
  BY <1>2, Zenon DEF Writing, DataFrom
<1>14. ASSUME n' = n + 1, is_writing',
              write_page' < command.length, UNCHANGED <<csw, txq>>
       PROVE  MSInv'
  <2>1. DataFrom(n)'
    <3> HIDE DEF n
    <3>1. PICK m \in Nat : m = n + 1
      BY <1>12
    <3>2. DataFrom(m)'
      <4>1. sent' = sent /\ phase' = phase /\ Total' = Total
        BY <1>6, <1>8
      <4>2. phase' = (IF sent' < Total' THEN "data_out" ELSE "status")
            /\ sent' <= Total'
        BY <1>13, <4>1, Zenon
      <4>3. rx' = Empty /\ sent' = m
        BY <1>1, <1>3, <3>1, <4>1
      <4> QED
        BY <4>2, <4>3, Zenon DEF DataFrom
    <3>3. n' = m
      BY <1>14, <3>1
    <3> QED
      BY <3>2, <3>3 DEF DataFrom, DataPacket
  <2>2. Executed' /\ command' = command
    BY <1>8, <1>9
  <2>3. txq' = EmptyQueue /\ tx1' = Empty /\ got' = 0 /\ ~ should_read'
    BY <1>8, <1>11, <1>14
  <2>4. /\ logical_block' = command'.lba
        /\ transfer_length_write' = command'.length
        /\ write_page' < command'.length
    BY <1>5, <1>11, <1>14, <2>2
  <2>5. Writing'
    BY <1>2, <1>14, <2>1, <2>2, <2>3, <2>4 DEF Writing
  <2> QED
    BY <1>5, <1>6, <1>7, <1>10, <1>14, <2>5 DEF MSInv, Session
<1>15. CASE count + 1 < ChunksPerBlock
  <2>1. ~ (count + 1 = ChunksPerBlock)
    BY <1>11, <1>15
  <2>2. count' = count + 1 /\ UNCHANGED <<is_writing, write_page>>
    BY <1>4, <2>1, Zenon DEF WriteOut
  <2>3. UNCHANGED <<csw, txq>>
    BY <2>1, Zenon DEF DataOut, CompletesWrite
  <2>4. (write_page * ChunksPerBlock + count)' = n + 1
    <3>1. (write_page * ChunksPerBlock + count)'
            = write_page * ChunksPerBlock + (count + 1)
      BY <2>2
    <3>2. write_page * ChunksPerBlock \in Nat
      BY <1>11
    <3> QED
      BY <1>11, <3>1, <3>2
  <2> QED
    BY <1>1, <1>11, <1>14, <2>2, <2>3, <2>4
<1>16. CASE ~ (count + 1 < ChunksPerBlock)
  <2>1. count + 1 = ChunksPerBlock /\ FinishBlock
    BY <1>4, <1>11, <1>16 DEF WriteOut
  <2>2. Received = write_page + 1
    <3>1. \A m \in Nat \ {0}, x \in Nat : x < m => x % m = x
      BY SMT
    <3> QED
      BY <1>11, <3>1 DEF Received
  <2>3. write_page' = write_page + 1 /\ count' = 0
    BY <2>1, <2>2 DEF FinishBlock
  <2>4. CASE LastBlock
    <3>1. ~ is_writing'
      BY <2>1, <2>4, Zenon DEF FinishBlock
    <3>2. csw' = cbw_tag /\ txq' = Enqueue(txq, "csw", CSW_LENGTH)
      BY <2>1, <2>4, Zenon DEF DataOut, CompletesWrite
    <3>3. txq' = One(Csw, 0)
      BY <1>11, <3>2, QueueOfNone DEF Csw
    <3>4. write_page + 1 = command.length
      BY <1>11, <2>2, <2>4 DEF LastBlock
    <3>5. sent = Total
      <4>1. (write_page + 1) * ChunksPerBlock = Total
        BY <3>4 DEF Total
      <4>2. n + 1 = (write_page + 1) * ChunksPerBlock
        BY <1>12, <2>1
      <4> HIDE DEF n
      <4> QED
        BY <1>3, <4>1, <4>2
    <3>6. phase' = "status"
      <4>1. ~ (sent < Total)
        BY <1>12, <3>5
      <4> QED
        BY <1>8, <1>13, <4>1, Zenon
    <3>7. csw' = command'.tag
      BY <1>2, <1>8, <3>2 DEF Writing, Executed
    <3>8. Status'
      BY <1>1, <1>8, <1>9, <1>11, <3>1, <3>3, <3>6, <3>7 DEF Status
    <3> QED
      BY <1>5, <1>6, <1>7, <1>10, <3>2, <3>8 DEF MSInv, Session
  <2>5. CASE ~ LastBlock
    <3>1. is_writing'
      BY <1>1, <2>1, <2>5, Zenon DEF FinishBlock
    <3>2. UNCHANGED <<csw, txq>>
      BY <2>5, Zenon DEF DataOut, CompletesWrite
    <3>3. write_page' < command.length
      BY <1>11, <2>2, <2>3, <2>5 DEF LastBlock
    <3>4. (write_page * ChunksPerBlock + count)' = n + 1
      <4>1. (write_page * ChunksPerBlock + count)'
              = (write_page + 1) * ChunksPerBlock + 0
        BY <2>3
      <4>2. (write_page + 1) * ChunksPerBlock \in Nat
        BY <1>11
      <4> QED
        BY <1>12, <2>1, <4>1, <4>2
    <3> QED
      BY <1>14, <3>1, <3>2, <3>3, <3>4
  <2> QED
    BY <2>4, <2>5
<1> QED
  BY <1>15, <1>16

LEMMA PollKeeps ==
  ASSUME MSInv, Poll, SmallRequests
  PROVE  MSInv'
<1>1. CASE rx = Empty
  <2>1. /\ pc' = "send"
        /\ UNCHANGED <<vars, assembly, csw, txq, rx, cbw_tag, data, reading,
                       tx1, host>>
    BY <1>1 DEF Poll
  <2>2. UNCHANGED Dialogue
    BY <2>1 DEF Dialogue, execution, host, vars
  <2>3. Session' /\ CommandOK' /\ BeginningInside'
    BY <2>1, <2>2, DialogueKept
  <2>4. MSTypeOK'
    BY <2>1 DEF MSInv, MSTypeOK, TypeOK, vars, memory, writeBack, receive,
       assembly, reading, host
  <2>5. NothingOverwritten'
    BY <2>1 DEF NothingOverwritten
  <2> QED
    BY <2>3, <2>4, <2>5 DEF MSInv
<1>2. CASE rx # Empty
  BY <1>2, CbwOutKeeps, DataOutKeeps DEF Poll
<1> QED
  BY <1>1, <1>2

-----------------------------------------------------------------------------
(***************************************************************************)
(* The invariant.                                                          *)
(***************************************************************************)

(* The values every variable of the protocol starts with.                  *)
AtStart ==
  /\ pc = "poll"
  /\ cbw = [part \in 0 .. CbwPackets - 1 |-> <<>>]
  /\ cbw_progress = FALSE /\ cbw_finished = FALSE /\ index_write = 0
  /\ cbw_tag = NoTag /\ csw = NoTag /\ data = ZeroData
  /\ should_read = FALSE /\ read_count = 0
  /\ transfer_length = 0 /\ transfer_length_beginning = 0
  /\ txq = EmptyQueue /\ rx = Empty /\ tx1 = Empty
  /\ phase = "idle" /\ command = NoCommand /\ sent = 0 /\ got = 0
  /\ hostdisk = [b \in HostBlock |-> ram[b % Blocks]]

LEMMA FreshDevice ==
  ASSUME TypeOK, BeginningInside, ~ is_writing, AtStart
  PROVE  MSInv
<1>1. MSTypeOK
  <2>1. \A b \in HostBlock : b % Blocks \in Block
    BY SizesAssumption DEF HostBlock, Block
  <2>2. hostdisk \in [HostBlock -> [Chunk -> Values \union {Unread}]]
    BY <2>1 DEF AtStart, TypeOK, Image
  <2>3. DOMAIN cbw = 0 .. CbwPackets - 1
    BY DEF AtStart
  <2>4. data \in [head : Writers, mid : Writers, tail : Writers]
    BY DEF AtStart, ZeroData, Writers
  <2>5. command \in [tag : Tags \union {NoTag}, op : AllCommands,
                     lba : HostBlock, length : 0 .. LastLba + 1]
    BY SizesAssumption DEF AtStart, NoCommand, AllCommands, HostBlock
  <2>6. /\ index_write \in 0 .. CbwPackets /\ read_count \in 0 .. ChunksPerBlock
        /\ transfer_length_beginning \in 0 .. LastLba + 1
        /\ transfer_length \in 0 .. transfer_length_beginning
    BY SizesAssumption, BlockNotEmpty DEF AtStart, CbwPackets
  <2>7. /\ cbw_progress \in BOOLEAN /\ cbw_finished \in BOOLEAN
        /\ should_read \in BOOLEAN
    BY DEF AtStart
  <2>8. /\ cbw_tag \in Tags \union {NoTag} /\ csw \in Tags \union {NoTag}
        /\ rx \in Packet \union {Empty} /\ tx1 \in TxChunk \union {Empty}
        /\ pc \in {"poll", "send", "read", "exec", "store"}
        /\ phase \in {"idle", "command", "data_in", "data_out", "status"}
    BY DEF AtStart
  <2> QED
    BY <2>2, <2>3, <2>4, <2>5, <2>6, <2>7, <2>8 DEF MSTypeOK
<1>2. CommandOK
  BY DEF AtStart, NoCommand, CommandOK, UNLISTED, READ, WRITE
<1>3. Assembled(0)
  BY DEF AtStart, Assembled
<1>4. Idle
  BY <1>3 DEF AtStart, Idle, Quiet
<1>5. NothingOverwritten
  BY DEF AtStart, NothingOverwritten
<1> QED
  BY <1>1, <1>2, <1>4, <1>5 DEF MSInv, Session

LEMMA MSInitInv == MSInit => MSInv
<1> SUFFICES ASSUME MSInit PROVE MSInv
  OBVIOUS
<1>1. TypeOK /\ BeginningInside /\ ~ is_writing
  BY StartsTyped DEF MSInit, Init
<1>2. AtStart
  BY DEF MSInit, AtStart
<1> QED
  BY <1>1, <1>2, FreshDevice

LEMMA RestartKeeps ==
  ASSUME MSInv, Restart
  PROVE  MSInv'
<1>1. PICK e \in Image : Boot(e)
  BY RestartTyped DEF Restart, MSInv, MSTypeOK
<1>2. TypeOK' /\ BeginningInside' /\ ~ is_writing'
  BY <1>1, BootTyped DEF Boot
<1>3. AtStart'
  BY DEF Restart, AtStart
<1> QED
  BY <1>2, <1>3, FreshDevice, PTL

LEMMA StutterKeeps ==
  ASSUME MSInv, UNCHANGED msVars
  PROVE  MSInv'
<1>1. UNCHANGED <<vars, pc, assembly, execution, reading, txq, rx, tx1, host>>
  BY DEF msVars
<1>2. UNCHANGED Dialogue
  BY <1>1 DEF Dialogue, host, vars
<1>3. Session' /\ CommandOK' /\ BeginningInside'
  <2>1. cbw_finished => pc' \in {"send", "read", "exec"}
    BY <1>1, IsParsed DEF Parsed
  <2> QED
    BY <1>2, <2>1, DialogueKept
<1>4. MSTypeOK'
  BY <1>1 DEF MSInv, MSTypeOK, TypeOK, vars, memory, writeBack, receive,
     assembly, execution, reading, host
<1>5. NothingOverwritten'
  BY <1>1 DEF MSInv, NothingOverwritten, reading
<1> QED
  BY <1>3, <1>4, <1>5 DEF MSInv

LEMMA MSStepInv ==
  ASSUME MSInv, [MSNext]_msVars, SmallRequests
  PROVE  MSInv'
<1>1. CASE Poll
  BY <1>1, PollKeeps
<1>2. CASE SendNextData
  BY <1>2, SendNextDataKeeps
<1>3. CASE ExecuteRead
  BY <1>3, ExecuteReadKeeps
<1>4. CASE ExecuteCbw
  BY <1>4, ExecuteCbwKeeps
<1>5. CASE Store \/ WriteCycleEnds
  BY <1>5, StoreKeeps
<1>6. CASE NewCommand
  BY <1>6, NewCommandKeeps
<1>7. CASE IsrOut
  BY <1>7, IsrOutKeeps
<1>8. CASE IsrIn
  BY <1>8, IsrInKeeps
<1>9. CASE Restart
  BY <1>9, RestartKeeps
<1>10. CASE UNCHANGED msVars
  BY <1>10, StutterKeeps
<1> QED
  BY <1>1, <1>2, <1>3, <1>4, <1>5, <1>6, <1>7, <1>8, <1>9, <1>10
     DEF MSNext, MainLoop

LEMMA MSSpecInv == ASSUME SmallRequests PROVE MSSpec => []MSInv
<1>1. MSInit => MSInv
  BY MSInitInv
<1>2. MSInv /\ [MSNext]_msVars => MSInv'
  BY MSStepInv
<1> QED
  BY <1>1, <1>2, PTL DEF MSSpec

-----------------------------------------------------------------------------
(***************************************************************************)
(* The theorems about the dialogue.                                        *)
(***************************************************************************)

(* Every variable of the device and of its host keeps to its type, in      *)
(* particular no EEPROM page or dirty bit outside the memory is touched,   *)
(* also when EEPROM transfers fail and the power comes and goes.           *)
THEOREM MSTypeCorrect ==
  ASSUME SmallRequests PROVE MSSpec => []MSTypeOK
<1>1. MSInv => MSTypeOK
  BY DEF MSInv
<1> QED
  BY <1>1, MSSpecInv, PTL

(* execute_read never overwrites the chunk that usb_send_next_data has put *)
(* into the endpoint under the same answer of usbInterruptIsReady.         *)
THEOREM ChunksSurvive ==
  ASSUME SmallRequests PROVE MSSpec => []NothingOverwritten
<1>1. MSInv => NothingOverwritten
  BY DEF MSInv
<1> QED
  BY <1>1, MSSpecInv, PTL

LEMMA QueueInside == MSInv => QueueBounded
<1> SUFFICES ASSUME MSInv PROVE QueueBounded
  OBVIOUS
<1>1. \/ txq = EmptyQueue
      \/ \E p, i : txq = One(p, i)
      \/ \E p, q, i : txq = Two(p, q, i)
  <2>1. Quiet => txq = EmptyQueue
    BY DEF Quiet
  <2>2. Replying => (\E p, i : txq = One(p, i)) \/ \E p, q, i : txq = Two(p, q, i)
    BY DEF Replying
  <2>3. Reading \/ Status => txq = EmptyQueue \/ \E p, i : txq = One(p, i)
    BY DEF Reading, Status
  <2> QED
    BY <2>1, <2>2, <2>3 DEF MSInv, Session, Idle, Sending, Parsed, Ignored,
       Writing
<1>2. Len(EmptyQueue.packets) = 0
  BY DEF EmptyQueue
<1>3. CASE txq = EmptyQueue
  BY <1>2, <1>3 DEF QueueBounded
<1>4. ASSUME NEW p, NEW i, txq = One(p, i) PROVE QueueBounded
  BY <1>4 DEF QueueBounded, One
<1>5. ASSUME NEW p, NEW q, NEW i, txq = Two(p, q, i) PROVE QueueBounded
  BY <1>5 DEF QueueBounded, Two
<1> QED
  BY <1>1, <1>3, <1>4, <1>5

(* The ring of usbdata.c, which has no test for being full, never holds    *)
(* more than a reply and its CSW.                                          *)
THEOREM QueueNeverFull ==
  ASSUME SmallRequests PROVE MSSpec => []QueueBounded
  BY QueueInside, MSSpecInv, PTL

LEMMA PacketsFit == MSInv => PacketsReachTheirParser
<1> SUFFICES ASSUME MSInv, pc = "poll", rx # Empty
             PROVE  /\ is_writing <=> rx.kind = "data"
                    /\ rx.kind = "cbw" =>
                         rx.part = IF cbw_progress THEN index_write ELSE 0
  BY DEF PacketsReachTheirParser
<1>1. CASE Writing
  <2>1. PICK v \in Values : rx = DataPacket(v)
    BY <1>1 DEF Writing, DataFrom
  <2>2. rx.kind = "data"
    BY <2>1 DEF DataPacket
  <2> QED
    BY <1>1, <2>2 DEF Writing
<1>2. ASSUME NEW p \in 0 .. 3, Sending(p), rx = CbwPacket(p)
      PROVE  /\ is_writing <=> rx.kind = "data"
             /\ rx.kind = "cbw" =>
                  rx.part = IF cbw_progress THEN index_write ELSE 0
  <2>1. rx.kind = "cbw" /\ rx.part = p
    BY <1>2, CbwIsPacket DEF Sending, MSInv
  <2>2. ~ is_writing
    BY <1>2 DEF Sending, Quiet
  <2>3. p = IF cbw_progress THEN index_write ELSE 0
    <3>1. CASE p = 0
      <4>1. ~ cbw_progress
        BY <1>2, <3>1 DEF Sending, Assembled
      <4> QED
        BY <3>1, <4>1
    <3>2. CASE p # 0
      <4>1. cbw_progress /\ index_write = p
        BY <1>2, <3>2 DEF Sending, Assembled
      <4> QED
        BY <4>1
    <3> QED
      BY <3>1, <3>2
  <2> QED
    BY <2>1, <2>2, <2>3
<1>3. ~ Parsed
  BY DEF Parsed
<1> QED
  BY <1>1, <1>2, <1>3, HasReceived

(* A packet of data finds is_writing set although it may arrive before     *)
(* execute_cbw has run, and the parts of a command block come one by one.  *)
THEOREM ParserFits ==
  ASSUME SmallRequests PROVE MSSpec => []PacketsReachTheirParser
  BY PacketsFit, MSSpecInv, PTL

LEMMA ChunkFacts ==
  ASSUME NEW b, NEW o, NEW l, NEW x
  PROVE  LET t == TxOf(b, o, l, x)
         IN  t.buf = b /\ t.off = o /\ t.len = l /\ t.body = x
  BY DEF TxOf

LEMMA CswFits == MSInv => CswAnswersCommand
<1> SUFFICES ASSUME MSInv, tx1 # Empty, tx1.buf = "csw"
             PROVE  /\ phase = "status"
                    /\ tx1.off = got
                    /\ tx1.off = 0 => tx1.body = <<command.tag>>
  BY DEF CswAnswersCommand
<1>1. ~ Replying
  <2> SUFFICES ASSUME Replying PROVE FALSE
    OBVIOUS
  <2>1. Reply(command.op)[1] \in {"data", "data_null"}
    BY ReplyFacts DEF Replying
  <2>2. tx1.buf = Reply(command.op)[1]
    BY ChunkFacts DEF Replying
  <2> QED
    BY <2>1, <2>2
<1>2. ~ Reading
  BY ChunkFacts DEF Reading
<1>3. Status
  BY <1>1, <1>2, HasChunk
<1>4. \/ got = 0 /\ tx1 = TxOf("csw", 0, 8, <<csw>>)
      \/ got = 8 /\ tx1 = TxOf("csw", 8, 5, tx1.body)
  BY <1>3 DEF Status
<1>5. \/ got = 0 /\ tx1.off = 0 /\ tx1.body = <<csw>>
      \/ got = 8 /\ tx1.off = 8
  BY <1>4, ChunkFacts
<1> QED
  BY <1>3, <1>5 DEF Status

(* Every CSW carries the tag of the command in progress, comes when the    *)
(* host waits for it, and in order.                                        *)
THEOREM CswAnswers ==
  ASSUME SmallRequests PROVE MSSpec => []CswAnswersCommand
  BY CswFits, MSSpecInv, PTL

LEMMA DataFits == MSInv => ReplyFitsCommand
<1> SUFFICES ASSUME MSInv, tx1 # Empty, tx1.buf # "csw"
             PROVE  /\ phase = "data_in"
                    /\ tx1.buf = "sram" <=> command.op = READ
                    /\ command.op # READ =>
                         /\ tx1.buf = Reply(command.op)[1]
                         /\ tx1.off = got
                         /\ tx1.off = 0 /\ tx1.buf = "data"
                              => tx1.body = <<command.op>>
  BY DEF ReplyFitsCommand
<1>1. ~ Status
  BY ChunkFacts DEF Status
<1>2. CASE Reading
  <2>1. tx1.buf = "sram"
    BY <1>2, ChunkFacts DEF Reading
  <2> QED
    BY <1>2, <2>1 DEF Reading, Executed
<1>3. CASE Replying
  <2>1. Reply(command.op)[1] \in {"data", "data_null"}
    BY <1>3, ReplyFacts DEF Replying
  <2>2. tx1.buf = Reply(command.op)[1] /\ tx1.off = got
        /\ (got = 0 /\ tx1.buf = "data" => tx1.body = <<command.op>>)
    BY <1>3, ChunkFacts DEF Replying
  <2>3. command.op # READ
    BY <1>3 DEF Replying, WithReply, READ, INQUIRY, READ_CAPACITY, MODE_SENSE,
       READ_FORMAT_CAPACITIES
  <2> QED
    BY <1>3, <2>1, <2>2, <2>3 DEF Replying
<1> QED
  BY <1>1, <1>2, <1>3, HasChunk

(* Every chunk of a reply is the next one of the data the command asks     *)
(* for.                                                                    *)
THEOREM RepliesFit ==
  ASSUME SmallRequests PROVE MSSpec => []ReplyFitsCommand
  BY DataFits, MSSpecInv, PTL

(* The bytes of the queues that occur.                                     *)
LEMMA QueuedBytes ==
  /\ txq = EmptyQueue => Queued = 0
  /\ \A i \in Nat : txq = One(Csw, i) => Queued = CSW_LENGTH - i
  /\ \A b : \A l \in Nat, i \in Nat :
       txq = Two(Pkt(b, l), Csw, i) => Queued = l - i + CSW_LENGTH
<1> USE DEF CSW_LENGTH
<1>1. txq = EmptyQueue => Queued = 0
  BY DEF Queued, EmptyQueue
<1>2. ASSUME NEW i \in Nat, txq = One(Csw, i) PROVE Queued = 13 - i
  <2>1. /\ txq.packets = <<Csw>> /\ txq.index = i
        /\ Csw.length = 13
    BY <1>2 DEF One, Csw, Pkt
  <2>2. txq.packets # <<>> /\ Len(txq.packets) = 1 /\ txq.packets[1] = Csw
    BY <2>1
  <2> QED
    BY <2>1, <2>2 DEF Queued
<1>3. ASSUME NEW b, NEW l \in Nat, NEW i \in Nat,
             txq = Two(Pkt(b, l), Csw, i)
      PROVE  Queued = l - i + 13
  <2>1. /\ txq.packets = <<Pkt(b, l), Csw>> /\ txq.index = i
        /\ Csw.length = 13 /\ Pkt(b, l).length = l
    BY <1>3 DEF Two, Csw, Pkt
  <2>2. /\ txq.packets # <<>> /\ Len(txq.packets) = 2
        /\ txq.packets[1] = Pkt(b, l) /\ txq.packets[2] = Csw
    BY <2>1
  <2> QED
    BY <2>1, <2>2 DEF Queued
<1> QED
  BY <1>1, <1>2, <1>3

(* What a READ in progress has under way: the chunks not yet handed over,  *)
(* and the CSW.                                                            *)
LEMMA ReadUnderWay ==
  ASSUME MSTypeOK, Reading, CommandOK
  PROVE  UnderWay = ReplySize - got + CSW_LENGTH
<1> USE DEF CSW_LENGTH, MaxChunk
<1>1. ReplySize = Total * 8
  BY DEF Reading, ReplySize, Total
<1>2. tx1 # Empty => tx1.len = 8
  BY DEF Reading, TxOf
<1>3. /\ command.length \in Nat /\ ChunksPerBlock \in Nat
      /\ Total \in Nat
  BY BlockNotEmpty, SizesAssumption DEF MSTypeOK, Total
<1>4. CASE should_read
  <2>1. /\ txq = EmptyQueue
        /\ transfer_length \in 1 .. command.length
        /\ read_count < ChunksPerBlock
        /\ got = IF tx1 = Empty THEN 8 * Handed ELSE 8 * (Handed - 1)
    BY <1>4 DEF Reading
  <2>2. Queued = 0
    BY <2>1, QueuedBytes
  <2>3. transfer_length * ChunksPerBlock - read_count = Total - Handed
    <3>1. read_count \in Nat /\ transfer_length \in Nat
      BY <1>3, <2>1 DEF MSTypeOK
    <3>2. (command.length - transfer_length) * ChunksPerBlock
            = command.length * ChunksPerBlock
                - transfer_length * ChunksPerBlock
      BY <1>3, <3>1
    <3>3. transfer_length * ChunksPerBlock \in Nat
      BY <1>3, <3>1
    <3> QED
      BY <1>3, <3>1, <3>2, <3>3 DEF Total, Handed
  <2>4. Handed \in Nat
    BY <2>1, HandedInside
  <2>5. UnderWay = (IF tx1 = Empty THEN 0 ELSE 8)
                     + (Total - Handed) * 8 + 13
    <3> DEFINE left == transfer_length * ChunksPerBlock - read_count
               chunk == IF tx1 = Empty THEN 0 ELSE 8
    <3>1. left = Total - Handed /\ Total - Handed \in Int /\ chunk \in Int
      BY <1>3, <2>3, <2>4
    <3>2. UnderWay = chunk + Queued + (left * MaxChunk + 13)
      BY <1>2, <1>4 DEF UnderWay
    <3> HIDE DEF left, chunk
    <3>3. UnderWay = chunk + (Total - Handed) * 8 + 13
      BY <2>2, <3>1, <3>2
    <3> QED
      BY <3>3 DEF chunk
  <2> QED
    BY <1>1, <1>3, <2>1, <2>4, <2>5
<1>5. CASE ~ should_read
  <2>1. txq = One(Csw, 0) /\ tx1 # Empty /\ got = 8 * (Total - 1)
    BY <1>5 DEF Reading
  <2>2. Queued = 13
    BY <2>1, QueuedBytes
  <2> QED
    BY <1>1, <1>2, <1>3, <1>5, <2>1, <2>2 DEF UnderWay
<1> QED
  BY <1>4, <1>5

(* What a reply in progress has under way, between any two of its chunks.  *)
LEMMA ReplyUnderWay ==
  ASSUME Replying
  PROVE  UnderWay = ReplySize - got + CSW_LENGTH
<1> USE DEF CSW_LENGTH
<1> DEFINE b == Reply(command.op)[1]
           l == Reply(command.op)[2]
<1>1. /\ ReplySize = l
      /\ l \in Nat /\ got \in Nat /\ got < l
      /\ ~ should_read
  BY ReplyFacts DEF Replying, ReplySize, READ, WithReply, INQUIRY,
     READ_CAPACITY, MODE_SENSE, READ_FORMAT_CAPACITIES
<1>2. \/ tx1 = Empty /\ txq = Two(Pkt(b, l), Csw, got)
      \/ /\ tx1 # Empty
         /\ tx1.len = IF l - got > 8 THEN 8 ELSE l - got
         /\ txq = IF l - got > 8 THEN Two(Pkt(b, l), Csw, got + 8)
                  ELSE One(Csw, 0)
  BY DEF Replying, TxOf
<1> HIDE DEF b, l
<1>3. CASE tx1 = Empty
  <2>1. Queued = l - got + 13
    BY <1>1, <1>2, <1>3, QueuedBytes
  <2> QED
    BY <1>1, <1>3, <2>1 DEF UnderWay
<1>4. CASE tx1 # Empty
  <2>1. Queued = IF l - got > 8 THEN l - (got + 8) + 13 ELSE 13
    BY <1>1, <1>2, <1>4, QueuedBytes
  <2> QED
    BY <1>1, <1>2, <1>4, <2>1 DEF UnderWay
<1> QED
  BY <1>3, <1>4

LEMMA StatusUnderWay ==
  ASSUME Status
  PROVE  UnderWay = CSW_LENGTH - got
<1> USE DEF CSW_LENGTH
<1>1. CASE tx1 = Empty
  <2>1. PICK i \in {0, 8} : txq = One(Csw, i) /\ got = i
    BY <1>1 DEF Status
  <2> QED
    BY <1>1, <2>1, QueuedBytes DEF Status, UnderWay
<1>2. CASE tx1 # Empty
  <2>1. \/ txq = One(Csw, 8) /\ got = 0 /\ tx1.len = 8
        \/ txq = EmptyQueue /\ got = 8 /\ tx1.len = 5
    BY <1>2 DEF Status, TxOf
  <2> QED
    BY <1>2, <2>1, QueuedBytes DEF Status, UnderWay
<1> QED
  BY <1>1, <1>2

LEMMA OwedUnderWay == MSInv => OwedInFull
<1> SUFFICES ASSUME MSInv, rx = Empty, ~ cbw_finished, command.op # UNLISTED
             PROVE  UnderWay = Owed
  BY DEF OwedInFull
<1>1. txq = EmptyQueue /\ tx1 = Empty /\ ~ should_read => UnderWay = 0
  BY QueuedBytes DEF UnderWay
<1>2. CASE Idle \/ \E p \in 0 .. 3 : Sending(p)
  <2>1. phase \in {"idle", "command"}
    <3>1. ASSUME NEW p \in 0 .. 3, Sending(p) PROVE phase = "command"
      <4>1. CbwPacket(p) # Empty
        BY <3>1, CbwIsPacket, PacketIsNotEmpty DEF Sending, MSInv
      <4> QED
        BY <3>1, <4>1 DEF Sending
    <3> QED
      BY <1>2, <3>1 DEF Idle
  <2>2. UnderWay = 0
    BY <1>1, <1>2 DEF Idle, Sending, Quiet
  <2> QED
    BY <2>1, <2>2 DEF Owed
<1>3. CASE Writing
  <2>1. phase = "data_out"
    <3> DEFINE n == write_page * ChunksPerBlock + count
    <3>1. DataFrom(n)
      BY <1>3 DEF Writing
    <3> HIDE DEF n
    <3>3. \A v \in Values : DataPacket(v) # Empty
      BY DataIsPacket, PacketIsNotEmpty
    <3>4. sent = n /\ phase = IF sent < Total THEN "data_out" ELSE "status"
      BY <3>1, <3>3 DEF DataFrom
    <3>2. n < Total
      <4>1. /\ command.length \in Nat /\ write_page \in Nat
            /\ write_page < command.length
            /\ count \in Nat /\ count < ChunksPerBlock
        BY <1>3, BlockNotEmpty, SizesAssumption
           DEF Writing, MSInv, MSTypeOK, TypeOK, Chunk
      <4> QED
        BY <4>1, BlockNotEmpty, ChunkCount DEF Total, n
    <3> QED
      BY <3>2, <3>4
  <2>2. UnderWay = 0
    BY <1>1, <1>3 DEF Writing
  <2> QED
    BY <2>1, <2>2 DEF Owed
<1>4. CASE Replying \/ Reading
  <2>1. phase = "data_in" /\ UnderWay = ReplySize - got + CSW_LENGTH
    BY <1>4, ReadUnderWay, ReplyUnderWay DEF MSInv, Replying, Reading
  <2> QED
    BY <2>1 DEF Owed
<1>5. CASE Status
  <2>1. phase = "status" /\ UnderWay = CSW_LENGTH - got
    BY <1>5, StatusUnderWay DEF Status
  <2> QED
    BY <2>1 DEF Owed
<1>6. ~ Parsed /\ ~ Ignored
  BY DEF Parsed, Ignored
<1> QED
  BY <1>2, <1>3, <1>4, <1>5, <1>6 DEF MSInv, Session

(* While the host waits, exactly the bytes it waits for are on their way,  *)
(* and between two commands none are.                                      *)
THEOREM NobodyWaitsInVain ==
  ASSUME SmallRequests PROVE MSSpec => []OwedInFull
  BY OwedUnderWay, MSSpecInv, PTL

LEMMA NothingQueued ==
  ASSUME txq = EmptyQueue PROVE DOMAIN txq.packets = {}
  BY DEF EmptyQueue

LEMMA BuffersKept ==
  ASSUME MSInv, [MSNext]_msVars
  PROVE  \A i \in DOMAIN txq.packets :
           \/ txq'.packets = <<>>
           \/ /\ txq.packets[i].buf = "csw" => csw' = csw
              /\ txq.packets[i].buf = "data" => data' = data
<1>1. ASSUME csw' = csw, data' = data
      PROVE  \A i \in DOMAIN txq.packets :
               \/ txq'.packets = <<>>
               \/ /\ txq.packets[i].buf = "csw" => csw' = csw
                  /\ txq.packets[i].buf = "data" => data' = data
  BY <1>1
<1>2. CASE Poll
  <2>1. CASE is_writing
    BY <2>1, IsWriting, NothingQueued DEF Writing
  <2>2. CASE ~ is_writing
    BY <1>1, <1>2, <2>2 DEF Poll, CbwOut, DataOut, WriteOut
  <2> QED
    BY <2>1, <2>2
<1>3. CASE SendNextData
  BY <1>1, <1>3 DEF SendNextData, execution
<1>4. CASE ExecuteRead
  <2>1. CASE should_read
    <3>1. Reading
      BY <2>1, IsReading
    <3> QED
      BY <2>1, <3>1, NothingQueued DEF Reading
  <2>2. CASE ~ should_read
    BY <1>1, <1>4, <2>2 DEF ExecuteRead
  <2> QED
    BY <2>1, <2>2
<1>5. CASE ExecuteCbw
  <2>1. CASE cbw_finished
    BY <2>1, IsParsed, NothingQueued DEF Parsed, Quiet
  <2>2. CASE ~ cbw_finished
    BY <1>1, <1>5, <2>2 DEF ExecuteCbw, execution
  <2> QED
    BY <2>1, <2>2
<1>6. CASE Store \/ WriteCycleEnds
  BY <1>1, <1>6 DEF Store, WriteCycleEnds, execution
<1>7. CASE NewCommand \/ IsrOut \/ IsrIn
  BY <1>1, <1>7 DEF NewCommand, IsrOut, IsrIn, execution
<1>8. CASE Restart
  BY <1>8 DEF Restart, EmptyQueue
<1>9. CASE UNCHANGED msVars
  BY <1>1, <1>9 DEF msVars, execution
<1> QED
  BY <1>2, <1>3, <1>4, <1>5, <1>6, <1>7, <1>8, <1>9 DEF MSNext, MainLoop

(* No command writes to a static buffer of commands.c while its address is *)
(* in the queue of usbdata.c.                                              *)
THEOREM BuffersUntouched ==
  ASSUME SmallRequests PROVE MSSpec => BuffersStable
<1>1. MSInv /\ [MSNext]_msVars
        => [\A i \in DOMAIN txq.packets :
              \/ txq'.packets = <<>>
              \/ /\ txq.packets[i].buf = "csw" => csw' = csw
                 /\ txq.packets[i].buf = "data" => data' = data]_msVars
  BY BuffersKept
<1> QED
  BY <1>1, MSSpecInv, PTL DEF MSSpec, BuffersStable

-----------------------------------------------------------------------------
(***************************************************************************)
(* The device does to its storage what Storage allows: the requests of the *)
(* protocol are requests of Storage, and the rest leaves it alone.         *)
(***************************************************************************)

LEMMA PollStores ==
  ASSUME MSInv, Poll
  PROVE  [Next]_vars
<1>1. CASE rx = Empty
  BY <1>1 DEF Poll
<1>2. CASE rx # Empty /\ ~ is_writing
  BY <1>2 DEF Poll, CbwOut, DataOut, WriteOut
<1>3. CASE rx # Empty /\ is_writing
  <2>1. PICK v \in Values : rx = DataPacket(v)
    BY <1>3, IsWriting DEF Writing, DataFrom
  <2>2. WriteOut(v)
    BY <1>3, <2>1 DEF Poll, CbwOut, DataOut, DataPacket
  <2> QED
    BY <2>2 DEF Next, HostStep
<1> QED
  BY <1>1, <1>2, <1>3

LEMMA ExecuteCbwRequests ==
  ASSUME MSInv, ExecuteCbw
  PROVE  [Next]_vars
<1>1. CASE ~ cbw_finished
  BY <1>1 DEF ExecuteCbw
<1>2. CASE cbw_finished
  <2> DEFINE r == <<command.lba, command.length>>
  <2>1. \/ UNCHANGED vars
        \/ /\ command.op = READ
           /\ BeginRead(command.lba)
        \/ /\ command.op = WRITE
           /\ BeginWrite(command.lba, command.length)
    BY <1>2, ExecutesCommand DEF AnswerWithData, AnswerWithStatus, StartRead,
       StartWrite, IgnoreCommand
  <2>2. command.op \in {READ, WRITE} => r \in Request
    <3> SUFFICES ASSUME command.op \in {READ, WRITE} PROVE r \in Request
      OBVIOUS
    <3>1. /\ command.lba \in 0 .. LastLba
          /\ command.length \in 1 .. LastLba + 1
          /\ command.lba + command.length <= LastLba + 1
      BY DEF MSInv, CommandOK, MSTypeOK, HostBlock
    <3> QED
      BY <3>1 DEF Request
  <2>3. r[1] = command.lba /\ r[2] = command.length
    OBVIOUS
  <2> HIDE DEF r
  <2> QED
    BY <2>1, <2>2, <2>3 DEF Next, HostStep
<1> QED
  BY <1>1, <1>2

LEMMA StorageStep ==
  ASSUME MSInv, [MSNext]_msVars
  PROVE  [Next]_vars
<1>1. CASE Poll
  BY <1>1, PollStores
<1>2. CASE ExecuteCbw
  BY <1>2, ExecuteCbwRequests
<1>3. CASE SendNextData \/ ExecuteRead
  BY <1>3 DEF SendNextData, ExecuteRead
<1>4. CASE Store \/ WriteCycleEnds
  BY <1>4 DEF Store, WriteCycleEnds, Next
<1>5. CASE NewCommand \/ IsrOut \/ IsrIn
  BY <1>5 DEF NewCommand, IsrOut, IsrIn
<1>6. CASE Restart
  BY <1>6 DEF Restart, Next
<1>7. CASE UNCHANGED msVars
  BY <1>7 DEF msVars
<1> QED
  BY <1>1, <1>2, <1>3, <1>4, <1>5, <1>6, <1>7 DEF MSNext, MainLoop

(* The device with its protocol implements the storage with its requests.  *)
THEOREM StorageImplemented ==
  ASSUME SmallRequests PROVE MSSpec => ImplementsStorage
<1>1. MSInit => Init
  BY DEF MSInit
<1>2. MSInv /\ [MSNext]_msVars => [Next]_vars
  BY StorageStep
<1> QED
  BY <1>1, <1>2, MSSpecInv, PTL DEF MSSpec, ImplementsStorage, Spec

LEMMA CompliantIsSmall == CompliantHost => SmallRequests
  BY SizesAssumption DEF CompliantHost, SmallRequests

(* So the whole device keeps the promise of BlockStore, for a host that    *)
(* addresses the blocks it has and an EEPROM that does not fail.           *)
THEOREM DeviceKeepsPromise ==
  ASSUME CompliantHost, NoTwiError PROVE MSSpec => KeepsPromise
<1>1. MSSpec => Spec
  BY CompliantIsSmall, StorageImplemented DEF ImplementsStorage
<1> QED
  BY <1>1, StorageKeepsPromise

(* In the whole device too the EEPROM gets only what the host has sent,    *)
(* whatever was not read at start-up.                                      *)
THEOREM DeviceStoresHostData ==
  ASSUME CompliantHost PROVE MSSpec => []UnreadNeverStored
<1>1. MSSpec => Spec
  BY CompliantIsSmall, StorageImplemented DEF ImplementsStorage
<1> QED
  BY <1>1, OnlyHostDataStored

(* And a failing transfer costs no chunk but those of its own page.        *)
THEOREM DeviceFailuresStayLocal ==
  ASSUME CompliantHost PROVE MSSpec => DamageStaysLocal
<1>1. MSSpec => Spec
  BY CompliantIsSmall, StorageImplemented DEF ImplementsStorage
<1> QED
  BY <1>1, FailuresStayLocal

(* And whatever the host does, a block it writes adds only its own pages   *)
(* to what the write-back has left.                                        *)
THEOREM DeviceWriteBackIsBounded ==
  ASSUME CompliantHost PROVE MSSpec => WriteBackRunsDown
<1>1. MSSpec => Spec
  BY CompliantIsSmall, StorageImplemented DEF ImplementsStorage
<1> QED
  BY <1>1, WriteBackIsBounded

-----------------------------------------------------------------------------
(***************************************************************************)
(* The contents of the disk.                                               *)
(***************************************************************************)

(* The packet in the endpoint buffer is data that the host has written to  *)
(* chunk c of block b.                                                     *)
InBuffer(b, c) == /\ rx # Empty /\ rx.kind = "data"
                  /\ b = command.lba + (sent - 1) \div ChunksPerBlock
                  /\ c = (sent - 1) % ChunksPerBlock

(* The SRAM holds what the host wrote, but for that packet.                *)
DiskSeen ==
  \A b \in HostBlock, c \in Chunk :
    hostdisk[b][c] = IF InBuffer(b, c) THEN rx.body[1] ELSE ram[b][c]

LEMMA DiskKept ==
  ASSUME DiskSeen, UNCHANGED <<hostdisk, ram, rx, command, sent>>
  PROVE  DiskSeen'
  BY DEF DiskSeen, InBuffer

LEMMA NothingInBuffer ==
  ASSUME rx = Empty \/ rx.kind = "cbw"
  PROVE  /\ \A b, c : ~ InBuffer(b, c)
         /\ DiskSeen <=> \A b \in HostBlock, c \in Chunk :
                           hostdisk[b][c] = ram[b][c]
<1>1. \A b, c : ~ InBuffer(b, c)
  BY DEF InBuffer
<1> QED
  BY <1>1, Zenon DEF DiskSeen

LEMMA BlocksInside ==
  ASSUME CompliantHost, NEW b \in HostBlock
  PROVE  b \in Block /\ b % Blocks = b
<1>1. \A n \in Nat \ {0}, x \in Nat : x < n => x % n = x
  BY SMT
<1> QED
  BY <1>1, SizesAssumption DEF CompliantHost, HostBlock, Block

(* What the host sends goes to its own disk first.                         *)
LEMMA IsrOutDisk ==
  ASSUME MSInv, DiskSeen, IsrOut
  PROVE  DiskSeen'
<1>1. rx = Empty /\ UNCHANGED <<vars, command>>
  BY DEF IsrOut
<1>2. ram' = ram
  BY <1>1 DEF vars, memory
<1>3. \A b \in HostBlock, c \in Chunk : hostdisk[b][c] = ram[b][c]
  BY <1>1, NothingInBuffer
<1>4. CASE phase = "command"
  <2>1. hostdisk' = hostdisk /\ rx' = CbwPacket(sent)
    BY <1>4 DEF IsrOut
  <2>2. rx'.kind = "cbw"
    BY <2>1 DEF CbwPacket
  <2>3. \A b, c : ~ InBuffer(b, c)'
    BY <2>2 DEF InBuffer
  <2> QED
    BY <1>2, <1>3, <2>1, <2>3 DEF DiskSeen
<1>5. CASE phase # "command"
  <2> DEFINE b0 == command.lba + sent \div ChunksPerBlock
             c0 == sent % ChunksPerBlock
  <2>1. PICK v \in Values :
          /\ rx' = DataPacket(v)
          /\ hostdisk' = [hostdisk EXCEPT ![b0][c0] = v]
    BY <1>5 DEF IsrOut, DataPacket
  <2>2. sent' = sent + 1
    BY <1>5 DEF IsrOut
  <2>3. sent \in Nat
    <3>1. phase = "data_out"
      BY <1>5 DEF IsrOut
    <3>2. Parsed \/ Writing
      <4>1. \A p \in 0 .. 3 : ~ Sending(p)
        BY <1>1, <3>1, CbwIsPacket, PacketIsNotEmpty DEF Sending, MSInv
      <4> QED
        BY <3>1, <4>1 DEF MSInv, Session, Idle, Ignored, Replying, Reading,
           Status
    <3>3. CASE Parsed
      <4>1. command.op = WRITE
        BY <3>1, <3>3, PhaseAfterCommand DEF Parsed, MSInv, MSTypeOK,
           AllCommands
      <4> QED
        BY <1>1, <3>3, <4>1 DEF Parsed, DataFrom
    <3>4. CASE Writing
      <4>1. sent = write_page * ChunksPerBlock + count
        BY <1>1, <3>4, DataIsPacket, PacketIsNotEmpty, Zenon
           DEF Writing, DataFrom
      <4>2. write_page * ChunksPerBlock \in Nat /\ count \in Nat
        BY BlockNotEmpty, SizesAssumption DEF MSInv, MSTypeOK, TypeOK, Chunk
      <4> QED
        BY <4>1, <4>2
    <3> QED
      BY <3>2, <3>3, <3>4
  <2>4. sent' - 1 = sent
    BY <2>2, <2>3
  <2>5. rx' # Empty /\ rx'.kind = "data" /\ rx'.body[1] = v
    BY <2>1, DataIsPacket, PacketIsNotEmpty DEF DataPacket
  <2>6. \A b, c : InBuffer(b, c)' <=> b = b0 /\ c = c0
    BY <1>1, <2>4, <2>5 DEF InBuffer
  <2> HIDE DEF b0, c0
  <2>7. \A b \in HostBlock, c \in Chunk :
          hostdisk'[b][c] = IF b = b0 /\ c = c0 THEN v ELSE hostdisk[b][c]
    BY <2>1 DEF MSInv, MSTypeOK
  <2> QED
    BY <1>2, <1>3, <2>5, <2>6, <2>7 DEF DiskSeen
<1> QED
  BY <1>4, <1>5

(* A packet of data goes to the SRAM where it went on the host's disk.     *)
LEMMA PollDisk ==
  ASSUME CompliantHost, MSInv, DiskSeen, Poll
  PROVE  DiskSeen'
<1>1. rx = Empty \/ rx' = Empty
  BY DEF Poll
<1>2. hostdisk' = hostdisk /\ command' = command /\ sent' = sent
  BY DEF Poll, host
<1>3. CASE rx = Empty
  <2>1. rx' = rx /\ ram' = ram
    BY <1>3 DEF Poll, vars, memory
  <2> QED
    BY <1>2, <2>1, DiskKept
<1>4. ASSUME rx # Empty PROVE \A b, c : ~ InBuffer(b, c)'
  BY <1>1, <1>4 DEF InBuffer
<1>5. CASE rx # Empty /\ ~ is_writing
  <2>1. ram' = ram
    BY <1>5 DEF Poll, CbwOut, DataOut, WriteOut, vars, memory
  <2>2. ~ Parsed /\ ~ Writing
    BY <1>5 DEF Poll, Parsed, Writing
  <2>3. PICK p \in 0 .. 3 : Sending(p) /\ rx = CbwPacket(p)
    BY <1>5, <2>2, HasReceived
  <2>4. rx.kind = "cbw"
    BY <2>3 DEF CbwPacket
  <2>5. \A b \in HostBlock, c \in Chunk : hostdisk[b][c] = ram[b][c]
    BY <2>4, NothingInBuffer
  <2> QED
    BY <1>2, <1>4, <1>5, <2>1, <2>5 DEF DiskSeen
<1>6. CASE rx # Empty /\ is_writing
  <2> DEFINE b0 == command.lba + write_page
  <2>1. Writing
    BY <1>6, IsWriting
  <2>2. PICK v \in Values :
          rx = DataPacket(v) /\ sent = write_page * ChunksPerBlock + count + 1
    BY <1>6, <2>1 DEF Writing, DataFrom
  <2>3. WriteOut(v)
    BY <1>6, <2>2 DEF Poll, CbwOut, DataOut, DataPacket
  <2>4. ram' = [ram EXCEPT ![CurrentBlock][count] = v]
    BY <2>3 DEF WriteOut
  <2>5. /\ write_page \in Nat /\ count \in Chunk
        /\ b0 \in HostBlock /\ logical_block = command.lba
    BY <2>1, SizesAssumption
       DEF Writing, Executed, MSInv, MSTypeOK, TypeOK, CommandOK, HostBlock
  <2>6. CurrentBlock = b0 /\ b0 \in Block
    BY <2>5, BlocksInside DEF CurrentBlock
  <2>7. /\ (sent - 1) \div ChunksPerBlock = write_page
        /\ (sent - 1) % ChunksPerBlock = count
    <3>1. /\ (write_page * ChunksPerBlock + count) \div ChunksPerBlock
               = write_page
          /\ (write_page * ChunksPerBlock + count) % ChunksPerBlock = count
      BY <2>5, BlockNotEmpty, QuotientAndRest DEF Chunk
    <3>2. sent - 1 = write_page * ChunksPerBlock + count
      <4>1. write_page * ChunksPerBlock \in Nat /\ count \in Nat
        BY <2>5, BlockNotEmpty DEF Chunk
      <4> QED
        BY <2>2, <4>1
    <3> QED
      BY <3>1, <3>2
  <2>8. rx.kind = "data" /\ rx.body[1] = v
    BY <2>2 DEF DataPacket
  <2>9. \A b, c : InBuffer(b, c) <=> b = b0 /\ c = count
    BY <1>6, <2>7, <2>8 DEF InBuffer
  <2> HIDE DEF b0
  <2>10. \A b \in HostBlock, c \in Chunk :
           hostdisk[b][c] = IF b = b0 /\ c = count THEN v ELSE ram[b][c]
    BY <2>8, <2>9 DEF DiskSeen
  <2>11. \A b \in HostBlock, c \in Chunk :
           ram'[b][c] = IF b = b0 /\ c = count THEN v ELSE ram[b][c]
    BY <2>4, <2>5, <2>6, BlocksInside DEF MSInv, MSTypeOK, TypeOK, Image
  <2> QED
    BY <1>2, <1>4, <1>6, <2>10, <2>11 DEF DiskSeen
<1> QED
  BY <1>3, <1>5, <1>6

(* The storage changes its SRAM only for a packet of data.                 *)
LEMMA SramKept ==
  ASSUME \/ BeginWrite(command.lba, command.length)
         \/ BeginRead(command.lba)
         \/ PickBlock \/ CopyPage \/ EepromDone
         \/ UNCHANGED vars
  PROVE  ram' = ram
  BY DEF BeginWrite, BeginRead, PickBlock, CopyPage, EepromDone, vars, memory

LEMMA DiskStep ==
  ASSUME CompliantHost, MSInv, DiskSeen, [MSNext]_msVars
  PROVE  DiskSeen'
<1>1. CASE Poll
  BY <1>1, PollDisk
<1>2. CASE SendNextData \/ ExecuteRead
  BY <1>2, DiskKept DEF SendNextData, ExecuteRead, vars, memory, host
<1>3. CASE ExecuteCbw
  <2>1. UNCHANGED <<hostdisk, rx, command, sent>>
    BY <1>3 DEF ExecuteCbw, host
  <2>2. ram' = ram
    <3>1. CASE cbw_finished
      <4>1. \/ BeginWrite(command.lba, command.length)
            \/ BeginRead(command.lba)
            \/ UNCHANGED vars
        BY <1>3, <3>1, ExecutesCommand DEF AnswerWithData, AnswerWithStatus,
           StartRead, StartWrite, IgnoreCommand
      <4> QED
        BY <4>1, SramKept
    <3>2. CASE ~ cbw_finished
      BY <1>3, <3>2, SramKept DEF ExecuteCbw
    <3> QED
      BY <3>1, <3>2
  <2> QED
    BY <2>1, <2>2, DiskKept
<1>4. CASE Store \/ WriteCycleEnds
  <2>1. UNCHANGED <<hostdisk, rx, command, sent>>
    BY <1>4 DEF Store, WriteCycleEnds, host
  <2>2. ram' = ram
    BY <1>4, SramKept DEF Store, WriteCycleEnds
  <2> QED
    BY <2>1, <2>2, DiskKept
<1>5. CASE NewCommand
  <2>1. rx = Empty /\ rx' = rx /\ hostdisk' = hostdisk /\ ram' = ram
    BY <1>5, AtRest DEF NewCommand, Idle, vars, memory
  <2>2. \A b, c : ~ InBuffer(b, c)'
    BY <2>1 DEF InBuffer
  <2>3. \A b \in HostBlock, c \in Chunk : hostdisk[b][c] = ram[b][c]
    BY <2>1, NothingInBuffer
  <2> QED
    BY <2>1, <2>2, <2>3 DEF DiskSeen
<1>6. CASE IsrOut
  BY <1>6, IsrOutDisk
<1>7. CASE IsrIn
  BY <1>7, DiskKept DEF IsrIn, vars, memory
<1>8. CASE Restart
  <2>1. rx' = Empty /\ hostdisk' = [b \in HostBlock |-> ram'[b % Blocks]]
    BY <1>8 DEF Restart
  <2>2. \A b \in HostBlock : hostdisk'[b] = ram'[b]
    BY <2>1, BlocksInside
  <2>3. \A b, c : ~ InBuffer(b, c)'
    BY <2>1 DEF InBuffer
  <2> QED
    BY <2>2, <2>3 DEF DiskSeen
<1>9. CASE UNCHANGED msVars
  BY <1>9, DiskKept DEF msVars, vars, memory, host
<1> QED
  BY <1>1, <1>2, <1>3, <1>4, <1>5, <1>6, <1>7, <1>8, <1>9
     DEF MSNext, MainLoop

(* The chunk that execute_read hands over is the one the host comes to.    *)
LEMMA ExecuteReadSees ==
  ASSUME CompliantHost, MSInv, DiskSeen, ReadsSeeLastWrite, ExecuteRead
  PROVE  ReadsSeeLastWrite'
<1>1. UNCHANGED <<got, hostdisk, command>>
  BY DEF ExecuteRead, host
<1>2. CASE ~ should_read
  <2>1. tx1' = tx1
    BY <1>2 DEF ExecuteRead
  <2> QED
    BY <1>1, <2>1 DEF ReadsSeeLastWrite
<1>3. CASE should_read
  <2> DEFINE p == command.length - transfer_length
             b == command.lba + p
  <2>1. Reading /\ tx1 = Empty /\ rx = Empty
    BY <1>3, IsReading DEF ExecuteRead, MSInv, NothingOverwritten, Reading
  <2>2. tx1'.body = <<ram[ReadBlock][read_count]>>
    BY <1>3 DEF ExecuteRead
  <2>3. /\ logical_block = command.lba
        /\ transfer_length_beginning = command.length
        /\ transfer_length \in 1 .. command.length
        /\ read_count < ChunksPerBlock
        /\ got = 8 * Handed
    BY <1>3, <2>1 DEF Reading
  <2>4. /\ command.length \in Nat /\ command.lba \in Nat
        /\ command.lba + command.length <= LastLba + 1
        /\ read_count \in 0 .. ChunksPerBlock - 1 /\ read_count \in Chunk
    BY <2>1, <2>3, SizesAssumption, BlockNotEmpty
       DEF Reading, Executed, MSInv, MSTypeOK, CommandOK, HostBlock, Chunk
  <2>5. p \in Nat /\ b \in HostBlock
    BY <2>3, <2>4, SizesAssumption DEF HostBlock
  <2>6. ReadBlock = b
    <3>1. ReadBlock = b % Blocks
      BY <2>3 DEF ReadBlock
    <3> QED
      BY <2>5, <3>1, BlocksInside
  <2>7. got \div 8 = p * ChunksPerBlock + read_count
    <3>1. Handed = p * ChunksPerBlock + read_count
      BY DEF Handed
    <3>2. Handed \in Nat
      BY <2>3, HandedInside DEF MSInv
    <3>3. \A x \in Nat : (8 * x) \div 8 = x
      OBVIOUS
    <3> QED
      BY <2>3, <3>1, <3>2, <3>3
  <2>8. /\ (got \div 8) \div ChunksPerBlock = p
        /\ (got \div 8) % ChunksPerBlock = read_count
    <3> HIDE DEF p
    <3>1. /\ (p * ChunksPerBlock + read_count) \div ChunksPerBlock = p
          /\ (p * ChunksPerBlock + read_count) % ChunksPerBlock = read_count
      BY <2>4, <2>5, BlockNotEmpty, QuotientAndRest
    <3> QED
      BY <2>7, <3>1
  <2>9. hostdisk[b][read_count] = ram[b][read_count]
    BY <2>1, <2>4, <2>5, NothingInBuffer
  <2> HIDE DEF p
  <2> QED
    BY <1>1, <2>2, <2>6, <2>8, <2>9 DEF ReadsSeeLastWrite, MaxChunk
<1> QED
  BY <1>2, <1>3

LEMMA ChunkStep ==
  ASSUME CompliantHost, MSInv, DiskSeen, ReadsSeeLastWrite, [MSNext]_msVars
  PROVE  ReadsSeeLastWrite'
<1>1. ASSUME UNCHANGED <<tx1, got, hostdisk, command>>
      PROVE  ReadsSeeLastWrite'
  BY <1>1 DEF ReadsSeeLastWrite
<1>2. ASSUME tx1' = Empty PROVE ReadsSeeLastWrite'
  BY <1>2 DEF ReadsSeeLastWrite
<1>3. CASE Poll \/ ExecuteCbw \/ Store \/ WriteCycleEnds
  BY <1>1, <1>3 DEF Poll, ExecuteCbw, Store, WriteCycleEnds, host
<1>4. CASE SendNextData
  <2>1. CASE tx1 = Empty /\ HasPacket(txq)
    <3>1. tx1'.buf = NextChunk(txq).buf
      BY <1>4, <2>1 DEF SendNextData
    <3>2. tx1'.buf # "sram"
      <4>1. CASE Replying
        <5>1. /\ Reply(command.op)[1] \in {"data", "data_null"}
              /\ Reply(command.op)[2] \in Nat /\ got \in Nat
          BY <4>1, ReplyFacts DEF Replying
        <5>2. txq = Two(Pkt(Reply(command.op)[1], Reply(command.op)[2]),
                        Csw, got)
          BY <2>1, <4>1 DEF Replying
        <5>3. NextChunk(txq).buf = Reply(command.op)[1]
          BY <5>1, <5>2, QueueOfTwo
        <5> QED
          BY <3>1, <5>1, <5>3
      <4>2. CASE Status
        <5>1. PICK i \in {0, 8} : txq = One(Csw, i)
          BY <2>1, <4>2 DEF Status
        <5>2. NextChunk(txq).buf = "csw"
          BY <5>1, QueueOfOne DEF Csw, CSW_LENGTH
        <5> QED
          BY <3>1, <5>2
      <4> QED
        BY <2>1, <4>1, <4>2, HasReply
    <3> QED
      BY <3>2 DEF ReadsSeeLastWrite
  <2>2. CASE ~ (tx1 = Empty /\ HasPacket(txq))
    BY <1>1, <1>4, <2>2 DEF SendNextData, host
  <2> QED
    BY <2>1, <2>2
<1>5. CASE ExecuteRead
  BY <1>5, ExecuteReadSees
<1>6. CASE NewCommand
  BY <1>2, <1>6, AtRest DEF NewCommand, Idle, Quiet
<1>7. CASE IsrOut
  <2>1. phase # "data_in" /\ tx1' = tx1
    BY <1>7 DEF IsrOut
  <2>2. tx1 # Empty => tx1.buf # "sram"
    BY <2>1, DataFits DEF ReplyFitsCommand
  <2> QED
    BY <2>1, <2>2 DEF ReadsSeeLastWrite
<1>8. CASE IsrIn \/ Restart
  BY <1>2, <1>8 DEF IsrIn, Restart
<1>9. CASE UNCHANGED msVars
  BY <1>1, <1>9 DEF msVars, host
<1> QED
  BY <1>3, <1>4, <1>5, <1>6, <1>7, <1>8, <1>9 DEF MSNext, MainLoop

LEMMA StartsSeen ==
  ASSUME CompliantHost, MSInit
  PROVE  DiskSeen /\ ReadsSeeLastWrite
<1>1. rx = Empty /\ tx1 = Empty
      /\ hostdisk = [b \in HostBlock |-> ram[b % Blocks]]
  BY DEF MSInit
<1>2. \A b \in HostBlock : hostdisk[b] = ram[b]
  BY <1>1, BlocksInside
<1>3. DiskSeen
  BY <1>1, <1>2, NothingInBuffer
<1> QED
  BY <1>1, <1>3 DEF ReadsSeeLastWrite

(* A READ returns what the host wrote last, whatever the write-back is     *)
(* doing, and also when EEPROM transfers fail or the device restarts, if   *)
(* the host addresses the blocks the device has.                           *)
THEOREM ReadsAreCurrent ==
  ASSUME CompliantHost PROVE MSSpec => []ReadsSeeLastWrite
<1>1. MSInit => DiskSeen /\ ReadsSeeLastWrite
  BY StartsSeen
<1>2. MSInv /\ DiskSeen /\ ReadsSeeLastWrite /\ [MSNext]_msVars
        => DiskSeen' /\ ReadsSeeLastWrite'
  BY DiskStep, ChunkStep
<1>3. MSSpec => []MSInv
  BY CompliantIsSmall, MSSpecInv
<1> QED
  BY <1>1, <1>2, <1>3, PTL DEF MSSpec
=============================================================================
