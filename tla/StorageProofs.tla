--------------------------- MODULE StorageProofs ---------------------------
(***************************************************************************)
(* Theorems about Storage, for every size of memory, block and page.       *)
(*                                                                         *)
(* Two assumptions say where they hold.  The host addresses the blocks     *)
(* the device has: READ CAPACITY announces one more, and MassStorage shows *)
(* what then happens.  For Coherence and the refinement no EEPROM transfer *)
(* fails, because main.c ignores the failure: Storage has the run that     *)
(* shows it.  The other theorems allow failing reads and writes as well as *)
(* losses of power and watchdog resets at any step.                        *)
(***************************************************************************)
EXTENDS Storage, FiniteSetTheorems, TLAPS

CompliantHost == LastLba < Blocks
NoTwiError    == Faults \subseteq {"power"}

-----------------------------------------------------------------------------
(***************************************************************************)
(* Arithmetic of the addresses.                                            *)
(***************************************************************************)

(* A chunk of a block lies in one of its pages.                            *)
LEMMA PageOfChunk == \A c \in Chunk : PageOf(c) \in Page
  BY SizesAssumption DEF Chunk, ChunksPerBlock, PageOf, Page

(* A block has chunks.                                                     *)
LEMMA BlockNotEmpty == ChunksPerBlock \in Nat \ {0}
  BY SizesAssumption DEF ChunksPerBlock

(* The 16-bit address and the uint8_t dirty index name the same block as   *)
(* long as the WRITE stays below the last block.                           *)
LEMMA InRangeIndex ==
  ASSUME TypeOK, WriteInRange, is_writing
  PROVE  /\ CurrentBlock = logical_block + write_page
         /\ DirtyIndex = CurrentBlock
         /\ CurrentBlock \in Block
<1>1. logical_block + write_page \in Block
  BY SizesAssumption DEF TypeOK, WriteInRange, Block
<1>2. \A n \in Nat \ {0}, x \in Nat : x < n => x % n = x
  BY SMT
<1> QED
  BY <1>1, <1>2, SizesAssumption DEF Block, CurrentBlock, DirtyIndex

-----------------------------------------------------------------------------
(***************************************************************************)
(* The inductive invariant.  A block comes to the write-back with all its  *)
(* pages still to copy; write_page starts from 0, which                    *)
(* is_writing_beginning decides; and what the write-back may copy has come *)
(* from the host or from a read that succeeded.                            *)
(***************************************************************************)

StartsAtPageZero == write_block = NoBlock => page_count = 0
BeginningInside  == is_writing_beginning => is_writing

(* The chunk has come from the host, and its block is being received or    *)
(* has been received since the SRAM was loaded.                            *)
Accepted(b, c) ==
  \/ blocks_written[b]
  \/ write_block = b
  \/ is_writing /\ b = CurrentBlock /\ c < count

HostDataOnly ==
  \A b \in Block, c \in Chunk :
    /\ eeprom[b][c] # Unread
    /\ Accepted(b, c) => ram[b][c] # Unread

IInv == /\ TypeOK
        /\ WriteInRange
        /\ StartsAtPageZero
        /\ BeginningInside
        /\ HostDataOnly

USE SizesAssumption, FaultsAssumption, UnreadAssumption

(* Small numbers are their own remainders.                                 *)
LEMMA SmallRemainder == \A n \in Nat \ {0}, x \in Nat : x < n => x % n = x
  BY SMT

(* What is loaded is the EEPROM's, or what no read has given.              *)
LEMMA LoadedImage ==
  ASSUME NEW e \in Image, NEW r \in Loaded(e)
  PROVE  /\ r \in Image
         /\ \A b \in Block, c \in Chunk : r[b][c] \in {e[b][c], Unread}
  BY DEF Loaded

(* The EEPROM's contents have no chunk that was not read.                  *)
LEMMA ContentsRead ==
  ASSUME NEW e \in Contents, NEW b \in Block, NEW c \in Chunk
  PROVE  e[b][c] # Unread
  BY DEF Contents

(* The variables are in their ranges when the device has started.          *)
LEMMA InitIInv == Init => IInv
<1> SUFFICES ASSUME Init PROVE IInv
  OBVIOUS
<1>1. ram \in Image /\ eeprom \in Contents /\ eeprom \in Image
  BY LoadedImage DEF Init, Contents, Image
<1>2. 0 \in Chunk /\ 0 \in Page
  BY BlockNotEmpty DEF Chunk, Page
<1>3. TypeOK
  <2>1. programming \in (Block \X Page) \union {NoPage}
    BY DEF Init
  <2>2. blocks_written \in [Block -> BOOLEAN]
    BY DEF Init
  <2>3. is_writing \in BOOLEAN /\ is_writing_beginning \in BOOLEAN
    BY DEF Init
  <2>4. /\ logical_block \in 0 .. LastLba
        /\ write_page \in 0 .. Uint8 - 1
        /\ transfer_length_write \in 0 .. Uint8 - 1
    BY DEF Init
  <2> QED
    BY <1>1, <1>2, <2>1, <2>2, <2>3, <2>4 DEF Init, TypeOK
<1>4. HostDataOnly
  <2>1. \A b \in Block, c \in Chunk : ~Accepted(b, c)
    BY DEF Init, Accepted, NoBlock, Block
  <2> QED
    BY <1>1, <2>1, ContentsRead DEF HostDataOnly
<1> QED
  BY <1>3, <1>4
  DEF Init, IInv, WriteInRange, StartsAtPageZero, BeginningInside

(* A restart finds the SRAM loaded with what the EEPROM then holds, as far *)
(* as it can be read.                                                      *)
LEMMA BootIInv ==
  ASSUME NEW e \in Contents, Boot(e)
  PROVE  IInv'
<1>1. /\ ram' \in Image
      /\ eeprom' = e /\ eeprom' \in Image
  BY LoadedImage DEF Boot, Contents, Image
<1>2. 0 \in Chunk /\ 0 \in Page
  BY BlockNotEmpty DEF Chunk, Page
<1>3. TypeOK'
  <2>1. programming' \in (Block \X Page) \union {NoPage}
    BY DEF Boot
  <2>2. blocks_written' \in [Block -> BOOLEAN]
    BY DEF Boot
  <2>3. is_writing' \in BOOLEAN /\ is_writing_beginning' \in BOOLEAN
    BY DEF Boot
  <2>4. /\ logical_block' \in 0 .. LastLba
        /\ write_page' \in 0 .. Uint8 - 1
        /\ transfer_length_write' \in 0 .. Uint8 - 1
    BY DEF Boot
  <2> QED
    BY <1>1, <1>2, <2>1, <2>2, <2>3, <2>4 DEF Boot, TypeOK
<1>4. HostDataOnly'
  <2>1. \A b \in Block, c \in Chunk : ~Accepted(b, c)'
    BY DEF Boot, Accepted, NoBlock, Block
  <2> QED
    BY <1>1, <2>1, ContentsRead DEF HostDataOnly
<1> QED
  BY <1>3, <1>4
  DEF Boot, IInv, WriteInRange, StartsAtPageZero, BeginningInside

(* What a restart begins with: the EEPROM as it was, but for a torn page.  *)
LEMMA RestartBoots ==
  ASSUME IInv, PowerCut \/ WatchdogReset
  PROVE  \E e \in Contents :
           /\ \A b \in Block, c \in Chunk :
                <<b, PageOf(c)>> # programming => e[b][c] = eeprom[b][c]
           /\ Boot(e)
<1>1. eeprom \in Contents
  <2>1. \A b \in Block, c \in Chunk : eeprom[b][c] \in Values
    BY DEF IInv, TypeOK, Image, HostDataOnly
  <2> QED
    BY <2>1 DEF IInv, TypeOK, Image, Contents
<1>2. CASE PowerCut
  BY <1>2 DEF PowerCut
<1>3. CASE WatchdogReset
  BY <1>1, <1>3 DEF WatchdogReset
<1> QED
  BY <1>2, <1>3

(* A WRITE begins with nothing of it received, and ends in range.          *)
LEMMA BeginWriteIInv ==
  ASSUME CompliantHost, IInv, NEW r \in Request, BeginWrite(r[1], r[2])
  PROVE  IInv'
<1>1. /\ r[1] \in 0 .. LastLba
      /\ r[2] \in 1 .. LastLba + 1
      /\ r[1] + r[2] <= LastLba + 1
  BY DEF Request
<1>2. r[2] % Uint8 = r[2]
  BY <1>1, SmallRemainder DEF CompliantHost
<1>3. write_page' = 0
  BY DEF BeginWrite, IInv, BeginningInside
<1>4. 0 \in Chunk
  BY BlockNotEmpty DEF Chunk
<1>5. TypeOK'
  BY <1>1, <1>2, <1>3, <1>4
  DEF BeginWrite, IInv, TypeOK, CompliantHost, memory, writeBack
<1>6. WriteInRange'
  BY <1>1, <1>2, <1>3 DEF BeginWrite, WriteInRange, CompliantHost
<1>7. HostDataOnly'
  <2>1. \A b \in Block, c \in Chunk : Accepted(b, c)' => Accepted(b, c)
    BY DEF BeginWrite, Accepted, writeBack, Chunk
  <2> QED
    BY <2>1 DEF BeginWrite, IInv, HostDataOnly, memory
<1> QED
  BY <1>5, <1>6, <1>7
  DEF BeginWrite, IInv, StartsAtPageZero, BeginningInside, writeBack

(* READ moves logical_block only while no WRITE uses it.                   *)
LEMMA BeginReadIInv ==
  ASSUME IInv, NEW r \in Request, BeginRead(r[1])
  PROVE  IInv'
<1>1. r[1] \in 0 .. LastLba
  BY DEF Request
<1>2. TypeOK'
  BY <1>1 DEF BeginRead, IInv, TypeOK, memory, writeBack
<1>3. HostDataOnly'
  <2>1. \A b \in Block, c \in Chunk : Accepted(b, c)' => Accepted(b, c)
    BY DEF BeginRead, Accepted, writeBack
  <2> QED
    BY <2>1 DEF BeginRead, IInv, HostDataOnly, memory
<1> QED
  BY <1>2, <1>3
  DEF BeginRead, IInv, WriteInRange, StartsAtPageZero, BeginningInside,
      writeBack

(* What one packet of data does to the SRAM.                               *)
LEMMA WriteOutStores ==
  ASSUME IInv, NEW v \in Values, WriteOut(v)
  PROVE  /\ CurrentBlock = logical_block + write_page
         /\ CurrentBlock \in Block
         /\ DirtyIndex = CurrentBlock
         /\ count \in Chunk
         /\ ram' \in Image
         /\ \A b \in Block, c \in Chunk :
              ram'[b][c] = IF b = CurrentBlock /\ c = count
                             THEN v ELSE ram[b][c]
<1>1. ram' = [ram EXCEPT ![CurrentBlock][count] = v]
  BY DEF WriteOut
<1>2. /\ CurrentBlock = logical_block + write_page
      /\ DirtyIndex = CurrentBlock
      /\ CurrentBlock \in Block
  BY InRangeIndex DEF IInv, WriteOut
<1>3. count \in Chunk /\ ram \in Image
  BY DEF IInv, TypeOK
<1> QED
  BY <1>1, <1>2, <1>3 DEF Image

(* The last packet of a block marks it, and ends the WRITE or goes on.     *)
LEMMA FinishBlockMarks ==
  ASSUME IInv, NEW v \in Values, WriteOut(v), FinishBlock
  PROVE  /\ blocks_written' = [blocks_written EXCEPT ![CurrentBlock] = TRUE]
         /\ Received = write_page + 1
         /\ write_page' = write_page + 1
         /\ count' = 0
<1>1. DirtyIndex = CurrentBlock /\ CurrentBlock \in Block
  BY WriteOutStores
<1>2. write_page + 1 \in Nat /\ write_page + 1 < Uint8
  BY DEF WriteOut, IInv, TypeOK, WriteInRange
<1>3. Received = write_page + 1
  BY <1>2, SmallRemainder DEF Received
<1> QED
  BY <1>1, <1>3 DEF FinishBlock, MarkWritten

(* A packet of data keeps the WRITE in range, and its block unmarked until *)
(* every chunk of it has come.                                             *)
LEMMA WriteOutIInv ==
  ASSUME IInv, NEW v \in Values, WriteOut(v)
  PROVE  IInv'
<1> DEFINE cur == CurrentBlock
<1>1. /\ cur \in Block
      /\ count \in Chunk
      /\ ram' \in Image
      /\ \A b \in Block, c \in Chunk :
           ram'[b][c] = IF b = cur /\ c = count THEN v ELSE ram[b][c]
  BY WriteOutStores
<1>2. /\ is_writing
      /\ UNCHANGED <<eeprom, programming, write_block, page_count,
                     logical_block, transfer_length_write>>
  BY DEF WriteOut
<1>3. v # Unread
  OBVIOUS
<1>4. ASSUME \A b \in Block, c \in Chunk :
               Accepted(b, c)' => \/ Accepted(b, c)
                                  \/ b = cur /\ c = count
      PROVE  HostDataOnly'
  BY <1>1, <1>2, <1>3, <1>4 DEF IInv, HostDataOnly
<1>5. CASE /\ count + 1 < ChunksPerBlock
           /\ count' = count + 1
           /\ UNCHANGED <<is_writing, is_writing_beginning, write_page,
                          blocks_written>>
  <2>1. count' \in Chunk
    BY <1>1, <1>5, BlockNotEmpty DEF Chunk
  <2>2. TypeOK'
    BY <1>1, <1>2, <1>5, <2>1 DEF IInv, TypeOK
  <2>3. WriteInRange'
    BY <1>2, <1>5 DEF IInv, WriteInRange
  <2>4. CurrentBlock' = cur
    BY <1>2, <1>5 DEF CurrentBlock
  <2>5. HostDataOnly'
    <3>1. \A c \in Chunk : c < count + 1 => c < count \/ c = count
      BY <1>1, BlockNotEmpty DEF Chunk
    <3> QED
      BY <1>2, <1>4, <1>5, <2>4, <3>1 DEF Accepted
  <2> QED
    BY <1>2, <1>5, <2>2, <2>3, <2>5
    DEF IInv, StartsAtPageZero, BeginningInside
<1>6. CASE count + 1 = ChunksPerBlock /\ FinishBlock
  <2>1. /\ blocks_written' = [blocks_written EXCEPT ![cur] = TRUE]
        /\ Received = write_page + 1
        /\ write_page' = write_page + 1
        /\ count' = 0
        /\ is_writing' = (is_writing /\ ~LastBlock)
        /\ is_writing_beginning' = (is_writing_beginning /\ ~LastBlock)
    BY <1>6, FinishBlockMarks DEF FinishBlock
  <2>2. /\ write_page < transfer_length_write
        /\ logical_block + transfer_length_write <= Blocks
        /\ write_page \in Nat /\ transfer_length_write \in Nat
    BY <1>2 DEF IInv, TypeOK, WriteInRange
  <2>3. 0 \in Chunk
    BY BlockNotEmpty DEF Chunk
  <2>4. TypeOK'
    <3>1. blocks_written' \in [Block -> BOOLEAN]
      BY <1>1, <2>1 DEF IInv, TypeOK
    <3>2. is_writing' \in BOOLEAN /\ is_writing_beginning' \in BOOLEAN
      BY <2>1
    <3>3. write_page' \in 0 .. Uint8 - 1
      BY <2>1, <2>2 DEF IInv, TypeOK
    <3> QED
      BY <1>1, <1>2, <2>1, <2>3, <3>1, <3>2, <3>3 DEF IInv, TypeOK
  <2>5. WriteInRange'
    <3> SUFFICES ASSUME is_writing'
                 PROVE  /\ write_page' < transfer_length_write'
                        /\ logical_block' + transfer_length_write' <= Blocks
      BY DEF WriteInRange
    <3>1. Received # transfer_length_write
      BY <2>1 DEF LastBlock
    <3> QED
      BY <1>2, <2>1, <2>2, <3>1
  <2>6. HostDataOnly'
    <3>1. \A c \in Chunk : c < count \/ c = count
      BY <1>1, <1>6, BlockNotEmpty DEF Chunk
    <3>2. \A c \in Chunk : ~(c < count')
      BY <2>1, BlockNotEmpty DEF Chunk
    <3>3. \A b \in Block : blocks_written'[b] <=> blocks_written[b] \/ b = cur
      BY <1>1, <2>1 DEF IInv, TypeOK
    <3> QED
      BY <1>2, <1>4, <3>1, <3>2, <3>3 DEF Accepted
  <2> QED
    BY <1>2, <2>1, <2>4, <2>5, <2>6
    DEF IInv, StartsAtPageZero, BeginningInside
<1> QED
  BY <1>5, <1>6 DEF WriteOut

(* What is picked was marked.                                              *)
LEMMA PickBlockTakes ==
  ASSUME IInv, PickBlock
  PROVE  \E k \in Block :
           /\ blocks_written[k]
           /\ write_block' = k
           /\ \A b \in Block : blocks_written'[b]
                                 <=> blocks_written[b] /\ b # k
  BY DEF PickBlock, LowestDirty, IInv, TypeOK

(* The lowest dirty block is taken with all its pages still to copy.       *)
LEMMA PickBlockIInv ==
  ASSUME IInv, PickBlock
  PROVE  IInv'
<1>1. PICK k \in Block :
        /\ blocks_written[k]
        /\ write_block' = k
        /\ \A b \in Block : blocks_written'[b]
                              <=> blocks_written[b] /\ b # k
  BY PickBlockTakes
<1>2. page_count = 0 /\ UNCHANGED <<memory, page_count, receive>>
  BY DEF PickBlock, IInv, StartsAtPageZero
<1>3. TypeOK'
  <2>1. blocks_written' \in [Block -> BOOLEAN]
    BY DEF PickBlock, IInv, TypeOK
  <2> QED
    BY <1>1, <1>2, <2>1 DEF IInv, TypeOK, memory, receive
<1>4. HostDataOnly'
  <2>1. \A b \in Block, c \in Chunk : Accepted(b, c)' => Accepted(b, c)
    BY <1>1, <1>2 DEF Accepted, CurrentBlock, receive
  <2> QED
    BY <1>2, <2>1 DEF IInv, HostDataOnly, memory
<1> QED
  BY <1>1, <1>2, <1>3, <1>4
  DEF IInv, WriteInRange, StartsAtPageZero, BeginningInside, receive,
      NoBlock, Block

(* After the last page of a block comes no block and page 0.               *)
LEMMA NextPageTypes ==
  ASSUME IInv, write_block # NoBlock, NextPage
  PROVE  /\ page_count' \in Page
         /\ write_block' \in {write_block, NoBlock}
         /\ StartsAtPageZero'
<1>1. page_count \in 0 .. PagesPerBlock - 1 /\ write_block \in Block
  BY DEF IInv, TypeOK, Page
<1>2. CASE page_count + 1 >= PagesPerBlock
  BY <1>1, <1>2 DEF NextPage, Page, StartsAtPageZero
<1>3. CASE ~(page_count + 1 >= PagesPerBlock)
  BY <1>1, <1>3 DEF NextPage, Page, StartsAtPageZero
<1> QED
  BY <1>2, <1>3

(* A page whose write succeeds is the SRAM's afterwards; no other changes. *)
LEMMA CopyPageStores ==
  ASSUME IInv, CopyPage
  PROVE  /\ write_block \in Block
         /\ eeprom' \in Image
         /\ programming' \in (Block \X Page) \union {NoPage}
         /\ \A b \in Block, c \in Chunk :
              eeprom'[b][c] =
                IF PageWritten /\ b = write_block /\ PageOf(c) = page_count
                  THEN ram[b][c] ELSE eeprom[b][c]
<1>1. /\ write_block \in Block
      /\ page_count \in Page
      /\ ram \in Image /\ eeprom \in Image
      /\ programming \in (Block \X Page) \union {NoPage}
  BY DEF CopyPage, IInv, TypeOK
<1>2. CASE PageWritten
  <2>1. /\ eeprom' = [eeprom EXCEPT ![write_block] =
                       [c \in Chunk |-> IF PageOf(c) = page_count
                                          THEN ram[write_block][c] ELSE @[c]]]
        /\ programming' = <<write_block, page_count>>
    BY <1>2 DEF PageWritten
  <2> QED
    BY <1>1, <1>2, <2>1 DEF Image
<1>3. CASE ~PageWritten
  BY <1>1, <1>3 DEF CopyPage, PageFails
<1> QED
  BY <1>2, <1>3

(* A copied page has come from the host.                                   *)
LEMMA CopyPageIInv ==
  ASSUME IInv, CopyPage
  PROVE  IInv'
<1>1. /\ write_block \in Block
      /\ eeprom' \in Image
      /\ programming' \in (Block \X Page) \union {NoPage}
      /\ \A b \in Block, c \in Chunk :
           eeprom'[b][c] = eeprom[b][c] \/ (b = write_block
                                             /\ eeprom'[b][c] = ram[b][c])
  BY CopyPageStores
<1>2. /\ page_count' \in Page
      /\ write_block' \in {write_block, NoBlock}
      /\ StartsAtPageZero'
      /\ UNCHANGED <<ram, blocks_written, receive>>
  BY NextPageTypes DEF CopyPage
<1>3. TypeOK'
  BY <1>1, <1>2 DEF IInv, TypeOK, receive
<1>4. HostDataOnly'
  <2>1. \A b \in Block, c \in Chunk : Accepted(b, c)' => Accepted(b, c)
    BY <1>2 DEF Accepted, CurrentBlock, receive, NoBlock, Block
  <2>2. \A c \in Chunk : Accepted(write_block, c)
    BY DEF Accepted
  <2> QED
    BY <1>1, <1>2, <2>1, <2>2 DEF IInv, HostDataOnly
<1> QED
  BY <1>2, <1>3, <1>4 DEF IInv, WriteInRange, BeginningInside, receive

(* The end of a write cycle changes nothing the invariant speaks of.       *)
LEMMA EepromDoneIInv ==
  ASSUME IInv, EepromDone
  PROVE  IInv'
<1>1. TypeOK'
  BY DEF EepromDone, IInv, TypeOK, writeBack, receive
<1>2. HostDataOnly'
  BY DEF EepromDone, IInv, HostDataOnly, Accepted, CurrentBlock, writeBack,
     receive
<1> QED
  BY <1>1, <1>2
  DEF EepromDone, IInv, WriteInRange, StartsAtPageZero, BeginningInside,
      writeBack, receive

LEMMA StepIInv ==
  ASSUME CompliantHost, IInv, [Next]_vars
  PROVE  IInv'
<1>1. ASSUME NEW r \in Request, BeginWrite(r[1], r[2]) PROVE IInv'
  BY <1>1, BeginWriteIInv
<1>2. ASSUME NEW r \in Request, BeginRead(r[1]) PROVE IInv'
  BY <1>2, BeginReadIInv
<1>3. ASSUME NEW v \in Values, WriteOut(v) PROVE IInv'
  BY <1>3, WriteOutIInv
<1>4. CASE PickBlock
  BY <1>4, PickBlockIInv
<1>5. CASE CopyPage
  BY <1>5, CopyPageIInv
<1>6. CASE EepromDone
  BY <1>6, EepromDoneIInv
<1>7. CASE PowerCut \/ WatchdogReset
  BY <1>7, RestartBoots, BootIInv
<1>8. CASE UNCHANGED vars
  BY <1>8
  DEF vars, memory, writeBack, receive, IInv, TypeOK, WriteInRange,
      StartsAtPageZero, BeginningInside, HostDataOnly, Accepted, CurrentBlock
<1> QED
  BY <1>1, <1>2, <1>3, <1>4, <1>5, <1>6, <1>7, <1>8
  DEF Next, HostStep

LEMMA SpecIInv == ASSUME CompliantHost PROVE Spec => []IInv
<1>1. IInv /\ [Next]_vars => IInv'
  BY StepIInv
<1> QED
  BY <1>1, InitIInv, PTL DEF Spec

(* Every variable keeps its type, so no index the receive path or the      *)
(* write-back computes leaves its array, whatever the size of the memory   *)
(* and whatever fails.                                                     *)
THEOREM TypeCorrect == ASSUME CompliantHost PROVE Spec => []TypeOK
<1>1. IInv => TypeOK
  BY DEF IInv
<1> QED
  BY <1>1, SpecIInv, PTL

(* A WRITE never runs past the blocks its command named.                   *)
THEOREM WritesStayInRange ==
  ASSUME CompliantHost PROVE Spec => []WriteInRange
<1>1. IInv => WriteInRange
  BY DEF IInv
<1> QED
  BY <1>1, SpecIInv, PTL

(* Whatever reads fail at start-up, the EEPROM never gets a chunk that was *)
(* not read: only what the host has sent, in whole blocks, is written back.*)
THEOREM OnlyHostDataStored ==
  ASSUME CompliantHost PROVE Spec => []UnreadNeverStored
<1>1. IInv => UnreadNeverStored
  BY DEF IInv, HostDataOnly, UnreadNeverStored
<1> QED
  BY <1>1, SpecIInv, PTL

-----------------------------------------------------------------------------
(***************************************************************************)
(* A chunk stays accounted for, step by step, until its page fails.        *)
(***************************************************************************)

(* The failing write of the page that chunk c of block b is in.            *)
ItsPageFails(b, c) ==
  /\ CopyPage /\ PageFails
  /\ write_block = b /\ page_count = PageOf(c)

(* A packet of data: what it overwrites is accounted for, by count while   *)
(* the block is incomplete and by the dirty bit once it is complete.       *)
LEMMA WriteOutAccounts ==
  ASSUME IInv, NEW v \in Values, WriteOut(v),
         NEW b \in Block, NEW c \in Chunk, Accounted(b, c)
  PROVE  Accounted(b, c)'
<1> DEFINE cur == CurrentBlock
<1>1. /\ cur \in Block
      /\ count \in Nat /\ c \in Nat
      /\ ram'[b][c] = IF b = cur /\ c = count THEN v ELSE ram[b][c]
  BY WriteOutStores, BlockNotEmpty DEF Chunk
<1>2. /\ is_writing
      /\ UNCHANGED <<eeprom, programming, write_block, page_count,
                     logical_block, transfer_length_write>>
  BY DEF WriteOut
<1>3. CASE /\ count + 1 < ChunksPerBlock
           /\ count' = count + 1
           /\ UNCHANGED <<is_writing, is_writing_beginning, write_page,
                          blocks_written>>
  <2>1. CurrentBlock' = cur
    BY <1>2, <1>3 DEF CurrentBlock
  <2>2. CASE b = cur /\ c < count + 1
    <3>1. is_writing' /\ count' > 0 /\ b = CurrentBlock' /\ c < count'
      BY <1>1, <1>2, <1>3, <2>1, <2>2
    <3> QED
      BY <3>1 DEF Accounted, AwaitsWriteBack, Receiving
  <2>3. CASE ~(b = cur /\ c < count + 1)
    <3>1. ram'[b][c] = ram[b][c] /\ ~(Receiving(b) /\ c < count)
      BY <1>1, <2>3 DEF Receiving
    <3> QED
      BY <1>2, <1>3, <3>1 DEF Accounted, AwaitsWriteBack
  <2> QED
    BY <2>2, <2>3
<1>4. CASE FinishBlock
  <2>1. blocks_written' = [blocks_written EXCEPT ![cur] = TRUE]
    BY <1>4, FinishBlockMarks
  <2>2. CASE b = cur
    <3>1. blocks_written'[b]
      BY <1>1, <2>1, <2>2 DEF IInv, TypeOK
    <3> QED
      BY <3>1 DEF Accounted, AwaitsWriteBack
  <2>3. CASE b # cur
    <3>1. ram'[b][c] = ram[b][c] /\ ~Receiving(b)
      BY <1>1, <2>3 DEF Receiving
    <3>2. blocks_written'[b] = blocks_written[b]
      BY <1>1, <2>1, <2>3 DEF IInv, TypeOK
    <3> QED
      BY <1>2, <3>1, <3>2 DEF Accounted, AwaitsWriteBack
  <2> QED
    BY <2>2, <2>3
<1> QED
  BY <1>3, <1>4 DEF WriteOut

(* A block that loses its dirty bit has all its pages to come.             *)
LEMMA PickBlockAccounts ==
  ASSUME IInv, PickBlock, NEW b \in Block, NEW c \in Chunk, Accounted(b, c)
  PROVE  Accounted(b, c)'
<1>1. PICK k \in Block :
        /\ blocks_written[k]
        /\ write_block' = k
        /\ \A bb \in Block : blocks_written'[bb]
                               <=> blocks_written[bb] /\ bb # k
  BY PickBlockTakes
<1>2. /\ write_block = NoBlock /\ page_count = 0
      /\ UNCHANGED <<memory, page_count, receive>>
  BY DEF PickBlock, IInv, StartsAtPageZero
<1>3. CASE b = k
  <2>1. PageOf(c) >= page_count'
    BY <1>2, PageOfChunk DEF Page
  <2> QED
    BY <1>1, <1>3, <2>1 DEF Accounted, AwaitsWriteBack
<1>4. CASE b # k
  <2>1. blocks_written'[b] = blocks_written[b] /\ write_block # b
    BY <1>1, <1>2, <1>4 DEF PickBlock, IInv, TypeOK, NoBlock, Block
  <2> QED
    BY <1>2, <2>1
    DEF Accounted, AwaitsWriteBack, Receiving, CurrentBlock, memory, receive
<1> QED
  BY <1>3, <1>4

(* A copied page equals the SRAM's, the later ones stay accounted for, and *)
(* a page that fails costs its own chunks only.                            *)
LEMMA CopyPageAccounts ==
  ASSUME IInv, CopyPage, NEW b \in Block, NEW c \in Chunk,
         Accounted(b, c), ~ItsPageFails(b, c)
  PROVE  Accounted(b, c)'
<1> DEFINE w == write_block
<1>1. /\ w \in Block
      /\ eeprom'[b][c] = IF PageWritten /\ b = w /\ PageOf(c) = page_count
                           THEN ram[b][c] ELSE eeprom[b][c]
  BY CopyPageStores
<1>2. NextPage /\ UNCHANGED <<ram, blocks_written, receive>>
  BY DEF CopyPage
<1>3. (Receiving(b) /\ c < count)' <=> (Receiving(b) /\ c < count)
  BY <1>2 DEF Receiving, CurrentBlock, receive
<1>4. CASE b = w /\ PageOf(c) = page_count
  <2>1. PageWritten
    BY <1>4 DEF CopyPage, ItsPageFails
  <2> QED
    BY <1>1, <1>2, <1>4, <2>1 DEF Accounted
<1>5. CASE ~(b = w /\ PageOf(c) = page_count)
  <2>1. eeprom'[b][c] = eeprom[b][c]
    BY <1>1, <1>5
  <2>2. CASE b = w /\ PageOf(c) >= page_count
    <3>1. /\ PageOf(c) \in 0 .. PagesPerBlock - 1
          /\ page_count \in 0 .. PagesPerBlock - 1
      BY PageOfChunk DEF IInv, TypeOK, Page
    <3>2. PageOf(c) >= page_count + 1 /\ page_count + 1 < PagesPerBlock
      BY <1>5, <2>2, <3>1
    <3>3. page_count' = page_count + 1 /\ write_block' = w
      BY <1>2, <3>1, <3>2 DEF NextPage
    <3> QED
      BY <2>2, <3>2, <3>3 DEF Accounted, AwaitsWriteBack
  <2>3. CASE ~(b = w /\ PageOf(c) >= page_count)
    BY <1>2, <1>3, <2>1, <2>3 DEF Accounted, AwaitsWriteBack
  <2> QED
    BY <2>2, <2>3
<1> QED
  BY <1>4, <1>5

(* Start-up accounts for every chunk, read or not.                         *)
LEMMA BootAccounts ==
  ASSUME NEW e \in Contents, Boot(e), NEW b \in Block, NEW c \in Chunk
  PROVE  Accounted(b, c)'
<1>1. eeprom' = e /\ ram'[b][c] \in {e[b][c], Unread}
  BY LoadedImage DEF Boot, Contents, Image
<1> QED
  BY <1>1 DEF Accounted

LEMMA StepAccounts ==
  ASSUME IInv, [Next]_vars, NEW b \in Block, NEW c \in Chunk,
         Accounted(b, c), ~ItsPageFails(b, c)
  PROVE  Accounted(b, c)'
<1>1. ASSUME NEW r \in Request, BeginWrite(r[1], r[2]) \/ BeginRead(r[1])
      PROVE  Accounted(b, c)'
  BY <1>1
  DEF BeginWrite, BeginRead, Accounted, AwaitsWriteBack, Receiving, memory,
      writeBack
<1>2. ASSUME NEW v \in Values, WriteOut(v) PROVE Accounted(b, c)'
  BY <1>2, WriteOutAccounts
<1>3. CASE PickBlock
  BY <1>3, PickBlockAccounts
<1>4. CASE CopyPage
  BY <1>4, CopyPageAccounts
<1>5. CASE EepromDone
  BY <1>5
  DEF EepromDone, Accounted, AwaitsWriteBack, Receiving, CurrentBlock,
      writeBack, receive
<1>6. CASE PowerCut \/ WatchdogReset
  BY <1>6, RestartBoots, BootAccounts
<1>7. CASE UNCHANGED vars
  BY <1>7
  DEF vars, memory, writeBack, receive, Accounted, AwaitsWriteBack,
      Receiving, CurrentBlock
<1> QED
  BY <1>1, <1>2, <1>3, <1>4, <1>5, <1>6, <1>7 DEF Next, HostStep

(* A failing transfer costs no chunk but those of its own page, for every  *)
(* size of memory and whatever else fails, is lost or is reset.            *)
THEOREM FailuresStayLocal ==
  ASSUME CompliantHost PROVE Spec => DamageStaysLocal
<1> DEFINE Local == \A b \in Block, c \in Chunk :
                      Accounted(b, c) /\ ~Accounted(b, c)' =>
                        /\ CopyPage /\ PageFails
                        /\ write_block = b /\ page_count = PageOf(c)
<1>1. IInv /\ [Next]_vars => [Local]_vars
  BY StepAccounts DEF ItsPageFails
<1> QED
  BY <1>1, SpecIInv, PTL DEF Spec, DamageStaysLocal

-----------------------------------------------------------------------------
(***************************************************************************)
(* The write-back runs down.                                               *)
(***************************************************************************)

Debt(marked, left) == marked * (PagesPerBlock + 1) + left

(* The pages of the block being copied that are left.                      *)
PagesLeft == IF write_block = NoBlock THEN 0 ELSE PagesPerBlock - page_count

BacklogInside ==
  TypeOK => /\ IsFiniteSet(Dirty) /\ Cardinality(Dirty) \in Nat
            /\ PagesLeft \in 0 .. PagesPerBlock
            /\ Backlog = Debt(Cardinality(Dirty), PagesLeft)

LEMMA BacklogIsInside == BacklogInside
<1> SUFFICES ASSUME TypeOK
             PROVE  /\ IsFiniteSet(Dirty) /\ Cardinality(Dirty) \in Nat
                    /\ PagesLeft \in 0 .. PagesPerBlock
                    /\ Backlog = Debt(Cardinality(Dirty), PagesLeft)
  BY DEF BacklogInside
<1>1. IsFiniteSet(Block)
  BY FS_Interval DEF Block
<1>2. IsFiniteSet(Dirty)
  BY <1>1, FS_Subset DEF Dirty
<1>3. Cardinality(Dirty) \in Nat
  BY <1>2, FS_CardinalityType
<1>4. PagesLeft \in 0 .. PagesPerBlock
  BY DEF TypeOK, Page, PagesLeft
<1> QED
  BY <1>2, <1>3, <1>4 DEF Backlog, Debt, PagesLeft

LEMMA BacklogParts ==
  TypeOK => /\ IsFiniteSet(Dirty) /\ Cardinality(Dirty) \in Nat
            /\ PagesLeft \in 0 .. PagesPerBlock
            /\ Backlog = Debt(Cardinality(Dirty), PagesLeft)
  BY BacklogIsInside DEF BacklogInside

LEMMA BacklogPartsNext ==
  TypeOK' => /\ IsFiniteSet(Dirty') /\ Cardinality(Dirty') \in Nat
             /\ PagesLeft' \in 0 .. PagesPerBlock
             /\ Backlog' = Debt(Cardinality(Dirty'), PagesLeft')
<1>1. BacklogInside'
  BY BacklogIsInside, PTL
<1> QED
  BY <1>1 DEF BacklogInside

(* The arithmetic of it, in which a block counts for more than its pages.  *)
LEMMA Debts ==
  ASSUME NEW n \in Nat, NEW left \in 0 .. PagesPerBlock
  PROVE  /\ Debt(n, left) \in Nat
         /\ Debt(n + 1, left) = Debt(n, left) + PagesPerBlock + 1
<1>1. (n + 1) * (PagesPerBlock + 1)
        = n * (PagesPerBlock + 1) + PagesPerBlock + 1
  OBVIOUS
<1>2. n * (PagesPerBlock + 1) \in Nat
  OBVIOUS
<1> QED
  BY <1>1, <1>2 DEF Debt

(* A block that is picked is paid for with its pages, and one iteration.   *)
LEMMA PickBlockRunsDown ==
  ASSUME IInv, IInv', PickBlock
  PROVE  Backlog' \in 0 .. Backlog - 1
<1>1. TypeOK /\ TypeOK'
  BY DEF IInv
<1>2. PICK k \in Block :
        /\ blocks_written[k]
        /\ write_block' = k
        /\ \A b \in Block : blocks_written'[b]
                              <=> blocks_written[b] /\ b # k
  BY PickBlockTakes
<1>3. Dirty' = Dirty \ {k} /\ k \in Dirty
  BY <1>2 DEF Dirty
<1>4. Cardinality(Dirty') = Cardinality(Dirty) - 1
  BY <1>1, <1>3, BacklogParts, FS_RemoveElement
<1>5. PagesLeft = 0 /\ PagesLeft' = PagesPerBlock
  <2>1. write_block = NoBlock /\ page_count = 0 /\ page_count' = 0
    BY DEF PickBlock, IInv, StartsAtPageZero
  <2>2. write_block' # NoBlock
    BY <1>2 DEF Block, NoBlock
  <2> QED
    BY <2>1, <2>2 DEF PagesLeft
<1> DEFINE n == Cardinality(Dirty')
<1>6. n \in Nat /\ Cardinality(Dirty) = n + 1
  BY <1>1, <1>4, BacklogParts, BacklogPartsNext
<1>7. Backlog = Debt(n + 1, 0) /\ Backlog' = Debt(n, PagesPerBlock)
  BY <1>1, <1>5, <1>6, BacklogParts, BacklogPartsNext
<1> HIDE DEF n
<1>8. Debt(n + 1, 0) = Debt(n, 0) + PagesPerBlock + 1 /\ Debt(n, 0) \in Nat
  BY <1>6, Debts
<1>9. Debt(n, PagesPerBlock) = Debt(n, 0) + PagesPerBlock
  <2>1. n * (PagesPerBlock + 1) \in Nat
    BY <1>6
  <2> QED
    BY <2>1 DEF Debt
<1> QED
  BY <1>7, <1>8, <1>9

(* So is a page, whether its write has failed or not.                      *)
LEMMA CopyPageRunsDown ==
  ASSUME IInv, IInv', CopyPage
  PROVE  Backlog' \in 0 .. Backlog - 1
<1>1. TypeOK /\ TypeOK'
  BY DEF IInv
<1>2. Dirty' = Dirty
  BY DEF CopyPage, Dirty
<1>3. PagesLeft' = PagesLeft - 1
  <2>1. /\ write_block \in Block /\ write_block # NoBlock
        /\ page_count \in 0 .. PagesPerBlock - 1
    BY <1>1 DEF CopyPage, TypeOK, Page
  <2>2. CASE page_count + 1 >= PagesPerBlock
    BY <2>1, <2>2 DEF CopyPage, NextPage, PagesLeft
  <2>3. CASE ~(page_count + 1 >= PagesPerBlock)
    BY <2>1, <2>3 DEF CopyPage, NextPage, PagesLeft
  <2> QED
    BY <2>2, <2>3
<1> DEFINE n == Cardinality(Dirty)
<1>4. /\ n \in Nat /\ PagesLeft \in 0 .. PagesPerBlock
      /\ PagesLeft' \in 0 .. PagesPerBlock
  BY <1>1, BacklogParts, BacklogPartsNext
<1>5. Backlog = Debt(n, PagesLeft) /\ Backlog' = Debt(n, PagesLeft')
  BY <1>1, <1>2, BacklogParts, BacklogPartsNext
<1> HIDE DEF n
<1>6. n * (PagesPerBlock + 1) \in Nat
  BY <1>4
<1> QED
  BY <1>3, <1>4, <1>5, <1>6 DEF Debt

(* A packet of data marks one block at most.                               *)
LEMMA WriteOutAdds ==
  ASSUME IInv, IInv', NEW v \in Values, WriteOut(v)
  PROVE  Backlog' <= Backlog + PagesPerBlock + 1
<1>1. TypeOK /\ TypeOK'
  BY DEF IInv
<1>2. PagesLeft' = PagesLeft
  BY DEF WriteOut, PagesLeft
<1>3. Dirty' = Dirty \/ Dirty' = Dirty \union {DirtyIndex}
  <2>1. CASE blocks_written' = blocks_written
    BY <2>1 DEF Dirty
  <2>2. CASE FinishBlock
    BY <1>1, <2>2 DEF FinishBlock, MarkWritten, Dirty, TypeOK
  <2> QED
    BY <2>1, <2>2 DEF WriteOut
<1> DEFINE n == Cardinality(Dirty)
           m == Cardinality(Dirty')
<1>4. n \in Nat /\ (m = n \/ m = n + 1) /\ PagesLeft \in 0 .. PagesPerBlock
  BY <1>1, <1>3, BacklogParts, FS_AddElement
<1>5. Backlog = Debt(n, PagesLeft) /\ Backlog' = Debt(m, PagesLeft)
  BY <1>1, <1>2, BacklogParts, BacklogPartsNext
<1> HIDE DEF n, m
<1>6. /\ Debt(n, PagesLeft) \in Nat
      /\ Debt(n + 1, PagesLeft) = Debt(n, PagesLeft) + PagesPerBlock + 1
  BY <1>4, Debts
<1> QED
  BY <1>4, <1>5, <1>6

(* After a restart nothing is left.                                        *)
LEMMA BootClears ==
  ASSUME IInv, NEW e \in Contents, Boot(e)
  PROVE  Backlog' <= Backlog
<1>1. Dirty' = {} /\ PagesLeft' = 0
  BY DEF Boot, Dirty, PagesLeft
<1>2. Backlog' = 0
  <2>1. Backlog' = Cardinality(Dirty') * (PagesPerBlock + 1) + PagesLeft'
    BY DEF Backlog, Dirty, PagesLeft
  <2> QED
    BY <1>1, <2>1, FS_EmptySet
<1>3. Backlog \in Nat
  BY BacklogParts, Debts DEF IInv
<1> QED
  BY <1>2, <1>3

(* Every iteration of the write-back leaves one iteration less, and a      *)
(* packet of data adds those of one block at most, whatever fails.         *)
THEOREM WriteBackIsBounded ==
  ASSUME CompliantHost PROVE Spec => WriteBackRunsDown
<1> DEFINE Bounded ==
      /\ PickBlock \/ CopyPage => Backlog' \in 0 .. Backlog - 1
      /\ Backlog' > Backlog =>
           /\ \E v \in Values : WriteOut(v)
           /\ Backlog' <= Backlog + PagesPerBlock + 1
<1>1. ASSUME IInv, IInv', Next PROVE Bounded
  <2>1. Backlog \in Nat
    BY <1>1, BacklogParts, Debts DEF IInv
  <2>2. PickBlock \/ CopyPage => Backlog' \in 0 .. Backlog - 1
    BY <1>1, PickBlockRunsDown, CopyPageRunsDown
  <2>3. ASSUME NEW v \in Values, WriteOut(v)
        PROVE  Backlog' <= Backlog + PagesPerBlock + 1
    BY <1>1, <2>3, WriteOutAdds
  <2>4. ASSUME \/ \E r \in Request : BeginWrite(r[1], r[2])
               \/ \E r \in Request : BeginRead(r[1])
               \/ EepromDone
        PROVE  Backlog' = Backlog
    BY <2>4 DEF BeginWrite, BeginRead, EepromDone, writeBack, Backlog, Dirty
  <2>5. ASSUME PowerCut \/ WatchdogReset PROVE Backlog' <= Backlog
    BY <1>1, <2>5, RestartBoots, BootClears
  <2>6. PickBlock \/ CopyPage => ~(Backlog' > Backlog)
    BY <2>1, <2>2
  <2>7. Backlog' \in Nat
    BY <1>1, BacklogPartsNext, Debts DEF IInv
  <2> QED
    BY <1>1, <2>1, <2>2, <2>3, <2>4, <2>5, <2>6, <2>7 DEF Next, HostStep
<1>2. IInv /\ IInv' /\ [Next]_vars => [Bounded]_vars
  BY <1>1
<1> QED
  BY <1>2, SpecIInv, PTL DEF Spec, WriteBackRunsDown

-----------------------------------------------------------------------------
(***************************************************************************)
(* Without TWI errors every chunk is read and none is given up.            *)
(***************************************************************************)

CInv == /\ IInv
        /\ ram \in Contents
        /\ Coherent

LEMMA InitCInv == ASSUME NoTwiError PROVE Init => CInv
<1> SUFFICES ASSUME Init PROVE CInv
  OBVIOUS
<1>1. ram = eeprom /\ eeprom \in Contents
  BY DEF Init, Loaded, NoTwiError
<1> QED
  BY <1>1, InitIInv DEF CInv, Coherent

LEMMA StepCInv ==
  ASSUME CompliantHost, NoTwiError, CInv, [Next]_vars
  PROVE  CInv'
<1>1. IInv'
  BY StepIInv DEF CInv
<1>2. ram' \in Contents
  <2>1. ASSUME NEW r \in Request, BeginWrite(r[1], r[2]) \/ BeginRead(r[1])
        PROVE  ram' = ram
    BY <2>1 DEF BeginWrite, BeginRead, memory
  <2>2. ASSUME NEW v \in Values, WriteOut(v) PROVE ram' \in Contents
    BY <2>2 DEF WriteOut, CInv, Contents
  <2>3. CASE PickBlock \/ CopyPage \/ EepromDone \/ UNCHANGED vars
    BY <2>3 DEF PickBlock, CopyPage, EepromDone, vars, memory, CInv
  <2>4. CASE PowerCut \/ WatchdogReset
    BY <2>4, RestartBoots DEF CInv, Boot, Loaded, NoTwiError
  <2> QED
    BY <2>1, <2>2, <2>3, <2>4 DEF Next, HostStep, CInv
<1>3. Coherent'
  <2> SUFFICES ASSUME NEW b \in Block, NEW c \in Chunk
               PROVE  (eeprom[b][c] = ram[b][c] \/ AwaitsWriteBack(b, c))'
    BY DEF Coherent
  <2>1. Accounted(b, c) /\ ~ItsPageFails(b, c)
    BY DEF CInv, Coherent, Accounted, ItsPageFails, PageFails, NoTwiError
  <2>2. Accounted(b, c)'
    BY <2>1, StepAccounts DEF CInv
  <2>3. ram'[b][c] # Unread
    BY <1>2, ContentsRead
  <2> QED
    BY <2>2, <2>3 DEF Accounted
<1> QED
  BY <1>1, <1>2, <1>3 DEF CInv

LEMMA SpecCInv == ASSUME CompliantHost, NoTwiError PROVE Spec => []CInv
<1>1. CInv /\ [Next]_vars => CInv'
  BY StepCInv
<1> QED
  BY <1>1, InitCInv, PTL DEF Spec

(* SRAM and EEPROM differ only where the write-back still has to come.     *)
THEOREM Coherence ==
  ASSUME CompliantHost, NoTwiError PROVE Spec => []Coherent
<1>1. CInv => Coherent
  BY DEF CInv
<1> QED
  BY <1>1, SpecCInv, PTL

-----------------------------------------------------------------------------
(***************************************************************************)
(* The storage implements BlockStore.                                      *)
(***************************************************************************)

(* Requests change no data: the blocks that are pending stay pending.      *)
LEMMA RequestStutters ==
  ASSUME IInv, NEW r \in Request, BeginWrite(r[1], r[2]) \/ BeginRead(r[1])
  PROVE  UNCHANGED Promise!vars
<1>1. UNCHANGED <<memory, writeBack>> /\ ~is_writing
  BY DEF BeginWrite, BeginRead
<1>2. \A b \in Block : ~Receiving(b) /\ ~Receiving(b)'
  BY DEF BeginWrite, BeginRead, Receiving
<1>3. Pending' = Pending
  BY <1>1, <1>2 DEF Pending, memory, writeBack
<1> QED
  BY <1>1, <1>3 DEF Promise!vars, memory

(* A packet of data is one write to the disk; its block becomes pending.   *)
LEMMA WriteOutWrites ==
  ASSUME IInv, NEW v \in Values, WriteOut(v)
  PROVE  Promise!Write(CurrentBlock, count, v) /\ CurrentBlock \in Block
<1> DEFINE cur == CurrentBlock
<1>1. cur \in Block /\ DirtyIndex = cur
  BY InRangeIndex DEF IInv, WriteOut
<1>2. /\ is_writing
      /\ ram' = [ram EXCEPT ![cur][count] = v]
      /\ UNCHANGED <<eeprom, programming, write_block, page_count,
                     logical_block, transfer_length_write>>
  BY DEF WriteOut
<1>3. \A b \in Block : b # cur => ~Receiving(b)
  BY DEF Receiving
<1>4. ASSUME /\ count + 1 < ChunksPerBlock
             /\ count' = count + 1
             /\ UNCHANGED <<is_writing, is_writing_beginning, write_page,
                            blocks_written>>
      PROVE  Pending' = Pending \union {cur}
  <2>1. CurrentBlock' = cur
    BY <1>2, <1>4 DEF CurrentBlock
  <2>2. count' > 0
    BY <1>4, BlockNotEmpty DEF IInv, TypeOK, Chunk
  <2>3. \A b \in Block : Receiving(b)' <=> b = cur
    BY <1>2, <1>4, <2>1, <2>2 DEF Receiving
  <2> QED
    BY <1>1, <1>2, <1>3, <1>4, <2>3 DEF Pending
<1>5. ASSUME count + 1 = ChunksPerBlock, FinishBlock
      PROVE  Pending' = Pending \union {cur}
  <2>1. /\ blocks_written' = [blocks_written EXCEPT ![cur] = TRUE]
        /\ count' = 0
    BY <1>1, <1>5 DEF FinishBlock, MarkWritten
  <2>2. \A b \in Block : ~Receiving(b)'
    BY <2>1 DEF Receiving
  <2>3. \A b \in Block : blocks_written'[b] <=> blocks_written[b] \/ b = cur
    BY <1>1, <2>1 DEF IInv, TypeOK
  <2> QED
    BY <1>1, <1>2, <1>3, <2>2, <2>3 DEF Pending
<1>6. Pending' = Pending \union {cur}
  BY <1>4, <1>5 DEF WriteOut
<1> QED
  BY <1>1, <1>2, <1>6 DEF Promise!Write

(* A dirty block that is picked was pending and stays so.                  *)
LEMMA PickBlockStutters ==
  ASSUME IInv, PickBlock
  PROVE  UNCHANGED Promise!vars
<1>1. PICK k \in Block :
        /\ blocks_written[k]
        /\ write_block' = k
        /\ blocks_written' = [blocks_written EXCEPT ![k] = FALSE]
  BY DEF PickBlock, LowestDirty
<1>2. write_block = NoBlock /\ UNCHANGED <<memory, page_count, receive>>
  BY DEF PickBlock
<1>3. \A b \in Block : Receiving(b)' <=> Receiving(b)
  BY <1>2 DEF Receiving, CurrentBlock, receive
<1>4. \A b \in Block :
        (blocks_written'[b] \/ write_block' = b)
          <=> (blocks_written[b] \/ write_block = b)
  <2> SUFFICES ASSUME NEW b \in Block
               PROVE  (blocks_written'[b] \/ write_block' = b)
                        <=> (blocks_written[b] \/ write_block = b)
    OBVIOUS
  <2>1. CASE b = k
    BY <1>1, <2>1
  <2>2. CASE b # k
    <3>1. blocks_written'[b] = blocks_written[b]
      BY <1>1, <2>2 DEF IInv, TypeOK
    <3>2. write_block # b
      BY <1>2 DEF NoBlock, Block
    <3> QED
      BY <1>1, <2>2, <3>1, <3>2
  <2> QED
    BY <2>1, <2>2
<1>5. Pending' = Pending
  BY <1>2, <1>3, <1>4 DEF Pending, memory
<1> QED
  BY <1>2, <1>5 DEF Promise!vars, memory

(* A copied page persists; its block is pending until the write cycle ends.*)
LEMMA CopyPagePersists ==
  ASSUME IInv, CopyPage, NoTwiError
  PROVE  \E b \in Block, cs \in SUBSET Chunk : Promise!Persist(b, cs)
<1> DEFINE w == write_block
           cs == {c \in Chunk : PageOf(c) = page_count}
<1>1. w \in Block
  BY DEF CopyPage, IInv, TypeOK
<1>2. /\ eeprom' = [eeprom EXCEPT ![w] =
                     [c \in Chunk |-> IF PageOf(c) = page_count
                                        THEN ram[w][c] ELSE @[c]]]
      /\ programming = NoPage
      /\ programming' = <<w, page_count>>
      /\ write_block' \in {w, NoBlock}
      /\ UNCHANGED <<ram, blocks_written, receive>>
  BY DEF CopyPage, PageWritten, PageFails, NextPage, NoTwiError
<1>3. eeprom' = [eeprom EXCEPT ![w] =
                   [c \in Chunk |-> IF c \in cs THEN ram[w][c] ELSE @[c]]]
  BY <1>2
<1>4. Pending' = Pending /\ w \in Pending
  <2>1. \A b \in Block : Receiving(b)' <=> Receiving(b)
    BY <1>2 DEF Receiving, CurrentBlock, receive
  <2>2. \A b \in Block : /\ programming[1] # b
                         /\ programming'[1] = b <=> b = w
                         /\ write_block' = b => b = w
    BY <1>1, <1>2 DEF NoPage, NoBlock, Block
  <2> QED
    BY <1>1, <1>2, <2>1, <2>2 DEF Pending
<1>5. Promise!Persist(w, cs)
  BY <1>2, <1>3, <1>4 DEF Promise!Persist
<1> QED
  BY <1>1, <1>5

(* At the end of a write cycle the block is settled, or still pending for  *)
(* another reason.                                                         *)
LEMMA EepromDoneSettles ==
  ASSUME CInv, EepromDone
  PROVE  \/ \E b \in Block : Promise!Settle(b)
         \/ UNCHANGED Promise!vars
<1> DEFINE d == programming[1]
<1>1. /\ d \in Block
      /\ programming' = NoPage
      /\ UNCHANGED <<ram, eeprom, writeBack, receive>>
  BY DEF EepromDone, CInv, IInv, TypeOK
<1>2. \A b \in Block : Receiving(b)' <=> Receiving(b)
  BY <1>1 DEF Receiving, CurrentBlock, receive
<1>3. \A b \in Block : programming'[1] # b
  BY <1>1 DEF NoPage, Block
<1>4. CASE blocks_written[d] \/ write_block = d \/ Receiving(d)
  <2>1. Pending' = Pending
    BY <1>1, <1>2, <1>3, <1>4 DEF Pending, writeBack
  <2> QED
    BY <1>1, <2>1 DEF Promise!vars
<1>5. CASE ~(blocks_written[d] \/ write_block = d \/ Receiving(d))
  <2>1. Pending' = Pending \ {d} /\ d \in Pending
    BY <1>1, <1>2, <1>3, <1>5 DEF Pending, writeBack
  <2>2. \A c \in Chunk : eeprom[d][c] = ram[d][c]
    BY <1>1, <1>5 DEF CInv, Coherent, AwaitsWriteBack
  <2>3. eeprom[d] = ram[d]
    BY <1>1, <2>2 DEF CInv, IInv, TypeOK, Image
  <2>4. Promise!Settle(d)
    BY <1>1, <2>1, <2>3 DEF Promise!Settle
  <2> QED
    BY <1>1, <2>4
<1> QED
  BY <1>4, <1>5

(* After a restart only the page that was in its write cycle may be lost,  *)
(* and its block was pending.                                              *)
LEMMA RestartCrashes ==
  ASSUME NoTwiError, IInv, PowerCut \/ WatchdogReset
  PROVE  Promise!Crash
<1> DEFINE torn == {b \in Block : programming[1] = b}
<1>1. PICK e \in Contents :
        /\ \A b \in Block, c \in Chunk :
             <<b, PageOf(c)>> # programming => e[b][c] = eeprom[b][c]
        /\ Boot(e)
  BY RestartBoots
<1>2. eeprom' = e /\ ram' = e
  BY <1>1 DEF Boot, Loaded, NoTwiError
<1>3. \A b \in Block \ torn : e[b] = eeprom[b]
  <2> SUFFICES ASSUME NEW b \in Block \ torn PROVE e[b] = eeprom[b]
    OBVIOUS
  <2>1. \A c \in Chunk : e[b][c] = eeprom[b][c]
    BY <1>1
  <2> QED
    BY <2>1 DEF IInv, TypeOK, Contents, Image
<1>4. torn \in SUBSET Pending /\ \A b, bb \in torn : b = bb
  BY DEF Pending
<1>5. Pending' = {}
  <2>1. /\ \A b \in Block : ~blocks_written'[b]
        /\ write_block' = NoBlock
        /\ programming' = NoPage
        /\ \A b \in Block : ~Receiving(b)'
    BY <1>1 DEF Boot, Receiving
  <2> QED
    BY <2>1 DEF Pending, NoBlock, NoPage, Block
<1>6. Promise!Contents = Contents
  BY DEF Promise!Contents, Contents
<1> QED
  BY <1>2, <1>3, <1>4, <1>5, <1>6 DEF Promise!Crash

LEMMA InitRefines == ASSUME NoTwiError PROVE Init => Promise!Init
<1> SUFFICES ASSUME Init PROVE Promise!Init
  OBVIOUS
<1>1. ram = eeprom /\ eeprom \in Contents
  BY DEF Init, Loaded, NoTwiError
<1>2. Pending = {}
  <2>1. \A b \in Block : ~Receiving(b) /\ ~blocks_written[b]
    BY DEF Init, Receiving
  <2> QED
    BY <2>1 DEF Init, Pending, NoBlock, NoPage, Block
<1>3. Promise!Contents = Contents
  BY DEF Promise!Contents, Contents
<1> QED
  BY <1>1, <1>2, <1>3 DEF Promise!Init

LEMMA StepRefines ==
  ASSUME NoTwiError, CInv, [Next]_vars
  PROVE  [Promise!Next]_(Promise!vars)
<1> USE DEF CInv
<1>1. ASSUME NEW r \in Request, BeginWrite(r[1], r[2]) \/ BeginRead(r[1])
      PROVE  UNCHANGED Promise!vars
  BY <1>1, RequestStutters
<1>2. ASSUME NEW v \in Values, WriteOut(v) PROVE Promise!Next
  <2>1. Promise!Write(CurrentBlock, count, v) /\ CurrentBlock \in Block
    BY <1>2, WriteOutWrites
  <2>2. count \in Chunk
    BY DEF IInv, TypeOK
  <2> QED
    BY <2>1, <2>2 DEF Promise!Next
<1>3. CASE PickBlock
  BY <1>3, PickBlockStutters
<1>4. CASE CopyPage
  BY <1>4, CopyPagePersists DEF Promise!Next
<1>5. CASE EepromDone
  BY <1>5, EepromDoneSettles DEF Promise!Next
<1>6. CASE PowerCut \/ WatchdogReset
  BY <1>6, RestartCrashes DEF Promise!Next
<1>7. CASE UNCHANGED vars
  <2>1. Pending' = Pending
    BY <1>7 DEF vars, memory, writeBack, receive, Pending, Receiving,
       CurrentBlock
  <2> QED
    BY <1>7, <2>1 DEF Promise!vars, vars, memory
<1> QED
  BY <1>1, <1>2, <1>3, <1>4, <1>5, <1>6, <1>7 DEF Next, HostStep

(* The storage keeps its promise for every size of memory: what the host   *)
(* reads is what was written last, and a loss of power or a reset at any   *)
(* step costs at most the contents of one block whose data was not stored. *)
THEOREM StorageKeepsPromise ==
  ASSUME CompliantHost, NoTwiError PROVE Spec => KeepsPromise
<1>1. Init => Promise!Init
  BY InitRefines
<1>2. CInv /\ [Next]_vars => [Promise!Next]_(Promise!vars)
  BY StepRefines
<1> QED
  BY <1>1, <1>2, SpecCInv, PTL DEF Spec, KeepsPromise, Promise!Spec
=============================================================================
