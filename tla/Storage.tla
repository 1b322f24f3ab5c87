------------------------------ MODULE Storage ------------------------------
(***************************************************************************)
(* The storage half of the firmware: the 64 KiB SRAM that holds the disk   *)
(* while the device runs, the EEPROM it is loaded from and written back    *)
(* to, the receive path of a WRITE (usbFunctionWriteOut) and the           *)
(* write-back at the end of the main loop.                                 *)
(*                                                                         *)
(* One chunk is the 8 bytes of one USB packet.  The host appears only as   *)
(* the requests it makes: BeginWrite, BeginRead and WriteOut take their    *)
(* arguments from it.  All of this code runs in the main loop, one handler *)
(* after the other, so each handler is one action.                         *)
(***************************************************************************)
EXTENDS Integers, FiniteSets

CONSTANTS
  Blocks,         \* logical blocks; 128 in main.h
  PagesPerBlock,  \* EEPROM pages in a block; 512 / 128 = 4 in the code
  ChunksPerPage,  \* USB packets in an EEPROM page; 128 / 8 = 16 in the code
  Uint8,          \* 2^8, the modulus of the code's uint8_t
  Values,         \* what a chunk can hold
  Unread,         \* what an SRAM chunk holds after a read that failed: bytes
                  \* that come neither from the EEPROM nor from the host
  LastLba,        \* the last block the host addresses
  Faults          \* what may go wrong, of "read", "write" and "power":
                  \* an EEPROM read or write returning TWI_ERR, and losses
                  \* of power and watchdog resets

ASSUME SizesAssumption ==
  /\ Blocks \in Nat \ {0}
  /\ PagesPerBlock \in Nat \ {0}
  /\ ChunksPerPage \in Nat \ {0}
  /\ Uint8 \in Nat /\ Uint8 > Blocks
  /\ LastLba \in Nat

ASSUME FaultsAssumption == Faults \subseteq {"read", "write", "power"}

ASSUME UnreadAssumption == Unread \notin Values

Block          == 0 .. Blocks - 1
ChunksPerBlock == PagesPerBlock * ChunksPerPage
Chunk          == 0 .. ChunksPerBlock - 1
Page           == 0 .. PagesPerBlock - 1
Contents       == [Block -> [Chunk -> Values]]
Image          == [Block -> [Chunk -> Values \union {Unread}]]

(* The EEPROM page, inside its block, that a chunk belongs to.             *)
PageOf(c) == c \div ChunksPerPage

NoBlock == -1            \* write_block < 0: no block is being written back
NoPage  == <<-1, -1>>    \* no EEPROM page is in its write cycle

VARIABLES
  ram,                   \* ram[b][c]: the SRAM
  eeprom,                \* eeprom[b][c]: the EEPROM array
  programming,           \* the <<block, page>> in its self-timed write cycle
  blocks_written,        \* blocks_written[b]: the dirty bit of block b
  write_block,           \* the block being written back, or NoBlock
  page_count,            \* the write-back's static count: pages copied
  is_writing,            \* the data of a WRITE is being received
  is_writing_beginning,  \* write_page belongs to the WRITE in progress
  logical_block,         \* first block of the command; READ sets it too
  write_page,            \* blocks of the WRITE received so far
  count,                 \* chunks of the current block received so far
  transfer_length_write  \* blocks the WRITE has

memory    == <<ram, eeprom, programming>>
writeBack == <<blocks_written, write_block, page_count>>
receive   == <<is_writing, is_writing_beginning, logical_block, write_page,
               count, transfer_length_write>>
vars      == <<memory, writeBack, receive>>

(***************************************************************************)
(* The receive path of a WRITE.                                            *)
(***************************************************************************)

(* Mutant of CurrentBlock: every block of a WRITE goes to the first.       *)
CurrentBlockFirst == logical_block % Blocks

(* The SRAM block behind the chunks received now: the 16-bit address wraps *)
(* at 64 KiB, which is a whole number of blocks.                           *)
CurrentBlock == (logical_block + write_page) % Blocks

(* Mutant of DirtyIndex: write_page is forgotten.                          *)
DirtyIndexOfFirst == logical_block % Uint8

(* The dirty bit that is set at its end, computed in a uint8_t.            *)
DirtyIndex == (logical_block + write_page) % Uint8

(* Blocks with chunks in the SRAM that no dirty bit records yet.           *)
Receiving(b) == is_writing /\ count > 0 /\ b = CurrentBlock

(* execute_cbw on WRITE.  A CBW is only parsed, and so only executed, when *)
(* usbFunctionWriteOut takes its else branch.                              *)
BeginWrite(lba, length) ==
  /\ ~is_writing
  /\ is_writing' = TRUE
  /\ is_writing_beginning' = TRUE
  /\ write_page' = IF is_writing_beginning THEN write_page ELSE 0
  /\ logical_block' = lba
  /\ count' = 0
  /\ transfer_length_write' = length % Uint8
  /\ UNCHANGED <<memory, writeBack>>

(* execute_cbw on READ, as far as the storage sees it: the receive path    *)
(* and execute_read share logical_block.                                   *)
BeginRead(lba) ==
  /\ ~is_writing
  /\ logical_block' = lba
  /\ UNCHANGED <<memory, writeBack, is_writing, is_writing_beginning,
                 write_page, count, transfer_length_write>>

(* A bit past the 16 bytes of blocks_written lands in another variable;    *)
(* the build decides which, and none of those modelled here is changed.    *)
MarkWritten(i) ==
  blocks_written' =
    IF i \in Block THEN [blocks_written EXCEPT ![i] = TRUE] ELSE blocks_written

(* write_page once the current block is complete.                          *)
Received == (write_page + 1) % Uint8

(* Mutant of LastBlock: the WRITE ends one block late.                     *)
LastBlockLate == Received > transfer_length_write

(* The block being received is the last one of the WRITE.                  *)
LastBlock == Received = transfer_length_write

(* Mutant of FinishBlock: is_writing stays set.                            *)
FinishBlockStill ==
  /\ MarkWritten(DirtyIndex)
  /\ write_page' = Received
  /\ count' = 0
  /\ UNCHANGED <<is_writing, is_writing_beginning>>

(* The last chunk of a block: its dirty bit, and the end of the WRITE.     *)
FinishBlock ==
  /\ MarkWritten(DirtyIndex)
  /\ write_page' = Received
  /\ count' = 0
  /\ is_writing' = (is_writing /\ ~LastBlock)
  /\ is_writing_beginning' = (is_writing_beginning /\ ~LastBlock)

(* Mutant of WriteOut: the dirty bit is set as soon as data arrives.       *)
WriteOutEager(v) ==
  /\ is_writing
  /\ ram' = [ram EXCEPT ![CurrentBlock][count] = v]
  /\ \/ /\ count + 1 < ChunksPerBlock
        /\ count' = count + 1
        /\ MarkWritten(DirtyIndex)
        /\ UNCHANGED <<is_writing, is_writing_beginning, write_page>>
     \/ /\ count + 1 = ChunksPerBlock
        /\ FinishBlock
  /\ UNCHANGED <<eeprom, programming, write_block, page_count, logical_block,
                 transfer_length_write>>

(* usbFunctionWriteOut with is_writing set: one packet of data.            *)
WriteOut(v) ==
  /\ is_writing
  /\ ram' = [ram EXCEPT ![CurrentBlock][count] = v]
  /\ \/ /\ count + 1 < ChunksPerBlock
        /\ count' = count + 1
        /\ UNCHANGED <<is_writing, is_writing_beginning, write_page,
                       blocks_written>>
     \/ /\ count + 1 = ChunksPerBlock
        /\ FinishBlock
  /\ UNCHANGED <<eeprom, programming, write_block, page_count, logical_block,
                 transfer_length_write>>

(* Mutant of CompletesWrite: write_page is compared before it counts the   *)
(* block.                                                                  *)
CompletesWriteLate ==
  /\ count + 1 = ChunksPerBlock
  /\ write_page = transfer_length_write

(* The WRITE that this chunk completes gets its CSW queued by              *)
(* execute_writing_finished.                                               *)
CompletesWrite ==
  /\ count + 1 = ChunksPerBlock
  /\ LastBlock

(***************************************************************************)
(* The write-back at the end of each iteration of the main loop.           *)
(***************************************************************************)

(* Mutant of LowestDirty: the scan misses the last block.                  *)
LowestDirtyShort(b) ==
  /\ b < Blocks - 1
  /\ blocks_written[b]
  /\ \A lower \in 0 .. b - 1 : ~blocks_written[lower]

(* The block the scan of blocks_written stops at.                          *)
LowestDirty(b) ==
  /\ blocks_written[b]
  /\ \A lower \in 0 .. b - 1 : ~blocks_written[lower]

PickBlock ==
  /\ write_block = NoBlock
  /\ \E b \in Block :
       /\ LowestDirty(b)
       /\ write_block' = b
       /\ blocks_written' = [blocks_written EXCEPT ![b] = FALSE]
  /\ UNCHANGED <<memory, page_count, receive>>

(* Mutants of NextPage: one page too many, and one too few.                *)
NextPageMore ==
  IF page_count + 1 > PagesPerBlock
    THEN page_count' = 0 /\ write_block' = NoBlock
    ELSE page_count' = page_count + 1 /\ UNCHANGED write_block

NextPageFewer ==
  IF page_count + 2 >= PagesPerBlock
    THEN page_count' = 0 /\ write_block' = NoBlock
    ELSE page_count' = page_count + 1 /\ UNCHANGED write_block

(* Mutant of NextPage: write_block is never reset.                         *)
NextPageForever ==
  /\ page_count' = (page_count + 1) % PagesPerBlock
  /\ UNCHANGED write_block

(* count++ and the reset after the last page.                              *)
NextPage ==
  IF page_count + 1 >= PagesPerBlock
    THEN page_count' = 0 /\ write_block' = NoBlock
    ELSE page_count' = page_count + 1 /\ UNCHANGED write_block

(* ext_eeprom_write_block gets one page of the SRAM; it first waits for    *)
(* the previous write cycle to end.                                        *)
PageWritten ==
  /\ programming = NoPage
  /\ eeprom' = [eeprom EXCEPT ![write_block] =
                  [c \in Chunk |-> IF PageOf(c) = page_count
                                     THEN ram[write_block][c] ELSE @[c]]]
  /\ programming' = <<write_block, page_count>>

(* The same call when it returns TWI_ERR (no acknowledge, or a write cycle *)
(* longer than the 5 ms it waits).                                         *)
PageFails ==
  /\ "write" \in Faults
  /\ UNCHANGED <<eeprom, programming>>

(* The write-back does not look at the result.  No other code of the main  *)
(* loop runs in between, so the page is copied in one step.                *)
CopyPage ==
  /\ write_block # NoBlock
  /\ PageWritten \/ PageFails
  /\ NextPage
  /\ UNCHANGED <<ram, blocks_written, receive>>

(* The EEPROM finishes its write cycle.                                    *)
EepromDone ==
  /\ programming # NoPage
  /\ programming' = NoPage
  /\ UNCHANGED <<ram, eeprom, writeBack, receive>>

(***************************************************************************)
(* Start-up.                                                               *)
(***************************************************************************)

(* What the SRAM can hold once it is loaded from an EEPROM that holds e: a *)
(* read that fails leaves what was in the uninitialised buffer in its      *)
(* place.                                                                  *)
Loaded(e) ==
  IF "read" \in Faults
    THEN {r \in Image : \A b \in Block, c \in Chunk :
                           r[b][c] \in {e[b][c], Unread}}
    ELSE {e}

(* main() up to its loop: the C start-up code gives the variables their    *)
(* initial values, then the SRAM is loaded.                                *)
Boot(e) ==
  /\ eeprom' = e
  /\ ram' \in Loaded(e)
  /\ programming' = NoPage
  /\ blocks_written' = [b \in Block |-> FALSE]
  /\ write_block' = NoBlock
  /\ page_count' = 0
  /\ is_writing' = FALSE
  /\ is_writing_beginning' = FALSE
  /\ logical_block' = 0
  /\ write_page' = 0
  /\ count' = 0
  /\ transfer_length_write' = 0

(* The supply fails.  A page in its write cycle is left with anything.     *)
PowerCut ==
  /\ "power" \in Faults
  /\ \E e \in Contents :
       /\ \A b \in Block, c \in Chunk :
            <<b, PageOf(c)>> # programming => e[b][c] = eeprom[b][c]
       /\ Boot(e)

(* The watchdog resets the processor; the EEPROM keeps its supply, and the *)
(* loading of the SRAM waits for its write cycle.                          *)
WatchdogReset == "power" \in Faults /\ Boot(eeprom)

Init ==
  /\ eeprom \in Contents
  /\ ram \in Loaded(eeprom)
  /\ programming = NoPage
  /\ blocks_written = [b \in Block |-> FALSE]
  /\ write_block = NoBlock
  /\ page_count = 0
  /\ is_writing = FALSE
  /\ is_writing_beginning = FALSE
  /\ logical_block = 0
  /\ write_page = 0
  /\ count = 0
  /\ transfer_length_write = 0

(* The host's requests, <<block, length>>, of blocks it takes to exist.    *)
Request == {r \in (0 .. LastLba) \X (1 .. LastLba + 1) :
              r[1] + r[2] <= LastLba + 1}

HostStep == \/ \E r \in Request : BeginWrite(r[1], r[2])
            \/ \E r \in Request : BeginRead(r[1])
            \/ \E v \in Values : WriteOut(v)

Next == \/ HostStep
        \/ PickBlock
        \/ CopyPage
        \/ EepromDone
        \/ PowerCut
        \/ WatchdogReset

(* The write-back runs in every iteration of a loop that never blocks for  *)
(* long, and the EEPROM ends its write cycles by itself.                   *)
Fairness == /\ WF_vars(PickBlock)
            /\ WF_vars(CopyPage)
            /\ WF_vars(EepromDone)

Spec     == Init /\ [][Next]_vars
FairSpec == Spec /\ Fairness

-----------------------------------------------------------------------------
(***************************************************************************)
(* Properties.                                                             *)
(***************************************************************************)

(* Every variable keeps to its range; write_page and transfer_length_write *)
(* stay in a uint8_t, and the write-back never indexes past a block.       *)
TypeOK ==
  /\ ram \in Image
  /\ eeprom \in Image
  /\ programming \in (Block \X Page) \union {NoPage}
  /\ blocks_written \in [Block -> BOOLEAN]
  /\ write_block \in Block \union {NoBlock}
  /\ page_count \in Page
  /\ is_writing \in BOOLEAN
  /\ is_writing_beginning \in BOOLEAN
  /\ logical_block \in 0 .. LastLba
  /\ write_page \in 0 .. Uint8 - 1
  /\ count \in Chunk
  /\ transfer_length_write \in 0 .. Uint8 - 1

(* The reasons a chunk of the EEPROM may differ from the SRAM: its block's *)
(* dirty bit is set, the write-back has not come to its page, or it was    *)
(* received and the dirty bit is set when the block is complete.           *)
AwaitsWriteBack(b, c) ==
  \/ blocks_written[b]
  \/ write_block = b /\ PageOf(c) >= page_count
  \/ Receiving(b) /\ c < count

(* No data the host wrote is forgotten: a chunk that differs between SRAM  *)
(* and EEPROM is one that main.c's write-back still has to reach, although *)
(* it clears the dirty bit before it copies (main.c:218, 236) and the host *)
(* may rewrite a block at any point in between.                            *)
Coherent ==
  \A b \in Block, c \in Chunk :
    eeprom[b][c] = ram[b][c] \/ AwaitsWriteBack(b, c)

(* A chunk is accounted for if SRAM and EEPROM agree on it, if they will   *)
(* once the write-back has come, or if the SRAM never got its data.        *)
Accounted(b, c) ==
  eeprom[b][c] = ram[b][c] \/ AwaitsWriteBack(b, c) \/ ram[b][c] = Unread

(* What fails, fails for itself: whatever operations return TWI_ERR and    *)
(* whenever power is lost, a chunk comes to differ for good in one way     *)
(* only, the failing write of its own page (main.c:238).  A failure neither*)
(* reaches the other pages of the block nor any other block, although the  *)
(* write-back goes on as if the page were stored.                          *)
DamageStaysLocal ==
  [][\A b \in Block, c \in Chunk :
       Accounted(b, c) /\ ~Accounted(b, c)' =>
         /\ CopyPage /\ PageFails
         /\ write_block = b /\ page_count = PageOf(c)]_vars

(* A read that fails while the SRAM is loaded (main.c:170) shows the host  *)
(* wrong data but destroys none: bytes of the uninitialised buffer never   *)
(* come into the EEPROM, because a block is written back only when every   *)
(* chunk of it has come from the host since.                               *)
UnreadNeverStored == \A b \in Block, c \in Chunk : eeprom[b][c] # Unread

(* A WRITE ends at the block its command named last: write_page reaches    *)
(* transfer_length_write exactly (main.c:280 compares with ==, so a count  *)
(* that steps over it would go on through the whole memory), and none of   *)
(* its blocks lies past the end of blocks_written.                         *)
WriteInRange ==
  is_writing => /\ write_page < transfer_length_write
                /\ logical_block + transfer_length_write <= Blocks

(* The blocks the device has accepted data for and has not stored yet.     *)
Pending ==
  {b \in Block : \/ blocks_written[b]
                 \/ write_block = b
                 \/ programming[1] = b
                 \/ Receiving(b)}

(* The promise: the SRAM is the disk and the EEPROM the durable copy.      *)
Promise == INSTANCE BlockStore
             WITH disk <- ram, durable <- eeprom, pending <- Pending

(* The storage keeps the promise: whatever the host writes while main.c    *)
(* writes back, a loss of power costs no block but the one being stored,   *)
(* and a block counts as stored only when its EEPROM pages are the SRAM's. *)
KeepsPromise == Promise!Spec

(* The iterations of the write-back that are left: for each dirty block    *)
(* one that picks it and one for each of its pages.                        *)
Dirty   == {b \in Block : blocks_written[b]}
Backlog == Cardinality(Dirty) * (PagesPerBlock + 1)
             + (IF write_block = NoBlock THEN 0
                                         ELSE PagesPerBlock - page_count)

(* Every iteration of the write-back (main.c:209-244) leaves one iteration *)
(* less, failing page writes included, and nothing but the last chunk of a *)
(* block adds to them, one block's.  Data that is overwritten while it is  *)
(* copied costs its block once more, not the write-back its end.           *)
WriteBackRunsDown ==
  [][/\ PickBlock \/ CopyPage => Backlog' \in 0 .. Backlog - 1
     /\ Backlog' > Backlog =>
          /\ \E v \in Values : WriteOut(v)
          /\ Backlog' <= Backlog + PagesPerBlock + 1]_vars

(* Write-back ends: once the host sends nothing any more, the loop of      *)
(* main.c:209-244 brings every block it has wholly received into the       *)
(* EEPROM, whichever order the dirty bits are served in.                   *)
WriteBackFinishes ==
  <>[][~HostStep]_vars
    => <>[](\A b \in Block : Receiving(b) \/ eeprom[b] = ram[b])

(* The write-back does not hang on a failing EEPROM: once the host sends   *)
(* nothing any more it comes to rest with no block left to copy, and       *)
(* main.c:229-231 turns the red LED off, also when ext_eeprom_write_block  *)
(* returns TWI_ERR.  That the data then need not be stored is what         *)
(* WriteBackFinishes shows.                                                *)
WriteBackGoesIdle ==
  <>[][~HostStep]_vars
    => <>[](write_block = NoBlock /\ \A b \in Block : ~blocks_written[b])
=============================================================================
