# A TLA+ model of the AVR USB flash drive

The firmware in `src/` makes an ATmega16 a USB mass-storage device: V-USB speaks
low-speed USB in software, an external SRAM of 64 KiB is the disk while the
device runs, and an EEPROM of the same size on the TWI bus keeps it. The SRAM is
loaded from the EEPROM at start-up; everything the host writes goes to the SRAM
and is copied back to the EEPROM by the main loop.

This directory holds TLA+ modules of that firmware, configurations that let TLC
check them on small instances, and proofs that TLAPS checks for every size.
`PROJECT.json` maps each definition to the lines it models, and lists the runs,
the mutants that show each property can fail, the hazards and the findings.

## The system

| Part | State it keeps | Operations | Interacts with |
|---|---|---|---|
| Receive path of WRITE (`main.c:250-287`) | `is_writing`, `is_writing_beginning`, `write_page`, `count`, `transfer_length_write`, `logical_block` (of `commands.c`) | `set_writing`, `set_writing_beginning`, `usbFunctionWriteOut` | stores to the SRAM, sets dirty bits, queues the CSW |
| Write-back (`main.c:209-244`) | `blocks_written`, `write_block`, its static `count` | pick the lowest dirty block; copy one page per iteration | reads the SRAM, calls `ext_eeprom_write_block` |
| Start-up (`main.c:153-197`) | all variables | load the SRAM, watchdog, USB | EEPROM, driver |
| Command block (`main.c:288-305`) | `cbw`, `cbw_progress`, `cbw_finished`, `index_write` | assemble 31 bytes from four packets | `execute_cbw` one handler later |
| SCSI commands (`commands.c`) | `cbw_tag`, `csw`, the static `data`, `should_read`, `count`, `transfer_length`, `transfer_length_beginning` | `execute_cbw`, `execute_read`, `execute_writing_finished`, `create_basic_csw` | reply queue, SRAM, endpoint 1 |
| Reply queue (`usbdata.c`) | a ring of 100 addresses and lengths, `during_send`, `index_during_send` | `usb_send_data`, `usb_send_next_data` | reads the static buffers when it sends |
| V-USB, main loop half (`usbdrv/usbdrv.c`) | `usbMsgPtr`, `usbMsgLen`, `usbMsgFlags`, `usbNewDeviceAddr`, `usbConfiguration` | `usbPoll`: `usbProcessRx`, `usbBuildTxBlock`, `usbHandleResetHook`; `usbSetInterrupt`, `usbInterruptIsReady` | calls `usbFunctionWriteOut`, `usbFunctionSetup`; shares the buffers with the interrupt routine |
| V-USB, interrupt routine (`usbdrv/asmcommon.inc`, `usbdrvasm16.inc`) | `usbRxBuf` (two halves), `usbInputBufOffset`, `usbRxLen`, `usbRxToken`, `usbTxLen`, `usbTxBuf`, `usbTxStatus1`, `usbDeviceAddr` | `handleSetup`, `handleOut`, `handleData`, `handleIn`, `handleIn1`, `usbSendAndReti` | the host |
| Control requests (`main.c:119-151`) | `usbMsgPtr` | `usbFunctionSetup`: echo, LED, GET MAX LUN | answers through endpoint 0 |
| EEPROM transfers (`ext_eeprom.c`, `twi.c`) | none of their own; the TWI unit, the chip's write cycle | block and page writes, reads, polling; single bytes, words, dwords | busy waits inside the main loop |
| SRAM access (`ram.c`, `ram.h`) | port pins | `ram_read_byte`, `ram_write_byte`, `ram_init` | pins of one port are used by the interrupt routine too |

Everything but the interrupt routine runs in one loop, so handlers never
interleave with each other. What makes the code hard all the same:

* the write-back takes many iterations for a block, clears the dirty bit first,
  and the host may rewrite the block, or the power may fail, between any two;
* replies are queued as addresses of static buffers and sent much later;
* whether a packet is data or a command depends on state that an earlier packet
  sets only some handlers later;
* one test of the endpoint is used for two writes to it;
* the interrupt routine and the main loop share buffers, flags, addresses and a
  port without a lock: the order of single stores keeps them apart;
* a request may arrive while the answer to the one before is being built, a
  reset while anything is; packets of endpoints 1 and 2 and their handshakes
  may be lost;
* results of EEPROM transfers are ignored, indices are 8 and 16 bits wide, and
  nothing is done for a host or a bus that breaks off.

## Modules

```
BlockStore  <-- implements --  Storage  <-- extends --  MassStorage
                                  ^                          |
                            StorageProofs  <--  MassStorageProofs, uses UsbQueue
                                                             |
                      UsbFifo  <-- implements --  UsbData    (UsbFifo: its specification)
                                                     ^
                                               UsbDataProofs
EepromPages <-- implements --  EepromBus     EepromWrite
     (the two outcomes             ^              ^
      of Storage's CopyPage)  EepromBusProofs  EepromWriteProofs
UsbOutPipe  <-- implements --  UsbDriver  <--  UsbDriverProofs
     (endpoint 2, on which MassStorage's IsrOut relies)
RamCell     <-- implements --  RamBus     <--  RamBusProofs
     (the bytes of Storage's ram)
```

**BlockStore** is the promise, with three variables: what the host reads, what
survives a loss of power, and the blocks in which the two may differ. A crash
may change the durable contents of at most one pending block.

**Storage** is the receive path, the write-back, and start-up, on an SRAM and an
EEPROM of `Blocks` blocks, `PagesPerBlock` pages in a block and `ChunksPerPage`
chunks of 8 bytes (one USB packet) in a page. `BeginWrite`, `BeginRead` and
`WriteOut` are the handlers the host's requests reach; `PickBlock` and
`CopyPage` the two branches of the write-back. `CopyPage` is one step because
the loop does nothing else while it copies a page; the transfer is
`PageWritten`, or `PageFails` when it returns TWI_ERR, which the loop does not
look at. The chip's write cycle, which outlasts the call, is `programming` until
`EepromDone`; `PageWritten` waits for it as `ext_eeprom_wait` does. `page_count`
is the write-back's static `count`. `Faults` turns on failing reads and writes
of the EEPROM and losses of power; a loss of power leaves any contents in the
page being programmed. A read that fails at start-up leaves `Unread` in its
place: bytes of an uninitialised buffer, which are told from all others so that
the properties can say where they go. Address arithmetic wraps as in the code: the SRAM address
at 64 KiB (`% Blocks`), the dirty index and `write_page` at 8 bits (`% Uint8`).

**UsbQueue** gives the reply queue as operators on a record; **UsbFifo** is the
same as a specification. **UsbData** is the ring of `usbdata.c`, variable by
variable, and implements UsbFifo as long as one slot is free (`SlotLeft`, the
condition a commented-out function of `usbdata.c` would have tested).

**MassStorage** extends Storage to the device. `pc` names the handler of the
main loop that comes next: `Poll` (usbPoll with `CbwOut` and `DataOut`, the two
halves of `usbFunctionWriteOut`), `SendNextData`, `ExecuteRead`, `ExecuteCbw`,
`Store`. `IsrOut` and `IsrIn` are the interrupt routine's `handleData` and
`handleIn1` together with the host's side of the transfer; they may come
between any two handlers. Inside a handler they would change nothing: the
routine answers NAK until `usbPoll` has set `usbRxLen` to 0, and only the main
loop fills the transmit buffer. UsbDriver is where the handlers of the driver
are cut open. The host is one that follows the bulk-only protocol; `hostdisk` is
what it wrote. A command block is four packets, each with what `execute_cbw`
reads of it; the static `data` buffer is the command that wrote bytes 0-7, 8-13
and 14-35.

**UsbDriver** is V-USB with the interrupt routine, the answers to control
requests, and a host. `usbPoll` and `usbSetInterrupt` are cut wherever the
interrupt routine can tell the order of two stores: before a packet is processed
(`Receive`, which remembers the `half` of the buffer to read), before `usbRxLen`
is cleared (`Free`), and between filling a transmit buffer and storing its
length (`Arm`, `ArmInterrupt`). The interrupt routine runs to its end, so a
transaction is one step of the host: `HostSetup`, `HostIn0` and `StatusOut` are
the stages of a control transfer, `HostOut` and `HostIn1` the bulk packets. A
transaction answered with NAK or not at all changes nothing. Whatever else is on
the bus is received into the half not in use, which `StorePacket` therefore
leaves as `Junk`. A reset of the bus lasts at least for two tests of the line by
`usbPoll` (`CheckReset`); `line` counts them. Packets of endpoint 1 and
acknowledgements of endpoint 2 may be lost, and the host may give a control
transfer up at any stage. A control packet carries a part of a named object, so
that a packet of the wrong reply, the wrong part, or read from the wrong memory
can be told. It implements **UsbOutPipe**: a slot for one packet, taken once
and processed once.

**RamBus** is `ram.c` one instruction per step: `todo` holds the instructions of
the call that remain, where setting or clearing one pin is a single instruction
and a change of several pins of port D is a load and a store. `Interrupt` is the
USB routine, which drives its own two pins of that port between any two of
them. The memory chip follows its pins after every step: `Writing` stores the
data pins at the address pins, `Driving` puts a byte on them. It implements
**RamCell**: an array of bytes.

**EepromBus** is `ext_eeprom.c` and `twi.c`, one TWI operation per step.
`Transaction` is the row of operations that a poll, a read or a page write is
made of; `TwiOk`, `TwiNack` and `TwiFails` are an operation that succeeds, one
the chip does not acknowledge because it is in its write cycle, and one that
fails on the bus. Next to it runs the chip: `pointer`, the bytes it has taken
for a page write (`latch`), `programming`. A STOP makes it store the bytes, a
START makes it forget them. `held` is the data line kept low after a reset in
the middle of a transaction. It implements **EepromPages**: each transfer is
done whole and returns TWI_OK, or changes nothing and returns TWI_ERR. That is
why Storage may take a page as one step, and a failing one as no step.

**EepromWrite** is the loop of `ext_eeprom_write_block` with the chip's address
counter, which starts over at the beginning of a page; the functions for a byte,
a word and a dword are calls of it.

**MCStorage, MCUsbData, MCMassStorage, MCEepromBus, MCEepromWrite, MCUsbDriver,
MCRamBus** hold the constants of the runs.

## What is checked

| Run | Instance | Shows |
|---|---|---|
| `Storage` | 2 blocks of 2 one-chunk pages, 2 values, losses of power | `TypeOK`, `Coherent`, `WriteInRange`; `KeepsPromise` (Storage implements BlockStore); `WriteBackRunsDown`; `WriteBackFinishes` |
| `UsbDataRing` | 4 slots, packets of 4, 8, 13 and 20 bytes | `IsQueue`: the ring implements the queue |
| `ProtocolSafety` | every command, 1 block of 2 one-chunk pages, all faults | `PacketsReachTheirParser`, `CswAnswersCommand`, `ReplyFitsCommand`, `OwedInFull`, `NothingOverwritten`, `BuffersStable`, `QueueBounded`, `MSTypeOK`; `UnreadNeverStored`, `DamageStaysLocal`: what a failing EEPROM spoils |
| `ProtocolData` | READ and WRITE, 2 blocks of 2 chunks, losses of power | `ReadsSeeLastWrite`; `ImplementsStorage` (MassStorage implements Storage) |
| `ProtocolLiveness` | every command, 1 block of 2 chunks, losses of power, page writes that fail | `CommandsAnswered`; `WriteBackGoesIdle`: a failing EEPROM does not hang the write-back |
| `UsbDriver` | enumeration, a reply of two full packets, one of a byte, a reset of the data tokens; losses, resets, transfers given up | `NextAnswerFits`, `AddressAgreed`, `SetupNotNaked`, `OneDropResyncs`; `ImplementsOutPipe` (UsbDriver implements UsbOutPipe); `ControlTransfersEnd` |
| `RamBus` | 2 address pins, one of them on the shared port, 2 values | `NoContention`, `PinsKept`; `ImplementsCell` (RamBus implements RamCell) |
| `EepromSplit` | 4 pages of 4 bytes, all aligned calls and all calls of at most a page | `NothingMisplaced`, `CompleteWhenOk`, `PageWritesFit` |
| `EepromBus` | 2 pages of 2 bytes, 3 reads and 3 writes, failing operations and resets at every step | `KeepsPromise` (EepromBus implements EepromPages); `CallsRunDown`; `CallsReturn` |
| `StorageWriteFails` | EEPROM writes may fail | violated: `WriteBackFinishes` |
| `ProtocolCapacity` | the host uses the last block READ CAPACITY names | violated: `ReadsSeeLastWrite` |
| `ProtocolModeSense` | INQUIRY and MODE SENSE | violated: `ModeSenseSame` |

`SetupNotNaked` speaks of the states in which the host may begin a request: the
one before has ended, or was given up. Its exception `GivenUpSetup` is real: a host
that gives a transfer up right after the SETUP and begins another at once gets a
NAK from the first SETUP, until `usbPoll` is done with it
(`asmcommon.inc:111-113`), just as it does from a packet to endpoint 2.

The last three show disagreements between the code and what its comments and its
README say; `findings` in `PROJECT.json` quotes them. In words: a page whose
write fails is never written again; READ CAPACITY announces 129 blocks and the
last is the first; and the MODE SENSE reply carries bytes of the INQUIRY reply.

**Bounds.** Every counter of the code is bounded by the sizes of the instance,
so no bound is added to the models. Two blocks are the fewest with an order of
dirty bits and a WRITE of more than one block. Two pages are the fewest with a
block half copied, and two chunks in a block the fewest with a block half
received; `ProtocolSafety` needs both, so that a page can fail beside one that
does not, and has one block, since the commands do not tell blocks apart. Two values tell new from old. A request covers any run of blocks from
any block on. The ring has four slots, so that both indices wrap with one, two
and three packets in it; in MassStorage the queue never holds more than two of
the 99 packets the ring can hold, so the queue stands for it. Two tags tell a
command from the one before. The length of a WRITE and a READ is at least 1.

In `UsbDriver` packets to endpoint 2 are numbered modulo 2, which tells the next
from a repetition. There is one request of each kind the driver treats
differently: a reply from flash, one from RAM, the three requests that change
the driver's state. Of the device descriptor the host wants 16 of its 18 bytes:
two full packets after which the driver prepares one more that nobody fetches,
the case in which a later request meets a full transmit buffer. In `RamBus` one
address pin is on a port of its own and one on the port the interrupt routine
changes; more pins of either kind behave alike.

**Fairness.** The main loop never stops and the EEPROM ends its write cycles
(weak fairness of `MainLoop`, `EepromDone`, and in Storage of the write-back's
steps, which run in every iteration). The host goes on with a command it has
begun: it repeats what was answered with NAK and asks for what it is owed (weak
fairness of `IsrOut` and `IsrIn`, and in UsbDriver of `HostSetup`, `HostIn0` and
`StatusOut`). Nothing makes it begin one. It ends a reset of the bus
(`EndReset`). `WriteBackFinishes` assumes that the host falls silent, since
nothing in the code bounds the delay while it writes; `ControlTransfersEnd`
assumes that it leaves endpoint 2 alone, whose packets may keep the one receive
buffer occupied. In EepromBus the TWI unit completes its operations as long as the
data line is free, and the chip's write cycle need not end: the limit of
`ext_eeprom_wait` (1 poll more in the run, 10 in the code) is enough. EepromWrite
needs no fairness: `PageWritesFit` says that each iteration of its loop makes
progress.

## What is proved

TLAPS checks the proofs of eight modules. Each theorem holds for every value of
the constants that the named assumptions of the modules admit. The inductive
invariants were checked by TLC on the instances above before they were proved.

**StorageProofs** (`SizesAssumption`: at least one block, page and chunk;
`CompliantHost`: a request names existing blocks): with all faults, `TypeCorrect`,
`WritesStayInRange`, `OnlyHostDataStored`, `FailuresStayLocal` and
`WriteBackIsBounded`; and if no EEPROM transfer fails (`NoTwiError`; power may be
lost and the processor reset), `Coherence` and `StorageKeepsPromise`, the
refinement to BlockStore. The range of a WRITE is kept only because the state
between the two calls that begin one is known (`BeginningInside`), and a block is
copied from page 0 on (`StartsAtPageZero`). That bytes nobody read stay out of the
EEPROM is not inductive alone: the write-back copies whole blocks, so every chunk
of a block that is marked, or being copied, must have come from the host
(`HostDataOnly`). `IInv` is the conjunction with the type. `DamageStaysLocal`
follows from it for each step: a step that changes the SRAM or clears a mark
leaves the chunk waiting for the write-back, and the only page the write-back
leaves behind unequal is one whose write failed. `Backlog` counts the iterations
of the write-back that are left; `WriteBackIsBounded` shows that each takes one
away and that a packet adds a block's at most. `CInv` adds to `IInv` that SRAM and
EEPROM agree but for what still has to be copied, and that every chunk was read.
In the refinement `WriteOut` is the abstract write, `CopyPage` copies part of a
block that stays pending, the end of the chip's write cycle settles it, and
start-up after a loss of power or a reset is the abstract crash; everything else
stutters.

**UsbDriverProofs** (any set of requests, any number of packet ids above 1, any
faults): `TypeCorrect`; `OutPipeImplemented`, where `HostOut` takes a packet,
`ProcessOut` processes it and all else stutters; `SetupFindsRoom`: when the host
may begin a request, nothing is in its way but a packet to endpoint 2 or, after
a transfer given up, the SETUP of that transfer until `usbPoll` has freed it;
`OneDropOnly`; `AnswersFit`; `HostIsAnswered`; and, if SET_ADDRESS is completed as the standard
asks (`StandardRequests`), `AddressesAgree`. `Base` is what all of them need:
the type, where the main loop can be while it owns a buffer (`LoopInv`) and
what the host waits for (`HostInv`). On it rest `ResetInv`; `RoomInv`, which
says for every stage but the one in which a SETUP is on its way what may be in
the receive buffer, the SETUP of the present request included; `AddressInv`, which
follows the new address from the request to the interrupt routine, `TokenInv`,
which relates the two toggles at each step of arming endpoint 1, and
`AnswerInv`, which says for each situation of a control transfer what the
transmit buffer, the reply's rest and the receive buffer hold. `HostIsAnswered`
is a consequence: what is left of a reply is never more than 32 bytes, so it is
never taken for `USB_NO_MSG`.

**UsbDataProofs** (any number of slots above 1 and any lengths): `TypeCorrect`,
and `RingIsQueue`, the refinement to UsbFifo. `Queued` reads the queue out of the
ring; `usb_send_data` appends to it, `usb_send_next_data` sends its next chunk.

**MassStorageProofs**: with any set of commands, tags and values, any sizes, all
faults, and requests whose number of blocks fits a byte (`SmallRequests`), the
protocol invariants `MSTypeCorrect`, `ChunksSurvive`, `QueueNeverFull`,
`ParserFits`, `CswAnswers`, `RepliesFit`, `NobodyWaitsInVain`, the action property
`BuffersUntouched`, and `StorageImplemented`: the device takes only steps of
Storage. The invariant, `MSInv`, is `Session`: the list of the situations host and
device can be in together, from idle through the four packets of the command
block, the data of each kind of command, to the two packets of the CSW, with what
lies in both endpoint buffers and in the queue; and what is true at each handler
of the main loop. None of the properties is inductive without the whole list. From
it `NobodyWaitsInVain` counts bytes: what the endpoint buffer, the queue and the
rest of a READ hold is what the host has still to get (`UnderWay`, `Owed`).

With a compliant host, `ReadsAreCurrent` adds what the chunks carry (`DiskSeen`:
SRAM and the host's disk agree except where a packet is under way), and the
theorems of Storage hold of the whole device through `StorageImplemented`:
`DeviceStoresHostData`, `DeviceFailuresStayLocal` and `DeviceWriteBackIsBounded`
under all faults, and with no TWI errors `DeviceKeepsPromise`: the device
implements BlockStore.

**EepromWriteProofs** (`WithinPages`: calls begin on a page or stay in one):
`NothingIsMisplaced`, `OkIsComplete` and `PagesFit`, from an invariant that places
the pages written so far (`Position`, `Written`).

**EepromBusProofs** (any sizes, any faults): `TypeCorrect`;
`TransferImplemented`, the refinement to EepromPages; and `CallsAreBounded`, by a
count of the operations left (`Remaining`), in which a failed poll gives up one of
the polls that are left. The type rests on the place of each operation in its
transaction (`ReadTransaction`, `WriteTransaction`), and on the page size dividing the memory (`NextAddress`). `KeepsPromise` needs to know
how far a transaction has come, which `Progress` says place by place: what an
earlier call may have left in the chip is gone after the START (`Forgotten`), a
chip that has answered is not in its write cycle (`Answering`), its counter takes
the address in two halves (`Pointed`), and then the bytes it has taken, or given,
are the first ones of the buffer (`Collected`, `Fetched`). The last STOP is the
abstract write or read, the operation that makes a call give up the abstract
failure.

**RamBusProofs** (any layout of the address pins apart from those of the USB, the
chip and the LED): `PinsAreKept`: the value of the port that is loaded before an
interrupt and stored after it is harmless because the routine leaves its pins
low, as they were (`UsbLow`). `TypeCorrect`, `DataPinsShared` and
`CellImplemented`, the refinement to RamCell, rest on `BusInv`: what the pins
show the chip before each numbered instruction (`Levels`, `AddressPins`), that
the value loaded from a port is still that of the pins it is stored to (`Fresh`),
and what the byte in hand is once the chip has been read or written (`Done`).

**DivMod** has the facts about division these proofs share.

Only model-checked are the liveness properties (TLAPS has no fairness here) and
the runs that expect a violation. For each of the liveness properties a safety
property that it rests on is proved; that the steps are enabled and taken, and
that they lead to the end, is left to TLC:

| Checked by TLC | Proved of it |
|---|---|
| `WriteBackFinishes`, `WriteBackGoesIdle` | `WriteBackIsBounded`: the write-back has ever fewer iterations left; `Coherence`: what it has not reached is all that differs |
| `CommandsAnswered` | `NobodyWaitsInVain`: all the host waits for is under way |
| `ControlTransfersEnd` | `HostIsAnswered`: there is a packet to send or to build |
| `CallsReturn` | `CallsAreBounded`: every operation leaves fewer |

`UsbQueue`'s operators are proved about only inside MassStorageProofs.

## Not modelled

* **The size of the disk**: `src/README.md:5` speaks of 32 kB, the code has 128
  blocks of 512 bytes (`main.h:35-36`). No property depends on it.
* **Losses in control transfers.** The interrupt routine takes a packet of
  endpoint 0 for received once it is sent (`asmcommon.inc:153-160` says that no
  loss is expected); the bus of UsbDriver loses none there. Nor does its host
  give SET_ADDRESS up between the stages, which the standard forbids and after
  which the two would use different addresses.
* **A host that abandons a WRITE** (`main.c:267`): the code has nothing for it,
  `is_writing` stays set and the next command block is stored as data. The
  bulk-only reset (`main.c:148`) is answered and has no effect. A READ of no
  blocks runs for 65536 (`commands.c:200`).
* **Calls of `ext_eeprom_write_block` nobody makes**: longer than a page and
  starting inside one, where `ext_eeprom.c:164` loses step with the pages
  although the comment at `:150` promises a split, and past 64 KiB, where the
  size of the last page write is not limited (`:165`). The write-back passes
  whole pages. Reads of 0 or of more than 256 bytes, which do not end (`:201`),
  are not made either.
* **Parts of V-USB that the configuration leaves out**: HALT, flow control,
  `usbFunctionRead` and `usbFunctionWrite`, endpoint 3, the toggle check. The
  contents of descriptors; CRC, bit stuffing and the timing of bits.
* **The assembler files for other clock rates**, debug output, the portability
  headers, the byte helpers of `utils.c` (used as what they do), the kernel
  patch and the board files.
