# MiST board firmware: TLA+ models and proofs

The MiST board is an FPGA that becomes an Atari ST, an Amiga, an Archimedes, a Spectrum ..., and
an ARM microcontroller (AT91SAM7S) next to it that gives the FPGA what its machines expect: an SD
card, floppies and hard disks from files on a FAT card, keyboards and mice from USB, a serial
port, an on-screen menu. The firmware of the ARM is C without an operating system; the logic it
talks to is Verilog in the FPGA. This directory models the parts where the order of things
matters, checks them with TLC on small instances and proves part of the results with TLAPS.

To use it: `tlc -workers 2 -config MCSdCard_direct.cfg MCSdCard`, likewise for the other cfg
files; `tlapm SdCardProofs.tla`, likewise `FatChainProofs`, `UsbTreeProofs`, `UsartProofs`,
`StDmaProofs` and `MenuProofs`, each in about four minutes or less, and `HardDiskProofs` and
`FddProofs`, which take about nine. `PROJECT.json` lists the runs,
the lines of the source each definition stands for, a broken variant ("mutant") of the code for
each property, the hazards and two of the disagreements found; the others have a cfg file of their
own (section 3).

## 1. How the system works

**One main loop** (`src/firmware/main.c:177-210`) calls `cdc_control_poll()`, `user_io_poll()`,
`usb_poll()`, `HandleUI()` and, for the Amiga, `HandleFpga()` in turn. Nothing preempts it but
two interrupt handlers, of the serial port (`hardware.c:140`) and of the USB device port. So
within the firmware a call is atomic, with these exceptions, which are where the models put
their steps:

* the interrupt handler may run between any two accesses of the main loop (`Usart`);
* the logic in the FPGA goes on while the ARM works, and they only synchronise at the ends of SPI
  transfers (`SdCard`);
* the other end of a serial link answers when it likes, late or never (`ArchieKbd`);
* the user plugs and unplugs between any two USB transfers (`UsbTree`);
* the power fails between two writes of a sector (`FatChain`);
* the Amiga and its disk controllers run while the ARM is in the middle of a command
  (`HardDisk`) or a track (`Fdd`), and the driver of the Atari ST while the ARM goes from one
  snapshot of the DMA chip to the next (`StDma`).

The menu never waits either: `HandleUI()` does one step of a state machine per round (`Menu`),
and what it selects in one round it may use in the next, with disk requests served in between.

### Inventory

| part | state it keeps | operations | talks to | what is hard | what makes it correct | modelled |
|---|---|---|---|---|---|---|
| SD card emulation, ARM (`user_io.c:862-983`) | `sd_image`, read-ahead buffer and its sector number | poll of the request lines, sector read, sector write, mount | front end over SPI, `fat.c`, `mmc.c`, menu | stale buffer, acknowledge before store, failing reads | the machine sees a block device | yes |
| SD card front end (`sd_card.v`, spectrum `user_io.v`) | read and write state, request lines, latched acknowledge, one sector buffer | CMD17, CMD24, identification | machine and ARM, two clock domains | an acknowledge taken for the wrong command | every command answered, buffer not disturbed | yes |
| FAT cursors (`fat.c:1125-1178`) | `fileTYPE`: sector and cluster | seek, read, next sector | FAT buffer, card | end of chain, backward seeks | the cursor is in the cluster of its sector | yes |
| FAT writing (`fat.c:132-157, 1036-1425`) | FAT buffer, copies of the FAT, directory, free count | create, write, expand, end, allocate | XMODEM, menus | power failure between sectors, full volume, shared buffer | no cross-linked file, no lost cluster | yes |
| FAT mounting and directories (`fat.c:159-1012`) | geometry, sorted page of directory entries | find drive, scan, open | menu | parsing of foreign data | finds what is there | no |
| SD/MMC driver (`mmc.c`) | card type | init, read, write | SPI | time-outs, card swaps | reads what is on the card or fails | as an operation that may fail |
| XMODEM receiver (`xmodem.c`) | state, block number, file | receive byte, time-out | serial port, FAT writing | a block sent twice | the file is what was sent | planned |
| Archimedes keyboard (`archie.c`) | handshake state, queue, mouse, flags | key, mouse, poll, reset | driver in the Archimedes | late answers, full queue, resets | events whole and in order | yes |
| USB host (`usb.c`, `hub.c`) | device table, addresses, reset flag | poll, configure, release, port change | hubs, class drivers, user | devices moving during enumeration | one device per address, table is a tree | yes |
| USB class drivers (`hid.c`, `storage.c`, ...) | per-device info | init, release, poll | routing | report parsing | reports mean what the device says | no |
| Serial port (`hardware.c:133-210`) | two rings, interrupt mask | write, poll, handler | debug output, core, XMODEM | lock-free sharing | nothing lost, doubled or swapped | yes |
| Timers (`hardware.c:300-326`) | none, 12-bit counter | start, test | everything with a time-out | wrap around | a time-out passes once, and not too early | planned |
| Key, joystick, mouse routing (`user_io.c:1000-1540`) | emulation mode, pressed keys | key event | menu, core, `archie.c`, `ikbd.c` | a key released elsewhere than pressed | no key stuck | planned |
| ST keyboard processor (`ikbd.c`) | queue, modes, clock | command byte, poll | core | packets queued in part, clock arithmetic | packets whole | planned |
| ST DMA, ACSI and floppies (`tos.c`, `acsi.v`, `fdc.v`, `dma.v`) | images, direct access, sense codes; pending commands, DMA count | snapshot, ACSI command, floppy command, sector transfer, insert and eject | ST driver, menu, card | one acknowledge for two controllers, disks swapped while a command waits | status and data are those of the disk that was there | yes |
| Amiga hard disks (`hdd.c`, `Gayle.v`) | type, geometry, cursor of each unit; task file, status, FIFO | the ATA commands | Amiga's driver, `fat.c`, card | two sector counters, answers before data is stored, seeks through an index | as ATA says | yes |
| Amiga floppies (`fdd.c`, `Floppy.v`) | track, sector and cluster of each drive; DMA and FIFO | read track, write track, status, insert, eject | Amiga's driver, menu, card | transfers stopped and resumed in the middle, one cursor for all | whole sectors, in order, with their contents | yes |
| Menu (`menu.c`) | page, cursor row, file selector, configuration | key, message | every other part | a page is drawn in one round and acts in the next; shared buffers and configuration | what is shown, configured and open agree | yes |
| Drawing of the OSD (`osd.c`) | - | draw a line, key repeat | core | layout | - | no |
| FPGA upload, boot, update, ini files (`fpga.c`, `ini_parser.c`, `firmware.c`, ...) | none to speak of | once at start | card | parsing, pure I/O | - | no; `LoadConfiguration()` and `SaveConfiguration()` in `Menu` |
| Atari ST logic (`src/cores/mist`) | registers | clocked | ARM, CPU | clock crossing | - | no; FIFO and interrupt controller are candidates |
| Other cores | | | | third-party logic | - | no |

## 2. The modules

### `FatFile`: the cursor into a file

`FileSeek()` and the address computation of `FileRead()`, `fat.c`. The loop along the chain is a
relation over the sequence of clusters it visits, not a recursive operator, so that proofs can be
made about modules that use it. `InChain` is the reference: which cluster holds a sector of a
file. `Fat` is a constant, because the SD emulation never allocates. The link of `EOC` is a value
the instance chooses: the code indexes the table with it and finds whatever is there.

### `SdCard`: the SD card the FPGA does not have

Three parties run concurrently: the machine that gives commands, the front end in the FPGA and
the ARM. `read_state` and `write_state` are the states of `sd_card.v`; `pc` is where
`user_io_poll()` is between two SPI transfers.

| action | code |
|---|---|
| `Cmd17`, `Cmd24` | the command is decoded and the request line raised, `sd_card.v` |
| `SendToken`, `SendData`, `WriteDone` | the front end sees the acknowledge and finishes |
| `PollStatus` | `user_io_sd_get_status()` and the choice of branch, `user_io.c:866-943` |
| `AckRise`, `AckFall` | the command byte and the end of a sector transfer, seen by the FPGA |
| `Write`, `Store` | the sector is fetched (which acknowledges it), then `MMC_Write()` |
| `Load`, `Send`, `ReadAhead` | fill the buffer if needed, transfer, read the next sector ahead |
| `user_io_file_mount` | the menu mounts a file |

`buffer` may take any value when the sector in it is written (the code copies an uninitialised
array, line 919); `held` is a history variable, the sector the buffer was last filled from;
`view` is what the machine believes it stored. Properties relate them: the handshake
(`SectorStable`, and `AckAnswersRequest`, which is proved), the buffer (`BufferCoherent`), the
whole (`ReadYourWrites`, and `ImplementsBlockDevice`, which contains that every command is
answered).

### `BlockDevice`: what the emulation promises

A memory of sectors and one command at a time. `SdCard` implements it with a refinement mapping
in which a write takes effect when its sector is fetched, though the card changes later, and a
read takes effect when the transfer ends.

### `FatChain`: allocation, and what a power failure leaves

The FAT is a function per copy (`disk[i]`), changed sector by sector through the one buffered
sector. A call (`FileNew`, `FileWrite`, `FileNextSectorExpand`, `FileWriteEnd`, `Abandon`) starts
when no other is under way; `op` says which step comes next, and one copy of one sector is
written per step, so that `Crash` and `FatSaveFails` may come between any two; `EntryOrInfoFails` is
a sector of the directory or the info sector that cannot be accessed. Two clients model
the XMODEM receiver and a menu that saves settings, which share the buffer. The chain of a file
(`ChainOf`) is the smallest set of clusters that has the first one and is closed under the links,
which TLC can compute and the prover can reason about. `ClusterAllocate()` scans every entry of the
table (`Scanned`), those behind the last cluster of the volume included; a call that is given a
cluster of no file changes the card outside the volume (`ChangeOutside`) and ends the run. A call
whose allocation failed may be repeated by its client. The card is assumed to be in order when it
is put in (`CardAssumption`): links lead to used clusters, no two to the same one, none to the
first of a file. `FilesApart` says that no cluster is in two files and that data is only written to
clusters of its file; `OthersUntouched` that the chain of a file nobody has open stays as it is;
`CopiesAgree` that the copies of the FAT differ only while a sector of it is being written;
`ClustersAccounted` that no cluster is lost, except to a trouble, and that the free count is
right.

### `ArchieKbd`: the Archimedes keyboard link

The functions of `archie.c` are operators on the record of the controller, with the same names
and calls, and the actions are the entry points: `archie_handle_kbd` (poll, with its time-outs),
`archie_kbd` (a key), `archie_mouse` (motion and buttons). An event is a pair of bytes, numbered,
so that the driver's view can be compared with what the user did. The driver is not in the
repository; it is modelled from the answers `archie.c` waits for.

### `UsbTree`: the device table and the hubs

`at` is what the user did, `port` what the hubs report, `addr` the address each device answers at,
`dev` the table. `usb_configure` gives whoever answers at address 0 the number of the first free
slot; `usb_release_device` removes an entry and all below it; `Connect`, `Disconnect` and
`ResetComplete` are the cases of `usb_hub_port_status_change()`, which compares all status and
change bits at once, so that `Event` is none when two things happened between two polls. Any
transfer may fail: a port whose status cannot be read is skipped (`Ignore`); a device whose
SET_ADDRESS fails stays at the default address, its slot stays free, and the caller takes the reset
flag back all the same (`usb_configure`); and when a request for a feature of a port fails nobody
looks, so that the port is not reset, or its change bit stays (`Requests`, `PortReset`). Five history
variables record what the properties except: `bounced`, a device was back before its absence was
noticed; `shared`, two devices were at the default address when it was given away; `leaked`, an
entry survived the removal of the root; `refused`, a device was left at the default address;
`ignored`, a request to a hub failed.

### `Usart`: the serial port and its interrupt handler

Every access of the main loop to a shared variable or register is a step of its own; the handler
is one, since interrupts of one priority do not nest. `tx_buf[tx_wptr++] = c` changes two shared
objects in an order C leaves open (and compilers do store the index first), so that `Put` and
`USART_Poll` do it in either order. Bytes are numbered.

### `Gayle` and `HardDisk`: the hard disks of the Amiga

`Gayle` is the interface in the FPGA as one record: the ATA registers (`tfr`), `busy`, the request
bits, Gayle's own count of sectors and the FIFO. Each access of either side is an operator from
record to record with the name of what the code does (`TaskFile`, `Status`, `Put`, `Command`,
`ClearInt`, `ReadSector` ...). `HardDisk` runs two parties on it: `HandleHDD()` and the driver of
the Amiga, which is interrupt driven and not in the repository.

| action | code |
|---|---|
| `Recalibrate`, `IdentifyDevice`, `InitializeDeviceParameters`, `SetMultipleMode`, `UnknownCommand` | the commands that move no sectors of a disk, `hdd.c` |
| `StartRead`, `ReadAnnounce`, `ReadInterrupt`, `ReadData`, `ReadSpecial` | READ SECTORS: registers, wait for an empty buffer, interrupt, data; the synthesized RigidDiskBlock |
| `StartReadMultiple`, `ReadMultipleInterrupt`, `ReadMultipleData`, `ReadMultipleRegisters` | READ MULTIPLE, block by block |
| `StartWrite`, `WriteTake`, `WriteStore` | both writes: a sector leaves the FIFO, is answered, is stored |
| `Poll` | the loops that wait for a bit, and the main loop that finds no command |
| `IssueTransfer`, `IssueOther`, `HostInterrupt`, `HostRead`, `HostWrite` | the driver |

`arm` holds the locals of the call: position in cylinders, heads and sectors, `lba`, sectors
left. `hdf[u].file` is the cursor, moved by `Sought` (`HardFileSeek()`, with its index of every
`IndexStep`-th sector) and `Moved`. `image` is the card as the Amiga has written it.
`TransfersRight` compares what the Amiga got with it, over any sequence of commands. It is only true
if no disk ends with the last sector of the last cluster of its file (`EndsInside`): else the cursor
behind the last sector has left the chain, and `FileSeek()` does not get it back (disagreement 18).

### `StDisks` and `StDma`: the disks of the Atari ST

`StDisks` says where a sector of a disk lies: images on the card, no two sectors of an image in one
place, and the detection of a floppy's format (sectors per track times the multiple for HD and ED
disks, `Multipliers`). For an image of no such size the code asks sector 0 of the card, not of the
image, and leaves the drive empty when that cannot be read (`Inserted`). In `StDma` the core keeps an ACSI and a floppy command pending; the ARM takes a snapshot
(`mist_get_dmastate`), serves the ACSI command of the snapshot (`handle_acsi`, `StartSectors`,
`AcsiSector`, `SectorsDone`) and the floppy command (`handle_fdc`, `FdcSector`, `FdcDone`), and
acknowledges with one strobe that goes to whichever controller waits then. Between two snapshots
the user swaps disks (`tos_select_hdd_image`, `tos_set_direct_hdd`, `tos_insert_disk`,
`SetProtection`). The driver gives commands byte by byte (`FirstByte`, `NextByte`, `FdcCommand`),
reads the status (`CommandOver`) or gives up (`CommandUnanswered`). `why` and `before` are
history: the reason of the last refusal per target, and the card at the last answer, from which
`AnswerRight` computes what every command must have moved. Of a transfer of 256 sectors, for which
the DMA chip's counter is 0, it says that nothing is brought, and nothing of what is written.

### `MenuBase`, `MenuMinimig`, `MenuCores`, `Menu`: the on-screen menu

The state machine of `HandleUI()`: one action per state of `menustate`, with the state's name, and
a page drawn in state X1 and acting in X2. `ui` is the page, its parent, the row of the cursor
and the mask of the rows; `fs` the file selector, with the pointer to the extension it lists and
the buffer it may point to. `MenuBase` has the cursor, the selector and what pages change in
common; `MenuMinimig` the pages of the Amiga with their configuration; `MenuCores` those of the
ST, the Archimedes and the 8 bit cores; `Menu` composes them and adds the closed menu, the
firmware pages and the messages other parts show. `hdf` is a history variable: kind and name that
`OpenHardfile()` was last called with, whether or not there was such a file. `saved` is what the
slots on the card hold, from `InitSaved` on; what is loaded from one (`ReadFrom`) may be the defaults,
since the file may be damaged. `MenuAssumption` bounds the strings of an 8 bit core by the rows of the display,
eight with the one the core's first extension takes, as the layout of `menu.c` needs it.

### `Floppy` and `Fdd`: the floppies of the Amiga

`Floppy` is the controller in the FPGA as one record: the DMA between FIFO and memory, the heads, the
change latch, and what the ARM sees of them. `Fdd` runs the main loop, the user and the driver of
the Amiga on it. A track is abstracted to pieces: two halves of every sector read; sync, header
and data of every sector written.

| action | code |
|---|---|
| `PollNothing` | a round without floppy work, `fdd.c` |
| `ReadTrack`, `ReadTrackFrame`, `ReadSector`, `ReadRest`, `ReadEnds` | `ReadTrack()`: the track is found, then header, sector and rest per frame, until the FIFO is half full or the DMA is over |
| `WriteTrack`, `FindSync`, `FindSyncFails`, `GetHeader`, `GetData`, `GetFails` | `WriteTrack()` |
| `UpdateDriveStatus` | which drives have a disk, and whether it may be written |
| `UiElse`, `Eject`, `SelectFile`, `InsertFloppy`, `EjectAllFloppies` | the menu, which runs once a round |
| `Select`, `StepHeads`, `StartRead`, `Receive`, `StopRead`, `StartWrite`, `Transmit`, `WriteDone` | the driver |

`df` has per drive the cache of clusters, `track` and `track_prev`, and where the last read
stopped; `file` is the one cursor all of them use. A header that `GetHeader()` would refuse for its
track or sector number is a broken piece, so that `Pieces` has no others. `Place` is where a sector
of an image lies, `Apart` that no two lie in one place, and `WellWritten` that the Amiga writes headers
behind syncs. `exp` is each image as the Amiga wrote it, and
`seen` the disk at the last step pulse, against which the change latch is judged.

### MC modules and proof modules

`MCSdCard`, `MCFatChain`, `MCUsbTree`, `MCHardDisk`, `MCStDma`, `MCMenu` and `MCFdd` hold the
constants of the instances; `ArchieKbd` and `Usart` need no such module, their cfg files give the
constants. `SdCardProofs`, `FatChainProofs`, `UsbTreeProofs`, `UsartProofs`, `HardDiskProofs`,
`StDmaProofs`, `MenuProofs` and `FddProofs` hold the theorems. Definitions marked
"Mutant" are the broken variants; no specification uses them.

## 3. What is checked

Times are with two workers; "states" are distinct states.

| run | instance | states | shows |
|---|---|---|---|
| `sd_direct` | 3 sectors, requests up to one past the end, no file | 7 thousand, 2 s | the emulation on the bare card is a block device and reads back what was written |
| `sd_faults` | 4 sectors, a file of two clusters to mount, one failing transfer | 2.6 million, 24 s | the read-ahead buffer never holds a sector that was written since |
| `sd_mount` | as above, nothing fails | violation | after a mount the machine is given a sector that was read ahead from the card |
| `fat_write` | FAT of two sectors of three entries, two copies, two files, two clients, one trouble | 0.64 million, 17 s | files stay apart, other files are untouched, what is cut off is freed and counted, copies agree |
| `archie_link` | queue of 3, 3 events, a reset, an early time-out, an id request | 126 thousand, 25 s | events are whole, in order and delivered, the reset handshake ends |
| `usb_plug` | two hubs of two ports, a device, 4 plugs, 1 unplug, 1 call in which a transfer fails, 3 slots | 66 thousand, 66 s | one device per address, the table is a tree, everything attached is served, what is gone is removed |
| `usart_ring` | rings of 3, 5 bytes each way | 287 thousand, 33 s | received bytes once and in order, sent bytes in order, all of them sent |
| `hdd_ata` | a hardfile of 3 clusters with or without RigidDiskBlock and a partition, transfers of up to 3 sectors, 2 written sectors | 144 thousand, 51 s | every sector is the one addressed, also over sequences of commands; registers end on the last sector; every command ends |
| `stdma_serve` | 2 ACSI targets, a floppy drive, an image each (the floppy's of an unusual size) and direct access, 2 written sectors | 0.68 million, 125 s | every answer is that of the disk that was there; what is enabled is served; mounted disks answer |
| `menu_pages` | four machines (one also with the card on USB), both hard disks, a slot with a configuration of five drives, 8 bit core with a list of 3, 2 changes | 0.39 million, 125 s | the display fits the page, the selector lists what was asked for, the configuration is that of the open disks, ESC leads out |
| `fdd_tracks` | two drives, two images of 2 tracks of 3 sectors, one read-only; 4 jobs, 1 swap | 1.0 million, 152 s | streams of whole sectors with their contents, images as written, changes seen, transfers end |
| `fdd_resume` | the same, with the track behind a written one read next | violation | sectors of the wrong cluster under the right numbers |

**Bounds.** Three sectors are a sector in the buffer, the next one and another one; the request
past the end makes the card fail without a fault being spent. Two clusters of two sectors give a
seek inside a cluster, across clusters and off the end. The file of `fat_write` begins with three
clusters, of which the writer keeps one or two, so that `FileWriteEnd()` frees chains of
different lengths; one cluster is free at first, so that the volume fills; entries lie in both
sectors of the FAT, so that the buffer changes. One trouble at every possible point is what a
power failure is; two would mostly show the damage of the first. The queue of three entries
overflows with three events; the ring of three (two usable entries) plus holding and shift
register fill up with five bytes, and indices wrap. Two hubs give a device two levels down, and
three slots are as many as there are devices, so that a slot that is lost is missed. One failing
call at every possible point includes the failures of SET_ADDRESS and of every request to a hub.

In `hdd_ata` the sector count wraps at 3, so that a count of 0 means 3; a FIFO of two sectors is
less than the longest transfer; the index has an entry every two clusters, so that a seek goes
through the index, along the chain, or neither; the file is one sector longer than its cylinders.
In `stdma_serve` a transfer of two sectors crosses a place where the image is scattered and the
end of a track and of the disk; a length of 0 is the boundary; the floppy's image has no size that
is tried, so that a card whose sector 0 is read, or cannot be, is part of the run (that the real sizes
are told apart is the `ASSUME OneFormat` of `MCStDma`); sectors of the disks come from one
card, so that a write to the wrong disk shows. `menu_pages` has every page of every state but the
second type of Minimig, whose pages differ by rows; one slot for settings, one hardfile to select,
and two selections that change something, so that a choice may be undone or repeated. In
`fdd_tracks` the second track begins inside a cluster; four jobs are a read that is cut short, a
step, another read or write, and one more; one swap replaces a disk by the other image; streams
written go backwards, have a broken sector, one of another track, a gap and a sync at the end.

**Assumptions that are constants or guards**, each lifted in a cfg file of its own where it hides a
disagreement: `Patient` (no key in the one round in which a page is being left), `RereadFirst`,
`QuietInsert` and `SlowSelect` of `Fdd`, which the module explains, file strings with one extension
in `Menu`, two ports per hub in `UsbTree`, no entries of the FAT behind the volume in `FatChain`, no
reset in the middle of a hard disk command, no pulled card in `StDma`. The driver of the Amiga sends
SET MULTIPLE MODE before a multiple command, does not read more than one sector of the synthesized
cylinder at a time, and stays within the disk; that of the ST gives one command at a time and waits
longer than a round of `tos_poll()` before it gives up.

**Deadlock** is not checked where the system may stop: when the bytes or plugs of the bound are
used up, and in `FatChain` after a write to a wrong place, after which nothing sensible can be
said of the card.

**Fairness.** The main loop never waits for anything but the polls that the models have as steps, so
every call that can be made is made for ever: weak fairness for the ARM in `SdCard`, `StDma`, `HardDisk`
and `Fdd`, for the poll in `ArchieKbd`, for the steps of a call in `Usart`. In `UsbTree`
fairness of `usb_poll()` as a whole, and of the poll of every hub, is strong: the main loop runs the
root and each hub in every turn, whereas an action of the model may be disabled for a moment because the
turn of another hub is going on; a turn that has begun goes on (weak fairness of
`usb_hub_port_status_change`). The front end is clocked; the machine takes the data it asked for; a
pending interrupt is taken; the transmitter transmits; the hubs end the resets they began; the drivers
of the Archimedes, the Amiga and the ST carry on with a command they have given, but need not give
one. In `Menu`, `EscLeaves` is about a user who keeps pressing ESC: then `HandleUI()` is called with
it for ever. Nothing is assumed of when the user acts otherwise, when a transfer fails or when a
time-out fires.

### Disagreements found

Places where the code does other than what it, or its comments or tests, say. The first two are runs
and findings in `PROJECT.json`; the others are reproduced with the cfg file named, in which TLC
finds the one property violated.

1. `user_io_file_mount()` leaves the read-ahead buffer valid for the card (`user_io.c:493`);
   run `sd_mount`.
2. `WriteTrack()` sets `track_prev` to the next track "to force next read from the start"; if that
   track is read next, `ReadTrack()` takes it for the one it was reading (`fdd.c:601`); run
   `fdd_resume`.
3. `FileSeek()` to the end of the chain leaves a cursor that a later seek keeps (`fat.c:1151`);
   the SD emulation meets it after the last sector of an image. `MCSdCard_seek.cfg`.
4. A full volume: `ClusterAllocate()` returns 0 after a comment that it never does, and
   `FileNextSectorExpand()` reports success (`fat.c:1089`). `MCFatChain_full.cfg`.
5. `archie_handle_kbd()` honours an acknowledgement in any state, so that queued data is sent
   during the reset handshake (`archie.c:459`). `MCArchieKbd_late.cfg`.
6. `usb_hub_port_status_change()` compares status and change bits for equality, so that a device
   unplugged right after its reset leaves the reset flag set for all hubs (`hub.c:153`).
   `MCUsbTree_reset.cfg`.
7. `USART_Write()` reads the status before the indices, with the interrupt enabled
   (`hardware.c:197`). `MCUsart_ready.cfg`.
8. The loops of `HandleHDD()` wait for a bit without a time-out (`hdd.c:413`): after a reset of
   the Amiga in the middle of a read they take its next command for an emptied buffer.
   `MCHardDisk_reset.cfg`.
9. `tos_eject_all()` forgets images and direct access but not the bits that make the core answer
   for these targets (`tos.c:1153`). `MCStDma_pulled.cfg`.
10. A cursor key in the round after a page was left opens it again, with the display off
    (`menu.c:305`). `MCMenu_hasty.cfg`.
11. `InsertFloppy()` uses the global cursor that the file selector set a round before; a floppy
    request served in between moves it (`menu.c:1216`). `MCFdd_select.cfg`.
12. With two file entries in the config string of an 8 bit core both use one buffer, which is filled
    before `SelectFile()` compares the old extension, read from it, with the new one: the old list
    is shown (`menu.c:544`). `MCMenu_lists.cfg`.
13. `EjectAllFloppies()` leaves out the last drive (`menu.c:3091`). `MCFdd_eject.cfg`.
14. A drive selected between two frames of `ReadTrack()` with the same track number is given the
    rest of the other drive's track. `MCFdd_hasty.cfg`.
15. A write that ends within the header of a sector leaves `GetHeader()` polling for ever
    (`fdd.c:352`). `MCFdd_cut.cfg`.
16. "reset already in progress": a disconnect at one port of a hub clears the flag that says that
    another one is being reset (`hub.c:181`), so that a connect at a third is reset too; both devices
    are at the default address and are given the same one. `MCUsbTree_cross.cfg`; it was found when the
    proof of `OneAnswers` failed, since two ports per hub are too few for it.
17. `ClusterAllocate()` looks at all entries of the FAT, and those behind the last cluster of the
    volume are 0 on a card that another system formatted: on a full volume a file goes on behind its
    end. `MCFatChain_full.cfg` with `LastCluster = 4` and `InitFat <- MCFatBeyond`. It was found by the
    proof of `FilesApart`, which therefore needs `TailUsed(InitFat)`.
18. The same `FileSeek()` in a hardfile: `FileSeek(file, 1, SEEK_CUR)` behind the last sector of the
    last cluster (`hdd.c:419`) leaves the end mark as cluster, and the next access inside that
    cluster keeps it, since the cluster number does not change (`fat.c:1151`): a sector is read
    from a place outside the file, or stored there. A hardfile whose size is a multiple of the
    cluster size is enough, if its geometry uses it up. `MCHardDisk_ata.cfg` with `FileSize =
    6`, `EOC = 5`, an `MCFat` in which 3 and 5 lead to 5, and without the `ASSUME` of
    `MCHardDisk`. It was found by the proof of `TransfersRight`, which therefore needs
    `EndsInside`.
19. After SET_ADDRESS failed (`usb.c:382`) the device stays enabled at the default address while
    `hub.c:197` takes the reset flag back, and nobody disables its port: the device at the next port
    is reset too, and SET_ADDRESS reaches both. `MCUsbTree_cross.cfg` with `MaxUnplugs = 0` and
    `MaxFaults = 1`. `OneAnswers` therefore says it only of a host of which no transfer failed this
    way (`Quiet`).

Four more are visible in the models and stated as exceptions of properties, not as runs: a
device no driver accepts keeps its slot even when the root is removed (`usb.c:466`, history
variable `leaked`); a device back on its port before its absence was noticed leaves a second
entry (`bounced`); an entry of the transmit ring may be sent before it is filled (`stale`).
`lba + length` of READ(10) and WRITE(10) is compared with the size of the disk in 32 bits and wraps
(`tos.c:321`, `NoWrap`). Numbers 16 and 19 are excepted likewise (`shared`, `refused`), and what follows a request
to a hub that failed (`ignored`), as no caller looks at its result (`hub.c:169`). One exception of the menu: a message that closes the page
of the hard disks leaves the configuration changed (`lost`).

## 4. What is proved

For every value of the constants that the named assumptions (`SdCardAssumption`, `FatAssumption`,
`FatChainAssumption`, `CardAssumption`, `UsbAssumption`, `UsartAssumption`, `GayleAssumption`,
`HardDiskAssumption`, `StDmaAssumption`, `StDisksAssumption`, `MenuAssumption`, `SavedAssumption`,
`FloppyAssumption`, `FddAssumption`) allow. Some theorems have a hypothesis of their own, because without it the code does otherwise:
`TailUsed(InitFat)`, no entry of the FAT behind the volume is free (disagreement 17); `OneList`, all
file entries of a core's menu name the same files (disagreement 12); `NoWrap`, no transfer asked for
goes beyond 32 bits; and `Inside`, the ST asks for sectors that the floppy in the drive has. These
two are about the commands the driver gives; `MCStDma` has TLC evaluate them for those of the run.
`NoneLost(InitFat, InitDir)` says that the card has no lost clusters when it is put in, since nothing
in the firmware looks for them. `EndsInside` is about the size of a hardfile (disagreement 18). For
floppies, `QuietInsert`, `SlowSelect` and `RereadFirst` are the three constants that hide
disagreements 11, 14 and 2, each needed because the code has one cursor for everything and looks at
the drive and the track only at the start of a call; `Apart` says that the images on the card are
files of a sound FAT, long enough and not linked to each other, and `WellWritten` is about what the
Amiga writes: without a sync before it, `FindSync()` would miss a header. `MCHardDisk` and `MCFdd`
assume the same of the instances, so that TLC evaluates them.

**`SdCardProofs`** (518 obligations)

* `TypeCorrect`. `SeekType` and `FillType` say that a seek ends in a cursor whether or not it
  finds the sector; the step is split by who owns a variable: front end, ARM, card.
* `AckCorrect`. `AckAnswersRequest` alone is not inductive: that a transfer answers the pending
  command follows from what the ARM had seen before it began. `Handshake` adds for every `pc`
  what the front end is doing meanwhile: while the ARM is in `write` the front end is busy with
  that sector and has not been acknowledged, and so on.
* `SectorStableCorrect`, an action property, from the same invariant.
* `BufferCorrect`, from `BufferInv`: the buffer is given up in every write before the card
  changes, and `held` and `card` only change together with what they are related to. No
  assumption on mounting or failures is needed.
* `ReadYourWritesCorrect`, from `SafeInv`, the conjunction of all of them with `BareInv`: on the
  bare card `view` is the card, except for the sector between fetch and store, which is in
  `wr_buf`; and what the front end holds after a transfer is `view` of its sector. It is needed
  because the write is acknowledged before it is stored, so that `view = card` is false just when
  the next command may begin.
* `BlockDeviceCorrect`, the safety part of the refinement of `BlockDevice`: `AbsMem` and `AbsOp`
  are the memory and the command that the state stands for, by the mapping of `SdCard`; initial
  states map to initial states, and every step up to the first mount or failed transfer (`Bare'`)
  maps to a step of the block device or to a stutter. One lemma per action, each from `SafeInv`: a
  write takes effect when it is fetched because `Promised` counts what is in `wr_buf`, and the
  store behind it then changes nothing.

**`FatChainProofs`** (3981 obligations)

* `TypeCorrect`.
* `FilesApartCorrect`, under `TailUsed(InitFat)`. What the firmware reads is not the disk but
  `See`, the disk with the buffered sector laid over it. `LinkInv` says that on both, links lead to
  used clusters, no two to the same and none to a first cluster, and what is left open between two
  sector writes of a call: a cluster allocated but not linked yet, or one cut off, is in use and
  nobody's target (`Unlinked`). That alone makes chains disjoint (a chain is a smallest closed set,
  so that its members are followed from the first one without induction). That data is only
  written to clusters of the own file needs `FileInv`, as long as nothing failed: every client's
  cursor is in the chain of its file, also between the steps of a call, and the buffer is at most
  one entry ahead of the disk (`Ahead`).
* `OthersUntouchedCorrect`, an action property, from the same invariant: an entry that changes is
  in the chain of the file of the call, or was free.
* `CopiesCorrect`, from `CopyInv`: the copies up to `op.copy` have what is in the buffer, the others
  what was on the disk before.
* `ClustersAccountedCorrect`, under `TailUsed(InitFat)` and `NoneLost(InitFat, InitDir)`. Of no cluster
  lost, the invariant is `OwnedInv`: what is in use on `See` is in the chain of a file or
  `OnItsWay`, that is just allocated, or in the rest of a chain that `FileWriteEnd()` is freeing.
  Changing one entry makes two chains of one (`ChainFalls`), and the second is what is on its way then.
  Of the count it is `CountInv`: `free_clusters` plus what the open files still have to account for is
  the number of free clusters. The sum over the clients is a function on sets of clients that adds one
  client at a time (`Sums`), so that a step which changes one `cluster_change` changes the sum by as
  much, without induction; `Coming` is the cluster a call has taken or freed and not yet added.

**`UsbTreeProofs`** (2497 obligations), for any tree of hubs with any number of ports

* `TypeCorrect`.
* `TreeCorrect`: every entry's parent is a hub in the table up to the root, and no port has two
  entries. `Below`, the entries released with a device, is a smallest closed set, so that no orphan
  is left; a free slot taken for a new device is nobody's parent, so that no ring closes. That no
  port has two entries is only true because table and bus agree: `EntryTells` (a device with an
  address is told of by the entry of that number, with hub and port), `PortAgrees` (an entry is that
  of the device at its port, or of one whose loss the hub still has to report) and
  `BusInv` (a device that has an address is reached through enabled ports only, so that switching
  off a hub takes the addresses of all behind it).
* `OneAnswersCorrect`: no two devices share an address unless one was `shared`, and while nothing
  is unplugged and no SET_ADDRESS or request to a hub has failed (`Quiet`) none is, nor are two
  devices at the default address while there are free slots; other transfers may fail. For that `CalmInv` says that one port at most is being reset or waits to be configured, that
  `bResetInitiated` is set while it is, and that all other devices in service have an address.

**`UsartProofs`** (835 obligations)

* `TypeCorrect`, and lemmas on the ring: `Dist` is how far one index is behind another, and
  `DistNext`, `DistAdvance`, `DistInjective` say what moving either index does to it.
* `RxKeptCorrect` and `RxInOrderCorrect`, from `RxInv`: the entries between the indices hold the
  consecutive numbers that end in `stored`, the entry about to be read included when the index
  has moved first. `Size - 1` entries are used at most, which is why the entry the main loop is
  still to read cannot be overwritten by the handler although its index already passed it: the
  full test keeps one entry unused.
* `TxInOrderCorrect`, from `TxRingInv` (the ring holds the last bytes given, in order, except an
  entry that is yet to be filled) and `TxOrderInv` (shift register before holding register before
  ring). Under `stale` nothing is claimed.
* `InterruptCorrect`, from `InterruptInv`: bytes wait with the interrupt disabled only in the
  steps between the store of an index and the end of the call, which enables it.

**`HardDiskProofs`** (7834 obligations), for any geometry, chain, index, FIFO and counter, under
`EndsInside`

* `TypeCorrect` and `TransfersAreRight`, from `IInv`, a count of sectors. `Progress` is how many the
  ARM has given or taken. In a read (`Given`) that is what the Amiga has plus what is in the FIFO, in a
  write (`Asked`) what the Amiga gave less what is in the FIFO; both parties agree on where the block
  ends, and the sectors in the FIFO are those that follow the ones the Amiga has. `ArmServes` adds that
  the registers and the `lba` of the ARM, which it advances separately, stand for the same sector:
  `chs2lba` of the next position is one more. `Engaged` is what makes it hold across commands: the
  last sector of a write is answered before it is stored and the last registers of READ MULTIPLE are
  written behind the answer, so that the Amiga may give the next command while the ARM is still busy
  with the last one.
* That what is written ends on the card is in `StoreInv`: `image`, the card as the Amiga wrote it, is
  the card except where a sector still in the FIFO or in the buffer will be stored, and there it is the
  last of them that counts. That the cursor finds them is `FilesInv`: it is always in the cluster of its
  sector (`Cursor`), whether `FileSeek()` went through the index, along the chain, or neither.

**`StDmaProofs`** (2558 obligations)

* `EnabledCorrect`: what the core answers for is what `tos.c` has a disk for. The core's control
  word is set in some places from the copy in `config.system_ctrl` and in others from a change of
  it, so that `ServedInv` needs the enable bits of both to agree, also while a command is served;
  switching direct access off must enable target 0 again if it has an image behind it.
* `TypeCorrect` and `AnswerCorrect`, under `NoWrap` and `Inside`, from `IInv`. `AnswerRight` is an
  action property, and what makes an answer right happened over many steps before. That it is
  the answer to this command is in `BusInv` and `ArmInv`: a controller waits for the ARM only with
  the command that the driver has given and still waits for, no two are pending, and the ARM's
  snapshot is that command; `Given` says which of its fields `acsi.v` has after n bytes. That the
  right sectors were moved is in `AcsiLoop` and `FdcLoop`: in every round buffer, card and DMA counter
  are those of `PartIn` or `PartOut` for the sectors moved so far (`AcsiMoved`, `FdcMoved`), counted
  on the disk that is mounted, which the menu does not change while the ARM is in the loop. One
  more sector is one more step of `Brought` or `Taken` (`OneBrought`, `OneTaken`); the latter needs
  that no two sectors of a disk lie in one place. `StoredBeforeIs` shows that `FloppyOffset()` is the
  number of sectors before one in the order of track, side and sector: the offsets of these are
  all the numbers below it, each once, a bijection that gives the cardinality.

**`MenuProofs`** (2500 obligations)

* `ShownCorrect`. `MenuShown` alone is not inductive, because a cursor key leads from any state to
  the parent of the page drawn last, and the file selector to the pages it was given: `ShownInv`
  adds that the closed menu has no mask, is nobody's parent and never given to the selector.
  `Turned` is what every one of the 65 states of the open menu does, in terms of which the keys
  are then treated. It assumes `Patient`, as the run does.
* `TypeCorrect`, `HardfilesCorrect` and, under `OneList`, `ListCorrect`, from `MenuInv(u)`. Its
  argument is the cursor record, because `HandleUI()` first moves the cursor by the key and then runs
  the page with it: the invariant is shown for the cursor in between (`Moved`) and then for the one
  the page leaves. `CursorInv`: the row fits the page, also the one the selector will return to, and
  neither a page of the selector nor one that only acts once is a parent. `HardInv`: while the menu
  is at the hard disks, or in the selector called from there, it is their copy `t_hardfile` that is
  as opened, otherwise the configuration; and which of the two it is after a cursor key follows
  from parent and mask. `ListInv`: the pointer of the selector leads to an extension that is still
  the one asked for. Most of the 65 states only need `Turns`, the move to a page with nothing
  special about it.

**`FddProofs`** (6226 obligations), for any drives, images, chains, FIFO, lengths of reads and
contents of writes; in layers, each kept by every step in which the ones before it hold

* `TypeCorrect`, from `BaseInv`, which also says when the FIFO is empty and who has the DMA; and
  `ChangesAreSeen`, from `ChangeInv`: a drive the controller takes for empty has its latch set, and the
  controller is told before the menu changes a disk. Neither needs a hypothesis.
* `CachesAreRight`, under `QuietInsert`: `CacheStays` says that a selected file keeps the cursor until
  `InsertFloppy()` runs, and that every entry of a cache is the cluster of its track.
* `ImagesAreAsWritten` and `StreamsAreRight`, under all hypotheses. `CursorInv`: within a call of
  `HandleFDD()` the cursor is at the sector the call counts, and a drive that would go on with its
  track goes on in the right cluster; this is where `SlowSelect` and `RereadFirst` are needed. `WriteInv`
  describes the card by what is still to come: `Will` says of a list of pieces, the header the ARM has
  already taken included, which sectors it leaves with which contents; a step of the ARM takes one piece
  off the list and does to the card what that piece would have. `ReadInv`: what the Amiga has got and
  what is in the FIFO is one stretch of whole sectors (`Stretch`), and the next piece to be sent is the
  one behind its last, be it in this call or in a later one (`OnInv`), which is what carries it over
  calls that end with a full FIFO.

`AckCorrect`, `InterruptCorrect`, `RxKeptCorrect` and `CachesAreRight` are invariants no run checks
any more: the first two are what `ReadYourWrites` and `AllSent` rest on, the third is stronger than
`RxInOrder`, and `CacheRight`, on which the streams rest, is the property of `MCFdd_select.cfg`.

**Without induction over data.** The library's induction theorems cannot be instantiated, but
`WFMin` of the well-founded relations has no operator parameter: with it every nonempty set of
numbers has a least member, which is what `CHOOSE` in the searches for a free slot, cluster or row
needs. Chains and trees are smallest closed sets (`\A S \in SUBSET ...`) instead of recursive
functions: that something holds all along a chain is shown by giving the set of clusters for which
it holds and its closure.

**Only model-checked:**

* liveness (`ResetCompletes`, `EventsDelivered`, `EveryoneServed`, `PhantomsGo`, `AllSent`,
  `CommandEnds`, `MountedAnswers`, `EscLeaves`, `TransferEnds`), which the prover cannot do under
  fairness, with the liveness part of `ImplementsBlockDevice`;
* `PairsIntact` and the types of `ArchieKbd`. `PairsIntact` is true with up to three resets by the
  driver (`MaxResets`) and false with four within one handshake: an acknowledgement out of place
  (`archie.c:430-439`) sets the state back without emptying the ring, the time-out starts the
  handshake again, and the second half of a pair is left in the ring. No theorem for every value
  of `MaxResets` can exist; the run allows one.

## 5. What the models leave out

* `SdCard`: the front end is configured (`io_conf`) before the machine's first command. The
  identification commands, CSD, CID and the bits of the SPI protocol. A write goes to the card
  even with a file mounted, as in the code. The end of a card transfer is one step; it fails or
  succeeds as a whole. Empty files are not mounted.
* `FatFile`, `FatChain`: one end mark (the code knows a range when it reads directories). The
  table of `FatFile` has as many entries as the volume has clusters; that of `FatChain` may have
  more. `ClusterAllocate()`'s scan is one step.
  Reads of the FAT and of the directory do not fail, and the volume has a valid info sector (else
  the code stops keeping the count), the card is not exchanged, sizes in directory entries
  (`UpdateEntry()`) are not kept, the initial directory has no empty file, and two clients never
  open the same file.
* `ArchieKbd`: motion has one coordinate. LEDs and the floppy and ROM code of `archie.c`. Bytes
  are not lost or garbled on the link; time-outs may fire early.
* `UsbTree`: settle, reset and first frame of the root are one step. A device takes its address
  exactly if the host sees SET_ADDRESS succeed: that only the final handshake is lost is left out.
  A class driver that fails is a fault. The requests that power the ports of a new hub (`hub.c:105`)
  do not fail; a hub does not disable a port on its own, so that those which clear `C_PORT_ENABLE`
  change nothing. Contents of free entries (stale fields the code never reads), low speed behind hubs, and the class drivers' own polling are left out.
* `Usart`: the receive register is not overrun (the handler comes before the next byte).
* `HardDisk`: geometry and partitions are constants. The card does not fail. IDENTIFY's contents are
  a marker. Reads of more than one special sector are left out: their interrupts come without the
  buffer having been emptied. The registers that follow the data of READ MULTIPLE are written before
  the Amiga gives its next command (`ReadMultipleRegisters` says what would happen otherwise).
* `StDma`: one block of memory per sector; INQUIRY, MODE SENSE and READ CAPACITY by what tells
  them apart; formats as sets; `BootSector` for the only thing the detection reads of a card. TOS
  and cartridge upload, the serial and MIDI bridges and the reset of the core.
* `Menu`: texts, drawing, scrolling, the directory behind the selector (a name may be there or
  not). Selections with no effect on the state of the model are steps back to their page. `hdf` is
  about calls: `OpenHardfile()` itself keeps the file it had when the new one is missing or the kind is
  none (`hdd.c:869-926`). Only the configuration of drives and hard disks is kept, not that
  of memory, chipset and video.
* `Fdd`: the bits of MFM, checksums (a piece is good or broken), sync words, gaps, index pulses, motors
  and sides without a step pulse. No disk is ejected and no transfer stopped while a track is
  written. Images shorter than the disk.
* The Amiga's keyboard and mouse, the routing of keys, and everything marked "no" above.

## 6. Plan

Done: the core of storage (`SdCard`, `FatFile`, `FatChain`), the two links whose protocols can
go wrong in time (`ArchieKbd`, `Usart`), USB enumeration (`UsbTree`), the disks of the Amiga and the
ST (`HardDisk`, `Fdd`, `StDma`), the menu that changes them (`Menu`); proofs of all safety
properties of all of them but `ArchieKbd`, with the refinement of `BlockDevice` by `SdCard`. Next, in
this order:

1. **Types of `ArchieKbd`**, and `PairsIntact` under a bound on the resets.
2. **`Xmodem`** on top of `FatChain`'s calls: blocks lost, damaged and sent again; the abstract
   specification is the file as a prefix of what was sent.
3. **`Timers`**: `GetTimer()`, `CheckTimer()` with 12 bits against a clock that does not wrap, and
   which callers poll often enough; it justifies the free time-outs of `ArchieKbd`.
4. **`KeyRouting` and `Ikbd`**: keys pressed in one mode and released in another; packets in the
   queue; the clock.
