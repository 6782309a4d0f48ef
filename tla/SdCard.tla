------------------------------ MODULE SdCard ------------------------------
(***************************************************************************)
(* The SD card the FPGA does not have.  On the MiST the card hangs on the  *)
(* ARM; a core that expects one gets src/tests/verilator/sdcard/sd_card.v, *)
(* an SD card front end that turns CMD17 and CMD24 into a request          *)
(* (io_rd, io_wr) to the io controller, and user_io_poll() in              *)
(* src/firmware/user_io.c polls the request, moves the sector between card *)
(* and FPGA and keeps one sector of read-ahead.  The transfer is           *)
(* acknowledged by io_ack, high from the command byte of the SPI transfer  *)
(* to its end (src/cores/spectrum/user_io.v).  The machine in the FPGA,    *)
(* the front end and the ARM run concurrently; the steps of the ARM        *)
(* between two SPI transfers are one action each.                          *)
(***************************************************************************)
EXTENDS FatFile

CONSTANTS
    CardSize,      \* sectors of the card
    Data,          \* contents of a sector
    InitCard,      \* contents of the card at power-up
    NewData,       \* what the machine writes
    Blank,         \* contents of a buffer nothing was put in
    CardSdhc,      \* the inserted card is SDHC (MMC_IsSDHC)
    AllowSdhc,     \* the core lets the front end show an SDHC card
    Images,        \* first clusters of the files the menu may mount
    MaxFaults      \* bound: failing transfers to or from the card

Sectors == 0 .. CardSize - 1
Lbas == 0 .. CardSize               \* requests, one past the end included
NoLba == -1                         \* buffer_lba 0xffffffff
NoImage == -1                       \* sd_image.size = 0

ASSUME SdCardAssumption ==
    /\ CardSize \in Nat \ {0}
    /\ InitCard \in [Sectors -> Data]
    /\ NewData \subseteq Data
    /\ Blank \in Data
    /\ CardSdhc \in BOOLEAN
    /\ AllowSdhc \in BOOLEAN
    /\ Images \subseteq Clusters
    /\ MaxFaults \in Nat

VARIABLES
    \* the front end, sd_card.v
    read_state,    \* RD_STATE_...
    write_state,   \* WR_STATE_..., the states up to SEND_DRESP merged in IDLE
    io_rd, io_wr,  \* request lines
    io_ack,        \* a sector transfer is in progress
    rd_io_ack, wr_io_ack,           \* latched falling edge of io_ack
    lba,           \* argument of the command in progress
    sector,        \* its sector buffer
    conf,          \* conf: "none" until the configuration has arrived
    \* user_io_poll
    pc,            \* where in the poll the ARM is
    req,           \* the lba of the request it is serving
    buffer,        \* static char buffer[512]
    buffer_lba,    \* static uint32_t buffer_lba
    wr_buf,        \* uint8_t wr_buf[512], on the stack
    sd_image,      \* start cluster of the mounted file
    cursor,        \* the moving part of sd_image
    \* the card
    card,
    faults,        \* transfers that failed so far
    \* history
    held,          \* the sector of the card buffer was last filled from
    view           \* what the machine has written and seen acknowledged, as
                   \* long as no file is mounted and no transfer failed

front == <<read_state, write_state, io_rd, io_wr, io_ack, rd_io_ack,
           wr_io_ack, lba, sector, conf>>
arm == <<pc, req, buffer, buffer_lba, wr_buf, sd_image, cursor>>
medium == <<card, faults, held>>
vars == <<front, arm, medium, view>>

PCs == {"idle", "write", "store", "load", "send", "ahead"}

io_sdhc == AllowSdhc /\ conf = "sdhc"

Init ==
    /\ read_state = "IDLE" /\ write_state = "IDLE"
    /\ io_rd = FALSE /\ io_wr = FALSE /\ io_ack = FALSE
    /\ rd_io_ack = FALSE /\ wr_io_ack = FALSE
    /\ lba = 0
    /\ sector = Blank
    /\ conf = "none"
    /\ pc = "idle"
    /\ req = 0
    /\ buffer = Blank
    /\ buffer_lba = NoLba
    /\ wr_buf = Blank
    /\ sd_image = NoImage
    /\ cursor = [sector |-> 0, cluster |-> EOC]
    /\ card = InitCard
    /\ faults = 0
    /\ held = NoLba
    /\ view = InitCard

-----------------------------------------------------------------------------
(* The machine and the front end.                                          *)

\* Mutant: a command is accepted while a write is in progress.
ReadyWhileBusy == read_state = "IDLE" /\ conf # "none"

(* A new command is accepted only when no read or write is in progress.    *)
(* The machine waits for the card to be configured (io_conf), as any host  *)
(* that asks for the CSD first does.                                       *)
Ready == read_state = "IDLE" /\ write_state = "IDLE" /\ conf # "none"

(* CMD17 READ_SINGLE_BLOCK: wait for the io controller. *)
Cmd17(l) ==
    /\ Ready
    /\ lba' = l
    /\ read_state' = "WAIT_IO"
    /\ io_rd' = TRUE
    /\ rd_io_ack' = FALSE
    /\ UNCHANGED <<write_state, io_wr, io_ack, wr_io_ack, sector, conf,
                   arm, medium, view>>

(* The front end has seen the end of the transfer: data token, then data. *)
SendToken ==
    /\ read_state = "WAIT_IO"
    /\ rd_io_ack
    /\ read_state' = "SEND_DATA"
    /\ UNCHANGED <<write_state, io_rd, io_wr, io_ack, rd_io_ack, wr_io_ack,
                   lba, sector, conf, arm, medium, view>>

(* The machine has read the 512 bytes of the sector buffer. *)
SendData ==
    /\ read_state = "SEND_DATA"
    /\ read_state' = "IDLE"
    /\ rd_io_ack' = FALSE
    /\ UNCHANGED <<write_state, io_rd, io_wr, io_ack, wr_io_ack, lba, sector,
                   conf, arm, medium, view>>

(* CMD24 WRITE_BLOCK with its data: busy until the io controller took it. *)
Cmd24(l, d) ==
    /\ Ready
    /\ lba' = l
    /\ sector' = d
    /\ write_state' = "BUSY"
    /\ io_wr' = TRUE
    /\ wr_io_ack' = FALSE
    /\ UNCHANGED <<read_state, io_rd, io_ack, rd_io_ack, conf, arm, medium,
                   view>>

(* The busy state ends: the machine takes the sector as written. *)
WriteDone ==
    /\ write_state = "BUSY"
    /\ wr_io_ack
    /\ write_state' = "IDLE"
    /\ wr_io_ack' = FALSE
    /\ view' = IF lba \in Sectors /\ sd_image = NoImage /\ faults = 0
               THEN [view EXCEPT ![lba] = sector] ELSE view
    /\ UNCHANGED <<read_state, io_rd, io_wr, io_ack, rd_io_ack, lba, sector,
                   conf, arm, medium>>

-----------------------------------------------------------------------------
(* The card and the mounted file.                                          *)

(* The transfer to or from the card fails: timeout, error token or a       *)
(* sector past the end.                                                    *)
MMC_Fail(s) ==
    \/ s \notin Sectors /\ UNCHANGED faults
    \/ faults < MaxFaults /\ faults' = faults + 1

(* MMC_Read(s, buffer): a failing read leaves the buffer as it was. *)
MMC_Read(s) ==
    \/ /\ s \in Sectors
       /\ buffer' = card[s]
       /\ held' = s
       /\ UNCHANGED faults
    \/ /\ MMC_Fail(s)
       /\ held' = NoLba
       /\ UNCHANGED buffer

(* MMC_Write(s, wr_buf); its result is not looked at either. *)
MMC_Write(s) ==
    \/ /\ s \in Sectors
       /\ card' = [card EXCEPT ![s] = wr_buf]
       /\ UNCHANGED faults
    \/ /\ MMC_Fail(s)
       /\ UNCHANGED card

(* Sector l of the card, or of the mounted file, into buffer.  The results *)
(* of FileSeek() and of the read are not looked at.                        *)
Fill(l) ==
    \/ /\ sd_image = NoImage
       /\ MMC_Read(l)
       /\ UNCHANGED cursor
    \/ /\ sd_image # NoImage
       /\ \E g \in FileSeek(cursor, sd_image, l) :
            /\ cursor' = g
            /\ MMC_Read(FileSector(g))

-----------------------------------------------------------------------------
(* user_io_poll(), the part for cores with a card.                         *)

(* user_io_sd_get_status(): one SPI transfer reads command and sector; the *)
(* configuration the core asks for is sent at once.  A write is refused,   *)
(* and stays unanswered, when the card is SDHC and the core is not.        *)
PollStatus ==
    /\ pc = "idle"
    /\ conf' = IF conf = "none" THEN IF CardSdhc THEN "sdhc" ELSE "sd"
               ELSE conf
    /\ pc' = CASE io_wr /\ ~io_rd /\ (~CardSdhc \/ io_sdhc) -> "write"
               [] io_rd /\ ~io_wr /\ buffer_lba # lba -> "load"
               [] io_rd /\ ~io_wr /\ buffer_lba = lba -> "send"
               [] OTHER -> "idle"
    /\ req' = IF pc' = "idle" THEN 0 ELSE lba
    /\ UNCHANGED <<read_state, write_state, io_rd, io_wr, io_ack, rd_io_ack,
                   wr_io_ack, lba, sector, buffer, buffer_lba, wr_buf,
                   sd_image, cursor, medium, view>>

\* Mutant: the request line stays up.
AckRiseKeepsRequest ==
    /\ pc \in {"write", "send"}
    /\ ~io_ack
    /\ io_ack' = TRUE
    /\ UNCHANGED <<read_state, write_state, io_rd, io_wr, rd_io_ack, wr_io_ack,
                   lba, sector, conf, arm, medium, view>>

(* A sector transfer starts: io_ack rises and takes the request back. *)
AckRise ==
    /\ pc \in {"write", "send"}
    /\ ~io_ack
    /\ io_ack' = TRUE
    /\ io_rd' = FALSE /\ io_wr' = FALSE
    /\ UNCHANGED <<read_state, write_state, rd_io_ack, wr_io_ack, lba, sector,
                   conf, arm, medium, view>>

(* io_ack falls at the end of a transfer; the front end latches that for   *)
(* the command it is executing.                                            *)
AckFall ==
    /\ io_ack
    /\ io_ack' = FALSE
    /\ rd_io_ack' = (read_state # "IDLE")
    /\ wr_io_ack' = (write_state = "BUSY")

\* Mutants: the buffer is given up only for the sector written, as the
\* indentation of the code has it, or not at all.
WriteDropsMatching ==
    /\ pc = "write"
    /\ AckFall
    /\ buffer' = buffer
    /\ buffer_lba' = IF buffer_lba = req THEN NoLba ELSE buffer_lba
    /\ wr_buf' = sector
    /\ pc' = "store"
    /\ UNCHANGED <<read_state, write_state, io_rd, io_wr, lba, sector, conf,
                   req, sd_image, cursor, medium, view>>

WriteKeepsBuffer ==
    /\ pc = "write"
    /\ AckFall
    /\ wr_buf' = sector
    /\ pc' = "store"
    /\ UNCHANGED <<read_state, write_state, io_rd, io_wr, lba, sector, conf,
                   req, buffer, buffer_lba, sd_image, cursor, medium, view>>

(* Write, up to the end of UIO_SECTOR_WR.  A read buffer for the sector is *)
(* overwritten with the uninitialised wr_buf, and given up in any case.    *)
Write ==
    /\ pc = "write"
    /\ AckFall
    /\ IF buffer_lba = req THEN buffer' \in Data ELSE UNCHANGED buffer
    /\ buffer_lba' = NoLba
    /\ wr_buf' = sector
    /\ pc' = "store"
    /\ UNCHANGED <<read_state, write_state, io_rd, io_wr, lba, sector, conf,
                   req, sd_image, cursor, medium, view>>

\* Mutant: the sector number is read again after the transfer.
StoreCurrentLba ==
    /\ pc = "store"
    /\ MMC_Write(lba)
    /\ pc' = "idle"
    /\ req' = 0
    /\ wr_buf' = Blank
    /\ UNCHANGED <<front, buffer, buffer_lba, sd_image, cursor, held, view>>

(* ... and MMC_Write(), the front end already free for the next command. *)
Store ==
    /\ pc = "store"
    /\ MMC_Write(req)
    /\ pc' = "idle"
    /\ req' = 0
    /\ wr_buf' = Blank
    /\ UNCHANGED <<front, buffer, buffer_lba, sd_image, cursor, held, view>>

(* Read of a sector that is not in the buffer. *)
Load ==
    /\ pc = "load"
    /\ Fill(req)
    /\ buffer_lba' = req
    /\ pc' = "send"
    /\ UNCHANGED <<front, req, wr_buf, sd_image, card, view>>

(* UIO_SECTOR_RD: the sector goes to the front end. *)
Send ==
    /\ pc = "send"
    /\ AckFall
    /\ sector' = buffer
    /\ pc' = "ahead"
    /\ UNCHANGED <<read_state, write_state, io_rd, io_wr, lba, conf, req,
                   buffer, buffer_lba, wr_buf, sd_image, cursor, medium, view>>

\* Mutant: the buffer is marked with the sector after the one read.
ReadAheadOffByOne ==
    /\ pc = "ahead"
    /\ Fill(req + 1)
    /\ buffer_lba' = req + 2
    /\ pc' = "idle"
    /\ req' = 0
    /\ UNCHANGED <<front, wr_buf, sd_image, card, view>>

(* The next sector is read ahead. *)
ReadAhead ==
    /\ pc = "ahead"
    /\ Fill(req + 1)
    /\ buffer_lba' = req + 1
    /\ pc' = "idle"
    /\ req' = 0
    /\ UNCHANGED <<front, wr_buf, sd_image, card, view>>

(* The menu, called from the same main loop after user_io_poll(), mounts a *)
(* file it just opened; nothing tells the read-ahead buffer.               *)
user_io_file_mount(img) ==
    /\ pc = "idle"
    /\ sd_image' = img
    /\ cursor' = [sector |-> 0, cluster |-> img]
    /\ UNCHANGED <<front, pc, req, buffer, buffer_lba, wr_buf, medium, view>>

-----------------------------------------------------------------------------

Machine == (\E l \in Lbas : Cmd17(l) \/ \E d \in NewData : Cmd24(l, d))
           \/ SendData
FrontEnd == SendToken \/ WriteDone
Arm == PollStatus \/ AckRise \/ Write \/ Store \/ Load \/ Send \/ ReadAhead
Menu == \E img \in Images : user_io_file_mount(img)

Next == Machine \/ FrontEnd \/ Arm \/ Menu

(* The main loop never blocks and the front end is clocked; the machine    *)
(* takes the data it asked for.                                            *)
Fairness == WF_vars(Arm) /\ WF_vars(FrontEnd) /\ WF_vars(SendData)

Spec == Init /\ [][Next]_vars
FairSpec == Spec /\ Fairness

-----------------------------------------------------------------------------
(* Properties.                                                             *)

FrontTypeOK ==
    /\ read_state \in {"IDLE", "WAIT_IO", "SEND_DATA"}
    /\ write_state \in {"IDLE", "BUSY"}
    /\ io_rd \in BOOLEAN /\ io_wr \in BOOLEAN /\ io_ack \in BOOLEAN
    /\ rd_io_ack \in BOOLEAN /\ wr_io_ack \in BOOLEAN
    /\ lba \in Lbas
    /\ sector \in Data
    /\ conf \in {"none", "sd", "sdhc"}

ArmTypeOK ==
    /\ pc \in PCs
    /\ req \in Lbas
    /\ buffer \in Data
    /\ buffer_lba \in Lbas \cup {NoLba, CardSize + 1}
    /\ wr_buf \in Data
    /\ sd_image \in Images \cup {NoImage}
    /\ cursor \in Cursors

MediumTypeOK ==
    /\ card \in [Sectors -> Data]
    /\ faults \in 0 .. MaxFaults
    /\ held \in Sectors \cup {NoLba}
    /\ view \in [Sectors -> Data]

TypeOK == FrontTypeOK /\ ArmTypeOK /\ MediumTypeOK

(* A transfer answers the request that is pending and no other: while      *)
(* io_ack is high the front end waits for exactly what the ARM is doing,   *)
(* and for the sector the ARM is doing it with.                            *)
AckAnswersRequest ==
    io_ack => /\ req = lba
              /\ \/ pc = "write" /\ write_state = "BUSY" /\ ~wr_io_ack
                 \/ pc = "send" /\ read_state = "WAIT_IO" /\ ~rd_io_ack

(* The read-ahead buffer, as long as it is valid for some sector, is the   *)
(* present contents of the sector of the card it was filled from, whatever *)
(* was written since, by whichever path, and whatever failed.              *)
BufferCoherent ==
    (buffer_lba # NoLba /\ held # NoLba) => buffer = card[held]

(* Without a mounted file and a failing transfer the machine reads back    *)
(* what it wrote: the write is acknowledged before MMC_Write() stores it   *)
(* and the next read may be served from the read-ahead buffer.             *)
ReadYourWrites ==
    (/\ read_state = "SEND_DATA" /\ lba \in Sectors
     /\ sd_image = NoImage /\ faults = 0)
        => sector = view[lba]

(* The sector buffer does not change while the machine reads it, nor       *)
(* between the machine's write and the transfer that fetches it.           *)
SectorStable ==
    [][(read_state = "SEND_DATA" \/ (write_state = "BUSY" /\ ~wr_io_ack))
         => sector' = sector]_vars

(* With a file mounted the machine is given the sectors of that file       *)
(* ("are we using a file as the sd card image?", user_io.c:941).           *)
ServedFromImage ==
    (pc = "send" /\ sd_image # NoImage /\ faults = 0) =>
        \A c \in Clusters : InChain(sd_image, req, c) =>
            held = FileSector([sector |-> req, cluster |-> c])

(* A seek to a sector of the file ends in the cluster of that sector, the  *)
(* "current cluster" of fileTYPE (fat.h:21).                               *)
SeekFindsCluster ==
    [][(pc = "load" /\ pc' = "send" /\ sd_image # NoImage) =>
         \A c \in Clusters : InChain(sd_image, req, c) => cursor'.cluster = c
      ]_vars

(* The machine sees a block device.  A write takes effect when its sector  *)
(* has been fetched, though MMC_Write() comes later.                       *)
BD == INSTANCE BlockDevice WITH
    mem <- [s \in Sectors |->
              IF pc = "store" /\ req = s THEN wr_buf ELSE card[s]],
    op <- IF read_state = "IDLE" /\ write_state = "IDLE"
          THEN [kind |-> "idle"]
          ELSE IF write_state = "BUSY"
          THEN IF wr_io_ack THEN [kind |-> "written"]
               ELSE [kind |-> "write", lba |-> lba, data |-> sector]
          ELSE IF read_state = "WAIT_IO" /\ ~rd_io_ack
          THEN [kind |-> "read", lba |-> lba]
          ELSE [kind |-> "data", lba |-> lba, data |-> sector]
ImplementsBlockDevice == BD!BDSpec
=============================================================================
