------------------------------- MODULE StDma -------------------------------
(***************************************************************************)
(* The disks of the Atari ST.  The DMA chip of the core (dma.v) holds a    *)
(* floppy controller (fdc.v) and the ACSI bus (acsi.v), each of which      *)
(* keeps a command pending until the ARM has served it.  The ARM           *)
(* (src/firmware/tos.c) takes one snapshot of both, moves the sectors      *)
(* through the DMA chip's memory window and acknowledges with a single     *)
(* strobe that reaches both.  The menu, which the ARM runs between two     *)
(* snapshots, inserts and ejects disks.  The ST's driver is external: it   *)
(* gives one command at a time and gives up what nobody answers.           *)
(***************************************************************************)
EXTENDS StDisks, FiniteSets

CONSTANTS
    Targets,        \* ACSI targets, 0 and 1; the ARM serves no other
    Drives,         \* floppy drives, 0 and 1
    Ops, Luns, Lbas, Lens,  \* bounds: the ACSI commands the driver gives
    LunOps,         \* bound: those it gives to other luns than 0 too
    FdcOps, TrackNumbers, SectorNumbers,    \* bounds: and the floppy commands
    LbaMod,         \* 2^32, the width of lba + length
    MaxDirty        \* bound: sectors of the card that have been written

Long(op) == op \in {"read10", "write10", "capacity"}
Reads == {"read", "read10"}
Writes == {"write", "write10"}
MaxLen == CHOOSE n \in Lens : \A k \in Lens : k <= n

ASSUME StDmaAssumption ==
    /\ 0 \in Targets /\ Targets \subseteq {0, 1} /\ Drives \subseteq {0, 1}
    /\ Ops \subseteq Reads \cup Writes \cup
           {"capacity", "ready", "sense", "inquiry", "modesense", "other"}
    /\ LunOps \subseteq Ops /\ FdcOps \subseteq {"read", "write", "readtrack"}
    /\ Ops # {} /\ Luns # {} /\ Luns \subseteq 0 .. 7
    /\ Lbas \subseteq 0 .. LbaMod - 1 /\ LbaMod \in Nat \ {0}
    /\ Lens \subseteq 0 .. 255 /\ Lens \ {0} # {} /\ MaxDirty \in Nat
    /\ TrackNumbers \subseteq Nat /\ SectorNumbers \subseteq Nat

VARIABLES
    acsi,           \* acsi.v: target, bytes given, their values, busy, irq
    fdc,            \* fdc.v: waits for the ARM, the command, irq
    dma,            \* dma.v: sectors left to move, and to which block
    status,         \* dma_status, sent with the last acknowledgement
    ram,            \* the ST's buffer, one entry for each block
    ctrl,           \* the core's control word: ACSI enables, write protection
    system_ctrl,    \* config.system_ctrl, the ARM's copy of it
    hdd_image, hdd_direct, fdd_image,   \* what the ARM has mounted
    asc,            \* why the last command of each target failed
    card,           \* the sectors of the card
    arm,            \* tos_poll() in progress: snapshot and loop variables
    drv,            \* the ST's driver
    before, why     \* history: the card at the last answer, and its reason

armVars == <<system_ctrl, hdd_image, hdd_direct, fdd_image>>
vars == <<acsi, fdc, dma, status, ram, ctrl, armVars, asc, card, arm, drv,
          before, why>>

-----------------------------------------------------------------------------
(* Data.                                                                   *)

Content == {<<"card", s>> : s \in CardSectors} \cup {<<"ram", i>> : i \in 0 .. MaxLen}
Info == {"capacity", "sense", "inquiry", "modesense"}
FreshRam == [i \in 0 .. MaxLen - 1 |-> <<"ram", i>>]
InitCard == [s \in CardSectors |-> <<"card", s>>]

Parm == [op : Ops, lun : Luns, lba : Lbas \cup {0}, len : Lens \cup {1}]
AnyParm == CHOOSE p \in Parm : TRUE
Quiet == [target |-> 0, count |-> 0, parm |-> AnyParm, busy |-> FALSE, irq |-> FALSE]
Command == [op : FdcOps, drive : Drives, track : TrackNumbers, side : {0, 1},
            sector : SectorNumbers]
NoCommand == [op |-> "none"]

Reasons == {0, 32, 33, 37}      \* 0x20, 0x21 and 0x25

TypeOK ==
    /\ acsi \in [target : Targets, count : 0 .. 5, parm : Parm,
                 busy : BOOLEAN, irq : BOOLEAN]
    /\ fdc \in [wait : BOOLEAN, cmd : Command \cup {NoCommand}, irq : BOOLEAN]
    /\ dma \in [left : 0 .. 255, at : 0 .. MaxLen]
    /\ status \in {0, 2}
    /\ DOMAIN ram = 0 .. MaxLen - 1
    /\ \A i \in DOMAIN ram :
            ram[i] \in Content \/ ram[i] \in Info \X Nat \X Nat
    /\ ctrl \in [enable : SUBSET Targets, protect : SUBSET Drives]
    /\ system_ctrl \in [enable : SUBSET Targets, protect : SUBSET Drives]
    /\ hdd_image \in [Targets -> HardFiles \cup {NoFile}]
    /\ hdd_direct \in {0, CardSize}
    /\ fdd_image \in [Drives -> Floppies]
    /\ asc \in [Targets -> Reasons] /\ why \in [Targets -> Reasons]
    /\ card \in [CardSectors -> Content] /\ before \in [CardSectors -> Content]
    /\ arm.pc \in {"poll", "acsi", "acsisectors", "fdc", "fdcsectors"}
    /\ drv.pc \in {"idle", "bytes", "wait"}

-----------------------------------------------------------------------------
(* The DMA chip.                                                           *)

(* Raising an interrupt and leaving the busy state.  What was asked is not *)
(* read any more, and forgotten here.                                      *)
AckAcsi(a) ==
    IF a.busy THEN [Quiet EXCEPT !.target = a.target, !.irq = TRUE] ELSE a

\* Mutant: the strobe does not reach the floppy controller.
AckFdcLost(f) == f

AckFdc(f) == IF f.wait THEN [wait |-> FALSE, cmd |-> NoCommand, irq |-> TRUE] ELSE f

(* dma_ack(): the strobe goes to both. *)
dma_ack(st) ==
    /\ status' = st
    /\ acsi' = AckAcsi(acsi)
    /\ fdc' = AckFdc(fdc)

(* dma_nak() *)
dma_nak ==
    /\ acsi' = [Quiet EXCEPT !.target = acsi.target, !.irq = acsi.irq]
    /\ UNCHANGED <<status, fdc>>

(* mist_memory_write_block(): dma.v counts the sectors, and stops at none. *)
mist_memory_write_block(b) ==
    IF dma.left > 0
    THEN /\ ram' = [ram EXCEPT ![dma.at] = b]
         /\ dma' = [left |-> dma.left - 1, at |-> dma.at + 1]
    ELSE UNCHANGED <<ram, dma>>

(* mist_memory_write() of an answer shorter than a sector. *)
mist_memory_write(b) ==
    /\ ram' = IF dma.left > 0 THEN [ram EXCEPT ![dma.at] = b] ELSE ram
    /\ UNCHANGED dma

(* mist_memory_read_block() and the write of what the window has shown. *)
mist_memory_read_block(s) ==
    /\ card' = [card EXCEPT ![s] =
                    IF dma.left > 0 THEN ram[dma.at] ELSE <<"ram", MaxLen>>]
    /\ dma' = IF dma.left > 0
              THEN [left |-> dma.left - 1, at |-> dma.at + 1] ELSE dma
    /\ UNCHANGED ram

-----------------------------------------------------------------------------
(* Where handle_acsi() finds the sectors of a disk.                        *)

\* Mutant: direct access takes over every target.
directForAll(t) == hdd_direct # 0

direct(t) == hdd_direct # 0 /\ t = 0
Supported(t) == hdd_image[t] # NoFile \/ direct(t)
blocks(t) == IF direct(t) THEN hdd_direct ELSE Size(hdd_image[t])

(* MMC_Read()/MMC_Write() of lba, or FileSeek() and FileRead()/FileWrite() *)
Sector(t, lba) == IF direct(t) THEN lba ELSE Place[hdd_image[t]][lba + 1]

-----------------------------------------------------------------------------
(* What a command of the driver means, whatever the ARM makes of it.       *)

(* The disk behind a target, as the card's sectors that hold it. *)
Behind(t) ==
    IF t = 0 /\ hdd_direct # 0 THEN [n \in 1 .. CardSize |-> n - 1]
    ELSE IF hdd_image[t] = NoFile THEN <<>>
    ELSE Place[hdd_image[t]]

(* Sectors asked for: the length byte 0 of a short command means 256. *)
Asked(j) == IF j.len = 0 /\ ~Long(j.op) THEN 256 ELSE j.len

Moves(j) == j.op \in Reads \cup Writes

Reason(j) ==
    IF j.op = "other" THEN 32
    ELSE IF j.lun # 0 /\ j.op \notin {"sense", "inquiry"} THEN 37
    ELSE IF Moves(j) /\ j.lba + Asked(j) > Len(Behind(j.target)) THEN 33
    ELSE 0

-----------------------------------------------------------------------------
(* The ARM.                                                                *)

Idle == [pc |-> "poll", fdc |-> FALSE, target |-> 0,
         parm |-> AnyParm, cmd |-> NoCommand, scnt |-> 0, pos |-> 0, left |-> 0]

(* mist_get_dmastate() *)
mist_get_dmastate ==
    /\ arm.pc = "poll"
    /\ acsi.busy \/ fdc.wait
    /\ arm' = [Idle EXCEPT
                !.pc = IF acsi.busy THEN "acsi" ELSE "fdc",
                !.fdc = fdc.wait,
                !.target = IF acsi.busy THEN acsi.target ELSE 0,
                !.parm = IF acsi.busy THEN acsi.parm ELSE AnyParm,
                !.cmd = IF fdc.wait THEN fdc.cmd ELSE NoCommand,
                !.scnt = IF fdc.wait THEN dma.left ELSE 0]
    /\ drv' = [drv EXCEPT !.seen = fdc.wait]
    /\ UNCHANGED <<acsi, fdc, dma, status, ram, ctrl, armVars, asc, card,
                   before, why>>

(* A length byte of 0 asks for 256; the long commands have a word for it. *)
length(p) == IF ~Long(p.op) /\ p.len = 0 THEN 256 ELSE p.len

InRange(p, n) == (p.lba + length(p)) % LbaMod <= n

(* handle_acsi() is done, handle_fdc() follows when the snapshot says so. *)
AfterAcsi == IF arm.fdc THEN [arm EXCEPT !.pc = "fdc"] ELSE Idle

(* The end of an answer: asc[] here, and the history of what was asked. *)
Answered(reason) ==
    /\ asc' = [asc EXCEPT ![arm.target] = reason]
    /\ before' = card'
    /\ why' = IF drv.job.dev = "acsi"
              THEN [why EXCEPT ![drv.job.target] = Reason(drv.job)] ELSE why

Refuse(reason) ==
    /\ dma_ack(2)
    /\ UNCHANGED <<dma, ram, card>>
    /\ Answered(reason)

Tell(info) ==
    /\ mist_memory_write(info)
    /\ dma_ack(0)
    /\ UNCHANGED card
    /\ Answered(0)

(* dma_nak() for targets without a disk *)
Unsupported ==
    /\ ~Supported(arm.target)
    /\ dma_nak
    /\ UNCHANGED <<dma, ram, asc, card, before, why>>

RequestSense(t, p) ==
    /\ p.op = "sense"
    /\ Tell(<<"sense", IF p.lun # 0 THEN 37 ELSE asc[t], 0>>)

(* TEST DRIVE READY, FORMAT *)
Ready(t, p) ==
    /\ p.op = "ready" /\ p.lun = 0
    /\ dma_ack(0)
    /\ UNCHANGED <<dma, ram, card>>
    /\ Answered(0)

Inquiry(t, p) ==
    p.op = "inquiry" /\ Tell(<<"inquiry", IF p.lun # 0 THEN 127 ELSE 0, 0>>)

(* READ CAPACITY, MODE SENSE: the last sector, unsigned, or their number. *)
Describe(t, p) ==
    LET last == (blocks(t) + LbaMod - 1) % LbaMod
    IN  /\ p.op \in {"capacity", "modesense"} /\ p.lun = 0
        /\ Tell(<<p.op, IF p.op = "capacity" THEN last ELSE blocks(t), 0>>)

WrongLun(t, p) ==
    /\ p.op \in Reads \cup Writes \cup {"ready", "capacity", "modesense"}
    /\ p.lun # 0
    /\ Refuse(37)

Exceeds(t, p) ==
    /\ p.op \in Reads \cup Writes /\ p.lun = 0
    /\ ~InRange(p, blocks(t))
    /\ Refuse(33)

UnknownOp(t, p) == p.op = "other" /\ Refuse(32)

Respond(t, p) ==
    \/ RequestSense(t, p)
    \/ Ready(t, p)
    \/ Inquiry(t, p)
    \/ Describe(t, p)
    \/ WrongLun(t, p)
    \/ Exceeds(t, p)
    \/ UnknownOp(t, p)

(* handle_acsi(), all but the transfers *)
handle_acsi ==
    /\ arm.pc = "acsi"
    /\ \/ Unsupported
       \/ Supported(arm.target) /\ Respond(arm.target, arm.parm)
    /\ arm' = AfterAcsi
    /\ UNCHANGED <<ctrl, armVars, drv>>

StartSectors ==
    LET p == arm.parm
    IN  /\ arm.pc = "acsi" /\ Supported(arm.target)
        /\ p.op \in Reads \cup Writes /\ p.lun = 0
        /\ InRange(p, blocks(arm.target))
        /\ arm' = [arm EXCEPT !.pc = "acsisectors", !.pos = p.lba,
                              !.left = length(p)]
        /\ UNCHANGED <<acsi, fdc, dma, status, ram, ctrl, armVars, asc, card,
                       drv, before, why>>

(* The loops of READ and WRITE. *)
AcsiSector ==
    LET s == Sector(arm.target, arm.pos)
    IN  /\ arm.pc = "acsisectors" /\ arm.left > 0
        /\ \/ /\ arm.parm.op \in Reads
              /\ mist_memory_write_block(card[s])
              /\ UNCHANGED card
           \/ /\ arm.parm.op \in Writes
              /\ mist_memory_read_block(s)
        /\ arm' = [arm EXCEPT !.pos = @ + 1, !.left = @ - 1]
        /\ UNCHANGED <<acsi, fdc, status, ctrl, armVars, asc, drv, before, why>>

SectorsDone ==
    /\ arm.pc = "acsisectors" /\ arm.left = 0
    /\ dma_ack(0)
    /\ UNCHANGED <<dma, ram, card>>
    /\ Answered(0)
    /\ arm' = AfterAcsi
    /\ UNCHANGED <<ctrl, armVars, drv>>

(* handle_fdc() finds its disk and the offset of its first sector. *)
handle_fdc ==
    LET c == arm.cmd
        disk == fdd_image[c.drive]
    IN  /\ arm.pc = "fdc"
        /\ \/ /\ disk.file = NoFile
              /\ arm' = Idle
              /\ UNCHANGED <<acsi, fdc, status, before>>
           \/ /\ disk.file # NoFile /\ c.op = "readtrack"
              /\ arm' = Idle
              /\ dma_ack(0) /\ before' = card
           \/ /\ disk.file # NoFile /\ c.op \in {"read", "write"}
              /\ arm' = [arm EXCEPT !.pc = "fdcsectors", !.left = arm.scnt,
                         !.pos = FloppyOffset(disk, c.track, c.side, c.sector)]
              /\ UNCHANGED <<acsi, fdc, status, before>>
        /\ UNCHANGED <<dma, ram, ctrl, armVars, asc, card, drv, why>>

SectorValid(c, disk) == c.sector > 0 /\ c.sector <= disk.spt

(* The loop over scnt: a sector, or nothing when the track has none such. *)
FdcSector ==
    LET c == arm.cmd
        disk == fdd_image[c.drive]
    IN  /\ arm.pc = "fdcsectors" /\ arm.left > 0
        /\ \/ /\ SectorValid(c, disk) /\ c.op = "read"
              /\ mist_memory_write_block(card[Place[disk.file][arm.pos + 1]])
              /\ UNCHANGED card
           \/ /\ SectorValid(c, disk) /\ c.op = "write"
              /\ mist_memory_read_block(Place[disk.file][arm.pos + 1])
           \/ /\ ~SectorValid(c, disk)
              /\ UNCHANGED <<ram, dma, card>>
        /\ arm' = [arm EXCEPT !.pos = @ + 1, !.left = @ - 1]
        /\ UNCHANGED <<acsi, fdc, status, ctrl, armVars, asc, drv, before, why>>

FdcDone ==
    /\ arm.pc = "fdcsectors" /\ arm.left = 0
    /\ dma_ack(0)
    /\ before' = card
    /\ arm' = Idle
    /\ UNCHANGED <<dma, ram, ctrl, armVars, asc, card, drv, why>>

-----------------------------------------------------------------------------
(* The menu, which runs between two rounds of tos_poll().                  *)

MenuOnly == UNCHANGED <<acsi, fdc, dma, status, ram, asc, card, arm, drv,
                        before, why>>

(* mist_set_control(config.system_ctrl) *)
mist_set_control(w) == system_ctrl' = w /\ ctrl' = w

(* tos_select_hdd_image(); the menu offers target 0 unless it is direct *)
tos_select_hdd_image(t, f) ==
    /\ arm.pc = "poll" /\ ~direct(t) /\ f # hdd_image[t]
    /\ hdd_image' = [hdd_image EXCEPT ![t] = f]
    /\ mist_set_control([system_ctrl EXCEPT
           !.enable = IF f = NoFile THEN @ \ {t} ELSE @ \cup {t}])
    /\ UNCHANGED <<hdd_direct, fdd_image>>
    /\ MenuOnly

\* Mutant: direct access switched off does not enable the image again.
tos_set_direct_hdd_forgets(on) ==
    /\ arm.pc = "poll"
    /\ hdd_direct' = IF on THEN CardSize ELSE 0
    /\ mist_set_control([system_ctrl EXCEPT
           !.enable = IF on THEN @ \cup {0} ELSE @ \ {0}])
    /\ UNCHANGED <<hdd_image, fdd_image>>
    /\ MenuOnly

(* tos_set_direct_hdd() *)
tos_set_direct_hdd(on) ==
    /\ arm.pc = "poll"
    /\ hdd_direct' = IF on THEN CardSize ELSE 0
    /\ mist_set_control([system_ctrl EXCEPT
           !.enable = IF on \/ hdd_image[0] # NoFile THEN @ \cup {0} ELSE @ \ {0}])
    /\ UNCHANGED <<hdd_image, fdd_image>>
    /\ MenuOnly

(* tos_insert_disk() of a floppy: out with the old, which nothing protects *)
(* any more for the core alone, and in with the new, if there is one.      *)
tos_insert_disk(d, f) ==
    /\ arm.pc = "poll" /\ f # fdd_image[d].file
    /\ \E disk \in IF f = NoFile THEN {Ejected} ELSE Inserted(f) :
         /\ fdd_image' = [fdd_image EXCEPT ![d] = disk]
         /\ ctrl' = IF disk.file = NoFile
                    THEN [system_ctrl EXCEPT !.protect = @ \cup {d}]
                    ELSE system_ctrl
    /\ UNCHANGED <<system_ctrl, hdd_image, hdd_direct>>
    /\ MenuOnly

(* The write protection of the menu. *)
SetProtection(P) ==
    /\ arm.pc = "poll" /\ P # system_ctrl.protect
    /\ mist_set_control([system_ctrl EXCEPT !.protect = P])
    /\ UNCHANGED <<hdd_image, hdd_direct, fdd_image>>
    /\ MenuOnly

(* tos_eject_all(), when the card has been pulled out *)
tos_eject_all ==
    /\ arm.pc = "poll"
    /\ fdd_image' = [d \in Drives |-> Ejected]
    /\ ctrl' = [system_ctrl EXCEPT !.protect = Drives]
    /\ hdd_direct' = 0
    /\ hdd_image' = [t \in Targets |-> NoFile]
    /\ UNCHANGED system_ctrl
    /\ MenuOnly

Menu ==
    \/ \E t \in Targets, f \in HardFiles \cup {NoFile} : tos_select_hdd_image(t, f)
    \/ \E on \in BOOLEAN : tos_set_direct_hdd(on)
    \/ \E d \in Drives, f \in FloppyFiles \cup {NoFile} : tos_insert_disk(d, f)
    \/ \E P \in SUBSET Drives : SetProtection(P)

-----------------------------------------------------------------------------
(* The driver of the ST.  It programs the DMA chip, fills or empties the   *)
(* buffer, and has one command pending at a time.                          *)

NoJob == [dev |-> "none", target |-> 0, op |-> "none", lun |-> 0, lba |-> 0,
          len |-> 0, cmd |-> NoCommand]

AcsiJobs ==
    {j \in [dev : {"acsi"}, target : Targets, op : Ops, lun : Luns,
            lba : Lbas \cup {0}, len : Lens \cup {1}, cmd : {NoCommand}] :
        /\ IF Moves(j) THEN j.lba \in Lbas /\ j.len \in Lens
           ELSE j.lba = 0 /\ j.len = 1
        /\ j.lun # 0 => j.op \in LunOps}

(* A transfer ends with the last sector of the track at the latest. *)
FdcJobs ==
    {j \in [dev : {"fdc"}, target : {0}, op : FdcOps, lun : {0}, lba : {0},
            len : Lens \ {0}, cmd : Command] :
        /\ j.cmd.op = j.op
        /\ \E n \in SectorNumbers : j.cmd.sector + j.len - 1 <= n}

(* What the proofs suppose of the commands, besides: lba + length does not  *)
(* leave 32 bits, so that InRange() is right ...                           *)
NoWrap == \A j \in AcsiJobs : Moves(j) => j.lba + Asked(j) < LbaMod

(* ... and the driver asks for sectors of the floppy that is in the drive.  *)
Inside ==
    \A f \in FloppyFiles : \A j \in FdcJobs :
        LET disk == Detected(f)
        IN  j.op # "readtrack" /\ SectorValid(j.cmd, disk) =>
              /\ j.cmd.side < disk.sides
              /\ FloppyOffset(disk, j.cmd.track, j.cmd.side, j.cmd.sector) + j.len
                    <= Size(f)

(* Bound: what has been written, and what this job may write. *)
Dirty == Cardinality({s \in CardSectors : card[s] # InitCard[s]})
Bounded(j) == j.op \in Writes \cup {"write"} => Dirty + j.len <= MaxDirty

Program(j) ==
    /\ drv.pc = "idle" /\ Bounded(j)
    /\ dma' = [left |-> j.len, at |-> 0]
    /\ ram' = FreshRam

DriverOnly == UNCHANGED <<ctrl, armVars, asc, card, arm, before, why>>

(* A byte given to acsi.v: of a target that is not enabled nobody will     *)
(* read it.                                                                *)
Heard(a) ==
    IF a.target \in ctrl.enable THEN a
    ELSE [Quiet EXCEPT !.target = a.target, !.busy = acsi.busy]

(* The first byte, or the ICD prefix of a long command: acsi.v, a0 = 0. *)
FirstByte(j) ==
    /\ Program(j)
    /\ acsi' = Heard([acsi EXCEPT
                 !.target = j.target,
                 !.count = IF Long(j.op) THEN 0 ELSE 1,
                 !.parm.op = IF Long(j.op) THEN @ ELSE j.op,
                 !.irq = TRUE])
    /\ drv' = [pc |-> "bytes", job |-> j, seen |-> FALSE]
    /\ UNCHANGED <<status, fdc>>
    /\ DriverOnly

(* acsi.v stores byte n of a command, and asks for another up to parms. *)
Store(p, n, j) ==
    CASE n = 0 -> [p EXCEPT !.op = j.op]
      [] n = 1 -> [p EXCEPT !.lun = j.lun]
      [] n = 2 -> [p EXCEPT !.lba = j.lba]
      [] n = 3 -> [p EXCEPT !.len = j.len]
      [] OTHER -> p

\* Mutant: a long command is one byte longer.
parmsOfSixteen(op) == IF Long(op) THEN 5 ELSE 3

parms(op) == IF Long(op) THEN 4 ELSE 3

LastByte(n, p) == n > 0 /\ n >= parms(p.op)

(* A further byte: the interrupt asks for the next one, busy for the ARM. *)
NextByte ==
    LET n == acsi.count
        last == LastByte(n, acsi.parm)
    IN  /\ drv.pc = "bytes" /\ acsi.irq
        /\ acsi' = Heard([acsi EXCEPT
                     !.parm = Store(@, n, drv.job), !.count = n + 1,
                     !.irq = ~last, !.busy = @ \/ last])
        /\ drv' = [drv EXCEPT
                    !.pc = IF n = parms(drv.job.op) THEN "wait" ELSE "bytes"]
        /\ UNCHANGED <<status, fdc, dma, ram>>
        /\ DriverOnly

(* A command of type II or III: fdc.v ends a write to a protected disk by  *)
(* itself, the others wait for the ARM.                                    *)
FdcCommand(j) ==
    LET ends == j.op = "write" /\ j.cmd.drive \in ctrl.protect
    IN  /\ Program(j)
        /\ fdc' = [wait |-> ~ends, cmd |-> IF ends THEN NoCommand ELSE j.cmd, irq |-> ends]
        /\ drv' = [pc |-> "wait", job |-> j, seen |-> FALSE]
        /\ UNCHANGED <<status, acsi>>
        /\ DriverOnly

Interrupted == IF drv.job.dev = "acsi" THEN acsi.irq ELSE fdc.irq

(* The driver reads the status, which clears the interrupt, and is done    *)
(* with what the DMA chip has brought.                                     *)
CommandOver ==
    /\ drv.pc = "wait" /\ Interrupted
    /\ acsi' = IF drv.job.dev = "acsi" THEN [acsi EXCEPT !.irq = FALSE] ELSE acsi
    /\ fdc' = IF drv.job.dev = "fdc" THEN [fdc EXCEPT !.irq = FALSE] ELSE fdc
    /\ drv' = [pc |-> "idle", job |-> NoJob, seen |-> FALSE]
    /\ status' = 0 /\ dma' = [left |-> 0, at |-> 0] /\ ram' = FreshRam
    /\ DriverOnly

(* FORCE INTERRUPT ends what the floppy controller waits for; nothing ends *)
(* what acsi.v waits for.                                                  *)
GivesUp ==
    /\ fdc' = IF drv.job.dev = "fdc"
              THEN [wait |-> FALSE, cmd |-> NoCommand, irq |-> FALSE] ELSE fdc
    /\ drv' = [pc |-> "idle", job |-> NoJob, seen |-> FALSE]
    /\ dma' = [left |-> 0, at |-> 0] /\ ram' = FreshRam
    /\ UNCHANGED <<status, acsi>>
    /\ DriverOnly

(* The time-out is longer than a round of tos_poll(): the command is given *)
(* up when nobody took it, or the ARM has seen it and went on.             *)
CommandUnanswered ==
    /\ \/ drv.pc = "bytes" /\ ~acsi.irq
       \/ /\ drv.pc = "wait" /\ ~Interrupted /\ arm.pc = "poll"
          /\ IF drv.job.dev = "acsi" THEN ~acsi.busy ELSE drv.seen
    /\ GivesUp

-----------------------------------------------------------------------------
Init ==
    /\ acsi = Quiet
    /\ fdc = [wait |-> FALSE, cmd |-> NoCommand, irq |-> FALSE]
    /\ dma = [left |-> 0, at |-> 0]
    /\ status = 0
    /\ ram = FreshRam
    /\ ctrl = [enable |-> {}, protect |-> {}]
    /\ system_ctrl = [enable |-> {}, protect |-> {}]
    /\ hdd_image = [t \in Targets |-> NoFile]
    /\ hdd_direct = 0
    /\ fdd_image = [d \in Drives |-> Ejected]
    /\ asc = [t \in Targets |-> 0]
    /\ card = InitCard
    /\ arm = Idle
    /\ drv = [pc |-> "idle", job |-> NoJob, seen |-> FALSE]
    /\ before = InitCard
    /\ why = [t \in Targets |-> 0]

Arm ==
    \/ mist_get_dmastate
    \/ handle_acsi
    \/ StartSectors
    \/ AcsiSector
    \/ SectorsDone
    \/ handle_fdc
    \/ FdcSector
    \/ FdcDone

Driver ==
    \/ NextByte
    \/ CommandOver
    \/ CommandUnanswered

Next ==
    \/ Arm
    \/ Menu
    \/ Driver
    \/ \E j \in AcsiJobs : FirstByte(j)
    \/ \E j \in FdcJobs : FdcCommand(j)

(* tos_poll() is called in every round of the main loop, and a command the *)
(* driver has begun it sees through; the menu owes nothing.                *)
Spec == Init /\ [][Next]_vars /\ WF_vars(Arm) /\ WF_vars(Driver)

(* With a card that is pulled out. *)
SpecPulled == Init /\ [][Next \/ tos_eject_all]_vars

-----------------------------------------------------------------------------
(* Properties.                                                             *)

(* The sector of a floppy by counting those stored before it.              *)
StoredBefore(disk, c) ==
    Cardinality({x \in (0 .. c.track) \X (0 .. disk.sides - 1) \X (1 .. disk.spt) :
        \/ x[1] < c.track
        \/ x[1] = c.track /\ x[2] < c.side
        \/ x[1] = c.track /\ x[2] = c.side /\ x[3] < c.sector})

(* What must be true when command j is answered, of status, RAM and card:  *)
(* n sectors of disk D have been moved, those from lba on, and nothing     *)
(* else.                                                                   *)
Brought(n, D, lba) ==
    [i \in 0 .. MaxLen - 1 |-> IF i < n THEN before[D[lba + i + 1]] ELSE FreshRam[i]]

Taken(n, D, lba) ==
    [s \in CardSectors |->
        IF \E i \in 0 .. n - 1 : D[lba + i + 1] = s
        THEN FreshRam[CHOOSE i \in 0 .. n - 1 : D[lba + i + 1] = s]
        ELSE before[s]]

MovedIn(n, D, lba) == card' = before /\ ram' = Brought(n, D, lba)

MovedOut(n, D, lba) == ram' = FreshRam /\ card' = Taken(n, D, lba)

(* The DMA chip counts to 255: of 256 sectors it brings none, and what is  *)
(* written for them is not known.                                          *)
AcsiRight(j) ==
    LET refused == Reason(j) # 0
    IN  /\ status' = IF refused THEN 2 ELSE 0
        /\ IF refused THEN card' = before /\ ram' = FreshRam
           ELSE IF j.op \in Reads THEN MovedIn(j.len, Behind(j.target), j.lba)
           ELSE IF j.op \in Writes
           THEN Asked(j) = j.len => MovedOut(j.len, Behind(j.target), j.lba)
           ELSE /\ card' = before
                /\ j.op = "sense" =>
                     ram'[0] = <<"sense", IF j.lun # 0 THEN 37 ELSE why[j.target], 0>>

FdcRight(j) ==
    LET disk == fdd_image[j.cmd.drive]
        D == Place[disk.file]
        first == StoredBefore(disk, j.cmd)
        last == j.cmd.sector + j.len - 1
    IN  IF j.op = "readtrack" \/ j.cmd.sector \notin 1 .. disk.spt
        THEN card' = before /\ ram' = FreshRam
        ELSE last <= disk.spt =>
                IF j.op = "read" THEN MovedIn(j.len, D, first) ELSE MovedOut(j.len, D, first)

(* A command is answered with the sectors it asked for, all of them and no *)
(* other, on the disk that is mounted where it was sent, or is refused and *)
(* moves nothing; REQUEST SENSE tells why the last command of its target   *)
(* was refused (handle_acsi(), handle_fdc(), acsi.v and fdc.v together).   *)
AnswerRight ==
    [][/\ acsi.busy /\ ~acsi'.busy /\ acsi'.irq => AcsiRight(drv.job)
       /\ fdc.wait /\ ~fdc'.wait /\ fdc'.irq => FdcRight(drv.job)]_vars

(* A command that waits for a disk the ARM has mounted is answered, unless *)
(* the disk is taken away first, or was mounted only after the ARM had     *)
(* passed the command over (mist_get_dmastate(), dma_ack()).               *)
Mounted(j) ==
    IF j.dev = "acsi" THEN Supported(j.target)
    ELSE j.dev = "fdc" /\ fdd_image[j.cmd.drive].file # NoFile

Due ==
    /\ drv.pc = "wait" /\ Mounted(drv.job)
    /\ IF drv.job.dev = "acsi" THEN acsi.busy ELSE fdc.wait /\ ~drv.seen

MountedAnswers ==
    Due ~> drv.pc = "wait" /\ (Interrupted \/ ~Mounted(drv.job))

(* The targets the core answers for are those the ARM serves: no command   *)
(* is taken byte by byte and then left alone (system_ctrl of tos.c).       *)
EnabledAreServed ==
    arm.pc = "poll" => ctrl.enable = {t \in Targets : Supported(t)}

=============================================================================
