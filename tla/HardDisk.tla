----------------------------- MODULE HardDisk -----------------------------
(***************************************************************************)
(* The hard disks of the Minimig: HandleHDD() of src/firmware/hdd.c serves *)
(* the ATA commands the Amiga gives to the interface in Gayle.v, for a     *)
(* file on the card, with or without a RigidDiskBlock that is synthesized  *)
(* in front of it, and for a partition of the card.  HandleHDD() keeps the *)
(* ARM for the whole command; it waits for the Amiga by polling two bits.  *)
(* The Amiga is an interrupt driven ATA driver and runs concurrently.      *)
(***************************************************************************)
EXTENDS FatFile, Gayle, FiniteSetsExt

CONSTANTS
    Heads, Sectors,     \* geometry of each type of disk
    FileSize,           \* sectors of the hardfile
    FileStart,          \* its first cluster
    IndexStep,          \* sectors between two entries of its index
    FatLinks,           \* FAT entries in a sector, 128 or 256
    PartStart, PartSize,    \* the partition of the card
    CardSize,           \* sectors of the card
    InitCard,           \* what they hold at first
    NewData,            \* what the Amiga writes
    BlockSizes,         \* what SET MULTIPLE MODE is given
    MaxCount,           \* bound: sectors of a transfer
    MaxDirty            \* bound: sectors that differ from InitCard

Types == {"file", "synth", "card"}
Units == {0, 1}
CardSectors == 0 .. CardSize - 1

ASSUME HardDiskAssumption ==
    /\ Heads \in [Types -> Nat \ {0}] /\ Sectors \in [Types -> Nat \ {0}]
    /\ FileSize \in Nat \ {0} /\ FileStart \in Clusters
    /\ \A s \in 0 .. FileSize - 1 : \E c \in Clusters :
          /\ InChain(FileStart, s, c)
          /\ FileSector([sector |-> s, cluster |-> c]) \in CardSectors
    /\ IndexStep \in Nat \ {0} /\ IndexStep % ClusterSize = 0
    /\ FatLinks \in Nat \ {0}
    /\ PartStart \in Nat /\ PartSize \in Nat /\ CardSize \in Nat
    /\ PartStart + PartSize <= CardSize
    /\ InitCard \in [CardSectors -> Int] /\ NewData \subseteq Int
    /\ BlockSizes \subseteq 0 .. FifoSectors /\ FifoSectors < CountMod
    /\ MaxCount \in 1 .. CountMod /\ MaxDirty \in Nat

VARIABLES
    gayle,         \* the interface in the FPGA
    arm,           \* the call of HandleHDD() in progress, its local variables
    hdf,           \* hdf[], type, sectors_per_block and cursor of each unit
    card,          \* the SD card
    host,          \* the driver of the Amiga
    image          \* history: the card as the Amiga has written it

vars == <<gayle, arm, hdf, card, host, image>>

-----------------------------------------------------------------------------
(* Geometry and addresses.                                                 *)

(* GetHardfileGeometry(): whole cylinders of the disk, and for a file      *)
(* without RigidDiskBlock one more in front of it.                         *)
Cylinders(t) ==
    LET track == Heads[t] * Sectors[t]
    IN  IF t = "card" THEN PartSize \div track
        ELSE IF t = "synth" THEN FileSize \div track + 1
        ELSE FileSize \div track

Capacity(t) == Cylinders(t) * Heads[t] * Sectors[t]

(* OpenHardfile() *)
offset(t) ==
    IF t = "card" THEN PartStart
    ELSE IF t = "synth" THEN -(Heads[t] * Sectors[t])
    ELSE 0

Positions(t) ==
    [cyl : 0 .. Cylinders(t) - 1, head : 0 .. Heads[t] - 1, sec : 1 .. Sectors[t]]

chs2lba(t, p) == (p.cyl * Heads[t] + p.head) * Sectors[t] + p.sec - 1

(* No disk ends with the last sector of the last cluster of its file: the  *)
(* cursor after its last sector is then still in the chain.                *)
EndsInside == \A t \in {"file", "synth"} :
    ClusterIndex(Capacity(t) + offset(t)) <= ClusterIndex(FileSize - 1)

(* The next sector, as the registers count. *)
Advance(t, p) ==
    IF p.sec # Sectors[t] THEN [p EXCEPT !.sec = @ + 1]
    ELSE IF p.head + 1 # Heads[t] THEN [cyl |-> p.cyl, head |-> p.head + 1, sec |-> 1]
    ELSE [cyl |-> p.cyl + 1, head |-> 0, sec |-> 1]

\* Mutant: the position moves on after the last sector too.
AdvanceAlways(t, p, left) == Advance(t, p)

(* if(sector_count!=1) ... *)
AdvanceUnlessLast(t, p, left) == IF left # 1 THEN Advance(t, p) ELSE p

-----------------------------------------------------------------------------
(* The hardfile.                                                           *)

FileOpened == [sector |-> 0, cluster |-> FileStart]

(* FileSeek() on the hardfile, as the set of the one cursor it ends with. *)
Seeks ==
    [f \in [sector : 0 .. FileSize, cluster : Links] |->
        [l \in 0 .. FileSize |-> FileSeek(f, FileStart, l)]]

(* BuildHardfileIndex() *)
index ==
    [k \in 0 .. (FileSize - 1) \div IndexStep |->
        (CHOOSE f \in Seeks[FileOpened][k * IndexStep] : TRUE).cluster]

\* Mutant: the position of the index entry is not aligned.
HardFileSeekUnaligned(f, l) ==
    IF ClusterIndex(f.sector) # ClusterIndex(l)
    THEN Seeks[[sector |-> l, cluster |-> index[l \div IndexStep]]][l]
    ELSE Seeks[f][l]

(* HardFileSeek(), likewise. *)
HardFileSeek(f, l) ==
    LET elsewhere ==
            /\ ClusterIndex(f.sector) # ClusterIndex(l)
            /\ \/ f.sector > l
               \/ ClusterIndex(f.sector) \div FatLinks
                    # ClusterIndex(l) \div FatLinks
        indexed == [sector |-> (l \div IndexStep) * IndexStep,
                    cluster |-> index[l \div IndexStep]]
    IN  Seeks[IF elsewhere THEN indexed ELSE f][l]

(* FileSeek(..., 1, SEEK_CUR) *)
FileNext(f) == Seeks[f][f.sector + 1]

-----------------------------------------------------------------------------
(* What a sector may hold, as the Amiga gets it.                           *)

Stored(v) == [kind |-> "stored", val |-> v]
Patched(v) == [kind |-> "flags", val |-> v]     \* rdb_Flags replaced
Identity(u) == [kind |-> "identify", val |-> u]

(* FakeRDB(): an empty sector but for the first two. *)
FakeRDB(block) ==
    [kind |-> IF block = 0 THEN "rdb" ELSE IF block = 1 THEN "part" ELSE "zero",
     val |-> 0]

Contents ==
    [kind : {"stored", "flags"}, val : Int]
        \cup {Identity(u) : u \in Units} \cup {FakeRDB(b) : b \in 0 .. 2}

-----------------------------------------------------------------------------
(* State.                                                                  *)

Reads == {"READ", "READM"}
Writes == {"WRITE", "WRITEM"}
Multiple == {"READM", "WRITEM"}
Others == {"RECALIBRATE", "IDENTIFY", "INITPARAMS", "SETMULTIPLE", "UNKNOWN"}
Commands == Reads \cup Writes \cup Others

Home == [cyl |-> 0, head |-> 0, sec |-> 1]
Registers(cmd, unit, pos, count) ==
    [cmd |-> cmd, unit |-> unit, pos |-> pos, count |-> count, err |-> 0]
NoRegisters == Registers("UNKNOWN", 0, Home, 0)

NoJob == [pc |-> "idle"]
Asleep == [pc |-> "idle", req |-> NoRegisters, done |-> 0, blk |-> 0,
           got |-> <<>>]

(* A sector count of zero asks for the most, 256. *)
Wanted(count) == IF count = 0 THEN CountMod ELSE count

Init ==
    /\ gayle = PowerUp(NoRegisters)
    /\ arm = NoJob
    /\ \E t \in {"file", "synth"} :
          hdf = [u \in Units |-> [type |-> IF u = 0 THEN t ELSE "card",
                                  spb |-> 0, file |-> FileOpened]]
    /\ card = InitCard
    /\ host = Asleep
    /\ image = InitCard

-----------------------------------------------------------------------------
(* HandleHDD(), commands without data.                                     *)

Serve(cmd) ==
    /\ arm.pc = "idle"
    /\ hdd_cmd_req(gayle)
    /\ gayle.tfr.cmd = cmd

Recalibrate ==
    /\ Serve("RECALIBRATE")
    /\ gayle' = Status(TaskFile(gayle, [gayle.tfr EXCEPT !.pos = Home, !.count = 0]),
                       {"END", "IRQ"})
    /\ UNCHANGED <<arm, hdf, card, host, image>>

IdentifyDevice ==
    /\ Serve("IDENTIFY")
    /\ gayle' = Status(Put(Status(TaskFile(gayle, gayle.tfr), {"RDY"}),
                           Identity(gayle.tfr.unit)),
                       {"END", "IRQ"})
    /\ UNCHANGED <<arm, hdf, card, host, image>>

InitializeDeviceParameters ==
    /\ Serve("INITPARAMS")
    /\ gayle' = Status(TaskFile(gayle, gayle.tfr), {"END", "IRQ"})
    /\ UNCHANGED <<arm, hdf, card, host, image>>

SetMultipleMode ==
    /\ Serve("SETMULTIPLE")
    /\ hdf' = [hdf EXCEPT ![gayle.tfr.unit].spb = gayle.tfr.count]
    /\ gayle' = Status(gayle, {"END", "IRQ"})
    /\ UNCHANGED <<arm, card, host, image>>

UnknownCommand ==
    /\ Serve("UNKNOWN")
    /\ gayle' = Status(TaskFile(gayle, [gayle.tfr EXCEPT !.err = 4]),
                       {"END", "IRQ", "ERR"})
    /\ UNCHANGED <<arm, hdf, card, host, image>>

-----------------------------------------------------------------------------
(* HandleHDD(), transfers.  The address in arm.lba counts from the start   *)
(* of the file or of the card, so that it is negative in the synthesized   *)
(* cylinder.                                                               *)

TypeOf(u) == hdf[u].type
IsFile(u) == TypeOf(u) \in {"file", "synth"}

(* tfr[] is what the registers held when the command was found. *)
Job(pc) ==
    LET r == gayle.tfr
    IN  [pc |-> pc, cmd |-> r.cmd, unit |-> r.unit, pos |-> r.pos,
         left |-> Wanted(r.count), count |-> r.count, blk |-> 0, buf |-> 0,
         lba |-> chs2lba(TypeOf(r.unit), r.pos) + offset(TypeOf(r.unit))]

(* The cursors a unit may have once lba l has been sought. *)
Sought(u, l) ==
    IF IsFile(u) THEN HardFileSeek(hdf[u].file, IF l < 0 THEN 0 ELSE l)
    ELSE {hdf[u].file}

Moved(u) == IF IsFile(u) THEN FileNext(hdf[u].file) ELSE {hdf[u].file}

(* The sector of the card that is read or written next. *)
Here == IF IsFile(arm.unit) THEN FileSector(hdf[arm.unit].file) ELSE arm.lba

\* Mutant: a block is the rest of the transfer, whatever was agreed.
BlockUnlimited(cmd, left, u) == IF cmd \in Multiple THEN left ELSE 1

(* block_count; the other commands go by single sectors. *)
Block(cmd, left, u) == IF cmd \in Multiple THEN Min({left, hdf[u].spb}) ELSE 1

WithPos(g, pos) == TaskFile(g, [g.tfr EXCEPT
    !.err = 0, !.unit = arm.unit, !.count = arm.count, !.pos = pos])

EndOfLoop(left, pc) == IF left = 0 THEN NoJob ELSE [arm EXCEPT !.pc = pc]

StartRead ==
    /\ Serve("READ")
    /\ arm' = Job("read")
    /\ \E f \in Sought(gayle.tfr.unit, arm'.lba) :
          hdf' = [hdf EXCEPT ![gayle.tfr.unit].file = f]
    /\ gayle' = IF IsFile(gayle.tfr.unit) THEN gayle ELSE Status(gayle, {"RDY"})
    /\ UNCHANGED <<card, host, image>>

(* Registers of the next sector, and RDY again for a file. *)
ReadAnnounced(pos) ==
    LET g == WithPos(gayle, pos)
    IN  IF IsFile(arm.unit) THEN Status(g, {"RDY"}) ELSE g

NextPos == AdvanceUnlessLast(TypeOf(arm.unit), arm.pos, arm.left)

(* A sector of the synthesized cylinder, or sector 0 of unit 0, whose      *)
(* flags are replaced; these are not made to wait for an empty buffer.     *)
Special ==
    /\ IsFile(arm.unit)
    /\ arm.lba < 0 \/ (arm.unit = 0 /\ arm.lba - offset(TypeOf(0)) = 0)

ReadSpecial ==
    /\ arm.pc = "read" /\ Special
    /\ LET sector == IF arm.lba < 0
                     THEN FakeRDB(arm.lba - offset(TypeOf(arm.unit)))
                     ELSE Patched(card[Here])
           bits == IF arm.left = 1 THEN {"IRQ", "END"} ELSE {"IRQ"}
       IN  gayle' = Status(Put(ReadAnnounced(NextPos), sector), bits)
    /\ \E f \in IF arm.lba < 0 THEN {hdf[arm.unit].file} ELSE Moved(arm.unit) :
          hdf' = [hdf EXCEPT ![arm.unit].file = f]
    /\ arm' = IF arm.left = 1 THEN NoJob
              ELSE [arm EXCEPT !.pos = NextPos, !.lba = @ + 1, !.left = @ - 1]
    /\ UNCHANGED <<card, host, image>>

ReadAnnounce ==
    /\ arm.pc = "read" /\ ~Special
    /\ gayle' = ReadAnnounced(NextPos)
    /\ arm' = [arm EXCEPT !.pc = "rwait", !.pos = NextPos]
    /\ UNCHANGED <<hdf, card, host, image>>

\* Mutant: the ARM does not wait for the Amiga to take the last sector.
BufferFree == gayle.busy

(* while (!(GetFPGAStatus() & CMD_IDECMD)); *)
BufferEmpty == hdd_cmd_req(gayle)

ReadInterrupt ==
    /\ arm.pc = "rwait"
    /\ BufferEmpty
    /\ gayle' = Status(gayle, {"IRQ"})
    /\ arm' = [arm EXCEPT !.pc = "rdata"]
    /\ UNCHANGED <<hdf, card, host, image>>

ReadData ==
    /\ arm.pc = "rdata"
    /\ gayle' = Put(gayle, Stored(card[Here]))
    /\ \E f \in Moved(arm.unit) : hdf' = [hdf EXCEPT ![arm.unit].file = f]
    /\ arm' = IF arm.left = 1 THEN NoJob
              ELSE [arm EXCEPT !.pc = "read", !.lba = @ + 1, !.left = @ - 1]
    /\ UNCHANGED <<card, host, image>>

StartReadMultiple ==
    /\ Serve("READM")
    /\ gayle' = Status(gayle, {"RDY"})
    /\ arm' = Job("mwait")
    /\ \E f \in Sought(gayle.tfr.unit, arm'.lba) :
          hdf' = [hdf EXCEPT ![gayle.tfr.unit].file = f]
    /\ UNCHANGED <<card, host, image>>

ReadMultipleInterrupt ==
    /\ arm.pc = "mwait"
    /\ BufferEmpty
    /\ gayle' = Status(gayle, {"IRQ"})
    /\ arm' = [arm EXCEPT !.pc = "mdata", !.blk = Block(arm.cmd, arm.left, arm.unit)]
    /\ UNCHANGED <<hdf, card, host, image>>

(* One sector of FileReadEx() or MMC_ReadMultiple().  FileReadEx() moves   *)
(* its cursor once per cluster, which ends in the same place.              *)
ReadMultipleData ==
    /\ arm.pc = "mdata"
    /\ gayle' = Put(gayle, Stored(card[Here]))
    /\ \E f \in Moved(arm.unit) : hdf' = [hdf EXCEPT ![arm.unit].file = f]
    /\ arm' = [arm EXCEPT !.pc = IF arm.blk = 1 THEN "mtask" ELSE "mdata",
                          !.pos = NextPos, !.lba = @ + 1, !.left = @ - 1,
                          !.blk = @ - 1]
    /\ UNCHANGED <<card, host, image>>

(* The registers follow the data, when the Amiga may have taken the last   *)
(* sector and so ended the command: they are then ignored (TaskFile), or,  *)
(* had the Amiga given its next command already, they would replace the    *)
(* registers of that.  Issue assumes that the Amiga is not that fast.      *)
ReadMultipleRegisters ==
    /\ arm.pc = "mtask"
    /\ gayle' = WithPos(gayle, arm.pos)
    /\ arm' = EndOfLoop(arm.left, "mwait")
    /\ UNCHANGED <<hdf, card, host, image>>

StartWrite ==
    /\ Serve("WRITE") \/ Serve("WRITEM")
    /\ gayle' = Status(gayle, {"REQ"})
    /\ arm' = [Job("wwait") EXCEPT
                  !.blk = Block(gayle.tfr.cmd, Wanted(gayle.tfr.count),
                                gayle.tfr.unit)]
    /\ \E f \in Sought(gayle.tfr.unit, arm'.lba) :
          hdf' = [hdf EXCEPT ![gayle.tfr.unit].file = f]
    /\ UNCHANGED <<card, host, image>>

Answer(g, left) ==
    Status(g, IF left # 0 THEN {"IRQ"} ELSE {"END", "IRQ"})

(* A full buffer is taken; a single sector is answered before it is stored. *)
WriteTake ==
    /\ arm.pc = "wwait"
    /\ hdd_dat_req(gayle)
    /\ gayle' = IF arm.cmd = "WRITE"
                THEN Answer(Taken(WithPos(gayle, NextPos)), arm.left - 1)
                ELSE Taken(gayle)
    /\ arm' = [arm EXCEPT !.pc = "store", !.pos = NextPos, !.left = @ - 1,
                          !.blk = @ - 1, !.buf = Head(gayle.fifo).val]
    /\ UNCHANGED <<hdf, card, host, image>>

(* FileWrite() or MMC_Write(); the synthesized cylinder is not written.    *)
(* After the last sector of a block its registers and its answer follow.   *)
WriteStore ==
    /\ arm.pc = "store"
    /\ IF IsFile(arm.unit) /\ arm.lba < 0
       THEN UNCHANGED <<card, hdf>>
       ELSE /\ card' = [card EXCEPT ![Here] = arm.buf]
            /\ \E f \in Moved(arm.unit) : hdf' = [hdf EXCEPT ![arm.unit].file = f]
    /\ arm' = IF arm.left = 0 THEN NoJob
              ELSE [arm EXCEPT !.pc = "wwait", !.lba = @ + 1,
                       !.blk = IF @ # 0 THEN @
                               ELSE Block(arm.cmd, arm.left, arm.unit)]
    /\ gayle' = IF arm.cmd = "WRITEM" /\ arm.blk = 0
                THEN Answer(WithPos(gayle, arm.pos), arm.left) ELSE gayle
    /\ UNCHANGED <<host, image>>

(* The main loop finds no command, or a loop in HandleHDD() polls in vain. *)
Poll ==
    /\ \/ arm.pc = "idle" /\ ~hdd_cmd_req(gayle)
       \/ arm.pc \in {"rwait", "mwait"} /\ ~BufferEmpty
       \/ arm.pc = "wwait" /\ ~hdd_dat_req(gayle)
    /\ UNCHANGED vars

HandleHDD ==
    \/ Poll
    \/ Recalibrate \/ IdentifyDevice \/ InitializeDeviceParameters
    \/ SetMultipleMode \/ UnknownCommand
    \/ StartRead \/ ReadSpecial \/ ReadAnnounce \/ ReadInterrupt \/ ReadData
    \/ StartReadMultiple \/ ReadMultipleInterrupt \/ ReadMultipleData
    \/ ReadMultipleRegisters
    \/ StartWrite \/ WriteTake \/ WriteStore

-----------------------------------------------------------------------------
(* The driver of the Amiga: it gives a command to an idle drive, for data  *)
(* to the drive it waits until it is asked, otherwise for the interrupt,   *)
(* which it clears before it moves a block of data.                        *)

(* Reads of more than one special sector are left out: their interrupts    *)
(* come without the buffer having been emptied, and one may be lost.  READ *)
(* MULTIPLE does not know the synthesized cylinder (hdd.c:493).            *)
Specials(cmd, u, l, n) ==
    IF TypeOf(u) = "card" THEN 0
    ELSE Cardinality({i \in l .. l + n - 1 : i + offset(TypeOf(u)) < 0})

Sensible(cmd, u, pos, count) ==
    LET l == chs2lba(TypeOf(u), pos)
        n == Wanted(count)
    IN  /\ n <= MaxCount
        /\ l + n <= Capacity(TypeOf(u))
        /\ cmd = "READ" => Specials(cmd, u, l, n) <= 1
        /\ cmd = "READM" => Specials(cmd, u, l, n) = 0
        /\ cmd \in Multiple => hdf[u].spb > 0
        /\ cmd \in Writes =>
              Cardinality({s \in CardSectors : image[s] # InitCard[s]}) + n
                <= MaxDirty

Issue(regs) ==
    /\ host.pc = "idle"
    /\ ~bsy(gayle)
    /\ arm.pc # "mtask"        \* see ReadMultipleRegisters
    /\ gayle' = Command(gayle, regs)
    /\ host' = [Asleep EXCEPT
                   !.pc = IF regs.cmd \in Writes THEN "out" ELSE "irq",
                   !.req = regs,
                   !.blk = IF regs.cmd \in Writes
                           THEN Block(regs.cmd, Wanted(regs.count), regs.unit)
                           ELSE 0]
    /\ UNCHANGED <<arm, hdf, card, image>>

IssueTransfer ==
    host.pc = "idle" /\ \E cmd \in Reads \cup Writes, u \in Units, count \in 0 .. CountMod - 1 :
      \E pos \in Positions(TypeOf(u)) :
        /\ Sensible(cmd, u, pos, count)
        /\ Issue(Registers(cmd, u, pos, count))

IssueOther ==
    host.pc = "idle" /\ \E cmd \in Others, u \in Units :
      \E count \in IF cmd = "SETMULTIPLE" THEN BlockSizes ELSE {1} :
        Issue(Registers(cmd, u, Home, count))

(* Sectors of the command that are still to be moved. *)
Moving ==
    IF host.req.cmd \in Reads \cup Writes THEN Wanted(host.req.count)
    ELSE IF host.req.cmd = "IDENTIFY" THEN 1 ELSE 0

HostInterrupt ==
    /\ host.pc = "irq"
    /\ irq(gayle)
    /\ gayle' = ClearInt(gayle)
    /\ host' = IF host.done = Moving
               THEN [host EXCEPT !.pc = "idle", !.blk = 0]
               ELSE [host EXCEPT
                        !.pc = IF host.req.cmd \in Writes THEN "out" ELSE "in",
                        !.blk = Block(host.req.cmd, Moving - host.done,
                                      host.req.unit)]
    /\ UNCHANGED <<arm, hdf, card, image>>

HostRead ==
    /\ host.pc = "in"
    /\ full(gayle)
    /\ gayle' = ReadSector(gayle)
    /\ host' = [host EXCEPT
                   !.pc = IF host.done + 1 = Moving THEN "idle"
                          ELSE IF host.blk = 1 THEN "irq" ELSE "in",
                   !.done = @ + 1, !.blk = @ - 1,
                   !.got = Append(@, Head(gayle.fifo))]
    /\ UNCHANGED <<arm, hdf, card, image>>

(* Reference: where the sectors of the file and of a disk are on the card. *)
FilePlace ==
    [s \in 0 .. FileSize - 1 |->
        FileSector([sector |-> s, cluster |->
            CHOOSE c \in Clusters : InChain(FileStart, s, c)])]

Place(u, l) ==
    IF TypeOf(u) = "card" THEN PartStart + l
    ELSE FilePlace[l + offset(TypeOf(u))]

Address(i) == chs2lba(TypeOf(host.req.unit), host.req.pos) + i

Synthesized(u, l) == TypeOf(u) = "synth" /\ l + offset("synth") < 0

(* The first sector of a block is sent when the drive asks for data. *)
HostWrite(v) ==
    /\ host.pc = "out"
    /\ host.blk = Block(host.req.cmd, Moving - host.done, host.req.unit)
          => drq(gayle)
    /\ gayle' = WriteSector(gayle, Stored(v))
    /\ image' = IF Synthesized(host.req.unit, Address(host.done)) THEN image
                ELSE [image EXCEPT ![Place(host.req.unit, Address(host.done))] = v]
    /\ host' = [host EXCEPT !.pc = IF host.blk = 1 THEN "irq" ELSE "out",
                            !.done = @ + 1, !.blk = @ - 1]
    /\ UNCHANGED <<arm, hdf, card>>

HostContinues == HostInterrupt \/ HostRead \/ \E v \in NewData : HostWrite(v)

Next == HandleHDD \/ IssueTransfer \/ IssueOther \/ HostContinues

(* The reset of the Amiga, in the middle of a command; nothing tells the   *)
(* ARM.                                                                    *)
Reset ==
    /\ host.pc # "idle"
    /\ gayle' = Cleared(gayle)
    /\ host' = Asleep
    /\ UNCHANGED <<arm, hdf, card, image>>

(* HandleHDD() returns only when the command is done and is called again   *)
(* by the main loop; a driver that has given a command carries on with it. *)
Fairness == WF_vars(HandleHDD) /\ WF_vars(HostContinues)

Spec == Init /\ [][Next]_vars /\ Fairness

SpecWithReset == Init /\ [][Next \/ Reset]_vars

-----------------------------------------------------------------------------
(* Properties.                                                             *)

Fields(pc) == IF pc = "idle" THEN {"pc"}
              ELSE {"pc", "cmd", "unit", "pos", "left", "count", "blk", "buf", "lba"}

(* Types, and the limits of the hardware: the FIFO never overflows. *)
TypeOK ==
    /\ DOMAIN arm = Fields(arm.pc)
    /\ arm.pc \in {"idle", "read", "rwait", "rdata", "mwait", "mdata", "mtask",
                   "wwait", "store"}
    /\ arm.pc # "idle" =>
          /\ arm.left \in 0 .. CountMod
          /\ arm.pos \in Positions(TypeOf(arm.unit))
          /\ arm.blk \in 0 .. FifoSectors
    /\ hdf \in [Units -> [type : Types, spb : BlockSizes \cup {0},
                          file : [sector : 0 .. FileSize, cluster : Links]]]
    /\ gayle.sector_count \in 0 .. CountMod - 1
    /\ Len(gayle.fifo) <= FifoSectors
    /\ \A i \in 1 .. Len(gayle.fifo) : gayle.fifo[i] \in Contents
    /\ card \in [CardSectors -> Int] /\ image \in [CardSectors -> Int]

(* What the Amiga must get for sector l of unit u. *)
Expected(cmd, u, l) ==
    IF Synthesized(u, l) THEN FakeRDB(l)
    ELSE IF cmd = "READ" /\ TypeOf(u) = "file" /\ u = 0 /\ l = 0
    THEN Patched(image[Place(u, l)])
    ELSE Stored(image[Place(u, l)])

(* When the Amiga has finished a command that moved data one sector at a   *)
(* time, or a write, the registers hold the address of its last sector, as *)
(* ATA wants it: they are counted in cylinders, heads and sectors while    *)
(* the data is found by lba, and never after the Amiga took the last word. *)
LastAddress ==
    host.pc = "idle" /\ host.done > 0 /\ ~gayle.busy
        /\ host.req.cmd \in {"READ", "WRITE", "WRITEM"} =>
      /\ gayle.tfr.unit = host.req.unit
      /\ chs2lba(TypeOf(host.req.unit), gayle.tfr.pos) = Address(host.done - 1)

(* Every sector of a read is the one at the address in the registers, as   *)
(* the Amiga last wrote it, although writes are answered before they are   *)
(* stored (hdd.c:638), and when HandleHDD() is idle all of them are on the *)
(* card and nothing else is.  It takes the cursor of the file, the index,  *)
(* the chain, the lba and the cylinder, head and sector to stay in step    *)
(* over a sequence of commands.                                            *)
TransfersRight ==
    /\ host.req.cmd \in Reads =>
          \A i \in 1 .. Len(host.got) :
             host.got[i] = Expected(host.req.cmd, host.req.unit, Address(i - 1))
    /\ arm.pc = "idle" => card = image
    /\ LastAddress

(* Every command ends for the Amiga, and HandleHDD() always returns: no    *)
(* interrupt is lost between the Amiga, which clears it, and the ARM,      *)
(* which raises the next one, and neither waits for the other for ever.    *)
CommandEnds ==
    /\ (host.pc # "idle") ~> (host.pc = "idle")
    /\ (arm.pc # "idle") ~> (arm.pc = "idle")

(* BSY "tells the SPI host about new command" (Gayle.v:283): the interrupt *)
(* that announces the data of a read is raised for the command the Amiga   *)
(* has given.  After a reset it is not: the loops that wait for BSY take a *)
(* new command for the emptied buffer of the one that was cut off.         *)
InterruptsForRequest ==
    [][arm.pc \in {"rwait", "mwait"} /\ arm'.pc # arm.pc
         => arm.cmd = host.req.cmd /\ arm.unit = host.req.unit]_vars
=============================================================================
