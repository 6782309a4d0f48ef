---------------------------- MODULE StDmaProofs ----------------------------
(* Proofs about StDma: the disks of the ARM and the enable bits of the     *)
(* core, the types, and that every answer is the one to the command given. *)
EXTENDS StDma, Integers, FiniteSetTheorems, FunctionTheorems,
        WellFoundedInduction, TLAPS

(***************************************************************************)
(* The inductive invariant: who waits for whom, and what a transfer has    *)
(* done so far.                                                            *)

Moving == arm.pc \in {"acsisectors", "fdcsectors"}
Pending == drv.pc = "bytes" \/ acsi.busy \/ fdc.wait

ParmOf(j) == [op |-> j.op, lun |-> j.lun, lba |-> j.lba, len |-> j.len]

(* The types of the ARM and the driver, of which TypeOK names less. *)
ArmType ==
    arm \in [pc : {"poll", "acsi", "acsisectors", "fdc", "fdcsectors"},
             fdc : BOOLEAN, target : Targets, parm : Parm,
             cmd : Command \cup {NoCommand}, scnt : 0 .. 255, pos : Int,
             left : Nat]

JobInv ==
    /\ ArmType
    /\ drv \in [pc : {"idle", "bytes", "wait"},
                job : AcsiJobs \cup FdcJobs \cup {NoJob}, seen : BOOLEAN]
    /\ drv.pc = "bytes" => drv.job \in AcsiJobs
    /\ drv.pc = "wait" => drv.job \in AcsiJobs \cup FdcJobs

FloppyInv ==
    fdd_image \in [Drives -> {Ejected} \cup {Detected(f) : f \in FloppyFiles}]

(* What acsi.v has of a command after n bytes. *)
Given(n, p, j) ==
    /\ n <= parms(j.op)
    /\ n >= 1 => p.op = j.op
    /\ n >= 2 => p.lun = j.lun
    /\ n >= 3 => p.lba = j.lba
    /\ n >= 4 => p.len = j.len

(* A controller waits for the ARM only with the command that the driver    *)
(* has given and waits for too.                                            *)
BusInv ==
    /\ acsi.irq => acsi.count <= 4
    /\ drv.pc = "idle" => ~Pending
    /\ drv.pc = "bytes" =>
         /\ ~acsi.busy /\ ~fdc.wait
         /\ acsi.irq => /\ acsi.target = drv.job.target
                        /\ Given(acsi.count, acsi.parm, drv.job)
    /\ acsi.busy =>
         /\ drv.pc = "wait" /\ drv.job \in AcsiJobs /\ ~acsi.irq
         /\ acsi.target = drv.job.target /\ acsi.parm = ParmOf(drv.job)
    /\ fdc.wait =>
         /\ drv.pc = "wait" /\ drv.job \in FdcJobs /\ ~fdc.irq
         /\ fdc.cmd = drv.job.cmd

(* The ARM serves what is still pending, one command at a time: its        *)
(* acknowledgement is for that one.                                        *)
ArmInv ==
    /\ arm.pc \in {"acsi", "acsisectors"} =>
         acsi.busy /\ arm.target = acsi.target /\ arm.parm = acsi.parm /\ ~arm.fdc
    /\ arm.pc \in {"fdc", "fdcsectors"} => fdc.wait /\ arm.cmd = fdc.cmd
    /\ arm.pc = "fdc" => arm.scnt = drv.job.len

(* Nothing is moved before the loops, and the two memories of why a        *)
(* command was refused agree.                                              *)
RestInv ==
    /\ ~Moving => card = before
    /\ ~Moving /\ Pending => ram = FreshRam /\ dma = [left |-> drv.job.len, at |-> 0]
    /\ why = asc

(* The first n of the sectors from lba on have been moved. *)
PartIn(n, D, lba) ==
    /\ dma = [left |-> drv.job.len - n, at |-> n]
    /\ card = before /\ ram = Brought(n, D, lba)

PartOut(n, D, lba) ==
    /\ dma = [left |-> drv.job.len - n, at |-> n]
    /\ ram = FreshRam

(* The sectors that the loops have moved: of 256 sectors the DMA chip      *)
(* brings none, and of a sector that the track does not have neither.      *)
AcsiMoved == IF drv.job.len = 0 THEN 0 ELSE arm.pos - drv.job.lba

FdcDisk == fdd_image[drv.job.cmd.drive]

FdcMoved == IF SectorValid(drv.job.cmd, FdcDisk) THEN drv.job.len - arm.left ELSE 0

AcsiLoop ==
    arm.pc = "acsisectors" =>
        LET j == drv.job
            D == Behind(j.target)
        IN  /\ Moves(j) /\ j.lun = 0 /\ Supported(j.target)
            /\ j.lba + Asked(j) <= Len(D)
            /\ arm.left \in 0 .. Asked(j) /\ arm.pos = j.lba + Asked(j) - arm.left
            /\ j.op \in Reads => PartIn(AcsiMoved, D, j.lba)
            /\ j.op \in Writes =>
                 /\ PartOut(AcsiMoved, D, j.lba)
                 /\ Asked(j) = j.len => card = Taken(AcsiMoved, D, j.lba)

First(j, disk) == FloppyOffset(disk, j.cmd.track, j.cmd.side, j.cmd.sector)

FdcLoop ==
    arm.pc = "fdcsectors" =>
        LET j == drv.job
            D == Place[FdcDisk.file]
            first == First(j, FdcDisk)
        IN  /\ FdcDisk.file # NoFile /\ j.op \in {"read", "write"}
            /\ arm.left \in 0 .. j.len /\ arm.pos = first + j.len - arm.left
            /\ j.op = "read" => PartIn(FdcMoved, D, first)
            /\ j.op = "write" =>
                 PartOut(FdcMoved, D, first) /\ card = Taken(FdcMoved, D, first)

IInv ==
    TypeOK /\ JobInv /\ FloppyInv /\ BusInv /\ ArmInv /\ RestInv /\ AcsiLoop /\ FdcLoop

-----------------------------------------------------------------------------
(* The disks and the enable bits.                                          *)

(* The variables of tos.c the proof is about. *)
Disks ==
    /\ ctrl \in [enable : SUBSET Targets, protect : SUBSET Drives]
    /\ system_ctrl \in [enable : SUBSET Targets, protect : SUBSET Drives]
    /\ hdd_image \in [Targets -> HardFiles \cup {NoFile}]
    /\ hdd_direct \in {0, CardSize}

(* EnabledAreServed speaks of the core's control word.  Every change of it *)
(* starts from the copy in config.system_ctrl, so that the copy must have  *)
(* the same enable bits, also while a command is being served.             *)
Enabled ==
    /\ ctrl.enable = system_ctrl.enable
    /\ system_ctrl.enable = {t \in Targets : Supported(t)}

ServedInv == Disks /\ Enabled

(* The disks and their enable bits agree initially. *)
LEMMA ServedInit == Init => ServedInv
  BY StDisksAssumption, StDmaAssumption
  DEF Init, ServedInv, Disks, Enabled, Supported, direct

(* Mounting and ejecting the image of a target, which direct access does   *)
(* not hide.                                                               *)
LEMMA ImageStep ==
  ASSUME ServedInv, NEW t \in Targets, NEW f \in HardFiles \cup {NoFile},
         tos_select_hdd_image(t, f)
  PROVE  ServedInv'
<1> USE DEF tos_select_hdd_image, mist_set_control
<1>1. hdd_image' \in [Targets -> HardFiles \cup {NoFile}]
  BY DEF ServedInv, Disks
<1>2. \A u \in Targets : Supported(u)' <=>
        (IF u = t THEN f # NoFile ELSE Supported(u))
  BY DEF ServedInv, Disks, Supported, direct
<1>3. /\ ctrl' = system_ctrl'
      /\ system_ctrl' \in [enable : SUBSET Targets, protect : SUBSET Drives]
      /\ system_ctrl'.enable = IF f = NoFile THEN system_ctrl.enable \ {t}
                               ELSE system_ctrl.enable \cup {t}
  BY DEF ServedInv, Disks
<1>4. system_ctrl'.enable = {u \in Targets : Supported(u)'}
  BY <1>2, <1>3 DEF ServedInv, Enabled
<1>5. QED
  BY <1>1, <1>3, <1>4 DEF ServedInv, Disks, Enabled

(* Direct access hides the image of target 0 and, switched off, shows it   *)
(* again.                                                                  *)
LEMMA DirectStep ==
  ASSUME ServedInv, NEW on \in BOOLEAN, tos_set_direct_hdd(on)
  PROVE  ServedInv'
<1> USE DEF tos_set_direct_hdd, mist_set_control
<1>1. 0 \in Targets /\ CardSize # 0
  BY StDisksAssumption, StDmaAssumption
<1>2. \A u \in Targets : Supported(u)' <=>
        (IF u = 0 THEN on \/ hdd_image[0] # NoFile ELSE Supported(u))
  BY <1>1 DEF ServedInv, Disks, Supported, direct
<1>3. /\ ctrl' = system_ctrl'
      /\ system_ctrl' \in [enable : SUBSET Targets, protect : SUBSET Drives]
      /\ system_ctrl'.enable = IF on \/ hdd_image[0] # NoFile
                               THEN system_ctrl.enable \cup {0}
                               ELSE system_ctrl.enable \ {0}
  BY <1>1 DEF ServedInv, Disks
<1>4. system_ctrl'.enable = {u \in Targets : Supported(u)'}
  BY <1>1, <1>2, <1>3 DEF ServedInv, Enabled
<1>5. QED
  BY <1>1, <1>3, <1>4 DEF ServedInv, Disks, Enabled

(* Floppies: their write protection is in the same control word.           *)
LEMMA FloppyStep ==
  ASSUME ServedInv, NEW d \in Drives, NEW f, tos_insert_disk(d, f)
  PROVE  ServedInv'
<1>1. /\ ctrl' \in [enable : SUBSET Targets, protect : SUBSET Drives]
      /\ ctrl'.enable = system_ctrl.enable
  BY DEF tos_insert_disk, ServedInv, Disks
<1>2. UNCHANGED <<system_ctrl, hdd_image, hdd_direct>>
  BY DEF tos_insert_disk
<1>3. QED
  BY <1>1, <1>2 DEF ServedInv, Disks, Enabled, Supported, direct

(* The write protection shares the control word with the enable bits, and  *)
(* keeps them.                                                             *)
LEMMA ProtectionStep ==
  ASSUME ServedInv, NEW P \in SUBSET Drives, SetProtection(P)
  PROVE  ServedInv'
<1>1. /\ ctrl' = system_ctrl'
      /\ system_ctrl' \in [enable : SUBSET Targets, protect : SUBSET Drives]
      /\ system_ctrl'.enable = system_ctrl.enable
  BY DEF SetProtection, mist_set_control, ServedInv, Disks
<1>2. UNCHANGED <<hdd_image, hdd_direct>>
  BY DEF SetProtection
<1>3. QED
  BY <1>1, <1>2 DEF ServedInv, Disks, Enabled, Supported, direct

(* Neither serving a command nor giving one touches the disks. *)
LEMMA OtherSteps ==
  ASSUME ServedInv, UNCHANGED <<ctrl, armVars>>
  PROVE  ServedInv'
  BY DEF ServedInv, Disks, Enabled, Supported, direct, armVars

(* Every step keeps the disks and their enable bits in agreement. *)
LEMMA ServedNext == ServedInv /\ [Next]_vars => ServedInv'
<1> SUFFICES ASSUME ServedInv, [Next]_vars PROVE ServedInv'
  OBVIOUS
<1>1. CASE Menu
  BY <1>1, ImageStep, DirectStep, FloppyStep, ProtectionStep DEF Menu
<1>2. CASE Arm
  <2>1. UNCHANGED <<ctrl, armVars>>
    BY <1>2 DEF Arm, mist_get_dmastate, handle_acsi, StartSectors, AcsiSector,
                SectorsDone, handle_fdc, FdcSector, FdcDone
  <2>2. QED
    BY <2>1, OtherSteps
<1>3. CASE Driver
  <2>1. UNCHANGED <<ctrl, armVars>>
    BY <1>3 DEF Driver, NextByte, CommandOver, CommandUnanswered, GivesUp,
                DriverOnly
  <2>2. QED
    BY <2>1, OtherSteps
<1>4. CASE \E j \in AcsiJobs : FirstByte(j)
  BY <1>4, OtherSteps DEF FirstByte, DriverOnly
<1>5. CASE \E j \in FdcJobs : FdcCommand(j)
  BY <1>5, OtherSteps DEF FdcCommand, DriverOnly
<1>6. CASE UNCHANGED vars
  BY <1>6, OtherSteps DEF vars
<1>7. QED
  BY <1>1, <1>2, <1>3, <1>4, <1>5, <1>6 DEF Next

(* The targets the core answers for are exactly those tos.c has a disk     *)
(* for, whatever images and direct access the menu switches, in whatever   *)
(* order, at whatever point of the ST's commands.                          *)
THEOREM EnabledCorrect == Spec => []EnabledAreServed
<1>1. ServedInv => EnabledAreServed
  BY DEF ServedInv, Enabled, EnabledAreServed
<1>2. QED
  BY <1>1, ServedInit, ServedNext, PTL DEF Spec

-----------------------------------------------------------------------------
(* Constants.                                                              *)

(* There is a longest transfer, which fills the driver's buffer. *)
LEMMA MaxLenIs ==
    /\ MaxLen \in Lens /\ MaxLen \in 1 .. 255
    /\ \A n \in Lens : n <= MaxLen
<1> DEFINE Rest == {255 - n : n \in Lens}
           R == {ss \in Nat \X Nat : ss[1] < ss[2]}
<1>0. \A n \in Lens : n \in Nat /\ n <= 255
  BY StDmaAssumption
<1>1. Rest \subseteq Nat /\ Rest # {}
  <2>1. PICK n \in Lens : TRUE
    BY StDmaAssumption
  <2>2. 255 - n \in Rest
    OBVIOUS
  <2>3. QED
    BY <1>0, <2>2
<1>2. PICK x \in Rest : \A y \in Rest : ~ (<<y, x>> \in R)
  <2>1. IsWellFoundedOn(R, Nat)
    BY NatLessThanWellFounded, Zenon DEF OpToRel
  <2> HIDE DEF R
  <2>2. QED
    BY <1>1, <2>1, WFMin
<1>3. PICK m \in Lens : x = 255 - m
  OBVIOUS
<1>4. ASSUME NEW n \in Lens PROVE n <= m
  <2>1. x \in Nat /\ 255 - n \in Nat /\ 255 - n \in Rest
    BY <1>0, <1>1
  <2>2. ~ (255 - n < x)
    BY <1>2, <2>1
  <2>3. QED
    BY <1>0, <1>3, <2>2
<1>5. MaxLen \in Lens /\ \A n \in Lens : n <= MaxLen
  BY <1>4 DEF MaxLen
<1>6. PICK n \in Lens : n # 0
  BY StDmaAssumption
<1>7. MaxLen \in Nat /\ MaxLen <= 255 /\ n \in Nat /\ n > 0 /\ n <= MaxLen
  BY <1>0, <1>5, <1>6
<1>8. QED
  BY <1>5, <1>7

(* There is a command to be in acsi.v before the first one is given. *)
LEMMA ParmIs == AnyParm \in Parm
<1>1. PICK o \in Ops, u \in Luns, n \in Lens : TRUE
  BY StDmaAssumption
<1>2. [op |-> o, lun |-> u, lba |-> 0, len |-> n] \in Parm
  BY DEF Parm
<1>3. QED
  BY <1>2 DEF AnyParm

(* The contents of the buffer and of the card before anything is moved. *)
LEMMA DataIs ==
    /\ FreshRam \in [0 .. MaxLen - 1 -> Content]
    /\ InitCard \in [CardSectors -> Content]
    /\ <<"ram", MaxLen>> \in Content
  BY MaxLenIs DEF FreshRam, InitCard, Content

(* The format that tos_insert_disk() finds. *)
LEMMA DetectedIs ==
    ASSUME NEW f \in FloppyFiles
    PROVE  Detected(f) \in Floppies /\ Detected(f).file = f
<1>1. BootSector[0].sides \in Nat /\ BootSector[0].spt \in Nat
  BY StDisksAssumption DEF CardSectors
<1>2. Sides(Size(f)) \in Nat
  BY DEF Sides
<1>3. \A s \in Fitting(Size(f)) : s \in Nat
  <2> SUFFICES ASSUME NEW s \in Fitting(Size(f)) PROVE s \in Nat
    OBVIOUS
  <2>1. PICK x \in PerTrack \X Multipliers : s = x[1] * x[2]
    BY DEF Fitting
  <2>2. x[1] \in Nat /\ x[2] \in Nat
    BY StDisksAssumption
  <2>3. QED
    BY <2>1, <2>2
<1>4. Fitting(Size(f)) # {} => (CHOOSE s \in Fitting(Size(f)) : TRUE) \in Nat
  BY <1>3
<1>5. QED
  BY <1>1, <1>2, <1>4 DEF Detected, Floppies

-----------------------------------------------------------------------------
(* Disks and what has been moved of them.                                  *)

OnCard(D) ==
    /\ D \in Seq(CardSectors)
    /\ \A m, n \in 1 .. Len(D) : D[m] = D[n] => m = n

(* A file lies on sectors of the card, each of them once. *)
LEMMA PlaceIs ==
    ASSUME NEW f \in Files
    PROVE  OnCard(Place[f])
<1>1. Place[f] \in Seq(CardSectors)
  BY StDisksAssumption
<1>2. DOMAIN Place[f] = 1 .. Len(Place[f])
  BY <1>1
<1>3. QED
  BY <1>1, <1>2, StDisksAssumption DEF OnCard

(* Behind() is what Supported(), blocks() and Sector() of handle_acsi()    *)
(* say.                                                                    *)
LEMMA BehindIs ==
    ASSUME TypeOK, NEW t \in Targets, Supported(t)
    PROVE  /\ OnCard(Behind(t)) /\ Len(Behind(t)) = blocks(t)
           /\ \A n \in 0 .. blocks(t) - 1 : Sector(t, n) = Behind(t)[n + 1]
<1>0. CardSize \in Nat \ {0} /\ hdd_direct \in {0, CardSize}
  BY StDisksAssumption DEF TypeOK
<1>1. CASE direct(t)
  <2> DEFINE D == [n \in 1 .. CardSize |-> n - 1]
  <2>1. Behind(t) = D /\ blocks(t) = CardSize
    BY <1>0, <1>1 DEF Behind, blocks, direct
  <2>2. D \in Seq(CardSectors) /\ Len(D) = CardSize
    BY <1>0 DEF CardSectors
  <2>3. \A m, n \in 1 .. CardSize : D[m] = D[n] => m = n
    BY <1>0
  <2>4. \A n \in 0 .. CardSize - 1 : Sector(t, n) = n /\ D[n + 1] = n
    BY <1>0, <1>1 DEF Sector
  <2> HIDE DEF D
  <2>5. QED
    BY <2>1, <2>2, <2>3, <2>4 DEF OnCard
<1>2. CASE ~direct(t)
  <2>1. hdd_image[t] # NoFile /\ hdd_image[t] \in Files
    BY <1>2 DEF Supported, TypeOK, Files
  <2>2. Behind(t) = Place[hdd_image[t]] /\ blocks(t) = Len(Place[hdd_image[t]])
    BY <1>2, <2>1 DEF Behind, blocks, direct, Size
  <2>3. \A n : Sector(t, n) = Place[hdd_image[t]][n + 1]
    BY <1>2 DEF Sector
  <2>4. QED
    BY <2>1, <2>2, <2>3, PlaceIs
<1>3. QED
  BY <1>1, <1>2

(* Before the first sector is moved, buffer and card are as they were. *)
LEMMA NothingMoved ==
    ASSUME TypeOK, NEW D, NEW lba \in Int
    PROVE  Brought(0, D, lba) = FreshRam /\ Taken(0, D, lba) = before
<1>1. Brought(0, D, lba) = FreshRam
  BY MaxLenIs DEF Brought, FreshRam
<1>2. Taken(0, D, lba) = [s \in CardSectors |-> before[s]]
  BY DEF Taken
<1>3. QED
  BY <1>1, <1>2 DEF TypeOK

(* One more sector brought is one more block of the buffer. *)
LEMMA OneBrought ==
    ASSUME NEW D, NEW lba \in Int, NEW n \in 0 .. MaxLen - 1
    PROVE  Brought(n + 1, D, lba) =
             [Brought(n, D, lba) EXCEPT ![n] = before[D[lba + n + 1]]]
<1>1. \A i \in 0 .. MaxLen - 1 : i < n + 1 <=> i < n \/ i = n
  BY MaxLenIs
<1>2. QED
  BY <1>1, MaxLenIs DEF Brought

(* One more sector taken is one more sector of the card written, since no  *)
(* other of the disk lies there.                                           *)
LEMMA OneTaken ==
    ASSUME NEW D, OnCard(D), NEW lba \in Nat, NEW n \in Nat,
           lba + n + 1 <= Len(D)
    PROVE  Taken(n + 1, D, lba) =
             [Taken(n, D, lba) EXCEPT ![D[lba + n + 1]] = FreshRam[n]]
<1> DEFINE At(i) == D[lba + i + 1]
           Which(k, s) == CHOOSE i \in 0 .. k - 1 : At(i) = s
<1>1. Len(D) \in Nat
  BY DEF OnCard
<1>2. \A i, k \in 0 .. n : At(i) = At(k) => i = k
  BY <1>1 DEF OnCard
<1>3. \A k \in 0 .. n + 1 : \A i \in 0 .. k - 1 : Which(k, At(i)) = i
  <2> SUFFICES ASSUME NEW k \in 0 .. n + 1, NEW i \in 0 .. k - 1
               PROVE  Which(k, At(i)) = i
    OBVIOUS
  <2>1. \A m \in 0 .. k - 1 : At(m) = At(i) => m = i
    BY <1>2
  <2> HIDE DEF At
  <2>2. QED
    BY <2>1
<1>4. \A i \in 0 .. n : i \in 0 .. n - 1 \/ i = n
  OBVIOUS
<1>5. ASSUME NEW s \in CardSectors
      PROVE  Taken(n + 1, D, lba)[s] =
               IF s = At(n) THEN FreshRam[n] ELSE Taken(n, D, lba)[s]
  <2>1. Taken(n + 1, D, lba)[s] =
          IF \E i \in 0 .. n : At(i) = s THEN FreshRam[Which(n + 1, s)] ELSE before[s]
    <3>1. (n + 1) - 1 = n
      OBVIOUS
    <3>2. QED
      BY <3>1 DEF Taken
  <2>2. Taken(n, D, lba)[s] =
          IF \E i \in 0 .. n - 1 : At(i) = s THEN FreshRam[Which(n, s)] ELSE before[s]
    BY DEF Taken
  <2>3. CASE s = At(n)
    <3>1. Which(n + 1, s) = n
      BY <1>3, <2>3
    <3> HIDE DEF At, Which
    <3>2. QED
      BY <2>1, <2>3, <3>1
  <2>4. CASE s # At(n) /\ \E i \in 0 .. n - 1 : At(i) = s
    <3>1. PICK i \in 0 .. n - 1 : At(i) = s
      BY <2>4
    <3>2. Which(n + 1, s) = i /\ Which(n, s) = i
      BY <1>3, <3>1
    <3>3. i \in 0 .. n
      OBVIOUS
    <3> HIDE DEF At, Which
    <3>4. QED
      BY <2>1, <2>2, <2>4, <3>1, <3>2, <3>3
  <2>5. CASE s # At(n) /\ ~\E i \in 0 .. n - 1 : At(i) = s
    <3>1. ~\E i \in 0 .. n : At(i) = s
      BY <1>4, <2>5
    <3> HIDE DEF At, Which
    <3>2. QED
      BY <2>1, <2>2, <2>5, <3>1
  <2>6. QED
    BY <2>3, <2>4, <2>5
<1>6. At(n) \in CardSectors
  BY <1>1 DEF OnCard
<1>7. /\ Taken(n + 1, D, lba) = [s \in CardSectors |-> Taken(n + 1, D, lba)[s]]
      /\ Taken(n, D, lba) = [s \in CardSectors |-> Taken(n, D, lba)[s]]
  BY DEF Taken
<1>8. QED
  BY <1>5, <1>6, <1>7

(* What has been moved is contents of the card and of the buffer. *)
LEMMA MovedTypes ==
    ASSUME TypeOK, NEW D, OnCard(D), NEW lba \in Nat, NEW n \in 0 .. MaxLen,
           lba + n <= Len(D)
    PROVE  /\ Brought(n, D, lba) \in [0 .. MaxLen - 1 -> Content]
           /\ Taken(n, D, lba) \in [CardSectors -> Content]
<1>0. /\ before \in [CardSectors -> Content] /\ Len(D) \in Nat
      /\ MaxLen \in Nat
  BY MaxLenIs DEF TypeOK, OnCard
<1>1. ASSUME NEW i \in 0 .. n - 1 PROVE D[lba + i + 1] \in CardSectors
  <2>1. lba + i + 1 \in 1 .. Len(D)
    BY <1>0
  <2>2. QED
    BY <2>1 DEF OnCard
<1>2. Brought(n, D, lba) \in [0 .. MaxLen - 1 -> Content]
  <2>1. ASSUME NEW i \in 0 .. MaxLen - 1, i < n
        PROVE  before[D[lba + i + 1]] \in Content
    <3>1. i \in 0 .. n - 1
      BY <2>1, <1>0
    <3>2. QED
      BY <3>1, <1>0, <1>1
  <2>2. \A i \in 0 .. MaxLen - 1 : FreshRam[i] \in Content
    BY DataIs
  <2>3. QED
    BY <2>1, <2>2 DEF Brought
<1>3. Taken(n, D, lba) \in [CardSectors -> Content]
  <2> SUFFICES ASSUME NEW s \in CardSectors,
                      \E i \in 0 .. n - 1 : D[lba + i + 1] = s
               PROVE  FreshRam[CHOOSE i \in 0 .. n - 1 : D[lba + i + 1] = s] \in Content
    BY <1>0 DEF Taken
  <2> DEFINE w == CHOOSE i \in 0 .. n - 1 : D[lba + i + 1] = s
  <2>1. w \in 0 .. n - 1
    OBVIOUS
  <2> HIDE DEF w
  <2>2. w \in 0 .. MaxLen - 1
    BY <2>1, <1>0
  <2>3. FreshRam[w] \in Content
    BY <2>2, DataIs
  <2>4. QED
    BY <2>3 DEF w
<1>4. QED
  BY <1>2, <1>3

-----------------------------------------------------------------------------
(* Jobs.                                                                   *)

(* Lengths and block numbers are natural numbers. *)
LEMMA NumbersIn ==
    /\ \A n \in Lens : n \in Nat
    /\ \A l \in Lbas : l \in Nat
<1>1. Lens \subseteq 0 .. 255 /\ Lbas \subseteq 0 .. LbaMod - 1 /\ LbaMod \in Nat
  BY StDmaAssumption
<1>2. QED
  BY <1>1

(* What an ACSI command of the driver consists of. *)
LEMMA AcsiJobIs ==
    ASSUME NEW j \in AcsiJobs
    PROVE  /\ j.dev = "acsi" /\ j.target \in Targets /\ j.op \in Ops
           /\ j.lun \in Luns /\ j.lba \in Nat /\ j.len \in 0 .. MaxLen
           /\ ParmOf(j) \in Parm
           /\ Asked(j) \in 0 .. 256 /\ (j.len # 0 => Asked(j) = j.len)
           /\ ~Moves(j) => j.len = 1
<1>1. /\ j.dev = "acsi" /\ j.target \in Targets /\ j.op \in Ops /\ j.lun \in Luns
      /\ j.lba \in Lbas \cup {0} /\ j.len \in Lens \cup {1}
      /\ ~Moves(j) => j.len = 1
  BY DEF AcsiJobs
<1>2. j.lba \in Nat /\ j.len \in 0 .. MaxLen
  <2>1. j.lba \in Nat
    BY <1>1, NumbersIn
  <2>2. j.len \in Nat /\ j.len <= MaxLen
    <3>1. MaxLen \in Nat /\ 1 <= MaxLen
      BY MaxLenIs
    <3>2. CASE j.len = 1
      BY <3>1, <3>2
    <3>3. CASE j.len \in Lens
      BY <3>3, MaxLenIs, NumbersIn
    <3>4. QED
      BY <1>1, <3>2, <3>3
  <2>3. QED
    BY <2>1, <2>2, MaxLenIs
<1>3. ParmOf(j) \in Parm
  BY <1>1 DEF Parm, ParmOf
<1>4. Asked(j) \in 0 .. 256 /\ (j.len # 0 => Asked(j) = j.len)
  BY <1>2, MaxLenIs DEF Asked
<1>5. QED
  BY <1>1, <1>2, <1>3, <1>4

(* What a floppy command of the driver consists of. *)
LEMMA FdcJobIs ==
    ASSUME NEW j \in FdcJobs
    PROVE  /\ j.dev = "fdc" /\ j.cmd \in Command /\ j.op = j.cmd.op
           /\ j.op \in {"read", "write", "readtrack"}
           /\ j.cmd.drive \in Drives /\ j.cmd.track \in Nat
           /\ j.cmd.side \in {0, 1} /\ j.cmd.sector \in Nat
           /\ j.len \in 1 .. MaxLen
<1>1. /\ j.dev = "fdc" /\ j.cmd \in Command /\ j.op = j.cmd.op
      /\ j.op \in FdcOps /\ j.len \in Lens \ {0}
  BY DEF FdcJobs
<1>2. /\ j.op \in {"read", "write", "readtrack"} /\ j.cmd.drive \in Drives
      /\ j.cmd.track \in Nat /\ j.cmd.side \in {0, 1} /\ j.cmd.sector \in Nat
  BY <1>1, StDmaAssumption DEF Command
<1>3. j.len \in Nat /\ j.len # 0 /\ j.len <= MaxLen
  BY <1>1, MaxLenIs, NumbersIn
<1>4. QED
  BY <1>1, <1>2, <1>3, MaxLenIs

(* No command is for both the ACSI bus and the floppies. *)
LEMMA JobsDiffer ==
    /\ \A j \in AcsiJobs : j \notin FdcJobs /\ j # NoJob
    /\ \A j \in FdcJobs : j # NoJob
  BY AcsiJobIs, FdcJobIs DEF NoJob

(* One command is pending at most, and what is served is pending. *)
LEMMA OnePending ==
    ASSUME IInv
    PROVE  /\ ~(acsi.busy /\ fdc.wait)
           /\ ~Pending => arm.pc = "poll"
           /\ drv.pc \in {"idle", "bytes"} => arm.pc = "poll"
           /\ arm.pc \in {"acsi", "acsisectors"} =>
                acsi.busy /\ drv.pc = "wait" /\ drv.job \in AcsiJobs
           /\ arm.pc \in {"fdc", "fdcsectors"} =>
                fdc.wait /\ drv.pc = "wait" /\ drv.job \in FdcJobs
<1>1. ~(acsi.busy /\ fdc.wait)
  BY JobsDiffer DEF IInv, BusInv
<1>2. arm.pc \in {"poll", "acsi", "acsisectors", "fdc", "fdcsectors"}
  BY DEF IInv, TypeOK
<1>3. QED
  BY <1>1, <1>2 DEF IInv, BusInv, ArmInv, Pending

(* The parts of TypeOK. *)
BusTypes ==
    /\ acsi \in [target : Targets, count : 0 .. 5, parm : Parm,
                 busy : BOOLEAN, irq : BOOLEAN]
    /\ fdc \in [wait : BOOLEAN, cmd : Command \cup {NoCommand}, irq : BOOLEAN]
    /\ dma \in [left : 0 .. 255, at : 0 .. MaxLen]
    /\ status \in {0, 2}

DataTypes ==
    /\ DOMAIN ram = 0 .. MaxLen - 1
    /\ \A i \in DOMAIN ram :
            ram[i] \in Content \/ ram[i] \in Info \X Nat \X Nat
    /\ asc \in [Targets -> Reasons] /\ why \in [Targets -> Reasons]
    /\ card \in [CardSectors -> Content] /\ before \in [CardSectors -> Content]

(* A floppy that tos_insert_disk() has looked at has the type of one. *)
LEMMA FloppyTypes == FloppyInv => fdd_image \in [Drives -> Floppies]
<1>1. {Ejected} \cup {Detected(f) : f \in FloppyFiles} \subseteq Floppies
  BY DetectedIs DEF Floppies
<1>2. QED
  BY <1>1 DEF FloppyInv

(* TypeOK in the parts that the steps disturb. *)
LEMMA TypeParts ==
    /\ TypeOK => Disks /\ BusTypes /\ DataTypes
    /\ Disks /\ BusTypes /\ DataTypes /\ FloppyInv /\ JobInv => TypeOK
<1>1. TypeOK => Disks /\ BusTypes /\ DataTypes
  BY DEF TypeOK, Disks, BusTypes, DataTypes
<1>2. JobInv => /\ arm.pc \in {"poll", "acsi", "acsisectors", "fdc", "fdcsectors"}
                /\ drv.pc \in {"idle", "bytes", "wait"}
  BY DEF JobInv, ArmType
<1>3. Disks /\ BusTypes /\ DataTypes /\ FloppyInv /\ JobInv => TypeOK
  BY <1>2, FloppyTypes DEF TypeOK, Disks, BusTypes, DataTypes
<1>4. QED
  BY <1>1, <1>3

(* acsi.v without a command. *)
LEMMA QuietIs ==
    /\ Quiet \in [target : Targets, count : 0 .. 5, parm : Parm,
                  busy : BOOLEAN, irq : BOOLEAN]
    /\ ~Quiet.busy /\ ~Quiet.irq /\ Quiet.count = 0
  BY ParmIs, StDmaAssumption DEF Quiet

(* The ARM without a command. *)
LEMMA IdleIs ==
    /\ Idle.pc = "poll"
    /\ Idle \in [pc : {"poll", "acsi", "acsisectors", "fdc", "fdcsectors"},
                fdc : BOOLEAN, target : Targets, parm : Parm,
                cmd : Command \cup {NoCommand}, scnt : 0 .. 255, pos : Int,
                left : Nat]
  BY ParmIs, StDmaAssumption DEF Idle

(* Whether the invariant holds initially. *)
LEMMA IInit == Init => IInv
<1> SUFFICES ASSUME Init PROVE IInv
  OBVIOUS
<1> USE DEF Init
<1>1. JobInv
  <2>1. arm = Idle /\ drv = [pc |-> "idle", job |-> NoJob, seen |-> FALSE]
    OBVIOUS
  <2>2. QED
    BY <2>1, IdleIs DEF JobInv, ArmType
<1>2. FloppyInv
  BY DEF FloppyInv
<1>3. Disks
  BY ServedInit DEF ServedInv
<1>4. BusTypes
  <2>1. [left |-> 0, at |-> 0] \in [left : 0 .. 255, at : 0 .. MaxLen]
    BY MaxLenIs
  <2>2. QED
    BY <2>1, QuietIs DEF BusTypes
<1>5. DataTypes
  BY DataIs, MaxLenIs DEF DataTypes, Reasons, FreshRam
<1>6. TypeOK
  BY <1>1, <1>2, <1>3, <1>4, <1>5, TypeParts
<1>7. BusInv
  BY QuietIs DEF BusInv, Pending
<1>8. ArmInv /\ AcsiLoop /\ FdcLoop
  BY IdleIs DEF ArmInv, AcsiLoop, FdcLoop
<1>9. RestInv
  BY QuietIs DEF RestInv, Pending
<1>10. QED
  BY <1>1, <1>2, <1>6, <1>7, <1>8, <1>9 DEF IInv

(* While nothing is served the loops say nothing. *)
LEMMA IdleArm ==
    ASSUME arm'.pc = "poll"
    PROVE  ArmInv' /\ AcsiLoop' /\ FdcLoop'
  BY DEF ArmInv, AcsiLoop, FdcLoop

(* The invariant from its parts. *)
LEMMA Collect ==
    ASSUME Disks', BusTypes', DataTypes', FloppyInv', JobInv', BusInv', ArmInv',
           RestInv', AcsiLoop', FdcLoop'
    PROVE  IInv'
  BY TypeParts, PTL DEF IInv

-----------------------------------------------------------------------------
(* The menu.                                                               *)

(* The menu runs while the ARM serves nothing: only the disks change. *)
LEMMA MenuStep ==
    ASSUME IInv, Disks', Menu
    PROVE  IInv'
<1>1. arm.pc = "poll" /\ MenuOnly
  BY DEF Menu, tos_select_hdd_image, tos_set_direct_hdd, tos_insert_disk,
         SetProtection
<1>2. FloppyInv'
  <2>1. CASE UNCHANGED fdd_image
    BY <2>1 DEF IInv, FloppyInv
  <2>2. CASE \E d \in Drives, f \in FloppyFiles \cup {NoFile} : tos_insert_disk(d, f)
    <3>1. PICK d \in Drives, f \in FloppyFiles \cup {NoFile},
               disk \in {Ejected} \cup {Detected(g) : g \in FloppyFiles} :
             fdd_image' = [fdd_image EXCEPT ![d] = disk]
      BY <2>2 DEF tos_insert_disk, Inserted
    <3>2. QED
      BY <3>1 DEF IInv, FloppyInv
  <2>3. QED
    BY <2>1, <2>2 DEF Menu, tos_select_hdd_image, tos_set_direct_hdd, SetProtection
<1>3. BusTypes' /\ DataTypes'
  BY <1>1, TypeParts DEF IInv, MenuOnly, BusTypes, DataTypes
<1>4. JobInv'
  BY <1>1 DEF IInv, MenuOnly, JobInv, ArmType
<1>5. BusInv'
  BY <1>1 DEF IInv, MenuOnly, BusInv, Pending
<1>6. RestInv'
  BY <1>1 DEF IInv, MenuOnly, RestInv, Pending, Moving
<1>7. ArmInv' /\ AcsiLoop' /\ FdcLoop'
  BY <1>1, IdleArm DEF MenuOnly
<1>8. QED
  BY <1>2, <1>3, <1>4, <1>5, <1>6, <1>7, Collect

-----------------------------------------------------------------------------
(* The driver.                                                             *)

AcsiSet == [target : Targets, count : 0 .. 5, parm : Parm,
            busy : BOOLEAN, irq : BOOLEAN]

(* What acsi.v is after a byte, heard or not. *)
LEMMA HeardIs ==
    ASSUME acsi \in AcsiSet, NEW a \in AcsiSet
    PROVE  /\ Heard(a) \in AcsiSet
           /\ \/ Heard(a) = a
              \/ /\ ~Heard(a).irq /\ Heard(a).count = 0
                 /\ Heard(a).busy = acsi.busy
<1>1. CASE a.target \in ctrl.enable
  BY <1>1 DEF Heard
<1>2. CASE a.target \notin ctrl.enable
  <2>1. Heard(a) = [Quiet EXCEPT !.target = a.target, !.busy = acsi.busy]
    BY <1>2 DEF Heard
  <2>2. a.target \in Targets /\ acsi.busy \in BOOLEAN /\ Quiet \in AcsiSet
    BY QuietIs DEF AcsiSet
  <2>3. Heard(a) \in AcsiSet
    BY <2>1, <2>2 DEF AcsiSet
  <2>4. ~Heard(a).irq /\ Heard(a).count = 0 /\ Heard(a).busy = acsi.busy
    BY <2>1, <2>2, QuietIs DEF AcsiSet
  <2>5. QED
    BY <2>3, <2>4
<1>3. QED
  BY <1>1, <1>2

(* The driver's steps leave the ARM and the card alone. *)
LEMMA DriverKeeps ==
    ASSUME IInv, DriverOnly, arm.pc = "poll",
           ram' = ram \/ ram' = FreshRam
    PROVE  /\ DataTypes' /\ FloppyInv' /\ card' = before' /\ why' = asc'
           /\ ArmInv' /\ AcsiLoop' /\ FdcLoop' /\ ~Moving /\ ~Moving'
           /\ ArmType'
<1>1. UNCHANGED <<asc, card, arm, before, why, fdd_image>>
  BY DEF DriverOnly, armVars
<1>2. FloppyInv'
  BY <1>1 DEF IInv, FloppyInv
<1>3. DataTypes'
  <2>1. DataTypes
    BY TypeParts DEF IInv
  <2>2. CASE ram' = ram
    BY <1>1, <2>1, <2>2 DEF DataTypes
  <2>3. CASE ram' = FreshRam
    <3>1. DOMAIN ram' = 0 .. MaxLen - 1 /\ \A i \in DOMAIN ram' : ram'[i] \in Content
      BY <2>3, DataIs
    <3>2. QED
      BY <1>1, <2>1, <3>1 DEF DataTypes
  <2>4. QED
    BY <2>2, <2>3
<1>4. ~Moving /\ ~Moving' /\ card' = before' /\ why' = asc'
  BY <1>1 DEF IInv, RestInv, Moving
<1>5. ArmInv' /\ AcsiLoop' /\ FdcLoop'
  BY <1>1, IdleArm
<1>6. ArmType'
  BY <1>1 DEF IInv, JobInv, ArmType
<1>7. QED
  BY <1>2, <1>3, <1>4, <1>5, <1>6

(* The first byte of an ACSI command, given while nothing is pending. *)
LEMMA FirstByteStep ==
    ASSUME IInv, Disks', NEW j \in AcsiJobs, FirstByte(j)
    PROVE  IInv'
<1> DEFINE a == [acsi EXCEPT
                   !.target = j.target,
                   !.count = IF Long(j.op) THEN 0 ELSE 1,
                   !.parm.op = IF Long(j.op) THEN @ ELSE j.op,
                   !.irq = TRUE]
           P == IF Long(j.op) THEN acsi.parm ELSE [acsi.parm EXCEPT !.op = j.op]
           n == IF Long(j.op) THEN 0 ELSE 1
<1>1. /\ drv.pc = "idle" /\ acsi' = Heard(a) /\ fdc' = fdc /\ status' = status
      /\ drv' = [pc |-> "bytes", job |-> j, seen |-> FALSE]
      /\ dma' = [left |-> j.len, at |-> 0] /\ ram' = FreshRam /\ DriverOnly
  BY DEF FirstByte, Program
<1>2. ~acsi.busy /\ ~fdc.wait /\ arm.pc = "poll"
  BY <1>1, OnePending DEF IInv, BusInv, Pending
<1>3. acsi \in AcsiSet /\ acsi.parm \in Parm /\ acsi.busy = FALSE
  BY <1>2 DEF IInv, TypeOK, AcsiSet
<1>4. j.target \in Targets /\ j.op \in Ops /\ j.len \in 0 .. MaxLen
  BY AcsiJobIs
<1>5. P \in Parm /\ n \in {0, 1} /\ (n = 1 => P.op = j.op)
  BY <1>3, <1>4 DEF Parm
<1>6. a = [target |-> j.target, count |-> n, parm |-> P, busy |-> FALSE,
           irq |-> TRUE]
  <2>1. [acsi.parm EXCEPT !.op = acsi.parm.op] = acsi.parm
    BY <1>3 DEF Parm
  <2>2. a = [acsi EXCEPT !.target = j.target, !.count = n, !.parm = P, !.irq = TRUE]
    <3>1. CASE Long(j.op)
      <4>1. a = [acsi EXCEPT !.target = j.target, !.count = 0,
                   !.parm = [acsi.parm EXCEPT !.op = acsi.parm.op], !.irq = TRUE]
        BY <1>3, <3>1 DEF AcsiSet
      <4>2. QED
        BY <2>1, <3>1, <4>1
    <3>2. CASE ~Long(j.op)
      BY <1>3, <3>2 DEF AcsiSet
    <3>3. QED
      BY <3>1, <3>2
  <2> HIDE DEF a, P, n
  <2>3. QED
    BY <1>3, <2>2 DEF AcsiSet
<1> HIDE DEF P, n
<1>7. a \in AcsiSet
  <2>1. n \in 0 .. 5
    BY <1>5
  <2> HIDE DEF a
  <2>2. QED
    BY <1>4, <1>5, <1>6, <2>1 DEF AcsiSet
<1>8. a.count \in {0, 1} /\ a.target = j.target /\ a.busy = FALSE
      /\ (a.count = 1 => a.parm.op = j.op)
  <2> HIDE DEF a
  <2>1. QED
    BY <1>5, <1>6
<1> HIDE DEF a
<1>9. /\ acsi' \in AcsiSet /\ ~acsi'.busy /\ acsi'.count \in {0, 1}
      /\ acsi'.irq => acsi' = a
  BY <1>1, <1>3, <1>7, <1>8, HeardIs
<1>10. BusTypes'
  <2>1. dma' \in [left : 0 .. 255, at : 0 .. MaxLen]
    BY <1>1, <1>4, MaxLenIs
  <2>2. QED
    BY <1>1, <1>9, <2>1, TypeParts DEF IInv, BusTypes, AcsiSet
<1>11. drv'.pc = "bytes" /\ drv'.job = j
  BY <1>1
<1>12. JobInv'
  <2>1. drv' \in [pc : {"idle", "bytes", "wait"},
                 job : AcsiJobs \cup FdcJobs \cup {NoJob}, seen : BOOLEAN]
    BY <1>1
  <2>2. QED
    BY <1>1, <1>2, <1>11, <2>1, DriverKeeps DEF JobInv
<1>13. BusInv'
  <2>1. parms(j.op) \in {3, 4}
    BY DEF parms
  <2>2. acsi'.irq => acsi'.target = j.target /\ Given(acsi'.count, acsi'.parm, j)
    BY <1>8, <1>9, <2>1 DEF Given
  <2>3. ~fdc'.wait /\ ~acsi'.busy /\ acsi'.count <= 4
    BY <1>1, <1>2, <1>9
  <2>4. QED
    BY <1>11, <2>2, <2>3 DEF BusInv
<1>14. RestInv'
  BY <1>1, <1>2, <1>11, DriverKeeps DEF RestInv
<1>15. QED
  BY <1>1, <1>2, <1>10, <1>12, <1>13, <1>14, DriverKeeps, Collect

(* A floppy command, given while nothing is pending. *)
LEMMA FdcCommandStep ==
    ASSUME IInv, Disks', NEW j \in FdcJobs, FdcCommand(j)
    PROVE  IInv'
<1> DEFINE ends == j.op = "write" /\ j.cmd.drive \in ctrl.protect
<1>1. /\ drv.pc = "idle" /\ acsi' = acsi /\ status' = status
      /\ fdc' = [wait |-> ~ends, cmd |-> IF ends THEN NoCommand ELSE j.cmd,
                 irq |-> ends]
      /\ drv' = [pc |-> "wait", job |-> j, seen |-> FALSE]
      /\ dma' = [left |-> j.len, at |-> 0] /\ ram' = FreshRam /\ DriverOnly
  BY DEF FdcCommand, Program
<1>2. ~acsi.busy /\ arm.pc = "poll"
  BY <1>1, OnePending DEF IInv, BusInv, Pending
<1>3. j.cmd \in Command /\ j.len \in 1 .. MaxLen /\ ends \in BOOLEAN
  BY FdcJobIs
<1> HIDE DEF ends
<1>4. /\ fdc' \in [wait : BOOLEAN, cmd : Command \cup {NoCommand}, irq : BOOLEAN]
      /\ fdc'.wait => ~fdc'.irq /\ fdc'.cmd = j.cmd
  BY <1>1, <1>3
<1>5. BusTypes'
  <2>1. dma' \in [left : 0 .. 255, at : 0 .. MaxLen]
    BY <1>1, <1>3, MaxLenIs
  <2>2. QED
    BY <1>1, <1>4, <2>1, TypeParts DEF IInv, BusTypes
<1>6. drv'.pc = "wait" /\ drv'.job = j
  BY <1>1
<1>7. JobInv'
  <2>1. drv' \in [pc : {"idle", "bytes", "wait"},
                 job : AcsiJobs \cup FdcJobs \cup {NoJob}, seen : BOOLEAN]
    BY <1>1
  <2>2. QED
    BY <1>1, <1>2, <1>6, <2>1, DriverKeeps DEF JobInv
<1>8. BusInv'
  BY <1>1, <1>2, <1>4, <1>6 DEF IInv, BusInv
<1>9. RestInv'
  BY <1>1, <1>2, <1>6, DriverKeeps DEF RestInv
<1>10. QED
  BY <1>1, <1>2, <1>5, <1>7, <1>8, <1>9, DriverKeeps, Collect

(* A command ends without the ARM, or has ended. *)
LEMMA EndStep ==
    ASSUME IInv, Disks', arm.pc = "poll",
           drv' = [pc |-> "idle", job |-> NoJob, seen |-> FALSE],
           dma' = [left |-> 0, at |-> 0], ram' = FreshRam, DriverOnly,
           status' \in {0, 2}, acsi' \in AcsiSet, ~acsi'.busy,
           acsi'.irq => acsi'.count <= 4,
           fdc' \in [wait : BOOLEAN, cmd : Command \cup {NoCommand}, irq : BOOLEAN],
           ~fdc'.wait
    PROVE  IInv'
<1>1. drv'.pc = "idle"
  OBVIOUS
<1>2. BusTypes'
  BY MaxLenIs DEF BusTypes, AcsiSet
<1>3. JobInv'
  <2>1. drv' \in [pc : {"idle", "bytes", "wait"},
                 job : AcsiJobs \cup FdcJobs \cup {NoJob}, seen : BOOLEAN]
    OBVIOUS
  <2>2. QED
    BY <1>1, <2>1, DriverKeeps DEF JobInv
<1>4. BusInv' /\ RestInv'
  BY <1>1, DriverKeeps DEF BusInv, RestInv, Pending
<1>5. QED
  BY <1>2, <1>3, <1>4, DriverKeeps, Collect

(* The driver takes the answer. *)
LEMMA CommandOverStep ==
    ASSUME IInv, Disks', CommandOver
    PROVE  IInv'
<1>1. /\ drv.pc = "wait" /\ Interrupted /\ DriverOnly
      /\ acsi' = IF drv.job.dev = "acsi" THEN [acsi EXCEPT !.irq = FALSE] ELSE acsi
      /\ fdc' = IF drv.job.dev = "fdc" THEN [fdc EXCEPT !.irq = FALSE] ELSE fdc
      /\ drv' = [pc |-> "idle", job |-> NoJob, seen |-> FALSE]
      /\ status' = 0 /\ dma' = [left |-> 0, at |-> 0] /\ ram' = FreshRam
  BY DEF CommandOver
<1>2. /\ acsi \in AcsiSet
      /\ fdc \in [wait : BOOLEAN, cmd : Command \cup {NoCommand}, irq : BOOLEAN]
  BY DEF IInv, TypeOK, AcsiSet
<1>3. ~acsi.busy /\ ~fdc.wait
  BY <1>1, AcsiJobIs, FdcJobIs DEF IInv, BusInv, JobInv, Interrupted
<1>4. arm.pc = "poll" /\ (acsi.irq => acsi.count <= 4)
  BY <1>3, <1>1, OnePending DEF IInv, BusInv, Pending
<1>5. acsi' \in AcsiSet /\ ~acsi'.busy /\ (acsi'.irq => acsi'.count <= 4)
  BY <1>1, <1>2, <1>3, <1>4 DEF AcsiSet
<1>6. /\ fdc' \in [wait : BOOLEAN, cmd : Command \cup {NoCommand}, irq : BOOLEAN]
      /\ ~fdc'.wait
  BY <1>1, <1>2, <1>3
<1>7. QED
  BY <1>1, <1>4, <1>5, <1>6, EndStep

(* The driver gives up a command that nobody answers. *)
LEMMA UnansweredStep ==
    ASSUME IInv, Disks', CommandUnanswered
    PROVE  IInv'
<1>1. /\ DriverOnly /\ acsi' = acsi /\ status' = status
      /\ fdc' = IF drv.job.dev = "fdc"
                THEN [wait |-> FALSE, cmd |-> NoCommand, irq |-> FALSE] ELSE fdc
      /\ drv' = [pc |-> "idle", job |-> NoJob, seen |-> FALSE]
      /\ dma' = [left |-> 0, at |-> 0] /\ ram' = FreshRam
      /\ \/ drv.pc = "bytes"
         \/ drv.pc = "wait" /\ arm.pc = "poll"
            /\ (drv.job.dev = "acsi" => ~acsi.busy)
  BY DEF CommandUnanswered, GivesUp
<1>2. /\ acsi \in AcsiSet /\ status \in {0, 2}
      /\ fdc \in [wait : BOOLEAN, cmd : Command \cup {NoCommand}, irq : BOOLEAN]
  BY DEF IInv, TypeOK, AcsiSet
<1>3. ~acsi.busy /\ arm.pc = "poll" /\ (drv.job.dev # "fdc" => ~fdc.wait)
  BY <1>1, AcsiJobIs, FdcJobIs, OnePending DEF IInv, BusInv, JobInv
<1>4. acsi.irq => acsi.count <= 4
  BY DEF IInv, BusInv
<1>5. /\ fdc' \in [wait : BOOLEAN, cmd : Command \cup {NoCommand}, irq : BOOLEAN]
      /\ ~fdc'.wait
  BY <1>1, <1>2, <1>3
<1>6. QED
  BY <1>1, <1>2, <1>3, <1>4, <1>5, EndStep

(* A byte that acsi.v stores. *)
LEMMA StoreIs ==
    ASSUME NEW j \in AcsiJobs, NEW p \in Parm, NEW n \in 0 .. 4, Given(n, p, j)
    PROVE  /\ Store(p, n, j) \in Parm
           /\ n < parms(j.op) => Given(n + 1, Store(p, n, j), j)
           /\ n = parms(j.op) => Store(p, n, j) = ParmOf(j)
<1> DEFINE q == Store(p, n, j)
<1>1. /\ j.op \in Ops /\ j.lun \in Luns /\ j.lba \in Lbas \cup {0}
      /\ j.len \in Lens \cup {1}
  BY DEF AcsiJobs
<1>2. parms(j.op) \in {3, 4}
  BY DEF parms
<1>3. CASE n = 0
  <2>1. q = [p EXCEPT !.op = j.op]
    BY <1>3 DEF Store
  <2>2. q \in Parm /\ q.op = j.op
    BY <1>1, <2>1 DEF Parm
  <2> HIDE DEF q
  <2>3. QED
    BY <1>2, <1>3, <2>2 DEF Given, q
<1>4. CASE n = 1
  <2>1. q = [p EXCEPT !.lun = j.lun] /\ p.op = j.op
    BY <1>4 DEF Store, Given
  <2>2. q \in Parm /\ q.op = j.op /\ q.lun = j.lun
    BY <1>1, <2>1 DEF Parm
  <2> HIDE DEF q
  <2>3. QED
    BY <1>2, <1>4, <2>2 DEF Given, q
<1>5. CASE n = 2
  <2>1. q = [p EXCEPT !.lba = j.lba] /\ p.op = j.op /\ p.lun = j.lun
    BY <1>5 DEF Store, Given
  <2>2. q \in Parm /\ q.op = j.op /\ q.lun = j.lun /\ q.lba = j.lba
    BY <1>1, <2>1 DEF Parm
  <2> HIDE DEF q
  <2>3. QED
    BY <1>2, <1>5, <2>2 DEF Given, q
<1>6. CASE n = 3
  <2>1. /\ q = [p EXCEPT !.len = j.len]
        /\ p.op = j.op /\ p.lun = j.lun /\ p.lba = j.lba
    BY <1>6 DEF Store, Given
  <2>2. q \in Parm /\ q = ParmOf(j)
    BY <1>1, <2>1 DEF Parm, ParmOf
  <2>3. q.op = j.op /\ q.lun = j.lun /\ q.lba = j.lba /\ q.len = j.len
    BY <2>2 DEF ParmOf
  <2> HIDE DEF q
  <2>4. QED
    BY <1>2, <1>6, <2>2, <2>3 DEF Given, q
<1>7. CASE n = 4
  <2>1. /\ q = p /\ p.op = j.op /\ p.lun = j.lun /\ p.lba = j.lba /\ p.len = j.len
    BY <1>7 DEF Store, Given
  <2>2. q = ParmOf(j)
    BY <2>1 DEF Parm, ParmOf
  <2> HIDE DEF q
  <2>3. QED
    BY <1>2, <1>7, <2>1, <2>2 DEF q
<1>8. QED
  BY <1>3, <1>4, <1>5, <1>6, <1>7

(* A further byte: the last one leaves acsi.v with the whole command. *)
LEMMA NextByteStep ==
    ASSUME IInv, Disks', NextByte
    PROVE  IInv'
<1> DEFINE n == acsi.count
           j == drv.job
           last == LastByte(n, acsi.parm)
           q == Store(acsi.parm, n, j)
           a == [acsi EXCEPT !.parm = Store(@, n, drv.job), !.count = n + 1,
                             !.irq = ~last, !.busy = @ \/ last]
<1>1. /\ drv.pc = "bytes" /\ acsi.irq /\ acsi' = Heard(a)
      /\ drv' = [drv EXCEPT
                   !.pc = IF n = parms(drv.job.op) THEN "wait" ELSE "bytes"]
      /\ UNCHANGED <<status, fdc, dma, ram>> /\ DriverOnly
  BY DEF NextByte
<1>2. /\ arm.pc = "poll" /\ j \in AcsiJobs /\ acsi.busy = FALSE /\ ~fdc.wait
      /\ acsi.target = j.target /\ Given(n, acsi.parm, j) /\ n <= 4
  BY <1>1, OnePending DEF IInv, BusInv, JobInv, TypeOK
<1>3. acsi \in AcsiSet /\ acsi.parm \in Parm /\ n \in 0 .. 4 /\ acsi.target \in Targets
  BY <1>2 DEF IInv, TypeOK, AcsiSet
<1>4. parms(j.op) \in {3, 4} /\ parms(acsi.parm.op) \in {3, 4}
  BY DEF parms
<1>5. last \in BOOLEAN /\ (last <=> n = parms(j.op)) /\ n <= parms(j.op)
  <2>1. n <= parms(j.op) /\ (n >= 1 => acsi.parm.op = j.op)
    BY <1>2 DEF Given
  <2>2. QED
    BY <1>3, <1>4, <2>1 DEF LastByte
<1>6. /\ q \in Parm
      /\ ~last => Given(n + 1, q, j)
      /\ last => q = ParmOf(j)
  BY <1>2, <1>3, <1>4, <1>5, StoreIs
<1>7. a = [target |-> j.target, count |-> n + 1, parm |-> q, busy |-> last,
           irq |-> ~last]
  <2>1. CASE last = TRUE
    <3>1. a = [acsi EXCEPT !.parm = q, !.count = n + 1, !.irq = FALSE, !.busy = TRUE]
      BY <1>3, <2>1 DEF AcsiSet
    <3> HIDE DEF a, q, last
    <3>2. QED
      BY <1>2, <1>3, <2>1, <3>1 DEF AcsiSet
  <2>2. CASE last = FALSE
    <3>1. a = [acsi EXCEPT !.parm = q, !.count = n + 1, !.irq = TRUE, !.busy = FALSE]
      BY <1>2, <1>3, <2>2 DEF AcsiSet
    <3> HIDE DEF a, q, last
    <3>2. QED
      BY <1>2, <1>3, <2>2, <3>1 DEF AcsiSet
  <2>3. QED
    BY <1>5, <2>1, <2>2
<1> HIDE DEF last, q
<1>8. a \in AcsiSet
  <2>1. n + 1 \in 0 .. 5
    BY <1>3
  <2> HIDE DEF a, n
  <2>2. QED
    BY <1>2, <1>3, <1>5, <1>6, <1>7, <2>1 DEF AcsiSet
<1>9. /\ a.target = j.target /\ a.count = n + 1 /\ a.parm = q /\ a.busy = last
      /\ a.irq = ~last
  <2> HIDE DEF a
  <2>1. QED
    BY <1>7
<1> HIDE DEF a
<1>10. /\ acsi' \in AcsiSet
       /\ \/ acsi' = a
          \/ ~acsi'.irq /\ ~acsi'.busy
  BY <1>1, <1>2, <1>3, <1>8, HeardIs
<1>11. BusTypes'
  BY <1>1, <1>10, TypeParts DEF IInv, BusTypes, AcsiSet
<1>12. /\ drv' \in [pc : {"idle", "bytes", "wait"},
                    job : AcsiJobs \cup FdcJobs \cup {NoJob}, seen : BOOLEAN]
       /\ drv'.job = j /\ drv'.pc = IF last THEN "wait" ELSE "bytes"
  BY <1>1, <1>5 DEF IInv, JobInv
<1>13. JobInv'
  BY <1>1, <1>2, <1>12, DriverKeeps DEF JobInv
<1>14. BusInv'
  <2>1. CASE acsi' = a /\ last
    <3>1. /\ drv'.pc = "wait" /\ drv'.job \in AcsiJobs /\ ~fdc'.wait
          /\ acsi'.target = drv'.job.target /\ acsi'.parm = ParmOf(drv'.job)
          /\ ~acsi'.irq
      BY <1>1, <1>2, <1>6, <1>9, <1>12, <2>1
    <3>2. QED
      BY <3>1 DEF BusInv
  <2>2. CASE acsi' = a /\ ~last
    <3>1. /\ drv'.pc = "bytes" /\ ~fdc'.wait /\ ~acsi'.busy
          /\ acsi'.target = drv'.job.target
          /\ Given(acsi'.count, acsi'.parm, drv'.job)
      BY <1>1, <1>2, <1>6, <1>9, <1>12, <2>2
    <3>2. acsi'.count <= 4
      BY <1>3, <1>4, <1>5, <1>9, <2>2
    <3>3. QED
      BY <3>1, <3>2 DEF BusInv
  <2>3. CASE ~acsi'.irq /\ ~acsi'.busy
    <3>1. drv'.pc \in {"wait", "bytes"} /\ ~fdc'.wait
      BY <1>1, <1>2, <1>12
    <3>2. QED
      BY <2>3, <3>1 DEF BusInv
  <2>4. QED
    BY <1>10, <2>1, <2>2, <2>3
<1>15. RestInv'
  <2>1. ram = FreshRam /\ dma = [left |-> j.len, at |-> 0]
    BY <1>1, <1>2, DriverKeeps DEF IInv, RestInv, Pending
  <2>2. QED
    BY <1>1, <1>2, <1>12, <2>1, DriverKeeps DEF RestInv
<1>16. QED
  BY <1>1, <1>2, <1>11, <1>13, <1>14, <1>15, DriverKeeps, Collect

-----------------------------------------------------------------------------
(* The ARM.                                                                *)

ArmSet == [pc : {"poll", "acsi", "acsisectors", "fdc", "fdcsectors"},
           fdc : BOOLEAN, target : Targets, parm : Parm,
           cmd : Command \cup {NoCommand}, scnt : 0 .. 255, pos : Int, left : Nat]

(* What is known of a command while its sectors are not moved yet. *)
LEMMA Waiting ==
    ASSUME IInv, Pending, ~Moving
    PROVE  /\ card = before /\ why = asc /\ ram = FreshRam
           /\ dma = [left |-> drv.job.len, at |-> 0]
  BY DEF IInv, RestInv

(* The snapshot holds the command that is pending. *)
LEMMA DmaStateStep ==
    ASSUME IInv, Disks', mist_get_dmastate
    PROVE  IInv'
<1>1. /\ arm.pc = "poll" /\ (acsi.busy \/ fdc.wait)
      /\ drv' = [drv EXCEPT !.seen = fdc.wait]
      /\ UNCHANGED <<acsi, fdc, dma, status, ram, ctrl, armVars, asc, card,
                     before, why>>
  BY DEF mist_get_dmastate
<1>2. /\ acsi \in AcsiSet /\ dma.left \in 0 .. 255
      /\ fdc \in [wait : BOOLEAN, cmd : Command \cup {NoCommand}, irq : BOOLEAN]
  BY DEF IInv, TypeOK, AcsiSet
<1>3. /\ drv' \in [pc : {"idle", "bytes", "wait"},
                   job : AcsiJobs \cup FdcJobs \cup {NoJob}, seen : BOOLEAN]
      /\ drv'.pc = drv.pc /\ drv'.job = drv.job
  BY <1>1, <1>2 DEF IInv, JobInv
<1>4. ~Moving /\ card = before /\ ram = FreshRam
      /\ dma = [left |-> drv.job.len, at |-> 0]
  BY <1>1, Waiting DEF Moving, Pending
<1>5. /\ arm' \in ArmSet /\ arm'.pc \in {"acsi", "fdc"}
      /\ ArmInv'
  <2>1. CASE acsi.busy
    <3>1. ~fdc.wait
      BY <2>1, OnePending
    <3>2. arm' = [pc |-> "acsi", fdc |-> FALSE, target |-> acsi.target,
                  parm |-> acsi.parm, cmd |-> NoCommand, scnt |-> 0,
                  pos |-> 0, left |-> 0]
      BY <1>2, <2>1, <3>1 DEF mist_get_dmastate, Idle
    <3>3. QED
      BY <1>1, <1>2, <2>1, <3>2 DEF ArmInv, ArmSet, AcsiSet
  <2>2. CASE fdc.wait
    <3>1. ~acsi.busy
      BY <2>2, OnePending
    <3>2. arm' = [pc |-> "fdc", fdc |-> TRUE, target |-> 0,
                  parm |-> AnyParm, cmd |-> fdc.cmd, scnt |-> dma.left,
                  pos |-> 0, left |-> 0]
      BY <1>2, <2>2, <3>1 DEF mist_get_dmastate, Idle
    <3>3. arm' \in ArmSet
      BY <1>2, <3>2, ParmIs, StDmaAssumption DEF ArmSet
    <3>4. QED
      BY <1>1, <1>3, <1>4, <2>2, <3>2, <3>3 DEF ArmInv
  <2>3. QED
    BY <1>1, <2>1, <2>2
<1>6. JobInv'
  BY <1>3, <1>5 DEF IInv, JobInv, ArmType, ArmSet
<1>7. BusTypes' /\ DataTypes' /\ FloppyInv'
  BY <1>1, TypeParts DEF IInv, BusTypes, DataTypes, FloppyInv, armVars
<1>8. BusInv'
  BY <1>1, <1>3 DEF IInv, BusInv, Pending
<1>9. RestInv'
  BY <1>1, <1>3, <1>4 DEF IInv, RestInv
<1>10. AcsiLoop' /\ FdcLoop'
  BY <1>5 DEF AcsiLoop, FdcLoop
<1>11. QED
  BY <1>5, <1>6, <1>7, <1>8, <1>9, <1>10, Collect

(* The ARM has served what was pending and is idle again. *)
LEMMA ServedStep ==
    ASSUME IInv, Disks', UNCHANGED <<fdd_image, drv>>, drv.pc = "wait",
           arm' = Idle, acsi' \in AcsiSet, ~acsi'.busy,
           acsi'.irq => acsi'.count <= 4,
           fdc' \in [wait : BOOLEAN, cmd : Command \cup {NoCommand}, irq : BOOLEAN],
           ~fdc'.wait, dma' \in [left : 0 .. 255, at : 0 .. MaxLen],
           status' \in {0, 2}, DataTypes', card' = before', why' = asc'
    PROVE  IInv'
<1>1. arm'.pc = "poll" /\ ArmType'
  BY IdleIs DEF ArmType
<1>2. JobInv' /\ FloppyInv'
  BY <1>1 DEF IInv, JobInv, FloppyInv
<1>3. BusTypes'
  BY DEF BusTypes, AcsiSet
<1>4. BusInv' /\ RestInv'
  BY DEF BusInv, RestInv, Pending
<1>5. QED
  BY <1>1, <1>2, <1>3, <1>4, IdleArm, Collect

(* acsi.v waits for the ARM, which serves the command it was given. *)
LEMMA AcsiServed ==
    ASSUME IInv, arm.pc \in {"acsi", "acsisectors"}
    PROVE  /\ drv.pc = "wait" /\ drv.job \in AcsiJobs /\ acsi.busy
           /\ acsi \in AcsiSet /\ acsi.irq = FALSE /\ fdc.wait = FALSE
           /\ fdc \in [wait : BOOLEAN, cmd : Command \cup {NoCommand},
                       irq : BOOLEAN]
           /\ arm.target = drv.job.target /\ arm.parm = ParmOf(drv.job)
           /\ acsi.target = drv.job.target
           /\ arm.fdc = FALSE /\ AfterAcsi = Idle
<1>1. /\ acsi \in AcsiSet
      /\ fdc \in [wait : BOOLEAN, cmd : Command \cup {NoCommand}, irq : BOOLEAN]
      /\ arm.fdc \in BOOLEAN
  BY DEF IInv, TypeOK, AcsiSet, JobInv, ArmType
<1>2. QED
  BY <1>1, OnePending DEF IInv, BusInv, ArmInv, AfterAcsi, AcsiSet

(* handle_acsi() of a target without a disk ends without an answer. *)
LEMMA UnsupportedStep ==
    ASSUME IInv, Disks', arm.pc = "acsi", Unsupported, arm' = AfterAcsi,
           UNCHANGED <<ctrl, armVars, drv>>
    PROVE  IInv' /\ ~acsi'.irq /\ ~fdc.wait
<1>1. /\ acsi' = [Quiet EXCEPT !.target = acsi.target, !.irq = acsi.irq]
      /\ UNCHANGED <<status, fdc, dma, ram, asc, card, before, why>>
  BY DEF Unsupported, dma_nak
<1>2. acsi' \in AcsiSet /\ ~acsi'.busy /\ ~acsi'.irq
  BY <1>1, AcsiServed, QuietIs DEF AcsiSet
<1>3. card = before /\ why = asc
  BY AcsiServed, Waiting DEF Moving, Pending
<1>4. DataTypes'
  BY <1>1, TypeParts DEF IInv, DataTypes
<1>5. /\ status' \in {0, 2} /\ dma' \in [left : 0 .. 255, at : 0 .. MaxLen]
  BY <1>1 DEF IInv, TypeOK
<1>6. UNCHANGED fdd_image
  BY DEF armVars
<1>7. QED
  BY <1>1, <1>2, <1>3, <1>4, <1>5, <1>6, AcsiServed, ServedStep

(* The acknowledgement of an ACSI command, for the reason that the driver  *)
(* expects.                                                                *)
LEMMA AckStep ==
    ASSUME IInv, Disks', arm.pc \in {"acsi", "acsisectors"},
           NEW st \in {0, 2}, dma_ack(st), Answered(Reason(drv.job)),
           arm' = AfterAcsi, UNCHANGED <<ctrl, armVars, drv>>,
           dma' \in [left : 0 .. 255, at : 0 .. MaxLen],
           DOMAIN ram' = 0 .. MaxLen - 1,
           \A i \in DOMAIN ram' :
               ram'[i] \in Content \/ ram'[i] \in Info \X Nat \X Nat,
           card' \in [CardSectors -> Content]
    PROVE  IInv' /\ ~fdc.wait
<1> DEFINE r == Reason(drv.job)
<1>1. r \in Reasons
  BY DEF Reason, Reasons
<1>2. /\ status' = st /\ acsi' = AckAcsi(acsi) /\ fdc' = AckFdc(fdc)
      /\ asc' = [asc EXCEPT ![arm.target] = r] /\ before' = card'
      /\ why' = IF drv.job.dev = "acsi" THEN [why EXCEPT ![drv.job.target] = r]
                ELSE why
  BY DEF dma_ack, Answered
<1> HIDE DEF r
<1>3. fdc' = fdc /\ ~fdc.wait
  BY <1>2, AcsiServed DEF AckFdc
<1>4. acsi' \in AcsiSet /\ ~acsi'.busy /\ acsi'.count = 0
  <2>1. acsi' = [Quiet EXCEPT !.target = acsi.target, !.irq = TRUE]
    BY <1>2, AcsiServed DEF AckAcsi
  <2>2. Quiet \in AcsiSet /\ ~Quiet.busy /\ Quiet.count = 0
    BY QuietIs DEF AcsiSet
  <2>3. acsi.target \in Targets
    BY AcsiServed DEF AcsiSet
  <2> HIDE DEF r
  <2>4. acsi' \in AcsiSet
    BY <2>1, <2>2, <2>3 DEF AcsiSet
  <2>5. acsi'.busy = Quiet.busy /\ acsi'.count = Quiet.count
    BY <2>1, <2>2 DEF AcsiSet
  <2>6. QED
    BY <2>2, <2>4, <2>5
<1>5. why' = asc' /\ asc' \in [Targets -> Reasons]
  <2>1. asc \in [Targets -> Reasons] /\ why = asc
    BY DEF IInv, TypeOK, RestInv
  <2>2. drv.job.dev = "acsi" /\ drv.job.target = arm.target
    BY AcsiServed, AcsiJobIs
  <2>3. QED
    BY <1>1, <1>2, <2>1, <2>2
<1>6. DataTypes'
  BY <1>2, <1>5 DEF DataTypes
<1>7. UNCHANGED fdd_image
  BY DEF armVars
<1>8. /\ UNCHANGED drv /\ drv.pc = "wait" /\ arm' = Idle /\ status' \in {0, 2}
      /\ acsi'.irq => acsi'.count <= 4
      /\ ~fdc'.wait /\ card' = before'
  <2>1. UNCHANGED drv /\ drv.pc = "wait" /\ arm' = Idle
    BY AcsiServed
  <2>2. status' \in {0, 2} /\ card' = before' /\ ~fdc'.wait
    BY <1>2, <1>3
  <2>3. acsi'.irq => acsi'.count <= 4
    BY <1>4
  <2>4. QED
    BY <2>1, <2>2, <2>3
<1>9. fdc' \in [wait : BOOLEAN, cmd : Command \cup {NoCommand}, irq : BOOLEAN]
  BY <1>3, AcsiServed
<1>10. QED
  BY <1>9, <1>3, <1>4, <1>5, <1>6, <1>7, <1>8, ServedStep

(* What handle_acsi() reads of the command in its snapshot. *)
LEMMA ParmRead ==
    ASSUME IInv, arm.pc \in {"acsi", "acsisectors"}
    PROVE  LET p == arm.parm
               j == drv.job
           IN  /\ p.op = j.op /\ p.lun = j.lun /\ p.lba = j.lba /\ p.len = j.len
               /\ length(p) = Asked(j)
<1>1. arm.parm = ParmOf(drv.job)
  BY AcsiServed
<1>2. /\ arm.parm.op = drv.job.op /\ arm.parm.lun = drv.job.lun
      /\ arm.parm.lba = drv.job.lba /\ arm.parm.len = drv.job.len
  BY <1>1 DEF ParmOf
<1>3. length(arm.parm) = Asked(drv.job)
  BY <1>2 DEF length, Asked
<1>4. QED
  BY <1>2, <1>3

(* The sum lba + length is right when it does not leave 32 bits. *)
LEMMA RangeIs ==
    ASSUME NoWrap, IInv, arm.pc = "acsi", Supported(arm.target), Moves(drv.job)
    PROVE  InRange(arm.parm, blocks(arm.target)) <=>
             drv.job.lba + Asked(drv.job) <= Len(Behind(drv.job.target))
<1> DEFINE j == drv.job
           sum == j.lba + Asked(j)
<1>1. j \in AcsiJobs /\ arm.target = j.target /\ j.target \in Targets
  BY AcsiServed, AcsiJobIs
<1>2. sum \in Nat /\ sum < LbaMod /\ LbaMod \in Nat \ {0}
  BY <1>1, AcsiJobIs, StDmaAssumption DEF NoWrap
<1>3. arm.parm.lba + length(arm.parm) = sum
  BY ParmRead
<1> HIDE DEF sum
<1>4. sum % LbaMod = sum
  BY <1>2
<1>5. blocks(arm.target) = Len(Behind(j.target))
  BY <1>1, BehindIs DEF IInv
<1>6. QED
  BY <1>3, <1>4, <1>5 DEF InRange, sum

(* Every answer of handle_acsi() that moves no sectors is the right one. *)
LEMMA RespondStep ==
    ASSUME NoWrap, IInv, Disks', arm.pc = "acsi", Supported(arm.target),
           Respond(arm.target, arm.parm), arm' = AfterAcsi,
           UNCHANGED <<ctrl, armVars, drv>>
    PROVE  IInv' /\ ~fdc.wait /\ AcsiRight(drv.job)
<1> DEFINE j == drv.job
           t == arm.target
           p == arm.parm
<1>1. /\ p.op = j.op /\ p.lun = j.lun /\ t = j.target /\ j \in AcsiJobs
      /\ t \in Targets
  BY AcsiServed, AcsiJobIs, ParmRead
<1>2. /\ card = before /\ why = asc /\ ram = FreshRam
      /\ dma = [left |-> j.len, at |-> 0]
  BY AcsiServed, Waiting DEF Moving, Pending
<1>3. /\ DOMAIN FreshRam = 0 .. MaxLen - 1
      /\ \A i \in DOMAIN FreshRam : FreshRam[i] \in Content
      /\ 0 \in 0 .. MaxLen - 1
  BY DataIs, MaxLenIs
<1>4. /\ card \in [CardSectors -> Content] /\ asc \in [Targets -> Reasons]
      /\ dma \in [left : 0 .. 255, at : 0 .. MaxLen]
  BY DEF IInv, TypeOK
<1>5. ASSUME NEW r, Refuse(r), r = Reason(j), r # 0
      PROVE  IInv' /\ ~fdc.wait /\ AcsiRight(j)
  <2>1. /\ dma_ack(2) /\ UNCHANGED <<dma, ram, card>> /\ Answered(Reason(j))
        /\ status' = 2
    BY <1>5 DEF Refuse, dma_ack
  <2>2. IInv' /\ ~fdc.wait
    <3>1. /\ DOMAIN ram' = 0 .. MaxLen - 1
          /\ \A i \in DOMAIN ram' : ram'[i] \in Content
      BY <1>2, <1>3, <2>1
    <3>2. QED
      BY <1>4, <2>1, <3>1, AckStep
  <2>3. AcsiRight(j)
    BY <1>2, <1>5, <2>1 DEF AcsiRight
  <2>4. QED
    BY <2>2, <2>3
<1>6. ASSUME NEW info \in Info \X Nat \X Nat, Tell(info), Reason(j) = 0,
             ~Moves(j),
             j.op = "sense" =>
                 info = <<"sense", IF j.lun # 0 THEN 37 ELSE why[j.target], 0>>
      PROVE  IInv' /\ ~fdc.wait /\ AcsiRight(j)
  <2>1. /\ ram' = [FreshRam EXCEPT ![0] = info] /\ dma' = dma /\ card' = card
        /\ dma_ack(0) /\ Answered(Reason(j)) /\ status' = 0
    <3>1. dma.left = 1 /\ dma.at = 0
      BY <1>1, <1>2, <1>6, AcsiJobIs
    <3>2. QED
      BY <1>2, <1>6, <3>1 DEF Tell, mist_memory_write, dma_ack
  <2>2. /\ DOMAIN ram' = 0 .. MaxLen - 1
        /\ \A i \in DOMAIN ram' :
               ram'[i] \in Content \/ ram'[i] \in Info \X Nat \X Nat
        /\ ram'[0] = info
    BY <1>3, <2>1
  <2>3. IInv' /\ ~fdc.wait
    BY <1>4, <2>1, <2>2, AckStep
  <2>4. AcsiRight(j)
    BY <1>2, <1>6, <2>1, <2>2 DEF AcsiRight, Moves
  <2>5. QED
    BY <2>3, <2>4
<1>7. CASE RequestSense(t, p)
  <2> DEFINE info == <<"sense", IF p.lun # 0 THEN 37 ELSE asc[t], 0>>
  <2>1. j.op = "sense" /\ Tell(info)
    BY <1>1, <1>7 DEF RequestSense
  <2>2. info \in Info \X Nat \X Nat
    BY <1>1, <1>4 DEF Info, Reasons
  <2>3. info = <<"sense", IF j.lun # 0 THEN 37 ELSE why[j.target], 0>>
    BY <1>1, <1>2
  <2>4. Reason(j) = 0 /\ ~Moves(j)
    BY <2>1 DEF Reason, Moves, Reads, Writes
  <2> HIDE DEF info
  <2>5. QED
    BY <1>6, <2>1, <2>2, <2>3, <2>4
<1>8. CASE Ready(t, p)
  <2>1. /\ j.op = "ready" /\ j.lun = 0 /\ dma_ack(0)
        /\ UNCHANGED <<dma, ram, card>> /\ Answered(0) /\ status' = 0
    BY <1>1, <1>8 DEF Ready, dma_ack
  <2>2. Reason(j) = 0
    BY <2>1 DEF Reason, Moves, Reads, Writes
  <2>3. IInv' /\ ~fdc.wait
    <3>1. /\ DOMAIN ram' = 0 .. MaxLen - 1
          /\ \A i \in DOMAIN ram' : ram'[i] \in Content
      BY <1>2, <1>3, <2>1
    <3>2. QED
      BY <1>4, <2>1, <2>2, <3>1, AckStep
  <2>4. AcsiRight(j)
    BY <1>2, <2>1, <2>2 DEF AcsiRight, Reads, Writes
  <2>5. QED
    BY <2>3, <2>4
<1>9. CASE Inquiry(t, p)
  <2> DEFINE info == <<"inquiry", IF p.lun # 0 THEN 127 ELSE 0, 0>>
  <2>1. j.op = "inquiry" /\ Tell(info)
    BY <1>1, <1>9 DEF Inquiry
  <2>2. info \in Info \X Nat \X Nat
    BY DEF Info
  <2>3. Reason(j) = 0 /\ ~Moves(j)
    BY <2>1 DEF Reason, Moves, Reads, Writes
  <2> HIDE DEF info
  <2>4. QED
    BY <1>6, <2>1, <2>2, <2>3
<1>10. CASE Describe(t, p)
  <2> DEFINE last == (blocks(t) + LbaMod - 1) % LbaMod
             info == <<p.op, IF p.op = "capacity" THEN last ELSE blocks(t), 0>>
  <2>1. j.op \in {"capacity", "modesense"} /\ j.lun = 0 /\ Tell(info)
    BY <1>1, <1>10 DEF Describe
  <2>2. blocks(t) \in Nat
    BY <1>1, BehindIs DEF IInv, OnCard
  <2>3. last \in Nat
    BY <2>2, StDmaAssumption
  <2>4. info \in Info \X Nat \X Nat
    <3> HIDE DEF last
    <3>1. QED
      BY <1>1, <2>1, <2>2, <2>3 DEF Info
  <2>5. Reason(j) = 0 /\ ~Moves(j)
    BY <2>1 DEF Reason, Moves, Reads, Writes
  <2> HIDE DEF info
  <2>6. QED
    BY <1>6, <2>1, <2>4, <2>5
<1>11. CASE WrongLun(t, p)
  <2>1. Refuse(37) /\ Reason(j) = 37
    BY <1>1, <1>11 DEF WrongLun, Reason, Reads, Writes
  <2>2. QED
    BY <1>5, <2>1
<1>12. CASE Exceeds(t, p)
  <2>1. /\ Refuse(33) /\ j.lun = 0 /\ j.op \in Reads \cup Writes
        /\ ~InRange(p, blocks(t))
    BY <1>1, <1>12 DEF Exceeds
  <2>2. ~(j.lba + Asked(j) <= Len(Behind(j.target)))
    BY <2>1, RangeIs DEF Moves
  <2>3. j.lba + Asked(j) > Len(Behind(j.target))
    <3>1. j.lba + Asked(j) \in Nat /\ Len(Behind(j.target)) \in Nat
      <4>1. j.lba \in Nat /\ Asked(j) \in 0 .. 256
        BY <1>1, AcsiJobIs
      <4>2. Len(Behind(j.target)) \in Nat
        BY <1>1, BehindIs DEF IInv, OnCard
      <4>3. Asked(j) \in Nat
        BY <4>1
      <4>4. j.lba + Asked(j) \in Nat
        BY <4>1, <4>3
      <4>5. QED
        BY <4>2, <4>4
    <3>2. QED
      BY <2>2, <3>1
  <2>4. Reason(j) = 33
    BY <2>1, <2>3 DEF Reason, Moves, Reads, Writes
  <2>5. QED
    BY <1>5, <2>1, <2>4
<1>13. CASE UnknownOp(t, p)
  <2>1. Refuse(32) /\ Reason(j) = 32
    BY <1>1, <1>13 DEF UnknownOp, Reason
  <2>2. QED
    BY <1>5, <2>1
<1>14. QED
  BY <1>7, <1>8, <1>9, <1>10, <1>11, <1>12, <1>13 DEF Respond

(* handle_acsi() as a whole, up to its loops. *)
LEMMA HandleAcsiStep ==
    ASSUME NoWrap, IInv, Disks', handle_acsi
    PROVE  IInv' /\ ~fdc.wait /\ (acsi'.irq => AcsiRight(drv.job))
<1>1. arm.pc = "acsi" /\ arm' = AfterAcsi /\ UNCHANGED <<ctrl, armVars, drv>>
  BY DEF handle_acsi
<1>2. CASE Unsupported
  BY <1>1, <1>2, UnsupportedStep
<1>3. CASE Supported(arm.target) /\ Respond(arm.target, arm.parm)
  BY <1>1, <1>3, RespondStep
<1>4. QED
  BY <1>2, <1>3 DEF handle_acsi

(* A step of a loop, or into one: what it may change and what it keeps.    *)
LEMMA LoopStep ==
    ASSUME IInv, Disks',
           UNCHANGED <<acsi, fdc, status, fdd_image, asc, drv, before, why>>,
           arm' \in ArmSet, arm'.target = arm.target, arm'.parm = arm.parm,
           arm'.cmd = arm.cmd, arm'.fdc = arm.fdc,
           \/ arm.pc \in {"acsi", "acsisectors"} /\ arm'.pc = "acsisectors"
           \/ arm.pc \in {"fdc", "fdcsectors"} /\ arm'.pc = "fdcsectors",
           dma' \in [left : 0 .. 255, at : 0 .. MaxLen],
           DOMAIN ram' = 0 .. MaxLen - 1,
           \A i \in DOMAIN ram' :
               ram'[i] \in Content \/ ram'[i] \in Info \X Nat \X Nat,
           card' \in [CardSectors -> Content],
           AcsiLoop', FdcLoop'
    PROVE  IInv'
<1>1. JobInv' /\ FloppyInv'
  <2>1. drv.pc = "wait" /\ JobInv
    BY OnePending DEF IInv
  <2>2. QED
    BY <2>1 DEF IInv, JobInv, ArmType, ArmSet, FloppyInv
<1>2. BusTypes' /\ DataTypes'
  BY TypeParts DEF IInv, BusTypes, DataTypes
<1>3. BusInv'
  BY DEF IInv, BusInv, Pending
<1>4. ArmInv'
  BY DEF IInv, ArmInv
<1>5. RestInv'
  BY DEF IInv, RestInv, Moving
<1>6. QED
  BY <1>1, <1>2, <1>3, <1>4, <1>5, Collect

(* What PartIn() and PartOut() speak of, besides ram, dma and card.        *)
LEMMA SameDisks ==
    ASSUME UNCHANGED <<armVars, before>>
    PROVE  /\ \A t : Behind(t)' = Behind(t) /\ (Supported(t)' <=> Supported(t))
           /\ \A n, D, l : /\ Brought(n, D, l)' = Brought(n, D, l)
                           /\ Taken(n, D, l)' = Taken(n, D, l)
<1>1. UNCHANGED <<hdd_image, hdd_direct, fdd_image, before>>
  BY DEF armVars
<1>2. QED
  BY <1>1 DEF Behind, Supported, direct, Brought, Taken

(* The loops of READ and WRITE start with nothing moved. *)
LEMMA StartSectorsStep ==
    ASSUME NoWrap, IInv, Disks', StartSectors
    PROVE  IInv'
<1> DEFINE j == drv.job
           p == arm.parm
           D == Behind(j.target)
<1>1. /\ arm.pc = "acsi" /\ Supported(arm.target)
      /\ p.op \in Reads \cup Writes /\ p.lun = 0
      /\ InRange(p, blocks(arm.target))
      /\ arm' = [arm EXCEPT !.pc = "acsisectors", !.pos = p.lba, !.left = length(p)]
      /\ UNCHANGED <<acsi, fdc, dma, status, ram, ctrl, armVars, asc, card,
                     drv, before, why>>
  BY DEF StartSectors
<1>2. /\ j \in AcsiJobs /\ arm.target = j.target /\ j.target \in Targets
      /\ j.lba \in Nat /\ Asked(j) \in Nat /\ acsi.busy /\ j.len \in Nat
  BY <1>1, AcsiServed, AcsiJobIs
<1>3. p.op = j.op /\ p.lun = j.lun /\ p.lba = j.lba /\ length(p) = Asked(j)
  BY <1>1, ParmRead
<1>4. Moves(j) /\ j.lba + Asked(j) <= Len(D)
  BY <1>1, <1>3, RangeIs DEF Moves
<1>5. arm \in ArmSet
  BY DEF IInv, JobInv, ArmType, ArmSet
<1>6. /\ arm' \in ArmSet /\ arm'.pc = "acsisectors" /\ arm'.pos = j.lba
      /\ arm'.left = Asked(j) /\ arm'.target = arm.target /\ arm'.parm = p
      /\ arm'.cmd = arm.cmd /\ arm'.fdc = arm.fdc
  <2>1. arm' = [arm EXCEPT !.pc = "acsisectors", !.pos = j.lba, !.left = Asked(j)]
    BY <1>1, <1>3
  <2>2. j.lba \in Int
    BY <1>2
  <2> HIDE DEF j
  <2>3. QED
    BY <1>2, <1>5, <2>1, <2>2 DEF ArmSet
<1>7. /\ card = before /\ ram = FreshRam /\ dma = [left |-> j.len, at |-> 0]
  BY <1>1, <1>2, Waiting DEF Moving, Pending
<1>8. AcsiMoved' = 0
  BY <1>1, <1>2, <1>6 DEF AcsiMoved
<1>9. Brought(0, D, j.lba) = FreshRam /\ Taken(0, D, j.lba) = before
  BY <1>2, NothingMoved DEF IInv
<1>10. AcsiLoop'
  <2>1. /\ drv' = drv /\ Behind(j.target)' = D
        /\ Supported(j.target)' /\ Moves(j) /\ j.lun = 0
        /\ arm'.left \in 0 .. Asked(j)
        /\ arm'.pos = j.lba + Asked(j) - arm'.left
    BY <1>1, <1>2, <1>3, <1>4, <1>6, SameDisks
  <2>2. PartIn(0, D, j.lba)' /\ PartOut(0, D, j.lba)' /\ card' = Taken(0, D, j.lba)'
    <3>1. dma' = [left |-> j.len - 0, at |-> 0]
      BY <1>1, <1>2, <1>7
    <3>2. /\ Brought(0, D, j.lba)' = FreshRam /\ Taken(0, D, j.lba)' = before
      BY <1>1, <1>9, SameDisks, <2>1
    <3>3. QED
      BY <1>1, <1>7, <3>1, <3>2 DEF PartIn, PartOut
  <2>3. QED
    BY <1>4, <1>8, <2>1, <2>2 DEF AcsiLoop
<1>11. FdcLoop'
  BY <1>6 DEF FdcLoop
<1>12. /\ DOMAIN ram' = 0 .. MaxLen - 1
       /\ \A i \in DOMAIN ram' :
               ram'[i] \in Content \/ ram'[i] \in Info \X Nat \X Nat
       /\ card' \in [CardSectors -> Content]
       /\ dma' \in [left : 0 .. 255, at : 0 .. MaxLen]
       /\ UNCHANGED fdd_image
  BY <1>1 DEF IInv, TypeOK, armVars
<1>13. QED
  BY <1>1, <1>6, <1>10, <1>11, <1>12, LoopStep

(* One round of the loops of READ and WRITE. *)
LEMMA AcsiSectorStep ==
    ASSUME IInv, Disks', AcsiSector
    PROVE  IInv'
<1> DEFINE j == drv.job
           D == Behind(j.target)
           s == Sector(arm.target, arm.pos)
           n == AcsiMoved
<1>1. /\ arm.pc = "acsisectors" /\ arm.left > 0
      /\ arm' = [arm EXCEPT !.pos = @ + 1, !.left = @ - 1]
      /\ UNCHANGED <<acsi, fdc, status, ctrl, armVars, asc, drv, before, why>>
  BY DEF AcsiSector
<1>2. /\ j \in AcsiJobs /\ arm.target = j.target /\ j.target \in Targets
      /\ j.lba \in Nat /\ Asked(j) \in 0 .. 256 /\ acsi.busy
      /\ j.len \in 0 .. MaxLen /\ (j.len # 0 => Asked(j) = j.len)
      /\ MaxLen \in 1 .. 255
  BY <1>1, AcsiServed, AcsiJobIs, MaxLenIs
<1>3. /\ Moves(j) /\ j.lun = 0 /\ Supported(j.target) /\ Len(D) \in Nat
      /\ j.lba + Asked(j) <= Len(D) /\ OnCard(D)
      /\ arm.left \in 1 .. Asked(j) /\ arm.pos = j.lba + Asked(j) - arm.left
      /\ j.op \in Reads => PartIn(n, D, j.lba)
      /\ j.op \in Writes =>
           PartOut(n, D, j.lba) /\ (Asked(j) = j.len => card = Taken(n, D, j.lba))
  <2>1. AcsiLoop /\ TypeOK
    BY DEF IInv
  <2>2. OnCard(D) /\ Len(D) \in Nat
    BY <1>1, <1>2, <2>1, BehindIs DEF AcsiLoop, OnCard
  <2>3. arm.left \in 0 .. Asked(j) /\ arm.left > 0
    BY <1>1, <2>1 DEF AcsiLoop
  <2>4. QED
    BY <1>1, <2>1, <2>2, <2>3, <1>2 DEF AcsiLoop
<1> HIDE DEF j, D, s, n
<1>0. /\ arm.left \in Int /\ arm.left >= 1 /\ arm.left <= Asked(j)
      /\ arm.pos \in Int /\ arm.pos = j.lba + Asked(j) - arm.left
      /\ j.lba \in Int /\ j.lba >= 0 /\ Asked(j) \in Int /\ Asked(j) >= 0
      /\ Len(D) \in Int /\ j.lba + Asked(j) <= Len(D)
      /\ j.len \in Int /\ j.len >= 0 /\ j.len <= MaxLen
      /\ MaxLen \in Int /\ MaxLen >= 1 /\ MaxLen <= 255
  <2>1. /\ j.lba \in Int /\ j.lba >= 0 /\ Asked(j) \in Int /\ Asked(j) >= 0
        /\ j.len \in Int /\ j.len >= 0 /\ j.len <= MaxLen
        /\ MaxLen \in Int /\ MaxLen >= 1 /\ MaxLen <= 255
    BY <1>2
  <2>2. /\ arm.left \in Int /\ arm.left >= 1 /\ arm.left <= Asked(j)
        /\ arm.pos = j.lba + Asked(j) - arm.left
        /\ Len(D) \in Int /\ j.lba + Asked(j) <= Len(D)
    BY <2>1, <1>3
  <2>3. QED
    BY <2>1, <2>2
<1>4. /\ arm' \in ArmSet /\ arm'.pc = "acsisectors" /\ arm'.pos = arm.pos + 1
      /\ arm'.left = arm.left - 1 /\ arm'.target = arm.target
      /\ arm'.parm = arm.parm /\ arm'.cmd = arm.cmd /\ arm'.fdc = arm.fdc
  <2>1. arm \in ArmSet
    BY DEF IInv, JobInv, ArmType, ArmSet
  <2>2. arm.left - 1 \in Nat /\ arm.pos + 1 \in Int
    BY <1>0
  <2>3. QED
    BY <1>1, <2>1, <2>2 DEF ArmSet
<1>5. /\ s = D[arm.pos + 1] /\ s \in CardSectors
  <2>1. arm.pos \in 0 .. Len(D) - 1 /\ arm.pos + 1 \in 1 .. Len(D)
    BY <1>0
  <2>2. /\ Len(D) = blocks(j.target)
        /\ \A k \in 0 .. blocks(j.target) - 1 : Sector(j.target, k) = D[k + 1]
    BY <1>2, <1>3, BehindIs DEF IInv, D
  <2>3. s = D[arm.pos + 1]
    BY <1>2, <2>1, <2>2 DEF s
  <2>4. QED
    BY <1>3, <2>1, <2>3 DEF OnCard
<1>6. arm.parm.op = j.op
  BY <1>1, ParmRead DEF j
<1>7. \/ /\ j.op \in Reads /\ j.op \notin Writes /\ UNCHANGED card
         /\ mist_memory_write_block(card[s])
      \/ j.op \in Writes /\ j.op \notin Reads /\ mist_memory_read_block(s)
  BY <1>6 DEF AcsiSector, Reads, Writes, s
<1>8. /\ drv' = drv /\ j' = j /\ D' = D /\ before' = before
      /\ Supported(j.target)'
      /\ arm'.left \in 0 .. Asked(j)
      /\ arm'.pos = j.lba + Asked(j) - arm'.left
  <2>1. drv' = drv /\ before' = before
    BY <1>1
  <2>2. Behind(drv.job.target)' = Behind(drv.job.target) /\ Supported(drv.job.target)'
    BY <1>1, <1>3, SameDisks DEF j
  <2>3. /\ arm'.left \in 0 .. Asked(j)
        /\ arm'.pos = j.lba + Asked(j) - arm'.left
    BY <1>0, <1>4
  <2>4. QED
    BY <2>1, <2>2, <2>3 DEF j, D
<1>9. /\ Brought(n, D, j.lba)' = Brought(n', D, j.lba)
      /\ Taken(n, D, j.lba)' = Taken(n', D, j.lba)
  BY <1>8 DEF Brought, Taken
<1>10. /\ DOMAIN ram = 0 .. MaxLen - 1
       /\ \A i \in DOMAIN ram :
               ram[i] \in Content \/ ram[i] \in Info \X Nat \X Nat
       /\ card \in [CardSectors -> Content]
       /\ dma \in [left : 0 .. 255, at : 0 .. MaxLen]
       /\ UNCHANGED fdd_image
  BY <1>1 DEF IInv, TypeOK, armVars
<1>11. FdcLoop'
  BY <1>4 DEF FdcLoop
<1> DEFINE Typed == /\ DOMAIN ram' = 0 .. MaxLen - 1
                    /\ \A i \in DOMAIN ram' :
                           ram'[i] \in Content \/ ram'[i] \in Info \X Nat \X Nat
                    /\ card' \in [CardSectors -> Content]
                    /\ dma' \in [left : 0 .. 255, at : 0 .. MaxLen]
           Part == /\ dma' = [left |-> j.len - n', at |-> n']
                   /\ j.op \in Reads => card' = before /\ ram' = Brought(n', D, j.lba)
                   /\ j.op \in Writes =>
                        /\ ram' = FreshRam
                        /\ Asked(j) = j.len => card' = Taken(n', D, j.lba)
<1>12. SUFFICES Typed /\ Part
  <2>1. Typed /\ Part => AcsiLoop'
    <3>1. SUFFICES ASSUME Part PROVE AcsiLoop'
      OBVIOUS
    <3>2. /\ j.op \in Reads => PartIn(n, D, j.lba)'
          /\ j.op \in Writes =>
               PartOut(n, D, j.lba)' /\ (Asked(j) = j.len => card' = Taken(n, D, j.lba)')
      BY <1>8, <1>9, <3>1 DEF PartIn, PartOut, j
    <3> HIDE DEF Part
    <3>3. QED
      BY <1>3, <1>8, <3>2 DEF AcsiLoop, n, j, D
  <2>2. QED
    BY <1>1, <1>4, <1>10, <1>11, <2>1, LoopStep
<1>13. CASE j.len = 0
  <2>1. n = 0 /\ n' = 0
    BY <1>8, <1>13 DEF AcsiMoved, n, j
  <2>2. dma = [left |-> 0, at |-> 0]
    <3>1. dma = [left |-> j.len - 0, at |-> 0]
      BY <1>3, <1>7, <2>1 DEF PartIn, PartOut, j
    <3>2. QED
      BY <1>13, <3>1
  <2>6. j.len - 0 = 0
    BY <1>13
  <2>3. CASE j.op \in Reads
    <3>1. UNCHANGED <<ram, dma, card>>
      BY <1>7, <2>2, <2>3 DEF mist_memory_write_block
    <3>2. card = before /\ ram = Brought(0, D, j.lba)
      BY <1>3, <2>1, <2>3 DEF PartIn
    <3>3. QED
      BY <1>7, <1>10, <2>1, <2>2, <2>3, <2>6, <3>1, <3>2
  <2>4. CASE j.op \in Writes
    <3>1. UNCHANGED <<ram, dma>> /\ card' = [card EXCEPT ![s] = <<"ram", MaxLen>>]
      BY <1>7, <2>2, <2>4 DEF mist_memory_read_block
    <3>2. card' \in [CardSectors -> Content]
      BY <1>10, <3>1, DataIs
    <3>3. Asked(j) # j.len
      BY <1>2, <1>3, <1>13
    <3>4. ram = FreshRam
      BY <1>3, <2>4 DEF PartOut
    <3>5. QED
      BY <1>7, <1>10, <2>1, <2>2, <2>4, <2>6, <3>1, <3>2, <3>3, <3>4
  <2>5. QED
    BY <1>7, <2>3, <2>4
<1>14. CASE j.len # 0
  <2>1. /\ n = arm.pos - j.lba /\ n' = n + 1 /\ Asked(j) = j.len
        /\ n \in 0 .. MaxLen - 1 /\ n + 1 \in 0 .. MaxLen
        /\ j.lba + (n + 1) <= j.lba + j.len /\ arm.pos + 1 = j.lba + n + 1
        /\ j.len - n > 0 /\ j.len - n - 1 = j.len - (n + 1)
        /\ j.len - (n + 1) \in 0 .. 255
    <3>1. Asked(j) = j.len
      BY <1>2, <1>14
    <3>2. n = arm.pos - j.lba
      BY <1>14 DEF AcsiMoved, n, j
    <3>3. n' = arm.pos + 1 - j.lba
      <4>1. n' = arm'.pos - j.lba
        BY <1>8, <1>14 DEF AcsiMoved, n, j
      <4>2. QED
        BY <1>0, <1>4, <4>1
    <3>4. /\ j.lba \in Nat /\ j.len \in 0 .. MaxLen /\ arm.left \in 1 .. j.len
          /\ arm.pos = j.lba + j.len - arm.left
      BY <1>2, <1>3, <3>1
    <3>5. /\ n \in 0 .. MaxLen - 1
          /\ n + 1 \in 0 .. MaxLen /\ arm.pos + 1 = j.lba + n + 1
          /\ arm.pos + 1 - j.lba = n + 1 /\ j.lba + (n + 1) <= j.lba + j.len
          /\ j.len - n > 0 /\ j.len - n - 1 = j.len - (n + 1)
          /\ j.len - (n + 1) \in 0 .. 255
      <4>1. PICK l \in Nat, len \in 0 .. MaxLen, left \in Nat :
              l = j.lba /\ len = j.len /\ left = arm.left
        BY <3>4
      <4>2. left \in 1 .. len
        BY <3>4, <4>1
      <4>3. PICK x \in Int, k \in Int : x = l + len - left /\ k = x - l
        OBVIOUS
      <4>4. x = arm.pos /\ k = n
        BY <3>2, <3>4, <4>1, <4>3
      <4>5. /\ k \in 0 .. MaxLen - 1
            /\ k + 1 \in 0 .. MaxLen /\ x + 1 = l + k + 1
            /\ x + 1 - l = k + 1 /\ l + (k + 1) <= l + len
            /\ len - k > 0 /\ len - k - 1 = len - (k + 1)
            /\ len - (k + 1) \in 0 .. 255
        BY <4>2, <4>3, MaxLenIs
      <4>6. QED
        BY <4>1, <4>4, <4>5
    <3>6. QED
      BY <3>1, <3>2, <3>3, <3>5
  <2>0. /\ j.lba \in Int /\ n \in Nat /\ j.lba + (n + 1) <= Len(D)
        /\ j.lba + n + 1 <= Len(D)
    <3>1. Asked(j) = j.len
      BY <2>1
    <3>2. /\ Asked(j) \in Int /\ j.lba \in Int /\ Len(D) \in Int
          /\ j.lba + Asked(j) <= Len(D)
      BY <1>0
    <3>3. j.lba + j.len <= Len(D)
      BY <3>1, <3>2
    <3>4. n \in Nat /\ j.len \in Int /\ j.lba + (n + 1) <= j.lba + j.len
      BY <1>0, <2>1
    <3>5. j.lba + (n + 1) <= Len(D)
      BY <3>2, <3>3, <3>4
    <3>6. j.lba + n + 1 <= Len(D)
      BY <3>2, <3>4, <3>5
    <3>7. QED
      BY <3>2, <3>4, <3>5, <3>6
  <2>2. dma = [left |-> j.len - n, at |-> n]
    BY <1>3, <1>7 DEF PartIn, PartOut, j
  <2>3. dma.left > 0 /\ dma.at = n /\ dma.left = j.len - n
    BY <2>1, <2>2
  <2>4. [left |-> dma.left - 1, at |-> dma.at + 1] = [left |-> j.len - n', at |-> n']
    <3>1. dma.left - 1 = j.len - n' /\ dma.at + 1 = n'
      BY <2>1, <2>3
    <3>2. QED
      BY <3>1
  <2>5. [left |-> j.len - n', at |-> n'] \in [left : 0 .. 255, at : 0 .. MaxLen]
    <3>1. j.len - n' \in 0 .. 255 /\ n' \in 0 .. MaxLen
      BY <2>1
    <3>2. QED
      BY <3>1
  <2>6. /\ Brought(n', D, j.lba) \in [0 .. MaxLen - 1 -> Content]
        /\ Taken(n', D, j.lba) \in [CardSectors -> Content]
    BY <1>2, <1>3, <2>0, <2>1, MovedTypes DEF IInv
  <2>7. s = D[j.lba + n + 1]
    BY <1>5, <2>1
  <2>8. CASE j.op \in Reads
    <3>1. /\ ram' = [ram EXCEPT ![n] = card[s]] /\ card' = card
          /\ dma' = [left |-> dma.left - 1, at |-> dma.at + 1]
      BY <1>7, <2>3, <2>8 DEF mist_memory_write_block
    <3>2. ram = Brought(n, D, j.lba) /\ card = before
      BY <1>3, <2>8 DEF PartIn
    <3>3. Brought(n + 1, D, j.lba) =
            [Brought(n, D, j.lba) EXCEPT ![n] = before[D[j.lba + n + 1]]]
      <4>1. j.lba \in Int
        BY <1>0
      <4>2. QED
        BY <2>1, <4>1, OneBrought
    <3>4. ram' = Brought(n', D, j.lba)
      BY <2>1, <2>7, <3>1, <3>2, <3>3
    <3>5. QED
      BY <1>7, <1>10, <2>4, <2>5, <2>6, <2>8, <3>1, <3>2, <3>4
  <2>9. CASE j.op \in Writes
    <3>1. /\ card' = [card EXCEPT ![s] = ram[n]] /\ ram' = ram
          /\ dma' = [left |-> dma.left - 1, at |-> dma.at + 1]
      BY <1>7, <2>3, <2>9 DEF mist_memory_read_block
    <3>2. ram = FreshRam /\ card = Taken(n, D, j.lba)
      BY <1>3, <2>1, <2>9 DEF PartOut
    <3>3. Taken(n + 1, D, j.lba) =
            [Taken(n, D, j.lba) EXCEPT ![D[j.lba + n + 1]] = FreshRam[n]]
      <4>1. j.lba \in Nat /\ OnCard(D)
        BY <1>2, <1>3
      <4>2. PICK l \in Nat, k \in Nat : l = j.lba /\ k = n
        BY <2>0, <4>1
      <4>3. l + k + 1 <= Len(D)
        BY <2>0, <4>2
      <4>4. Taken(k + 1, D, l) = [Taken(k, D, l) EXCEPT ![D[l + k + 1]] = FreshRam[k]]
        BY <4>1, <4>3, OneTaken
      <4>5. QED
        BY <4>2, <4>4
    <3>4. card' = Taken(n', D, j.lba)
      BY <2>1, <2>7, <3>1, <3>2, <3>3
    <3>5. QED
      BY <1>7, <1>10, <2>4, <2>5, <2>6, <2>9, <3>1, <3>2, <3>4
  <2>10. QED
    BY <1>7, <2>8, <2>9
<1>15. QED
  BY <1>13, <1>14

(* The answer to READ and WRITE. *)
LEMMA SectorsDoneStep ==
    ASSUME IInv, Disks', SectorsDone
    PROVE  IInv' /\ ~fdc.wait /\ AcsiRight(drv.job)
<1> DEFINE j == drv.job
           D == Behind(j.target)
<1>1. /\ arm.pc = "acsisectors" /\ arm.left = 0 /\ dma_ack(0)
      /\ UNCHANGED <<dma, ram, card>> /\ Answered(0) /\ arm' = AfterAcsi
      /\ UNCHANGED <<ctrl, armVars, drv>> /\ status' = 0
  BY DEF SectorsDone, dma_ack
<1>2. /\ j \in AcsiJobs /\ j.lba \in Nat /\ Asked(j) \in Nat /\ j.target \in Targets
      /\ arm.target = j.target /\ j.len \in Nat /\ (j.len # 0 => Asked(j) = j.len)
  BY <1>1, AcsiServed, AcsiJobIs
<1>3. /\ Moves(j) /\ j.lun = 0 /\ j.lba + Asked(j) <= Len(D)
      /\ arm.pos = j.lba + Asked(j) - 0
      /\ j.op \in Reads => PartIn(AcsiMoved, D, j.lba)
      /\ j.op \in Writes =>
           /\ PartOut(AcsiMoved, D, j.lba)
           /\ Asked(j) = j.len => card = Taken(AcsiMoved, D, j.lba)
  BY <1>1 DEF IInv, AcsiLoop
<1>4. Reason(j) = 0
  <2>1. Len(D) \in Nat
    <3>1. Supported(j.target)
      BY <1>1 DEF IInv, AcsiLoop
    <3>2. QED
      BY <1>2, <3>1, BehindIs DEF IInv, OnCard
  <2>2. ~(j.lba + Asked(j) > Len(D))
    <3>1. j.lba + Asked(j) \in Nat
      BY <1>2
    <3>2. QED
      BY <1>3, <2>1, <3>1
  <2>3. j.op # "other"
    BY <1>3 DEF Moves, Reads, Writes
  <2>4. QED
    BY <1>3, <2>2, <2>3 DEF Reason
<1>5. IInv' /\ ~fdc.wait
  <2>1. /\ DOMAIN ram' = 0 .. MaxLen - 1
        /\ \A i \in DOMAIN ram' :
                ram'[i] \in Content \/ ram'[i] \in Info \X Nat \X Nat
        /\ card' \in [CardSectors -> Content]
        /\ dma' \in [left : 0 .. 255, at : 0 .. MaxLen]
    BY <1>1 DEF IInv, TypeOK
  <2>2. QED
    BY <1>1, <1>4, <2>1, AckStep
<1>6. AcsiMoved = j.len
  <2>1. CASE j.len = 0
    BY <2>1 DEF AcsiMoved
  <2>2. CASE j.len # 0
    <3>1. AcsiMoved = arm.pos - j.lba /\ Asked(j) = j.len
      BY <1>2, <2>2 DEF AcsiMoved
    <3>2. QED
      BY <1>2, <1>3, <3>1
  <2>3. QED
    BY <2>1, <2>2
<1>7. /\ j.op \in Reads => card' = before /\ ram' = Brought(j.len, D, j.lba)
      /\ j.op \in Writes =>
           /\ ram' = FreshRam
           /\ Asked(j) = j.len => card' = Taken(j.len, D, j.lba)
  BY <1>1, <1>3, <1>6 DEF PartIn, PartOut
<1>8. AcsiRight(j)
  BY <1>1, <1>3, <1>4, <1>7 DEF AcsiRight, Moves, MovedIn, MovedOut
<1>9. QED
  BY <1>5, <1>8

-----------------------------------------------------------------------------
(* The floppies.                                                           *)

(* fdc.v waits for the ARM, which serves the command it was given. *)
LEMMA FdcServed ==
    ASSUME IInv, arm.pc \in {"fdc", "fdcsectors"}
    PROVE  /\ drv.pc = "wait" /\ drv.job \in FdcJobs /\ fdc.wait
           /\ acsi \in AcsiSet /\ acsi.busy = FALSE
           /\ acsi.irq => acsi.count <= 4
           /\ arm.cmd = drv.job.cmd
<1>1. acsi \in AcsiSet
  BY DEF IInv, TypeOK, AcsiSet
<1>2. acsi.busy \in BOOLEAN
  BY <1>1 DEF AcsiSet
<1>3. QED
  BY <1>1, <1>2, OnePending DEF IInv, BusInv, ArmInv

(* The floppy in a drive is one that tos_insert_disk() has looked at. *)
LEMMA FloppyIs ==
    ASSUME IInv, NEW d \in Drives, fdd_image[d].file # NoFile
    PROVE  LET disk == fdd_image[d]
           IN  /\ disk.file \in FloppyFiles /\ disk = Detected(disk.file)
               /\ disk.sides \in Nat /\ disk.spt \in Nat
               /\ OnCard(Place[disk.file])
<1>1. fdd_image[d] \in {Ejected} \cup {Detected(f) : f \in FloppyFiles}
  BY DEF IInv, FloppyInv
<1>2. fdd_image[d] # Ejected
  BY DEF Ejected
<1>3. PICK f \in FloppyFiles : fdd_image[d] = Detected(f)
  BY <1>1, <1>2
<1>4. Detected(f) \in Floppies /\ Detected(f).file = f
  BY DetectedIs
<1>5. Detected(f).sides \in Nat /\ Detected(f).spt \in Nat
  BY <1>4 DEF Floppies, Ejected
<1>6. OnCard(Place[f])
  BY PlaceIs DEF Files
<1>7. QED
  BY <1>3, <1>4, <1>5, <1>6

(* The first sector of a command has a number, and a valid one a natural   *)
(* number.                                                                 *)
LEMMA FirstIs ==
    ASSUME NEW j \in FdcJobs, NEW disk, disk.sides \in Nat, disk.spt \in Nat
    PROVE  /\ First(j, disk) \in Int
           /\ SectorValid(j.cmd, disk) => First(j, disk) \in Nat
<1>1. /\ j.cmd.track \in Nat /\ j.cmd.side \in Nat /\ j.cmd.sector \in Nat
  BY FdcJobIs
<1>2. (j.cmd.track * disk.sides + j.cmd.side) * disk.spt \in Nat
  BY <1>1
<1>3. QED
  BY <1>1, <1>2 DEF First, FloppyOffset, SectorValid

(* What the ARM knows of the floppy in its loop. *)
LEMMA FdcKnows ==
    ASSUME Inside, IInv, arm.pc = "fdcsectors"
    PROVE  LET j == drv.job
               D == Place[FdcDisk.file]
               first == First(j, FdcDisk)
           IN  /\ j \in FdcJobs /\ j.cmd.drive \in Drives
               /\ j.len \in 1 .. MaxLen
               /\ FdcDisk.file \in FloppyFiles /\ OnCard(D) /\ first \in Int
               /\ FdcDisk.sides \in Nat /\ FdcDisk.spt \in Nat
               /\ SectorValid(j.cmd, FdcDisk) =>
                    /\ first \in Nat /\ first + j.len <= Len(D)
                    /\ j.cmd.side < FdcDisk.sides
<1> DEFINE j == drv.job
<1>1. /\ j \in FdcJobs /\ j.cmd.drive \in Drives /\ j.len \in 1 .. MaxLen
  BY FdcServed, FdcJobIs
<1>2. FdcDisk.file # NoFile /\ j.op \in {"read", "write"}
  BY DEF IInv, FdcLoop
<1>3. /\ FdcDisk.file \in FloppyFiles /\ FdcDisk = Detected(FdcDisk.file)
      /\ FdcDisk.sides \in Nat /\ FdcDisk.spt \in Nat
      /\ OnCard(Place[FdcDisk.file])
  BY <1>1, <1>2, FloppyIs DEF FdcDisk
<1>4. /\ First(j, FdcDisk) \in Int
      /\ SectorValid(j.cmd, FdcDisk) => First(j, FdcDisk) \in Nat
  BY <1>1, <1>3, FirstIs
<1>5. SectorValid(j.cmd, FdcDisk) =>
        /\ j.cmd.side < FdcDisk.sides
        /\ First(j, FdcDisk) + j.len <= Len(Place[FdcDisk.file])
  BY <1>1, <1>2, <1>3 DEF Inside, First, Size
<1>6. QED
  BY <1>1, <1>3, <1>4, <1>5

(* The acknowledgement of a floppy command. *)
LEMMA FdcAckStep ==
    ASSUME IInv, Disks', arm.pc \in {"fdc", "fdcsectors"}, dma_ack(0),
           arm' = Idle, before' = card,
           UNCHANGED <<dma, ram, ctrl, armVars, asc, card, drv, why>>
    PROVE  IInv' /\ ~acsi.busy
<1>1. /\ status' = 0 /\ acsi' = AckAcsi(acsi) /\ fdc' = AckFdc(fdc)
  BY DEF dma_ack
<1>2. /\ acsi' = acsi /\ acsi' \in AcsiSet /\ ~acsi'.busy /\ ~acsi.busy
      /\ acsi'.irq => acsi'.count <= 4
  BY <1>1, FdcServed DEF AckAcsi
<1>3. /\ fdc' \in [wait : BOOLEAN, cmd : Command \cup {NoCommand}, irq : BOOLEAN]
      /\ ~fdc'.wait
  BY <1>1, FdcServed DEF AckFdc
<1>4. DataTypes' /\ dma' \in [left : 0 .. 255, at : 0 .. MaxLen]
  BY TypeParts DEF IInv, DataTypes, BusTypes
<1>5. card' = before' /\ why' = asc' /\ UNCHANGED <<fdd_image, drv>>
  BY DEF IInv, RestInv, armVars
<1>6. status' \in {0, 2} /\ drv.pc = "wait"
  BY <1>1, FdcServed
<1>7. QED
  BY <1>2, <1>3, <1>4, <1>5, <1>6, ServedStep

(* handle_fdc() before its loop: no floppy, a whole track, or sectors.     *)
LEMMA HandleFdcStep ==
    ASSUME IInv, Disks', handle_fdc
    PROVE  /\ IInv' /\ ~acsi.busy
           /\ fdc'.irq => FdcRight(drv.job)
<1> DEFINE j == drv.job
           c == arm.cmd
           disk == fdd_image[c.drive]
<1>1. /\ arm.pc = "fdc"
      /\ UNCHANGED <<dma, ram, ctrl, armVars, asc, card, drv, why>>
  BY DEF handle_fdc
<1>2. /\ j \in FdcJobs /\ c = j.cmd /\ drv.pc = "wait" /\ fdc.wait /\ ~acsi.busy
      /\ j.op = j.cmd.op /\ j.op \in {"read", "write", "readtrack"}
      /\ j.cmd.drive \in Drives /\ j.len \in 1 .. MaxLen
  BY <1>1, FdcServed, FdcJobIs
<1>3. /\ card = before /\ ram = FreshRam /\ dma = [left |-> j.len, at |-> 0]
  BY <1>1, <1>2, Waiting DEF Moving, Pending
<1>4. CASE disk.file = NoFile /\ arm' = Idle /\ UNCHANGED <<acsi, fdc, status, before>>
  <2>1. arm'.pc = "poll" /\ ArmType'
    BY <1>4, IdleIs DEF ArmType
  <2>2. JobInv' /\ FloppyInv'
    BY <1>1, <2>1 DEF IInv, JobInv, FloppyInv, armVars
  <2>3. BusTypes' /\ DataTypes' /\ BusInv'
    BY <1>1, <1>4, TypeParts DEF IInv, BusTypes, DataTypes, BusInv, Pending
  <2>4. RestInv'
    BY <1>1, <1>3, <1>4, <2>1 DEF IInv, RestInv
  <2>5. IInv'
    BY <2>1, <2>2, <2>3, <2>4, IdleArm, Collect
  <2>6. ~fdc'.irq
    BY <1>2, <1>4 DEF IInv, BusInv
  <2>7. QED
    BY <1>2, <2>5, <2>6
<1>5. CASE /\ disk.file # NoFile /\ c.op = "readtrack" /\ arm' = Idle
           /\ dma_ack(0) /\ before' = card
  <2>1. IInv'
    BY <1>1, <1>5, FdcAckStep
  <2>2. FdcRight(j)
    BY <1>1, <1>2, <1>3, <1>5 DEF FdcRight
  <2>3. QED
    BY <1>2, <2>1, <2>2
<1>6. CASE /\ disk.file # NoFile /\ c.op \in {"read", "write"}
           /\ arm' = [arm EXCEPT !.pc = "fdcsectors", !.left = arm.scnt,
                        !.pos = FloppyOffset(disk, c.track, c.side, c.sector)]
           /\ UNCHANGED <<acsi, fdc, status, before>>
  <2> DEFINE first == First(j, disk)
             D == Place[disk.file]
  <2>1. arm.scnt = j.len
    BY <1>1 DEF IInv, ArmInv
  <2>2. disk.sides \in Nat /\ disk.spt \in Nat
    BY <1>2, <1>6, FloppyIs
  <2>3. first \in Int
    BY <1>2, <2>2, FirstIs
  <2>4. /\ arm' \in ArmSet /\ arm'.pc = "fdcsectors" /\ arm'.pos = first
        /\ arm'.left = j.len /\ arm'.target = arm.target /\ arm'.parm = arm.parm
        /\ arm'.cmd = arm.cmd /\ arm'.fdc = arm.fdc
    <3>1. arm \in ArmSet
      BY DEF IInv, JobInv, ArmType, ArmSet
    <3>2. arm' = [arm EXCEPT !.pc = "fdcsectors", !.left = j.len, !.pos = first]
      BY <1>2, <1>6, <2>1 DEF First
    <3>3. j.len \in Nat
      BY <1>2, MaxLenIs
    <3> HIDE DEF first, j
    <3>4. QED
      BY <2>3, <3>1, <3>2, <3>3 DEF ArmSet
  <2>5. drv' = drv /\ fdd_image' = fdd_image /\ FdcDisk = disk /\ FdcDisk' = disk
    BY <1>1, <1>2 DEF FdcDisk, armVars
  <2>6. FdcMoved' = 0
    <3>1. j.len - j.len = 0
      BY <1>2, MaxLenIs
    <3>2. FdcMoved' = IF SectorValid(j.cmd, disk) THEN j.len - j.len ELSE 0
      BY <2>4, <2>5 DEF FdcMoved, SectorValid
    <3>3. QED
      BY <3>1, <3>2
  <2>7. Brought(0, D, first) = FreshRam /\ Taken(0, D, first) = before
    BY <2>3, NothingMoved DEF IInv
  <2>8. FdcLoop'
    <3>1. /\ arm'.left \in 0 .. j.len /\ arm'.pos = first + j.len - arm'.left
          /\ j.len - 0 = j.len
      BY <1>2, <2>3, <2>4, MaxLenIs
    <3>2. /\ Brought(0, D, first)' = FreshRam /\ Taken(0, D, first)' = before
          /\ First(j, disk)' = first /\ D' = D
      <4>1. before' = before /\ j' = j /\ disk' = disk
        BY <1>1, <1>6, <2>5 DEF FdcDisk
      <4>2. First(j, disk)' = first /\ D' = D
        BY <4>1 DEF First, FloppyOffset
      <4>3. Brought(0, D, first)' = Brought(0, D, first)
            /\ Taken(0, D, first)' = Taken(0, D, first)
        BY <4>1, <4>2 DEF Brought, Taken
      <4>4. QED
        BY <2>7, <4>2, <4>3
    <3>3. PartIn(0, D, first)' /\ PartOut(0, D, first)' /\ card' = Taken(0, D, first)'
      <4>1. dma' = [left |-> j.len - 0, at |-> 0]
        BY <1>1, <1>3, <3>1
      <4>2. QED
        BY <1>1, <1>3, <1>6, <2>5, <3>2, <4>1 DEF PartIn, PartOut
    <3>4. disk.file # NoFile /\ j.op \in {"read", "write"}
      BY <1>2, <1>6
    <3>5. drv'.job = j /\ FdcDisk' = disk /\ First(drv.job, FdcDisk)' = first
      BY <2>5, <3>2
    <3> HIDE DEF disk, D, first
    <3>6. QED
      BY <2>4, <2>5, <2>6, <3>1, <3>2, <3>3, <3>4, <3>5 DEF FdcLoop, D, first
  <2>9. AcsiLoop'
    BY <2>4 DEF AcsiLoop
  <2>10. /\ DOMAIN ram' = 0 .. MaxLen - 1
         /\ \A i \in DOMAIN ram' :
                 ram'[i] \in Content \/ ram'[i] \in Info \X Nat \X Nat
         /\ card' \in [CardSectors -> Content]
         /\ dma' \in [left : 0 .. 255, at : 0 .. MaxLen]
    BY <1>1 DEF IInv, TypeOK
  <2>11. IInv'
    BY <1>1, <1>6, <2>4, <2>5, <2>8, <2>9, <2>10, LoopStep
  <2>12. ~fdc'.irq
    BY <1>2, <1>6 DEF IInv, BusInv
  <2>13. QED
    BY <1>2, <2>11, <2>12
<1>7. QED
  BY <1>4, <1>5, <1>6 DEF handle_fdc

(* One round of the loop over scnt. *)
LEMMA FdcSectorStep ==
    ASSUME Inside, IInv, Disks', FdcSector
    PROVE  IInv'
<1> DEFINE j == drv.job
           disk == FdcDisk
           D == Place[disk.file]
           first == First(j, disk)
           n == FdcMoved
           sector == D[arm.pos + 1]
<1>1. /\ arm.pc = "fdcsectors" /\ arm.left > 0
      /\ arm' = [arm EXCEPT !.pos = @ + 1, !.left = @ - 1]
      /\ UNCHANGED <<acsi, fdc, status, ctrl, armVars, asc, drv, before, why>>
  BY DEF FdcSector
<1>2. /\ j.len \in 1 .. MaxLen /\ MaxLen \in 1 .. 255 /\ OnCard(D)
      /\ first \in Int /\ Len(D) \in Nat
      /\ SectorValid(j.cmd, disk) => first \in Nat /\ first + j.len <= Len(D)
  BY <1>1, FdcKnows, MaxLenIs DEF OnCard
<1>3. /\ disk.file # NoFile /\ j.op \in {"read", "write"}
      /\ arm.left \in 1 .. j.len /\ arm.pos = first + j.len - arm.left
      /\ j.op = "read" => PartIn(n, D, first)
      /\ j.op = "write" => PartOut(n, D, first) /\ card = Taken(n, D, first)
  <2>1. FdcLoop
    BY DEF IInv
  <2>2. arm.left \in 0 .. j.len /\ arm.left > 0
    BY <1>1, <2>1 DEF FdcLoop
  <2>3. arm.left \in 1 .. j.len
    BY <1>2, <2>2
  <2>4. QED
    BY <1>1, <2>1, <2>3 DEF FdcLoop
<1>4. arm.cmd = j.cmd /\ j.op = j.cmd.op /\ fdd_image[j.cmd.drive] = disk
  BY <1>1, FdcServed, FdcJobIs DEF FdcDisk
<1>5. \/ /\ SectorValid(j.cmd, disk) /\ j.op = "read"
         /\ mist_memory_write_block(card[sector]) /\ UNCHANGED card
      \/ /\ SectorValid(j.cmd, disk) /\ j.op = "write"
         /\ mist_memory_read_block(sector)
      \/ ~SectorValid(j.cmd, disk) /\ UNCHANGED <<ram, dma, card>>
  BY <1>4 DEF FdcSector
<1>6. drv' = drv /\ j' = j /\ disk' = disk /\ D' = D /\ first' = first
      /\ before' = before
  <2>1. drv' = drv /\ before' = before /\ fdd_image' = fdd_image
    BY <1>1 DEF armVars
  <2>2. QED
    BY <2>1 DEF FdcDisk, First, FloppyOffset
<1>7. SectorValid(j.cmd, disk)' <=> SectorValid(j.cmd, disk)
  BY <1>6 DEF SectorValid
<1> HIDE DEF j, disk, D, first, n, sector
<1>8. PICK l \in Int, len \in 1 .. MaxLen, left \in 1 .. 255, x \in Int :
        l = first /\ len = j.len /\ left = arm.left /\ x = arm.pos
  <2>1. PICK l \in Int, len \in 1 .. MaxLen : l = first /\ len = j.len
    BY <1>2
  <2>2. arm.left \in 1 .. len /\ arm.pos = l + len - arm.left
    BY <1>3, <2>1
  <2>3. PICK left \in 1 .. len : left = arm.left
    BY <2>2
  <2>4. left \in 1 .. 255 /\ l + len - left \in Int
    BY <1>2
  <2>5. QED
    BY <2>1, <2>2, <2>3, <2>4
<1>9. left <= len /\ x = l + len - left
  BY <1>3, <1>8
<1>10. /\ arm' \in ArmSet /\ arm'.pc = "fdcsectors" /\ arm'.pos = x + 1
       /\ arm'.left = left - 1 /\ arm'.target = arm.target
       /\ arm'.parm = arm.parm /\ arm'.cmd = arm.cmd /\ arm'.fdc = arm.fdc
  <2>1. arm \in ArmSet
    BY DEF IInv, JobInv, ArmType, ArmSet
  <2>2. left - 1 \in Nat /\ x + 1 \in Int
    OBVIOUS
  <2>3. arm' = [arm EXCEPT !.pos = x + 1, !.left = left - 1]
    BY <1>1, <1>8
  <2>4. QED
    BY <1>1, <2>1, <2>2, <2>3 DEF ArmSet
<1>11. /\ Brought(n, D, first)' = Brought(n', D, first)
       /\ Taken(n, D, first)' = Taken(n', D, first)
  BY <1>6 DEF Brought, Taken
<1>12. /\ DOMAIN ram = 0 .. MaxLen - 1
       /\ \A i \in DOMAIN ram :
               ram[i] \in Content \/ ram[i] \in Info \X Nat \X Nat
       /\ card \in [CardSectors -> Content]
       /\ dma \in [left : 0 .. 255, at : 0 .. MaxLen]
       /\ UNCHANGED fdd_image
  BY <1>1 DEF IInv, TypeOK, armVars
<1>13. AcsiLoop'
  BY <1>10 DEF AcsiLoop
<1> DEFINE Typed == /\ DOMAIN ram' = 0 .. MaxLen - 1
                    /\ \A i \in DOMAIN ram' :
                           ram'[i] \in Content \/ ram'[i] \in Info \X Nat \X Nat
                    /\ card' \in [CardSectors -> Content]
                    /\ dma' \in [left : 0 .. 255, at : 0 .. MaxLen]
           Part == /\ dma' = [left |-> j.len - n', at |-> n']
                   /\ j.op = "read" => card' = before /\ ram' = Brought(n', D, first)
                   /\ j.op = "write" =>
                        ram' = FreshRam /\ card' = Taken(n', D, first)
<1>14. SUFFICES Typed /\ Part
  <2>1. ASSUME Part PROVE FdcLoop'
    <3>1. /\ j.op = "read" => PartIn(n, D, first)'
          /\ j.op = "write" =>
               PartOut(n, D, first)' /\ card' = Taken(n, D, first)'
      BY <1>6, <1>11, <2>1 DEF PartIn, PartOut, j
    <3>2. arm'.left \in 0 .. len /\ arm'.pos = l + len - arm'.left
      BY <1>9, <1>10
    <3>3. arm'.left \in 0 .. j.len /\ arm'.pos = first + j.len - arm'.left
      BY <1>8, <3>2
    <3> HIDE DEF Part
    <3>4. QED
      BY <1>3, <1>6, <3>1, <3>3 DEF FdcLoop, n, j, D, disk, first
  <2>2. QED
    BY <1>1, <1>10, <1>12, <1>13, <2>1, LoopStep
<1> HIDE DEF Typed, Part
<1>15. CASE ~SectorValid(j.cmd, disk)
  <2>1. n = 0 /\ n' = 0
    BY <1>7, <1>15 DEF FdcMoved, n, j, disk
  <2>2. UNCHANGED <<ram, dma, card>>
    BY <1>5, <1>15
  <2>3. /\ dma = [left |-> j.len - 0, at |-> 0]
        /\ j.op = "read" => card = before /\ ram = Brought(0, D, first)
        /\ j.op = "write" => ram = FreshRam /\ card = Taken(0, D, first)
    BY <1>3, <2>1 DEF PartIn, PartOut, j
  <2>4. Part
    BY <2>1, <2>2, <2>3 DEF Part
  <2>5. QED
    BY <1>12, <2>2, <2>4 DEF Typed
<1>16. CASE SectorValid(j.cmd, disk)
  <2>1. PICK k \in Nat : k = len - left
    BY <1>9
  <2>2. /\ k \in 0 .. MaxLen - 1 /\ k + 1 \in 0 .. MaxLen /\ x + 1 = l + k + 1
        /\ len - k > 0 /\ len - k - 1 = len - (k + 1)
        /\ len - (k + 1) \in 0 .. 255 /\ len - (left - 1) = k + 1
        /\ k + 1 <= len
    BY <1>2, <1>9, <2>1
  <2>3. n = k /\ n' = k + 1
    <3>1. n = j.len - arm.left /\ n' = j.len - arm'.left
      BY <1>6, <1>7, <1>16 DEF FdcMoved, n, j, disk
    <3>2. n = len - left /\ n' = len - (left - 1)
      BY <1>8, <1>10, <3>1
    <3>3. QED
      BY <2>1, <2>2, <3>2
  <2>4. l \in Nat /\ l + len <= Len(D) /\ first = l
    BY <1>2, <1>8, <1>16
  <2>5. l + k + 1 <= Len(D) /\ l + (k + 1) <= Len(D)
    BY <1>2, <2>2, <2>4
  <2>6. dma = [left |-> len - k, at |-> k]
    BY <1>3, <1>8, <2>3 DEF PartIn, PartOut, j
  <2>7. dma.left > 0 /\ dma.at = k /\ dma.left - 1 = len - (k + 1)
    BY <2>2, <2>6
  <2>8. [left |-> len - (k + 1), at |-> k + 1] \in [left : 0 .. 255, at : 0 .. MaxLen]
    BY <2>2
  <2>9. /\ Brought(k + 1, D, l) \in [0 .. MaxLen - 1 -> Content]
        /\ Taken(k + 1, D, l) \in [CardSectors -> Content]
    BY <1>2, <2>2, <2>4, <2>5, MovedTypes DEF IInv
  <2>10. sector = D[l + k + 1]
    BY <1>8, <2>2 DEF sector
  <2>11. CASE j.op = "read"
    <3>1. /\ ram' = [ram EXCEPT ![k] = card[sector]] /\ card' = card
          /\ dma' = [left |-> len - (k + 1), at |-> k + 1]
      BY <1>5, <1>16, <2>7, <2>11 DEF mist_memory_write_block
    <3>2. ram = Brought(k, D, l) /\ card = before
      BY <1>3, <2>3, <2>4, <2>11 DEF PartIn
    <3>3. Brought(k + 1, D, l) = [Brought(k, D, l) EXCEPT ![k] = before[D[l + k + 1]]]
      <4>1. k \in 0 .. MaxLen - 1 /\ l \in Int
        BY <2>2, <2>4
      <4>2. PICK dd : dd = D
        OBVIOUS
      <4>3. Brought(k + 1, dd, l) = [Brought(k, dd, l) EXCEPT ![k] = before[dd[l + k + 1]]]
        BY <4>1, OneBrought
      <4>4. QED
        BY <4>2, <4>3
    <3>4. ram' = Brought(k + 1, D, l)
      BY <2>10, <3>1, <3>2, <3>3
    <3>5. Part
      BY <1>8, <2>3, <2>4, <2>11, <3>1, <3>2, <3>4 DEF Part
    <3>6. QED
      BY <1>12, <2>8, <2>9, <3>1, <3>4, <3>5 DEF Typed
  <2>12. CASE j.op = "write"
    <3>1. /\ card' = [card EXCEPT ![sector] = ram[k]] /\ ram' = ram
          /\ dma' = [left |-> len - (k + 1), at |-> k + 1]
      BY <1>5, <1>16, <2>7, <2>12 DEF mist_memory_read_block
    <3>2. ram = FreshRam /\ card = Taken(k, D, l)
      BY <1>3, <2>3, <2>4, <2>12 DEF PartOut
    <3>3. Taken(k + 1, D, l) = [Taken(k, D, l) EXCEPT ![D[l + k + 1]] = FreshRam[k]]
      BY <1>2, <2>4, <2>5, OneTaken
    <3>4. card' = Taken(k + 1, D, l)
      BY <2>10, <3>1, <3>2, <3>3
    <3>5. Part
      BY <1>8, <2>3, <2>4, <2>12, <3>1, <3>2, <3>4 DEF Part
    <3>6. QED
      BY <1>12, <2>8, <2>9, <3>1, <3>4, <3>5 DEF Typed
  <2>13. QED
    BY <1>3, <2>11, <2>12
<1>17. QED
  BY <1>15, <1>16

-----------------------------------------------------------------------------
(* Where the sectors of a floppy are stored.                               *)

(* Two-digit numbers in base m compare by their digits. *)
LEMMA Less ==
    ASSUME NEW a \in Nat, NEW b \in Nat, NEW m \in Nat,
           NEW x \in 0 .. m - 1, NEW y \in 0 .. m - 1
    PROVE  a * m + x < b * m + y <=> a < b \/ (a = b /\ x < y)
<1>1. ASSUME NEW c \in Nat, NEW d \in Nat, c < d,
             NEW u \in 0 .. m - 1, NEW v \in 0 .. m - 1
      PROVE  c * m + u < d * m + v
  <2>1. PICK e \in Nat : d = c + 1 + e
    BY <1>1
  <2>2. d * m = c * m + m + e * m
    BY <2>1
  <2>3. e * m \in Nat /\ c * m \in Nat
    OBVIOUS
  <2>4. QED
    BY <2>2, <2>3
<1>2. CASE a < b
  BY <1>1, <1>2
<1>3. CASE b < a
  <2>1. b * m + y < a * m + x
    BY <1>1, <1>3
  <2>2. a * m \in Nat /\ b * m \in Nat
    OBVIOUS
  <2>3. QED
    BY <1>3, <2>1, <2>2
<1>4. CASE a = b
  <2>1. a * m \in Nat
    OBVIOUS
  <2>2. QED
    BY <1>4, <2>1
<1>5. QED
  BY <1>2, <1>3, <1>4

(* Every number has a last digit in base m. *)
LEMMA Divide ==
    ASSUME NEW k \in Nat, NEW m \in Nat \ {0}
    PROVE  \E q \in Nat, r \in 0 .. m - 1 : k = q * m + r
<1>1. k \div m \in Nat /\ k % m \in 0 .. m - 1 /\ k = (k \div m) * m + (k % m)
  OBVIOUS
<1>2. QED
  BY <1>1

(* Sectors are stored in the order of track, side and number.              *)
Offset(disk, x) == FloppyOffset(disk, x[1], x[2], x[3])

Earlier(x, y) ==
    \/ x[1] < y[1]
    \/ x[1] = y[1] /\ x[2] < y[2]
    \/ x[1] = y[1] /\ x[2] = y[2] /\ x[3] < y[3]

(* FloppyOffset() numbers the sectors in that order. *)
LEMMA OffsetOrder ==
    ASSUME NEW disk, disk.sides \in Nat, disk.spt \in Nat,
           NEW x \in Nat \X (0 .. disk.sides - 1) \X (1 .. disk.spt),
           NEW y \in Nat \X (0 .. disk.sides - 1) \X (1 .. disk.spt)
    PROVE  /\ Offset(disk, x) \in Nat
           /\ Offset(disk, x) < Offset(disk, y) <=> Earlier(x, y)
<1> DEFINE q(z) == z[1] * disk.sides + z[2]
<1>1. /\ x[1] \in Nat /\ x[2] \in 0 .. disk.sides - 1 /\ x[3] \in 1 .. disk.spt
      /\ y[1] \in Nat /\ y[2] \in 0 .. disk.sides - 1 /\ y[3] \in 1 .. disk.spt
  OBVIOUS
<1>2. q(x) \in Nat /\ q(y) \in Nat
  BY <1>1
<1>3. q(x) < q(y) <=> x[1] < y[1] \/ (x[1] = y[1] /\ x[2] < y[2])
  BY <1>1, Less
<1>4. q(y) < q(x) <=> y[1] < x[1] \/ (y[1] = x[1] /\ y[2] < x[2])
  BY <1>1, Less
<1>5. q(x) = q(y) <=> x[1] = y[1] /\ x[2] = y[2]
  <2>1. q(x) = q(y) <=> ~(q(x) < q(y)) /\ ~(q(y) < q(x))
    BY <1>2
  <2> HIDE DEF q
  <2>2. QED
    BY <1>1, <1>3, <1>4, <2>1
<1> HIDE DEF q
<1>6. /\ Offset(disk, x) = q(x) * disk.spt + (x[3] - 1)
      /\ Offset(disk, y) = q(y) * disk.spt + (y[3] - 1)
  <2>1. q(x) * disk.spt \in Nat /\ q(y) * disk.spt \in Nat
    BY <1>2
  <2>2. /\ Offset(disk, x) = q(x) * disk.spt + x[3] - 1
        /\ Offset(disk, y) = q(y) * disk.spt + y[3] - 1
    BY DEF Offset, FloppyOffset, q
  <2>3. QED
    BY <1>1, <2>1, <2>2
<1>7. x[3] - 1 \in 0 .. disk.spt - 1 /\ y[3] - 1 \in 0 .. disk.spt - 1
  BY <1>1
<1>8. q(x) * disk.spt + (x[3] - 1) < q(y) * disk.spt + (y[3] - 1)
        <=> q(x) < q(y) \/ (q(x) = q(y) /\ x[3] - 1 < y[3] - 1)
  BY <1>2, <1>7, Less
<1>9. Offset(disk, x) \in Nat
  <2>1. q(x) * disk.spt \in Nat
    BY <1>2
  <2>2. QED
    BY <1>6, <1>7, <2>1
<1>10. x[3] - 1 < y[3] - 1 <=> x[3] < y[3]
  BY <1>1
<1>11. Offset(disk, x) < Offset(disk, y) <=> Earlier(x, y)
  BY <1>3, <1>5, <1>6, <1>8, <1>10 DEF Earlier
<1>12. QED
  BY <1>9, <1>11

(* Every number is the offset of a sector. *)
LEMMA OffsetOnto ==
    ASSUME NEW disk, disk.sides \in Nat \ {0}, disk.spt \in Nat \ {0},
           NEW k \in Nat
    PROVE  \E x \in Nat \X (0 .. disk.sides - 1) \X (1 .. disk.spt) :
                Offset(disk, x) = k
<1>1. PICK a \in Nat, r \in 0 .. disk.spt - 1 : k = a * disk.spt + r
  BY Divide
<1>2. PICK t \in Nat, s \in 0 .. disk.sides - 1 : a = t * disk.sides + s
  BY Divide
<1>3. r + 1 \in 1 .. disk.spt /\ r + 1 - 1 = r
  BY <1>1
<1> DEFINE x == <<t, s, r + 1>>
<1>4. x \in Nat \X (0 .. disk.sides - 1) \X (1 .. disk.spt)
  BY <1>3
<1>5. Offset(disk, x) = a * disk.spt + (r + 1) - 1
  BY <1>2 DEF Offset, FloppyOffset
<1>6. a * disk.spt \in Nat
  OBVIOUS
<1>7. Offset(disk, x) = k
  BY <1>1, <1>5, <1>6
<1>8. QED
  BY <1>4, <1>7

(* FloppyOffset() counts the sectors that are stored before one. *)
LEMMA StoredBeforeIs ==
    ASSUME NEW disk, disk.sides \in Nat, disk.spt \in Nat, NEW c,
           c.track \in Nat, c.side \in 0 .. disk.sides - 1,
           c.sector \in 1 .. disk.spt
    PROVE  StoredBefore(disk, c) = FloppyOffset(disk, c.track, c.side, c.sector)
<1> DEFINE All == Nat \X (0 .. disk.sides - 1) \X (1 .. disk.spt)
           y == <<c.track, c.side, c.sector>>
           S == {x \in (0 .. c.track) \X (0 .. disk.sides - 1) \X (1 .. disk.spt) :
                   \/ x[1] < c.track
                   \/ x[1] = c.track /\ x[2] < c.side
                   \/ x[1] = c.track /\ x[2] = c.side /\ x[3] < c.sector}
           N == Offset(disk, y)
           F == [x \in S |-> Offset(disk, x)]
<1>1. y \in All /\ disk.sides \in Nat \ {0} /\ disk.spt \in Nat \ {0}
  OBVIOUS
<1>2. S = {x \in All : Earlier(x, y)}
  <2>1. ASSUME NEW x \in S PROVE x \in All /\ Earlier(x, y)
    BY DEF Earlier
  <2>2. ASSUME NEW x \in All, Earlier(x, y) PROVE x \in S
    <3>1. x[1] \in Nat /\ x[1] <= c.track
      BY <2>2 DEF Earlier
    <3>2. x[1] \in 0 .. c.track
      BY <3>1
    <3>3. x = <<x[1], x[2], x[3]>> /\ x[2] \in 0 .. disk.sides - 1 /\ x[3] \in 1 .. disk.spt
      OBVIOUS
    <3>4. x \in (0 .. c.track) \X (0 .. disk.sides - 1) \X (1 .. disk.spt)
      BY <3>2, <3>3
    <3>5. QED
      BY <2>2, <3>4 DEF Earlier
  <2> HIDE DEF All, S, y
  <2>3. QED
    BY <2>1, <2>2
<1>3. \A x \in All : Offset(disk, x) \in Nat /\ (Offset(disk, x) < N <=> Earlier(x, y))
  BY <1>1, OffsetOrder
<1>4. N \in Nat
  BY <1>1, <1>3
<1>5. \A x, z \in All : Offset(disk, x) = Offset(disk, z) => x = z
  <2> SUFFICES ASSUME NEW x \in All, NEW z \in All, Offset(disk, x) = Offset(disk, z)
               PROVE  x = z
    OBVIOUS
  <2>1. Offset(disk, x) \in Nat /\ ~Earlier(x, z) /\ ~Earlier(z, x)
    BY OffsetOrder
  <2>2. /\ x[1] \in Nat /\ x[2] \in Nat /\ x[3] \in Nat
        /\ z[1] \in Nat /\ z[2] \in Nat /\ z[3] \in Nat
    OBVIOUS
  <2>3. x[1] = z[1] /\ x[2] = z[2] /\ x[3] = z[3]
    BY <2>1, <2>2 DEF Earlier
  <2>4. QED
    BY <2>3
<1>6. \A k \in 0 .. N - 1 : \E x \in All : Offset(disk, x) = k
  BY <1>1, OffsetOnto
<1> HIDE DEF All, S, y, N
<1>7. F \in Bijection(S, 0 .. N - 1)
  <2>1. F \in [S -> 0 .. N - 1]
    BY <1>2, <1>3, <1>4
  <2>2. \A x, z \in S : F[x] = F[z] => x = z
    BY <1>2, <1>5
  <2>3. \A k \in 0 .. N - 1 : \E x \in S : F[x] = k
    <3> SUFFICES ASSUME NEW k \in 0 .. N - 1 PROVE \E x \in S : F[x] = k
      OBVIOUS
    <3>1. PICK x \in All : Offset(disk, x) = k
      BY <1>6
    <3>2. x \in S
      BY <1>2, <1>3, <1>4, <3>1
    <3>3. QED
      BY <3>1, <3>2
  <2> HIDE DEF F
  <2>4. QED
    BY <2>1, <2>2, <2>3, Fun_IsBij
<1>8. ExistsBijection(0 .. N - 1, S)
  <2> HIDE DEF F
  <2>1. ExistsBijection(S, 0 .. N - 1)
    BY <1>7 DEF ExistsBijection
  <2>2. QED
    BY <2>1, Fun_ExistsBijSymmetric
<1>9. IsFiniteSet(0 .. N - 1) /\ Cardinality(0 .. N - 1) = N
  <2>1. N - 1 \in Int /\ (IF 0 > N - 1 THEN 0 ELSE (N - 1) - 0 + 1) = N
    BY <1>4
  <2>2. /\ IsFiniteSet(0 .. N - 1)
        /\ Cardinality(0 .. N - 1) = IF 0 > N - 1 THEN 0 ELSE (N - 1) - 0 + 1
    BY <2>1, FS_Interval
  <2>3. QED
    BY <2>1, <2>2
<1>10. Cardinality(S) = N
  BY <1>8, <1>9, FS_Bijection
<1>11. QED
  BY <1>10 DEF StoredBefore, S, N, y, Offset

(* The answer to a floppy command. *)
LEMMA FdcDoneStep ==
    ASSUME Inside, IInv, Disks', FdcDone
    PROVE  IInv' /\ ~acsi.busy /\ FdcRight(drv.job)
<1> DEFINE j == drv.job
           disk == FdcDisk
           D == Place[disk.file]
           first == First(j, disk)
<1>1. /\ arm.pc = "fdcsectors" /\ arm.left = 0 /\ dma_ack(0) /\ before' = card
      /\ arm' = Idle
      /\ UNCHANGED <<dma, ram, ctrl, armVars, asc, card, drv, why>>
  BY DEF FdcDone
<1>2. IInv' /\ ~acsi.busy
  BY <1>1, FdcAckStep
<1>3. /\ j \in FdcJobs /\ j.len \in 1 .. MaxLen /\ first \in Int
      /\ disk.sides \in Nat /\ disk.spt \in Nat
      /\ SectorValid(j.cmd, disk) => j.cmd.side < disk.sides
  BY <1>1, FdcKnows
<1>4. /\ j.op \in {"read", "write"}
      /\ j.op = "read" => PartIn(FdcMoved, D, first)
      /\ j.op = "write" => PartOut(FdcMoved, D, first) /\ card = Taken(FdcMoved, D, first)
  BY <1>1 DEF IInv, FdcLoop
<1>5. /\ j.cmd.track \in Nat /\ j.cmd.side \in Nat /\ j.cmd.sector \in Nat
      /\ fdd_image[j.cmd.drive] = disk
  BY <1>3, FdcJobIs DEF FdcDisk
<1>6. /\ ram' = ram /\ card' = card
  BY <1>1
<1>7. CASE ~SectorValid(j.cmd, disk)
  <2>1. FdcMoved = 0
    BY <1>7 DEF FdcMoved
  <2>2. Brought(0, D, first) = FreshRam /\ Taken(0, D, first) = before
    BY <1>3, NothingMoved DEF IInv
  <2>3. card' = before /\ ram' = FreshRam
    BY <1>4, <1>6, <2>1, <2>2 DEF PartIn, PartOut
  <2>4. j.cmd.sector \notin 1 .. disk.spt
    BY <1>3, <1>5, <1>7 DEF SectorValid
  <2>5. QED
    BY <1>2, <1>5, <2>3, <2>4 DEF FdcRight
<1>8. CASE SectorValid(j.cmd, disk)
  <2>1. FdcMoved = j.len
    <3>1. j.len - 0 = j.len
      BY <1>3, MaxLenIs
    <3>2. FdcMoved = j.len - 0
      BY <1>1, <1>8 DEF FdcMoved
    <3>3. QED
      BY <3>1, <3>2
  <2>2. j.cmd.sector \in 1 .. disk.spt /\ j.cmd.side \in 0 .. disk.sides - 1
    BY <1>3, <1>5, <1>8 DEF SectorValid
  <2>3. StoredBefore(disk, j.cmd) = first
    <3>1. StoredBefore(disk, j.cmd) =
            FloppyOffset(disk, j.cmd.track, j.cmd.side, j.cmd.sector)
      BY <1>3, <1>5, <2>2, StoredBeforeIs
    <3>2. QED
      BY <3>1 DEF First
  <2>4. /\ j.op = "read" => MovedIn(j.len, D, first)
        /\ j.op = "write" => MovedOut(j.len, D, first)
    BY <1>4, <1>6, <2>1 DEF PartIn, PartOut, MovedIn, MovedOut
  <2> HIDE DEF j, disk, D, first
  <2>5. FdcRight(j)
    BY <1>4, <1>5, <2>2, <2>3, <2>4 DEF FdcRight, D
  <2>6. QED
    BY <1>2, <2>5 DEF j
<1>9. QED
  BY <1>7, <1>8

-----------------------------------------------------------------------------
(* The theorems.                                                           *)

(* What AnswerRight says of a step. *)
Right ==
    /\ acsi.busy /\ ~acsi'.busy /\ acsi'.irq => AcsiRight(drv.job)
    /\ fdc.wait /\ ~fdc'.wait /\ fdc'.irq => FdcRight(drv.job)

(* Every step of the ARM keeps the invariant, and answers rightly. *)
LEMMA ArmStep ==
    ASSUME NoWrap, Inside, IInv, Disks', Arm
    PROVE  IInv' /\ Right
<1>1. CASE mist_get_dmastate
  <2>1. UNCHANGED <<acsi, fdc>>
    BY <1>1 DEF mist_get_dmastate
  <2>2. QED
    BY <1>1, <2>1, DmaStateStep DEF Right
<1>2. CASE handle_acsi
  BY <1>2, HandleAcsiStep DEF Right
<1>3. CASE StartSectors
  <2>1. UNCHANGED <<acsi, fdc>>
    BY <1>3 DEF StartSectors
  <2>2. QED
    BY <1>3, <2>1, StartSectorsStep DEF Right
<1>4. CASE AcsiSector
  <2>1. UNCHANGED <<acsi, fdc>>
    BY <1>4 DEF AcsiSector
  <2>2. QED
    BY <1>4, <2>1, AcsiSectorStep DEF Right
<1>5. CASE SectorsDone
  BY <1>5, SectorsDoneStep DEF Right
<1>6. CASE handle_fdc
  BY <1>6, HandleFdcStep DEF Right
<1>7. CASE FdcSector
  <2>1. UNCHANGED <<acsi, fdc>>
    BY <1>7 DEF FdcSector
  <2>2. QED
    BY <1>7, <2>1, FdcSectorStep DEF Right
<1>8. CASE FdcDone
  BY <1>8, FdcDoneStep DEF Right
<1>9. QED
  BY <1>1, <1>2, <1>3, <1>4, <1>5, <1>6, <1>7, <1>8 DEF Arm

(* The ARM alone answers. *)
LEMMA OthersStep ==
    ASSUME IInv, Disks',
           \/ Menu \/ Driver
           \/ \E j \in AcsiJobs : FirstByte(j)
           \/ \E j \in FdcJobs : FdcCommand(j)
    PROVE  IInv' /\ Right
<1>1. CASE Menu
  <2>1. MenuOnly
    BY <1>1 DEF Menu, tos_select_hdd_image, tos_set_direct_hdd, tos_insert_disk,
           SetProtection
  <2>2. QED
    BY <1>1, <2>1, MenuStep DEF Right, MenuOnly
<1>2. CASE NextByte
  <2>1. ~acsi.busy /\ fdc' = fdc
    BY <1>2 DEF NextByte, IInv, BusInv
  <2>2. QED
    BY <1>2, <2>1, NextByteStep DEF Right
<1>3. CASE CommandOver
  <2>1. acsi \in AcsiSet /\ fdc \in [wait : BOOLEAN, cmd : Command \cup {NoCommand},
                                     irq : BOOLEAN]
    BY DEF IInv, TypeOK, AcsiSet
  <2>2. /\ acsi' = IF drv.job.dev = "acsi" THEN [acsi EXCEPT !.irq = FALSE] ELSE acsi
        /\ fdc' = IF drv.job.dev = "fdc" THEN [fdc EXCEPT !.irq = FALSE] ELSE fdc
    BY <1>3 DEF CommandOver
  <2>3. acsi'.busy = acsi.busy /\ fdc'.wait = fdc.wait
    BY <2>1, <2>2 DEF AcsiSet
  <2>4. QED
    BY <1>3, <2>3, CommandOverStep DEF Right
<1>4. CASE CommandUnanswered
  <2>1. /\ acsi' = acsi
        /\ fdc' = IF drv.job.dev = "fdc"
                  THEN [wait |-> FALSE, cmd |-> NoCommand, irq |-> FALSE] ELSE fdc
    BY <1>4 DEF CommandUnanswered, GivesUp
  <2>2. fdc' = fdc \/ ~fdc'.irq
    BY <2>1
  <2>3. QED
    BY <1>4, <2>1, <2>2, UnansweredStep DEF Right
<1>5. ASSUME NEW j \in AcsiJobs, FirstByte(j) PROVE IInv' /\ Right
  <2>1. ~acsi.busy /\ ~fdc.wait
    BY <1>5 DEF FirstByte, Program, IInv, BusInv, Pending
  <2>2. QED
    BY <1>5, <2>1, FirstByteStep DEF Right
<1>6. ASSUME NEW j \in FdcJobs, FdcCommand(j) PROVE IInv' /\ Right
  <2>1. ~acsi.busy /\ ~fdc.wait
    BY <1>6 DEF FdcCommand, Program, IInv, BusInv, Pending
  <2>2. QED
    BY <1>6, <2>1, FdcCommandStep DEF Right
<1>7. QED
  BY <1>1, <1>2, <1>3, <1>4, <1>5, <1>6 DEF Driver

(* The invariant speaks of the variables alone. *)
LEMMA Stutters ==
    ASSUME IInv, UNCHANGED vars
    PROVE  IInv'
<1>1. UNCHANGED <<acsi, fdc, dma, status, ram, ctrl, system_ctrl, hdd_image,
                  hdd_direct, fdd_image, asc, card, arm, drv, before, why>>
  BY DEF vars, armVars
<1>2. Disks' /\ BusTypes' /\ DataTypes' /\ FloppyInv' /\ JobInv' /\ BusInv'
  BY <1>1, TypeParts DEF IInv, Disks, BusTypes, DataTypes, FloppyInv, JobInv,
     ArmType, BusInv, Pending
<1>3. ArmInv' /\ RestInv'
  BY <1>1 DEF IInv, ArmInv, RestInv, Moving, Pending
<1>4. AcsiLoop'
  <2> DEFINE D == Behind(drv.job.target)
             lba == drv.job.lba
             n == AcsiMoved
  <2>1. D' = D /\ n' = n /\ lba' = lba
        /\ (Supported(drv.job.target)' <=> Supported(drv.job.target))
    BY <1>1 DEF Behind, Supported, direct, AcsiMoved
  <2> HIDE DEF D, n, lba
  <2>2. Brought(n, D, lba)' = Brought(n, D, lba) /\ Taken(n, D, lba)' = Taken(n, D, lba)
    BY <1>1, <2>1 DEF Brought, Taken
  <2>3. /\ PartIn(n, D, lba)' <=> PartIn(n, D, lba)
        /\ PartOut(n, D, lba)' <=> PartOut(n, D, lba)
    BY <1>1, <2>1, <2>2 DEF PartIn, PartOut
  <2>4. AcsiLoop
    BY DEF IInv
  <2>5. QED
    BY <1>1, <2>1, <2>2, <2>3, <2>4 DEF AcsiLoop, D, n, lba
<1>5. FdcLoop'
  <2> DEFINE disk == FdcDisk
             D == Place[disk.file]
             first == First(drv.job, disk)
             n == FdcMoved
  <2>1. disk' = disk /\ D' = D /\ n' = n /\ first' = first
    BY <1>1 DEF FdcDisk, FdcMoved, First, FloppyOffset, SectorValid
  <2> HIDE DEF disk, D, n, first
  <2>2. /\ Brought(n, D, first)' = Brought(n, D, first)
        /\ Taken(n, D, first)' = Taken(n, D, first)
    BY <1>1, <2>1 DEF Brought, Taken
  <2>3. /\ PartIn(n, D, first)' <=> PartIn(n, D, first)
        /\ PartOut(n, D, first)' <=> PartOut(n, D, first)
    BY <1>1, <2>1, <2>2 DEF PartIn, PartOut
  <2>4. FdcLoop
    BY DEF IInv
  <2>5. QED
    BY <1>1, <2>1, <2>2, <2>3, <2>4 DEF FdcLoop, D, n, first, disk
<1>6. QED
  BY <1>2, <1>3, <1>4, <1>5, Collect

(* Every step keeps the invariant, and answers rightly. *)
LEMMA IStep ==
    ASSUME NoWrap, Inside, IInv, ServedInv, [Next]_vars
    PROVE  IInv' /\ ServedInv' /\ [Right]_vars
<1>1. ServedInv'
  BY ServedNext
<1>2. Disks'
  BY <1>1 DEF ServedInv
<1>3. CASE Next
  BY <1>1, <1>2, <1>3, ArmStep, OthersStep DEF Next
<1>4. CASE UNCHANGED vars
  BY <1>1, <1>4, Stutters
<1>5. QED
  BY <1>3, <1>4

(* The types, as long as no transfer wraps around 32 bits and the driver   *)
(* asks for sectors of the floppy that is in the drive.                    *)
THEOREM TypeCorrect ==
    ASSUME NoWrap, Inside
    PROVE  Spec => []TypeOK
<1>1. Init => IInv /\ ServedInv
  BY IInit, ServedInit
<1>2. IInv /\ ServedInv /\ [Next]_vars => (IInv /\ ServedInv)'
  BY IStep
<1>3. IInv => TypeOK
  BY DEF IInv
<1>4. QED
  BY <1>1, <1>2, <1>3, PTL DEF Spec

(* Every answer is the one to the command given, of the disk it was sent   *)
(* to.                                                                     *)
THEOREM AnswerCorrect ==
    ASSUME NoWrap, Inside
    PROVE  Spec => AnswerRight
<1>1. Init => IInv /\ ServedInv
  BY IInit, ServedInit
<1>2. IInv /\ ServedInv /\ [Next]_vars => (IInv /\ ServedInv)' /\ [Right]_vars
  BY IStep
<1>3. [Right]_vars <=>
        [/\ acsi.busy /\ ~acsi'.busy /\ acsi'.irq => AcsiRight(drv.job)
         /\ fdc.wait /\ ~fdc'.wait /\ fdc'.irq => FdcRight(drv.job)]_vars
  BY DEF Right
<1>4. QED
  BY <1>1, <1>2, <1>3, PTL DEF Spec, AnswerRight
=============================================================================
