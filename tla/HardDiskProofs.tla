--------------------------- MODULE HardDiskProofs ---------------------------
(***************************************************************************)
(* What holds of the hard disks for every geometry, size of the hardfile,  *)
(* index step, FIFO and counter, and every length of a transfer, when no   *)
(* disk ends with the last sector of the last cluster of its file          *)
(* (EndsInside): the registers, the lba, the cursor and the chain stay in  *)
(* step, the sectors that were sent and those that are stored or read are  *)
(* the same ones in the same order, and the FIFO never overflows.  The     *)
(* invariant is a count of sectors: how many the ARM has given or taken,   *)
(* how many the Amiga has, and what lies in between them in the FIFO.      *)
(***************************************************************************)
EXTENDS HardDisk, FiniteSetTheorems, SequenceTheorems,
        WellFoundedInduction, TLAPS

-----------------------------------------------------------------------------
(* The hypothesis.                                                         *)

FileTypes == {"file", "synth"}

(* Where a disk ends, as an address of the file or of the card. *)
Span(t) == Capacity(t) + offset(t)

Last == ClusterIndex(FileSize - 1)

-----------------------------------------------------------------------------
(* The cursor on the file.                                                 *)

(* A sequence of clusters that follows the links. *)
Follows(w, n) ==
    /\ w \in [0 .. n -> Links]
    /\ \A i \in 1 .. n : w[i] = NextCluster(w[i - 1])

ChainWalk(w, n) ==
    /\ Follows(w, n)
    /\ w[0] = FileStart
    /\ \A i \in 0 .. n : w[i] \in Clusters

Chain == CHOOSE w : ChainWalk(w, Last)

(* The sectors a cursor may be moved to. *)
Within == {s \in 0 .. FileSize : ClusterIndex(s) <= Last}

Cursor(s) == [sector |-> s, cluster |-> Chain[ClusterIndex(s)]]

At(u, l) == IF IsFile(u) THEN FilePlace[l] ELSE l

-----------------------------------------------------------------------------
(* The invariant.                                                          *)

Regs == [cmd : Commands, unit : Units, pos : [cyl : Nat, head : Nat, sec : Nat],
         count : Nat, err : {0, 4}]

HostSet == [pc : {"idle", "irq", "in", "out"}, req : Regs, done : Nat,
            blk : 0 .. FifoSectors, got : Seq(Contents)]

GayleSet == [busy : BOOLEAN, pio_in : BOOLEAN, pio_out : BOOLEAN,
             intreq : BOOLEAN, error : BOOLEAN, tfr : Regs,
             sector_count : 0 .. CountMod - 1, fifo : Seq(Contents)]

ReadSteps == {"read", "rwait", "rdata"}
MultipleSteps == {"mwait", "mdata", "mtask"}
WriteSteps == {"wwait", "store"}

ArmSet == [pc : ReadSteps \cup MultipleSteps \cup WriteSteps,
           cmd : Reads \cup Writes, unit : Units,
           pos : [cyl : Nat, head : Nat, sec : Nat],
           left : 0 .. CountMod, count : Nat,
           blk : 0 .. FifoSectors, buf : Int, lba : Int]

Disks == [Units -> [type : Types, spb : BlockSizes \cup {0},
                    file : [sector : 0 .. FileSize, cluster : Links]]]

Images == [CardSectors -> Int]

TypeInv ==
    /\ gayle \in GayleSet
    /\ arm = NoJob \/ arm \in ArmSet
    /\ hdf \in Disks
    /\ card \in Images
    /\ host \in HostSet
    /\ image \in Images

Transfers == Reads \cup Writes

(* The address of the request of the Amiga. *)
First == Address(0)
Base == First + offset(TypeOf(host.req.unit))

RequestInv ==
    /\ host.req.cmd \in Transfers =>
          /\ host.req.pos \in Positions(TypeOf(host.req.unit))
          /\ host.req.count \in 0 .. CountMod - 1
          /\ First + Moving <= Capacity(TypeOf(host.req.unit))
    /\ host.req.cmd = "READ" => Base >= -1 \/ Moving = 1
    /\ host.req.cmd = "READM" => Base >= 0
    /\ host.req.cmd \in Multiple => hdf[host.req.unit].spb > 0
    /\ host.req.cmd = "SETMULTIPLE" => host.req.count \in BlockSizes
    /\ host.req.cmd = "IDENTIFY" => host.req.count = 1

FilesInv == \A u \in Units :
    IsFile(u) => hdf[u].file.sector \in Within /\ hdf[u].file = Cursor(hdf[u].file.sector)

(* The ARM stores the last sector of a command that is already answered,   *)
(* or writes registers that nobody waits for. *)
Late == arm.pc = "store" /\ arm.left = 0 /\ arm.cmd = "WRITE"
Behind == arm.pc = "mtask" /\ arm.left = 0
Engaged == arm.pc # "idle" /\ ~Late /\ ~Behind

(* The sectors the ARM has taken or given. *)
Progress == Moving - arm.left

ArmPlace ==
    arm.pc # "idle" =>
        /\ arm.pc \in ReadSteps => arm.cmd = "READ"
        /\ arm.pc \in MultipleSteps => arm.cmd = "READM"
        /\ arm.pc \in WriteSteps => arm.cmd \in Writes
        /\ arm.pos \in Positions(TypeOf(arm.unit))
        /\ arm.pc \notin {"mtask", "store"} => arm.left >= 1
        /\ arm.pc \in {"mdata", "wwait"} => arm.blk >= 1
        /\ arm.pc \in {"mdata", "wwait", "store"} => arm.blk <= arm.left
        /\ arm.cmd = "WRITE" /\ arm.pc = "wwait" => arm.blk = 1
        /\ arm.cmd = "WRITE" /\ arm.pc = "store" => arm.blk = 0
        /\ IsFile(arm.unit) /\ arm.lba >= 0 => hdf[arm.unit].file.sector = arm.lba
        /\ IsFile(arm.unit) /\ arm.lba < 0 => hdf[arm.unit].file.sector = 0
        /\ arm.lba >= offset(TypeOf(arm.unit))
        /\ arm.lba + arm.left <= Span(TypeOf(arm.unit))
        /\ arm.pc = "store" => arm.lba + arm.left + 1 <= Span(TypeOf(arm.unit))
        /\ arm.cmd = "READM" => arm.lba >= 0
        /\ arm.pc \in {"rwait", "rdata"} => ~Special

(* The registers of the ARM stand for sector n, or the last one. *)
PosAt(n) ==
    /\ n < Moving => chs2lba(TypeOf(arm.unit), arm.pos) = First + n
    /\ n >= Moving => chs2lba(TypeOf(arm.unit), arm.pos) = First + (Moving - 1)

ArmServes ==
    /\ Engaged =>
        /\ arm.cmd = host.req.cmd /\ arm.unit = host.req.unit
        /\ arm.count = host.req.count
        /\ arm.left <= Moving
        /\ arm.pc # "store" => arm.lba = Base + Progress
        /\ arm.pc = "store" => arm.lba = Base + Progress - 1
        /\ arm.pc \in {"rwait", "rdata"} => PosAt(Progress + 1)
        /\ arm.pc \notin {"rwait", "rdata"} => PosAt(Progress)
        /\ arm.pc \in {"rwait", "rdata"} =>
              gayle.tfr.pos = arm.pos /\ gayle.tfr.unit = arm.unit
    /\ Behind => host.req.cmd = "READM"

(* The Amiga has no command. *)
Rest ==
    /\ ~Engaged
    /\ host.pc = "idle"
    /\ ~gayle.busy /\ ~gayle.pio_in /\ ~gayle.pio_out /\ ~gayle.intreq
    /\ gayle.fifo = <<>>

(* It has given one that the ARM has not found. *)
Fresh ==
    /\ arm.pc = "idle" \/ Late
    /\ gayle.busy /\ ~gayle.pio_in /\ ~gayle.pio_out /\ ~gayle.intreq
    /\ gayle.fifo = <<>>
    /\ gayle.tfr = host.req
    /\ gayle.sector_count = host.req.count
    /\ host.done = 0 /\ host.got = <<>>
    /\ host.req.cmd \in Writes =>
          host.pc = "out" /\ host.blk = Block(host.req.cmd, Moving, host.req.unit)
    /\ host.req.cmd \notin Writes => host.pc = "irq"

(* The ARM has given n sectors, and the block ends after e. *)
Given(n, e) ==
    /\ host.req.cmd \in Reads \cup {"IDENTIFY"}
    /\ host.pc \in {"irq", "in"}
    /\ host.done < Moving
    /\ host.done + Len(gayle.fifo) = n
    /\ ~gayle.pio_out
    /\ gayle.pio_in \/ (arm.pc = "read" /\ IsFile(arm.unit) /\ gayle.fifo = <<>>)
    /\ host.pc = "irq" /\ gayle.intreq =>
          e = host.done + Block(host.req.cmd, Moving - host.done, host.req.unit)
    /\ host.pc = "irq" /\ ~gayle.intreq => e = host.done
    /\ host.pc = "in" => ~gayle.intreq /\ host.blk >= 1 /\ e = host.done + host.blk
    /\ Len(host.got) = host.done
    /\ gayle.sector_count \in {Moving - host.done, Moving - host.done - CountMod}
    /\ host.req.cmd \in Reads =>
          \A j \in 1 .. Len(gayle.fifo) :
             gayle.fifo[j] = Expected(host.req.cmd, host.req.unit,
                                      First + (host.done + j - 1))

LastRegisters ==
    /\ gayle.tfr.unit = host.req.unit
    /\ chs2lba(TypeOf(host.req.unit), gayle.tfr.pos) = First + (Moving - 1)

(* The ARM has taken p sectors, and the block ends after e. *)
Asked(p, e) ==
    /\ host.req.cmd \in Writes
    /\ host.pc \in {"irq", "out"}
    /\ gayle.busy /\ ~gayle.pio_in /\ gayle.pio_out
    /\ host.done = p + Len(gayle.fifo)
    /\ e <= Moving
    /\ host.pc = "irq" /\ gayle.intreq =>
          /\ host.done = p /\ p < Moving
          /\ e = p + Block(host.req.cmd, Moving - p, host.req.unit)
    /\ host.pc = "irq" /\ ~gayle.intreq => host.done = e
    /\ host.pc = "out" => ~gayle.intreq /\ host.blk >= 1 /\ e = host.done + host.blk
    /\ \A i \in 1 .. Len(gayle.fifo) : gayle.fifo[i].kind = "stored"

(* It is answered, and nothing is left to move. *)
Over ==
    /\ host.req.cmd \notin Reads \cup {"IDENTIFY"}
    /\ host.pc = "irq" /\ gayle.intreq
    /\ ~gayle.busy /\ ~gayle.pio_in /\ ~gayle.pio_out /\ gayle.fifo = <<>>
    /\ host.done = Moving
    /\ host.req.cmd \in Writes => LastRegisters

BusInv ==
    /\ ~Engaged =>
          \/ Rest \/ Fresh \/ Over
          \/ /\ arm.pc # "store"
             /\ Given(Moving, Moving)
             /\ host.req.cmd = "READ" => LastRegisters
    /\ Engaged /\ arm.pc \in ReadSteps \cup MultipleSteps => gayle.busy
    /\ arm.pc \in {"read", "rwait", "mwait"} => Given(Progress, Progress)
    /\ arm.pc = "mtask" /\ arm.left > 0 => Given(Progress, Progress)
    /\ arm.pc = "rdata" => Given(Progress, Progress + 1)
    /\ arm.pc = "mdata" => Given(Progress, Progress + arm.blk)
    /\ arm.pc = "read" /\ gayle.intreq => gayle.fifo # <<>>
    /\ arm.pc = "wwait" => Asked(Progress, Progress + arm.blk)
    /\ arm.pc = "store" /\ arm.cmd = "WRITEM" => Asked(Progress, Progress + arm.blk)
    /\ arm.pc = "store" /\ arm.cmd = "WRITE" /\ arm.left > 0 =>
          Asked(Progress, Progress + 1)

(* What the Amiga has of the command. *)
DoneInv ==
    /\ host.pc = "idle" /\ host.done > 0 =>
          /\ host.done = Moving
          /\ host.req.cmd \in {"READ"} \cup Writes => LastRegisters
    /\ host.req.cmd \in Reads =>
          \A i \in 1 .. Len(host.got) :
             host.got[i] = Expected(host.req.cmd, host.req.unit, First + (i - 1))

(* The sectors that are on their way from the Amiga to the card. *)
QLen == IF arm.pc = "store" THEN Len(gayle.fifo) + 1
        ELSE IF arm.pc = "wwait" THEN Len(gayle.fifo) ELSE 0
QVal(j) == IF arm.pc = "store" THEN IF j = 0 THEN arm.buf ELSE gayle.fifo[j].val
           ELSE gayle.fifo[j + 1].val

(* Those of them that will be sector s of the card. *)
Hits(s) ==
    {j \in 0 .. QLen - 1 :
        /\ IsFile(arm.unit) => arm.lba + j >= 0
        /\ At(arm.unit, arm.lba + j) = s}

StoreInv ==
    \A s \in CardSectors :
        /\ Hits(s) = {} => image[s] = card[s]
        /\ \A j \in Hits(s) :
              (\A k \in Hits(s) : k <= j) => image[s] = QVal(j)

IInv ==
    TypeInv /\ RequestInv /\ FilesInv /\ ArmPlace /\ ArmServes /\ BusInv
      /\ DoneInv /\ StoreInv

-----------------------------------------------------------------------------
(* Geometry.                                                               *)

(* The product of two naturals is one, and it grows with its factors. *)
LEMMA Products ==
    /\ \A a, b \in Nat : a * b \in Nat
    /\ \A a, b, c \in Nat : a <= b => a * c <= b * c
    OBVIOUS

(* A track holds a sector, and a disk has a whole number of tracks. *)
LEMMA GeometryTypes == \A t \in Types :
    /\ Heads[t] \in Nat \ {0} /\ Sectors[t] \in Nat \ {0}
    /\ Heads[t] * Sectors[t] \in Nat \ {0}
    /\ Cylinders(t) \in Nat
    /\ Capacity(t) \in Nat
    /\ offset(t) \in Int
    /\ t = "card" => Capacity(t) <= PartSize /\ offset(t) = PartStart
    /\ t # "card" => offset(t) <= 0 /\ Capacity(t) + offset(t) <= FileSize
    /\ t = "file" => offset(t) = 0
    /\ t = "synth" => offset(t) < 0
PROOF
  <1> SUFFICES ASSUME NEW t \in Types
               PROVE  /\ Heads[t] \in Nat \ {0} /\ Sectors[t] \in Nat \ {0}
                      /\ Heads[t] * Sectors[t] \in Nat \ {0}
                      /\ Cylinders(t) \in Nat
                      /\ Capacity(t) \in Nat
                      /\ offset(t) \in Int
                      /\ t = "card" => Capacity(t) <= PartSize /\ offset(t) = PartStart
                      /\ t # "card" => offset(t) <= 0 /\ Capacity(t) + offset(t) <= FileSize
                      /\ t = "file" => offset(t) = 0
                      /\ t = "synth" => offset(t) < 0
      OBVIOUS
  <1>1. Heads[t] \in Nat \ {0} /\ Sectors[t] \in Nat \ {0}
      BY HardDiskAssumption
  <1>2. PICK h \in Nat \ {0} : h = Heads[t]
      BY <1>1
  <1>3. PICK s \in Nat \ {0} : s = Sectors[t]
      BY <1>1
  <1>4. h * s \in Nat \ {0}
      OBVIOUS
  <1>5. PICK k \in Nat \ {0} : k = h * s
      BY <1>4
  <1>6. \A n \in Nat : n \div k \in Nat /\ (n \div k) * k <= n
      OBVIOUS
  <1>7. FileSize \in Nat /\ PartSize \in Nat /\ PartStart \in Nat
      BY HardDiskAssumption
  <1>8. t = "card" \/ t = "synth" \/ t = "file"
      BY DEF Types
  <1>9. \A c \in Nat : c * h * s = c * k
      BY <1>5
  <1>10. /\ t = "card" => Cylinders(t) = PartSize \div k
         /\ t = "synth" => Cylinders(t) = FileSize \div k + 1
         /\ t = "file" => Cylinders(t) = FileSize \div k
      BY <1>2, <1>3, <1>5 DEF Cylinders
  <1>11. Cylinders(t) \in Nat
      BY <1>6, <1>7, <1>8, <1>10
  <1>12. PICK c \in Nat : c = Cylinders(t)
      BY <1>11
  <1>13. Capacity(t) = c * k
      BY <1>2, <1>3, <1>9, <1>12 DEF Capacity
  <1>14. /\ t = "card" => offset(t) = PartStart
         /\ t = "synth" => offset(t) = -k
         /\ t = "file" => offset(t) = 0
      BY <1>2, <1>3, <1>5 DEF offset
  <1>15. c * k \in Nat
      BY Products
  <1>16. CASE t = "card"
    <2>1. c * k <= PartSize
        BY <1>6, <1>7, <1>10, <1>12, <1>16
    <2> QED
        BY <1>1, <1>2, <1>3, <1>4, <1>7, <1>11, <1>13, <1>14, <1>15, <1>16, <2>1
  <1>17. CASE t = "synth"
    <2>1. PICK d \in Nat : d = FileSize \div k
        BY <1>6, <1>7
    <2>2. d * k <= FileSize
        BY <1>6, <1>7, <2>1
    <2>3. c * k = d * k + k
        BY <1>10, <1>12, <1>17, <2>1
    <2>4. d * k \in Nat
        BY Products
    <2>5. c * k + (-k) <= FileSize
        BY <1>7, <2>2, <2>3, <2>4
    <2> QED
        BY <1>1, <1>2, <1>3, <1>4, <1>7, <1>11, <1>13, <1>14, <1>15, <1>17, <2>5
  <1>18. CASE t = "file"
    <2>1. c * k <= FileSize
        BY <1>6, <1>7, <1>10, <1>12, <1>18
    <2> QED
        BY <1>1, <1>2, <1>3, <1>4, <1>7, <1>11, <1>13, <1>14, <1>15, <1>18, <2>1
  <1> QED
      BY <1>8, <1>16, <1>17, <1>18

(* A position of a disk is one of its addresses. *)
LEMMA AddressTypes == ASSUME NEW t \in Types, NEW p \in Positions(t)
    PROVE  /\ p.cyl \in Nat /\ p.head \in Nat /\ p.sec \in Nat
           /\ chs2lba(t, p) \in Nat
           /\ chs2lba(t, p) < Capacity(t)
PROOF
  <1>1. PICK h \in Nat \ {0} : h = Heads[t]
      BY GeometryTypes
  <1>2. PICK s \in Nat \ {0} : s = Sectors[t]
      BY GeometryTypes
  <1>3. PICK c \in Nat : c = Cylinders(t)
      BY GeometryTypes
  <1>4. p.cyl \in 0 .. c - 1 /\ p.head \in 0 .. h - 1 /\ p.sec \in 1 .. s
      BY <1>1, <1>2, <1>3 DEF Positions
  <1>5. PICK x \in 0 .. c - 1 : x = p.cyl
      BY <1>4
  <1>6. PICK y \in 0 .. h - 1 : y = p.head
      BY <1>4
  <1>7. PICK z \in 1 .. s : z = p.sec
      BY <1>4
  <1>8. x * h \in Nat /\ x * h <= c * h - h
    <2>1. x + 1 <= c
        OBVIOUS
    <2>2. (x + 1) * h <= c * h
        BY <2>1, Products
    <2>3. (x + 1) * h = x * h + h /\ x * h \in Nat /\ c * h \in Nat
        BY Products
    <2> QED
        BY <2>2, <2>3
  <1>9. PICK q \in Nat : q = x * h + y
      BY <1>8
  <1>10. PICK r \in Nat : r = c * h
      BY Products
  <1>11. q + 1 <= r
      BY <1>8, <1>9, <1>10
  <1>12. q * s \in Nat /\ (q + 1) * s <= r * s /\ r * s \in Nat
      BY <1>11, Products
  <1>13. (q + 1) * s = q * s + s
      OBVIOUS
  <1>14. chs2lba(t, p) = q * s + z - 1
      BY <1>1, <1>2, <1>5, <1>6, <1>7, <1>9 DEF chs2lba
  <1>15. Capacity(t) = r * s
      BY <1>1, <1>2, <1>3, <1>10 DEF Capacity
  <1> QED
      BY <1>4, <1>12, <1>13, <1>14, <1>15

(* The registers count from one address of a disk to the next. *)
LEMMA AdvanceStep ==
    ASSUME NEW t \in Types, NEW p \in Positions(t), chs2lba(t, p) + 1 < Capacity(t)
    PROVE  /\ Advance(t, p) \in Positions(t)
           /\ chs2lba(t, Advance(t, p)) = chs2lba(t, p) + 1
PROOF
  <1>1. PICK h \in Nat \ {0} : h = Heads[t]
      BY GeometryTypes
  <1>2. PICK s \in Nat \ {0} : s = Sectors[t]
      BY GeometryTypes
  <1>3. PICK c \in Nat : c = Cylinders(t)
      BY GeometryTypes
  <1>4. p \in [cyl : 0 .. c - 1, head : 0 .. h - 1, sec : 1 .. s]
      BY <1>1, <1>2, <1>3 DEF Positions
  <1>5. PICK x \in 0 .. c - 1 : x = p.cyl
      BY <1>4
  <1>6. PICK y \in 0 .. h - 1 : y = p.head
      BY <1>4
  <1>7. PICK z \in 1 .. s : z = p.sec
      BY <1>4
  <1>8. x * h \in Nat /\ (x + 1) * h = x * h + h
      BY Products
  <1>9. PICK q \in Nat : q = x * h + y
      BY <1>8
  <1>10. q * s \in Nat /\ (q + 1) * s = q * s + s
      BY Products
  <1>11. chs2lba(t, p) = q * s + z - 1
      BY <1>1, <1>2, <1>5, <1>6, <1>7, <1>9 DEF chs2lba
  <1>12. CASE z # s
    <2>1. Advance(t, p) = [p EXCEPT !.sec = z + 1]
        BY <1>2, <1>7, <1>12 DEF Advance
    <2>2. [p EXCEPT !.sec = z + 1] = [cyl |-> x, head |-> y, sec |-> z + 1]
        BY <1>4, <1>5, <1>6
    <2>3. PICK a : a = [cyl |-> x, head |-> y, sec |-> z + 1]
        OBVIOUS
    <2>4. a.cyl = x /\ a.head = y /\ a.sec = z + 1
        BY <2>3
    <2>5. a \in Positions(t)
        BY <1>1, <1>2, <1>3, <1>12, <2>3 DEF Positions
    <2>6. chs2lba(t, a) = q * s + (z + 1) - 1
        BY <1>1, <1>2, <1>9, <2>4 DEF chs2lba
    <2> QED
        BY <1>10, <1>11, <2>1, <2>2, <2>3, <2>5, <2>6
  <1>13. CASE z = s /\ y + 1 # h
    <2>3. PICK a : a = [cyl |-> x, head |-> y + 1, sec |-> 1]
        OBVIOUS
    <2>2. Advance(t, p) = a
        BY <1>1, <1>2, <1>5, <1>6, <1>7, <1>13, <2>3 DEF Advance
    <2>4. a.cyl = x /\ a.head = y + 1 /\ a.sec = 1
        BY <2>3
    <2>5. a \in Positions(t)
        BY <1>1, <1>2, <1>3, <1>13, <2>3 DEF Positions
    <2>6. q + 1 = x * h + (y + 1)
        BY <1>8, <1>9
    <2>7. chs2lba(t, a) = (q + 1) * s + 1 - 1
        BY <1>1, <1>2, <2>4, <2>6 DEF chs2lba
    <2> QED
        BY <1>10, <1>11, <1>13, <2>2, <2>5, <2>7
  <1>14. CASE z = s /\ y + 1 = h
    <2>1. PICK a : a = [cyl |-> x + 1, head |-> 0, sec |-> 1]
        OBVIOUS
    <2>2. Advance(t, p) = a
        BY <1>1, <1>2, <1>5, <1>6, <1>7, <1>14, <2>1 DEF Advance
    <2>3. a.cyl = x + 1 /\ a.head = 0 /\ a.sec = 1
        BY <2>1
    <2>4. q + 1 = (x + 1) * h + 0
        BY <1>8, <1>9, <1>14
    <2>5. chs2lba(t, a) = (q + 1) * s + 1 - 1
        BY <1>1, <1>2, <2>3, <2>4 DEF chs2lba
    <2>6. x + 1 # c
      <3>1. SUFFICES ASSUME x + 1 = c
                     PROVE  FALSE
          OBVIOUS
      <3>2. q + 1 = c * h
          BY <1>8, <1>9, <1>14, <3>1
      <3>3. Capacity(t) = (q + 1) * s
          BY <1>1, <1>2, <1>3, <3>2 DEF Capacity
      <3>4. chs2lba(t, p) + 1 = (q + 1) * s
          BY <1>10, <1>11, <1>14
      <3> QED
          BY <1>10, <3>3, <3>4
    <2>7. a \in Positions(t)
        BY <1>1, <1>2, <1>3, <2>1, <2>6 DEF Positions
    <2> QED
        BY <1>10, <1>11, <1>14, <2>2, <2>5, <2>7
  <1> QED
      BY <1>12, <1>13, <1>14

-----------------------------------------------------------------------------
(* The cursor.                                                             *)

(* What SMT needs to know of the division by the cluster size. *)
LEMMA ClusterIndexes ==
    /\ \A s \in Nat : ClusterIndex(s) \in Nat
    /\ \A r, s \in Nat : r <= s => ClusterIndex(r) <= ClusterIndex(s)
    /\ ClusterIndex(0) = 0
    BY FatAssumption DEF ClusterIndex

(* A walk along a chain is determined by its start. *)
LEMMA OneWalk ==
    ASSUME NEW n \in Nat, NEW m \in Nat, NEW k \in Nat, m + k <= n,
           NEW v, Follows(v, n), NEW w, Follows(w, m), w[0] = v[k]
    PROVE  \A i \in 0 .. m : w[i] = v[k + i]
PROOF
  <1> DEFINE P(i) == w[i] = v[k + i]
  <1>1. P(0)
      OBVIOUS
  <1>2. ASSUME NEW i \in 0 .. m - 1, P(i)
        PROVE  P(i + 1)
    <2>1. i + 1 \in 1 .. m /\ k + (i + 1) \in 1 .. n
        OBVIOUS
    <2>2. w[i + 1] = NextCluster(w[(i + 1) - 1]) /\ (i + 1) - 1 = i
        BY <2>1 DEF Follows
    <2>3. /\ v[k + (i + 1)] = NextCluster(v[(k + (i + 1)) - 1])
          /\ (k + (i + 1)) - 1 = k + i
        BY <2>1 DEF Follows
    <2> QED
        BY <1>2, <2>2, <2>3
  <1> HIDE DEF P
  <1> SUFFICES ASSUME NEW j \in 0 .. m, ~P(j)
               PROVE  FALSE
      BY DEF P
  <1> DEFINE Bad == {i \in Nat : i \in 0 .. m /\ ~P(i)}
  <1>3. j \in Bad
      OBVIOUS
  <1>4. PICK b \in Bad : \A i \in Bad : ~(<<i, b>> \in OpToRel(<, Nat))
      BY <1>3, WFMin, NatLessThanWellFounded
  <1>5. b # 0
      BY <1>1, <1>4
  <1>6. b - 1 \in 0 .. m - 1 /\ (b - 1) + 1 = b
    <2>1. b \in 0 .. m
        BY <1>4
    <2>2. m \in Nat
        OBVIOUS
    <2> HIDE DEF Bad
    <2> QED
        BY <1>5, <2>1, <2>2
  <1>7. P(b - 1)
    <2>1. <<b - 1, b>> \in OpToRel(<, Nat)
        BY <1>4, <1>6 DEF OpToRel
    <2>2. b - 1 \notin Bad
        BY <1>4, <2>1
    <2> QED
        BY <1>6, <2>2
  <1> QED
      BY <1>2, <1>4, <1>6, <1>7

(* The chain of the file, and where it is on the card. *)
LEMMA ChainProperties ==
    /\ Last \in Nat
    /\ ChainWalk(Chain, Last)
    /\ \A s \in 0 .. FileSize - 1 :
          /\ ClusterIndex(s) \in 0 .. Last
          /\ FilePlace[s] = FileSector(Cursor(s))
          /\ FilePlace[s] \in CardSectors
PROOF
  <1>1. FileSize \in Nat \ {0} /\ FileSize - 1 \in Nat
      BY HardDiskAssumption
  <1>2. Last \in Nat
      BY <1>1, ClusterIndexes DEF Last
  <1>3. \E w : ChainWalk(w, Last)
    <2>1. FileSize - 1 \in 0 .. FileSize - 1
        BY <1>1
    <2>2. PICK c \in Clusters : InChain(FileStart, FileSize - 1, c)
        BY <2>1, HardDiskAssumption
    <2>3. PICK w \in [0 .. Last -> Clusters] :
             w[0] = FileStart /\ \A i \in 1 .. Last : w[i] = NextCluster(w[i - 1])
        BY <2>2 DEF InChain, Last
    <2> QED
        BY <2>3 DEF ChainWalk, Follows, Links
  <1>4. ChainWalk(Chain, Last)
      BY <1>3 DEF Chain
  <1>5. \A s \in 0 .. FileSize - 1 : ClusterIndex(s) \in 0 .. Last
    <2> SUFFICES ASSUME NEW s \in 0 .. FileSize - 1
                 PROVE  ClusterIndex(s) \in 0 .. Last
        OBVIOUS
    <2>1. s \in Nat /\ s <= FileSize - 1
        BY <1>1
    <2> QED
        BY <1>1, <1>2, <2>1, ClusterIndexes DEF Last
  <1>6. ASSUME NEW s \in 0 .. FileSize - 1, NEW c \in Clusters, InChain(FileStart, s, c)
        PROVE  c = Chain[ClusterIndex(s)]
    <2>1. PICK n \in 0 .. Last : n = ClusterIndex(s)
        BY <1>5
    <2>2. PICK w \in [0 .. n -> Clusters] :
             /\ w[0] = FileStart
             /\ \A i \in 1 .. n : w[i] = NextCluster(w[i - 1])
             /\ w[n] = c
        BY <1>6, <2>1 DEF InChain
    <2>3. Follows(Chain, Last) /\ Chain[0] = FileStart
        BY <1>4 DEF ChainWalk
    <2>4. Follows(w, n)
        BY <2>2 DEF Links, Follows
    <2>5. w[0] = Chain[0] /\ n + 0 <= Last /\ n \in Nat
        BY <1>2, <2>2, <2>3
    <2>6. \A i \in 0 .. n : w[i] = Chain[0 + i]
        BY <1>2, <2>3, <2>4, <2>5, OneWalk
    <2> QED
        BY <1>2, <2>1, <2>2, <2>6
  <1>7. ASSUME NEW s \in 0 .. FileSize - 1
        PROVE  FilePlace[s] = FileSector(Cursor(s)) /\ FilePlace[s] \in CardSectors
    <2>1. PICK c \in Clusters :
             /\ InChain(FileStart, s, c)
             /\ FileSector([sector |-> s, cluster |-> c]) \in CardSectors
        BY HardDiskAssumption
    <2>2. c = Chain[ClusterIndex(s)]
        BY <1>6, <2>1
    <2>3. (CHOOSE d \in Clusters : InChain(FileStart, s, d)) = c
        BY <1>6, <2>1, <2>2
    <2> QED
        BY <2>1, <2>2, <2>3 DEF FilePlace, Cursor
  <1> QED
      BY <1>2, <1>4, <1>5, <1>7

(* From a sector of the file, a seek ends at the sector that is sought. *)
LEMMA SeekCursor ==
    ASSUME NEW s \in Within, NEW l \in Within
    PROVE  FileSeek(Cursor(s), FileStart, l) = {Cursor(l)}
PROOF
  <1>1. /\ FileSize \in Nat \ {0} /\ Last \in Nat
        /\ s \in Nat /\ l \in Nat
        /\ ClusterIndex(s) \in 0 .. Last /\ ClusterIndex(l) \in 0 .. Last
      BY HardDiskAssumption, ChainProperties, ClusterIndexes DEF Within
  <1>2. /\ Follows(Chain, Last) /\ Chain[0] = FileStart
        /\ \A i \in 0 .. Last : Chain[i] \in Clusters
      BY ChainProperties DEF ChainWalk
  <1>3. PICK b : b = SeekBase(Cursor(s), FileStart, l)
      OBVIOUS
  <1>4. PICK r \in Nat : /\ b = Cursor(r)
                         /\ ClusterIndex(r) <= ClusterIndex(l)
    <2>1. Cursor(s).sector = s /\ Cursor(s).cluster = Chain[ClusterIndex(s)]
        BY DEF Cursor
    <2>2. CASE s > l /\ ClusterIndex(s) # ClusterIndex(l)
      <3>1. b = Cursor(0)
          BY <1>2, <1>3, <2>1, <2>2, ClusterIndexes DEF SeekBase, Cursor
      <3> QED
          BY <1>1, <3>1, ClusterIndexes
    <2>3. CASE s > l /\ ClusterIndex(s) = ClusterIndex(l)
      <3>1. b = [Cursor(s) EXCEPT !.sector = l]
          BY <1>3, <2>1, <2>3 DEF SeekBase
      <3>2. b = Cursor(l)
          BY <2>3, <3>1 DEF Cursor
      <3> QED
          BY <1>1, <3>2
    <2>4. CASE ~(s > l)
      <3>1. b = Cursor(s)
          BY <1>3, <2>1, <2>4 DEF SeekBase
      <3>2. ClusterIndex(s) <= ClusterIndex(l)
          BY <1>1, <2>4, ClusterIndexes
      <3> QED
          BY <1>1, <3>1, <3>2
    <2> QED
        BY <2>2, <2>3, <2>4
  <1>5. b.sector = r /\ b.cluster = Chain[ClusterIndex(r)]
      BY <1>4 DEF Cursor
  <1>6. PICK k \in Nat : k = ClusterIndex(r)
      BY ClusterIndexes
  <1>7. PICK n \in Nat : n = SeekSteps(b, l) /\ k + n = ClusterIndex(l)
    <2>1. SeekSteps(b, l) = ClusterIndex(l) - k
        BY <1>5, <1>6 DEF SeekSteps
    <2> QED
        BY <1>1, <1>4, <1>6, <2>1
  <1>8. k + n <= Last
      BY <1>1, <1>7
  <1>9. EOC \notin Clusters
      BY FatAssumption
  <1>10. ASSUME NEW w \in SeekWalks(b, l)
         PROVE  /\ w[n] = Chain[k + n]
                /\ \A i \in 1 .. n : w[i] # EOC
    <2>1. Follows(w, n) /\ w[0] = b.cluster
        BY <1>7 DEF SeekWalks, Follows
    <2>2. w[0] = Chain[k]
        BY <1>5, <1>6, <2>1
    <2>3. n + k <= Last
        BY <1>1, <1>8
    <2>4. \A i \in 0 .. n : w[i] = Chain[k + i]
        BY <1>1, <1>2, <2>1, <2>2, <2>3, OneWalk
    <2>5. \A i \in 1 .. n : w[i] \in Clusters
      <3> TAKE i \in 1 .. n
      <3>1. i \in 0 .. n /\ k + i \in 0 .. Last
          BY <1>1, <1>8
      <3> QED
          BY <1>2, <2>4, <3>1
    <2> QED
        BY <1>9, <2>4, <2>5
  <1>11. \E w : w \in SeekWalks(b, l)
    <2>1. PICK w : w = [i \in 0 .. n |-> Chain[k + i]]
        OBVIOUS
    <2>2. w \in [0 .. n -> Links]
      <3>1. \A i \in 0 .. n : k + i \in 0 .. Last
          BY <1>1, <1>8
      <3> QED
          BY <1>2, <2>1, <3>1 DEF Links
    <2>3. w[0] = b.cluster
        BY <1>5, <1>6, <2>1
    <2>4. \A i \in 1 .. n : w[i] = NextCluster(w[i - 1])
      <3> TAKE i \in 1 .. n
      <3>1. k + i \in 1 .. Last /\ (k + i) - 1 = k + (i - 1)
          BY <1>1, <1>8
      <3>2. w[i] = Chain[k + i] /\ w[i - 1] = Chain[k + (i - 1)]
          BY <2>1
      <3> QED
          BY <1>2, <3>1, <3>2 DEF Follows
    <2> QED
        BY <1>7, <2>2, <2>3, <2>4 DEF SeekWalks
  <1>12. SeekFailed(b, l) = {}
      BY <1>7, <1>10 DEF SeekFailed
  <1>13. SeekFound(b, l) = {Cursor(l)}
    <2>1. \A w \in SeekWalks(b, l) :
             [sector |-> l, cluster |-> w[SeekSteps(b, l)]] = Cursor(l)
        BY <1>7, <1>10 DEF Cursor
    <2>2. \A w \in SeekWalks(b, l) : \A i \in 1 .. SeekSteps(b, l) : w[i] # EOC
        BY <1>7, <1>10
    <2> QED
        BY <1>11, <2>1, <2>2 DEF SeekFound
  <1> QED
      BY <1>3, <1>12, <1>13 DEF FileSeek

(* A cursor within the file is one the seek is tabulated for. *)
LEMMA CursorTypes == ASSUME NEW s \in Within
    PROVE  /\ s \in 0 .. FileSize
           /\ Cursor(s) \in [sector : 0 .. FileSize, cluster : Links]
           /\ Cursor(s).sector = s
           /\ \A l \in Within : Seeks[Cursor(s)][l] = {Cursor(l)}
PROOF
  <1>1. s \in 0 .. FileSize /\ s \in Nat /\ ClusterIndex(s) \in 0 .. Last
      BY HardDiskAssumption, ClusterIndexes, ChainProperties DEF Within
  <1>2. Chain[ClusterIndex(s)] \in Links
      BY <1>1, ChainProperties DEF ChainWalk, Links
  <1>3. Cursor(s) \in [sector : 0 .. FileSize, cluster : Links]
      BY <1>1, <1>2 DEF Cursor
  <1>4. Cursor(s).sector = s
      BY DEF Cursor
  <1>5. ASSUME NEW l \in Within
        PROVE  Seeks[Cursor(s)][l] = {Cursor(l)}
    <2>1. l \in 0 .. FileSize
        BY DEF Within
    <2>2. Seeks[Cursor(s)][l] = FileSeek(Cursor(s), FileStart, l)
        BY <1>3, <2>1 DEF Seeks
    <2> QED
        BY <2>2, SeekCursor
  <1> QED
      BY <1>1, <1>3, <1>4, <1>5

(* The sectors of the file are within it. *)
LEMMA WithinFile ==
    /\ \A s \in 0 .. FileSize - 1 : s \in Within
    /\ 0 \in Within
    /\ EndsInside => \A t \in FileTypes : \A s \in Nat : s <= Span(t) => s \in Within
PROOF
  <1>1. FileSize \in Nat \ {0}
      BY HardDiskAssumption
  <1>2. ASSUME NEW s \in 0 .. FileSize - 1
        PROVE  s \in Within
    <2>1. ClusterIndex(s) \in 0 .. Last /\ Last \in Nat /\ s \in 0 .. FileSize
        BY <1>1, ChainProperties
    <2> QED
        BY <2>1 DEF Within
  <1>3. 0 \in 0 .. FileSize - 1
      BY <1>1
  <1>4. ASSUME EndsInside, NEW t \in FileTypes, NEW s \in Nat, s <= Span(t)
        PROVE  s \in Within
    <2>1. t \in Types /\ t # "card"
        BY DEF FileTypes, Types
    <2>2. PICK e \in Int : e = Span(t)
        BY <2>1, GeometryTypes DEF Span
    <2>3. e <= FileSize
        BY <2>1, <2>2, GeometryTypes DEF Span
    <2>4. ClusterIndex(e) <= Last
        BY <1>4, <2>2 DEF EndsInside, Span, Last, FileTypes
    <2>5. s <= e /\ e \in Nat /\ s \in 0 .. FileSize
        BY <1>1, <1>4, <2>2, <2>3
    <2>6. PICK i \in Nat : i = ClusterIndex(s)
        BY ClusterIndexes
    <2>7. PICK j \in Nat : j = ClusterIndex(e)
        BY <2>5, ClusterIndexes
    <2>8. i <= j
        BY <2>5, <2>6, <2>7, ClusterIndexes
    <2>9. j <= Last /\ Last \in Nat
        BY <2>4, <2>7, ChainProperties
    <2>10. ClusterIndex(s) <= Last
        BY <2>6, <2>8, <2>9
    <2> QED
        BY <2>5, <2>10 DEF Within
  <1> QED
      BY <1>2, <1>3, <1>4

(* HardFileSeek() puts the cursor on the sector that is wanted, whether or *)
(* not it takes the index.                                                 *)
LEMMA HardFileSeekCursor ==
    ASSUME NEW s \in Within, NEW l \in 0 .. FileSize - 1
    PROVE  HardFileSeek(Cursor(s), l) = {Cursor(l)}
PROOF
  <1>1. FileSize \in Nat \ {0} /\ IndexStep \in Nat \ {0} /\ l \in Within
      BY HardDiskAssumption, WithinFile
  <1>2. PICK k \in Nat : k = l \div IndexStep
      BY <1>1
  <1>3. k * IndexStep \in Nat /\ k * IndexStep <= l
      BY <1>1, <1>2
  <1>4. PICK m \in 0 .. FileSize - 1 : m = k * IndexStep
      BY <1>1, <1>3
  <1>5. k \in 0 .. (FileSize - 1) \div IndexStep
      BY <1>1, <1>2
  <1>6. FileOpened = Cursor(0)
      BY ChainProperties, ClusterIndexes DEF FileOpened, Cursor, ChainWalk
  <1>7. Seeks[FileOpened][m] = {Cursor(m)}
      BY <1>6, CursorTypes, WithinFile
  <1>8. (CHOOSE f \in Seeks[FileOpened][k * IndexStep] : TRUE) = Cursor(m)
      BY <1>4, <1>7
  <1>9. index[k] = Cursor(m).cluster
      BY <1>5, <1>8 DEF index
  <1>10. [sector |-> (l \div IndexStep) * IndexStep,
          cluster |-> index[l \div IndexStep]] = Cursor(m)
      BY <1>2, <1>4, <1>9 DEF Cursor
  <1>11. \E r \in Within : HardFileSeek(Cursor(s), l) = Seeks[Cursor(r)][l]
    <2>1. m \in Within
        BY WithinFile
    <2>2. \/ HardFileSeek(Cursor(s), l) = Seeks[Cursor(m)][l]
          \/ HardFileSeek(Cursor(s), l) = Seeks[Cursor(s)][l]
        BY <1>10 DEF HardFileSeek
    <2> QED
        BY <2>1, <2>2
  <1> QED
      BY <1>1, <1>11, CursorTypes

(* Reading or writing a sector moves the cursor to the next. *)
LEMMA FileNextCursor ==
    ASSUME NEW s \in Within, s + 1 \in Within
    PROVE  FileNext(Cursor(s)) = {Cursor(s + 1)}
    BY CursorTypes DEF FileNext

-----------------------------------------------------------------------------
(* The interface.                                                          *)

(* What the ARM's status does to a busy drive. *)
LEMMA StatusBusy ==
    ASSUME NEW g \in GayleSet, g.busy, NEW b
    PROVE  /\ Status(g, b) \in GayleSet
           /\ Status(g, b).busy <=> "END" \notin b
           /\ Status(g, b).intreq <=> g.intreq \/ "IRQ" \in b
           /\ Status(g, b).pio_in <=>
                (g.pio_in \/ "RDY" \in b) /\ ("END" \notin b \/ g.fifo # <<>>)
           /\ Status(g, b).pio_out <=> "END" \notin b /\ (g.pio_out \/ "REQ" \in b)
           /\ Status(g, b).tfr = g.tfr
           /\ Status(g, b).sector_count = g.sector_count
           /\ Status(g, b).fifo = g.fifo
PROOF
  <1> DEFINE busy == g.busy /\ "END" \notin b
             intreq == g.intreq \/ "IRQ" \in b
             in == g.pio_in \/ "RDY" \in b
             out == "END" \notin b /\ (g.pio_out \/ "REQ" \in b)
             error == g.error \/ "ERR" \in b
  <1>1. /\ busy \in BOOLEAN /\ intreq \in BOOLEAN /\ in \in BOOLEAN
        /\ out \in BOOLEAN /\ error \in BOOLEAN
      OBVIOUS
  <1>2. (IF "END" \in b THEN FALSE ELSE g.pio_out \/ "REQ" \in b) = out
      BY DEF GayleSet
  <1> DEFINE h == [g EXCEPT !.busy = busy, !.intreq = intreq, !.pio_in = in,
                            !.pio_out = out, !.error = error]
  <1>3. Status(g, b) = Settled(h)
    <2>1. (IF g.busy THEN b ELSE {}) = b
        OBVIOUS
    <2> HIDE DEF busy, intreq, in, out, error
    <2> QED
        BY <1>2, <2>1 DEF Status, busy, intreq, in, error
  <1>4. PICK h1 \in BOOLEAN, h2 \in BOOLEAN, h3 \in BOOLEAN, h4 \in BOOLEAN, h5 \in BOOLEAN :
           h1 = busy /\ h2 = intreq /\ h3 = in /\ h4 = out /\ h5 = error
      BY <1>1, Zenon
  <1>5. Status(g, b) = Settled([g EXCEPT !.busy = h1, !.intreq = h2, !.pio_in = h3,
                                         !.pio_out = h4, !.error = h5])
      BY <1>3, <1>4
  <1>6. /\ h1 <=> "END" \notin b
        /\ h2 <=> g.intreq \/ "IRQ" \in b
        /\ h3 <=> g.pio_in \/ "RDY" \in b
        /\ h4 <=> "END" \notin b /\ (g.pio_out \/ "REQ" \in b)
      BY <1>4
  <1> HIDE DEF busy, intreq, in, out, error, h
  <1>7. PICK k : k = [g EXCEPT !.busy = h1, !.intreq = h2, !.pio_in = h3,
                               !.pio_out = h4, !.error = h5]
      OBVIOUS
  <1>8. /\ k \in GayleSet
        /\ k.busy = h1 /\ k.intreq = h2 /\ k.pio_in = h3
        /\ k.pio_out = h4 /\ k.tfr = g.tfr
        /\ k.sector_count = g.sector_count /\ k.fifo = g.fifo
    <2>1. k.busy = h1 /\ k.intreq = h2 /\ k.pio_in = h3 /\ k.pio_out = h4 
      BY <1>7 DEF GayleSet
    <2>2. k.tfr = g.tfr
        /\ k.sector_count = g.sector_count /\ k.fifo = g.fifo
      BY <1>7 DEF GayleSet
    <2>4. g.fifo \in Seq(Contents) /\ g.tfr \in Regs /\ g.sector_count \in 0 .. CountMod - 1
      BY DEF GayleSet
    <2>5. k = [busy |-> h1, pio_in |-> h3, pio_out |-> h4, intreq |-> h2, error |-> h5,
               tfr |-> g.tfr, sector_count |-> g.sector_count, fifo |-> g.fifo]
      BY <1>7 DEF GayleSet
    <2>3. k \in GayleSet
      BY <2>5, <2>4 DEF GayleSet
    <2> QED BY <2>1, <2>2, <2>3
  <1>9. PICK h6 \in BOOLEAN : h6 = (k.pio_in /\ (k.busy \/ full(k)))
      OBVIOUS
  <1>10. Status(g, b) = [k EXCEPT !.pio_in = h6]
      BY <1>5, <1>7, <1>9 DEF Settled
  <1>11. h6 <=> h3 /\ (h1 \/ g.fifo # <<>>)
      BY <1>8, <1>9 DEF full
  <1>12. /\ Status(g, b) \in GayleSet
         /\ Status(g, b).busy = k.busy /\ Status(g, b).intreq = k.intreq
         /\ Status(g, b).pio_in = h6 /\ Status(g, b).pio_out = k.pio_out
         /\ Status(g, b).tfr = k.tfr
         /\ Status(g, b).sector_count = k.sector_count
         /\ Status(g, b).fifo = k.fifo
      BY <1>8, <1>10 DEF GayleSet
  <1> QED
      BY <1>6, <1>8, <1>11, <1>12

(* What writing the registers does to a busy drive. *)
LEMMA TaskFileBusy ==
    ASSUME NEW g \in GayleSet, g.busy, NEW r \in Regs
    PROVE  /\ TaskFile(g, r) \in GayleSet
           /\ TaskFile(g, r).tfr.unit = r.unit
           /\ TaskFile(g, r).tfr.pos = r.pos
           /\ TaskFile(g, r).busy = g.busy
           /\ TaskFile(g, r).intreq = g.intreq
           /\ TaskFile(g, r).pio_in = g.pio_in
           /\ TaskFile(g, r).pio_out = g.pio_out
           /\ TaskFile(g, r).sector_count = g.sector_count
           /\ TaskFile(g, r).fifo = g.fifo
PROOF
  <1> DEFINE s == [r EXCEPT !.cmd = g.tfr.cmd]
  <1>1. TaskFile(g, r) = [g EXCEPT !.tfr = s]
      BY DEF TaskFile
  <1>2. s \in Regs /\ s.unit = r.unit /\ s.pos = r.pos
      BY DEF GayleSet, Regs
  <1> HIDE DEF s
  <1> QED
      BY <1>1, <1>2 DEF GayleSet

(* The registers of the ARM are registers. *)
LEMMA WithPosBusy ==
    ASSUME NEW g \in GayleSet, g.busy, arm \in ArmSet,
           NEW p \in [cyl : Nat, head : Nat, sec : Nat]
    PROVE  /\ WithPos(g, p) \in GayleSet
           /\ WithPos(g, p).tfr.unit = arm.unit
           /\ WithPos(g, p).tfr.pos = p
           /\ WithPos(g, p).busy = g.busy
           /\ WithPos(g, p).intreq = g.intreq
           /\ WithPos(g, p).pio_in = g.pio_in
           /\ WithPos(g, p).pio_out = g.pio_out
           /\ WithPos(g, p).sector_count = g.sector_count
           /\ WithPos(g, p).fifo = g.fifo
PROOF
  <1> DEFINE r == [g.tfr EXCEPT !.err = 0, !.unit = arm.unit, !.count = arm.count,
                                !.pos = p]
  <1>1. r \in Regs /\ r.unit = arm.unit /\ r.pos = p
      BY DEF GayleSet, Regs, ArmSet
  <1>2. WithPos(g, p) = TaskFile(g, r)
      BY DEF WithPos
  <1>3. PICK q \in Regs : q = r
      BY <1>1
  <1> HIDE DEF r
  <1>4. WithPos(g, p) = TaskFile(g, q)
      BY <1>2, <1>3
  <1>5. q.unit = arm.unit /\ q.pos = p
      BY <1>1, <1>3
  <1>6. PICK f : f = TaskFile(g, q)
      OBVIOUS
  <1>7. /\ f \in GayleSet
           /\ f.tfr.unit = q.unit
           /\ f.tfr.pos = q.pos
           /\ f.busy = g.busy
           /\ f.intreq = g.intreq
           /\ f.pio_in = g.pio_in
           /\ f.pio_out = g.pio_out
           /\ f.sector_count = g.sector_count
           /\ f.fifo = g.fifo
      BY <1>6, TaskFileBusy
  <1> QED
      BY <1>4, <1>5, <1>6, <1>7

(* A sector put into the FIFO. *)
LEMMA PutSector ==
    ASSUME NEW g \in GayleSet, g.pio_in, NEW d \in Contents
    PROVE  /\ Put(g, d) \in GayleSet
           /\ Put(g, d).fifo = Append(g.fifo, d)
           /\ Put(g, d).fifo # <<>>
           /\ Len(Put(g, d).fifo) = Len(g.fifo) + 1
           /\ \A j \in 1 .. Len(g.fifo) : Put(g, d).fifo[j] = g.fifo[j]
           /\ Put(g, d).fifo[Len(g.fifo) + 1] = d
           /\ Put(g, d).busy = g.busy
           /\ Put(g, d).intreq = g.intreq
           /\ Put(g, d).pio_in = g.pio_in
           /\ Put(g, d).pio_out = g.pio_out
           /\ Put(g, d).sector_count = g.sector_count
           /\ Put(g, d).tfr = g.tfr
PROOF
  <1> DEFINE q == Append(g.fifo, d)
  <1>1. /\ q \in Seq(Contents) /\ q # <<>> /\ Len(q) = Len(g.fifo) + 1
        /\ \A j \in 1 .. Len(g.fifo) : q[j] = g.fifo[j]
        /\ q[Len(g.fifo) + 1] = d
      BY DEF GayleSet
  <1>2. Put(g, d) = [g EXCEPT !.fifo = q]
      BY DEF Put
  <1>3. Put(g, d).fifo = q
      BY <1>2 DEF GayleSet
  <1> HIDE DEF q
  <1>4. /\ Put(g, d) \in GayleSet
        /\ Put(g, d).busy = g.busy
        /\ Put(g, d).intreq = g.intreq
        /\ Put(g, d).pio_in = g.pio_in
        /\ Put(g, d).pio_out = g.pio_out
        /\ Put(g, d).sector_count = g.sector_count
        /\ Put(g, d).tfr = g.tfr
      BY <1>1, <1>2 DEF GayleSet
  <1> QED
      BY <1>1, <1>3, <1>4 DEF q

(* A sector taken out of a FIFO that has one. *)
LEMMA TailSector ==
    ASSUME NEW q \in Seq(Contents), q # <<>>
    PROVE  /\ Len(q) \in Nat \ {0}
           /\ Head(q) \in Contents /\ Head(q) = q[1]
           /\ Tail(q) \in Seq(Contents)
           /\ Len(Tail(q)) = Len(q) - 1
           /\ Len(q) = 1 => Tail(q) = <<>>
           /\ \A j \in 1 .. Len(q) - 1 : Tail(q)[j] = q[j + 1]
PROOF
  <1>1. Len(q) \in Nat \ {0}
      OBVIOUS
  <1>2. Head(q) = q[1] /\ q[1] \in Contents
      BY <1>1
  <1>3. Tail(q) \in Seq(Contents) /\ Len(Tail(q)) = Len(q) - 1
      OBVIOUS
  <1>4. ASSUME Len(q) = 1 PROVE Tail(q) = <<>>
    <2>1. Len(Tail(q)) \notin Nat \ {0}
      BY <1>3, <1>4
    <2> QED BY <1>3, <2>1, EmptySeq, Zenon
  <1>5. \A j \in 1 .. Len(q) - 1 : Tail(q)[j] = q[j + 1]
      OBVIOUS
  <1> QED
      BY <1>1, <1>2, <1>3, <1>4, <1>5

(* A sector taken by the ARM. *)
LEMMA TakenSector ==
    ASSUME NEW g \in GayleSet, g.fifo # <<>>
    PROVE  /\ Taken(g) \in GayleSet
           /\ Taken(g).fifo = Tail(g.fifo)
           /\ Taken(g).busy = g.busy
           /\ Taken(g).intreq = g.intreq
           /\ Taken(g).pio_in = g.pio_in
           /\ Taken(g).pio_out = g.pio_out
           /\ Taken(g).sector_count = g.sector_count
           /\ Taken(g).tfr = g.tfr
PROOF
  <1> DEFINE q == Tail(g.fifo)
  <1>1. q \in Seq(Contents)
      BY TailSector DEF GayleSet
  <1>2. Taken(g) = [g EXCEPT !.fifo = q]
      BY DEF Taken
  <1>3. Taken(g).fifo = q
      BY <1>2 DEF GayleSet
  <1> HIDE DEF q
  <1>4. /\ Taken(g) \in GayleSet
        /\ Taken(g).busy = g.busy
        /\ Taken(g).intreq = g.intreq
        /\ Taken(g).pio_in = g.pio_in
        /\ Taken(g).pio_out = g.pio_out
        /\ Taken(g).sector_count = g.sector_count
        /\ Taken(g).tfr = g.tfr
      BY <1>1, <1>2 DEF GayleSet
  <1> QED
      BY <1>3, <1>4 DEF q

(* A block is not empty, nor more than what is left or the FIFO holds. *)
LEMMA BlockBounds ==
    ASSUME hdf \in Disks, NEW u \in Units, NEW cmd, NEW left \in Nat,
           left >= 1, cmd \in Multiple => hdf[u].spb > 0
    PROVE  /\ Block(cmd, left, u) \in 1 .. left
           /\ Block(cmd, left, u) \in 0 .. FifoSectors
           /\ cmd \notin Multiple => Block(cmd, left, u) = 1
PROOF
  <1>1. FifoSectors \in Nat \ {0}
      BY GayleAssumption
  <1>2. hdf[u].spb \in 0 .. FifoSectors
    <2>1. hdf[u].spb \in BlockSizes \cup {0}
        BY DEF Disks
    <2>2. BlockSizes \subseteq 0 .. FifoSectors
        BY HardDiskAssumption
    <2>3. CASE hdf[u].spb = 0
        BY <1>1, <2>3
    <2>4. CASE hdf[u].spb \in BlockSizes
        BY <2>2, <2>4
    <2> QED
        BY <2>1, <2>3, <2>4
  <1>3. PICK s \in 0 .. FifoSectors : s = hdf[u].spb
      BY <1>2
  <1>4. CASE cmd \in Multiple
    <2>1. s >= 1
        BY <1>3, <1>4
    <2>2. Min({left, s}) = left \/ Min({left, s}) = s
        BY <1>1 DEF Min
    <2>3. Min({left, s}) <= left /\ Min({left, s}) <= s
      <3>1. \E x \in {left, s} : \A y \in {left, s} : x <= y
          BY <1>1
      <3> QED
          BY <3>1 DEF Min
    <2>4. Block(cmd, left, u) = Min({left, s})
        BY <1>3, <1>4 DEF Block
    <2> QED
        BY <1>1, <1>4, <2>1, <2>2, <2>3, <2>4
  <1>5. CASE cmd \notin Multiple
      BY <1>1, <1>5 DEF Block
  <1> QED
      BY <1>4, <1>5

(* A command of the Amiga, to a drive without data. *)
LEMMA CommandGiven ==
    ASSUME NEW g \in GayleSet, NEW r \in Regs, r.count \in 0 .. CountMod - 1
    PROVE  /\ Command(g, r) \in GayleSet
           /\ Command(g, r).tfr = r
           /\ Command(g, r).sector_count = r.count
           /\ Command(g, r).busy
           /\ Command(g, r).fifo = <<>>
           /\ Command(g, r).intreq = g.intreq
           /\ Command(g, r).pio_in = g.pio_in
           /\ Command(g, r).pio_out = g.pio_out
PROOF
  <1>1. <<>> \in Seq(Contents)
      BY EmptySeq
  <1>2. PICK q \in Seq(Contents) : q = <<>>
      BY <1>1
  <1>3. PICK n \in 0 .. CountMod - 1 : n = r.count
      OBVIOUS
  <1>4. PICK k : k = Command(g, r)
      OBVIOUS
  <1>5. k = [g EXCEPT !.tfr = r, !.sector_count = n, !.busy = TRUE,
                      !.error = FALSE, !.fifo = q]
      BY <1>2, <1>3, <1>4 DEF Command
  <1>6. k = [busy |-> TRUE, pio_in |-> g.pio_in, pio_out |-> g.pio_out,
             intreq |-> g.intreq, error |-> FALSE, tfr |-> r,
             sector_count |-> n, fifo |-> q]
      BY <1>5 DEF GayleSet
  <1>7. k \in GayleSet
      BY <1>6 DEF GayleSet
  <1> QED
      BY <1>2, <1>3, <1>4, <1>6, <1>7

(* The interrupt is cleared. *)
LEMMA InterruptCleared == ASSUME NEW g \in GayleSet
    PROVE  /\ ClearInt(g) \in GayleSet
           /\ ~ClearInt(g).intreq
           /\ ClearInt(g).tfr = g.tfr
           /\ ClearInt(g).sector_count = g.sector_count
           /\ ClearInt(g).busy = g.busy
           /\ ClearInt(g).fifo = g.fifo
           /\ ClearInt(g).pio_in = g.pio_in
           /\ ClearInt(g).pio_out = g.pio_out
    BY DEF ClearInt, GayleSet

(* A sector read by the Amiga: the last one ends the command. *)
LEMMA SectorRead ==
    ASSUME NEW g \in GayleSet, g.pio_in, g.fifo # <<>>
    PROVE  /\ ReadSector(g) \in GayleSet
           /\ ReadSector(g).tfr = g.tfr
           /\ ReadSector(g).intreq = g.intreq
           /\ ReadSector(g).pio_out = g.pio_out
           /\ ReadSector(g).fifo = Tail(g.fifo)
           /\ ReadSector(g).busy <=> g.busy /\ g.sector_count # 1
           /\ ReadSector(g).pio_in <=>
                (g.busy /\ g.sector_count # 1) \/ Tail(g.fifo) # <<>>
           /\ g.sector_count >= 1 => ReadSector(g).sector_count = g.sector_count - 1
           /\ g.sector_count = 0 => ReadSector(g).sector_count = CountMod - 1
PROOF
  <1>1. CountMod \in Nat \ {0, 1}
      BY GayleAssumption
  <1>2. PICK c \in 0 .. CountMod - 1 : c = g.sector_count
      BY DEF GayleSet
  <1>3. PICK n \in 0 .. CountMod - 1 : n = (c + CountMod - 1) % CountMod
      BY <1>1
  <1>4. (c >= 1 => n = c - 1) /\ (c = 0 => n = CountMod - 1)
    <2>1. CASE c = 0
      <3>1. CountMod - 1 \in 0 .. CountMod - 1
          BY <1>1
      <3>2. \A m \in 0 .. CountMod - 1 : m % CountMod = m
          BY <1>1
      <3>3. c + CountMod - 1 = CountMod - 1
          BY <1>1, <2>1
      <3> QED
          BY <1>3, <2>1, <3>1, <3>2, <3>3
    <2>2. CASE c >= 1
      <3>1. c - 1 \in 0 .. CountMod - 1
          BY <1>1, <2>2
      <3>2. \A m \in 0 .. CountMod - 1 : (m + CountMod) % CountMod = m
          BY <1>1
      <3>3. c + CountMod - 1 = (c - 1) + CountMod
          BY <1>1
      <3> QED
          BY <1>3, <2>2, <3>1, <3>2, <3>3
    <2> QED
        BY <2>1, <2>2
  <1>5. PICK q \in Seq(Contents) : q = Tail(g.fifo)
      BY TailSector DEF GayleSet
  <1>6. PICK b \in BOOLEAN : b = (g.busy /\ g.sector_count # 1)
      OBVIOUS
  <1>7. PICK k : k = [[g EXCEPT !.fifo = q] EXCEPT !.sector_count = n, !.busy = b]
      OBVIOUS
  <1>8. [g EXCEPT !.fifo = q].busy = g.busy /\ [g EXCEPT !.fifo = q].sector_count = c
      BY <1>2 DEF GayleSet
  <1>9. ReadSector(g) = Settled(k)
      BY <1>2, <1>3, <1>5, <1>6, <1>7, <1>8 DEF ReadSector
  <1>10. k = [busy |-> b, pio_in |-> g.pio_in, pio_out |-> g.pio_out,
              intreq |-> g.intreq, error |-> g.error, tfr |-> g.tfr,
              sector_count |-> n, fifo |-> q]
      BY <1>7 DEF GayleSet
  <1>11. k \in GayleSet
      BY <1>10 DEF GayleSet
  <1>12. /\ k.busy = b /\ k.pio_in = g.pio_in /\ k.pio_out = g.pio_out
         /\ k.intreq = g.intreq /\ k.tfr = g.tfr
         /\ k.sector_count = n /\ k.fifo = q
      BY <1>10
  <1>13. PICK p \in BOOLEAN : p = (k.pio_in /\ (k.busy \/ full(k)))
      OBVIOUS
  <1>14. p <=> b \/ q # <<>>
      BY <1>12, <1>13 DEF full
  <1>15. ReadSector(g) = [k EXCEPT !.pio_in = p]
      BY <1>9, <1>13 DEF Settled
  <1>16. /\ ReadSector(g) \in GayleSet
         /\ ReadSector(g).busy = k.busy /\ ReadSector(g).pio_in = p
         /\ ReadSector(g).pio_out = k.pio_out /\ ReadSector(g).intreq = k.intreq
         /\ ReadSector(g).tfr = k.tfr /\ ReadSector(g).fifo = k.fifo
         /\ ReadSector(g).sector_count = k.sector_count
      BY <1>11, <1>15 DEF GayleSet
  <1> QED
      BY <1>2, <1>4, <1>5, <1>6, <1>12, <1>14, <1>16

(* A sector written by the Amiga. *)
LEMMA SectorWritten ==
    ASSUME NEW g \in GayleSet, NEW d \in Contents
    PROVE  /\ WriteSector(g, d) \in GayleSet
           /\ Len(WriteSector(g, d).fifo) = Len(g.fifo) + 1
           /\ \A j \in 1 .. Len(g.fifo) : WriteSector(g, d).fifo[j] = g.fifo[j]
           /\ WriteSector(g, d).fifo[Len(g.fifo) + 1] = d
           /\ WriteSector(g, d).busy = g.busy
           /\ WriteSector(g, d).intreq = g.intreq
           /\ WriteSector(g, d).pio_in = g.pio_in
           /\ WriteSector(g, d).pio_out = g.pio_out
           /\ WriteSector(g, d).sector_count = g.sector_count
           /\ WriteSector(g, d).tfr = g.tfr
PROOF
  <1> DEFINE q == Append(g.fifo, d)
  <1>1. /\ q \in Seq(Contents) /\ Len(q) = Len(g.fifo) + 1
        /\ \A j \in 1 .. Len(g.fifo) : q[j] = g.fifo[j]
        /\ q[Len(g.fifo) + 1] = d
      BY DEF GayleSet
  <1>2. WriteSector(g, d) = [g EXCEPT !.fifo = q]
      BY DEF WriteSector
  <1>3. WriteSector(g, d).fifo = q
      BY <1>2 DEF GayleSet
  <1> HIDE DEF q
  <1>4. /\ WriteSector(g, d) \in GayleSet
        /\ WriteSector(g, d).busy = g.busy
        /\ WriteSector(g, d).intreq = g.intreq
        /\ WriteSector(g, d).pio_in = g.pio_in
        /\ WriteSector(g, d).pio_out = g.pio_out
        /\ WriteSector(g, d).sector_count = g.sector_count
        /\ WriteSector(g, d).tfr = g.tfr
      BY <1>1, <1>2 DEF GayleSet
  <1> QED
      BY <1>1, <1>3, <1>4

-----------------------------------------------------------------------------
(* Steps.                                                                  *)

(* What the Amiga asked for does not change while its registers do not, nor *)
(* the types of the disks. *)
Same ==
    /\ host'.req = host.req
    /\ \A u \in Units : hdf'[u].type = hdf[u].type /\ hdf'[u].spb = hdf[u].spb

(* The request is then the same, and where it goes.                        *)
LEMMA SameRequest == ASSUME TypeInv, Same
    PROVE  /\ First' = First /\ Moving' = Moving
           /\ Base' = Base
           /\ \A u \in Units : TypeOf(u)' = TypeOf(u)
           /\ \A u \in Units : IsFile(u)' <=> IsFile(u)
           /\ \A cmd, left : \A u \in Units : Block(cmd, left, u)' = Block(cmd, left, u)
           /\ \A u \in Units : \A l : At(u, l)' = At(u, l)
           /\ \A u \in Units : \A l : Synthesized(u, l)' <=> Synthesized(u, l)
PROOF
  <1>1. host.req.unit \in Units
      BY DEF TypeInv, HostSet, Regs
  <1>2. Moving' = Moving
      BY DEF Same, Moving
  <1>3. \A u \in Units : TypeOf(u)' = TypeOf(u)
      BY DEF Same, TypeOf
  <1>4. First' = First
      BY <1>1, <1>3 DEF Same, First, Address
  <1>5. Base' = Base
      BY <1>1, <1>3, <1>4 DEF Same, Base
  <1>6. \A u \in Units : IsFile(u)' <=> IsFile(u)
      BY <1>3 DEF IsFile
  <1>7. \A cmd, left : \A u \in Units : Block(cmd, left, u)' = Block(cmd, left, u)
      BY DEF Same, Block
  <1>8. \A u \in Units : \A l : At(u, l)' = At(u, l)
      BY <1>6 DEF At
  <1>9. \A u \in Units : \A l : Synthesized(u, l)' <=> Synthesized(u, l)
      BY <1>3 DEF Synthesized
  <1> QED
      BY <1>2, <1>3, <1>4, <1>5, <1>6, <1>7, <1>8, <1>9

(* The request is sound as long as it stays. *)
LEMMA RequestKept == ASSUME TypeInv, RequestInv, Same
    PROVE  RequestInv'
PROOF
  <1>1. host.req.unit \in Units
      BY DEF TypeInv, HostSet, Regs
  <1>2. First' = First /\ Moving' = Moving /\ Base' = Base
      BY SameRequest
  <1>3. host'.req = host.req
      BY DEF Same
  <1>4. /\ hdf'[host'.req.unit].type = hdf[host.req.unit].type
        /\ hdf'[host'.req.unit].spb = hdf[host.req.unit].spb
      BY <1>1, <1>3 DEF Same
  <1> QED
      BY <1>2, <1>3, <1>4 DEF RequestInv, TypeOf

(* The numbers of a request. *)
LEMMA Numbers == ASSUME TypeInv, RequestInv
    PROVE  /\ CountMod \in Nat \ {0, 1}
           /\ host.req.unit \in Units /\ TypeOf(host.req.unit) \in Types
           /\ Moving \in 0 .. CountMod
           /\ host.req.cmd \in Transfers => Moving >= 1
           /\ host.req.cmd \notin Transfers =>
                Moving = IF host.req.cmd = "IDENTIFY" THEN 1 ELSE 0
           /\ First \in Int /\ Base \in Int
           /\ Base = First + offset(TypeOf(host.req.unit))
           /\ offset(TypeOf(host.req.unit)) \in Int
           /\ host.req.cmd \in Transfers => First \in Nat
           /\ host.req.cmd \in Transfers \cup {"IDENTIFY"} =>
                host.req.count \in {Moving, Moving - CountMod}
PROOF
  <1>1. CountMod \in Nat \ {0, 1}
      BY GayleAssumption
  <1>2. host.req \in Regs /\ host.req.unit \in Units
      BY DEF TypeInv, HostSet, Regs
  <1>3. TypeOf(host.req.unit) \in Types
      BY <1>2 DEF TypeInv, Disks, TypeOf
  <1>4. ASSUME host.req.cmd \in Transfers
        PROVE  /\ Moving \in 1 .. CountMod
               /\ host.req.count \in {Moving, Moving - CountMod}
    <2>1. host.req.count \in 0 .. CountMod - 1
        BY <1>4 DEF RequestInv
    <2>2. PICK c \in 0 .. CountMod - 1 : c = host.req.count
        BY <2>1
    <2>3. Moving = Wanted(c)
        BY <1>4, <2>2 DEF Moving, Transfers
    <2>4. CASE c = 0
        BY <1>1, <2>2, <2>3, <2>4 DEF Wanted
    <2>5. CASE c # 0
        BY <1>1, <2>2, <2>3, <2>5 DEF Wanted
    <2> QED
        BY <2>4, <2>5
  <1>5. ASSUME host.req.cmd \notin Transfers
        PROVE  /\ Moving = IF host.req.cmd = "IDENTIFY" THEN 1 ELSE 0
               /\ Moving \in 0 .. CountMod
               /\ host.req.cmd = "IDENTIFY" => host.req.count = Moving
    <2>1. Moving = IF host.req.cmd = "IDENTIFY" THEN 1 ELSE 0
        BY <1>5 DEF Moving, Transfers
    <2>2. CASE host.req.cmd = "IDENTIFY"
        BY <1>1, <2>1, <2>2 DEF RequestInv
    <2>3. CASE host.req.cmd # "IDENTIFY"
        BY <1>1, <2>1, <2>3
    <2> QED
        BY <2>1, <2>2, <2>3
  <1>6. offset(TypeOf(host.req.unit)) \in Int
      BY <1>3, GeometryTypes
  <1>7. First \in Int
    <2>1. PICK t \in Types : t = TypeOf(host.req.unit)
        BY <1>3
    <2>2. PICK x \in Nat, y \in Nat, z \in Nat :
             x = host.req.pos.cyl /\ y = host.req.pos.head /\ z = host.req.pos.sec
        BY <1>2 DEF Regs
    <2>3. PICK h \in Nat, s \in Nat : h = Heads[t] /\ s = Sectors[t]
        BY GeometryTypes
    <2>4. x * h \in Nat
        BY Products
    <2>5. (x * h + y) * s \in Nat
        BY <2>4, Products
    <2>6. First = (x * h + y) * s + z - 1 + 0
        BY <2>1, <2>2, <2>3 DEF First, Address, chs2lba
    <2> QED
        BY <2>5, <2>6
  <1>8. Base = First + offset(TypeOf(host.req.unit))
      BY DEF Base
  <1>9. ASSUME host.req.cmd \in Transfers
        PROVE  First \in Nat
    <2>1. host.req.pos \in Positions(TypeOf(host.req.unit))
        BY <1>9 DEF RequestInv
    <2>2. First = chs2lba(TypeOf(host.req.unit), host.req.pos) + 0
        BY DEF First, Address
    <2> QED
        BY <1>3, <2>1, <2>2, AddressTypes
  <1>10. Base \in Int
      BY <1>6, <1>7, <1>8
  <1>11. CASE host.req.cmd \in Transfers
      BY <1>1, <1>2, <1>3, <1>4, <1>6, <1>7, <1>8, <1>9, <1>10, <1>11
  <1>12. CASE host.req.cmd \notin Transfers
      BY <1>1, <1>2, <1>3, <1>5, <1>6, <1>7, <1>8, <1>10, <1>12
  <1> QED
      BY <1>11, <1>12

(* A unit is given a cursor, and nothing else of the disks changes. *)
LEMMA CursorSet ==
    ASSUME TypeInv, FilesInv, NEW u \in Units, NEW s \in Within, NEW f,
           IsFile(u) => f = Cursor(s), ~IsFile(u) => f = hdf[u].file,
           hdf' = [hdf EXCEPT ![u].file = f], host'.req = host.req
    PROVE  /\ Same /\ hdf' \in Disks /\ FilesInv'
           /\ IsFile(u) => hdf'[u].file.sector = s
PROOF
  <1>1. f \in [sector : 0 .. FileSize, cluster : Links]
      BY CursorTypes DEF TypeInv, Disks
  <1>2. /\ hdf' \in Disks
        /\ hdf'[u].file = f
        /\ \A v \in Units : hdf'[v].type = hdf[v].type /\ hdf'[v].spb = hdf[v].spb
        /\ \A v \in Units : v # u => hdf'[v].file = hdf[v].file
      BY <1>1 DEF TypeInv, Disks
  <1>3. Same
      BY <1>2 DEF Same
  <1>4. \A v \in Units : IsFile(v)' <=> IsFile(v)
      BY <1>3, SameRequest
  <1>5. IsFile(u) => hdf'[u].file.sector = s
      BY <1>2, CursorTypes
  <1>6. ASSUME NEW v \in Units, IsFile(v)
        PROVE  /\ hdf'[v].file.sector \in Within
               /\ hdf'[v].file = Cursor(hdf'[v].file.sector)
    <2>1. CASE v = u
        BY <1>2, <1>6, <2>1, CursorTypes
    <2>2. CASE v # u
        BY <1>2, <1>6, <2>2 DEF FilesInv
    <2> QED
        BY <2>1, <2>2
  <1>7. FilesInv'
    <2> SUFFICES ASSUME NEW v \in Units, IsFile(v)'
                 PROVE  /\ hdf'[v].file.sector \in Within
                        /\ hdf'[v].file = Cursor(hdf'[v].file.sector)
        BY DEF FilesInv, Cursor
    <2> QED
        BY <1>4, <1>6
  <1> QED
      BY <1>2, <1>3, <1>5, <1>7

(* The ARM's address is a sector of the card. *)
LEMMA HereOnCard ==
    ASSUME TypeInv, FilesInv, ArmPlace, arm.pc # "idle",
           arm.lba < Span(TypeOf(arm.unit)), IsFile(arm.unit) => arm.lba >= 0
    PROVE  Here \in CardSectors /\ Here = At(arm.unit, arm.lba)
PROOF
  <1>1. arm \in ArmSet
      BY DEF TypeInv, NoJob
  <1>2. arm.unit \in Units /\ arm.lba \in Int
      BY <1>1 DEF ArmSet
  <1>3. PICK t \in Types : t = TypeOf(arm.unit)
      BY <1>2 DEF TypeInv, Disks, TypeOf
  <1>4. FileSize \in Nat \ {0}
      BY HardDiskAssumption
  <1>5. CASE IsFile(arm.unit)
    <2>1. t # "card"
        BY <1>3, <1>5 DEF IsFile
    <2>2. Span(t) \in Int /\ Span(t) <= FileSize
        BY <2>1, GeometryTypes DEF Span
    <2>3. arm.lba \in 0 .. FileSize - 1
        BY <1>2, <1>3, <1>4, <1>5, <2>2
    <2>4. hdf[arm.unit].file = Cursor(arm.lba)
        BY <1>2, <1>5 DEF FilesInv, ArmPlace
    <2>5. Here = FileSector(Cursor(arm.lba))
        BY <1>5, <2>4 DEF Here
    <2>6. At(arm.unit, arm.lba) = FilePlace[arm.lba]
        BY <1>5 DEF At
    <2> QED
        BY <2>3, <2>5, <2>6, ChainProperties
  <1>6. CASE ~IsFile(arm.unit)
    <2>1. t = "card"
        BY <1>3, <1>6 DEF IsFile, Types
    <2>2. PICK o \in Int, c \in Nat : o = offset(t) /\ c = Capacity(t)
        BY GeometryTypes
    <2>3. o = PartStart /\ c <= PartSize
        BY <2>1, <2>2, GeometryTypes
    <2>4. arm.lba < c + o
        BY <1>3, <2>2 DEF Span
    <2>5. arm.lba >= o
        BY <1>3, <2>2 DEF ArmPlace
    <2>6. PartStart \in Nat /\ PartSize \in Nat /\ CardSize \in Nat /\ PartStart + PartSize <= CardSize
        BY HardDiskAssumption
    <2>7. arm.lba \in 0 .. CardSize - 1
        BY <1>2, <2>3, <2>4, <2>5, <2>6
    <2> QED
        BY <1>6, <2>7 DEF Here, At, CardSectors
  <1> QED
      BY <1>5, <1>6

(* The cursor is moved past the sector that was read or written. *)
LEMMA CursorMoved ==
    ASSUME TypeInv, FilesInv, ArmPlace, EndsInside, arm.pc # "idle",
           arm.lba < Span(TypeOf(arm.unit)), IsFile(arm.unit) => arm.lba >= 0,
           NEW f \in Moved(arm.unit), hdf' = [hdf EXCEPT ![arm.unit].file = f],
           host'.req = host.req
    PROVE  /\ Same /\ hdf' \in Disks /\ FilesInv'
           /\ IsFile(arm.unit) => hdf'[arm.unit].file.sector = arm.lba + 1
PROOF
  <1>1. arm \in ArmSet
      BY DEF TypeInv, NoJob
  <1>2. arm.unit \in Units /\ arm.lba \in Int
      BY <1>1 DEF ArmSet
  <1>3. PICK t \in Types : t = TypeOf(arm.unit)
      BY <1>2 DEF TypeInv, Disks, TypeOf
  <1>4. CASE IsFile(arm.unit)
    <2>1. t \in FileTypes /\ t # "card"
        BY <1>3, <1>4 DEF IsFile, FileTypes
    <2>2. Span(t) \in Int
        BY <2>1, GeometryTypes DEF Span
    <2>3. PICK s \in Nat : s = arm.lba
        BY <1>2, <1>4
    <2>4. s <= Span(t) /\ s + 1 <= Span(t)
        BY <1>3, <2>2, <2>3
    <2>5. s \in Within /\ s + 1 \in Within
        BY <2>1, <2>4, WithinFile
    <2>6. hdf[arm.unit].file = Cursor(s)
        BY <1>2, <1>4, <2>3 DEF FilesInv, ArmPlace
    <2>7. f = Cursor(s + 1)
        BY <1>4, <2>5, <2>6, FileNextCursor DEF Moved
    <2> QED
        BY <1>2, <1>4, <2>3, <2>5, <2>7, CursorSet
  <1>5. CASE ~IsFile(arm.unit)
    <2>1. f = hdf[arm.unit].file
        BY <1>5 DEF Moved
    <2>2. 0 \in Within
        BY WithinFile
    <2> QED
        BY <1>2, <1>5, <2>1, <2>2, CursorSet
  <1> QED
      BY <1>4, <1>5

(* Without sectors on their way the card is as the Amiga has written it. *)
LEMMA StoreQuiet == ASSUME TypeInv, StoreInv, arm.pc \notin WriteSteps
    PROVE  card = image
PROOF
  <1>1. QLen = 0
      BY DEF QLen, WriteSteps
  <1>2. \A s : Hits(s) = {}
      BY <1>1 DEF Hits
  <1>3. \A s \in CardSectors : card[s] = image[s]
      BY <1>2 DEF StoreInv
  <1> QED
      BY <1>3 DEF TypeInv, Images

(* Nothing is on its way to the card.                                      *)
LEMMA NoneOnTheirWay == ASSUME card' = image', QLen' = 0
    PROVE  StoreInv'
PROOF
  <1>1. \A s : Hits(s)' = {}
      BY DEF Hits
  <1> QED
      BY <1>1 DEF StoreInv

(* Nothing is, while the ARM does not write.                               *)
LEMMA StoreQuietNext == ASSUME card' = image', arm'.pc \notin WriteSteps
    PROVE  StoreInv'
PROOF
  <1>1. QLen' = 0
      BY DEF QLen, WriteSteps
  <1> QED
      BY <1>1, NoneOnTheirWay

(* What the Amiga must get is the same while nothing is written. *)
LEMMA ExpectedSame == ASSUME TypeInv, Same, image' = image
    PROVE  \A cmd, l : \A u \in Units : Expected(cmd, u, l)' = Expected(cmd, u, l)
PROOF
  <1> SUFFICES ASSUME NEW cmd, NEW l, NEW u \in Units
               PROVE  Expected(cmd, u, l)' = Expected(cmd, u, l)
      OBVIOUS
  <1>1. TypeOf(u)' = TypeOf(u)
      BY SameRequest
  <1>2. Synthesized(u, l)' <=> Synthesized(u, l)
      BY SameRequest
  <1>3. Place(u, l)' = Place(u, l)
      BY <1>1 DEF Place
  <1> QED
      BY <1>1, <1>2, <1>3 DEF Expected

(* What the Amiga has stays right while it does not move. *)
LEMMA DoneKept ==
    ASSUME TypeInv, DoneInv, Same, host' = host, image' = image,
           host.pc # "idle" \/ gayle'.tfr = gayle.tfr
    PROVE  DoneInv'
PROOF
  <1>1. host.req.unit \in Units
      BY DEF TypeInv, HostSet, Regs
  <1>2. First' = First /\ Moving' = Moving
      BY SameRequest
  <1>3. \A cmd, l : Expected(cmd, host.req.unit, l)' = Expected(cmd, host.req.unit, l)
      BY <1>1, ExpectedSame
  <1>4. ASSUME host.req.cmd \in Reads, NEW i \in 1 .. Len(host.got)
        PROVE  (host.got[i] = Expected(host.req.cmd, host.req.unit, First + (i - 1)))'
    <2>1. host.got[i] = Expected(host.req.cmd, host.req.unit, First + (i - 1))
        BY <1>4 DEF DoneInv
    <2>2. Expected(host.req.cmd, host.req.unit, First + (i - 1))'
            = Expected(host.req.cmd, host.req.unit, First + (i - 1))
        BY <1>1, <1>2, ExpectedSame
    <2> QED
        BY <2>1, <2>2
  <1>5. ASSUME host.pc = "idle", host.done > 0
        PROVE  /\ host.done = Moving'
               /\ host.req.cmd \in {"READ"} \cup Writes => LastRegisters'
    <2>1. gayle'.tfr = gayle.tfr
        BY <1>5
    <2>2. hdf'[host.req.unit].type = hdf[host.req.unit].type
        BY <1>1 DEF Same
    <2>3. LastRegisters => LastRegisters'
        BY <1>2, <2>1, <2>2 DEF LastRegisters, TypeOf
    <2> QED
        BY <1>2, <1>5, <2>3 DEF DoneInv
  <1> QED
      BY <1>4, <1>5 DEF DoneInv

(* The ARM is idle after the step. *)
LEMMA ArmRests ==
    ASSUME arm' = NoJob,
           \/ Rest' \/ Fresh' \/ Over'
           \/ Given(Moving, Moving)' /\ (host.req.cmd = "READ" => LastRegisters)'
    PROVE  ArmPlace' /\ ArmServes' /\ BusInv'
PROOF
  <1>1. arm'.pc = "idle"
      BY DEF NoJob
  <1>2. ~Engaged' /\ ~Behind' /\ ~Late'
      BY <1>1 DEF Engaged, Behind, Late
  <1>3. ArmPlace'
      BY <1>1 DEF ArmPlace
  <1>4. ArmServes'
      BY <1>2 DEF ArmServes
  <1>5. BusInv'
      BY <1>1, <1>2 DEF BusInv
  <1> QED
      BY <1>3, <1>4, <1>5

(* The ARM finds a command that it has not begun. *)
LEMMA Served == ASSUME IInv, NEW cmd, Serve(cmd)
    PROVE  /\ arm = NoJob /\ Fresh
           /\ gayle.busy /\ host.req.cmd = cmd /\ card = image
PROOF
  <1>1. arm.pc = "idle" /\ bsy(gayle) /\ gayle.tfr.cmd = cmd
      BY DEF Serve, hdd_cmd_req
  <1>2. arm = NoJob
      BY <1>1 DEF IInv, TypeInv, ArmSet, ReadSteps, MultipleSteps, WriteSteps
  <1>3. gayle.busy
      BY <1>1 DEF bsy, IInv, TypeInv, GayleSet
  <1>4. ~Engaged
      BY <1>1 DEF Engaged
  <1>5. ~Rest /\ ~Over
      BY <1>3 DEF Rest, Over
  <1>6. ~Given(Moving, Moving)
    <2>1. SUFFICES ASSUME Given(Moving, Moving)
                   PROVE  FALSE
        OBVIOUS
    <2>2. gayle.pio_in
        BY <1>1, <2>1 DEF Given
    <2>3. gayle.fifo # <<>>
      <3>1. SUFFICES ASSUME gayle.fifo = <<>>
                     PROVE  FALSE
          OBVIOUS
      <3>2. Len(gayle.fifo) = 0
          BY <3>1
      <3>3. Moving \in Nat /\ host.done \in Nat
          BY Numbers DEF IInv, TypeInv, HostSet
      <3> QED
          BY <2>1, <3>2, <3>3 DEF Given
    <2> QED
        BY <1>1, <2>2, <2>3 DEF bsy, drq, full
  <1>7. Fresh
      BY <1>4, <1>5, <1>6 DEF IInv, BusInv
  <1>8. host.req.cmd = cmd
      BY <1>1, <1>7 DEF Fresh
  <1>9. card = image
      BY <1>1, StoreQuiet DEF IInv, WriteSteps
  <1> QED
      BY <1>2, <1>3, <1>7, <1>8, <1>9

-----------------------------------------------------------------------------
(* Each action of HandleHDD() keeps the invariant.                         *)

(* A command without data is answered. *)
LEMMA Answered ==
    ASSUME IInv, NEW cmd \in Others \ {"IDENTIFY"}, Serve(cmd),
           NEW g \in GayleSet, g.busy, g.fifo = <<>>,
           NEW b, "END" \in b, "IRQ" \in b, gayle' = Status(g, b),
           Same, hdf' \in Disks, FilesInv', RequestInv',
           UNCHANGED <<arm, card, host, image>>
    PROVE  IInv'
PROOF
  <1>1. /\ arm = NoJob /\ Fresh
        /\ gayle.busy /\ host.req.cmd = cmd /\ card = image
      BY Served
  <1>2. host' = host /\ arm' = NoJob /\ card' = card /\ image' = image
      BY <1>1
  <1>3. TypeInv /\ RequestInv /\ DoneInv
      BY DEF IInv
  <1>4. /\ gayle' \in GayleSet /\ ~gayle'.busy /\ gayle'.intreq /\ ~gayle'.pio_in
        /\ ~gayle'.pio_out /\ gayle'.fifo = <<>>
      BY StatusBusy
  <1>5. TypeInv'
      BY <1>2, <1>3, <1>4 DEF TypeInv
  <1>6. cmd \notin Transfers /\ cmd # "IDENTIFY"
      BY DEF Others, Transfers, Reads, Writes
  <1>7. Moving = 0 /\ Moving' = Moving
      BY <1>1, <1>3, <1>6, Numbers, SameRequest
  <1>8. host.pc = "irq" /\ host.done = 0
      BY <1>1, <1>6 DEF Fresh, Transfers
  <1>9. Over'
      BY <1>1, <1>2, <1>4, <1>6, <1>7, <1>8 DEF Over, Transfers
  <1>10. ArmPlace' /\ ArmServes' /\ BusInv'
      BY <1>2, <1>9, ArmRests
  <1>11. DoneInv'
      BY <1>2, <1>3, <1>8, DoneKept
  <1>12. StoreInv'
      BY <1>1, <1>2, StoreQuietNext DEF NoJob, WriteSteps
  <1> QED
      BY <1>5, <1>10, <1>11, <1>12 DEF IInv

(* Nothing of the disks and the request changes. *)
LEMMA NothingMoves ==
    ASSUME IInv, hdf' = hdf, host'.req = host.req
    PROVE  Same /\ hdf' \in Disks /\ FilesInv' /\ RequestInv'
PROOF
  <1>1. Same
      BY DEF Same
  <1>2. hdf' \in Disks
      BY DEF IInv, TypeInv
  <1>3. FilesInv'
      BY DEF IInv, FilesInv, IsFile, TypeOf, Cursor
  <1>4. RequestInv'
      BY <1>1, RequestKept DEF IInv
  <1> QED
      BY <1>1, <1>2, <1>3, <1>4

(* Recalibrate keeps the invariant.                                        *)
LEMMA RecalibrateKeeps == ASSUME IInv, Recalibrate
    PROVE  IInv'
PROOF
  <1>1. Serve("RECALIBRATE") /\ UNCHANGED <<arm, hdf, card, host, image>>
      BY DEF Recalibrate
  <1>2. Fresh /\ gayle.busy
      BY <1>1, Served
  <1>3. PICK g : g = TaskFile(gayle, [gayle.tfr EXCEPT !.pos = Home, !.count = 0])
      OBVIOUS
  <1>4. PICK r : r = [gayle.tfr EXCEPT !.pos = Home, !.count = 0]
      OBVIOUS
  <1>5. r \in Regs
      BY <1>4 DEF IInv, TypeInv, GayleSet, Regs, Home
  <1>6. g \in GayleSet /\ g.busy /\ g.fifo = <<>>
      BY <1>2, <1>3, <1>4, <1>5, TaskFileBusy DEF IInv, TypeInv, Fresh
  <1>7. gayle' = Status(g, {"END", "IRQ"})
      BY <1>3 DEF Recalibrate
  <1>8. Same /\ hdf' \in Disks /\ FilesInv' /\ RequestInv'
      BY <1>1, NothingMoves
  <1> QED
      BY <1>1, <1>6, <1>7, <1>8, Answered DEF Others

(* InitializeDeviceParameters keeps the invariant.                         *)
LEMMA InitializeDeviceParametersKeeps == ASSUME IInv, InitializeDeviceParameters
    PROVE  IInv'
PROOF
  <1>1. Serve("INITPARAMS") /\ UNCHANGED <<arm, hdf, card, host, image>>
      BY DEF InitializeDeviceParameters
  <1>2. Fresh /\ gayle.busy
      BY <1>1, Served
  <1>3. PICK g : g = TaskFile(gayle, gayle.tfr)
      OBVIOUS
  <1>4. g \in GayleSet /\ g.busy /\ g.fifo = <<>>
    <2>1. gayle \in GayleSet /\ gayle.tfr \in Regs
        BY DEF IInv, TypeInv, GayleSet
    <2> QED
        BY <1>2, <1>3, <2>1, TaskFileBusy DEF Fresh
  <1>5. gayle' = Status(g, {"END", "IRQ"})
      BY <1>3 DEF InitializeDeviceParameters
  <1>6. Same /\ hdf' \in Disks /\ FilesInv' /\ RequestInv'
      BY <1>1, NothingMoves
  <1> QED
      BY <1>1, <1>4, <1>5, <1>6, Answered DEF Others

(* UnknownCommand keeps the invariant.                                     *)
LEMMA UnknownCommandKeeps == ASSUME IInv, UnknownCommand
    PROVE  IInv'
PROOF
  <1>1. Serve("UNKNOWN") /\ UNCHANGED <<arm, hdf, card, host, image>>
      BY DEF UnknownCommand
  <1>2. Fresh /\ gayle.busy
      BY <1>1, Served
  <1>3. PICK r : r = [gayle.tfr EXCEPT !.err = 4]
      OBVIOUS
  <1>4. PICK g : g = TaskFile(gayle, r)
      OBVIOUS
  <1>5. gayle \in GayleSet /\ r \in Regs
      BY <1>3 DEF IInv, TypeInv, GayleSet, Regs
  <1>6. g \in GayleSet /\ g.busy /\ g.fifo = <<>>
      BY <1>2, <1>4, <1>5, TaskFileBusy DEF Fresh
  <1>7. gayle' = Status(g, {"END", "IRQ", "ERR"})
      BY <1>3, <1>4 DEF UnknownCommand
  <1>8. Same /\ hdf' \in Disks /\ FilesInv' /\ RequestInv'
      BY <1>1, NothingMoves
  <1> QED
      BY <1>1, <1>6, <1>7, <1>8, Answered DEF Others

(* SetMultipleMode keeps the invariant.                                    *)
LEMMA SetMultipleModeKeeps == ASSUME IInv, SetMultipleMode
    PROVE  IInv'
PROOF
  <1>1. Serve("SETMULTIPLE") /\ UNCHANGED <<arm, card, host, image>>
      BY DEF SetMultipleMode
  <1>2. Fresh /\ gayle.busy /\ host.req.cmd = "SETMULTIPLE" /\ card = image /\ arm = NoJob
      BY <1>1, Served
  <1>3. gayle.tfr = host.req /\ gayle.fifo = <<>>
      BY <1>2 DEF Fresh
  <1>4. PICK u \in Units : u = host.req.unit
      BY DEF IInv, TypeInv, HostSet, Regs
  <1>5. PICK n \in BlockSizes : n = host.req.count
      BY <1>2 DEF IInv, RequestInv
  <1>6. hdf' = [hdf EXCEPT ![u].spb = n]
      BY <1>3, <1>4, <1>5 DEF SetMultipleMode
  <1>7. hdf \in Disks
      BY DEF IInv, TypeInv
  <1>8. /\ hdf' \in Disks
        /\ \A v \in Units : hdf'[v].type = hdf[v].type /\ hdf'[v].file = hdf[v].file
      BY <1>6, <1>7 DEF Disks
  <1>9. FilesInv'
    <2>1. \A v \in Units : IsFile(v)' <=> IsFile(v)
        BY <1>8 DEF IsFile, TypeOf
    <2> SUFFICES ASSUME NEW v \in Units, IsFile(v)'
                 PROVE  /\ hdf'[v].file.sector \in Within
                        /\ hdf'[v].file = Cursor(hdf'[v].file.sector)
        BY DEF FilesInv, Cursor
    <2> QED
        BY <1>8, <2>1 DEF IInv, FilesInv
  <1>10. /\ gayle' \in GayleSet /\ ~gayle'.busy /\ gayle'.intreq /\ ~gayle'.pio_in
         /\ ~gayle'.pio_out /\ gayle'.fifo = <<>>
    <2>1. gayle' = Status(gayle, {"END", "IRQ"})
        BY DEF SetMultipleMode
    <2> QED
        BY <1>2, <1>3, <2>1, StatusBusy DEF IInv, TypeInv
  <1>11. TypeInv'
      BY <1>1, <1>8, <1>10 DEF IInv, TypeInv
  <1>12. host' = host /\ arm' = NoJob
      BY <1>1, <1>2
  <1>13. RequestInv'
      BY <1>2, <1>12 DEF IInv, RequestInv, Transfers, Reads, Writes, Multiple
  <1>14. Moving = 0 /\ Moving' = 0
      BY <1>2, <1>12 DEF Moving, Reads, Writes
  <1>15. host.pc = "irq" /\ host.done = 0 /\ host.got = <<>>
      BY <1>2 DEF Fresh, Writes
  <1>16. Over'
      BY <1>2, <1>10, <1>12, <1>14, <1>15 DEF Over, Reads, Writes
  <1>17. ArmPlace' /\ ArmServes' /\ BusInv'
      BY <1>12, <1>16, ArmRests
  <1>18. DoneInv'
      BY <1>2, <1>12, <1>15 DEF DoneInv, Reads
  <1>19. StoreInv'
      BY <1>1, <1>2, <1>12, StoreQuietNext DEF NoJob, WriteSteps
  <1> QED
      BY <1>9, <1>11, <1>13, <1>17, <1>18, <1>19 DEF IInv

(* A step of the ARM after which it has given n sectors of a block that    *)
(* ends after e.                                                           *)
LEMMA GivenByArm ==
    ASSUME TypeInv, Same, host' = host, image' = image, NEW n, NEW e,
           host.req.cmd \in Reads \cup {"IDENTIFY"},
           host.pc \in {"irq", "in"}, host.done < Moving,
           Len(host.got) = host.done,
           host.done + Len(gayle'.fifo) = n,
           ~gayle'.pio_out,
           gayle'.pio_in
             \/ (arm'.pc = "read" /\ IsFile(arm.unit)' /\ gayle'.fifo = <<>>),
           host.pc = "irq" /\ gayle'.intreq =>
             e = host.done + Block(host.req.cmd, Moving - host.done, host.req.unit),
           host.pc = "irq" /\ ~gayle'.intreq => e = host.done,
           host.pc = "in" =>
             ~gayle'.intreq /\ host.blk >= 1 /\ e = host.done + host.blk,
           gayle'.sector_count \in {Moving - host.done, Moving - host.done - CountMod},
           host.req.cmd \in Reads =>
             \A j \in 1 .. Len(gayle'.fifo) :
                gayle'.fifo[j] = Expected(host.req.cmd, host.req.unit,
                                          First + (host.done + j - 1))
    PROVE  Given(n, e)'
PROOF
  <1>1. host.req.unit \in Units
      BY DEF TypeInv, HostSet, Regs
  <1>2. First' = First /\ Moving' = Moving
      BY SameRequest
  <1>3. ASSUME NEW cmd, NEW l
        PROVE  /\ Expected(cmd, host.req.unit, l)' = Expected(cmd, host.req.unit, l)
               /\ Block(cmd, l, host.req.unit)' = Block(cmd, l, host.req.unit)
      BY <1>1, ExpectedSame, SameRequest
  <1>4. Block(host.req.cmd, Moving - host.done, host.req.unit)'
          = Block(host.req.cmd, Moving - host.done, host.req.unit)
      BY <1>1, <1>2, SameRequest
  <1>5. ASSUME host.req.cmd \in Reads, NEW j \in 1 .. Len(gayle'.fifo)
        PROVE  gayle'.fifo[j] = Expected(host.req.cmd, host.req.unit,
                                         First + (host.done + j - 1))'
    <2>1. Expected(host.req.cmd, host.req.unit, First + (host.done + j - 1))'
            = Expected(host.req.cmd, host.req.unit, First + (host.done + j - 1))
        BY <1>1, <1>2, ExpectedSame
    <2> QED
        BY <1>5, <2>1
  <1> QED
      BY <1>2, <1>4, <1>5 DEF Given

(* IdentifyDevice keeps the invariant.                                     *)
LEMMA IdentifyDeviceKeeps == ASSUME IInv, IdentifyDevice
    PROVE  IInv'
PROOF
  <1>1. Serve("IDENTIFY") /\ UNCHANGED <<arm, hdf, card, host, image>>
      BY DEF IdentifyDevice
  <1>2. /\ Fresh /\ gayle.busy /\ host.req.cmd = "IDENTIFY"
        /\ card = image /\ arm = NoJob
      BY <1>1, Served
  <1>3. Same /\ hdf' \in Disks /\ FilesInv' /\ RequestInv'
      BY <1>1, NothingMoves
  <1>4. /\ gayle.fifo = <<>> /\ ~gayle.pio_in /\ ~gayle.pio_out /\ ~gayle.intreq
        /\ gayle.sector_count = host.req.count /\ host.pc = "irq"
        /\ host.done = 0 /\ host.got = <<>>
      BY <1>2 DEF Fresh, Writes
  <1>5. gayle \in GayleSet /\ gayle.tfr \in Regs /\ gayle.tfr.unit \in Units
      BY DEF IInv, TypeInv, GayleSet, Regs
  <1>6. PICK g : g = TaskFile(gayle, gayle.tfr)
      OBVIOUS
  <1>7. /\ g \in GayleSet /\ g.busy /\ g.fifo = <<>>
        /\ g.sector_count = gayle.sector_count
      BY <1>2, <1>4, <1>5, <1>6, TaskFileBusy
  <1>8. PICK h : h = Status(g, {"RDY"})
      OBVIOUS
  <1>9. /\ h \in GayleSet /\ h.busy /\ h.fifo = <<>> /\ h.pio_in
        /\ h.sector_count = gayle.sector_count
      BY <1>7, <1>8, StatusBusy
  <1>10. PICK d \in Contents : d = Identity(gayle.tfr.unit)
      BY <1>5 DEF Contents
  <1>11. PICK k : k = Put(h, d)
      OBVIOUS
  <1>12. /\ k \in GayleSet /\ k.busy /\ k.fifo # <<>> /\ k.pio_in
         /\ Len(k.fifo) = Len(h.fifo) + 1
         /\ k.sector_count = gayle.sector_count
      BY <1>9, <1>11, PutSector
  <1>13. Len(k.fifo) = 1
      BY <1>9, <1>12
  <1>14. gayle' = Status(k, {"END", "IRQ"})
      BY <1>6, <1>8, <1>10, <1>11 DEF IdentifyDevice
  <1>15. /\ gayle' \in GayleSet /\ gayle'.intreq /\ gayle'.pio_in /\ ~gayle'.pio_out
         /\ gayle'.fifo = k.fifo /\ gayle'.sector_count = gayle.sector_count
      BY <1>12, <1>14, StatusBusy
  <1>16. TypeInv /\ RequestInv /\ DoneInv
      BY DEF IInv
  <1>17. TypeInv'
      BY <1>1, <1>15, <1>16 DEF TypeInv
  <1>18. Moving = 1 /\ Moving' = 1 /\ host.req.count = 1
      BY <1>2, <1>3, <1>16, SameRequest DEF Moving, RequestInv, Reads, Writes
  <1>19. Block(host.req.cmd, Moving - host.done, host.req.unit) = 1
      BY <1>2 DEF Block, Multiple
  <1>20. host' = host /\ image' = image /\ arm' = NoJob /\ card' = card
      BY <1>1, <1>2
  <1>21. Given(1, 1)'
    <2>1. host.done + Len(gayle'.fifo) = 1 /\ Len(host.got) = 0
        BY <1>4, <1>13, <1>15
    <2>2. host.req.cmd \notin Reads
        BY <1>2 DEF Reads
    <2>3. gayle'.sector_count \in {Moving - host.done, Moving - host.done - CountMod}
        BY <1>4, <1>15, <1>18
    <2>4. /\ host.done < Moving /\ Len(host.got) = host.done
          /\ 1 = host.done + Block(host.req.cmd, Moving - host.done, host.req.unit)
        BY <1>4, <1>18, <1>19, <2>1
    <2>5. /\ host.req.cmd \in Reads \cup {"IDENTIFY"}
          /\ host.pc \in {"irq", "in"} /\ host.pc # "in"
        BY <1>2, <1>4
    <2> QED
        BY <1>3, <1>15, <1>16, <1>20, <2>1, <2>2, <2>3, <2>4, <2>5, GivenByArm
  <1>22. Given(Moving, Moving)'
      BY <1>18, <1>21 DEF Given
  <1>23. ArmPlace' /\ ArmServes' /\ BusInv'
      BY <1>2, <1>20, <1>22, ArmRests
  <1>24. DoneInv'
      BY <1>3, <1>4, <1>16, <1>20, DoneKept
  <1>25. StoreInv'
      BY <1>2, <1>20, StoreQuietNext DEF NoJob, WriteSteps
  <1> QED
      BY <1>3, <1>17, <1>23, <1>24, <1>25 DEF IInv

(* A transfer that the ARM finds. *)
LEMMA Begun ==
    ASSUME IInv, EndsInside, NEW cmd \in Transfers, Serve(cmd), NEW pc
    PROVE  /\ Job(pc) = [pc |-> pc, cmd |-> cmd, unit |-> host.req.unit,
                         pos |-> host.req.pos, left |-> Moving,
                         count |-> host.req.count, blk |-> 0, buf |-> 0,
                         lba |-> Base]
           /\ Moving = Wanted(gayle.tfr.count)
           /\ gayle.tfr = host.req
           /\ Moving \in 1 .. CountMod
           /\ Base \in Int
           /\ Base >= offset(TypeOf(host.req.unit))
           /\ Base + Moving <= Span(TypeOf(host.req.unit))
           /\ chs2lba(TypeOf(host.req.unit), host.req.pos) = First
PROOF
  <1>1. /\ arm = NoJob /\ Fresh
        /\ gayle.busy /\ host.req.cmd = cmd /\ card = image
      BY Served
  <1>2. gayle.tfr = host.req
      BY <1>1 DEF Fresh
  <1>3. TypeInv /\ RequestInv
      BY DEF IInv
  <1>4. PICK t \in Types : t = TypeOf(host.req.unit)
      BY <1>3, Numbers
  <1>5. Moving = Wanted(host.req.count)
      BY <1>1 DEF Moving, Transfers
  <1>6. host.req.pos \in Positions(t) /\ First + Moving <= Capacity(t)
      BY <1>1, <1>3, <1>4 DEF RequestInv
  <1>7. chs2lba(t, host.req.pos) = First
    <2>1. chs2lba(t, host.req.pos) \in Nat
        BY <1>6, AddressTypes
    <2> QED
        BY <1>4, <2>1 DEF First, Address
  <1>8. /\ Moving \in 1 .. CountMod /\ First \in Nat /\ Base \in Int
        /\ Base = First + offset(t) /\ offset(t) \in Int
      BY <1>1, <1>3, <1>4, Numbers
  <1>9. Capacity(t) \in Nat /\ Span(t) = Capacity(t) + offset(t)
      BY GeometryTypes DEF Span
  <1>10. Base >= offset(t) /\ Base + Moving <= Span(t)
    <2>1. PICK m \in Nat, f \in Nat, o \in Int, c \in Nat :
             m = Moving /\ f = First /\ o = offset(t) /\ c = Capacity(t)
        BY <1>8, <1>9
    <2> QED
        BY <1>6, <1>8, <1>9, <2>1
  <1>11. Job(pc) = [pc |-> pc, cmd |-> cmd, unit |-> host.req.unit,
                    pos |-> host.req.pos, left |-> Moving,
                    count |-> host.req.count, blk |-> 0, buf |-> 0, lba |-> Base]
    <2>1. chs2lba(TypeOf(host.req.unit), host.req.pos) + offset(TypeOf(host.req.unit)) = Base
        BY <1>4, <1>7, <1>8
    <2> QED
        BY <1>1, <1>2, <1>5, <2>1 DEF Job
  <1> QED
      BY <1>2, <1>4, <1>5, <1>7, <1>8, <1>10, <1>11

(* It puts the cursor on the first sector. *)
LEMMA CursorSought ==
    ASSUME IInv, EndsInside, NEW cmd \in Transfers, Serve(cmd),
           NEW f \in Sought(gayle.tfr.unit, Base),
           hdf' = [hdf EXCEPT ![gayle.tfr.unit].file = f], host' = host
    PROVE  /\ Same /\ hdf' \in Disks /\ FilesInv' /\ RequestInv'
           /\ IsFile(host.req.unit) /\ Base >= 0 =>
                hdf'[host.req.unit].file.sector = Base
           /\ IsFile(host.req.unit) /\ Base < 0 =>
                hdf'[host.req.unit].file.sector = 0
PROOF
  <1>1. /\ gayle.tfr = host.req /\ Moving \in 1 .. CountMod /\ Base \in Int
        /\ Base + Moving <= Span(TypeOf(host.req.unit))
      BY Begun
  <1>2. TypeInv /\ RequestInv /\ FilesInv
      BY DEF IInv
  <1>3. PICK u \in Units : u = host.req.unit
      BY <1>2, Numbers
  <1>4. CASE IsFile(u)
    <2>1. PICK l : l = IF Base < 0 THEN 0 ELSE Base
        OBVIOUS
    <2>2. l \in 0 .. FileSize - 1
      <3>1. TypeOf(u) \in Types /\ TypeOf(u) # "card"
          BY <1>4 DEF IsFile, Types
      <3>2. Span(TypeOf(u)) \in Int /\ Span(TypeOf(u)) <= FileSize
          BY <3>1, GeometryTypes DEF Span
      <3>3. FileSize \in Nat \ {0}
          BY HardDiskAssumption
      <3>4. CASE Base < 0
          BY <2>1, <3>3, <3>4
      <3>5. CASE Base >= 0
        <4>1. PICK m \in Nat, b \in Int, s \in Int :
                 m = Moving /\ b = Base /\ s = Span(TypeOf(u))
            BY <1>1, <3>2
        <4>2. m >= 1 /\ b + m <= s /\ s <= FileSize
            BY <1>1, <1>3, <3>2, <4>1
        <4> QED
            BY <2>1, <3>3, <3>5, <4>1, <4>2
      <3> QED
          BY <1>1, <3>4, <3>5
    <2>3. hdf[u].file.sector \in Within /\ hdf[u].file = Cursor(hdf[u].file.sector)
        BY <1>2, <1>4 DEF FilesInv
    <2>4. Sought(u, Base) = HardFileSeek(hdf[u].file, l)
        BY <1>4, <2>1 DEF Sought
    <2>5. f = Cursor(l)
        BY <1>1, <1>3, <2>2, <2>3, <2>4, HardFileSeekCursor
    <2>6. l \in Within
        BY <2>2, WithinFile
    <2>7. Same /\ hdf' \in Disks /\ FilesInv' /\ hdf'[u].file.sector = l
        BY <1>1, <1>2, <1>3, <1>4, <2>5, <2>6, CursorSet
    <2>8. (Base >= 0 => l = Base) /\ (Base < 0 => l = 0)
        BY <1>1, <2>1
    <2>9. RequestInv'
        BY <1>2, <2>7, RequestKept
    <2> QED
        BY <1>3, <2>7, <2>8, <2>9
  <1>5. CASE ~IsFile(u)
    <2>1. f = hdf[u].file
        BY <1>1, <1>3, <1>5 DEF Sought
    <2>2. 0 \in Within
        BY WithinFile
    <2>3. Same /\ hdf' \in Disks /\ FilesInv'
        BY <1>1, <1>2, <1>3, <1>5, <2>1, <2>2, CursorSet
    <2> QED
        BY <1>2, <1>3, <1>5, <2>3, RequestKept
  <1> QED
      BY <1>3, <1>4, <1>5

(* The local variables it begins with. *)
LEMMA ArmBegins ==
    ASSUME IInv, EndsInside, NEW cmd \in Transfers, Serve(cmd), host' = host, Same,
           IsFile(host.req.unit) /\ Base >= 0 => hdf'[host.req.unit].file.sector = Base,
           IsFile(host.req.unit) /\ Base < 0 => hdf'[host.req.unit].file.sector = 0,
           NEW pc \in {"read", "mwait", "wwait"},
           pc = "read" => cmd = "READ", pc = "mwait" => cmd = "READM",
           pc = "wwait" => cmd \in Writes,
           NEW blk \in 0 .. FifoSectors,
           pc = "wwait" => blk \in 1 .. Moving /\ (cmd = "WRITE" => blk = 1),
           arm' = [Job(pc) EXCEPT !.blk = blk]
    PROVE  /\ arm' \in ArmSet /\ ArmPlace' /\ ArmServes' /\ Engaged'
           /\ arm'.pc = pc /\ arm'.unit = host.req.unit /\ arm'.cmd = cmd
           /\ arm'.blk = blk /\ arm'.left = Moving /\ Progress' = 0
           /\ arm'.lba = Base /\ IsFile(arm.unit)' <=> IsFile(host.req.unit)
PROOF
  <1>1. /\ Job(pc) = [pc |-> pc, cmd |-> cmd, unit |-> host.req.unit,
                      pos |-> host.req.pos, left |-> Moving,
                      count |-> host.req.count, blk |-> 0, buf |-> 0,
                      lba |-> Base]
        /\ Moving \in 1 .. CountMod
        /\ Base \in Int
        /\ Base >= offset(TypeOf(host.req.unit))
        /\ Base + Moving <= Span(TypeOf(host.req.unit))
        /\ chs2lba(TypeOf(host.req.unit), host.req.pos) = First
      BY Begun
  <1>2. arm' = [pc |-> pc, cmd |-> cmd, unit |-> host.req.unit,
                pos |-> host.req.pos, left |-> Moving,
                count |-> host.req.count, blk |-> blk, buf |-> 0, lba |-> Base]
      BY <1>1
  <1>3. TypeInv /\ RequestInv /\ host.req.cmd = cmd
      BY Served DEF IInv
  <1>4. /\ host.req.unit \in Units /\ TypeOf(host.req.unit) \in Types
        /\ CountMod \in Nat \ {0, 1}
      BY <1>3, Numbers
  <1>5. /\ host.req.pos \in [cyl : Nat, head : Nat, sec : Nat]
        /\ host.req.count \in Nat
      BY <1>3 DEF TypeInv, HostSet, Regs
  <1>6. /\ arm'.pc = pc /\ arm'.unit = host.req.unit /\ arm'.cmd = cmd
        /\ arm'.blk = blk /\ arm'.left = Moving /\ arm'.lba = Base
        /\ arm'.pos = host.req.pos /\ arm'.count = host.req.count
      BY <1>2
  <1>7. arm' \in ArmSet
    <2>1. Moving \in 0 .. CountMod
        BY <1>1, <1>4
    <2> QED
        BY <1>1, <1>2, <1>4, <1>5, <2>1
           DEF ArmSet, ReadSteps, MultipleSteps, WriteSteps, Transfers
  <1>8. PICK u \in Units : u = host.req.unit
      BY <1>4
  <1>9. /\ First' = First /\ Moving' = Moving /\ Base' = Base
        /\ hdf'[u].type = hdf[u].type
        /\ IsFile(u)' <=> IsFile(u)
      BY <1>3, SameRequest DEF Same
  <1>10. TypeOf(arm.unit)' = TypeOf(u)
      BY <1>6, <1>8, <1>9 DEF TypeOf
  <1>11. IsFile(arm.unit)' <=> IsFile(host.req.unit)
      BY <1>8, <1>10 DEF IsFile
  <1>12. Engaged' /\ ~Behind'
      BY <1>6 DEF Engaged, Late, Behind
  <1>13. PICK m \in Nat : m = Moving /\ m >= 1
      BY <1>1, <1>4
  <1>14. Progress' = 0
      BY <1>6, <1>9, <1>13 DEF Progress
  <1>15. ArmPlace'
    <2>1. host.req.pos \in Positions(TypeOf(u))
        BY <1>3, <1>8 DEF RequestInv
    <2>2. cmd = "READM" => Base >= 0
        BY <1>3 DEF RequestInv
    <2>3. pc = "wwait" => blk >= 1 /\ blk <= Moving
        BY <1>13
    <2>4. pc \notin {"mtask", "store", "mdata"} /\ cmd \in Transfers
        OBVIOUS
    <2>5. /\ pc \in ReadSteps => cmd = "READ"
          /\ pc \in MultipleSteps => cmd = "READM"
          /\ pc \in WriteSteps => cmd \in Writes
        BY DEF ReadSteps, MultipleSteps, WriteSteps
    <2> QED
        BY <1>1, <1>6, <1>8, <1>10, <1>11, <1>13, <2>1, <2>2, <2>3, <2>4, <2>5
           DEF ArmPlace
  <1>16. ArmServes'
    <2>1. PosAt(Progress)'
      <3>1. chs2lba(TypeOf(u), host.req.pos) = First + 0
          BY <1>1, <1>3, <1>8, Numbers
      <3> QED
          BY <1>6, <1>9, <1>10, <1>13, <1>14, <3>1 DEF PosAt
    <2>2. Base = Base + Progress'
        BY <1>1, <1>14
    <2>3. pc \notin {"store", "rwait", "rdata"} /\ arm'.left <= Moving'
        BY <1>6, <1>9, <1>13
    <2> QED
        BY <1>3, <1>6, <1>9, <1>12, <2>1, <2>2, <2>3 DEF ArmServes
  <1> QED
      BY <1>6, <1>7, <1>11, <1>12, <1>14, <1>15, <1>16

(* StartRead keeps the invariant.                                          *)
LEMMA StartReadKeeps == ASSUME IInv, EndsInside, StartRead
    PROVE  IInv'
PROOF
  <1>1. /\ Serve("READ") /\ arm' = Job("read") /\ host' = host /\ image' = image
        /\ card' = card /\ "READ" \in Transfers
      BY DEF StartRead, Transfers, Reads
  <1>2. /\ Fresh /\ gayle.busy /\ host.req.cmd = "READ"
        /\ card = image /\ arm = NoJob
      BY <1>1, Served
  <1>3. /\ gayle.tfr = host.req /\ Moving \in 1 .. CountMod /\ Base \in Int
        /\ Job("read").blk = 0 /\ Job("read").lba = Base
        /\ Job("read") = [Job("read") EXCEPT !.blk = 0]
      BY <1>1, Begun
  <1>4. PICK f \in Sought(gayle.tfr.unit, Base) :
           hdf' = [hdf EXCEPT ![gayle.tfr.unit].file = f]
      BY <1>1, <1>3 DEF StartRead
  <1>5. /\ Same /\ hdf' \in Disks /\ FilesInv' /\ RequestInv'
        /\ IsFile(host.req.unit) /\ Base >= 0 => hdf'[host.req.unit].file.sector = Base
        /\ IsFile(host.req.unit) /\ Base < 0 => hdf'[host.req.unit].file.sector = 0
      BY <1>1, <1>4, CursorSought
  <1>6. /\ arm' \in ArmSet /\ ArmPlace' /\ ArmServes' /\ Engaged'
        /\ arm'.pc = "read" /\ Progress' = 0
        /\ IsFile(arm.unit)' <=> IsFile(host.req.unit)
    <2>1. 0 \in 0 .. FifoSectors
        BY GayleAssumption
    <2>2. arm' = [Job("read") EXCEPT !.blk = 0]
        BY <1>1, <1>3
    <2>3. /\ arm' \in ArmSet /\ ArmPlace' /\ ArmServes' /\ Engaged'
          /\ arm'.pc = "read" /\ Progress' = 0 /\ arm'.unit = host.req.unit
        BY <1>1, <1>5, <2>1, <2>2, ArmBegins
    <2>4. host.req.unit \in Units /\ TypeInv
        BY Numbers DEF IInv
    <2>5. TypeOf(arm.unit)' = TypeOf(host.req.unit)
        BY <1>5, <2>3, <2>4 DEF Same, TypeOf
    <2> QED
        BY <2>3, <2>5 DEF IsFile
  <1>7. /\ gayle.fifo = <<>> /\ ~gayle.pio_in /\ ~gayle.pio_out /\ ~gayle.intreq
        /\ gayle.sector_count = host.req.count /\ host.pc = "irq"
        /\ host.done = 0 /\ host.got = <<>>
      BY <1>2 DEF Fresh, Writes
  <1>8. TypeInv /\ RequestInv /\ DoneInv
      BY DEF IInv
  <1>9. gayle \in GayleSet
      BY <1>8 DEF TypeInv
  <1>10. /\ gayle' \in GayleSet /\ gayle'.busy /\ ~gayle'.intreq /\ ~gayle'.pio_out
         /\ gayle'.fifo = <<>> /\ gayle'.sector_count = gayle.sector_count
         /\ gayle'.pio_in \/ IsFile(host.req.unit)
    <2>1. CASE IsFile(gayle.tfr.unit)
        BY <1>2, <1>3, <1>7, <1>9, <2>1 DEF StartRead
    <2>2. CASE ~IsFile(gayle.tfr.unit)
      <3>1. gayle' = Status(gayle, {"RDY"})
          BY <2>2 DEF StartRead
      <3> QED
          BY <1>2, <1>7, <1>9, <3>1, StatusBusy
    <2> QED
        BY <2>1, <2>2
  <1>11. TypeInv'
      BY <1>1, <1>5, <1>6, <1>8, <1>10 DEF TypeInv
  <1>12. Given(0, 0)'
    <2>1. Len(gayle'.fifo) = 0 /\ Len(host.got) = 0
        BY <1>7, <1>10
    <2>2. host.done < Moving /\ host.done + Len(gayle'.fifo) = 0
        BY <1>3, <1>7, <2>1
    <2>3. gayle'.sector_count \in {Moving - host.done, Moving - host.done - CountMod}
      <3>1. host.req.count \in {Moving, Moving - CountMod} /\ CountMod \in Nat /\ Moving \in Nat
          BY <1>2, <1>8, Numbers DEF Transfers, Reads
      <3>2. Moving - host.done = Moving
          BY <1>7, <3>1
      <3> QED
          BY <1>7, <1>10, <3>1, <3>2
    <2>4. host.req.cmd \in Reads \cup {"IDENTIFY"} /\ host.pc \in {"irq", "in"}
        BY <1>2, <1>7 DEF Reads
    <2>5. \A j \in 1 .. Len(gayle'.fifo) : FALSE
        BY <2>1
    <2>6. /\ gayle'.pio_in
               \/ (arm'.pc = "read" /\ IsFile(arm.unit)' /\ gayle'.fifo = <<>>)
        BY <1>6, <1>10
    <2>7. Len(host.got) = host.done /\ 0 = host.done /\ host.pc # "in"
        BY <1>7, <2>1
    <2> QED
        BY <1>1, <1>5, <1>8, <1>10, <2>2, <2>3, <2>4, <2>5, <2>6, <2>7, GivenByArm
  <1>13. Given(Progress, Progress)'
      BY <1>6, <1>12 DEF Given
  <1>14. BusInv'
      BY <1>6, <1>10, <1>13 DEF BusInv
  <1>15. DoneInv'
      BY <1>1, <1>5, <1>7, <1>8, DoneKept
  <1>16. StoreInv'
      BY <1>1, <1>2, <1>6, StoreQuietNext DEF WriteSteps
  <1> QED
      BY <1>5, <1>6, <1>11, <1>14, <1>15, <1>16 DEF IInv

(* StartReadMultiple keeps the invariant.                                  *)
LEMMA StartReadMultipleKeeps == ASSUME IInv, EndsInside, StartReadMultiple
    PROVE  IInv'
PROOF
  <1>1. /\ Serve("READM") /\ arm' = Job("mwait") /\ host' = host /\ image' = image
        /\ card' = card /\ "READM" \in Transfers
      BY DEF StartReadMultiple, Transfers, Reads
  <1>2. /\ Fresh /\ gayle.busy /\ host.req.cmd = "READM"
        /\ card = image /\ arm = NoJob
      BY <1>1, Served
  <1>3. /\ gayle.tfr = host.req /\ Moving \in 1 .. CountMod /\ Base \in Int
        /\ Job("mwait").blk = 0 /\ Job("mwait").lba = Base
        /\ Job("mwait") = [Job("mwait") EXCEPT !.blk = 0]
      BY <1>1, Begun
  <1>4. PICK f \in Sought(gayle.tfr.unit, Base) :
           hdf' = [hdf EXCEPT ![gayle.tfr.unit].file = f]
      BY <1>1, <1>3 DEF StartReadMultiple
  <1>5. /\ Same /\ hdf' \in Disks /\ FilesInv' /\ RequestInv'
        /\ IsFile(host.req.unit) /\ Base >= 0 => hdf'[host.req.unit].file.sector = Base
        /\ IsFile(host.req.unit) /\ Base < 0 => hdf'[host.req.unit].file.sector = 0
      BY <1>1, <1>4, CursorSought
  <1>6. /\ arm' \in ArmSet /\ ArmPlace' /\ ArmServes' /\ Engaged'
        /\ arm'.pc = "mwait" /\ Progress' = 0
    <2>1. 0 \in 0 .. FifoSectors
        BY GayleAssumption
    <2>2. arm' = [Job("mwait") EXCEPT !.blk = 0]
        BY <1>1, <1>3
    <2> QED
        BY <1>1, <1>5, <2>1, <2>2, ArmBegins
  <1>7. /\ gayle.fifo = <<>> /\ ~gayle.pio_in /\ ~gayle.pio_out /\ ~gayle.intreq
        /\ gayle.sector_count = host.req.count /\ host.pc = "irq"
        /\ host.done = 0 /\ host.got = <<>>
      BY <1>2 DEF Fresh, Writes
  <1>8. TypeInv /\ RequestInv /\ DoneInv
      BY DEF IInv
  <1>9. gayle \in GayleSet
      BY <1>8 DEF TypeInv
  <1>10. /\ gayle' \in GayleSet /\ gayle'.busy /\ ~gayle'.intreq /\ ~gayle'.pio_out
         /\ gayle'.fifo = <<>> /\ gayle'.sector_count = gayle.sector_count
         /\ gayle'.pio_in
    <2>1. gayle' = Status(gayle, {"RDY"})
        BY DEF StartReadMultiple
    <2> QED
        BY <1>2, <1>7, <1>9, <2>1, StatusBusy
  <1>11. TypeInv'
      BY <1>1, <1>5, <1>6, <1>8, <1>10 DEF TypeInv
  <1>12. Given(0, 0)'
    <2>1. Len(gayle'.fifo) = 0 /\ Len(host.got) = 0
        BY <1>7, <1>10
    <2>2. host.done < Moving /\ host.done + Len(gayle'.fifo) = 0
        BY <1>3, <1>7, <2>1
    <2>3. gayle'.sector_count \in {Moving - host.done, Moving - host.done - CountMod}
      <3>1. host.req.count \in {Moving, Moving - CountMod} /\ CountMod \in Nat /\ Moving \in Nat
          BY <1>2, <1>8, Numbers DEF Transfers, Reads
      <3>2. Moving - host.done = Moving
          BY <1>7, <3>1
      <3> QED
          BY <1>7, <1>10, <3>1, <3>2
    <2>4. host.req.cmd \in Reads \cup {"IDENTIFY"} /\ host.pc \in {"irq", "in"}
        BY <1>2, <1>7 DEF Reads
    <2>5. \A j \in 1 .. Len(gayle'.fifo) : FALSE
        BY <2>1
    <2>6. Len(host.got) = host.done /\ 0 = host.done /\ host.pc # "in"
        BY <1>7, <2>1
    <2> QED
        BY <1>1, <1>5, <1>8, <1>10, <2>2, <2>3, <2>4, <2>5, <2>6, GivenByArm
  <1>13. Given(Progress, Progress)'
      BY <1>6, <1>12 DEF Given
  <1>14. BusInv'
      BY <1>6, <1>10, <1>13 DEF BusInv
  <1>15. DoneInv'
      BY <1>1, <1>5, <1>7, <1>8, DoneKept
  <1>16. StoreInv'
      BY <1>1, <1>2, <1>6, StoreQuietNext DEF WriteSteps
  <1> QED
      BY <1>5, <1>6, <1>11, <1>14, <1>15, <1>16 DEF IInv

(* A step of the ARM after which it has taken p sectors of a block that    *)
(* ends after e.                                                           *)
LEMMA AskedByArm ==
    ASSUME TypeInv, Same, host' = host, NEW p, NEW e,
           host.req.cmd \in Writes,
           host.pc \in {"irq", "out"},
           gayle'.busy, ~gayle'.pio_in, gayle'.pio_out,
           host.done = p + Len(gayle'.fifo),
           e <= Moving,
           host.pc = "irq" /\ gayle'.intreq =>
             /\ host.done = p /\ p < Moving
             /\ e = p + Block(host.req.cmd, Moving - p, host.req.unit),
           host.pc = "irq" /\ ~gayle'.intreq => host.done = e,
           host.pc = "out" =>
             ~gayle'.intreq /\ host.blk >= 1 /\ e = host.done + host.blk,
           \A i \in 1 .. Len(gayle'.fifo) : gayle'.fifo[i].kind = "stored"
    PROVE  Asked(p, e)'
PROOF
  <1>1. host.req.unit \in Units
      BY DEF TypeInv, HostSet, Regs
  <1>2. Moving' = Moving
      BY SameRequest
  <1>3. Block(host.req.cmd, Moving - p, host.req.unit)'
          = Block(host.req.cmd, Moving - p, host.req.unit)
      BY <1>1, <1>2, SameRequest
  <1> QED
      BY <1>2, <1>3 DEF Asked

(* StartWrite keeps the invariant.                                         *)
LEMMA StartWriteKeeps == ASSUME IInv, EndsInside, StartWrite
    PROVE  IInv'
PROOF
  <1>1. PICK cmd \in Writes : Serve(cmd)
      BY DEF StartWrite, Writes
  <1>2. host' = host /\ image' = image /\ card' = card /\ cmd \in Transfers
      BY DEF StartWrite, Transfers
  <1>3. Fresh /\ gayle.busy /\ host.req.cmd = cmd /\ card = image /\ arm = NoJob
      BY <1>1, Served
  <1>4. /\ gayle.tfr = host.req /\ Moving \in 1 .. CountMod /\ Base \in Int
        /\ Moving = Wanted(gayle.tfr.count)
        /\ Job("wwait") = [pc |-> "wwait", cmd |-> cmd, unit |-> host.req.unit,
                         pos |-> host.req.pos, left |-> Moving,
                         count |-> host.req.count, blk |-> 0, buf |-> 0,
                         lba |-> Base]
      BY <1>1, <1>2, Begun
  <1>5. PICK b : b = Block(cmd, Moving, host.req.unit)
      OBVIOUS
  <1>6. TypeInv /\ RequestInv /\ DoneInv
      BY DEF IInv
  <1>7. b \in 1 .. Moving /\ b \in 0 .. FifoSectors /\ (cmd = "WRITE" => b = 1)
    <2>1. Moving \in Nat /\ Moving >= 1 /\ host.req.unit \in Units /\ hdf \in Disks
        BY <1>4, <1>6, Numbers DEF TypeInv
    <2>2. cmd \in Multiple => hdf[host.req.unit].spb > 0
        BY <1>3, <1>6 DEF RequestInv
    <2>3. "WRITE" \notin Multiple
        BY DEF Multiple
    <2> QED
        BY <1>5, <2>1, <2>2, <2>3, BlockBounds
  <1>8. arm' = [Job("wwait") EXCEPT !.blk = b]
      BY <1>3, <1>4, <1>5 DEF StartWrite
  <1>9. arm'.lba = Base
      BY <1>4, <1>8
  <1>10. PICK f \in Sought(gayle.tfr.unit, Base) :
           hdf' = [hdf EXCEPT ![gayle.tfr.unit].file = f]
      BY <1>9 DEF StartWrite
  <1>11. /\ Same /\ hdf' \in Disks /\ FilesInv' /\ RequestInv'
         /\ IsFile(host.req.unit) /\ Base >= 0 => hdf'[host.req.unit].file.sector = Base
         /\ IsFile(host.req.unit) /\ Base < 0 => hdf'[host.req.unit].file.sector = 0
      BY <1>1, <1>2, <1>10, CursorSought
  <1>12. /\ arm' \in ArmSet /\ ArmPlace' /\ ArmServes' /\ Engaged'
         /\ arm'.pc = "wwait" /\ Progress' = 0 /\ arm'.blk = b
      BY <1>1, <1>2, <1>7, <1>8, <1>11, ArmBegins
  <1>13. /\ gayle.fifo = <<>> /\ ~gayle.pio_in /\ ~gayle.pio_out /\ ~gayle.intreq
         /\ host.pc = "out" /\ host.done = 0 /\ host.got = <<>>
         /\ host.blk = b
      BY <1>3, <1>5 DEF Fresh
  <1>14. /\ gayle' \in GayleSet /\ gayle'.busy /\ ~gayle'.intreq /\ gayle'.pio_out
         /\ gayle'.fifo = <<>> /\ ~gayle'.pio_in
    <2>1. gayle' = Status(gayle, {"REQ"})
        BY DEF StartWrite
    <2> QED
        BY <1>3, <1>6, <1>13, <2>1, StatusBusy DEF TypeInv
  <1>15. TypeInv'
      BY <1>2, <1>6, <1>11, <1>12, <1>14 DEF TypeInv
  <1>16. Asked(0, b)'
    <2>1. Len(gayle'.fifo) = 0
        BY <1>14
    <2>2. host.done = 0 + Len(gayle'.fifo) /\ b <= Moving /\ host.blk >= 1 /\ b = host.done + host.blk
        BY <1>4, <1>7, <1>13, <2>1
    <2>3. \A i \in 1 .. Len(gayle'.fifo) : FALSE
        BY <2>1
    <2>4. host.req.cmd \in Writes /\ host.pc \in {"irq", "out"} /\ host.pc # "irq"
        BY <1>3, <1>13
    <2> QED
        BY <1>2, <1>6, <1>11, <1>14, <2>2, <2>3, <2>4, AskedByArm
  <1>17. Asked(Progress, Progress + arm.blk)'
    <2>1. Progress' + arm'.blk = b
        BY <1>7, <1>12
    <2> QED
        BY <1>12, <1>16, <2>1 DEF Asked
  <1>18. BusInv'
      BY <1>12, <1>14, <1>17 DEF BusInv, ReadSteps, MultipleSteps
  <1>19. DoneInv'
      BY <1>2, <1>6, <1>11, <1>13, DoneKept
  <1>20. StoreInv'
    <2>1. QLen' = 0
        BY <1>12, <1>14 DEF QLen
    <2> QED
        BY <1>2, <1>3, <2>1, NoneOnTheirWay
  <1> QED
      BY <1>11, <1>12, <1>15, <1>18, <1>19, <1>20 DEF IInv

(* What is known of the ARM while it serves the command of the Amiga. *)
LEMMA Serving == ASSUME IInv, Engaged
    PROVE  /\ arm \in ArmSet /\ arm.pc # "idle"
           /\ arm.unit = host.req.unit /\ arm.unit \in Units
           /\ arm.cmd = host.req.cmd /\ arm.cmd \in Transfers
           /\ TypeOf(arm.unit) \in Types
           /\ Moving \in Nat /\ arm.left \in Nat /\ arm.lba \in Int
           /\ arm.left <= Moving /\ Progress \in 0 .. Moving
           /\ Progress = Moving - arm.left
           /\ Base \in Int /\ First \in Nat
           /\ First + Moving <= Capacity(TypeOf(arm.unit))
           /\ Capacity(TypeOf(arm.unit)) \in Nat
           /\ offset(TypeOf(arm.unit)) \in Int
           /\ Base = First + offset(TypeOf(arm.unit))
           /\ Base + Moving <= Span(TypeOf(arm.unit))
           /\ arm.pc # "store" => arm.lba = Base + Progress
           /\ arm.pc = "store" => arm.lba = Base + Progress - 1
PROOF
  <1>1. arm.pc # "idle"
      BY DEF Engaged
  <1>2. TypeInv /\ RequestInv /\ ArmPlace /\ ArmServes
      BY DEF IInv
  <1>3. arm \in ArmSet
      BY <1>1, <1>2 DEF TypeInv, NoJob
  <1>4. /\ arm.unit = host.req.unit /\ arm.cmd = host.req.cmd
        /\ arm.left <= Moving
        /\ arm.pc # "store" => arm.lba = Base + Progress
        /\ arm.pc = "store" => arm.lba = Base + Progress - 1
      BY <1>2 DEF ArmServes
  <1>5. /\ arm.unit \in Units /\ arm.cmd \in Transfers /\ arm.left \in 0 .. CountMod
        /\ arm.lba \in Int
      BY <1>3 DEF ArmSet, Transfers
  <1>6. PICK t \in Types : t = TypeOf(arm.unit)
      BY <1>2, <1>4, Numbers
  <1>7. /\ CountMod \in Nat /\ Moving \in 0 .. CountMod /\ First \in Nat /\ Base \in Int
        /\ Base = First + offset(t) /\ offset(t) \in Int
      BY <1>2, <1>4, <1>5, <1>6, Numbers
  <1>8. First + Moving <= Capacity(t) /\ Capacity(t) \in Nat
      BY <1>2, <1>4, <1>5, <1>6, GeometryTypes DEF RequestInv
  <1>9. Span(t) = Capacity(t) + offset(t)
      BY DEF Span
  <1>10. PICK m \in Nat, f \in Nat, o \in Int, c \in Nat, l \in Nat :
            m = Moving /\ f = First /\ o = offset(t) /\ c = Capacity(t) /\ l = arm.left
      BY <1>5, <1>7, <1>8
  <1>11. Progress = m - l /\ l <= m
      BY <1>4, <1>10 DEF Progress
  <1>12. Progress \in 0 .. Moving
      BY <1>10, <1>11
  <1>13. Base + Moving <= Span(t)
      BY <1>7, <1>8, <1>9, <1>10
  <1> QED
      BY <1>1, <1>3, <1>4, <1>5, <1>6, <1>7, <1>8, <1>10, <1>11, <1>12, <1>13

(* The registers of the sector after the next, or of the last one. *)
LEMMA NextRegisters == ASSUME IInv, Engaged, arm.left >= 1, PosAt(Progress)
    PROVE  /\ NextPos \in Positions(TypeOf(arm.unit))
           /\ NextPos \in [cyl : Nat, head : Nat, sec : Nat]
           /\ Progress + 1 < Moving =>
                chs2lba(TypeOf(arm.unit), NextPos) = First + (Progress + 1)
           /\ Progress + 1 >= Moving =>
                chs2lba(TypeOf(arm.unit), NextPos) = First + (Moving - 1)
PROOF
  <1>1. PICK t \in Types : t = TypeOf(arm.unit)
      BY Serving
  <1>2. PICK m \in Nat, l \in Nat, n \in Nat, f \in Nat, c \in Nat :
           /\ m = Moving /\ l = arm.left /\ n = Progress /\ f = First
           /\ c = Capacity(t) /\ n = m - l /\ f + m <= c
    <2>1. Progress \in Nat
        BY Serving
    <2> QED
        BY <1>1, <2>1, Serving
  <1>3. PICK p \in Positions(t) : p = arm.pos
      BY <1>1, Serving DEF IInv, ArmPlace
  <1>4. chs2lba(t, p) = f + n
      BY <1>1, <1>2, <1>3 DEF PosAt
  <1>5. CASE l = 1
    <2>1. NextPos = p
        BY <1>2, <1>3, <1>5 DEF NextPos, AdvanceUnlessLast
    <2>2. n + 1 = m /\ n = m - 1
        BY <1>2, <1>5
    <2>3. p \in [cyl : Nat, head : Nat, sec : Nat]
        BY <1>3, AddressTypes DEF Positions
    <2> QED
        BY <1>1, <1>2, <1>3, <1>4, <2>1, <2>2, <2>3
  <1>6. CASE l # 1
    <2>1. NextPos = Advance(t, p)
        BY <1>1, <1>2, <1>3, <1>6 DEF NextPos, AdvanceUnlessLast
    <2>2. n + 1 < m
        BY <1>2, <1>6
    <2>3. chs2lba(t, p) + 1 < Capacity(t)
        BY <1>2, <1>4, <2>2
    <2>4. /\ Advance(t, p) \in Positions(t)
          /\ chs2lba(t, Advance(t, p)) = chs2lba(t, p) + 1
        BY <2>3, AdvanceStep
    <2>5. PICK q \in Positions(t) : q = NextPos
        BY <2>1, <2>4
    <2>6. q \in [cyl : Nat, head : Nat, sec : Nat]
        BY <2>5, AddressTypes DEF Positions
    <2>7. chs2lba(t, q) = f + (n + 1)
        BY <1>2, <1>4, <2>1, <2>4, <2>5
    <2> QED
        BY <1>1, <1>2, <2>2, <2>5, <2>6, <2>7
  <1> QED
      BY <1>5, <1>6

(* A step of the ARM within the command, after which it has taken or given *)
(* n sectors.                                                              *)
LEMMA ArmContinues ==
    ASSUME IInv, Engaged, Same, host' = host, arm' \in ArmSet,
           arm'.cmd = arm.cmd, arm'.unit = arm.unit, arm'.count = arm.count,
           arm'.pos \in Positions(TypeOf(arm.unit)),
           NEW n \in Nat, n <= Moving, arm'.left = Moving - n,
           arm'.pc # "store" => arm'.lba = Base + n,
           arm'.pc = "store" => arm'.lba = Base + n - 1 /\ n >= 1,
           IsFile(arm.unit) /\ arm'.lba >= 0 => hdf'[arm.unit].file.sector = arm'.lba,
           IsFile(arm.unit) /\ arm'.lba < 0 => hdf'[arm.unit].file.sector = 0,
           arm'.pc \in ReadSteps => arm.cmd = "READ",
           arm'.pc \in MultipleSteps => arm.cmd = "READM",
           arm'.pc \in WriteSteps => arm.cmd \in Writes,
           arm'.pc \notin {"mtask", "store"} => arm'.left >= 1,
           arm'.pc \in {"mdata", "wwait"} => arm'.blk >= 1,
           arm'.pc \in {"mdata", "wwait", "store"} => arm'.blk <= arm'.left,
           arm.cmd = "WRITE" /\ arm'.pc = "wwait" => arm'.blk = 1,
           arm.cmd = "WRITE" /\ arm'.pc = "store" => arm'.blk = 0,
           NEW k \in Nat,
           arm'.pc \in {"rwait", "rdata"} =>
             /\ k = n + 1 /\ gayle'.tfr.pos = arm'.pos
             /\ gayle'.tfr.unit = arm.unit,
           arm'.pc \notin {"rwait", "rdata"} => k = n,
           arm'.pc \in {"rwait", "rdata"} => ~Special',
           k < Moving => chs2lba(TypeOf(arm.unit), arm'.pos) = First + k,
           k >= Moving => chs2lba(TypeOf(arm.unit), arm'.pos) = First + (Moving - 1)
    PROVE  ArmPlace' /\ ArmServes' /\ Progress' = n /\ arm'.pc # "idle"
PROOF
  <1>1. TypeInv /\ RequestInv
      BY DEF IInv
  <1>2. PICK u \in Units : u = arm.unit
      BY Serving
  <1>3. PICK t \in Types : t = TypeOf(u)
      BY <1>2, Serving
  <1>4. /\ First' = First /\ Moving' = Moving /\ Base' = Base
        /\ TypeOf(u)' = t
        /\ IsFile(u)' <=> IsFile(u)
      BY <1>1, <1>3, SameRequest
  <1>5. TypeOf(arm.unit)' = t
      BY <1>2, <1>4 DEF TypeOf
  <1>6. IsFile(arm.unit)' <=> IsFile(u)
      BY <1>3, <1>5 DEF IsFile
  <1>7. PICK m \in Nat : m = Moving
      BY Serving
  <1>8. Progress' = n
      BY <1>4, <1>7 DEF Progress
  <1>9. PICK b \in Int, o \in Int, s \in Int :
           /\ b = Base /\ o = offset(t) /\ s = Span(t)
           /\ b >= o /\ b + m <= s
    <2>1. First \in Nat /\ Base = First + offset(t) /\ offset(t) \in Int /\ Base \in Int
        BY <1>2, <1>3, Serving
    <2>2. Base >= offset(t)
        BY <2>1
    <2>3. Capacity(t) \in Nat
        BY GeometryTypes
    <2>4. Span(t) \in Int
        BY <2>1, <2>3 DEF Span
    <2>5. Base + m <= Span(t)
        BY <1>2, <1>3, <1>7, Serving
    <2> QED
        BY <2>1, <2>2, <2>4, <2>5
  <1>10. PICK d \in Int, l \in Nat : d = arm'.lba /\ l = arm'.left /\ l = m - n
      BY <1>7 DEF ArmSet
  <1>11. d >= o /\ d + l <= s /\ (arm'.pc = "store" => d + l + 1 <= s)
    <2>1. CASE arm'.pc # "store"
      <3>1. d = b + n
          BY <1>9, <1>10, <2>1
      <3> QED
          BY <1>9, <1>10, <2>1, <3>1
    <2>2. CASE arm'.pc = "store"
      <3>1. d = b + n - 1 /\ n >= 1
          BY <1>9, <1>10, <2>2
      <3> QED
          BY <1>9, <1>10, <2>2, <3>1
    <2> QED
        BY <2>1, <2>2
  <1>12. arm.cmd = "READM" => d >= 0
    <2>1. SUFFICES ASSUME arm.cmd = "READM"
                   PROVE  d >= 0
        OBVIOUS
    <2>2. b >= 0
        BY <1>1, <1>9, <2>1, Serving DEF RequestInv
    <2>3. arm'.pc # "store"
        BY <2>1 DEF WriteSteps, Writes
    <2> QED
        BY <1>9, <1>10, <2>2, <2>3
  <1>13. arm'.pc # "idle"
      BY DEF ArmSet, ReadSteps, MultipleSteps, WriteSteps
  <1>14. ArmPlace'
      BY <1>2, <1>5, <1>3, <1>6, <1>9, <1>10, <1>11, <1>12 DEF ArmPlace
  <1>15. ArmServes'
    <2>1. arm.cmd = host.req.cmd /\ arm.unit = host.req.unit
        BY Serving
    <2>2. arm.count = host.req.count
        BY DEF IInv, ArmServes
    <2>3. PosAt(k)'
        BY <1>2, <1>3, <1>4, <1>5 DEF PosAt
    <2>4. Behind' => host.req.cmd = "READM"
        BY <2>1 DEF Behind, MultipleSteps
    <2>5. arm'.left <= Moving
        BY <1>7, <1>10
    <2>6. arm'.pc \in {"rwait", "rdata"} => PosAt(Progress + 1)'
        BY <1>8, <2>3 DEF PosAt
    <2>7. arm'.pc \notin {"rwait", "rdata"} => PosAt(Progress)'
        BY <1>8, <2>3 DEF PosAt
    <2> QED
        BY <1>4, <1>8, <2>1, <2>2, <2>4, <2>5, <2>6, <2>7 DEF ArmServes
  <1> QED
      BY <1>8, <1>13, <1>14, <1>15

(* While the ARM reads, it has given what it has counted. *)
LEMMA Reading ==
    ASSUME IInv, arm.pc \in ReadSteps \cup MultipleSteps, arm.left >= 1
    PROVE  /\ Engaged /\ gayle \in GayleSet /\ gayle.busy /\ card = image
           /\ arm.cmd \in Reads /\ Progress \in 0 .. Moving - 1
           /\ host.done \in Nat /\ host.done < Moving
           /\ host.pc \in {"irq", "in"}
           /\ Len(host.got) = host.done
           /\ host.done + Len(gayle.fifo) = Progress
           /\ Len(gayle.fifo) \in Nat
           /\ ~gayle.pio_out
           /\ gayle.sector_count \in {Moving - host.done, Moving - host.done - CountMod}
           /\ \A j \in 1 .. Len(gayle.fifo) :
                gayle.fifo[j] = Expected(host.req.cmd, host.req.unit,
                                         First + (host.done + j - 1))
PROOF
  <1>1. Engaged /\ arm.pc # "store" /\ arm.pc # "wwait"
      BY DEF Engaged, Late, Behind, ReadSteps, MultipleSteps, IInv, TypeInv, ArmSet, NoJob
  <1>2. arm.cmd \in Reads /\ arm.cmd = host.req.cmd
      BY <1>1, Serving DEF IInv, ArmPlace, Reads
  <1>3. BusInv /\ TypeInv /\ StoreInv
      BY DEF IInv
  <1>4. gayle.busy
      BY <1>1, <1>3 DEF BusInv
  <1>5. card = image
      BY <1>3, StoreQuiet DEF ReadSteps, MultipleSteps, WriteSteps
  <1>6. PICK e : Given(Progress, e)
    <2>1. CASE arm.pc \in {"read", "rwait", "mwait", "mtask"}
      <3>1. Given(Progress, Progress)
        <4>1. arm.left > 0
            BY <1>1, Serving
        <4> QED
            BY <1>3, <2>1, <4>1 DEF BusInv
      <3> QED
          BY <3>1
    <2>2. CASE arm.pc = "rdata"
        BY <1>3, <2>2 DEF BusInv
    <2>3. CASE arm.pc = "mdata"
        BY <1>3, <2>3 DEF BusInv
    <2> QED
        BY <2>1, <2>2, <2>3 DEF ReadSteps, MultipleSteps
  <1>7. gayle \in GayleSet /\ host.done \in Nat /\ Len(gayle.fifo) \in Nat
      BY <1>3 DEF TypeInv, HostSet, GayleSet
  <1>8. Progress \in 0 .. Moving - 1
    <2>1. PICK m \in Nat, l \in Nat : m = Moving /\ l = arm.left /\ l <= m /\ Progress = m - l
        BY <1>1, Serving
    <2> QED
        BY <2>1
  <1> QED
      BY <1>1, <1>2, <1>4, <1>5, <1>6, <1>7, <1>8 DEF Given

(* The registers are announced. *)
LEMMA Announced ==
    ASSUME gayle \in GayleSet, gayle.busy, arm \in ArmSet,
           NEW p \in [cyl : Nat, head : Nat, sec : Nat],
           NEW g, g = ReadAnnounced(p)
    PROVE  /\ g \in GayleSet /\ g.busy
           /\ g.fifo = gayle.fifo /\ (g.intreq <=> gayle.intreq)
           /\ (g.pio_out <=> gayle.pio_out) /\ g.sector_count = gayle.sector_count
           /\ g.tfr.unit = arm.unit /\ g.tfr.pos = p
           /\ g.pio_in <=> gayle.pio_in \/ IsFile(arm.unit)
PROOF
  <1>1. PICK h : h = WithPos(gayle, p)
      OBVIOUS
  <1>2. /\ h \in GayleSet /\ h.busy /\ h.fifo = gayle.fifo
        /\ h.intreq = gayle.intreq /\ h.pio_in = gayle.pio_in
        /\ h.pio_out = gayle.pio_out /\ h.sector_count = gayle.sector_count
        /\ h.tfr.unit = arm.unit /\ h.tfr.pos = p
      BY <1>1, WithPosBusy
  <1>3. CASE IsFile(arm.unit)
    <2>1. g = Status(h, {"RDY"})
        BY <1>1, <1>3 DEF ReadAnnounced
    <2> QED
        BY <1>2, <1>3, <2>1, StatusBusy
  <1>4. CASE ~IsFile(arm.unit)
      BY <1>1, <1>2, <1>4 DEF ReadAnnounced
  <1> QED
      BY <1>3, <1>4

(* Sectors are contents. *)
LEMMA SectorContents ==
    /\ \A v \in Int : Stored(v) \in Contents /\ Patched(v) \in Contents
    /\ \A b \in Nat : FakeRDB(b) \in Contents
PROOF
  <1>1. ASSUME NEW v \in Int
        PROVE  Stored(v) \in Contents /\ Patched(v) \in Contents
      BY DEF Contents, Stored, Patched
  <1>2. ASSUME NEW b \in Nat
        PROVE  FakeRDB(b) \in Contents
    <2>1. CASE b = 0
        BY <2>1 DEF Contents
    <2>2. CASE b = 1
        BY <2>2 DEF Contents
    <2>3. CASE b # 0 /\ b # 1
      <3>1. FakeRDB(b) = FakeRDB(2)
          BY <2>3 DEF FakeRDB
      <3> QED
          BY <3>1 DEF Contents
    <2> QED
        BY <2>1, <2>2, <2>3
  <1> QED
      BY <1>1, <1>2

(* The sector the ARM reads, for one that is not synthesized. *)
LEMMA PlaceRead ==
    ASSUME IInv, Engaged, Progress < Moving, arm.pc # "store",
           IsFile(arm.unit) => arm.lba >= 0
    PROVE  /\ Here \in CardSectors
           /\ Here = Place(host.req.unit, First + Progress)
           /\ ~Synthesized(host.req.unit, First + Progress)
           /\ arm.lba < Span(TypeOf(arm.unit))
PROOF
  <1>1. PICK u \in Units : u = arm.unit /\ u = host.req.unit
      BY Serving
  <1>2. PICK t \in Types : t = TypeOf(u)
      BY <1>1, Serving
  <1>3. PICK m \in Nat, n \in Nat, f \in Nat, o \in Int, b \in Int, s \in Int :
           /\ m = Moving /\ n = Progress /\ f = First /\ o = offset(t) /\ b = Base
           /\ s = Span(t) /\ b = f + o /\ b + m <= s /\ n < m
           /\ arm.lba = b + n
    <2>1. Span(t) \in Int
        BY GeometryTypes DEF Span
    <2>2. Progress \in Nat
        BY Serving
    <2> QED
        BY <1>1, <1>2, <2>1, <2>2, Serving
  <1>4. arm.lba < s
      BY <1>3
  <1>5. Here \in CardSectors /\ Here = At(u, arm.lba)
      BY <1>1, <1>2, <1>3, <1>4, Serving, HereOnCard DEF IInv
  <1>6. First + Progress + o = arm.lba
      BY <1>3
  <1>7. CASE IsFile(u)
    <2>1. t # "card"
        BY <1>2, <1>7 DEF IsFile
    <2>2. Place(u, First + Progress) = FilePlace[arm.lba]
        BY <1>2, <1>3, <1>6, <2>1 DEF Place
    <2>3. ~Synthesized(u, First + Progress)
        BY <1>1, <1>2, <1>3, <1>6, <1>7 DEF Synthesized
    <2> QED
        BY <1>1, <1>2, <1>3, <1>4, <1>5, <1>7, <2>2, <2>3 DEF At
  <1>8. CASE ~IsFile(u)
    <2>1. t = "card"
        BY <1>2, <1>8 DEF IsFile, Types
    <2>2. o = PartStart /\ PartStart \in Nat
        BY <1>3, <2>1, HardDiskAssumption DEF offset
    <2>3. Place(u, First + Progress) = arm.lba
        BY <1>2, <1>3, <2>1, <2>2 DEF Place
    <2>4. ~Synthesized(u, First + Progress)
        BY <1>2, <2>1 DEF Synthesized
    <2> QED
        BY <1>1, <1>2, <1>3, <1>4, <1>5, <1>8, <2>3, <2>4 DEF At
  <1> QED
      BY <1>7, <1>8

(* The next sector is put behind those the Amiga has not taken. *)
LEMMA OneMore ==
    ASSUME IInv, arm.pc \in ReadSteps \cup MultipleSteps, arm.left >= 1,
           NEW q \in Seq(Contents), Len(q) = Len(gayle.fifo) + 1,
           \A j \in 1 .. Len(gayle.fifo) : q[j] = gayle.fifo[j],
           q[Len(gayle.fifo) + 1] =
             Expected(host.req.cmd, host.req.unit, First + Progress)
    PROVE  /\ host.done + Len(q) = Progress + 1
           /\ \A j \in 1 .. Len(q) :
                q[j] = Expected(host.req.cmd, host.req.unit,
                                First + (host.done + j - 1))
PROOF
  <1>1. PICK n \in Nat, d \in Nat, k \in Nat, f \in Nat :
           n = Progress /\ d = host.done /\ k = Len(gayle.fifo) /\ d + k = n /\ f = First
    <2>1. Progress \in Nat /\ First \in Nat
        BY Reading, Serving
    <2> QED
        BY <2>1, Reading
  <1>2. Len(q) = k + 1
      BY <1>1
  <1>3. d + (k + 1) = n + 1
    <2>1. d + (k + 1) = (d + k) + 1
        OBVIOUS
    <2> QED
        BY <1>1, <2>1
  <1>4. ASSUME NEW j \in 1 .. k + 1
        PROVE  q[j] = Expected(host.req.cmd, host.req.unit, First + (host.done + j - 1))
    <2>1. CASE j = k + 1
      <3>1. First + (host.done + j - 1) = First + Progress
          BY <1>1, <2>1
      <3> QED
          BY <1>1, <2>1, <3>1
    <2>2. CASE j # k + 1
      <3>1. j \in 1 .. k
          BY <2>2
      <3> QED
          BY <1>1, <3>1, Reading
    <2> QED
        BY <2>1, <2>2
  <1> QED
      BY <1>1, <1>2, <1>3, <1>4

(* The last sector has been given, and the registers are those of it. *)
LEMMA LastGiven ==
    ASSUME TypeInv, Same, gayle'.tfr.unit = host.req.unit,
           chs2lba(TypeOf(host.req.unit), gayle'.tfr.pos) = First + (Moving - 1)
    PROVE  LastRegisters'
PROOF
  <1>1. host.req.unit \in Units /\ host'.req = host.req
      BY DEF TypeInv, HostSet, Regs, Same
  <1>2. hdf'[host'.req.unit].type = hdf[host.req.unit].type
      BY <1>1 DEF Same
  <1>3. First' = First /\ Moving' = Moving
      BY SameRequest
  <1> QED
      BY <1>1, <1>2, <1>3 DEF LastRegisters, TypeOf

(* Only the first sector of a READ is special. *)
LEMMA SpecialFirst == ASSUME IInv, arm.pc = "read", Special
    PROVE  /\ Progress = 0 /\ arm.lba = Base /\ host.done = 0
           /\ gayle.fifo = <<>> /\ ~gayle.intreq /\ host.pc = "irq"
PROOF
  <1>1. arm.left >= 1 /\ arm.pc \in ReadSteps
      BY DEF IInv, ArmPlace, ReadSteps
  <1>2. Engaged /\ host.req.cmd = "READ"
      BY <1>1, Reading, Serving DEF IInv, ArmPlace, ReadSteps
  <1>3. PICK m \in Nat, n \in Nat, f \in Nat, o \in Int, b \in Int, l \in Int :
           /\ m = Moving /\ n = Progress /\ f = First /\ b = Base
           /\ o = offset(TypeOf(arm.unit)) /\ l = arm.lba
           /\ b = f + o /\ n < m /\ l = b + n
    <2>1. Progress \in Nat /\ Progress < Moving
        BY <1>1, Reading, Serving
    <2> QED
        BY <1>2, <2>1, Serving
  <1>4. b >= -1 \/ m = 1
      BY <1>2, <1>3 DEF IInv, RequestInv
  <1>5. l < 0 \/ (arm.unit = 0 /\ l - offset(TypeOf(0)) = 0)
      BY <1>3 DEF Special
  <1>6. n = 0
    <2>1. CASE l < 0
        BY <1>3, <1>4, <2>1
    <2>2. CASE arm.unit = 0 /\ l - offset(TypeOf(0)) = 0
      <3>1. l - o = 0
          BY <1>3, <2>2
      <3> QED
          BY <1>3, <3>1
    <2> QED
        BY <1>5, <2>1, <2>2
  <1>7. host.done = 0 /\ Len(gayle.fifo) = 0 /\ gayle \in GayleSet
      BY <1>1, <1>3, <1>6, Reading
  <1>8. gayle.fifo = <<>>
      BY <1>7, EmptySeq DEF GayleSet
  <1>9. ~gayle.intreq
      BY <1>8 DEF IInv, BusInv
  <1>10. host.pc = "irq"
    <2>1. Given(Progress, Progress)
        BY DEF IInv, BusInv
    <2>2. SUFFICES ASSUME host.pc = "in"
                   PROVE  FALSE
        BY <1>1, Reading
    <2>3. host.blk \in Nat /\ host.blk >= 1 /\ Progress = host.done + host.blk
        BY <2>1, <2>2, GayleAssumption DEF Given, IInv, TypeInv, HostSet
    <2>4. PICK b1 \in Nat : b1 = host.blk
        BY <2>3
    <2>5. 0 = 0 + b1 /\ b1 >= 1
        BY <1>3, <1>6, <1>7, <2>3, <2>4
    <2> QED
        BY <2>5
  <1> QED
      BY <1>3, <1>6, <1>7, <1>8, <1>9, <1>10

(* It is what the Amiga must get. *)
LEMMA SpecialSector == ASSUME IInv, arm.pc = "read", Special
    PROVE  LET sector == IF arm.lba < 0
                         THEN FakeRDB(arm.lba - offset(TypeOf(arm.unit)))
                         ELSE Patched(card[Here])
           IN  /\ sector \in Contents
               /\ sector = Expected(host.req.cmd, host.req.unit, First + Progress)
PROOF
  <1>1. arm.left >= 1 /\ arm.pc \in ReadSteps
      BY DEF IInv, ArmPlace, ReadSteps
  <1>2. Engaged /\ host.req.cmd = "READ" /\ card = image
      BY <1>1, Reading, Serving DEF IInv, ArmPlace, ReadSteps
  <1>3. PICK u \in Units : u = arm.unit /\ u = host.req.unit
      BY <1>2, Serving
  <1>4. PICK t \in Types : t = TypeOf(u)
      BY <1>2, <1>3, Serving
  <1>5. PICK f \in Nat, o \in Int, l \in Int :
           f = First /\ o = offset(t) /\ l = arm.lba /\ l = f + o
      BY <1>2, <1>3, <1>4, Serving, SpecialFirst
  <1>6. First + Progress = f /\ Progress < Moving
      BY <1>1, <1>5, Reading, SpecialFirst
  <1>7. IsFile(u)
      BY <1>3 DEF Special
  <1>8. t # "card" /\ (t = "file" \/ t = "synth")
      BY <1>4, <1>7 DEF IsFile
  <1>9. CASE l < 0
    <2>1. t = "synth"
        BY <1>5, <1>8, <1>9, GeometryTypes
    <2>2. Synthesized(u, f)
        BY <1>4, <1>5, <1>9, <2>1 DEF Synthesized
    <2>3. l - o = f
        BY <1>5
    <2>4. Expected(host.req.cmd, u, f) = FakeRDB(f)
        BY <2>2 DEF Expected
    <2> QED
        BY <1>3, <1>4, <1>5, <1>6, <1>9, <2>3, <2>4, SectorContents
  <1>10. CASE l >= 0
    <2>1. u = 0 /\ l - o = 0
        BY <1>3, <1>4, <1>5, <1>10 DEF Special
    <2>2. f = 0 /\ o >= 0
        BY <1>5, <1>10, <2>1
    <2>3. t = "file"
        BY <1>5, <1>8, <2>2, GeometryTypes
    <2>4. /\ Here \in CardSectors /\ Here = Place(u, f)
          /\ ~Synthesized(u, f)
        BY <1>2, <1>3, <1>5, <1>6, <1>10, PlaceRead
    <2>5. card[Here] \in Int
        BY <2>4 DEF IInv, TypeInv, Images
    <2>6. Expected(host.req.cmd, u, f) = Patched(image[Place(u, f)])
        BY <1>2, <1>4, <2>1, <2>2, <2>3, <2>4 DEF Expected
    <2> QED
        BY <1>2, <1>3, <1>5, <1>6, <1>10, <2>4, <2>5, <2>6, SectorContents
  <1> QED
      BY <1>5, <1>9, <1>10

(* The sector the ARM reads is what the Amiga must get. *)
LEMMA OrdinarySector == ASSUME IInv, arm.pc \in {"rdata", "mdata"}
    PROVE  /\ Here \in CardSectors /\ Stored(card[Here]) \in Contents
           /\ Stored(card[Here]) =
                Expected(host.req.cmd, host.req.unit, First + Progress)
           /\ arm.left >= 1 /\ arm.lba < Span(TypeOf(arm.unit))
           /\ IsFile(arm.unit) => arm.lba >= 0
PROOF
  <1>1. /\ arm.left >= 1 /\ arm.pc \in ReadSteps \cup MultipleSteps /\ arm.pc # "store"
        /\ arm.pc = "rdata" => ~Special /\ arm.cmd = "READ"
        /\ arm.pc = "mdata" => arm.lba >= 0 /\ arm.cmd = "READM"
      BY DEF IInv, ArmPlace, ReadSteps, MultipleSteps
  <1>2. Engaged /\ card = image /\ Progress < Moving /\ arm.lba \in Int
      BY <1>1, Reading, Serving
  <1>3. PICK u \in Units : u = arm.unit /\ u = host.req.unit
      BY <1>2, Serving
  <1>4. PICK t \in Types : t = TypeOf(u)
      BY <1>2, <1>3, Serving
  <1>5. IsFile(arm.unit) => arm.lba >= 0
      BY <1>1, <1>2 DEF Special
  <1>6. /\ Here \in CardSectors /\ Here = Place(u, First + Progress)
        /\ ~Synthesized(u, First + Progress)
        /\ arm.lba < Span(TypeOf(arm.unit))
      BY <1>1, <1>2, <1>3, <1>5, PlaceRead
  <1>7. card[Here] \in Int
      BY <1>6 DEF IInv, TypeInv, Images
  <1>8. ~(arm.cmd = "READ" /\ TypeOf(u) = "file" /\ u = 0 /\ First + Progress = 0)
    <2>1. SUFFICES ASSUME arm.cmd = "READ", TypeOf(u) = "file", u = 0, First + Progress = 0
                   PROVE  FALSE
        OBVIOUS
    <2>2. ~Special
        BY <1>1, <2>1
    <2>3. offset("file") = 0
        BY DEF offset
    <2>4. arm.lba = Base + Progress /\ Base = First + offset(TypeOf(arm.unit))
        BY <1>1, <1>2, Serving
    <2>5. arm.lba = 0
      <3>1. PICK f \in Nat, n \in Nat : f = First /\ n = Progress
          BY <1>2, Serving
      <3>2. arm.lba = (f + 0) + n
          BY <1>3, <2>1, <2>3, <2>4, <3>1
      <3> QED
          BY <2>1, <3>1, <3>2
    <2>6. arm.lba - offset(TypeOf(0)) = 0
        BY <2>1, <2>3, <2>5
    <2>7. IsFile(arm.unit) /\ arm.unit = 0
        BY <1>3, <2>1 DEF IsFile
    <2> QED
        BY <2>2, <2>6, <2>7 DEF Special
  <1>9. arm.cmd = host.req.cmd
      BY <1>2, Serving
  <1>10. Expected(host.req.cmd, u, First + Progress) = Stored(card[Here])
      BY <1>2, <1>6, <1>8, <1>9 DEF Expected
  <1> QED
      BY <1>1, <1>3, <1>5, <1>6, <1>7, <1>10, SectorContents

(* What is left of the invariant when the ARM makes a step of a read. *)
LEMMA ReaderKeeps ==
    ASSUME IInv, arm.pc \in ReadSteps \cup MultipleSteps,
           host.pc # "idle" \/ gayle'.tfr = gayle.tfr,
           Same, hdf' \in Disks, FilesInv', RequestInv',
           host' = host, image' = image, card' = card,
           gayle' \in GayleSet, arm' = NoJob \/ arm' \in ArmSet,
           arm'.pc \notin WriteSteps,
           ArmPlace', ArmServes', BusInv'
    PROVE  IInv'
PROOF
  <1>1. TypeInv /\ StoreInv /\ DoneInv
      BY DEF IInv
  <1>2. TypeInv'
      BY <1>1 DEF TypeInv
  <1>3. DoneInv'
      BY <1>1, DoneKept
  <1>4. card = image
      BY <1>1, StoreQuiet DEF ReadSteps, MultipleSteps, WriteSteps
  <1>5. StoreInv'
      BY <1>4, StoreQuietNext
  <1> QED
      BY <1>2, <1>3, <1>5 DEF IInv

(* The ARM gives no sector. *)
LEMMA NoneGiven ==
    ASSUME IInv, arm.pc \in ReadSteps \cup MultipleSteps, arm.left >= 1,
           NEW n, n = Progress, NEW e, Same, host' = host, image' = image,
           gayle'.fifo = gayle.fifo, gayle'.sector_count = gayle.sector_count,
           ~gayle'.pio_out, gayle'.pio_in,
           host.pc = "irq" /\ gayle'.intreq =>
             e = host.done + Block(host.req.cmd, Moving - host.done, host.req.unit),
           host.pc = "irq" /\ ~gayle'.intreq => e = host.done,
           host.pc = "in" =>
             ~gayle'.intreq /\ host.blk >= 1 /\ e = host.done + host.blk
    PROVE  Given(n, e)'
PROOF
  <1>1. Engaged
      BY Reading
  <1>2. TypeInv /\ host.req.cmd \in Reads \cup {"IDENTIFY"}
      BY <1>1, Reading, Serving DEF IInv
  <1> QED
      BY <1>2, Reading, GivenByArm

(* The ARM gives a sector. *)
LEMMA OneGiven ==
    ASSUME IInv, arm.pc \in ReadSteps \cup MultipleSteps, arm.left >= 1,
           NEW n, n = Progress, NEW e, Same, host' = host, image' = image,
           NEW d \in Contents,
           d = Expected(host.req.cmd, host.req.unit, First + Progress),
           NEW g \in GayleSet, g.pio_in, g.fifo = gayle.fifo,
           gayle'.fifo = Put(g, d).fifo,
           gayle'.sector_count = gayle.sector_count,
           ~gayle'.pio_out, gayle'.pio_in,
           host.pc = "irq" /\ gayle'.intreq =>
             e = host.done + Block(host.req.cmd, Moving - host.done, host.req.unit),
           host.pc = "irq" /\ ~gayle'.intreq => e = host.done,
           host.pc = "in" =>
             ~gayle'.intreq /\ host.blk >= 1 /\ e = host.done + host.blk
    PROVE  Given(n + 1, e)'
PROOF
  <1>1. Engaged
      BY Reading
  <1>2. TypeInv /\ host.req.cmd \in Reads \cup {"IDENTIFY"}
      BY <1>1, Reading, Serving DEF IInv
  <1>3. PICK q \in Seq(Contents) : q = Put(g, d).fifo
      BY PutSector DEF GayleSet
  <1>4. /\ Len(q) = Len(gayle.fifo) + 1
        /\ \A j \in 1 .. Len(gayle.fifo) : q[j] = gayle.fifo[j]
        /\ q[Len(gayle.fifo) + 1] = d
      BY <1>3, PutSector
  <1>5. /\ host.done + Len(q) = n + 1
        /\ \A j \in 1 .. Len(q) :
             q[j] = Expected(host.req.cmd, host.req.unit, First + (host.done + j - 1))
      BY <1>4, OneMore
  <1>6. gayle'.fifo = q
      BY <1>3
  <1>7. PICK k : k = n + 1
      OBVIOUS
  <1>8. Given(k, e)'
      BY <1>2, <1>5, <1>6, <1>7, Reading, GivenByArm
  <1> QED
      BY <1>7, <1>8

(* ReadAnnounce keeps the invariant.                                       *)
LEMMA ReadAnnounceKeeps == ASSUME IInv, EndsInside, ReadAnnounce
    PROVE  IInv'
PROOF
  <1>1. /\ arm.pc = "read" /\ ~Special /\ gayle' = ReadAnnounced(NextPos)
        /\ arm' = [arm EXCEPT !.pc = "rwait", !.pos = NextPos]
        /\ hdf' = hdf /\ card' = card /\ host' = host /\ image' = image
      BY DEF ReadAnnounce
  <1>2. arm.left >= 1 /\ arm.pc \in ReadSteps /\ arm.cmd = "READ"
      BY <1>1 DEF IInv, ArmPlace, ReadSteps
  <1>3. Engaged /\ gayle \in GayleSet /\ gayle.busy /\ arm \in ArmSet
      BY <1>2, Reading, Serving
  <1>4. PICK p : p = NextPos
      OBVIOUS
  <1>5. PosAt(Progress)
      BY <1>1, <1>3 DEF IInv, ArmServes
  <1>6. /\ p \in Positions(TypeOf(arm.unit)) /\ p \in [cyl : Nat, head : Nat, sec : Nat]
        /\ Progress + 1 < Moving =>
             chs2lba(TypeOf(arm.unit), p) = First + (Progress + 1)
        /\ Progress + 1 >= Moving =>
             chs2lba(TypeOf(arm.unit), p) = First + (Moving - 1)
      BY <1>2, <1>3, <1>4, <1>5, NextRegisters
  <1>7. /\ gayle' \in GayleSet /\ gayle'.busy
        /\ gayle'.fifo = gayle.fifo /\ (gayle'.intreq <=> gayle.intreq)
        /\ (gayle'.pio_out <=> gayle.pio_out)
        /\ gayle'.sector_count = gayle.sector_count
        /\ gayle'.tfr.unit = arm.unit /\ gayle'.tfr.pos = p
        /\ gayle'.pio_in <=> gayle.pio_in \/ IsFile(arm.unit)
      BY <1>1, <1>3, <1>4, <1>6, Announced
  <1>8. Same /\ hdf' \in Disks /\ FilesInv' /\ RequestInv'
      BY <1>1, NothingMoves
  <1>9. /\ arm' \in ArmSet /\ arm'.pc = "rwait" /\ arm'.pos = p
        /\ arm'.cmd = arm.cmd /\ arm'.unit = arm.unit /\ arm'.count = arm.count
        /\ arm'.left = arm.left /\ arm'.blk = arm.blk /\ arm'.lba = arm.lba
      BY <1>1, <1>3, <1>4, <1>6 DEF ArmSet, ReadSteps
  <1>10. ~Special'
    <2>1. arm.unit \in Units
        BY <1>3, Serving
    <2>2. TypeOf(arm.unit)' = TypeOf(arm.unit) /\ TypeOf(0)' = TypeOf(0)
        BY <1>1, <1>9 DEF TypeOf
    <2> QED
        BY <1>1, <1>9, <2>2 DEF Special, IsFile
  <1>11. PICK n \in Nat, m \in Nat :
            n = Progress /\ m = Moving /\ n <= m /\ arm.left = m - n
    <2>1. PICK m \in Nat, l \in Nat : m = Moving /\ l = arm.left /\ l <= m
        BY <1>3, Serving
    <2>2. Progress = m - l /\ m - l \in Nat /\ m - l <= m /\ l = m - (m - l)
        BY <2>1 DEF Progress
    <2> QED
        BY <2>1, <2>2
  <1>12. arm.lba = Base + n
      BY <1>1, <1>3, <1>11, Serving
  <1>13. /\ IsFile(arm.unit) /\ arm.lba >= 0 => hdf'[arm.unit].file.sector = arm.lba
         /\ IsFile(arm.unit) /\ arm.lba < 0 => hdf'[arm.unit].file.sector = 0
      BY <1>1 DEF IInv, ArmPlace
  <1>14. ArmPlace' /\ ArmServes' /\ Progress' = n
    <2>1. PICK k \in Nat : k = n + 1
        BY <1>11
    <2> QED
        BY <1>1, <1>2, <1>3, <1>6, <1>7, <1>8, <1>9, <1>10, <1>11, <1>12, <1>13, <2>1,
           ArmContinues DEF ReadSteps, MultipleSteps, WriteSteps
  <1>15. Given(n, n)'
    <2>1. Given(n, n)
        BY <1>1, <1>11 DEF IInv, BusInv
    <2>2. gayle'.pio_in
        BY <1>7, <2>1 DEF Given
    <2> QED
        BY <1>1, <1>2, <1>7, <1>8, <1>11, <2>1, <2>2, Reading, NoneGiven DEF Given
  <1>16. BusInv'
      BY <1>7, <1>9, <1>14, <1>15 DEF BusInv, Engaged, Late, Behind, ReadSteps, Given
  <1> QED
      BY <1>1, <1>2, <1>7, <1>8, <1>9, <1>14, <1>16, Reading, ReaderKeeps
         DEF ReadSteps, WriteSteps

(* The loops that wait for the buffer end when the Amiga has all of it. *)
LEMMA Emptied == ASSUME IInv, arm.pc \in {"rwait", "mwait"}, BufferEmpty
    PROVE  /\ gayle.fifo = <<>> /\ gayle.pio_in /\ host.done = Progress
           /\ host.pc = "irq" /\ ~gayle.intreq
PROOF
  <1>1. arm.left >= 1 /\ arm.pc \in ReadSteps \cup MultipleSteps
      BY DEF IInv, ArmPlace, ReadSteps, MultipleSteps
  <1>2. Given(Progress, Progress) /\ Engaged /\ gayle \in GayleSet
      BY <1>1, Reading DEF IInv, BusInv
  <1>3. gayle.pio_in
      BY <1>2 DEF Given
  <1>4. gayle.fifo = <<>>
      BY <1>3 DEF BufferEmpty, hdd_cmd_req, bsy, drq, full
  <1>5. Len(gayle.fifo) = 0
      BY <1>4
  <1>6. PICK n \in Nat, d \in Nat, m \in Nat :
           n = Progress /\ d = host.done /\ m = Moving /\ d < m /\ d = n
    <2>1. Progress \in Nat /\ Moving \in Nat
        BY <1>2, Serving
    <2>2. host.done \in Nat /\ host.done < Moving /\ host.done + Len(gayle.fifo) = Progress
        BY <1>1, Reading
    <2> QED
        BY <1>5, <2>1, <2>2
  <1>7. PICK b \in Nat : /\ b = Block(host.req.cmd, Moving - host.done, host.req.unit)
                         /\ b >= 1
    <2>1. PICK r \in Nat : r = Moving - host.done /\ r >= 1
        BY <1>6
    <2>2. host.req.unit \in Units /\ hdf \in Disks
        BY Numbers DEF IInv, TypeInv
    <2>3. host.req.cmd \in Multiple => hdf[host.req.unit].spb > 0
        BY DEF IInv, RequestInv
    <2>4. Block(host.req.cmd, r, host.req.unit) \in 1 .. r
        BY <2>1, <2>2, <2>3, BlockBounds
    <2> QED
        BY <2>1, <2>4
  <1>8. host.pc = "irq"
    <2>1. SUFFICES ASSUME host.pc = "in"
                   PROVE  FALSE
        BY <1>1, Reading
    <2>2. host.blk \in Nat /\ host.blk >= 1 /\ Progress = host.done + host.blk
        BY <1>2, <2>1, GayleAssumption DEF Given, IInv, TypeInv, HostSet
    <2> QED
        BY <1>6, <2>2
  <1>9. ~gayle.intreq
    <2>1. SUFFICES ASSUME gayle.intreq
                   PROVE  FALSE
        OBVIOUS
    <2>2. Progress = host.done + b
        BY <1>2, <1>7, <1>8, <2>1 DEF Given
    <2> QED
        BY <1>6, <1>7, <2>2
  <1> QED
      BY <1>3, <1>4, <1>6, <1>8, <1>9

(* The progress as numbers. *)
LEMMA ProgressNumbers == ASSUME IInv, Engaged, arm.left >= 1
    PROVE  \E n \in Nat, m \in Nat :
              n = Progress /\ m = Moving /\ n < m /\ arm.left = m - n
PROOF
  <1>1. PICK m \in Nat, l \in Nat : m = Moving /\ l = arm.left /\ l <= m
      BY Serving
  <1>2. Progress = m - l
      BY <1>1 DEF Progress
  <1>3. m - l \in Nat /\ m - l < m /\ l = m - (m - l)
      BY <1>1
  <1> QED
      BY <1>1, <1>2, <1>3

(* ReadInterrupt keeps the invariant.                                      *)
LEMMA ReadInterruptKeeps == ASSUME IInv, EndsInside, ReadInterrupt
    PROVE  IInv'
PROOF
  <1>1. /\ arm.pc = "rwait" /\ BufferEmpty /\ gayle' = Status(gayle, {"IRQ"})
        /\ arm' = [arm EXCEPT !.pc = "rdata"]
        /\ hdf' = hdf /\ card' = card /\ host' = host /\ image' = image
      BY DEF ReadInterrupt
  <1>2. /\ arm.left >= 1 /\ arm.pc \in ReadSteps /\ arm.cmd = "READ"
        /\ arm.pos \in Positions(TypeOf(arm.unit)) /\ ~Special
        /\ IsFile(arm.unit) /\ arm.lba >= 0 => hdf'[arm.unit].file.sector = arm.lba
        /\ IsFile(arm.unit) /\ arm.lba < 0 => hdf'[arm.unit].file.sector = 0
      BY <1>1 DEF IInv, ArmPlace, ReadSteps
  <1>3. Engaged /\ gayle \in GayleSet /\ gayle.busy /\ arm \in ArmSet
      BY <1>2, Reading, Serving
  <1>4. /\ gayle' \in GayleSet /\ gayle'.busy /\ gayle'.intreq
        /\ gayle'.fifo = gayle.fifo /\ (gayle'.pio_out <=> gayle.pio_out)
        /\ gayle'.sector_count = gayle.sector_count /\ gayle'.tfr = gayle.tfr
        /\ gayle'.pio_in <=> gayle.pio_in
      BY <1>1, <1>3, StatusBusy
  <1>5. Same /\ hdf' \in Disks /\ FilesInv' /\ RequestInv'
      BY <1>1, NothingMoves
  <1>6. /\ arm' \in ArmSet /\ arm'.pc = "rdata" /\ arm'.pos = arm.pos
        /\ arm'.cmd = arm.cmd /\ arm'.unit = arm.unit /\ arm'.count = arm.count
        /\ arm'.left = arm.left /\ arm'.blk = arm.blk /\ arm'.lba = arm.lba
      BY <1>1, <1>3 DEF ArmSet, ReadSteps
  <1>7. ~Special'
    <2>1. TypeOf(arm.unit)' = TypeOf(arm.unit) /\ TypeOf(0)' = TypeOf(0)
        BY <1>1, <1>6 DEF TypeOf
    <2> QED
        BY <1>2, <1>6, <2>1 DEF Special, IsFile
  <1>8. PICK n \in Nat, m \in Nat :
            n = Progress /\ m = Moving /\ n < m /\ arm.left = m - n
      BY <1>2, <1>3, ProgressNumbers
  <1>9. arm.lba = Base + n
      BY <1>1, <1>3, <1>8, Serving
  <1>10. /\ PosAt(n + 1) /\ gayle.tfr.pos = arm.pos /\ gayle.tfr.unit = arm.unit
      BY <1>1, <1>3, <1>8 DEF IInv, ArmServes
  <1>11. ArmPlace' /\ ArmServes' /\ Progress' = n
    <2>1. PICK k \in Nat : k = n + 1
        BY <1>8
    <2>2. /\ k < Moving => chs2lba(TypeOf(arm.unit), arm'.pos) = First + k
          /\ k >= Moving => chs2lba(TypeOf(arm.unit), arm'.pos) = First + (Moving - 1)
        BY <1>6, <1>10, <2>1 DEF PosAt
    <2>3. n <= Moving /\ arm'.left = Moving - n
        BY <1>6, <1>8
    <2> QED
        BY <1>1, <1>2, <1>3, <1>4, <1>5, <1>6, <1>7, <1>8, <1>9, <1>10, <2>1, <2>2, <2>3,
           ArmContinues DEF ReadSteps, MultipleSteps, WriteSteps
  <1>12. Given(n, n + 1)'
    <2>1. /\ gayle.fifo = <<>> /\ gayle.pio_in /\ host.done = Progress
          /\ host.pc = "irq" /\ ~gayle.intreq
        BY <1>1, Emptied
    <2>2. ~gayle.pio_out
        BY <1>2, Reading
    <2>3. Block(host.req.cmd, Moving - host.done, host.req.unit) = 1
        BY <1>2, <1>3, Serving DEF Block, Multiple
    <2>4. PICK e \in Nat : e = n + 1
        BY <1>8
    <2>5. e = host.done + Block(host.req.cmd, Moving - host.done, host.req.unit)
        BY <1>8, <2>1, <2>3, <2>4
    <2>6. Given(n, e)'
        BY <1>1, <1>2, <1>4, <1>5, <1>8, <2>1, <2>2, <2>5, NoneGiven
    <2> QED
        BY <2>4, <2>6
  <1>13. BusInv'
      BY <1>4, <1>6, <1>11, <1>12 DEF BusInv, Engaged, Late, Behind, ReadSteps, Given
  <1> QED
      BY <1>1, <1>2, <1>4, <1>5, <1>6, <1>11, <1>13, ReaderKeeps
         DEF ReadSteps, WriteSteps

(* ReadData keeps the invariant.                                           *)
LEMMA ReadDataKeeps == ASSUME IInv, EndsInside, ReadData
    PROVE  IInv'
PROOF
  <1>1. /\ arm.pc = "rdata" /\ gayle' = Put(gayle, Stored(card[Here]))
        /\ card' = card /\ host' = host /\ image' = image
      BY DEF ReadData
  <1>2. /\ arm.left >= 1 /\ arm.pc \in ReadSteps /\ arm.cmd = "READ"
        /\ arm.pos \in Positions(TypeOf(arm.unit))
      BY <1>1 DEF IInv, ArmPlace, ReadSteps
  <1>3. Engaged /\ gayle \in GayleSet /\ gayle.busy /\ arm \in ArmSet
      BY <1>2, Reading, Serving
  <1>4. PICK d \in Contents :
           /\ d = Stored(card[Here])
           /\ d = Expected(host.req.cmd, host.req.unit, First + Progress)
      BY <1>1, OrdinarySector
  <1>5. arm.lba < Span(TypeOf(arm.unit)) /\ (IsFile(arm.unit) => arm.lba >= 0)
      BY <1>1, OrdinarySector
  <1>6. PICK n \in Nat, m \in Nat :
            n = Progress /\ m = Moving /\ n < m /\ arm.left = m - n
      BY <1>2, <1>3, ProgressNumbers
  <1>7. Given(n, n + 1) /\ gayle.pio_in /\ ~gayle.pio_out
      BY <1>1, <1>6 DEF IInv, BusInv, Given
  <1>8. gayle' = Put(gayle, d)
      BY <1>1, <1>4
  <1>9. /\ gayle' \in GayleSet /\ gayle'.busy = gayle.busy /\ gayle'.pio_in
        /\ gayle'.intreq = gayle.intreq /\ gayle'.pio_out = gayle.pio_out
        /\ gayle'.sector_count = gayle.sector_count /\ gayle'.tfr = gayle.tfr
        /\ gayle'.fifo = Put(gayle, d).fifo /\ gayle'.fifo # <<>>
      BY <1>3, <1>7, <1>8, PutSector
  <1>10. PICK f \in Moved(arm.unit) : hdf' = [hdf EXCEPT ![arm.unit].file = f]
      BY DEF ReadData
  <1>11. /\ Same /\ hdf' \in Disks /\ FilesInv' /\ RequestInv'
         /\ IsFile(arm.unit) => hdf'[arm.unit].file.sector = arm.lba + 1
    <2>1. TypeInv /\ FilesInv /\ ArmPlace /\ RequestInv /\ arm.pc # "idle"
        BY <1>1 DEF IInv
    <2>2. /\ Same /\ hdf' \in Disks /\ FilesInv'
          /\ IsFile(arm.unit) => hdf'[arm.unit].file.sector = arm.lba + 1
        BY <1>1, <1>5, <1>10, <2>1, CursorMoved
    <2> QED
        BY <2>1, <2>2, RequestKept
  <1>12. Given(n + 1, n + 1)'
    <2>1. PICK e \in Nat : e = n + 1
        BY <1>6
    <2>2. /\ host.pc = "irq" /\ gayle'.intreq =>
               e = host.done + Block(host.req.cmd, Moving - host.done, host.req.unit)
          /\ host.pc = "irq" /\ ~gayle'.intreq => e = host.done
          /\ host.pc = "in" =>
               ~gayle'.intreq /\ host.blk >= 1 /\ e = host.done + host.blk
      <3>1. Given(n, e)
          BY <1>7, <2>1
      <3> QED
          BY <1>9, <3>1 DEF Given
    <2>3. Given(n + 1, e)'
        BY <1>1, <1>2, <1>3, <1>4, <1>6, <1>7, <1>9, <1>11, <2>2, OneGiven
    <2> QED
        BY <2>1, <2>3
  <1>13. PosAt(n + 1) /\ gayle.tfr.pos = arm.pos /\ gayle.tfr.unit = arm.unit
      BY <1>1, <1>3, <1>6 DEF IInv, ArmServes
  <1>14. CASE arm.left = 1
    <2>1. arm' = NoJob
        BY <1>14 DEF ReadData
    <2>2. n + 1 = m
        BY <1>6, <1>14
    <2>3. Given(Moving, Moving)'
      <3>1. Moving' = m
          BY <1>6, <1>11, SameRequest DEF IInv
      <3> QED
          BY <1>12, <2>2, <3>1 DEF Given
    <2>4. LastRegisters'
      <3>1. chs2lba(TypeOf(arm.unit), arm.pos) = First + (Moving - 1)
          BY <1>6, <1>13, <2>2 DEF PosAt
      <3>2. arm.unit = host.req.unit
          BY <1>3, Serving
      <3> QED
          BY <1>9, <1>11, <1>13, <3>1, <3>2, LastGiven DEF IInv
    <2>5. ArmPlace' /\ ArmServes' /\ BusInv'
        BY <2>1, <2>3, <2>4, ArmRests
    <2>6. arm'.pc \notin WriteSteps
        BY <2>1 DEF NoJob, WriteSteps
    <2> QED
        BY <1>1, <1>2, <1>9, <1>11, <2>1, <2>5, <2>6, ReaderKeeps
  <1>15. CASE arm.left # 1
    <2>1. arm' = [arm EXCEPT !.pc = "read", !.lba = @ + 1, !.left = @ - 1]
        BY <1>15 DEF ReadData
    <2>2. PICK b \in Int : b = Base /\ arm.lba = b + n
        BY <1>1, <1>3, <1>6, Serving
    <2>3. PICK l \in 0 .. CountMod, i \in Int :
             l = arm.left - 1 /\ i = arm.lba + 1 /\ l >= 1
      <3>1. arm.left \in 0 .. CountMod /\ arm.lba \in Int /\ CountMod \in Nat
          BY <1>3, GayleAssumption DEF ArmSet
      <3> QED
          BY <1>2, <1>15, <3>1
    <2>4. /\ arm' \in ArmSet /\ arm'.pc = "read" /\ arm'.pos = arm.pos
          /\ arm'.cmd = arm.cmd /\ arm'.unit = arm.unit /\ arm'.count = arm.count
          /\ arm'.left = l /\ arm'.blk = arm.blk /\ arm'.lba = i
      <3>1. arm' = [arm EXCEPT !.pc = "read", !.lba = i, !.left = l]
          BY <1>3, <2>1, <2>3 DEF ArmSet
      <3> QED
          BY <1>3, <3>1 DEF ArmSet, ReadSteps
    <2>5. PICK k \in Nat : k = n + 1 /\ k <= Moving /\ l = Moving - k /\ i = Base + k
        BY <1>6, <2>2, <2>3
    <2>6. /\ k < Moving => chs2lba(TypeOf(arm.unit), arm'.pos) = First + k
          /\ k >= Moving => chs2lba(TypeOf(arm.unit), arm'.pos) = First + (Moving - 1)
        BY <1>13, <2>4, <2>5 DEF PosAt
    <2>7. /\ IsFile(arm.unit) /\ i >= 0 => hdf'[arm.unit].file.sector = i
          /\ IsFile(arm.unit) => i >= 0
      <3>1. arm.lba \in Int
          BY <2>2
      <3> QED
          BY <1>5, <1>11, <2>3, <3>1
    <2>8. ArmPlace' /\ ArmServes' /\ Progress' = k
      <3>1. IsFile(arm.unit) /\ arm'.lba < 0 => hdf'[arm.unit].file.sector = 0
          BY <2>3, <2>4, <2>7
      <3> QED
          BY <1>1, <1>2, <1>3, <1>11, <2>3, <2>4, <2>5, <2>6, <2>7, <3>1,
             ArmContinues DEF ReadSteps, MultipleSteps, WriteSteps
    <2>9. BusInv'
      <3>1. Given(k, k)'
          BY <1>12, <2>5
      <3> QED
          BY <1>3, <1>9, <2>3, <2>4, <2>8, <3>1
             DEF BusInv, Engaged, Late, Behind, ReadSteps, Given
    <2> QED
        BY <1>1, <1>2, <1>9, <1>11, <2>4, <2>8, <2>9, ReaderKeeps
           DEF ReadSteps, WriteSteps
  <1> QED
      BY <1>14, <1>15

(* The cursor is moved past a special sector, if it is in the file. *)
LEMMA SpecialMoved == ASSUME IInv, EndsInside, ReadSpecial
    PROVE  /\ Same /\ hdf' \in Disks /\ FilesInv' /\ RequestInv'
           /\ arm.lba + 1 >= 0 => hdf'[arm.unit].file.sector = arm.lba + 1
           /\ arm.lba + 1 < 0 => hdf'[arm.unit].file.sector = 0
PROOF
  <1>1. arm.pc = "read" /\ Special /\ host' = host
      BY DEF ReadSpecial
  <1>2. arm.left >= 1 /\ arm.pc \in ReadSteps
      BY <1>1 DEF IInv, ArmPlace, ReadSteps
  <1>3. Engaged /\ Progress < Moving /\ arm.lba \in Int /\ arm.unit \in Units
      BY <1>2, Reading, Serving
  <1>4. TypeInv /\ RequestInv /\ FilesInv /\ ArmPlace /\ arm.pc # "idle"
      BY <1>1 DEF IInv
  <1>5. IsFile(arm.unit)
      BY <1>1 DEF Special
  <1>6. CASE arm.lba < 0
    <2>1. hdf' = [hdf EXCEPT ![arm.unit].file = hdf[arm.unit].file]
        BY <1>6 DEF ReadSpecial
    <2>2. PICK f : f = hdf[arm.unit].file
        OBVIOUS
    <2>3. 0 \in Within /\ f = Cursor(0)
        BY <1>3, <1>4, <1>5, <1>6, <2>2 DEF FilesInv, ArmPlace
    <2>4. /\ Same /\ hdf' \in Disks /\ FilesInv'
          /\ hdf'[arm.unit].file.sector = 0
      <3>1. hdf' = [hdf EXCEPT ![arm.unit].file = f] /\ host'.req = host.req
          BY <1>1, <2>1, <2>2
      <3> QED
          BY <1>3, <1>4, <1>5, <2>3, <3>1, CursorSet
    <2>5. arm.lba + 1 >= 0 => arm.lba + 1 = 0
        BY <1>3, <1>6
    <2> QED
        BY <1>4, <2>4, <2>5, RequestKept
  <1>7. CASE ~(arm.lba < 0)
    <2>1. arm.lba >= 0 /\ arm.lba + 1 >= 0 /\ ~(arm.lba + 1 < 0)
        BY <1>3, <1>7
    <2>2. arm.lba < Span(TypeOf(arm.unit))
        BY <1>1, <1>3, <2>1, PlaceRead
    <2>3. PICK f \in Moved(arm.unit) : hdf' = [hdf EXCEPT ![arm.unit].file = f]
        BY <1>7 DEF ReadSpecial
    <2>4. /\ Same /\ hdf' \in Disks /\ FilesInv'
          /\ IsFile(arm.unit) => hdf'[arm.unit].file.sector = arm.lba + 1
        BY <1>1, <1>4, <2>1, <2>2, <2>3, CursorMoved
    <2> QED
        BY <1>4, <1>5, <2>1, <2>4, RequestKept
  <1> QED
      BY <1>6, <1>7

(* ReadSpecial keeps the invariant.                                        *)
LEMMA ReadSpecialKeeps == ASSUME IInv, EndsInside, ReadSpecial
    PROVE  IInv'
PROOF
  <1> DEFINE sector == IF arm.lba < 0
                       THEN FakeRDB(arm.lba - offset(TypeOf(arm.unit)))
                       ELSE Patched(card[Here])
             bits == IF arm.left = 1 THEN {"IRQ", "END"} ELSE {"IRQ"}
  <1>1. /\ arm.pc = "read" /\ Special
        /\ gayle' = Status(Put(ReadAnnounced(NextPos), sector), bits)
        /\ card' = card /\ host' = host /\ image' = image
      BY DEF ReadSpecial
  <1>2. /\ arm.left >= 1 /\ arm.pc \in ReadSteps /\ arm.cmd = "READ"
        /\ IsFile(arm.unit)
      BY <1>1 DEF IInv, ArmPlace, ReadSteps, Special
  <1>3. Engaged /\ gayle \in GayleSet /\ gayle.busy /\ arm \in ArmSet /\ ~gayle.pio_out
      BY <1>2, Reading, Serving
  <1>4. PICK d \in Contents :
           /\ d = sector
           /\ d = Expected(host.req.cmd, host.req.unit, First + Progress)
      BY <1>1, SpecialSector
  <1>5. PICK b : b = bits
      OBVIOUS
  <1>6. "IRQ" \in b /\ ("END" \in b <=> arm.left = 1) /\ "REQ" \notin b
      BY <1>5
  <1>7. PICK n \in Nat, m \in Nat :
            n = Progress /\ m = Moving /\ n < m /\ arm.left = m - n
      BY <1>2, <1>3, ProgressNumbers
  <1>8. /\ n = 0 /\ arm.lba = Base /\ host.done = 0
        /\ gayle.fifo = <<>> /\ ~gayle.intreq /\ host.pc = "irq"
      BY <1>1, <1>7, SpecialFirst
  <1>9. PICK p : p = NextPos
      OBVIOUS
  <1>10. PosAt(Progress)
      BY <1>1, <1>3 DEF IInv, ArmServes
  <1>11. /\ p \in Positions(TypeOf(arm.unit)) /\ p \in [cyl : Nat, head : Nat, sec : Nat]
         /\ n + 1 < m => chs2lba(TypeOf(arm.unit), p) = First + (n + 1)
         /\ n + 1 >= m => chs2lba(TypeOf(arm.unit), p) = First + (m - 1)
      BY <1>2, <1>3, <1>7, <1>9, <1>10, NextRegisters
  <1>12. PICK g : g = ReadAnnounced(p)
      OBVIOUS
  <1>13. /\ g \in GayleSet /\ g.busy /\ g.fifo = gayle.fifo
         /\ (g.intreq <=> gayle.intreq) /\ (g.pio_out <=> gayle.pio_out)
         /\ g.sector_count = gayle.sector_count
         /\ g.tfr.unit = arm.unit /\ g.tfr.pos = p /\ g.pio_in
      BY <1>2, <1>3, <1>11, <1>12, Announced
  <1>14. PICK h : h = Put(g, d)
      OBVIOUS
  <1>15. /\ h \in GayleSet /\ h.busy = g.busy /\ h.fifo # <<>>
         /\ h.fifo = Put(g, d).fifo
         /\ h.intreq = g.intreq /\ h.pio_in = g.pio_in /\ h.pio_out = g.pio_out
         /\ h.sector_count = g.sector_count /\ h.tfr = g.tfr
      BY <1>13, <1>14, PutSector
  <1>16. gayle' = Status(h, b)
      BY <1>1, <1>4, <1>5, <1>9, <1>12, <1>14
  <1>17. /\ gayle' \in GayleSet /\ (gayle'.busy <=> "END" \notin b)
         /\ (gayle'.intreq <=> h.intreq \/ "IRQ" \in b)
         /\ gayle'.pio_in <=>
                (h.pio_in \/ "RDY" \in b) /\ ("END" \notin b \/ h.fifo # <<>>)
         /\ gayle'.pio_out <=> "END" \notin b /\ (h.pio_out \/ "REQ" \in b)
         /\ gayle'.tfr = h.tfr /\ gayle'.fifo = h.fifo
         /\ gayle'.sector_count = h.sector_count
      BY <1>13, <1>15, <1>16, StatusBusy
  <1>18. /\ gayle' \in GayleSet /\ (gayle'.busy <=> arm.left # 1) /\ gayle'.intreq
         /\ gayle'.pio_in /\ ~gayle'.pio_out
         /\ gayle'.tfr.unit = arm.unit /\ gayle'.tfr.pos = p
         /\ gayle'.fifo # <<>> /\ gayle'.fifo = Put(g, d).fifo
         /\ gayle'.sector_count = gayle.sector_count
      BY <1>3, <1>6, <1>13, <1>15, <1>17
  <1>19. /\ Same /\ hdf' \in Disks /\ FilesInv' /\ RequestInv'
         /\ arm.lba + 1 >= 0 => hdf'[arm.unit].file.sector = arm.lba + 1
         /\ arm.lba + 1 < 0 => hdf'[arm.unit].file.sector = 0
      BY SpecialMoved
  <1>20. Given(n + 1, n + 1)'
    <2>1. PICK e \in Nat : e = n + 1
        BY <1>7
    <2>2. Block(host.req.cmd, Moving - host.done, host.req.unit) = 1
        BY <1>2, <1>3, Serving DEF Block, Multiple
    <2>3. e = host.done + Block(host.req.cmd, Moving - host.done, host.req.unit)
        BY <1>8, <2>1, <2>2
    <2>4. Given(n + 1, e)'
        BY <1>1, <1>2, <1>4, <1>7, <1>8, <1>13, <1>18, <1>19, <2>3, OneGiven
    <2> QED
        BY <2>1, <2>4
  <1>21. CASE arm.left = 1
    <2>1. arm' = NoJob
        BY <1>21 DEF ReadSpecial
    <2>2. n + 1 = m
        BY <1>7, <1>21
    <2>3. Given(Moving, Moving)'
      <3>1. Moving' = m
          BY <1>7, <1>19, SameRequest DEF IInv
      <3> QED
          BY <1>20, <2>2, <3>1 DEF Given
    <2>4. LastRegisters'
      <3>1. chs2lba(TypeOf(arm.unit), p) = First + (Moving - 1)
          BY <1>7, <1>11, <2>2
      <3>2. arm.unit = host.req.unit
          BY <1>3, Serving
      <3> QED
          BY <1>18, <1>19, <3>1, <3>2, LastGiven DEF IInv
    <2>5. ArmPlace' /\ ArmServes' /\ BusInv'
        BY <2>1, <2>3, <2>4, ArmRests
    <2>6. arm'.pc \notin WriteSteps
        BY <2>1 DEF NoJob, WriteSteps
    <2> QED
        BY <1>1, <1>2, <1>8, <1>18, <1>19, <2>1, <2>5, <2>6, ReaderKeeps
  <1>22. CASE arm.left # 1
    <2>1. arm' = [arm EXCEPT !.pos = p, !.lba = @ + 1, !.left = @ - 1]
        BY <1>9, <1>22 DEF ReadSpecial
    <2>2. PICK c \in Int : c = Base /\ arm.lba = c + n
        BY <1>1, <1>3, <1>7, Serving
    <2>3. PICK l \in 0 .. CountMod, i \in Int :
             l = arm.left - 1 /\ i = arm.lba + 1 /\ l >= 1
      <3>1. arm.left \in 0 .. CountMod /\ arm.lba \in Int /\ CountMod \in Nat
          BY <1>3, GayleAssumption DEF ArmSet
      <3> QED
          BY <1>2, <1>22, <3>1
    <2>4. /\ arm' \in ArmSet /\ arm'.pc = "read" /\ arm'.pos = p
          /\ arm'.cmd = arm.cmd /\ arm'.unit = arm.unit /\ arm'.count = arm.count
          /\ arm'.left = l /\ arm'.blk = arm.blk /\ arm'.lba = i
      <3>1. arm' = [arm EXCEPT !.pos = p, !.lba = i, !.left = l]
          BY <1>3, <2>1, <2>3 DEF ArmSet
      <3> QED
          BY <1>1, <1>3, <1>11, <3>1 DEF ArmSet, ReadSteps
    <2>5. PICK k \in Nat : k = n + 1 /\ k <= Moving /\ l = Moving - k /\ i = Base + k
        BY <1>7, <2>2, <2>3
    <2>6. /\ k < Moving => chs2lba(TypeOf(arm.unit), arm'.pos) = First + k
          /\ k >= Moving => chs2lba(TypeOf(arm.unit), arm'.pos) = First + (Moving - 1)
        BY <1>7, <1>11, <2>4, <2>5
    <2>7. /\ IsFile(arm.unit) /\ arm'.lba >= 0 => hdf'[arm.unit].file.sector = arm'.lba
          /\ IsFile(arm.unit) /\ arm'.lba < 0 => hdf'[arm.unit].file.sector = 0
        BY <1>19, <2>3, <2>4
    <2>8. ArmPlace' /\ ArmServes' /\ Progress' = k
        BY <1>1, <1>2, <1>3, <1>11, <1>19, <2>3, <2>4, <2>5, <2>6, <2>7,
           ArmContinues DEF ReadSteps, MultipleSteps, WriteSteps
    <2>9. BusInv'
      <3>1. Given(k, k)'
          BY <1>20, <2>5
      <3> QED
          BY <1>18, <1>22, <2>3, <2>4, <2>8, <3>1
             DEF BusInv, Engaged, Late, Behind, ReadSteps, Given
    <2> QED
        BY <1>1, <1>2, <1>8, <1>18, <1>19, <2>4, <2>8, <2>9, ReaderKeeps
           DEF ReadSteps, WriteSteps
  <1> QED
      BY <1>21, <1>22

(* ReadMultipleInterrupt keeps the invariant.                              *)
LEMMA ReadMultipleInterruptKeeps == ASSUME IInv, EndsInside, ReadMultipleInterrupt
    PROVE  IInv'
PROOF
  <1>1. /\ arm.pc = "mwait" /\ BufferEmpty /\ gayle' = Status(gayle, {"IRQ"})
        /\ hdf' = hdf /\ card' = card /\ host' = host /\ image' = image
      BY DEF ReadMultipleInterrupt
  <1>2. /\ arm.left >= 1 /\ arm.pc \in MultipleSteps /\ arm.cmd = "READM"
        /\ arm.pos \in Positions(TypeOf(arm.unit))
        /\ IsFile(arm.unit) /\ arm.lba >= 0 => hdf'[arm.unit].file.sector = arm.lba
        /\ IsFile(arm.unit) /\ arm.lba < 0 => hdf'[arm.unit].file.sector = 0
      BY <1>1 DEF IInv, ArmPlace, MultipleSteps
  <1>3. Engaged /\ gayle \in GayleSet /\ gayle.busy /\ arm \in ArmSet
      BY <1>2, Reading, Serving
  <1>4. /\ gayle' \in GayleSet /\ gayle'.busy /\ gayle'.intreq
        /\ gayle'.fifo = gayle.fifo /\ (gayle'.pio_out <=> gayle.pio_out)
        /\ gayle'.sector_count = gayle.sector_count /\ gayle'.tfr = gayle.tfr
        /\ gayle'.pio_in <=> gayle.pio_in
      BY <1>1, <1>3, StatusBusy
  <1>5. Same /\ hdf' \in Disks /\ FilesInv' /\ RequestInv'
      BY <1>1, NothingMoves
  <1>6. PICK n \in Nat, m \in Nat :
            n = Progress /\ m = Moving /\ n < m /\ arm.left = m - n
      BY <1>2, <1>3, ProgressNumbers
  <1>7. PICK b \in 0 .. FifoSectors :
           b = Block(arm.cmd, arm.left, arm.unit) /\ b \in 1 .. arm.left
    <2>1. hdf \in Disks /\ arm.unit \in Units /\ arm.left \in Nat
        BY <1>3, Serving DEF IInv, TypeInv
    <2>2. arm.cmd \in Multiple => hdf[arm.unit].spb > 0
        BY <1>3, Serving DEF IInv, RequestInv
    <2> QED
        BY <1>2, <2>1, <2>2, BlockBounds
  <1>8. /\ arm' \in ArmSet /\ arm'.pc = "mdata" /\ arm'.pos = arm.pos
        /\ arm'.cmd = arm.cmd /\ arm'.unit = arm.unit /\ arm'.count = arm.count
        /\ arm'.left = arm.left /\ arm'.blk = b /\ arm'.lba = arm.lba
    <2>1. arm' = [arm EXCEPT !.pc = "mdata", !.blk = b]
        BY <1>7 DEF ReadMultipleInterrupt
    <2> QED
        BY <1>3, <2>1 DEF ArmSet, MultipleSteps
  <1>9. arm.lba = Base + n
      BY <1>1, <1>3, <1>6, Serving
  <1>10. PosAt(n)
      BY <1>1, <1>3, <1>6 DEF IInv, ArmServes
  <1>11. ArmPlace' /\ ArmServes' /\ Progress' = n
    <2>1. /\ n < Moving => chs2lba(TypeOf(arm.unit), arm'.pos) = First + n
          /\ n >= Moving => chs2lba(TypeOf(arm.unit), arm'.pos) = First + (Moving - 1)
        BY <1>8, <1>10 DEF PosAt
    <2>2. n <= Moving /\ arm'.left = Moving - n
        BY <1>6, <1>8
    <2>3. arm'.blk >= 1 /\ arm'.blk <= arm'.left /\ arm'.left >= 1
        BY <1>2, <1>7, <1>8
    <2> QED
        BY <1>1, <1>2, <1>3, <1>5, <1>6, <1>8, <1>9, <2>1, <2>2, <2>3,
           ArmContinues DEF ReadSteps, MultipleSteps, WriteSteps
  <1>12. Given(n, n + b)'
    <2>1. /\ gayle.fifo = <<>> /\ gayle.pio_in /\ host.done = Progress
          /\ host.pc = "irq" /\ ~gayle.intreq
        BY <1>1, Emptied
    <2>2. ~gayle.pio_out
        BY <1>2, Reading
    <2>3. b = Block(host.req.cmd, Moving - host.done, host.req.unit)
        BY <1>3, <1>6, <1>7, <2>1, Serving
    <2>4. PICK e : e = n + b
        OBVIOUS
    <2>5. e = host.done + Block(host.req.cmd, Moving - host.done, host.req.unit)
        BY <1>6, <2>1, <2>3, <2>4
    <2>6. Given(n, e)'
        BY <1>1, <1>2, <1>4, <1>5, <1>6, <2>1, <2>2, <2>5, NoneGiven
    <2> QED
        BY <2>4, <2>6
  <1>13. BusInv'
      BY <1>4, <1>8, <1>11, <1>12 DEF BusInv, Engaged, Late, Behind, MultipleSteps, Given
  <1> QED
      BY <1>1, <1>2, <1>4, <1>5, <1>8, <1>11, <1>13, ReaderKeeps
         DEF MultipleSteps, WriteSteps

(* ReadMultipleData keeps the invariant.                                   *)
LEMMA ReadMultipleDataKeeps == ASSUME IInv, EndsInside, ReadMultipleData
    PROVE  IInv'
PROOF
  <1>1. /\ arm.pc = "mdata" /\ gayle' = Put(gayle, Stored(card[Here]))
        /\ card' = card /\ host' = host /\ image' = image
      BY DEF ReadMultipleData
  <1>2. /\ arm.left >= 1 /\ arm.pc \in MultipleSteps /\ arm.cmd = "READM"
        /\ arm.blk >= 1 /\ arm.blk <= arm.left
      BY <1>1 DEF IInv, ArmPlace, MultipleSteps
  <1>3. Engaged /\ gayle \in GayleSet /\ gayle.busy /\ arm \in ArmSet
      BY <1>2, Reading, Serving
  <1>4. PICK d \in Contents :
           /\ d = Stored(card[Here])
           /\ d = Expected(host.req.cmd, host.req.unit, First + Progress)
      BY <1>1, OrdinarySector
  <1>5. arm.lba < Span(TypeOf(arm.unit)) /\ (IsFile(arm.unit) => arm.lba >= 0)
      BY <1>1, OrdinarySector
  <1>6. PICK n \in Nat, m \in Nat :
            n = Progress /\ m = Moving /\ n < m /\ arm.left = m - n
      BY <1>2, <1>3, ProgressNumbers
  <1>7. Given(n, n + arm.blk) /\ gayle.pio_in /\ ~gayle.pio_out
      BY <1>1, <1>6 DEF IInv, BusInv, Given
  <1>8. gayle' = Put(gayle, d)
      BY <1>1, <1>4
  <1>9. /\ gayle' \in GayleSet /\ gayle'.busy = gayle.busy /\ gayle'.pio_in
        /\ gayle'.intreq = gayle.intreq /\ gayle'.pio_out = gayle.pio_out
        /\ gayle'.sector_count = gayle.sector_count /\ gayle'.tfr = gayle.tfr
        /\ gayle'.fifo = Put(gayle, d).fifo /\ gayle'.fifo # <<>>
      BY <1>3, <1>7, <1>8, PutSector
  <1>10. PICK f \in Moved(arm.unit) : hdf' = [hdf EXCEPT ![arm.unit].file = f]
      BY DEF ReadMultipleData
  <1>11. /\ Same /\ hdf' \in Disks /\ FilesInv' /\ RequestInv'
         /\ IsFile(arm.unit) => hdf'[arm.unit].file.sector = arm.lba + 1
    <2>1. TypeInv /\ FilesInv /\ ArmPlace /\ RequestInv /\ arm.pc # "idle"
        BY <1>1 DEF IInv
    <2>2. /\ Same /\ hdf' \in Disks /\ FilesInv'
          /\ IsFile(arm.unit) => hdf'[arm.unit].file.sector = arm.lba + 1
        BY <1>1, <1>5, <1>10, <2>1, CursorMoved
    <2> QED
        BY <2>1, <2>2, RequestKept
  <1>12. PICK b \in Nat : b = arm.blk /\ b \in 1 .. FifoSectors
      BY <1>2, <1>3, GayleAssumption DEF ArmSet
  <1>13. Given(n + 1, n + b)'
    <2>1. PICK e : e = n + b
        OBVIOUS
    <2>2. /\ host.pc = "irq" /\ gayle'.intreq =>
               e = host.done + Block(host.req.cmd, Moving - host.done, host.req.unit)
          /\ host.pc = "irq" /\ ~gayle'.intreq => e = host.done
          /\ host.pc = "in" =>
               ~gayle'.intreq /\ host.blk >= 1 /\ e = host.done + host.blk
      <3>1. Given(n, e)
          BY <1>7, <1>12, <2>1
      <3> QED
          BY <1>9, <3>1 DEF Given
    <2>3. Given(n + 1, e)'
        BY <1>1, <1>2, <1>3, <1>4, <1>6, <1>7, <1>9, <1>11, <2>2, OneGiven
    <2> QED
        BY <2>1, <2>3
  <1>14. PICK p : p = NextPos
      OBVIOUS
  <1>15. PosAt(Progress)
      BY <1>1, <1>3 DEF IInv, ArmServes
  <1>16. /\ p \in Positions(TypeOf(arm.unit)) /\ p \in [cyl : Nat, head : Nat, sec : Nat]
         /\ n + 1 < m => chs2lba(TypeOf(arm.unit), p) = First + (n + 1)
         /\ n + 1 >= m => chs2lba(TypeOf(arm.unit), p) = First + (m - 1)
      BY <1>2, <1>3, <1>6, <1>14, <1>15, NextRegisters
  <1>17. PICK c \in Int : c = Base /\ arm.lba = c + n
      BY <1>1, <1>3, <1>6, Serving
  <1>18. PICK l \in 0 .. CountMod, i \in Int, a \in 0 .. FifoSectors :
            l = arm.left - 1 /\ i = arm.lba + 1 /\ a = b - 1
    <2>1. arm.left \in 0 .. CountMod /\ arm.lba \in Int /\ CountMod \in Nat
        BY <1>3, GayleAssumption DEF ArmSet
    <2>2. FifoSectors \in Nat
        BY GayleAssumption
    <2> QED
        BY <1>2, <1>12, <2>1, <2>2
  <1>19. PICK pc : pc = IF b = 1 THEN "mtask" ELSE "mdata"
      OBVIOUS
  <1>20. /\ arm' \in ArmSet /\ arm'.pc = pc /\ arm'.pos = p
         /\ arm'.cmd = arm.cmd /\ arm'.unit = arm.unit /\ arm'.count = arm.count
         /\ arm'.left = l /\ arm'.blk = a /\ arm'.lba = i
    <2>1. arm' = [arm EXCEPT !.pc = pc, !.pos = p, !.lba = i, !.left = l, !.blk = a]
        BY <1>3, <1>12, <1>14, <1>18, <1>19 DEF ReadMultipleData, ArmSet
    <2>2. pc \in MultipleSteps
        BY <1>19 DEF MultipleSteps
    <2> QED
        BY <1>3, <1>16, <2>1, <2>2 DEF ArmSet
  <1>21. PICK k \in Nat : k = n + 1 /\ k <= Moving /\ l = Moving - k /\ i = Base + k
      BY <1>6, <1>17, <1>18
  <1>22. (pc = "mtask" /\ a = 0) \/ (pc = "mdata" /\ a >= 1 /\ a <= l /\ l >= 1)
    <2>1. CASE b = 1
        BY <1>18, <1>19, <2>1
    <2>2. CASE b # 1
      <3>1. pc = "mdata"
          BY <1>19, <2>2
      <3>2. PICK x \in Nat : x = arm.left /\ b <= x /\ b >= 1
          BY <1>2, <1>6, <1>12
      <3>3. a >= 1 /\ a <= l /\ l >= 1
          BY <1>18, <2>2, <3>2
      <3> QED
          BY <3>1, <3>3
    <2> QED
        BY <2>1, <2>2
  <1>23. ArmPlace' /\ ArmServes' /\ Progress' = k
    <2>1. /\ k < Moving => chs2lba(TypeOf(arm.unit), arm'.pos) = First + k
          /\ k >= Moving => chs2lba(TypeOf(arm.unit), arm'.pos) = First + (Moving - 1)
        BY <1>6, <1>16, <1>20, <1>21
    <2>2. /\ IsFile(arm.unit) /\ arm'.lba >= 0 => hdf'[arm.unit].file.sector = arm'.lba
          /\ IsFile(arm.unit) /\ arm'.lba < 0 => hdf'[arm.unit].file.sector = 0
        BY <1>5, <1>11, <1>17, <1>18, <1>20
    <2> QED
        BY <1>1, <1>2, <1>3, <1>11, <1>16, <1>20, <1>21, <1>22, <2>1, <2>2,
           ArmContinues DEF ReadSteps, MultipleSteps, WriteSteps
  <1>24. BusInv'
    <2>1. Given(k, k + a)'
      <3>1. n + b = k + a
          BY <1>12, <1>18, <1>21
      <3> QED
          BY <1>13, <1>21, <3>1
    <2>2. CASE pc = "mdata"
        BY <1>3, <1>9, <1>20, <1>23, <2>1, <2>2
           DEF BusInv, Engaged, Late, Behind, MultipleSteps, ReadSteps, Given
    <2>3. CASE pc = "mtask"
      <3>1. Given(k, k)'
        <4>1. k + a = k
            BY <1>22, <2>3
        <4> QED
            BY <2>1, <4>1
      <3>2. l = 0 => Given(Moving, Moving)'
        <4>1. SUFFICES ASSUME l = 0
                       PROVE  Given(Moving, Moving)'
            OBVIOUS
        <4>2. Moving' = m /\ k = m
            BY <1>6, <1>11, <1>21, <4>1, SameRequest DEF IInv
        <4> QED
            BY <3>1, <4>2 DEF Given
      <3>3. host'.req.cmd = "READM"
          BY <1>1, <1>2, <1>3, Serving
      <3>4. l = 0 \/ l > 0
          BY GayleAssumption
      <3> QED
          BY <1>3, <1>9, <1>20, <1>23, <2>3, <3>1, <3>2, <3>3, <3>4
             DEF BusInv, Engaged, Late, Behind, MultipleSteps, ReadSteps, Given
    <2> QED
        BY <1>22, <2>2, <2>3
  <1>25. arm'.pc \notin WriteSteps
      BY <1>20, <1>22 DEF WriteSteps
  <1> QED
      BY <1>1, <1>2, <1>9, <1>11, <1>20, <1>23, <1>24, <1>25, ReaderKeeps

(* ReadMultipleRegisters keeps the invariant.                              *)
LEMMA ReadMultipleRegistersKeeps == ASSUME IInv, EndsInside, ReadMultipleRegisters
    PROVE  IInv'
PROOF
  <1>1. /\ arm.pc = "mtask" /\ gayle' = WithPos(gayle, arm.pos)
        /\ hdf' = hdf /\ card' = card /\ host' = host /\ image' = image
      BY DEF ReadMultipleRegisters
  <1>2. /\ arm.pc \in MultipleSteps /\ arm.cmd = "READM"
        /\ arm.pos \in Positions(TypeOf(arm.unit))
        /\ IsFile(arm.unit) /\ arm.lba >= 0 => hdf'[arm.unit].file.sector = arm.lba
        /\ IsFile(arm.unit) /\ arm.lba < 0 => hdf'[arm.unit].file.sector = 0
      BY <1>1 DEF IInv, ArmPlace, MultipleSteps
  <1>3. arm \in ArmSet /\ gayle \in GayleSet /\ TypeInv
      BY <1>1 DEF IInv, TypeInv, NoJob
  <1>4. /\ arm.pos \in [cyl : Nat, head : Nat, sec : Nat] /\ arm.left \in 0 .. CountMod
        /\ arm.left \in Nat
      BY <1>3, GayleAssumption DEF ArmSet
  <1>5. Same /\ hdf' \in Disks /\ FilesInv' /\ RequestInv'
      BY <1>1, NothingMoves
  <1>6. gayle.busy =>
           /\ gayle' \in GayleSet /\ gayle'.busy
           /\ gayle'.fifo = gayle.fifo /\ (gayle'.intreq <=> gayle.intreq)
           /\ (gayle'.pio_out <=> gayle.pio_out)
           /\ gayle'.sector_count = gayle.sector_count
           /\ gayle'.pio_in <=> gayle.pio_in
    <2>1. PICK p \in [cyl : Nat, head : Nat, sec : Nat] : p = arm.pos
        BY <1>4
    <2> QED
        BY <1>1, <1>3, <2>1, WithPosBusy
  <1>7. CASE arm.left = 0
    <2>1. arm' = NoJob
        BY <1>7 DEF ReadMultipleRegisters, EndOfLoop
    <2>2. Behind /\ ~Engaged /\ ~Late
        BY <1>1, <1>7 DEF Behind, Engaged, Late
    <2>3. host.req.cmd = "READM"
        BY <2>2 DEF IInv, ArmServes
    <2>4. Rest \/ Given(Moving, Moving)
      <3>1. ~Over
          BY <2>3 DEF Over, Reads
      <3>2. ~Fresh
          BY <1>1, <2>2 DEF Fresh
      <3> QED
          BY <2>2, <3>1, <3>2 DEF IInv, BusInv
    <2>5. ~gayle.busy => gayle' = gayle
        BY <1>1 DEF WithPos, TaskFile
    <2>6. ~Engaged'
        BY <2>1 DEF NoJob, Engaged
    <2>7. gayle' \in GayleSet
        BY <1>3, <1>6, <2>5
    <2>8. CASE Rest
      <3>1. gayle' = gayle
          BY <2>5, <2>8 DEF Rest
      <3>2. Rest'
          BY <1>1, <2>6, <2>8, <3>1 DEF Rest
      <3>3. ArmPlace' /\ ArmServes' /\ BusInv'
          BY <2>1, <3>2, ArmRests
      <3>4. arm'.pc \notin WriteSteps /\ gayle'.tfr = gayle.tfr
          BY <2>1, <3>1 DEF NoJob, WriteSteps
      <3> QED
          BY <1>1, <1>2, <1>5, <2>1, <2>7, <3>3, <3>4, ReaderKeeps
    <2>9. CASE Given(Moving, Moving)
      <3>1. PICK m \in Nat : m = Moving
          BY <1>3, Numbers DEF IInv
      <3>2. /\ gayle'.fifo = gayle.fifo /\ (gayle'.intreq <=> gayle.intreq)
            /\ (gayle'.pio_out <=> gayle.pio_out)
            /\ gayle'.sector_count = gayle.sector_count
            /\ gayle'.pio_in <=> gayle.pio_in
          BY <1>6, <2>5
      <3>3. gayle.pio_in /\ host.pc # "idle"
          BY <1>1, <2>9 DEF Given
      <3>4. Given(m, m)
          BY <2>9, <3>1
      <3>5. /\ host.pc = "irq" /\ gayle'.intreq =>
                 m = host.done + Block(host.req.cmd, Moving - host.done, host.req.unit)
            /\ host.pc = "irq" /\ ~gayle'.intreq => m = host.done
            /\ host.pc = "in" =>
                 ~gayle'.intreq /\ host.blk >= 1 /\ m = host.done + host.blk
          BY <3>2, <3>4 DEF Given
      <3>6. /\ host.req.cmd \in Reads \cup {"IDENTIFY"}
            /\ host.pc \in {"irq", "in"} /\ host.done < Moving
            /\ Len(host.got) = host.done
            /\ host.done + Len(gayle'.fifo) = m
            /\ ~gayle'.pio_out /\ gayle'.pio_in
            /\ gayle'.sector_count \in {Moving - host.done, Moving - host.done - CountMod}
            /\ host.req.cmd \in Reads =>
                 \A j \in 1 .. Len(gayle'.fifo) :
                    gayle'.fifo[j] = Expected(host.req.cmd, host.req.unit,
                                              First + (host.done + j - 1))
          BY <3>2, <3>3, <3>4 DEF Given
      <3>7. Given(m, m)'
          BY <1>1, <1>3, <1>5, <3>5, <3>6, GivenByArm
      <3>8. Given(Moving, Moving)'
        <4>1. Moving' = m
            BY <1>3, <1>5, <3>1, SameRequest
        <4> QED
            BY <3>7, <4>1 DEF Given
      <3>9. host'.req.cmd # "READ"
          BY <1>1, <2>3
      <3>10. ArmPlace' /\ ArmServes' /\ BusInv'
        <4>1. (host.req.cmd = "READ" => LastRegisters)'
            BY <3>9
        <4> QED
            BY <2>1, <3>8, <4>1, ArmRests
      <3>11. arm'.pc \notin WriteSteps
          BY <2>1 DEF NoJob, WriteSteps
      <3> QED
          BY <1>1, <1>2, <1>5, <2>1, <2>7, <3>3, <3>10, <3>11, ReaderKeeps
    <2> QED
        BY <2>4, <2>8, <2>9
  <1>8. CASE arm.left # 0
    <2>1. arm.left >= 1
        BY <1>4, <1>8
    <2>2. Engaged /\ gayle.busy
        BY <1>2, <2>1, Reading
    <2>3. PICK n \in Nat, m \in Nat :
            n = Progress /\ m = Moving /\ n < m /\ arm.left = m - n
        BY <2>1, <2>2, ProgressNumbers
    <2>4. /\ arm' \in ArmSet /\ arm'.pc = "mwait" /\ arm'.pos = arm.pos
          /\ arm'.cmd = arm.cmd /\ arm'.unit = arm.unit /\ arm'.count = arm.count
          /\ arm'.left = arm.left /\ arm'.blk = arm.blk /\ arm'.lba = arm.lba
      <3>1. arm' = [arm EXCEPT !.pc = "mwait"]
          BY <1>8 DEF ReadMultipleRegisters, EndOfLoop
      <3> QED
          BY <1>3, <3>1 DEF ArmSet, MultipleSteps
    <2>5. arm.lba = Base + n
        BY <1>1, <2>2, <2>3, Serving
    <2>6. PosAt(n)
        BY <1>1, <2>2, <2>3 DEF IInv, ArmServes
    <2>7. ArmPlace' /\ ArmServes' /\ Progress' = n
      <3>1. /\ n < Moving => chs2lba(TypeOf(arm.unit), arm'.pos) = First + n
            /\ n >= Moving => chs2lba(TypeOf(arm.unit), arm'.pos) = First + (Moving - 1)
          BY <2>4, <2>6 DEF PosAt
      <3>2. n <= Moving /\ arm'.left = Moving - n /\ arm'.left >= 1
          BY <2>1, <2>3, <2>4
      <3> QED
          BY <1>1, <1>2, <1>5, <2>2, <2>3, <2>4, <2>5, <3>1, <3>2,
             ArmContinues DEF ReadSteps, MultipleSteps, WriteSteps
    <2>8. Given(n, n)'
      <3>1. Given(n, n)
        <4>1. arm.left > 0
            BY <1>4, <2>1
        <4> QED
            BY <1>1, <2>3, <4>1 DEF IInv, BusInv
      <3>2. gayle'.pio_in /\ ~gayle'.pio_out
          BY <1>1, <1>6, <2>2, <3>1 DEF Given
      <3> QED
          BY <1>1, <1>2, <1>5, <1>6, <2>1, <2>2, <2>3, <3>1, <3>2, NoneGiven DEF Given
    <2>9. BusInv'
        BY <1>6, <2>2, <2>4, <2>7, <2>8
           DEF BusInv, Engaged, Late, Behind, MultipleSteps, Given
    <2>10. host.pc # "idle" /\ arm'.pc \notin WriteSteps
        BY <1>2, <2>1, <2>4, Reading DEF WriteSteps
    <2> QED
        BY <1>1, <1>2, <1>5, <1>6, <2>2, <2>4, <2>7, <2>9, <2>10, ReaderKeeps
  <1> QED
      BY <1>7, <1>8

(* While the ARM waits for data it has taken what it has counted. *)
LEMMA Writing == ASSUME IInv, arm.pc = "wwait"
    PROVE  /\ Engaged /\ gayle \in GayleSet /\ arm \in ArmSet
           /\ arm.cmd \in Writes /\ arm.cmd = host.req.cmd
           /\ Asked(Progress, Progress + arm.blk)
           /\ arm.left >= 1 /\ arm.blk \in Nat /\ arm.blk >= 1 /\ arm.blk <= arm.left
           /\ Len(gayle.fifo) \in Nat /\ host.done \in Nat
           /\ arm.cmd = "WRITE" => arm.blk = 1
PROOF
  <1>1. Engaged
      BY DEF Engaged, Late, Behind
  <1>2. /\ arm.left >= 1 /\ arm.cmd \in Writes /\ arm.blk >= 1 /\ arm.blk <= arm.left
        /\ arm.cmd = "WRITE" => arm.blk = 1
      BY DEF IInv, ArmPlace, WriteSteps
  <1>3. Asked(Progress, Progress + arm.blk)
      BY DEF IInv, BusInv
  <1>4. gayle \in GayleSet /\ Len(gayle.fifo) \in Nat /\ host.done \in Nat
      BY DEF IInv, TypeInv, GayleSet, HostSet
  <1>5. arm \in ArmSet /\ arm.cmd = host.req.cmd
      BY <1>1, Serving
  <1>6. arm.blk \in Nat
      BY <1>5, GayleAssumption DEF ArmSet
  <1> QED
      BY <1>1, <1>2, <1>3, <1>4, <1>5, <1>6

(* The sectors on their way stay where they are. *)
LEMMA StoreSame ==
    ASSUME TypeInv, StoreInv, card' = card, image' = image,
           \A u \in Units : hdf'[u].type = hdf[u].type,
           arm.unit \in Units, arm'.unit = arm.unit, arm'.lba = arm.lba,
           QLen' = QLen, QLen \in Nat,
           \A j \in 0 .. QLen - 1 : QVal(j)' = QVal(j)
    PROVE  StoreInv'
PROOF
  <1>1. /\ IsFile(arm.unit)' <=> IsFile(arm.unit)
        /\ \A l : At(arm.unit, l)' = At(arm.unit, l)
    <2>1. TypeOf(arm.unit)' = TypeOf(arm.unit)
        BY DEF TypeOf
    <2>2. IsFile(arm.unit)' <=> IsFile(arm.unit)
        BY <2>1 DEF IsFile
    <2> QED
        BY <2>2 DEF At
  <1>2. ASSUME NEW s
        PROVE  Hits(s)' = Hits(s)
    <2>1. Hits(s)' = {j \in 0 .. QLen - 1 :
                         /\ IsFile(arm.unit) => arm.lba + j >= 0
                         /\ At(arm.unit, arm.lba + j) = s}
        BY <1>1 DEF Hits
    <2> QED
        BY <2>1 DEF Hits
  <1>3. \A s : Hits(s) \subseteq 0 .. QLen - 1
      BY DEF Hits
  <1> SUFFICES ASSUME NEW s \in CardSectors
               PROVE  /\ Hits(s) = {} => image[s] = card[s]
                      /\ \A j \in Hits(s) :
                            (\A k \in Hits(s) : k <= j) => image[s] = QVal(j)'
      BY <1>2 DEF StoreInv
  <1> QED
      BY <1>3 DEF StoreInv

(* A sector is taken. *)
LEMMA TakenStore ==
    ASSUME IInv, arm.pc = "wwait", gayle.fifo # <<>>, Same,
           card' = card, image' = image, arm'.unit = arm.unit, arm'.lba = arm.lba,
           arm'.pc = "store", arm'.buf = Head(gayle.fifo).val,
           gayle'.fifo = Tail(gayle.fifo)
    PROVE  StoreInv'
PROOF
  <1>1. gayle.fifo \in Seq(Contents)
      BY DEF IInv, TypeInv, GayleSet
  <1>2. PICK q \in Seq(Contents), n \in Nat : q = gayle.fifo /\ n = Len(q) /\ n >= 1
    <2>1. Len(gayle.fifo) \in Nat \ {0}
        BY <1>1, TailSector
    <2>2. Len(gayle.fifo) \in Nat /\ Len(gayle.fifo) >= 1
        BY <2>1
    <2> QED
        BY <1>1, <2>2
  <1>3. /\ Head(q) = q[1] /\ Len(Tail(q)) = n - 1
        /\ \A j \in 1 .. n - 1 : Tail(q)[j] = q[j + 1]
      BY <1>2, TailSector
  <1>4. QLen = n
      BY <1>2 DEF QLen
  <1>5. QLen' = n
      BY <1>2, <1>3 DEF QLen
  <1>6. ASSUME NEW j \in 0 .. n - 1
        PROVE  QVal(j)' = QVal(j)
    <2>1. QVal(j) = q[j + 1].val
        BY <1>2 DEF QVal
    <2>2. CASE j = 0
        BY <1>2, <1>3, <2>1, <2>2 DEF QVal
    <2>3. CASE j # 0
      <3>1. j \in 1 .. n - 1
          BY <1>2, <2>3
      <3>2. QVal(j)' = Tail(q)[j].val
          BY <1>2, <2>3 DEF QVal
      <3> QED
          BY <1>3, <2>1, <3>1, <3>2
    <2> QED
        BY <2>2, <2>3
  <1>7. /\ TypeInv /\ StoreInv /\ arm.unit \in Units
        /\ \A u \in Units : hdf'[u].type = hdf[u].type
      BY Writing, Serving DEF IInv, Same
  <1> QED
      BY <1>2, <1>4, <1>5, <1>6, <1>7, StoreSame

(* A sector is stored: those behind it move up. *)
LEMMA SectorStored ==
    ASSUME TypeInv, StoreInv, arm.pc = "store", QLen \in Nat \ {0}, image' = image,
           ~(IsFile(arm.unit) /\ arm.lba < 0) =>
             /\ Here \in CardSectors /\ Here = At(arm.unit, arm.lba)
             /\ card' = [card EXCEPT ![Here] = arm.buf],
           IsFile(arm.unit) /\ arm.lba < 0 => card' = card,
           arm.lba \in Int,
           \A s : Hits(s)' = {j \in Nat : j + 1 \in Hits(s)},
           \A j \in Nat : j + 1 < QLen => QVal(j)' = QVal(j + 1)
    PROVE  StoreInv'
PROOF
  <1>1. \A s : Hits(s) \subseteq 0 .. QLen - 1
      BY DEF Hits
  <1>2. QVal(0) = arm.buf
      BY DEF QVal
  <1>3. \A s : 0 \in Hits(s) <=> ~(IsFile(arm.unit) /\ arm.lba < 0) /\ At(arm.unit, arm.lba) = s
    <2>1. 0 \in 0 .. QLen - 1 /\ arm.lba + 0 = arm.lba
        OBVIOUS
    <2> QED
        BY <2>1 DEF Hits
  <1>4. card \in [CardSectors -> Int]
      BY DEF TypeInv, Images
  <1>5. ASSUME NEW s \in CardSectors
        PROVE  /\ 0 \in Hits(s) => card'[s] = QVal(0)
               /\ 0 \notin Hits(s) => card'[s] = card[s]
    <2>1. CASE IsFile(arm.unit) /\ arm.lba < 0
        BY <1>3, <2>1
    <2>2. CASE ~(IsFile(arm.unit) /\ arm.lba < 0)
      <3>1. 0 \in Hits(s) <=> Here = s
          BY <1>3, <2>2
      <3>2. card' = [card EXCEPT ![Here] = arm.buf]
          BY <2>2
      <3> QED
          BY <1>2, <1>4, <3>1, <3>2
    <2> QED
        BY <2>1, <2>2
  <1> SUFFICES ASSUME NEW s \in CardSectors
               PROVE  /\ Hits(s)' = {} => image[s] = card'[s]
                      /\ \A j \in Hits(s)' :
                            (\A k \in Hits(s)' : k <= j) => image[s] = QVal(j)'
      BY DEF StoreInv
  <1>6. PICK H : H = Hits(s) /\ H \subseteq 0 .. QLen - 1
      BY <1>1
  <1>7. PICK I : I = Hits(s)'
      OBVIOUS
  <1>8. I = {j \in Nat : j + 1 \in H}
      BY <1>6, <1>7
  <1>9. ASSUME I = {}
        PROVE  image[s] = card'[s]
    <2>1. \A j \in H : j = 0
      <3>1. SUFFICES ASSUME NEW j \in H, j # 0
                     PROVE  FALSE
          OBVIOUS
      <3>2. j - 1 \in Nat /\ (j - 1) + 1 = j
          BY <1>6, <3>1
      <3> QED
          BY <1>8, <1>9, <3>2
    <2>2. CASE 0 \in H
      <3>1. image[s] = QVal(0)
          BY <1>6, <2>1, <2>2 DEF StoreInv
      <3> QED
          BY <1>5, <1>6, <2>2, <3>1
    <2>3. CASE 0 \notin H
      <3>1. H = {}
          BY <2>1, <2>3
      <3>2. image[s] = card[s]
          BY <1>6, <3>1 DEF StoreInv
      <3> QED
          BY <1>5, <1>6, <2>3, <3>2
    <2> QED
        BY <2>2, <2>3
  <1>10. ASSUME NEW j \in I, \A k \in I : k <= j
         PROVE  image[s] = QVal(j)'
    <2>1. j \in Nat /\ j + 1 \in H
        BY <1>8
    <2>2. ASSUME NEW k \in H
          PROVE  k <= j + 1
      <3>1. k \in Nat
          BY <1>6
      <3>2. CASE k = 0
          BY <2>1, <3>2
      <3>3. CASE k # 0
        <4>1. k - 1 \in Nat /\ (k - 1) + 1 = k
            BY <3>1, <3>3
        <4>2. k - 1 \in I
            BY <1>8, <4>1
        <4>3. k - 1 <= j
            BY <1>10, <4>2
        <4> QED
            BY <2>1, <3>1, <4>3
      <3> QED
          BY <3>2, <3>3
    <2>3. image[s] = QVal(j + 1)
        BY <1>6, <2>1, <2>2 DEF StoreInv
    <2>4. j + 1 < QLen
        BY <1>6, <2>1
    <2> QED
        BY <2>1, <2>3, <2>4
  <1> QED
      BY <1>7, <1>9, <1>10

(* What is left of the invariant when the ARM makes a step of a write. *)
LEMMA WriterKeeps ==
    ASSUME IInv, host.pc # "idle" \/ gayle'.tfr = gayle.tfr,
           Same, hdf' \in Disks, FilesInv', RequestInv',
           host' = host, image' = image, card' \in Images,
           gayle' \in GayleSet, arm' = NoJob \/ arm' \in ArmSet,
           ArmPlace', ArmServes', BusInv', StoreInv'
    PROVE  IInv'
PROOF
  <1>1. TypeInv /\ DoneInv
      BY DEF IInv
  <1>2. TypeInv'
      BY <1>1 DEF TypeInv
  <1>3. DoneInv'
      BY <1>1, DoneKept
  <1> QED
      BY <1>2, <1>3 DEF IInv

(* The Amiga waits when the single sector it has sent is taken, and is     *)
(* answered.                                                               *)
LEMMA SingleTaken ==
    ASSUME IInv, arm.pc = "wwait", arm.cmd = "WRITE", gayle.fifo # <<>>,
           NEW p \in [cyl : Nat, head : Nat, sec : Nat], p = NextPos,
           gayle' = Answer(Taken(WithPos(gayle, NextPos)), arm.left - 1)
    PROVE  /\ host.pc = "irq" /\ host.done = Progress + 1
           /\ gayle' \in GayleSet /\ gayle'.fifo = <<>>
           /\ gayle'.fifo = Tail(gayle.fifo)
           /\ gayle'.intreq /\ ~gayle'.pio_in
           /\ (gayle'.busy <=> arm.left # 1) /\ (gayle'.pio_out <=> arm.left # 1)
           /\ gayle'.tfr.unit = arm.unit /\ gayle'.tfr.pos = p
PROOF
  <1>1. /\ Engaged /\ gayle \in GayleSet /\ arm \in ArmSet
        /\ Asked(Progress, Progress + arm.blk)
        /\ arm.left >= 1 /\ arm.blk = 1
      BY Writing
  <1>2. PICK k \in Nat, d \in Nat, n \in Nat, x \in Nat :
           k = Len(gayle.fifo) /\ d = host.done /\ n = Progress /\ k >= 1 /\ x = arm.left
    <2>1. PICK y \in Nat \ {0} : y = Len(gayle.fifo)
        BY <1>1, TailSector DEF GayleSet
    <2>2. PICK n \in Nat, x \in Nat : n = Progress /\ x = arm.left
        BY <1>1, Serving
    <2>3. PICK d \in Nat : d = host.done
        BY Writing
    <2> QED
        BY <2>1, <2>2, <2>3
  <1>3. d = n + k
      BY <1>1, <1>2 DEF Asked
  <1>4. host.pc = "irq"
    <2>1. SUFFICES ASSUME host.pc = "out"
                   PROVE  FALSE
        BY <1>1 DEF Asked
    <2>2. PICK b \in Nat : b = host.blk
        BY GayleAssumption DEF IInv, TypeInv, HostSet
    <2>3. b >= 1 /\ n + 1 = d + b
        BY <1>1, <1>2, <2>1, <2>2 DEF Asked
    <2> QED
        BY <1>2, <1>3, <2>2, <2>3
  <1>5. ~gayle.intreq
    <2>1. SUFFICES ASSUME gayle.intreq
                   PROVE  FALSE
        OBVIOUS
    <2>2. d = n
        BY <1>1, <1>2, <1>4, <2>1 DEF Asked
    <2> QED
        BY <1>2, <1>3, <2>2
  <1>6. d = n + 1 /\ k = 1
    <2>1. d = n + 1
        BY <1>1, <1>2, <1>4, <1>5 DEF Asked
    <2>2. n + 1 = n + k
        BY <1>3, <2>1
    <2>3. k \in Nat /\ n \in Nat
        BY <1>2
    <2>4. k = 1
        BY <2>2, <2>3
    <2> QED
        BY <2>1, <2>4
  <1>7. Tail(gayle.fifo) = <<>>
      BY <1>1, <1>2, <1>6, TailSector DEF GayleSet
  <1>8. PICK g : g = WithPos(gayle, p)
      OBVIOUS
  <1>9. gayle.busy /\ ~gayle.pio_in /\ gayle.pio_out
      BY <1>1 DEF Asked
  <1>10. /\ g \in GayleSet /\ g.tfr.unit = arm.unit /\ g.tfr.pos = p
         /\ g.busy = gayle.busy /\ g.intreq = gayle.intreq
         /\ g.pio_in = gayle.pio_in /\ g.pio_out = gayle.pio_out
         /\ g.fifo = gayle.fifo
      BY <1>1, <1>8, <1>9, WithPosBusy
  <1>11. PICK h : h = Taken(g)
      OBVIOUS
  <1>12. /\ h \in GayleSet /\ h.fifo = Tail(g.fifo)
         /\ h.busy = g.busy /\ h.intreq = g.intreq
         /\ h.pio_in = g.pio_in /\ h.pio_out = g.pio_out /\ h.tfr = g.tfr
      BY <1>10, <1>11, TakenSector
  <1>13. PICK b : b = IF arm.left - 1 # 0 THEN {"IRQ"} ELSE {"END", "IRQ"}
      OBVIOUS
  <1>14. gayle' = Status(h, b)
      BY <1>8, <1>11, <1>13 DEF Answer
  <1>15. "IRQ" \in b /\ ("END" \notin b <=> arm.left # 1) /\ "RDY" \notin b
      BY <1>2, <1>13
  <1>16. h.busy /\ h.intreq = gayle.intreq /\ ~h.pio_in /\ h.pio_out
      BY <1>9, <1>10, <1>12
  <1>17. /\ gayle' \in GayleSet /\ (gayle'.busy <=> "END" \notin b)
         /\ (gayle'.intreq <=> h.intreq \/ "IRQ" \in b)
         /\ (gayle'.pio_in <=>
                (h.pio_in \/ "RDY" \in b) /\ ("END" \notin b \/ h.fifo # <<>>))
         /\ (gayle'.pio_out <=> "END" \notin b /\ (h.pio_out \/ "REQ" \in b))
         /\ gayle'.tfr = h.tfr /\ gayle'.fifo = h.fifo
    <2>1. h \in GayleSet /\ h.busy
        BY <1>12, <1>16
    <2> QED
        BY <1>14, <2>1, StatusBusy
  <1>18. /\ gayle'.intreq /\ ~gayle'.pio_in
         /\ (gayle'.busy <=> arm.left # 1) /\ (gayle'.pio_out <=> arm.left # 1)
      BY <1>15, <1>16, <1>17
  <1>19. gayle'.fifo = Tail(gayle.fifo) /\ gayle'.tfr = g.tfr
      BY <1>10, <1>12, <1>17
  <1>20. host.done = Progress + 1
      BY <1>2, <1>6
  <1> QED
      BY <1>4, <1>7, <1>10, <1>17, <1>18, <1>19, <1>20

(* WriteTake keeps the invariant.                                          *)
LEMMA WriteTakeKeeps == ASSUME IInv, EndsInside, WriteTake
    PROVE  IInv'
PROOF
  <1>1. /\ arm.pc = "wwait" /\ gayle.fifo # <<>>
        /\ hdf' = hdf /\ card' = card /\ host' = host /\ image' = image
      BY DEF WriteTake, hdd_dat_req, full
  <1>2. /\ Engaged /\ gayle \in GayleSet /\ arm \in ArmSet
        /\ arm.cmd \in Writes /\ arm.cmd = host.req.cmd
        /\ Asked(Progress, Progress + arm.blk)
        /\ arm.left >= 1 /\ arm.blk \in Nat /\ arm.blk >= 1 /\ arm.blk <= arm.left
        /\ arm.cmd = "WRITE" => arm.blk = 1
      BY <1>1, Writing
  <1>3. PICK n \in Nat, m \in Nat :
            n = Progress /\ m = Moving /\ n < m /\ arm.left = m - n
      BY <1>2, ProgressNumbers
  <1>4. PICK p : p = NextPos
      OBVIOUS
  <1>5. PosAt(Progress)
      BY <1>1, <1>2 DEF IInv, ArmServes
  <1>6. /\ p \in Positions(TypeOf(arm.unit)) /\ p \in [cyl : Nat, head : Nat, sec : Nat]
        /\ n + 1 < m => chs2lba(TypeOf(arm.unit), p) = First + (n + 1)
        /\ n + 1 >= m => chs2lba(TypeOf(arm.unit), p) = First + (m - 1)
      BY <1>2, <1>3, <1>4, <1>5, NextRegisters
  <1>7. /\ Len(gayle.fifo) \in Nat \ {0} /\ Head(gayle.fifo) \in Contents
        /\ Head(gayle.fifo) = gayle.fifo[1]
        /\ Tail(gayle.fifo) \in Seq(Contents)
        /\ Len(Tail(gayle.fifo)) = Len(gayle.fifo) - 1
        /\ \A j \in 1 .. Len(gayle.fifo) - 1 : Tail(gayle.fifo)[j] = gayle.fifo[j + 1]
      BY <1>1, <1>2, TailSector DEF GayleSet
  <1>8. PICK v \in Int : v = Head(gayle.fifo).val
    <2>1. gayle.fifo[1].kind = "stored"
        BY <1>2, <1>7 DEF Asked
    <2>2. PICK c \in Contents : c = Head(gayle.fifo) /\ c.kind = "stored"
        BY <1>7, <2>1
    <2>3. c \in [kind : {"stored", "flags"}, val : Int]
        BY <2>2 DEF Contents, Identity, FakeRDB
    <2> QED
        BY <2>2, <2>3
  <1>9. PICK l \in 0 .. CountMod, a \in 0 .. FifoSectors :
            l = arm.left - 1 /\ a = arm.blk - 1 /\ a <= l
    <2>1. PICK x \in 0 .. CountMod, y \in 0 .. FifoSectors :
             x = arm.left /\ y = arm.blk /\ x >= 1 /\ y >= 1 /\ y <= x
        BY <1>2 DEF ArmSet
    <2>2. CountMod \in Nat /\ FifoSectors \in Nat
        BY GayleAssumption
    <2> QED
        BY <2>1, <2>2
  <1>10. /\ arm' \in ArmSet /\ arm'.pc = "store" /\ arm'.pos = p
         /\ arm'.cmd = arm.cmd /\ arm'.unit = arm.unit /\ arm'.count = arm.count
         /\ arm'.left = l /\ arm'.blk = a /\ arm'.lba = arm.lba /\ arm'.buf = v
    <2>1. arm' = [arm EXCEPT !.pc = "store", !.pos = p, !.left = l, !.blk = a, !.buf = v]
        BY <1>2, <1>4, <1>8, <1>9 DEF WriteTake, ArmSet
    <2> QED
        BY <1>2, <1>6, <2>1 DEF ArmSet, WriteSteps
  <1>11. Same /\ hdf' \in Disks /\ FilesInv' /\ RequestInv' /\ card' \in Images
      BY <1>1, NothingMoves DEF IInv, TypeInv
  <1>12. PICK k \in Nat : k = n + 1 /\ k <= Moving /\ l = Moving - k /\ k <= m
      BY <1>3, <1>9
  <1>13. arm.lba = Base + k - 1
    <2>1. PICK b \in Int : b = Base /\ arm.lba = b + n
        BY <1>1, <1>2, <1>3, Serving
    <2> QED
        BY <1>12, <2>1
  <1>14. ArmPlace' /\ ArmServes' /\ Progress' = k
    <2>1. /\ k < Moving => chs2lba(TypeOf(arm.unit), arm'.pos) = First + k
          /\ k >= Moving => chs2lba(TypeOf(arm.unit), arm'.pos) = First + (Moving - 1)
        BY <1>3, <1>6, <1>10, <1>12
    <2>2. /\ IsFile(arm.unit) /\ arm'.lba >= 0 => hdf'[arm.unit].file.sector = arm'.lba
          /\ IsFile(arm.unit) /\ arm'.lba < 0 => hdf'[arm.unit].file.sector = 0
        BY <1>1, <1>10 DEF IInv, ArmPlace
    <2>3. arm.cmd = "WRITE" => a = 0
        BY <1>2, <1>9
    <2>4. k >= 1
        BY <1>12
    <2> QED
        BY <1>1, <1>2, <1>6, <1>9, <1>10, <1>11, <1>12, <1>13, <2>1, <2>2, <2>3, <2>4,
           ArmContinues DEF ReadSteps, MultipleSteps, WriteSteps
  <1>15. PICK d \in Nat, z \in Nat : d = host.done /\ z = Len(gayle.fifo) /\ d = n + z /\ z >= 1
      BY <1>1, <1>2, <1>3, <1>7, Writing DEF Asked
  <1>16. CASE arm.cmd = "WRITE"
    <2>1. gayle' = Answer(Taken(WithPos(gayle, NextPos)), arm.left - 1)
        BY <1>16 DEF WriteTake
    <2>2. /\ host.pc = "irq" /\ host.done = Progress + 1
          /\ gayle' \in GayleSet /\ gayle'.fifo = <<>>
          /\ gayle'.fifo = Tail(gayle.fifo)
          /\ gayle'.intreq /\ ~gayle'.pio_in
          /\ (gayle'.busy <=> arm.left # 1) /\ (gayle'.pio_out <=> arm.left # 1)
          /\ gayle'.tfr.unit = arm.unit /\ gayle'.tfr.pos = p
        BY <1>1, <1>4, <1>6, <1>16, <2>1, SingleTaken
    <2>3. StoreInv'
        BY <1>1, <1>8, <1>10, <1>11, <2>2, TakenStore
    <2>4. host.done = k /\ host.req.cmd = "WRITE"
        BY <1>2, <1>3, <1>12, <1>16, <2>2
    <2>5. BusInv'
      <3>1. CASE arm.left = 1
        <4>1. k = Moving /\ l = 0
            BY <1>3, <1>9, <1>12, <3>1
        <4>2. Late' /\ ~Engaged'
            BY <1>9, <1>10, <1>16, <3>1 DEF Late, Engaged
        <4>3. LastRegisters'
          <5>1. chs2lba(TypeOf(arm.unit), p) = First + (Moving - 1)
              BY <1>3, <1>6, <1>12, <4>1
          <5>2. arm.unit = host.req.unit
              BY <1>2, Serving
          <5> QED
              BY <1>11, <2>2, <5>1, <5>2, LastGiven DEF IInv
        <4>4. Moving' = Moving
            BY <1>11, SameRequest DEF IInv
        <4>5. Over'
            BY <1>1, <2>2, <2>4, <3>1, <4>1, <4>3, <4>4 DEF Over, Reads
        <4> QED
            BY <1>10, <1>16, <4>1, <4>2, <4>5 DEF BusInv
      <3>2. CASE arm.left # 1
        <4>1. l >= 1 /\ k < Moving
            BY <1>3, <1>9, <1>12, <3>2
        <4>2. Engaged'
            BY <1>10, <4>1 DEF Engaged, Late, Behind
        <4>3. Asked(k, k + 1)'
          <5>1. Len(gayle'.fifo) = 0
              BY <2>2
          <5>2. PICK e : e = k + 1
              OBVIOUS
          <5>3. Block(host.req.cmd, Moving - k, host.req.unit) = 1
              BY <2>4 DEF Block, Multiple
          <5>4. /\ e <= Moving /\ host.done = k + Len(gayle'.fifo)
                /\ e = k + Block(host.req.cmd, Moving - k, host.req.unit)
              BY <1>3, <1>12, <2>4, <4>1, <5>1, <5>2, <5>3
          <5>5. \A i \in 1 .. Len(gayle'.fifo) : FALSE
              BY <5>1
          <5>6. Asked(k, e)'
              BY <1>1, <1>2, <1>11, <2>2, <2>4, <3>2, <4>1, <5>4, <5>5, AskedByArm DEF IInv
          <5> QED
              BY <5>2, <5>6
        <4> QED
            BY <1>10, <1>14, <1>16, <4>1, <4>2, <4>3 DEF BusInv, ReadSteps, MultipleSteps
      <3> QED
          BY <3>1, <3>2
    <2> QED
        BY <1>1, <1>10, <1>11, <1>14, <2>2, <2>3, <2>5, WriterKeeps
  <1>17. CASE arm.cmd # "WRITE"
    <2>1. gayle' = Taken(gayle)
        BY <1>17 DEF WriteTake
    <2>2. /\ gayle' \in GayleSet /\ gayle'.fifo = Tail(gayle.fifo)
          /\ gayle'.busy = gayle.busy /\ gayle'.intreq = gayle.intreq
          /\ gayle'.pio_in = gayle.pio_in /\ gayle'.pio_out = gayle.pio_out
          /\ gayle'.tfr = gayle.tfr
        BY <1>1, <1>2, <2>1, TakenSector
    <2>3. StoreInv'
        BY <1>1, <1>8, <1>10, <1>11, <2>2, TakenStore
    <2>4. PICK b \in Nat, e \in Nat : b = arm.blk /\ e = n + b /\ e = k + a /\ Asked(n, e)
        BY <1>2, <1>3, <1>9, <1>12
    <2>5. Asked(k, e)'
      <3>1. host.done = k + Len(gayle'.fifo)
        <4>1. Len(gayle'.fifo) = z - 1
            BY <1>7, <1>15, <2>2
        <4>2. d = k + (z - 1)
          <5>1. k = n + 1 /\ d = n + z /\ n \in Nat /\ z \in Nat
              BY <1>3, <1>12, <1>15
          <5> QED
              BY <5>1
        <4> QED
            BY <1>15, <4>1, <4>2
      <3>2. ~(host.pc = "irq" /\ gayle'.intreq)
          BY <1>15, <2>2, <2>4 DEF Asked
      <3>3. \A i \in 1 .. Len(gayle'.fifo) : gayle'.fifo[i].kind = "stored"
        <4>1. SUFFICES ASSUME NEW i \in 1 .. z - 1
                       PROVE  Tail(gayle.fifo)[i].kind = "stored"
            BY <1>7, <1>15, <2>2
        <4>2. Tail(gayle.fifo)[i] = gayle.fifo[i + 1] /\ i + 1 \in 1 .. z
            BY <1>7, <1>15
        <4> QED
            BY <1>15, <2>4, <4>2 DEF Asked
      <3> QED
          BY <1>1, <1>11, <2>2, <2>4, <3>1, <3>2, <3>3, AskedByArm DEF IInv, Asked
    <2>6. BusInv'
      <3>1. Engaged'
          BY <1>10, <1>17 DEF Engaged, Late, Behind
      <3>2. arm'.cmd = "WRITEM"
          BY <1>2, <1>10, <1>17 DEF Writes
      <3> QED
          BY <1>10, <1>14, <2>4, <2>5, <3>1, <3>2 DEF BusInv, ReadSteps, MultipleSteps
    <2> QED
        BY <1>1, <1>10, <1>11, <1>14, <2>2, <2>3, <2>6, WriterKeeps
  <1> QED
      BY <1>16, <1>17

(* The cursor is moved past a sector that is stored, and only the cursor   *)
(* that the unit has is moved.                                             *)
LEMMA StoreMoved == ASSUME IInv, EndsInside, WriteStore
    PROVE  /\ Same /\ hdf' \in Disks /\ FilesInv' /\ RequestInv' /\ card' \in Images
           /\ IsFile(arm.unit) /\ arm.lba + 1 >= 0 =>
                hdf'[arm.unit].file.sector = arm.lba + 1
           /\ IsFile(arm.unit) /\ arm.lba + 1 < 0 => hdf'[arm.unit].file.sector = 0
           /\ ~(IsFile(arm.unit) /\ arm.lba < 0) =>
                /\ Here \in CardSectors /\ Here = At(arm.unit, arm.lba)
                /\ card' = [card EXCEPT ![Here] = arm.buf]
           /\ IsFile(arm.unit) /\ arm.lba < 0 => card' = card
PROOF
  <1>1. arm.pc = "store" /\ host' = host
      BY DEF WriteStore
  <1>2. TypeInv /\ RequestInv /\ FilesInv /\ ArmPlace /\ arm.pc # "idle"
      BY <1>1 DEF IInv
  <1>3. arm \in ArmSet
      BY <1>2 DEF TypeInv, NoJob
  <1>4. arm.lba \in Int /\ arm.unit \in Units /\ arm.buf \in Int /\ arm.left \in Nat
      BY <1>3, GayleAssumption DEF ArmSet
  <1>5. arm.lba < Span(TypeOf(arm.unit))
    <2>1. TypeOf(arm.unit) \in Types
        BY <1>2, <1>4 DEF TypeInv, Disks, TypeOf
    <2>2. PICK s \in Int : s = Span(TypeOf(arm.unit))
        BY <2>1, GeometryTypes DEF Span
    <2>3. arm.lba + arm.left + 1 <= s
        BY <1>1, <1>2, <2>2 DEF ArmPlace
    <2> QED
        BY <1>4, <2>2, <2>3
  <1>6. CASE IsFile(arm.unit) /\ arm.lba < 0
    <2>1. card' = card /\ hdf' = hdf
        BY <1>6 DEF WriteStore
    <2>2. Same /\ hdf' \in Disks /\ FilesInv' /\ RequestInv'
        BY <1>1, <2>1, NothingMoves
    <2>3. hdf'[arm.unit].file.sector = 0
        BY <1>2, <1>6, <2>1 DEF ArmPlace
    <2>4. arm.lba + 1 >= 0 => arm.lba + 1 = 0
        BY <1>4, <1>6
    <2> QED
        BY <1>2, <1>6, <2>1, <2>2, <2>3, <2>4 DEF TypeInv
  <1>7. CASE ~(IsFile(arm.unit) /\ arm.lba < 0)
    <2>1. PICK f \in Moved(arm.unit) : hdf' = [hdf EXCEPT ![arm.unit].file = f]
        BY <1>7 DEF WriteStore
    <2>2. card' = [card EXCEPT ![Here] = arm.buf]
        BY <1>7 DEF WriteStore
    <2>3. IsFile(arm.unit) => arm.lba >= 0
        BY <1>4, <1>7
    <2>4. Here \in CardSectors /\ Here = At(arm.unit, arm.lba)
        BY <1>2, <1>5, <2>3, HereOnCard
    <2>5. card' \in Images
        BY <1>2, <1>4, <2>2, <2>4 DEF TypeInv, Images
    <2>6. /\ Same /\ hdf' \in Disks /\ FilesInv'
          /\ IsFile(arm.unit) => hdf'[arm.unit].file.sector = arm.lba + 1
        BY <1>1, <1>2, <1>5, <2>1, <2>3, CursorMoved
    <2>7. RequestInv'
        BY <1>2, <2>6, RequestKept
    <2>8. IsFile(arm.unit) => ~(arm.lba + 1 < 0)
        BY <1>4, <2>3
    <2> QED
        BY <1>7, <2>2, <2>4, <2>5, <2>6, <2>7, <2>8
  <1> QED
      BY <1>6, <1>7

(* The sectors behind it move up. *)
LEMMA StoreShifted ==
    ASSUME IInv, EndsInside, WriteStore, gayle'.fifo = gayle.fifo,
           \/ arm' = NoJob /\ gayle.fifo = <<>>
           \/ /\ arm'.pc = "wwait" /\ arm'.unit = arm.unit
              /\ arm'.lba = arm.lba + 1
    PROVE  StoreInv'
PROOF
  <1>1. arm.pc = "store" /\ image' = image
      BY DEF WriteStore
  <1>2. TypeInv /\ StoreInv
      BY DEF IInv
  <1>3. arm \in ArmSet
      BY <1>1, <1>2 DEF TypeInv, NoJob
  <1>4. PICK i \in Int, u \in Units : i = arm.lba /\ u = arm.unit
      BY <1>3 DEF ArmSet
  <1>5. PICK n \in Nat : n = Len(gayle.fifo)
      BY <1>2 DEF TypeInv, GayleSet
  <1>6. QLen = n + 1
      BY <1>1, <1>5 DEF QLen
  <1>7. /\ Same
        /\ ~(IsFile(arm.unit) /\ arm.lba < 0) =>
                /\ Here \in CardSectors /\ Here = At(arm.unit, arm.lba)
                /\ card' = [card EXCEPT ![Here] = arm.buf]
        /\ IsFile(arm.unit) /\ arm.lba < 0 => card' = card
      BY StoreMoved
  <1>8. /\ \A s : Hits(s)' = {j \in Nat : j + 1 \in Hits(s)}
        /\ \A j \in Nat : j + 1 < n + 1 => QVal(j)' = QVal(j + 1)
    <2>1. CASE arm' = NoJob /\ gayle.fifo = <<>>
      <3>1. QLen' = 0 /\ n = 0
          BY <1>5, <2>1 DEF QLen, NoJob
      <3>2. \A s : Hits(s)' = {}
          BY <3>1 DEF Hits
      <3>3. \A s : Hits(s) \subseteq 0 .. 0
          BY <1>6, <3>1 DEF Hits
      <3>4. \A s : {j \in Nat : j + 1 \in Hits(s)} = {}
        <4>1. SUFFICES ASSUME NEW s, NEW j \in Nat, j + 1 \in Hits(s)
                       PROVE  FALSE
            OBVIOUS
        <4>2. j + 1 \in 0 .. 0
            BY <3>3, <4>1
        <4> QED
            BY <4>2
      <3>5. \A j \in Nat : ~(j + 1 < n + 1)
          BY <3>1
      <3> QED
          BY <3>2, <3>4, <3>5
    <2>2. CASE /\ arm'.pc = "wwait" /\ arm'.unit = arm.unit
               /\ arm'.lba = arm.lba + 1
      <3>1. QLen' = n
          BY <1>5, <2>2 DEF QLen
      <3>2. /\ IsFile(arm.unit)' <=> IsFile(u)
            /\ \A l : At(arm.unit, l)' = At(u, l)
        <4>1. TypeOf(arm.unit)' = TypeOf(u)
            BY <1>4, <1>7, <2>2 DEF Same, TypeOf
        <4>2. IsFile(arm.unit)' <=> IsFile(u)
            BY <4>1 DEF IsFile
        <4> QED
            BY <4>2 DEF At
      <3>3. ASSUME NEW s
            PROVE  Hits(s)' = {j \in Nat : j + 1 \in Hits(s)}
        <4>1. Hits(s)' = {j \in 0 .. n - 1 : /\ IsFile(u) => i + 1 + j >= 0
                                             /\ At(u, i + 1 + j) = s}
            BY <1>4, <2>2, <3>1, <3>2 DEF Hits
        <4>2. Hits(s) = {j \in 0 .. n : /\ IsFile(u) => i + j >= 0
                                        /\ At(u, i + j) = s}
            BY <1>4, <1>6 DEF Hits
        <4>3. \A j \in Nat : /\ i + 1 + j = i + (j + 1)
                             /\ j \in 0 .. n - 1 <=> j + 1 \in 0 .. n
            OBVIOUS
        <4>4. ASSUME NEW j \in Nat
              PROVE  j \in Hits(s)' <=> j + 1 \in Hits(s)
            BY <4>1, <4>2, <4>3
        <4>5. \A j \in Hits(s)' : j \in Nat
            BY <4>1
        <4> QED
            BY <4>4, <4>5
      <3>4. ASSUME NEW j \in Nat
            PROVE  QVal(j)' = QVal(j + 1)
        <4>1. QVal(j)' = gayle.fifo[j + 1].val
            BY <2>2 DEF QVal
        <4>2. j + 1 # 0
            OBVIOUS
        <4> QED
            BY <1>1, <4>1, <4>2 DEF QVal
      <3> QED
          BY <3>3, <3>4
    <2> QED
        BY <2>1, <2>2
  <1> QED
      BY <1>1, <1>2, <1>4, <1>6, <1>7, <1>8, SectorStored

(* A block has been taken, and the Amiga waits. *)
LEMMA BlockTaken ==
    ASSUME IInv, arm.pc = "store", arm.cmd = "WRITEM", arm.blk = 0
    PROVE  /\ host.pc = "irq" /\ host.done = Progress /\ gayle.fifo = <<>>
           /\ gayle.busy /\ ~gayle.pio_in /\ gayle.pio_out /\ ~gayle.intreq
PROOF
  <1>1. Engaged
      BY DEF Engaged, Late, Behind
  <1>2. PICK n \in Nat : n = Progress
      BY <1>1, Serving
  <1>3. Asked(n, n)
    <2>1. Asked(Progress, Progress + arm.blk)
        BY DEF IInv, BusInv
    <2>2. n + 0 = n
        OBVIOUS
    <2> QED
        BY <1>2, <2>1, <2>2
  <1>4. PICK d \in Nat, k \in Nat : d = host.done /\ k = Len(gayle.fifo) /\ d = n + k
      BY <1>3 DEF IInv, TypeInv, GayleSet, HostSet, Asked
  <1>5. host.pc = "irq"
    <2>1. SUFFICES ASSUME host.pc = "out"
                   PROVE  FALSE
        BY <1>3 DEF Asked
    <2>2. PICK b \in Nat : b = host.blk
        BY GayleAssumption DEF IInv, TypeInv, HostSet
    <2>3. b >= 1 /\ n = d + b
        BY <1>3, <1>4, <2>1, <2>2 DEF Asked
    <2>4. n = n + k + b
        BY <1>4, <2>3
    <2> QED
        BY <2>3, <2>4
  <1>6. ~gayle.intreq
    <2>1. SUFFICES ASSUME gayle.intreq
                   PROVE  FALSE
        OBVIOUS
    <2>2. n < Moving /\ n = n + Block(host.req.cmd, Moving - n, host.req.unit)
        BY <1>3, <1>5, <2>1 DEF Asked
    <2>3. PICK b \in Nat : b = Block(host.req.cmd, Moving - n, host.req.unit) /\ b >= 1
      <3>1. PICK r \in Nat : r = Moving - n /\ r >= 1
        <4>1. PICK m \in Nat : m = Moving
            BY <1>1, Serving
        <4> QED
            BY <2>2, <4>1
      <3>2. host.req.unit \in Units /\ hdf \in Disks
          BY Numbers DEF IInv, TypeInv
      <3>3. host.req.cmd \in Multiple => hdf[host.req.unit].spb > 0
          BY DEF IInv, RequestInv
      <3>4. Block(host.req.cmd, r, host.req.unit) \in 1 .. r
          BY <3>1, <3>2, <3>3, BlockBounds
      <3> QED
          BY <3>1, <3>4
    <2>4. n = n + b
        BY <2>2, <2>3
    <2> QED
        BY <2>3, <2>4
  <1>7. d = n
      BY <1>3, <1>4, <1>5, <1>6 DEF Asked
  <1>8. Len(gayle.fifo) = 0
    <2>1. n = n + k
        BY <1>4, <1>7
    <2>2. k = 0
        BY <2>1
    <2> QED
        BY <1>4, <2>2
  <1>9. gayle.fifo = <<>>
      BY <1>8, EmptySeq DEF IInv, TypeInv, GayleSet
  <1> QED
      BY <1>2, <1>3, <1>4, <1>5, <1>6, <1>7, <1>9 DEF Asked

(* The last sector of a command that is answered already. *)
LEMMA LateStored ==
    ASSUME IInv, EndsInside, WriteStore, arm.left = 0, arm.cmd = "WRITE"
    PROVE  IInv'
PROOF
  <1>1. /\ arm.pc = "store" /\ host' = host /\ image' = image /\ arm' = NoJob
        /\ gayle' = gayle
      BY DEF WriteStore
  <1>2. Late /\ ~Engaged
      BY <1>1 DEF Late, Engaged
  <1>3. Rest \/ Fresh \/ Over
      BY <1>1, <1>2 DEF IInv, BusInv
  <1>4. Same /\ hdf' \in Disks /\ FilesInv' /\ RequestInv' /\ card' \in Images
      BY StoreMoved
  <1>5. StoreInv'
    <2>1. gayle.fifo = <<>>
        BY <1>3 DEF Rest, Fresh, Over
    <2> QED
        BY <1>1, <2>1, StoreShifted
  <1>6. host.req.unit \in Units /\ TypeInv
      BY Numbers DEF IInv
  <1>7. /\ First' = First /\ Moving' = Moving
        /\ Block(host.req.cmd, Moving, host.req.unit)' = Block(host.req.cmd, Moving, host.req.unit)
      BY <1>1, <1>4, <1>6, SameRequest
  <1>8. arm'.pc = "idle" /\ ~Engaged'
      BY <1>1 DEF NoJob, Engaged
  <1>9. LastRegisters => LastRegisters'
      BY <1>1, <1>4, <1>6, <1>7 DEF LastRegisters, Same, TypeOf
  <1>10. Rest' \/ Fresh' \/ Over'
    <2>1. CASE Rest
        BY <1>1, <1>8, <2>1 DEF Rest
    <2>2. CASE Fresh
        BY <1>1, <1>7, <1>8, <2>2 DEF Fresh
    <2>3. CASE Over
        BY <1>1, <1>7, <1>9, <2>3 DEF Over
    <2> QED
        BY <1>3, <2>1, <2>2, <2>3
  <1>11. ArmPlace' /\ ArmServes' /\ BusInv'
      BY <1>1, <1>10, ArmRests
  <1>12. gayle' \in GayleSet
      BY <1>1, <1>6 DEF TypeInv
  <1> QED
      BY <1>1, <1>4, <1>5, <1>11, <1>12, WriterKeeps

(* The answer to a block. *)
LEMMA BlockAnswered ==
    ASSUME IInv, arm.pc = "store", arm.cmd = "WRITEM", arm.blk = 0,
           gayle' = Answer(WithPos(gayle, arm.pos), arm.left)
    PROVE  /\ gayle' \in GayleSet /\ gayle'.intreq /\ ~gayle'.pio_in
           /\ gayle'.fifo = gayle.fifo
           /\ (gayle'.busy <=> arm.left # 0) /\ (gayle'.pio_out <=> arm.left # 0)
           /\ gayle'.tfr.unit = arm.unit /\ gayle'.tfr.pos = arm.pos
PROOF
  <1>1. gayle.busy /\ ~gayle.pio_in /\ gayle.pio_out
      BY BlockTaken
  <1>2. gayle \in GayleSet /\ arm \in ArmSet
      BY DEF IInv, TypeInv, NoJob
  <1>3. PICK p \in [cyl : Nat, head : Nat, sec : Nat] : p = arm.pos
      BY <1>2 DEF ArmSet
  <1>4. PICK h : h = WithPos(gayle, p)
      OBVIOUS
  <1>5. /\ h \in GayleSet /\ h.tfr.unit = arm.unit /\ h.tfr.pos = p
        /\ h.busy /\ h.intreq = gayle.intreq /\ ~h.pio_in /\ h.pio_out
        /\ h.fifo = gayle.fifo
      BY <1>1, <1>2, <1>4, WithPosBusy
  <1>6. PICK b : b = IF arm.left # 0 THEN {"IRQ"} ELSE {"END", "IRQ"}
      OBVIOUS
  <1>7. gayle' = Status(h, b)
      BY <1>3, <1>4, <1>6 DEF Answer
  <1>8. "IRQ" \in b /\ ("END" \notin b <=> arm.left # 0) /\ "RDY" \notin b
      BY <1>6
  <1>9. /\ gayle' \in GayleSet /\ (gayle'.busy <=> "END" \notin b)
        /\ (gayle'.intreq <=> h.intreq \/ "IRQ" \in b)
        /\ (gayle'.pio_in <=>
               (h.pio_in \/ "RDY" \in b) /\ ("END" \notin b \/ h.fifo # <<>>))
        /\ (gayle'.pio_out <=> "END" \notin b /\ (h.pio_out \/ "REQ" \in b))
        /\ gayle'.tfr = h.tfr /\ gayle'.fifo = h.fifo
    <2>1. h \in GayleSet /\ h.busy
        BY <1>5
    <2> QED
        BY <1>7, <2>1, StatusBusy
  <1> QED
      BY <1>3, <1>5, <1>8, <1>9

(* WriteStore keeps the invariant.                                         *)
LEMMA WriteStoreKeeps == ASSUME IInv, EndsInside, WriteStore
    PROVE  IInv'
PROOF
  <1>1. arm.pc = "store" /\ host' = host /\ image' = image
      BY DEF WriteStore
  <1>2. arm \in ArmSet /\ gayle \in GayleSet /\ TypeInv
      BY <1>1 DEF IInv, TypeInv, NoJob
  <1>3. /\ arm.cmd \in Writes /\ arm.pos \in Positions(TypeOf(arm.unit))
        /\ arm.blk <= arm.left
        /\ arm.cmd = "WRITE" => arm.blk = 0
      BY <1>1 DEF IInv, ArmPlace, WriteSteps
  <1>4. /\ Same /\ hdf' \in Disks /\ FilesInv' /\ RequestInv' /\ card' \in Images
        /\ IsFile(arm.unit) /\ arm.lba + 1 >= 0 =>
             hdf'[arm.unit].file.sector = arm.lba + 1
        /\ IsFile(arm.unit) /\ arm.lba + 1 < 0 => hdf'[arm.unit].file.sector = 0
      BY StoreMoved
  <1>5. arm.left \in Nat /\ arm.blk \in Nat
      BY <1>2, GayleAssumption DEF ArmSet
  <1>6. CASE arm.left = 0 /\ arm.cmd = "WRITE"
      BY <1>6, LateStored
  <1>7. CASE arm.left = 0 /\ arm.cmd # "WRITE"
    <2>1. arm.cmd = "WRITEM" /\ arm.blk = 0
        BY <1>3, <1>5, <1>7 DEF Writes
    <2>2. Engaged
        BY <1>1, <2>1 DEF Engaged, Late, Behind
    <2>3. /\ host.pc = "irq" /\ host.done = Progress /\ gayle.fifo = <<>>
        BY <1>1, <2>1, BlockTaken
    <2>4. arm' = NoJob /\ gayle' = Answer(WithPos(gayle, arm.pos), arm.left)
        BY <1>7, <2>1 DEF WriteStore
    <2>5. /\ gayle' \in GayleSet /\ gayle'.intreq /\ ~gayle'.pio_in
          /\ gayle'.fifo = gayle.fifo /\ ~gayle'.busy /\ ~gayle'.pio_out
          /\ gayle'.tfr.unit = arm.unit /\ gayle'.tfr.pos = arm.pos
        BY <1>1, <1>7, <2>1, <2>4, BlockAnswered
    <2>6. PICK m \in Nat : m = Moving /\ Progress = m
      <3>1. PICK m \in Nat : m = Moving /\ Progress = m - arm.left
          BY <2>2, Serving
      <3> QED
          BY <1>7, <3>1
    <2>7. LastRegisters'
      <3>1. PosAt(Progress)
          BY <1>1, <2>2 DEF IInv, ArmServes
      <3>2. chs2lba(TypeOf(arm.unit), arm.pos) = First + (Moving - 1)
          BY <2>6, <3>1 DEF PosAt
      <3>3. arm.unit = host.req.unit
          BY <2>2, Serving
      <3> QED
          BY <1>2, <1>4, <2>5, <3>2, <3>3, LastGiven
    <2>8. Over'
      <3>1. Moving' = Moving /\ host.req.cmd = "WRITEM"
          BY <1>2, <1>4, <2>1, <2>2, SameRequest, Serving
      <3> QED
          BY <1>1, <2>3, <2>5, <2>6, <2>7, <3>1 DEF Over, Reads
    <2>9. ArmPlace' /\ ArmServes' /\ BusInv'
        BY <2>4, <2>8, ArmRests
    <2>10. StoreInv'
        BY <2>3, <2>4, <2>5, StoreShifted
    <2> QED
        BY <1>1, <1>4, <2>3, <2>4, <2>5, <2>9, <2>10, WriterKeeps
  <1>8. CASE arm.left # 0
    <2>1. Engaged /\ arm.left >= 1
        BY <1>1, <1>5, <1>8 DEF Engaged, Late, Behind
    <2>2. PICK n \in Nat, m \in Nat :
            n = Progress /\ m = Moving /\ n < m /\ arm.left = m - n
        BY <2>1, ProgressNumbers
    <2>3. PICK b \in 0 .. FifoSectors :
             /\ b = IF arm.blk # 0 THEN arm.blk
                    ELSE Block(arm.cmd, arm.left, arm.unit)
             /\ b >= 1 /\ b <= arm.left /\ (arm.cmd = "WRITE" => b = 1)
      <3>1. CASE arm.blk # 0
        <4>1. arm.blk >= 1 /\ arm.blk \in 0 .. FifoSectors /\ arm.cmd # "WRITE"
            BY <1>2, <1>3, <1>5, <3>1 DEF ArmSet
        <4> QED
            BY <1>3, <3>1, <4>1
      <3>2. CASE arm.blk = 0
        <4>1. hdf \in Disks /\ arm.unit \in Units
            BY <1>2, <2>1, Serving DEF TypeInv
        <4>2. arm.cmd \in Multiple => hdf[arm.unit].spb > 0
            BY <2>1, Serving DEF IInv, RequestInv
        <4>3. PICK c : c = Block(arm.cmd, arm.left, arm.unit)
            OBVIOUS
        <4>4. c \in 1 .. arm.left /\ c \in 0 .. FifoSectors /\ (arm.cmd \notin Multiple => c = 1)
            BY <1>5, <2>1, <4>1, <4>2, <4>3, BlockBounds
        <4>5. c >= 1 /\ c <= arm.left /\ (arm.cmd = "WRITE" => c = 1)
            BY <1>5, <4>4 DEF Multiple
        <4> QED
            BY <3>2, <4>3, <4>4, <4>5
      <3> QED
          BY <3>1, <3>2
    <2>4. PICK i \in Int : i = arm.lba + 1
        BY <1>2 DEF ArmSet
    <2>5. /\ arm' \in ArmSet /\ arm'.pc = "wwait" /\ arm'.pos = arm.pos
          /\ arm'.cmd = arm.cmd /\ arm'.unit = arm.unit /\ arm'.count = arm.count
          /\ arm'.left = arm.left /\ arm'.blk = b /\ arm'.lba = i
      <3>1. arm' = [arm EXCEPT !.pc = "wwait", !.lba = i, !.blk = b]
          BY <1>2, <1>8, <2>3, <2>4 DEF WriteStore, ArmSet
      <3> QED
          BY <1>2, <3>1 DEF ArmSet, WriteSteps
    <2>6. i = Base + n
      <3>1. PICK c \in Int : c = Base /\ arm.lba = c + n - 1
          BY <1>1, <2>1, <2>2, Serving
      <3> QED
          BY <2>4, <3>1
    <2>7. PosAt(n)
        BY <1>1, <2>1, <2>2 DEF IInv, ArmServes
    <2>8. ArmPlace' /\ ArmServes' /\ Progress' = n
      <3>1. /\ n < Moving => chs2lba(TypeOf(arm.unit), arm'.pos) = First + n
            /\ n >= Moving => chs2lba(TypeOf(arm.unit), arm'.pos) = First + (Moving - 1)
          BY <2>5, <2>7 DEF PosAt
      <3>2. /\ IsFile(arm.unit) /\ arm'.lba >= 0 => hdf'[arm.unit].file.sector = arm'.lba
            /\ IsFile(arm.unit) /\ arm'.lba < 0 => hdf'[arm.unit].file.sector = 0
          BY <1>4, <2>4, <2>5
      <3>3. n <= Moving /\ arm'.left = Moving - n
          BY <2>2, <2>5
      <3> QED
          BY <1>1, <1>3, <1>4, <2>1, <2>2, <2>3, <2>5, <2>6, <3>1, <3>2, <3>3,
             ArmContinues DEF ReadSteps, MultipleSteps, WriteSteps
    <2>9. CASE arm.cmd = "WRITEM" /\ arm.blk = 0
      <3>1. /\ host.pc = "irq" /\ host.done = Progress /\ gayle.fifo = <<>>
          BY <1>1, <2>9, BlockTaken
      <3>2. gayle' = Answer(WithPos(gayle, arm.pos), arm.left)
          BY <2>9 DEF WriteStore
      <3>3. /\ gayle' \in GayleSet /\ gayle'.intreq /\ ~gayle'.pio_in
            /\ gayle'.fifo = gayle.fifo /\ gayle'.busy /\ gayle'.pio_out
          BY <1>1, <1>8, <2>9, <3>2, BlockAnswered
      <3>4. Asked(n, n + b)'
        <4>1. PICK e : e = n + b
            OBVIOUS
        <4>2. b = Block(host.req.cmd, Moving - n, host.req.unit)
            BY <2>1, <2>2, <2>3, <2>9, Serving
        <4>3. Len(gayle'.fifo) = 0
            BY <3>1, <3>3
        <4>4. host.done = n + Len(gayle'.fifo) /\ n < Moving /\ e <= Moving
            BY <2>2, <2>3, <3>1, <4>1, <4>3
        <4>5. \A j \in 1 .. Len(gayle'.fifo) : FALSE
            BY <4>3
        <4>6. host.req.cmd \in Writes
            BY <1>3, <2>1, Serving
        <4>7. Asked(n, e)'
            BY <1>1, <1>2, <1>4, <2>2, <3>1, <3>3, <4>1, <4>2, <4>4, <4>5, <4>6, AskedByArm
        <4> QED
            BY <4>1, <4>7
      <3>5. BusInv'
          BY <2>5, <2>8, <3>4 DEF BusInv, Engaged, Late, Behind, ReadSteps, MultipleSteps
      <3>6. StoreInv'
          BY <2>4, <2>5, <3>3, StoreShifted
      <3> QED
          BY <1>1, <1>4, <2>5, <2>8, <3>1, <3>3, <3>5, <3>6, WriterKeeps
    <2>10. CASE ~(arm.cmd = "WRITEM" /\ arm.blk = 0)
      <3>1. gayle' = gayle
          BY <2>10 DEF WriteStore
      <3>2. Asked(n, n + b)
        <4>1. CASE arm.cmd = "WRITE"
          <5>1. Asked(Progress, Progress + 1)
            <6>1. arm.left > 0
                BY <1>5, <1>8
            <6> QED
                BY <1>1, <4>1, <6>1 DEF IInv, BusInv
          <5>2. b = 1
              BY <2>3, <4>1
          <5> QED
              BY <2>2, <5>1, <5>2
        <4>2. CASE arm.cmd # "WRITE"
          <5>1. arm.cmd = "WRITEM"
              BY <1>3, <4>2 DEF Writes
          <5>2. Asked(Progress, Progress + arm.blk)
              BY <1>1, <5>1 DEF IInv, BusInv
          <5>3. b = arm.blk
              BY <2>3, <2>10, <5>1
          <5> QED
              BY <2>2, <5>2, <5>3
        <4> QED
            BY <4>1, <4>2
      <3>3. Asked(n, n + b)'
        <4>1. PICK e : e = n + b
            OBVIOUS
        <4>2. Asked(n, e)
            BY <3>2, <4>1
        <4>3. Asked(n, e)'
            BY <1>1, <1>2, <1>4, <3>1, <4>2, AskedByArm DEF Asked
        <4> QED
            BY <4>1, <4>3
      <3>4. BusInv'
          BY <2>5, <2>8, <3>3 DEF BusInv, Engaged, Late, Behind, ReadSteps, MultipleSteps
      <3>5. StoreInv'
          BY <2>4, <2>5, <3>1, StoreShifted
      <3>6. gayle' \in GayleSet /\ gayle'.tfr = gayle.tfr
          BY <1>2, <3>1
      <3> QED
          BY <1>1, <1>4, <2>5, <2>8, <3>4, <3>5, <3>6, WriterKeeps
    <2> QED
        BY <2>9, <2>10
  <1> QED
      BY <1>6, <1>7, <1>8

-----------------------------------------------------------------------------
(* Each action of the Amiga keeps it.                                      *)

(* A sensible request: at most its first sector is synthesized, or it is   *)
(* of one sector, and READ MULTIPLE leaves the synthesized cylinder alone. *)
LEMMA SensibleSpecials ==
    ASSUME TypeInv, NEW cmd, NEW u \in Units, NEW l \in Nat, NEW n \in Nat, n >= 1
    PROVE  /\ Specials(cmd, u, l, n) <= 1 => l + offset(TypeOf(u)) >= -1 \/ n = 1
           /\ Specials(cmd, u, l, n) = 0 => l + offset(TypeOf(u)) >= 0
PROOF
  <1>1. PICK t \in Types : t = TypeOf(u)
      BY DEF TypeInv, Disks, TypeOf
  <1>2. PICK o \in Int : o = offset(t) /\ (t = "card" => o = PartStart)
      BY GeometryTypes
  <1>3. CASE t = "card"
    <2>1. o \in Nat
        BY <1>2, <1>3, HardDiskAssumption
    <2> QED
        BY <1>1, <1>2, <2>1
  <1>4. CASE t # "card"
    <2> DEFINE S == {i \in l .. l + n - 1 : i + offset(TypeOf(u)) < 0}
    <2>1. Specials(cmd, u, l, n) = Cardinality(S)
        BY <1>1, <1>4 DEF Specials
    <2>2. IsFiniteSet(S)
      <3>1. IsFiniteSet(l .. l + n - 1)
        <4>1. l + n - 1 \in Int
            OBVIOUS
        <4> QED
            BY <4>1, FS_Interval
      <3>2. S \in SUBSET (l .. l + n - 1)
          OBVIOUS
      <3> QED
          BY <3>1, <3>2, FS_Subset
    <2>3. l + o < 0 => l \in S
        BY <1>1, <1>2
    <2>4. l + o < -1 /\ n # 1 => l + 1 \in S
        BY <1>1, <1>2
    <2>5. Cardinality(S) \in Nat
        BY <2>2, FS_CardinalityType
    <2> HIDE DEF S
    <2>6. Cardinality(S) = 0 => S = {}
        BY <2>2, FS_EmptySet
    <2>7. Cardinality(S) = 1 => \E x : S = {x}
        BY <2>2, FS_Singleton
    <2>8. Cardinality(S) = 0 => l + o >= 0
        BY <2>3, <2>6
    <2>9. ASSUME Cardinality(S) <= 1
          PROVE  l + o >= -1 \/ n = 1
      <3>1. CASE Cardinality(S) = 0
          BY <2>8, <3>1
      <3>2. CASE Cardinality(S) = 1
        <4>1. SUFFICES ASSUME l + o < -1, n # 1
                       PROVE  FALSE
            OBVIOUS
        <4>2. l \in S /\ l + 1 \in S /\ l # l + 1
            BY <2>3, <2>4, <4>1
        <4> QED
            BY <2>7, <3>2, <4>2
      <3> QED
          BY <2>5, <2>9, <3>1, <3>2
    <2> QED
        BY <1>1, <1>2, <2>1, <2>8, <2>9
  <1> QED
      BY <1>3, <1>4

(* What the Amiga gives a command to rests. *)
LEMMA NobodyServes == ASSUME IInv, host.pc = "idle"
    PROVE  Rest /\ (arm.pc = "idle" \/ Late \/ Behind)
PROOF
  <1>1. ~Engaged
    <2>1. SUFFICES ASSUME Engaged
                   PROVE  FALSE
        OBVIOUS
    <2>2. arm \in ArmSet /\ arm.pc # "idle" /\ arm.left \in Nat
        BY <2>1, Serving
    <2>3. CASE arm.pc \in ReadSteps \cup MultipleSteps
      <3>1. arm.left >= 1
        <4>1. CASE arm.pc = "mtask"
            BY <2>1, <2>2, <4>1 DEF Engaged, Behind
        <4>2. CASE arm.pc # "mtask"
            BY <2>2, <2>3, <4>2 DEF IInv, ArmPlace, ReadSteps, MultipleSteps
        <4> QED
            BY <4>1, <4>2
      <3> QED
          BY <2>3, <3>1, Reading
    <2>4. CASE arm.pc = "wwait"
        BY <2>4, Writing DEF Asked
    <2>5. CASE arm.pc = "store"
      <3>1. arm.cmd = "WRITE" => arm.left > 0
          BY <2>1, <2>2, <2>5 DEF Engaged, Late
      <3>2. arm.cmd \in Writes
          BY <2>5 DEF IInv, ArmPlace, WriteSteps
      <3> QED
          BY <2>5, <3>1, <3>2 DEF IInv, BusInv, Asked, Writes
    <2> QED
        BY <2>2, <2>3, <2>4, <2>5 DEF ArmSet, WriteSteps
  <1>2. Rest
      BY <1>1 DEF IInv, BusInv, Fresh, Over, Given
  <1> QED
      BY <1>1, <1>2 DEF Engaged

(* The registers of the ARM stay as they are. *)
LEMMA ArmStays == ASSUME ArmPlace, arm' = arm, hdf' = hdf
    PROVE  ArmPlace'
PROOF
  <1>1. \A u : TypeOf(u)' = TypeOf(u) /\ (IsFile(u)' <=> IsFile(u))
      BY DEF TypeOf, IsFile
  <1>2. Special' <=> Special
      BY <1>1 DEF Special
  <1> QED
      BY <1>1, <1>2 DEF ArmPlace

(* A command is given. *)
LEMMA IssueKeeps ==
    ASSUME IInv, NEW r \in Regs, Issue(r), r.count \in 0 .. CountMod - 1, RequestInv'
    PROVE  IInv'
PROOF
  <1>1. /\ host.pc = "idle" /\ ~bsy(gayle) /\ arm.pc # "mtask"
        /\ gayle' = Command(gayle, r)
        /\ arm' = arm /\ hdf' = hdf /\ card' = card /\ image' = image
      BY DEF Issue
  <1>2. PICK pc \in {"irq", "out"} : pc = IF r.cmd \in Writes THEN "out" ELSE "irq"
      OBVIOUS
  <1>3. TypeInv /\ hdf \in Disks /\ gayle \in GayleSet
      BY DEF IInv, TypeInv
  <1>4. CountMod \in Nat \ {0, 1} /\ FifoSectors \in Nat \ {0}
      BY GayleAssumption
  <1>5. PICK b \in 0 .. FifoSectors :
           b = IF r.cmd \in Writes THEN Block(r.cmd, Wanted(r.count), r.unit) ELSE 0
    <2>1. CASE r.cmd \in Writes
      <3>1. PICK c \in 0 .. CountMod - 1 : c = r.count
          OBVIOUS
      <3>2. PICK w \in Nat : w = Wanted(c) /\ w >= 1
        <4>1. CASE c = 0
            BY <1>4, <4>1 DEF Wanted
        <4>2. CASE c # 0
            BY <1>4, <4>2 DEF Wanted
        <4> QED
            BY <4>1, <4>2
      <3>3. r.unit \in Units
          BY DEF Regs
      <3>4. host'.req = r
          BY DEF Issue, Asleep
      <3>5. r.cmd \in Multiple => hdf[r.unit].spb > 0
          BY <1>1, <3>4 DEF RequestInv
      <3>6. Block(r.cmd, w, r.unit) \in 0 .. FifoSectors
          BY <1>3, <3>2, <3>3, <3>5, BlockBounds
      <3> QED
          BY <2>1, <3>1, <3>2, <3>6
    <2>2. CASE r.cmd \notin Writes
        BY <1>4, <2>2
    <2> QED
        BY <2>1, <2>2
  <1>6. host' = [pc |-> pc, req |-> r, done |-> 0, blk |-> b, got |-> <<>>]
      BY <1>2, <1>5 DEF Issue, Asleep
  <1>7. PICK q \in Seq(Contents) : q = <<>>
      BY EmptySeq
  <1>8. host' \in HostSet
      BY <1>6, <1>7 DEF HostSet
  <1>9. Rest /\ (arm.pc = "idle" \/ Late)
      BY <1>1, NobodyServes DEF Behind
  <1>10. /\ gayle' \in GayleSet /\ gayle'.tfr = r /\ gayle'.sector_count = r.count
         /\ gayle'.busy /\ gayle'.fifo = <<>>
         /\ ~gayle'.intreq /\ ~gayle'.pio_in /\ ~gayle'.pio_out
      BY <1>1, <1>3, <1>9, CommandGiven DEF Rest
  <1>11. TypeInv'
      BY <1>1, <1>3, <1>8, <1>10 DEF TypeInv
  <1>12. FilesInv'
      BY <1>1 DEF IInv, FilesInv, IsFile, TypeOf, Cursor
  <1>13. ArmPlace'
      BY <1>1, ArmStays DEF IInv
  <1>14. (arm'.pc = "idle" \/ Late') /\ ~Engaged' /\ ~Behind'
      BY <1>1, <1>9 DEF Late, Behind, Engaged
  <1>15. ArmServes'
      BY <1>14 DEF ArmServes
  <1>16. Fresh'
    <2>1. r.cmd \in Writes => Moving' = Wanted(r.count)
        BY <1>6 DEF Moving
    <2>2. r.cmd \in Writes => b = Block(r.cmd, Wanted(r.count), r.unit)'
        BY <1>1, <1>5 DEF Block
    <2>3. /\ host'.pc = pc /\ host'.req = r /\ host'.done = 0 /\ host'.blk = b
          /\ host'.got = <<>>
        BY <1>6
    <2>4. r.cmd \in Writes => host'.blk = Block(host.req.cmd, Moving, host.req.unit)'
        BY <2>1, <2>2, <2>3
    <2> QED
        BY <1>2, <1>10, <1>14, <2>3, <2>4 DEF Fresh
  <1>17. BusInv'
      BY <1>14, <1>16 DEF BusInv, Late
  <1>18. DoneInv'
    <2>1. host'.pc # "idle" /\ Len(host'.got) = 0
        BY <1>2, <1>6
    <2>2. 1 .. 0 = {}
        OBVIOUS
    <2> QED
        BY <2>1, <2>2 DEF DoneInv
  <1>19. StoreInv'
    <2>1. CASE arm.pc = "idle"
      <3>1. arm.pc \notin WriteSteps
          BY <2>1 DEF WriteSteps
      <3>2. card' = image'
          BY <1>1, <1>3, <3>1, StoreQuiet DEF IInv
      <3> QED
          BY <1>1, <3>1, <3>2, StoreQuietNext
    <2>2. CASE Late
      <3>1. arm.pc = "store" /\ gayle.fifo = <<>>
          BY <1>9, <2>2 DEF Late, Rest
      <3>2. QLen = 1 /\ QLen' = 1
          BY <1>1, <1>10, <3>1 DEF QLen
      <3>3. \A j \in 0 .. QLen - 1 : QVal(j)' = QVal(j)
        <4>1. SUFFICES ASSUME NEW j \in 0 .. 0
                       PROVE  QVal(j)' = QVal(j)
            BY <3>2
        <4>2. j = 0
            OBVIOUS
        <4> QED
            BY <1>1, <3>1, <4>2 DEF QVal
      <3>4. arm.unit \in Units
          BY <3>1 DEF IInv, TypeInv, ArmSet, NoJob
      <3>5. \A u \in Units : hdf'[u].type = hdf[u].type
          BY <1>1
      <3> QED
          BY <1>1, <1>3, <3>2, <3>3, <3>4, <3>5, StoreSame DEF IInv
    <2> QED
        BY <1>9, <2>1, <2>2
  <1> QED
      BY <1>11, <1>12, <1>13, <1>15, <1>17, <1>18, <1>19 DEF IInv

(* IssueTransfer keeps the invariant.                                      *)
LEMMA IssueTransferKeeps == ASSUME IInv, IssueTransfer
    PROVE  IInv'
PROOF
  <1>1. PICK cmd \in Transfers, u \in Units, count \in 0 .. CountMod - 1 :
           \E pos \in Positions(TypeOf(u)) :
              /\ Sensible(cmd, u, pos, count)
              /\ Issue(Registers(cmd, u, pos, count))
      BY DEF IssueTransfer, Transfers
  <1>2. PICK pos \in Positions(TypeOf(u)) :
           Sensible(cmd, u, pos, count) /\ Issue(Registers(cmd, u, pos, count))
      BY <1>1
  <1>3. PICK r : r = Registers(cmd, u, pos, count)
      OBVIOUS
  <1>4. PICK t \in Types : t = TypeOf(u)
      BY DEF IInv, TypeInv, Disks, TypeOf
  <1>5. /\ pos \in [cyl : Nat, head : Nat, sec : Nat] /\ chs2lba(t, pos) \in Nat
      BY <1>2, <1>4, AddressTypes DEF Positions
  <1>6. /\ r.cmd = cmd /\ r.unit = u /\ r.pos = pos /\ r.count = count
        /\ count \in Nat /\ cmd \in Commands
      BY <1>3, GayleAssumption DEF Registers, Transfers, Commands
  <1>7. r \in Regs
      BY <1>3, <1>5, <1>6 DEF Registers, Regs
  <1>8. /\ host'.req = r /\ hdf' = hdf
      BY <1>2, <1>3 DEF Issue, Asleep
  <1>9. PICK l \in Nat, n \in Nat :
           /\ l = chs2lba(t, pos) /\ n = Wanted(count) /\ n >= 1
    <2>1. CountMod \in Nat \ {0, 1}
        BY GayleAssumption
    <2>2. CASE count = 0
        BY <1>5, <2>1, <2>2 DEF Wanted
    <2>3. CASE count # 0
        BY <1>5, <2>1, <2>3 DEF Wanted
    <2> QED
        BY <2>2, <2>3
  <1>10. /\ l + n <= Capacity(t)
         /\ cmd = "READ" => Specials(cmd, u, l, n) <= 1
         /\ cmd = "READM" => Specials(cmd, u, l, n) = 0
         /\ cmd \in Multiple => hdf[u].spb > 0
      BY <1>2, <1>4, <1>9 DEF Sensible
  <1>11. TypeOf(host.req.unit)' = t
      BY <1>4, <1>6, <1>8 DEF TypeOf
  <1>12. First' = l
    <2>1. First' = l + 0
        BY <1>6, <1>8, <1>9, <1>11 DEF First, Address
    <2> QED
        BY <1>9, <2>1
  <1>13. Moving' = n
      BY <1>6, <1>8, <1>9 DEF Moving, Transfers
  <1>14. Base' = l + offset(t)
      BY <1>11, <1>12 DEF Base
  <1>15. RequestInv'
    <2>1. /\ cmd = "READ" => l + offset(t) >= -1 \/ n = 1
          /\ cmd = "READM" => l + offset(t) >= 0
        BY <1>4, <1>9, <1>10, SensibleSpecials DEF IInv
    <2>2. cmd # "SETMULTIPLE" /\ cmd # "IDENTIFY"
        BY DEF Transfers, Reads, Writes
    <2>3. (host.req.cmd \in Multiple => hdf[host.req.unit].spb > 0)'
        BY <1>6, <1>8, <1>10
    <2> QED
        BY <1>2, <1>4, <1>6, <1>8, <1>10, <1>11, <1>12, <1>13, <1>14, <2>1, <2>2, <2>3
           DEF RequestInv
  <1> QED
      BY <1>2, <1>3, <1>6, <1>7, <1>15, IssueKeeps

(* IssueOther keeps the invariant.                                         *)
LEMMA IssueOtherKeeps == ASSUME IInv, IssueOther
    PROVE  IInv'
PROOF
  <1>1. PICK cmd \in Others, u \in Units :
           \E count \in IF cmd = "SETMULTIPLE" THEN BlockSizes ELSE {1} :
              Issue(Registers(cmd, u, Home, count))
      BY DEF IssueOther
  <1>2. PICK count : /\ cmd = "SETMULTIPLE" => count \in BlockSizes
                     /\ cmd # "SETMULTIPLE" => count = 1
                     /\ Issue(Registers(cmd, u, Home, count))
      BY <1>1
  <1>3. PICK r : r = Registers(cmd, u, Home, count)
      OBVIOUS
  <1>4. count \in 0 .. CountMod - 1
    <2>1. CountMod \in Nat \ {0, 1} /\ FifoSectors \in Nat
        BY GayleAssumption
    <2>2. BlockSizes \subseteq 0 .. FifoSectors /\ FifoSectors < CountMod
        BY HardDiskAssumption
    <2>3. 0 .. FifoSectors \subseteq 0 .. CountMod - 1 /\ 1 \in 0 .. CountMod - 1
        BY <2>1, <2>2
    <2> QED
        BY <1>2, <2>2, <2>3
  <1>5. /\ r.cmd = cmd /\ r.unit = u /\ r.pos = Home /\ r.count = count
        /\ count \in Nat /\ cmd \in Commands
      BY <1>3, <1>4, GayleAssumption DEF Registers, Commands
  <1>6. r \in Regs
    <2>1. Home \in [cyl : Nat, head : Nat, sec : Nat]
        BY DEF Home
    <2> QED
        BY <1>3, <1>5, <2>1 DEF Registers, Regs
  <1>7. host'.req = r
      BY <1>2, <1>3 DEF Issue, Asleep
  <1>8. cmd \notin Transfers /\ cmd \notin Multiple
      BY DEF Others, Transfers, Reads, Writes, Multiple
  <1>9. RequestInv'
      BY <1>2, <1>5, <1>7, <1>8 DEF RequestInv, Transfers, Reads, Multiple
  <1> QED
      BY <1>2, <1>3, <1>4, <1>5, <1>6, <1>9, IssueKeeps

(* What the ARM has given and taken stays when the Amiga moves on.         *)
LEMMA BusKept ==
    ASSUME IInv, arm' = arm, Progress' = Progress,
           Engaged => gayle'.busy = gayle.busy,
           arm.pc = "read" => (gayle'.intreq => gayle'.fifo # <<>>),
           Engaged => \A n, e : Given(n, e) => Given(n, e)',
           Engaged => \A p \in Int : \A e : Asked(p, e) => Asked(p, e)',
           ~Engaged =>
              \/ Rest' \/ Fresh' \/ Over'
              \/ /\ arm.pc # "store"
                 /\ Given(Moving, Moving)'
                 /\ host'.req.cmd = "READ" => LastRegisters'
    PROVE  BusInv'
PROOF
  <1>1. (Engaged' <=> Engaged) /\ BusInv
      BY DEF Engaged, Late, Behind, IInv
  <1>2. PICK n : n = Progress
      OBVIOUS
  <1>3. CASE ~Engaged
    <2>1. /\ ~Engaged' /\ arm.pc \notin {"read", "rwait", "rdata", "mwait", "mdata", "wwait"}
          /\ ~(arm.pc = "mtask" /\ arm.left > 0)
          /\ ~(arm.pc = "store" /\ arm.cmd = "WRITEM")
          /\ ~(arm.pc = "store" /\ arm.cmd = "WRITE" /\ arm.left > 0)
        BY <1>1, <1>3 DEF Engaged, Late, Behind
    <2> QED
        BY <1>3, <2>1 DEF BusInv
  <1>4. CASE Engaged
    <2>0. n \in Int
        BY <1>2, <1>4, Serving
    <2>1. /\ arm.pc \in {"read", "rwait", "mwait"} => Given(n, n)'
          /\ arm.pc = "mtask" /\ arm.left > 0 => Given(n, n)'
          /\ arm.pc = "rdata" => Given(n, n + 1)'
        BY <1>1, <1>2, <1>4 DEF BusInv
    <2>2. arm.pc = "mdata" => Given(n, n + arm.blk)'
      <3>1. PICK e : e = n + arm.blk
          OBVIOUS
      <3>2. arm.pc = "mdata" => Given(n, e)'
          BY <1>1, <1>2, <1>4, <3>1 DEF BusInv
      <3> QED
          BY <3>1, <3>2 DEF Given
    <2>3. /\ arm.pc = "wwait" => Asked(n, n + arm.blk)'
          /\ arm.pc = "store" /\ arm.cmd = "WRITEM" => Asked(n, n + arm.blk)'
      <3>1. PICK e : e = n + arm.blk
          OBVIOUS
      <3>2. /\ arm.pc = "wwait" => Asked(n, e)'
            /\ arm.pc = "store" /\ arm.cmd = "WRITEM" => Asked(n, e)'
          BY <1>1, <1>2, <1>4, <2>0, <3>1 DEF BusInv
      <3>3. e = n + arm'.blk
          BY <3>1
      <3> QED
          BY <3>1, <3>2, <3>3 DEF Asked
    <2>4. arm.pc = "store" /\ arm.cmd = "WRITE" /\ arm.left > 0 => Asked(n, n + 1)'
        BY <1>1, <1>2, <1>4, <2>0 DEF BusInv
    <2>5. arm.pc \in ReadSteps \cup MultipleSteps => gayle'.busy
        BY <1>1, <1>4 DEF BusInv
    <2> QED
        BY <1>1, <1>2, <1>4, <2>1, <2>2, <2>3, <2>4, <2>5 DEF BusInv
  <1> QED
      BY <1>3, <1>4

(* The Amiga goes on with its command. *)
LEMMA HostSteps ==
    ASSUME IInv, arm' = arm, hdf' = hdf, host'.req = host.req, gayle'.tfr = gayle.tfr
    PROVE  /\ Same /\ hdf' \in Disks /\ FilesInv' /\ RequestInv' /\ ArmPlace' /\ ArmServes'
           /\ Progress' = Progress /\ Moving' = Moving /\ First' = First
           /\ LastRegisters => LastRegisters'
           /\ \A cmd, left, u : Block(cmd, left, u)' = Block(cmd, left, u)
PROOF
  <1>1. Same /\ hdf' \in Disks /\ FilesInv' /\ RequestInv'
      BY NothingMoves
  <1>2. First' = First /\ Moving' = Moving /\ Base' = Base
      BY <1>1, SameRequest DEF IInv
  <1>3. Progress' = Progress
      BY <1>2 DEF Progress
  <1>4. ArmPlace'
      BY ArmStays DEF IInv
  <1>5. \A u : TypeOf(u)' = TypeOf(u)
      BY DEF TypeOf
  <1>6. \A n : PosAt(n)' <=> PosAt(n)
      BY <1>2, <1>5 DEF PosAt
  <1>7. (Engaged' <=> Engaged) /\ (Behind' <=> Behind)
      BY DEF Engaged, Late, Behind
  <1>8. ArmServes'
    <2>1. PICK n : n = Progress
        OBVIOUS
    <2>2. /\ PosAt(Progress)' <=> PosAt(n)
          /\ PosAt(Progress + 1)' <=> PosAt(n + 1)
        BY <1>2, <1>3, <1>5, <2>1 DEF PosAt
    <2> QED
        BY <1>2, <1>3, <1>7, <2>1, <2>2 DEF IInv, ArmServes
  <1>9. LastRegisters => LastRegisters'
      BY <1>2, <1>5 DEF LastRegisters
  <1>10. \A cmd, left, u : Block(cmd, left, u)' = Block(cmd, left, u)
      BY DEF Block
  <1> QED
      BY <1>1, <1>2, <1>3, <1>4, <1>8, <1>9, <1>10

(* The sectors on their way, when only the Amiga moves. *)
LEMMA StoreStays ==
    ASSUME IInv, arm' = arm, hdf' = hdf, card' = card, image' = image,
           gayle'.fifo = gayle.fifo
    PROVE  StoreInv'
PROOF
  <1>1. /\ \A s : Hits(s)' = Hits(s)
        /\ \A j : QVal(j)' = QVal(j)
      BY DEF Hits, QVal, QLen, At, IsFile, TypeOf
  <1> SUFFICES ASSUME NEW s \in CardSectors
               PROVE  /\ Hits(s) = {} => image[s] = card[s]
                      /\ \A j \in Hits(s) :
                            (\A k \in Hits(s) : k <= j) => image[s] = QVal(j)
      BY <1>1 DEF StoreInv
  <1> QED
      BY DEF IInv, StoreInv

(* The next block of the Amiga, while sectors of it are to be moved. *)
LEMMA HostBlock == ASSUME IInv, host.done < Moving
    PROVE  /\ Block(host.req.cmd, Moving - host.done, host.req.unit) \in 0 .. FifoSectors
           /\ Block(host.req.cmd, Moving - host.done, host.req.unit) >= 1
           /\ Block(host.req.cmd, Moving - host.done, host.req.unit) <= Moving - host.done
PROOF
  <1>1. TypeInv /\ RequestInv /\ hdf \in Disks /\ host.req.unit \in Units
      BY Numbers DEF IInv, TypeInv
  <1>2. PICK r \in Nat : r = Moving - host.done /\ r >= 1
    <2>1. PICK m \in Nat, d \in Nat : m = Moving /\ d = host.done /\ d < m
        BY <1>1, Numbers DEF TypeInv, HostSet
    <2> QED
        BY <2>1
  <1>3. host.req.cmd \in Multiple => hdf[host.req.unit].spb > 0
      BY <1>1 DEF RequestInv
  <1>4. PICK b : b = Block(host.req.cmd, r, host.req.unit)
      OBVIOUS
  <1>5. b \in 1 .. r /\ b \in 0 .. FifoSectors
      BY <1>1, <1>2, <1>3, <1>4, BlockBounds
  <1> QED
      BY <1>2, <1>4, <1>5

(* HostInterrupt keeps the invariant.                                      *)
LEMMA HostInterruptKeeps == ASSUME IInv, HostInterrupt
    PROVE  IInv'
PROOF
  <1>1. /\ host.pc = "irq" /\ gayle.intreq /\ gayle' = ClearInt(gayle)
        /\ arm' = arm /\ hdf' = hdf /\ card' = card /\ image' = image
      BY DEF HostInterrupt, irq
  <1>2. TypeInv /\ gayle \in GayleSet /\ host \in HostSet
      BY DEF IInv, TypeInv
  <1>3. /\ gayle' \in GayleSet /\ ~gayle'.intreq
        /\ gayle'.tfr = gayle.tfr /\ gayle'.sector_count = gayle.sector_count
        /\ gayle'.busy = gayle.busy /\ gayle'.fifo = gayle.fifo
        /\ gayle'.pio_in = gayle.pio_in /\ gayle'.pio_out = gayle.pio_out
      BY <1>1, <1>2, InterruptCleared
  <1>4. PICK d \in Nat, m \in Nat : d = host.done /\ m = Moving
      BY <1>2, Numbers DEF IInv, HostSet
  <1>5. CASE d = m
    <2>1. host' = [host EXCEPT !.pc = "idle", !.blk = 0]
        BY <1>4, <1>5 DEF HostInterrupt
    <2>2. /\ host' \in HostSet /\ host'.pc = "idle" /\ host'.req = host.req
          /\ host'.done = host.done /\ host'.got = host.got
      <3>1. 0 \in 0 .. FifoSectors
          BY GayleAssumption
      <3>2. DOMAIN host = {"pc", "req", "done", "blk", "got"}
          BY <1>2 DEF HostSet
      <3> QED
          BY <1>2, <2>1, <3>1, <3>2 DEF HostSet
    <2>3. /\ Same /\ hdf' \in Disks /\ FilesInv' /\ RequestInv' /\ ArmPlace' /\ ArmServes'
          /\ Progress' = Progress /\ Moving' = Moving /\ First' = First
          /\ LastRegisters => LastRegisters'
        BY <1>1, <1>3, <2>2, HostSteps
    <2>4. ASSUME NEW n, NEW e, Given(n, e) \/ Asked(n, e)
          PROVE  FALSE
      <3>1. CASE Given(n, e)
          BY <1>4, <1>5, <3>1 DEF Given
      <3>2. CASE Asked(n, e)
          BY <1>1, <1>4, <1>5, <3>2 DEF Asked
      <3> QED
          BY <2>4, <3>1, <3>2
    <2>5. ~Engaged
      <3>1. SUFFICES ASSUME Engaged
                     PROVE  FALSE
          OBVIOUS
      <3>2. arm \in ArmSet /\ arm.left \in Nat
          BY <3>1, Serving
      <3>3. arm.pc = "mtask" => arm.left > 0
          BY <3>1, <3>2 DEF Engaged, Behind
      <3>4. arm.pc = "store" => arm.cmd = "WRITEM" \/ (arm.cmd = "WRITE" /\ arm.left > 0)
          BY <3>1, <3>2 DEF Engaged, Late, IInv, ArmPlace, Writes, WriteSteps
      <3> QED
          BY <2>4, <3>2, <3>3, <3>4
             DEF IInv, BusInv, ArmSet, ReadSteps, MultipleSteps, WriteSteps
    <2>6. Over
        BY <1>1, <2>4, <2>5 DEF IInv, BusInv, Rest, Fresh
    <2>7. ~Engaged'
        BY <1>1, <2>5 DEF Engaged, Late, Behind
    <2>8. Rest'
        BY <1>3, <2>2, <2>6, <2>7 DEF Rest, Over
    <2>9. BusInv'
      <3>1. Progress' = Progress
          BY <2>3
      <3>2. arm.pc = "read" => (gayle'.intreq => gayle'.fifo # <<>>)
          BY <1>3
      <3>3. /\ Engaged => gayle'.busy = gayle.busy
            /\ Engaged => \A n, e : Given(n, e) => Given(n, e)'
            /\ Engaged => \A p \in Int : \A e : Asked(p, e) => Asked(p, e)'
          BY <2>5
      <3> QED
          BY <1>1, <2>8, <3>1, <3>2, <3>3, BusKept
    <2>10. DoneInv'
      <3>1. host.req.cmd \notin Reads /\ (host.req.cmd \in Writes => LastRegisters)
          BY <2>6 DEF Over
      <3>2. host'.done = Moving' /\ (host.req.cmd \in Writes => LastRegisters')
          BY <1>4, <1>5, <2>2, <2>3, <3>1
      <3> QED
          BY <2>2, <3>1, <3>2 DEF DoneInv, Reads
    <2>11. StoreInv'
        BY <1>1, <1>3, StoreStays
    <2>12. TypeInv'
        BY <1>1, <1>2, <1>3, <2>2, <2>3 DEF TypeInv
    <2> QED
        BY <2>3, <2>9, <2>10, <2>11, <2>12 DEF IInv
  <1>6. CASE d # m
    <2>1. PICK pc \in {"in", "out"} :
             pc = IF host.req.cmd \in Writes THEN "out" ELSE "in"
        OBVIOUS
    <2>2. PICK b : b = Block(host.req.cmd, Moving - host.done, host.req.unit)
        OBVIOUS
    <2>3. ASSUME NEW n, NEW e, Given(n, e)
          PROVE  host.done < Moving
        BY <2>3 DEF Given
    <2>4. ASSUME NEW n, NEW e, Asked(n, e)
          PROVE  host.done < Moving
        BY <1>1, <2>4 DEF Asked
    <2>5. ~Rest /\ ~Fresh /\ ~Over
        BY <1>1, <1>4, <1>6 DEF Rest, Fresh, Over
    <2>6. d < m
      <3>1. CASE ~Engaged
          BY <1>4, <2>3, <2>5, <3>1 DEF IInv, BusInv
      <3>2. CASE Engaged
        <4>1. arm \in ArmSet /\ arm.left \in Nat
            BY <3>2, Serving
        <4>2. arm.pc = "mtask" => arm.left > 0
            BY <3>2, <4>1 DEF Engaged, Behind
        <4>3. arm.pc = "store" => arm.cmd = "WRITEM" \/ (arm.cmd = "WRITE" /\ arm.left > 0)
            BY <3>2, <4>1 DEF Engaged, Late, IInv, ArmPlace, Writes, WriteSteps
        <4>4. host.done < Moving
            BY <2>3, <2>4, <4>1, <4>2, <4>3
               DEF IInv, BusInv, ArmSet, ReadSteps, MultipleSteps, WriteSteps
        <4> QED
            BY <1>4, <4>4
      <3> QED
          BY <3>1, <3>2
    <2>7. b \in 0 .. FifoSectors /\ b >= 1
        BY <1>4, <2>2, <2>6, HostBlock
    <2>8. host' = [host EXCEPT !.pc = pc, !.blk = b]
        BY <1>4, <1>6, <2>1, <2>2 DEF HostInterrupt
    <2>9. /\ host' \in HostSet /\ host'.pc = pc /\ host'.req = host.req
          /\ host'.done = host.done /\ host'.got = host.got /\ host'.blk = b
        BY <1>2, <2>1, <2>7, <2>8 DEF HostSet
    <2>10. /\ Same /\ hdf' \in Disks /\ FilesInv' /\ RequestInv' /\ ArmPlace' /\ ArmServes'
           /\ Progress' = Progress /\ Moving' = Moving /\ First' = First
           /\ LastRegisters => LastRegisters'
        BY <1>1, <1>3, <2>9, HostSteps
    <2>11. \A cmd, l : Expected(cmd, host.req.unit, l)' = Expected(cmd, host.req.unit, l)
      <3>1. host.req.unit \in Units
          BY <1>2 DEF HostSet, Regs
      <3> QED
          BY <1>1, <1>2, <2>9, <2>10, <3>1, ExpectedSame
    <2>12. ASSUME NEW n, NEW e, Given(n, e)
           PROVE  Given(n, e)'
      <3>1. host.req.cmd \in Reads \cup {"IDENTIFY"} /\ pc = "in"
          BY <2>1, <2>12 DEF Given, Reads, Writes
      <3>2. e = host.done + b
          BY <1>1, <2>2, <2>12 DEF Given
      <3>3. (arm.pc = "read" /\ IsFile(arm.unit))' <=> (arm.pc = "read" /\ IsFile(arm.unit))
          BY <1>1 DEF IsFile, TypeOf
      <3>4. \A j : Expected(host.req.cmd, host.req.unit, First + (host.done + j - 1))'
                    = Expected(host.req.cmd, host.req.unit, First + (host.done + j - 1))
        <4>1. SUFFICES ASSUME NEW j
                       PROVE  Expected(host.req.cmd, host.req.unit, First + (host.done + j - 1))'
                    = Expected(host.req.cmd, host.req.unit, First + (host.done + j - 1))
            OBVIOUS
        <4>2. PICK l : l = First + (host.done + j - 1)
            OBVIOUS
        <4>3. Expected(host.req.cmd, host.req.unit, First + (host.done + j - 1))'
                = Expected(host.req.cmd, host.req.unit, l)'
            BY <2>9, <2>10, <4>2 DEF Expected, Synthesized, Place
        <4> QED
            BY <2>9, <2>11, <4>2, <4>3
      <3> QED
          BY <1>3, <2>7, <2>9, <2>10, <2>12, <3>1, <3>2, <3>3, <3>4 DEF Given
    <2>13. ASSUME NEW p, NEW e, Asked(p, e)
           PROVE  Asked(p, e)'
      <3>1. host.req.cmd \in Writes /\ pc = "out"
          BY <2>1, <2>13 DEF Asked
      <3>2. e = host.done + b
          BY <1>1, <2>2, <2>13 DEF Asked
      <3> QED
          BY <1>3, <2>7, <2>9, <2>10, <2>13, <3>1, <3>2 DEF Asked
    <2>14. ~Engaged => /\ arm.pc # "store"
                       /\ Given(Moving, Moving)'
                       /\ host'.req.cmd = "READ" => LastRegisters'
      <3>1. SUFFICES ASSUME ~Engaged
                     PROVE  /\ arm.pc # "store"
                            /\ Given(Moving, Moving)'
                            /\ host'.req.cmd = "READ" => LastRegisters'
          OBVIOUS
      <3>2. arm.pc # "store" /\ Given(m, m) /\ (host.req.cmd = "READ" => LastRegisters)
          BY <1>4, <2>5, <3>1 DEF IInv, BusInv
      <3>3. Given(m, m)'
          BY <2>12, <3>2
      <3>4. Moving' = m
          BY <1>4, <2>10
      <3> QED
          BY <2>9, <2>10, <3>2, <3>3, <3>4 DEF Given
    <2>15. BusInv'
        BY <1>1, <1>3, <2>10, <2>12, <2>13, <2>14, BusKept
    <2>16. DoneInv'
      <3>1. host'.pc # "idle"
          BY <2>1, <2>9
      <3>2. ASSUME host.req.cmd \in Reads, NEW i \in 1 .. Len(host.got)
            PROVE  (host.got[i] = Expected(host.req.cmd, host.req.unit, First + (i - 1)))'
        <4>1. host.got[i] = Expected(host.req.cmd, host.req.unit, First + (i - 1))
            BY <3>2 DEF IInv, DoneInv
        <4>2. PICK l : l = First + (i - 1)
            OBVIOUS
        <4>3. Expected(host.req.cmd, host.req.unit, First + (i - 1))'
                = Expected(host.req.cmd, host.req.unit, l)'
            BY <2>9, <2>10, <4>2 DEF Expected, Synthesized, Place
        <4> QED
            BY <2>9, <2>11, <4>1, <4>2, <4>3
      <3> QED
          BY <2>9, <3>1, <3>2 DEF DoneInv
    <2>17. StoreInv'
        BY <1>1, <1>3, StoreStays
    <2>18. TypeInv'
        BY <1>1, <1>2, <1>3, <2>9, <2>10 DEF TypeInv
    <2> QED
        BY <2>10, <2>15, <2>16, <2>17, <2>18 DEF IInv
  <1> QED
      BY <1>5, <1>6

(* A sector waits for the Amiga, which is in the middle of a block of a    *)
(* read. *)
LEMMA HostGiven == ASSUME IInv, host.pc = "in", gayle.fifo # <<>>
    PROVE  /\ \E n, e : Given(n, e)
           /\ \A p, e : ~Asked(p, e)
           /\ arm.pc \notin WriteSteps
           /\ Engaged => gayle.busy /\ host.done + 1 < Moving
           /\ ~Engaged => /\ arm.pc # "store" /\ Given(Moving, Moving)
                          /\ host.req.cmd = "READ" => LastRegisters
PROOF
  <1>1. ~Rest /\ ~Fresh /\ ~Over
      BY DEF Rest, Fresh, Over
  <1>2. \A p, e : ~Asked(p, e)
      BY DEF Asked
  <1>3. CASE ~Engaged
    <2>1. /\ arm.pc # "store" /\ Given(Moving, Moving)
          /\ host.req.cmd = "READ" => LastRegisters
        BY <1>1, <1>3 DEF IInv, BusInv
    <2>2. arm.pc # "wwait"
        BY <1>3 DEF Engaged, Late, Behind
    <2> QED
        BY <1>2, <1>3, <2>1, <2>2 DEF WriteSteps
  <1>4. CASE Engaged
    <2>1. arm \in ArmSet /\ arm.left \in Nat
        BY <1>4, Serving
    <2>2. arm.pc \notin WriteSteps
      <3>1. arm.pc = "store" => arm.cmd = "WRITEM" \/ (arm.cmd = "WRITE" /\ arm.left > 0)
          BY <1>4, <2>1 DEF Engaged, Late, IInv, ArmPlace, Writes, WriteSteps
      <3> QED
          BY <1>2, <3>1 DEF IInv, BusInv, WriteSteps
    <2>3. arm.pc \in ReadSteps \cup MultipleSteps
        BY <2>1, <2>2 DEF ArmSet
    <2>4. arm.left >= 1
        BY <1>4, <2>1, <2>2 DEF Engaged, Behind, IInv, ArmPlace, WriteSteps
    <2>5. /\ gayle.busy /\ gayle \in GayleSet /\ Progress \in 0 .. Moving - 1
          /\ host.done \in Nat /\ host.done + Len(gayle.fifo) = Progress
        BY <2>3, <2>4, Reading
    <2>6. \E n, e : Given(n, e)
        BY <2>1, <2>3, <2>4 DEF IInv, BusInv, ReadSteps, MultipleSteps
    <2>7. Len(gayle.fifo) \in Nat \ {0}
        BY <2>5, TailSector DEF GayleSet
    <2>8. Moving \in Nat
        BY <1>4, Serving
    <2>9. host.done + 1 < Moving
        BY <2>5, <2>7, <2>8
    <2> QED
        BY <1>2, <1>4, <2>2, <2>5, <2>6, <2>9
  <1> QED
      BY <1>3, <1>4

(* The Amiga takes a sector: the numbers. *)
LEMMA HostTakes == ASSUME IInv, HostRead
    PROVE  /\ host.pc = "in" /\ gayle.fifo # <<>> /\ gayle.pio_in
           /\ arm' = arm /\ hdf' = hdf /\ card' = card /\ image' = image
           /\ gayle' \in GayleSet /\ gayle'.tfr = gayle.tfr
           /\ ~gayle'.intreq /\ ~gayle'.pio_out
           /\ gayle'.fifo = Tail(gayle.fifo)
           /\ gayle'.busy <=> gayle.busy /\ host.done + 1 # Moving
           /\ gayle'.pio_in <=>
                (gayle.busy /\ host.done + 1 # Moving) \/ gayle'.fifo # <<>>
           /\ host.done + 1 # Moving => gayle'.sector_count \in
                {Moving - (host.done + 1), Moving - (host.done + 1) - CountMod}
           /\ host' \in HostSet /\ host'.req = host.req
           /\ host'.pc = IF host.done + 1 = Moving THEN "idle"
                         ELSE IF host.blk = 1 THEN "irq" ELSE "in"
           /\ host'.done = host.done + 1 /\ host'.blk = host.blk - 1
           /\ host'.got = Append(host.got, Head(gayle.fifo))
PROOF
  <1>1. /\ host.pc = "in" /\ gayle.fifo # <<>> /\ gayle' = ReadSector(gayle)
        /\ arm' = arm /\ hdf' = hdf /\ card' = card /\ image' = image
      BY DEF HostRead, full
  <1>2. TypeInv /\ gayle \in GayleSet /\ host \in HostSet /\ host.done \in Nat
      BY DEF IInv, TypeInv, HostSet
  <1>3. PICK n, e : Given(n, e)
      BY <1>1, HostGiven
  <1>4. /\ gayle.pio_in /\ ~gayle.pio_out /\ ~gayle.intreq
        /\ host.done < Moving /\ host.blk >= 1
        /\ gayle.sector_count \in {Moving - host.done, Moving - host.done - CountMod}
      BY <1>1, <1>3 DEF Given
  <1>5. /\ gayle' \in GayleSet /\ gayle'.tfr = gayle.tfr
        /\ gayle'.intreq = gayle.intreq /\ gayle'.pio_out = gayle.pio_out
        /\ gayle'.fifo = Tail(gayle.fifo)
        /\ gayle'.busy <=> gayle.busy /\ gayle.sector_count # 1
        /\ gayle'.pio_in <=>
             (gayle.busy /\ gayle.sector_count # 1) \/ gayle'.fifo # <<>>
        /\ gayle.sector_count >= 1 => gayle'.sector_count = gayle.sector_count - 1
        /\ gayle.sector_count = 0 => gayle'.sector_count = CountMod - 1
      BY <1>1, <1>2, <1>4, SectorRead
  <1>6. /\ gayle.sector_count # 1 <=> host.done + 1 # Moving
        /\ host.done + 1 # Moving => gayle'.sector_count \in
             {Moving - (host.done + 1), Moving - (host.done + 1) - CountMod}
    <2>1. CountMod \in Nat \ {0, 1} /\ Moving \in 0 .. CountMod
        BY <1>2, Numbers DEF IInv
    <2>2. PICK c \in Nat, m \in Nat, d \in Nat : c = CountMod /\ m = Moving /\ d = host.done
        BY <1>2, <2>1
    <2>3. c >= 2 /\ m <= c /\ d < m
        BY <1>4, <2>1, <2>2
    <2>4. PICK s \in 0 .. c - 1 : s = gayle.sector_count
        BY <1>2, <2>2 DEF GayleSet
    <2>5. s = m - d \/ s = m - d - c
        BY <1>4, <2>2, <2>4
    <2>6. s >= 1 => gayle'.sector_count = s - 1
        BY <1>5, <2>4
    <2>7. s = 0 => gayle'.sector_count = c - 1
        BY <1>5, <2>2, <2>4
    <2>8. s # 1 <=> d + 1 # m
        BY <2>3, <2>5
    <2>9. d + 1 # m => gayle'.sector_count \in {m - (d + 1), m - (d + 1) - c}
        BY <2>3, <2>5, <2>6, <2>7
    <2> QED
        BY <2>2, <2>4, <2>8, <2>9
  <1>7. /\ host' \in HostSet /\ host'.req = host.req
        /\ host'.pc = IF host.done + 1 = Moving THEN "idle"
                      ELSE IF host.blk = 1 THEN "irq" ELSE "in"
        /\ host'.done = host.done + 1 /\ host'.blk = host.blk - 1
        /\ host'.got = Append(host.got, Head(gayle.fifo))
    <2>1. PICK pc \in {"idle", "irq", "in"} :
             pc = IF host.done + 1 = Moving THEN "idle"
                  ELSE IF host.blk = 1 THEN "irq" ELSE "in"
        OBVIOUS
    <2>2. PICK d \in Nat : d = host.done + 1
        BY <1>2
    <2>3. PICK b \in 0 .. FifoSectors : b = host.blk - 1
        BY <1>2, <1>4, GayleAssumption DEF HostSet
    <2>4. Head(gayle.fifo) \in Contents
        BY <1>1, <1>2, TailSector DEF GayleSet
    <2>5. PICK q \in Seq(Contents) : q = Append(host.got, Head(gayle.fifo))
      <3>1. host.got \in Seq(Contents)
          BY <1>2 DEF HostSet
      <3>2. Append(host.got, Head(gayle.fifo)) \in Seq(Contents)
          BY <2>4, <3>1
      <3> QED
          BY <3>2
    <2>6. host' = [host EXCEPT !.pc = pc, !.done = d, !.blk = b, !.got = q]
        BY <2>1, <2>2, <2>3, <2>5 DEF HostRead
    <2> QED
        BY <1>2, <2>1, <2>2, <2>3, <2>5, <2>6 DEF HostSet
  <1> QED
      BY <1>1, <1>4, <1>5, <1>6, <1>7

(* The sectors that still wait, when the Amiga has taken one of a read     *)
(* that goes on. *)
LEMMA GivenRead ==
    ASSUME IInv, HostRead, NEW n, NEW e, Given(n, e), host.done + 1 < Moving,
           gayle.busy \/ n = Moving
    PROVE  Given(n, e)'
PROOF
  <1>1. /\ host.pc = "in" /\ gayle.fifo # <<>> /\ gayle.pio_in
        /\ arm' = arm /\ hdf' = hdf /\ card' = card /\ image' = image
        /\ gayle' \in GayleSet /\ gayle'.tfr = gayle.tfr
        /\ ~gayle'.intreq /\ ~gayle'.pio_out
        /\ gayle'.fifo = Tail(gayle.fifo)
        /\ host'.req = host.req
        /\ host'.done = host.done + 1 /\ host'.blk = host.blk - 1
        /\ host'.got = Append(host.got, Head(gayle.fifo))
      BY HostTakes
  <1>2. TypeInv /\ gayle.fifo \in Seq(Contents) /\ host.got \in Seq(Contents)
      BY DEF IInv, TypeInv, GayleSet, HostSet
  <1>3. PICK d \in Nat, m \in Nat, k \in Nat, b \in Nat :
           d = host.done /\ m = Moving /\ k = Len(gayle.fifo) /\ b = host.blk
      BY <1>2, Numbers DEF IInv, TypeInv, HostSet
  <1>4. d + 1 < m /\ d + k = n /\ b >= 1 /\ e = d + b /\ k >= 1
      BY <1>1, <1>2, <1>3, TailSector DEF Given
  <1>5. host'.pc = IF host.blk = 1 THEN "irq" ELSE "in"
    <2>1. host.done + 1 # Moving
        BY <1>3, <1>4
    <2> QED
        BY <2>1, HostTakes
  <1>6. gayle'.sector_count \in
          {Moving - (host.done + 1), Moving - (host.done + 1) - CountMod}
      BY <1>3, <1>4, HostTakes
  <1>7. Same /\ Moving' = Moving /\ First' = First
      BY <1>1, HostSteps DEF IInv
  <1>8. Len(gayle'.fifo) = k - 1 /\ \A j \in 1 .. k - 1 : gayle'.fifo[j] = gayle.fifo[j + 1]
      BY <1>1, <1>2, <1>3, TailSector
  <1>9. gayle'.pio_in
    <2>1. gayle'.pio_in <=>
            (gayle.busy /\ host.done + 1 # Moving) \/ gayle'.fifo # <<>>
        BY HostTakes
    <2>2. CASE gayle.busy
        BY <1>3, <1>4, <2>1, <2>2
    <2>3. CASE n = Moving
      <3>1. k - 1 # 0
        <4>1. d + 1 < m /\ d + k = m
            BY <1>3, <1>4, <2>3
        <4> QED
            BY <4>1
      <3>2. gayle'.fifo # <<>>
          BY <1>8, <3>1
      <3> QED
          BY <2>1, <3>2
    <2> QED
        BY <2>2, <2>3
  <1>10. /\ host'.done < Moving' /\ host'.done + Len(gayle'.fifo) = n
         /\ host'.pc = "irq" => e = host'.done
         /\ host'.pc = "in" => host'.blk >= 1 /\ e = host'.done + host'.blk
         /\ host'.pc \in {"irq", "in"}
    <2>1. b = 1 => e = d + 1
        BY <1>4
    <2>2. b # 1 => b - 1 >= 1 /\ e = (d + 1) + (b - 1)
        BY <1>3, <1>4
    <2>3. (d + 1) + (k - 1) = n
        BY <1>3, <1>4
    <2> QED
        BY <1>1, <1>3, <1>4, <1>5, <1>7, <1>8, <2>1, <2>2, <2>3
  <1>11. Len(host'.got) = host'.done
    <2>1. Len(host.got) = host.done
        BY DEF Given
    <2>2. Head(gayle.fifo) \in Contents
        BY <1>1, <1>2, TailSector
    <2> QED
        BY <1>1, <1>2, <2>1, <2>2
  <1>12. ASSUME host.req.cmd \in Reads, NEW j \in 1 .. k - 1
         PROVE  (gayle.fifo[j] = Expected(host.req.cmd, host.req.unit,
                                         First + (host.done + j - 1)))'
    <2>1. gayle.fifo[j + 1] = Expected(host.req.cmd, host.req.unit,
                                       First + (host.done + (j + 1) - 1))
      <3>1. j + 1 \in 1 .. Len(gayle.fifo)
          BY <1>3, <1>12
      <3> QED
          BY <1>12, <3>1 DEF Given
    <2>2. (d + 1) + j - 1 = d + (j + 1) - 1
        BY <1>3, <1>12
    <2>3. PICK l : l = First + (d + (j + 1) - 1)
        OBVIOUS
    <2>4. l = (First + (host.done + j - 1))'
        BY <1>1, <1>3, <1>7, <2>2, <2>3
    <2>5. host.req.unit \in Units
        BY <1>2 DEF TypeInv, HostSet, Regs
    <2>6. Expected(host.req.cmd, host.req.unit, l)' = Expected(host.req.cmd, host.req.unit, l)
        BY <1>1, <1>2, <1>7, <2>5, ExpectedSame
    <2>7. Expected(host.req.cmd, host.req.unit, First + (host.done + j - 1))'
            = Expected(host.req.cmd, host.req.unit, l)'
        BY <2>4 DEF Expected, Synthesized, Place
    <2> QED
        BY <1>3, <1>8, <1>12, <2>1, <2>3, <2>6, <2>7
  <1>13. /\ host'.req.cmd \in Reads \cup {"IDENTIFY"}
         /\ gayle'.sector_count \in {Moving' - host'.done, Moving' - host'.done - CountMod}
      BY <1>1, <1>6, <1>7 DEF Given
  <1> QED
      BY <1>1, <1>8, <1>9, <1>10, <1>11, <1>12, <1>13 DEF Given

(* What the Amiga has with one sector more. *)
LEMMA OneTaken ==
    ASSUME IInv, HostRead, host.req.cmd \in Reads, NEW i \in 1 .. Len(host'.got)
    PROVE  (host.got[i] = Expected(host.req.cmd, host.req.unit, First + (i - 1)))'
PROOF
  <1>1. /\ host.pc = "in" /\ gayle.fifo # <<>>
        /\ arm' = arm /\ hdf' = hdf /\ image' = image /\ gayle'.tfr = gayle.tfr
        /\ host'.req = host.req
        /\ host'.got = Append(host.got, Head(gayle.fifo))
      BY HostTakes
  <1>2. TypeInv /\ gayle.fifo \in Seq(Contents) /\ host.got \in Seq(Contents)
        /\ host.req.unit \in Units
      BY DEF IInv, TypeInv, GayleSet, HostSet, Regs
  <1>3. Same /\ First' = First
      BY <1>1, HostSteps DEF IInv
  <1>4. PICK n, e : Given(n, e)
      BY <1>1, HostGiven
  <1>5. PICK g \in Nat : g = Len(host.got)
      BY <1>2
  <1>6. PICK x \in Contents : x = Head(gayle.fifo) /\ x = gayle.fifo[1]
      BY <1>1, <1>2, TailSector
  <1>7. Len(host'.got) = g + 1 /\ host'.got[g + 1] = x
        /\ \A j \in 1 .. g : host'.got[j] = host.got[j]
      BY <1>1, <1>2, <1>5, <1>6
  <1>8. PICK l : l = First + (i - 1)
      OBVIOUS
  <1>9. host'.got[i] = Expected(host.req.cmd, host.req.unit, l)
    <2>1. CASE i \in 1 .. g
        BY <1>5, <1>7, <1>8, <2>1 DEF IInv, DoneInv
    <2>2. CASE i = g + 1
      <3>1. Len(gayle.fifo) \in Nat \ {0}
          BY <1>1, <1>2, TailSector
      <3>2. 1 \in 1 .. Len(gayle.fifo)
          BY <3>1
      <3>3. x = Expected(host.req.cmd, host.req.unit, First + (host.done + 1 - 1))
          BY <1>4, <1>6, <3>2 DEF Given
      <3>4. host.done = g /\ host.done + 1 - 1 = i - 1
        <4>1. host.done = g
            BY <1>4, <1>5 DEF Given
        <4> QED
            BY <1>5, <2>2, <4>1
      <3> QED
          BY <1>7, <1>8, <2>2, <3>3, <3>4
    <2>3. i \in 1 .. g + 1
        BY <1>7
    <2> QED
        BY <1>5, <2>1, <2>2, <2>3
  <1>10. Expected(host.req.cmd, host.req.unit, l)' = Expected(host.req.cmd, host.req.unit, l)
      BY <1>1, <1>2, <1>3, ExpectedSame
  <1>11. Expected(host.req.cmd, host.req.unit, First + (i - 1))'
           = Expected(host.req.cmd, host.req.unit, l)'
      BY <1>3, <1>8 DEF Expected, Synthesized, Place
  <1> QED
      BY <1>9, <1>10, <1>11

(* HostRead. *)
LEMMA HostReadKeeps == ASSUME IInv, HostRead
    PROVE  IInv'
PROOF
  <1>1. /\ host.pc = "in" /\ gayle.fifo # <<>>
        /\ arm' = arm /\ hdf' = hdf /\ card' = card /\ image' = image
        /\ gayle' \in GayleSet /\ gayle'.tfr = gayle.tfr
        /\ ~gayle'.intreq /\ ~gayle'.pio_out
        /\ host' \in HostSet /\ host'.req = host.req
        /\ host'.done = host.done + 1
      BY HostTakes
  <1>2. TypeInv /\ gayle \in GayleSet /\ host \in HostSet
      BY DEF IInv, TypeInv
  <1>3. /\ Same /\ hdf' \in Disks /\ FilesInv' /\ RequestInv' /\ ArmPlace' /\ ArmServes'
        /\ Progress' = Progress /\ Moving' = Moving /\ First' = First
        /\ LastRegisters => LastRegisters'
      BY <1>1, HostSteps
  <1>4. PICK n, e : Given(n, e)
      BY <1>1, HostGiven
  <1>5. PICK d \in Nat, m \in Nat : d = host.done /\ m = Moving /\ d < m
      BY <1>2, <1>4, Numbers DEF IInv, HostSet, Given
  <1>6. /\ \A p, f : ~Asked(p, f)
        /\ arm.pc \notin WriteSteps
        /\ Engaged => gayle.busy /\ host.done + 1 < Moving
        /\ ~Engaged => /\ arm.pc # "store" /\ Given(Moving, Moving)
                       /\ host.req.cmd = "READ" => LastRegisters
      BY <1>1, HostGiven
  <1>7. ~Engaged' <=> ~Engaged
      BY <1>1 DEF Engaged, Late, Behind
  <1>8. ~Engaged => \/ Rest' \/ Fresh' \/ Over'
                    \/ /\ arm.pc # "store"
                       /\ Given(Moving, Moving)'
                       /\ host'.req.cmd = "READ" => LastRegisters'
    <2>1. SUFFICES ASSUME ~Engaged
                   PROVE  Rest' \/ (/\ arm.pc # "store"
                                    /\ Given(Moving, Moving)'
                                    /\ host'.req.cmd = "READ" => LastRegisters')
        OBVIOUS
    <2>2. CASE d + 1 = m
      <3>1. gayle.fifo \in Seq(Contents) /\ Len(gayle.fifo) = 1
        <4>1. gayle.fifo \in Seq(Contents)
            BY <1>2 DEF GayleSet
        <4>2. PICK k \in Nat : k = Len(gayle.fifo)
            BY <4>1
        <4>3. d + k = m
            BY <1>5, <1>6, <2>1, <4>2 DEF Given
        <4>4. k = 1
            BY <2>2, <4>3
        <4> QED
            BY <4>1, <4>2, <4>4
      <3>2. gayle'.fifo = <<>>
          BY <1>1, <3>1, TailSector, HostTakes
      <3>3. host'.pc = "idle"
          BY <1>5, <2>2, HostTakes
      <3>4. ~gayle'.busy /\ ~gayle'.pio_in
          BY <1>5, <2>2, <3>2, HostTakes
      <3> QED
          BY <1>1, <1>7, <2>1, <3>2, <3>3, <3>4 DEF Rest
    <2>3. CASE d + 1 # m
      <3>1. Given(m, m)
          BY <1>5, <1>6, <2>1
      <3>2. host.done + 1 < Moving
          BY <1>5, <2>3
      <3>3. Given(m, m)'
          BY <1>5, <3>1, <3>2, GivenRead
      <3>4. Moving' = m
          BY <1>3, <1>5
      <3> QED
          BY <1>1, <1>3, <1>6, <2>1, <3>3, <3>4 DEF Given
    <2> QED
        BY <2>2, <2>3
  <1>9. BusInv'
    <2>1. Engaged => gayle'.busy = gayle.busy
      <3>1. gayle'.busy <=> gayle.busy /\ host.done + 1 # Moving
          BY HostTakes
      <3>2. gayle'.busy \in BOOLEAN /\ gayle.busy \in BOOLEAN
          BY <1>1, <1>2 DEF GayleSet
      <3>3. Engaged => host.done + 1 # Moving
          BY <1>5, <1>6
      <3> QED
          BY <3>1, <3>2, <3>3
    <2>2. arm.pc = "read" => (gayle'.intreq => gayle'.fifo # <<>>)
        BY <1>1
    <2>3. Engaged => \A k, f : Given(k, f) => Given(k, f)'
        BY <1>6, GivenRead
    <2>4. Engaged => \A p \in Int : \A f : Asked(p, f) => Asked(p, f)'
        BY <1>6
    <2>5. Progress' = Progress
        BY <1>3
    <2> QED
        BY <1>1, <1>8, <2>1, <2>2, <2>3, <2>4, <2>5, BusKept
  <1>10. DoneInv'
    <2>1. ASSUME host'.pc = "idle"
          PROVE  /\ host'.done = Moving'
                 /\ host'.req.cmd \in {"READ"} \cup Writes => LastRegisters'
      <3>1. d + 1 = m
        <4>1. (IF host.done + 1 = Moving THEN "idle"
               ELSE IF host.blk = 1 THEN "irq" ELSE "in") = "idle"
            BY <2>1, HostTakes
        <4> QED
            BY <1>5, <4>1
      <3>2. ~Engaged
          BY <1>5, <1>6, <3>1
      <3>3. host.req.cmd \in Reads \cup {"IDENTIFY"}
          BY <1>4 DEF Given
      <3> QED
          BY <1>1, <1>3, <1>5, <1>6, <3>1, <3>2, <3>3 DEF Reads, Writes
    <2>2. ASSUME host'.req.cmd \in Reads, NEW i \in 1 .. Len(host'.got)
          PROVE  (host.got[i] = Expected(host.req.cmd, host.req.unit, First + (i - 1)))'
        BY <1>1, <2>2, OneTaken
    <2> QED
        BY <2>1, <2>2 DEF DoneInv
  <1>11. StoreInv'
    <2>1. card = image
        BY <1>2, <1>6, StoreQuiet DEF IInv
    <2> QED
        BY <1>1, <1>6, <2>1, StoreQuietNext
  <1>12. TypeInv'
      BY <1>1, <1>2, <1>3 DEF TypeInv
  <1> QED
      BY <1>3, <1>9, <1>10, <1>11, <1>12 DEF IInv

(* The Amiga sends a sector only when the ARM has asked for it: the guard  *)
(* of its first sector keeps a command that is not found yet waiting.      *)
LEMMA HostAsked == ASSUME IInv, NEW v, HostWrite(v)
    PROVE  /\ Engaged /\ arm.pc \in WriteSteps
           /\ \E e : Asked(Progress, e)
           /\ \A n, e : ~Given(n, e)
PROOF
  <1>1. /\ host.pc = "out"
        /\ host.blk = Block(host.req.cmd, Moving - host.done, host.req.unit)
             => drq(gayle)
      BY DEF HostWrite
  <1>2. \A n, e : ~Given(n, e)
      BY <1>1 DEF Given
  <1>3. ~Rest /\ ~Over
      BY <1>1 DEF Rest, Over
  <1>4. ~Fresh
    <2>1. SUFFICES ASSUME Fresh
                   PROVE  FALSE
        OBVIOUS
    <2>2. /\ gayle.fifo = <<>> /\ ~gayle.pio_in /\ ~gayle.pio_out
          /\ host.done = 0
          /\ host.req.cmd \in Writes =>
               host.blk = Block(host.req.cmd, Moving, host.req.unit)
          /\ host.req.cmd \notin Writes => host.pc = "irq"
        BY <2>1 DEF Fresh
    <2>3. ~drq(gayle)
        BY <2>2 DEF drq, full
    <2>4. PICK m \in Nat : m = Moving
        BY Numbers DEF IInv
    <2>5. m - 0 = m
        OBVIOUS
    <2> QED
        BY <1>1, <2>2, <2>3, <2>4, <2>5
  <1>5. Engaged
      BY <1>2, <1>3, <1>4 DEF IInv, BusInv
  <1>6. arm \in ArmSet /\ arm.left \in Nat
      BY <1>5, Serving
  <1>7. arm.pc \in WriteSteps
    <2>1. arm.pc # "mtask"
        BY <1>2, <1>5, <1>6 DEF Engaged, Behind, IInv, BusInv
    <2> QED
        BY <1>2, <1>6, <2>1 DEF IInv, BusInv, ArmSet, ReadSteps, MultipleSteps
  <1>8. arm.pc = "store" => arm.cmd = "WRITEM" \/ (arm.cmd = "WRITE" /\ arm.left > 0)
      BY <1>5, <1>6 DEF Engaged, Late, IInv, ArmPlace, Writes, WriteSteps
  <1>9. \E e : Asked(Progress, e)
      BY <1>7, <1>8 DEF IInv, BusInv, WriteSteps
  <1> QED
      BY <1>2, <1>5, <1>7, <1>9

(* The sectors that are on their way are those the ARM has not stored: the *)
(* next one is the one the Amiga has come to.                              *)
LEMMA NextSent == ASSUME IInv, NEW v, HostWrite(v)
    PROVE  /\ QLen \in Nat
           /\ arm.lba + QLen = Base + host.done
           /\ host.done \in Nat /\ host.done < Moving
PROOF
  <1>1. Engaged /\ arm.pc \in WriteSteps
      BY HostAsked
  <1>2. PICK e : Asked(Progress, e)
      BY HostAsked
  <1>3. gayle.fifo \in Seq(Contents) /\ host \in HostSet
      BY DEF IInv, TypeInv, GayleSet
  <1>4. PICK m \in Nat, n \in Nat, k \in Nat, d \in Nat, b \in Nat, c \in Int, l \in Int :
           /\ m = Moving /\ n = Progress /\ k = Len(gayle.fifo) /\ d = host.done
           /\ b = host.blk /\ c = Base /\ l = arm.lba
    <2>1. Progress \in Nat /\ Moving \in Nat /\ Base \in Int /\ arm.lba \in Int
        BY <1>1, Serving
    <2>2. Len(gayle.fifo) \in Nat
        BY <1>3
    <2>3. host.done \in Nat /\ host.blk \in Nat
        BY <1>3, GayleAssumption DEF HostSet
    <2> QED
        BY <2>1, <2>2, <2>3
  <1>5. d = n + k
      BY <1>2, <1>4 DEF Asked
  <1>6. d < m
    <2>1. host.pc = "out"
        BY DEF HostWrite
    <2>2. e <= m /\ b >= 1 /\ e = d + b
        BY <1>2, <1>4, <2>1 DEF Asked
    <2> QED
        BY <2>2
  <1>7. CASE arm.pc = "wwait"
    <2>1. QLen = k
        BY <1>4, <1>7 DEF QLen
    <2>2. l = c + n
        BY <1>1, <1>4, <1>7, Serving
    <2>3. l + k = c + d
        BY <1>5, <2>2
    <2> QED
        BY <1>4, <1>6, <2>1, <2>3
  <1>8. CASE arm.pc = "store"
    <2>1. QLen = k + 1
        BY <1>4, <1>8 DEF QLen
    <2>2. l = c + n - 1
        BY <1>1, <1>4, <1>8, Serving
    <2>3. l + (k + 1) = c + d
        BY <1>5, <2>2
    <2> QED
        BY <1>4, <1>6, <2>1, <2>3
  <1> QED
      BY <1>1, <1>7, <1>8 DEF WriteSteps

(* Where that sector goes. *)
LEMMA PlaceSent == ASSUME IInv, NEW v, HostWrite(v)
    PROVE  /\ Synthesized(host.req.unit, Address(host.done)) <=>
                IsFile(arm.unit) /\ arm.lba + QLen < 0
           /\ ~Synthesized(host.req.unit, Address(host.done)) =>
                /\ Place(host.req.unit, Address(host.done)) = At(arm.unit, arm.lba + QLen)
                /\ At(arm.unit, arm.lba + QLen) \in CardSectors
PROOF
  <1>1. Engaged
      BY HostAsked
  <1>2. PICK u \in Units : u = arm.unit /\ u = host.req.unit
      BY <1>1, Serving
  <1>3. PICK t \in Types : t = TypeOf(u)
      BY <1>1, <1>2, Serving
  <1>4. PICK m \in Nat, d \in Nat, f \in Nat, o \in Int, l \in Int, s \in Int :
           /\ m = Moving /\ d = host.done /\ f = First /\ o = offset(t)
           /\ l = arm.lba + QLen /\ s = Span(t)
           /\ l = f + o + d /\ d < m /\ f + m <= Capacity(t) /\ s = Capacity(t) + o
    <2>1. Span(t) \in Int /\ Span(t) = Capacity(t) + offset(t) /\ offset(t) \in Int
        BY GeometryTypes DEF Span
    <2>2. /\ Moving \in Nat /\ First \in Nat /\ Base \in Int
          /\ First + Moving <= Capacity(t) /\ Base = First + offset(t)
        BY <1>1, <1>2, <1>3, Serving, Numbers DEF IInv
    <2>3. /\ QLen \in Nat /\ arm.lba + QLen = Base + host.done
          /\ host.done \in Nat /\ host.done < Moving
        BY NextSent
    <2>4. arm.lba + QLen \in Int
        BY <2>2, <2>3
    <2> QED
        BY <2>1, <2>2, <2>3, <2>4
  <1>5. PICK c \in Nat : c = Capacity(t)
      BY GeometryTypes
  <1>6. Address(host.done) = f + d
    <2>1. PICK x \in Int : x = chs2lba(t, host.req.pos)
      <3>1. host.req.pos \in Positions(t)
          BY <1>1, <1>2, <1>3, Serving DEF IInv, RequestInv
      <3> QED
          BY <3>1, AddressTypes
    <2>2. f = x
        BY <1>2, <1>3, <1>4, <2>1 DEF First, Address
    <2> QED
        BY <1>2, <1>3, <1>4, <2>1, <2>2 DEF Address
  <1>7. l < s /\ l = (f + d) + o
      BY <1>4, <1>5
  <1>8. CASE IsFile(u)
    <2>1. t # "card"
        BY <1>3, <1>8 DEF IsFile
    <2>2. t = "file" => o = 0
        BY <1>4, GeometryTypes
    <2>3. Synthesized(u, f + d) <=> l < 0
      <3>1. CASE t = "synth"
          BY <1>3, <1>4, <1>7, <3>1 DEF Synthesized
      <3>2. CASE t # "synth"
        <4>1. t = "file"
            BY <2>1, <3>2 DEF Types
        <4>2. l >= 0
            BY <1>4, <1>7, <2>2, <4>1
        <4>3. ~Synthesized(u, f + d)
            BY <1>3, <3>2 DEF Synthesized
        <4> QED
            BY <4>2, <4>3
      <3> QED
          BY <3>1, <3>2
    <2>4. Place(u, f + d) = FilePlace[l] /\ At(u, l) = FilePlace[l]
        BY <1>3, <1>4, <1>7, <1>8, <2>1 DEF Place, At
    <2>5. l >= 0 => FilePlace[l] \in CardSectors
      <3>1. s <= FileSize /\ FileSize \in Nat
          BY <1>4, <2>1, GeometryTypes, HardDiskAssumption
      <3>2. l >= 0 => l \in 0 .. FileSize - 1
          BY <1>4, <1>7, <3>1
      <3> QED
          BY <3>2, ChainProperties
    <2> QED
        BY <1>2, <1>4, <1>6, <1>8, <2>3, <2>4, <2>5
  <1>9. CASE ~IsFile(u)
    <2>1. t = "card"
        BY <1>3, <1>9 DEF IsFile, Types
    <2>2. ~Synthesized(u, f + d)
        BY <1>3, <2>1 DEF Synthesized
    <2>3. /\ o = PartStart /\ c <= PartSize
          /\ PartStart \in Nat /\ PartSize \in Nat /\ CardSize \in Nat
          /\ PartStart + PartSize <= CardSize
        BY <1>4, <1>5, <2>1, GeometryTypes, HardDiskAssumption
    <2>4. Place(u, f + d) = l /\ At(u, l) = l
        BY <1>3, <1>4, <1>7, <1>9, <2>1, <2>3 DEF Place, At
    <2>5. l \in 0 .. CardSize - 1
      <3>1. f + m <= c /\ d < m
          BY <1>4, <1>5
      <3> QED
          BY <1>7, <2>3, <3>1
    <2> QED
        BY <1>2, <1>4, <1>6, <1>9, <2>2, <2>4, <2>5 DEF CardSectors
  <1> QED
      BY <1>8, <1>9

(* One more sector is on its way. *)
LEMMA SectorSent ==
    ASSUME TypeInv, StoreInv, arm' = arm, hdf' = hdf, card' = card,
           arm.lba \in Int, NEW q \in Nat, QLen = q, QLen' = q + 1,
           \A j \in 0 .. q - 1 : QVal(j)' = QVal(j),
           NEW v, \A j : j = q => QVal(j)' = v,
           IsFile(arm.unit) /\ arm.lba + q < 0 => image' = image,
           ~(IsFile(arm.unit) /\ arm.lba + q < 0) =>
             /\ At(arm.unit, arm.lba + q) \in CardSectors
             /\ image' = [image EXCEPT ![At(arm.unit, arm.lba + q)] = v]
    PROVE  StoreInv'
PROOF
  <1>1. /\ IsFile(arm.unit)' <=> IsFile(arm.unit)
        /\ \A l : At(arm.unit, l)' = At(arm.unit, l)
      BY DEF IsFile, TypeOf, At
  <1>2. ASSUME NEW s
        PROVE  Hits(s)' = {j \in 0 .. q :
                              /\ IsFile(arm.unit) => arm.lba + j >= 0
                              /\ At(arm.unit, arm.lba + j) = s}
    <2>1. (q + 1) - 1 = q
        OBVIOUS
    <2> QED
        BY <1>1, <2>1 DEF Hits
  <1>3. \A s : Hits(s) = {j \in 0 .. q - 1 :
                              /\ IsFile(arm.unit) => arm.lba + j >= 0
                              /\ At(arm.unit, arm.lba + j) = s}
      BY DEF Hits
  <1>4. image \in Images
      BY DEF TypeInv
  <1> SUFFICES ASSUME NEW s \in CardSectors
               PROVE  /\ Hits(s)' = {} => image'[s] = card[s]
                      /\ \A j \in Hits(s)' :
                            (\A k \in Hits(s)' : k <= j) => image'[s] = QVal(j)'
      BY DEF StoreInv
  <1>5. /\ Hits(s) = {} => image[s] = card[s]
        /\ \A j \in Hits(s) : (\A k \in Hits(s) : k <= j) => image[s] = QVal(j)
      BY DEF StoreInv
  <1>6. CASE q \notin Hits(s)'
    <2>1. Hits(s)' = Hits(s)
      <3>1. \A j : j \in 0 .. q <=> j \in 0 .. q - 1 \/ j = q
          OBVIOUS
      <3>2. Hits(s)' \subseteq 0 .. q - 1
          BY <1>2, <1>6, <3>1
      <3> QED
          BY <1>2, <1>3, <3>1, <3>2
    <2>2. image'[s] = image[s]
      <3>1. CASE IsFile(arm.unit) /\ arm.lba + q < 0
          BY <3>1
      <3>2. CASE ~(IsFile(arm.unit) /\ arm.lba + q < 0)
        <4>1. IsFile(arm.unit) => arm.lba + q >= 0
            BY <3>2
        <4>2. At(arm.unit, arm.lba + q) # s
            BY <1>2, <1>6, <4>1
        <4> QED
            BY <1>4, <3>2, <4>2 DEF Images
      <3> QED
          BY <3>1, <3>2
    <2>3. Hits(s) \subseteq 0 .. q - 1
        BY <1>3
    <2> QED
        BY <1>5, <2>1, <2>2, <2>3
  <1>7. CASE q \in Hits(s)'
    <2>1. /\ IsFile(arm.unit) => arm.lba + q >= 0
          /\ At(arm.unit, arm.lba + q) = s
        BY <1>2, <1>7
    <2>2. ~(IsFile(arm.unit) /\ arm.lba + q < 0)
        BY <2>1
    <2>3. image'[s] = v
        BY <1>4, <2>1, <2>2 DEF Images
    <2>4. ASSUME NEW j \in Hits(s)', \A k \in Hits(s)' : k <= j
          PROVE  j = q
      <3>1. j \in 0 .. q /\ q <= j
          BY <1>2, <1>7, <2>4
      <3> QED
          BY <3>1
    <2> QED
        BY <1>7, <2>3, <2>4
  <1> QED
      BY <1>6, <1>7

(* HostWrite. *)
LEMMA HostWriteKeeps == ASSUME IInv, NEW v \in NewData, HostWrite(v)
    PROVE  IInv'
PROOF
  <1>1. /\ host.pc = "out" /\ gayle' = WriteSector(gayle, Stored(v))
        /\ image' = IF Synthesized(host.req.unit, Address(host.done)) THEN image
                    ELSE [image EXCEPT ![Place(host.req.unit, Address(host.done))] = v]
        /\ arm' = arm /\ hdf' = hdf /\ card' = card
      BY DEF HostWrite
  <1>2. TypeInv /\ gayle \in GayleSet /\ host \in HostSet /\ v \in Int
      BY HardDiskAssumption DEF IInv, TypeInv
  <1>3. /\ Engaged /\ arm.pc \in WriteSteps /\ \A n, e : ~Given(n, e)
      BY HostAsked
  <1>4. PICK f : Asked(Progress, f)
      BY HostAsked
  <1>5. /\ host.req.cmd \in Writes /\ ~gayle.intreq /\ host.blk >= 1
        /\ gayle.busy /\ ~gayle.pio_in /\ gayle.pio_out
      BY <1>1, <1>4 DEF Asked
  <1>6. PICK q \in Seq(Contents), k \in Nat : q = gayle.fifo /\ k = Len(q)
      BY <1>2 DEF GayleSet
  <1>7. /\ gayle' \in GayleSet /\ Len(gayle'.fifo) = k + 1
        /\ \A j \in 1 .. k : gayle'.fifo[j] = gayle.fifo[j]
        /\ gayle'.fifo[k + 1] = Stored(v)
        /\ gayle'.busy = gayle.busy /\ gayle'.intreq = gayle.intreq
        /\ gayle'.pio_in = gayle.pio_in /\ gayle'.pio_out = gayle.pio_out
        /\ gayle'.tfr = gayle.tfr
    <2>1. Stored(v) \in Contents
        BY <1>2, SectorContents
    <2> QED
        BY <1>1, <1>2, <1>6, <2>1, SectorWritten
  <1>8. /\ host' \in HostSet /\ host'.req = host.req
        /\ host'.pc = IF host.blk = 1 THEN "irq" ELSE "out"
        /\ host'.done = host.done + 1 /\ host'.blk = host.blk - 1
        /\ host'.got = host.got
    <2>1. PICK pc \in {"irq", "out"} : pc = IF host.blk = 1 THEN "irq" ELSE "out"
        OBVIOUS
    <2>2. PICK d \in Nat : d = host.done + 1
        BY <1>2 DEF HostSet
    <2>3. PICK b \in 0 .. FifoSectors : b = host.blk - 1
        BY <1>2, <1>5, GayleAssumption DEF HostSet
    <2>4. host' = [host EXCEPT !.pc = pc, !.done = d, !.blk = b]
        BY <2>1, <2>2, <2>3 DEF HostWrite
    <2> QED
        BY <1>2, <2>1, <2>2, <2>3, <2>4 DEF HostSet
  <1>9. /\ Same /\ hdf' \in Disks /\ FilesInv' /\ RequestInv' /\ ArmPlace' /\ ArmServes'
        /\ Progress' = Progress /\ Moving' = Moving /\ First' = First
      BY <1>1, <1>7, <1>8, HostSteps
  <1>10. ASSUME NEW p \in Int, NEW e, Asked(p, e)
         PROVE  Asked(p, e)'
    <2>1. PICK d \in Nat, b \in Nat : d = host.done /\ b = host.blk /\ b >= 1
        BY <1>2, <1>5, GayleAssumption DEF HostSet
    <2>2. d = p + k /\ e = d + b /\ e <= Moving
        BY <1>1, <1>6, <1>10, <2>1 DEF Asked
    <2>4. d + 1 = p + (k + 1)
        BY <2>2
    <2>5. /\ host'.pc = "irq" => host'.done = e
          /\ host'.pc = "out" => host'.blk >= 1 /\ e = host'.done + host'.blk
          /\ host'.pc \in {"irq", "out"}
      <3>1. b = 1 => e = d + 1
          BY <2>2
      <3>2. b # 1 => b - 1 >= 1 /\ e = (d + 1) + (b - 1)
          BY <2>1, <2>2
      <3> QED
          BY <1>8, <2>1, <3>1, <3>2
    <2>6. \A i \in 1 .. Len(gayle'.fifo) : gayle'.fifo[i].kind = "stored"
      <3>1. Stored(v).kind = "stored"
          BY DEF Stored
      <3>2. \A i \in 1 .. k : gayle.fifo[i].kind = "stored"
          BY <1>6, <1>10 DEF Asked
      <3>3. \A i \in 1 .. k + 1 : i \in 1 .. k \/ i = k + 1
          OBVIOUS
      <3> QED
          BY <1>7, <3>1, <3>2, <3>3
    <2> QED
        BY <1>5, <1>7, <1>8, <1>9, <2>1, <2>2, <2>4, <2>5, <2>6 DEF Asked
  <1>11. BusInv'
    <2>1. arm.pc # "read"
        BY <1>3 DEF WriteSteps
    <2>2. Progress' = Progress
        BY <1>9
    <2>3. Engaged => \A n, e : Given(n, e) => Given(n, e)'
        BY <1>3
    <2>4. Engaged => \A p \in Int : \A e : Asked(p, e) => Asked(p, e)'
        BY <1>10
    <2> QED
        BY <1>1, <1>3, <1>7, <2>1, <2>2, <2>3, <2>4, BusKept
  <1>12. DoneInv'
      BY <1>5, <1>8 DEF DoneInv, Reads, Writes
  <1>13. PICK z \in Nat : z = QLen
      BY NextSent
  <1>14. arm.lba \in Int
      BY <1>3, Serving
  <1>15. QLen' = z + 1 /\ (\A j \in 0 .. z - 1 : QVal(j)' = QVal(j))
         /\ (\A j : j = z => QVal(j)' = v)
    <2>1. Stored(v).val = v
        BY DEF Stored
    <2>2. CASE arm.pc = "store"
      <3>1. z = k + 1 /\ QLen' = (k + 1) + 1
          BY <1>1, <1>6, <1>7, <1>13, <2>2 DEF QLen
      <3>2. ASSUME NEW j \in 0 .. z - 1
            PROVE  QVal(j)' = QVal(j)
        <4>1. j = 0 \/ j \in 1 .. k
            BY <3>1
        <4> QED
            BY <1>1, <1>7, <2>2, <4>1 DEF QVal
      <3>3. ASSUME NEW j, j = z
            PROVE  QVal(j)' = v
        <4>1. j # 0
            BY <3>1, <3>3
        <4> QED
            BY <1>1, <1>7, <2>1, <2>2, <3>1, <3>3, <4>1 DEF QVal
      <3> QED
          BY <3>1, <3>2, <3>3
    <2>3. CASE arm.pc = "wwait"
      <3>1. z = k /\ QLen' = k + 1
          BY <1>1, <1>6, <1>7, <1>13, <2>3 DEF QLen
      <3>2. ASSUME NEW j \in 0 .. z - 1
            PROVE  QVal(j)' = QVal(j)
        <4>1. j + 1 \in 1 .. k
            BY <3>1
        <4> QED
            BY <1>1, <1>7, <2>3, <4>1 DEF QVal
      <3>3. ASSUME NEW j, j = z
            PROVE  QVal(j)' = v
          BY <1>1, <1>7, <2>1, <2>3, <3>1, <3>3 DEF QVal
      <3> QED
          BY <3>1, <3>2, <3>3
    <2> QED
        BY <1>3, <2>2, <2>3 DEF WriteSteps
  <1>16. /\ Synthesized(host.req.unit, Address(host.done)) <=>
              IsFile(arm.unit) /\ arm.lba + z < 0
         /\ ~Synthesized(host.req.unit, Address(host.done)) =>
              /\ Place(host.req.unit, Address(host.done)) = At(arm.unit, arm.lba + z)
              /\ At(arm.unit, arm.lba + z) \in CardSectors
      BY <1>13, PlaceSent
  <1>17. StoreInv'
      BY <1>1, <1>2, <1>13, <1>14, <1>15, <1>16, SectorSent DEF IInv
  <1>18. image' \in Images
      BY <1>1, <1>2, <1>16 DEF TypeInv, Images
  <1>19. TypeInv'
      BY <1>1, <1>2, <1>7, <1>8, <1>9, <1>18 DEF TypeInv
  <1> QED
      BY <1>9, <1>11, <1>12, <1>17, <1>19 DEF IInv

-----------------------------------------------------------------------------
(* The theorems.                                                           *)

(* Nothing has happened. *)
LEMMA InitInv == Init => IInv
PROOF
  <1> SUFFICES ASSUME Init
               PROVE  IInv
      OBVIOUS
  <1>1. /\ gayle = PowerUp(NoRegisters) /\ arm = NoJob /\ card = InitCard
        /\ host = Asleep /\ image = InitCard
      BY DEF Init
  <1>2. PICK t \in {"file", "synth"} :
           hdf = [u \in Units |-> [type |-> IF u = 0 THEN t ELSE "card",
                                   spb |-> 0, file |-> FileOpened]]
      BY DEF Init
  <1>3. 0 \in 0 .. FifoSectors /\ 0 \in 0 .. CountMod - 1
      BY GayleAssumption
  <1>4. Home \in [cyl : Nat, head : Nat, sec : Nat]
      BY DEF Home
  <1>5. NoRegisters \in Regs /\ NoRegisters.cmd = "UNKNOWN"
      BY <1>4 DEF NoRegisters, Registers, Regs, Commands, Others, Units
  <1>6. <<>> \in Seq(Contents)
      OBVIOUS
  <1>7. /\ gayle \in GayleSet /\ ~gayle.busy /\ ~gayle.pio_in /\ ~gayle.pio_out
        /\ ~gayle.intreq /\ gayle.fifo = <<>>
      BY <1>1, <1>3, <1>5, <1>6 DEF PowerUp, GayleSet
  <1>8. /\ host \in HostSet /\ host.pc = "idle" /\ host.done = 0
        /\ host.req.cmd = "UNKNOWN"
      BY <1>1, <1>3, <1>5, <1>6 DEF Asleep, HostSet
  <1>9. arm.pc = "idle"
      BY <1>1 DEF NoJob
  <1>10. FileOpened = Cursor(0) /\ FileOpened.sector = 0 /\ 0 \in Within
         /\ FileOpened \in [sector : 0 .. FileSize, cluster : Links]
    <2>1. Chain[0] = FileStart
        BY ChainProperties DEF ChainWalk
    <2>2. Cursor(0) = FileOpened
        BY <2>1, ClusterIndexes DEF Cursor, FileOpened
    <2> QED
        BY <2>2, WithinFile, CursorTypes DEF FileOpened
  <1>11. hdf \in Disks
    <2>1. \A u \in Units : [type |-> IF u = 0 THEN t ELSE "card", spb |-> 0,
                            file |-> FileOpened]
             \in [type : Types, spb : BlockSizes \cup {0},
                  file : [sector : 0 .. FileSize, cluster : Links]]
      <3>1. SUFFICES ASSUME NEW u \in Units
                     PROVE  [type |-> IF u = 0 THEN t ELSE "card", spb |-> 0,
                             file |-> FileOpened]
                               \in [type : Types, spb : BlockSizes \cup {0},
                                    file : [sector : 0 .. FileSize, cluster : Links]]
          OBVIOUS
      <3>2. PICK x \in Types : x = IF u = 0 THEN t ELSE "card"
          BY DEF Types
      <3> QED
          BY <1>10, <3>2
    <2> QED
        BY <1>2, <2>1 DEF Disks
  <1>12. FilesInv
    <2>1. \A u \in Units : hdf[u].file = FileOpened
        BY <1>2
    <2> QED
        BY <1>10, <2>1 DEF FilesInv
  <1>13. TypeInv
      BY <1>1, <1>7, <1>8, <1>11, HardDiskAssumption DEF TypeInv, Images
  <1>14. RequestInv
      BY <1>8 DEF RequestInv, Transfers, Reads, Writes, Multiple
  <1>15. ArmPlace /\ ArmServes /\ ~Engaged
      BY <1>9 DEF ArmPlace, ArmServes, Engaged, Behind
  <1>16. Rest
      BY <1>7, <1>8, <1>15 DEF Rest
  <1>17. BusInv
      BY <1>9, <1>15, <1>16 DEF BusInv
  <1>18. DoneInv
      BY <1>8 DEF DoneInv, Reads
  <1>19. StoreInv
    <2>1. QLen = 0
        BY <1>9 DEF QLen
    <2>2. \A s : Hits(s) = {}
        BY <2>1 DEF Hits
    <2> QED
        BY <1>1, <2>2 DEF StoreInv
  <1> QED
      BY <1>12, <1>13, <1>14, <1>15, <1>17, <1>18, <1>19 DEF IInv

(* Nothing changes. *)
LEMMA StutterKeeps == ASSUME IInv, UNCHANGED vars
    PROVE  IInv'
PROOF
  <1>1. /\ gayle' = gayle /\ arm' = arm /\ hdf' = hdf /\ card' = card
        /\ host' = host /\ image' = image
      BY DEF vars
  <1>2. TypeInv /\ RequestInv /\ FilesInv
      BY DEF IInv
  <1>3. /\ Same /\ hdf' \in Disks /\ FilesInv' /\ RequestInv' /\ ArmPlace' /\ ArmServes'
        /\ Progress' = Progress /\ Moving' = Moving /\ First' = First
        /\ LastRegisters => LastRegisters'
      BY <1>1, HostSteps
  <1>4. StoreInv'
      BY <1>1, StoreStays
  <1>5. TypeInv'
      BY <1>1, <1>2 DEF TypeInv
  <1>6. BusInv'
    <2>1. host.req.unit \in Units
        BY <1>2 DEF TypeInv, HostSet, Regs
    <2>2. \A cmd, left : Block(cmd, left, host.req.unit)' = Block(cmd, left, host.req.unit)
        BY <1>1 DEF Block
    <2>3. IsFile(arm.unit)' <=> IsFile(arm.unit)
        BY <1>1 DEF IsFile, TypeOf
    <2>4. \A j : Expected(host.req.cmd, host.req.unit, First + (host.done + j - 1))'
                  = Expected(host.req.cmd, host.req.unit, First + (host.done + j - 1))
        BY <1>1, <1>2, <1>3, <2>1, ExpectedSame
    <2>5. ASSUME NEW n, NEW e, Given(n, e)
          PROVE  Given(n, e)'
        BY <1>1, <1>3, <2>2, <2>3, <2>4, <2>5 DEF Given
    <2>6. ASSUME NEW p, NEW e, Asked(p, e)
          PROVE  Asked(p, e)'
      <3>1. (Moving - p)' = Moving - p
          BY <1>3
      <3>2. Block(host.req.cmd, Moving - p, host.req.unit)'
              = Block(host.req.cmd, Moving - p, host.req.unit)
          BY <1>1, <2>2, <3>1 DEF Block
      <3> QED
          BY <1>1, <1>3, <2>6, <3>2 DEF Asked
    <2>7. Engaged' <=> Engaged
        BY <1>1 DEF Engaged, Late, Behind
    <2>8. ~Engaged => \/ Rest' \/ Fresh' \/ Over'
                      \/ /\ arm.pc # "store"
                         /\ Given(Moving, Moving)'
                         /\ host'.req.cmd = "READ" => LastRegisters'
      <3>1. SUFFICES ASSUME ~Engaged
                     PROVE  \/ Rest' \/ Fresh' \/ Over'
                            \/ /\ arm.pc # "store"
                               /\ Given(Moving, Moving)'
                               /\ host'.req.cmd = "READ" => LastRegisters'
          OBVIOUS
      <3>2. CASE Rest
          BY <1>1, <2>7, <3>1, <3>2 DEF Rest
      <3>3. CASE Fresh
        <4>1. Block(host.req.cmd, Moving, host.req.unit)'
                = Block(host.req.cmd, Moving, host.req.unit)
            BY <1>1, <1>3 DEF Block
        <4>2. (arm.pc = "idle" \/ Late) => (arm'.pc = "idle" \/ Late')
            BY <1>1 DEF Late
        <4> QED
            BY <1>1, <1>3, <3>3, <4>1, <4>2 DEF Fresh
      <3>4. CASE Over
          BY <1>1, <1>3, <3>4 DEF Over
      <3>5. CASE /\ arm.pc # "store" /\ Given(Moving, Moving)
                 /\ host.req.cmd = "READ" => LastRegisters
        <4>1. PICK m : m = Moving
            OBVIOUS
        <4>2. Given(m, m)'
            BY <2>5, <3>5, <4>1
        <4>3. Moving' = m
            BY <1>3, <4>1
        <4>4. Given(Moving, Moving)'
            BY <4>2, <4>3 DEF Given
        <4> QED
            BY <1>1, <1>3, <3>5, <4>4
      <3> QED
          BY <3>1, <3>2, <3>3, <3>4, <3>5 DEF IInv, BusInv
    <2>9. arm.pc = "read" => (gayle'.intreq => gayle'.fifo # <<>>)
        BY <1>1 DEF IInv, BusInv
    <2>10. Engaged => \A n, e : Given(n, e) => Given(n, e)'
        BY <2>5
    <2>11. Engaged => \A p \in Int : \A e : Asked(p, e) => Asked(p, e)'
        BY <2>6
    <2>12. Progress' = Progress
        BY <1>3
    <2> QED
        BY <1>1, <2>8, <2>9, <2>10, <2>11, <2>12, BusKept
  <1>7. DoneInv'
      BY <1>1, <1>2, <1>3, DoneKept DEF IInv
  <1> QED
      BY <1>3, <1>4, <1>5, <1>6, <1>7 DEF IInv

(* The FIFO holds what is left of a block that was given ... *)
LEMMA GivenFits == ASSUME IInv, NEW n \in Int, NEW e \in Int, Given(n, e), n <= e
    PROVE  Len(gayle.fifo) <= FifoSectors
PROOF
  <1>1. TypeInv /\ host.done < Moving
      BY DEF IInv, Given
  <1>2. PICK d \in Nat, b \in Nat, k \in Nat, s \in Nat :
           d = host.done /\ b = host.blk /\ k = Len(gayle.fifo) /\ s = FifoSectors /\ b <= s
    <2>1. host.done \in Nat /\ host.blk \in Nat /\ host.blk <= FifoSectors
        BY <1>1, GayleAssumption DEF TypeInv, HostSet
    <2>2. Len(gayle.fifo) \in Nat
        BY <1>1 DEF TypeInv, GayleSet
    <2> QED
        BY <2>1, <2>2, GayleAssumption
  <1>3. d + k = n
      BY <1>2 DEF Given
  <1>4. PICK c : c = Block(host.req.cmd, Moving - host.done, host.req.unit)
      OBVIOUS
  <1>5. c \in Nat /\ c <= s
    <2>1. c \in 0 .. FifoSectors
        BY <1>1, <1>4, HostBlock
    <2> QED
        BY <1>2, <2>1
  <1>6. e = d + c \/ e = d \/ e = d + b
      BY <1>2, <1>4 DEF Given
  <1>7. k <= s
    <2>1. d + k <= e /\ b <= s /\ c <= s /\ c \in Nat
        BY <1>2, <1>3, <1>5
    <2>2. CASE e = d
        BY <2>1, <2>2
    <2>3. CASE e = d + b
        BY <2>1, <2>3
    <2>4. CASE e = d + c
        BY <2>1, <2>4
    <2> QED
        BY <1>6, <2>2, <2>3, <2>4
  <1> QED
      BY <1>2, <1>7

(* ... or what the ARM has not taken of one that it asked for. *)
LEMMA AskedFits ==
    ASSUME IInv, NEW p \in Int, NEW e \in Int, Asked(p, e), e <= p + FifoSectors
    PROVE  Len(gayle.fifo) <= FifoSectors
PROOF
  <1>1. PICK d \in Nat, b \in Nat, k \in Nat, s \in Nat :
           d = host.done /\ b = host.blk /\ k = Len(gayle.fifo) /\ s = FifoSectors
    <2>1. host.done \in Nat /\ host.blk \in Nat
        BY GayleAssumption DEF IInv, TypeInv, HostSet
    <2>2. Len(gayle.fifo) \in Nat
        BY DEF IInv, TypeInv, GayleSet
    <2> QED
        BY <2>1, <2>2, GayleAssumption
  <1>2. d = p + k /\ (d = p \/ d = e \/ e = d + b) /\ e <= p + s
      BY <1>1 DEF Asked
  <1>3. k <= s
      BY <1>2
  <1> QED
      BY <1>1, <1>3

(* The FIFO never overflows. *)
LEMMA FifoFits == IInv => Len(gayle.fifo) <= FifoSectors
PROOF
  <1> SUFFICES ASSUME IInv
               PROVE  Len(gayle.fifo) <= FifoSectors
      OBVIOUS
  <1>1. FifoSectors \in Nat \ {0}
      BY GayleAssumption
  <1>2. CASE gayle.fifo = <<>>
      BY <1>1, <1>2
  <1>3. CASE gayle.fifo # <<>> /\ ~Engaged
    <2>1. Given(Moving, Moving)
        BY <1>3 DEF IInv, BusInv, Rest, Fresh, Over
    <2>2. PICK m \in Nat : m = Moving
        BY Numbers DEF IInv
    <2> QED
        BY <2>1, <2>2, GivenFits
  <1>4. CASE gayle.fifo # <<>> /\ Engaged
    <2>1. arm \in ArmSet
        BY <1>4, Serving
    <2>2. PICK n \in Nat : n = Progress
        BY <1>4, Serving
    <2>3. PICK b \in 0 .. FifoSectors : b = arm.blk
        BY <2>1 DEF ArmSet
    <2>4. n <= n + b /\ n <= n + 1 /\ n + b \in Int /\ n + 1 \in Int
          /\ n + b <= n + FifoSectors /\ n + 1 <= n + FifoSectors
        BY <1>1
    <2>5. ASSUME NEW e \in Int, Given(n, e), n <= e
          PROVE  Len(gayle.fifo) <= FifoSectors
        BY <2>5, GivenFits
    <2>6. ASSUME NEW e \in Int, Asked(n, e), e <= n + FifoSectors
          PROVE  Len(gayle.fifo) <= FifoSectors
        BY <2>6, AskedFits
    <2>7. CASE arm.pc \in {"read", "rwait", "mwait"}
        BY <2>2, <2>5, <2>7 DEF IInv, BusInv
    <2>8. CASE arm.pc = "mtask"
      <3>1. arm.left > 0
          BY <1>4, <2>1, <2>8 DEF Engaged, Behind, ArmSet
      <3> QED
          BY <2>2, <2>5, <2>8, <3>1 DEF IInv, BusInv
    <2>9. CASE arm.pc = "rdata"
        BY <2>2, <2>4, <2>5, <2>9 DEF IInv, BusInv
    <2>10. CASE arm.pc = "mdata"
        BY <2>2, <2>3, <2>4, <2>5, <2>10 DEF IInv, BusInv
    <2>11. CASE arm.pc = "wwait"
        BY <2>2, <2>3, <2>4, <2>6, <2>11 DEF IInv, BusInv
    <2>12. CASE arm.pc = "store"
      <3>1. arm.cmd = "WRITEM" \/ (arm.cmd = "WRITE" /\ arm.left > 0)
        <4>1. arm.left \in Nat
            BY <1>4, Serving
        <4> QED
            BY <1>4, <2>12, <4>1 DEF Engaged, Late, IInv, ArmPlace, Writes, WriteSteps
      <3> QED
          BY <2>2, <2>3, <2>4, <2>6, <2>12, <3>1 DEF IInv, BusInv
    <2> QED
        BY <1>4, <2>1, <2>7, <2>8, <2>9, <2>10, <2>11, <2>12
           DEF ArmSet, ReadSteps, MultipleSteps, WriteSteps
  <1> QED
      BY <1>2, <1>3, <1>4

(* The invariant gives the types ... *)
LEMMA InvTypes == IInv => TypeOK
PROOF
  <1> SUFFICES ASSUME IInv
               PROVE  TypeOK
      OBVIOUS
  <1>1. TypeInv
      BY DEF IInv
  <1>2. CASE arm.pc = "idle"
    <2>1. arm = NoJob
        BY <1>1, <1>2 DEF TypeInv, ArmSet, ReadSteps, MultipleSteps, WriteSteps
    <2>2. DOMAIN arm = Fields(arm.pc)
        BY <1>2, <2>1 DEF NoJob, Fields
    <2> QED
        BY <1>1, <1>2, <2>2, FifoFits DEF TypeOK, TypeInv, GayleSet, Disks, Images
  <1>3. CASE arm.pc # "idle"
    <2>1. arm \in ArmSet
        BY <1>1, <1>3 DEF TypeInv, NoJob
    <2>2. DOMAIN arm = Fields(arm.pc)
        BY <1>3, <2>1 DEF ArmSet, Fields
    <2>3. arm.pc \in {"idle", "read", "rwait", "rdata", "mwait", "mdata", "mtask",
                      "wwait", "store"}
        BY <2>1 DEF ArmSet, ReadSteps, MultipleSteps, WriteSteps
    <2>4. arm.pos \in Positions(TypeOf(arm.unit))
        BY <1>3 DEF IInv, ArmPlace
    <2>5. arm.left \in 0 .. CountMod /\ arm.blk \in 0 .. FifoSectors
        BY <2>1 DEF ArmSet
    <2> QED
        BY <1>1, <2>2, <2>3, <2>4, <2>5, FifoFits
           DEF TypeOK, TypeInv, GayleSet, Disks, Images
  <1> QED
      BY <1>2, <1>3

(* ... and what a transfer is for. *)
LEMMA InvRight == IInv => TransfersRight
PROOF
  <1> SUFFICES ASSUME IInv
               PROVE  TransfersRight
      OBVIOUS
  <1>1. TypeInv /\ StoreInv
      BY DEF IInv
  <1>2. ASSUME host.req.cmd \in Transfers
        PROVE  \A i \in Int : Address(i) = First + i
    <2>1. TypeOf(host.req.unit) \in Types
        BY <1>1, Numbers DEF IInv
    <2>2. PICK x \in Int : x = chs2lba(TypeOf(host.req.unit), host.req.pos)
        BY <1>2, <2>1, AddressTypes DEF IInv, RequestInv
    <2> QED
        BY <2>2 DEF First, Address
  <1>3. ASSUME host.req.cmd \in Reads, NEW i \in 1 .. Len(host.got)
        PROVE  host.got[i] = Expected(host.req.cmd, host.req.unit, Address(i - 1))
    <2>1. i - 1 \in Int
        OBVIOUS
    <2>2. Address(i - 1) = First + (i - 1)
        BY <1>2, <1>3, <2>1 DEF Transfers
    <2> QED
        BY <1>3, <2>2 DEF IInv, DoneInv
  <1>4. arm.pc = "idle" => card = image
      BY <1>1, StoreQuiet DEF WriteSteps
  <1>5. LastAddress
    <2>1. SUFFICES ASSUME host.pc = "idle", host.done > 0,
                          host.req.cmd \in {"READ", "WRITE", "WRITEM"}
                   PROVE  /\ gayle.tfr.unit = host.req.unit
                          /\ chs2lba(TypeOf(host.req.unit), gayle.tfr.pos)
                               = Address(host.done - 1)
        BY DEF LastAddress
    <2>2. host.done = Moving /\ LastRegisters
        BY <2>1 DEF IInv, DoneInv, Writes
    <2>3. host.done \in Nat
        BY <1>1 DEF TypeInv, HostSet
    <2>4. Address(host.done - 1) = First + (host.done - 1)
        BY <1>2, <2>1, <2>3 DEF Transfers, Reads, Writes
    <2> QED
        BY <2>2, <2>4 DEF LastRegisters
  <1> QED
      BY <1>3, <1>4, <1>5 DEF TransfersRight

(* Every step keeps the invariant. *)
LEMMA NextInv == ASSUME EndsInside, IInv, [Next]_vars
    PROVE  IInv'
PROOF
  <1>1. CASE UNCHANGED vars
      BY <1>1, StutterKeeps
  <1>2. CASE HandleHDD
    <2>1. CASE Poll
        BY <2>1, StutterKeeps DEF Poll
    <2>2. CASE Recalibrate
        BY <2>2, RecalibrateKeeps
    <2>3. CASE IdentifyDevice
        BY <2>3, IdentifyDeviceKeeps
    <2>4. CASE InitializeDeviceParameters
        BY <2>4, InitializeDeviceParametersKeeps
    <2>5. CASE SetMultipleMode
        BY <2>5, SetMultipleModeKeeps
    <2>6. CASE UnknownCommand
        BY <2>6, UnknownCommandKeeps
    <2>7. CASE StartRead
        BY <2>7, StartReadKeeps
    <2>8. CASE ReadSpecial
        BY <2>8, ReadSpecialKeeps
    <2>9. CASE ReadAnnounce
        BY <2>9, ReadAnnounceKeeps
    <2>10. CASE ReadInterrupt
        BY <2>10, ReadInterruptKeeps
    <2>11. CASE ReadData
        BY <2>11, ReadDataKeeps
    <2>12. CASE StartReadMultiple
        BY <2>12, StartReadMultipleKeeps
    <2>13. CASE ReadMultipleInterrupt
        BY <2>13, ReadMultipleInterruptKeeps
    <2>14. CASE ReadMultipleData
        BY <2>14, ReadMultipleDataKeeps
    <2>15. CASE ReadMultipleRegisters
        BY <2>15, ReadMultipleRegistersKeeps
    <2>16. CASE StartWrite
        BY <2>16, StartWriteKeeps
    <2>17. CASE WriteTake
        BY <2>17, WriteTakeKeeps
    <2>18. CASE WriteStore
        BY <2>18, WriteStoreKeeps
    <2> QED
        BY <1>2, <2>1, <2>2, <2>3, <2>4, <2>5, <2>6, <2>7, <2>8, <2>9, <2>10, <2>11,
           <2>12, <2>13, <2>14, <2>15, <2>16, <2>17, <2>18 DEF HandleHDD
  <1>3. CASE IssueTransfer
      BY <1>3, IssueTransferKeeps
  <1>4. CASE IssueOther
      BY <1>4, IssueOtherKeeps
  <1>5. CASE HostContinues
    <2>1. CASE HostInterrupt
        BY <2>1, HostInterruptKeeps
    <2>2. CASE HostRead
        BY <2>2, HostReadKeeps
    <2>3. CASE \E v \in NewData : HostWrite(v)
        BY <2>3, HostWriteKeeps
    <2> QED
        BY <1>5, <2>1, <2>2, <2>3 DEF HostContinues
  <1> QED
      BY <1>1, <1>2, <1>3, <1>4, <1>5 DEF Next

(* The invariant holds always. *)
LEMMA Invariant == ASSUME EndsInside
    PROVE  Spec => []IInv
PROOF
  <1>1. Init => IInv
      BY InitInv
  <1>2. IInv /\ [Next]_vars => IInv'
      BY NextInv
  <1> QED
      BY <1>1, <1>2, PTL DEF Spec

(* Types and limits: the registers of the ARM are always a position of the *)
(* disk it serves, and the FIFO in front of the Amiga never overflows.     *)
THEOREM TypeCorrect == ASSUME EndsInside
    PROVE  Spec => []TypeOK
PROOF
  <1>1. Spec => []IInv
      BY Invariant
  <1>2. IInv => TypeOK
      BY InvTypes
  <1> QED
      BY <1>1, <1>2, PTL

(* Every sector of a read is the one the Amiga last wrote at the address   *)
(* it asked for, all that was written is on the card when HandleHDD() is   *)
(* idle, and the registers end with the address of the last sector.        *)
THEOREM TransfersAreRight == ASSUME EndsInside
    PROVE  Spec => []TransfersRight
PROOF
  <1>1. Spec => []IInv
      BY Invariant
  <1>2. IInv => TransfersRight
      BY InvRight
  <1> QED
      BY <1>1, <1>2, PTL
=============================================================================
