--------------------------- MODULE FatChainProofs ---------------------------
(***************************************************************************)
(* Proofs about FatChain, for a FAT of any size and any number of copies,  *)
(* files, clients and troubles.                                            *)
(***************************************************************************)
EXTENDS FatChain, FiniteSetTheorems, WellFoundedInduction, TLAPS

-----------------------------------------------------------------------------
(* The inductive invariant.                                                *)

(* The FAT that the next FatSave() of the buffered sector will have made   *)
(* of the first copy: all of the firmware's reads see this one.            *)
See == [e \in Entries |-> IF Sector(e) = buffered_fat_index
                          THEN fat_buffer[Offset(e)] ELSE disk[0][e]]

(* Where a call is, and what it needs to be there. *)
Allocating == op.then \in {"entry", "link"}
Trimming == op.then = "trimmed"

OpInv ==
    /\ op.at = "idle" => op = Idle
    /\ op.at # "idle" => who \in Clients /\ IsOpen(who)
    /\ op.at = "alloc" => Allocating
    /\ op.at = "save" =>
         /\ Allocating \/ Trimming \/ op.then = "idle"
         /\ buffered_fat_index # None
    /\ op.at \in {"entry", "link", "trimmed"} => op.then = op.at
    /\ op.at \in {"trim", "info"} => op.then = "idle"
    /\ op.at # "save" => op.copy = 0
    /\ Allocating => ~stray
    /\ Allocating /\ op.at # "alloc" => op.cluster \in Entries
    /\ \A c, d \in Clients :
         IsOpen(c) /\ file[c].name = file[d].name => c = d

(* Links on the disk and in the buffer. *)
Good(fat) ==
    TargetsUsed(fat) /\ LinksInjective(fat) /\ StartsOwned(fat, dir)

TailUsed(fat) == \A e \in Entries : e > LastCluster => fat[e] # 0

Unlinked(fat, c) ==
    (\A d \in Clusters : fat[d] # c) /\ (\A n \in Names : dir[n] # c)

Saved ==
    \/ op.at \in {"entry", "link", "trimmed"}
    \/ op.at = "trim" /\ op.marker = 0
    \/ op.at = "save" /\ op.copy > 0

LinkInv ==
    /\ Good(disk[0]) /\ Good(See)
    /\ TailUsed(disk[0]) /\ TailUsed(See)
    /\ Saved => See = disk[0]
    /\ Allocating /\ op.at # "alloc" =>
         /\ op.cluster \in Clusters
         /\ InUse(See, op.cluster) /\ Unlinked(See, op.cluster)
    /\ Trimming /\ op.cluster \in Clusters => Unlinked(See, op.cluster)
    /\ op.at = "trim" /\ op.marker = 0 /\ file[who].cluster \in Clusters =>
         Unlinked(See, file[who].cluster)

(* While nothing failed: every client is in the chain of its file, and the *)
(* buffer is at most one entry ahead of the disk.                          *)
Sure == ~failed /\ faults = 0

Within(fat, d, n, cluster) == d[n] # None /\ cluster \in ChainOf(fat, d[n])

InItsFile(c, cluster) == Within(disk[0], dir, file[c].name, cluster)

Ahead(e, link) == See = [disk[0] EXCEPT ![e] = link]

CursorInv ==
    \A c \in Clients :
        IsOpen(c) /\ (op = Idle \/ c # who) => InItsFile(c, file[c].cluster)

CallInv ==
    /\ op.then = "entry" => dir[file[who].name] = None
    /\ op.then = "link" => InItsFile(who, op.prev) /\ disk[0][op.prev] = EOC
    /\ op.at = "trim" =>
         IF op.marker = EOC THEN InItsFile(who, file[who].cluster)
         ELSE file[who].cluster \in Clusters /\ InUse(See, file[who].cluster)
    /\ Trimming /\ op.cluster \in Clusters => InUse(See, op.cluster)
    /\ Trimming => op.cluster \in Clusters \cup {EOC}
    /\ op.at = "save" /\ op.then = "idle" /\ op.copy > 0 =>
         InItsFile(who, file[who].cluster)

AheadInv ==
    /\ ~(op.at = "save" /\ op.copy = 0) => See = disk[0]
    /\ op.at = "save" /\ op.copy = 0 =>
         /\ Allocating => Ahead(op.cluster, EOC) /\ disk[0][op.cluster] = 0
         /\ op.then = "idle" =>
              /\ Ahead(op.prev, file[who].cluster)
              /\ InItsFile(who, op.prev) /\ disk[0][op.prev] = EOC
              /\ file[who].cluster \in Clusters
         /\ Trimming =>
              /\ Ahead(file[who].cluster, op.marker)
              /\ disk[0][file[who].cluster] = op.cluster
              /\ file[who].cluster \in Clusters
              /\ IF op.marker = EOC THEN InItsFile(who, file[who].cluster)
                 ELSE Unlinked(disk[0], file[who].cluster)

FileInv == ~stray /\ CursorInv /\ CallInv /\ AheadInv

(* The copies: those before op.copy have what is in the buffer. *)
CopyInv ==
    /\ op.at # "save" \/ op.copy > 0 => See = disk[0]
    /\ \A i \in Copies : \A e \in Entries :
         disk[i][e] =
             IF op.at # "save" \/ Sector(e) # buffered_fat_index
             THEN disk[0][e]
             ELSE IF i < op.copy THEN See[e]
             ELSE disk[FatNumber - 1][e]

(* What is shown to be kept by every step: of the files, and of the        *)
(* copies.                                                                 *)
FilesInv ==
    /\ TypeOK /\ OpInv
    /\ ~failed => LinkInv
    /\ Sure => FileInv

CopiesInv ==
    /\ TypeOK /\ OpInv
    /\ Calm => CopyInv

-----------------------------------------------------------------------------
(* Sectors of the FAT.                                                     *)

LEMMA SectorOffset ==
    \A e \in Entries :
        /\ Sector(e) \in FatSectors
        /\ Offset(e) \in 0 .. PerSector - 1
        /\ e = Sector(e) * PerSector + Offset(e)
<1>1. ASSUME NEW e \in Entries
      PROVE  /\ Sector(e) \in FatSectors
             /\ Offset(e) \in 0 .. PerSector - 1
             /\ e = Sector(e) * PerSector + Offset(e)
  <2>1. PerSector \in Nat /\ PerSector > 0 /\ FatSize \in Nat /\ FatSize > 0
    BY FatChainAssumption
  <2>2. FatSize * PerSector \in Nat /\ e \in Nat /\ e < FatSize * PerSector
    BY <2>1 DEF Entries
  <2>3. /\ e \div PerSector \in Int /\ e % PerSector \in 0 .. PerSector - 1
        /\ e = PerSector * (e \div PerSector) + (e % PerSector)
    BY <2>1, <2>2
  <2>4. e \div PerSector >= 0
    BY <2>1, <2>2, <2>3
  <2>5. e \div PerSector < FatSize
    BY <2>1, <2>2, <2>3
  <2>6. QED
    BY <2>1, <2>2, <2>3, <2>4, <2>5 DEF Sector, Offset, FatSectors
<1>2. QED
  BY <1>1

LEMMA SameEntry ==
    \A d, e \in Entries : Sector(d) = Sector(e) /\ Offset(d) = Offset(e) => d = e
<1>1. ASSUME NEW d \in Entries, NEW e \in Entries,
             Sector(d) = Sector(e), Offset(d) = Offset(e)
      PROVE  d = e
  <2>1. d = Sector(d) * PerSector + Offset(d)
    BY SectorOffset
  <2>2. e = Sector(e) * PerSector + Offset(e)
    BY SectorOffset
  <2>3. QED
    BY <1>1, <2>1, <2>2, Zenon
<1>2. QED
  BY <1>1

-----------------------------------------------------------------------------
(* What the firmware sees of the FAT, and what changes it.                 *)

(* Entry e of a sector that was read.                                      *)
LEMMA StoredEntry ==
    \A e \in Entries : Stored(Sector(e))[Offset(e)] = disk[0][e]
<1>1. ASSUME NEW e \in Entries
      PROVE  Stored(Sector(e))[Offset(e)] = disk[0][e]
  <2>1. Offset(e) \in 0 .. PerSector - 1
        /\ e = Sector(e) * PerSector + Offset(e)
    BY SectorOffset
  <2>2. Stored(Sector(e))[Offset(e)] = disk[0][Sector(e) * PerSector + Offset(e)]
    BY <2>1 DEF Stored
  <2>3. QED
    BY <2>1, <2>2, Zenon
<1>2. QED
  BY <1>1

LEMMA LoadedEntry ==
    \A e \in Entries : Load(Sector(e))[Offset(e)] = See[e]
  BY StoredEntry DEF Load, See

LEMMA SeeType ==
    ASSUME TypeOK
    PROVE  See \in [Entries -> Links] /\ disk[0] \in [Entries -> Links]
<1>1. 0 \in Copies
  BY FatChainAssumption DEF Copies
<1>2. disk[0] \in [Entries -> Links]
  BY <1>1 DEF TypeOK
<1>3. \A e \in Entries : See[e] \in Links
  BY <1>2, SectorOffset DEF TypeOK, See
<1>4. QED
  BY <1>2, <1>3 DEF See

(* The buffer is loaded with some other sector, or none: what it had is    *)
(* lost.                                                                   *)
LEMMA Forgets ==
    ASSUME TypeOK, disk' = disk,
           buffered_fat_index' = None
    PROVE  See' = disk[0]
<1>1. \A e \in Entries : Sector(e) # None
  BY SectorOffset DEF FatSectors, None
<1>2. disk[0] = [e \in Entries |-> disk[0][e]]
  BY SeeType
<1>3. QED
  BY <1>1, <1>2 DEF See

LEMMA Loads ==
    ASSUME TypeOK, disk' = disk, NEW s \in FatSectors,
           fat_buffer' = Load(s), buffered_fat_index' = s
    PROVE  See' = IF buffered_fat_index = s THEN See ELSE disk[0]
<1>1. CASE buffered_fat_index = s
  BY <1>1 DEF See, Load
<1>2. CASE buffered_fat_index # s
  <2>1. \A e \in Entries : See'[e] = disk[0][e]
    BY <1>2, StoredEntry DEF See, Load
  <2>2. QED
    BY <1>2, <2>1, SeeType DEF See
<1>3. QED
  BY <1>1, <1>2

(* Entry d is changed in a buffer that has the entries of base.            *)
LEMMA Changes ==
    ASSUME disk' = disk, NEW d \in Entries, NEW l,
           NEW base \in [Entries -> Links],
           NEW sector \in [0 .. PerSector - 1 -> Links],
           \A e \in Entries : IF Sector(e) = Sector(d)
                              THEN base[e] = sector[Offset(e)]
                              ELSE base[e] = disk[0][e],
           fat_buffer' = [sector EXCEPT ![Offset(d)] = l],
           buffered_fat_index' = Sector(d)
    PROVE  See' = [base EXCEPT ![d] = l]
<1>1. ASSUME NEW e \in Entries
      PROVE  See'[e] = [base EXCEPT ![d] = l][e]
  <2>1. CASE Sector(e) # Sector(d)
    <3>1. See'[e] = disk[0][e] /\ e # d
      BY <2>1 DEF See
    <3>2. QED
      BY <2>1, <3>1
  <2>2. CASE Sector(e) = Sector(d) /\ e # d
    <3>1. Offset(e) # Offset(d) /\ Offset(e) \in 0 .. PerSector - 1
      BY <2>2, SameEntry, SectorOffset
    <3>2. See'[e] = fat_buffer'[Offset(e)]
      BY <2>2 DEF See
    <3>3. fat_buffer'[Offset(e)] = sector[Offset(e)]
      BY <3>1
    <3>4. QED
      BY <2>2, <3>2, <3>3
  <2>3. CASE e = d
    <3>1. Offset(d) \in 0 .. PerSector - 1
      BY SectorOffset
    <3>2. See'[e] = fat_buffer'[Offset(d)]
      BY <2>3 DEF See
    <3>3. QED
      BY <2>3, <3>1, <3>2
  <2>4. QED
    BY <2>1, <2>2, <2>3
<1>2. See' = [e \in Entries |-> See'[e]]
  BY DEF See
<1>3. [base EXCEPT ![d] = l] = [e \in Entries |-> [base EXCEPT ![d] = l][e]]
  OBVIOUS
<1>4. QED
  BY <1>1, <1>2, <1>3

LEMMA EntryOf ==
    \A s \in FatSectors, o \in 0 .. PerSector - 1 :
        LET e == s * PerSector + o
        IN  e \in Entries /\ Sector(e) = s /\ Offset(e) = o
<1> SUFFICES ASSUME NEW s \in FatSectors, NEW o \in 0 .. PerSector - 1
             PROVE  LET e == s * PerSector + o
                    IN  e \in Entries /\ Sector(e) = s /\ Offset(e) = o
  OBVIOUS
<1> DEFINE e == s * PerSector + o
           t == Sector(e)
<1>1. PerSector \in Nat /\ PerSector > 0 /\ FatSize \in Nat /\ FatSize > 0
  BY FatChainAssumption
<1>2. s \in Nat /\ s <= FatSize - 1 /\ o \in Nat /\ o <= PerSector - 1
  BY <1>1 DEF FatSectors
<1>3. e \in Entries
  <2>1. s * PerSector <= (FatSize - 1) * PerSector
    BY <1>1, <1>2
  <2>2. (FatSize - 1) * PerSector = FatSize * PerSector - PerSector
    BY <1>1
  <2>3. s * PerSector \in Nat /\ FatSize * PerSector \in Nat
    BY <1>1, <1>2
  <2>4. QED
    BY <1>1, <1>2, <2>1, <2>2, <2>3 DEF Entries
<1>4. /\ t \in Nat /\ Offset(e) \in 0 .. PerSector - 1
      /\ e = t * PerSector + Offset(e)
  BY <1>1, <1>3, SectorOffset DEF FatSectors
<1> HIDE DEF t
<1>5. ASSUME t < s PROVE FALSE
  <2>1. (t + 1) * PerSector <= s * PerSector
    BY <1>1, <1>2, <1>4, <1>5
  <2>2. (t + 1) * PerSector = t * PerSector + PerSector
    BY <1>1, <1>4
  <2>3. t * PerSector \in Nat /\ s * PerSector \in Nat
    BY <1>1, <1>2, <1>4
  <2>4. QED
    BY <1>1, <1>2, <1>4, <2>1, <2>2, <2>3
<1>6. ASSUME s < t PROVE FALSE
  <2>1. (s + 1) * PerSector <= t * PerSector
    BY <1>1, <1>2, <1>4, <1>6
  <2>2. (s + 1) * PerSector = s * PerSector + PerSector
    BY <1>1, <1>2
  <2>3. t * PerSector \in Nat /\ s * PerSector \in Nat
    BY <1>1, <1>2, <1>4
  <2>4. QED
    BY <1>1, <1>2, <1>4, <2>1, <2>2, <2>3
<1>7. t = s
  BY <1>2, <1>4, <1>5, <1>6
<1>8. Offset(e) = o
  <2>1. s * PerSector \in Nat
    BY <1>1, <1>2
  <2>2. QED
    BY <1>1, <1>2, <1>4, <1>7, <2>1
<1>9. QED
  BY <1>3, <1>7, <1>8 DEF t

LEMMA StoredType ==
    ASSUME TypeOK, NEW s \in FatSectors
    PROVE  Stored(s) \in [0 .. PerSector - 1 -> Links]
  BY EntryOf, SeeType DEF Stored

LEMMA Enters ==
    ASSUME TypeOK, disk' = disk, NEW d \in Entries, NEW l, Enter(d, l)
    PROVE  See' = [IF buffered_fat_index = Sector(d) THEN See ELSE disk[0]
                     EXCEPT ![d] = l]
<1>1. Sector(d) \in FatSectors
  BY SectorOffset
<1>2. See \in [Entries -> Links] /\ disk[0] \in [Entries -> Links]
  BY SeeType
<1>3. Stored(Sector(d)) \in [0 .. PerSector - 1 -> Links]
  BY <1>1, StoredType
<1>4. fat_buffer \in [0 .. PerSector - 1 -> Links]
  BY DEF TypeOK
<1>5. CASE buffered_fat_index = Sector(d)
  <2>1. fat_buffer' = [fat_buffer EXCEPT ![Offset(d)] = l]
        /\ buffered_fat_index' = Sector(d)
    BY <1>5 DEF Enter, Load
  <2>2. \A e \in Entries : IF Sector(e) = Sector(d)
                            THEN See[e] = fat_buffer[Offset(e)]
                            ELSE See[e] = disk[0][e]
    BY <1>5 DEF See
  <2>3. See' = [See EXCEPT ![d] = l]
    BY <1>2, <1>4, <2>1, <2>2, Changes
  <2>4. QED
    BY <1>5, <2>3
<1>6. CASE buffered_fat_index # Sector(d)
  <2>1. fat_buffer' = [Stored(Sector(d)) EXCEPT ![Offset(d)] = l]
        /\ buffered_fat_index' = Sector(d)
    BY <1>6 DEF Enter, Load
  <2>2. \A e \in Entries : IF Sector(e) = Sector(d)
                            THEN disk[0][e] = Stored(Sector(d))[Offset(e)]
                            ELSE disk[0][e] = disk[0][e]
    BY StoredEntry
  <2>3. See' = [disk[0] EXCEPT ![d] = l]
    BY <1>2, <1>3, <2>1, <2>2, Changes
  <2>4. QED
    BY <1>6, <2>3
<1>7. QED
  BY <1>5, <1>6

(* ClusterAllocate() finds entry d free and takes it.                      *)
Took(d) ==
    /\ fat_buffer' = [Scanned(Sector(d)) EXCEPT ![Offset(d)] = EOC]
    /\ buffered_fat_index' = Sector(d)

LEMMA Takes ==
    ASSUME TypeOK, disk' = disk, NEW d \in Entries, Took(d)
    PROVE  \E base \in {See, disk[0]} :
              /\ See' = [base EXCEPT ![d] = EOC]
              /\ base[d] = Scanned(Sector(d))[Offset(d)]
<1>1. Sector(d) \in FatSectors
  BY SectorOffset
<1>2. disk[0] \in [Entries -> Links] /\ Stored(Sector(d)) \in [0 .. PerSector - 1 -> Links]
  BY <1>1, SeeType, StoredType
<1>3. CASE Scanned(Sector(d)) = Load(Sector(d))
  <2>1. Enter(d, EOC)
    BY <1>3 DEF Took, Enter
  <2>2. Load(Sector(d))[Offset(d)] =
          (IF buffered_fat_index = Sector(d) THEN See ELSE disk[0])[d]
    BY LoadedEntry DEF See
  <2>3. QED
    BY <1>3, <2>1, <2>2, Enters
<1>4. CASE Scanned(Sector(d)) = Stored(Sector(d))
  <2>1. fat_buffer' = [Stored(Sector(d)) EXCEPT ![Offset(d)] = EOC]
        /\ buffered_fat_index' = Sector(d)
    BY <1>4 DEF Took
  <2>2. \A e \in Entries : IF Sector(e) = Sector(d)
                            THEN disk[0][e] = Stored(Sector(d))[Offset(e)]
                            ELSE disk[0][e] = disk[0][e]
    BY StoredEntry
  <2>3. See' = [disk[0] EXCEPT ![d] = EOC]
    BY <1>2, <2>1, <2>2, Changes, ZenonT(40)
  <2>4. QED
    BY <1>4, <2>3, StoredEntry
<1>5. QED
  BY <1>3, <1>4 DEF Scanned

(* A sector is saved to the first copy.                                    *)
LEMMA Saves ==
    ASSUME TypeOK, UNCHANGED buffering,
           disk'[0] = [e \in Entries |-> IF Sector(e) = buffered_fat_index
                                         THEN fat_buffer[Offset(e)]
                                         ELSE disk[0][e]]
    PROVE  disk'[0] = See /\ See' = See
  BY DEF See, buffering

LEMMA FirstIn ==
    ASSUME NEW S, S \subseteq Nat, S # {}
    PROVE  First(S) \in S /\ \A k \in S : First(S) <= k
<1> DEFINE R == {ss \in Nat \X Nat : ss[1] < ss[2]}
<1>1. PICK i \in S : \A j \in S : ~ (<<j, i>> \in R)
  <2>1. IsWellFoundedOn(R, Nat)
    BY NatLessThanWellFounded, Zenon DEF OpToRel
  <2> HIDE DEF R
  <2>2. QED
    BY <2>1, WFMin
<1>2. ASSUME NEW j \in S PROVE i <= j
  <2>1. i \in Nat /\ j \in Nat /\ ~ (<<j, i>> \in R)
    BY <1>1
  <2>2. ~ (j < i)
    BY <2>1
  <2>3. QED
    BY <2>1, <2>2
<1>3. QED
  BY <1>2 DEF First

LEMMA FirstFree ==
    ASSUME FreeEntries # {}
    PROVE  First(FreeEntries) \in FreeEntries
<1>1. FreeEntries \subseteq Nat
  BY FatChainAssumption DEF FreeEntries, Entries
<1>2. QED
  BY <1>1, FirstIn

-----------------------------------------------------------------------------
(* Types.                                                                  *)

OpType == [at : Ats, then : Ats, who : Clients \cup {None}, copy : Copies,
           cluster : Links, prev : Links, marker : {0, EOC}]

LEMMA Basics ==
    /\ 0 \in Copies /\ 0 \in Links /\ EOC \in Links /\ Media \in Links
    /\ EOC \notin Entries /\ Media \notin Entries /\ EOC # Media
    /\ None \notin Links /\ None \notin Names /\ None \notin Clients
    /\ Clusters \subseteq Entries /\ 0 \notin Clusters
    /\ 0 \in Entries
    /\ Idle \in OpType /\ Closed \in Cursors
<1>1. PerSector \in Nat /\ PerSector > 0 /\ FatSize \in Nat /\ FatSize > 0
      /\ FatNumber \in Nat /\ FatNumber > 0
  BY FatChainAssumption
<1>2. LastCluster \in Entries /\ FatSize * PerSector \in Nat
      /\ Entries \subseteq Nat
  BY <1>1, FatChainAssumption DEF Entries
<1>3. 0 \in Entries /\ Clusters \subseteq Entries /\ 0 \notin Clusters
  BY <1>2 DEF Entries, Clusters
<1>4. 0 \in Copies
  BY <1>1 DEF Copies
<1>5. 0 \in Links /\ EOC \in Links /\ Media \in Links
  BY <1>3 DEF Links
<1>6. EOC \notin Entries /\ Media \notin Entries /\ EOC # Media
      /\ None \notin Names /\ None \notin Clients
  BY FatChainAssumption
<1>7. None \notin Links
  BY <1>2, FatChainAssumption DEF Links, None
<1>8. Idle \in OpType
  BY <1>4, <1>5 DEF Idle, OpType, Ats
<1>9. Closed \in Cursors
  BY <1>5, FatChainAssumption DEF Closed, Cursors
<1>10. QED
  BY <1>3, <1>4, <1>5, <1>6, <1>7, <1>8, <1>9

LEMMA LoadType ==
    ASSUME TypeOK, NEW s \in FatSectors
    PROVE  /\ Load(s) \in [0 .. PerSector - 1 -> Links]
           /\ Scanned(s) \in [0 .. PerSector - 1 -> Links]
<1>1. Stored(s) \in [0 .. PerSector - 1 -> Links]
  BY StoredType
<1>2. fat_buffer \in [0 .. PerSector - 1 -> Links]
  BY DEF TypeOK
<1>3. QED
  BY <1>1, <1>2 DEF Load, Scanned

LEMMA EnterType ==
    ASSUME TypeOK, NEW d \in Entries, NEW l \in Links,
           Enter(d, l) \/ (l = EOC /\ Took(d))
    PROVE  /\ fat_buffer' \in [0 .. PerSector - 1 -> Links]
           /\ buffered_fat_index' \in FatSectors
<1>1. Sector(d) \in FatSectors
  BY SectorOffset
<1>2. QED
  BY <1>1, LoadType DEF Enter, Took

LEMMA TypeInit == Init => TypeOK /\ OpInv
<1> SUFFICES ASSUME Init PROVE TypeOK /\ OpInv
  OBVIOUS
<1>1. LastCluster \in Int
  BY FatChainAssumption DEF Entries
<1>2. Cardinality({e \in Clusters : InitFat[e] = 0}) \in Nat
  <2> DEFINE F == {e \in Clusters : InitFat[e] = 0}
  <2>1. IsFiniteSet(2 .. LastCluster)
    BY <1>1, FS_Interval
  <2>2. F \subseteq 2 .. LastCluster
    BY DEF Clusters
  <2>3. IsFiniteSet(F)
    BY <2>1, <2>2, FS_Subset
  <2>4. QED
    BY <2>3, FS_CardinalityType
<1>3. disk \in [Copies -> [Entries -> Links]] /\ dir \in [Names -> Entries \cup {None}]
  BY FatChainAssumption DEF Init
<1>4. fat_buffer \in [0 .. PerSector - 1 -> Links]
  BY Basics DEF Init
<1>5. file \in [Clients -> Cursors] /\ op \in OpType
  BY Basics DEF Init
<1>6. TypeOK
  <2>1. free_clusters \in Int
    BY <1>2 DEF Init
  <2>2. /\ buffered_fat_index = None /\ crashes = 0 /\ faults = 0
        /\ abandons = 0 /\ failed = FALSE /\ stray = FALSE
    BY DEF Init
  <2>3. QED
    BY <1>3, <1>4, <1>5, <2>1, <2>2 DEF TypeOK, OpType
<1>7. OpInv
  <2>1. \A c \in Clients : ~IsOpen(c)
    BY DEF Init, IsOpen, Closed
  <2>2. op = Idle /\ ~stray
    BY DEF Init
  <2>3. QED
    BY <2>1, <2>2 DEF OpInv, Idle, Allocating, Trimming
<1>8. QED
  BY <1>6, <1>7

LEMMA CallType ==
    ASSUME TypeOK, OpInv, Call
    PROVE  TypeOK' /\ OpInv'
<1> USE Basics DEF IsOpen
<1>1. ASSUME NEW c \in Clients, NEW n \in Names, FileNew(c, n)
      PROVE  TypeOK' /\ OpInv'
  <2>1. file' \in [Clients -> Cursors]
    BY <1>1 DEF FileNew, TypeOK, Cursors, Closed, Links
  <2>2. op' \in OpType
    BY <1>1 DEF FileNew, OpType, Ats, Idle
  <2>3. TypeOK'
    BY <1>1, <2>1, <2>2 DEF TypeOK, OpType, FileNew, medium, buffering, history
  <2>4. OpInv'
    BY <1>1, <2>1, <2>2
    DEF TypeOK, OpInv, FileNew, medium, buffering, history, Ready, Idle,
        Allocating, Trimming, who
  <2>5. QED
    BY <2>3, <2>4
<1>2. ASSUME NEW c \in Clients, FileWrite(c)
      PROVE  TypeOK' /\ OpInv'
  <2>1. stray' \in BOOLEAN
    BY <1>2 DEF FileWrite, TypeOK
  <2>2. TypeOK'
    BY <1>2, <2>1 DEF FileWrite, TypeOK, medium, buffering
  <2>3. OpInv'
    BY <1>2 DEF FileWrite, OpInv, medium, buffering, Ready, Idle,
                Allocating, Trimming, who
  <2>4. QED
    BY <2>2, <2>3
<1>3. ASSUME NEW c \in Clients, FileNextSectorExpand(c)
      PROVE  TypeOK' /\ OpInv'
  <2> DEFINE f == file[c]
             crossed == (f.sector + 1) % ClusterSize = 0
  <2>1. f \in Cursors /\ f.cluster \in Links /\ f.sector < MaxSector
        /\ IsOpen(c)
    BY <1>3 DEF FileNextSectorExpand, TypeOK, Cursors
  <2>2. f.cluster \in Entries => Sector(f.cluster) \in FatSectors
                                 /\ Offset(f.cluster) \in 0 .. PerSector - 1
    BY SectorOffset
  <2>3. f.cluster \in Entries =>
          Load(Sector(f.cluster)) \in [0 .. PerSector - 1 -> Links]
    BY <2>2, LoadType
  <2>4. PICK link \in IF ~crossed THEN {f.cluster}
                       ELSE IF f.cluster \in Entries
                       THEN {Load(Sector(f.cluster))[Offset(f.cluster)]}
                       ELSE Links :
          /\ file' = [file EXCEPT ![c].sector = @ + 1, ![c].cluster = link]
          /\ op' = IF link # EOC THEN Idle
                   ELSE [Idle EXCEPT !.at = "alloc", !.then = "link",
                                     !.who = c, !.prev = f.cluster]
    BY <1>3 DEF FileNextSectorExpand
  <2>14. link \in Links
    BY <2>1, <2>2, <2>3, <2>4
  <2>5. /\ fat_buffer' \in [0 .. PerSector - 1 -> Links]
        /\ buffered_fat_index' \in FatSectors \cup {None}
    BY <1>3, <2>2, <2>3 DEF FileNextSectorExpand, TypeOK, buffering
  <2>6. file' = [file EXCEPT ![c] = [f EXCEPT !.sector = @ + 1, !.cluster = link]]
    BY <2>4
  <2>7. [f EXCEPT !.sector = @ + 1, !.cluster = link] \in Cursors
    <3>1. f.sector + 1 \in 0 .. MaxSector
      BY <2>1, FatChainAssumption DEF Cursors
    <3>2. QED
      BY <2>1, <2>14, <3>1 DEF Cursors
  <2>8. file' \in [Clients -> Cursors]
    BY <2>6, <2>7 DEF TypeOK
  <2>9. op' \in OpType
    BY <2>1, <2>4 DEF OpType, Ats, Idle
  <2>10. TypeOK'
    BY <1>3, <2>5, <2>8, <2>9
    DEF TypeOK, OpType, FileNextSectorExpand, medium, history
  <2>11. \A d \in Clients : file'[d].name = file[d].name
    BY <2>1, <2>6 DEF TypeOK, Cursors
  <2>12. OpInv'
    <3>1. \A d, e \in Clients :
            file'[d].name # None /\ file'[d].name = file'[e].name => d = e
      BY <2>11 DEF OpInv
    <3>2. ~stray /\ stray' = stray
      BY <1>3 DEF FileNextSectorExpand, Ready, history
    <3>3. CASE link = EOC
      <4>1. op'.at = "alloc" /\ op'.then = "link" /\ op'.who = c
            /\ op'.copy = 0
        BY <2>4, <3>3 DEF Idle
      <4>2. QED
        BY <2>1, <2>11, <3>1, <3>2, <4>1 DEF OpInv, Allocating, Trimming, who
    <3>4. CASE link # EOC
      <4>1. op' = Idle
        BY <2>4, <3>4
      <4>2. QED
        BY <3>1, <3>2, <4>1 DEF OpInv, Allocating, Trimming, who, Idle
    <3>5. QED
      BY <3>3, <3>4
  <2>13. QED
    BY <2>10, <2>12
<1>4. ASSUME NEW c \in Clients, FileWriteEnd(c)
      PROVE  TypeOK' /\ OpInv'
  <2>1. op' \in OpType
    BY <1>4 DEF FileWriteEnd, OpType, Ats, Idle
  <2>2. TypeOK'
    BY <1>4, <2>1
    DEF FileWriteEnd, TypeOK, OpType, medium, buffering, history
  <2>3. OpInv'
    BY <1>4
    DEF FileWriteEnd, OpInv, medium, buffering, history, Ready, Idle,
        Allocating, Trimming, who
  <2>4. QED
    BY <2>2, <2>3
<1>5. ASSUME NEW c \in Clients, Abandon(c)
      PROVE  TypeOK' /\ OpInv'
  <2>1. file' \in [Clients -> Cursors] /\ abandons' \in Nat
    BY <1>5 DEF Abandon, TypeOK
  <2>2. TypeOK'
    BY <1>5, <2>1 DEF Abandon, TypeOK, medium, buffering
  <2>3. OpInv'
    BY <1>5, <2>1
    DEF Abandon, TypeOK, OpInv, medium, buffering, Ready, Idle, Closed,
        Allocating, Trimming, who
  <2>4. QED
    BY <2>2, <2>3
<1>6. QED
  BY <1>1, <1>2, <1>3, <1>4, <1>5 DEF Call

LEMMA CursorSet ==
    ASSUME NEW f \in Cursors, NEW l \in Links, NEW n \in Int
    PROVE  LET g == [f EXCEPT !.cluster = l, !.cluster_change = n]
           IN  g \in Cursors /\ g.name = f.name
<1>1. [f EXCEPT !.cluster = l] \in Cursors /\ [f EXCEPT !.cluster = l].name = f.name
  BY DEF Cursors
<1>2. \A h \in Cursors : [h EXCEPT !.cluster_change = n] \in Cursors
                        /\ [h EXCEPT !.cluster_change = n].name = h.name
  BY DEF Cursors
<1>3. QED
  BY <1>1, <1>2

LEMMA FailType ==
    ASSUME TypeOK, OpInv, Fail
    PROVE  /\ file' \in [Clients -> Cursors] /\ op' = Idle
           /\ \A c \in Clients : file'[c].name \in {file[c].name, None}
<1>1. Closed \in Cursors /\ 0 \in Links /\ Closed.name = None
  BY Basics DEF Closed
<1>2. CASE op.then \in {"entry", "trimmed"}
  BY <1>1, <1>2 DEF Fail, TypeOK
<1>3. CASE op.then = "link"
  <2>1. file' = [file EXCEPT ![who].cluster = 0]
    BY <1>3 DEF Fail
  <2>2. \A c \in Clients : file[c] \in Cursors
                          /\ [file[c] EXCEPT !.cluster = 0] \in Cursors
    <3>1. \A c \in Clients : file[c] \in Cursors
      BY DEF TypeOK
    <3>2. \A f \in Cursors : [f EXCEPT !.cluster = 0] \in Cursors
      BY <1>1 DEF Cursors
    <3>3. QED
      BY <3>1, <3>2
  <2>3. \A c \in Clients : [file[c] EXCEPT !.cluster = 0].name = file[c].name
    BY <2>2 DEF Cursors
  <2>4. file \in [Clients -> Cursors] /\ op' = Idle
    BY DEF Fail, TypeOK
  <2>5. file' = [c \in Clients |-> IF c = who THEN [file[c] EXCEPT !.cluster = 0]
                                  ELSE file[c]]
    BY <2>1, <2>4
  <2> HIDE DEF who
  <2>6. QED
    BY <2>2, <2>3, <2>4, <2>5
<1>4. CASE op.then \notin {"entry", "trimmed", "link"}
  BY <1>4 DEF Fail, TypeOK
<1>5. QED
  BY <1>2, <1>3, <1>4 DEF Fail

(* A call is over: nothing is asked of op, and files may have been closed. *)
LEMMA OverInv ==
    ASSUME OpInv, op' = Idle,
           \A c \in Clients : file'[c].name \in {file[c].name, None}
    PROVE  OpInv'
<1>1. \A c, d \in Clients :
        file'[c].name # None /\ file'[c].name = file'[d].name => c = d
  BY DEF OpInv, IsOpen
<1>2. QED
  BY <1>1 DEF OpInv, IsOpen, Idle, Allocating, Trimming

(* It goes on, and the files that are open stay so.                        *)
LEMMA OnInv ==
    ASSUME OpInv, op.at # "idle", op'.at # "idle", op'.who = op.who,
           \A c \in Clients : file'[c].name = file[c].name,
           op'.at = "alloc" => Allocating',
           op'.at = "save" =>
             /\ Allocating' \/ Trimming' \/ op'.then = "idle"
             /\ buffered_fat_index' # None,
           op'.at \in {"entry", "link", "trimmed"} => op'.then = op'.at,
           op'.at \in {"trim", "info"} => op'.then = "idle",
           op'.at # "save" => op'.copy = 0,
           Allocating' => Allocating /\ stray' = stray,
           Allocating' /\ op'.at # "alloc" => op'.cluster \in Entries
    PROVE  OpInv'
<1>1. who \in Clients /\ IsOpen(who) /\ who' = who
  BY DEF OpInv, who
<1>2. who' \in Clients /\ IsOpen(who)'
  BY <1>1 DEF IsOpen
<1>3. \A c, d \in Clients :
        IsOpen(c)' /\ file'[c].name = file'[d].name => c = d
  BY DEF OpInv, IsOpen
<1>4. Allocating' => ~stray'
  BY DEF OpInv
<1>5. QED
  BY <1>2, <1>3, <1>4 DEF OpInv

LEMMA StepType ==
    ASSUME TypeOK, OpInv, Step
    PROVE  TypeOK' /\ OpInv'
<1> USE Basics
<1>0. op \in OpType /\ file \in [Clients -> Cursors]
  BY DEF TypeOK, OpType
<1>1. CASE Allocate
  <2> DEFINE e == First(FreeEntries)
  <2>1. e \in Entries
    BY <1>1, FirstFree DEF Allocate, FreeEntries
  <2>2. Took(e) /\ op' = [op EXCEPT !.at = "save", !.cluster = e]
    BY <1>1 DEF Allocate, Took
  <2> HIDE DEF e
  <2>3. /\ fat_buffer' \in [0 .. PerSector - 1 -> Links]
        /\ buffered_fat_index' \in FatSectors
    BY <2>1, <2>2, EnterType
  <2>4. op' \in OpType
    BY <1>0, <2>1, <2>2 DEF OpType, Links, Ats
  <2>5. TypeOK'
    BY <1>1, <2>3, <2>4 DEF Allocate, TypeOK, OpType, medium, history
  <2>6. buffered_fat_index' # None
    BY <2>3 DEF FatSectors, None
  <2>7. OpInv'
    <3>1. op.at = "alloc" /\ UNCHANGED <<file, stray>>
      BY <1>1 DEF Allocate, history
    <3>2. op'.at = "save" /\ op'.who = op.who /\ op'.then = op.then
          /\ op'.cluster = e
      BY <1>0, <2>2 DEF OpType
    <3>3. Allocating /\ Allocating'
      BY <3>1, <3>2 DEF OpInv, Allocating
    <3>4. QED
      BY <2>1, <2>6, <3>1, <3>2, <3>3, OnInv
  <2>8. QED
    BY <2>5, <2>7
<1>2. CASE AllocateNone
  <2>1. FatSize - 1 \in FatSectors
    BY FatChainAssumption DEF FatSectors
  <2>2. fat_buffer' \in [0 .. PerSector - 1 -> Links]
    BY <1>2, <2>1, LoadType DEF AllocateNone
  <2>3. file' \in [Clients -> Cursors] /\ op' = Idle
        /\ \A c \in Clients : file'[c].name \in {file[c].name, None}
    BY <1>2, FailType DEF AllocateNone
  <2>4. TypeOK'
    BY <1>2, <2>1, <2>2, <2>3 DEF AllocateNone, TypeOK, OpType, medium
  <2>5. QED
    BY <2>3, <2>4, OverInv
<1>3. CASE FatSave
  <2>1. disk' \in [Copies -> [Entries -> Links]]
    <3>1. \A e \in Entries : Offset(e) \in 0 .. PerSector - 1
      BY SectorOffset
    <3>2. [e \in Entries |-> IF Sector(e) = buffered_fat_index
                             THEN fat_buffer[Offset(e)]
                             ELSE disk[op.copy][e]] \in [Entries -> Links]
      BY <1>0, <3>1 DEF TypeOK, OpType
    <3>3. QED
      BY <1>3, <3>2 DEF FatSave, TypeOK
  <2>2. op.copy + 1 < FatNumber => op.copy + 1 \in Copies
    BY <1>0, FatChainAssumption DEF OpType, Copies
  <2>3. op.at = "save"
    BY <1>3 DEF FatSave
  <2>4. \/ op.copy + 1 < FatNumber /\ op' = [op EXCEPT !.copy = op.copy + 1]
        \/ op' = Idle
        \/ op.then # "idle" /\ op' = [op EXCEPT !.at = op.then, !.copy = 0]
    BY <1>3, Zenon DEF FatSave
  <2>5. op' \in OpType
    <3>1. op.then \in Ats /\ op.copy \in Copies
      BY <1>0 DEF OpType
    <3>2. \A k \in Copies : [op EXCEPT !.copy = k] \in OpType
      BY <1>0 DEF OpType
    <3>3. [op EXCEPT !.at = op.then, !.copy = 0] \in OpType
      BY <1>0, <3>1 DEF OpType
    <3>4. QED
      BY <2>2, <2>4, <3>2, <3>3
  <2>6. TypeOK'
    BY <1>3, <2>1, <2>5 DEF FatSave, TypeOK, OpType, buffering, history
  <2>7. UNCHANGED <<file, stray, buffered_fat_index>>
    BY <1>3 DEF FatSave, buffering, history
  <2>8. /\ Allocating \/ Trimming \/ op.then = "idle"
        /\ buffered_fat_index' # None
        /\ Allocating => op.cluster \in Entries
    BY <2>3, <2>7 DEF OpInv
  <2>9. OpInv'
    <3>1. CASE op' = Idle
      BY <2>7, <3>1, OverInv
    <3>2. CASE op' = [op EXCEPT !.copy = op.copy + 1]
      <4>1. op'.at = "save" /\ op'.then = op.then /\ op'.who = op.who
            /\ op'.cluster = op.cluster
        BY <1>0, <2>3, <3>2 DEF OpType
      <4>2. Allocating' = Allocating /\ Trimming' = Trimming
        BY <4>1 DEF Allocating, Trimming
      <4>3. QED
        BY <2>3, <2>7, <2>8, <4>1, <4>2, OnInv
    <3>3. CASE op.then # "idle" /\ op' = [op EXCEPT !.at = op.then, !.copy = 0]
      <4>1. op'.at = op.then /\ op'.then = op.then /\ op'.who = op.who
            /\ op'.cluster = op.cluster /\ op'.copy = 0
        BY <1>0, <3>3 DEF OpType
      <4>2. Allocating' = Allocating
        BY <4>1 DEF Allocating
      <4>3. op.then \in {"entry", "link", "trimmed"}
        BY <2>8, <3>3 DEF Allocating, Trimming
      <4>4. QED
        BY <2>3, <2>7, <2>8, <4>1, <4>2, <4>3, OnInv
    <3>4. QED
      BY <2>4, <3>1, <3>2, <3>3
  <2>10. QED
    BY <2>6, <2>9
<1>4. CASE FatSaveFails
  <2>1. failed' \in BOOLEAN /\ faults' \in Nat
    BY <1>4 DEF FatSaveFails, TypeOK
  <2>2. CASE Fail
    <3>1. file' \in [Clients -> Cursors] /\ op' = Idle
          /\ \A c \in Clients : file'[c].name \in {file[c].name, None}
      BY <2>2, FailType
    <3>2. TypeOK'
      BY <1>4, <2>1, <3>1 DEF FatSaveFails, TypeOK, OpType, medium, buffering
    <3>3. QED
      BY <3>1, <3>2, OverInv
  <2>3. CASE op.then = "entry" /\ op' = [op EXCEPT !.at = "alloc", !.copy = 0]
             /\ UNCHANGED file
    <3>1. op' \in OpType
      BY <1>0, <2>3 DEF OpType, Ats
    <3>2. TypeOK'
      BY <1>4, <2>1, <2>3, <3>1
      DEF FatSaveFails, TypeOK, OpType, medium, buffering
    <3>3. op'.at = "alloc" /\ op'.then = op.then /\ op'.who = op.who
          /\ op'.copy = 0
      BY <1>0, <2>3 DEF OpType
    <3>4. op.at = "save" /\ stray' = stray
      BY <1>4 DEF FatSaveFails
    <3>5. OpInv'
      BY <2>3, <3>3, <3>4, OnInv DEF Allocating, Trimming
    <3>6. QED
      BY <3>2, <3>5
  <2>4. QED
    BY <1>4, <2>2, <2>3 DEF FatSaveFails
<1>5. CASE WriteEntry
  <2>1. op.at = "entry" /\ op.then = "entry" /\ op.cluster \in Entries
        /\ who \in Clients /\ file[who].name \in Names
    BY <1>0, <1>5 DEF WriteEntry, OpInv, Allocating, IsOpen, Cursors
  <2>2. dir' \in [Names -> Entries \cup {None}]
    BY <1>5, <2>1 DEF WriteEntry, TypeOK
  <2>3. LET g == [file[who] EXCEPT !.cluster = op.cluster, !.cluster_change = 1]
        IN  g \in Cursors /\ g.name = file[who].name
    <3>1. file[who] \in Cursors /\ op.cluster \in Links /\ 1 \in Int
      BY <1>0, <2>1 DEF Links
    <3>2. QED
      BY <3>1, CursorSet
  <2>4. file' = [file EXCEPT ![who] = [file[who] EXCEPT !.cluster = op.cluster,
                                                       !.cluster_change = 1]]
    BY <1>5 DEF WriteEntry
  <2>5. file' \in [Clients -> Cursors]
        /\ \A c \in Clients : file'[c].name = file[c].name
    BY <1>0, <2>1, <2>3, <2>4
  <2>6. op' = Idle
    BY <1>5 DEF WriteEntry
  <2>7. TypeOK'
    BY <1>5, <2>2, <2>5, <2>6 DEF WriteEntry, TypeOK, OpType, buffering, history
  <2>8. QED
    BY <2>5, <2>6, <2>7, OverInv
<1>6. CASE AppendCluster
  <2>1. op.at = "link" /\ op.then = "link" /\ op.cluster \in Entries
        /\ who \in Clients /\ op.prev \in Entries
    BY <1>6 DEF AppendCluster, OpInv, Allocating
  <2>2. /\ fat_buffer' \in [0 .. PerSector - 1 -> Links]
        /\ buffered_fat_index' \in FatSectors
    BY <1>6, <2>1, EnterType DEF AppendCluster, Links
  <2>3. LET g == [file[who] EXCEPT !.cluster = op.cluster,
                      !.cluster_change = file[who].cluster_change + 1]
        IN  g \in Cursors /\ g.name = file[who].name
    <3>1. file[who] \in Cursors /\ file[who].cluster_change + 1 \in Int
      BY <1>0, <2>1 DEF Cursors
    <3>2. op.cluster \in Links
      BY <2>1 DEF Links
    <3>3. QED
      BY <3>1, <3>2, CursorSet
  <2>4. file' = [file EXCEPT ![who] =
                   [file[who] EXCEPT !.cluster = op.cluster,
                       !.cluster_change = file[who].cluster_change + 1]]
    BY <1>6 DEF AppendCluster
  <2>5. file' \in [Clients -> Cursors]
        /\ \A c \in Clients : file'[c].name = file[c].name
    BY <1>0, <2>1, <2>3, <2>4
  <2>6. op' = [op EXCEPT !.at = "save", !.then = "idle"]
    BY <1>6 DEF AppendCluster
  <2>7. op' \in OpType /\ op'.at = "save" /\ op'.then = "idle"
        /\ op'.who = op.who
    BY <1>0, <2>6 DEF OpType, Ats
  <2>8. TypeOK'
    BY <1>6, <2>2, <2>5, <2>7 DEF AppendCluster, TypeOK, OpType, medium, history
  <2>9. buffered_fat_index' # None /\ stray' = stray
    BY <1>6, <2>2 DEF FatSectors, None, AppendCluster, history
  <2>10. OpInv'
    BY <2>1, <2>5, <2>7, <2>9, OnInv DEF Allocating, Trimming
  <2>11. QED
    BY <2>8, <2>10
<1>7. CASE Trim
  <2>1. op.at = "trim" /\ who \in Clients /\ file[who].cluster \in Entries
    BY <1>7 DEF Trim, OpInv
  <2>2. op.marker \in Links
    BY <1>0 DEF OpType
  <2>3. /\ fat_buffer' \in [0 .. PerSector - 1 -> Links]
        /\ buffered_fat_index' \in FatSectors
    BY <1>7, <2>1, <2>2, EnterType DEF Trim
  <2>4. Load(Sector(file[who].cluster))[Offset(file[who].cluster)] \in Links
    BY <2>1, SectorOffset, LoadType
  <2>5. op' = [op EXCEPT !.at = "save", !.then = "trimmed",
                 !.cluster = Load(Sector(file[who].cluster))
                                 [Offset(file[who].cluster)]]
    BY <1>7 DEF Trim
  <2>6. op' \in OpType /\ op'.at = "save" /\ op'.then = "trimmed"
        /\ op'.who = op.who
    BY <1>0, <2>4, <2>5 DEF OpType, Ats
  <2>8. TypeOK'
    BY <1>7, <2>3, <2>6 DEF Trim, TypeOK, OpType, medium, history
  <2>9. buffered_fat_index' # None /\ UNCHANGED file
    BY <1>7, <2>3 DEF FatSectors, None, Trim
  <2>10. OpInv'
    BY <2>1, <2>6, <2>9, OnInv DEF Allocating, Trimming
  <2>11. QED
    BY <2>8, <2>10
<1>8. CASE Trimmed
  <2>1. op.at = "trimmed" /\ who \in Clients
    BY <1>8 DEF Trimmed, OpInv
  <2>2. op.cluster \in Links
    BY <1>0 DEF OpType
  <2>3. LET g == [file[who] EXCEPT !.cluster = op.cluster,
                      !.cluster_change = IF op.marker = 0
                                         THEN file[who].cluster_change - 1
                                         ELSE file[who].cluster_change]
        IN  g \in Cursors /\ g.name = file[who].name
    <3>1. file[who] \in Cursors
          /\ (IF op.marker = 0 THEN file[who].cluster_change - 1
              ELSE file[who].cluster_change) \in Int
      BY <1>0, <2>1 DEF Cursors
    <3>2. QED
      BY <2>2, <3>1, CursorSet
  <2>4. file' = [file EXCEPT ![who] =
                   [file[who] EXCEPT !.cluster = op.cluster,
                      !.cluster_change = IF op.marker = 0
                                         THEN file[who].cluster_change - 1
                                         ELSE file[who].cluster_change]]
    BY <1>8 DEF Trimmed
  <2>5. file' \in [Clients -> Cursors]
        /\ \A c \in Clients : file'[c].name = file[c].name
    BY <1>0, <2>1, <2>3, <2>4
  <2>6. op' = [op EXCEPT !.at = IF op.cluster = EOC THEN "info" ELSE "trim",
                         !.then = "idle", !.marker = 0]
    BY <1>8 DEF Trimmed
  <2>7. op' \in OpType /\ op'.at \in {"trim", "info"} /\ op'.then = "idle"
        /\ op'.who = op.who /\ op'.copy = op.copy
    BY <1>0, <2>6 DEF OpType, Ats
  <2>8. TypeOK'
    BY <1>8, <2>5, <2>7 DEF Trimmed, TypeOK, OpType, medium, buffering, history
  <2>9. op.copy = 0
    BY <2>1 DEF OpInv
  <2>10. OpInv'
    BY <2>1, <2>5, <2>7, <2>9, OnInv DEF Allocating, Trimming
  <2>11. QED
    BY <2>8, <2>10
<1>9. CASE ChangeOutside
  <2>1. file' = [file EXCEPT ![who] = Closed] /\ op' = Idle /\ stray' = TRUE
    BY <1>9 DEF ChangeOutside
  <2>2. file' \in [Clients -> Cursors]
        /\ \A c \in Clients : file'[c].name \in {file[c].name, None}
    BY <1>0, <2>1 DEF Closed
  <2>3. TypeOK'
    BY <1>9, <2>1, <2>2 DEF ChangeOutside, TypeOK, OpType, medium, buffering
  <2>4. QED
    BY <2>1, <2>2, <2>3, OverInv
<1>10. CASE WriteInfo
  <2>1. who \in Clients
    BY <1>10 DEF WriteInfo, OpInv
  <2>2. file[who].cluster_change \in Int /\ free_clusters \in Int
    BY <1>0, <2>1 DEF Cursors, TypeOK
  <2>3. free_clusters' \in Int
    BY <1>10, <2>2 DEF WriteInfo
  <2>4. file' = [file EXCEPT ![who] = Closed] /\ op' = Idle
    BY <1>10 DEF WriteInfo
  <2>5. file' \in [Clients -> Cursors]
        /\ \A c \in Clients : file'[c].name \in {file[c].name, None}
    BY <1>0, <2>4 DEF Closed
  <2>6. TypeOK'
    BY <1>10, <2>3, <2>4, <2>5
    DEF WriteInfo, TypeOK, OpType, buffering, history
  <2>7. QED
    BY <2>4, <2>5, <2>6, OverInv
<1>11. CASE EntryOrInfoFails
  <2>1. file' = [file EXCEPT ![who] = Closed] /\ op' = Idle /\ UNCHANGED stray
    BY <1>11 DEF EntryOrInfoFails
  <2>2. file' \in [Clients -> Cursors]
        /\ \A c \in Clients : file'[c].name \in {file[c].name, None}
    BY <1>0, <2>1 DEF Closed
  <2>3. faults' \in Nat
    BY <1>11 DEF EntryOrInfoFails, TypeOK
  <2>4. TypeOK'
    BY <1>11, <2>1, <2>2, <2>3
    DEF EntryOrInfoFails, TypeOK, OpType, medium, buffering
  <2>5. QED
    BY <2>1, <2>2, <2>4, OverInv
<1>12. QED
  BY <1>1, <1>2, <1>3, <1>4, <1>5, <1>6, <1>7, <1>8, <1>9, <1>10, <1>11 DEF Step

LEMMA CrashType ==
    ASSUME TypeOK, OpInv, Crash
    PROVE  TypeOK' /\ OpInv'
<1>1. file' = [c \in Clients |-> Closed] /\ op' = Idle
      /\ buffered_fat_index' = None /\ crashes' \in Nat
  BY DEF Crash, TypeOK
<1>2. file' \in [Clients -> Cursors]
      /\ \A c \in Clients : file'[c].name \in {file[c].name, None}
  BY <1>1, Basics DEF Closed
<1>3. TypeOK'
  BY <1>1, <1>2, Basics DEF Crash, TypeOK, OpType, medium
<1>4. QED
  BY <1>1, <1>2, <1>3, OverInv

LEMMA TypeStep ==
    ASSUME TypeOK, OpInv, [Next]_vars
    PROVE  TypeOK' /\ OpInv'
<1>1. CASE UNCHANGED vars
  BY <1>1
  DEF vars, medium, buffering, history, TypeOK, OpInv, IsOpen, who,
      Allocating, Trimming
<1>2. QED
  BY <1>1, CallType, StepType, CrashType DEF Next

-----------------------------------------------------------------------------
(* Links: what each change of one entry keeps.                             *)

LEMMA TakeFree ==
    ASSUME NEW f \in [Entries -> Links], Good(f), NEW z \in Clusters, f[z] = 0
    PROVE  LET g == [f EXCEPT ![z] = EOC]
           IN  Good(g) /\ InUse(g, z) /\ Unlinked(g, z) /\ Unlinked(f, z)
<1> DEFINE g == [f EXCEPT ![z] = EOC]
<1> USE Basics DEF InUse
<1>1. \A c \in Clusters : g[c] = IF c = z THEN EOC ELSE f[c]
  OBVIOUS
<1>2. EOC \notin Clusters /\ EOC # 0
  OBVIOUS
<1>3. ~InUse(f, z)
  BY <1>2
<1>4. Unlinked(f, z)
  <2>1. \A d \in Clusters : f[d] # z
    BY <1>3 DEF Good, TargetsUsed
  <2>2. \A n \in Names : dir[n] # z
    BY <1>3 DEF Good, StartsOwned, None, Clusters
  <2>3. QED
    BY <2>1, <2>2 DEF Unlinked
<1> HIDE DEF g
<1>5. TargetsUsed(g)
  BY <1>1, <1>2 DEF Good, TargetsUsed
<1>6. LinksInjective(g)
  BY <1>1, <1>2 DEF Good, LinksInjective
<1>7. StartsOwned(g, dir)
  BY <1>1, <1>2, <1>4 DEF Good, StartsOwned, Unlinked
<1>8. Unlinked(g, z) /\ InUse(g, z)
  BY <1>1, <1>2, <1>4 DEF Unlinked
<1>9. QED
  BY <1>4, <1>5, <1>6, <1>7, <1>8 DEF Good, g

LEMMA AddLink ==
    ASSUME NEW f \in [Entries -> Links], Good(f), NEW p \in Clusters,
           NEW z \in Clusters, InUse(f, z), Unlinked(f, z),
           NEW g, g = [f EXCEPT ![p] = z]
    PROVE  Good(g)
<1> USE Basics
<1>1. \A c \in Clusters : g[c] = IF c = p THEN z ELSE f[c]
  OBVIOUS
<1>2. TargetsUsed(g)
  BY <1>1 DEF Good, TargetsUsed, InUse
<1>3. LinksInjective(g)
  BY <1>1 DEF Good, LinksInjective, Unlinked
<1>4. StartsOwned(g, dir)
  BY <1>1 DEF Good, StartsOwned, Unlinked, InUse
<1>5. QED
  BY <1>2, <1>3, <1>4 DEF Good

LEMMA Cut ==
    ASSUME NEW f \in [Entries -> Links], Good(f), NEW e \in Clusters
    PROVE  LET g == [f EXCEPT ![e] = EOC]
           IN  Good(g) /\ (f[e] \in Clusters => Unlinked(g, f[e]))
<1> DEFINE g == [f EXCEPT ![e] = EOC]
<1> USE Basics DEF InUse
<1>1. \A c \in Clusters : g[c] = IF c = e THEN EOC ELSE f[c]
  OBVIOUS
<1>2. EOC \notin Clusters
  OBVIOUS
<1> HIDE DEF g
<1>3. TargetsUsed(g)
  BY <1>1, <1>2 DEF Good, TargetsUsed
<1>4. LinksInjective(g)
  BY <1>1, <1>2 DEF Good, LinksInjective
<1>5. StartsOwned(g, dir)
  BY <1>1, <1>2 DEF Good, StartsOwned
<1>6. ASSUME f[e] \in Clusters PROVE Unlinked(g, f[e])
  <2>1. \A d \in Clusters : g[d] # f[e]
    BY <1>1, <1>2, <1>6 DEF Good, LinksInjective
  <2>2. \A n \in Names : dir[n] # f[e]
    BY <1>6 DEF Good, StartsOwned, None, Clusters
  <2>3. QED
    BY <2>1, <2>2 DEF Unlinked
<1>7. QED
  BY <1>3, <1>4, <1>5, <1>6 DEF Good, g

LEMMA Release ==
    ASSUME NEW f \in [Entries -> Links], Good(f), NEW x \in Clusters,
           Unlinked(f, x)
    PROVE  LET g == [f EXCEPT ![x] = 0]
           IN  Good(g) /\ (f[x] \in Clusters => Unlinked(g, f[x]))
<1> DEFINE g == [f EXCEPT ![x] = 0]
<1> USE Basics DEF InUse
<1>1. \A c \in Clusters : g[c] = IF c = x THEN 0 ELSE f[c]
  OBVIOUS
<1> HIDE DEF g
<1>2. TargetsUsed(g)
  BY <1>1 DEF Good, TargetsUsed, Unlinked
<1>3. LinksInjective(g)
  BY <1>1 DEF Good, LinksInjective
<1>4. StartsOwned(g, dir)
  <2>1. \A n \in Names : dir[n] # x
    BY DEF Unlinked
  <2>2. \A n \in Names : dir[n] # None => dir[n] # 0
    BY DEF Good, StartsOwned
  <2>3. QED
    BY <1>1, <2>1, <2>2 DEF Good, StartsOwned
<1>5. ASSUME f[x] \in Clusters PROVE Unlinked(g, f[x])
  <2>1. \A d \in Clusters : g[d] # f[x]
    BY <1>1, <1>5 DEF Good, LinksInjective
  <2>2. \A n \in Names : dir[n] # f[x]
    BY <1>5 DEF Good, StartsOwned, None, Clusters
  <2>3. QED
    BY <2>1, <2>2 DEF Unlinked
<1>6. QED
  BY <1>2, <1>3, <1>4, <1>5 DEF Good, g

-----------------------------------------------------------------------------
(* LinkInv is kept by every step, as long as no allocation fails.          *)

(* The disk stays and the buffer changes as reading may change it: nothing *)
(* more is to be shown unless a call has begun to allocate or to trim.     *)
LEMMA LinkKeeps ==
    ASSUME LinkInv, See' \in {See, disk[0]}, UNCHANGED <<disk, dir>>,
           ~Saved', ~Trimming', Allocating' => op'.at = "alloc"
    PROVE  LinkInv'
<1>1. disk'[0] = disk[0] /\ dir' = dir /\ See' \in {See, disk[0]}
  OBVIOUS
<1>2. Good(disk[0])' /\ TailUsed(disk[0])'
  BY <1>1 DEF LinkInv, Good, TailUsed, TargetsUsed, LinksInjective,
              StartsOwned, InUse
<1>3. Good(See)' /\ TailUsed(See)'
  <2>1. CASE See' = See
    BY <1>1, <2>1 DEF LinkInv, Good, TailUsed, TargetsUsed, LinksInjective,
                      StartsOwned, InUse
  <2>2. CASE See' = disk[0]
    BY <1>1, <2>2 DEF LinkInv, Good, TailUsed, TargetsUsed, LinksInjective,
                      StartsOwned, InUse
  <2>3. QED
    BY <1>1, <2>1, <2>2
<1>4. ~(op'.at = "trim" /\ op'.marker = 0)
  BY DEF Saved
<1>5. QED
  BY <1>2, <1>3, <1>4 DEF LinkInv

(* A call only reads, and may begin to allocate or to trim.                *)
LEMMA CallSees ==
    ASSUME TypeOK, OpInv, Call
    PROVE  /\ UNCHANGED <<disk, dir>> /\ See' \in {See, disk[0]}
           /\ op = Idle
           /\ \/ op' = Idle
              \/ op'.at = "alloc" /\ op'.then \in {"entry", "link"}
              \/ /\ op'.at \in {"info", "trim"} /\ op'.then = "idle"
                 /\ op'.marker = EOC
<1>1. ASSUME UNCHANGED <<disk, fat_buffer, buffered_fat_index>>
      PROVE  See' = See
  BY <1>1 DEF See
<1>2. ASSUME NEW c \in Clients, NEW n \in Names, FileNew(c, n)
      PROVE  /\ UNCHANGED <<disk, dir, fat_buffer, buffered_fat_index>>
             /\ op = Idle
             /\ op' = Idle \/ (op'.at = "alloc" /\ op'.then = "entry")
  BY <1>2 DEF FileNew, medium, buffering, Idle, Ready
<1>3. ASSUME NEW c \in Clients, FileWrite(c) \/ Abandon(c)
      PROVE  /\ UNCHANGED <<disk, dir, fat_buffer, buffered_fat_index>>
             /\ op = Idle /\ op' = Idle
  BY <1>3 DEF FileWrite, Abandon, medium, buffering, Ready
<1>4. ASSUME NEW c \in Clients, FileNextSectorExpand(c)
      PROVE  /\ UNCHANGED <<disk, dir>> /\ See' \in {See, disk[0]}
             /\ op = Idle
             /\ op' = Idle \/ (op'.at = "alloc" /\ op'.then = "link")
  <2> DEFINE f == file[c]
  <2>1. /\ UNCHANGED <<disk, dir>> /\ op = Idle
        /\ op' = Idle \/ (op'.at = "alloc" /\ op'.then = "link")
    BY <1>4 DEF FileNextSectorExpand, medium, Idle, Ready
  <2>2. \/ UNCHANGED buffering
        \/ f.cluster \in Entries /\ fat_buffer' = Load(Sector(f.cluster))
           /\ buffered_fat_index' = Sector(f.cluster)
        \/ buffered_fat_index' = None
    BY <1>4 DEF FileNextSectorExpand
  <2>3. See' \in {See, disk[0]}
    BY <1>1, <2>1, <2>2, Loads, Forgets, SectorOffset DEF buffering
  <2>4. QED
    BY <2>1, <2>3
<1>5. ASSUME NEW c \in Clients, FileWriteEnd(c)
      PROVE  /\ UNCHANGED <<disk, dir, fat_buffer, buffered_fat_index>>
             /\ op = Idle /\ op'.at \in {"info", "trim"}
             /\ op'.then = "idle" /\ op'.marker = EOC
  BY <1>5 DEF FileWriteEnd, medium, buffering, Idle, Ready
<1>6. QED
  BY <1>1, <1>2, <1>3, <1>4, <1>5 DEF Call

LEMMA CallLinks ==
    ASSUME TypeOK, OpInv, LinkInv, Call
    PROVE  LinkInv'
<1>1. EOC # 0
  BY Basics
<1>2. ~Saved' /\ ~Trimming' /\ (Allocating' => op'.at = "alloc")
  BY <1>1, CallSees DEF Saved, Trimming, Allocating, Idle
<1>3. QED
  BY <1>2, CallSees, LinkKeeps

LEMMA TailKept ==
    ASSUME NEW f \in [Entries -> Links], TailUsed(f), NEW c \in Clusters,
           NEW l, NEW g, g = [f EXCEPT ![c] = l]
    PROVE  TailUsed(g)
<1>1. \A e \in Entries : e > LastCluster => e # c
  BY FatChainAssumption DEF Clusters, Entries
<1>2. QED
  BY <1>1 DEF TailUsed

LEMMA StepLinks ==
    ASSUME TypeOK, OpInv, LinkInv, Step, ~failed'
    PROVE  LinkInv'
<1> USE Basics
<1>0. /\ See \in [Entries -> Links] /\ disk[0] \in [Entries -> Links]
      /\ op \in OpType /\ file \in [Clients -> Cursors]
  BY SeeType DEF TypeOK, OpType
<1>a. ASSUME UNCHANGED <<disk, fat_buffer, buffered_fat_index>>
      PROVE  See' = See
  BY <1>a DEF See
<1>b. ASSUME op' = Idle
      PROVE  ~Saved' /\ ~Trimming' /\ ~Allocating'
  BY <1>b DEF Idle, Saved, Trimming, Allocating
<1>1. CASE Allocate
  <2> DEFINE e == First(FreeEntries)
  <2>1. e \in FreeEntries
    BY <1>1, FirstFree DEF Allocate
  <2>2. e \in Entries \ {0, 1} /\ Scanned(Sector(e))[Offset(e)] = 0
    BY <2>1 DEF FreeEntries
  <2>3. /\ Took(e) /\ op' = [op EXCEPT !.at = "save", !.cluster = e]
        /\ UNCHANGED <<disk, dir>> /\ op.at = "alloc"
    BY <1>1 DEF Allocate, Took, medium
  <2> HIDE DEF e
  <2>4. PICK base \in {See, disk[0]} : See' = [base EXCEPT ![e] = EOC]
                                       /\ base[e] = 0
    BY <2>2, <2>3, Takes
  <2>5. base \in [Entries -> Links] /\ Good(base) /\ TailUsed(base)
    BY <1>0 DEF LinkInv
  <2>6. e \in Clusters
    BY <2>2, <2>4, <2>5, FatChainAssumption DEF TailUsed, Clusters, Entries
  <2>7. Good(See') /\ InUse(See', e) /\ Unlinked(See', e)
    BY <2>4, <2>5, <2>6, TakeFree
  <2>8. TailUsed(See')
    BY <2>4, <2>5, <2>6, TailKept
  <2>9. op'.at = "save" /\ op'.cluster = e /\ op'.then = op.then
        /\ op'.copy = op.copy /\ op'.who = op.who
    BY <1>0, <2>3 DEF OpType
  <2>10. op.copy = 0 /\ Allocating
    BY <2>3 DEF OpInv
  <2>11. ~Saved' /\ ~Trimming'
    BY <2>9, <2>10 DEF Saved, Trimming, Allocating
  <2>12. QED
    BY <2>3, <2>6, <2>7, <2>8, <2>9, <2>11
    DEF LinkInv, Good, Unlinked, TailUsed, TargetsUsed, LinksInjective,
        StartsOwned, InUse
<1>2. CASE AllocateNone
  BY <1>2 DEF AllocateNone
<1>3. CASE FatSave
  <2>1. op.at = "save" /\ UNCHANGED <<dir, fat_buffer, buffered_fat_index, file>>
    BY <1>3 DEF FatSave, buffering
  <2>2. disk'[0] = See /\ See' = See
    <3>1. CASE op.copy = 0
      <4>1. disk'[0] = [e \in Entries |-> IF Sector(e) = buffered_fat_index
                                          THEN fat_buffer[Offset(e)]
                                          ELSE disk[0][e]]
        BY <1>3, <3>1 DEF FatSave, TypeOK
      <4>2. QED
        BY <2>1, <4>1, Saves DEF buffering
    <3>2. CASE op.copy # 0
      <4>1. disk'[0] = disk[0]
        BY <1>3, <3>2 DEF FatSave, TypeOK
      <4>2. See' = See
        BY <2>1, <4>1 DEF See
      <4>3. op.copy > 0
        BY <1>0, <3>2 DEF OpType, Copies
      <4>4. QED
        BY <2>1, <4>1, <4>2, <4>3 DEF LinkInv, Saved
    <3>3. QED
      BY <3>1, <3>2
  <2>3. \/ op' = Idle
        \/ op'.cluster = op.cluster /\ op'.then = op.then
           /\ op'.at \in {"save", "entry", "link", "trimmed"}
    <3>1. op.then \in {"idle", "entry", "link", "trimmed"}
      BY <2>1 DEF OpInv, Allocating, Trimming
    <3>2. QED
      BY <1>0, <1>3, <2>1, <3>1 DEF FatSave, OpType
  <2>4. Allocating' => Allocating /\ op'.cluster = op.cluster
    BY <1>b, <2>3 DEF Allocating
  <2>5. Trimming' => Trimming /\ op'.cluster = op.cluster
    BY <1>b, <2>3 DEF Trimming
  <2>6. op'.at # "trim"
    BY <2>3 DEF Idle
  <2>7. QED
    BY <2>1, <2>2, <2>4, <2>5, <2>6
    DEF LinkInv, Good, Unlinked, TailUsed, TargetsUsed, LinksInjective,
        StartsOwned, InUse
<1>4. CASE FatSaveFails
  <2>1. UNCHANGED <<disk, dir, fat_buffer, buffered_fat_index>>
    BY <1>4 DEF FatSaveFails, medium, buffering
  <2>2. op' = Idle
    BY <1>4 DEF FatSaveFails, Fail
  <2>3. QED
    BY <1>a, <1>b, <2>1, <2>2, LinkKeeps
<1>5. CASE WriteEntry
  <2>1. op.at = "entry" /\ op' = Idle /\ UNCHANGED <<disk, fat_buffer, buffered_fat_index>>
        /\ dir' = [dir EXCEPT ![file[who].name] = op.cluster]
    BY <1>5 DEF WriteEntry, buffering
  <2>2. op.then = "entry" /\ file[who].name \in Names
    BY <1>0, <2>1 DEF OpInv, IsOpen, Cursors
  <2>3. See' = See /\ See = disk[0]
    BY <1>a, <2>1 DEF LinkInv, Saved
  <2>4. op.cluster \in Clusters /\ InUse(See, op.cluster)
        /\ Unlinked(See, op.cluster)
    BY <2>1, <2>2 DEF LinkInv, Allocating
  <2>5. \A n \in Names : dir'[n] = IF n = file[who].name THEN op.cluster ELSE dir[n]
    BY <2>1 DEF TypeOK
  <2>6. StartsOwned(See, dir')
    BY <2>2, <2>4, <2>5 DEF LinkInv, Good, StartsOwned, Unlinked
  <2>7. QED
    BY <1>b, <2>1, <2>3, <2>6
    DEF LinkInv, Good, TailUsed, TargetsUsed, LinksInjective, StartsOwned,
        InUse, Idle
<1>6. CASE AppendCluster
  <2>1. op.at = "link" /\ op.prev \in Clusters /\ UNCHANGED <<disk, dir>>
        /\ Enter(op.prev, op.cluster)
        /\ op' = [op EXCEPT !.at = "save", !.then = "idle"]
    BY <1>6 DEF AppendCluster, medium
  <2>2. See = disk[0]
    BY <2>1 DEF LinkInv, Saved
  <2>3. See' = [disk[0] EXCEPT ![op.prev] = op.cluster]
    BY <2>1, <2>2, Enters
  <2>4. op.cluster \in Clusters /\ InUse(See, op.cluster)
        /\ Unlinked(See, op.cluster)
    BY <2>1 DEF LinkInv, OpInv, Allocating
  <2>5. Good(See')
    BY <1>0, <2>1, <2>2, <2>3, <2>4, AddLink DEF LinkInv
  <2>6. TailUsed(See')
    BY <1>0, <2>1, <2>3, TailKept DEF LinkInv
  <2>7. op'.at = "save" /\ op'.then = "idle" /\ op'.copy = op.copy
    BY <1>0, <2>1 DEF OpType
  <2>8. op.copy = 0
    BY <2>1 DEF OpInv
  <2>9. ~Saved' /\ ~Trimming' /\ ~Allocating'
    BY <2>7, <2>8 DEF Saved, Trimming, Allocating
  <2>10. QED
    BY <2>1, <2>5, <2>6, <2>7, <2>9
    DEF LinkInv, Good, Unlinked, TailUsed, TargetsUsed, LinksInjective,
        StartsOwned, InUse
<1>7. CASE Trim
  <2> DEFINE e == file[who].cluster
             base == IF buffered_fat_index = Sector(e) THEN See ELSE disk[0]
  <2>1. op.at = "trim" /\ e \in Clusters /\ UNCHANGED <<disk, dir, file>>
        /\ Enter(e, op.marker)
        /\ op' = [op EXCEPT !.at = "save", !.then = "trimmed",
                    !.cluster = Load(Sector(e))[Offset(e)]]
    BY <1>7 DEF Trim, medium
  <2>2. See' = [base EXCEPT ![e] = op.marker]
    BY <2>1, Enters
  <2>3. Load(Sector(e))[Offset(e)] = base[e]
    BY <2>1, LoadedEntry DEF See
  <2>4. base \in [Entries -> Links] /\ Good(base) /\ TailUsed(base)
    BY <1>0 DEF LinkInv
  <2>5. op'.at = "save" /\ op'.then = "trimmed" /\ op'.copy = op.copy
        /\ op'.cluster = base[e] /\ op.marker \in {0, EOC}
    BY <1>0, <2>1, <2>3 DEF OpType
  <2>6. op.marker = 0 => Unlinked(base, e)
    <3>1. op.marker = 0 => Unlinked(See, e) /\ See = disk[0]
      BY <2>1 DEF LinkInv, Saved
    <3>2. QED
      BY <3>1
  <2> HIDE DEF base
  <2>7. Good(See') /\ (base[e] \in Clusters => Unlinked(See', base[e]))
    <3>1. CASE op.marker = EOC
      BY <2>1, <2>2, <2>4, <3>1, Cut
    <3>2. CASE op.marker = 0
      BY <2>1, <2>2, <2>4, <2>6, <3>2, Release
    <3>3. QED
      BY <2>5, <3>1, <3>2
  <2>8. TailUsed(See')
    BY <2>1, <2>2, <2>4, TailKept
  <2>9. op.copy = 0
    BY <2>1 DEF OpInv
  <2>10. ~Saved' /\ ~Allocating'
    BY <2>5, <2>9 DEF Saved, Allocating
  <2>11. QED
    BY <2>1, <2>5, <2>7, <2>8, <2>10
    DEF LinkInv, Good, Unlinked, TailUsed, TargetsUsed, LinksInjective,
        StartsOwned, InUse
<1>8. CASE Trimmed
  <2>1. op.at = "trimmed" /\ UNCHANGED <<disk, dir, fat_buffer, buffered_fat_index>>
        /\ file'[who].cluster = op.cluster
    BY <1>0, <1>8 DEF Trimmed, medium, buffering, OpInv
  <2>2. op' = [op EXCEPT !.at = IF op.cluster = EOC THEN "info" ELSE "trim",
                         !.then = "idle", !.marker = 0]
    BY <1>8 DEF Trimmed
  <2>3. op'.at \in {"trim", "info"} /\ op'.then = "idle" /\ op'.who = op.who
    BY <1>0, <2>2 DEF OpType
  <2>4. op.then = "trimmed"
    BY <2>1 DEF OpInv
  <2>5. See = disk[0] /\ See' = See
        /\ (op.cluster \in Clusters => Unlinked(See, op.cluster))
    BY <1>a, <2>1, <2>4 DEF LinkInv, Saved, Trimming
  <2>6. ~Allocating' /\ ~Trimming'
    BY <2>3 DEF Allocating, Trimming
  <2>7. who' = who
    BY <2>3 DEF who
  <2>8. QED
    BY <2>1, <2>5, <2>6, <2>7
    DEF LinkInv, Good, Unlinked, TailUsed, TargetsUsed, LinksInjective,
        StartsOwned, InUse
<1>9. CASE ChangeOutside
  BY <1>9, <1>a, <1>b, LinkKeeps DEF ChangeOutside, medium, buffering
<1>10. CASE WriteInfo
  BY <1>10, <1>a, <1>b, LinkKeeps DEF WriteInfo, buffering
<1>11. CASE EntryOrInfoFails
  BY <1>11, <1>a, <1>b, LinkKeeps DEF EntryOrInfoFails, medium, buffering
<1>12. QED
  BY <1>1, <1>2, <1>3, <1>4, <1>5, <1>6, <1>7, <1>8, <1>9, <1>10, <1>11 DEF Step

(* A power failure empties the buffer.                                     *)
LEMMA LinkStep ==
    ASSUME TypeOK, OpInv, LinkInv, [Next]_vars, ~failed'
    PROVE  LinkInv'
<1>1. CASE Call
  BY <1>1, CallLinks
<1>2. CASE Step
  BY <1>2, StepLinks
<1>3. CASE Crash
  <2>1. UNCHANGED <<disk, dir>> /\ buffered_fat_index' = None /\ op' = Idle
    BY <1>3 DEF Crash, medium
  <2>2. See' = disk[0]
    BY <2>1, Forgets
  <2>3. ~Saved' /\ ~Trimming' /\ ~Allocating'
    BY <2>1 DEF Idle, Saved, Trimming, Allocating
  <2>4. QED
    BY <2>1, <2>2, <2>3, LinkKeeps
<1>4. CASE UNCHANGED vars
  <2>1. UNCHANGED <<disk, dir, fat_buffer, buffered_fat_index, op, file>>
    BY <1>4 DEF vars, medium, buffering
  <2>2. See' = See /\ who' = who
    BY <2>1 DEF See, who
  <2>3. QED
    BY <2>1, <2>2
    DEF LinkInv, Good, Unlinked, TailUsed, TargetsUsed, LinksInjective,
        StartsOwned, InUse, Saved, Trimming, Allocating
<1>5. QED
  BY <1>1, <1>2, <1>3, <1>4 DEF Next

LEMMA LinkInit ==
    ASSUME TypeOK, Init, TailUsed(InitFat)
    PROVE  LinkInv
<1>1. disk[0] = InitFat /\ dir = InitDir /\ op = Idle
      /\ buffered_fat_index = None
  BY Basics DEF Init
<1>2. See = InitFat
  <2>1. \A e \in Entries : See[e] = InitFat[e]
    BY <1>1, SectorOffset DEF See, FatSectors, None
  <2>2. QED
    BY <2>1, FatChainAssumption DEF See
<1>3. Good(InitFat)
  BY <1>1, CardAssumption DEF Good
<1>4. QED
  BY <1>1, <1>2, <1>3 DEF LinkInv, Idle, Saved, Trimming, Allocating

(* No trouble is forgotten.                                                *)
LEMMA TroublesStay ==
    ASSUME TypeOK, [Next]_vars
    PROVE  /\ ~failed' => ~failed
           /\ faults' = 0 => faults = 0
           /\ crashes' = 0 => crashes = 0
<1>1. CASE Call
  <2>1. ASSUME NEW c \in Clients, NEW n \in Names, FileNew(c, n)
        PROVE  UNCHANGED <<crashes, faults, failed>>
    BY <2>1 DEF FileNew, history
  <2>2. ASSUME NEW c \in Clients, FileNextSectorExpand(c)
        PROVE  UNCHANGED <<crashes, faults, failed>>
    BY <2>2 DEF FileNextSectorExpand, history
  <2>3. ASSUME NEW c \in Clients, FileWrite(c) \/ FileWriteEnd(c) \/ Abandon(c)
        PROVE  UNCHANGED <<crashes, faults, failed>>
    BY <2>3 DEF FileWrite, FileWriteEnd, Abandon, history
  <2>4. UNCHANGED <<crashes, faults, failed>>
    BY <1>1, <2>1, <2>2, <2>3 DEF Call
  <2>5. QED
    BY <2>4
<1>2. CASE FatSaveFails \/ EntryOrInfoFails
  BY <1>2 DEF FatSaveFails, EntryOrInfoFails, TypeOK
<1>3. CASE Step /\ ~FatSaveFails /\ ~EntryOrInfoFails
  <2>1. CASE Allocate \/ FatSave \/ WriteEntry \/ AppendCluster
    BY <2>1 DEF Allocate, FatSave, WriteEntry, AppendCluster, history
  <2>2. CASE Trim \/ Trimmed \/ ChangeOutside \/ WriteInfo
    BY <2>2 DEF Trim, Trimmed, ChangeOutside, WriteInfo, history
  <2>3. CASE AllocateNone
    BY <2>3 DEF AllocateNone
  <2>4. QED
    BY <1>3, <2>1, <2>2, <2>3 DEF Step
<1>4. CASE Crash
  BY <1>4 DEF Crash, TypeOK
<1>5. CASE UNCHANGED vars
  BY <1>5 DEF vars, history
<1>6. QED
  BY <1>1, <1>2, <1>3, <1>4, <1>5 DEF Next

-----------------------------------------------------------------------------
(* Chains.                                                                 *)

LEMMA ChainLeast ==
    ASSUME NEW fat, NEW start, NEW S, S \subseteq Clusters,
           start \in Clusters => start \in S,
           \A d \in S : fat[d] \in Clusters => fat[d] \in S
    PROVE  ChainOf(fat, start) \subseteq S
  BY DEF ChainOf

LEMMA ChainStart ==
    ASSUME NEW fat, NEW start \in Clusters
    PROVE  start \in ChainOf(fat, start)
  BY DEF ChainOf

LEMMA ChainNext ==
    ASSUME NEW fat, NEW start
    PROVE  /\ ChainOf(fat, start) \subseteq Clusters
           /\ \A d \in ChainOf(fat, start) :
                fat[d] \in Clusters => fat[d] \in ChainOf(fat, start)
  BY DEF ChainOf

(* All clusters of a chain are in use.                                     *)
LEMMA ChainUsed ==
    ASSUME NEW fat, TargetsUsed(fat), NEW start, InUse(fat, start)
    PROVE  \A c \in ChainOf(fat, start) : InUse(fat, c)
<1> DEFINE S == {c \in Clusters : InUse(fat, c)}
<1>1. start \in Clusters => start \in S
  OBVIOUS
<1>2. \A d \in S : fat[d] \in Clusters => fat[d] \in S
  BY DEF TargetsUsed
<1> HIDE DEF S
<1>3. ChainOf(fat, start) \subseteq S
  <2>1. S \subseteq Clusters
    BY DEF S
  <2>2. QED
    BY <1>1, <1>2, <2>1, ChainLeast
<1>4. QED
  BY <1>3 DEF S

(* A chain gets to a cluster other than the first by a link.               *)
LEMMA ChainBefore ==
    ASSUME NEW fat, NEW start, NEW c \in ChainOf(fat, start), c # start
    PROVE  \E d \in ChainOf(fat, start) : fat[d] = c
<1> SUFFICES ASSUME \A d \in ChainOf(fat, start) : fat[d] # c
             PROVE  FALSE
  OBVIOUS
<1> DEFINE S == ChainOf(fat, start) \ {c}
<1>1. S \subseteq Clusters
  BY ChainNext
<1>2. start \in Clusters => start \in S
  BY ChainStart
<1>3. \A d \in S : fat[d] \in Clusters => fat[d] \in S
  BY ChainNext
<1> HIDE DEF S
<1>4. ChainOf(fat, start) \subseteq S
  BY <1>1, <1>2, <1>3, ChainLeast
<1>5. QED
  BY <1>4 DEF S

LEMMA UnlinkedOut ==
    ASSUME NEW fat, NEW c, Unlinked(fat, c), NEW n \in Names
    PROVE  c \notin ChainOf(fat, dir[n])
<1> SUFFICES ASSUME c \in ChainOf(fat, dir[n]) PROVE FALSE
  OBVIOUS
<1>1. c # dir[n]
  BY DEF Unlinked
<1>2. PICK d \in ChainOf(fat, dir[n]) : fat[d] = c
  BY <1>1, ChainBefore
<1>3. QED
  BY <1>2, ChainNext DEF Unlinked

(* No cluster is in the chains of two files.                               *)
LEMMA ChainsApart ==
    ASSUME NEW fat, Good(fat), NEW n \in Names, NEW m \in Names, n # m,
           dir[n] # None, dir[m] # None
    PROVE  ChainOf(fat, dir[n]) \cap ChainOf(fat, dir[m]) = {}
<1> DEFINE S == ChainOf(fat, dir[n]) \ ChainOf(fat, dir[m])
<1>1. S \subseteq Clusters
  BY ChainNext
<1>2. dir[n] \in S
  <2>1. dir[n] \in Clusters /\ dir[n] # dir[m]
        /\ \A c \in Clusters : fat[c] # dir[n]
    BY DEF Good, StartsOwned
  <2>2. dir[n] \notin ChainOf(fat, dir[m])
    BY <2>1, ChainBefore, ChainNext
  <2>3. QED
    BY <2>1, <2>2, ChainStart
<1>3. ASSUME NEW d \in S, fat[d] \in Clusters
      PROVE  fat[d] \in S
  <2>1. fat[d] \in ChainOf(fat, dir[n]) /\ d \in Clusters
    BY <1>1, <1>3, ChainNext
  <2>2. SUFFICES ASSUME fat[d] \in ChainOf(fat, dir[m]) PROVE FALSE
    BY <2>1
  <2>3. fat[d] # dir[m]
    BY <2>1 DEF Good, StartsOwned
  <2>4. PICK e \in ChainOf(fat, dir[m]) : fat[e] = fat[d]
    BY <2>2, <2>3, ChainBefore
  <2>5. e = d
    BY <1>3, <2>1, <2>4, ChainNext DEF Good, LinksInjective
  <2>6. QED
    BY <2>4, <2>5
<1> HIDE DEF S
<1>4. ChainOf(fat, dir[n]) \subseteq S
  BY <1>1, <1>2, <1>3, ChainLeast
<1>5. QED
  BY <1>4 DEF S

(* A chain stays when its clusters stay; it only gets longer when its last *)
(* cluster gets a link.                                                    *)
LEMMA ChainGrows ==
    ASSUME NEW f, NEW g, NEW start,
           \A c \in ChainOf(f, start) : f[c] \in Clusters => g[c] = f[c]
    PROVE  ChainOf(f, start) \subseteq ChainOf(g, start)
<1> DEFINE S == ChainOf(f, start) \cap ChainOf(g, start)
<1>1. S \subseteq Clusters
  BY ChainNext
<1>2. start \in Clusters => start \in S
  BY ChainStart
<1>3. \A d \in S : f[d] \in Clusters => f[d] \in S
  BY ChainNext
<1> HIDE DEF S
<1>4. ChainOf(f, start) \subseteq S
  BY <1>1, <1>2, <1>3, ChainLeast
<1>5. QED
  BY <1>4 DEF S

-----------------------------------------------------------------------------
(* FileInv is kept by every step, while nothing fails.                     *)

(* FileInv of the next state, said of the variables one by one.            *)
LEMMA FileNext ==
    ASSUME ~stray',
           \A c \in Clients :
             file'[c].name # None /\ (op' = Idle \/ c # op'.who) =>
               Within(disk'[0], dir', file'[c].name, file'[c].cluster),
           op'.then = "entry" => dir'[file'[op'.who].name] = None,
           op'.then = "link" =>
             /\ Within(disk'[0], dir', file'[op'.who].name, op'.prev)
             /\ disk'[0][op'.prev] = EOC,
           op'.at = "trim" =>
             IF op'.marker = EOC
             THEN Within(disk'[0], dir', file'[op'.who].name,
                         file'[op'.who].cluster)
             ELSE file'[op'.who].cluster \in Clusters
                  /\ InUse(See', file'[op'.who].cluster),
           op'.then = "trimmed" =>
             /\ op'.cluster \in Clusters \cup {EOC}
             /\ op'.cluster \in Clusters => InUse(See', op'.cluster),
           op'.at = "save" /\ op'.then = "idle" /\ op'.copy > 0 =>
             Within(disk'[0], dir', file'[op'.who].name, file'[op'.who].cluster),
           AheadInv'
    PROVE  FileInv'
<1>1. CursorInv'
  BY DEF CursorInv, InItsFile, IsOpen, Within, ChainOf, who
<1>2. CallInv'
  BY DEF CallInv, InItsFile, Within, ChainOf, InUse, Trimming, who
<1>3. QED
  BY <1>1, <1>2 DEF FileInv

UnlinkedNext(c) ==
    (\A d \in Clusters : disk'[0][d] # c) /\ (\A n \in Names : dir'[n] # c)

LEMMA AheadNext ==
    ASSUME op'.at = "save" /\ op'.copy = 0 =>
             /\ op'.then \in {"entry", "link"} =>
                  /\ See' = [disk'[0] EXCEPT ![op'.cluster] = EOC]
                  /\ disk'[0][op'.cluster] = 0
             /\ op'.then = "idle" =>
                  /\ See' = [disk'[0] EXCEPT ![op'.prev] = file'[op'.who].cluster]
                  /\ Within(disk'[0], dir', file'[op'.who].name, op'.prev)
                  /\ disk'[0][op'.prev] = EOC
                  /\ file'[op'.who].cluster \in Clusters
             /\ op'.then = "trimmed" =>
                  /\ See' = [disk'[0] EXCEPT ![file'[op'.who].cluster] = op'.marker]
                  /\ disk'[0][file'[op'.who].cluster] = op'.cluster
                  /\ file'[op'.who].cluster \in Clusters
                  /\ IF op'.marker = EOC
                     THEN Within(disk'[0], dir', file'[op'.who].name,
                                 file'[op'.who].cluster)
                     ELSE UnlinkedNext(file'[op'.who].cluster),
           ~(op'.at = "save" /\ op'.copy = 0) => See' = disk'[0]
    PROVE  AheadInv'
  BY DEF AheadInv, Ahead, InItsFile, Within, ChainOf, Unlinked, UnlinkedNext,
         Allocating, Trimming, who

(* Nothing of the files and the FAT changes, and no call is being          *)
(* executed afterwards.                                                    *)
LEMMA FileRests ==
    ASSUME CursorInv, UNCHANGED <<disk, dir>>, ~stray', See' = disk[0],
           op' = Idle,
           \A c \in Clients : \/ file'[c].name = None
                              \/ file'[c] = file[c] /\ (op = Idle \/ c # who)
                              \/ Within(disk[0], dir, file'[c].name,
                                        file'[c].cluster)
    PROVE  FileInv'
<1>1. /\ op'.at = "idle" /\ op'.then = "idle"
  BY DEF Idle
<1>2. AheadInv'
  BY <1>1, AheadNext
<1>3. ASSUME NEW c \in Clients, file'[c].name # None
      PROVE  Within(disk'[0], dir', file'[c].name, file'[c].cluster)
  BY <1>3 DEF CursorInv, InItsFile, IsOpen
<1>4. QED
  BY <1>1, <1>2, <1>3, FileNext

LEMMA CallFiles ==
    ASSUME TypeOK, OpInv, LinkInv, FileInv, Call
    PROVE  FileInv'
<1> USE Basics
<1>0. /\ See \in [Entries -> Links] /\ disk[0] \in [Entries -> Links]
      /\ op \in OpType /\ file \in [Clients -> Cursors]
  BY SeeType DEF TypeOK, OpType
<1>a. ~stray /\ Good(disk[0]) /\ CursorInv /\ AheadInv
  BY DEF FileInv, LinkInv
<1>b. Ready => See = disk[0]
  BY <1>a DEF AheadInv, Ready, Idle
<1>c. ASSUME UNCHANGED <<disk, fat_buffer, buffered_fat_index>>
      PROVE  See' = See
  BY <1>c DEF See
<1>d. \A c \in Clients : Ready /\ IsOpen(c) =>
        InItsFile(c, file[c].cluster)
  BY <1>a DEF CursorInv, Ready
<1>1. ASSUME NEW c \in Clients, NEW n \in Names, FileNew(c, n)
      PROVE  FileInv'
  <2>1. /\ UNCHANGED <<disk, dir, fat_buffer, buffered_fat_index, stray>>
        /\ op = Idle /\ Ready
        /\ file' = [file EXCEPT ![c] = [Closed EXCEPT !.name = n,
                       !.cluster = IF dir[n] = None THEN 0 ELSE dir[n]]]
    BY <1>1 DEF FileNew, medium, buffering, history, Ready
  <2>2. See' = disk[0]
    BY <1>b, <1>c, <2>1
  <2>3. /\ \A d \in Clients \ {c} : file'[d] = file[d]
        /\ file'[c].name = n
        /\ dir[n] # None => file'[c].cluster = dir[n]
    BY <1>0, <2>1 DEF Closed
  <2>4. CASE dir[n] # None
    <3>1. op' = Idle
      BY <1>1, <2>4 DEF FileNew
    <3>2. dir[n] \in Clusters
      BY <1>a, <2>4 DEF Good, StartsOwned
    <3>3. Within(disk[0], dir, file'[c].name, file'[c].cluster)
      BY <2>3, <2>4, <3>2, ChainStart DEF Within
    <3>4. QED
      BY <1>a, <2>1, <2>2, <2>3, <3>1, <3>3, FileRests
  <2>5. CASE dir[n] = None
    <3>1. op'.at = "alloc" /\ op'.then = "entry" /\ op'.who = c
      BY <1>1, <2>5 DEF FileNew, Idle
    <3>2. AheadInv'
      BY <2>1, <2>2, <3>1, AheadNext
    <3>3. ASSUME NEW d \in Clients, file'[d].name # None,
                 op' = Idle \/ d # op'.who
          PROVE  Within(disk'[0], dir', file'[d].name, file'[d].cluster)
      <4>1. d # c
        BY <3>1, <3>3 DEF Idle
      <4>2. QED
        BY <1>d, <2>1, <2>3, <3>3, <4>1 DEF InItsFile, IsOpen
    <3>4. QED
      BY <1>a, <2>1, <2>3, <2>5, <3>1, <3>2, <3>3, FileNext
  <2>6. QED
    BY <2>4, <2>5
<1>2. ASSUME NEW c \in Clients, FileWrite(c)
      PROVE  FileInv'
  <2>1. /\ UNCHANGED <<disk, dir, fat_buffer, buffered_fat_index, op, file>>
        /\ op = Idle /\ Ready /\ IsOpen(c)
        /\ stray' = (stray \/ file[c].cluster \notin Chain(dir[file[c].name]))
    BY <1>2 DEF FileWrite, medium, buffering, Ready
  <2>2. file[c].cluster \in Chain(dir[file[c].name])
    BY <1>d, <2>1 DEF InItsFile, Within, Chain
  <2>3. ~stray'
    BY <1>a, <2>1, <2>2
  <2>4. QED
    BY <1>a, <1>b, <1>c, <2>1, <2>3, FileRests
<1>3. ASSUME NEW c \in Clients, FileNextSectorExpand(c)
      PROVE  FileInv'
  <2> DEFINE f == file[c]
             crossed == (f.sector + 1) % ClusterSize = 0
  <2>1. /\ UNCHANGED <<disk, dir, stray>> /\ op = Idle /\ Ready /\ IsOpen(c)
    BY <1>3 DEF FileNextSectorExpand, medium, history, Ready
  <2>2. /\ f.name \in Names /\ dir[f.name] # None
        /\ f.cluster \in ChainOf(disk[0], dir[f.name])
        /\ f.cluster \in Clusters /\ f.cluster \in Entries
    BY <1>0, <1>d, <2>1, ChainNext DEF InItsFile, Within, IsOpen, Cursors
  <2>3. InUse(disk[0], f.cluster)
    BY <1>a, <2>2, ChainUsed DEF Good, StartsOwned
  <2>4. See' = disk[0]
    <3>1. CASE crossed
      <4>1. fat_buffer' = Load(Sector(f.cluster))
            /\ buffered_fat_index' = Sector(f.cluster)
        BY <1>3, <2>2, <3>1 DEF FileNextSectorExpand
      <4>2. QED
        BY <1>b, <2>1, <2>2, <4>1, Loads, SectorOffset
    <3>2. CASE ~crossed
      <4>1. UNCHANGED buffering
        BY <1>3, <3>2 DEF FileNextSectorExpand
      <4>2. QED
        BY <1>b, <1>c, <2>1, <4>1 DEF buffering
    <3>3. QED
      BY <3>1, <3>2
  <2>5. PICK link \in {f.cluster, Load(Sector(f.cluster))[Offset(f.cluster)]} :
          /\ file' = [file EXCEPT ![c].sector = @ + 1, ![c].cluster = link]
          /\ op' = IF link # EOC THEN Idle
                   ELSE [Idle EXCEPT !.at = "alloc", !.then = "link",
                                     !.who = c, !.prev = f.cluster]
    BY <1>3, <2>2 DEF FileNextSectorExpand
  <2>6. link \in {f.cluster, disk[0][f.cluster]}
    BY <1>b, <2>1, <2>2, <2>5, LoadedEntry
  <2>7. /\ \A d \in Clients \ {c} : file'[d] = file[d]
        /\ file'[c].name = f.name /\ file'[c].cluster = link
    BY <1>0, <2>5 DEF Cursors
  <2>8. CASE link # EOC
    <3>1. link \in ChainOf(disk[0], dir[f.name])
      BY <2>2, <2>3, <2>6, <2>8, ChainNext DEF InUse
    <3>2. op' = Idle
      BY <2>5, <2>8
    <3>3. Within(disk[0], dir, file'[c].name, file'[c].cluster)
      BY <2>2, <2>7, <3>1 DEF Within
    <3>4. QED
      BY <1>a, <2>1, <2>4, <2>7, <3>2, <3>3, FileRests
  <2>9. CASE link = EOC
    <3>1. op'.at = "alloc" /\ op'.then = "link" /\ op'.who = c
          /\ op'.prev = f.cluster
      BY <2>5, <2>9 DEF Idle
    <3>2. disk[0][f.cluster] = EOC
      BY <2>2, <2>6, <2>9
    <3>3. AheadInv'
      BY <2>1, <2>4, <3>1, AheadNext
    <3>4. ASSUME NEW d \in Clients, file'[d].name # None,
                 op' = Idle \/ d # op'.who
          PROVE  Within(disk'[0], dir', file'[d].name, file'[d].cluster)
      <4>1. d # c
        BY <3>1, <3>4 DEF Idle
      <4>2. QED
        BY <1>d, <2>1, <2>7, <3>4, <4>1 DEF InItsFile, IsOpen
    <3>5. Within(disk'[0], dir', file'[op'.who].name, op'.prev)
      BY <2>1, <2>2, <2>7, <3>1 DEF Within
    <3>6. QED
      BY <1>a, <2>1, <3>1, <3>2, <3>3, <3>4, <3>5, FileNext
  <2>10. QED
    BY <2>8, <2>9
<1>4. ASSUME NEW c \in Clients, FileWriteEnd(c)
      PROVE  FileInv'
  <2>1. /\ UNCHANGED <<disk, dir, fat_buffer, buffered_fat_index, file, stray>>
        /\ op = Idle /\ Ready /\ IsOpen(c)
    BY <1>4 DEF FileWriteEnd, medium, buffering, history, Ready
  <2>2. InItsFile(c, file[c].cluster)
    BY <1>d, <2>1
  <2>3. file[c].cluster # EOC
    BY <2>2, ChainNext DEF InItsFile, Within
  <2>4. /\ op'.at = "trim" /\ op'.then = "idle" /\ op'.who = c
        /\ op'.marker = EOC
    BY <1>4, <2>3 DEF FileWriteEnd, Idle
  <2>5. AheadInv'
    BY <1>b, <1>c, <2>1, <2>4, AheadNext
  <2>6. \A d \in Clients : file'[d].name # None =>
          Within(disk'[0], dir', file'[d].name, file'[d].cluster)
    BY <1>d, <2>1 DEF InItsFile, IsOpen
  <2>7. file'[op'.who].name # None
    BY <2>1, <2>4 DEF IsOpen
  <2>8. QED
    BY <1>a, <2>1, <2>4, <2>5, <2>6, <2>7, FileNext
<1>5. ASSUME NEW c \in Clients, Abandon(c)
      PROVE  FileInv'
  <2>1. /\ UNCHANGED <<disk, dir, fat_buffer, buffered_fat_index, op, stray>>
        /\ op = Idle /\ Ready
        /\ file' = [file EXCEPT ![c] = Closed]
    BY <1>5 DEF Abandon, medium, buffering, Ready
  <2>2. \A d \in Clients : file'[d].name = None \/ file'[d] = file[d]
    BY <1>0, <2>1 DEF Closed
  <2>3. QED
    BY <1>a, <1>b, <1>c, <2>1, <2>2, FileRests
<1>6. QED
  BY <1>1, <1>2, <1>3, <1>4, <1>5 DEF Call

(* Saving a sector to the first copy changes no chain but that of the file *)
(* being written; that one gets longer when a cluster is appended.         *)
LEMMA ChainsSaved ==
    ASSUME TypeOK, OpInv, LinkInv, FileInv, FatSave, NEW n \in Names,
           dir[n] # None, n # file[who].name
    PROVE  /\ \A c \in ChainOf(disk[0], dir[n]) : disk'[0][c] = disk[0][c]
           /\ ChainOf(disk[0], dir[n]) \subseteq ChainOf(disk'[0], dir[n])
<1> USE Basics
<1>0. /\ See \in [Entries -> Links] /\ disk[0] \in [Entries -> Links]
      /\ op \in OpType /\ file \in [Clients -> Cursors]
  BY SeeType DEF TypeOK, OpType
<1>1. /\ op.at = "save" /\ Good(disk[0]) /\ AheadInv /\ CallInv
      /\ who \in Clients /\ file[who].name \in Names
  BY <1>0 DEF FatSave, LinkInv, FileInv, OpInv, IsOpen, Cursors
<1> DEFINE chain == ChainOf(disk[0], dir[n])
<1>2. SUFFICES \A c \in chain : disk'[0][c] = disk[0][c]
  BY <1>2, ChainGrows
<1>3. CASE op.copy # 0
  BY <1>0, <1>3 DEF FatSave, TypeOK
<1>4. CASE op.copy = 0
  <2>1. disk'[0] = See
    <3>1. disk'[0] = [e \in Entries |-> IF Sector(e) = buffered_fat_index
                                        THEN fat_buffer[Offset(e)]
                                        ELSE disk[0][e]]
      BY <1>4 DEF FatSave, TypeOK
    <3>2. QED
      BY <3>1 DEF See
  <2>2. \A c \in chain : c \in Clusters /\ InUse(disk[0], c)
    BY <1>1, ChainUsed, ChainNext DEF Good, StartsOwned
  <2>3. \A c \in Clusters : InItsFile(who, c) => c \notin chain
    BY <1>1, ChainsApart DEF InItsFile, Within
  <2>4. \A e, l : /\ See = [disk[0] EXCEPT ![e] = l] /\ e \notin chain
                  => \A c \in chain : disk'[0][c] = disk[0][c]
    BY <1>0, <2>1, <2>2
  <2>5. CASE Allocating
    <3>1. Ahead(op.cluster, EOC) /\ disk[0][op.cluster] = 0
      BY <1>1, <1>4, <2>5 DEF AheadInv
    <3>2. op.cluster \notin chain
      BY <2>2, <3>1 DEF InUse
    <3>3. QED
      BY <2>4, <3>1, <3>2 DEF Ahead
  <2>6. CASE op.then = "idle"
    <3>1. Ahead(op.prev, file[who].cluster) /\ InItsFile(who, op.prev)
      BY <1>1, <1>4, <2>6 DEF AheadInv
    <3>2. op.prev \notin chain
      BY <2>2, <2>3, <3>1
    <3>3. QED
      BY <2>4, <3>1, <3>2 DEF Ahead
  <2>7. CASE Trimming
    <3>1. Ahead(file[who].cluster, op.marker)
      BY <1>1, <1>4, <2>7 DEF AheadInv
    <3>2. file[who].cluster \notin chain
      BY <1>1, <1>4, <2>2, <2>3, <2>7, UnlinkedOut DEF AheadInv
    <3>3. QED
      BY <2>4, <3>1, <3>2 DEF Ahead
  <2>8. QED
    BY <1>1, <2>5, <2>6, <2>7 DEF OpInv
<1>5. QED
  BY <1>3, <1>4

LEMMA SaveFiles ==
    ASSUME TypeOK, OpInv, LinkInv, FileInv, FatSave
    PROVE  FileInv'
<1> USE Basics
<1>0. /\ See \in [Entries -> Links] /\ disk[0] \in [Entries -> Links]
      /\ op \in OpType /\ file \in [Clients -> Cursors]
  BY SeeType DEF TypeOK, OpType
<1>1. /\ op.at = "save" /\ Good(disk[0]) /\ AheadInv /\ CallInv /\ CursorInv
      /\ UNCHANGED <<dir, fat_buffer, buffered_fat_index, file, stray>>
      /\ ~stray /\ who \in Clients /\ IsOpen(who) /\ file[who].name \in Names
  BY <1>0 DEF FatSave, LinkInv, FileInv, OpInv, IsOpen, Cursors, buffering,
              history
<1>2. disk'[0] = See /\ See' = See
  <2>1. CASE op.copy = 0
    <3>1. disk'[0] = [e \in Entries |-> IF Sector(e) = buffered_fat_index
                                        THEN fat_buffer[Offset(e)]
                                        ELSE disk[0][e]]
      BY <2>1 DEF FatSave, TypeOK
    <3>2. QED
      BY <1>1, <3>1, Saves DEF buffering
  <2>2. CASE op.copy # 0
    <3>1. disk'[0] = disk[0]
      BY <2>2 DEF FatSave, TypeOK
    <3>2. See = disk[0]
      BY <1>1, <2>2 DEF AheadInv
    <3>3. See' = See
      BY <1>1, <3>1 DEF See
    <3>4. QED
      BY <3>1, <3>2, <3>3
  <2>3. QED
    BY <2>1, <2>2
<1>3. \/ op' = Idle /\ op.then = "idle"
      \/ /\ op'.at = "save" /\ op'.copy = op.copy + 1
         /\ op'.then = op.then /\ op'.who = op.who /\ op'.prev = op.prev
         /\ op'.cluster = op.cluster /\ op'.marker = op.marker
      \/ /\ op'.at = op.then /\ op.then \in {"entry", "link", "trimmed"}
         /\ op'.then = op.then /\ op'.who = op.who /\ op'.prev = op.prev
         /\ op'.cluster = op.cluster /\ op'.marker = op.marker
  <2>1. op.then \in {"idle", "entry", "link", "trimmed"}
    BY <1>1 DEF OpInv, Allocating, Trimming
  <2>2. CASE op.copy + 1 < FatNumber
    BY <1>0, <2>2 DEF FatSave, OpType
  <2>3. CASE ~(op.copy + 1 < FatNumber)
    BY <1>0, <2>1, <2>3 DEF FatSave, OpType
  <2>4. QED
    BY <2>2, <2>3
<1>4. op.copy \in Nat
  BY <1>0 DEF OpType, Copies
<1>5. AheadInv'
  BY <1>2, <1>3, <1>4, AheadNext DEF Idle
<1>6. \A c \in Clients : IsOpen(c) /\ c # who =>
        Within(disk'[0], dir', file'[c].name, file'[c].cluster)
  <2>1. SUFFICES ASSUME NEW c \in Clients, IsOpen(c), c # who
                 PROVE  Within(disk'[0], dir', file'[c].name, file'[c].cluster)
    OBVIOUS
  <2>2. file[c].name # file[who].name /\ file[c].name \in Names
    BY <1>0, <1>1, <2>1 DEF OpInv, IsOpen, Cursors
  <2>3. Within(disk[0], dir, file[c].name, file[c].cluster)
    BY <1>1, <2>1 DEF CursorInv, InItsFile
  <2>4. QED
    BY <1>1, <2>2, <2>3, ChainsSaved DEF Within
(* The file being written: appended to, or just saved.                     *)
<1>7. op.then = "idle" =>
        Within(disk'[0], dir', file'[who].name, file'[who].cluster)
  <2> DEFINE n == file[who].name
             z == file[who].cluster
  <2>1. SUFFICES ASSUME op.then = "idle"
                 PROVE  Within(disk'[0], dir, n, z)
    BY <1>1
  <2>2. CASE op.copy = 0
    <3>1. /\ See = [disk[0] EXCEPT ![op.prev] = z] /\ z \in Clusters
          /\ disk[0][op.prev] = EOC
          /\ dir[n] # None /\ op.prev \in ChainOf(disk[0], dir[n])
      BY <1>1, <2>1, <2>2 DEF AheadInv, Ahead, InItsFile, Within
    <3>2. op.prev \in Entries
      BY <3>1, ChainNext
    <3>3. \A c \in ChainOf(disk[0], dir[n]) :
            disk[0][c] \in Clusters => See[c] = disk[0][c]
      BY <1>0, <3>1, ChainNext
    <3>4. op.prev \in ChainOf(See, dir[n])
      <4>1. ChainOf(disk[0], dir[n]) \subseteq ChainOf(See, dir[n])
        BY <3>3, ChainGrows
      <4>2. QED
        BY <3>1, <4>1, Zenon
    <3>5. See[op.prev] = z
      BY <1>0, <3>1, <3>2
    <3>6. z \in ChainOf(See, dir[n])
      BY <3>1, <3>4, <3>5, ChainNext
    <3>7. QED
      BY <1>2, <3>1, <3>6 DEF Within
  <2>3. CASE op.copy # 0
    <3>1. disk'[0] = disk[0]
      BY <1>1, <1>2, <2>3 DEF AheadInv
    <3>2. op.copy > 0
      BY <1>4, <2>3
    <3>3. QED
      BY <1>1, <2>1, <3>1, <3>2 DEF CallInv, InItsFile
  <2>4. QED
    BY <2>2, <2>3
<1>8. ASSUME op.then = "link"
      PROVE  /\ Within(disk'[0], dir', file'[who].name, op.prev)
             /\ disk'[0][op.prev] = EOC
  <2> DEFINE n == file[who].name
  <2>1. /\ disk[0][op.prev] = EOC /\ dir[n] # None
        /\ op.prev \in ChainOf(disk[0], dir[n]) /\ op.prev \in Clusters
    BY <1>1, <1>8, ChainNext DEF CallInv, InItsFile, Within
  <2>2. CASE op.copy = 0
    <3>1. See = [disk[0] EXCEPT ![op.cluster] = EOC] /\ disk[0][op.cluster] = 0
      BY <1>1, <1>8, <2>2 DEF AheadInv, Ahead, Allocating
    <3>2. \A c \in ChainOf(disk[0], dir[n]) :
            disk[0][c] \in Clusters => See[c] = disk[0][c]
      BY <1>0, <3>1, ChainNext
    <3>3. ChainOf(disk[0], dir[n]) \subseteq ChainOf(See, dir[n])
      BY <3>2, ChainGrows
    <3>4. See[op.prev] = EOC
      BY <1>0, <2>1, <3>1
    <3>5. QED
      BY <1>1, <1>2, <2>1, <3>3, <3>4 DEF Within
  <2>3. CASE op.copy # 0
    <3>1. disk'[0] = disk[0]
      BY <1>1, <1>2, <2>3 DEF AheadInv
    <3>2. QED
      BY <1>1, <2>1, <3>1 DEF Within
  <2>4. QED
    BY <2>2, <2>3
<1>9. op'.then = "entry" => dir'[file'[op'.who].name] = None
  BY <1>1, <1>3 DEF CallInv, Idle, who
<1>10. op'.then = "link" =>
         /\ Within(disk'[0], dir', file'[op'.who].name, op'.prev)
         /\ disk'[0][op'.prev] = EOC
  BY <1>3, <1>8 DEF Idle, who
<1>11. op'.at # "trim"
  BY <1>3 DEF Idle
<1>12. op'.then = "trimmed" =>
         /\ op'.cluster \in Clusters \cup {EOC}
         /\ op'.cluster \in Clusters => InUse(See', op'.cluster)
  BY <1>1, <1>2, <1>3 DEF CallInv, Idle, Trimming
<1>13. op'.at = "save" /\ op'.then = "idle" =>
         Within(disk'[0], dir', file'[op'.who].name, file'[op'.who].cluster)
  BY <1>3, <1>7 DEF Idle, who
<1>14. \A c \in Clients :
         file'[c].name # None /\ (op' = Idle \/ c # op'.who) =>
           Within(disk'[0], dir', file'[c].name, file'[c].cluster)
  <2>1. op' = Idle \/ op'.who = who
    BY <1>3 DEF who
  <2>2. op' = Idle => op.then = "idle"
    BY <1>3, <1>4 DEF Idle
  <2>3. \A c \in Clients : file'[c].name # None <=> IsOpen(c)
    BY <1>1 DEF IsOpen
  <2>4. QED
    BY <1>6, <1>7, <2>1, <2>2, <2>3
<1>15. ~stray'
  BY <1>1
<1>16. QED
  BY <1>5, <1>9, <1>10, <1>11, <1>12, <1>13, <1>14, <1>15, FileNext

LEMMA StepFiles ==
    ASSUME TypeOK, OpInv, LinkInv, FileInv, Step, Sure'
    PROVE  FileInv'
<1> USE Basics
<1>0. /\ See \in [Entries -> Links] /\ disk[0] \in [Entries -> Links]
      /\ op \in OpType /\ file \in [Clients -> Cursors]
  BY SeeType DEF TypeOK, OpType
<1>1. Good(disk[0]) /\ AheadInv /\ CallInv /\ CursorInv /\ ~stray
  BY DEF LinkInv, FileInv
<1>2. ASSUME op.at # "idle"
      PROVE  /\ who \in Clients /\ IsOpen(who) /\ file[who].name \in Names
             /\ op # Idle
             /\ \A c \in Clients : IsOpen(c) /\ c # who =>
                  Within(disk[0], dir, file[c].name, file[c].cluster)
  BY <1>0, <1>1, <1>2 DEF OpInv, IsOpen, Cursors, Idle, CursorInv, InItsFile
<1>3. op.at # "save" => See = disk[0] /\ op.copy = 0
  BY <1>1 DEF AheadInv, OpInv
<1>4. ASSUME UNCHANGED <<disk, fat_buffer, buffered_fat_index>>
      PROVE  See' = See
  BY <1>4 DEF See
<1>5. CASE Allocate
  <2> DEFINE e == First(FreeEntries)
  <2>1. e \in FreeEntries
    BY <1>5, FirstFree DEF Allocate
  <2>2. e \in Entries /\ Scanned(Sector(e))[Offset(e)] = 0
    BY <2>1 DEF FreeEntries
  <2>3. /\ Took(e) /\ op' = [op EXCEPT !.at = "save", !.cluster = e]
        /\ UNCHANGED <<disk, dir, file, stray>> /\ op.at = "alloc"
    BY <1>5 DEF Allocate, Took, medium, history
  <2> HIDE DEF e
  <2>4. See' = [disk[0] EXCEPT ![e] = EOC] /\ disk[0][e] = 0
    BY <1>3, <2>2, <2>3, Takes
  <2>5. /\ op'.at = "save" /\ op'.copy = op.copy /\ op'.then = op.then
        /\ op'.who = op.who /\ op'.prev = op.prev /\ op'.cluster = e
        /\ op.then \in {"entry", "link"}
    BY <1>0, <2>3 DEF OpType, OpInv, Allocating
  <2>6. AheadInv'
    BY <1>3, <2>3, <2>4, <2>5, AheadNext
  <2>7. \A c \in Clients : file'[c].name # None /\ (op' = Idle \/ c # op'.who) =>
          Within(disk'[0], dir', file'[c].name, file'[c].cluster)
    BY <1>2, <2>3, <2>5 DEF IsOpen, Idle, who
  <2>8. op'.then = "entry" => dir'[file'[op'.who].name] = None
    BY <1>1, <2>3, <2>5 DEF CallInv, who
  <2>9. op'.then = "link" =>
          /\ Within(disk'[0], dir', file'[op'.who].name, op'.prev)
          /\ disk'[0][op'.prev] = EOC
    BY <1>1, <2>3, <2>5 DEF CallInv, InItsFile, who
  <2>10. QED
    BY <1>1, <2>3, <2>5, <2>6, <2>7, <2>8, <2>9, FileNext
<1>6. CASE AllocateNone
  BY <1>6 DEF AllocateNone, Sure
<1>7. CASE FatSave
  BY <1>7, SaveFiles
<1>8. CASE FatSaveFails
  BY <1>8 DEF FatSaveFails, Sure, TypeOK
<1>9. CASE WriteEntry
  <2>1. /\ op.at = "entry" /\ op' = Idle
        /\ UNCHANGED <<disk, fat_buffer, buffered_fat_index, stray>>
        /\ dir' = [dir EXCEPT ![file[who].name] = op.cluster]
        /\ file' = [file EXCEPT ![who].cluster = op.cluster,
                                ![who].cluster_change = 1]
    BY <1>9 DEF WriteEntry, buffering, history
  <2>2. op.cluster \in Clusters
    BY <2>1 DEF LinkInv, OpInv, Allocating
  <2>3. op.cluster # None
    BY <2>2 DEF None, Clusters
  <2>4. See' = disk'[0]
    BY <1>3, <1>4, <2>1
  <2>5. op'.at = "idle" /\ op'.then = "idle"
    BY <2>1 DEF Idle
  <2>6. AheadInv'
    BY <2>4, <2>5, AheadNext
  <2>7. \A n \in Names : dir'[n] = IF n = file[who].name THEN op.cluster ELSE dir[n]
    BY <2>1 DEF TypeOK
  <2>8. /\ \A c \in Clients \ {who} : file'[c] = file[c]
        /\ file'[who].name = file[who].name /\ file'[who].cluster = op.cluster
    BY <1>0, <1>2, <2>1 DEF Cursors
  <2>9. ASSUME NEW c \in Clients, file'[c].name # None
        PROVE  Within(disk'[0], dir', file'[c].name, file'[c].cluster)
    <3>1. CASE c = who
      BY <1>2, <2>1, <2>2, <2>3, <2>7, <2>8, <3>1, ChainStart DEF Within
    <3>2. CASE c # who
      <4>1. IsOpen(c) /\ file'[c] = file[c]
        BY <2>8, <2>9, <3>2 DEF IsOpen
      <4>2. file[c].name # file[who].name /\ file[c].name \in Names
        BY <1>0, <1>2, <2>1, <3>2, <4>1 DEF OpInv, IsOpen, Cursors
      <4>3. QED
        BY <1>2, <2>1, <2>7, <3>2, <4>1, <4>2 DEF Within
    <3>3. QED
      BY <3>1, <3>2
  <2>10. QED
    BY <1>1, <2>1, <2>5, <2>6, <2>9, FileNext
<1>10. CASE AppendCluster
  <2>1. /\ op.at = "link" /\ op.prev \in Clusters /\ UNCHANGED <<disk, dir, stray>>
        /\ Enter(op.prev, op.cluster)
        /\ op' = [op EXCEPT !.at = "save", !.then = "idle"]
        /\ file' = [file EXCEPT ![who].cluster = op.cluster,
                                ![who].cluster_change = @ + 1]
    BY <1>10 DEF AppendCluster, medium, history
  <2>2. op.cluster \in Clusters /\ op.then = "link"
    BY <2>1 DEF LinkInv, OpInv, Allocating
  <2>3. See' = [disk[0] EXCEPT ![op.prev] = op.cluster]
    BY <1>3, <2>1, Enters
  <2>4. /\ op'.at = "save" /\ op'.then = "idle" /\ op'.copy = op.copy
        /\ op'.who = op.who /\ op'.prev = op.prev
    BY <1>0, <2>1 DEF OpType
  <2>5. /\ \A c \in Clients \ {who} : file'[c] = file[c]
        /\ file'[who].name = file[who].name /\ file'[who].cluster = op.cluster
    BY <1>0, <1>2, <2>1 DEF Cursors
  <2>6. /\ Within(disk[0], dir, file[who].name, op.prev)
        /\ disk[0][op.prev] = EOC
    BY <1>1, <2>2 DEF CallInv, InItsFile
  <2>7. AheadInv'
    <3>1. /\ op'.who = who /\ file'[op'.who].cluster \in Clusters
          /\ disk'[0][op'.prev] = EOC
      BY <2>1, <2>2, <2>4, <2>5, <2>6 DEF who
    <3>2. See' = [disk'[0] EXCEPT ![op'.prev] = file'[op'.who].cluster]
      BY <2>1, <2>3, <2>4, <2>5, <3>1
    <3>3. Within(disk'[0], dir', file'[op'.who].name, op'.prev)
      BY <2>1, <2>4, <2>5, <2>6, <3>1
    <3>4. QED
      BY <1>3, <2>1, <2>4, <3>1, <3>2, <3>3, AheadNext
  <2>8. \A c \in Clients : file'[c].name # None /\ (op' = Idle \/ c # op'.who) =>
          Within(disk'[0], dir', file'[c].name, file'[c].cluster)
    BY <1>2, <2>1, <2>4, <2>5 DEF IsOpen, Idle, who
  <2>9. op'.copy = 0
    BY <1>3, <2>1, <2>4
  <2>10. ~stray'
    BY <1>1, <2>1
  <2>11. QED
    BY <2>4, <2>7, <2>8, <2>9, <2>10, FileNext
<1>11. CASE Trim
  <2> DEFINE e == file[who].cluster
  <2>1. /\ op.at = "trim" /\ e \in Clusters /\ UNCHANGED <<disk, dir, file, stray>>
        /\ Enter(e, op.marker)
        /\ op' = [op EXCEPT !.at = "save", !.then = "trimmed",
                    !.cluster = Load(Sector(e))[Offset(e)]]
    BY <1>11 DEF Trim, medium, history
  <2>2. See' = [disk[0] EXCEPT ![e] = op.marker]
    BY <1>3, <2>1, Enters
  <2>3. Load(Sector(e))[Offset(e)] = disk[0][e]
    BY <1>3, <2>1, LoadedEntry
  <2>4. /\ op'.at = "save" /\ op'.then = "trimmed" /\ op'.copy = op.copy
        /\ op'.who = op.who /\ op'.cluster = disk[0][e]
        /\ op'.marker = op.marker /\ op.marker \in {0, EOC}
    BY <1>0, <2>1, <2>3 DEF OpType
  <2>5. /\ InUse(disk[0], e)
        /\ IF op.marker = EOC THEN Within(disk[0], dir, file[who].name, e)
           ELSE Unlinked(disk[0], e)
    <3>1. CASE op.marker = EOC
      <4>1. Within(disk[0], dir, file[who].name, e)
        BY <1>1, <2>1, <3>1 DEF CallInv, InItsFile
      <4>2. QED
        BY <1>1, <1>2, <2>1, <3>1, <4>1, ChainUsed
        DEF Within, Good, StartsOwned
    <3>2. CASE op.marker = 0
      BY <1>1, <1>3, <2>1, <3>2 DEF CallInv, LinkInv
    <3>3. QED
      BY <2>4, <3>1, <3>2
  <2>6. AheadInv'
    <3>1. op.marker # EOC => UnlinkedNext(e)
      BY <2>1, <2>5 DEF Unlinked, UnlinkedNext
    <3>2. op'.who = who /\ file'[op'.who] = file[who]
      BY <2>1, <2>4 DEF who
    <3>3. See' = [disk'[0] EXCEPT ![file'[op'.who].cluster] = op'.marker]
      BY <2>1, <2>2, <2>4, <3>2
    <3>4. /\ disk'[0][file'[op'.who].cluster] = op'.cluster
          /\ file'[op'.who].cluster \in Clusters
      BY <2>1, <2>4, <3>2
    <3>5. IF op'.marker = EOC
          THEN Within(disk'[0], dir', file'[op'.who].name, file'[op'.who].cluster)
          ELSE UnlinkedNext(file'[op'.who].cluster)
      BY <2>1, <2>4, <2>5, <3>1, <3>2
    <3>6. QED
      BY <1>3, <2>1, <2>4, <3>3, <3>4, <3>5, AheadNext
  <2>7. op'.cluster \in Clusters \cup {EOC}
    BY <2>4, <2>5 DEF InUse
  <2>8. ASSUME op'.cluster \in Clusters
        PROVE  InUse(See', op'.cluster)
    <3>1. InUse(disk[0], disk[0][e])
      BY <1>1, <2>1, <2>4, <2>8 DEF Good, TargetsUsed
    <3>2. op.marker = 0 => disk[0][e] # e
      BY <2>1, <2>5 DEF Unlinked
    <3>3. QED
      BY <1>0, <2>1, <2>2, <2>4, <2>8, <3>1, <3>2 DEF InUse
  <2>9. \A c \in Clients : file'[c].name # None /\ (op' = Idle \/ c # op'.who) =>
          Within(disk'[0], dir', file'[c].name, file'[c].cluster)
    BY <1>2, <2>1, <2>4 DEF IsOpen, Idle, who
  <2>10. QED
    BY <1>1, <2>1, <2>4, <2>6, <2>7, <2>8, <2>9, FileNext
<1>12. CASE Trimmed
  <2>1. /\ op.at = "trimmed"
        /\ UNCHANGED <<disk, dir, fat_buffer, buffered_fat_index, stray>>
        /\ op' = [op EXCEPT !.at = IF op.cluster = EOC THEN "info" ELSE "trim",
                            !.then = "idle", !.marker = 0]
    BY <1>12 DEF Trimmed, medium, buffering, history
  <2>2. file' = [file EXCEPT
                   ![who].cluster = op.cluster,
                   ![who].cluster_change = IF op.marker = 0 THEN @ - 1 ELSE @]
    BY <1>12 DEF Trimmed
  <2>3. /\ op'.at = IF op.cluster = EOC THEN "info" ELSE "trim"
        /\ op'.then = "idle" /\ op'.marker = 0 /\ op'.who = op.who
    BY <1>0, <2>1 DEF OpType
  <2>4. /\ \A c \in Clients \ {who} : file'[c] = file[c]
        /\ file'[who].name = file[who].name /\ file'[who].cluster = op.cluster
    BY <1>0, <1>2, <2>1, <2>2 DEF Cursors
  <2>5. See' = See /\ See = disk[0]
    BY <1>3, <1>4, <2>1
  <2>6. AheadInv'
    BY <2>1, <2>3, <2>5, AheadNext
  <2>7. op.cluster # EOC => op.cluster \in Clusters /\ InUse(See, op.cluster)
    BY <1>1, <2>1 DEF CallInv, OpInv, Trimming
  <2>8. EOC # 0
    OBVIOUS
  <2>9. \A c \in Clients : file'[c].name # None /\ (op' = Idle \/ c # op'.who) =>
          Within(disk'[0], dir', file'[c].name, file'[c].cluster)
    BY <1>2, <2>1, <2>3, <2>4 DEF IsOpen, Idle, who
  <2>10. op'.at = "trim" => op.cluster \in Clusters /\ InUse(See', op.cluster)
    BY <2>3, <2>5, <2>7
  <2>11. op'.at # "save"
    BY <2>3
  <2>12. QED
    BY <1>1, <2>1, <2>3, <2>4, <2>6, <2>8, <2>9, <2>10, <2>11, FileNext DEF who
<1>13. CASE ChangeOutside
  <2>1. op.at = "link" => op.prev \in Clusters
    BY <1>1, ChainNext DEF OpInv, CallInv, InItsFile, Within
  <2>2. op.at = "trim" => file[who].cluster \in Clusters
    BY <1>1, ChainNext DEF CallInv, InItsFile, Within
  <2>3. QED
    BY <1>13, <2>1, <2>2 DEF ChangeOutside
<1>14. CASE WriteInfo
  <2>1. /\ op.at = "info" /\ op' = Idle
        /\ UNCHANGED <<disk, dir, fat_buffer, buffered_fat_index, stray>>
        /\ file' = [file EXCEPT ![who] = Closed]
    BY <1>14 DEF WriteInfo, buffering, history
  <2>2. See' = disk[0]
    BY <1>3, <1>4, <2>1
  <2>3. \A c \in Clients :
          file'[c].name = None \/ (file'[c] = file[c] /\ c # who)
    <3>1. file'[who] = Closed /\ \A c \in Clients \ {who} : file'[c] = file[c]
      BY <1>0, <1>2, <2>1
    <3>2. QED
      BY <3>1 DEF Closed
  <2>4. QED
    BY <1>1, <2>1, <2>2, <2>3, FileRests
<1>15. CASE EntryOrInfoFails
  BY <1>15 DEF EntryOrInfoFails, Sure, TypeOK
<1>16. QED
  BY <1>5, <1>6, <1>7, <1>8, <1>9, <1>10, <1>11, <1>12, <1>13, <1>14, <1>15
  DEF Step

LEMMA FileStep ==
    ASSUME TypeOK, OpInv, LinkInv, FileInv, [Next]_vars, Sure'
    PROVE  FileInv'
<1>1. CASE Call
  BY <1>1, CallFiles
<1>2. CASE Step
  BY <1>2, StepFiles
<1>3. CASE Crash
  <2>1. /\ UNCHANGED <<disk, dir, stray>> /\ buffered_fat_index' = None
        /\ op' = Idle /\ file' = [c \in Clients |-> Closed]
    BY <1>3 DEF Crash, medium
  <2>2. See' = disk[0]
    BY <2>1, Forgets
  <2>3. QED
    BY <2>1, <2>2, FileRests DEF FileInv, Closed
<1>4. CASE UNCHANGED vars
  <2>1. UNCHANGED <<disk, dir, fat_buffer, buffered_fat_index, op, file, stray>>
    BY <1>4 DEF vars, medium, buffering, history
  <2>2. See' = See /\ who' = who
    BY <2>1 DEF See, who
  <2>3. QED
    BY <2>1, <2>2
    DEF FileInv, CursorInv, CallInv, AheadInv, InItsFile, Within, ChainOf,
        InUse, Unlinked, Ahead, IsOpen, Trimming, Allocating
<1>5. QED
  BY <1>1, <1>2, <1>3, <1>4 DEF Next

-----------------------------------------------------------------------------
(* CopyInv is kept by every step, while nothing fails.                     *)

(* The disk stays; a buffer that is ahead of it is about to be saved.      *)
LEMMA CopiesRest ==
    ASSUME CopyInv, op.at # "save", UNCHANGED disk,
           op'.at # "save" => See' = disk[0],
           op'.at = "save" => op'.copy = 0
    PROVE  CopyInv'
<1>1. See = disk[0] /\ \A i \in Copies : \A e \in Entries : disk[i][e] = disk[0][e]
  BY DEF CopyInv
<1>2. FatNumber - 1 \in Copies /\ \A i \in Copies : ~(i < 0)
  BY FatChainAssumption DEF Copies
<1>3. QED
  BY <1>1, <1>2 DEF CopyInv

LEMMA SaveCopies ==
    ASSUME TypeOK, OpInv, CopyInv, FatSave
    PROVE  CopyInv'
<1> DEFINE new(d) == [e \in Entries |-> IF Sector(e) = buffered_fat_index
                                        THEN fat_buffer[Offset(e)] ELSE d[e]]
<1>0. /\ See \in [Entries -> Links] /\ op \in OpType
      /\ disk \in [Copies -> [Entries -> Links]]
  BY SeeType DEF TypeOK, OpType
<1>1. /\ op.at = "save" /\ UNCHANGED <<fat_buffer, buffered_fat_index>>
      /\ disk' = [disk EXCEPT ![op.copy] = new(@)]
  BY DEF FatSave, buffering
<1>2. FatNumber \in Nat /\ FatNumber > 0 /\ op.copy \in Copies
      /\ FatNumber - 1 \in Copies /\ 0 \in Copies
  BY <1>0, FatChainAssumption DEF Copies, OpType
<1>3. \A i \in Copies : disk'[i] = IF i = op.copy THEN new(disk[i]) ELSE disk[i]
  BY <1>0, <1>1
<1>4. \A i \in Copies : \A e \in Entries :
        new(disk[i])[e] = IF Sector(e) = buffered_fat_index THEN See[e]
                          ELSE disk[i][e]
  BY DEF See
<1> HIDE DEF new
<1>5. disk'[0] = See /\ See' = See
  <2>1. CASE op.copy = 0
    <3>1. disk'[0] = [e \in Entries |-> IF Sector(e) = buffered_fat_index
                                        THEN fat_buffer[Offset(e)]
                                        ELSE disk[0][e]]
      BY <1>2, <1>3, <2>1 DEF new
    <3>2. QED
      BY <1>1, <3>1, Saves DEF buffering
  <2>2. CASE op.copy # 0
    <3>1. disk'[0] = disk[0] /\ op.copy > 0
      BY <1>2, <1>3, <2>2 DEF Copies
    <3>2. See = disk[0]
      BY <3>1 DEF CopyInv
    <3>3. See' = See
      BY <1>1, <3>1 DEF See
    <3>4. QED
      BY <3>1, <3>2, <3>3
  <2>3. QED
    BY <2>1, <2>2
<1>6. ASSUME NEW i \in Copies, NEW e \in Entries, Sector(e) # buffered_fat_index
      PROVE  disk'[i][e] = disk'[0][e]
  <2>1. disk[i][e] = disk[0][e]
    BY <1>6 DEF CopyInv
  <2>2. disk'[i][e] = disk[i][e] /\ disk'[0][e] = disk[0][e]
    BY <1>2, <1>3, <1>4, <1>6
  <2>3. QED
    BY <2>1, <2>2
<1>7. ASSUME NEW i \in Copies, NEW e \in Entries, Sector(e) = buffered_fat_index
      PROVE  disk'[i][e] = IF i < op.copy + 1 THEN See[e]
                           ELSE disk[FatNumber - 1][e]
  <2>1. disk[i][e] = IF i < op.copy THEN See[e] ELSE disk[FatNumber - 1][e]
    BY <1>1, <1>7 DEF CopyInv
  <2>2. disk'[i][e] = IF i = op.copy THEN See[e] ELSE disk[i][e]
    BY <1>3, <1>4, <1>7
  <2>3. QED
    BY <1>2, <2>1, <2>2 DEF Copies
<1>8. CASE op.copy + 1 < FatNumber
  <2>1. op'.at = "save" /\ op'.copy = op.copy + 1
    BY <1>0, <1>1, <1>8 DEF FatSave, OpType
  <2>2. \A e \in Entries : disk'[FatNumber - 1][e] = disk[FatNumber - 1][e]
    BY <1>2, <1>3, <1>8 DEF Copies
  <2>3. QED
    BY <1>1, <1>5, <1>6, <1>7, <2>1, <2>2 DEF CopyInv
<1>9. CASE ~(op.copy + 1 < FatNumber)
  <2>1. op'.at # "save"
    <3>1. op.then \in {"idle", "entry", "link", "trimmed"}
      BY <1>1 DEF OpInv, Allocating, Trimming
    <3>2. QED
      BY <1>0, <1>9, <3>1 DEF FatSave, OpType, Idle
  <2>2. \A i \in Copies : i < op.copy + 1
    BY <1>2, <1>9 DEF Copies
  <2>3. \A i \in Copies, e \in Entries : disk'[i][e] = disk'[0][e]
    BY <1>2, <1>6, <1>7, <2>2
  <2>4. QED
    BY <1>5, <2>1, <2>3 DEF CopyInv
<1>10. QED
  BY <1>8, <1>9

LEMMA CopyStep ==
    ASSUME TypeOK, OpInv, CopyInv, [Next]_vars, Calm'
    PROVE  CopyInv'
<1>0. op \in OpType
  BY DEF TypeOK, OpType
<1>1. op.at # "save" => See = disk[0] /\ op.copy = 0
  BY DEF CopyInv, OpInv
<1>2. ASSUME UNCHANGED <<disk, fat_buffer, buffered_fat_index>>
      PROVE  See' = See
  BY <1>2 DEF See
<1>3. CASE Call
  <2>1. op.at # "save" /\ UNCHANGED disk /\ See' \in {See, disk[0]}
        /\ op'.at # "save"
    BY <1>3, CallSees DEF Idle
  <2>2. QED
    BY <1>1, <2>1, CopiesRest
<1>4. CASE Allocate \/ AppendCluster \/ Trim
  <2>1. op.at # "save" /\ UNCHANGED disk /\ op'.at = "save" /\ op'.copy = op.copy
    BY <1>0, <1>4 DEF Allocate, AppendCluster, Trim, medium, OpType
  <2>2. QED
    BY <1>1, <2>1, CopiesRest
<1>5. CASE WriteEntry \/ Trimmed \/ ChangeOutside \/ WriteInfo
  <2>1. /\ op.at # "save" /\ UNCHANGED <<disk, fat_buffer, buffered_fat_index>>
        /\ op'.at # "save"
    <3>1. CASE Trimmed
      BY <1>0, <3>1 DEF Trimmed, medium, buffering, OpType
    <3>2. CASE WriteEntry \/ ChangeOutside \/ WriteInfo
      BY <3>2 DEF WriteEntry, ChangeOutside, WriteInfo, medium, buffering, Idle
    <3>3. QED
      BY <1>5, <3>1, <3>2
  <2>2. QED
    BY <1>1, <1>2, <2>1, CopiesRest
<1>6. CASE FatSave
  BY <1>6, SaveCopies
<1>7. CASE AllocateNone \/ FatSaveFails \/ EntryOrInfoFails \/ Crash
  BY <1>7 DEF AllocateNone, FatSaveFails, EntryOrInfoFails, Crash, Calm, TypeOK
<1>8. CASE UNCHANGED vars
  <2>1. UNCHANGED <<disk, fat_buffer, buffered_fat_index, op>>
    BY <1>8 DEF vars, medium, buffering
  <2>2. See' = See
    BY <1>2, <2>1
  <2>3. QED
    BY <2>1, <2>2 DEF CopyInv
<1>9. QED
  BY <1>3, <1>4, <1>5, <1>6, <1>7, <1>8 DEF Next, Step

LEMMA CopyInit ==
    ASSUME TypeOK, Init
    PROVE  CopyInv
<1>1. /\ disk = [i \in Copies |-> InitFat] /\ op = Idle
      /\ buffered_fat_index = None
  BY DEF Init
<1>2. See = disk[0]
  <2>1. \A e \in Entries : See[e] = disk[0][e]
    BY <1>1, SectorOffset DEF See, FatSectors, None
  <2>2. QED
    BY <2>1, SeeType
<1>3. \A i \in Copies : disk[i] = disk[0]
  BY <1>1, Basics
<1>4. QED
  BY <1>1, <1>2, <1>3 DEF CopyInv, Idle

-----------------------------------------------------------------------------
(* No cluster is lost.                                                     *)

(* A cluster that is in use and in no file: it has just been allocated, or *)
(* is about to be freed.                                                   *)
OnItsWay(c) ==
    \/ Allocating /\ op.at # "alloc" /\ c = op.cluster
    \/ Trimming /\ c \in ChainOf(See, op.cluster)
    \/ op.at = "trim" /\ op.marker = 0 /\ c \in ChainOf(See, file[who].cluster)

OwnedInv ==
    \A c \in Clusters : See[c] # 0 =>
        OnItsWay(c) \/ \E n \in Names : Within(See, dir, n, c)

(* The files have all clusters of a card that are in use.                  *)
NoneLost(fat, d) ==
    \A c \in Clusters : fat[c] # 0 => \E n \in Names : Within(fat, d, n, c)

(* A chain whose cluster e is changed falls into two, at most.             *)
LEMMA ChainFalls ==
    ASSUME NEW f, NEW g, NEW start, NEW e,
           \A c \in Clusters : c # e => g[c] = f[c]
    PROVE  ChainOf(f, start) \subseteq ChainOf(g, start) \cup ChainOf(g, f[e])
<1> DEFINE S == ChainOf(g, start) \cup ChainOf(g, f[e])
<1>1. S \subseteq Clusters
  BY ChainNext
<1>2. start \in Clusters => start \in S
  BY ChainStart
<1>3. ASSUME NEW d \in S, f[d] \in Clusters
      PROVE  f[d] \in S
  <2>1. CASE d = e
    BY <1>3, <2>1, ChainStart
  <2>2. CASE d # e
    <3>1. g[d] = f[d]
      BY <1>1, <2>2
    <3>2. QED
      BY <1>3, <3>1, ChainNext
  <2>3. QED
    BY <2>1, <2>2
<1> HIDE DEF S
<1>4. ChainOf(f, start) \subseteq S
  BY <1>1, <1>2, <1>3, ChainLeast
<1>5. QED
  BY <1>4 DEF S

(* A chain that begins with the end of it.                                 *)
LEMMA ChainEnds ==
    ASSUME NEW f, NEW start, f[start] \notin Clusters
    PROVE  ChainOf(f, start) \subseteq {start}
<1>1. ChainOf(f, start) \subseteq {start} \cap Clusters
  BY ChainLeast
<1>2. QED
  BY <1>1

(* A chain that begins nowhere.                                            *)
LEMMA ChainNowhere ==
    ASSUME NEW f, NEW start, start \notin Clusters
    PROVE  ChainOf(f, start) = {}
<1> DEFINE S == {}
<1>1. /\ S \subseteq Clusters /\ (start \in Clusters => start \in S)
      /\ \A d \in S : f[d] \in Clusters => f[d] \in S
  OBVIOUS
<1> HIDE DEF S
<1>2. ChainOf(f, start) \subseteq S
  BY <1>1, ChainLeast
<1>3. QED
  BY <1>2 DEF S

(* OwnedInv of the next state, said of the variables one by one.           *)
LEMMA OwnedNext ==
    ASSUME \A c \in Clusters : See'[c] # 0 =>
             \/ op'.then \in {"entry", "link"} /\ op'.at # "alloc" /\ c = op'.cluster
             \/ op'.then = "trimmed" /\ c \in ChainOf(See', op'.cluster)
             \/ op'.at = "trim" /\ op'.marker = 0
                /\ c \in ChainOf(See', file'[op'.who].cluster)
             \/ \E n \in Names : Within(See', dir', n, c)
    PROVE  OwnedInv'
  BY DEF OwnedInv, OnItsWay, Within, ChainOf, Allocating, Trimming, who

(* Nothing of it changes, and nothing is on its way.                       *)
LEMMA OwnedRests ==
    ASSUME OwnedInv, UNCHANGED dir, See' = See,
           \A c \in Clusters : ~OnItsWay(c)
    PROVE  OwnedInv'
<1>1. \A c \in Clusters : See'[c] # 0 => \E n \in Names : Within(See', dir', n, c)
  BY DEF OwnedInv
<1>2. QED
  BY <1>1, OwnedNext

(* The steps that keep the FAT the firmware sees: what is on its way       *)
(* stays, or is in a file from then on.                                    *)
LEMMA OwnedSteps ==
    ASSUME TypeOK, OpInv, LinkInv, FileInv, OwnedInv, Step, Sure', FileInv'
    PROVE  OwnedInv'
<1> USE Basics
<1>0. /\ See \in [Entries -> Links] /\ disk[0] \in [Entries -> Links]
      /\ op \in OpType /\ file \in [Clients -> Cursors]
  BY SeeType DEF TypeOK, OpType
<1>1. Good(See) /\ Good(disk[0]) /\ AheadInv /\ CallInv /\ ~stray /\ ~stray'
  BY DEF LinkInv, FileInv
<1>2. ASSUME op.at # "idle"
      PROVE  who \in Clients /\ IsOpen(who) /\ file[who].name \in Names
  BY <1>0, <1>2 DEF OpInv, IsOpen, Cursors
<1>3. op.at # "save" => See = disk[0] /\ op.copy = 0
  BY <1>1 DEF AheadInv, OpInv
<1>4. ASSUME UNCHANGED <<disk, fat_buffer, buffered_fat_index>>
      PROVE  See' = See
  BY <1>4 DEF See
<1>5. ASSUME op' = Idle
      PROVE  op'.at = "idle" /\ op'.then = "idle"
  BY <1>5 DEF Idle
<1>6. CASE Allocate
  <2> DEFINE e == First(FreeEntries)
  <2>1. e \in FreeEntries
    BY <1>6, FirstFree DEF Allocate
  <2>2. e \in Entries /\ Scanned(Sector(e))[Offset(e)] = 0
    BY <2>1 DEF FreeEntries
  <2>3. /\ Took(e) /\ op' = [op EXCEPT !.at = "save", !.cluster = e]
        /\ UNCHANGED <<disk, dir, file>> /\ op.at = "alloc"
    BY <1>6 DEF Allocate, Took, medium
  <2> HIDE DEF e
  <2>4. See' = [See EXCEPT ![e] = EOC] /\ See[e] = 0
    BY <1>3, <2>2, <2>3, Takes
  <2>5. /\ op'.at = "save" /\ op'.then = op.then /\ op'.cluster = e
        /\ op.then \in {"entry", "link"}
    BY <1>0, <2>3 DEF OpType, OpInv, Allocating
  <2>6. ASSUME NEW n \in Names, dir[n] # None
        PROVE  ChainOf(See, dir[n]) \subseteq ChainOf(See', dir[n])
    <3>1. \A c \in ChainOf(See, dir[n]) : See[c] \in Clusters => See'[c] = See[c]
      BY <1>0, <2>4, ChainNext
    <3>2. QED
      BY <3>1, ChainGrows
  <2>7. ASSUME NEW c \in Clusters, See'[c] # 0, c # e
        PROVE  \E n \in Names : Within(See', dir', n, c)
    <3>1. See[c] # 0
      BY <1>0, <2>4, <2>7
    <3>2. ~OnItsWay(c)
      BY <2>3, <2>5 DEF OnItsWay, Trimming
    <3>3. PICK n \in Names : Within(See, dir, n, c)
      BY <3>1, <3>2 DEF OwnedInv
    <3>4. QED
      BY <2>3, <2>6, <3>3 DEF Within
  <2>8. QED
    BY <2>5, <2>7, OwnedNext
<1>7. CASE AllocateNone
  BY <1>7 DEF AllocateNone, Sure
<1>8. CASE FatSave
  <2>1. op.at = "save" /\ UNCHANGED <<dir, fat_buffer, buffered_fat_index, file>>
    BY <1>8 DEF FatSave, buffering
  <2>2. See' = See
    <3>1. CASE op.copy = 0
      <4>1. disk'[0] = [e \in Entries |-> IF Sector(e) = buffered_fat_index
                                          THEN fat_buffer[Offset(e)]
                                          ELSE disk[0][e]]
        BY <1>8, <3>1 DEF FatSave, TypeOK
      <4>2. QED
        BY <2>1, <4>1, Saves DEF buffering
    <3>2. CASE op.copy # 0
      <4>1. disk'[0] = disk[0]
        BY <1>8, <3>2 DEF FatSave, TypeOK
      <4>2. QED
        BY <2>1, <4>1 DEF See
    <3>3. QED
      BY <3>1, <3>2
  <2>3. \/ op' = Idle /\ op.then = "idle"
        \/ /\ op'.cluster = op.cluster /\ op'.then = op.then
           /\ op'.at \in {"save", "entry", "link", "trimmed"}
    <3>1. op.then \in {"idle", "entry", "link", "trimmed"}
      BY <2>1 DEF OpInv, Allocating, Trimming
    <3>2. QED
      BY <1>0, <1>8, <2>1, <3>1 DEF FatSave, OpType
  <2>4. ASSUME NEW c \in Clusters, OnItsWay(c)
        PROVE  \/ op'.then \in {"entry", "link"} /\ op'.at # "alloc" /\ c = op'.cluster
               \/ op'.then = "trimmed" /\ c \in ChainOf(See', op'.cluster)
    BY <2>1, <2>2, <2>3, <2>4 DEF OnItsWay, Allocating, Trimming
  <2>5. \A c \in Clusters, n \in Names : Within(See, dir, n, c) => Within(See', dir', n, c)
    BY <2>1, <2>2
  <2>6. \A c \in Clusters : See'[c] # 0 =>
          OnItsWay(c) \/ \E n \in Names : Within(See, dir, n, c)
    BY <2>2 DEF OwnedInv
  <2>7. QED
    BY <2>4, <2>5, <2>6, OwnedNext
<1>9. CASE FatSaveFails
  BY <1>9 DEF FatSaveFails, Sure, TypeOK
<1>10. CASE WriteEntry
  <2>1. /\ op.at = "entry" /\ op' = Idle
        /\ UNCHANGED <<disk, fat_buffer, buffered_fat_index>>
        /\ dir' = [dir EXCEPT ![file[who].name] = op.cluster]
    BY <1>10 DEF WriteEntry, buffering
  <2>2. op.then = "entry" /\ dir[file[who].name] = None
    BY <1>1, <2>1 DEF OpInv, CallInv
  <2>3. op.cluster \in Clusters /\ op.cluster # None
    BY <2>1, <2>2 DEF LinkInv, Allocating, None, Clusters
  <2>4. \A n \in Names : dir'[n] = IF n = file[who].name THEN op.cluster ELSE dir[n]
    BY <2>1 DEF TypeOK
  <2>5. See' = See
    BY <1>4, <2>1
  <2>6. Within(See', dir', file[who].name, op.cluster)
    BY <1>2, <2>1, <2>3, <2>4, <2>5, ChainStart DEF Within
  <2>7. \A c \in Clusters, n \in Names : Within(See, dir, n, c) => Within(See', dir', n, c)
    BY <2>2, <2>4, <2>5 DEF Within
  <2>8. \A c \in Clusters : OnItsWay(c) => c = op.cluster
    BY <2>1, <2>2 DEF OnItsWay, Trimming
  <2>9. \A c \in Clusters : See'[c] # 0 => \E n \in Names : Within(See', dir', n, c)
    BY <1>2, <2>1, <2>5, <2>6, <2>7, <2>8 DEF OwnedInv
  <2>10. QED
    BY <2>9, OwnedNext
<1>11. CASE AppendCluster
  <2> DEFINE n == file[who].name
  <2>1. /\ op.at = "link" /\ op.prev \in Clusters /\ UNCHANGED <<disk, dir>>
        /\ Enter(op.prev, op.cluster)
    BY <1>11 DEF AppendCluster, medium
  <2>2. op.cluster \in Clusters /\ op.then = "link"
    BY <2>1 DEF LinkInv, OpInv, Allocating
  <2>3. See' = [See EXCEPT ![op.prev] = op.cluster]
    BY <1>3, <2>1, Enters
  <2>4. Within(See, dir, n, op.prev) /\ See[op.prev] = EOC
    BY <1>1, <1>3, <2>1, <2>2 DEF CallInv, InItsFile
  <2>5. ASSUME NEW m
        PROVE  ChainOf(See, dir[m]) \subseteq ChainOf(See', dir[m])
    <3>1. \A c \in ChainOf(See, dir[m]) : See[c] \in Clusters => See'[c] = See[c]
      BY <1>0, <2>3, <2>4, ChainNext
    <3>2. QED
      BY <3>1, ChainGrows
  <2>6. Within(See', dir', n, op.cluster)
    <3>1. op.prev \in ChainOf(See', dir[n])
      BY <2>4, <2>5 DEF Within
    <3>2. See'[op.prev] = op.cluster
      BY <1>0, <2>1, <2>3
    <3>3. op.cluster \in ChainOf(See', dir[n])
      BY <2>2, <3>1, <3>2, ChainNext
    <3>4. QED
      BY <2>1, <2>4, <3>3 DEF Within
  <2>7. \A c \in Clusters, m \in Names : Within(See, dir, m, c) => Within(See', dir', m, c)
    BY <2>1, <2>5 DEF Within
  <2>8. \A c \in Clusters : OnItsWay(c) => c = op.cluster
    BY <2>1, <2>2 DEF OnItsWay, Trimming
  <2>9. ASSUME NEW c \in Clusters, See'[c] # 0
        PROVE  \E m \in Names : Within(See', dir', m, c)
    <3>1. See[c] # 0
      BY <1>0, <2>3, <2>4, <2>9
    <3>2. QED
      BY <1>2, <2>1, <2>6, <2>7, <2>8, <3>1 DEF OwnedInv
  <2>10. QED
    BY <2>9, OwnedNext
<1>12. CASE Trim
  <2> DEFINE e == file[who].cluster
  <2>1. /\ op.at = "trim" /\ e \in Clusters /\ UNCHANGED <<disk, dir, file>>
        /\ Enter(e, op.marker)
        /\ op' = [op EXCEPT !.at = "save", !.then = "trimmed",
                    !.cluster = Load(Sector(e))[Offset(e)]]
    BY <1>12 DEF Trim, medium
  <2>2. See' = [See EXCEPT ![e] = op.marker]
    BY <1>3, <2>1, Enters
  <2>3. Load(Sector(e))[Offset(e)] = See[e]
    BY <2>1, LoadedEntry
  <2>4. op'.then = "trimmed" /\ op'.cluster = See[e] /\ op.marker \in {0, EOC}
    BY <1>0, <2>1, <2>3 DEF OpType
  <2>5. \A c \in Clusters : c # e => See'[c] = See[c]
    BY <1>0, <2>2
  <2>6. \A start : ChainOf(See, start) \subseteq ChainOf(See', start) \cup ChainOf(See', See[e])
    BY <2>5, ChainFalls
  <2>7. ASSUME NEW c \in Clusters, NEW m \in Names, Within(See, dir, m, c)
        PROVE  c \in ChainOf(See', op'.cluster) \/ Within(See', dir', m, c)
    BY <2>1, <2>4, <2>6, <2>7 DEF Within
  <2>8. ASSUME NEW c \in Clusters, OnItsWay(c), See'[c] # 0
        PROVE  c \in ChainOf(See', op'.cluster)
    <3>1. op.marker = 0 /\ c \in ChainOf(See, e)
      BY <2>1, <2>8 DEF OnItsWay, OpInv, Allocating, Trimming
    <3>2. See'[e] = 0
      BY <1>0, <2>1, <2>2, <3>1
    <3>3. ChainOf(See', e) \subseteq {e}
      BY <3>2, ChainEnds
    <3>4. c \notin ChainOf(See', e)
      BY <2>8, <3>2, <3>3
    <3>5. QED
      BY <2>4, <2>6, <3>1, <3>4
  <2>9. ASSUME NEW c \in Clusters, See'[c] # 0
        PROVE  See[c] # 0 \/ c = e
    BY <2>5, <2>9
  <2>10. See[e] # 0
    <3>1. op.marker = 0 => InUse(See, e)
      BY <1>1, <2>1 DEF CallInv
    <3>2. op.marker = EOC => InUse(See, e)
      <4>1. op.marker = EOC => Within(See, dir, file[who].name, e)
        BY <1>1, <1>3, <2>1 DEF CallInv, InItsFile
      <4>2. QED
        BY <1>1, <1>2, <2>1, <4>1, ChainUsed DEF Within, Good, StartsOwned
    <3>3. QED
      BY <2>4, <3>1, <3>2 DEF InUse
  <2>11. \A c \in Clusters : See'[c] # 0 =>
           \/ op'.then = "trimmed" /\ c \in ChainOf(See', op'.cluster)
           \/ \E m \in Names : Within(See', dir', m, c)
    BY <2>4, <2>7, <2>8, <2>9, <2>10 DEF OwnedInv
  <2>12. QED
    BY <2>11, OwnedNext
<1>13. CASE Trimmed
  <2>1. /\ op.at = "trimmed"
        /\ UNCHANGED <<disk, dir, fat_buffer, buffered_fat_index>>
        /\ op' = [op EXCEPT !.at = IF op.cluster = EOC THEN "info" ELSE "trim",
                            !.then = "idle", !.marker = 0]
        /\ file'[who].cluster = op.cluster
    BY <1>0, <1>2, <1>13 DEF Trimmed, medium, buffering
  <2>2. /\ op'.at = IF op.cluster = EOC THEN "info" ELSE "trim"
        /\ op'.marker = 0 /\ op'.who = who
    BY <1>0, <2>1 DEF OpType, who
  <2>3. op.then = "trimmed"
    BY <2>1 DEF OpInv
  <2>4. See' = See
    BY <1>4, <2>1
  <2>5. ASSUME NEW c \in Clusters, OnItsWay(c)
        PROVE  op'.at = "trim" /\ c \in ChainOf(See', file'[op'.who].cluster)
    <3>1. c \in ChainOf(See, op.cluster)
      BY <2>1, <2>3, <2>5 DEF OnItsWay, Allocating
    <3>2. op.cluster # EOC
      <4>1. ChainOf(See, EOC) = {}
        BY FatChainAssumption, ChainNowhere DEF Clusters, Entries
      <4>2. QED
        BY <3>1, <4>1
    <3>3. QED
      BY <2>1, <2>2, <2>4, <3>1, <3>2
  <2>6. \A c \in Clusters : See'[c] # 0 =>
           \/ op'.at = "trim" /\ op'.marker = 0
              /\ c \in ChainOf(See', file'[op'.who].cluster)
           \/ \E m \in Names : Within(See', dir', m, c)
    BY <2>1, <2>2, <2>4, <2>5 DEF OwnedInv
  <2>7. QED
    BY <2>6, OwnedNext
<1>14. CASE ChangeOutside
  BY <1>1, <1>14 DEF ChangeOutside
<1>15. CASE WriteInfo
  <2>1. /\ op.at = "info" /\ UNCHANGED <<disk, dir, fat_buffer, buffered_fat_index>>
    BY <1>15 DEF WriteInfo, buffering
  <2>2. \A c \in Clusters : ~OnItsWay(c)
    BY <2>1 DEF OnItsWay, OpInv, Allocating, Trimming
  <2>3. QED
    BY <1>4, <2>1, <2>2, OwnedRests
<1>16. CASE EntryOrInfoFails
  BY <1>16 DEF EntryOrInfoFails, Sure, TypeOK
<1>17. QED
  BY <1>6, <1>7, <1>8, <1>9, <1>10, <1>11, <1>12, <1>13, <1>14, <1>15, <1>16
  DEF Step

LEMMA OwnedStep ==
    ASSUME TypeOK, OpInv, LinkInv, FileInv, OwnedInv, [Next]_vars, Calm', FileInv'
    PROVE  OwnedInv'
<1>1. CASE Call
  <2>1. op = Idle /\ UNCHANGED <<disk, dir>> /\ See' \in {See, disk[0]}
    BY <1>1, CallSees
  <2>2. See = disk[0]
    BY <2>1 DEF FileInv, AheadInv, Idle
  <2>3. \A c \in Clusters : ~OnItsWay(c)
    BY <2>1 DEF OnItsWay, Idle, Allocating, Trimming
  <2>4. QED
    BY <2>1, <2>2, <2>3, OwnedRests
<1>2. CASE Step
  BY <1>2, OwnedSteps DEF Calm, Sure
<1>3. CASE Crash
  BY <1>3 DEF Crash, Calm, TypeOK
<1>4. CASE UNCHANGED vars
  <2>1. UNCHANGED <<disk, dir, fat_buffer, buffered_fat_index, op, file>>
    BY <1>4 DEF vars, medium, buffering
  <2>2. See' = See /\ who' = who
    BY <2>1 DEF See, who
  <2>3. QED
    BY <2>1, <2>2
    DEF OwnedInv, OnItsWay, Within, ChainOf, Allocating, Trimming
<1>5. QED
  BY <1>1, <1>2, <1>3, <1>4 DEF Next

-----------------------------------------------------------------------------
(* What is free is counted.                                                *)

Free == {c \in Clusters : See[c] = 0}

(* What the call has taken or freed already, and not yet added to the      *)
(* cluster_change of its file.                                             *)
Coming == IF Allocating /\ op.at # "alloc" THEN 1
          ELSE IF Trimming /\ op.marker = 0 THEN -1 ELSE 0

(* The cluster_change of a set of clients, client by client.               *)
Sums(sum, f) ==
    /\ sum \in [SUBSET Clients -> Int] /\ sum[{}] = 0
    /\ \A c \in Clients, S \in SUBSET Clients :
         c \notin S => sum[S \cup {c}] = sum[S] + f[c].cluster_change

Balanced ==
    \E sum : /\ Sums(sum, file)
             /\ free_clusters = Cardinality(Free) + sum[Clients] + Coming

CountInv ==
    /\ \A c \in Clients : ~IsOpen(c) => file[c].cluster_change = 0
    /\ op.then = "entry" => file[who].cluster_change = 0
    /\ Balanced

LEMMA FreeCount ==
    ASSUME NEW f
    PROVE  /\ IsFiniteSet({c \in Clusters : f[c] = 0})
           /\ Cardinality({c \in Clusters : f[c] = 0}) \in Nat
<1>1. LastCluster \in Int
  BY FatChainAssumption DEF Entries
<1>2. IsFiniteSet(Clusters)
  BY <1>1, FS_Interval DEF Clusters
<1>3. IsFiniteSet({c \in Clusters : f[c] = 0})
  BY <1>2, FS_Subset
<1>4. QED
  BY <1>3, FS_CardinalityType

(* Entry e of a FAT is set to l.                                           *)
LEMMA FreeTaken ==
    ASSUME NEW f \in [Entries -> Links], NEW e \in Clusters, f[e] = 0,
           NEW l, l # 0, See' = [f EXCEPT ![e] = l], See = f
    PROVE  Cardinality(Free)' = Cardinality(Free) - 1
<1>1. Clusters \subseteq Entries
  BY Basics
<1>2. Free' = Free \ {e} /\ e \in Free
  BY <1>1 DEF Free
<1>3. IsFiniteSet(Free)
  BY FreeCount DEF Free
<1>4. QED
  BY <1>2, <1>3, FS_RemoveElement

LEMMA FreeGiven ==
    ASSUME NEW f \in [Entries -> Links], NEW e \in Clusters, f[e] # 0,
           See' = [f EXCEPT ![e] = 0], See = f
    PROVE  Cardinality(Free)' = Cardinality(Free) + 1
<1>1. Clusters \subseteq Entries
  BY Basics
<1>2. Free' = Free \cup {e} /\ e \notin Free
  BY <1>1 DEF Free
<1>3. IsFiniteSet(Free)
  BY FreeCount DEF Free
<1>4. QED
  BY <1>2, <1>3, FS_AddElement

LEMMA FreeSame ==
    ASSUME NEW f \in [Entries -> Links], NEW e \in Clusters, f[e] # 0,
           NEW l, l # 0, See' = [f EXCEPT ![e] = l], See = f
    PROVE  Free' = Free
<1>1. Clusters \subseteq Entries
  BY Basics
<1>2. QED
  BY <1>1 DEF Free

(* One client's cluster_change is changed by delta, and so is the sum.     *)
LEMMA SumsChange ==
    ASSUME NEW f, NEW g, NEW sum, Sums(sum, f), NEW c \in Clients,
           \A d \in Clients : f[d].cluster_change \in Int,
           NEW delta \in Int,
           g[c].cluster_change = f[c].cluster_change + delta,
           \A d \in Clients : d # c => g[d].cluster_change = f[d].cluster_change
    PROVE  \E s : Sums(s, g) /\ s[Clients] = sum[Clients] + delta
<1> DEFINE s == [S \in SUBSET Clients |-> IF c \in S THEN sum[S] + delta
                                                     ELSE sum[S]]
<1>1. sum \in [SUBSET Clients -> Int] /\ sum[{}] = 0
  BY DEF Sums
<1>2. s \in [SUBSET Clients -> Int] /\ s[{}] = 0
  BY <1>1
<1>3. s[Clients] = sum[Clients] + delta
  OBVIOUS
<1>4. ASSUME NEW d \in Clients, NEW S \in SUBSET Clients, d \notin S
      PROVE  s[S \cup {d}] = s[S] + g[d].cluster_change
  <2>1. PICK old \in Int : old = f[d].cluster_change
    OBVIOUS
  <2>2. PICK x \in Int : x = sum[S]
    BY <1>1
  <2>3. sum[S \cup {d}] = x + old
    BY <1>4, <2>1, <2>2 DEF Sums
  <2>4. S \cup {d} \in SUBSET Clients
    OBVIOUS
  <2>5. CASE d = c
    <3>1. s[S] = x /\ s[S \cup {d}] = x + old + delta
      BY <1>4, <2>2, <2>3, <2>4, <2>5
    <3>2. g[d].cluster_change = old + delta
      BY <2>1, <2>5
    <3>3. QED
      BY <3>1, <3>2
  <2>6. CASE d # c /\ c \in S
    <3>1. s[S] = x + delta /\ s[S \cup {d}] = x + old + delta
      BY <2>2, <2>3, <2>4, <2>6
    <3>2. g[d].cluster_change = old
      BY <2>1, <2>6
    <3>3. QED
      BY <3>1, <3>2
  <2>7. CASE d # c /\ c \notin S
    <3>1. s[S] = x /\ s[S \cup {d}] = x + old
      BY <2>2, <2>3, <2>4, <2>7
    <3>2. g[d].cluster_change = old
      BY <2>1, <2>7
    <3>3. QED
      BY <3>1, <3>2
  <2>8. QED
    BY <2>5, <2>6, <2>7
<1> HIDE DEF s
<1>5. Sums(s, g)
  BY <1>2, <1>4 DEF Sums
<1>6. QED
  BY <1>3, <1>5

(* Of clients that changed nothing the sum is 0.                           *)
LEMMA SumsNothing ==
    ASSUME NEW f, NEW sum, Sums(sum, f), IsFiniteSet(Clients),
           \A c \in Clients : f[c].cluster_change = 0
    PROVE  sum[Clients] = 0
<1> DEFINE Sizes == {Cardinality(S) : S \in {T \in SUBSET Clients : sum[T] # 0}}
<1>1. \A S \in SUBSET Clients : IsFiniteSet(S) /\ Cardinality(S) \in Nat
  BY FS_Subset, FS_CardinalityType
<1>2. Sizes \subseteq Nat
  BY <1>1
<1>3. ASSUME Sizes # {} PROVE FALSE
  <2> DEFINE n == First(Sizes)
  <2>1. n \in Sizes /\ \A k \in Sizes : n <= k
    BY <1>2, <1>3, FirstIn
  <2> HIDE DEF n
  <2>2. PICK S \in SUBSET Clients : sum[S] # 0 /\ Cardinality(S) = n
    BY <2>1
  <2>3. PICK c \in S : TRUE
    BY <2>2 DEF Sums
  <2>4. /\ IsFiniteSet(S \ {c}) /\ Cardinality(S \ {c}) = n - 1
    BY <1>1, <2>2, <2>3, FS_RemoveElement
  <2>5. S \ {c} \in SUBSET Clients /\ (S \ {c}) \cup {c} = S /\ c \in Clients
    BY <2>3
  <2>6. sum[S] = sum[S \ {c}] + 0
    BY <2>5 DEF Sums
  <2>7. sum[S \ {c}] \in Int
    BY <2>5 DEF Sums
  <2>8. sum[S \ {c}] # 0
    BY <2>2, <2>6, <2>7
  <2>9. n - 1 \in Sizes /\ n \in Nat
    BY <1>2, <2>1, <2>4, <2>5, <2>8
  <2>10. QED
    BY <2>1, <2>9
<1>4. QED
  BY <1>3

(* A step that changes one client's cluster_change, or none: the rest of   *)
(* the account changes with it.                                            *)
LEMMA BalanceNext ==
    ASSUME TypeOK, Balanced, NEW c \in Clients, NEW delta \in Int,
           file'[c].cluster_change = file[c].cluster_change + delta,
           \A d \in Clients : d # c =>
             file'[d].cluster_change = file[d].cluster_change,
           free_clusters' = free_clusters + Cardinality(Free)' - Cardinality(Free)
                            + Coming' - Coming + delta
    PROVE  Balanced'
<1>1. PICK sum : /\ Sums(sum, file)
                 /\ free_clusters = Cardinality(Free) + sum[Clients] + Coming
  BY DEF Balanced
<1>2. \A d \in Clients : file[d].cluster_change \in Int
  BY DEF TypeOK, Cursors
<1>3. PICK s : Sums(s, file') /\ s[Clients] = sum[Clients] + delta
  BY <1>1, <1>2, SumsChange
<1>4. sum[Clients] \in Int /\ free_clusters \in Int
  BY <1>1 DEF Sums, TypeOK
<1>5. Cardinality(Free) \in Nat /\ Cardinality(Free)' \in Nat
  BY FreeCount DEF Free
<1>6. Coming \in Int /\ Coming' \in Int
  BY DEF Coming
<1>7. PICK x \in Int : x = sum[Clients]
  BY <1>4
<1>8. PICK n \in Nat, m \in Nat : n = Cardinality(Free) /\ m = Cardinality(Free)'
  BY <1>5
<1>9. PICK i \in Int, j \in Int : i = Coming /\ j = Coming'
  BY <1>6
<1>10. free_clusters' = m + s[Clients] + j
  BY <1>1, <1>3, <1>4, <1>7, <1>8, <1>9
<1>11. QED
  BY <1>3, <1>8, <1>9, <1>10 DEF Balanced, Sums

(* ... and here nothing of it changes.                                     *)
LEMMA BalanceKept ==
    ASSUME TypeOK, Balanced, UNCHANGED free_clusters, Free' = Free,
           Coming' = Coming, NEW c \in Clients,
           \A d \in Clients : file'[d].cluster_change = file[d].cluster_change
    PROVE  Balanced'
<1>1. file[c].cluster_change \in Int
  BY DEF TypeOK, Cursors
<1>2. Cardinality(Free) \in Nat
  BY FreeCount DEF Free
<1>3. Coming \in Int /\ free_clusters \in Int
  BY DEF Coming, TypeOK
<1>4. file'[c].cluster_change = file[c].cluster_change + 0
  BY <1>1
<1>5. Cardinality(Free)' = Cardinality(Free)
  OBVIOUS
<1>6. free_clusters' = free_clusters + Cardinality(Free)' - Cardinality(Free)
                       + Coming' - Coming + 0
  BY <1>2, <1>3, <1>5
<1>7. QED
  BY <1>4, <1>6, BalanceNext

LEMMA CountCall ==
    ASSUME TypeOK, OpInv, FileInv, CountInv, Call, abandons = 0, abandons' = 0
    PROVE  CountInv'
<1>1. /\ op = Idle /\ UNCHANGED free_clusters /\ See' = See
  <2>1. op = Idle /\ See' \in {See, disk[0]}
    BY CallSees
  <2>2. See = disk[0]
    BY <2>1 DEF FileInv, AheadInv, Idle
  <2>3. UNCHANGED free_clusters
    BY DEF Call, FileNew, FileWrite, FileNextSectorExpand, FileWriteEnd,
           Abandon, medium
  <2>4. QED
    BY <2>1, <2>2, <2>3
<1>2. Free' = Free
  BY <1>1 DEF Free
<1>3. Coming = 0 /\ Coming' = 0
  <2>1. Coming = 0
    BY <1>1 DEF Coming, Idle, Allocating, Trimming
  <2>2. \/ op'.at = "idle" /\ op'.then = "idle"
        \/ op'.at = "alloc" /\ op'.then \in {"entry", "link"}
        \/ op'.then = "idle"
    BY CallSees DEF Idle
  <2>3. Coming' = 0
    BY <2>2 DEF Coming, Allocating, Trimming
  <2>4. QED
    BY <2>1, <2>3
<1>4. file \in [Clients -> Cursors]
  BY DEF TypeOK
<1>5. PICK c \in Clients :
        \/ \E n \in Names : FileNew(c, n)
        \/ FileWrite(c)
        \/ FileNextSectorExpand(c)
        \/ FileWriteEnd(c)
        \/ Abandon(c)
  BY DEF Call
<1>6. /\ \A d \in Clients : d # c => file'[d] = file[d]
      /\ file'[c].cluster_change = file[c].cluster_change
      /\ \/ file'[c].cluster_change = 0
         \/ file'[c].name = file[c].name
      /\ op'.then = "entry" => op'.who = c /\ file'[c].cluster_change = 0
  <2>1. CASE \E n \in Names : FileNew(c, n)
    <3>1. PICK n \in Names : FileNew(c, n)
      BY <2>1
    <3>2. /\ file' = [file EXCEPT ![c] = [Closed EXCEPT !.name = n,
                    !.cluster = IF dir[n] = None THEN 0 ELSE dir[n]]]
          /\ ~IsOpen(c)
          /\ op' = IF dir[n] # None THEN Idle
                   ELSE [Idle EXCEPT !.at = "alloc", !.then = "entry", !.who = c]
      BY <3>1 DEF FileNew
    <3>3. file[c].cluster_change = 0
      BY <3>2 DEF CountInv
    <3>4. \A d \in Clients : d # c => file'[d] = file[d]
      BY <1>4, <3>2
    <3>5. file'[c].cluster_change = 0
      BY <1>4, <3>2 DEF Closed
    <3>6. op'.then = "entry" => op'.who = c
      BY <3>2 DEF Idle
    <3>7. QED
      BY <3>3, <3>4, <3>5, <3>6
  <2>2. CASE FileWrite(c)
    BY <2>2 DEF FileWrite, Ready, Idle
  <2>3. CASE FileNextSectorExpand(c)
    <3>1. PICK link : /\ file' = [file EXCEPT ![c].sector = @ + 1,
                                              ![c].cluster = link]
                      /\ op' = IF link # EOC THEN Idle
                               ELSE [Idle EXCEPT !.at = "alloc", !.then = "link",
                                        !.who = c, !.prev = file[c].cluster]
      BY <2>3 DEF FileNextSectorExpand
    <3>2. op'.then # "entry"
      BY <3>1 DEF Idle
    <3>3. \A d \in Clients : d # c => file'[d] = file[d]
      BY <1>4, <3>1
    <3>4. file'[c].cluster_change = file[c].cluster_change
          /\ file'[c].name = file[c].name
      BY <1>4, <3>1 DEF Cursors
    <3>5. QED
      BY <3>2, <3>3, <3>4
  <2>4. CASE FileWriteEnd(c)
    BY <2>4 DEF FileWriteEnd, Idle
  <2>5. CASE Abandon(c)
    <3>1. /\ file' = [file EXCEPT ![c] = Closed] /\ op' = op
          /\ file[c].cluster_change = 0
      BY <2>5 DEF Abandon
    <3>2. file'[c].cluster_change = 0
      BY <1>4, <3>1 DEF Closed
    <3>3. \A d \in Clients : d # c => file'[d] = file[d]
      BY <1>4, <3>1
    <3>4. op'.then # "entry"
      BY <1>1, <3>1 DEF Idle
    <3>5. QED
      BY <3>1, <3>2, <3>3, <3>4
  <2>6. QED
    BY <1>5, <2>1, <2>2, <2>3, <2>4, <2>5
<1>7. \A d \in Clients : file'[d].cluster_change = file[d].cluster_change
  BY <1>6
<1>8. Balanced'
  BY <1>1, <1>2, <1>3, <1>7, BalanceKept DEF CountInv
<1>9. \A d \in Clients : ~IsOpen(d)' => file'[d].cluster_change = 0
  <2>1. ASSUME NEW d \in Clients, file'[d].name = None
        PROVE  file'[d].cluster_change = 0
    <3>1. CASE d = c
      BY <1>6, <2>1, <3>1 DEF CountInv, IsOpen
    <3>2. CASE d # c
      BY <1>6, <2>1, <3>2 DEF CountInv, IsOpen
    <3>3. QED
      BY <3>1, <3>2
  <2>2. QED
    BY <2>1 DEF IsOpen
<1>10. QED
  BY <1>6, <1>8, <1>9 DEF CountInv, who

(* The steps of a call: what they take from the free clusters or give      *)
(* back is on its way until the cluster_change of the file has it.         *)
LEMMA CountSteps ==
    ASSUME TypeOK, OpInv, LinkInv, FileInv, CountInv, Step, Sure', FileInv'
    PROVE  CountInv'
<1> USE Basics
<1>0. /\ See \in [Entries -> Links] /\ disk[0] \in [Entries -> Links]
      /\ op \in OpType /\ file \in [Clients -> Cursors]
      /\ free_clusters \in Int /\ Balanced
  BY SeeType DEF TypeOK, OpType, CountInv
<1>1. Good(See) /\ TailUsed(See) /\ AheadInv /\ CallInv /\ ~stray /\ ~stray'
  BY DEF LinkInv, FileInv
<1>2. ASSUME op.at # "idle"
      PROVE  who \in Clients /\ IsOpen(who)
  BY <1>0, <1>2 DEF OpInv
<1>3. op.at # "save" => See = disk[0]
  BY <1>1 DEF AheadInv, OpInv
<1>4. ASSUME UNCHANGED <<disk, fat_buffer, buffered_fat_index>>
      PROVE  See' = See /\ Free' = Free
  BY <1>4 DEF See, Free
<1>5. /\ Cardinality(Free) \in Nat /\ Cardinality(Free)' \in Nat
      /\ \A c \in Clients : file[c].cluster_change \in Int
  BY <1>0, FreeCount DEF Free, Cursors
<1>6. CASE Allocate
  <2> DEFINE e == First(FreeEntries)
  <2>1. e \in FreeEntries
    BY <1>6, FirstFree DEF Allocate
  <2>2. e \in Entries \ {0, 1} /\ Scanned(Sector(e))[Offset(e)] = 0
    BY <2>1 DEF FreeEntries
  <2>3. /\ Took(e) /\ op' = [op EXCEPT !.at = "save", !.cluster = e]
        /\ UNCHANGED <<disk, free_clusters, file>> /\ op.at = "alloc"
    BY <1>6 DEF Allocate, Took, medium
  <2> HIDE DEF e
  <2>4. See' = [See EXCEPT ![e] = EOC] /\ See[e] = 0
    BY <1>3, <2>2, <2>3, Takes
  <2>5. e \in Clusters
    <3>1. ~ (e > LastCluster)
      BY <1>1, <2>2, <2>4 DEF TailUsed
    <3>2. QED
      BY <2>2, <3>1, FatChainAssumption DEF Entries, Clusters
  <2>6. Cardinality(Free)' = Cardinality(Free) - 1
    BY <1>0, <2>4, <2>5, FreeTaken
  <2>7. /\ op'.at = "save" /\ op'.then = op.then /\ op'.who = op.who
        /\ op.then \in {"entry", "link"}
    BY <1>0, <2>3 DEF OpType, OpInv, Allocating
  <2>8. Coming = 0 /\ Coming' = 1
    BY <2>3, <2>7 DEF Coming, Allocating, Trimming
  <2>9. free_clusters' = free_clusters + Cardinality(Free)' - Cardinality(Free)
                         + Coming' - Coming + 0
    BY <1>0, <1>5, <2>3, <2>6, <2>8
  <2>10. who \in Clients
    BY <1>2, <2>3
  <2>11. /\ file'[who].cluster_change = file[who].cluster_change + 0
         /\ \A d \in Clients : d # who =>
              file'[d].cluster_change = file[d].cluster_change
    BY <1>5, <2>3, <2>10
  <2>12. Balanced'
    BY <1>0, <2>9, <2>10, <2>11, BalanceNext
  <2>13. QED
    BY <2>3, <2>7, <2>12 DEF CountInv, IsOpen, who
<1>7. CASE AllocateNone
  BY <1>7 DEF AllocateNone, Sure
<1>8. CASE FatSave
  <2>1. op.at = "save" /\ UNCHANGED <<free_clusters, fat_buffer, buffered_fat_index, file>>
    BY <1>8 DEF FatSave, buffering
  <2>2. See' = See
    <3>1. CASE op.copy = 0
      <4>1. disk'[0] = [e \in Entries |-> IF Sector(e) = buffered_fat_index
                                          THEN fat_buffer[Offset(e)]
                                          ELSE disk[0][e]]
        BY <1>8, <3>1 DEF FatSave, TypeOK
      <4>2. QED
        BY <2>1, <4>1, Saves DEF buffering
    <3>2. CASE op.copy # 0
      <4>1. disk'[0] = disk[0]
        BY <1>8, <3>2 DEF FatSave, TypeOK
      <4>2. QED
        BY <2>1, <4>1 DEF See
    <3>3. QED
      BY <3>1, <3>2
  <2>3. \/ op' = Idle /\ op.then = "idle"
        \/ /\ op'.then = op.then /\ op'.marker = op.marker /\ op'.who = op.who
           /\ op'.at \in {"save", "entry", "link", "trimmed"}
    <3>1. op.then \in {"idle", "entry", "link", "trimmed"}
      BY <2>1 DEF OpInv, Allocating, Trimming
    <3>2. QED
      BY <1>0, <1>8, <2>1, <3>1 DEF FatSave, OpType
  <2>4. Coming' = Coming
    BY <2>1, <2>3 DEF Coming, Allocating, Trimming, Idle
  <2>5. Balanced'
    <3>1. Free' = Free
      BY <2>2 DEF Free
    <3>2. who \in Clients
      BY <1>2, <2>1
    <3>3. QED
      BY <1>0, <2>1, <2>4, <3>1, <3>2, BalanceKept
  <2>6. op'.then = "entry" => op.then = "entry" /\ op'.who = op.who
    BY <2>3 DEF Idle
  <2>7. QED
    BY <2>1, <2>5, <2>6 DEF CountInv, IsOpen, who
<1>9. CASE FatSaveFails
  BY <1>9 DEF FatSaveFails, Sure, TypeOK
<1>10. CASE WriteEntry
  <2>1. /\ op.at = "entry" /\ op' = Idle
        /\ UNCHANGED <<disk, fat_buffer, buffered_fat_index, free_clusters>>
        /\ file' = [file EXCEPT ![who].cluster = op.cluster,
                                ![who].cluster_change = 1]
    BY <1>10 DEF WriteEntry, buffering
  <2>2. op.then = "entry" /\ who \in Clients
    BY <1>2, <2>1 DEF OpInv
  <2>3. file[who].cluster_change = 0
    BY <2>2 DEF CountInv
  <2>4. Coming = 1 /\ Coming' = 0
    BY <2>1, <2>2 DEF Coming, Allocating, Trimming, Idle
  <2>5. /\ file'[who].cluster_change = 1 /\ file'[who].name = file[who].name
        /\ \A d \in Clients : d # who => file'[d] = file[d]
    BY <1>0, <2>1, <2>2 DEF Cursors
  <2>6. Free' = Free
    BY <1>4, <2>1
  <2>7. Cardinality(Free)' = Cardinality(Free)
    BY <2>6
  <2>8. free_clusters' = free_clusters + Cardinality(Free)' - Cardinality(Free)
                         + Coming' - Coming + 1
    BY <1>0, <1>5, <2>1, <2>4, <2>7
  <2>9. /\ file'[who].cluster_change = file[who].cluster_change + 1
        /\ \A d \in Clients : d # who =>
             file'[d].cluster_change = file[d].cluster_change
    BY <2>3, <2>5
  <2>10. Balanced'
    BY <1>0, <2>2, <2>8, <2>9, BalanceNext
  <2>11. IsOpen(who) /\ op'.then # "entry"
    BY <1>2, <2>1 DEF Idle
  <2>12. QED
    BY <2>2, <2>5, <2>10, <2>11 DEF CountInv, IsOpen
<1>11. CASE AppendCluster
  <2>1. /\ op.at = "link" /\ op.prev \in Clusters /\ UNCHANGED <<disk, free_clusters>>
        /\ Enter(op.prev, op.cluster)
        /\ op' = [op EXCEPT !.at = "save", !.then = "idle"]
        /\ file' = [file EXCEPT ![who].cluster = op.cluster,
                                ![who].cluster_change = @ + 1]
    BY <1>11 DEF AppendCluster, medium
  <2>2. op.cluster \in Clusters /\ op.then = "link" /\ who \in Clients
    BY <1>2, <2>1 DEF LinkInv, OpInv, Allocating
  <2>3. See' = [See EXCEPT ![op.prev] = op.cluster]
    BY <1>3, <2>1, Enters
  <2>4. See[op.prev] # 0
    BY <1>3, <2>1, <2>2, FatChainAssumption DEF CallInv, FileInv
  <2>5. Free' = Free
    <3>1. op.cluster # 0
      BY <2>2
    <3>2. QED
      BY <1>0, <2>1, <2>3, <2>4, <3>1, FreeSame
  <2>6. op'.then = "idle"
    BY <1>0, <2>1 DEF OpType
  <2>7. Coming = 1 /\ Coming' = 0
    BY <2>1, <2>2, <2>6 DEF Coming, Allocating, Trimming
  <2>8. /\ file'[who].cluster_change = file[who].cluster_change + 1
        /\ file'[who].name = file[who].name
        /\ \A d \in Clients : d # who => file'[d] = file[d]
    BY <1>0, <2>1, <2>2 DEF Cursors
  <2>9. Cardinality(Free)' = Cardinality(Free)
    BY <2>5
  <2>10. free_clusters' = free_clusters + Cardinality(Free)' - Cardinality(Free)
                          + Coming' - Coming + 1
    BY <1>0, <1>5, <2>1, <2>7, <2>9
  <2>11. \A d \in Clients : d # who =>
           file'[d].cluster_change = file[d].cluster_change
    BY <2>8
  <2>12. Balanced'
    BY <1>0, <2>2, <2>8, <2>10, <2>11, BalanceNext
  <2>13. IsOpen(who)
    BY <1>2, <2>1
  <2>14. QED
    BY <2>2, <2>6, <2>8, <2>12, <2>13 DEF CountInv, IsOpen
<1>12. CASE Trim
  <2> DEFINE e == file[who].cluster
  <2>1. /\ op.at = "trim" /\ e \in Clusters
        /\ UNCHANGED <<disk, free_clusters, file>>
        /\ Enter(e, op.marker)
        /\ op' = [op EXCEPT !.at = "save", !.then = "trimmed",
                    !.cluster = Load(Sector(e))[Offset(e)]]
    BY <1>12 DEF Trim, medium
  <2>2. See' = [See EXCEPT ![e] = op.marker]
    BY <1>3, <2>1, Enters
  <2>3. /\ op'.then = "trimmed" /\ op'.marker = op.marker
        /\ op'.who = op.who /\ op.marker \in {0, EOC}
    BY <1>0, <2>1 DEF OpType
  <2>4. See[e] # 0
    <3>1. op.marker = 0 => InUse(See, e)
      BY <1>1, <2>1 DEF CallInv
    <3>2. op.marker = EOC => InUse(See, e)
      <4>1. op.marker = EOC => Within(See, dir, file[who].name, e)
        BY <1>1, <1>3, <2>1 DEF CallInv, InItsFile
      <4>2. file[who].name \in Names
        BY <1>0, <1>2, <2>1 DEF IsOpen, Cursors
      <4>3. QED
        BY <1>1, <2>1, <4>1, <4>2, ChainUsed DEF Within, Good, StartsOwned
    <3>3. QED
      BY <2>3, <3>1, <3>2 DEF InUse
  <2>5. op.then = "idle"
    BY <2>1 DEF OpInv
  <2>6. Coming = 0 /\ Coming' = IF op.marker = 0 THEN -1 ELSE 0
    BY <2>3, <2>5 DEF Coming, Allocating, Trimming
  <2>7. Cardinality(Free)' = Cardinality(Free) + IF op.marker = 0 THEN 1 ELSE 0
    <3>1. CASE op.marker = 0
      <4>1. See' = [See EXCEPT ![e] = 0]
        BY <2>2, <3>1
      <4>2. Cardinality(Free)' = Cardinality(Free) + 1
        BY <1>0, <2>1, <2>4, <4>1, FreeGiven
      <4>3. QED
        BY <3>1, <4>2
    <3>2. CASE op.marker # 0
      <4>1. Free' = Free
        BY <1>0, <2>1, <2>2, <2>4, <3>2, FreeSame
      <4>2. QED
        BY <1>5, <3>2, <4>1
    <3>3. QED
      BY <3>1, <3>2
  <2>8. free_clusters' = free_clusters + Cardinality(Free)' - Cardinality(Free)
                         + Coming' - Coming + 0
    BY <1>0, <1>5, <2>1, <2>6, <2>7
  <2>9. who \in Clients
    BY <1>2, <2>1
  <2>10. /\ file'[who].cluster_change = file[who].cluster_change + 0
         /\ \A d \in Clients : d # who =>
              file'[d].cluster_change = file[d].cluster_change
    BY <1>5, <2>1, <2>9
  <2>11. Balanced'
    BY <1>0, <2>8, <2>9, <2>10, BalanceNext
  <2>12. QED
    BY <2>1, <2>3, <2>11 DEF CountInv, IsOpen
<1>13. CASE Trimmed
  <2>1. /\ op.at = "trimmed"
        /\ UNCHANGED <<disk, free_clusters, fat_buffer, buffered_fat_index>>
        /\ op' = [op EXCEPT !.at = IF op.cluster = EOC THEN "info" ELSE "trim",
                            !.then = "idle", !.marker = 0]
        /\ file' = [file EXCEPT
             ![who].cluster = op.cluster,
             ![who].cluster_change = IF op.marker = 0 THEN @ - 1 ELSE @]
    BY <1>13 DEF Trimmed, medium, buffering
  <2>2. op.then = "trimmed" /\ who \in Clients
    BY <1>2, <2>1 DEF OpInv
  <2>3. op'.then = "idle"
    BY <1>0, <2>1 DEF OpType
  <2> DEFINE delta == IF op.marker = 0 THEN -1 ELSE 0
  <2>4. Coming = delta /\ Coming' = 0 /\ delta \in Int
    BY <2>2, <2>3 DEF Coming, Allocating, Trimming
  <2>5. /\ file'[who].cluster_change = file[who].cluster_change + delta
        /\ file'[who].name = file[who].name
        /\ \A d \in Clients : d # who => file'[d] = file[d]
    <3>1. PICK x \in Int : x = file[who].cluster_change
      BY <1>5, <2>2
    <3>2. /\ file'[who].cluster_change = IF op.marker = 0 THEN x - 1 ELSE x
          /\ file'[who].name = file[who].name
          /\ \A d \in Clients : d # who => file'[d] = file[d]
      BY <1>0, <2>1, <2>2, <3>1 DEF Cursors
    <3>3. QED
      BY <3>1, <3>2
  <2> HIDE DEF delta
  <2>6. Cardinality(Free)' = Cardinality(Free)
    BY <1>4, <2>1
  <2>7. free_clusters' = free_clusters + Cardinality(Free)' - Cardinality(Free)
                         + Coming' - Coming + delta
    BY <1>0, <1>5, <2>1, <2>4, <2>6
  <2>8. \A d \in Clients : d # who =>
          file'[d].cluster_change = file[d].cluster_change
    BY <2>5
  <2>9. Balanced'
    BY <1>0, <2>2, <2>4, <2>5, <2>7, <2>8, BalanceNext
  <2>10. IsOpen(who)
    BY <1>2, <2>1
  <2>11. QED
    BY <2>2, <2>3, <2>5, <2>9, <2>10 DEF CountInv, IsOpen
<1>14. CASE ChangeOutside
  BY <1>1, <1>14 DEF ChangeOutside
<1>15. CASE WriteInfo
  <2>1. /\ op.at = "info" /\ UNCHANGED <<disk, fat_buffer, buffered_fat_index>>
        /\ free_clusters' = free_clusters - file[who].cluster_change
        /\ file' = [file EXCEPT ![who] = Closed] /\ op' = Idle
    BY <1>15 DEF WriteInfo, buffering
  <2>2. op.then = "idle" /\ op'.then = "idle" /\ who \in Clients
    BY <1>2, <2>1 DEF OpInv, Idle
  <2>3. Coming = 0 /\ Coming' = 0
    BY <2>2 DEF Coming, Allocating, Trimming
  <2>4. /\ file'[who].cluster_change = 0
        /\ \A d \in Clients : d # who => file'[d] = file[d]
    BY <1>0, <2>1, <2>2 DEF Closed
  <2>5. PICK x \in Int : x = file[who].cluster_change
    BY <1>5, <2>2
  <2>6. PICK delta \in Int : delta = 0 - x
    OBVIOUS
  <2>7. Cardinality(Free)' = Cardinality(Free)
    BY <1>4, <2>1
  <2>8. free_clusters' = free_clusters + Cardinality(Free)' - Cardinality(Free)
                         + Coming' - Coming + delta
    BY <1>0, <1>5, <2>1, <2>3, <2>5, <2>6, <2>7
  <2>9. /\ file'[who].cluster_change = file[who].cluster_change + delta
        /\ \A d \in Clients : d # who =>
             file'[d].cluster_change = file[d].cluster_change
    BY <2>4, <2>5, <2>6
  <2>10. Balanced'
    BY <1>0, <2>2, <2>8, <2>9, BalanceNext
  <2>11. QED
    BY <2>2, <2>4, <2>10 DEF CountInv, IsOpen
<1>16. CASE EntryOrInfoFails
  BY <1>16 DEF EntryOrInfoFails, Sure, TypeOK
<1>17. QED
  BY <1>6, <1>7, <1>8, <1>9, <1>10, <1>11, <1>12, <1>13, <1>14, <1>15, <1>16
  DEF Step

LEMMA CountStep ==
    ASSUME TypeOK, OpInv, LinkInv, FileInv, CountInv, abandons = 0,
           [Next]_vars, Calm', FileInv', abandons' = 0
    PROVE  CountInv'
<1>1. CASE Call
  BY <1>1, CountCall
<1>2. CASE Step
  BY <1>2, CountSteps DEF Calm, Sure
<1>3. CASE Crash
  BY <1>3 DEF Crash, Calm, TypeOK
<1>4. CASE UNCHANGED vars
  <2>1. UNCHANGED <<disk, free_clusters, fat_buffer, buffered_fat_index, op, file>>
    BY <1>4 DEF vars, medium, buffering
  <2>2. See' = See /\ who' = who
    BY <2>1 DEF See, who
  <2>3. Free' = Free /\ Coming' = Coming
    BY <2>1, <2>2 DEF Free, Coming, Allocating, Trimming
  <2>4. Balanced'
    BY <2>1, <2>3 DEF CountInv, Balanced
  <2>5. QED
    BY <2>1, <2>2, <2>4 DEF CountInv, IsOpen
<1>5. QED
  BY <1>1, <1>2, <1>3, <1>4 DEF Next

LEMMA CountInit ==
    ASSUME Init
    PROVE  CountInv
<1>1. /\ file = [c \in Clients |-> Closed] /\ op = Idle /\ disk[0] = InitFat
      /\ free_clusters = Cardinality({e \in Clusters : InitFat[e] = 0})
  BY Basics DEF Init
<1>2. See = InitFat
  <2>1. TypeOK /\ OpInv
    BY TypeInit
  <2>2. See = disk[0]
    BY <1>1, <2>1, CopyInit DEF CopyInv, Idle
  <2>3. QED
    BY <1>1, <2>2
<1>3. Coming = 0
  BY <1>1 DEF Coming, Allocating, Trimming, Idle
<1>4. PICK sum : sum = [S \in SUBSET Clients |-> 0]
  OBVIOUS
<1>5. Sums(sum, file)
  BY <1>1, <1>4 DEF Sums, Closed
<1>6. free_clusters = Cardinality(Free) + sum[Clients] + Coming
  <2>1. free_clusters = Cardinality(Free) /\ sum[Clients] = 0
    BY <1>1, <1>2, <1>4 DEF Free
  <2>2. Cardinality(Free) \in Nat
    BY FreeCount DEF Free
  <2>3. QED
    BY <1>3, <2>1, <2>2
<1>7. Balanced
  BY <1>5, <1>6 DEF Balanced
<1>8. QED
  BY <1>1, <1>7 DEF CountInv, Closed, Idle

-----------------------------------------------------------------------------
(* The theorems.                                                           *)

LEMMA FilesInit ==
    ASSUME Init, TailUsed(InitFat)
    PROVE  FilesInv
<1>1. TypeOK /\ OpInv
  BY TypeInit
<1>2. LinkInv
  BY <1>1, LinkInit
<1>3. /\ disk[0] = InitFat /\ op = Idle /\ ~stray
      /\ buffered_fat_index = None /\ file = [c \in Clients |-> Closed]
  BY Basics DEF Init
<1>4. CursorInv
  BY <1>3 DEF CursorInv, IsOpen, Closed
<1>5. See = disk[0]
  BY <1>1, <1>3, CopyInit DEF CopyInv, Idle
<1>6. QED
  BY <1>1, <1>2, <1>3, <1>4, <1>5 DEF FilesInv, FileInv, CallInv, AheadInv,
     Idle, Trimming

LEMMA FilesStep == FilesInv /\ [Next]_vars => FilesInv'
<1> SUFFICES ASSUME FilesInv, [Next]_vars PROVE FilesInv'
  OBVIOUS
<1>1. TypeOK /\ OpInv /\ TypeOK' /\ OpInv'
  BY TypeStep DEF FilesInv
<1>2. ~failed' => LinkInv'
  BY <1>1, TroublesStay, LinkStep DEF FilesInv
<1>3. Sure' => FileInv'
  BY <1>1, TroublesStay, FileStep DEF FilesInv, Sure
<1>4. QED
  BY <1>1, <1>2, <1>3 DEF FilesInv

LEMMA CopiesStep == CopiesInv /\ [Next]_vars => CopiesInv'
<1> SUFFICES ASSUME CopiesInv, [Next]_vars PROVE CopiesInv'
  OBVIOUS
<1>1. TypeOK /\ OpInv /\ TypeOK' /\ OpInv'
  BY TypeStep DEF CopiesInv
<1>2. Calm' => CopyInv'
  BY <1>1, TroublesStay, CopyStep DEF CopiesInv, Calm
<1>3. QED
  BY <1>1, <1>2 DEF CopiesInv

(* Every variable keeps its type: no cluster of the table, no sector of    *)
(* the buffer and no copy is addressed that the volume does not have,      *)
(* whatever the FAT holds and whenever power or a write fails.             *)
THEOREM TypeCorrect == Spec => []TypeOK
<1>1. TypeOK /\ OpInv /\ [Next]_vars => TypeOK' /\ OpInv'
  BY TypeStep
<1>2. QED
  BY <1>1, TypeInit, PTL DEF Spec

(* No two files ever share a cluster on the disk, none runs into a free    *)
(* one, and every sector is written to a cluster of the file it is for,    *)
(* in whatever step the power fails, until an allocation or a sector write *)
(* has failed.  The entries of the table behind the last cluster of the    *)
(* volume must not be 0, because ClusterAllocate() looks at them too.      *)
THEOREM FilesApartCorrect == TailUsed(InitFat) /\ Spec => []FilesApart
<1>1. TailUsed(InitFat) /\ Init => FilesInv
  BY FilesInit
<1>2. FilesInv => FilesApart
  BY DEF FilesInv, FilesApart, NoCrossLink, WritesInFileUnlessFailed, LinkInv,
         Good, FileInv, Sure
<1>3. QED
  BY <1>1, <1>2, FilesStep, PTL DEF Spec

(* Whatever is done to one file, no cluster of a file that nobody has open *)
(* gets another link: FatSave() changes one entry of the first copy, and   *)
(* that one was free, cut off, or in the chain of the file being written.  *)
THEOREM OthersUntouchedCorrect == TailUsed(InitFat) /\ Spec => OthersUntouched
<1> DEFINE Untouched ==
      \A n \in Names :
         (~failed /\ faults = 0 /\ dir[n] # None
          /\ \A c \in Clients : file[c].name # n) =>
            \A c \in Chain(dir[n]) : disk'[0][c] = disk[0][c]
<1>1. TailUsed(InitFat) /\ Init => FilesInv
  BY FilesInit
<1>2. FilesInv /\ [Next]_vars => [Untouched]_vars
  <2> SUFFICES ASSUME FilesInv, [Next]_vars, NEW n \in Names, ~failed,
                      faults = 0, dir[n] # None,
                      \A c \in Clients : file[c].name # n,
                      NEW c \in Chain(dir[n])
               PROVE  disk'[0][c] = disk[0][c]
    OBVIOUS
  <2>1. TypeOK /\ OpInv /\ LinkInv /\ FileInv
    BY DEF FilesInv, Sure
  <2>2. CASE FatSave
    <3>1. who \in Clients
      BY <2>1, <2>2 DEF FatSave, OpInv
    <3>2. QED
      BY <2>1, <2>2, <3>1, ChainsSaved DEF Chain
  <2>3. CASE ~FatSave
    <3>1. UNCHANGED disk
      <4>1. CASE Call
        BY <2>1, <4>1, CallSees
      <4>2. CASE Step
        BY <2>3, <4>2 DEF Step, Allocate, AllocateNone, FatSaveFails,
           WriteEntry, AppendCluster, Trim, Trimmed, ChangeOutside, WriteInfo,
           EntryOrInfoFails, medium
      <4>3. CASE Crash \/ UNCHANGED vars
        BY <4>3 DEF Crash, vars, medium
      <4>4. QED
        BY <4>1, <4>2, <4>3 DEF Next
    <3>2. QED
      BY <3>1
  <2>4. QED
    BY <2>2, <2>3
<1>3. QED
  BY <1>1, <1>2, FilesStep, PTL DEF Spec, OthersUntouched

(* As long as there is no trouble, all copies of the FAT are the same      *)
(* between two calls, and the buffer has what is on the disk.              *)
THEOREM CopiesCorrect == Spec => []CopiesAgree
<1>1. Init => CopiesInv
  BY TypeInit, CopyInit DEF CopiesInv
<1>2. CopiesInv => CopiesAgree
  <2> SUFFICES ASSUME CopiesInv, Calm, op = Idle
               PROVE  /\ \A i \in Copies : disk[i] = disk[0]
                      /\ buffered_fat_index # None => fat_buffer =
                           [o \in 0 .. PerSector - 1 |->
                              disk[0][buffered_fat_index * PerSector + o]]
    BY DEF CopiesAgree
  <2>1. /\ See = disk[0] /\ TypeOK
        /\ \A i \in Copies : \A e \in Entries : disk[i][e] = disk[0][e]
    BY DEF CopiesInv, CopyInv, Idle
  <2>2. ASSUME NEW i \in Copies PROVE disk[i] = disk[0]
    <3>1. disk[i] \in [Entries -> Links] /\ disk[0] \in [Entries -> Links]
      BY <2>1, Basics DEF TypeOK
    <3>2. QED
      BY <2>1, <3>1
  <2>3. ASSUME buffered_fat_index # None
        PROVE  fat_buffer =
                 [o \in 0 .. PerSector - 1 |->
                    disk[0][buffered_fat_index * PerSector + o]]
    <3>1. buffered_fat_index \in FatSectors
          /\ fat_buffer \in [0 .. PerSector - 1 -> Links]
      BY <2>1, <2>3 DEF TypeOK
    <3>2. ASSUME NEW o \in 0 .. PerSector - 1
          PROVE  fat_buffer[o] = disk[0][buffered_fat_index * PerSector + o]
      <4> DEFINE e == buffered_fat_index * PerSector + o
      <4>1. e \in Entries /\ Sector(e) = buffered_fat_index /\ Offset(e) = o
        BY <3>1, EntryOf
      <4>2. See[e] = fat_buffer[o]
        BY <4>1 DEF See
      <4>3. QED
        BY <2>1, <4>2
    <3>3. QED
      BY <3>1, <3>2
  <2>4. QED
    BY <2>2, <2>3
<1>3. QED
  BY <1>1, <1>2, CopiesStep, PTL DEF Spec

(* The files, the clusters that are in use, and the count of the others.   *)
AccountsInv ==
    /\ FilesInv
    /\ Calm => OwnedInv
    /\ Calm /\ abandons = 0 => CountInv

LEMMA AccountsInit ==
    ASSUME Init, TailUsed(InitFat), NoneLost(InitFat, InitDir)
    PROVE  AccountsInv
<1>1. FilesInv
  BY FilesInit
<1>2. disk[0] = InitFat /\ dir = InitDir /\ op = Idle
  BY Basics DEF Init
<1>3. See = InitFat
  <2>1. CopyInv
    BY TypeInit, CopyInit
  <2>2. QED
    BY <1>2, <2>1 DEF CopyInv, Idle
<1>4. OwnedInv
  BY <1>2, <1>3 DEF OwnedInv, NoneLost
<1>5. QED
  BY <1>1, <1>4, CountInit DEF AccountsInv

LEMMA AbandonsStay ==
    ASSUME TypeOK, [Next]_vars, abandons' = 0
    PROVE  abandons = 0
<1>1. abandons \in Nat
  BY DEF TypeOK
<1>2. abandons' = abandons \/ abandons' = abandons + 1
  <2>1. CASE Call
    BY <2>1 DEF Call, FileNew, FileWrite, FileNextSectorExpand, FileWriteEnd,
       Abandon, history
  <2>2. CASE Step
    BY <2>2 DEF Step, Allocate, AllocateNone, FatSave, FatSaveFails,
       WriteEntry, AppendCluster, Trim, Trimmed, ChangeOutside, WriteInfo,
       EntryOrInfoFails, history
  <2>3. CASE Crash \/ UNCHANGED vars
    BY <2>3 DEF Crash, vars, history
  <2>4. QED
    BY <2>1, <2>2, <2>3 DEF Next
<1>3. QED
  BY <1>1, <1>2

LEMMA AccountsStep == AccountsInv /\ [Next]_vars => AccountsInv'
<1> SUFFICES ASSUME AccountsInv, [Next]_vars PROVE AccountsInv'
  OBVIOUS
<1>1. FilesInv /\ TypeOK /\ OpInv
  BY DEF AccountsInv, FilesInv
<1>2. FilesInv'
  BY <1>1, FilesStep
<1>3. ASSUME Calm'
      PROVE  Calm /\ LinkInv /\ FileInv /\ FileInv' /\ OwnedInv
  <2>1. Calm
    BY <1>1, <1>3, TroublesStay DEF Calm
  <2>2. QED
    BY <1>1, <1>2, <1>3, <2>1 DEF AccountsInv, FilesInv, Calm, Sure
<1>4. Calm' => OwnedInv'
  BY <1>1, <1>3, OwnedStep
<1>5. ASSUME Calm', abandons' = 0
      PROVE  CountInv'
  <2>1. abandons = 0
    BY <1>1, <1>5, AbandonsStay
  <2>2. CountInv
    BY <1>3, <1>5, <2>1 DEF AccountsInv
  <2>3. QED
    BY <1>1, <1>3, <1>5, <2>1, <2>2, CountStep
<1>6. QED
  BY <1>2, <1>4, <1>5 DEF AccountsInv

(* As long as there is no trouble, between two calls every cluster in use  *)
(* belongs to a file, if it was so at power-up; and when no file is open,  *)
(* and none was abandoned half-written, the count of free clusters that    *)
(* FileWriteEnd() keeps in the info sector is the number of entries that   *)
(* are 0.                                                                  *)
THEOREM ClustersAccountedCorrect ==
    TailUsed(InitFat) /\ NoneLost(InitFat, InitDir) /\ Spec => []ClustersAccounted
<1>1. TailUsed(InitFat) /\ NoneLost(InitFat, InitDir) /\ Init => AccountsInv
  BY AccountsInit
<1>2. AccountsInv => ClustersAccounted
  <2> SUFFICES ASSUME AccountsInv PROVE ClustersAccounted
    OBVIOUS
  <2>1. ASSUME Calm, op = Idle
        PROVE  /\ See = disk[0] /\ OwnedInv
               /\ file \in [Clients -> Cursors]
    BY <2>1 DEF AccountsInv, FilesInv, Calm, Sure, FileInv, AheadInv, Idle,
                TypeOK
  <2>2. NoClusterLost
    <3>1. ASSUME Calm, op = Idle, NEW c \in Clusters, disk[0][c] # 0
          PROVE  \E n \in Names : dir[n] # None /\ c \in Chain(dir[n])
      <4>1. ~OnItsWay(c)
        BY <3>1 DEF OnItsWay, Allocating, Trimming, Idle
      <4>2. \E n \in Names : Within(See, dir, n, c)
        BY <2>1, <3>1, <4>1 DEF OwnedInv
      <4>3. QED
        BY <2>1, <3>1, <4>2 DEF Within, Chain
    <3>2. QED
      BY <3>1 DEF NoClusterLost
  <2>3. FreeCountRight
    <3>1. ASSUME Calm, abandons = 0, op = Idle, \A c \in Clients : ~IsOpen(c)
          PROVE  free_clusters = Cardinality({e \in Clusters : disk[0][e] = 0})
      <4>1. CountInv
        BY <3>1 DEF AccountsInv
      <4>2. PICK sum : /\ Sums(sum, file)
                       /\ free_clusters = Cardinality(Free) + sum[Clients] + Coming
        BY <4>1 DEF CountInv, Balanced
      <4>3. \A c \in Clients : file[c].cluster_change = 0
        BY <3>1, <4>1 DEF CountInv
      <4>4. sum[Clients] = 0
        BY <4>2, <4>3, SumsNothing, FatChainAssumption
      <4>5. Coming = 0
        BY <3>1 DEF Coming, Allocating, Trimming, Idle
      <4>6. Free = {e \in Clusters : disk[0][e] = 0}
        BY <2>1, <3>1 DEF Free
      <4>7. Cardinality(Free) \in Nat
        BY FreeCount DEF Free
      <4>8. free_clusters = Cardinality(Free)
        BY <4>2, <4>4, <4>5, <4>7
      <4>9. QED
        BY <4>6, <4>8
    <3>2. QED
      BY <3>1 DEF FreeCountRight
  <2>4. QED
    BY <2>2, <2>3 DEF ClustersAccounted
<1>3. QED
  BY <1>1, <1>2, AccountsStep, PTL DEF Spec
=============================================================================
