----------------------------- MODULE FatChain -----------------------------
(***************************************************************************)
(* Writing files: the allocation of clusters in src/firmware/fat.c.  The   *)
(* FAT is kept in several copies of FatSize sectors, changed one sector at *)
(* a time in a buffer that is then written to every copy (FatSave); only   *)
(* the first copy is ever read.  Whoever writes a file (the XMODEM         *)
(* receiver, the menus that save settings, src/tests/fattests/fatwrite.c)  *)
(* calls FileNew(), then FileWrite() and FileNextSectorExpand() in turns,  *)
(* and FileWriteEnd() to trim the chain, or never gets to the end.         *)
(* Between two sector writes the power may fail, and a sector write may.   *)
(***************************************************************************)
EXTENDS Integers, FiniteSets

CONSTANTS
    PerSector,     \* entries in a sector of the FAT, 256 or 128
    FatSize,       \* fat_size, sectors of one copy
    FatNumber,     \* fat_number, copies
    LastCluster,   \* the last cluster the volume has
    ClusterSize,   \* cluster_size
    EOC,           \* end of chain, 0xFFFF or 0x0FFFFFFF
    Media,         \* what entry 0 holds, 0xFFF8 or 0x0FFFFFF8
    Names,         \* files in the root directory
    Clients,       \* the writers
    InitFat,       \* the FAT at power-up
    InitDir,       \* the start clusters of the files at power-up
    MaxSector,     \* bound: sectors of a file that is written
    MaxTroubles    \* bound: power failures, sector accesses that fail, and
                   \* files that are changed and never ended

Entries == 0 .. FatSize * PerSector - 1
Clusters == 2 .. LastCluster
Links == Entries \cup {EOC, Media}
FatSectors == 0 .. FatSize - 1
Copies == 0 .. FatNumber - 1
None == -1                     \* no such file, no sector in the buffer

Sector(e) == e \div PerSector  \* CLUSTER2SECTOR
Offset(e) == e % PerSector     \* CLUSTER2OFFSET

(* What NoCrossLink says of a FAT and a directory, see below.  A cluster   *)
(* in use leads to another one or ends a chain; one that is free, bad or   *)
(* reserved does neither.                                                  *)
InUse(fat, c) == fat[c] \in Clusters \cup {EOC}
TargetsUsed(fat) ==
    \A c \in Clusters : fat[c] \in Clusters => InUse(fat, fat[c])
LinksInjective(fat) ==
    \A c, d \in Clusters : fat[c] = fat[d] /\ fat[c] \in Clusters => c = d
StartsOwned(fat, dir) ==
    \A n \in Names : dir[n] # None =>
        /\ dir[n] \in Clusters /\ InUse(fat, dir[n])
        /\ \A c \in Clusters : fat[c] # dir[n]
        /\ \A m \in Names : dir[m] = dir[n] => m = n

ASSUME FatChainAssumption ==
    /\ PerSector \in Nat \ {0, 1, 2} /\ FatSize \in Nat \ {0}
    /\ FatNumber \in Nat \ {0} /\ ClusterSize \in Nat \ {0}
    /\ LastCluster \in Entries \ {0, 1}
    /\ EOC \in Nat \ Entries /\ Media \in Nat \ Entries /\ EOC # Media
    /\ InitFat \in [Entries -> Links] /\ InitFat[0] = Media
    /\ InitDir \in [Names -> Entries \cup {None}]
    /\ IsFiniteSet(Clients) /\ None \notin Names /\ None \notin Clients
    /\ MaxSector \in Nat /\ MaxTroubles \in Nat

(* The card was in order when it was put in. *)
ASSUME CardAssumption ==
    /\ TargetsUsed(InitFat)
    /\ LinksInjective(InitFat)
    /\ StartsOwned(InitFat, InitDir)

VARIABLES
    disk,                \* the copies of the FAT
    dir,                 \* start cluster of every file that exists
    free_clusters,       \* the count in the info sector
    fat_buffer,          \* the sector of the FAT last loaded
    buffered_fat_index,  \* which one that is
    file,                \* the fileTYPE of every client
    op,                  \* the call that is being executed
    crashes, faults,     \* power failures and failed accesses so far
    failed,              \* ClusterAllocate() has returned 0
    abandons,            \* changed files not ended with FileWriteEnd()
    stray                \* a client wrote to a cluster not of its file

medium == <<disk, dir, free_clusters>>
buffering == <<fat_buffer, buffered_fat_index>>
history == <<crashes, faults, failed, abandons, stray>>
vars == <<medium, buffering, file, op, history>>

Closed == [name |-> None, cluster |-> 0, sector |-> 0, cluster_change |-> 0]
IsOpen(c) == file[c].name # None

(* at: the next step of the call; then: the one after FatSave(); cluster:  *)
(* the one allocated, or the next one to trim; prev: the one to link from. *)
Idle == [at |-> "idle", then |-> "idle", who |-> None, copy |-> 0,
         cluster |-> 0, prev |-> 0, marker |-> 0]

-----------------------------------------------------------------------------
Stored(s) == [o \in 0 .. PerSector - 1 |-> disk[0][s * PerSector + o]]

\* Mutant: any sector in the buffer will do.
LoadAny(s) == IF buffered_fat_index # None THEN fat_buffer ELSE Stored(s)

(* FatLoad(): the buffer when sector s is needed. *)
Load(s) == IF buffered_fat_index = s THEN fat_buffer ELSE Stored(s)

(* Entry e is loaded and set to l in the buffer. *)
Enter(e, l) ==
    /\ fat_buffer' = [Load(Sector(e)) EXCEPT ![Offset(e)] = l]
    /\ buffered_fat_index' = Sector(e)

(* The scan of ClusterAllocate() begins at sector 0; a later sector is     *)
(* never the buffered one when it is its turn.                             *)
Scanned(s) == IF s = 0 THEN Load(0) ELSE Stored(s)

FreeEntries == {e \in Entries \ {0, 1} : Scanned(Sector(e))[Offset(e)] = 0}

First(S) == CHOOSE e \in S : \A f \in S : e <= f

(* The clusters of a chain: the smallest set that has the first one and,   *)
(* with a cluster, the one it leads to.                                    *)
ChainOf(fat, start) ==
    {c \in Clusters : \A S \in SUBSET Clusters :
        /\ start \in Clusters => start \in S
        /\ \A d \in S : fat[d] \in Clusters => fat[d] \in S
        => c \in S}

Chain(start) == ChainOf(disk[0], start)

-----------------------------------------------------------------------------
(* The calls.  One is executed at a time.  What becomes of a card after a  *)
(* write to the wrong place is not modelled.                               *)

Ready == op = Idle /\ ~stray

MoreTroubles == crashes + faults + abandons < MaxTroubles

(* FileNew(): an existing file is opened, a new one created.  No two       *)
(* clients use the same file.                                              *)
FileNew(c, n) ==
    /\ Ready
    /\ ~IsOpen(c)
    /\ \A d \in Clients : file[d].name # n
    /\ file' = [file EXCEPT ![c] = [Closed EXCEPT !.name = n,
                    !.cluster = IF dir[n] = None THEN 0 ELSE dir[n]]]
    /\ op' = IF dir[n] # None THEN Idle
             ELSE [Idle EXCEPT !.at = "alloc", !.then = "entry", !.who = c]
    /\ UNCHANGED <<medium, buffering, history>>

(* FileWrite(): a sector is written wherever the cursor points. *)
FileWrite(c) ==
    /\ Ready
    /\ IsOpen(c)
    /\ stray' = (stray \/ file[c].cluster \notin Chain(dir[file[c].name]))
    /\ UNCHANGED <<medium, buffering, file, op, crashes, faults, failed,
                   abandons>>

\* Mutant: the end of the chain is not looked for.
NextSectorOnly(c) ==
    /\ Ready
    /\ IsOpen(c)
    /\ file[c].sector < MaxSector
    /\ file' = [file EXCEPT ![c].sector = @ + 1,
                  ![c].cluster =
                     IF (file[c].sector + 1) % ClusterSize = 0 /\ @ \in Entries
                     THEN Load(Sector(@))[Offset(@)] ELSE @]
    /\ UNCHANGED <<medium, buffering, op, history>>

(* FileNextSectorExpand(), up to the call of ClusterAllocate(). *)
FileNextSectorExpand(c) ==
    LET f == file[c]
        crossed == (f.sector + 1) % ClusterSize = 0
    IN  /\ Ready
        /\ IsOpen(c)
        /\ f.sector < MaxSector
        /\ \E link \in IF ~crossed THEN {f.cluster}
                       ELSE IF f.cluster \in Entries
                       THEN {Load(Sector(f.cluster))[Offset(f.cluster)]}
                       ELSE Links :
             /\ file' = [file EXCEPT ![c].sector = @ + 1, ![c].cluster = link]
             /\ op' = IF link # EOC THEN Idle
                      ELSE [Idle EXCEPT !.at = "alloc", !.then = "link",
                                        !.who = c, !.prev = f.cluster]
        /\ IF ~crossed THEN UNCHANGED buffering
           ELSE IF f.cluster \in Entries
           THEN /\ fat_buffer' = Load(Sector(f.cluster))
                /\ buffered_fat_index' = Sector(f.cluster)
           ELSE buffered_fat_index' = None /\ UNCHANGED fat_buffer
        /\ UNCHANGED <<medium, history>>

\* Mutant: the current cluster is freed as well.
EndFreesCurrent(c) ==
    /\ Ready
    /\ IsOpen(c)
    /\ op' = [Idle EXCEPT !.at = IF file[c].cluster = EOC THEN "info" ELSE "trim",
                          !.who = c, !.marker = 0]
    /\ UNCHANGED <<medium, buffering, file, history>>

(* FileWriteEnd(): the last cluster is marked, the ones behind are freed. *)
FileWriteEnd(c) ==
    /\ Ready
    /\ IsOpen(c)
    /\ op' = [Idle EXCEPT !.at = IF file[c].cluster = EOC THEN "info" ELSE "trim",
                          !.who = c, !.marker = EOC]
    /\ UNCHANGED <<medium, buffering, file, history>>

(* The client forgets the file: a timeout of XMODEM, or a menu, which does *)
(* not call FileWriteEnd().                                                *)
Abandon(c) ==
    /\ Ready
    /\ IsOpen(c)
    /\ file' = [file EXCEPT ![c] = Closed]
    /\ file[c].cluster_change # 0 => MoreTroubles
    /\ abandons' = IF file[c].cluster_change # 0 THEN abandons + 1 ELSE abandons
    /\ UNCHANGED <<medium, buffering, op, crashes, faults, failed, stray>>

-----------------------------------------------------------------------------
(* Their steps, from sector write to sector write.                         *)

who == op.who

(* A call that returns 0: FileNew() leaves no file open; after the others  *)
(* the client goes on, it only logs the failure.                           *)
Fail ==
    /\ op' = Idle
    /\ file' = IF op.then \in {"entry", "trimmed"} THEN [file EXCEPT ![who] = Closed]
               ELSE IF op.then = "link" THEN [file EXCEPT ![who].cluster = 0]
               ELSE file

(* ClusterAllocate() takes the first free entry of the table ... *)
Allocate ==
    /\ op.at = "alloc"
    /\ FreeEntries # {}
    /\ LET e == First(FreeEntries) IN
         /\ fat_buffer' = [Scanned(Sector(e)) EXCEPT ![Offset(e)] = EOC]
         /\ buffered_fat_index' = Sector(e)
         /\ op' = [op EXCEPT !.at = "save", !.cluster = e]
    /\ UNCHANGED <<medium, file, history>>

(* ... and returns 0 when there is none; the last sector stays buffered. *)
AllocateNone ==
    /\ op.at = "alloc"
    /\ FreeEntries = {}
    /\ Fail
    /\ failed' = TRUE
    /\ fat_buffer' = Scanned(FatSize - 1)
    /\ buffered_fat_index' = FatSize - 1
    /\ UNCHANGED <<medium, crashes, faults, abandons, stray>>

\* Mutants: only the first copy, one copy too many.
SaveFirstOnly ==
    /\ op.at = "save"
    /\ disk' = [disk EXCEPT ![0] =
                  [e \in Entries |-> IF Sector(e) = buffered_fat_index
                                     THEN fat_buffer[Offset(e)] ELSE @[e]]]
    /\ op' = IF op.then = "idle" THEN Idle ELSE [op EXCEPT !.at = op.then]
    /\ UNCHANGED <<dir, free_clusters, buffering, file, history>>

SaveOneTooMany ==
    /\ op.at = "save"
    /\ op' = IF op.copy < FatNumber THEN [op EXCEPT !.copy = @ + 1]
             ELSE IF op.then = "idle" THEN Idle
             ELSE [op EXCEPT !.at = op.then, !.copy = 0]
    /\ UNCHANGED <<medium, buffering, file, history>>

(* FatSave(): one copy after the other. *)
FatSave ==
    /\ op.at = "save"
    /\ disk' = [disk EXCEPT ![op.copy] =
                  [e \in Entries |-> IF Sector(e) = buffered_fat_index
                                     THEN fat_buffer[Offset(e)] ELSE @[e]]]
    /\ op' = IF op.copy + 1 < FatNumber THEN [op EXCEPT !.copy = @ + 1]
             ELSE IF op.then = "idle" THEN Idle
             ELSE [op EXCEPT !.at = op.then, !.copy = 0]
    /\ UNCHANGED <<dir, free_clusters, buffering, file, history>>

(* A write fails; the buffer keeps what the disk does not have.            *)
(* FileCreate() may try again, for the next empty entry of the directory.  *)
FatSaveFails ==
    /\ op.at = "save"
    /\ MoreTroubles
    /\ faults' = faults + 1
    /\ failed' = (failed \/ op.then \in {"entry", "link"})
    /\ \/ Fail
       \/ /\ op.then = "entry"
          /\ op' = [op EXCEPT !.at = "alloc", !.copy = 0]
          /\ UNCHANGED file
    /\ UNCHANGED <<medium, buffering, crashes, abandons, stray>>

\* Mutant: the first cluster of a new file is not counted.
EntryUncounted ==
    /\ op.at = "entry"
    /\ dir' = [dir EXCEPT ![file[who].name] = op.cluster]
    /\ file' = [file EXCEPT ![who].cluster = op.cluster]
    /\ op' = Idle
    /\ UNCHANGED <<disk, free_clusters, buffering, history>>

(* FileCreate(): the directory entry. *)
WriteEntry ==
    /\ op.at = "entry"
    /\ dir' = [dir EXCEPT ![file[who].name] = op.cluster]
    /\ file' = [file EXCEPT ![who].cluster = op.cluster,
                            ![who].cluster_change = 1]
    /\ op' = Idle
    /\ UNCHANGED <<disk, free_clusters, buffering, history>>

(* FileNextSectorExpand(): the new cluster is appended to the chain. *)
AppendCluster ==
    /\ op.at = "link"
    /\ op.prev \in Clusters
    /\ file' = [file EXCEPT ![who].cluster = op.cluster,
                            ![who].cluster_change = @ + 1]
    /\ Enter(op.prev, op.cluster)
    /\ op' = [op EXCEPT !.at = "save", !.then = "idle"]
    /\ UNCHANGED <<medium, history>>

(* FileWriteEnd(): one turn of its loop, up to FatSave() ... *)
Trim ==
    /\ op.at = "trim"
    /\ file[who].cluster \in Clusters
    /\ Enter(file[who].cluster, op.marker)
    /\ op' = [op EXCEPT !.at = "save", !.then = "trimmed",
                !.cluster = Load(Sector(file[who].cluster))
                                [Offset(file[who].cluster)]]
    /\ UNCHANGED <<medium, file, history>>

\* Mutant: only one cluster is looked at.
TrimmedOnce ==
    /\ op.at = "trimmed"
    /\ file' = [file EXCEPT ![who].cluster = op.cluster]
    /\ op' = [op EXCEPT !.at = "info", !.then = "idle", !.marker = 0]
    /\ UNCHANGED <<medium, buffering, history>>

(* ... and behind it. *)
Trimmed ==
    /\ op.at = "trimmed"
    /\ file' = [file EXCEPT
         ![who].cluster = op.cluster,
         ![who].cluster_change = IF op.marker = 0 THEN @ - 1 ELSE @]
    /\ op' = [op EXCEPT !.at = IF op.cluster = EOC THEN "info" ELSE "trim",
                        !.then = "idle", !.marker = 0]
    /\ UNCHANGED <<medium, buffering, history>>

(* The cluster to append to, or the one the loop of FileWriteEnd() came    *)
(* to, is none of the volume: other entries of the FAT are changed, or     *)
(* sectors that are no FAT.                                                *)
ChangeOutside ==
    /\ op.at \in {"link", "trim"}
    /\ (IF op.at = "link" THEN op.prev ELSE file[who].cluster) \notin Clusters
    /\ stray' = TRUE
    /\ file' = [file EXCEPT ![who] = Closed]
    /\ op' = Idle
    /\ UNCHANGED <<medium, buffering, crashes, faults, failed, abandons>>

(* The count of free clusters in the info sector, of a volume that has a   *)
(* valid one.                                                              *)
WriteInfo ==
    /\ op.at = "info"
    /\ free_clusters' = free_clusters - file[who].cluster_change
    /\ file' = [file EXCEPT ![who] = Closed]
    /\ op' = Idle
    /\ UNCHANGED <<disk, dir, buffering, history>>

(* The sector of the directory cannot be written, or the info sector read  *)
(* or written: FileNew() or FileWriteEnd() returns 0, a cluster allocated  *)
(* for the new file stays allocated.                                       *)
EntryOrInfoFails ==
    /\ \/ op.at = "entry"
       \/ op.at = "info" /\ file[who].cluster_change # 0
    /\ MoreTroubles
    /\ faults' = faults + 1
    /\ file' = [file EXCEPT ![who] = Closed]
    /\ op' = Idle
    /\ UNCHANGED <<medium, buffering, crashes, failed, abandons, stray>>

(* The power fails; FindDrive() starts over with an empty buffer. *)
Crash ==
    /\ MoreTroubles
    /\ crashes' = crashes + 1
    /\ buffered_fat_index' = None
    /\ file' = [c \in Clients |-> Closed]
    /\ op' = Idle
    /\ UNCHANGED <<medium, fat_buffer, faults, failed, abandons, stray>>

-----------------------------------------------------------------------------

Init ==
    /\ disk = [i \in Copies |-> InitFat]
    /\ dir = InitDir
    /\ free_clusters = Cardinality({e \in Clusters : InitFat[e] = 0})
    /\ fat_buffer = [o \in 0 .. PerSector - 1 |-> 0]
    /\ buffered_fat_index = None
    /\ file = [c \in Clients |-> Closed]
    /\ op = Idle
    /\ crashes = 0 /\ faults = 0
    /\ failed = FALSE /\ abandons = 0 /\ stray = FALSE

Call ==
    \E c \in Clients :
        \/ \E n \in Names : FileNew(c, n)
        \/ FileWrite(c)
        \/ FileNextSectorExpand(c)
        \/ FileWriteEnd(c)
        \/ Abandon(c)

Step ==
    \/ Allocate \/ AllocateNone \/ FatSave \/ FatSaveFails \/ WriteEntry
    \/ AppendCluster \/ Trim \/ Trimmed \/ ChangeOutside \/ WriteInfo
    \/ EntryOrInfoFails

Next == Call \/ Step \/ Crash

Spec == Init /\ [][Next]_vars

-----------------------------------------------------------------------------
(* Properties.                                                             *)

Cursors == [name : Names \cup {None}, cluster : Links,
            sector : 0 .. MaxSector, cluster_change : Int]

Ats == {"idle", "alloc", "save", "entry", "link", "trim", "trimmed", "info"}

TypeOK ==
    /\ disk \in [Copies -> [Entries -> Links]]
    /\ dir \in [Names -> Entries \cup {None}]
    /\ free_clusters \in Int
    /\ fat_buffer \in [0 .. PerSector - 1 -> Links]
    /\ buffered_fat_index \in FatSectors \cup {None}
    /\ file \in [Clients -> Cursors]
    /\ op \in [at : Ats, then : Ats, who : Clients \cup {None}, copy : Copies,
               cluster : Links, prev : Links, marker : {0, EOC}]
    /\ crashes \in Nat /\ faults \in Nat /\ abandons \in Nat
    /\ failed \in BOOLEAN /\ stray \in BOOLEAN

(* On the disk no two files ever share a cluster and no file runs into a   *)
(* free one, at whatever sector write the power fails: every link leads to *)
(* a used cluster, no two links lead to the same one, and none leads to    *)
(* the first cluster of a file.                                            *)
NoCrossLink ==
    ~failed => /\ TargetsUsed(disk[0])
               /\ LinksInjective(disk[0])
               /\ StartsOwned(disk[0], dir)

(* Every sector is written to a cluster of the file that is being written. *)
WritesInFile == ~stray
WritesInFileUnlessFailed == ~failed /\ faults = 0 => ~stray

(* Files stay apart: on the card, and in what is written next. *)
FilesApart == NoCrossLink /\ WritesInFileUnlessFailed

Calm == crashes = 0 /\ faults = 0 /\ ~failed

(* Between two calls all copies of the FAT are the same, and the buffer is *)
(* what it is a buffer of.                                                 *)
CopiesAgree ==
    Calm /\ op = Idle =>
        /\ \A i \in Copies : disk[i] = disk[0]
        /\ buffered_fat_index # None => fat_buffer =
              [o \in 0 .. PerSector - 1 |->
                  disk[0][buffered_fat_index * PerSector + o]]

(* Between two calls every used cluster belongs to a file: what            *)
(* FileWriteEnd() cuts off is freed to the end.                            *)
NoClusterLost ==
    Calm /\ op = Idle =>
        \A c \in Clusters : disk[0][c] # 0 =>
            \E n \in Names : dir[n] # None /\ c \in Chain(dir[n])

(* When no file is open the count of the info sector is right. *)
FreeCountRight ==
    (Calm /\ abandons = 0 /\ op = Idle /\ \A c \in Clients : ~IsOpen(c)) =>
        free_clusters = Cardinality({e \in Clusters : disk[0][e] = 0})

(* Every cluster is in a file or free, and what is free is counted. *)
ClustersAccounted == NoClusterLost /\ FreeCountRight

(* Whatever is done to one file, and wherever it is interrupted, the chain *)
(* of a file that nobody has open stays as it is.                          *)
OthersUntouched ==
    [][\A n \in Names :
         (~failed /\ faults = 0 /\ dir[n] # None /\ \A c \in Clients : file[c].name # n) =>
            \A c \in Chain(dir[n]) : disk'[0][c] = disk[0][c]]_vars
=============================================================================
