------------------------------ MODULE FatFile ------------------------------
(***************************************************************************)
(* The file cursor of src/firmware/fat.c: a file is a chain of clusters in *)
(* the FAT, and a fileTYPE carries a cursor into it, the sector index      *)
(* "sector" and the cluster "cluster" that is meant to hold it.  FileSeek  *)
(* moves the cursor along the chain, FileRead turns it into a sector of    *)
(* the card.  The while loop of FileSeek is stated as a relation over the  *)
(* sequence of clusters it walks, so that the module can be proved about.  *)
(***************************************************************************)
EXTENDS Integers, FiniteSets

CONSTANTS
    Clusters,      \* the cluster numbers of the volume
    EOC,           \* end-of-chain mark, 0xFFFF or 0x0FFFFFFF
    Fat,           \* link of every cluster; the link of EOC is whatever the
                   \* table (or what follows it) holds at that index
    ClusterSize,   \* cluster_size, sectors per cluster
    DataStart      \* data_start, first sector of cluster 2

ASSUME FatAssumption ==
    /\ Clusters \subseteq Nat
    /\ EOC \in Nat \ Clusters
    /\ ClusterSize \in Nat \ {0}
    /\ DataStart \in Nat
    /\ Fat \in [Clusters \cup {EOC} -> Clusters \cup {EOC}]

Links == Clusters \cup {EOC}

(* A cursor, the part of fileTYPE that moves. *)
Cursors == [sector : Nat, cluster : Links]

(* NextCluster(): one lookup in the FAT. *)
NextCluster(c) == Fat[c]

(* The cluster number of a sector of a file, sector & cluster_mask. *)
ClusterIndex(sector) == sector \div ClusterSize

(* The first half of FileSeek(): a target behind the cursor but in another *)
(* cluster restarts from the first cluster of the file.                    *)
SeekBase(f, start, offset) ==
    IF f.sector > offset
    THEN IF ClusterIndex(f.sector) # ClusterIndex(offset)
         THEN [sector |-> 0, cluster |-> start]
         ELSE [f EXCEPT !.sector = offset]
    ELSE f

(* The clusters the while loop of FileSeek() goes through from base on, as *)
(* the set of the one sequence that follows the links to the target.       *)
SeekSteps(base, offset) ==
    ClusterIndex(offset) - ClusterIndex(base.sector)

SeekWalks(base, offset) ==
    LET n == SeekSteps(base, offset)
    IN  {walk \in [0 .. n -> Links] :
           /\ walk[0] = base.cluster
           /\ \A i \in 1 .. n : walk[i] = NextCluster(walk[i - 1])}

(* Where FileSeek() leaves the cursor, as the set of the one result.  When *)
(* the loop meets the end of the chain, at step k, the cluster is EOC and  *)
(* the sector is still one of the last cluster: FileSeek() returns 0.      *)
SeekFound(base, offset) ==
    {[sector |-> offset, cluster |-> walk[SeekSteps(base, offset)]] :
        walk \in {w \in SeekWalks(base, offset) :
                     \A i \in 1 .. SeekSteps(base, offset) : w[i] # EOC}}

SeekFailed(base, offset) ==
    {[sector |-> base.sector + (k - 1) * ClusterSize, cluster |-> EOC] :
        k \in {i \in 1 .. SeekSteps(base, offset) :
                 \E w \in SeekWalks(base, offset) :
                    w[i] = EOC /\ \A j \in 1 .. i - 1 : w[j] # EOC}}

FileSeek(f, start, offset) ==
    LET base == SeekBase(f, start, offset)
    IN  SeekFound(base, offset) \cup SeekFailed(base, offset)

(* FileRead(): the sector of the card the cursor stands for. *)
FileSector(f) ==
    DataStart + ClusterSize * (f.cluster - 2) + (f.sector % ClusterSize)

(* Reference: sector s of the file that starts at start is in cluster c    *)
(* of its chain.                                                           *)
InChain(start, s, c) ==
    \E walk \in [0 .. ClusterIndex(s) -> Clusters] :
      /\ walk[0] = start
      /\ \A i \in 1 .. ClusterIndex(s) : walk[i] = NextCluster(walk[i - 1])
      /\ walk[ClusterIndex(s)] = c
=============================================================================
