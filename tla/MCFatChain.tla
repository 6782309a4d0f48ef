---------------------------- MODULE MCFatChain ----------------------------
(***************************************************************************)
(* A FAT of two sectors of three entries; file a has the clusters 2, 4 and *)
(* 5, file b does not exist yet, cluster 3 is free.                        *)
(***************************************************************************)
EXTENDS FatChain

CONSTANTS a, b, u, m

MCFat == [e \in 0 .. 5 |-> CASE e = 0 -> 98 [] e = 1 -> 99 [] e = 2 -> 4
                             [] e = 4 -> 5 [] e = 5 -> 99 [] OTHER -> 0]
MCDir == [n \in {a, b} |-> IF n = a THEN 2 ELSE -1]

(* A volume that ends with cluster 4, on a FAT that goes on behind it.     *)
MCFatBeyond == [MCFat EXCEPT ![4] = 99, ![5] = 0]
=============================================================================
