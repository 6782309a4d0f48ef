---------------------------- MODULE MCHardDisk ----------------------------
(* A hardfile of three clusters, scattered on the card and one sector      *)
(* longer than its cylinders, and a partition with two heads.              *)
EXTENDS HardDisk, TLC

MCFat == 4 :> 2 @@ 2 :> 3 @@ 3 :> 9 @@ 9 :> 9
MCHeads == [t \in Types |-> IF t = "card" THEN 2 ELSE 1]
MCSectors == [t \in Types |-> IF t = "card" THEN 1 ELSE 2]
MCInitCard == [s \in 0 .. 7 |-> 10 + s]

(* The hypothesis of the theorems of HardDiskProofs. *)
ASSUME Ends == EndsInside
=============================================================================
