------------------------------ MODULE MCStDma ------------------------------
(* A card of twelve sectors: a hard disk image of three, scattered, a      *)
(* floppy of two tracks, two sides and two sectors, and sector 0, which    *)
(* belongs to neither.                                                     *)
EXTENDS StDma, TLC

MCPlace == "h" :> <<3, 1, 2>> @@ "f" :> <<4, 5, 6, 7, 8, 9, 10, 11>>
MCBootSector == [s \in CardSectors |-> [sides |-> 2, spt |-> 2]]

(* What the proofs suppose of the commands holds of these. *)
ASSUME MCCommands == NoWrap /\ Inside

(* The formats that tos_insert_disk() tries: each is found in an image of  *)
(* its size, unless its one side is taken for two.                         *)
Real == INSTANCE StDisks WITH PerTrack <- 9 .. 12, Tracks <- 78 .. 85,
                              Multipliers <- {1, 2, 4}, OneSided <- 85 * 11

ASSUME OneFormat ==
    \A s \in 9 .. 12, m \in {1, 2, 4}, t \in 78 .. 85, sides \in {1, 2} :
        LET size == sides * t * s * m
        IN  Real!Sides(size) = sides => Real!Fitting(size) = {s * m}
=============================================================================
