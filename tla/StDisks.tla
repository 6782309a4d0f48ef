------------------------------ MODULE StDisks ------------------------------
(***************************************************************************)
(* What the Atari ST's disks are made of: the images that                  *)
(* src/firmware/tos.c has opened, the way tos_insert_disk() finds the      *)
(* geometry of a floppy, and where a sector of a disk lies on the card.    *)
(***************************************************************************)
EXTENDS Naturals, Sequences

CONSTANTS
    CardSize,       \* sectors of the card
    Place,          \* image file -> the card's sectors that hold it
    HardFiles, FloppyFiles,
    PerTrack, Tracks, Multipliers,      \* the formats tried: 9..12, 78..85; 1, 2, 4
    OneSided,       \* 85 * 11, the sectors of the largest one-sided disk
    BootSector,     \* sector of the card -> the sides and spt it would tell
    NoFile

Files == HardFiles \cup FloppyFiles
CardSectors == 0 .. CardSize - 1

ASSUME StDisksAssumption ==
    /\ CardSize \in Nat \ {0} /\ NoFile \notin Files
    /\ Place \in [Files -> Seq(CardSectors)]
    /\ \A f \in Files : \A m, n \in DOMAIN Place[f] :
           Place[f][m] = Place[f][n] => m = n
    /\ PerTrack \subseteq Nat \ {0} /\ Tracks \subseteq Nat \ {0}
    /\ Multipliers \subseteq Nat \ {0} /\ OneSided \in Nat
    /\ BootSector \in [CardSectors -> [sides : Nat, spt : Nat]]

Size(f) == Len(Place[f])

(* More sectors than any one-sided disk has: the image has two sides. *)
Sides(size) == IF size > OneSided THEN 2 ELSE 1

(* Sectors per track of the formats that fill the image exactly. *)
Fitting(size) ==
    {x[1] * x[2] : x \in
        {y \in PerTrack \X Multipliers :
            \E t \in Tracks : y[1] * y[2] * t * Sides(size) = size}}

(* The loops of tos_insert_disk(); the last format that fits is kept, and  *)
(* no two fit.  Without one, sector 0 of the card is asked.               *)
Detected(f) ==
    IF Fitting(Size(f)) = {}
    THEN [file |-> f, sides |-> BootSector[0].sides, spt |-> BootSector[0].spt]
    ELSE [file |-> f, sides |-> Sides(Size(f)),
          spt |-> CHOOSE s \in Fitting(Size(f)) : TRUE]

Ejected == [file |-> NoFile, sides |-> 1, spt |-> 0]

(* What tos_insert_disk() may make of an image.  When sector 0 cannot be   *)
(* read either, the drive stays empty.                                     *)
Inserted(f) ==
    {Detected(f)} \cup (IF Fitting(Size(f)) = {} THEN {Ejected} ELSE {})

Floppies == {Ejected} \cup [file : FloppyFiles, sides : Nat, spt : Nat]

(* handle_fdc(): sectors are stored track by track, both sides in turn. *)
FloppyOffset(disk, track, side, sector) ==
    (track * disk.sides + side) * disk.spt + sector - 1

=============================================================================
