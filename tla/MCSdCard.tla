----------------------------- MODULE MCSdCard -----------------------------
(***************************************************************************)
(* A card of three sectors that differ and one value to write; and, for    *)
(* the runs with a file, a card that is two clusters of two sectors, both  *)
(* of them the file's, in the order 3, 2.                                  *)
(***************************************************************************)
EXTENDS SdCard

CONSTANTS d0, d1, d2, d3, x

SmallCard == [s \in 0 .. 2 |-> CASE s = 0 -> d0 [] s = 1 -> d1 [] OTHER -> d2]
ImageCard == [s \in 0 .. 3 |-> CASE s = 0 -> d0 [] s = 1 -> d1 [] s = 2 -> d2
                                  [] OTHER -> d3]

MCClusters == {2, 3}
MCEOC == 99
\* cluster 3 -> 2 -> end; what lies at the index of EOC reads as cluster 3 here
MCFat == [c \in {2, 3, 99} |-> IF c = 2 THEN 99 ELSE IF c = 3 THEN 2 ELSE 3]
=============================================================================
