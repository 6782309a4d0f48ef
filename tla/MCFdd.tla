------------------------------- MODULE MCFdd -------------------------------
(* Two drives and two scattered images of two tracks, the second track of  *)
(* each starting inside a cluster; one image is read-only.  Head 2 is      *)
(* behind the last track.                                                  *)
EXTENDS Fdd, TLC

MCFat == 2 :> 5 @@ 5 :> 3 @@ 3 :> 9 @@ 4 :> 7 @@ 7 :> 6 @@ 6 :> 9 @@ 9 :> 9
MCInitCard == [s \in 0 .. 15 |-> 10 + s]
MCStart == "a" :> 2 @@ "b" :> 4

Good == {"header", "data"}
Gap == << Piece("gap", 0, 0, 0) >>

\* Backwards; with bad data and a gap; with a broken header and
\* another track, and ending in a sync.
MCStreams ==
    { Sector(0, 2, 1, Good) \o Sector(0, 0, 2, Good),
      Sector(1, 1, 3, {"header"}) \o Gap \o Sector(1, 2, 4, Good),
      Sector(0, 0, 5, {"data"}) \o Sector(1, 0, 6, Good)
        \o << Piece("sync", 0, 0, 0) >> }

\* A transfer that ends inside a header.
MCCut == { << Piece("sync", 0, 0, 0), Piece("fragment", 0, 0, 0) >> }

\* The images are apart, and the driver writes sectors.
ASSUME Fits == Apart /\ WellWritten
=============================================================================
