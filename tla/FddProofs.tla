----------------------------- MODULE FddProofs -----------------------------
(***************************************************************************)
(* What holds of the floppy drives for every number of drives, images,     *)
(* tracks and sectors, every chain of every image, every FIFO, and every   *)
(* length of the reads and content of the writes.  The types and the disk  *)
(* change latch need nothing else.  That the streams and the images are    *)
(* right needs the hypotheses the constants of the model name: that the    *)
(* driver is not faster than a call of HandleFDD() (SlowSelect), that no   *)
(* request comes while a file is selected (QuietInsert), that the track    *)
(* behind a written one is not the next one to be read (RereadFirst), that *)
(* no two sectors share a place on the card (Apart), and that the Amiga    *)
(* writes sectors (WellWritten).  Each invariant below is preserved by     *)
(* every step in which those before it hold.                               *)
(***************************************************************************)
EXTENDS Fdd, FiniteSetTheorems, SequenceTheorems, WellFoundedInduction, TLAPS

-----------------------------------------------------------------------------
(* The first invariant: types, *)

Controllers ==
    [sel : Drives, dsktrack : [Drives -> Heads], dmaen : BOOLEAN, write : BOOLEAN,
     dsklen : Nat, state : {"idle", "active"}, fifo : Seq(Pieces),
     present : SUBSET Drives, change : SUBSET Drives]

DriveStates ==
    [img : Images, status : SUBSET {"inserted", "writable"},
     cache : [TrackNumbers -> Links], cluster_offset : Links,
     sector_offset : 0 .. SECTOR_COUNT - 1, track : Heads, track_prev : Int]

Places == {"poll", "start", "read", "rest", "sync", "header", "data", "update", "ui"}

Arms == [pc : Places, drive : Drives, sector : 0 .. SECTOR_COUNT - 1, val : Int]

Amigas ==
    [pc : {"rest", "read", "write"}, got : Seq(Pieces), img : Images \cup {NoImage},
     left : Seq(Pieces), jobs : Nat]

TypeInv ==
    /\ fpga \in Controllers
    /\ df \in [Drives -> DriveStates]
    /\ file \in Cursors
    /\ card \in [DOMAIN InitCard -> Int]
    /\ arm \in Arms
    /\ menu \in [drive : Drives, img : Images \cup {NoImage}, swaps : Nat]
    /\ amiga \in Amigas
    /\ amiga.pc = "rest" => amiga = Rest(amiga.jobs)
    /\ exp \in [Images -> [ImageSectors -> Int]]
    /\ seen \in [Drives -> Images \cup {NoImage}]

(* what the controller, the driver and the main loop agree on, *)
LinkInv ==
    /\ arm.pc \in {"start", "read", "rest"} => df[arm.drive].track \in TrackNumbers
    /\ ~fpga.dmaen => fpga.state = "idle"
    /\ fpga.state = "idle" => fpga.fifo = <<>>
    /\ amiga.pc = "read" <=> fpga.dmaen /\ ~fpga.write
    /\ fpga.dmaen /\ fpga.write => amiga.pc = "write"
    /\ amiga.pc = "write" => fpga.write /\ fpga.dsklen = Len(amiga.left)

BaseInv == TypeInv /\ LinkInv

(* The disk change latch: a drive that the controller takes for empty has  *)
(* it set, and the controller is told before the menu changes a disk. *)
ChangeInv ==
    /\ \A d \in Drives : d \notin fpga.present => d \in fpga.change
    /\ At("ui") => fpga.present = InsertedDisks
    /\ menu.img # NoImage => ~DSK_INSERTED(menu.drive)
    /\ ChangeSeen

-----------------------------------------------------------------------------
(* The cursor.  A selected file keeps it, and every cache is right. *)

PickInv ==
    menu.img # NoImage =>
        ~fpga.dmaen /\ file = Selected(menu.img) /\ arm.pc \in {"poll", "update", "ui"}

CacheInv ==
    \A d \in Drives : \A t \in TrackNumbers :
        df[d].cache[t] = Ahead(Selected(df[d].img), t * SECTOR_COUNT).cluster

CacheStays == PickInv /\ CacheInv

(* A drive that would go on with its track goes on in the right cluster. *)
ResumeInv ==
    \A d \in Drives : df[d].track = df[d].track_prev =>
        /\ df[d].track \in TrackNumbers
        /\ df[d].cluster_offset =
               Ahead(Selected(df[d].img),
                     TrackSector(df[d].track, df[d].sector_offset)).cluster

(* The drive of a call of HandleFDD(), and the cursor at its sector. *)
ArmDf == df[arm.drive]
AtSector == file = Ahead(Selected(ArmDf.img), TrackSector(ArmDf.track, arm.sector))

(* Inside of a call the cursor is at the sector the call counts. *)
ArmInv ==
    /\ arm.pc \in {"start", "read", "rest"} =>
         ArmDf.track = ArmDf.track_prev /\ arm.sector = ArmDf.sector_offset /\ AtSector
    /\ arm.pc \in {"sync", "header", "data"} /\ ArmDf.track \in TrackNumbers => AtSector
    /\ arm.pc = "data" => ArmDf.track \in TrackNumbers

(* The call serves the drive that is selected, as long as it can matter. *)
SelInv ==
    /\ arm.pc \in {"start", "header", "data"} => arm.drive = fpga.sel
    /\ arm.pc \in {"read", "rest", "sync"} /\ fpga.state = "active" =>
         arm.drive = fpga.sel

(* The track under the heads, and the drive that is selected. *)
Clip == Clipped(track(fpga))
SelDf == df[fpga.sel]

(* Only the track that is read goes on where it was left. *)
RereadInv == amiga.pc = "read" => SelDf.track = Clip \/ SelDf.track_prev # Clip

CursorInv == ResumeInv /\ ArmInv /\ SelInv /\ RereadInv

-----------------------------------------------------------------------------
(* A read: what the Amiga has got and what is in the FIFO *)
Stream == amiga.got \o fpga.fifo

NextSector(s) == IF s + 1 = SECTOR_COUNT THEN 0 ELSE s + 1

(* are whole sectors of one track, one behind the other, *)
Stretch(S, t) ==
    \A i \in 1 .. Len(S) :
        /\ S[i].kind = IF i % 2 = 1 THEN "first" ELSE "second"
        /\ S[i].track = t
        /\ S[i].sector \in 0 .. SECTOR_COUNT - 1
        /\ i > 1 => S[i].sector = IF i % 2 = 0 THEN S[i - 1].sector
                                  ELSE NextSector(S[i - 1].sector)

(* with what the disk holds. *)
ValuesRight ==
    amiga.img # NoImage =>
        \A i \in 1 .. Len(Stream) :
            Stream[i].val = exp[amiga.img][TrackSector(Clip, Stream[i].sector)]

(* The next piece the ARM sends is the one behind the last: the second     *)
(* half inside of a sector, otherwise the sector the drive has come to,    *)
(* in this call of HandleFDD() or in a later one. *)
OnInv ==
    Stream # <<>> =>
        /\ fpga.state = "active"
        /\ arm.pc \notin {"sync", "header", "data"}
        /\ fpga.dsklen # 0 =>
             LET l == Stream[Len(Stream)] IN
             IF arm.pc = "rest" THEN Len(Stream) % 2 = 1 /\ l.sector = arm.sector
             ELSE /\ Len(Stream) % 2 = 0 /\ SelDf.track = Clip /\ SelDf.track_prev = Clip
                  /\ SelDf.sector_offset = NextSector(l.sector)

(* Between the halves the transfer is the one that got the first. *)
RestInv ==
    arm.pc = "rest" /\ fpga.state = "active" =>
        /\ ~fpga.write
        /\ fpga.dsklen # 0 => Stream # <<>>
        /\ Len(fpga.fifo) < FifoSize
        /\ ArmDf.track = Clip
        /\ amiga.img # NoImage => arm.val = exp[amiga.img][TrackSector(Clip, arm.sector)]

ReadInv ==
    /\ amiga.pc = "read" =>
         /\ Stretch(Stream, Clip) /\ ValuesRight /\ OnInv
         /\ amiga.img # NoImage => amiga.img = SelDf.img
    /\ RestInv

-----------------------------------------------------------------------------
(* A write: what the ARM has not fetched yet, *)
Writing == fpga.dmaen /\ fpga.write
Rem == fpga.fifo \o amiga.left

(* and the sector whose header it has. *)
Pending ==
    IF fpga.state = "active" /\ arm.pc = "data"
    THEN TrackSector(track(fpga), arm.sector) ELSE -1

(* Piece i of R will be stored at sector s, if w is the pending one. *)
Hit(R, i, t, w, s) ==
    /\ R[i].kind = "data"
    /\ IF i = 1 THEN w = s
       ELSE /\ R[i - 1].kind = "header" /\ R[i - 1].track = t
            /\ TrackSector(t, R[i - 1].sector) = s

(* R, when it is all stored, leaves new in sector s, which now holds old:  *)
(* the last hit counts. *)
Will(R, t, w, s, old, new) ==
    /\ (\A i \in 1 .. Len(R) : ~Hit(R, i, t, w, s)) => new = old
    /\ \A i \in 1 .. Len(R) :
         Hit(R, i, t, w, s) /\ (\A j \in i + 1 .. Len(R) : ~Hit(R, j, t, w, s)) =>
             new = R[i].val

(* The card together with what is still coming is what the Amiga wrote. *)
CardInv ==
    \A img \in Images, s \in ImageSectors :
        IF Writing /\ img = SelDf.img /\ "writable" \in SelDf.status
        THEN Will(Rem, track(fpga), Pending, s, card[Place(img, s)], exp[img][s])
        ELSE card[Place(img, s)] = exp[img][s]

(* Headers follow syncs, and syncs are not skipped. *)
Well(R) ==
    \A i \in 2 .. Len(R) :
        /\ R[i].kind = "header" => R[i - 1].kind = "sync"
        /\ R[i].kind = "sync" => R[i - 1].kind \notin {"sync", "header"}

(* The ARM takes what is coming for what it is. *)
ParseInv ==
    Writing =>
        /\ Well(Rem)
        /\ Rem # <<>> =>
             /\ Rem[1].kind = "header" => fpga.state = "active" /\ arm.pc = "header"
             /\ fpga.state = "active" /\ arm.pc \in {"header", "data"} =>
                  Rem[1].kind # "sync"
        /\ fpga.state = "active" /\ arm.pc \in {"header", "data"} =>
             ArmDf.track = track(fpga)

WriteInv == CardInv /\ ParseInv

-----------------------------------------------------------------------------
(* Numbers.                                                                *)

(* The constants are numbers. *)
LEMMA Numbers ==
    /\ Tracks \in Nat \ {0} /\ SECTOR_COUNT \in Nat \ {0}
    /\ ClusterSize \in Nat \ {0} /\ DataStart \in Nat
    /\ FifoHalf \in Nat \ {0} /\ FifoSize \in Nat /\ FifoHalf < FifoSize
    BY FddAssumption, FloppyAssumption, FatAssumption

(* Where the sectors of a track are in an image. *)
LEMMA TrackSectors ==
    ASSUME NEW t \in TrackNumbers, NEW s \in 0 .. SECTOR_COUNT - 1
    PROVE  TrackSector(t, s) \in ImageSectors
PROOF
  <1>1. PICK n \in Nat \ {0}, m \in Nat \ {0} : n = Tracks /\ m = SECTOR_COUNT
      BY Numbers
  <1>2. t \in 0 .. n - 1 /\ s \in 0 .. m - 1
      BY <1>1 DEF TrackNumbers
  <1>3. t * m \in Nat /\ n * m \in Nat /\ t * m + m <= n * m
    <2>1. (t + 1) * m <= n * m
        BY <1>2
    <2>2. (t + 1) * m = t * m + m
        BY <1>2
    <2> QED
        BY <1>2, <2>1, <2>2
  <1>4. t * m + s \in 0 .. n * m - 1
    <2>1. PICK a \in Nat, b \in Nat : a = t * m /\ b = n * m
        BY <1>3
    <2>2. a + m <= b
        BY <1>3, <2>1
    <2>3. a + s \in 0 .. b - 1
        BY <1>2, <2>2
    <2> QED
        BY <2>1, <2>3
  <1> QED
      BY <1>1, <1>4 DEF TrackSector, ImageSectors

(* Track numbers, clipped. *)
LEMMA ClippedTrack ==
    ASSUME NEW h \in Heads
    PROVE  /\ Clipped(h) \in TrackNumbers
           /\ Clipped(h) \in Heads
           /\ h \in TrackNumbers => Clipped(h) = h
PROOF
  <1>1. h \in Nat
      BY FloppyAssumption
  <1> QED
      BY <1>1, Numbers, FddAssumption DEF Clipped, TrackNumbers

-----------------------------------------------------------------------------
(* The cursor.                                                             *)

(* One step of the cursor. *)
LEMMA NextCursor ==
    ASSUME NEW f \in Cursors
    PROVE  FileNextSector(f) \in Cursors /\ FileNextSector(f).sector = f.sector + 1
PROOF
  <1>1. f.sector + 1 \in Nat /\ f.cluster \in Links
      BY DEF Cursors
  <1>2. NextCluster(f.cluster) \in Links
      BY <1>1, FatAssumption DEF NextCluster, Links
  <1>3. PICK c \in Links : c = IF (f.sector + 1) % ClusterSize = 0
                               THEN NextCluster(f.cluster) ELSE f.cluster
      BY <1>1, <1>2
  <1>4. FileNextSector(f) = [sector |-> f.sector + 1, cluster |-> c]
      BY <1>3 DEF FileNextSector
  <1> QED
      BY <1>1, <1>4 DEF Cursors

(* The cursors that follow f, one after the other. *)
Following(f, n, w) ==
    /\ w = [k \in 0 .. n |-> IF k = 0 THEN f ELSE FileNextSector(w[k - 1])]

(* There are as many as one likes. *)
LEMMA FollowingExists ==
    ASSUME NEW f \in Cursors, NEW n \in Nat
    PROVE  \E w : Following(f, n, w)
PROOF
  <1> DEFINE Bad == {m \in Nat : ~ \E w : Following(f, m, w)}
  <1> SUFFICES ASSUME Bad # {} PROVE FALSE
      OBVIOUS
  <1>1. PICK b \in Bad : \A i \in Bad : ~(<<i, b>> \in OpToRel(<, Nat))
      BY WFMin, NatLessThanWellFounded
  <1>2. b \in Nat /\ ~ \E w : Following(f, b, w)
      BY <1>1
  <1>3. b # 0
    <2>1. PICK w : w = [k \in 0 .. 0 |-> f]
        OBVIOUS
    <2>2. w = [k \in 0 .. 0 |-> IF k = 0 THEN f ELSE FileNextSector(w[k - 1])]
        BY <2>1
    <2> QED
        BY <1>2, <2>2 DEF Following
  <1>4. PICK m \in Nat : b = m + 1
    <2>1. b - 1 \in Nat /\ b = (b - 1) + 1
        BY <1>2, <1>3
    <2> QED
        BY <2>1
  <1>5. m \notin Bad
    <2>1. <<m, b>> \in OpToRel(<, Nat)
        BY <1>2, <1>4 DEF OpToRel
    <2> QED
        BY <1>1, <2>1
  <1>6. PICK v : Following(f, m, v)
      BY <1>5
  <1>7. PICK w : w = [k \in 0 .. b |-> IF k = b THEN FileNextSector(v[m]) ELSE v[k]]
      OBVIOUS
  <1>8. ASSUME NEW k \in 0 .. b
        PROVE  w[k] = IF k = 0 THEN f ELSE FileNextSector(w[k - 1])
    <2>1. w[0] = f
      <3>1. 0 \in 0 .. b /\ 0 \in 0 .. m /\ 0 # b
          BY <1>2, <1>3, <1>4
      <3>2. v[0] = f
          BY <1>6, <3>1 DEF Following
      <3> QED
          BY <1>7, <3>1, <3>2
    <2>2. CASE k = 0
        BY <2>1, <2>2
    <2>3. CASE k = b
      <3>1. k - 1 = m /\ m \in 0 .. b /\ m # b /\ b \in 0 .. b
          BY <1>4, <2>3
      <3>2. w[k - 1] = v[m]
          BY <1>7, <3>1
      <3>3. w[k] = FileNextSector(v[m])
          BY <1>7, <2>3
      <3> QED
          BY <1>3, <2>3, <3>2, <3>3
    <2>4. CASE k # 0 /\ k # b
      <3>1. k \in 0 .. m /\ k - 1 \in 0 .. b /\ k - 1 # b
          BY <1>4, <2>4
      <3>2. v[k] = FileNextSector(v[k - 1])
          BY <1>6, <2>4, <3>1 DEF Following
      <3>3. w[k] = v[k] /\ w[k - 1] = v[k - 1]
          BY <1>7, <2>4, <3>1
      <3> QED
          BY <2>4, <3>2, <3>3
    <2> QED
        BY <2>2, <2>3, <2>4
  <1>9. Following(f, b, w)
      BY <1>7, <1>8 DEF Following
  <1> QED
      BY <1>2, <1>9

(* They are cursors, and each is as far as its number. *)
LEMMA FollowingCursors ==
    ASSUME NEW f \in Cursors, NEW n \in Nat, NEW w, Following(f, n, w)
    PROVE  /\ w[0] = f
           /\ \A k \in 0 .. n : w[k] \in Cursors /\ w[k].sector = f.sector + k
           /\ \A k \in 1 .. n : w[k] = FileNextSector(w[k - 1])
PROOF
  <1> DEFINE P(k) == w[k] \in Cursors /\ w[k].sector = f.sector + k
  <1>1. w[0] = f
      BY DEF Following
  <1>2. ASSUME NEW k \in 1 .. n PROVE w[k] = FileNextSector(w[k - 1])
    <2>1. k \in 0 .. n /\ k # 0
        OBVIOUS
    <2> QED
        BY <2>1 DEF Following
  <1>3. P(0)
      BY <1>1 DEF Cursors
  <1>4. ASSUME NEW k \in 1 .. n, P(k - 1) PROVE P(k)
    <2>1. w[k] \in Cursors /\ w[k].sector = w[k - 1].sector + 1
        BY <1>2, <1>4, NextCursor
    <2>2. f.sector \in Nat
        BY DEF Cursors
    <2> QED
        BY <1>4, <2>1, <2>2
  <1> HIDE DEF P
  <1>5. SUFFICES ASSUME NEW j \in 0 .. n, ~P(j) PROVE FALSE
      BY <1>1, <1>2 DEF P
  <1> DEFINE Bad == {i \in Nat : i \in 0 .. n /\ ~P(i)}
  <1>6. j \in Bad
      BY <1>5
  <1>7. PICK b \in Bad : \A i \in Bad : ~(<<i, b>> \in OpToRel(<, Nat))
      BY <1>6, WFMin, NatLessThanWellFounded
  <1>8. b \in 1 .. n /\ b - 1 \in 0 .. n /\ b \in Nat /\ b - 1 \in Nat
    <2>1. b \in 0 .. n /\ b # 0 /\ b \in Nat
        BY <1>3, <1>7
    <2> QED
        BY <2>1
  <1>9. P(b - 1)
    <2>1. <<b - 1, b>> \in OpToRel(<, Nat)
        BY <1>8 DEF OpToRel
    <2>2. b - 1 \notin Bad
        BY <1>7, <2>1
    <2> QED
        BY <1>8, <2>2
  <1> QED
      BY <1>4, <1>7, <1>8, <1>9

(* Ahead() is the last one of them. *)
LEMMA AheadFollows ==
    ASSUME NEW f \in Cursors, NEW n \in Nat
    PROVE  \E w : Following(f, n, w) /\ Ahead(f, n) = w[n]
PROOF
  <1> DEFINE after == CHOOSE w : Following(f, n, w)
  <1>1. Following(f, n, after)
      BY FollowingExists
  <1>2. Ahead(f, n) = after[n]
      BY DEF Ahead, Following
  <1> QED
      BY <1>1, <1>2

(* Two sequences of cursors that begin alike go on alike. *)
LEMMA FollowingAlike ==
    ASSUME NEW f \in Cursors, NEW n \in Nat, NEW m \in Nat, NEW k \in Nat,
           m + k <= n, NEW v, Following(f, n, v), NEW w, Following(v[k], m, w)
    PROVE  w[m] = v[k + m]
PROOF
  <1> DEFINE P(i) == w[i] = v[k + i]
  <1>1. k \in 0 .. n /\ v[k] \in Cursors
      BY FollowingCursors
  <1>2. P(0)
      BY <1>1, FollowingCursors
  <1>3. ASSUME NEW i \in 1 .. m, P(i - 1) PROVE P(i)
    <2>1. w[i] = FileNextSector(w[i - 1])
        BY <1>1, FollowingCursors
    <2>2. k + i \in 1 .. n /\ (k + i) - 1 = k + (i - 1)
        OBVIOUS
    <2>3. v[k + i] = FileNextSector(v[(k + i) - 1])
        BY <2>2, FollowingCursors
    <2> QED
        BY <1>3, <2>1, <2>2, <2>3
  <1> SUFFICES \A i \in 0 .. m : P(i)
      OBVIOUS
  <1> HIDE DEF P
  <1>4. SUFFICES ASSUME NEW j \in 0 .. m, ~P(j) PROVE FALSE
      OBVIOUS
  <1> DEFINE Bad == {i \in Nat : i \in 0 .. m /\ ~P(i)}
  <1>5. j \in Bad
      BY <1>4
  <1>6. PICK b \in Bad : \A i \in Bad : ~(<<i, b>> \in OpToRel(<, Nat))
      BY <1>5, WFMin, NatLessThanWellFounded
  <1>7. b \in 1 .. m /\ b - 1 \in 0 .. m /\ b \in Nat /\ b - 1 \in Nat
    <2>1. b \in 0 .. m /\ b # 0 /\ b \in Nat
        BY <1>2, <1>6
    <2> QED
        BY <2>1
  <1>8. P(b - 1)
    <2>1. <<b - 1, b>> \in OpToRel(<, Nat)
        BY <1>7 DEF OpToRel
    <2>2. b - 1 \notin Bad
        BY <1>6, <2>1
    <2> QED
        BY <1>7, <2>2
  <1> QED
      BY <1>3, <1>6, <1>7, <1>8

(* Ahead() goes from cursor to cursor, *)
LEMMA AheadCursor ==
    ASSUME NEW f \in Cursors, NEW n \in Nat
    PROVE  Ahead(f, n) \in Cursors /\ Ahead(f, n).sector = f.sector + n
PROOF
  <1>1. PICK w : Following(f, n, w) /\ Ahead(f, n) = w[n]
      BY AheadFollows
  <1> QED
      BY <1>1, FollowingCursors

(* sector by sector, *)
LEMMA AheadStep ==
    ASSUME NEW f \in Cursors, NEW n \in Nat
    PROVE  Ahead(f, n + 1) = FileNextSector(Ahead(f, n))
PROOF
  <1>1. PICK w : Following(f, n + 1, w) /\ Ahead(f, n + 1) = w[n + 1]
      BY AheadFollows
  <1>2. PICK v : Following(f, n, v) /\ Ahead(f, n) = v[n]
      BY AheadFollows
  <1>3. w[0] = f
      BY <1>1, FollowingCursors
  <1>4. Following(w[0], n, v)
      BY <1>2, <1>3
  <1>5. v[n] = w[0 + n]
    <2>1. n + 0 <= n + 1 /\ n + 1 \in Nat /\ 0 \in Nat
        OBVIOUS
    <2> QED
        BY <1>1, <1>4, <2>1, FollowingAlike
  <1>6. w[n + 1] = FileNextSector(w[(n + 1) - 1]) /\ (n + 1) - 1 = n /\ 0 + n = n
      BY <1>1, FollowingCursors
  <1> QED
      BY <1>1, <1>2, <1>5, <1>6

(* and in stages. *)
LEMMA AheadTwice ==
    ASSUME NEW f \in Cursors, NEW m \in Nat, NEW n \in Nat
    PROVE  Ahead(Ahead(f, m), n) = Ahead(f, m + n)
PROOF
  <1>1. PICK w : Following(f, m + n, w) /\ Ahead(f, m + n) = w[m + n]
      BY AheadFollows
  <1>2. PICK u : Following(f, m, u) /\ Ahead(f, m) = u[m]
      BY AheadFollows
  <1>3. w[0] = f
      BY <1>1, FollowingCursors
  <1>4. u[m] = w[m]
    <2>1. m + 0 <= m + n /\ m + n \in Nat /\ 0 \in Nat /\ 0 + m = m
        OBVIOUS
    <2>2. Following(w[0], m, u)
        BY <1>2, <1>3
    <2> QED
        BY <1>1, <2>1, <2>2, FollowingAlike
  <1>5. PICK v : Following(Ahead(f, m), n, v) /\ Ahead(Ahead(f, m), n) = v[n]
      BY AheadCursor, AheadFollows
  <1>6. Following(w[m], n, v)
      BY <1>2, <1>4, <1>5
  <1>7. v[n] = w[m + n]
    <2>1. n + m <= m + n /\ m + n \in Nat
        OBVIOUS
    <2> QED
        BY <1>1, <1>6, <2>1, FollowingAlike
  <1> QED
      BY <1>1, <1>5, <1>7

(* A cursor stands for a sector of the card. *)
LEMMA CursorSector ==
    ASSUME NEW f \in Cursors
    PROVE  FileSector(f) \in DOMAIN InitCard
PROOF
  <1>1. f.sector \in Nat /\ f.cluster \in Links
      BY DEF Cursors
  <1>2. PICK k \in 0 .. ClusterSize - 1 : k = f.sector % ClusterSize
      BY <1>1, Numbers
  <1>3. k % ClusterSize = k
      BY <1>2, Numbers
  <1>4. FileSector([sector |-> k, cluster |-> f.cluster]) \in DOMAIN InitCard
      BY <1>1, FddAssumption
  <1> QED
      BY <1>2, <1>3, <1>4 DEF FileSector

(* The beginning of an image. *)
LEMMA SelectedCursor ==
    ASSUME NEW img \in Images
    PROVE  /\ Selected(img) \in Cursors
           /\ \A s \in ImageSectors :
                 /\ Ahead(Selected(img), s) \in Cursors
                 /\ Place(img, s) \in DOMAIN InitCard
PROOF
  <1>1. Selected(img) \in Cursors
      BY FddAssumption DEF Selected, Cursors, Links
  <1>2. ASSUME NEW s \in ImageSectors
        PROVE  Ahead(Selected(img), s) \in Cursors
    <2>1. s \in Nat
        BY DEF ImageSectors
    <2> QED
        BY <1>1, <2>1, AheadCursor
  <1> QED
      BY <1>1, <1>2, CursorSector DEF Place

-----------------------------------------------------------------------------
(* The controller.                                                         *)

(* A frame may start a transfer. *)
LEMMA FrameEffect ==
    ASSUME NEW c \in Controllers
    PROVE  LET e == Frame(c) IN
           /\ e \in Controllers
           /\ e.sel = c.sel /\ e.dsktrack = c.dsktrack
           /\ e.dmaen = c.dmaen /\ e.write = c.write /\ e.dsklen = c.dsklen
           /\ e.fifo = c.fifo /\ e.present = c.present /\ e.change = c.change
           /\ e.state \in {c.state, "active"}
           /\ e.state # c.state => c.state = "idle" /\ c.dmaen
           /\ c.state = "active" => e = c
PROOF
  <1>1. CASE c.state = "idle" /\ c.dmaen /\ c.dsklen # 0
    <2>1. Frame(c) = [c EXCEPT !.state = "active"]
        BY <1>1 DEF Frame
    <2> QED
        BY <1>1, <2>1 DEF Controllers
  <1>2. CASE ~(c.state = "idle" /\ c.dmaen /\ c.dsklen # 0)
    <2>1. Frame(c) = c
        BY <1>2 DEF Frame
    <2> QED
        BY <2>1
  <1> QED
      BY <1>1, <1>2

(* A piece that is sent. *)
LEMMA SendEffect ==
    ASSUME NEW c \in Controllers, NEW p \in Pieces
    PROVE  LET e == Send(c, p) IN
           /\ e \in Controllers
           /\ e.sel = c.sel /\ e.dsktrack = c.dsktrack
           /\ e.dmaen = c.dmaen /\ e.write = c.write /\ e.state = c.state
           /\ e.present = c.present /\ e.change = c.change
           /\ ~trackrd(c) => e = c
           /\ trackrd(c) => e.dsklen = c.dsklen - 1
           /\ trackrd(c) /\ Len(c.fifo) < FifoSize => e.fifo = Append(c.fifo, p)
           /\ trackrd(c) /\ Len(c.fifo) >= FifoSize => e.fifo = c.fifo
PROOF
  <1>1. CASE ~trackrd(c)
    <2>1. Send(c, p) = c
        BY <1>1 DEF Send
    <2> QED
        BY <1>1, <2>1
  <1>2. CASE trackrd(c)
    <2>1. c.dsklen \in Nat /\ c.dsklen # 0 /\ c.fifo \in Seq(Pieces) /\ Len(c.fifo) \in Nat
        BY <1>2, LenProperties DEF trackrd, Controllers
    <2>2. PICK n \in Nat : n = c.dsklen - 1
        BY <2>1
    <2>3. Append(c.fifo, p) \in Seq(Pieces)
        BY <2>1, AppendProperties
    <2>4. PICK q \in Seq(Pieces) : q = IF Len(c.fifo) < FifoSize THEN Append(c.fifo, p) ELSE c.fifo
        BY <2>1, <2>3
    <2>5. Send(c, p) = [c EXCEPT !.dsklen = n, !.fifo = q]
        BY <1>2, <2>2, <2>4 DEF Send
    <2>6. FifoSize \in Nat
        BY Numbers
    <2>7. /\ Send(c, p) \in Controllers
          /\ Send(c, p).fifo = q /\ Send(c, p).dsklen = n
          /\ Send(c, p).sel = c.sel /\ Send(c, p).dsktrack = c.dsktrack
          /\ Send(c, p).dmaen = c.dmaen /\ Send(c, p).write = c.write
          /\ Send(c, p).state = c.state
          /\ Send(c, p).present = c.present /\ Send(c, p).change = c.change
        BY <2>5 DEF Controllers
    <2> QED
        BY <1>2, <2>1, <2>2, <2>4, <2>6, <2>7
  <1> QED
      BY <1>1, <1>2

(* A transfer that is stopped. *)
LEMMA StoppedEffect ==
    ASSUME NEW c \in Controllers
    PROVE  LET e == Stopped(c) IN
           /\ e \in Controllers
           /\ e.sel = c.sel /\ e.dsktrack = c.dsktrack
           /\ e.dmaen = FALSE /\ e.write = c.write /\ e.dsklen = c.dsklen
           /\ e.state = "idle" /\ e.fifo = <<>>
           /\ e.present = c.present /\ e.change = c.change
PROOF
  <1>1. <<>> \in Seq(Pieces)
      BY EmptySeq
  <1> QED
      BY <1>1 DEF Stopped, Controllers

(* A transfer ends when nothing is left of it. *)
LEMMA CompletedEffect ==
    ASSUME NEW d \in Controllers
    PROVE  LET e == Completed(d) IN
           /\ e \in Controllers
           /\ e.sel = d.sel /\ e.dsktrack = d.dsktrack
           /\ e.write = d.write /\ e.dsklen = d.dsklen /\ e.fifo = d.fifo
           /\ e.present = d.present /\ e.change = d.change
           /\ d.state = "active" /\ d.dsklen = 0 /\ d.fifo = <<>> =>
                e.dmaen = FALSE /\ e.state = "idle"
           /\ ~(d.state = "active" /\ d.dsklen = 0 /\ d.fifo = <<>>) =>
                e.dmaen = d.dmaen /\ e.state = d.state
PROOF
  <1>1. CASE d.state = "active" /\ d.dsklen = 0 /\ d.fifo = <<>>
    <2>1. Completed(d) = Stopped(d)
        BY <1>1 DEF Completed
    <2>2. PICK e : e = Stopped(d)
        OBVIOUS
    <2>3. /\ e \in Controllers
          /\ e.sel = d.sel /\ e.dsktrack = d.dsktrack
          /\ e.dmaen = FALSE /\ e.write = d.write /\ e.dsklen = d.dsklen
          /\ e.state = "idle" /\ e.fifo = <<>>
          /\ e.present = d.present /\ e.change = d.change
        BY <2>2, StoppedEffect
    <2> QED
        BY <1>1, <2>1, <2>2, <2>3
  <1>2. CASE ~(d.state = "active" /\ d.dsklen = 0 /\ d.fifo = <<>>)
    <2>1. Completed(d) = d
        BY <1>2 DEF Completed
    <2> QED
        BY <1>2, <2>1
  <1> QED
      BY <1>1, <1>2

(* What is left of a FIFO. *)
LEMMA Shorter ==
    ASSUME NEW q \in Seq(Pieces), NEW n \in 0 .. Len(q)
    PROVE  /\ SubSeq(q, n + 1, Len(q)) \in Seq(Pieces)
           /\ Len(SubSeq(q, n + 1, Len(q))) = Len(q) - n
           /\ \A i \in 1 .. Len(q) - n : SubSeq(q, n + 1, Len(q))[i] = q[n + i]
PROOF
  <1>1. Len(q) \in Nat /\ n + 1 \in Int /\ Len(q) \in Int /\ n \in Nat
      BY LenProperties
  <1>2. \A i \in n + 1 .. Len(q) : q[i] \in Pieces
    <2> SUFFICES ASSUME NEW i \in n + 1 .. Len(q) PROVE q[i] \in Pieces
        OBVIOUS
    <2>1. i \in 1 .. Len(q)
        BY <1>1
    <2> QED
        BY <2>1, ElementOfSeq
  <1>3. PICK m \in Nat : m = Len(q)
      BY <1>1
  <1>4. PICK s : s = SubSeq(q, n + 1, m)
      OBVIOUS
  <1>5. /\ s \in Seq(Pieces)
        /\ Len(s) = IF n + 1 <= m THEN m - (n + 1) + 1 ELSE 0
        /\ \A i \in 1 .. m - (n + 1) + 1 : s[i] = q[(n + 1) + i - 1]
      BY <1>1, <1>2, <1>3, <1>4, SubSeqProperties
  <1>6. n <= m
      BY <1>3
  <1>7. Len(s) = m - n
      BY <1>1, <1>5, <1>6
  <1>8. ASSUME NEW i \in 1 .. m - n PROVE s[i] = q[n + i]
    <2>1. i \in 1 .. m - (n + 1) + 1 /\ (n + 1) + i - 1 = n + i
        BY <1>1
    <2> QED
        BY <1>5, <2>1
  <1> QED
      BY <1>3, <1>4, <1>5, <1>7, <1>8

(* Pieces that are fetched, *)
LEMMA FetchEffect ==
    ASSUME NEW c \in Controllers, NEW n \in 0 .. Len(c.fifo)
    PROVE  LET e == Fetch(c, n) IN
           /\ e \in Controllers
           /\ e.sel = c.sel /\ e.dsktrack = c.dsktrack
           /\ e.write = c.write /\ e.dsklen = c.dsklen
           /\ e.fifo = SubSeq(c.fifo, n + 1, Len(c.fifo))
           /\ e.present = c.present /\ e.change = c.change
           /\ c.state = "active" /\ c.dsklen = 0 /\ e.fifo = <<>> =>
                e.dmaen = FALSE /\ e.state = "idle"
           /\ ~(c.state = "active" /\ c.dsklen = 0 /\ e.fifo = <<>>) =>
                e.dmaen = c.dmaen /\ e.state = c.state
PROOF
  <1>1. c.fifo \in Seq(Pieces)
      BY DEF Controllers
  <1>2. PICK q \in Seq(Pieces) : q = SubSeq(c.fifo, n + 1, Len(c.fifo))
      BY <1>1, Shorter
  <1>3. PICK d : d = [c EXCEPT !.fifo = q]
      OBVIOUS
  <1>4. /\ d \in Controllers
        /\ d.sel = c.sel /\ d.dsktrack = c.dsktrack
        /\ d.dmaen = c.dmaen /\ d.write = c.write /\ d.dsklen = c.dsklen
        /\ d.state = c.state /\ d.fifo = q
        /\ d.present = c.present /\ d.change = c.change
      BY <1>2, <1>3 DEF Controllers
  <1>7. Fetch(c, n) = Completed(d)
      BY <1>2, <1>3 DEF Fetch
  <1>5. PICK e : e = Completed(d)
      OBVIOUS
  <1>6. /\ e \in Controllers
        /\ e.sel = d.sel /\ e.dsktrack = d.dsktrack
        /\ e.write = d.write /\ e.dsklen = d.dsklen /\ e.fifo = d.fifo
        /\ e.present = d.present /\ e.change = d.change
        /\ d.state = "active" /\ d.dsklen = 0 /\ d.fifo = <<>> =>
             e.dmaen = FALSE /\ e.state = "idle"
        /\ ~(d.state = "active" /\ d.dsklen = 0 /\ d.fifo = <<>>) =>
             e.dmaen = d.dmaen /\ e.state = d.state
      BY <1>4, <1>5, CompletedEffect
  <1> QED
      BY <1>2, <1>4, <1>5, <1>6, <1>7

(* and one that goes to memory. *)
LEMMA ToMemoryEffect ==
    ASSUME NEW c \in Controllers, c.fifo # <<>>
    PROVE  LET e == ToMemory(c) IN
           /\ e \in Controllers
           /\ e.sel = c.sel /\ e.dsktrack = c.dsktrack
           /\ e.write = c.write /\ e.dsklen = c.dsklen
           /\ e.fifo = Tail(c.fifo)
           /\ e.present = c.present /\ e.change = c.change
           /\ c.state = "active" /\ c.dsklen = 0 /\ e.fifo = <<>> =>
                e.dmaen = FALSE /\ e.state = "idle"
           /\ ~(c.state = "active" /\ c.dsklen = 0 /\ e.fifo = <<>>) =>
                e.dmaen = c.dmaen /\ e.state = c.state
PROOF
  <1>1. c.fifo \in Seq(Pieces)
      BY DEF Controllers
  <1>2. PICK q \in Seq(Pieces) : q = Tail(c.fifo)
      BY <1>1, HeadTailProperties
  <1>3. PICK d : d = [c EXCEPT !.fifo = q]
      OBVIOUS
  <1>4. /\ d \in Controllers
        /\ d.sel = c.sel /\ d.dsktrack = c.dsktrack
        /\ d.dmaen = c.dmaen /\ d.write = c.write /\ d.dsklen = c.dsklen
        /\ d.state = c.state /\ d.fifo = q
        /\ d.present = c.present /\ d.change = c.change
      BY <1>2, <1>3 DEF Controllers
  <1>7. ToMemory(c) = Completed(d)
      BY <1>2, <1>3 DEF ToMemory
  <1>5. PICK e : e = Completed(d)
      OBVIOUS
  <1>6. /\ e \in Controllers
        /\ e.sel = d.sel /\ e.dsktrack = d.dsktrack
        /\ e.write = d.write /\ e.dsklen = d.dsklen /\ e.fifo = d.fifo
        /\ e.present = d.present /\ e.change = d.change
        /\ d.state = "active" /\ d.dsklen = 0 /\ d.fifo = <<>> =>
             e.dmaen = FALSE /\ e.state = "idle"
        /\ ~(d.state = "active" /\ d.dsklen = 0 /\ d.fifo = <<>>) =>
             e.dmaen = d.dmaen /\ e.state = d.state
      BY <1>4, <1>5, CompletedEffect
  <1> QED
      BY <1>2, <1>4, <1>5, <1>6, <1>7

(* A piece that comes from memory. *)
LEMMA FromMemoryEffect ==
    ASSUME NEW c \in Controllers, NEW p \in Pieces, c.dsklen # 0
    PROVE  LET e == FromMemory(c, p) IN
           /\ e \in Controllers
           /\ e.sel = c.sel /\ e.dsktrack = c.dsktrack
           /\ e.dmaen = c.dmaen /\ e.write = c.write /\ e.state = c.state
           /\ e.dsklen = c.dsklen - 1 /\ e.fifo = Append(c.fifo, p)
           /\ e.present = c.present /\ e.change = c.change
PROOF
  <1>1. c.fifo \in Seq(Pieces) /\ c.dsklen \in Nat
      BY DEF Controllers
  <1>2. PICK n \in Nat : n = c.dsklen - 1
      BY <1>1
  <1>3. PICK q \in Seq(Pieces) : q = Append(c.fifo, p)
      BY <1>1, AppendProperties
  <1>4. FromMemory(c, p) = [c EXCEPT !.dsklen = n, !.fifo = q]
      BY <1>2, <1>3 DEF FromMemory
  <1> QED
      BY <1>2, <1>3, <1>4 DEF Controllers

(* A transfer that is enabled. *)
LEMMA EnableEffect ==
    ASSUME NEW c \in Controllers, NEW w \in BOOLEAN, NEW n \in Nat
    PROVE  LET e == Enable(c, w, n) IN
           /\ e \in Controllers
           /\ e.sel = c.sel /\ e.dsktrack = c.dsktrack
           /\ e.dmaen = TRUE /\ e.write = w /\ e.dsklen = n
           /\ e.state = c.state /\ e.fifo = c.fifo
           /\ e.present = c.present /\ e.change = c.change
    BY DEF Enable, Controllers

(* A step of the heads. *)
LEMMA StepEffect ==
    ASSUME NEW c \in Controllers, NEW t \in Heads
    PROVE  LET e == Step(c, t) IN
           /\ e \in Controllers
           /\ e.sel = c.sel /\ e.dmaen = c.dmaen /\ e.write = c.write
           /\ e.dsklen = c.dsklen /\ e.state = c.state /\ e.fifo = c.fifo
           /\ e.present = c.present
           /\ e.change = c.change \ ({c.sel} \cap c.present)
PROOF
  <1>1. c.dsktrack \in [Drives -> Heads] /\ c.change \in SUBSET Drives
      BY DEF Controllers
  <1>2. PICK h \in [Drives -> Heads] : h = [c.dsktrack EXCEPT ![c.sel] = t]
      BY <1>1
  <1>3. PICK g \in SUBSET Drives : g = c.change \ ({c.sel} \cap c.present)
      BY <1>1
  <1>4. Step(c, t) = [c EXCEPT !.dsktrack = h, !.change = g]
      BY <1>2, <1>3 DEF Step, Controllers
  <1> QED
      BY <1>3, <1>4 DEF Controllers

(* The drives that have a disk are reported. *)
LEMMA PresentEffect ==
    ASSUME NEW c \in Controllers, NEW p \in SUBSET Drives
    PROVE  LET e == Present(c, p) IN
           /\ e \in Controllers
           /\ e.sel = c.sel /\ e.dsktrack = c.dsktrack /\ e.dmaen = c.dmaen
           /\ e.write = c.write /\ e.dsklen = c.dsklen /\ e.state = c.state
           /\ e.fifo = c.fifo /\ e.present = p
           /\ e.change = c.change \cup (Drives \ p)
PROOF
  <1>1. PICK g \in SUBSET Drives : g = c.change \cup (Drives \ p)
      BY DEF Controllers
  <1>2. Present(c, p) = [c EXCEPT !.present = p, !.change = g]
      BY <1>1 DEF Present
  <1> QED
      BY <1>1, <1>2 DEF Controllers

(* Another drive is selected. *)
LEMMA SelectEffect ==
    ASSUME NEW c \in Controllers, NEW d \in Drives
    PROVE  LET e == [c EXCEPT !.sel = d] IN
           /\ e \in Controllers
           /\ e.sel = d /\ e.dsktrack = c.dsktrack /\ e.dmaen = c.dmaen
           /\ e.write = c.write /\ e.dsklen = c.dsklen /\ e.state = c.state
           /\ e.fifo = c.fifo /\ e.present = c.present /\ e.change = c.change
    BY DEF Controllers

-----------------------------------------------------------------------------
(* What the steps of the ARM do.                                           *)

(* It goes somewhere else. *)
LEMMA GotoEffect ==
    ASSUME TypeInv, NEW pc \in Places, Goto(pc)
    PROVE  /\ arm' \in Arms /\ arm'.pc = pc /\ arm'.drive = arm.drive
           /\ arm'.sector = arm.sector /\ arm'.val = arm.val
PROOF
  <1>1. arm \in Arms /\ arm' = [arm EXCEPT !.pc = pc]
      BY DEF TypeInv, Goto
  <1> QED
      BY <1>1 DEF Arms

(* The drive of a call, and the one that is selected. *)
LEMMA DriveTypes ==
    ASSUME TypeInv
    PROVE  /\ fpga.sel \in Drives /\ df[fpga.sel] \in DriveStates
           /\ arm.drive \in Drives /\ df[arm.drive] \in DriveStates
           /\ track(fpga) \in Heads /\ track(fpga) \in Nat
           /\ Clip \in TrackNumbers /\ Clip \in Heads /\ Clip \in Nat
           /\ arm.sector \in 0 .. SECTOR_COUNT - 1
PROOF
  <1>1. fpga \in Controllers /\ df \in [Drives -> DriveStates] /\ arm \in Arms
      BY DEF TypeInv
  <1>2. fpga.sel \in Drives /\ fpga.dsktrack \in [Drives -> Heads]
      BY <1>1 DEF Controllers
  <1>3. track(fpga) \in Heads
      BY <1>2 DEF track
  <1>4. Clip \in TrackNumbers /\ Clip \in Heads
      BY <1>3, ClippedTrack DEF Clip
  <1>5. Heads \subseteq Nat
      BY FloppyAssumption
  <1> QED
      BY <1>1, <1>2, <1>3, <1>4, <1>5 DEF Arms

(* ReadTrack() resumes the track, or starts it. *)
LEMMA ReadTrackEffect ==
    ASSUME TypeInv, ReadTrack
    PROVE  /\ df' \in [Drives -> DriveStates]
           /\ \A d \in Drives \ {fpga.sel} : df'[d] = df[d]
           /\ df'[fpga.sel].img = SelDf.img /\ df'[fpga.sel].status = SelDf.status
           /\ df'[fpga.sel].cache = SelDf.cache
           /\ df'[fpga.sel].track = Clip /\ df'[fpga.sel].track_prev = Clip
           /\ SelDf.track_prev = Clip =>
                /\ df'[fpga.sel].sector_offset = SelDf.sector_offset
                /\ df'[fpga.sel].cluster_offset = SelDf.cluster_offset
           /\ SelDf.track_prev # Clip =>
                /\ df'[fpga.sel].sector_offset = 0
                /\ df'[fpga.sel].cluster_offset = SelDf.cache[Clip]
           /\ file' \in Cursors
           /\ file'.sector = TrackSector(Clip, df'[fpga.sel].sector_offset)
           /\ file'.cluster = df'[fpga.sel].cluster_offset
           /\ arm' \in Arms /\ arm'.pc = "start" /\ arm'.drive = fpga.sel
           /\ arm'.sector = df'[fpga.sel].sector_offset
PROOF
  <1> DEFINE s == fpga.sel
             d == [df[s] EXCEPT !.track = Clip]
             fresh == [d EXCEPT !.track_prev = d.track, !.sector_offset = 0,
                              !.cluster_offset = TrackStart(d).cluster]
             again == d.track = d.track_prev
  <1>1. /\ s \in Drives /\ df[s] \in DriveStates
        /\ Clip \in TrackNumbers /\ Clip \in Heads /\ Clip \in Nat
        /\ df \in [Drives -> DriveStates]
      BY DriveTypes DEF TypeInv
  <1>2. /\ d \in DriveStates /\ d.track = Clip
        /\ d.img = df[s].img /\ d.status = df[s].status /\ d.cache = df[s].cache
        /\ d.cluster_offset = df[s].cluster_offset
        /\ d.sector_offset = df[s].sector_offset /\ d.track_prev = df[s].track_prev
      BY <1>1 DEF DriveStates
  <1>3. /\ df' = [df EXCEPT ![s] = IF again THEN d ELSE fresh]
        /\ file' = IF again THEN Resumed(d) ELSE TrackStart(d)
        /\ arm' = [NoCall EXCEPT !.pc = "start", !.drive = s,
                          !.sector = IF again THEN d.sector_offset ELSE 0]
      BY DEF ReadTrack, Clip
  <1> HIDE DEF d
  <1>4. /\ TrackStart(d) = [sector |-> Clip * SECTOR_COUNT, cluster |-> df[s].cache[Clip]]
        /\ TrackStart(d).cluster \in Links
        /\ df[s].cache[Clip] \in Links
    <2>1. df[s].cache[Clip] \in Links
        BY <1>1 DEF DriveStates
    <2> QED
        BY <1>2, <2>1 DEF TrackStart
  <1>5. /\ fresh \in DriveStates /\ fresh.track = Clip /\ fresh.track_prev = Clip
        /\ fresh.img = df[s].img /\ fresh.status = df[s].status
        /\ fresh.cache = df[s].cache
        /\ fresh.cluster_offset = df[s].cache[Clip] /\ fresh.sector_offset = 0
    <2>1. PICK l \in Links : l = TrackStart(d).cluster
        BY <1>4
    <2>2. fresh = [d EXCEPT !.track_prev = Clip, !.sector_offset = 0, !.cluster_offset = l]
        BY <1>2, <2>1
    <2>3. l = df[s].cache[Clip] /\ 0 \in 0 .. SECTOR_COUNT - 1 /\ Clip \in Int
        BY <1>1, <1>4, <2>1, Numbers
    <2> QED
        BY <1>2, <2>2, <2>3 DEF DriveStates
  <1> HIDE DEF fresh
  <1>6. PICK r \in DriveStates : r = IF again THEN d ELSE fresh
      BY <1>2, <1>5
  <1>7. df' = [df EXCEPT ![s] = r]
      BY <1>3, <1>6
  <1>8. /\ df' \in [Drives -> DriveStates] /\ df'[s] = r
        /\ \A e \in Drives \ {s} : df'[e] = df[e]
      BY <1>1, <1>6, <1>7
  <1>9. PICK k \in 0 .. SECTOR_COUNT - 1 : k = IF again THEN d.sector_offset ELSE 0
      BY <1>2, Numbers DEF DriveStates
  <1>10. /\ arm' \in Arms /\ arm'.pc = "start" /\ arm'.drive = s /\ arm'.sector = k
    <2>1. arm' = [NoCall EXCEPT !.pc = "start", !.drive = s, !.sector = k]
        BY <1>3, <1>9
    <2>2. arm' = [pc |-> "start", drive |-> s, sector |-> k, val |-> 0]
        BY <2>1 DEF NoCall
    <2> QED
        BY <1>1, <1>9, <2>2 DEF Arms, Places
  <1>11. TrackSector(Clip, 0) = Clip * SECTOR_COUNT
    <2>1. PICK n \in Nat : n = SECTOR_COUNT
        BY Numbers
    <2>2. Clip * n \in Nat
        BY <1>1, <2>1
    <2>3. Clip * n + 0 = Clip * n
        BY <2>2
    <2> QED
        BY <2>1, <2>3 DEF TrackSector
  <1>12. CASE again
    <2>1. r = d /\ k = d.sector_offset /\ df[s].track_prev = Clip
        BY <1>2, <1>6, <1>9, <1>12
    <2>2. file' = [sector |-> TrackSector(Clip, d.sector_offset), cluster |-> d.cluster_offset]
        BY <1>2, <1>3, <1>12 DEF Resumed, TrackSector
    <2>3. TrackSector(Clip, d.sector_offset) \in Nat /\ d.cluster_offset \in Links
      <3>1. d.sector_offset \in 0 .. SECTOR_COUNT - 1 /\ d.cluster_offset \in Links
          BY <1>2 DEF DriveStates
      <3>2. TrackSector(Clip, d.sector_offset) \in ImageSectors
          BY <1>1, <3>1, TrackSectors
      <3> QED
          BY <3>1, <3>2 DEF ImageSectors
    <2>4. file' \in Cursors /\ file'.sector = TrackSector(Clip, d.sector_offset) /\ file'.cluster = d.cluster_offset
        BY <2>2, <2>3 DEF Cursors
    <2> QED
        BY <1>2, <1>8, <1>10, <2>1, <2>4 DEF SelDf
  <1>13. CASE ~again
    <2>1. r = fresh /\ k = 0 /\ df[s].track_prev # Clip
        BY <1>2, <1>6, <1>9, <1>13
    <2>2. file' = [sector |-> Clip * SECTOR_COUNT, cluster |-> df[s].cache[Clip]]
        BY <1>3, <1>4, <1>13
    <2>3. TrackSector(Clip, 0) \in Nat
      <3>1. TrackSector(Clip, 0) \in ImageSectors
        <4>1. 0 \in 0 .. SECTOR_COUNT - 1
            BY Numbers
        <4> QED
            BY <1>1, <4>1, TrackSectors
      <3> QED
          BY <3>1 DEF ImageSectors
    <2>4. file' \in Cursors /\ file'.sector = TrackSector(Clip, 0) /\ file'.cluster = df[s].cache[Clip]
        BY <1>4, <1>11, <2>2, <2>3 DEF Cursors
    <2> QED
        BY <1>5, <1>8, <1>10, <2>1, <2>4 DEF SelDf
  <1> QED
      BY <1>12, <1>13

(* ReadRest() takes the cursor on, or back to the start of the track. *)
LEMMA ReadRestEffect ==
    ASSUME TypeInv, LinkInv, ReadRest
    PROVE  /\ df' \in [Drives -> DriveStates]
           /\ \A d \in Drives \ {arm.drive} : df'[d] = df[d]
           /\ df'[arm.drive].img = ArmDf.img /\ df'[arm.drive].status = ArmDf.status
           /\ df'[arm.drive].cache = ArmDf.cache
           /\ df'[arm.drive].track = ArmDf.track
           /\ df'[arm.drive].track_prev = ArmDf.track_prev
           /\ df'[arm.drive].sector_offset = arm'.sector
           /\ df'[arm.drive].cluster_offset = file'.cluster
           /\ file' \in Cursors
           /\ file' = IF arm'.sector = 0 THEN TrackStart(ArmDf) ELSE FileNextSector(file)
           /\ arm' \in Arms /\ arm'.pc = "read" /\ arm'.drive = arm.drive
           /\ arm'.sector = NextSector(arm.sector)
           /\ arm'.sector # 0 => arm'.sector = arm.sector + 1
           /\ Piece("second", ArmDf.track, arm.sector, arm.val) \in Pieces
           /\ fpga' = Send(fpga, Piece("second", ArmDf.track, arm.sector, arm.val))
PROOF
  <1>1. /\ arm.drive \in Drives /\ ArmDf \in DriveStates
        /\ arm.sector \in 0 .. SECTOR_COUNT - 1
        /\ df \in [Drives -> DriveStates] /\ file \in Cursors /\ arm \in Arms
      BY DriveTypes DEF TypeInv, ArmDf
  <1>2. ArmDf.track \in TrackNumbers /\ ArmDf.track \in Nat
      BY DEF ReadRest, At, LinkInv, ArmDf, TrackNumbers
  <1>3. PICK k \in 0 .. SECTOR_COUNT - 1 : k = NextSector(arm.sector)
      BY <1>1, Numbers DEF NextSector
  <1>4. /\ Wraps(arm.sector + 1) <=> k = 0
        /\ k # 0 => k = arm.sector + 1
      BY <1>1, <1>3, Numbers DEF Wraps, NextSector
  <1>5. arm' = [arm EXCEPT !.pc = "read", !.sector = k]
    <2>1. arm' = [arm EXCEPT !.pc = "read",
                     !.sector = IF Wraps(arm.sector + 1) THEN 0 ELSE arm.sector + 1]
        BY DEF ReadRest
    <2>2. k = IF Wraps(arm.sector + 1) THEN 0 ELSE arm.sector + 1
        BY <1>4
    <2> QED
        BY <2>1, <2>2
  <1>6. arm' \in Arms /\ arm'.pc = "read" /\ arm'.drive = arm.drive /\ arm'.sector = k
      BY <1>1, <1>5 DEF Arms, Places
  <1>7. TrackStart(ArmDf) \in Cursors
    <2>1. ArmDf.cache[ArmDf.track] \in Links
        BY <1>1, <1>2 DEF DriveStates
    <2>2. ArmDf.track * SECTOR_COUNT \in Nat
        BY <1>2, Numbers
    <2> QED
        BY <2>1, <2>2 DEF TrackStart, Cursors
  <1>8. file' = IF k = 0 THEN TrackStart(ArmDf) ELSE FileNextSector(file)
      BY <1>4 DEF ReadRest, ArmDf
  <1>9. file' \in Cursors /\ file'.cluster \in Links
    <2>1. file' \in Cursors
        BY <1>1, <1>7, <1>8, NextCursor
    <2> QED
        BY <2>1 DEF Cursors
  <1>10. PICK l \in Links : l = file'.cluster
      BY <1>9
  <1>11. PICK r : r = [ArmDf EXCEPT !.sector_offset = k, !.cluster_offset = l]
      OBVIOUS
  <1>12. /\ r \in DriveStates /\ r.img = ArmDf.img /\ r.status = ArmDf.status
         /\ r.cache = ArmDf.cache /\ r.track = ArmDf.track
         /\ r.track_prev = ArmDf.track_prev /\ r.sector_offset = k
         /\ r.cluster_offset = l
      BY <1>1, <1>10, <1>11 DEF DriveStates
  <1>13. df' = [df EXCEPT ![arm.drive] = r]
    <2>1. df' = [df EXCEPT ![arm.drive].sector_offset = k, ![arm.drive].cluster_offset = l]
        BY <1>6, <1>10 DEF ReadRest
    <2> QED
        BY <1>1, <1>11, <2>1 DEF ArmDf, DriveStates
  <1>14. /\ df' \in [Drives -> DriveStates] /\ df'[arm.drive] = r
         /\ \A d \in Drives \ {arm.drive} : df'[d] = df[d]
      BY <1>1, <1>12, <1>13
  <1>15. Piece("second", ArmDf.track, arm.sector, arm.val) \in Pieces
      BY <1>1, <1>2 DEF Piece, Pieces, Arms
  <1>16. fpga' = Send(fpga, Piece("second", ArmDf.track, arm.sector, arm.val))
      BY DEF ReadRest, ArmDf
  <1> QED
      BY <1>3, <1>4, <1>6, <1>8, <1>9, <1>10, <1>12, <1>14, <1>15, <1>16

(* WriteTrack() sets the cursor to the track. *)
LEMMA WriteTrackEffect ==
    ASSUME TypeInv, WriteTrack
    PROVE  /\ df' \in [Drives -> DriveStates]
           /\ \A d \in Drives \ {fpga.sel} : df'[d] = df[d]
           /\ df'[fpga.sel].img = SelDf.img /\ df'[fpga.sel].status = SelDf.status
           /\ df'[fpga.sel].cache = SelDf.cache
           /\ df'[fpga.sel].track = track(fpga)
           /\ df'[fpga.sel].track_prev = track(fpga) + 1
           /\ file' \in Cursors
           /\ track(fpga) \in TrackNumbers =>
                file' = [sector |-> track(fpga) * SECTOR_COUNT,
                         cluster |-> SelDf.cache[track(fpga)]]
           /\ arm' \in Arms /\ arm'.pc = "sync" /\ arm'.drive = fpga.sel
           /\ arm'.sector = 0
PROOF
  <1> DEFINE d == [df[fpga.sel] EXCEPT !.track = track(fpga),
                                     !.track_prev = track(fpga) + 1]
  <1>1. /\ fpga.sel \in Drives /\ df[fpga.sel] \in DriveStates
        /\ df \in [Drives -> DriveStates] /\ file \in Cursors
        /\ track(fpga) \in Heads /\ track(fpga) \in Nat
      BY DriveTypes DEF TypeInv
  <1>2. /\ d \in DriveStates /\ d.track = track(fpga) /\ d.track_prev = track(fpga) + 1
        /\ d.img = df[fpga.sel].img /\ d.status = df[fpga.sel].status
        /\ d.cache = df[fpga.sel].cache
    <2>1. PICK t \in Heads, n \in Int : t = track(fpga) /\ n = track(fpga) + 1
        BY <1>1
    <2>2. d = [df[fpga.sel] EXCEPT !.track = t, !.track_prev = n]
        BY <2>1
    <2> HIDE DEF d
    <2> QED
        BY <1>1, <2>1, <2>2 DEF DriveStates
  <1>3. /\ df' = [df EXCEPT ![fpga.sel] = d]
        /\ file' = IF d.track \in TrackNumbers THEN TrackStart(d) ELSE file
        /\ arm' = [NoCall EXCEPT !.pc = "sync", !.drive = fpga.sel]
      BY DEF WriteTrack
  <1> HIDE DEF d
  <1>4. /\ df' \in [Drives -> DriveStates] /\ df'[fpga.sel] = d
        /\ \A e \in Drives \ {fpga.sel} : df'[e] = df[e]
      BY <1>1, <1>2, <1>3
  <1>5. ASSUME track(fpga) \in TrackNumbers
        PROVE  /\ file' \in Cursors
               /\ file' = [sector |-> track(fpga) * SECTOR_COUNT,
                           cluster |-> SelDf.cache[track(fpga)]]
    <2>1. SelDf.cache[track(fpga)] \in Links
        BY <1>1, <1>5 DEF DriveStates, SelDf
    <2>2. track(fpga) * SECTOR_COUNT \in Nat
        BY <1>1, Numbers
    <2>3. file' = [sector |-> track(fpga) * SECTOR_COUNT,
                   cluster |-> SelDf.cache[track(fpga)]]
        BY <1>2, <1>3, <1>5 DEF TrackStart, SelDf
    <2> QED
        BY <2>1, <2>2, <2>3 DEF Cursors
  <1>6. file' \in Cursors
      BY <1>1, <1>2, <1>3, <1>5
  <1>7. /\ arm' \in Arms /\ arm'.pc = "sync" /\ arm'.drive = fpga.sel
        /\ arm'.sector = 0
    <2>1. arm' = [pc |-> "sync", drive |-> fpga.sel, sector |-> 0, val |-> 0]
        BY <1>3 DEF NoCall
    <2>2. 0 \in 0 .. SECTOR_COUNT - 1
        BY Numbers
    <2> QED
        BY <1>1, <2>1, <2>2 DEF Arms, Places
  <1> QED
      BY <1>2, <1>4, <1>5, <1>6, <1>7 DEF SelDf

(* GetHeader() moves the cursor to the sector of a good header. *)
LEMMA GetHeaderEffect ==
    ASSUME TypeInv, GetHeader
    PROVE  LET h == fpga.fifo[1] IN
           /\ fpga.fifo # <<>> /\ Len(fpga.fifo) \in Nat \ {0} /\ h \in Pieces
           /\ fpga' = Fetch(fpga, 1) /\ 1 \in 0 .. Len(fpga.fifo)
           /\ file' \in Cursors
           /\ arm' \in Arms /\ arm'.drive = arm.drive
           /\ \/ /\ h.kind = "header" /\ h.track = ArmDf.track
                 /\ ArmDf.track \in TrackNumbers
                 /\ h.sector \in 0 .. SECTOR_COUNT - 1
                 /\ arm'.pc = "data" /\ arm'.sector = h.sector
                 /\ file' = Sought(ArmDf, h.sector)
              \/ /\ ~(h.kind = "header" /\ h.track = ArmDf.track)
                 /\ arm'.pc = "sync" /\ arm'.sector = arm.sector
                 /\ file' = file
PROOF
  <1>1. fpga.fifo # <<>> /\ fpga.fifo \in Seq(Pieces) /\ Head(fpga.fifo) = fpga.fifo[1]
      BY DEF GetHeader, Arrived, TypeInv, Controllers
  <1>2. Len(fpga.fifo) \in Nat \ {0}
      BY <1>1, EmptySeq
  <1>3. PICK h \in Pieces : h = fpga.fifo[1]
    <2>1. 1 \in 1 .. Len(fpga.fifo)
        BY <1>2
    <2> QED
        BY <1>1, <2>1, ElementOfSeq
  <1>4. fpga' = Fetch(fpga, 1) /\ 1 \in 0 .. Len(fpga.fifo)
      BY <1>2 DEF GetHeader
  <1>5. /\ arm \in Arms /\ file \in Cursors /\ ArmDf \in DriveStates
        /\ arm.sector \in 0 .. SECTOR_COUNT - 1
      BY DriveTypes DEF TypeInv, ArmDf
  <1>6. CASE h.kind = "header" /\ h.track = ArmDf.track
    <2>1. h.track \in TrackNumbers /\ h.sector \in 0 .. SECTOR_COUNT - 1
        BY <1>6, Numbers DEF Pieces
    <2>2. PICK k \in 0 .. SECTOR_COUNT - 1 : k = h.sector
        BY <2>1
    <2>3. file' = Sought(ArmDf, k) /\ arm' = [arm EXCEPT !.pc = "data", !.sector = k]
        BY <1>1, <1>3, <1>6, <2>2 DEF GetHeader, ArmDf
    <2>4. arm' \in Arms /\ arm'.drive = arm.drive /\ arm'.pc = "data" /\ arm'.sector = k
        BY <1>5, <2>3 DEF Arms, Places
    <2>5. Sought(ArmDf, k) \in Cursors
      <3>1. CASE arm.sector <= k
        <4>1. k - arm.sector \in Nat
            BY <1>5, <3>1
        <4>2. Sought(ArmDf, k) = Ahead(file, k - arm.sector)
            BY <3>1 DEF Sought
        <4> QED
            BY <1>5, <4>1, <4>2, AheadCursor
      <3>2. CASE ~(arm.sector <= k)
        <4>1. Sought(ArmDf, k) = Ahead(TrackStart(ArmDf), k) /\ k \in Nat
            BY <3>2 DEF Sought
        <4>2. TrackStart(ArmDf) \in Cursors
          <5>1. ArmDf.track \in TrackNumbers /\ ArmDf.track \in Nat
              BY <1>6, <2>1 DEF TrackNumbers
          <5>2. ArmDf.cache[ArmDf.track] \in Links
              BY <1>5, <5>1 DEF DriveStates
          <5>3. ArmDf.track * SECTOR_COUNT \in Nat
              BY <5>1, Numbers
          <5> QED
              BY <5>2, <5>3 DEF TrackStart, Cursors
        <4> QED
            BY <4>1, <4>2, AheadCursor
      <3> QED
          BY <3>1, <3>2
    <2> QED
        BY <1>1, <1>2, <1>3, <1>4, <1>6, <2>1, <2>2, <2>3, <2>4, <2>5
  <1>7. CASE ~(h.kind = "header" /\ h.track = ArmDf.track)
    <2>1. Goto("sync") /\ file' = file
        BY <1>1, <1>3, <1>7 DEF GetHeader, ArmDf
    <2>2. /\ arm' \in Arms /\ arm'.pc = "sync" /\ arm'.drive = arm.drive
          /\ arm'.sector = arm.sector
        BY <2>1, GotoEffect DEF Places
    <2> QED
        BY <1>1, <1>2, <1>3, <1>4, <1>5, <1>7, <2>1, <2>2
  <1> QED
      BY <1>6, <1>7

(* A disk that is inserted. *)
LEMMA InsertedType ==
    ASSUME NEW f \in Cursors, NEW img \in Images
    PROVE  /\ Inserted(f, img) \in DriveStates
           /\ Inserted(f, img).img = img
           /\ Inserted(f, img).track = 0 /\ Inserted(f, img).track_prev = -1
           /\ Inserted(f, img).status # {}
           /\ \A t \in TrackNumbers : Inserted(f, img).cache[t] =
                 Ahead(f, t * SECTOR_COUNT).cluster
PROOF
  <1>1. PICK st \in SUBSET {"inserted", "writable"} :
           st = IF img \in Writable THEN {"inserted", "writable"} ELSE {"inserted"}
      OBVIOUS
  <1>2. st # {}
      BY <1>1
  <1>3. ASSUME NEW t \in TrackNumbers PROVE Ahead(f, t * SECTOR_COUNT).cluster \in Links
    <2>1. t * SECTOR_COUNT \in Nat
        BY Numbers DEF TrackNumbers
    <2> QED
        BY <2>1, AheadCursor DEF Cursors
  <1>4. PICK q \in [TrackNumbers -> Links] :
           q = [t \in TrackNumbers |-> Ahead(f, t * SECTOR_COUNT).cluster]
      BY <1>3
  <1>5. Inserted(f, img) =
          [img |-> img, status |-> st, cache |-> q, cluster_offset |-> f.cluster,
           sector_offset |-> 0, track |-> 0, track_prev |-> -1]
      BY <1>1, <1>4 DEF Inserted
  <1>6. /\ f.cluster \in Links /\ 0 \in 0 .. SECTOR_COUNT - 1
        /\ 0 \in Heads /\ -1 \in Int
      BY Numbers, FloppyAssumption DEF Cursors
  <1> QED
      BY <1>2, <1>4, <1>5, <1>6 DEF DriveStates

(* InsertFloppy() fills the cache. *)
LEMMA InsertEffect ==
    ASSUME TypeInv, InsertFloppy
    PROVE  /\ df' \in [Drives -> DriveStates]
           /\ menu.drive \in Drives /\ menu.img \in Images
           /\ df'[menu.drive] = Inserted(file, menu.img)
           /\ \A d \in Drives \ {menu.drive} : df'[d] = df[d]
           /\ file' \in Cursors
PROOF
  <1>1. /\ df \in [Drives -> DriveStates] /\ file \in Cursors
        /\ menu.drive \in Drives /\ menu.img \in Images
      BY DEF TypeInv, InsertFloppy
  <1>2. Inserted(file, menu.img) \in DriveStates
      BY <1>1, InsertedType
  <1>3. df' = [df EXCEPT ![menu.drive] = Inserted(file, menu.img)]
      BY DEF InsertFloppy
  <1>4. file' = Ahead(file, Tracks * SECTOR_COUNT) /\ Tracks * SECTOR_COUNT \in Nat
      BY Numbers DEF InsertFloppy
  <1> QED
      BY <1>1, <1>2, <1>3, <1>4, AheadCursor

(* ReadSector() reads a sector and sends its first half. *)
LEMMA ReadSectorEffect ==
    ASSUME TypeInv, LinkInv, ReadSector
    PROVE  /\ arm' \in Arms /\ arm'.pc = "rest" /\ arm'.drive = arm.drive
           /\ arm'.sector = arm.sector /\ arm'.val = card[FileSector(file)]
           /\ Piece("first", ArmDf.track, arm.sector, arm'.val) \in Pieces
           /\ fpga' = Send(fpga, Piece("first", ArmDf.track, arm.sector, arm'.val))
PROOF
  <1>1. /\ arm \in Arms /\ file \in Cursors /\ card \in [DOMAIN InitCard -> Int]
        /\ ArmDf \in DriveStates /\ arm.sector \in 0 .. SECTOR_COUNT - 1
      BY DriveTypes DEF TypeInv, ArmDf
  <1>2. PICK v \in Int : v = card[FileSector(file)]
      BY <1>1, CursorSector
  <1>3. arm' = [arm EXCEPT !.pc = "rest", !.val = v]
      BY <1>2 DEF ReadSector
  <1>4. /\ arm' \in Arms /\ arm'.pc = "rest" /\ arm'.drive = arm.drive
        /\ arm'.sector = arm.sector /\ arm'.val = v
      BY <1>1, <1>3 DEF Arms, Places
  <1>5. ArmDf.track \in Nat
      BY DEF ReadSector, At, LinkInv, ArmDf, TrackNumbers
  <1>6. Piece("first", ArmDf.track, arm.sector, v) \in Pieces
      BY <1>1, <1>2, <1>5 DEF Piece, Pieces
  <1>7. fpga' = Send(fpga, Piece("first", ArmDf.track, arm.sector, arm'.val))
      BY DEF ReadSector, ArmDf
  <1> QED
      BY <1>2, <1>4, <1>6, <1>7

(* FindSync() fetches what comes before a sync, and the sync. *)
LEMMA FindSyncEffect ==
    ASSUME TypeInv, FindSync
    PROVE  \E n \in 0 .. Len(fpga.fifo) :
             /\ fpga' = Fetch(fpga, n)
             /\ arm' \in Arms /\ arm'.drive = arm.drive /\ arm'.sector = arm.sector
             /\ \/ /\ n = Len(fpga.fifo) /\ arm'.pc = "sync"
                   /\ \A i \in 1 .. n : fpga.fifo[i].kind # "sync"
                \/ /\ n >= 1 /\ fpga.fifo[n].kind = "sync" /\ arm'.pc = "header"
                   /\ \A i \in 1 .. n - 1 : fpga.fifo[i].kind # "sync"
PROOF
  <1>1. fpga.fifo \in Seq(Pieces) /\ arm \in Arms
      BY DEF TypeInv, Controllers
  <1>2. PICK l \in Nat : l = Len(fpga.fifo)
      BY <1>1, LenProperties
  <1>3. CASE Syncs = {}
    <2>1. fpga' = Fetch(fpga, l) /\ arm' = arm /\ arm.pc = "sync"
        BY <1>2, <1>3 DEF FindSync, At
    <2>2. \A i \in 1 .. l : fpga.fifo[i].kind # "sync"
        BY <1>2, <1>3 DEF Syncs
    <2>3. l \in 0 .. Len(fpga.fifo)
        BY <1>2
    <2> QED
        BY <1>1, <1>2, <2>1, <2>2, <2>3
  <1>4. CASE Syncs # {}
    <2>1. Syncs \subseteq Nat
        BY <1>2 DEF Syncs
    <2>2. PICK m \in Syncs : \A i \in Syncs : ~(<<i, m>> \in OpToRel(<, Nat))
        BY <1>4, <2>1, WFMin, NatLessThanWellFounded
    <2>3. \A i \in Syncs : m <= i
      <3> SUFFICES ASSUME NEW i \in Syncs PROVE m <= i
          OBVIOUS
      <3>1. m \in Nat /\ i \in Nat
          BY <2>1, <2>2
      <3>2. ~(i < m)
          BY <2>2, <3>1 DEF OpToRel
      <3> QED
          BY <3>1, <3>2
    <2>4. PICK n : n = FirstSync
        OBVIOUS
    <2>5. n \in Syncs /\ \A i \in Syncs : n <= i
        BY <2>2, <2>3, <2>4 DEF FirstSync
    <2>6. n \in 1 .. l /\ fpga.fifo[n].kind = "sync"
        BY <1>2, <2>5 DEF Syncs
    <2>7. ASSUME NEW i \in 1 .. n - 1 PROVE fpga.fifo[i].kind # "sync"
      <3>1. i \in 1 .. l /\ ~(n <= i)
          BY <2>6
      <3> QED
          BY <1>2, <2>5, <3>1 DEF Syncs
    <2>8. fpga' = Fetch(fpga, n) /\ Goto("header")
        BY <1>4, <2>4 DEF FindSync
    <2>9. /\ arm' \in Arms /\ arm'.pc = "header" /\ arm'.drive = arm.drive
          /\ arm'.sector = arm.sector
        BY <2>8, GotoEffect DEF Places
    <2>10. n \in 0 .. Len(fpga.fifo) /\ n >= 1
        BY <1>2, <2>6
    <2> QED
        BY <2>6, <2>7, <2>8, <2>9, <2>10
  <1> QED
      BY <1>3, <1>4

(* GetData() writes the sector to the card. *)
LEMMA GetDataEffect ==
    ASSUME TypeInv, GetData
    PROVE  LET p == fpga.fifo[1] IN
           /\ fpga.fifo # <<>> /\ Len(fpga.fifo) \in Nat \ {0} /\ p \in Pieces
           /\ fpga' = Fetch(fpga, 1) /\ 1 \in 0 .. Len(fpga.fifo)
           /\ arm' \in Arms /\ arm'.drive = arm.drive /\ arm'.pc = "sync"
           /\ arm'.sector = arm.sector
           /\ card' \in [DOMAIN InitCard -> Int]
           /\ FileSector(file) \in DOMAIN InitCard
           /\ p.kind = "data" /\ "writable" \in ArmDf.status =>
                card' = [card EXCEPT ![FileSector(file)] = p.val]
           /\ ~(p.kind = "data" /\ "writable" \in ArmDf.status) => card' = card
PROOF
  <1>1. fpga.fifo # <<>> /\ fpga.fifo \in Seq(Pieces) /\ Head(fpga.fifo) = fpga.fifo[1]
      BY DEF GetData, Arrived, TypeInv, Controllers
  <1>2. Len(fpga.fifo) \in Nat \ {0}
      BY <1>1, EmptySeq
  <1>3. PICK p \in Pieces : p = fpga.fifo[1]
    <2>1. 1 \in 1 .. Len(fpga.fifo)
        BY <1>2
    <2> QED
        BY <1>1, <2>1, ElementOfSeq
  <1>4. fpga' = Fetch(fpga, 1) /\ 1 \in 0 .. Len(fpga.fifo)
      BY <1>2 DEF GetData
  <1>5. /\ arm' \in Arms /\ arm'.drive = arm.drive /\ arm'.pc = "sync"
        /\ arm'.sector = arm.sector
      BY GotoEffect DEF GetData, Places
  <1>6. FileSector(file) \in DOMAIN InitCard /\ card \in [DOMAIN InitCard -> Int]
      BY CursorSector DEF TypeInv
  <1>7. p.val \in Int
      BY DEF Pieces
  <1>8. /\ p.kind = "data" /\ "writable" \in ArmDf.status =>
                card' = [card EXCEPT ![FileSector(file)] = p.val]
        /\ ~(p.kind = "data" /\ "writable" \in ArmDf.status) => card' = card
      BY <1>1, <1>3 DEF GetData, GoodData, ArmDf
  <1>9. card' \in [DOMAIN InitCard -> Int]
      BY <1>6, <1>7, <1>8
  <1> QED
      BY <1>1, <1>2, <1>3, <1>4, <1>5, <1>6, <1>8, <1>9

-----------------------------------------------------------------------------
(* Types, and what the controller and the driver agree on.                 *)

(* At first. *)
LEMMA InitBase ==
    ASSUME Init
    PROVE  BaseInv
PROOF
  <1>1. PICK disks \in [Drives -> Images] :
           /\ df = [d \in Drives |-> Inserted(Selected(disks[d]), disks[d])]
           /\ seen = disks
      BY DEF Init
  <1>2. df \in [Drives -> DriveStates]
    <2>1. ASSUME NEW d \in Drives
          PROVE  Inserted(Selected(disks[d]), disks[d]) \in DriveStates
        BY SelectedCursor, InsertedType
    <2> QED
        BY <1>1, <2>1
  <1>3. /\ fpga \in Controllers /\ fpga.dmaen = FALSE /\ fpga.state = "idle"
        /\ fpga.fifo = <<>> /\ fpga.write = FALSE
    <2>1. PowerUp \in Controllers /\ PowerUp.dmaen = FALSE /\ PowerUp.state = "idle"
          /\ PowerUp.fifo = <<>> /\ PowerUp.write = FALSE
      <3>1. <<>> \in Seq(Pieces) /\ 0 \in Drives /\ 0 \in Heads
          BY EmptySeq, FloppyAssumption
      <3>2. [d \in Drives |-> 0] \in [Drives -> Heads]
          BY <3>1
      <3> QED
          BY <3>1, <3>2 DEF PowerUp, Controllers
    <2>2. fpga = [PowerUp EXCEPT !.present = Drives, !.change = {}]
        BY DEF Init
    <2> QED
        BY <2>1, <2>2 DEF Controllers
  <1>4. arm \in Arms /\ arm.pc = "poll"
    <2>1. arm = [pc |-> "poll", drive |-> 0, sector |-> 0, val |-> 0]
        BY DEF Init, NoCall
    <2>2. 0 \in Drives /\ 0 \in 0 .. SECTOR_COUNT - 1
        BY FloppyAssumption, Numbers
    <2> QED
        BY <2>1, <2>2 DEF Arms, Places
  <1>5. menu \in [drive : Drives, img : Images \cup {NoImage}, swaps : Nat]
    <2>1. menu = [drive |-> 0, img |-> NoImage, swaps |-> 0]
        BY DEF Init, NoPick
    <2>2. 0 \in Drives
        BY FloppyAssumption
    <2> QED
        BY <2>1, <2>2
  <1>6. amiga \in Amigas /\ amiga = Rest(amiga.jobs) /\ amiga.pc = "rest"
    <2>1. amiga = [pc |-> "rest", got |-> <<>>, img |-> NoImage, left |-> <<>>, jobs |-> 0]
        BY DEF Init, Rest
    <2>2. <<>> \in Seq(Pieces)
        BY EmptySeq
    <2> QED
        BY <2>1, <2>2 DEF Amigas, Rest
  <1>7. Images # {}
    <2>1. 0 \in Drives
        BY FloppyAssumption
    <2> QED
        BY <1>1, <2>1
  <1>8. file \in Cursors
    <2>1. file = Selected(CHOOSE img \in Images : TRUE)
        BY DEF Init
    <2>2. (CHOOSE img \in Images : TRUE) \in Images
        BY <1>7
    <2> QED
        BY <2>1, <2>2, SelectedCursor
  <1>9. card = InitCard /\ card \in [DOMAIN InitCard -> Int]
      BY FddAssumption DEF Init
  <1>10. exp \in [Images -> [ImageSectors -> Int]]
    <2>1. ASSUME NEW img \in Images, NEW s \in ImageSectors
          PROVE  InitCard[FileSector(Ahead(Selected(img), s))] \in Int
      <3>1. FileSector(Ahead(Selected(img), s)) \in DOMAIN InitCard
          BY SelectedCursor, CursorSector
      <3> QED
          BY <3>1, FddAssumption
    <2>2. exp = [img \in Images |-> [s \in ImageSectors |->
                  InitCard[FileSector(Ahead(Selected(img), s))]]]
        BY DEF Init, ImageSectors
    <2> QED
        BY <2>1, <2>2
  <1>11. seen \in [Drives -> Images \cup {NoImage}]
      BY <1>1
  <1> QED
      BY <1>2, <1>3, <1>4, <1>5, <1>6, <1>8, <1>9, <1>10, <1>11 DEF BaseInv, TypeInv, LinkInv

(* A frame, and the ARM goes on. *)
LEMMA FrameBase ==
    ASSUME BaseInv, fpga' = Frame(fpga),
           UNCHANGED <<df, file, card, menu, amiga, exp, seen>>,
           arm' \in Arms, arm'.drive = arm.drive,
           arm'.pc \in {"start", "read", "rest"} => arm.pc \in {"start", "read", "rest"}
    PROVE  BaseInv'
PROOF
  <1>1. TypeInv /\ LinkInv /\ fpga \in Controllers
      BY DEF BaseInv, TypeInv
  <1>2. /\ fpga' \in Controllers
        /\ fpga'.dmaen = fpga.dmaen /\ fpga'.write = fpga.write
        /\ fpga'.dsklen = fpga.dsklen /\ fpga'.fifo = fpga.fifo
        /\ fpga'.state \in {fpga.state, "active"}
        /\ fpga'.state # fpga.state => fpga.state = "idle" /\ fpga.dmaen
      BY <1>1, FrameEffect
  <1>3. TypeInv'
      BY <1>1, <1>2 DEF TypeInv
  <1>4. LinkInv'
      BY <1>1, <1>2 DEF LinkInv
  <1> QED
      BY <1>3, <1>4 DEF BaseInv

(* A step of the ARM that leaves the controller alone. *)
LEMMA AloneBase ==
    ASSUME BaseInv, UNCHANGED fpga, TypeInv',
           amiga'.pc = amiga.pc, amiga'.left = amiga.left,
           arm'.pc \in {"start", "read", "rest"} =>
             df'[arm'.drive].track \in TrackNumbers
    PROVE  BaseInv'
PROOF
  <1> QED
      BY DEF BaseInv, LinkInv

(* HandleFDD(). *)
LEMMA HandleFDDBase ==
    ASSUME BaseInv, HandleFDD
    PROVE  BaseInv'
PROOF
  <1>1. TypeInv /\ LinkInv /\ fpga \in Controllers
      BY DEF BaseInv, TypeInv
  <1>2. CASE PollNothing
    <2>1. /\ fpga' = Frame(fpga)
          /\ UNCHANGED <<df, file, card, menu, amiga, exp, seen>>
          /\ Goto("update")
        BY <1>2 DEF PollNothing
    <2>2. arm' \in Arms /\ arm'.drive = arm.drive /\ arm'.pc = "update"
        BY <1>1, <2>1, GotoEffect DEF Places
    <2> QED
        BY <2>1, <2>2, FrameBase
  <1>3. CASE ReadTrack
    <2>1. /\ df' \in [Drives -> DriveStates] /\ file' \in Cursors
          /\ arm' \in Arms /\ arm'.drive = fpga.sel /\ df'[fpga.sel].track = Clip
        BY <1>1, <1>3, ReadTrackEffect
    <2>2. fpga' = Frame(fpga) /\ UNCHANGED <<card, menu, amiga, exp, seen>>
        BY <1>3 DEF ReadTrack
    <2>3. fpga' = fpga
      <3>1. fpga.state = "active"
          BY <1>3 DEF ReadTrack, CMD_RDTRK, trackrd
      <3> QED
          BY <1>1, <2>2, <3>1, FrameEffect
    <2>4. TypeInv'
        BY <1>1, <2>1, <2>2, <2>3 DEF TypeInv
    <2>5. Clip \in TrackNumbers
        BY <1>1, DriveTypes
    <2> QED
        BY <2>1, <2>2, <2>3, <2>4, <2>5, AloneBase
  <1>4. CASE ReadTrackFrame
    <2>1. /\ fpga' = Frame(fpga)
          /\ UNCHANGED <<df, file, card, menu, amiga, exp, seen>>
          /\ Goto("read") /\ arm.pc = "start"
        BY <1>4 DEF ReadTrackFrame, At
    <2>2. arm' \in Arms /\ arm'.drive = arm.drive /\ arm'.pc = "read"
        BY <1>1, <2>1, GotoEffect DEF Places
    <2> QED
        BY <2>1, <2>2, FrameBase
  <1>5. CASE ReadSector
    <2>1. PICK p \in Pieces : fpga' = Send(fpga, p)
        BY <1>1, <1>5, ReadSectorEffect
    <2>2. /\ UNCHANGED <<df, file, card, menu, amiga, exp, seen>>
          /\ trackrd(fpga) /\ arm.pc = "read"
        BY <1>5 DEF ReadSector, At, CMD_RDTRK
    <2>3. /\ fpga' \in Controllers
          /\ fpga'.dmaen = fpga.dmaen /\ fpga'.write = fpga.write
          /\ fpga'.state = fpga.state /\ fpga.state = "active" /\ ~fpga.write
        BY <1>1, <2>1, <2>2, SendEffect DEF trackrd
    <2>4. arm' \in Arms /\ arm'.pc = "rest" /\ arm'.drive = arm.drive
        BY <1>1, <1>5, ReadSectorEffect
    <2>5. TypeInv'
        BY <1>1, <2>2, <2>3, <2>4 DEF TypeInv
    <2>6. LinkInv'
        BY <1>1, <2>2, <2>3, <2>4 DEF LinkInv
    <2> QED
        BY <2>5, <2>6 DEF BaseInv
  <1>6. CASE ReadRest
    <2>1. /\ df' \in [Drives -> DriveStates] /\ file' \in Cursors
          /\ arm' \in Arms /\ arm'.drive = arm.drive
          /\ df'[arm.drive].track = ArmDf.track
        BY <1>1, <1>6, ReadRestEffect
    <2>2. PICK p \in Pieces : fpga' = Send(fpga, p)
        BY <1>1, <1>6, ReadRestEffect
    <2>3. UNCHANGED <<card, menu, amiga, exp, seen>> /\ arm.pc = "rest"
        BY <1>6 DEF ReadRest, At
    <2>4. /\ fpga' \in Controllers
          /\ fpga'.dmaen = fpga.dmaen /\ fpga'.write = fpga.write
          /\ fpga'.state = fpga.state
          /\ fpga.state = "idle" => fpga' = fpga
          /\ fpga.write => fpga' = fpga
        BY <1>1, <2>2, SendEffect DEF trackrd
    <2>5. TypeInv'
        BY <1>1, <2>1, <2>3, <2>4 DEF TypeInv
    <2>6. LinkInv'
        BY <1>1, <2>1, <2>3, <2>4 DEF LinkInv, ArmDf
    <2> QED
        BY <2>5, <2>6 DEF BaseInv
  <1>7. CASE ReadEnds
    <2>1. /\ fpga' = Frame(fpga)
          /\ UNCHANGED <<df, file, card, menu, amiga, exp, seen>>
          /\ Goto("update")
        BY <1>7 DEF ReadEnds
    <2>2. arm' \in Arms /\ arm'.drive = arm.drive /\ arm'.pc = "update"
        BY <1>1, <2>1, GotoEffect DEF Places
    <2> QED
        BY <2>1, <2>2, FrameBase
  <1>8. CASE WriteTrack
    <2>1. /\ df' \in [Drives -> DriveStates] /\ file' \in Cursors
          /\ arm' \in Arms /\ arm'.pc = "sync"
        BY <1>1, <1>8, WriteTrackEffect
    <2>2. fpga' = Frame(fpga) /\ UNCHANGED <<card, menu, amiga, exp, seen>>
        BY <1>8 DEF WriteTrack
    <2>3. fpga' = fpga
      <3>1. fpga.state = "active"
          BY <1>8 DEF WriteTrack, CMD_WRTRK, trackwr
      <3> QED
          BY <1>1, <2>2, <3>1, FrameEffect
    <2>4. TypeInv'
        BY <1>1, <2>1, <2>2, <2>3 DEF TypeInv
    <2> QED
        BY <2>1, <2>2, <2>3, <2>4, AloneBase
  <1>9. ASSUME NEW n \in 0 .. Len(fpga.fifo), fpga' = Fetch(fpga, n), fpga.write,
               UNCHANGED <<df, menu, amiga, exp, seen>>,
               file' \in Cursors, card' \in [DOMAIN InitCard -> Int],
               arm' \in Arms, arm'.pc \notin {"start", "read", "rest"}
        PROVE  BaseInv'
    <2>1. /\ fpga' \in Controllers
          /\ fpga'.write = fpga.write /\ fpga'.dsklen = fpga.dsklen
          /\ fpga'.fifo = SubSeq(fpga.fifo, n + 1, Len(fpga.fifo))
          /\ fpga.state = "active" /\ fpga.dsklen = 0 /\ fpga'.fifo = <<>> =>
               fpga'.dmaen = FALSE /\ fpga'.state = "idle"
          /\ ~(fpga.state = "active" /\ fpga.dsklen = 0 /\ fpga'.fifo = <<>>) =>
               fpga'.dmaen = fpga.dmaen /\ fpga'.state = fpga.state
        BY <1>1, <1>9, FetchEffect
    <2>2. fpga.state = "idle" => fpga'.fifo = <<>>
      <3>1. ASSUME fpga.state = "idle" PROVE fpga'.fifo = <<>>
        <4>1. fpga.fifo = <<>> /\ n \in Int /\ Len(fpga.fifo) = 0
            BY <1>1, <3>1, EmptySeq DEF LinkInv
        <4>2. Len(fpga.fifo) < n + 1 /\ n + 1 \in Int /\ Len(fpga.fifo) \in Int
            BY <4>1
        <4> QED
            BY <2>1, <4>2, SubSeqEmpty
      <3> QED
          BY <3>1
    <2>3. TypeInv'
        BY <1>1, <1>9, <2>1 DEF TypeInv
    <2>4. fpga'.state \in {"idle", "active"} /\ fpga.state \in {"idle", "active"}
        BY <1>1, <2>1 DEF Controllers
    <2>5. LinkInv'
        BY <1>1, <1>9, <2>1, <2>2, <2>4 DEF LinkInv
    <2> QED
        BY <2>3, <2>5 DEF BaseInv
  <1>10. CASE FindSync
    <2>1. PICK n \in 0 .. Len(fpga.fifo) :
             /\ fpga' = Fetch(fpga, n) /\ arm' \in Arms
             /\ arm'.pc \in {"sync", "header"}
        BY <1>1, <1>10, FindSyncEffect
    <2>2. UNCHANGED <<df, file, card, menu, amiga, exp, seen>> /\ fpga.write
        BY <1>10 DEF FindSync, CMD_WRTRK, trackwr
    <2>3. file' \in Cursors /\ card' \in [DOMAIN InitCard -> Int]
        BY <1>1, <2>2 DEF TypeInv
    <2> QED
        BY <1>9, <2>1, <2>2, <2>3
  <1>11. CASE FindSyncFails
    <2>1. /\ fpga' = Frame(fpga)
          /\ UNCHANGED <<df, file, card, menu, amiga, exp, seen>>
          /\ Goto("update")
        BY <1>11 DEF FindSyncFails
    <2>2. arm' \in Arms /\ arm'.drive = arm.drive /\ arm'.pc = "update"
        BY <1>1, <2>1, GotoEffect DEF Places
    <2> QED
        BY <2>1, <2>2, FrameBase
  <1>12. CASE GetHeader
    <2>1. /\ fpga' = Fetch(fpga, 1) /\ 1 \in 0 .. Len(fpga.fifo)
          /\ file' \in Cursors /\ arm' \in Arms /\ arm'.pc \in {"data", "sync"}
        BY <1>1, <1>12, GetHeaderEffect
    <2>2. UNCHANGED <<df, card, menu, amiga, exp, seen>> /\ fpga.write
        BY <1>12 DEF GetHeader, CMD_WRTRK, trackwr
    <2>3. card' \in [DOMAIN InitCard -> Int]
        BY <1>1, <2>2 DEF TypeInv
    <2> QED
        BY <1>9, <2>1, <2>2, <2>3
  <1>13. CASE GetData
    <2>1. /\ fpga' = Fetch(fpga, 1) /\ 1 \in 0 .. Len(fpga.fifo)
          /\ card' \in [DOMAIN InitCard -> Int] /\ arm' \in Arms /\ arm'.pc = "sync"
        BY <1>1, <1>13, GetDataEffect
    <2>2. UNCHANGED <<df, file, menu, amiga, exp, seen>> /\ fpga.write
        BY <1>13 DEF GetData, CMD_WRTRK, trackwr
    <2>3. file' \in Cursors
        BY <1>1, <2>2 DEF TypeInv
    <2> QED
        BY <1>9, <2>1, <2>2, <2>3
  <1>14. CASE GetFails
    <2>1. /\ fpga' = Frame(fpga)
          /\ UNCHANGED <<df, file, card, menu, amiga, exp, seen>>
          /\ Goto("sync")
        BY <1>14 DEF GetFails
    <2>2. arm' \in Arms /\ arm'.drive = arm.drive /\ arm'.pc = "sync"
        BY <1>1, <2>1, GotoEffect DEF Places
    <2> QED
        BY <2>1, <2>2, FrameBase
  <1> QED
      BY <1>2, <1>3, <1>4, <1>5, <1>6, <1>7, <1>8, <1>10, <1>11, <1>12, <1>13, <1>14
      DEF HandleFDD

-----------------------------------------------------------------------------
(* The driver at rest, *)
LEMMA RestType ==
    ASSUME NEW n \in Nat
    PROVE  /\ Rest(n) \in Amigas /\ Rest(n).pc = "rest" /\ Rest(n).jobs = n
           /\ Rest(n).img = NoImage /\ Rest(n).got = <<>> /\ Rest(n).left = <<>>
PROOF
  <1>1. <<>> \in Seq(Pieces)
      BY EmptySeq
  <1> QED
      BY <1>1 DEF Rest, Amigas

(* and when its disk is changed. *)
LEMMA OtherDisk ==
    ASSUME TypeInv, NEW b \in BOOLEAN,
           amiga' = [amiga EXCEPT !.img = IF b THEN NoImage ELSE amiga.img]
    PROVE  /\ amiga' \in Amigas /\ amiga'.pc = amiga.pc /\ amiga'.left = amiga.left
           /\ amiga'.got = amiga.got /\ amiga'.jobs = amiga.jobs
           /\ amiga'.img = IF b THEN NoImage ELSE amiga.img
           /\ amiga'.pc = "rest" => amiga' = Rest(amiga'.jobs)
PROOF
  <1>1. amiga \in Amigas
      BY DEF TypeInv
  <1>2. PICK i \in Images \cup {NoImage} : i = IF b THEN NoImage ELSE amiga.img
      BY <1>1 DEF Amigas
  <1>3. amiga' = [amiga EXCEPT !.img = i]
      BY <1>2
  <1>4. /\ amiga' \in Amigas /\ amiga'.pc = amiga.pc /\ amiga'.left = amiga.left
        /\ amiga'.got = amiga.got /\ amiga'.jobs = amiga.jobs /\ amiga'.img = i
      BY <1>1, <1>3 DEF Amigas
  <1>5. ASSUME amiga'.pc = "rest" PROVE amiga' = Rest(amiga'.jobs)
    <2>1. amiga = Rest(amiga.jobs) /\ amiga.img = NoImage
        BY <1>1, <1>4, <1>5, RestType DEF TypeInv, Amigas
    <2>2. i = amiga.img
        BY <1>2, <2>1
    <2>3. amiga' = amiga
        BY <1>1, <1>3, <2>2 DEF Amigas
    <2> QED
        BY <2>1, <2>3
  <1> QED
      BY <1>2, <1>4, <1>5

(* UpdateDriveStatus(). *)
LEMMA UpdateBase ==
    ASSUME BaseInv, UpdateDriveStatus
    PROVE  BaseInv'
PROOF
  <1>1. TypeInv /\ LinkInv /\ fpga \in Controllers
      BY DEF BaseInv, TypeInv
  <1>2. /\ fpga' = Present(fpga, PresentNow) /\ Goto("ui")
        /\ UNCHANGED <<df, file, card, menu, amiga, exp, seen>>
      BY DEF UpdateDriveStatus
  <1>3. PresentNow \in SUBSET Drives
      BY DEF PresentNow, InsertedDisks
  <1>4. /\ fpga' \in Controllers /\ fpga'.dmaen = fpga.dmaen
        /\ fpga'.write = fpga.write /\ fpga'.dsklen = fpga.dsklen
        /\ fpga'.state = fpga.state /\ fpga'.fifo = fpga.fifo
      BY <1>1, <1>2, <1>3, PresentEffect
  <1>5. arm' \in Arms /\ arm'.pc = "ui"
      BY <1>1, <1>2, GotoEffect DEF Places
  <1>6. TypeInv'
      BY <1>1, <1>2, <1>4, <1>5 DEF TypeInv
  <1>7. LinkInv'
      BY <1>1, <1>2, <1>4, <1>5 DEF LinkInv
  <1> QED
      BY <1>6, <1>7 DEF BaseInv

(* A disk is ejected. *)
LEMMA EjectEffect ==
    ASSUME TypeInv, NEW d \in Drives, Eject(d)
    PROVE  /\ df' \in [Drives -> DriveStates]
           /\ \A e \in Drives \ {d} : df'[e] = df[e]
           /\ df'[d].img = df[d].img /\ df'[d].cache = df[d].cache
           /\ df'[d].track = df[d].track /\ df'[d].track_prev = df[d].track_prev
           /\ df'[d].sector_offset = df[d].sector_offset
           /\ df'[d].cluster_offset = df[d].cluster_offset
           /\ df'[d].status = {}
           /\ amiga' \in Amigas /\ amiga'.pc = amiga.pc /\ amiga'.left = amiga.left
           /\ amiga'.got = amiga.got
           /\ amiga'.img = IF d = fpga.sel THEN NoImage ELSE amiga.img
           /\ amiga'.pc = "rest" => amiga' = Rest(amiga'.jobs)
           /\ menu' \in [drive : Drives, img : Images \cup {NoImage}, swaps : Nat]
           /\ menu'.img = NoImage
           /\ arm' \in Arms /\ arm'.pc = "poll"
PROOF
  <1>1. /\ df \in [Drives -> DriveStates] /\ menu.swaps \in Nat
      BY DEF TypeInv
  <1>2. df' = [df EXCEPT ![d].status = {}]
      BY DEF Eject
  <1>3. PICK r : r = [df[d] EXCEPT !.status = {}]
      OBVIOUS
  <1>4. /\ r \in DriveStates /\ r.img = df[d].img /\ r.cache = df[d].cache
        /\ r.track = df[d].track /\ r.track_prev = df[d].track_prev
        /\ r.sector_offset = df[d].sector_offset
        /\ r.cluster_offset = df[d].cluster_offset /\ r.status = {}
      BY <1>1, <1>3 DEF DriveStates
  <1>5. df' = [df EXCEPT ![d] = r]
      BY <1>1, <1>2, <1>3
  <1>6. /\ df' \in [Drives -> DriveStates] /\ df'[d] = r
        /\ \A e \in Drives \ {d} : df'[e] = df[e]
      BY <1>1, <1>4, <1>5
  <1>7. PICK b \in BOOLEAN : b = (d = fpga.sel)
      OBVIOUS
  <1>8. amiga' = [amiga EXCEPT !.img = IF b THEN NoImage ELSE amiga.img]
      BY <1>7 DEF Eject
  <1>9. /\ amiga' \in Amigas /\ amiga'.pc = amiga.pc /\ amiga'.left = amiga.left
        /\ amiga'.got = amiga.got
        /\ amiga'.img = IF b THEN NoImage ELSE amiga.img
        /\ amiga'.pc = "rest" => amiga' = Rest(amiga'.jobs)
      BY <1>8, OtherDisk
  <1>10. menu' = [drive |-> 0, img |-> NoImage, swaps |-> menu.swaps + 1]
      BY DEF Eject, NoPick
  <1>11. 0 \in Drives
      BY FloppyAssumption
  <1>12. arm' \in Arms /\ arm'.pc = "poll"
      BY GotoEffect DEF Eject, Places
  <1>13. /\ menu' \in [drive : Drives, img : Images \cup {NoImage}, swaps : Nat]
         /\ menu'.img = NoImage
    <2>1. menu.swaps + 1 \in Nat
        BY <1>1
    <2> QED
        BY <1>10, <1>11, <2>1
  <1>14. amiga'.img = IF d = fpga.sel THEN NoImage ELSE amiga.img
      BY <1>7, <1>9
  <1> QED
      BY <1>4, <1>6, <1>9, <1>12, <1>13, <1>14

(* HandleUI(). *)
LEMMA HandleUIBase ==
    ASSUME BaseInv, HandleUI
    PROVE  BaseInv'
PROOF
  <1>1. TypeInv /\ LinkInv /\ fpga \in Controllers
      BY DEF BaseInv, TypeInv
  <1>2. CASE UiElse
    <2>1. Goto("poll") /\ UNCHANGED <<fpga, df, file, card, menu, amiga, exp, seen>>
        BY <1>2 DEF UiElse
    <2>2. arm' \in Arms /\ arm'.pc = "poll"
        BY <1>1, <2>1, GotoEffect DEF Places
    <2>3. TypeInv'
        BY <1>1, <2>1, <2>2 DEF TypeInv
    <2> QED
        BY <2>1, <2>2, <2>3, AloneBase
  <1>3. CASE InsertFloppy
    <2>1. /\ df' \in [Drives -> DriveStates] /\ file' \in Cursors /\ menu.drive \in Drives
        BY <1>1, <1>3, InsertEffect
    <2>2. /\ UNCHANGED <<fpga, card, exp, seen>> /\ Goto("poll")
          /\ menu' = [drive |-> 0, img |-> NoImage, swaps |-> menu.swaps]
        BY <1>3 DEF InsertFloppy, NoPick
    <2>3. PICK b \in BOOLEAN : b = (menu.drive = fpga.sel)
        OBVIOUS
    <2>4. amiga' = [amiga EXCEPT !.img = IF b THEN NoImage ELSE amiga.img]
        BY <1>3, <2>3 DEF InsertFloppy
    <2>5. /\ amiga' \in Amigas /\ amiga'.pc = amiga.pc /\ amiga'.left = amiga.left
          /\ amiga'.pc = "rest" => amiga' = Rest(amiga'.jobs)
        BY <1>1, <2>4, OtherDisk
    <2>6. arm' \in Arms /\ arm'.pc = "poll"
        BY <1>1, <2>2, GotoEffect DEF Places
    <2>7. menu' \in [drive : Drives, img : Images \cup {NoImage}, swaps : Nat]
      <3>1. 0 \in Drives /\ menu.swaps \in Nat
          BY <1>1, FloppyAssumption DEF TypeInv
      <3> QED
          BY <2>2, <3>1
    <2>8. TypeInv'
        BY <1>1, <2>1, <2>2, <2>5, <2>6, <2>7 DEF TypeInv
    <2> QED
        BY <2>2, <2>5, <2>6, <2>8, AloneBase
  <1>4. ASSUME NEW d \in Drives, Eject(d)
        PROVE  BaseInv'
    <2>1. /\ df' \in [Drives -> DriveStates]
          /\ amiga' \in Amigas /\ amiga'.pc = amiga.pc /\ amiga'.left = amiga.left
          /\ amiga'.pc = "rest" => amiga' = Rest(amiga'.jobs)
          /\ menu' \in [drive : Drives, img : Images \cup {NoImage}, swaps : Nat]
          /\ arm' \in Arms /\ arm'.pc = "poll"
        BY <1>1, <1>4, EjectEffect
    <2>2. UNCHANGED <<fpga, file, card, exp, seen>>
        BY <1>4 DEF Eject
    <2>3. TypeInv'
        BY <1>1, <2>1, <2>2 DEF TypeInv
    <2> QED
        BY <2>1, <2>2, <2>3, AloneBase
  <1>5. ASSUME NEW d \in Drives, NEW img \in Images, SelectFile(d, img)
        PROVE  BaseInv'
    <2>1. /\ file' = Selected(img) /\ menu' = [menu EXCEPT !.drive = d, !.img = img]
          /\ Goto("poll") /\ UNCHANGED <<fpga, df, card, amiga, exp, seen>>
        BY <1>5 DEF SelectFile
    <2>2. arm' \in Arms /\ arm'.pc = "poll"
        BY <1>1, <2>1, GotoEffect DEF Places
    <2>3. file' \in Cursors
        BY <2>1, SelectedCursor
    <2>4. menu' \in [drive : Drives, img : Images \cup {NoImage}, swaps : Nat]
        BY <1>1, <2>1 DEF TypeInv
    <2>5. TypeInv'
        BY <1>1, <2>1, <2>2, <2>3, <2>4 DEF TypeInv
    <2> QED
        BY <2>1, <2>2, <2>5, AloneBase
  <1> QED
      BY <1>2, <1>3, <1>4, <1>5 DEF HandleUI

(* What the driver does between transfers. *)
LEMMA IdleState ==
    ASSUME BaseInv, Idle
    PROVE  /\ ~fpga.dmaen /\ fpga.state = "idle" /\ fpga.fifo = <<>>
           /\ amiga.pc = "rest" /\ amiga.got = <<>> /\ amiga.left = <<>>
           /\ amiga.jobs \in Nat /\ amiga.jobs + 1 \in Nat
PROOF
  <1>1. TypeInv /\ LinkInv
      BY DEF BaseInv
  <1>2. amiga.jobs \in Nat
      BY <1>1 DEF TypeInv, Amigas
  <1>3. amiga = Rest(amiga.jobs)
      BY <1>1 DEF Idle, TypeInv
  <1> QED
      BY <1>1, <1>2, <1>3, RestType DEF Idle, LinkInv

(* Some numbers have a greatest one. *)
LEMMA Greatest ==
    ASSUME NEW n \in Nat, NEW S, S \subseteq 0 .. n, S # {}
    PROVE  \E i \in S : \A j \in S : j <= i
PROOF
  <1> DEFINE T == {m \in Nat : n - m \in S}
  <1>1. T # {}
    <2>1. PICK i \in S : TRUE
        OBVIOUS
    <2>2. i \in 0 .. n
        BY <2>1
    <2>3. n - i \in Nat /\ n - (n - i) = i
        BY <2>2
    <2>4. n - i \in T
        BY <2>1, <2>3
    <2> QED
        BY <2>4
  <1>2. T \subseteq Nat
      OBVIOUS
  <1>3. PICK m \in T : \A k \in T : ~(<<k, m>> \in OpToRel(<, Nat))
      BY <1>1, <1>2, WFMin, NatLessThanWellFounded
  <1>4. m \in Nat /\ n - m \in S
      BY <1>3
  <1>5. ASSUME NEW j \in S PROVE j <= n - m
    <2>1. j \in 0 .. n
        OBVIOUS
    <2>2. n - j \in Nat /\ n - (n - j) = j
        BY <2>1
    <2>3. n - j \in T
        BY <2>2
    <2>4. ~(n - j < m)
        BY <1>3, <1>4, <2>2, <2>3 DEF OpToRel
    <2> QED
        BY <1>4, <2>1, <2>4
  <1> QED
      BY <1>4, <1>5

(* What the driver means to have written is a number again. *)
LEMMA EffectType ==
    ASSUME NEW image \in [ImageSectors -> Int], NEW stream \in Seq(Pieces), NEW t
    PROVE  Effect(image, stream, t) \in [ImageSectors -> Int]
PROOF
  <1>1. DOMAIN image = ImageSectors
      OBVIOUS
  <1>2. PICK n \in Nat : n = Len(stream)
      BY LenProperties
  <1> SUFFICES ASSUME NEW s \in ImageSectors
               PROVE  Effect(image, stream, t)[s] \in Int
      BY <1>1 DEF Effect
  <1> DEFINE hits == {i \in 3 .. Len(stream) :
                /\ stream[i].kind = "data" /\ stream[i - 1].kind = "header"
                /\ stream[i - 1].track = t
                /\ t * SECTOR_COUNT + stream[i - 1].sector = s}
             last == CHOOSE i \in hits : \A j \in hits : j <= i
  <1>3. Effect(image, stream, t)[s] = IF hits = {} THEN image[s] ELSE stream[last].val
      BY <1>1 DEF Effect
  <1>4. ASSUME hits # {} PROVE last \in 1 .. Len(stream)
    <2>1. hits \subseteq 0 .. n
        BY <1>2
    <2>2. \E i \in hits : \A j \in hits : j <= i
      <3> HIDE DEF hits
      <3> QED
          BY <1>4, <2>1, Greatest
    <2>3. last \in hits
        BY <2>2
    <2>4. last \in 3 .. n
        BY <1>2, <2>3
    <2> HIDE DEF last
    <2> QED
        BY <1>2, <2>4
  <1>5. ASSUME hits # {} PROVE stream[last].val \in Int
    <2>1. stream[last] \in Pieces
      <3> HIDE DEF last, hits
      <3> QED
          BY <1>4, <1>5, ElementOfSeq
    <2> HIDE DEF last
    <2> QED
        BY <2>1 DEF Pieces
  <1> HIDE DEF last, hits
  <1> QED
      BY <1>3, <1>5

(* The driver of the Amiga. *)
LEMMA DriverBase ==
    ASSUME BaseInv, Driver
    PROVE  BaseInv'
PROOF
  <1>1. TypeInv /\ LinkInv /\ fpga \in Controllers /\ amiga \in Amigas
      BY DEF BaseInv, TypeInv
  <1>2. amiga.got \in Seq(Pieces) /\ amiga.left \in Seq(Pieces) /\ amiga.jobs \in Nat
      BY <1>1 DEF Amigas
  <1>3. ASSUME NEW d \in Drives, Select(d)
        PROVE  BaseInv'
    <2>1. /\ Idle /\ fpga' = [fpga EXCEPT !.sel = d]
          /\ amiga' = Rest(amiga.jobs + 1)
          /\ UNCHANGED <<df, file, card, arm, menu, exp, seen>>
        BY <1>3 DEF Select
    <2>2. /\ fpga' \in Controllers /\ fpga'.dmaen = fpga.dmaen
          /\ fpga'.write = fpga.write /\ fpga'.dsklen = fpga.dsklen
          /\ fpga'.state = fpga.state /\ fpga'.fifo = fpga.fifo
        BY <1>1, <2>1, SelectEffect
    <2>3. ~fpga.dmaen /\ amiga.jobs + 1 \in Nat
        BY <2>1, IdleState
    <2>4. amiga' \in Amigas /\ amiga'.pc = "rest" /\ amiga' = Rest(amiga'.jobs)
        BY <2>1, <2>3, RestType
    <2>5. TypeInv'
        BY <1>1, <2>1, <2>2, <2>4 DEF TypeInv
    <2>6. LinkInv'
        BY <1>1, <2>1, <2>2, <2>3, <2>4 DEF LinkInv
    <2> QED
        BY <2>5, <2>6 DEF BaseInv
  <1>4. ASSUME NEW t \in Heads, StepHeads(t)
        PROVE  BaseInv'
    <2>1. /\ Idle /\ fpga' = Step(fpga, t)
          /\ seen' = [seen EXCEPT ![fpga.sel] = Held(fpga.sel)]
          /\ amiga' = Rest(amiga.jobs + 1)
          /\ UNCHANGED <<df, file, card, arm, menu, exp>>
        BY <1>4 DEF StepHeads
    <2>2. /\ fpga' \in Controllers /\ fpga'.dmaen = fpga.dmaen
          /\ fpga'.write = fpga.write /\ fpga'.dsklen = fpga.dsklen
          /\ fpga'.state = fpga.state /\ fpga'.fifo = fpga.fifo
        BY <1>1, <2>1, StepEffect
    <2>3. ~fpga.dmaen /\ amiga.jobs + 1 \in Nat
        BY <2>1, IdleState
    <2>4. amiga' \in Amigas /\ amiga'.pc = "rest" /\ amiga' = Rest(amiga'.jobs)
        BY <2>1, <2>3, RestType
    <2>5. Held(fpga.sel) \in Images \cup {NoImage}
      <3>1. df[fpga.sel].img \in Images
          BY <1>1, DriveTypes DEF DriveStates
      <3> QED
          BY <3>1 DEF Held
    <2>6. seen' \in [Drives -> Images \cup {NoImage}]
        BY <1>1, <2>1, <2>5 DEF TypeInv
    <2>7. TypeInv'
        BY <1>1, <2>1, <2>2, <2>4, <2>6 DEF TypeInv
    <2>8. LinkInv'
        BY <1>1, <2>1, <2>2, <2>3, <2>4 DEF LinkInv
    <2> QED
        BY <2>7, <2>8 DEF BaseInv
  <1>5. ASSUME NEW n \in Lengths, StartRead(n)
        PROVE  BaseInv'
    <2>1. /\ Idle /\ fpga' = Enable(fpga, FALSE, n)
          /\ amiga' = [pc |-> "read", got |-> <<>>, left |-> <<>>,
                 jobs |-> amiga.jobs + 1,
                 img |-> IF DSK_INSERTED(fpga.sel) THEN df[fpga.sel].img ELSE NoImage]
          /\ UNCHANGED <<df, file, card, arm, menu, exp, seen>>
        BY <1>5 DEF StartRead
    <2>2. n \in Nat /\ FALSE \in BOOLEAN
        BY FddAssumption
    <2>3. /\ fpga' \in Controllers /\ fpga'.dmaen = TRUE
          /\ fpga'.write = FALSE /\ fpga'.dsklen = n
          /\ fpga'.state = fpga.state /\ fpga'.fifo = fpga.fifo
        BY <1>1, <2>1, <2>2, EnableEffect
    <2>4. amiga.jobs + 1 \in Nat
        BY <2>1, IdleState
    <2>5. PICK i \in Images \cup {NoImage} :
             i = IF DSK_INSERTED(fpga.sel) THEN df[fpga.sel].img ELSE NoImage
        BY <1>1, DriveTypes DEF DriveStates
    <2>6. amiga' \in Amigas /\ amiga'.pc = "read"
      <3>1. <<>> \in Seq(Pieces)
          BY EmptySeq
      <3>2. amiga' = [pc |-> "read", got |-> <<>>, left |-> <<>>,
                      jobs |-> amiga.jobs + 1, img |-> i]
          BY <2>1, <2>5
      <3> QED
          BY <2>4, <2>5, <3>1, <3>2 DEF Amigas
    <2>7. TypeInv'
        BY <1>1, <2>1, <2>3, <2>6 DEF TypeInv
    <2>8. LinkInv'
        BY <1>1, <2>1, <2>3, <2>6 DEF LinkInv
    <2> QED
        BY <2>7, <2>8 DEF BaseInv
  <1>6. ASSUME fpga' \in Controllers, fpga'.write = fpga.write,
               \/ /\ fpga'.dmaen = fpga.dmaen /\ fpga'.state = fpga.state
                  /\ fpga.fifo # <<>>
               \/ fpga'.dmaen = FALSE /\ fpga'.state = "idle" /\ fpga'.fifo = <<>>,
               amiga.pc = "read", amiga' \in Amigas,
               amiga'.pc = IF fpga'.dmaen THEN "read" ELSE "rest",
               amiga'.pc = "rest" => amiga' = Rest(amiga'.jobs),
               UNCHANGED <<df, file, card, arm, menu, exp, seen>>
        PROVE  BaseInv'
    <2>1. TypeInv'
        BY <1>1, <1>6 DEF TypeInv
    <2>2. fpga.dmaen /\ ~fpga.write
        BY <1>1, <1>6 DEF LinkInv
    <2>3. fpga'.dmaen \in BOOLEAN
        BY <1>6 DEF Controllers
    <2>4. LinkInv'
        BY <1>1, <1>6, <2>2, <2>3 DEF LinkInv
    <2> QED
        BY <2>1, <2>4 DEF BaseInv
  <1>7. CASE Receive
    <2>1. /\ amiga.pc = "read" /\ fpga.fifo # <<>> /\ fpga' = ToMemory(fpga)
          /\ amiga' = IF fpga'.dmaen
                THEN [amiga EXCEPT !.got = Append(@, Head(fpga.fifo))]
                ELSE Rest(amiga.jobs)
          /\ UNCHANGED <<df, file, card, arm, menu, exp, seen>>
        BY <1>7 DEF Receive
    <2>2. PICK q \in Seq(Pieces) : q = Append(amiga.got, Head(fpga.fifo))
      <3>1. fpga.fifo \in Seq(Pieces)
          BY <1>1 DEF Controllers
      <3>2. Head(fpga.fifo) \in Pieces
          BY <2>1, <3>1, HeadTailProperties
      <3> QED
          BY <1>2, <3>2, AppendProperties
    <2>3. /\ fpga' \in Controllers /\ fpga'.write = fpga.write
          /\ fpga'.dmaen \in BOOLEAN
          /\ \/ fpga'.dmaen = fpga.dmaen /\ fpga'.state = fpga.state
             \/ fpga'.dmaen = FALSE /\ fpga'.state = "idle" /\ fpga'.fifo = <<>>
        BY <1>1, <2>1, ToMemoryEffect DEF Controllers
    <2>4. CASE fpga'.dmaen
      <3>1. amiga' = [amiga EXCEPT !.got = q]
          BY <2>1, <2>2, <2>4
      <3>2. amiga' \in Amigas /\ amiga'.pc = "read"
          BY <1>1, <2>1, <2>2, <3>1 DEF Amigas
      <3> QED
          BY <1>6, <2>1, <2>3, <2>4, <3>2
    <2>5. CASE ~fpga'.dmaen
      <3>1. amiga' = Rest(amiga.jobs)
          BY <2>1, <2>5
      <3>2. amiga' \in Amigas /\ amiga'.pc = "rest" /\ amiga' = Rest(amiga'.jobs)
          BY <1>2, <3>1, RestType
      <3> QED
          BY <1>6, <2>1, <2>3, <2>5, <3>2
    <2> QED
        BY <2>4, <2>5
  <1>8. CASE StopRead
    <2>1. /\ amiga.pc = "read" /\ fpga' = Stopped(fpga) /\ amiga' = Rest(amiga.jobs)
          /\ UNCHANGED <<df, file, card, arm, menu, exp, seen>>
        BY <1>8 DEF StopRead
    <2>2. amiga' \in Amigas /\ amiga'.pc = "rest" /\ amiga' = Rest(amiga'.jobs)
        BY <1>2, <2>1, RestType
    <2>3. /\ fpga' \in Controllers /\ fpga'.write = fpga.write
          /\ fpga'.dmaen = FALSE /\ fpga'.state = "idle" /\ fpga'.fifo = <<>>
        BY <1>1, <2>1, StoppedEffect
    <2> QED
        BY <1>6, <2>1, <2>2, <2>3
  <1>9. ASSUME NEW stream \in Streams, StartWrite(stream)
        PROVE  BaseInv'
    <2>1. /\ Idle /\ fpga' = Enable(fpga, TRUE, Len(stream))
          /\ amiga' = [Rest(amiga.jobs + 1) EXCEPT !.pc = "write", !.left = stream]
          /\ exp' = IF "writable" \notin df[fpga.sel].status THEN exp
              ELSE [exp EXCEPT ![df[fpga.sel].img] =
                        Effect(exp[df[fpga.sel].img], stream, track(fpga))]
          /\ UNCHANGED <<df, file, card, arm, menu, seen>>
        BY <1>9 DEF StartWrite
    <2>2. stream \in Seq(Pieces) /\ Len(stream) \in Nat /\ TRUE \in BOOLEAN
        BY FddAssumption, LenProperties
    <2>3. /\ fpga' \in Controllers /\ fpga'.dmaen = TRUE
          /\ fpga'.write = TRUE /\ fpga'.dsklen = Len(stream)
          /\ fpga'.state = fpga.state /\ fpga'.fifo = fpga.fifo
        BY <1>1, <2>1, <2>2, EnableEffect
    <2>4. amiga.jobs + 1 \in Nat
        BY <2>1, IdleState
    <2>5. amiga' \in Amigas /\ amiga'.pc = "write" /\ amiga'.left = stream
      <3>1. PICK r : r = Rest(amiga.jobs + 1)
          OBVIOUS
      <3>2. r \in Amigas
          BY <2>4, <3>1, RestType
      <3>3. amiga' = [r EXCEPT !.pc = "write", !.left = stream]
          BY <2>1, <3>1
      <3> QED
          BY <2>2, <3>2, <3>3 DEF Amigas
    <2>6. exp' \in [Images -> [ImageSectors -> Int]]
      <3>1. /\ exp \in [Images -> [ImageSectors -> Int]]
            /\ df[fpga.sel].img \in Images /\ track(fpga) \in Nat
          BY <1>1, DriveTypes DEF TypeInv, DriveStates
      <3>2. exp[df[fpga.sel].img] \in [ImageSectors -> Int]
          BY <3>1
      <3>3. Effect(exp[df[fpga.sel].img], stream, track(fpga)) \in [ImageSectors -> Int]
          BY <2>2, <3>1, <3>2, EffectType
      <3> QED
          BY <2>1, <3>1, <3>3
    <2>7. TypeInv'
        BY <1>1, <2>1, <2>3, <2>5, <2>6 DEF TypeInv
    <2>8. LinkInv'
        BY <1>1, <2>1, <2>3, <2>5 DEF LinkInv
    <2> QED
        BY <2>7, <2>8 DEF BaseInv
  <1>10. CASE Transmit
    <2>1. /\ amiga.pc = "write" /\ amiga.left # <<>> /\ fpga.state = "active"
          /\ fpga' = FromMemory(fpga, Head(amiga.left))
          /\ amiga' = [amiga EXCEPT !.left = Tail(@)]
          /\ UNCHANGED <<df, file, card, arm, menu, exp, seen>>
        BY <1>10 DEF Transmit, trackwr
    <2>2. /\ Head(amiga.left) \in Pieces /\ Tail(amiga.left) \in Seq(Pieces)
          /\ Len(Tail(amiga.left)) = Len(amiga.left) - 1
          /\ Len(amiga.left) # 0
        BY <1>2, <2>1, HeadTailProperties, EmptySeq
    <2>3. fpga.write /\ fpga.dsklen = Len(amiga.left)
        BY <1>1, <2>1 DEF LinkInv
    <2>4. /\ fpga' \in Controllers
          /\ fpga'.dmaen = fpga.dmaen /\ fpga'.write = fpga.write
          /\ fpga'.state = fpga.state /\ fpga'.dsklen = fpga.dsklen - 1
        BY <1>1, <2>1, <2>2, <2>3, FromMemoryEffect
    <2>5. PICK q \in Seq(Pieces) : q = Tail(amiga.left)
        BY <2>2
    <2>6. amiga' \in Amigas /\ amiga'.pc = "write" /\ amiga'.left = q
      <3>1. amiga' = [amiga EXCEPT !.left = q]
          BY <2>1, <2>5
      <3> QED
          BY <1>1, <2>1, <2>5, <3>1 DEF Amigas
    <2>7. fpga'.dsklen = Len(amiga'.left)
        BY <2>2, <2>3, <2>4, <2>5, <2>6
    <2>8. TypeInv'
        BY <1>1, <2>1, <2>4, <2>6 DEF TypeInv
    <2>9. LinkInv'
        BY <1>1, <2>1, <2>3, <2>4, <2>6, <2>7 DEF LinkInv
    <2> QED
        BY <2>8, <2>9 DEF BaseInv
  <1>11. CASE WriteDone
    <2>1. /\ amiga.pc = "write" /\ ~fpga.dmaen /\ amiga' = Rest(amiga.jobs)
          /\ UNCHANGED <<fpga, df, file, card, arm, menu, exp, seen>>
        BY <1>11 DEF WriteDone
    <2>2. amiga' \in Amigas /\ amiga'.pc = "rest" /\ amiga' = Rest(amiga'.jobs)
        BY <1>2, <2>1, RestType
    <2>3. TypeInv'
        BY <1>1, <2>1, <2>2 DEF TypeInv
    <2>4. LinkInv'
        BY <1>1, <2>1, <2>2 DEF LinkInv
    <2> QED
        BY <2>3, <2>4 DEF BaseInv
  <1> QED
      BY <1>3, <1>4, <1>5, <1>7, <1>8, <1>9, <1>10, <1>11 DEF Driver

(* No action is a step without changes. *)
LEMMA StutterBase ==
    ASSUME BaseInv, UNCHANGED vars
    PROVE  BaseInv'
    BY DEF vars, BaseInv, TypeInv, LinkInv

(* Every step keeps the types. *)
LEMMA BaseStep ==
    ASSUME BaseInv, [Next]_vars
    PROVE  BaseInv'
    BY HandleFDDBase, UpdateBase, HandleUIBase, DriverBase, StutterBase DEF Next

(* So they always hold. *)
LEMMA BaseAlways == Spec => []BaseInv
    BY InitBase, BaseStep, PTL DEF Spec

-----------------------------------------------------------------------------
(* The disks that are in the drives.                                       *)

(* HandleFDD() changes no disk, and nothing the controller knows of them. *)
LEMMA SameDisks ==
    ASSUME BaseInv, HandleFDD
    PROVE  /\ \A d \in Drives : /\ df'[d].img = df[d].img
                                /\ df'[d].status = df[d].status
                                /\ df'[d].cache = df[d].cache
           /\ fpga'.present = fpga.present /\ fpga'.change = fpga.change
           /\ fpga'.sel = fpga.sel /\ fpga'.dsktrack = fpga.dsktrack
           /\ fpga'.write = fpga.write
           /\ menu' = menu /\ seen' = seen /\ amiga' = amiga /\ exp' = exp
           /\ arm.pc # "ui" /\ arm'.pc # "ui"
PROOF
  <1>1. TypeInv /\ LinkInv /\ fpga \in Controllers
      BY DEF BaseInv, TypeInv
  <1>2. menu' = menu /\ seen' = seen /\ amiga' = amiga /\ exp' = exp /\ arm.pc # "ui"
      BY DEF HandleFDD, PollNothing, ReadTrack, ReadTrackFrame, ReadSector, ReadRest,
             ReadEnds, WriteTrack, FindSync, FindSyncFails, GetHeader, GetData,
             GetFails, At
  <1>3. ASSUME fpga' = Frame(fpga)
        PROVE  /\ fpga'.present = fpga.present /\ fpga'.change = fpga.change
               /\ fpga'.sel = fpga.sel /\ fpga'.dsktrack = fpga.dsktrack
               /\ fpga'.write = fpga.write
      BY <1>1, <1>3, FrameEffect
  <1>4. CASE PollNothing
    <2>1. arm'.pc = "update"
        BY <1>1, <1>4, GotoEffect DEF PollNothing, Places
    <2> QED
        BY <1>2, <1>3, <1>4, <2>1 DEF PollNothing
  <1>5. CASE ReadTrack
    <2>1. arm'.pc = "start" /\ \A d \in Drives : /\ df'[d].img = df[d].img
                                /\ df'[d].status = df[d].status
                                /\ df'[d].cache = df[d].cache
        BY <1>1, <1>5, ReadTrackEffect DEF SelDf
    <2> QED
        BY <1>2, <1>3, <1>5, <2>1 DEF ReadTrack
  <1>6. CASE ReadTrackFrame
    <2>1. arm'.pc = "read"
        BY <1>1, <1>6, GotoEffect DEF ReadTrackFrame, Places
    <2> QED
        BY <1>2, <1>3, <1>6, <2>1 DEF ReadTrackFrame
  <1>7. CASE ReadSector
    <2>1. PICK p \in Pieces : fpga' = Send(fpga, p) /\ arm'.pc = "rest"
        BY <1>1, <1>7, ReadSectorEffect
    <2>2. /\ fpga'.present = fpga.present /\ fpga'.change = fpga.change
          /\ fpga'.sel = fpga.sel /\ fpga'.dsktrack = fpga.dsktrack
          /\ fpga'.write = fpga.write
        BY <1>1, <2>1, SendEffect
    <2> QED
        BY <1>2, <1>7, <2>1, <2>2 DEF ReadSector
  <1>8. CASE ReadRest
    <2>1. PICK p \in Pieces : fpga' = Send(fpga, p) /\ arm'.pc = "read"
        BY <1>1, <1>8, ReadRestEffect
    <2>2. /\ fpga'.present = fpga.present /\ fpga'.change = fpga.change
          /\ fpga'.sel = fpga.sel /\ fpga'.dsktrack = fpga.dsktrack
          /\ fpga'.write = fpga.write
        BY <1>1, <2>1, SendEffect
    <2>3. \A d \in Drives : /\ df'[d].img = df[d].img
                            /\ df'[d].status = df[d].status
                            /\ df'[d].cache = df[d].cache
        BY <1>1, <1>8, ReadRestEffect DEF ArmDf
    <2> QED
        BY <1>2, <2>1, <2>2, <2>3
  <1>9. CASE ReadEnds
    <2>1. arm'.pc = "update"
        BY <1>1, <1>9, GotoEffect DEF ReadEnds, Places
    <2> QED
        BY <1>2, <1>3, <1>9, <2>1 DEF ReadEnds
  <1>10. CASE WriteTrack
    <2>1. arm'.pc = "sync" /\ \A d \in Drives : /\ df'[d].img = df[d].img
                                /\ df'[d].status = df[d].status
                                /\ df'[d].cache = df[d].cache
        BY <1>1, <1>10, WriteTrackEffect DEF SelDf
    <2> QED
        BY <1>2, <1>3, <1>10, <2>1 DEF WriteTrack
  <1>11. ASSUME NEW n \in 0 .. Len(fpga.fifo), fpga' = Fetch(fpga, n)
         PROVE  /\ fpga'.present = fpga.present /\ fpga'.change = fpga.change
                /\ fpga'.sel = fpga.sel /\ fpga'.dsktrack = fpga.dsktrack
                /\ fpga'.write = fpga.write
      BY <1>1, <1>11, FetchEffect
  <1>12. CASE FindSync
    <2>1. PICK n \in 0 .. Len(fpga.fifo) :
             fpga' = Fetch(fpga, n) /\ arm'.pc \in {"sync", "header"}
        BY <1>1, <1>12, FindSyncEffect
    <2>2. arm'.pc # "ui"
        BY <2>1
    <2> QED
        BY <1>2, <1>11, <1>12, <2>1, <2>2 DEF FindSync
  <1>13. CASE FindSyncFails
    <2>1. arm'.pc = "update"
        BY <1>1, <1>13, GotoEffect DEF FindSyncFails, Places
    <2> QED
        BY <1>2, <1>3, <1>13, <2>1 DEF FindSyncFails
  <1>14. CASE GetHeader
    <2>1. /\ fpga' = Fetch(fpga, 1) /\ 1 \in 0 .. Len(fpga.fifo)
          /\ arm'.pc \in {"data", "sync"}
        BY <1>1, <1>14, GetHeaderEffect
    <2>2. arm'.pc # "ui"
        BY <2>1
    <2> QED
        BY <1>2, <1>11, <1>14, <2>1, <2>2 DEF GetHeader
  <1>15. CASE GetData
    <2>1. fpga' = Fetch(fpga, 1) /\ 1 \in 0 .. Len(fpga.fifo) /\ arm'.pc = "sync"
        BY <1>1, <1>15, GetDataEffect
    <2> QED
        BY <1>2, <1>11, <1>15, <2>1 DEF GetData
  <1>16. CASE GetFails
    <2>1. arm'.pc = "sync"
        BY <1>1, <1>16, GotoEffect DEF GetFails, Places
    <2> QED
        BY <1>2, <1>3, <1>16, <2>1 DEF GetFails
  <1> QED
      BY <1>4, <1>5, <1>6, <1>7, <1>8, <1>9, <1>10, <1>12, <1>13, <1>14, <1>15, <1>16
      DEF HandleFDD

(* At first, every disk has been seen. *)
LEMMA InitChange ==
    ASSUME Init
    PROVE  ChangeInv
PROOF
  <1>1. PICK disks \in [Drives -> Images] :
           /\ df = [d \in Drives |-> Inserted(Selected(disks[d]), disks[d])]
           /\ seen = disks
      BY DEF Init
  <1>2. \A d \in Drives : df[d].img = seen[d]
      BY <1>1, SelectedCursor, InsertedType
  <1>3. fpga.present = Drives
    <2>1. fpga = [PowerUp EXCEPT !.present = Drives, !.change = {}]
        BY DEF Init
    <2> QED
        BY <2>1 DEF PowerUp
  <1>4. menu.img = NoImage /\ arm.pc = "poll"
      BY DEF Init, NoPick, NoCall
  <1> QED
      BY <1>2, <1>3, <1>4 DEF ChangeInv, ChangeSeen, At

(* Every step keeps track of what the driver has seen. *)
LEMMA ChangeStep ==
    ASSUME BaseInv, ChangeInv, [Next]_vars
    PROVE  ChangeInv'
PROOF
  <1>1. TypeInv /\ LinkInv /\ fpga \in Controllers
      BY DEF BaseInv, TypeInv
  <1>2. fpga.present \in SUBSET Drives /\ fpga.change \in SUBSET Drives
      BY <1>1 DEF Controllers
  <1>3. ASSUME \A d \in Drives : df'[d].img = df[d].img /\ df'[d].status = df[d].status,
               fpga'.present = fpga.present, fpga'.change = fpga.change,
               menu'.img # NoImage => menu' = menu, seen' = seen,
               arm'.pc = "ui" => arm.pc = "ui"
        PROVE  ChangeInv'
    <2>1. InsertedDisks' = InsertedDisks
        BY <1>3 DEF InsertedDisks, DSK_INSERTED
    <2>2. menu.drive \in Drives
        BY <1>1 DEF TypeInv
    <2> QED
        BY <1>3, <2>1, <2>2 DEF ChangeInv, ChangeSeen, DSK_INSERTED, At
  <1>4. CASE HandleFDD
      BY <1>3, <1>4, SameDisks
  <1>5. CASE UpdateDriveStatus
    <2>1. /\ fpga' = Present(fpga, InsertedDisks)
          /\ UNCHANGED <<df, file, card, menu, amiga, exp, seen>>
        BY <1>5 DEF UpdateDriveStatus, PresentNow
    <2>2. InsertedDisks \in SUBSET Drives
        BY DEF InsertedDisks
    <2>3. /\ fpga'.present = InsertedDisks
          /\ fpga'.change = fpga.change \cup (Drives \ InsertedDisks)
        BY <1>1, <2>1, <2>2, PresentEffect
    <2>4. InsertedDisks' = InsertedDisks
        BY <2>1 DEF InsertedDisks, DSK_INSERTED
    <2> QED
        BY <2>1, <2>3, <2>4 DEF ChangeInv, ChangeSeen, DSK_INSERTED
  <1>6. CASE UiElse
    <2>1. UNCHANGED <<fpga, df, file, card, menu, amiga, exp, seen>> /\ Goto("poll")
        BY <1>6 DEF UiElse
    <2>2. arm'.pc = "poll"
        BY <1>1, <2>1, GotoEffect DEF Places
    <2> QED
        BY <1>3, <2>1, <2>2
  <1>7. CASE InsertFloppy
    <2>1. /\ At("ui") /\ menu.img # NoImage /\ UNCHANGED <<fpga, seen>>
          /\ Goto("poll") /\ menu' = NoPick(menu.swaps)
        BY <1>7 DEF InsertFloppy
    <2>2. arm'.pc = "poll" /\ menu'.img = NoImage
        BY <1>1, <2>1, GotoEffect DEF Places, NoPick
    <2>3. menu.drive \in Drives /\ \A d \in Drives \ {menu.drive} : df'[d] = df[d]
        BY <1>1, <1>7, InsertEffect
    <2>4. menu.drive \in fpga.change
      <3>1. menu.drive \notin fpga.present
          BY <2>1 DEF ChangeInv, InsertedDisks
      <3> QED
          BY <2>3, <3>1 DEF ChangeInv
    <2> QED
        BY <2>1, <2>2, <2>3, <2>4 DEF ChangeInv, ChangeSeen, DSK_INSERTED, At
  <1>8. ASSUME NEW e \in Drives, Eject(e)
        PROVE  ChangeInv'
    <2>1. /\ \A d \in Drives \ {e} : df'[d] = df[d]
          /\ df'[e].status = {} /\ menu'.img = NoImage /\ arm'.pc = "poll"
        BY <1>1, <1>8, EjectEffect
    <2>2. UNCHANGED <<fpga, seen>>
        BY <1>8 DEF Eject
    <2> QED
        BY <2>1, <2>2 DEF ChangeInv, ChangeSeen, DSK_INSERTED, At
  <1>9. ASSUME NEW e \in Drives, NEW img \in Images, SelectFile(e, img)
        PROVE  ChangeInv'
    <2>1. /\ ~DSK_INSERTED(e) /\ menu' = [menu EXCEPT !.drive = e, !.img = img]
          /\ Goto("poll") /\ UNCHANGED <<fpga, df, seen>>
        BY <1>9 DEF SelectFile
    <2>2. arm'.pc = "poll" /\ menu'.drive = e
        BY <1>1, <2>1, GotoEffect DEF Places, TypeInv
    <2> QED
        BY <2>1, <2>2 DEF ChangeInv, ChangeSeen, DSK_INSERTED, At
  <1>10. ASSUME NEW d \in Drives, Select(d)
         PROVE  ChangeInv'
    <2>1. /\ fpga' = [fpga EXCEPT !.sel = d]
          /\ UNCHANGED <<df, file, card, arm, menu, exp, seen>>
        BY <1>10 DEF Select
    <2>2. fpga'.present = fpga.present /\ fpga'.change = fpga.change
        BY <1>1, <2>1, SelectEffect
    <2> QED
        BY <1>3, <2>1, <2>2
  <1>11. ASSUME NEW t \in Heads, StepHeads(t)
         PROVE  ChangeInv'
    <2>1. /\ fpga' = Step(fpga, t)
          /\ seen' = [seen EXCEPT ![fpga.sel] = Held(fpga.sel)]
          /\ UNCHANGED <<df, file, card, arm, menu, exp>>
        BY <1>11 DEF StepHeads
    <2>2. /\ fpga'.present = fpga.present
          /\ fpga'.change = fpga.change \ ({fpga.sel} \cap fpga.present)
        BY <1>1, <2>1, StepEffect
    <2>3. fpga.sel \in Drives /\ seen \in [Drives -> Images \cup {NoImage}]
        BY <1>1, DriveTypes DEF TypeInv
    <2>4. seen'[fpga.sel] = Held(fpga.sel) /\ \A d \in Drives \ {fpga.sel} : seen'[d] = seen[d]
        BY <2>1, <2>3
    <2>5. \A d \in Drives : d \notin fpga'.present => d \in fpga'.change
        BY <2>2 DEF ChangeInv
    <2>6. ASSUME NEW d \in Drives, DSK_INSERTED(d), d \notin fpga'.change
          PROVE  df[d].img = seen'[d]
      <3>1. CASE d = fpga.sel
        <4>1. d \in fpga.present
            BY <2>2, <2>5, <2>6
        <4> QED
            BY <2>4, <2>6, <3>1, <4>1 DEF Held
      <3>2. CASE d # fpga.sel
        <4>1. d \notin fpga.change
            BY <2>2, <2>6, <3>2
        <4> QED
            BY <2>4, <2>6, <3>2, <4>1 DEF ChangeInv, ChangeSeen
      <3> QED
          BY <3>1, <3>2
    <2>7. ChangeSeen'
        BY <2>1, <2>6 DEF ChangeSeen, DSK_INSERTED
    <2>8. InsertedDisks' = InsertedDisks
        BY <2>1 DEF InsertedDisks, DSK_INSERTED
    <2> QED
        BY <2>1, <2>2, <2>5, <2>7, <2>8 DEF ChangeInv, DSK_INSERTED, At
  <1>12. ASSUME NEW n \in Lengths, StartRead(n)
         PROVE  ChangeInv'
    <2>1. fpga' = Enable(fpga, FALSE, n) /\ UNCHANGED <<df, file, card, arm, menu, exp, seen>>
        BY <1>12 DEF StartRead
    <2>2. fpga'.present = fpga.present /\ fpga'.change = fpga.change
      <3>1. n \in Nat /\ FALSE \in BOOLEAN
          BY FddAssumption
      <3> QED
          BY <1>1, <2>1, <3>1, EnableEffect
    <2> QED
        BY <1>3, <2>1, <2>2
  <1>13. CASE Receive
    <2>1. /\ fpga.fifo # <<>> /\ fpga' = ToMemory(fpga)
          /\ UNCHANGED <<df, file, card, arm, menu, exp, seen>>
        BY <1>13 DEF Receive
    <2>2. fpga'.present = fpga.present /\ fpga'.change = fpga.change
        BY <1>1, <2>1, ToMemoryEffect
    <2> QED
        BY <1>3, <2>1, <2>2
  <1>14. CASE StopRead
    <2>1. fpga' = Stopped(fpga) /\ UNCHANGED <<df, file, card, arm, menu, exp, seen>>
        BY <1>14 DEF StopRead
    <2>2. fpga'.present = fpga.present /\ fpga'.change = fpga.change
        BY <1>1, <2>1, StoppedEffect
    <2> QED
        BY <1>3, <2>1, <2>2
  <1>15. ASSUME NEW stream \in Streams, StartWrite(stream)
         PROVE  ChangeInv'
    <2>1. /\ fpga' = Enable(fpga, TRUE, Len(stream))
          /\ UNCHANGED <<df, file, card, arm, menu, seen>>
        BY <1>15 DEF StartWrite
    <2>2. fpga'.present = fpga.present /\ fpga'.change = fpga.change
      <3>1. Len(stream) \in Nat /\ TRUE \in BOOLEAN
          BY FddAssumption, LenProperties
      <3> QED
          BY <1>1, <2>1, <3>1, EnableEffect
    <2> QED
        BY <1>3, <2>1, <2>2
  <1>16. CASE Transmit
    <2>1. /\ amiga.left # <<>> /\ amiga.pc = "write"
          /\ fpga' = FromMemory(fpga, Head(amiga.left))
          /\ UNCHANGED <<df, file, card, arm, menu, exp, seen>>
        BY <1>16 DEF Transmit
    <2>2. Head(amiga.left) \in Pieces /\ fpga.dsklen # 0
      <3>1. amiga.left \in Seq(Pieces) /\ fpga.dsklen = Len(amiga.left)
          BY <1>1, <2>1 DEF TypeInv, Amigas, LinkInv
      <3> QED
          BY <2>1, <3>1, HeadTailProperties, EmptySeq
    <2>3. fpga'.present = fpga.present /\ fpga'.change = fpga.change
        BY <1>1, <2>1, <2>2, FromMemoryEffect
    <2> QED
        BY <1>3, <2>1, <2>3
  <1>17. CASE WriteDone
      BY <1>3, <1>17 DEF WriteDone
  <1>18. CASE UNCHANGED vars
      BY <1>3, <1>18 DEF vars
  <1> QED
      BY <1>4, <1>5, <1>6, <1>7, <1>8, <1>9, <1>10, <1>11, <1>12, <1>13, <1>14, <1>15,
         <1>16, <1>17, <1>18 DEF Next, HandleUI, Driver

-----------------------------------------------------------------------------
(* The caches and the cursor.                                              *)

(* The driver does not touch what belongs to the ARM. *)
LEMMA DriverSame ==
    ASSUME Driver
    PROVE  /\ df' = df /\ file' = file /\ card' = card /\ arm' = arm /\ menu' = menu
           /\ ~Transmit /\ ~Receive /\ ~StopRead /\ ~WriteDone => Idle
    BY DEF Driver, Select, StepHeads, StartRead, Receive, StopRead, StartWrite, Transmit,
           WriteDone

(* Which transfers go on, and which begin. *)
LEMMA DriverTransfers ==
    ASSUME BaseInv, Driver
    PROVE  /\ fpga'.state = "active" => fpga'.sel = fpga.sel /\ fpga.state = "active"
           /\ fpga'.dmaen => fpga.dmaen \/ (QuietInsert => menu.img = NoImage)
           /\ amiga'.pc = "read" =>
                /\ fpga'.sel = fpga.sel /\ fpga'.dsktrack = fpga.dsktrack
                /\ \/ amiga.pc = "read"
                   \/ RereadFirst => SelDf.track = Clip \/ SelDf.track_prev # Clip
           /\ fpga'.sel # fpga.sel =>
                (SlowSelect => arm.pc \notin {"start", "header", "data"})
PROOF
  <1>1. TypeInv /\ LinkInv /\ fpga \in Controllers
      BY DEF BaseInv, TypeInv
  <1>2. amiga.jobs \in Nat /\ amiga.left \in Seq(Pieces)
      BY <1>1 DEF TypeInv, Amigas
  <1>3. ASSUME NEW d \in Drives, Select(d)
        PROVE  /\ ~fpga'.dmaen /\ fpga'.state = "idle" /\ amiga'.pc = "rest"
               /\ SlowSelect => arm.pc \notin {"start", "header", "data"}
    <2>1. /\ Idle /\ fpga' = [fpga EXCEPT !.sel = d] /\ amiga' = Rest(amiga.jobs + 1)
          /\ SlowSelect => arm.pc \notin {"start", "header", "data"}
        BY <1>3 DEF Select
    <2>2. ~fpga.dmaen /\ fpga.state = "idle" /\ amiga.jobs + 1 \in Nat
        BY <2>1, IdleState
    <2>3. fpga'.dmaen = fpga.dmaen /\ fpga'.state = fpga.state
        BY <1>1, <2>1, SelectEffect
    <2> QED
        BY <2>1, <2>2, <2>3, RestType
  <1>4. ASSUME NEW t \in Heads, StepHeads(t)
        PROVE  /\ ~fpga'.dmaen /\ fpga'.state = "idle" /\ amiga'.pc = "rest"
               /\ fpga'.sel = fpga.sel
    <2>1. Idle /\ fpga' = Step(fpga, t) /\ amiga' = Rest(amiga.jobs + 1)
        BY <1>4 DEF StepHeads
    <2>2. ~fpga.dmaen /\ fpga.state = "idle" /\ amiga.jobs + 1 \in Nat
        BY <2>1, IdleState
    <2>3. fpga'.dmaen = fpga.dmaen /\ fpga'.state = fpga.state /\ fpga'.sel = fpga.sel
        BY <1>1, <2>1, StepEffect
    <2> QED
        BY <2>1, <2>2, <2>3, RestType
  <1>5. ASSUME NEW n \in Lengths, StartRead(n)
        PROVE  /\ fpga'.state = "idle" /\ fpga'.sel = fpga.sel
               /\ fpga'.dsktrack = fpga.dsktrack
               /\ QuietInsert => menu.img = NoImage
               /\ RereadFirst => SelDf.track = Clip \/ SelDf.track_prev # Clip
    <2>1. /\ Idle /\ fpga' = Enable(fpga, FALSE, n)
          /\ QuietInsert => menu.img = NoImage
          /\ RereadFirst => SelDf.track = Clip \/ SelDf.track_prev # Clip
        BY <1>5 DEF StartRead, SelDf, Clip
    <2>2. n \in Nat /\ FALSE \in BOOLEAN
        BY FddAssumption
    <2>3. fpga.state = "idle"
        BY <2>1, IdleState
    <2>4. /\ fpga'.state = fpga.state /\ fpga'.sel = fpga.sel
          /\ fpga'.dsktrack = fpga.dsktrack
        BY <1>1, <2>1, <2>2, EnableEffect
    <2> QED
        BY <2>1, <2>3, <2>4
  <1>6. CASE Receive
    <2>1. amiga.pc = "read" /\ fpga' = ToMemory(fpga) /\ fpga.fifo # <<>>
        BY <1>6 DEF Receive
    <2>2. /\ fpga'.sel = fpga.sel /\ fpga'.dsktrack = fpga.dsktrack
          /\ \/ fpga'.dmaen = fpga.dmaen /\ fpga'.state = fpga.state
             \/ fpga'.dmaen = FALSE /\ fpga'.state = "idle"
        BY <1>1, <2>1, ToMemoryEffect
    <2> QED
        BY <2>1, <2>2
  <1>7. CASE StopRead
    <2>1. fpga' = Stopped(fpga) /\ amiga' = Rest(amiga.jobs)
        BY <1>7 DEF StopRead
    <2>2. /\ fpga'.sel = fpga.sel /\ fpga'.dsktrack = fpga.dsktrack
          /\ fpga'.dmaen = FALSE /\ fpga'.state = "idle"
        BY <1>1, <2>1, StoppedEffect
    <2>3. amiga'.pc = "rest"
        BY <1>2, <2>1, RestType
    <2> QED
        BY <2>2, <2>3
  <1>8. ASSUME NEW stream \in Streams, StartWrite(stream)
        PROVE  /\ fpga'.state = "idle" /\ fpga'.sel = fpga.sel /\ amiga'.pc = "write"
               /\ QuietInsert => menu.img = NoImage
    <2>1. /\ Idle /\ fpga' = Enable(fpga, TRUE, Len(stream))
          /\ QuietInsert => menu.img = NoImage
          /\ amiga' = [Rest(amiga.jobs + 1) EXCEPT !.pc = "write", !.left = stream]
        BY <1>8 DEF StartWrite
    <2>2. Len(stream) \in Nat /\ TRUE \in BOOLEAN
        BY FddAssumption, LenProperties
    <2>3. fpga.state = "idle" /\ amiga.jobs + 1 \in Nat
        BY <2>1, IdleState
    <2>4. fpga'.state = fpga.state /\ fpga'.sel = fpga.sel
        BY <1>1, <2>1, <2>2, EnableEffect
    <2>5. amiga'.pc = "write"
        BY <2>1, <2>3, RestType DEF Amigas
    <2> QED
        BY <2>1, <2>3, <2>4, <2>5
  <1>9. CASE Transmit
    <2>1. /\ amiga.left # <<>> /\ amiga.pc = "write"
          /\ fpga' = FromMemory(fpga, Head(amiga.left))
          /\ amiga' = [amiga EXCEPT !.left = Tail(@)]
        BY <1>9 DEF Transmit
    <2>2. Head(amiga.left) \in Pieces /\ fpga.dsklen # 0
      <3>1. fpga.dsklen = Len(amiga.left)
          BY <1>1, <2>1 DEF LinkInv
      <3> QED
          BY <1>2, <2>1, <3>1, HeadTailProperties, EmptySeq
    <2>3. fpga'.state = fpga.state /\ fpga'.sel = fpga.sel /\ fpga'.dmaen = fpga.dmaen
        BY <1>1, <2>1, <2>2, FromMemoryEffect
    <2>4. amiga'.pc = "write"
        BY <1>1, <2>1 DEF TypeInv, Amigas
    <2> QED
        BY <2>3, <2>4
  <1>10. CASE WriteDone
    <2>1. fpga' = fpga /\ amiga' = Rest(amiga.jobs)
        BY <1>10 DEF WriteDone
    <2> QED
        BY <1>2, <2>1, RestType
  <1> QED
      BY <1>3, <1>4, <1>5, <1>6, <1>7, <1>8, <1>9, <1>10 DEF Driver

(* At first the caches are right. *)
LEMMA InitCache ==
    ASSUME Init
    PROVE  CacheStays
PROOF
  <1>1. PICK disks \in [Drives -> Images] :
           df = [d \in Drives |-> Inserted(Selected(disks[d]), disks[d])]
      BY DEF Init
  <1>2. menu.img = NoImage
      BY DEF Init, NoPick
  <1>3. ASSUME NEW d \in Drives, NEW t \in TrackNumbers
        PROVE  df[d].cache[t] = Ahead(Selected(df[d].img), t * SECTOR_COUNT).cluster
      BY <1>1, SelectedCursor, InsertedType
  <1> QED
      BY <1>2, <1>3 DEF CacheStays, PickInv, CacheInv

(* A selected file keeps the cursor to itself, and the caches stay right,  *)
(* when no request comes in between.                                       *)
LEMMA CacheStep ==
    ASSUME BaseInv, QuietInsert, CacheStays, [Next]_vars
    PROVE  CacheStays'
PROOF
  <1>1. TypeInv /\ LinkInv /\ fpga \in Controllers /\ PickInv /\ CacheInv
      BY DEF BaseInv, TypeInv, CacheStays
  <1>2. ASSUME \A d \in Drives : df'[d].img = df[d].img /\ df'[d].cache = df[d].cache
        PROVE  CacheInv'
      BY <1>1, <1>2 DEF CacheInv
  <1>3. CASE HandleFDD
    <2>1. CacheInv'
        BY <1>2, <1>3, SameDisks
    <2>2. ASSUME menu'.img # NoImage
          PROVE  ~fpga'.dmaen /\ file' = file /\ arm'.pc = "update"
      <3>1. menu' = menu
          BY <1>3, SameDisks
      <3>2. /\ arm.pc \in {"poll", "update", "ui"} /\ ~fpga.dmaen /\ fpga.state = "idle"
          BY <1>1, <2>2, <3>1 DEF PickInv, LinkInv
      <3>3. PollNothing
          BY <1>3, <3>2 DEF HandleFDD, ReadTrack, ReadTrackFrame, ReadSector, ReadRest,
             ReadEnds, WriteTrack, FindSync, FindSyncFails, GetHeader, GetData, GetFails,
             At, CMD_RDTRK, CMD_WRTRK, trackrd, trackwr
      <3>4. fpga' = Frame(fpga) /\ Goto("update") /\ file' = file
          BY <3>3 DEF PollNothing
      <3>5. arm'.pc = "update"
          BY <1>1, <3>4, GotoEffect DEF Places
      <3>6. fpga'.dmaen = fpga.dmaen
          BY <1>1, <3>4, FrameEffect
      <3> QED
          BY <3>2, <3>4, <3>5, <3>6
    <2>3. PickInv'
        BY <1>1, <1>3, <2>2, SameDisks DEF PickInv
    <2> QED
        BY <2>1, <2>3 DEF CacheStays
  <1>4. CASE UpdateDriveStatus
    <2>1. /\ fpga' = Present(fpga, InsertedDisks) /\ Goto("ui")
          /\ UNCHANGED <<df, file, card, menu, amiga, exp, seen>>
        BY <1>4 DEF UpdateDriveStatus, PresentNow
    <2>2. InsertedDisks \in SUBSET Drives
        BY DEF InsertedDisks
    <2>3. fpga'.dmaen = fpga.dmaen
        BY <1>1, <2>1, <2>2, PresentEffect
    <2>4. arm'.pc = "ui"
        BY <1>1, <2>1, GotoEffect DEF Places
    <2>5. CacheInv'
        BY <1>2, <2>1
    <2>6. PickInv'
        BY <1>1, <2>1, <2>3, <2>4 DEF PickInv
    <2> QED
        BY <2>5, <2>6 DEF CacheStays
  <1>5. CASE UiElse
    <2>1. menu'.img = NoImage /\ df' = df
        BY <1>5 DEF UiElse
    <2> QED
        BY <1>2, <2>1 DEF CacheStays, PickInv
  <1>6. CASE InsertFloppy
    <2>1. menu.img # NoImage /\ menu' = NoPick(menu.swaps)
        BY <1>6 DEF InsertFloppy
    <2>2. file = Selected(menu.img)
        BY <1>1, <2>1 DEF PickInv
    <2>3. /\ menu.drive \in Drives /\ menu.img \in Images
          /\ df'[menu.drive] = Inserted(file, menu.img)
          /\ \A d \in Drives \ {menu.drive} : df'[d] = df[d]
        BY <1>1, <1>6, InsertEffect
    <2>4. PICK m \in Drives, img \in Images : m = menu.drive /\ img = menu.img
        BY <2>3
    <2>5. /\ df'[m].img = img
          /\ \A t \in TrackNumbers :
               df'[m].cache[t] = Ahead(Selected(img), t * SECTOR_COUNT).cluster
        BY <2>2, <2>3, <2>4, SelectedCursor, InsertedType
    <2>6. CacheInv'
        BY <1>1, <2>3, <2>4, <2>5 DEF CacheInv
    <2>7. menu'.img = NoImage
        BY <2>1 DEF NoPick
    <2> QED
        BY <2>6, <2>7 DEF CacheStays, PickInv
  <1>7. ASSUME NEW e \in Drives, Eject(e)
        PROVE  CacheStays'
    <2>1. /\ \A d \in Drives \ {e} : df'[d] = df[d]
          /\ df'[e].img = df[e].img /\ df'[e].cache = df[e].cache
          /\ menu'.img = NoImage
        BY <1>1, <1>7, EjectEffect
    <2>2. \A d \in Drives : df'[d].img = df[d].img /\ df'[d].cache = df[d].cache
        BY <2>1
    <2> QED
        BY <1>2, <2>1, <2>2 DEF CacheStays, PickInv
  <1>8. ASSUME NEW e \in Drives, NEW img \in Images, SelectFile(e, img)
        PROVE  CacheStays'
    <2>1. /\ ~fpga.dmaen /\ file' = Selected(img)
          /\ menu' = [menu EXCEPT !.drive = e, !.img = img]
          /\ Goto("poll") /\ UNCHANGED <<fpga, df>>
        BY <1>8 DEF SelectFile
    <2>2. menu'.img = img
        BY <1>1, <2>1 DEF TypeInv
    <2>3. arm'.pc = "poll"
        BY <1>1, <2>1, GotoEffect DEF Places
    <2> QED
        BY <1>2, <2>1, <2>2, <2>3 DEF CacheStays, PickInv
  <1>9. CASE Driver
    <2>1. df' = df /\ file' = file /\ arm' = arm /\ menu' = menu
        BY <1>9, DriverSame
    <2>2. fpga'.dmaen => fpga.dmaen \/ menu.img = NoImage
        BY <1>9, DriverTransfers
    <2> QED
        BY <1>1, <1>2, <2>1, <2>2 DEF CacheStays, PickInv
  <1>10. CASE UNCHANGED vars
      BY <1>1, <1>2, <1>10 DEF vars, CacheStays, PickInv
  <1> QED
      BY <1>3, <1>4, <1>5, <1>6, <1>7, <1>8, <1>9, <1>10 DEF Next, HandleUI

-----------------------------------------------------------------------------
(* Where the cursor is.                                                    *)

(* The place of a sector of a track. *)
LEMMA SectorCursor ==
    ASSUME NEW img \in Images, NEW t \in TrackNumbers, NEW s \in 0 .. SECTOR_COUNT - 1
    PROVE  LET f == Ahead(Selected(img), TrackSector(t, s)) IN
           /\ f \in Cursors /\ f.sector = TrackSector(t, s)
           /\ TrackSector(t, s) \in Nat /\ TrackSector(t, s) \in ImageSectors
PROOF
  <1>1. TrackSector(t, s) \in ImageSectors
      BY TrackSectors
  <1>2. TrackSector(t, s) \in Nat
      BY <1>1 DEF ImageSectors
  <1>3. Selected(img) \in Cursors /\ Selected(img).sector = 0
      BY SelectedCursor DEF Selected
  <1>4. PICK n \in Nat : n = TrackSector(t, s)
      BY <1>2
  <1>5. Ahead(Selected(img), n) \in Cursors /\ Ahead(Selected(img), n).sector = 0 + n
      BY <1>3, AheadCursor
  <1> QED
      BY <1>1, <1>2, <1>4, <1>5

(* A cursor is what it consists of. *)
LEMMA CursorParts ==
    ASSUME NEW f \in Cursors, NEW g \in Cursors,
           f.sector = g.sector, f.cluster = g.cluster
    PROVE  f = g
    BY DEF Cursors

(* The cache leads to the start of a track. *)
LEMMA TrackStartRight ==
    ASSUME TypeInv, CacheInv, NEW d \in Drives, NEW t \in TrackNumbers, NEW f,
           f = [sector |-> t * SECTOR_COUNT, cluster |-> df[d].cache[t]]
    PROVE  f = Ahead(Selected(df[d].img), TrackSector(t, 0))
PROOF
  <1>1. df[d] \in DriveStates
      BY DEF TypeInv
  <1>2. df[d].img \in Images /\ df[d].cache[t] \in Links
      BY <1>1 DEF DriveStates
  <1>3. 0 \in 0 .. SECTOR_COUNT - 1
      BY Numbers
  <1>4. TrackSector(t, 0) = t * SECTOR_COUNT
    <2>1. t * SECTOR_COUNT \in Int
        BY Numbers DEF TrackNumbers
    <2> QED
        BY <2>1 DEF TrackSector
  <1>5. PICK g \in Cursors : /\ g = Ahead(Selected(df[d].img), TrackSector(t, 0))
                             /\ g.sector = TrackSector(t, 0)
      BY <1>2, <1>3, SectorCursor
  <1>6. TrackSector(t, 0) \in Nat
      BY <1>2, <1>3, SectorCursor
  <1>7. f \in Cursors /\ f.sector = g.sector
      BY <1>2, <1>4, <1>5, <1>6 DEF Cursors
  <1>8. f.cluster = g.cluster
    <2>1. f.cluster = df[d].cache[t]
        OBVIOUS
    <2>2. df[d].cache[t] = Ahead(Selected(df[d].img), t * SECTOR_COUNT).cluster
        BY DEF CacheInv
    <2> QED
        BY <1>4, <1>5, <2>1, <2>2
  <1> QED
      BY <1>5, <1>7, <1>8, CursorParts

(* A frame does not disturb the cursor. *)
LEMMA FrameCursor ==
    ASSUME BaseInv, CursorInv, fpga' = Frame(fpga),
           df' = df, file' = file, amiga' = amiga,
           arm' \in Arms, arm'.drive = arm.drive, arm'.sector = arm.sector,
           \/ arm'.pc = "update"
           \/ arm.pc = "start" /\ arm'.pc = "read"
           \/ arm.pc \in {"header", "data"} /\ arm'.pc = "sync"
    PROVE  CursorInv'
PROOF
  <1>1. TypeInv /\ LinkInv /\ fpga \in Controllers
      BY DEF BaseInv, TypeInv
  <1>2. fpga'.sel = fpga.sel /\ fpga'.dsktrack = fpga.dsktrack
      BY <1>1, FrameEffect
  <1>3. ResumeInv'
      BY DEF CursorInv, ResumeInv
  <1>4. Clip' = Clip /\ SelDf' = SelDf /\ ArmDf' = ArmDf
      BY <1>2 DEF Clip, SelDf, ArmDf, track
  <1>5. RereadInv'
      BY <1>4 DEF CursorInv, RereadInv
  <1>6. AtSector' <=> AtSector
      BY <1>4 DEF AtSector
  <1>7. ArmInv'
      BY <1>4, <1>6 DEF CursorInv, ArmInv
  <1>8. SelInv'
      BY <1>2 DEF CursorInv, SelInv
  <1> QED
      BY <1>3, <1>5, <1>7, <1>8 DEF CursorInv

(* The transfer that is requested goes to the Amiga, or comes from it. *)
LEMMA Requests ==
    ASSUME BaseInv
    PROVE  /\ CMD_RDTRK(fpga) => amiga.pc = "read" /\ fpga.state = "active"
           /\ CMD_WRTRK(fpga) => fpga.dmaen /\ fpga.write /\ fpga.state = "active"
PROOF
  <1>1. LinkInv
      BY DEF BaseInv
  <1> QED
      BY <1>1 DEF LinkInv, CMD_RDTRK, CMD_WRTRK, trackrd, trackwr

(* The beginning of ReadTrack(). *)
LEMMA ReadTrackCursor ==
    ASSUME BaseInv, CacheStays, CursorInv, ReadTrack
    PROVE  CursorInv'
PROOF
  <1>1. TypeInv /\ LinkInv /\ fpga \in Controllers /\ CacheInv
      BY DEF BaseInv, TypeInv, CacheStays
  <1>2. /\ Clip \in TrackNumbers /\ fpga.sel \in Drives
        /\ SelDf \in DriveStates /\ SelDf = df[fpga.sel]
      BY <1>1, DriveTypes DEF SelDf
  <1>3. fpga'.sel = fpga.sel /\ Clip' = Clip /\ SelDf' = df'[fpga.sel]
    <2>1. fpga' = Frame(fpga)
        BY DEF ReadTrack
    <2>2. fpga'.sel = fpga.sel /\ fpga'.dsktrack = fpga.dsktrack
        BY <1>1, <2>1, FrameEffect
    <2> QED
        BY <2>2 DEF Clip, SelDf, track
  <1>4. PICK b \in DriveStates : b = df'[fpga.sel]
      BY <1>1, <1>2, ReadTrackEffect
  <1>5. /\ b.img = SelDf.img /\ b.track = Clip /\ b.track_prev = Clip
        /\ b.sector_offset \in 0 .. SECTOR_COUNT - 1
        /\ file' \in Cursors /\ file'.sector = TrackSector(Clip, b.sector_offset)
        /\ file'.cluster = b.cluster_offset
        /\ arm'.pc = "start" /\ arm'.drive = fpga.sel /\ arm'.sector = b.sector_offset
        /\ \A d \in Drives \ {fpga.sel} : df'[d] = df[d]
    <2>1. b.sector_offset \in 0 .. SECTOR_COUNT - 1
        BY DEF DriveStates
    <2> QED
        BY <1>1, <1>4, <2>1, ReadTrackEffect
  <1>6. PICK g \in Cursors :
           /\ g = Ahead(Selected(b.img), TrackSector(Clip, b.sector_offset))
           /\ g.sector = TrackSector(Clip, b.sector_offset)
    <2>1. b.img \in Images
        BY DEF DriveStates
    <2> QED
        BY <1>2, <1>5, <2>1, SectorCursor
  <1>7. b.cluster_offset = g.cluster
    <2>1. CASE SelDf.track_prev = Clip
      <3>1. amiga.pc = "read"
          BY Requests DEF ReadTrack
      <3>2. SelDf.track = Clip
          BY <2>1, <3>1 DEF CursorInv, RereadInv
      <3>3. b.sector_offset = SelDf.sector_offset /\ b.cluster_offset = SelDf.cluster_offset
          BY <1>1, <1>4, <2>1, ReadTrackEffect
      <3>4. SelDf.cluster_offset =
               Ahead(Selected(SelDf.img), TrackSector(SelDf.track, SelDf.sector_offset)).cluster
          BY <1>2, <2>1, <3>2 DEF CursorInv, ResumeInv
      <3> QED
          BY <1>5, <1>6, <3>2, <3>3, <3>4
    <2>2. CASE SelDf.track_prev # Clip
      <3>1. b.sector_offset = 0 /\ b.cluster_offset = SelDf.cache[Clip]
          BY <1>1, <1>4, <2>2, ReadTrackEffect
      <3>2. PICK f : f = [sector |-> Clip * SECTOR_COUNT, cluster |-> SelDf.cache[Clip]]
          OBVIOUS
      <3>3. f = Ahead(Selected(SelDf.img), TrackSector(Clip, 0))
          BY <1>1, <1>2, <3>2, TrackStartRight
      <3>4. f = g /\ f.cluster = SelDf.cache[Clip]
          BY <1>5, <1>6, <3>1, <3>2, <3>3
      <3> QED
          BY <3>1, <3>4
    <2> QED
        BY <2>1, <2>2
  <1>8. ResumeInv'
    <2>1. ASSUME NEW d \in Drives, df'[d].track = df'[d].track_prev
          PROVE  /\ df'[d].track \in TrackNumbers
                 /\ df'[d].cluster_offset = Ahead(Selected(df'[d].img),
                      TrackSector(df'[d].track, df'[d].sector_offset)).cluster
      <3>1. CASE d = fpga.sel
          BY <1>2, <1>4, <1>5, <1>6, <1>7, <3>1
      <3>2. CASE d # fpga.sel
          BY <1>5, <2>1, <3>2 DEF CursorInv, ResumeInv
      <3> QED
          BY <3>1, <3>2
    <2> QED
        BY <2>1 DEF ResumeInv
  <1>9. ArmInv'
    <2>1. ArmDf' = b
        BY <1>4, <1>5 DEF ArmDf
    <2>2. file' = g
        BY <1>5, <1>6, <1>7, CursorParts
    <2>3. AtSector'
        BY <1>5, <1>6, <2>1, <2>2 DEF AtSector
    <2> QED
        BY <1>5, <2>1, <2>3 DEF ArmInv
  <1>10. SelInv'
      BY <1>3, <1>5 DEF SelInv
  <1>11. RereadInv'
      BY <1>3, <1>4, <1>5 DEF RereadInv
  <1> QED
      BY <1>8, <1>9, <1>10, <1>11 DEF CursorInv

(* The rest of a sector. *)
LEMMA ReadRestCursor ==
    ASSUME BaseInv, CacheStays, CursorInv, ReadRest
    PROVE  CursorInv'
PROOF
  <1>1. TypeInv /\ LinkInv /\ fpga \in Controllers /\ CacheInv
      BY DEF BaseInv, TypeInv, CacheStays
  <1>2. arm.pc = "rest"
      BY DEF ReadRest, At
  <1>3. /\ ArmDf = df[arm.drive] /\ ArmDf \in DriveStates /\ arm.drive \in Drives
        /\ ArmDf.track \in TrackNumbers /\ ArmDf.img \in Images
    <2>1. ArmDf \in DriveStates
        BY <1>1, DriveTypes DEF ArmDf
    <2>2. ArmDf.img \in Images
        BY <2>1 DEF DriveStates
    <2> QED
        BY <1>1, <1>2, <2>1, <2>2, DriveTypes DEF ArmDf, LinkInv
  <1>4. /\ fpga'.sel = fpga.sel /\ fpga'.dsktrack = fpga.dsktrack /\ fpga'.state = fpga.state
        /\ amiga' = amiga
    <2>1. PICK p \in Pieces : fpga' = Send(fpga, p)
        BY <1>1, ReadRestEffect
    <2> QED
        BY <1>1, <2>1, SendEffect DEF ReadRest
  <1>5. PICK b \in DriveStates : b = df'[arm.drive]
      BY <1>1, <1>3, ReadRestEffect
  <1>6. /\ b.img = ArmDf.img /\ b.track = ArmDf.track /\ b.track_prev = ArmDf.track_prev
        /\ b.sector_offset = arm'.sector /\ b.cluster_offset = file'.cluster
        /\ file' \in Cursors
        /\ arm'.pc = "read" /\ arm'.drive = arm.drive
        /\ arm'.sector # 0 => arm'.sector = arm.sector + 1
        /\ \A d \in Drives \ {arm.drive} : df'[d] = df[d]
      BY <1>1, <1>5, ReadRestEffect
  <1>7. ArmDf.track = ArmDf.track_prev /\ AtSector
      BY <1>2 DEF CursorInv, ArmInv
  <1>8. arm.sector \in 0 .. SECTOR_COUNT - 1 /\ b.sector_offset \in 0 .. SECTOR_COUNT - 1
      BY <1>1, DriveTypes DEF DriveStates
  <1>9. file' = Ahead(Selected(b.img), TrackSector(b.track, arm'.sector))
    <2>1. CASE arm'.sector = 0
      <3>1. file' = TrackStart(ArmDf)
          BY <1>1, <2>1, ReadRestEffect
      <3>2. PICK t \in TrackNumbers : t = ArmDf.track
          BY <1>3
      <3>3. file' = [sector |-> t * SECTOR_COUNT, cluster |-> df[arm.drive].cache[t]]
          BY <1>3, <3>1, <3>2 DEF TrackStart
      <3>4. file' = Ahead(Selected(df[arm.drive].img), TrackSector(t, 0))
          BY <1>1, <1>3, <3>3, TrackStartRight
      <3> QED
          BY <1>3, <1>6, <2>1, <3>2, <3>4
    <2>2. CASE arm'.sector # 0
      <3>1. file' = FileNextSector(file)
          BY <1>1, <2>2, ReadRestEffect
      <3>2. PICK n \in Nat : n = TrackSector(ArmDf.track, arm.sector)
          BY <1>3, <1>8, SectorCursor
      <3>3. file = Ahead(Selected(ArmDf.img), n)
          BY <1>7, <3>2 DEF AtSector
      <3>4. Ahead(Selected(ArmDf.img), n + 1) = FileNextSector(file)
          BY <1>3, <3>3, SelectedCursor, AheadStep
      <3>5. n + 1 = TrackSector(ArmDf.track, arm'.sector)
        <4>1. arm'.sector = arm.sector + 1
            BY <1>6, <2>2
        <4>2. ArmDf.track * SECTOR_COUNT \in Int
            BY <1>3, Numbers DEF TrackNumbers
        <4> QED
            BY <1>8, <3>2, <4>1, <4>2 DEF TrackSector
      <3> QED
          BY <1>6, <3>1, <3>4, <3>5
    <2> QED
        BY <2>1, <2>2
  <1>10. ResumeInv'
    <2>1. ASSUME NEW d \in Drives, df'[d].track = df'[d].track_prev
          PROVE  /\ df'[d].track \in TrackNumbers
                 /\ df'[d].cluster_offset = Ahead(Selected(df'[d].img),
                      TrackSector(df'[d].track, df'[d].sector_offset)).cluster
      <3>1. CASE d = arm.drive
          BY <1>3, <1>5, <1>6, <1>9, <3>1
      <3>2. CASE d # arm.drive
          BY <1>6, <2>1, <3>2 DEF CursorInv, ResumeInv
      <3> QED
          BY <3>1, <3>2
    <2> QED
        BY <2>1 DEF ResumeInv
  <1>11. ArmInv'
    <2>1. ArmDf' = b
        BY <1>5, <1>6 DEF ArmDf
    <2>2. AtSector'
        BY <1>9, <2>1 DEF AtSector
    <2> QED
        BY <1>6, <1>7, <2>1, <2>2 DEF ArmInv
  <1>12. SelInv'
      BY <1>2, <1>4, <1>6 DEF CursorInv, SelInv
  <1>13. RereadInv'
    <2>1. /\ df'[fpga.sel].track = df[fpga.sel].track
          /\ df'[fpga.sel].track_prev = df[fpga.sel].track_prev
      <3>1. fpga.sel \in Drives
          BY <1>1, DriveTypes
      <3> QED
          BY <1>3, <1>5, <1>6, <3>1
    <2>2. Clip' = Clip
        BY <1>4 DEF Clip, track
    <2> QED
        BY <1>4, <2>1, <2>2 DEF CursorInv, RereadInv, SelDf
  <1> QED
      BY <1>10, <1>11, <1>12, <1>13 DEF CursorInv

(* The beginning of WriteTrack(). *)
LEMMA WriteTrackCursor ==
    ASSUME BaseInv, CacheStays, CursorInv, WriteTrack
    PROVE  CursorInv'
PROOF
  <1>1. TypeInv /\ LinkInv /\ fpga \in Controllers /\ CacheInv
      BY DEF BaseInv, TypeInv, CacheStays
  <1>2. fpga'.sel = fpga.sel /\ fpga.sel \in Drives
    <2>1. fpga' = Frame(fpga)
        BY DEF WriteTrack
    <2> QED
        BY <1>1, <2>1, FrameEffect, DriveTypes
  <1>3. PICK b \in DriveStates : b = df'[fpga.sel]
      BY <1>1, <1>2, WriteTrackEffect
  <1>4. /\ b.img = df[fpga.sel].img /\ b.track = track(fpga)
        /\ b.track_prev = track(fpga) + 1 /\ track(fpga) \in Nat
        /\ arm'.pc = "sync" /\ arm'.drive = fpga.sel /\ arm'.sector = 0
        /\ \A d \in Drives \ {fpga.sel} : df'[d] = df[d]
      BY <1>1, <1>3, WriteTrackEffect, DriveTypes DEF SelDf
  <1>5. ResumeInv'
    <2>1. ASSUME NEW d \in Drives, df'[d].track = df'[d].track_prev
          PROVE  /\ df'[d].track \in TrackNumbers
                 /\ df'[d].cluster_offset = Ahead(Selected(df'[d].img),
                      TrackSector(df'[d].track, df'[d].sector_offset)).cluster
      <3>1. d # fpga.sel
          BY <1>3, <1>4, <2>1
      <3> QED
          BY <1>4, <2>1, <3>1 DEF CursorInv, ResumeInv
    <2> QED
        BY <2>1 DEF ResumeInv
  <1>6. ArmInv'
    <2>1. ArmDf' = b
        BY <1>3, <1>4 DEF ArmDf
    <2>2. ASSUME b.track \in TrackNumbers
          PROVE  AtSector'
      <3>1. PICK t \in TrackNumbers : t = b.track
          BY <2>2
      <3>2. file' = [sector |-> t * SECTOR_COUNT, cluster |-> df[fpga.sel].cache[t]]
          BY <1>1, <1>4, <3>1, WriteTrackEffect DEF SelDf
      <3>3. file' = Ahead(Selected(df[fpga.sel].img), TrackSector(t, 0))
          BY <1>1, <1>2, <3>2, TrackStartRight
      <3> QED
          BY <1>4, <2>1, <3>1, <3>3 DEF AtSector
    <2> QED
        BY <1>4, <2>1, <2>2 DEF ArmInv
  <1>7. SelInv'
      BY <1>2, <1>4 DEF SelInv
  <1>8. RereadInv'
    <2>1. amiga' = amiga /\ fpga.dmaen /\ fpga.write
        BY Requests DEF WriteTrack
    <2> QED
        BY <1>1, <2>1 DEF RereadInv, LinkInv
  <1> QED
      BY <1>5, <1>6, <1>7, <1>8 DEF CursorInv

(* What is fetched does not disturb the cursor. *)
LEMMA FetchCursor ==
    ASSUME BaseInv, CursorInv, NEW n \in 0 .. Len(fpga.fifo), fpga' = Fetch(fpga, n),
           df' = df, amiga' = amiga, arm' \in Arms, arm'.drive = arm.drive,
           arm'.pc \in {"sync", "header", "data"}, arm.drive = fpga.sel,
           arm'.pc = "data" => ArmDf.track \in TrackNumbers,
           ArmDf.track \in TrackNumbers => AtSector'
    PROVE  CursorInv'
PROOF
  <1>1. TypeInv /\ LinkInv /\ fpga \in Controllers
      BY DEF BaseInv, TypeInv
  <1>2. fpga'.sel = fpga.sel /\ fpga'.dsktrack = fpga.dsktrack
      BY <1>1, FetchEffect
  <1>3. Clip' = Clip /\ SelDf' = SelDf /\ ArmDf' = ArmDf
      BY <1>2 DEF Clip, SelDf, ArmDf, track
  <1>4. ResumeInv' /\ RereadInv'
      BY <1>3 DEF CursorInv, ResumeInv, RereadInv
  <1>5. ArmInv'
      BY <1>3 DEF ArmInv
  <1>6. SelInv'
      BY <1>2 DEF SelInv
  <1> QED
      BY <1>4, <1>5, <1>6 DEF CursorInv

(* GetHeader() moves the cursor to the sector of a good header. *)
LEMMA SoughtRight ==
    ASSUME BaseInv, CacheStays, CursorInv, arm.pc = "header",
           ArmDf.track \in TrackNumbers, NEW s \in 0 .. SECTOR_COUNT - 1
    PROVE  Sought(ArmDf, s) = Ahead(Selected(ArmDf.img), TrackSector(ArmDf.track, s))
PROOF
  <1>1. TypeInv /\ CacheInv /\ AtSector
      BY DEF BaseInv, CacheStays, CursorInv, ArmInv
  <1>2. PICK t \in TrackNumbers : t = ArmDf.track
      OBVIOUS
  <1>3. PICK a \in 0 .. SECTOR_COUNT - 1 : a = arm.sector
      BY <1>1, DriveTypes
  <1>4. PICK d \in Drives : d = arm.drive
      BY <1>1, DriveTypes
  <1>5. PICK img \in Images : img = ArmDf.img /\ img = df[d].img
    <2>1. ArmDf \in DriveStates
        BY <1>1, DriveTypes DEF ArmDf
    <2> QED
        BY <1>4, <2>1 DEF DriveStates, ArmDf
  <1>6. Selected(img) \in Cursors
      BY SelectedCursor
  <1>7. 0 \in 0 .. SECTOR_COUNT - 1 /\ t * SECTOR_COUNT \in Int
      BY Numbers DEF TrackNumbers
  <1>8. CASE a <= s
    <2>1. Sought(ArmDf, s) = Ahead(file, s - a)
        BY <1>3, <1>8 DEF Sought
    <2>2. file = Ahead(Selected(img), TrackSector(t, a))
        BY <1>1, <1>2, <1>3, <1>5 DEF AtSector
    <2>3. PICK m \in Nat : m = TrackSector(t, a)
        BY SectorCursor
    <2>4. PICK n \in Nat : n = s - a
        BY <1>8, Numbers
    <2>5. Ahead(Ahead(Selected(img), m), n) = Ahead(Selected(img), m + n)
        BY <1>6, AheadTwice
    <2>6. m + n = TrackSector(t, s)
        BY <1>7, <2>3, <2>4, Numbers DEF TrackSector
    <2> QED
        BY <1>2, <1>5, <2>1, <2>2, <2>3, <2>4, <2>5, <2>6
  <1>9. CASE ~(a <= s)
    <2>1. Sought(ArmDf, s) = Ahead(TrackStart(ArmDf), s)
        BY <1>3, <1>9 DEF Sought
    <2>2. PICK f : f = TrackStart(ArmDf)
        OBVIOUS
    <2>3. f = [sector |-> t * SECTOR_COUNT, cluster |-> df[d].cache[t]]
        BY <1>2, <1>4, <2>2 DEF TrackStart, ArmDf
    <2>4. f = Ahead(Selected(img), TrackSector(t, 0))
        BY <1>1, <1>5, <2>3, TrackStartRight
    <2>5. PICK m \in Nat : m = TrackSector(t, 0)
        BY <1>7, SectorCursor
    <2>6. PICK n \in Nat : n = s
        BY Numbers
    <2>7. Ahead(Ahead(Selected(img), m), n) = Ahead(Selected(img), m + n)
        BY <1>6, AheadTwice
    <2>8. m + n = TrackSector(t, s)
        BY <1>7, <2>5, <2>6, Numbers DEF TrackSector
    <2> QED
        BY <1>2, <1>5, <2>1, <2>2, <2>4, <2>5, <2>6, <2>7, <2>8
  <1> QED
      BY <1>8, <1>9

(* HandleFDD(). *)
LEMMA HandleFDDCursor ==
    ASSUME BaseInv, CacheStays, CursorInv, HandleFDD
    PROVE  CursorInv'
PROOF
  <1>1. TypeInv /\ LinkInv /\ fpga \in Controllers /\ CacheInv
      BY DEF BaseInv, TypeInv, CacheStays
  <1>2. CASE PollNothing
    <2>1. /\ fpga' = Frame(fpga) /\ Goto("update")
          /\ UNCHANGED <<df, file, card, menu, amiga, exp, seen>>
        BY <1>2 DEF PollNothing
    <2> QED
        BY <1>1, <2>1, GotoEffect, FrameCursor DEF Places
  <1>3. CASE ReadTrack
      BY <1>3, ReadTrackCursor
  <1>4. CASE ReadTrackFrame
    <2>1. /\ fpga' = Frame(fpga) /\ Goto("read") /\ arm.pc = "start"
          /\ UNCHANGED <<df, file, card, menu, amiga, exp, seen>>
        BY <1>4 DEF ReadTrackFrame, At
    <2> QED
        BY <1>1, <2>1, GotoEffect, FrameCursor DEF Places
  <1>5. CASE ReadSector
    <2>1. PICK p \in Pieces : fpga' = Send(fpga, p)
        BY <1>1, <1>5, ReadSectorEffect
    <2>2. /\ fpga'.sel = fpga.sel /\ fpga'.dsktrack = fpga.dsktrack
          /\ fpga'.state = fpga.state
        BY <1>1, <2>1, SendEffect
    <2>3. arm.pc = "read" /\ df' = df /\ file' = file /\ amiga' = amiga
        BY <1>5 DEF ReadSector, At
    <2>4. arm'.pc = "rest" /\ arm'.drive = arm.drive /\ arm'.sector = arm.sector
        BY <1>1, <1>5, ReadSectorEffect
    <2>5. ResumeInv'
        BY <2>3 DEF CursorInv, ResumeInv
    <2>6. Clip' = Clip /\ SelDf' = SelDf /\ ArmDf' = ArmDf
        BY <2>2, <2>3, <2>4 DEF Clip, SelDf, ArmDf, track
    <2>7. AtSector' <=> AtSector
        BY <2>3, <2>4, <2>6 DEF AtSector
    <2>8. ArmInv'
        BY <2>3, <2>4, <2>6, <2>7 DEF CursorInv, ArmInv
    <2>9. SelInv' /\ RereadInv'
        BY <2>2, <2>3, <2>4, <2>6 DEF CursorInv, SelInv, RereadInv
    <2> QED
        BY <2>5, <2>8, <2>9 DEF CursorInv
  <1>6. CASE ReadRest
      BY <1>6, ReadRestCursor
  <1>7. CASE ReadEnds
    <2>1. /\ fpga' = Frame(fpga) /\ Goto("update")
          /\ UNCHANGED <<df, file, card, menu, amiga, exp, seen>>
        BY <1>7 DEF ReadEnds
    <2> QED
        BY <1>1, <2>1, GotoEffect, FrameCursor DEF Places
  <1>8. CASE WriteTrack
      BY <1>8, WriteTrackCursor
  <1>9. CASE FindSync
    <2>1. /\ arm.pc = "sync" /\ fpga.state = "active"
          /\ df' = df /\ file' = file /\ amiga' = amiga
        BY <1>9, Requests DEF FindSync, At
    <2>2. arm.drive = fpga.sel
        BY <2>1 DEF CursorInv, SelInv
    <2>3. PICK n \in 0 .. Len(fpga.fifo) :
             /\ fpga' = Fetch(fpga, n)
             /\ arm' \in Arms /\ arm'.drive = arm.drive /\ arm'.sector = arm.sector
             /\ arm'.pc \in {"sync", "header"}
        BY <1>1, <1>9, FindSyncEffect
    <2>4. ASSUME ArmDf.track \in TrackNumbers PROVE AtSector'
      <3>1. AtSector
          BY <2>1, <2>4 DEF CursorInv, ArmInv
      <3> QED
          BY <2>1, <2>3, <3>1 DEF AtSector, ArmDf
    <2>5. arm'.pc \in {"sync", "header", "data"} /\ arm'.pc # "data"
        BY <2>3
    <2> QED
        BY <2>1, <2>2, <2>3, <2>4, <2>5, FetchCursor
  <1>10. CASE FindSyncFails
    <2>1. /\ fpga' = Frame(fpga) /\ Goto("update")
          /\ UNCHANGED <<df, file, card, menu, amiga, exp, seen>>
        BY <1>10 DEF FindSyncFails
    <2> QED
        BY <1>1, <2>1, GotoEffect, FrameCursor DEF Places
  <1>11. CASE GetHeader
    <2>1. arm.pc = "header" /\ df' = df /\ amiga' = amiga
        BY <1>11 DEF GetHeader, At
    <2>2. arm.drive = fpga.sel
        BY <2>1 DEF CursorInv, SelInv
    <2>3. /\ fpga' = Fetch(fpga, 1) /\ 1 \in 0 .. Len(fpga.fifo)
          /\ arm' \in Arms /\ arm'.drive = arm.drive
          /\ arm'.pc \in {"sync", "header", "data"}
          /\ arm'.pc = "data" => ArmDf.track \in TrackNumbers
        BY <1>1, <1>11, GetHeaderEffect
    <2>4. ASSUME ArmDf.track \in TrackNumbers PROVE AtSector'
      <3>1. ArmDf' = ArmDf
          BY <2>1, <2>3 DEF ArmDf
      <3>2. CASE arm'.pc = "data"
        <4>1. arm'.sector \in 0 .. SECTOR_COUNT - 1 /\ file' = Sought(ArmDf, arm'.sector)
            BY <1>1, <1>11, <3>2, GetHeaderEffect
        <4>2. file' = Ahead(Selected(ArmDf.img), TrackSector(ArmDf.track, arm'.sector))
            BY <2>1, <2>4, <4>1, SoughtRight
        <4> QED
            BY <3>1, <4>2 DEF AtSector
      <3>3. CASE arm'.pc # "data"
        <4>1. arm'.sector = arm.sector /\ file' = file
            BY <1>1, <1>11, <3>3, GetHeaderEffect
        <4>2. AtSector
            BY <2>1, <2>4 DEF CursorInv, ArmInv
        <4> QED
            BY <3>1, <4>1, <4>2 DEF AtSector
      <3> QED
          BY <3>2, <3>3
    <2> QED
        BY <2>1, <2>2, <2>3, <2>4, FetchCursor
  <1>12. CASE GetData
    <2>1. arm.pc = "data" /\ df' = df /\ file' = file /\ amiga' = amiga
        BY <1>12 DEF GetData, At
    <2>2. arm.drive = fpga.sel
        BY <2>1 DEF CursorInv, SelInv
    <2>3. /\ fpga' = Fetch(fpga, 1) /\ 1 \in 0 .. Len(fpga.fifo)
          /\ arm' \in Arms /\ arm'.drive = arm.drive /\ arm'.sector = arm.sector
          /\ arm'.pc = "sync"
        BY <1>1, <1>12, GetDataEffect
    <2>4. ASSUME ArmDf.track \in TrackNumbers PROVE AtSector'
      <3>1. AtSector
          BY <2>1, <2>4 DEF CursorInv, ArmInv
      <3> QED
          BY <2>1, <2>3, <3>1 DEF AtSector, ArmDf
    <2>5. arm'.pc \in {"sync", "header", "data"} /\ arm'.pc # "data"
        BY <2>3
    <2> QED
        BY <2>1, <2>2, <2>3, <2>4, <2>5, FetchCursor
  <1>13. CASE GetFails
    <2>1. /\ fpga' = Frame(fpga) /\ Goto("sync") /\ arm.pc \in {"header", "data"}
          /\ UNCHANGED <<df, file, card, menu, amiga, exp, seen>>
        BY <1>13 DEF GetFails
    <2> QED
        BY <1>1, <2>1, GotoEffect, FrameCursor DEF Places
  <1> QED
      BY <1>2, <1>3, <1>4, <1>5, <1>6, <1>7, <1>8, <1>9, <1>10, <1>11, <1>12, <1>13
      DEF HandleFDD

(* At first. *)
LEMMA InitCursor ==
    ASSUME Init
    PROVE  CursorInv
PROOF
  <1>1. PICK disks \in [Drives -> Images] :
           df = [d \in Drives |-> Inserted(Selected(disks[d]), disks[d])]
      BY DEF Init
  <1>2. ASSUME NEW d \in Drives
        PROVE  df[d].track = 0 /\ df[d].track_prev = -1
      BY <1>1, SelectedCursor, InsertedType
  <1>3. arm.pc = "poll" /\ amiga.pc = "rest"
      BY DEF Init, NoCall, Rest
  <1> QED
      BY <1>2, <1>3 DEF CursorInv, ResumeInv, ArmInv, SelInv, RereadInv

(* Every step: the rest of the round, and the driver, which selects and    *)
(* reads as the bounds allow. *)
LEMMA CursorStep ==
    ASSUME BaseInv, QuietInsert, SlowSelect, RereadFirst, CacheStays, CursorInv,
           [Next]_vars
    PROVE  CursorInv'
PROOF
  <1>1. TypeInv /\ LinkInv /\ fpga \in Controllers /\ PickInv
      BY DEF BaseInv, TypeInv, CacheStays
  <1>2. ASSUME arm'.pc \in {"poll", "ui"},
               fpga'.sel = fpga.sel, fpga'.dsktrack = fpga.dsktrack,
               amiga'.pc = amiga.pc,
               \A d \in Drives : \/ amiga.pc # "read" /\ df'[d].track # df'[d].track_prev
                                 \/ /\ df'[d].img = df[d].img
                                    /\ df'[d].track = df[d].track
                                    /\ df'[d].track_prev = df[d].track_prev
                                    /\ df'[d].sector_offset = df[d].sector_offset
                                    /\ df'[d].cluster_offset = df[d].cluster_offset
        PROVE  CursorInv'
    <2>1. ResumeInv'
      <3>1. ASSUME NEW d \in Drives, df'[d].track = df'[d].track_prev
            PROVE  /\ df'[d].track \in TrackNumbers
                   /\ df'[d].cluster_offset = Ahead(Selected(df'[d].img),
                        TrackSector(df'[d].track, df'[d].sector_offset)).cluster
          BY <1>2, <3>1 DEF CursorInv, ResumeInv
      <3> QED
          BY <3>1 DEF ResumeInv
    <2>2. ArmInv' /\ SelInv'
        BY <1>2 DEF ArmInv, SelInv
    <2>3. Clip' = Clip
        BY <1>2 DEF Clip, track
    <2>4. RereadInv'
      <3>1. fpga.sel \in Drives
          BY <1>1, DriveTypes
      <3> QED
          BY <1>2, <2>3, <3>1 DEF CursorInv, RereadInv, SelDf
    <2> QED
        BY <2>1, <2>2, <2>4 DEF CursorInv
  <1>3. CASE HandleFDD
      BY <1>3, HandleFDDCursor
  <1>4. CASE UpdateDriveStatus
    <2>1. /\ fpga' = Present(fpga, InsertedDisks) /\ Goto("ui")
          /\ UNCHANGED <<df, file, card, menu, amiga, exp, seen>>
        BY <1>4 DEF UpdateDriveStatus, PresentNow
    <2>2. InsertedDisks \in SUBSET Drives
        BY DEF InsertedDisks
    <2>3. fpga'.sel = fpga.sel /\ fpga'.dsktrack = fpga.dsktrack
        BY <1>1, <2>1, <2>2, PresentEffect
    <2>4. arm'.pc = "ui"
        BY <1>1, <2>1, GotoEffect DEF Places
    <2> QED
        BY <1>2, <2>1, <2>3, <2>4
  <1>5. CASE UiElse
    <2>1. arm'.pc = "poll"
        BY <1>1, <1>5, GotoEffect DEF UiElse, Places
    <2> QED
        BY <1>2, <1>5, <2>1 DEF UiElse
  <1>6. CASE InsertFloppy
    <2>1. menu.img # NoImage /\ Goto("poll") /\ fpga' = fpga
        BY <1>6 DEF InsertFloppy
    <2>2. amiga.pc # "read"
        BY <1>1, <2>1 DEF PickInv, LinkInv
    <2>3. /\ menu.drive \in Drives /\ menu.img \in Images
          /\ df'[menu.drive] = Inserted(file, menu.img)
          /\ \A d \in Drives \ {menu.drive} : df'[d] = df[d]
        BY <1>1, <1>6, InsertEffect
    <2>4. df'[menu.drive].track = 0 /\ df'[menu.drive].track_prev = -1
      <3>1. file \in Cursors
          BY <1>1 DEF TypeInv
      <3> QED
          BY <2>3, <3>1, InsertedType
    <2>5. arm'.pc = "poll"
        BY <1>1, <2>1, GotoEffect DEF Places
    <2>6. amiga'.pc = amiga.pc
        BY <1>1, <1>6 DEF InsertFloppy, TypeInv, Amigas
    <2>7. ASSUME NEW d \in Drives
          PROVE  df'[d].track # df'[d].track_prev \/ df'[d] = df[d]
        BY <2>3, <2>4
    <2> QED
        BY <1>2, <2>1, <2>2, <2>5, <2>6, <2>7
  <1>7. ASSUME NEW e \in Drives, Eject(e)
        PROVE  CursorInv'
    <2>1. /\ \A d \in Drives \ {e} : df'[d] = df[d]
          /\ df'[e].img = df[e].img
          /\ df'[e].track = df[e].track /\ df'[e].track_prev = df[e].track_prev
          /\ df'[e].sector_offset = df[e].sector_offset
          /\ df'[e].cluster_offset = df[e].cluster_offset
          /\ amiga'.pc = amiga.pc /\ arm'.pc = "poll"
        BY <1>1, <1>7, EjectEffect
    <2>2. fpga' = fpga
        BY <1>7 DEF Eject
    <2> QED
        BY <1>2, <2>1, <2>2
  <1>8. ASSUME NEW e \in Drives, NEW img \in Images, SelectFile(e, img)
        PROVE  CursorInv'
    <2>1. Goto("poll") /\ fpga' = fpga /\ df' = df /\ amiga' = amiga
        BY <1>8 DEF SelectFile
    <2>2. arm'.pc = "poll"
        BY <1>1, <2>1, GotoEffect DEF Places
    <2> QED
        BY <1>2, <2>1, <2>2
  <1>9. CASE Driver
    <2>1. df' = df /\ file' = file /\ arm' = arm
        BY <1>9, DriverSame
    <2>2. ResumeInv' /\ ArmInv'
        BY <2>1 DEF CursorInv, ResumeInv, ArmInv, ArmDf, AtSector
    <2>3. SelInv'
        BY <1>9, <2>1, DriverTransfers DEF CursorInv, SelInv
    <2>4. RereadInv'
      <3>1. ASSUME amiga'.pc = "read"
            PROVE  SelDf.track = Clip \/ SelDf.track_prev # Clip
          BY <1>9, <3>1, DriverTransfers DEF CursorInv, RereadInv
      <3>2. ASSUME amiga'.pc = "read"
            PROVE  SelDf' = SelDf /\ Clip' = Clip
          BY <1>9, <2>1, <3>2, DriverTransfers DEF SelDf, Clip, track
      <3> QED
          BY <3>1, <3>2 DEF RereadInv
    <2> QED
        BY <2>2, <2>3, <2>4 DEF CursorInv
  <1>10. CASE UNCHANGED vars
      BY <1>10 DEF vars, CursorInv, ResumeInv, ArmInv, SelInv, RereadInv, ArmDf,
         AtSector, SelDf, Clip
  <1> QED
      BY <1>3, <1>4, <1>5, <1>6, <1>7, <1>8, <1>9, <1>10 DEF Next, HandleUI

-----------------------------------------------------------------------------
(* What the Amiga writes.                                                  *)

(* What is left of a write, when pieces of it have been fetched. *)
LEMMA DropRem ==
    ASSUME NEW fifo \in Seq(Pieces), NEW left \in Seq(Pieces), NEW n \in 0 .. Len(fifo)
    PROVE  LET R == fifo \o left
               Q == SubSeq(fifo, n + 1, Len(fifo)) \o left
           IN
           /\ R \in Seq(Pieces) /\ Q \in Seq(Pieces)
           /\ Len(R) \in Nat /\ Len(Q) \in Nat /\ n \in Nat
           /\ Len(R) = n + Len(Q)
           /\ \A i \in 1 .. Len(Q) : Q[i] = R[n + i]
           /\ n <= Len(fifo) /\ Len(fifo) <= Len(R)
           /\ \A i \in 1 .. Len(fifo) : R[i] = fifo[i]
PROOF
  <1>0. PICK R, Q : R = fifo \o left /\ Q = SubSeq(fifo, n + 1, Len(fifo)) \o left
      OBVIOUS
  <1>1. PICK m \in Nat, l \in Nat : m = Len(fifo) /\ l = Len(left)
      BY LenProperties
  <1>2. n \in Nat /\ n <= m
      BY <1>1
  <1>3. PICK q : q = SubSeq(fifo, n + 1, Len(fifo))
      OBVIOUS
  <1>4. /\ q \in Seq(Pieces) /\ Len(q) = m - n
        /\ \A i \in 1 .. m - n : q[i] = fifo[n + i]
      BY <1>1, <1>3, Shorter
  <1>5. /\ R \in Seq(Pieces) /\ Len(R) = m + l
        /\ \A i \in 1 .. m + l : R[i] = IF i <= m THEN fifo[i] ELSE left[i - m]
      BY <1>0, <1>1, ConcatProperties
  <1>6. Q = q \o left
      BY <1>0, <1>3
  <1>7. /\ Q \in Seq(Pieces) /\ Len(Q) = (m - n) + l
        /\ \A i \in 1 .. (m - n) + l : Q[i] = IF i <= m - n THEN q[i] ELSE left[i - (m - n)]
    <2>1. PICK k \in Nat : k = m - n
      <3>1. m - n \in Nat
          BY <1>1, <1>2
      <3> QED
          BY <3>1
    <2>2. Len(q) = k /\ q \in Seq(Pieces) /\ Len(left) = l
        BY <1>1, <1>4, <2>1
    <2>3. /\ Q \in Seq(Pieces) /\ Len(Q) = k + l
          /\ \A i \in 1 .. k + l : Q[i] = IF i <= k THEN q[i] ELSE left[i - k]
      <3>1. /\ q \o left \in Seq(Pieces)
            /\ Len(q \o left) = Len(q) + Len(left)
            /\ \A i \in 1 .. Len(q) + Len(left) : (q \o left)[i] =
                  IF i <= Len(q) THEN q[i] ELSE left[i - Len(q)]
          BY <2>2, ConcatProperties
      <3> QED
          BY <1>6, <2>2, <3>1
    <2> QED
        BY <2>1, <2>3
  <1>8. ASSUME NEW i \in 1 .. (m - n) + l
        PROVE  Q[i] = R[n + i]
    <2>1. n + i \in 1 .. m + l
        BY <1>1, <1>2
    <2>2. CASE i <= m - n
      <3>1. i \in 1 .. m - n /\ n + i <= m
          BY <1>1, <1>2, <2>2
      <3> QED
          BY <1>4, <1>5, <1>7, <2>1, <2>2, <3>1
    <2>3. CASE ~(i <= m - n)
      <3>1. ~(n + i <= m) /\ i - (m - n) = (n + i) - m
          BY <1>1, <1>2, <2>3
      <3> QED
          BY <1>5, <1>7, <2>1, <2>3, <3>1
    <2> QED
        BY <2>2, <2>3
  <1>9. ASSUME NEW i \in 1 .. m
        PROVE  R[i] = fifo[i]
    <2>1. i \in 1 .. m + l /\ i <= m
        BY <1>1
    <2> QED
        BY <1>5, <2>1
  <1>10. (m - n) + l \in Nat /\ m + l = n + ((m - n) + l) /\ m <= m + l
      BY <1>1, <1>2
  <1>11. Len(R) \in Nat /\ Len(Q) \in Nat /\ Len(R) = n + Len(Q)
      BY <1>5, <1>7, <1>10
  <1>12. n <= Len(fifo) /\ Len(fifo) <= Len(R)
      BY <1>1, <1>2, <1>5, <1>10
  <1>13. \A i \in 1 .. Len(Q) : Q[i] = R[n + i]
      BY <1>7, <1>8
  <1>14. \A i \in 1 .. Len(fifo) : R[i] = fifo[i]
      BY <1>1, <1>9
  <1>15. R \in Seq(Pieces) /\ Q \in Seq(Pieces) /\ n \in Nat
      BY <1>2, <1>5, <1>7
  <1> QED
      BY <1>0, <1>11, <1>12, <1>13, <1>14, <1>15

(* A piece that enters the FIFO is still to come. *)
LEMMA SameRem ==
    ASSUME NEW fifo \in Seq(Pieces), NEW left \in Seq(Pieces), left # <<>>
    PROVE  Append(fifo, Head(left)) \o Tail(left) = fifo \o left
PROOF
  <1>1. PICK m \in Nat, l \in Nat : m = Len(fifo) /\ l = Len(left)
      BY LenProperties
  <1>2. l > 0
      BY <1>1, EmptySeq
  <1>3. /\ Head(left) \in Pieces /\ Head(left) = left[1]
        /\ Tail(left) \in Seq(Pieces) /\ Len(Tail(left)) = l - 1
        /\ \A i \in 1 .. l - 1 : Tail(left)[i] = left[i + 1]
    <2>1. /\ Head(left) \in Pieces /\ Tail(left) \in Seq(Pieces)
          /\ Len(Tail(left)) = l - 1
        BY <1>1, HeadTailProperties
    <2>2. Head(left) = left[1]
        OBVIOUS
    <2>3. \A i \in 1 .. l - 1 : Tail(left)[i] = left[i + 1]
        BY <1>1, HeadTailProperties
    <2> QED
        BY <2>1, <2>2, <2>3
  <1>4. PICK a : a = Append(fifo, Head(left))
      OBVIOUS
  <1>5. /\ a \in Seq(Pieces) /\ Len(a) = m + 1 /\ a[m + 1] = left[1]
        /\ \A i \in 1 .. m : a[i] = fifo[i]
      BY <1>1, <1>3, <1>4, AppendProperties
  <1>6. PICK b : b = Tail(left)
      OBVIOUS
  <1>7. PICK R : R = fifo \o left
      OBVIOUS
  <1>8. /\ R \in Seq(Pieces) /\ Len(R) = m + l
        /\ \A i \in 1 .. m + l : R[i] = IF i <= m THEN fifo[i] ELSE left[i - m]
      BY <1>1, <1>7, ConcatProperties
  <1>9. PICK Q : Q = a \o b
      OBVIOUS
  <1>10. /\ Q \in Seq(Pieces) /\ Len(Q) = m + l
         /\ \A i \in 1 .. m + l : Q[i] = IF i <= m + 1 THEN a[i] ELSE b[i - (m + 1)]
    <2>1. PICK j \in Nat, k \in Nat : j = m + 1 /\ k = l - 1 /\ j + k = m + l
      <3>1. m + 1 \in Nat /\ l - 1 \in Nat /\ (m + 1) + (l - 1) = m + l
          BY <1>1, <1>2
      <3> QED
          BY <3>1
    <2>2. Len(a) = j /\ Len(b) = k /\ a \in Seq(Pieces) /\ b \in Seq(Pieces)
        BY <1>3, <1>5, <1>6, <2>1
    <2>3. /\ Q \in Seq(Pieces) /\ Len(Q) = j + k
          /\ \A i \in 1 .. j + k : Q[i] = IF i <= j THEN a[i] ELSE b[i - j]
        BY <1>9, <2>2, ConcatProperties
    <2> QED
        BY <2>1, <2>3
  <1>11. ASSUME NEW i \in 1 .. m + l
         PROVE  Q[i] = R[i]
    <2>1. CASE i <= m
      <3>1. i \in 1 .. m /\ i <= m + 1
          BY <1>1, <2>1
      <3> QED
          BY <1>5, <1>8, <1>10, <2>1, <3>1
    <2>2. CASE i = m + 1
      <3>1. i <= m + 1 /\ ~(i <= m) /\ i - m = 1
          BY <1>1, <2>2
      <3> QED
          BY <1>5, <1>8, <1>10, <2>2, <3>1
    <2>3. CASE i > m + 1
      <3>1. /\ i - (m + 1) \in 1 .. l - 1 /\ (i - (m + 1)) + 1 = i - m
            /\ ~(i <= m) /\ ~(i <= m + 1)
          BY <1>1, <2>3
      <3>2. Q[i] = b[i - (m + 1)] /\ R[i] = left[i - m]
          BY <1>8, <1>10, <3>1
      <3> QED
          BY <1>3, <1>6, <3>1, <3>2
    <2> QED
        BY <1>1, <2>1, <2>2, <2>3
  <1>12. Q = R
      BY <1>8, <1>10, <1>11, SeqEqual
  <1> QED
      BY <1>4, <1>6, <1>7, <1>9, <1>12

(* Pieces that change nothing are passed over. *)
LEMMA WillLater ==
    ASSUME NEW R, NEW Q, NEW n \in Nat, Len(Q) \in Nat, Len(R) = n + Len(Q),
           \A i \in 1 .. Len(Q) : Q[i] = R[n + i],
           NEW t, NEW w, NEW v, NEW s, NEW old, NEW new,
           \A i \in 1 .. n : ~Hit(R, i, t, w, s),
           1 \in 1 .. Len(Q) => (Hit(Q, 1, t, v, s) <=> Hit(R, n + 1, t, w, s)),
           Will(R, t, w, s, old, new)
    PROVE  Will(Q, t, v, s, old, new)
PROOF
  <1>1. PICK q \in Nat : q = Len(Q) /\ Len(R) = n + q
      OBVIOUS
  <1>2. ASSUME NEW i \in 1 .. q
        PROVE  Hit(Q, i, t, v, s) <=> Hit(R, n + i, t, w, s)
    <2>1. CASE i = 1
        BY <1>1, <2>1
    <2>2. CASE i # 1
      <3>1. /\ i - 1 \in 1 .. q /\ n + i # 1 /\ n + (i - 1) = (n + i) - 1
          BY <1>1, <2>2
      <3>2. Q[i] = R[n + i] /\ Q[i - 1] = R[(n + i) - 1]
          BY <1>1, <3>1
      <3> QED
          BY <2>2, <3>1, <3>2 DEF Hit
    <2> QED
        BY <2>1, <2>2
  <1>3. ASSUME \A i \in 1 .. q : ~Hit(Q, i, t, v, s)
        PROVE  new = old
    <2>1. ASSUME NEW i \in 1 .. n + q
          PROVE  ~Hit(R, i, t, w, s)
      <3>1. CASE i <= n
        <4>1. i \in 1 .. n
            BY <3>1
        <4> QED
            BY <4>1
      <3>2. CASE i > n
        <4>1. i - n \in 1 .. q /\ n + (i - n) = i
            BY <3>2
        <4> QED
            BY <1>2, <1>3, <4>1
      <3> QED
          BY <3>1, <3>2
    <2> QED
        BY <1>1, <2>1 DEF Will
  <1>4. ASSUME NEW i \in 1 .. q, Hit(Q, i, t, v, s),
               \A j \in i + 1 .. q : ~Hit(Q, j, t, v, s)
        PROVE  new = Q[i].val
    <2>1. n + i \in 1 .. n + q /\ Hit(R, n + i, t, w, s)
        BY <1>2, <1>4
    <2>2. ASSUME NEW j \in (n + i) + 1 .. n + q
          PROVE  ~Hit(R, j, t, w, s)
      <3>1. j - n \in i + 1 .. q /\ j - n \in 1 .. q /\ n + (j - n) = j
          OBVIOUS
      <3> QED
          BY <1>2, <1>4, <3>1
    <2>3. new = R[n + i].val
        BY <1>1, <2>1, <2>2 DEF Will
    <2> QED
        BY <1>1, <2>3
  <1> QED
      BY <1>1, <1>3, <1>4 DEF Will

(* A piece that changes a sector has done so, *)
LEMMA WillNow ==
    ASSUME NEW R, NEW Q, Len(Q) \in Nat, Len(R) = 1 + Len(Q),
           \A i \in 1 .. Len(Q) : Q[i] = R[1 + i],
           NEW t, NEW w, NEW v, NEW s, NEW old, NEW new,
           Hit(R, 1, t, w, s), v # s, Will(R, t, w, s, old, new)
    PROVE  Will(Q, t, v, s, R[1].val, new)
PROOF
  <1>1. PICK q \in Nat : q = Len(Q) /\ Len(R) = 1 + q
      OBVIOUS
  <1>2. ASSUME NEW i \in 1 .. q
        PROVE  Hit(Q, i, t, v, s) <=> Hit(R, 1 + i, t, w, s)
    <2>1. CASE i = 1
      <3>1. R[1].kind = "data" /\ ~Hit(Q, 1, t, v, s)
          BY DEF Hit
      <3>2. 1 + i # 1 /\ (1 + i) - 1 = 1
          BY <2>1
      <3>3. ~Hit(R, 1 + i, t, w, s)
          BY <3>1, <3>2 DEF Hit
      <3> QED
          BY <2>1, <3>1, <3>3
    <2>2. CASE i # 1
      <3>1. /\ i - 1 \in 1 .. q /\ 1 + i # 1 /\ 1 + (i - 1) = (1 + i) - 1
          BY <1>1, <2>2
      <3>2. Q[i] = R[1 + i] /\ Q[i - 1] = R[(1 + i) - 1]
          BY <1>1, <3>1
      <3> QED
          BY <2>2, <3>1, <3>2 DEF Hit
    <2> QED
        BY <2>1, <2>2
  <1>3. ASSUME \A i \in 1 .. q : ~Hit(Q, i, t, v, s)
        PROVE  new = R[1].val
    <2>1. ASSUME NEW j \in 1 + 1 .. 1 + q
          PROVE  ~Hit(R, j, t, w, s)
      <3>1. j - 1 \in 1 .. q /\ 1 + (j - 1) = j
          OBVIOUS
      <3> QED
          BY <1>2, <1>3, <3>1
    <2>2. 1 \in 1 .. 1 + q
        OBVIOUS
    <2> QED
        BY <1>1, <2>1, <2>2 DEF Will
  <1>4. ASSUME NEW i \in 1 .. q, Hit(Q, i, t, v, s),
               \A j \in i + 1 .. q : ~Hit(Q, j, t, v, s)
        PROVE  new = Q[i].val
    <2>1. 1 + i \in 1 .. 1 + q /\ Hit(R, 1 + i, t, w, s)
        BY <1>2, <1>4
    <2>2. ASSUME NEW j \in (1 + i) + 1 .. 1 + q
          PROVE  ~Hit(R, j, t, w, s)
      <3>1. j - 1 \in i + 1 .. q /\ j - 1 \in 1 .. q /\ 1 + (j - 1) = j
          OBVIOUS
      <3> QED
          BY <1>2, <1>4, <3>1
    <2>3. new = R[1 + i].val
        BY <1>1, <2>1, <2>2 DEF Will
    <2> QED
        BY <1>1, <2>3
  <1> QED
      BY <1>1, <1>3, <1>4 DEF Will

(* and nothing changes any more when nothing is left. *)
LEMMA WillOver ==
    ASSUME NEW R, Len(R) = 0, NEW t, NEW w, NEW s, NEW old, NEW new,
           Will(R, t, w, s, old, new)
    PROVE  new = old
PROOF
  <1>1. \A i \in 1 .. Len(R) : FALSE
      OBVIOUS
  <1> QED
      BY <1>1 DEF Will

(* What a write will make of a sector of the image in the selected drive,  *)
(* and what is on the card of every other. *)
SectorInv(R, w, img, s, c) ==
    IF img = SelDf.img /\ "writable" \in SelDf.status
    THEN Will(R, track(fpga), w, s, c[Place(img, s)], exp[img][s])
    ELSE c[Place(img, s)] = exp[img][s]

(* How far the ARM is in what is left of a write. *)
ParsePart(R, pc) ==
    /\ Well(R)
    /\ R # <<>> =>
         /\ R[1].kind = "header" => pc = "header"
         /\ pc \in {"header", "data"} => R[1].kind # "sync"

(* The invariant, while a write is going on and while none is. *)
LEMMA WriteParts ==
    /\ Writing =>
         /\ WriteInv <=>
              /\ \A img \in Images, s \in ImageSectors : SectorInv(Rem, Pending, img, s, card)
              /\ ParseInv
         /\ fpga.state = "active" =>
              (ParseInv <=> /\ ParsePart(Rem, arm.pc)
                            /\ arm.pc \in {"header", "data"} => ArmDf.track = track(fpga))
    /\ ~Writing =>
         (WriteInv <=> \A img \in Images, s \in ImageSectors :
                          card[Place(img, s)] = exp[img][s])
PROOF
  <1>1. ASSUME Writing
        PROVE  WriteInv <=>
              /\ \A img \in Images, s \in ImageSectors : SectorInv(Rem, Pending, img, s, card)
              /\ ParseInv
      BY <1>1 DEF WriteInv, CardInv, SectorInv
  <1>2. ASSUME Writing, fpga.state = "active"
        PROVE  ParseInv <=> /\ ParsePart(Rem, arm.pc)
                            /\ arm.pc \in {"header", "data"} => ArmDf.track = track(fpga)
      BY <1>2 DEF ParseInv, ParsePart
  <1>3. ASSUME ~Writing
        PROVE  WriteInv <=> \A img \in Images, s \in ImageSectors :
                               card[Place(img, s)] = exp[img][s]
      BY <1>3 DEF WriteInv, CardInv, ParseInv
  <1> QED
      BY <1>1, <1>2, <1>3

(* Nothing is being written. *)
LEMMA NoWrite ==
    ASSUME WriteInv, ~Writing, ~Writing', card' = card, exp' = exp
    PROVE  WriteInv'
PROOF
  <1>1. \A img \in Images, s \in ImageSectors : card[Place(img, s)] = exp[img][s]
      BY WriteParts
  <1> QED
      BY <1>1 DEF WriteInv, CardInv, ParseInv

(* The ARM does something else while a write goes on. *)
LEMMA QuietWrite ==
    ASSUME TypeInv, WriteInv, Writing, Writing', card' = card, exp' = exp, Rem' = Rem,
           fpga'.sel = fpga.sel, track(fpga)' = track(fpga),
           \A d \in Drives : df'[d].img = df[d].img /\ df'[d].status = df[d].status,
           ~(fpga.state = "active" /\ arm.pc \in {"header", "data"}),
           ~(fpga'.state = "active" /\ arm'.pc \in {"header", "data"})
    PROVE  WriteInv'
PROOF
  <1>1. Pending = -1 /\ Pending' = -1
      BY DEF Pending
  <1>2. SelDf'.img = SelDf.img /\ SelDf'.status = SelDf.status
    <2>1. fpga.sel \in Drives
        BY DriveTypes
    <2> QED
        BY <2>1 DEF SelDf
  <1>3. CardInv'
      BY <1>1, <1>2 DEF WriteInv, CardInv
  <1>4. ParseInv'
      BY DEF WriteInv, ParseInv
  <1> QED
      BY <1>3, <1>4 DEF WriteInv

(* A frame. *)
LEMMA FrameWrite ==
    ASSUME BaseInv, WriteInv, fpga' = Frame(fpga), amiga' = amiga, card' = card, exp' = exp,
           \A d \in Drives : df'[d].img = df[d].img /\ df'[d].status = df[d].status,
           arm'.pc \notin {"header", "data"},
           CMD_WRTRK(fpga) => arm.pc \notin {"header", "data"}
    PROVE  WriteInv'
PROOF
  <1>1. TypeInv /\ fpga \in Controllers
      BY DEF BaseInv, TypeInv
  <1>2. /\ fpga'.sel = fpga.sel /\ fpga'.dsktrack = fpga.dsktrack
        /\ fpga'.dmaen = fpga.dmaen /\ fpga'.write = fpga.write /\ fpga'.fifo = fpga.fifo
      BY <1>1, FrameEffect
  <1>3. CASE Writing
    <2>1. Writing' /\ Rem' = Rem /\ track(fpga)' = track(fpga)
        BY <1>2, <1>3 DEF Writing, Rem, track
    <2>2. ~(fpga.state = "active" /\ arm.pc \in {"header", "data"})
        BY <1>3 DEF CMD_WRTRK, trackwr, Writing
    <2> QED
        BY <1>1, <1>2, <1>3, <2>1, <2>2, QuietWrite
  <1>4. CASE ~Writing
    <2>1. ~Writing'
        BY <1>2, <1>4 DEF Writing
    <2> QED
        BY <1>4, <2>1, NoWrite
  <1> QED
      BY <1>3, <1>4

(* Pieces are fetched. *)
LEMMA FetchWrite ==
    ASSUME BaseInv, WriteInv, CMD_WRTRK(fpga), amiga' = amiga, exp' = exp, df' = df,
           NEW n \in 0 .. Len(fpga.fifo), fpga' = Fetch(fpga, n),
           arm'.drive = arm.drive,
           NEW Q, Q = SubSeq(fpga.fifo, n + 1, Len(fpga.fifo)) \o amiga.left,
           NEW w, w = IF arm'.pc = "data" THEN TrackSector(track(fpga), arm'.sector) ELSE -1,
           \A img \in Images, s \in ImageSectors : SectorInv(Q, w, img, s, card'),
           ParsePart(Q, arm'.pc),
           arm'.pc \in {"header", "data"} => ArmDf.track = track(fpga)
    PROVE  WriteInv'
PROOF
  <1>1. TypeInv /\ LinkInv /\ fpga \in Controllers /\ amiga \in Amigas
      BY DEF BaseInv, TypeInv
  <1>2. fpga.dmaen /\ fpga.write /\ fpga.state = "active"
      BY Requests
  <1>3. /\ fpga'.sel = fpga.sel /\ fpga'.dsktrack = fpga.dsktrack
        /\ fpga'.write = fpga.write
        /\ fpga'.fifo = SubSeq(fpga.fifo, n + 1, Len(fpga.fifo))
      BY <1>1, FetchEffect
  <1>4. Rem' = Q /\ track(fpga') = track(fpga) /\ SelDf' = SelDf /\ ArmDf' = ArmDf
      BY <1>3 DEF Rem, track, SelDf, ArmDf
  <1>5. CASE fpga.dsklen = 0 /\ fpga'.fifo = <<>>
    <2>1. ~Writing'
        BY <1>1, <1>2, <1>3, <1>5, FetchEffect DEF Writing
    <2>2. amiga.left = <<>>
      <3>1. Len(amiga.left) = 0 /\ amiga.left \in Seq(Pieces)
          BY <1>1, <1>2, <1>5 DEF LinkInv, Amigas
      <3> QED
          BY <3>1, EmptySeq
    <2>3. Len(Q) = 0
      <3>1. Q = <<>> \o <<>>
          BY <1>3, <1>5, <2>2
      <3>2. Q = <<>>
        <4>1. <<>> \in Seq(Pieces)
            BY EmptySeq
        <4> QED
            BY <3>1, <4>1, ConcatEmptySeq
      <3> QED
          BY <3>2, EmptySeq
    <2>4. ASSUME NEW img \in Images, NEW s \in ImageSectors
          PROVE  card'[Place(img, s)] = exp[img][s]
      <3>1. SectorInv(Q, w, img, s, card')
          OBVIOUS
      <3> QED
          BY <2>3, <3>1, WillOver DEF SectorInv
    <2> QED
        BY <2>1, <2>4 DEF WriteInv, CardInv, ParseInv
  <1>6. CASE ~(fpga.dsklen = 0 /\ fpga'.fifo = <<>>)
    <2>1. fpga'.dmaen = fpga.dmaen /\ fpga'.state = fpga.state
        BY <1>1, <1>3, <1>6, FetchEffect
    <2>2. Writing'
        BY <1>2, <1>3, <2>1 DEF Writing
    <2>3. Pending' = w
        BY <1>2, <1>4, <2>1 DEF Pending
    <2>4. CardInv'
      <3>1. ASSUME NEW img \in Images, NEW s \in ImageSectors
            PROVE  IF Writing' /\ img = SelDf'.img /\ "writable" \in SelDf'.status
                   THEN Will(Rem', track(fpga'), Pending', s, card'[Place(img, s)], exp'[img][s])
                   ELSE card'[Place(img, s)] = exp'[img][s]
        <4>1. SectorInv(Q, w, img, s, card')
            OBVIOUS
        <4> QED
            BY <1>4, <2>2, <2>3, <4>1 DEF SectorInv
      <3> QED
          BY <3>1 DEF CardInv
    <2>5. ParseInv'
        BY <1>2, <1>4, <2>1 DEF ParseInv, ParsePart
    <2> QED
        BY <2>4, <2>5 DEF WriteInv
  <1> QED
      BY <1>5, <1>6

(* What a stream may be made of stays so when pieces of it are gone. *)
LEMMA WellLater ==
    ASSUME NEW R, NEW Q, NEW n \in Nat, Len(Q) \in Nat, Len(R) = n + Len(Q),
           \A i \in 1 .. Len(Q) : Q[i] = R[n + i], Well(R)
    PROVE  Well(Q)
PROOF
  <1>1. ASSUME NEW i \in 2 .. Len(Q)
        PROVE  /\ n + i \in 2 .. Len(R) /\ Q[i] = R[n + i]
               /\ Q[i - 1] = R[(n + i) - 1]
    <2>1. /\ i - 1 \in 1 .. Len(Q) /\ i \in 1 .. Len(Q) /\ n + (i - 1) = (n + i) - 1
        BY <1>1
    <2> QED
        BY <1>1, <2>1
  <1>2. ASSUME NEW i \in 2 .. Len(Q)
        PROVE  /\ Q[i].kind = "header" => Q[i - 1].kind = "sync"
               /\ Q[i].kind = "sync" => Q[i - 1].kind \notin {"sync", "header"}
    <2>1. PICK k \in 2 .. Len(R) : k = n + i
        BY <1>1
    <2>2. Q[i] = R[k] /\ Q[i - 1] = R[k - 1]
        BY <1>1, <2>1
    <2>3. /\ R[k].kind = "header" => R[k - 1].kind = "sync"
          /\ R[k].kind = "sync" => R[k - 1].kind \notin {"sync", "header"}
        BY <2>1 DEF Well
    <2> QED
        BY <2>2, <2>3
  <1> QED
      BY <1>2 DEF Well

(* What is known when pieces are fetched. *)
LEMMA Fetching ==
    ASSUME BaseInv, WriteInv, CMD_WRTRK(fpga), NEW n \in 0 .. Len(fpga.fifo), NEW Q,
           Q = SubSeq(fpga.fifo, n + 1, Len(fpga.fifo)) \o amiga.left
    PROVE  /\ Len(Q) \in Nat /\ n \in Nat /\ Len(Rem) = n + Len(Q)
           /\ \A i \in 1 .. Len(Q) : Q[i] = Rem[n + i]
           /\ \A i \in 1 .. Len(fpga.fifo) : i \in 1 .. Len(Rem) /\ Rem[i] = fpga.fifo[i]
           /\ n > 0 => Rem # <<>>
           /\ Q # <<>> => Len(Q) > 0 /\ Q[1] = Rem[n + 1] /\ n + 1 \in 1 .. Len(Rem)
           /\ \A img \in Images, s \in ImageSectors : SectorInv(Rem, Pending, img, s, card)
           /\ ParsePart(Rem, arm.pc) /\ Well(Rem) /\ Well(Q)
           /\ arm.pc \in {"header", "data"} => ArmDf.track = track(fpga)
PROOF
  <1>1. /\ TypeInv /\ fpga.fifo \in Seq(Pieces) /\ amiga.left \in Seq(Pieces)
      BY DEF BaseInv, TypeInv, Controllers, Amigas
  <1>2. Writing /\ fpga.state = "active"
      BY Requests DEF Writing
  <1>3. PICK R : R = Rem
      OBVIOUS
  <1>4. /\ R \in Seq(Pieces) /\ Q \in Seq(Pieces)
        /\ Len(R) \in Nat /\ Len(Q) \in Nat /\ n \in Nat
        /\ Len(R) = n + Len(Q)
        /\ \A i \in 1 .. Len(Q) : Q[i] = R[n + i]
        /\ n <= Len(fpga.fifo) /\ Len(fpga.fifo) <= Len(R)
        /\ \A i \in 1 .. Len(fpga.fifo) : R[i] = fpga.fifo[i]
    <2>1. PICK fifo \in Seq(Pieces), left \in Seq(Pieces) :
             fifo = fpga.fifo /\ left = amiga.left
        BY <1>1
    <2>2. n \in 0 .. Len(fifo) /\ R = fifo \o left
        BY <1>3, <2>1 DEF Rem
    <2>3. Q = SubSeq(fifo, n + 1, Len(fifo)) \o left
        BY <2>1
    <2>4. LET r == fifo \o left
              q == SubSeq(fifo, n + 1, Len(fifo)) \o left
          IN  /\ r \in Seq(Pieces) /\ q \in Seq(Pieces)
              /\ Len(r) \in Nat /\ Len(q) \in Nat /\ n \in Nat
              /\ Len(r) = n + Len(q)
              /\ \A i \in 1 .. Len(q) : q[i] = r[n + i]
              /\ n <= Len(fifo) /\ Len(fifo) <= Len(r)
              /\ \A i \in 1 .. Len(fifo) : r[i] = fifo[i]
        BY <2>1, <2>2, DropRem
    <2> QED
        BY <2>1, <2>2, <2>3, <2>4
  <1>5. /\ \A img \in Images, s \in ImageSectors : SectorInv(Rem, Pending, img, s, card)
        /\ ParsePart(Rem, arm.pc)
        /\ arm.pc \in {"header", "data"} => ArmDf.track = track(fpga)
      BY <1>2, WriteParts
  <1>6. Well(R) /\ Well(Q)
    <2>1. Well(R)
        BY <1>3, <1>5 DEF ParsePart
    <2> QED
        BY <1>4, <2>1, WellLater
  <1>7. ASSUME Q # <<>>
        PROVE  Len(Q) > 0 /\ Q[1] = R[n + 1] /\ n + 1 \in 1 .. Len(R)
    <2>1. PICK q \in Nat, r \in Nat : q = Len(Q) /\ r = Len(R) /\ r = n + q
        BY <1>4
    <2>2. q # 0
        BY <1>4, <1>7, <2>1, EmptySeq
    <2>3. n \in Nat
        BY <1>4
    <2>4. q > 0 /\ 1 \in 1 .. q /\ n + 1 \in 1 .. r
      <3>1. PICK k \in Nat : k = n
          BY <2>3
      <3>2. q > 0 /\ 1 \in 1 .. q /\ k + 1 \in 1 .. k + q
          BY <2>2
      <3> QED
          BY <2>1, <3>1, <3>2
    <2> QED
        BY <1>4, <2>1, <2>4
  <1>8. ASSUME n > 0 PROVE R # <<>>
    <2>1. PICK q \in Nat, r \in Nat : q = Len(Q) /\ r = Len(R) /\ r = n + q
        BY <1>4
    <2>2. n \in Nat
        BY <1>4
    <2>3. r # 0
      <3>1. PICK k \in Nat : k = n /\ k > 0
          BY <1>8, <2>2
      <3>2. k + q # 0
          BY <3>1
      <3> QED
          BY <2>1, <3>1, <3>2
    <2> QED
        BY <1>4, <2>1, <2>3, EmptySeq
  <1>9. \A i \in 1 .. Len(fpga.fifo) : i \in 1 .. Len(R)
    <2>1. PICK m \in Nat, r \in Nat : m = Len(fpga.fifo) /\ r = Len(R) /\ m <= r
      <3>1. Len(fpga.fifo) \in Nat
          BY <1>1, LenProperties
      <3> QED
          BY <1>4, <3>1
    <2> QED
        BY <2>1
  <1> QED
      BY <1>3, <1>4, <1>5, <1>6, <1>7, <1>8, <1>9

(* The sectors that the pieces before do not change. *)
LEMMA SectorLater ==
    ASSUME NEW R, NEW Q, NEW n \in Nat, Len(Q) \in Nat, Len(R) = n + Len(Q),
           \A i \in 1 .. Len(Q) : Q[i] = R[n + i],
           NEW w, NEW v, NEW img, NEW s, NEW c,
           \A i \in 1 .. n : ~Hit(R, i, track(fpga), w, s),
           1 \in 1 .. Len(Q) =>
             (Hit(Q, 1, track(fpga), v, s) <=> Hit(R, n + 1, track(fpga), w, s)),
           SectorInv(R, w, img, s, c)
    PROVE  SectorInv(Q, v, img, s, c)
PROOF
  <1>1. CASE img = SelDf.img /\ "writable" \in SelDf.status
    <2>1. Will(R, track(fpga), w, s, c[Place(img, s)], exp[img][s])
        BY <1>1 DEF SectorInv
    <2>2. Will(Q, track(fpga), v, s, c[Place(img, s)], exp[img][s])
        BY <2>1, WillLater
    <2> QED
        BY <1>1, <2>2 DEF SectorInv
  <1>2. CASE ~(img = SelDf.img /\ "writable" \in SelDf.status)
      BY <1>2 DEF SectorInv
  <1> QED
      BY <1>1, <1>2

(* FindSync(). *)
LEMMA FindSyncWrite ==
    ASSUME BaseInv, WriteInv, FindSync
    PROVE  WriteInv'
PROOF
  <1>1. /\ CMD_WRTRK(fpga) /\ track(fpga) = ArmDf.track /\ arm.pc = "sync"
        /\ UNCHANGED <<df, file, card, menu, amiga, exp, seen>>
      BY DEF FindSync, At, ArmDf
  <1>2. PICK n \in 0 .. Len(fpga.fifo) :
             /\ fpga' = Fetch(fpga, n)
             /\ arm' \in Arms /\ arm'.drive = arm.drive
             /\ \/ /\ n = Len(fpga.fifo) /\ arm'.pc = "sync"
                   /\ \A i \in 1 .. n : fpga.fifo[i].kind # "sync"
                \/ /\ n >= 1 /\ fpga.fifo[n].kind = "sync" /\ arm'.pc = "header"
                   /\ \A i \in 1 .. n - 1 : fpga.fifo[i].kind # "sync"
      BY FindSyncEffect DEF BaseInv
  <1>3. PICK Q : Q = SubSeq(fpga.fifo, n + 1, Len(fpga.fifo)) \o amiga.left
      OBVIOUS
  <1>4. PICK R : R = Rem
      OBVIOUS
  <1>5. /\ Len(Q) \in Nat /\ n \in Nat /\ Len(R) = n + Len(Q)
        /\ \A i \in 1 .. Len(Q) : Q[i] = R[n + i]
        /\ \A i \in 1 .. Len(fpga.fifo) : i \in 1 .. Len(R) /\ R[i] = fpga.fifo[i]
        /\ n > 0 => R # <<>>
        /\ Q # <<>> => Len(Q) > 0 /\ Q[1] = R[n + 1] /\ n + 1 \in 1 .. Len(R)
        /\ \A img \in Images, s \in ImageSectors : SectorInv(R, Pending, img, s, card)
        /\ ParsePart(R, arm.pc) /\ Well(R) /\ Well(Q)
      BY <1>1, <1>3, <1>4, Fetching
  <1>6. Pending = -1
      BY <1>1 DEF Pending
  \* No header is passed over.
  <1>7. ASSUME NEW i \in 1 .. n, R[i].kind = "header"
        PROVE  FALSE
    <2>1. i = 1 => R # <<>>
        BY <1>5
    <2>2. i # 1
        BY <1>1, <1>5, <1>7, <2>1 DEF ParsePart
    <2>3. i - 1 \in 1 .. n - 1 /\ i - 1 \in 1 .. n /\ n <= Len(fpga.fifo)
        BY <1>5, <2>2
    <2>4. i \in 1 .. Len(fpga.fifo) /\ i - 1 \in 1 .. Len(fpga.fifo)
        BY <1>5, <2>3
    <2>5. i \in 2 .. Len(R) /\ R[i - 1] = fpga.fifo[i - 1]
      <3>1. i \in 1 .. Len(R)
          BY <1>5, <2>4
      <3> QED
          BY <1>5, <2>2, <2>4, <3>1
    <2>6. R[i - 1].kind = "sync"
        BY <1>5, <1>7, <2>5 DEF Well
    <2> QED
        BY <1>2, <2>3, <2>5, <2>6
  <1>8. ASSUME NEW s \in ImageSectors, NEW i \in 1 .. n + 1
        PROVE  ~Hit(R, i, track(fpga), -1, s)
    <2>1. s # -1
        BY DEF ImageSectors
    <2>2. CASE i = 1
        BY <2>1, <2>2 DEF Hit
    <2>3. CASE i # 1
      <3>1. i - 1 \in 1 .. n
          BY <1>5, <2>3
      <3>2. R[i - 1].kind # "header"
          BY <1>7, <3>1
      <3> QED
          BY <2>3, <3>2 DEF Hit
    <2> QED
        BY <2>2, <2>3
  <1>9. ASSUME NEW img \in Images, NEW s \in ImageSectors
        PROVE  SectorInv(Q, -1, img, s, card)
    <2>1. SectorInv(R, -1, img, s, card)
        BY <1>5, <1>6
    <2>2. \A i \in 1 .. n : ~Hit(R, i, track(fpga), -1, s)
      <3>1. \A i \in 1 .. n : i \in 1 .. n + 1
          BY <1>5
      <3> QED
          BY <1>8, <3>1
    <2>3. ~Hit(R, n + 1, track(fpga), -1, s) /\ ~Hit(Q, 1, track(fpga), -1, s)
      <3>1. n + 1 \in 1 .. n + 1 /\ s # -1
          BY <1>5 DEF ImageSectors
      <3> QED
          BY <1>8, <3>1 DEF Hit
    <2> QED
        BY <1>5, <2>1, <2>2, <2>3, SectorLater
  <1>10. n >= 1 /\ arm'.pc = "sync" => R[n].kind # "sync"
    <2> SUFFICES ASSUME n >= 1, arm'.pc = "sync" PROVE R[n].kind # "sync"
        OBVIOUS
    <2>1. n = Len(fpga.fifo) /\ n \in 1 .. n /\ fpga.fifo[n].kind # "sync"
        BY <1>2, <1>5
    <2> QED
        BY <1>5, <2>1
  <1>11. ParsePart(Q, arm'.pc)
    <2>1. ASSUME Q # <<>>, Q[1].kind = "header"
          PROVE  arm'.pc = "header"
      <3>1. R[n + 1].kind = "header" /\ n + 1 \in 1 .. Len(R)
          BY <1>5, <2>1
      <3>2. n # 0
        <4> SUFFICES ASSUME n = 0 PROVE FALSE
            OBVIOUS
        <4>1. R[1].kind = "header" /\ Len(R) # 0
            BY <3>1
        <4>2. R # <<>>
            BY <4>1, EmptySeq
        <4> QED
            BY <1>1, <1>5, <4>1, <4>2 DEF ParsePart
      <3>3. n + 1 \in 2 .. Len(R) /\ (n + 1) - 1 = n /\ n >= 1
          BY <1>5, <3>1, <3>2
      <3>4. R[n].kind = "sync"
          BY <1>5, <3>1, <3>3 DEF Well
      <3> QED
          BY <1>2, <1>10, <3>3, <3>4
    <2>2. ASSUME Q # <<>>, arm'.pc \in {"header", "data"}
          PROVE  Q[1].kind # "sync"
      <3>1. n >= 1 /\ fpga.fifo[n].kind = "sync" /\ n \in 1 .. Len(fpga.fifo)
          BY <1>2, <1>5, <2>2
      <3>2. R[n].kind = "sync"
          BY <1>5, <3>1
      <3>3. n + 1 \in 2 .. Len(R) /\ (n + 1) - 1 = n /\ Q[1] = R[n + 1]
          BY <1>5, <2>2, <3>1
      <3> QED
          BY <1>5, <3>2, <3>3 DEF Well
    <2> QED
        BY <1>5, <2>1, <2>2 DEF ParsePart
  <1>12. PICK w : w = IF arm'.pc = "data" THEN TrackSector(track(fpga), arm'.sector) ELSE -1
      OBVIOUS
  <1>13. w = -1
      BY <1>2, <1>12
  <1>14. \A img \in Images, s \in ImageSectors : SectorInv(Q, w, img, s, card')
      BY <1>1, <1>9, <1>13
  <1> QED
      BY <1>1, <1>2, <1>3, <1>11, <1>12, <1>14, FetchWrite

(* GetHeader(). *)
LEMMA GetHeaderWrite ==
    ASSUME BaseInv, WriteInv, GetHeader
    PROVE  WriteInv'
PROOF
  <1>1. /\ CMD_WRTRK(fpga) /\ arm.pc = "header"
        /\ UNCHANGED <<df, card, menu, amiga, exp, seen>>
      BY DEF GetHeader, At
  <1>2. PICK h : h = fpga.fifo[1]
      OBVIOUS
  <1>3. /\ fpga' = Fetch(fpga, 1) /\ 1 \in 0 .. Len(fpga.fifo) /\ arm'.drive = arm.drive
        /\ \/ /\ h.kind = "header" /\ h.track = ArmDf.track
              /\ arm'.pc = "data" /\ arm'.sector = h.sector
           \/ /\ ~(h.kind = "header" /\ h.track = ArmDf.track)
              /\ arm'.pc = "sync"
      BY <1>2, GetHeaderEffect DEF BaseInv
  <1>4. PICK Q : Q = SubSeq(fpga.fifo, 1 + 1, Len(fpga.fifo)) \o amiga.left
      OBVIOUS
  <1>5. PICK R : R = Rem
      OBVIOUS
  <1>6. /\ Len(Q) \in Nat /\ Len(R) = 1 + Len(Q)
        /\ \A i \in 1 .. Len(Q) : Q[i] = R[1 + i]
        /\ \A i \in 1 .. Len(fpga.fifo) : i \in 1 .. Len(R) /\ R[i] = fpga.fifo[i]
        /\ R # <<>>
        /\ Q # <<>> => Len(Q) > 0 /\ Q[1] = R[1 + 1] /\ 1 + 1 \in 1 .. Len(R)
        /\ \A img \in Images, s \in ImageSectors : SectorInv(R, Pending, img, s, card)
        /\ ParsePart(R, arm.pc) /\ Well(R) /\ Well(Q)
        /\ ArmDf.track = track(fpga)
    <2>1. PICK n \in 0 .. Len(fpga.fifo) : n = 1
        BY <1>3
    <2>2. Q = SubSeq(fpga.fifo, n + 1, Len(fpga.fifo)) \o amiga.left /\ n > 0
        BY <1>4, <2>1
    <2>3. /\ Len(Q) \in Nat /\ Len(R) = n + Len(Q)
          /\ \A i \in 1 .. Len(Q) : Q[i] = R[n + i]
          /\ \A i \in 1 .. Len(fpga.fifo) : i \in 1 .. Len(R) /\ R[i] = fpga.fifo[i]
          /\ n > 0 => R # <<>>
          /\ Q # <<>> => Len(Q) > 0 /\ Q[1] = R[n + 1] /\ n + 1 \in 1 .. Len(R)
          /\ \A img \in Images, s \in ImageSectors : SectorInv(R, Pending, img, s, card)
          /\ ParsePart(R, arm.pc) /\ Well(R) /\ Well(Q)
          /\ ArmDf.track = track(fpga)
        BY <1>1, <1>5, <2>2, Fetching
    <2> QED
        BY <2>1, <2>2, <2>3
  <1>7. Pending = -1
      BY <1>1 DEF Pending
  <1>8. R[1] = h
    <2>1. 1 \in 1 .. Len(fpga.fifo)
        BY <1>3
    <2> QED
        BY <1>2, <1>6, <2>1
  <1>9. PICK w : w = IF arm'.pc = "data" THEN TrackSector(track(fpga), arm'.sector) ELSE -1
      OBVIOUS
  <1>10. ASSUME NEW img \in Images, NEW s \in ImageSectors
         PROVE  SectorInv(Q, w, img, s, card)
    <2>1. SectorInv(R, -1, img, s, card)
        BY <1>6, <1>7
    <2>2. s # -1
        BY DEF ImageSectors
    <2>3. ~Hit(R, 1, track(fpga), -1, s)
        BY <2>2 DEF Hit
    <2>4. \A i \in 1 .. 1 : ~Hit(R, i, track(fpga), -1, s)
        BY <2>3
    <2>5. ASSUME 1 \in 1 .. Len(Q)
          PROVE  Hit(Q, 1, track(fpga), w, s) <=> Hit(R, 1 + 1, track(fpga), -1, s)
      <3>1. Q[1] = R[1 + 1] /\ 1 + 1 # 1 /\ (1 + 1) - 1 = 1
          BY <1>6, <2>5
      <3>2. CASE h.kind = "header" /\ h.track = ArmDf.track
        <4>1. w = TrackSector(track(fpga), h.sector)
            BY <1>3, <1>9, <3>2
        <4> QED
            BY <1>6, <1>8, <3>1, <3>2, <4>1 DEF Hit
      <3>3. CASE ~(h.kind = "header" /\ h.track = ArmDf.track)
        <4>1. w = -1
            BY <1>3, <1>9, <3>3
        <4> QED
            BY <1>6, <1>8, <2>2, <3>1, <3>3, <4>1 DEF Hit
      <3> QED
          BY <3>2, <3>3
    <2> QED
        BY <1>6, <2>1, <2>4, <2>5, SectorLater
  <1>11. ParsePart(Q, arm'.pc)
    <2>1. ASSUME Q # <<>>
          PROVE  /\ Q[1].kind # "header"
                 /\ arm'.pc \in {"header", "data"} => Q[1].kind # "sync"
      <3>1. 1 + 1 \in 2 .. Len(R) /\ (1 + 1) - 1 = 1 /\ Q[1] = R[1 + 1]
          BY <1>6, <2>1
      <3>2. /\ Q[1].kind = "header" => R[1].kind = "sync"
            /\ Q[1].kind = "sync" => R[1].kind \notin {"sync", "header"}
          BY <1>6, <3>1 DEF Well
      <3>3. R[1].kind # "sync"
          BY <1>1, <1>6 DEF ParsePart
      <3>4. arm'.pc \in {"header", "data"} => R[1].kind = "header"
          BY <1>3, <1>8
      <3> QED
          BY <3>2, <3>3, <3>4
    <2> QED
        BY <1>6, <2>1 DEF ParsePart
  <1>12. \A img \in Images, s \in ImageSectors : SectorInv(Q, w, img, s, card')
      BY <1>1, <1>10
  <1> QED
      BY <1>1, <1>3, <1>4, <1>6, <1>9, <1>11, <1>12, FetchWrite

(* GetData() and FileWrite(). *)
LEMMA GetDataWrite ==
    ASSUME BaseInv, CursorInv, WriteInv, Apart, GetData
    PROVE  WriteInv'
PROOF
  <1>1. /\ TypeInv /\ CMD_WRTRK(fpga) /\ arm.pc = "data"
        /\ UNCHANGED <<df, file, menu, amiga, exp, seen>>
      BY DEF GetData, At, BaseInv
  <1>2. PICK p \in Pieces : p = fpga.fifo[1]
      BY <1>1, GetDataEffect
  <1>3. /\ fpga' = Fetch(fpga, 1) /\ 1 \in 0 .. Len(fpga.fifo) /\ arm'.drive = arm.drive
        /\ arm'.pc = "sync" /\ FileSector(file) \in DOMAIN InitCard
        /\ p.kind = "data" /\ "writable" \in ArmDf.status =>
             card' = [card EXCEPT ![FileSector(file)] = p.val]
        /\ ~(p.kind = "data" /\ "writable" \in ArmDf.status) => card' = card
      BY <1>1, <1>2, GetDataEffect
  <1>4. PICK Q : Q = SubSeq(fpga.fifo, 1 + 1, Len(fpga.fifo)) \o amiga.left
      OBVIOUS
  <1>5. PICK R : R = Rem
      OBVIOUS
  <1>6. /\ Len(Q) \in Nat /\ Len(R) = 1 + Len(Q)
        /\ \A i \in 1 .. Len(Q) : Q[i] = R[1 + i]
        /\ \A i \in 1 .. Len(fpga.fifo) : i \in 1 .. Len(R) /\ R[i] = fpga.fifo[i]
        /\ R # <<>>
        /\ Q # <<>> => Len(Q) > 0 /\ Q[1] = R[1 + 1] /\ 1 + 1 \in 1 .. Len(R)
        /\ \A img \in Images, s \in ImageSectors : SectorInv(R, Pending, img, s, card)
        /\ ParsePart(R, arm.pc) /\ Well(R) /\ Well(Q)
        /\ ArmDf.track = track(fpga)
    <2>1. PICK n \in 0 .. Len(fpga.fifo) : n = 1
        BY <1>3
    <2>2. Q = SubSeq(fpga.fifo, n + 1, Len(fpga.fifo)) \o amiga.left /\ n > 0
        BY <1>4, <2>1
    <2>3. /\ Len(Q) \in Nat /\ Len(R) = n + Len(Q)
          /\ \A i \in 1 .. Len(Q) : Q[i] = R[n + i]
          /\ \A i \in 1 .. Len(fpga.fifo) : i \in 1 .. Len(R) /\ R[i] = fpga.fifo[i]
          /\ n > 0 => R # <<>>
          /\ Q # <<>> => Len(Q) > 0 /\ Q[1] = R[n + 1] /\ n + 1 \in 1 .. Len(R)
          /\ \A img \in Images, s \in ImageSectors : SectorInv(R, Pending, img, s, card)
          /\ ParsePart(R, arm.pc) /\ Well(R) /\ Well(Q)
          /\ ArmDf.track = track(fpga)
        BY <1>1, <1>5, <2>2, Fetching
    <2> QED
        BY <2>1, <2>2, <2>3
  <1>7. R[1] = p
    <2>1. 1 \in 1 .. Len(fpga.fifo)
        BY <1>3
    <2> QED
        BY <1>2, <1>6, <2>1
  \* The sector the cursor is at.
  <1>8. SelDf = ArmDf /\ ArmDf \in DriveStates /\ ArmDf.track \in TrackNumbers /\ AtSector
    <2>1. arm.drive = fpga.sel
        BY <1>1 DEF CursorInv, SelInv
    <2>2. ArmDf.track \in TrackNumbers /\ AtSector
        BY <1>1 DEF CursorInv, ArmInv
    <2> QED
        BY <1>1, <2>1, <2>2, DriveTypes DEF SelDf, ArmDf
  <1>9. PICK j \in Images : j = SelDf.img
      BY <1>8 DEF DriveStates
  <1>10. PICK k \in ImageSectors : k = TrackSector(track(fpga), arm.sector)
    <2>1. arm.sector \in 0 .. SECTOR_COUNT - 1
        BY <1>1, DriveTypes
    <2> QED
        BY <1>6, <1>8, <2>1, TrackSectors
  <1>11. Pending = k
    <2>1. fpga.state = "active"
        BY <1>1, Requests
    <2> QED
        BY <1>1, <1>10, <2>1 DEF Pending
  <1>12. FileSector(file) = Place(j, k)
      BY <1>6, <1>8, <1>9, <1>10 DEF AtSector, Place
  <1>13. ASSUME NEW img \in Images, NEW s \in ImageSectors,
                p.kind # "data" \/ s # k
         PROVE  SectorInv(Q, -1, img, s, card)
    <2>1. SectorInv(R, k, img, s, card)
        BY <1>6, <1>11
    <2>2. s # -1
        BY DEF ImageSectors
    <2>3. ~Hit(R, 1, track(fpga), k, s)
        BY <1>7, <1>13 DEF Hit
    <2>4. \A i \in 1 .. 1 : ~Hit(R, i, track(fpga), k, s)
        BY <2>3
    <2>5. R[1].kind # "header"
        BY <1>1, <1>6 DEF ParsePart
    <2>6. ~Hit(Q, 1, track(fpga), -1, s) /\ ~Hit(R, 1 + 1, track(fpga), k, s)
      <3>1. 1 + 1 # 1 /\ (1 + 1) - 1 = 1
          OBVIOUS
      <3> QED
          BY <2>2, <2>5, <3>1 DEF Hit
    <2> QED
        BY <1>6, <2>1, <2>4, <2>6, SectorLater
  <1>14. card \in [DOMAIN InitCard -> Int]
      BY <1>1 DEF TypeInv
  <1>15. ASSUME NEW img \in Images, NEW s \in ImageSectors
         PROVE  SectorInv(Q, -1, img, s, card')
    <2>1. CASE p.kind = "data" /\ "writable" \in ArmDf.status
      <3>1. card' = [card EXCEPT ![Place(j, k)] = p.val] /\ Place(j, k) \in DOMAIN InitCard
          BY <1>3, <1>12, <2>1
      <3>2. CASE img = j /\ s = k
        <4>1. SectorInv(R, k, j, k, card)
            BY <1>6, <1>11
        <4>2. Will(R, track(fpga), k, k, card[Place(j, k)], exp[j][k])
            BY <1>8, <1>9, <2>1, <4>1 DEF SectorInv
        <4>3. Hit(R, 1, track(fpga), k, k) /\ -1 # k
            BY <1>7, <2>1 DEF Hit, ImageSectors
        <4>4. Will(Q, track(fpga), -1, k, R[1].val, exp[j][k])
            BY <1>6, <4>2, <4>3, WillNow
        <4>5. card'[Place(j, k)] = R[1].val
            BY <1>7, <1>14, <3>1
        <4> QED
            BY <1>8, <1>9, <2>1, <3>2, <4>4, <4>5 DEF SectorInv
      <3>3. CASE ~(img = j /\ s = k)
        <4>1. Place(img, s) # Place(j, k) /\ Place(img, s) \in DOMAIN InitCard
            BY <3>3, SelectedCursor DEF Apart
        <4>2. card'[Place(img, s)] = card[Place(img, s)]
            BY <1>14, <3>1, <4>1
        <4>3. CASE s # k
          <5>1. SectorInv(Q, -1, img, s, card)
              BY <1>13, <4>3
          <5> QED
              BY <4>2, <5>1 DEF SectorInv
        <4>4. CASE img # j
          <5>1. SectorInv(R, k, img, s, card)
              BY <1>6, <1>11
          <5> QED
              BY <1>9, <4>2, <4>4, <5>1 DEF SectorInv
        <4> QED
            BY <3>3, <4>3, <4>4
      <3> QED
          BY <3>2, <3>3
    <2>2. CASE ~(p.kind = "data" /\ "writable" \in ArmDf.status)
      <3>1. card' = card
          BY <1>3, <2>2
      <3>2. CASE p.kind # "data"
          BY <1>13, <3>1, <3>2
      <3>3. CASE "writable" \notin SelDf.status
        <4>1. SectorInv(R, k, img, s, card)
            BY <1>6, <1>11
        <4> QED
            BY <3>1, <3>3, <4>1 DEF SectorInv
      <3> QED
          BY <1>8, <2>2, <3>2, <3>3
    <2> QED
        BY <2>1, <2>2
  <1>16. ParsePart(Q, arm'.pc)
    <2>1. ASSUME Q # <<>>
          PROVE  Q[1].kind # "header"
      <3>1. 1 + 1 \in 2 .. Len(R) /\ (1 + 1) - 1 = 1 /\ Q[1] = R[1 + 1]
          BY <1>6, <2>1
      <3>2. Q[1].kind = "header" => R[1].kind = "sync"
          BY <1>6, <3>1 DEF Well
      <3>3. R[1].kind # "sync"
          BY <1>1, <1>6 DEF ParsePart
      <3> QED
          BY <3>2, <3>3
    <2> QED
        BY <1>3, <1>6, <2>1 DEF ParsePart
  <1>17. PICK w : w = IF arm'.pc = "data" THEN TrackSector(track(fpga), arm'.sector) ELSE -1
      OBVIOUS
  <1>18. w = -1 /\ arm'.pc \notin {"header", "data"}
      BY <1>3, <1>17
  <1>19. \A img \in Images, s \in ImageSectors : SectorInv(Q, w, img, s, card')
      BY <1>15, <1>18
  <1> QED
      BY <1>1, <1>3, <1>4, <1>16, <1>17, <1>18, <1>19, FetchWrite

(* What the Amiga is going to write is what the image becomes. *)
LEMMA EffectWill ==
    ASSUME NEW image \in [ImageSectors -> Int], NEW R \in Seq(Pieces), NEW t \in Nat,
           NEW s \in ImageSectors, Len(R) > 1 => R[1].kind # "header"
    PROVE  Will(R, t, -1, s, image[s], Effect(image, R, t)[s])
PROOF
  <1>1. PICK n \in Nat : n = Len(R)
      BY LenProperties
  <1>2. PICK hits : hits = {i \in 3 .. n : /\ R[i].kind = "data" /\ R[i - 1].kind = "header"
                                           /\ R[i - 1].track = t
                                           /\ t * SECTOR_COUNT + R[i - 1].sector = s}
      OBVIOUS
  <1>3. Effect(image, R, t)[s] = IF hits = {} THEN image[s]
                  ELSE R[CHOOSE i \in hits : \A j \in hits : j <= i].val
    <2>1. s \in DOMAIN image
        OBVIOUS
    <2> QED
        BY <1>1, <1>2, <2>1 DEF Effect
  <1>4. ASSUME NEW i \in 3 .. n
        PROVE  Hit(R, i, t, -1, s) <=> i \in hits
    <2>1. i # 1
        BY <1>4
    <2> QED
        BY <1>2, <2>1 DEF Hit, TrackSector
  <1>5. ASSUME NEW i \in 1 .. n, Hit(R, i, t, -1, s)
        PROVE  i \in hits
    <2>1. s # -1
        BY DEF ImageSectors
    <2>2. i # 1
        BY <1>5, <2>1 DEF Hit
    <2>3. i # 2
      <3> SUFFICES ASSUME i = 2 PROVE FALSE
          OBVIOUS
      <3>1. Len(R) > 1 /\ i - 1 = 1
          BY <1>1, <1>5
      <3>2. R[1].kind # "header" /\ R[1].kind = "header"
          BY <1>5, <2>2, <3>1 DEF Hit
      <3> QED
          BY <3>2
    <2>4. i \in 3 .. n
        BY <2>2, <2>3
    <2> QED
        BY <1>4, <1>5, <2>4
  <1>6. ASSUME \A i \in 1 .. n : ~Hit(R, i, t, -1, s)
        PROVE  hits = {}
    <2>1. \A i \in hits : i \in 3 .. n /\ i \in 1 .. n
        BY <1>2
    <2> QED
        BY <1>4, <1>6, <2>1
  <1>7. ASSUME NEW i \in 1 .. n, Hit(R, i, t, -1, s),
               \A j \in i + 1 .. n : ~Hit(R, j, t, -1, s)
        PROVE  (CHOOSE m \in hits : \A j \in hits : j <= m) = i /\ hits # {}
    <2>1. i \in hits
        BY <1>5, <1>7
    <2>2. ASSUME NEW j \in hits
          PROVE  j <= i
      <3>1. j \in 3 .. n /\ Hit(R, j, t, -1, s)
          BY <1>2, <1>4
      <3>2. j \notin i + 1 .. n
          BY <1>7, <3>1
      <3> QED
          BY <1>7, <3>1, <3>2
    <2>3. PICK m : m = CHOOSE c \in hits : \A j \in hits : j <= c
        OBVIOUS
    <2>4. m \in hits /\ \A j \in hits : j <= m
        BY <2>1, <2>2, <2>3
    <2>5. m <= i /\ i <= m /\ m \in Int /\ i \in Int
        BY <1>2, <2>1, <2>2, <2>4
    <2>6. m = i
        BY <2>5
    <2> QED
        BY <2>1, <2>3, <2>6
  <1>8. ASSUME \A i \in 1 .. n : ~Hit(R, i, t, -1, s)
        PROVE  Effect(image, R, t)[s] = image[s]
      BY <1>3, <1>6, <1>8
  <1>9. ASSUME NEW i \in 1 .. n, Hit(R, i, t, -1, s),
               \A j \in i + 1 .. n : ~Hit(R, j, t, -1, s)
        PROVE  Effect(image, R, t)[s] = R[i].val
      BY <1>3, <1>7, <1>9
  <1> QED
      BY <1>1, <1>8, <1>9 DEF Will

(* At first the card is as the images are. *)
LEMMA InitWrite ==
    ASSUME Init
    PROVE  WriteInv
PROOF
  <1>1. ~Writing
    <2>1. fpga = [PowerUp EXCEPT !.present = Drives, !.change = {}]
        BY DEF Init
    <2>2. fpga.dmaen = FALSE
        BY <2>1 DEF PowerUp
    <2> QED
        BY <2>2 DEF Writing
  <1>2. ASSUME NEW img \in Images, NEW s \in ImageSectors
        PROVE  card[Place(img, s)] = exp[img][s]
    <2>1. /\ card = InitCard
          /\ exp = [j \in Images |-> [k \in 0 .. Tracks * SECTOR_COUNT - 1 |->
                       InitCard[FileSector(Ahead(Selected(j), k))]]]
        BY DEF Init
    <2>2. s \in 0 .. Tracks * SECTOR_COUNT - 1
        BY DEF ImageSectors
    <2> QED
        BY <2>1, <2>2 DEF Place
  <1> QED
      BY <1>1, <1>2, WriteParts

(* A write begins. *)
LEMMA StartWriteWrite ==
    ASSUME BaseInv, WriteInv, WellWritten, NEW stream \in Streams, StartWrite(stream)
    PROVE  WriteInv'
PROOF
  <1>1. /\ Idle /\ fpga' = Enable(fpga, TRUE, Len(stream))
        /\ amiga' = [Rest(amiga.jobs + 1) EXCEPT !.pc = "write", !.left = stream]
        /\ exp' = IF "writable" \notin df[fpga.sel].status THEN exp
                  ELSE [exp EXCEPT ![df[fpga.sel].img] =
                            Effect(@, stream, track(fpga))]
        /\ UNCHANGED <<df, file, card, arm, menu, seen>>
      BY DEF StartWrite
  <1>2. TypeInv /\ fpga \in Controllers /\ stream \in Seq(Pieces)
      BY FddAssumption DEF BaseInv, TypeInv
  <1>3. /\ ~fpga.dmaen /\ fpga.state = "idle" /\ fpga.fifo = <<>> /\ amiga.jobs + 1 \in Nat
      BY <1>1, IdleState
  <1>4. /\ fpga'.sel = fpga.sel /\ fpga'.dsktrack = fpga.dsktrack /\ fpga'.dmaen /\ fpga'.write
        /\ fpga'.state = "idle" /\ fpga'.fifo = <<>>
    <2>1. Len(stream) \in Nat /\ TRUE \in BOOLEAN
        BY <1>2, LenProperties
    <2> QED
        BY <1>1, <1>2, <1>3, <2>1, EnableEffect
  <1>5. amiga'.left = stream
    <2>1. PICK r \in Amigas : r = Rest(amiga.jobs + 1)
        BY <1>3, RestType
    <2> QED
        BY <1>1, <2>1 DEF Amigas
  <1>6. Rem' = stream
      BY <1>2, <1>4, <1>5, ConcatEmptySeq DEF Rem
  <1>7. Writing' /\ Pending' = -1 /\ track(fpga') = track(fpga) /\ SelDf' = SelDf
        /\ ~Writing
      BY <1>1, <1>3, <1>4 DEF Writing, Pending, track, SelDf
  <1>8. SelDf \in DriveStates /\ SelDf.img \in Images /\ track(fpga) \in Nat
    <2>1. SelDf \in DriveStates /\ track(fpga) \in Nat
        BY <1>2, DriveTypes DEF SelDf
    <2> QED
        BY <2>1 DEF DriveStates
  <1>9. PICK t \in Nat, j \in Images : t = track(fpga) /\ j = SelDf.img
      BY <1>8
  <1>10. Len(stream) \in Nat /\ (Len(stream) > 0 => stream[1].kind # "header") /\ Well(stream)
    <2>1. Len(stream) \in Nat
        BY <1>2, LenProperties
    <2>2. ASSUME Len(stream) > 0
          PROVE  stream[1].kind # "header"
      <3>1. 1 \in 1 .. Len(stream) /\ ~(1 > 1)
          BY <2>1, <2>2
      <3> QED
          BY <3>1 DEF WellWritten
    <2>3. ASSUME NEW i \in 2 .. Len(stream)
          PROVE  /\ stream[i].kind = "header" => stream[i - 1].kind = "sync"
                 /\ stream[i].kind = "sync" => stream[i - 1].kind \notin {"sync", "header"}
      <3>1. i \in 1 .. Len(stream) /\ i > 1
          OBVIOUS
      <3> QED
          BY <3>1 DEF WellWritten
    <2> QED
        BY <2>1, <2>2, <2>3 DEF Well
  <1>11. ASSUME NEW img \in Images, NEW s \in ImageSectors
         PROVE  card[Place(img, s)] = exp[img][s]
      BY <1>7, WriteParts
  <1>12. CardInv'
    <2>1. ASSUME NEW img \in Images, NEW s \in ImageSectors
          PROVE  IF Writing' /\ img = SelDf'.img /\ "writable" \in SelDf'.status
                 THEN Will(Rem', track(fpga'), Pending', s, card'[Place(img, s)], exp'[img][s])
                 ELSE card'[Place(img, s)] = exp'[img][s]
      <3>1. exp \in [Images -> [ImageSectors -> Int]]
          BY <1>2 DEF TypeInv
      <3>2. CASE "writable" \in SelDf.status
        <4>1. exp' = [exp EXCEPT ![j] = Effect(exp[j], stream, t)]
            BY <1>1, <1>9, <3>1, <3>2 DEF SelDf
        <4>2. CASE img = j
          <5>1. PICK image \in [ImageSectors -> Int] : image = exp[j]
              BY <3>1
          <5>2. Will(stream, t, -1, s, image[s], Effect(image, stream, t)[s])
              BY <1>2, <1>10, EffectWill
          <5>3. exp'[j] = Effect(image, stream, t)
              BY <3>1, <4>1, <5>1
          <5>4. card'[Place(j, s)] = image[s]
              BY <1>1, <1>11, <4>2, <5>1
          <5> QED
              BY <1>6, <1>7, <1>9, <3>2, <4>2, <5>2, <5>3, <5>4
        <4>3. CASE img # j
          <5>1. exp'[img] = exp[img]
              BY <3>1, <4>1, <4>3
          <5> QED
              BY <1>1, <1>7, <1>9, <1>11, <4>3, <5>1
        <4> QED
            BY <4>2, <4>3
      <3>3. CASE "writable" \notin SelDf.status
        <4>1. exp' = exp
            BY <1>1, <3>3 DEF SelDf
        <4> QED
            BY <1>1, <1>7, <1>11, <3>3, <4>1
      <3> QED
          BY <3>2, <3>3
    <2> QED
        BY <2>1 DEF CardInv
  <1>13. ParseInv'
    <2>1. stream # <<>> => stream[1].kind # "header"
      <3>1. stream # <<>> => Len(stream) > 0
          BY <1>2, <1>10, EmptySeq
      <3> QED
          BY <1>10, <3>1
    <2>2. fpga'.state # "active"
        BY <1>4
    <2> QED
        BY <1>6, <1>10, <2>1, <2>2 DEF ParseInv
  <1> QED
      BY <1>12, <1>13 DEF WriteInv

(* The driver. *)
LEMMA DriverWrite ==
    ASSUME BaseInv, WriteInv, WellWritten, Driver
    PROVE  WriteInv'
PROOF
  <1>1. TypeInv /\ LinkInv /\ fpga \in Controllers /\ amiga \in Amigas
      BY DEF BaseInv, TypeInv
  <1>2. card' = card /\ df' = df /\ arm' = arm
      BY DriverSame
  <1>3. ASSUME NEW d \in Drives, Select(d)
        PROVE  ~Writing /\ ~Writing' /\ exp' = exp
    <2>1. Idle /\ fpga' = [fpga EXCEPT !.sel = d] /\ exp' = exp
        BY <1>3 DEF Select
    <2>2. ~fpga.dmaen
        BY <2>1, IdleState
    <2>3. fpga'.dmaen = fpga.dmaen
        BY <1>1, <2>1, SelectEffect
    <2> QED
        BY <2>1, <2>2, <2>3 DEF Writing
  <1>4. ASSUME NEW t \in Heads, StepHeads(t)
        PROVE  ~Writing /\ ~Writing' /\ exp' = exp
    <2>1. Idle /\ fpga' = Step(fpga, t) /\ exp' = exp
        BY <1>4 DEF StepHeads
    <2>2. ~fpga.dmaen
        BY <2>1, IdleState
    <2>3. fpga'.dmaen = fpga.dmaen
        BY <1>1, <2>1, StepEffect
    <2> QED
        BY <2>1, <2>2, <2>3 DEF Writing
  <1>5. ASSUME NEW n \in Lengths, StartRead(n)
        PROVE  ~Writing /\ ~Writing' /\ exp' = exp
    <2>1. Idle /\ fpga' = Enable(fpga, FALSE, n) /\ exp' = exp
        BY <1>5 DEF StartRead
    <2>2. ~fpga.dmaen
        BY <2>1, IdleState
    <2>3. n \in Nat /\ FALSE \in BOOLEAN
        BY FddAssumption
    <2>4. fpga'.write = FALSE
        BY <1>1, <2>1, <2>3, EnableEffect
    <2> QED
        BY <2>1, <2>2, <2>4 DEF Writing
  <1>6. CASE Receive
    <2>1. amiga.pc = "read" /\ fpga' = ToMemory(fpga) /\ fpga.fifo # <<>> /\ exp' = exp
        BY <1>6 DEF Receive
    <2>2. ~fpga.write
        BY <1>1, <2>1 DEF LinkInv
    <2>3. fpga'.write = fpga.write
        BY <1>1, <2>1, ToMemoryEffect
    <2>4. ~Writing /\ ~Writing'
        BY <2>2, <2>3 DEF Writing
    <2> QED
        BY <1>2, <2>1, <2>4, NoWrite
  <1>7. CASE StopRead
    <2>1. amiga.pc = "read" /\ fpga' = Stopped(fpga) /\ exp' = exp
        BY <1>7 DEF StopRead
    <2>2. ~fpga.write
        BY <1>1, <2>1 DEF LinkInv
    <2>3. fpga'.dmaen = FALSE
        BY <1>1, <2>1, StoppedEffect
    <2>4. ~Writing /\ ~Writing'
        BY <2>2, <2>3 DEF Writing
    <2> QED
        BY <1>2, <2>1, <2>4, NoWrite
  <1>8. ASSUME NEW stream \in Streams, StartWrite(stream)
        PROVE  WriteInv'
      BY <1>8, StartWriteWrite
  <1>9. CASE Transmit
    <2>1. /\ amiga.left # <<>> /\ amiga.pc = "write" /\ trackwr(fpga)
          /\ fpga' = FromMemory(fpga, Head(amiga.left))
          /\ amiga' = [amiga EXCEPT !.left = Tail(@)] /\ exp' = exp
        BY <1>9 DEF Transmit
    <2>2. amiga.left \in Seq(Pieces) /\ fpga.fifo \in Seq(Pieces)
        BY <1>1 DEF Amigas, Controllers
    <2>3. Head(amiga.left) \in Pieces /\ fpga.dsklen # 0
      <3>1. fpga.dsklen = Len(amiga.left)
          BY <1>1, <2>1 DEF LinkInv
      <3> QED
          BY <2>1, <2>2, <3>1, HeadTailProperties, EmptySeq
    <2>4. /\ fpga'.sel = fpga.sel /\ fpga'.dsktrack = fpga.dsktrack
          /\ fpga'.dmaen = fpga.dmaen /\ fpga'.write = fpga.write /\ fpga'.state = fpga.state
          /\ fpga'.fifo = Append(fpga.fifo, Head(amiga.left))
        BY <1>1, <2>1, <2>3, FromMemoryEffect
    <2>5. amiga'.left = Tail(amiga.left)
        BY <1>1, <2>1 DEF Amigas
    <2>6. Rem' = Rem
        BY <2>1, <2>2, <2>4, <2>5, SameRem DEF Rem
    <2>7. /\ track(fpga') = track(fpga) /\ SelDf' = SelDf /\ ArmDf' = ArmDf
          /\ Writing' = Writing
        BY <1>2, <2>4 DEF track, SelDf, ArmDf, Writing
    <2>8. Pending' = Pending
        BY <1>2, <2>4, <2>7 DEF Pending
    <2>9. CardInv'
        BY <1>2, <2>1, <2>6, <2>7, <2>8 DEF WriteInv, CardInv
    <2>10. ParseInv'
        BY <1>2, <2>4, <2>6, <2>7 DEF WriteInv, ParseInv
    <2> QED
        BY <2>9, <2>10 DEF WriteInv
  <1>10. CASE WriteDone
    <2>1. ~fpga.dmaen /\ fpga' = fpga /\ exp' = exp
        BY <1>10 DEF WriteDone
    <2>2. ~Writing /\ ~Writing'
        BY <2>1 DEF Writing
    <2> QED
        BY <1>2, <2>1, <2>2, NoWrite
  <1> QED
      BY <1>2, <1>3, <1>4, <1>5, <1>6, <1>7, <1>8, <1>9, <1>10, NoWrite DEF Driver

(* The rest of the round. *)
LEMMA CalmWrite ==
    ASSUME BaseInv, WriteInv, card' = card, exp' = exp,
           fpga'.sel = fpga.sel, fpga'.dsktrack = fpga.dsktrack, fpga'.dmaen = fpga.dmaen,
           fpga'.write = fpga.write, fpga'.fifo = fpga.fifo,
           \/ ~Writing
           \/ /\ amiga'.left = amiga.left
              /\ \A d \in Drives : df'[d].img = df[d].img /\ df'[d].status = df[d].status
              /\ arm.pc \notin {"header", "data"} /\ arm'.pc \notin {"header", "data"}
    PROVE  WriteInv'
PROOF
  <1>1. CASE ~Writing
    <2>1. ~Writing'
        BY <1>1 DEF Writing
    <2> QED
        BY <1>1, <2>1, NoWrite
  <1>2. CASE Writing
    <2>1. Writing' /\ track(fpga)' = track(fpga) /\ Rem' = Rem
        BY <1>2 DEF Writing, track, Rem
    <2> QED
        BY <1>2, <2>1, QuietWrite DEF BaseInv
  <1> QED
      BY <1>1, <1>2

(* Every step. *)
LEMMA WriteStep ==
    ASSUME BaseInv, CacheStays, CursorInv, Apart, WellWritten, WriteInv, [Next]_vars
    PROVE  WriteInv'
PROOF
  <1>1. TypeInv /\ LinkInv /\ fpga \in Controllers /\ PickInv
      BY DEF BaseInv, TypeInv, CacheStays
  <1>2. ASSUME HandleFDD
        PROVE  /\ \A d \in Drives : df'[d].img = df[d].img /\ df'[d].status = df[d].status
               /\ amiga' = amiga /\ exp' = exp
      BY <1>2, SameDisks
  <1>3. CASE PollNothing
    <2>1. fpga' = Frame(fpga) /\ card' = card /\ arm'.pc = "update" /\ arm.pc = "poll"
        BY <1>1, <1>3, GotoEffect DEF PollNothing, Places, At
    <2> QED
        BY <1>2, <1>3, <2>1, FrameWrite DEF HandleFDD
  <1>4. CASE ReadTrack
    <2>1. fpga' = Frame(fpga) /\ card' = card /\ arm'.pc = "start" /\ arm.pc = "poll"
        BY <1>1, <1>4, ReadTrackEffect DEF ReadTrack, At
    <2> QED
        BY <1>2, <1>4, <2>1, FrameWrite DEF HandleFDD
  <1>5. CASE ReadTrackFrame
    <2>1. fpga' = Frame(fpga) /\ card' = card /\ arm'.pc = "read" /\ arm.pc = "start"
        BY <1>1, <1>5, GotoEffect DEF ReadTrackFrame, Places, At
    <2> QED
        BY <1>2, <1>5, <2>1, FrameWrite DEF HandleFDD
  <1>6. ASSUME NEW p \in Pieces, fpga' = Send(fpga, p), card' = card, exp' = exp,
               amiga' = amiga, arm.pc \in {"read", "rest"}, arm'.pc \in {"read", "rest"},
               \A d \in Drives : df'[d].img = df[d].img /\ df'[d].status = df[d].status
        PROVE  WriteInv'
    <2>1. CASE trackrd(fpga)
      <3>1. ~fpga.write /\ fpga'.write = fpga.write
          BY <1>1, <1>6, <2>1, SendEffect DEF trackrd
      <3>2. ~Writing /\ ~Writing'
          BY <3>1 DEF Writing
      <3> QED
          BY <1>6, <3>2, NoWrite
    <2>2. CASE ~trackrd(fpga)
      <3>1. fpga' = fpga
          BY <1>1, <1>6, <2>2, SendEffect
      <3>2. arm.pc \notin {"header", "data"} /\ arm'.pc \notin {"header", "data"}
          BY <1>6
      <3> QED
          BY <1>6, <3>1, <3>2, CalmWrite
    <2> QED
        BY <2>1, <2>2
  <1>7. CASE ReadSector
    <2>1. PICK p \in Pieces : fpga' = Send(fpga, p) /\ arm'.pc = "rest"
        BY <1>1, <1>7, ReadSectorEffect
    <2>2. card' = card /\ arm.pc = "read"
        BY <1>7 DEF ReadSector, At
    <2> QED
        BY <1>2, <1>6, <1>7, <2>1, <2>2 DEF HandleFDD
  <1>8. CASE ReadRest
    <2>1. PICK p \in Pieces : fpga' = Send(fpga, p) /\ arm'.pc = "read"
        BY <1>1, <1>8, ReadRestEffect
    <2>2. card' = card /\ arm.pc = "rest"
        BY <1>8 DEF ReadRest, At
    <2> QED
        BY <1>2, <1>6, <1>8, <2>1, <2>2 DEF HandleFDD
  <1>9. CASE ReadEnds
    <2>1. fpga' = Frame(fpga) /\ card' = card /\ arm'.pc = "update" /\ arm.pc = "read"
        BY <1>1, <1>9, GotoEffect DEF ReadEnds, Places, At
    <2> QED
        BY <1>2, <1>9, <2>1, FrameWrite DEF HandleFDD
  <1>10. CASE WriteTrack
    <2>1. fpga' = Frame(fpga) /\ card' = card /\ arm'.pc = "sync" /\ arm.pc = "poll"
        BY <1>1, <1>10, WriteTrackEffect DEF WriteTrack, At
    <2> QED
        BY <1>2, <1>10, <2>1, FrameWrite DEF HandleFDD
  <1>11. CASE FindSync
      BY <1>11, FindSyncWrite
  <1>12. CASE FindSyncFails
    <2>1. fpga' = Frame(fpga) /\ card' = card /\ arm'.pc = "update" /\ arm.pc = "sync"
        BY <1>1, <1>12, GotoEffect DEF FindSyncFails, Places, At
    <2> QED
        BY <1>2, <1>12, <2>1, FrameWrite DEF HandleFDD
  <1>13. CASE GetHeader
      BY <1>13, GetHeaderWrite
  <1>14. CASE GetData
      BY <1>14, GetDataWrite
  <1>15. CASE GetFails
    <2>1. fpga' = Frame(fpga) /\ card' = card /\ arm'.pc = "sync" /\ ~CMD_WRTRK(fpga)
        BY <1>1, <1>15, GotoEffect DEF GetFails, Places
    <2> QED
        BY <1>2, <1>15, <2>1, FrameWrite DEF HandleFDD
  <1>16. CASE UpdateDriveStatus
    <2>1. /\ fpga' = Present(fpga, InsertedDisks) /\ Goto("ui") /\ arm.pc = "update"
          /\ UNCHANGED <<df, file, card, menu, amiga, exp, seen>>
        BY <1>16 DEF UpdateDriveStatus, PresentNow, At
    <2>2. InsertedDisks \in SUBSET Drives
        BY DEF InsertedDisks
    <2>3. /\ fpga'.sel = fpga.sel /\ fpga'.dsktrack = fpga.dsktrack
          /\ fpga'.dmaen = fpga.dmaen /\ fpga'.write = fpga.write /\ fpga'.fifo = fpga.fifo
        BY <1>1, <2>1, <2>2, PresentEffect
    <2>4. arm'.pc = "ui"
        BY <1>1, <2>1, GotoEffect DEF Places
    <2> QED
        BY <2>1, <2>3, <2>4, CalmWrite
  <1>17. CASE UiElse
    <2>1. UNCHANGED <<fpga, df, card, amiga, exp>> /\ arm.pc = "ui" /\ arm'.pc = "poll"
        BY <1>1, <1>17, GotoEffect DEF UiElse, Places, At
    <2> QED
        BY <2>1, CalmWrite
  <1>18. CASE InsertFloppy
    <2>1. UNCHANGED <<fpga, card, exp>> /\ menu.img # NoImage
        BY <1>18 DEF InsertFloppy
    <2>2. ~Writing
        BY <1>1, <2>1 DEF PickInv, Writing
    <2> QED
        BY <2>1, <2>2, CalmWrite
  <1>19. ASSUME NEW d \in Drives, Eject(d)
         PROVE  WriteInv'
    <2>1. UNCHANGED <<fpga, card, exp>> /\ ~Writing
        BY <1>19 DEF Eject, Writing
    <2> QED
        BY <2>1, CalmWrite
  <1>20. ASSUME NEW d \in Drives, NEW img \in Images, SelectFile(d, img)
         PROVE  WriteInv'
    <2>1. UNCHANGED <<fpga, df, card, amiga, exp>> /\ arm.pc = "ui" /\ arm'.pc = "poll"
        BY <1>1, <1>20, GotoEffect DEF SelectFile, Places, At
    <2> QED
        BY <2>1, CalmWrite
  <1>21. CASE Driver
      BY <1>21, DriverWrite
  <1>22. CASE UNCHANGED vars
      BY <1>22 DEF vars, WriteInv, CardInv, ParseInv, Writing, SelDf, ArmDf, Rem, Pending
  <1> QED
      BY <1>3, <1>4, <1>5, <1>7, <1>8, <1>9, <1>10, <1>11, <1>12, <1>13, <1>14, <1>15,
         <1>16, <1>17, <1>18, <1>19, <1>20, <1>21, <1>22 DEF Next, HandleFDD, HandleUI

-----------------------------------------------------------------------------
(* What the Amiga reads.                                                   *)

(* The driver and the FIFO. *)
LEMMA StreamType ==
    ASSUME TypeInv
    PROVE  /\ amiga.got \in Seq(Pieces) /\ fpga.fifo \in Seq(Pieces)
           /\ Stream \in Seq(Pieces) /\ Len(Stream) \in Nat
           /\ \A i \in 1 .. Len(Stream) : Stream[i] \in Pieces
           /\ Len(fpga.fifo) \in Nat
           /\ fpga.fifo # <<>> => Stream # <<>>
PROOF
  <1>1. amiga.got \in Seq(Pieces) /\ fpga.fifo \in Seq(Pieces)
      BY DEF TypeInv, Amigas, Controllers
  <1>2. PICK S : S = Stream
      OBVIOUS
  <1>3. S \in Seq(Pieces) /\ Len(S) = Len(amiga.got) + Len(fpga.fifo)
      BY <1>1, <1>2, ConcatProperties DEF Stream
  <1>4. Len(S) \in Nat /\ Len(amiga.got) \in Nat /\ Len(fpga.fifo) \in Nat
      BY <1>1, <1>3, LenProperties
  <1>5. \A i \in 1 .. Len(S) : S[i] \in Pieces
      BY <1>3, ElementOfSeq
  <1>6. ASSUME fpga.fifo # <<>>
        PROVE  S # <<>>
    <2>1. PICK a \in Nat, b \in Nat : a = Len(amiga.got) /\ b = Len(fpga.fifo) /\ b # 0
        BY <1>1, <1>4, <1>6, EmptySeq
    <2>2. Len(S) # 0
      <3>3. \A x, y \in Nat : y # 0 => x + y # 0
          OBVIOUS
      <3> QED
          BY <1>3, <2>1, <3>3
    <2> QED
        BY <1>3, <2>2, EmptySeq
  <1> QED
      BY <1>1, <1>2, <1>3, <1>4, <1>5, <1>6

(* A piece that is sent comes last, *)
LEMMA StreamSent ==
    ASSUME NEW got \in Seq(Pieces), NEW fifo \in Seq(Pieces), NEW p \in Pieces
    PROVE  got \o Append(fifo, p) = Append(got \o fifo, p)
PROOF
  <1>1. PICK m \in Nat, l \in Nat : m = Len(got) /\ l = Len(fifo)
      BY LenProperties
  <1>2. PICK a : a = Append(fifo, p)
      OBVIOUS
  <1>3. /\ a \in Seq(Pieces) /\ Len(a) = l + 1 /\ a[l + 1] = p
        /\ \A i \in 1 .. l : a[i] = fifo[i]
      BY <1>1, <1>2, AppendProperties
  <1>4. PICK S : S = got \o fifo
      OBVIOUS
  <1>5. /\ S \in Seq(Pieces) /\ Len(S) = m + l
        /\ \A i \in 1 .. m + l : S[i] = IF i <= m THEN got[i] ELSE fifo[i - m]
      BY <1>1, <1>4, ConcatProperties
  <1>6. PICK A : A = Append(S, p)
      OBVIOUS
  <1>7. /\ A \in Seq(Pieces) /\ Len(A) = (m + l) + 1 /\ A[(m + l) + 1] = p
        /\ \A i \in 1 .. m + l : A[i] = S[i]
      BY <1>5, <1>6, AppendProperties
  <1>8. PICK B : B = got \o a
      OBVIOUS
  <1>9. /\ B \in Seq(Pieces) /\ Len(B) = (m + l) + 1
        /\ \A i \in 1 .. (m + l) + 1 : B[i] = IF i <= m THEN got[i] ELSE a[i - m]
    <2>1. PICK k \in Nat : k = l + 1 /\ m + k = (m + l) + 1
      <3>1. l + 1 \in Nat /\ m + (l + 1) = (m + l) + 1
          BY <1>1
      <3> QED
          BY <3>1
    <2>2. Len(a) = k
        BY <1>3, <2>1
    <2>3. /\ B \in Seq(Pieces) /\ Len(B) = m + k
          /\ \A i \in 1 .. m + k : B[i] = IF i <= m THEN got[i] ELSE a[i - m]
      <3>1. /\ got \o a \in Seq(Pieces)
            /\ Len(got \o a) = Len(got) + Len(a)
            /\ \A i \in 1 .. Len(got) + Len(a) : (got \o a)[i] =
                  IF i <= Len(got) THEN got[i] ELSE a[i - Len(got)]
          BY <1>3, ConcatProperties
      <3> QED
          BY <1>1, <1>8, <2>2, <3>1
    <2> QED
        BY <2>1, <2>3
  <1>10. ASSUME NEW i \in 1 .. (m + l) + 1
         PROVE  A[i] = B[i]
    <2>1. CASE i <= m
      <3>1. i \in 1 .. m + l
          BY <1>1, <2>1
      <3> QED
          BY <1>5, <1>7, <1>9, <2>1, <3>1
    <2>2. CASE ~(i <= m) /\ i <= m + l
      <3>1. i \in 1 .. m + l /\ i - m \in 1 .. l
          BY <1>1, <2>2
      <3>2. B[i] = a[i - m] /\ A[i] = fifo[i - m]
          BY <1>5, <1>7, <1>9, <2>2, <3>1
      <3> QED
          BY <1>3, <3>1, <3>2
    <2>3. CASE i = (m + l) + 1
      <3>1. ~(i <= m) /\ i - m = l + 1
          BY <1>1, <2>3
      <3>2. B[i] = a[i - m]
          BY <1>9, <3>1
      <3> QED
          BY <1>3, <1>7, <2>3, <3>1, <3>2
    <2> QED
        BY <1>1, <2>1, <2>2, <2>3
  <1>11. A = B
      BY <1>7, <1>9, <1>10, SeqEqual
  <1> QED
      BY <1>2, <1>4, <1>6, <1>8, <1>11

(* and goes on where the stretch was. *)
LEMMA StretchGrows ==
    ASSUME NEW S \in Seq(Pieces), NEW p \in Pieces, NEW t, Stretch(S, t),
           p.kind = IF Len(S) % 2 = 0 THEN "first" ELSE "second",
           p.track = t, p.sector \in 0 .. SECTOR_COUNT - 1,
           S # <<>> => p.sector = IF Len(S) % 2 = 1 THEN S[Len(S)].sector
                                  ELSE NextSector(S[Len(S)].sector)
    PROVE  /\ Stretch(Append(S, p), t)
           /\ Append(S, p) \in Seq(Pieces) /\ Append(S, p) # <<>>
           /\ Len(Append(S, p)) = Len(S) + 1 /\ Append(S, p)[Len(Append(S, p))] = p
           /\ \A i \in 1 .. Len(S) : Append(S, p)[i] = S[i]
PROOF
  <1>1. PICK n \in Nat : n = Len(S)
      BY LenProperties
  <1>2. PICK A : A = Append(S, p)
      OBVIOUS
  <1>3. /\ A \in Seq(Pieces) /\ Len(A) = n + 1 /\ A[n + 1] = p
        /\ \A i \in 1 .. n : A[i] = S[i]
      BY <1>1, <1>2, AppendProperties
  <1>4. ASSUME NEW i \in 1 .. n + 1
        PROVE  /\ A[i].kind = IF i % 2 = 1 THEN "first" ELSE "second"
               /\ A[i].track = t
               /\ A[i].sector \in 0 .. SECTOR_COUNT - 1
               /\ i > 1 => A[i].sector = IF i % 2 = 0 THEN A[i - 1].sector
                                         ELSE NextSector(A[i - 1].sector)
    <2>1. CASE i \in 1 .. n
      <3>1. A[i] = S[i] /\ (i > 1 => A[i - 1] = S[i - 1])
        <4>1. i > 1 => i - 1 \in 1 .. n
            BY <2>1
        <4> QED
            BY <1>3, <2>1, <4>1
      <3> QED
          BY <1>1, <2>1, <3>1 DEF Stretch
    <2>2. CASE i = n + 1
      <3>1. /\ n % 2 = 0 => i % 2 = 1
            /\ n % 2 # 0 => i % 2 = 0 /\ n % 2 = 1
          BY <1>1, <2>2
      <3>2. A[i].kind = IF i % 2 = 1 THEN "first" ELSE "second"
        <4>1. CASE n % 2 = 0
            BY <1>1, <1>3, <2>2, <3>1, <4>1
        <4>2. CASE n % 2 # 0
            BY <1>1, <1>3, <2>2, <3>1, <4>2
        <4> QED
            BY <4>1, <4>2
      <3>3. ASSUME i > 1
            PROVE  A[i].sector = IF i % 2 = 0 THEN A[i - 1].sector
                                 ELSE NextSector(A[i - 1].sector)
        <4>1. i - 1 = n /\ n \in 1 .. n /\ n # 0
            BY <2>2, <3>3
        <4>2. S # <<>>
            BY <1>1, <4>1, EmptySeq
        <4>3. A[i - 1] = S[n] /\ A[i] = p
            BY <1>3, <2>2, <4>1
        <4>4. CASE n % 2 = 0
          <5>1. p.sector = NextSector(S[n].sector)
              BY <1>1, <4>2, <4>4
          <5> QED
              BY <3>1, <4>3, <4>4, <5>1
        <4>5. CASE n % 2 # 0
          <5>1. p.sector = S[n].sector
              BY <1>1, <3>1, <4>2, <4>5
          <5> QED
              BY <3>1, <4>3, <4>5, <5>1
        <4> QED
            BY <4>4, <4>5
      <3> QED
          BY <1>3, <2>2, <3>2, <3>3
    <2> QED
        BY <2>1, <2>2
  <1>5. Stretch(A, t)
      BY <1>3, <1>4 DEF Stretch
  <1>6. A # <<>>
    <2>1. n + 1 # 0
        BY <1>1
    <2> QED
        BY <1>3, <2>1, EmptySeq
  <1> QED
      BY <1>1, <1>2, <1>3, <1>5, <1>6

(* The sector the cursor is at, when nothing is being written. *)
LEMMA SectorRead ==
    ASSUME BaseInv, CursorInv, WriteInv, arm.pc = "read", CMD_RDTRK(fpga), SameTrack
    PROVE  /\ arm.drive = fpga.sel /\ SelDf = ArmDf /\ ArmDf.track = Clip
           /\ card[FileSector(file)] = exp[SelDf.img][TrackSector(Clip, arm.sector)]
PROOF
  <1>1. TypeInv /\ amiga.pc = "read" /\ fpga.state = "active" /\ ~Writing
      BY Requests DEF BaseInv, LinkInv, Writing
  <1>2. arm.drive = fpga.sel /\ AtSector
      BY <1>1 DEF CursorInv, SelInv, ArmInv
  <1>3. SelDf = ArmDf /\ ArmDf.track = Clip
      BY <1>2 DEF SelDf, ArmDf, SameTrack, Clip
  <1>4. PICK j \in Images : j = SelDf.img
    <2>1. SelDf \in DriveStates
        BY <1>1, DriveTypes DEF SelDf
    <2> QED
        BY <2>1 DEF DriveStates
  <1>5. PICK s \in ImageSectors : s = TrackSector(Clip, arm.sector)
      BY <1>1, DriveTypes, TrackSectors
  <1>6. card[Place(j, s)] = exp[j][s]
      BY <1>1, WriteParts
  <1>7. FileSector(file) = Place(j, s)
      BY <1>2, <1>3, <1>4, <1>5 DEF AtSector, Place
  <1> QED
      BY <1>2, <1>3, <1>4, <1>5, <1>6, <1>7

(* A step that gives the Amiga nothing. *)
LEMMA CalmRead ==
    ASSUME TypeInv, ReadInv, exp' = exp,
           fpga'.sel = fpga.sel, fpga'.dsktrack = fpga.dsktrack, fpga'.fifo = fpga.fifo,
           fpga'.dsklen = fpga.dsklen, fpga.state = "active" => fpga'.state = "active",
           amiga'.pc = amiga.pc, amiga'.got = amiga.got, amiga'.img \in {amiga.img, NoImage},
           arm'.pc # "rest", arm.pc # "rest",
           arm'.pc \in {"sync", "header", "data"} =>
             amiga.pc # "read" \/ arm.pc \in {"sync", "header", "data"},
           SelDf'.img = SelDf.img,
           SelDf.track = Clip /\ SelDf.track_prev = Clip =>
             /\ SelDf'.track = Clip /\ SelDf'.track_prev = Clip
             /\ SelDf'.sector_offset = SelDf.sector_offset
    PROVE  ReadInv'
PROOF
  <1>1. Stream' = Stream /\ Clip' = Clip
      BY DEF Stream, Clip, track
  <1>2. RestInv'
      BY DEF RestInv
  <1>3. ASSUME amiga'.pc = "read"
        PROVE  /\ Stretch(Stream', Clip') /\ ValuesRight' /\ OnInv'
               /\ amiga'.img # NoImage => amiga'.img = SelDf'.img
    <2>1. /\ Stretch(Stream, Clip) /\ ValuesRight /\ OnInv
          /\ amiga.img # NoImage => amiga.img = SelDf.img
        BY <1>3 DEF ReadInv
    <2>2. amiga'.img # NoImage => amiga'.img = amiga.img
        OBVIOUS
    <2>3. Stretch(Stream', Clip')
        BY <1>1, <2>1
    <2>4. ValuesRight'
        BY <1>1, <2>1, <2>2 DEF ValuesRight
    <2>5. OnInv'
      <3> SUFFICES ASSUME Stream' # <<>>
                   PROVE  /\ fpga'.state = "active"
                          /\ arm'.pc \notin {"sync", "header", "data"}
                          /\ fpga'.dsklen # 0 =>
                               /\ Len(Stream) % 2 = 0
                               /\ SelDf'.track = Clip' /\ SelDf'.track_prev = Clip'
                               /\ SelDf'.sector_offset =
                                    NextSector(Stream[Len(Stream)].sector)
          BY <1>1 DEF OnInv
      <3>1. /\ fpga.state = "active" /\ arm.pc \notin {"sync", "header", "data"}
            /\ fpga.dsklen # 0 =>
                 /\ Len(Stream) % 2 = 0 /\ SelDf.track = Clip /\ SelDf.track_prev = Clip
                 /\ SelDf.sector_offset = NextSector(Stream[Len(Stream)].sector)
          BY <1>1, <2>1 DEF OnInv
      <3> QED
          BY <1>1, <1>3, <3>1
    <2> QED
        BY <2>1, <2>2, <2>3, <2>4, <2>5
  <1> QED
      BY <1>2, <1>3 DEF ReadInv

(* A frame. *)
LEMMA FrameRead ==
    ASSUME BaseInv, ReadInv, fpga' = Frame(fpga), amiga' = amiga, exp' = exp, df' = df,
           arm'.pc # "rest", arm.pc # "rest",
           arm'.pc \in {"sync", "header", "data"} => arm.pc \in {"sync", "header", "data"}
    PROVE  ReadInv'
PROOF
  <1>1. TypeInv /\ fpga \in Controllers
      BY DEF BaseInv, TypeInv
  <1>2. /\ fpga'.sel = fpga.sel /\ fpga'.dsktrack = fpga.dsktrack
        /\ fpga'.fifo = fpga.fifo /\ fpga'.dsklen = fpga.dsklen
        /\ fpga.state = "active" => fpga'.state = "active"
      BY <1>1, FrameEffect
  <1>3. SelDf' = SelDf
      BY <1>2 DEF SelDf
  <1> QED
      BY <1>1, <1>2, <1>3, CalmRead

(* The beginning of ReadTrack(). *)
LEMMA ReadTrackRead ==
    ASSUME BaseInv, ReadInv, ReadTrack
    PROVE  ReadInv'
PROOF
  <1>1. TypeInv /\ fpga \in Controllers
      BY DEF BaseInv, TypeInv
  <1>2. fpga' = Frame(fpga) /\ arm.pc = "poll" /\ amiga' = amiga /\ exp' = exp
      BY DEF ReadTrack, At
  <1>3. /\ fpga'.sel = fpga.sel /\ fpga'.dsktrack = fpga.dsktrack
        /\ fpga'.fifo = fpga.fifo /\ fpga'.dsklen = fpga.dsklen
        /\ fpga.state = "active" => fpga'.state = "active"
      BY <1>1, <1>2, FrameEffect
  <1>4. SelDf' = df'[fpga.sel]
      BY <1>3 DEF SelDf
  <1>5. /\ SelDf'.img = SelDf.img /\ SelDf'.track = Clip /\ SelDf'.track_prev = Clip
        /\ SelDf.track_prev = Clip => SelDf'.sector_offset = SelDf.sector_offset
        /\ arm'.pc = "start"
      BY <1>1, <1>4, ReadTrackEffect
  <1> QED
      BY <1>1, <1>2, <1>3, <1>5, CalmRead

(* What a piece does that is sent. *)
LEMMA SentRead ==
    ASSUME BaseInv, ReadInv, trackrd(fpga), Len(fpga.fifo) < FifoSize,
           amiga' = amiga, exp' = exp,
           NEW p \in Pieces, fpga' = Send(fpga, p),
           p.kind = IF Len(Stream) % 2 = 0 THEN "first" ELSE "second",
           p.track = Clip, p.sector \in 0 .. SECTOR_COUNT - 1,
           amiga.img # NoImage => p.val = exp[amiga.img][TrackSector(Clip, p.sector)],
           Stream # <<>> => p.sector = IF Len(Stream) % 2 = 1 THEN Stream[Len(Stream)].sector
                                  ELSE NextSector(Stream[Len(Stream)].sector)
    PROVE  /\ amiga.pc = "read" /\ amiga'.pc = "read" /\ Clip' = Clip
           /\ fpga'.state = "active" /\ ~fpga'.write
           /\ fpga'.sel = fpga.sel /\ Len(fpga'.fifo) = Len(fpga.fifo) + 1
           /\ Stretch(Stream', Clip') /\ ValuesRight'
           /\ Stream' # <<>> /\ Len(Stream') = Len(Stream) + 1
           /\ Stream'[Len(Stream')] = p
PROOF
  <1>1. TypeInv /\ LinkInv /\ fpga \in Controllers
      BY DEF BaseInv, TypeInv
  <1>2. amiga.pc = "read" /\ fpga.state = "active" /\ ~fpga.write
      BY <1>1 DEF LinkInv, trackrd
  <1>3. /\ fpga'.state = "active" /\ ~fpga'.write
        /\ fpga'.sel = fpga.sel /\ fpga'.dsktrack = fpga.dsktrack
        /\ fpga'.fifo = Append(fpga.fifo, p)
      BY <1>1, <1>2, SendEffect
  <1>4. Clip' = Clip
      BY <1>3 DEF Clip, track
  <1>5. PICK S \in Seq(Pieces) : S = Stream
      BY <1>1, StreamType
  <1>6. Stream' = Append(S, p)
    <2>1. PICK got \in Seq(Pieces), fifo \in Seq(Pieces) : got = amiga.got /\ fifo = fpga.fifo
        BY <1>1, StreamType
    <2>2. Stream' = got \o Append(fifo, p) /\ S = got \o fifo
        BY <1>3, <1>5, <2>1 DEF Stream
    <2>3. got \o Append(fifo, p) = Append(got \o fifo, p)
        BY <2>1, StreamSent
    <2> QED
        BY <2>2, <2>3
  <1>7. Stretch(S, Clip) /\ ValuesRight
      BY <1>2, <1>5 DEF ReadInv
  <1>8. /\ Stretch(Append(S, p), Clip)
        /\ Append(S, p) # <<>>
        /\ Len(Append(S, p)) = Len(S) + 1 /\ Append(S, p)[Len(Append(S, p))] = p
        /\ \A i \in 1 .. Len(S) : Append(S, p)[i] = S[i]
      BY <1>5, <1>7, StretchGrows
  <1>9. PICK A : A = Append(S, p)
      OBVIOUS
  <1>10. ValuesRight'
    <2>1. ASSUME amiga.img # NoImage, NEW i \in 1 .. Len(A)
          PROVE  A[i].val = exp[amiga.img][TrackSector(Clip, A[i].sector)]
      <3>1. PICK n \in Nat : n = Len(S) /\ Len(A) = n + 1
        <4>1. Len(S) \in Nat
            BY <1>5, LenProperties
        <4> QED
            BY <1>8, <1>9, <4>1
      <3>2. CASE i \in 1 .. n
        <4>1. A[i] = S[i]
            BY <1>8, <1>9, <3>1, <3>2
        <4>2. S[i].val = exp[amiga.img][TrackSector(Clip, S[i].sector)]
            BY <1>5, <1>7, <2>1, <3>1, <3>2 DEF ValuesRight
        <4> QED
            BY <4>1, <4>2
      <3>3. CASE i = n + 1
        <4>1. A[i] = p
            BY <1>8, <1>9, <3>1, <3>3
        <4> QED
            BY <2>1, <4>1
      <3> QED
          BY <3>1, <3>2, <3>3
    <2> QED
        BY <1>4, <1>6, <1>9, <2>1 DEF ValuesRight
  <1>11. Len(fpga'.fifo) = Len(fpga.fifo) + 1
    <2>1. fpga.fifo \in Seq(Pieces)
        BY <1>1, StreamType
    <2> QED
        BY <1>3, <2>1, AppendProperties
  <1> QED
      BY <1>2, <1>3, <1>4, <1>5, <1>6, <1>8, <1>10, <1>11

(* FileRead() and the first half of a sector. *)
LEMMA ReadSectorRead ==
    ASSUME BaseInv, CursorInv, WriteInv, ReadInv, ReadSector
    PROVE  ReadInv'
PROOF
  <1>1. TypeInv /\ fpga \in Controllers
      BY DEF BaseInv, TypeInv
  <1>2. /\ arm.pc = "read" /\ CMD_RDTRK(fpga) /\ SameTrack
        /\ UNCHANGED <<df, file, card, menu, amiga, exp, seen>>
      BY DEF ReadSector, At
  <1>3. PICK p \in Pieces : p = Piece("first", ArmDf.track, arm.sector, arm'.val)
      BY <1>1, ReadSectorEffect DEF BaseInv
  <1>4. /\ fpga' = Send(fpga, p) /\ arm'.pc = "rest" /\ arm'.drive = arm.drive
        /\ arm'.sector = arm.sector /\ arm'.val = card[FileSector(file)]
      BY <1>1, <1>3, ReadSectorEffect DEF BaseInv
  <1>5. /\ arm.drive = fpga.sel /\ SelDf = ArmDf /\ ArmDf.track = Clip
        /\ arm'.val = exp[SelDf.img][TrackSector(Clip, arm.sector)]
      BY <1>2, <1>4, SectorRead
  <1>6. p.kind = "first" /\ p.track = Clip /\ p.sector = arm.sector /\ p.val = arm'.val
      BY <1>3, <1>5 DEF Piece
  <1>7. /\ trackrd(fpga) /\ Len(fpga.fifo) < FifoSize /\ Len(fpga.fifo) + 1 < FifoSize
        /\ amiga.pc = "read" /\ fpga.dsklen # 0
    <2>1. trackrd(fpga) /\ Len(fpga.fifo) < FifoHalf /\ amiga.pc = "read"
        BY <1>2, Requests DEF CMD_RDTRK
    <2>2. PICK n \in Nat : n = Len(fpga.fifo)
        BY <1>1, StreamType
    <2>3. n < FifoSize /\ n + 1 < FifoSize
        BY <2>1, <2>2, Numbers
    <2> QED
        BY <2>1, <2>2, <2>3 DEF trackrd
  <1>8. ArmDf.sector_offset = arm.sector /\ arm.sector \in 0 .. SECTOR_COUNT - 1
      BY <1>1, <1>2, DriveTypes DEF CursorInv, ArmInv
  <1>9. /\ Stretch(Stream, Clip) /\ ValuesRight /\ OnInv
        /\ amiga.img # NoImage => amiga.img = SelDf.img
      BY <1>7 DEF ReadInv
  <1>10. /\ Len(Stream) % 2 = 0
         /\ Stream # <<>> => arm.sector = NextSector(Stream[Len(Stream)].sector)
    <2>1. CASE Stream = <<>>
      <3>1. Len(Stream) = 0
          BY <2>1, EmptySeq
      <3> QED
          BY <2>1, <3>1
    <2>2. CASE Stream # <<>>
        BY <1>2, <1>5, <1>7, <1>8, <1>9, <2>2 DEF OnInv
    <2> QED
        BY <2>1, <2>2
  <1>11. Len(Stream) % 2 # 1
      BY <1>10
  <1>12. /\ amiga'.pc = "read" /\ Clip' = Clip
         /\ fpga'.state = "active" /\ ~fpga'.write
         /\ fpga'.sel = fpga.sel /\ Len(fpga'.fifo) = Len(fpga.fifo) + 1
         /\ Stretch(Stream', Clip') /\ ValuesRight'
         /\ Stream' # <<>> /\ Len(Stream') = Len(Stream) + 1
         /\ Stream'[Len(Stream')] = p
    <2>1. p.kind = IF Len(Stream) % 2 = 0 THEN "first" ELSE "second"
        BY <1>6, <1>10
    <2>2. Stream # <<>> => p.sector = IF Len(Stream) % 2 = 1 THEN Stream[Len(Stream)].sector
                                  ELSE NextSector(Stream[Len(Stream)].sector)
        BY <1>6, <1>10, <1>11
    <2>3. amiga.img # NoImage => p.val = exp[amiga.img][TrackSector(Clip, p.sector)]
        BY <1>5, <1>6, <1>9
    <2>4. p.track = Clip /\ p.sector \in 0 .. SECTOR_COUNT - 1
        BY <1>6, <1>8
    <2>5. amiga' = amiga /\ exp' = exp
        BY <1>2
    <2> QED
        BY <1>4, <1>7, <2>1, <2>2, <2>3, <2>4, <2>5, SentRead
  <1>13. ArmDf' = ArmDf /\ SelDf' = SelDf
      BY <1>2, <1>4, <1>12 DEF ArmDf, SelDf
  <1>14. OnInv'
    <2>1. Len(Stream') % 2 = 1
      <3>1. PICK n \in Nat : n = Len(Stream) /\ n % 2 = 0
          BY <1>1, <1>10, StreamType
      <3>2. (n + 1) % 2 = 1
          BY <3>1
      <3> QED
          BY <1>12, <3>1, <3>2
    <2> QED
        BY <1>4, <1>6, <1>12, <2>1 DEF OnInv
  <1>15. RestInv'
    <2>1. Len(fpga'.fifo) < FifoSize
        BY <1>7, <1>12
    <2> QED
        BY <1>2, <1>4, <1>5, <1>9, <1>12, <1>13, <2>1 DEF RestInv
  <1> QED
      BY <1>2, <1>9, <1>12, <1>13, <1>14, <1>15 DEF ReadInv

(* The second half. *)
LEMMA ReadRestRead ==
    ASSUME BaseInv, CursorInv, ReadInv, ReadRest
    PROVE  ReadInv'
PROOF
  <1>1. TypeInv /\ fpga \in Controllers /\ LinkInv
      BY DEF BaseInv, TypeInv
  <1>2. arm.pc = "rest" /\ UNCHANGED <<card, menu, amiga, exp, seen>>
      BY DEF ReadRest, At
  <1>3. PICK p \in Pieces : p = Piece("second", ArmDf.track, arm.sector, arm.val)
      BY <1>1, ReadRestEffect
  <1>4. /\ fpga' = Send(fpga, p) /\ arm'.pc = "read" /\ arm'.drive = arm.drive
        /\ arm'.sector = NextSector(arm.sector)
        /\ \A d \in Drives \ {arm.drive} : df'[d] = df[d]
        /\ df'[arm.drive].img = ArmDf.img /\ df'[arm.drive].track = ArmDf.track
        /\ df'[arm.drive].track_prev = ArmDf.track_prev
        /\ df'[arm.drive].sector_offset = arm'.sector
      BY <1>1, <1>3, ReadRestEffect
  <1>5. p.kind = "second" /\ p.track = ArmDf.track /\ p.sector = arm.sector /\ p.val = arm.val
      BY <1>3 DEF Piece
  <1>6. fpga'.sel = fpga.sel /\ fpga'.dsktrack = fpga.dsktrack
      BY <1>1, <1>4, SendEffect
  <1>7. SelDf'.img = SelDf.img
    <2>1. fpga.sel \in Drives
        BY <1>1, DriveTypes
    <2> QED
        BY <1>4, <1>6, <2>1 DEF SelDf, ArmDf
  <1>8. RestInv'
      BY <1>4 DEF RestInv
  <1>9. CASE trackrd(fpga)
    <2>1. fpga.state = "active" /\ ~fpga.write /\ fpga.dsklen # 0 /\ amiga.pc = "read"
        BY <1>1, <1>9 DEF trackrd, LinkInv
    <2>2. /\ Stream # <<>> /\ Len(fpga.fifo) < FifoSize /\ ArmDf.track = Clip
          /\ amiga.img # NoImage => arm.val = exp[amiga.img][TrackSector(Clip, arm.sector)]
        BY <1>2, <2>1 DEF ReadInv, RestInv
    <2>3. /\ OnInv
          /\ amiga.img # NoImage => amiga.img = SelDf.img
        BY <2>1 DEF ReadInv
    <2>4. Len(Stream) % 2 = 1 /\ Stream[Len(Stream)].sector = arm.sector
      <3>1. OnInv /\ Stream # <<>>
          BY <2>2, <2>3
      <3>2. Len(Stream) % 2 = 1
          BY <1>2, <2>1, <3>1 DEF OnInv
      <3>3. Stream[Len(Stream)].sector = arm.sector
          BY <1>2, <2>1, <3>1 DEF OnInv
      <3> QED
          BY <3>2, <3>3
    <2>5. arm.sector \in 0 .. SECTOR_COUNT - 1
        BY <1>1, DriveTypes
    <2>6. arm.drive = fpga.sel /\ ArmDf.track_prev = ArmDf.track
        BY <1>2, <2>1 DEF CursorInv, SelInv, ArmInv
    <2>7. /\ amiga'.pc = "read" /\ Clip' = Clip
          /\ fpga'.state = "active"
          /\ Stretch(Stream', Clip') /\ ValuesRight'
          /\ Stream' # <<>> /\ Len(Stream') = Len(Stream) + 1
          /\ Stream'[Len(Stream')] = p
      <3>1. p.kind = IF Len(Stream) % 2 = 0 THEN "first" ELSE "second"
          BY <1>5, <2>4
      <3>2. Stream # <<>> => p.sector = IF Len(Stream) % 2 = 1 THEN Stream[Len(Stream)].sector
                                  ELSE NextSector(Stream[Len(Stream)].sector)
          BY <1>5, <2>4
      <3>3. amiga.img # NoImage => p.val = exp[amiga.img][TrackSector(Clip, p.sector)]
          BY <1>5, <2>2
      <3>4. p.track = Clip /\ p.sector \in 0 .. SECTOR_COUNT - 1
          BY <1>5, <2>2, <2>5
      <3>5. amiga' = amiga /\ exp' = exp
          BY <1>2
      <3> QED
          BY <1>4, <1>9, <2>2, <3>1, <3>2, <3>3, <3>4, <3>5, SentRead
    <2>8. OnInv'
      <3>1. Len(Stream') % 2 = 0
        <4>1. PICK n \in Nat : n = Len(Stream) /\ n % 2 = 1
            BY <1>1, <2>4, StreamType
        <4>2. (n + 1) % 2 = 0
            BY <4>1
        <4> QED
            BY <2>7, <4>1, <4>2
      <3>2. /\ SelDf'.track = Clip /\ SelDf'.track_prev = Clip
            /\ SelDf'.sector_offset = NextSector(arm.sector)
          BY <1>4, <1>6, <2>2, <2>6 DEF SelDf, ArmDf
      <3> QED
          BY <1>4, <1>5, <2>7, <3>1, <3>2 DEF OnInv
    <2> QED
        BY <1>2, <1>7, <1>8, <2>3, <2>7, <2>8 DEF ReadInv
  <1>10. CASE ~trackrd(fpga)
    <2>1. fpga' = fpga
        BY <1>1, <1>4, <1>10, SendEffect
    <2>2. Stream' = Stream /\ Clip' = Clip
        BY <1>2, <2>1 DEF Stream, Clip, track
    <2>3. ASSUME amiga'.pc = "read"
          PROVE  /\ Stretch(Stream', Clip') /\ ValuesRight' /\ OnInv'
                 /\ amiga'.img # NoImage => amiga'.img = SelDf'.img
      <3>1. /\ amiga.pc = "read" /\ Stretch(Stream, Clip) /\ ValuesRight /\ OnInv
            /\ amiga.img # NoImage => amiga.img = SelDf.img
          BY <1>2, <2>3 DEF ReadInv
      <3>2. ValuesRight'
          BY <1>2, <2>2, <3>1 DEF ValuesRight
      <3>3. OnInv'
        <4>1. ASSUME Stream # <<>>
              PROVE  fpga.state = "active" /\ fpga.dsklen = 0
          <5>1. fpga.state = "active"
              BY <3>1, <4>1 DEF OnInv
          <5>2. ~fpga.write
              BY <1>1, <3>1 DEF LinkInv
          <5> QED
              BY <1>10, <5>1, <5>2 DEF trackrd
        <4> QED
            BY <1>4, <2>1, <2>2, <4>1 DEF OnInv
      <3> QED
          BY <1>2, <1>7, <2>2, <3>1, <3>2, <3>3
    <2> QED
        BY <1>8, <2>3 DEF ReadInv
  <1> QED
      BY <1>9, <1>10

(* A piece that has been received is no longer in the FIFO. *)
LEMMA StreamReceived ==
    ASSUME NEW got \in Seq(Pieces), NEW fifo \in Seq(Pieces), fifo # <<>>
    PROVE  Append(got, Head(fifo)) \o Tail(fifo) = got \o fifo
    BY SameRem

(* Between transfers there is nothing to be right. *)
LEMMA NoRead ==
    ASSUME amiga'.pc # "read", ~(arm'.pc = "rest" /\ fpga'.state = "active")
    PROVE  ReadInv'
    BY DEF ReadInv, RestInv

(* The driver. *)
LEMMA DriverRead ==
    ASSUME BaseInv, ReadInv, Driver
    PROVE  ReadInv'
PROOF
  <1>1. TypeInv /\ LinkInv /\ fpga \in Controllers /\ amiga \in Amigas
      BY DEF BaseInv, TypeInv
  <1>2. card' = card /\ df' = df /\ arm' = arm
      BY DriverSame
  <1>3. amiga.jobs \in Nat
      BY <1>1 DEF Amigas
  <1>4. ASSUME NEW d \in Drives, Select(d)
        PROVE  ReadInv'
    <2>1. Idle /\ fpga' = [fpga EXCEPT !.sel = d] /\ amiga' = Rest(amiga.jobs + 1)
        BY <1>4 DEF Select
    <2>2. fpga.state = "idle" /\ amiga.jobs + 1 \in Nat
        BY <2>1, IdleState
    <2>3. fpga'.state = fpga.state
        BY <1>1, <2>1, SelectEffect
    <2>4. amiga'.pc = "rest"
        BY <2>1, <2>2, RestType
    <2> QED
        BY <2>2, <2>3, <2>4, NoRead
  <1>5. ASSUME NEW t \in Heads, StepHeads(t)
        PROVE  ReadInv'
    <2>1. Idle /\ fpga' = Step(fpga, t) /\ amiga' = Rest(amiga.jobs + 1)
        BY <1>5 DEF StepHeads
    <2>2. fpga.state = "idle" /\ amiga.jobs + 1 \in Nat
        BY <2>1, IdleState
    <2>3. fpga'.state = fpga.state
        BY <1>1, <2>1, StepEffect
    <2>4. amiga'.pc = "rest"
        BY <2>1, <2>2, RestType
    <2> QED
        BY <2>2, <2>3, <2>4, NoRead
  <1>6. ASSUME NEW n \in Lengths, StartRead(n)
        PROVE  ReadInv'
    <2>1. /\ Idle /\ fpga' = Enable(fpga, FALSE, n)
          /\ amiga' = [pc |-> "read", got |-> <<>>, left |-> <<>>, jobs |-> amiga.jobs + 1,
                 img |-> IF DSK_INSERTED(fpga.sel) THEN df[fpga.sel].img ELSE NoImage]
        BY <1>6 DEF StartRead
    <2>2. fpga.state = "idle" /\ fpga.fifo = <<>>
        BY <2>1, IdleState
    <2>3. n \in Nat /\ FALSE \in BOOLEAN
        BY FddAssumption
    <2>4. fpga'.state = "idle" /\ fpga'.fifo = <<>> /\ fpga'.sel = fpga.sel
        BY <1>1, <2>1, <2>2, <2>3, EnableEffect
    <2>5. amiga'.got = <<>> /\ amiga'.img \in {SelDf.img, NoImage}
        BY <2>1 DEF SelDf
    <2>6. Stream' = <<>> /\ Len(Stream') = 0
      <3>1. <<>> \in Seq(Pieces)
          BY EmptySeq
      <3>2. Stream' = <<>>
          BY <2>4, <2>5, <3>1, ConcatEmptySeq DEF Stream
      <3> QED
          BY <3>1, <3>2, EmptySeq
    <2>7. \A i \in 1 .. Len(Stream') : FALSE
        BY <2>6
    <2>8. Stretch(Stream', Clip') /\ ValuesRight' /\ OnInv'
      <3>1. Stretch(Stream', Clip')
          BY <2>7 DEF Stretch
      <3>2. ValuesRight'
          BY <2>7 DEF ValuesRight
      <3>3. OnInv'
          BY <2>6 DEF OnInv
      <3> QED
          BY <3>1, <3>2, <3>3
    <2>9. SelDf' = SelDf
        BY <1>2, <2>4 DEF SelDf
    <2>10. RestInv'
        BY <2>4 DEF RestInv
    <2> QED
        BY <2>5, <2>8, <2>9, <2>10 DEF ReadInv
  <1>7. CASE Receive
    <2>1. /\ amiga.pc = "read" /\ fpga' = ToMemory(fpga) /\ fpga.fifo # <<>>
          /\ amiga' = IF fpga'.dmaen
                      THEN [amiga EXCEPT !.got = Append(@, Head(fpga.fifo))]
                      ELSE Rest(amiga.jobs)
          /\ exp' = exp
        BY <1>7 DEF Receive
    <2>2. /\ fpga'.sel = fpga.sel /\ fpga'.dsktrack = fpga.dsktrack
          /\ fpga'.write = fpga.write /\ fpga'.dsklen = fpga.dsklen
          /\ fpga'.fifo = Tail(fpga.fifo)
          /\ fpga.state = "active" /\ fpga.dsklen = 0 /\ fpga'.fifo = <<>> =>
               fpga'.dmaen = FALSE /\ fpga'.state = "idle"
          /\ ~(fpga.state = "active" /\ fpga.dsklen = 0 /\ fpga'.fifo = <<>>) =>
               fpga'.dmaen = fpga.dmaen /\ fpga'.state = fpga.state
        BY <1>1, <2>1, ToMemoryEffect
    <2>3. CASE fpga.state = "active" /\ fpga.dsklen = 0 /\ fpga'.fifo = <<>>
      <3>1. fpga'.dmaen = FALSE /\ fpga'.state = "idle"
          BY <2>2, <2>3
      <3>2. amiga'.pc = "rest"
          BY <1>3, <2>1, <3>1, RestType
      <3> QED
          BY <3>1, <3>2, NoRead
    <2>4. CASE ~(fpga.state = "active" /\ fpga.dsklen = 0 /\ fpga'.fifo = <<>>)
      <3>1. fpga'.dmaen /\ fpga'.state = fpga.state
          BY <1>1, <2>1, <2>2, <2>4 DEF LinkInv
      <3>2. /\ amiga'.got = Append(amiga.got, Head(fpga.fifo))
            /\ amiga'.pc = amiga.pc /\ amiga'.img = amiga.img
          BY <1>1, <2>1, <3>1 DEF Amigas
      <3>3. fpga.fifo \in Seq(Pieces) /\ amiga.got \in Seq(Pieces)
          BY <1>1, StreamType
      <3>4. Stream' = Stream
          BY <2>1, <2>2, <3>2, <3>3, StreamReceived DEF Stream
      <3>5. Clip' = Clip /\ SelDf' = SelDf /\ ArmDf' = ArmDf
          BY <1>2, <2>2 DEF Clip, SelDf, ArmDf, track
      <3>6. Len(fpga'.fifo) < Len(fpga.fifo) /\ Len(fpga'.fifo) \in Nat /\ Len(fpga.fifo) \in Nat
        <4>1. PICK m \in Nat : m = Len(fpga.fifo) /\ m # 0
            BY <2>1, <3>3, LenProperties, EmptySeq
        <4>2. Len(Tail(fpga.fifo)) = m - 1
            BY <2>1, <3>3, <4>1, HeadTailProperties
        <4>3. m - 1 < m /\ m - 1 \in Nat
            BY <4>1
        <4> QED
            BY <2>2, <4>1, <4>2, <4>3
      <3>7. /\ Stretch(Stream, Clip) /\ ValuesRight /\ OnInv /\ RestInv
            /\ amiga.img # NoImage => amiga.img = SelDf.img
          BY <2>1 DEF ReadInv
      <3>8. ValuesRight'
          BY <2>1, <3>2, <3>4, <3>5, <3>7 DEF ValuesRight
      <3>9. OnInv'
          BY <1>2, <2>2, <3>1, <3>4, <3>5, <3>7 DEF OnInv
      <3>10. RestInv'
        <4>1. Len(fpga.fifo) < FifoSize => Len(fpga'.fifo) < FifoSize
          <5>1. PICK m \in Nat, n \in Nat : m = Len(fpga.fifo) /\ n = Len(fpga'.fifo) /\ n < m
              BY <3>6
          <5>2. m < FifoSize => n < FifoSize
              BY <5>1, Numbers
          <5> QED
              BY <5>1, <5>2
        <4> QED
            BY <1>2, <2>1, <2>2, <3>1, <3>2, <3>4, <3>5, <3>7, <4>1 DEF RestInv
      <3> QED
          BY <3>2, <3>4, <3>5, <3>7, <3>8, <3>9, <3>10 DEF ReadInv
    <2> QED
        BY <2>3, <2>4
  <1>8. CASE StopRead
    <2>1. fpga' = Stopped(fpga) /\ amiga' = Rest(amiga.jobs)
        BY <1>8 DEF StopRead
    <2>2. fpga'.state = "idle"
        BY <1>1, <2>1, StoppedEffect
    <2>3. amiga'.pc = "rest"
        BY <1>3, <2>1, RestType
    <2> QED
        BY <2>2, <2>3, NoRead
  <1>9. ASSUME NEW stream \in Streams, StartWrite(stream)
        PROVE  ReadInv'
    <2>1. Idle /\ fpga' = Enable(fpga, TRUE, Len(stream))
        BY <1>9 DEF StartWrite
    <2>2. fpga.state = "idle"
        BY <2>1, IdleState
    <2>3. Len(stream) \in Nat /\ TRUE \in BOOLEAN
        BY FddAssumption, LenProperties
    <2>4. fpga'.state = "idle"
        BY <1>1, <2>1, <2>2, <2>3, EnableEffect
    <2>5. amiga'.pc = "write"
      <3>1. PICK r \in Amigas : r = Rest(amiga.jobs + 1)
          BY <2>1, IdleState, RestType
      <3>2. amiga' = [r EXCEPT !.pc = "write", !.left = stream]
          BY <1>9, <3>1 DEF StartWrite
      <3> QED
          BY <3>1, <3>2 DEF Amigas
    <2> QED
        BY <2>4, <2>5, NoRead
  <1>10. CASE Transmit
    <2>1. /\ amiga.left # <<>> /\ amiga.pc = "write" /\ trackwr(fpga)
          /\ fpga' = FromMemory(fpga, Head(amiga.left))
          /\ amiga' = [amiga EXCEPT !.left = Tail(@)]
        BY <1>10 DEF Transmit
    <2>2. amiga'.pc = "write"
        BY <1>1, <2>1 DEF Amigas
    <2>3. arm'.pc # "rest"
      <3>1. fpga.state = "active" /\ fpga.write
          BY <2>1 DEF trackwr
      <3> QED
          BY <1>2, <3>1 DEF ReadInv, RestInv
    <2> QED
        BY <2>2, <2>3, NoRead
  <1>11. CASE WriteDone
    <2>1. ~fpga.dmaen /\ fpga' = fpga /\ amiga' = Rest(amiga.jobs)
        BY <1>11 DEF WriteDone
    <2>2. fpga'.state = "idle"
        BY <1>1, <2>1 DEF LinkInv
    <2>3. amiga'.pc = "rest"
        BY <1>3, <2>1, RestType
    <2> QED
        BY <2>2, <2>3, NoRead
  <1> QED
      BY <1>4, <1>5, <1>6, <1>7, <1>8, <1>9, <1>10, <1>11 DEF Driver

(* At first. *)
LEMMA InitRead ==
    ASSUME Init
    PROVE  ReadInv
PROOF
  <1>1. amiga.pc = "rest" /\ arm.pc = "poll"
      BY DEF Init, Rest, NoCall
  <1> QED
      BY <1>1 DEF ReadInv, RestInv

(* Every step. *)
LEMMA ReadStep ==
    ASSUME BaseInv, CacheStays, CursorInv, WriteInv, ReadInv, [Next]_vars
    PROVE  ReadInv'
PROOF
  <1>1. TypeInv /\ LinkInv /\ fpga \in Controllers /\ PickInv
      BY DEF BaseInv, TypeInv, CacheStays
  <1>2. ASSUME fpga' = Frame(fpga), Goto("update") \/ Goto("read"), arm.pc # "rest",
               UNCHANGED <<df, file, card, menu, amiga, exp, seen>>
        PROVE  ReadInv'
    <2>1. arm'.pc \in {"update", "read"}
        BY <1>1, <1>2, GotoEffect DEF Places
    <2> QED
        BY <1>2, <2>1, FrameRead
  <1>3. ASSUME CMD_WRTRK(fpga), amiga' = amiga, arm'.pc # "rest"
        PROVE  ReadInv'
    <2>1. amiga'.pc # "read"
        BY <1>1, <1>3, Requests DEF LinkInv
    <2> QED
        BY <1>3, <2>1, NoRead
  <1>4. CASE PollNothing
      BY <1>2, <1>4 DEF PollNothing, At
  <1>5. CASE ReadTrack
      BY <1>5, ReadTrackRead
  <1>6. CASE ReadTrackFrame
      BY <1>2, <1>6 DEF ReadTrackFrame, At
  <1>7. CASE ReadSector
      BY <1>7, ReadSectorRead
  <1>8. CASE ReadRest
      BY <1>8, ReadRestRead
  <1>9. CASE ReadEnds
      BY <1>2, <1>9 DEF ReadEnds, At
  <1>10. CASE WriteTrack
    <2>1. arm'.pc = "sync"
        BY <1>1, <1>10, WriteTrackEffect
    <2> QED
        BY <1>3, <1>10, <2>1 DEF WriteTrack
  <1>11. CASE FindSync
    <2>1. arm'.pc \in {"sync", "header"}
        BY <1>1, <1>11, FindSyncEffect
    <2>2. arm'.pc # "rest"
        BY <2>1
    <2> QED
        BY <1>3, <1>11, <2>2 DEF FindSync
  <1>12. CASE FindSyncFails
      BY <1>2, <1>12 DEF FindSyncFails, At
  <1>13. CASE GetHeader
    <2>1. arm'.pc \in {"data", "sync"}
        BY <1>1, <1>13, GetHeaderEffect
    <2>2. arm'.pc # "rest"
        BY <2>1
    <2> QED
        BY <1>3, <1>13, <2>2 DEF GetHeader
  <1>14. CASE GetData
    <2>1. arm'.pc = "sync"
        BY <1>1, <1>14, GetDataEffect
    <2> QED
        BY <1>3, <1>14, <2>1 DEF GetData
  <1>15. CASE GetFails
    <2>1. /\ fpga' = Frame(fpga) /\ arm'.pc = "sync" /\ arm.pc \in {"header", "data"}
          /\ UNCHANGED <<df, file, card, menu, amiga, exp, seen>>
        BY <1>1, <1>15, GotoEffect DEF GetFails, Places
    <2>2. arm.pc # "rest"
        BY <2>1
    <2> QED
        BY <2>1, <2>2, FrameRead
  <1>16. ASSUME fpga'.sel = fpga.sel, fpga'.dsktrack = fpga.dsktrack,
                fpga'.fifo = fpga.fifo, fpga'.dsklen = fpga.dsklen,
                fpga'.state = fpga.state, exp' = exp, amiga'.pc = amiga.pc,
                amiga'.got = amiga.got, amiga'.img \in {amiga.img, NoImage},
                arm'.pc \in {"poll", "ui"}, arm.pc \in {"update", "ui"},
                \A d \in Drives : /\ df'[d].img = df[d].img
                                  /\ df'[d].track = df[d].track
                                  /\ df'[d].track_prev = df[d].track_prev
                                  /\ df'[d].sector_offset = df[d].sector_offset
         PROVE  ReadInv'
    <2>1. fpga.sel \in Drives
        BY <1>1, DriveTypes
    <2>2. /\ SelDf'.img = SelDf.img /\ SelDf'.track = SelDf.track
          /\ SelDf'.track_prev = SelDf.track_prev
          /\ SelDf'.sector_offset = SelDf.sector_offset
        BY <1>16, <2>1 DEF SelDf
    <2>3. arm'.pc # "rest" /\ arm.pc # "rest" /\ arm'.pc \notin {"sync", "header", "data"}
        BY <1>16
    <2> QED
        BY <1>1, <1>16, <2>2, <2>3, CalmRead
  <1>17. CASE UpdateDriveStatus
    <2>1. /\ fpga' = Present(fpga, InsertedDisks) /\ Goto("ui") /\ arm.pc = "update"
          /\ UNCHANGED <<df, file, card, menu, amiga, exp, seen>>
        BY <1>17 DEF UpdateDriveStatus, PresentNow, At
    <2>2. InsertedDisks \in SUBSET Drives
        BY DEF InsertedDisks
    <2>3. /\ fpga'.sel = fpga.sel /\ fpga'.dsktrack = fpga.dsktrack
          /\ fpga'.fifo = fpga.fifo /\ fpga'.dsklen = fpga.dsklen /\ fpga'.state = fpga.state
        BY <1>1, <2>1, <2>2, PresentEffect
    <2>4. arm'.pc = "ui"
        BY <1>1, <2>1, GotoEffect DEF Places
    <2> QED
        BY <1>16, <2>1, <2>3, <2>4
  <1>18. CASE UiElse
    <2>1. UNCHANGED <<fpga, df, amiga, exp>> /\ arm.pc = "ui" /\ arm'.pc = "poll"
        BY <1>1, <1>18, GotoEffect DEF UiElse, Places, At
    <2> QED
        BY <1>16, <2>1
  <1>19. CASE InsertFloppy
    <2>1. menu.img # NoImage /\ arm'.pc = "poll" /\ amiga'.pc = amiga.pc
      <3>1. amiga \in Amigas
          BY <1>1 DEF TypeInv
      <3> QED
          BY <1>1, <1>19, <3>1, GotoEffect DEF InsertFloppy, Places, Amigas
    <2>2. amiga.pc # "read"
        BY <1>1, <2>1 DEF PickInv, LinkInv
    <2> QED
        BY <2>1, <2>2, NoRead
  <1>20. ASSUME NEW e \in Drives, Eject(e)
         PROVE  ReadInv'
    <2>1. UNCHANGED <<fpga, exp>> /\ arm.pc = "ui"
        BY <1>20 DEF Eject, At
    <2>2. /\ \A d \in Drives \ {e} : df'[d] = df[d]
          /\ df'[e].img = df[e].img
          /\ df'[e].track = df[e].track /\ df'[e].track_prev = df[e].track_prev
          /\ df'[e].sector_offset = df[e].sector_offset
          /\ amiga'.pc = amiga.pc /\ amiga'.got = amiga.got
          /\ amiga'.img \in {amiga.img, NoImage} /\ arm'.pc = "poll"
        BY <1>1, <1>20, EjectEffect
    <2>3. \A d \in Drives : /\ df'[d].img = df[d].img
                            /\ df'[d].track = df[d].track
                            /\ df'[d].track_prev = df[d].track_prev
                            /\ df'[d].sector_offset = df[d].sector_offset
        BY <2>2
    <2> QED
        BY <1>16, <2>1, <2>2, <2>3
  <1>21. ASSUME NEW e \in Drives, NEW img \in Images, SelectFile(e, img)
         PROVE  ReadInv'
    <2>1. UNCHANGED <<fpga, df, amiga, exp>> /\ arm.pc = "ui" /\ arm'.pc = "poll"
        BY <1>1, <1>21, GotoEffect DEF SelectFile, Places, At
    <2> QED
        BY <1>16, <2>1
  <1>22. CASE Driver
      BY <1>22, DriverRead
  <1>23. CASE UNCHANGED vars
    <2>1. /\ Stream' = Stream /\ Clip' = Clip /\ SelDf' = SelDf /\ ArmDf' = ArmDf
          /\ UNCHANGED <<fpga, df, arm, amiga, exp>>
        BY <1>23 DEF vars, Stream, Clip, SelDf, ArmDf
    <2>2. ValuesRight' = ValuesRight /\ OnInv' = OnInv /\ RestInv' = RestInv
        BY <2>1 DEF ValuesRight, OnInv, RestInv
    <2> QED
        BY <2>1, <2>2 DEF ReadInv
  <1> QED
      BY <1>4, <1>5, <1>6, <1>7, <1>8, <1>9, <1>10, <1>11, <1>12, <1>13, <1>14, <1>15,
         <1>17, <1>18, <1>19, <1>20, <1>21, <1>22, <1>23 DEF Next, HandleFDD, HandleUI

-----------------------------------------------------------------------------
(* What follows.                                                           *)

(* The types of BaseInv are those of TypeOK.                               *)
LEMMA BaseTypes ==
    ASSUME BaseInv
    PROVE  TypeOK
PROOF
  <1>1. TypeInv
      BY DEF BaseInv
  <1>2. fpga \in Controllers /\ df \in [Drives -> DriveStates] /\ arm \in Arms
      BY <1>1 DEF TypeInv
  <1>3. file \in Cursors /\ DOMAIN card = DOMAIN InitCard
      BY <1>1 DEF TypeInv
  <1>4. menu.drive \in Drives /\ menu.img \in Images \cup {NoImage}
      BY <1>1 DEF TypeInv
  <1>5. amiga.pc \in {"rest", "read", "write"}
      BY <1>1 DEF TypeInv, Amigas
  <1>6. amiga.pc = "rest" => amiga = Rest(amiga.jobs)
      BY <1>1 DEF TypeInv
  <1>7. seen \in [Drives -> Images \cup {NoImage}]
      BY <1>1 DEF TypeInv
  <1> QED
      BY <1>2, <1>3, <1>4, <1>5, <1>6, <1>7
      DEF TypeOK, Controllers, DriveStates, Arms, Places

(* The sector after one, as the stream counts.                             *)
LEMMA NextIsModulo ==
    ASSUME NEW s \in 0 .. SECTOR_COUNT - 1
    PROVE  NextSector(s) = (s + 1) % SECTOR_COUNT
PROOF
  <1>1. PICK m \in Nat \ {0} : m = SECTOR_COUNT
      BY Numbers
  <1>2. s \in 0 .. m - 1
      BY <1>1
  <1>3. CASE s + 1 = m
    <2>1. m % m = 0
        BY <1>1
    <2> QED
        BY <1>1, <1>3, <2>1 DEF NextSector
  <1>4. CASE s + 1 # m
    <2>1. s + 1 \in 0 .. m - 1
        BY <1>2, <1>4
    <2>2. (s + 1) % m = s + 1
        BY <1>1, <2>1
    <2> QED
        BY <1>1, <1>4, <2>2 DEF NextSector
  <1> QED
      BY <1>3, <1>4

(* A stretch of the track is what StreamRight asks for.                    *)
LEMMA ReadIsRight ==
    ASSUME BaseInv, ReadInv
    PROVE  StreamRight
PROOF
  <1>1. SUFFICES ASSUME amiga.pc = "read", amiga.img # NoImage,
                        NEW i \in 1 .. Len(Stream)
                 PROVE  LET p == Stream[i] IN
                        /\ p.kind = IF i % 2 = 1 THEN "first" ELSE "second"
                        /\ p.track = Clip
                        /\ p.val = exp[amiga.img][TrackSector(Clip, p.sector)]
                        /\ i > 1 => p.sector = IF i % 2 = 0 THEN Stream[i - 1].sector
                                  ELSE (Stream[i - 1].sector + 1) % SECTOR_COUNT
      BY DEF StreamRight, Stream, Clip, TrackSector
  <1>2. Stretch(Stream, Clip) /\ ValuesRight
      BY <1>1 DEF ReadInv
  <1>3. /\ Stream[i].kind = IF i % 2 = 1 THEN "first" ELSE "second"
        /\ Stream[i].track = Clip
      BY <1>1, <1>2 DEF Stretch
  <1>4. Stream[i].val = exp[amiga.img][TrackSector(Clip, Stream[i].sector)]
      BY <1>1, <1>2 DEF ValuesRight
  <1>5. ASSUME i > 1
        PROVE  Stream[i].sector = IF i % 2 = 0 THEN Stream[i - 1].sector
                                  ELSE (Stream[i - 1].sector + 1) % SECTOR_COUNT
    <2>1. Stream[i].sector = IF i % 2 = 0 THEN Stream[i - 1].sector
                             ELSE NextSector(Stream[i - 1].sector)
        BY <1>1, <1>2, <1>5 DEF Stretch
    <2>2. Len(Stream) \in Nat
      <3>1. amiga.got \in Seq(Pieces) /\ fpga.fifo \in Seq(Pieces)
          BY DEF BaseInv, TypeInv, Amigas, Controllers
      <3>2. Stream \in Seq(Pieces)
          BY <3>1, ConcatProperties DEF Stream
      <3> QED
          BY <3>2, LenProperties
    <2>3. i - 1 \in 1 .. Len(Stream)
        BY <1>1, <1>5, <2>2
    <2>4. Stream[i - 1].sector \in 0 .. SECTOR_COUNT - 1
        BY <1>2, <2>3 DEF Stretch
    <2>5. NextSector(Stream[i - 1].sector) = (Stream[i - 1].sector + 1) % SECTOR_COUNT
        BY <2>4, NextIsModulo
    <2> QED
        BY <2>1, <2>5
  <1> QED
      BY <1>3, <1>4, <1>5

(* Between two transfers no image has anything coming.                     *)
LEMMA WriteIsRight ==
    ASSUME WriteInv
    PROVE  ImageAsWritten
PROOF
  <1>1. ASSUME ~fpga.dmaen, NEW img \in Images, NEW s \in ImageSectors
        PROVE  card[Place(img, s)] = exp[img][s]
    <2>1. ~Writing
        BY <1>1 DEF Writing
    <2> QED
        BY <1>1, <2>1 DEF WriteInv, CardInv
  <1> QED
      BY <1>1 DEF ImageAsWritten, Place, ImageSectors

-----------------------------------------------------------------------------
(* The theorems.                                                           *)

(* Types: the controller, the drives, the cursor, the main loop and the    *)
(* driver; FileRead() is never beyond the card and the FIFO holds pieces.  *)
THEOREM TypeCorrect == Spec => []TypeOK
PROOF
  <1>1. Spec => []BaseInv
      BY BaseAlways
  <1>2. BaseInv => TypeOK
      BY BaseTypes
  <1> QED
      BY <1>1, <1>2, PTL

(* A disk that the driver has not seen at its last step pulse is announced *)
(* by the disk change latch.                                               *)
THEOREM ChangesAreSeen == Spec => []ChangeSeen
PROOF
  <1>1. Init => BaseInv /\ ChangeInv
      BY InitBase, InitChange
  <1>2. BaseInv /\ ChangeInv /\ [Next]_vars => (BaseInv /\ ChangeInv)'
      BY BaseStep, ChangeStep
  <1>3. BaseInv /\ ChangeInv => ChangeSeen
      BY DEF ChangeInv
  <1> QED
      BY <1>1, <1>2, <1>3, PTL DEF Spec

(* The entries of the index cache are clusters of the image in the drive,  *)
(* when no request comes while a file is selected.                         *)
THEOREM CachesAreRight ==
    ASSUME QuietInsert
    PROVE  Spec => []CacheRight
PROOF
  <1>1. Init => BaseInv /\ CacheStays
      BY InitBase, InitCache
  <1>2. BaseInv /\ CacheStays /\ [Next]_vars => (BaseInv /\ CacheStays)'
      BY BaseStep, CacheStep
  <1>3. BaseInv /\ CacheStays => CacheRight
      BY DEF CacheStays, CacheInv, CacheRight
  <1> QED
      BY <1>1, <1>2, <1>3, PTL DEF Spec

(* Everything together holds at every step. *)
LEMMA AllAlways ==
    ASSUME QuietInsert, SlowSelect, RereadFirst, Apart, WellWritten
    PROVE  Spec => [](BaseInv /\ CacheStays /\ CursorInv /\ WriteInv /\ ReadInv)
PROOF
  <1> DEFINE All == BaseInv /\ CacheStays /\ CursorInv /\ WriteInv /\ ReadInv
  <1>1. Init => All
      BY InitBase, InitCache, InitCursor, InitWrite, InitRead
  <1>2. All /\ [Next]_vars => All'
      BY BaseStep, CacheStep, CursorStep, WriteStep, ReadStep
  <1> QED
      BY <1>1, <1>2, PTL DEF Spec

(* When a write is over and the ARM is done with it, the card holds each   *)
(* image as the Amiga has written it.                                      *)
THEOREM ImagesAreAsWritten ==
    ASSUME QuietInsert, SlowSelect, RereadFirst, Apart, WellWritten
    PROVE  Spec => []ImageAsWritten
PROOF
  <1>1. Spec => [](BaseInv /\ CacheStays /\ CursorInv /\ WriteInv /\ ReadInv)
      BY AllAlways
  <1>2. WriteInv => ImageAsWritten
      BY WriteIsRight
  <1> QED
      BY <1>1, <1>2, PTL

(* What a transfer gives to the Amiga is a stretch of the track under the  *)
(* heads, round and round, with the contents the Amiga last wrote.         *)
THEOREM StreamsAreRight ==
    ASSUME QuietInsert, SlowSelect, RereadFirst, Apart, WellWritten
    PROVE  Spec => []StreamRight
PROOF
  <1>1. Spec => [](BaseInv /\ CacheStays /\ CursorInv /\ WriteInv /\ ReadInv)
      BY AllAlways
  <1>2. BaseInv /\ ReadInv => StreamRight
      BY ReadIsRight
  <1> QED
      BY <1>1, <1>2, PTL
=============================================================================
