--------------------------------- MODULE Fdd ---------------------------------
(***************************************************************************)
(* The floppy drives of the Minimig: HandleFDD() of src/firmware/fdd.c     *)
(* turns tracks of image files into what the controller in Floppy.v gives  *)
(* to the Amiga, and back.  The main loop calls it once a round, tells the *)
(* controller which drives have a disk and lets the menu eject disks and   *)
(* insert other images.  The disk driver of the Amiga runs concurrently.   *)
(* Every image has Tracks tracks and lies on the card as a FAT chain; all  *)
(* of this code shares one cursor, the global variable "file".             *)
(***************************************************************************)
EXTENDS FatFile, Floppy

CONSTANTS
    Images, Start,      \* the image files and their first clusters
    Writable,           \* those without the read-only attribute
    Tracks,             \* tracks of an image
    SECTOR_COUNT,       \* sectors of a track, 11
    InitCard,           \* what the sectors of the card hold at first
    Lengths,            \* of the reads of the Amiga, in pieces
    Streams,            \* what the Amiga writes, see Sector
    MaxJobs,            \* bound: what the driver does, Select to StartWrite
    MaxSwaps,           \* bound: disks the user takes out
    RereadFirst,        \* bound: the track behind one that was written is
                        \* not the next one to be read
    QuietInsert,        \* bound: no floppy request while a file is selected
    SlowSelect          \* bound: a drive is not selected between two frames
                        \* of a call of HandleFDD(), see Select

TrackNumbers == 0 .. Tracks - 1

(* What passes the FIFO: the halves of a sector that is read; what a       *)
(* sector consists of when it is written, "broken" with a bad checksum;    *)
(* a gap; and what is left of a header when a transfer ends in it.         *)
(* GetHeader() calls a header good only if there are such a track and such *)
(* a sector, errors 23 and 24.                                             *)
Pieces ==
    {p \in [kind : {"first", "second", "sync", "header", "data", "broken", "gap",
                    "fragment"},
            track : Nat, sector : Nat, val : Int] :
        p.kind = "header" => p.track \in TrackNumbers /\ p.sector < SECTOR_COUNT}

NoImage == "none"

ASSUME FddAssumption ==
    /\ NoImage \notin Images /\ Start \in [Images -> Clusters]
    /\ Writable \subseteq Images
    /\ Tracks \in Nat \ {0} /\ SECTOR_COUNT \in Nat \ {0}
    /\ TrackNumbers \subseteq Heads
    /\ Streams \subseteq Seq(Pieces)
    \* FileRead() finds something wherever the cursor may be.
    /\ InitCard \in [DOMAIN InitCard -> Int]
    /\ \A c \in Links, k \in 0 .. ClusterSize - 1 :
          FileSector([sector |-> k, cluster |-> c]) \in DOMAIN InitCard
    /\ MaxJobs \in Nat /\ MaxSwaps \in Nat /\ Lengths \subseteq Nat \ {0}
    /\ RereadFirst \in BOOLEAN /\ QuietInsert \in BOOLEAN /\ SlowSelect \in BOOLEAN

VARIABLES
    fpga,          \* the controller
    df,            \* df[], with the image it is for
    file,          \* the global cursor
    card,          \* the SD card
    arm,           \* where the main loop is, with the locals of the call
    menu,          \* the drive and the image of a selected file, or NoPick
    amiga,         \* the driver: what it has read or is going to write
    exp,           \* history: each image as the Amiga has written it
    seen           \* history: the disk at the last step pulse of each drive

vars == <<fpga, df, file, card, arm, menu, amiga, exp, seen>>

-----------------------------------------------------------------------------
(* The cursor.                                                             *)

FileNextSector(f) ==
    [sector |-> f.sector + 1,
     cluster |-> IF (f.sector + 1) % ClusterSize = 0
                 THEN NextCluster(f.cluster) ELSE f.cluster]

Ahead(f, n) ==
    LET after[k \in 0 .. n] == IF k = 0 THEN f ELSE FileNextSector(after[k - 1])
    IN  after[n]

(* The start of the track of a drive, from the cache. *)
TrackStart(d) ==
    [sector |-> d.track * SECTOR_COUNT, cluster |-> d.cache[d.track]]

-----------------------------------------------------------------------------
(* Disks.                                                                  *)

DSK_INSERTED(d) == df[d].status # {}

(* InsertFloppy(): the clusters at which the tracks start, from wherever   *)
(* the cursor is; track_prev is not a track. *)
Inserted(f, img) ==
    [img |-> img,
     status |-> IF img \in Writable THEN {"inserted", "writable"} ELSE {"inserted"},
     cache |-> [t \in TrackNumbers |-> Ahead(f, t * SECTOR_COUNT).cluster],
     cluster_offset |-> f.cluster, sector_offset |-> 0,
     track |-> 0, track_prev |-> -1]

Selected(img) == [sector |-> 0, cluster |-> Start[img]]

InsertedDisks == {d \in Drives : DSK_INSERTED(d)}

-----------------------------------------------------------------------------
Piece(kind, t, s, val) == [kind |-> kind, track |-> t, sector |-> s, val |-> val]

(* A sector as the Amiga writes it: ok says which checksums are right. *)
Sector(t, s, val, ok) ==
    << Piece("sync", 0, 0, 0),
       Piece(IF "header" \in ok THEN "header" ELSE "broken", t, s, 0),
       Piece(IF "data" \in ok THEN "data" ELSE "broken", 0, 0, val) >>

NoPick(n) == [drive |-> 0, img |-> NoImage, swaps |-> n]
NoCall == [pc |-> "poll", drive |-> 0, sector |-> 0, val |-> 0]
Rest(n) == [pc |-> "rest", got |-> <<>>, img |-> NoImage, left |-> <<>>, jobs |-> n]

Init ==
    /\ \E disks \in [Drives -> Images] :
          /\ \A d, e \in Drives : disks[d] = disks[e] => d = e
          /\ df = [d \in Drives |-> Inserted(Selected(disks[d]), disks[d])]
          /\ seen = disks
    /\ fpga = [PowerUp EXCEPT !.present = Drives, !.change = {}]
    /\ file = Selected(CHOOSE img \in Images : TRUE)
    /\ card = InitCard
    /\ arm = NoCall
    /\ menu = NoPick(0)
    /\ amiga = Rest(0)
    /\ exp = [img \in Images |-> [s \in 0 .. Tracks * SECTOR_COUNT - 1 |->
                  InitCard[FileSector(Ahead(Selected(img), s))]]]

-----------------------------------------------------------------------------
(* HandleFpga() and HandleFDD().                                           *)

At(pc) == arm.pc = pc
Goto(pc) == arm' = [arm EXCEPT !.pc = pc]

(* The frame finds no request. *)
PollNothing ==
    /\ At("poll")
    /\ ~CMD_RDTRK(fpga) /\ ~CMD_WRTRK(fpga)
    /\ fpga' = Frame(fpga)
    /\ Goto("update")
    /\ UNCHANGED <<df, file, card, menu, amiga, exp, seen>>

(* The frame finds a read request: the beginning of ReadTrack().  A track  *)
(* that the image does not have is replaced by its last one.               *)
Clipped(t) == IF t >= Tracks THEN Tracks - 1 ELSE t

\* Mutant: the same track goes on where the sector cursor was left, in the
\* cluster where the track starts.
ResumedInFirst(d) == TrackStart(d)

Resumed(d) ==
    [sector |-> d.track * SECTOR_COUNT + d.sector_offset,
     cluster |-> d.cluster_offset]

ReadTrack ==
    /\ At("poll") /\ CMD_RDTRK(fpga)
    /\ LET d == [df[fpga.sel] EXCEPT !.track = Clipped(track(fpga))]
           again == d.track = d.track_prev
           fresh == [d EXCEPT !.track_prev = d.track, !.sector_offset = 0,
                              !.cluster_offset = TrackStart(d).cluster]
       IN  /\ df' = [df EXCEPT ![fpga.sel] = IF again THEN d ELSE fresh]
           /\ file' = IF again THEN Resumed(d) ELSE TrackStart(d)
           /\ arm' = [NoCall EXCEPT !.pc = "start", !.drive = fpga.sel,
                          !.sector = IF again THEN d.sector_offset ELSE 0]
    /\ fpga' = Frame(fpga)
    /\ UNCHANGED <<card, menu, amiga, exp, seen>>

(* Its first frame, of which it uses nothing; yet a transfer that was      *)
(* enabled since starts with it.                                           *)
ReadTrackFrame ==
    /\ At("start")
    /\ fpga' = Frame(fpga)
    /\ Goto("read")
    /\ UNCHANGED <<df, file, card, menu, amiga, exp, seen>>

\* Mutant: the track is not looked at again.
AnyTrack == TRUE

(* "the track can be changed while we are sending the rest" *)
SameTrack == Clipped(track(fpga)) = df[arm.drive].track

(* FileRead(), the frame, and the first half of the sector if the request  *)
(* stands. *)
ReadSector ==
    /\ At("read")
    /\ SameTrack /\ CMD_RDTRK(fpga)
    /\ arm' = [arm EXCEPT !.pc = "rest", !.val = card[FileSector(file)]]
    /\ fpga' = Send(fpga, Piece("first", df[arm.drive].track, arm.sector, arm'.val))
    /\ UNCHANGED <<df, file, card, menu, amiga, exp, seen>>

\* Mutant: the last sector of the track is followed by one more.
WrapsLate(s) == s > SECTOR_COUNT

Wraps(s) == s = SECTOR_COUNT

(* The second half, and the cursor moves on, around the track. *)
ReadRest ==
    /\ At("rest")
    /\ LET d == df[arm.drive]
           wrap == Wraps(arm.sector + 1)
       IN  /\ fpga' = Send(fpga, Piece("second", d.track, arm.sector, arm.val))
           /\ file' = IF wrap THEN TrackStart(d) ELSE FileNextSector(file)
           /\ arm' = [arm EXCEPT !.pc = "read",
                                 !.sector = IF wrap THEN 0 ELSE @ + 1]
           /\ df' = [df EXCEPT ![arm.drive].sector_offset = arm'.sector,
                               ![arm.drive].cluster_offset = file'.cluster]
    /\ UNCHANGED <<card, menu, amiga, exp, seen>>

ReadEnds ==
    /\ At("read")
    /\ ~(SameTrack /\ CMD_RDTRK(fpga))
    /\ fpga' = Frame(fpga)
    /\ Goto("update")
    /\ UNCHANGED <<df, file, card, menu, amiga, exp, seen>>

-----------------------------------------------------------------------------
(* WriteTrack().  The first frame finds a write request.                   *)

WriteTrack ==
    /\ At("poll") /\ CMD_WRTRK(fpga)
    /\ LET d == [df[fpga.sel] EXCEPT !.track = track(fpga),
                                     !.track_prev = track(fpga) + 1]
       IN  /\ df' = [df EXCEPT ![fpga.sel] = d]
           \* No header is good for a track the image does not have.
           /\ file' = IF d.track \in TrackNumbers THEN TrackStart(d) ELSE file
    /\ arm' = [NoCall EXCEPT !.pc = "sync", !.drive = fpga.sel]
    /\ fpga' = Frame(fpga)
    /\ UNCHANGED <<card, menu, amiga, exp, seen>>

Syncs == {i \in 1 .. Len(fpga.fifo) : fpga.fifo[i].kind = "sync"}
FirstSync == CHOOSE i \in Syncs : \A j \in Syncs : i <= j

(* FindSync(): the words in the FIFO up to the first sync. *)
FindSync ==
    /\ At("sync")
    /\ CMD_WRTRK(fpga) /\ track(fpga) = df[arm.drive].track
    /\ IF Syncs = {}
       THEN fpga' = Fetch(fpga, Len(fpga.fifo)) /\ UNCHANGED arm
       ELSE fpga' = Fetch(fpga, FirstSync) /\ Goto("header")
    /\ UNCHANGED <<df, file, card, menu, amiga, exp, seen>>

FindSyncFails ==
    /\ At("sync")
    /\ ~(CMD_WRTRK(fpga) /\ track(fpga) = df[arm.drive].track)
    /\ fpga' = Frame(fpga)
    /\ Goto("update")
    /\ UNCHANGED <<df, file, card, menu, amiga, exp, seen>>

(* The words of the next piece are in the FIFO.  A "fragment" is what      *)
(* remains of a header when the transfer ends in it: at most 24 words.     *)
Arrived == fpga.fifo # <<>> /\ Head(fpga.fifo).kind # "fragment"

\* Mutant: a sector in front of the cursor is looked for from there.
SoughtForward(d, s) == Ahead(file, IF arm.sector < s THEN s - arm.sector ELSE 0)

(* while (sector != Sector) ... *)
Sought(d, s) ==
    IF arm.sector <= s THEN Ahead(file, s - arm.sector)
    ELSE Ahead(TrackStart(d), s)

(* GetHeader(): a good header of this track moves the cursor to its sector *)
GetHeader ==
    /\ At("header")
    /\ CMD_WRTRK(fpga) /\ Arrived
    /\ LET h == Head(fpga.fifo)
           d == df[arm.drive]
       IN  IF h.kind = "header" /\ h.track = d.track
           THEN /\ file' = Sought(d, h.sector)
                /\ arm' = [arm EXCEPT !.pc = "data", !.sector = h.sector]
           ELSE Goto("sync") /\ UNCHANGED file
    /\ fpga' = Fetch(fpga, 1)
    /\ UNCHANGED <<df, card, menu, amiga, exp, seen>>

\* Mutant: the checksum of the data is not compared.
AnyData(p) == p.kind \in {"data", "broken"}

GoodData(p) == p.kind = "data"

(* GetData() and FileWrite(). *)
GetData ==
    /\ At("data")
    /\ CMD_WRTRK(fpga) /\ Arrived
    /\ card' = IF GoodData(Head(fpga.fifo)) /\ "writable" \in df[arm.drive].status
               THEN [card EXCEPT ![FileSector(file)] = Head(fpga.fifo).val]
               ELSE card
    /\ fpga' = Fetch(fpga, 1)
    /\ Goto("sync")
    /\ UNCHANGED <<df, file, menu, amiga, exp, seen>>

(* Both wait as long as the transfer goes on. *)
GetFails ==
    /\ arm.pc \in {"header", "data"}
    /\ ~CMD_WRTRK(fpga)
    /\ fpga' = Frame(fpga)
    /\ Goto("sync")
    /\ UNCHANGED <<df, file, card, menu, amiga, exp, seen>>

-----------------------------------------------------------------------------
(* The rest of the round.                                                  *)

\* Mutant: a drive that had a disk once is reported to have one.
PresentStill == fpga.present \cup InsertedDisks

PresentNow == InsertedDisks

UpdateDriveStatus ==
    /\ At("update")
    /\ fpga' = Present(fpga, PresentNow)
    /\ Goto("ui")
    /\ UNCHANGED <<df, file, card, menu, amiga, exp, seen>>

(* HandleUI(): nothing that concerns the drives, *)
UiElse ==
    /\ At("ui") /\ menu.img = NoImage
    /\ Goto("poll")
    /\ UNCHANGED <<fpga, df, file, card, menu, amiga, exp, seen>>

Held(d) == IF d \in fpga.present /\ DSK_INSERTED(d) THEN df[d].img ELSE NoImage

(* a disk is ejected, *)
Eject(d) ==
    /\ At("ui") /\ menu.img = NoImage
    /\ DSK_INSERTED(d) /\ menu.swaps < MaxSwaps
    /\ ~(fpga.dmaen /\ fpga.write)
    /\ df' = [df EXCEPT ![d].status = {}]
    /\ menu' = NoPick(menu.swaps + 1)
    /\ amiga' = [amiga EXCEPT !.img = IF d = fpga.sel THEN NoImage ELSE @]
    /\ Goto("poll")
    /\ UNCHANGED <<fpga, file, card, exp, seen>>

(* a file is selected for an empty drive, and inserted a round later. *)
SelectFile(d, img) ==
    /\ At("ui") /\ menu.img = NoImage
    /\ ~DSK_INSERTED(d)
    /\ \A e \in InsertedDisks : df[e].img # img
    /\ QuietInsert => ~fpga.dmaen
    /\ file' = Selected(img)
    /\ menu' = [menu EXCEPT !.drive = d, !.img = img]
    /\ Goto("poll")
    /\ UNCHANGED <<fpga, df, card, amiga, exp, seen>>

InsertFloppy ==
    /\ At("ui") /\ menu.img # NoImage
    /\ df' = [df EXCEPT ![menu.drive] = Inserted(file, menu.img)]
    /\ file' = Ahead(file, Tracks * SECTOR_COUNT)
    /\ menu' = NoPick(menu.swaps)
    /\ amiga' = [amiga EXCEPT !.img = IF menu.drive = fpga.sel THEN NoImage ELSE @]
    /\ Goto("poll")
    /\ UNCHANGED <<fpga, card, exp, seen>>

(* EjectAllFloppies(), when the card is gone; drives is what the           *)
(* controller reports.                                                     *)
drives == Cardinality(Drives) - 1

EjectAllFloppies ==
    /\ At("poll")
    /\ df' = [d \in Drives |-> IF d < drives THEN [df[d] EXCEPT !.status = {}]
                               ELSE df[d]]
    /\ UNCHANGED <<fpga, file, card, arm, menu, amiga, exp, seen>>

-----------------------------------------------------------------------------
(* The driver of the Amiga.  It selects and steps between transfers, may   *)
(* stop a read at any time, and writes whole sectors.                      *)

Idle == amiga.pc = "rest" /\ ~fpga.dmaen /\ amiga.jobs < MaxJobs

(* ReadTrack(), GetHeader() and GetData() do not look at the drive again;  *)
(* it takes the Amiga longer than from one of their frames to the next.    *)
Select(d) ==
    /\ Idle /\ d # fpga.sel
    /\ SlowSelect => arm.pc \notin {"start", "header", "data"}
    /\ fpga' = [fpga EXCEPT !.sel = d]
    /\ amiga' = Rest(amiga.jobs + 1)
    /\ UNCHANGED <<df, file, card, arm, menu, exp, seen>>

(* A change of the side alone, which gives no step pulse, is left out. *)
StepHeads(t) ==
    /\ Idle /\ t # track(fpga)
    /\ fpga' = Step(fpga, t)
    /\ seen' = [seen EXCEPT ![fpga.sel] = Held(fpga.sel)]
    /\ amiga' = Rest(amiga.jobs + 1)
    /\ UNCHANGED <<df, file, card, arm, menu, exp>>

(* The disk the driver expects to read, unless it is just being changed. *)
StartRead(n) ==
    /\ Idle
    /\ RereadFirst =>
          LET d == df[fpga.sel]
              t == Clipped(track(fpga))
          IN  d.track = t \/ d.track_prev # t
    /\ QuietInsert => menu.img = NoImage
    /\ fpga' = Enable(fpga, FALSE, n)
    /\ amiga' = [pc |-> "read", got |-> <<>>, left |-> <<>>, jobs |-> amiga.jobs + 1,
                 img |-> IF DSK_INSERTED(fpga.sel) THEN df[fpga.sel].img ELSE NoImage]
    /\ UNCHANGED <<df, file, card, arm, menu, exp, seen>>

Receive ==
    /\ amiga.pc = "read"
    /\ fpga.fifo # <<>>
    /\ fpga' = ToMemory(fpga)
    /\ amiga' = IF fpga'.dmaen
                THEN [amiga EXCEPT !.got = Append(@, Head(fpga.fifo))]
                ELSE Rest(amiga.jobs)
    /\ UNCHANGED <<df, file, card, arm, menu, exp, seen>>

(* "some loaders stop dma if sector header isn't what they expect" *)
StopRead ==
    /\ amiga.pc = "read"
    /\ fpga' = Stopped(fpga)
    /\ amiga' = Rest(amiga.jobs)
    /\ UNCHANGED <<df, file, card, arm, menu, exp, seen>>

(* The sectors that a stream changes on a track: good header, good data. *)
Effect(image, stream, t) ==
    [s \in DOMAIN image |->
        LET hits == {i \in 3 .. Len(stream) :
                /\ stream[i].kind = "data" /\ stream[i - 1].kind = "header"
                /\ stream[i - 1].track = t
                /\ t * SECTOR_COUNT + stream[i - 1].sector = s}
        IN  IF hits = {} THEN image[s]
            ELSE stream[CHOOSE i \in hits : \A j \in hits : j <= i].val]

StartWrite(stream) ==
    /\ Idle
    /\ QuietInsert => menu.img = NoImage
    /\ DSK_INSERTED(fpga.sel)
    /\ fpga' = Enable(fpga, TRUE, Len(stream))
    /\ amiga' = [Rest(amiga.jobs + 1) EXCEPT !.pc = "write", !.left = stream]
    /\ exp' = IF "writable" \notin df[fpga.sel].status THEN exp
              ELSE [exp EXCEPT ![df[fpga.sel].img] =
                        Effect(@, stream, track(fpga))]
    /\ UNCHANGED <<df, file, card, arm, menu, seen>>

Transmit ==
    /\ amiga.pc = "write" /\ amiga.left # <<>>
    /\ trackwr(fpga) /\ Len(fpga.fifo) < FifoSize
    /\ fpga' = FromMemory(fpga, Head(amiga.left))
    /\ amiga' = [amiga EXCEPT !.left = Tail(@)]
    /\ UNCHANGED <<df, file, card, arm, menu, exp, seen>>

(* DSKBLK: the write has ended. *)
WriteDone ==
    /\ amiga.pc = "write" /\ ~fpga.dmaen
    /\ amiga' = Rest(amiga.jobs)
    /\ UNCHANGED <<fpga, df, file, card, arm, menu, exp, seen>>

-----------------------------------------------------------------------------
HandleFDD ==
    \/ PollNothing \/ ReadTrack \/ ReadTrackFrame \/ ReadSector \/ ReadRest
    \/ ReadEnds \/ WriteTrack \/ FindSync \/ FindSyncFails \/ GetHeader
    \/ GetData \/ GetFails

HandleUI ==
    \/ UiElse \/ InsertFloppy
    \/ \E d \in Drives : Eject(d) \/ \E img \in Images : SelectFile(d, img)

Driver ==
    \/ \E d \in Drives : Select(d)
    \/ \E t \in Heads : StepHeads(t)
    \/ \E n \in Lengths : StartRead(n)
    \/ Receive \/ StopRead
    \/ \E stream \in Streams : StartWrite(stream)
    \/ Transmit \/ WriteDone

Next == HandleFDD \/ UpdateDriveStatus \/ HandleUI \/ Driver

(* The main loop runs, and the DMA of the Amiga gets its slots. *)
Fairness ==
    WF_vars(HandleFDD \/ UpdateDriveStatus \/ HandleUI) /\ WF_vars(Receive)
    /\ WF_vars(Transmit)

Spec == Init /\ [][Next]_vars /\ Fairness

(* The card is taken out, once in a while. *)
SpecCard == Init /\ [][Next \/ EjectAllFloppies]_vars
-----------------------------------------------------------------------------
(* Where sector s of an image is on the card, *)
ImageSectors == 0 .. Tracks * SECTOR_COUNT - 1
TrackSector(t, s) == t * SECTOR_COUNT + s
Place(img, s) == FileSector(Ahead(Selected(img), s))

(* apart from every other one: no chain is too short or linked to another. *)
Apart ==
    \A i, j \in Images : \A r, s \in ImageSectors :
        Place(i, r) = Place(j, s) => i = j /\ r = s

(* What the Amiga writes has its headers behind syncs, and the words of a  *)
(* sync are not taken for a part of the piece before it.                   *)
WellWritten ==
    \A stream \in Streams : \A i \in 1 .. Len(stream) :
        /\ stream[i].kind = "header" => i > 1 /\ stream[i - 1].kind = "sync"
        /\ i > 1 /\ stream[i].kind = "sync" =>
             stream[i - 1].kind \notin {"sync", "header"}

-----------------------------------------------------------------------------
(* Properties.                                                             *)

TypeOK ==
    /\ fpga \in [sel : Drives, dsktrack : [Drives -> Heads], dmaen : BOOLEAN,
                 write : BOOLEAN, dsklen : Nat, state : {"idle", "active"},
                 fifo : Seq(Pieces),
                 present : SUBSET Drives, change : SUBSET Drives]
    /\ df \in [Drives -> [img : Images, status : SUBSET {"inserted", "writable"},
                          cache : [TrackNumbers -> Links],
                          cluster_offset : Links,
                          sector_offset : 0 .. SECTOR_COUNT - 1,
                          track : Heads, track_prev : Int]]
    /\ file \in Cursors
    /\ DOMAIN card = DOMAIN InitCard
    /\ arm \in [pc : {"poll", "start", "read", "rest", "sync", "header", "data",
                       "update", "ui"},
                drive : Drives, sector : 0 .. SECTOR_COUNT - 1, val : Int]
    /\ menu.drive \in Drives /\ menu.img \in Images \cup {NoImage}
    /\ amiga.pc \in {"rest", "read", "write"}
    /\ amiga.pc = "rest" => amiga = Rest(amiga.jobs)
    /\ seen \in [Drives -> Images \cup {NoImage}]

(* What a transfer has given to the Amiga and holds in the FIFO is a       *)
(* stretch of the track under the heads of the selected drive, round and   *)
(* round: whole sectors in their order, each with the number and the       *)
(* contents it has on the disk in the drive, as the Amiga last wrote it -  *)
(* however often the FIFO filled up, the ARM went for another round, and   *)
(* the transfer before it was stopped, on this track or another.           *)
StreamRight ==
    (amiga.pc = "read" /\ amiga.img # NoImage) =>
      LET stream == amiga.got \o fpga.fifo
          t == Clipped(track(fpga))
      IN  \A i \in 1 .. Len(stream) :
            LET p == stream[i] IN
            /\ p.kind = IF i % 2 = 1 THEN "first" ELSE "second"
            /\ p.track = t
            /\ p.val = exp[amiga.img][t * SECTOR_COUNT + p.sector]
            /\ i > 1 =>
                 p.sector = IF i % 2 = 0 THEN stream[i - 1].sector
                            ELSE (stream[i - 1].sector + 1) % SECTOR_COUNT

(* When a write is over and the ARM is done with it, the card holds each   *)
(* image as the Amiga has written it: sectors with a good header of this   *)
(* track and good data, in whatever order, at their place in the chain;    *)
(* everything else, protected disks and other images too, is untouched.    *)
ImageAsWritten ==
    (At("poll") /\ ~fpga.dmaen) =>
      \A img \in Images, s \in ImageSectors : card[Place(img, s)] = exp[img][s]

(* A disk that the driver has not seen at its last step pulse is announced *)
(* by the disk change latch: no round of the main loop takes one disk out  *)
(* and puts another one in without the controller hearing of it.           *)
ChangeSeen ==
    \A d \in Drives :
      (DSK_INSERTED(d) /\ d \notin fpga.change) => df[d].img = seen[d]

(* Every transfer comes to its end. *)
TransferEnds == fpga.dmaen ~> ~fpga.dmaen

(* "fill index cache: for every track get its start position within image  *)
(* file": the entries of an inserted disk are clusters of its own image.   *)
CacheRight ==
    \A d \in Drives : DSK_INSERTED(d) =>
      \A t \in TrackNumbers :
        df[d].cache[t] = Ahead(Selected(df[d].img), t * SECTOR_COUNT).cluster

(* "Eject all floppies": no drive has a disk of a card that is gone.       *)
AllEjected ==
    [][EjectAllFloppies => \A d \in Drives : df'[d].status = {}]_vars
=============================================================================
