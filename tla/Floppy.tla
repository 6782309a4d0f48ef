------------------------------- MODULE Floppy -------------------------------
(***************************************************************************)
(* The disk controller of the Minimig core, src/cores/minimig/rtl/minimig/ *)
(* Floppy.v: the disk DMA of the Amiga on one side, the ARM over SPI on    *)
(* the other, a FIFO between them.  The chip is one record; every access   *)
(* of either side is an operator from the record before to the one after.  *)
(* What passes through the FIFO are pieces of a track, each some hundred   *)
(* words long: half a sector for reads, a sync, a header or the data of a  *)
(* sector for writes.  dsklen counts the pieces.                           *)
(***************************************************************************)
EXTENDS Integers, Sequences

CONSTANTS
    Drives,        \* the drives connected, counted from 0
    Heads,         \* where the heads can be: cylinder and side
    FifoHalf,      \* reads are not requested from this fill on, 1024 words
    FifoSize       \* 2048 words

ASSUME FloppyAssumption ==
    /\ Drives \subseteq Nat /\ 0 \in Drives /\ Heads \subseteq Nat /\ 0 \in Heads
    /\ FifoHalf \in Nat \ {0} /\ FifoSize \in Nat /\ FifoHalf < FifoSize

trackrd(c) == c.state = "active" /\ ~c.write /\ c.dsklen # 0
trackwr(c) == c.state = "active" /\ c.write

(* The request bits and the track in the first word of a frame. *)
CMD_RDTRK(c) == trackrd(c) /\ Len(c.fifo) < FifoHalf
CMD_WRTRK(c) == trackwr(c)
track(c) == c.dsktrack[c.sel]

PowerUp ==
    [sel |-> 0, dsktrack |-> [d \in Drives |-> 0], dmaen |-> FALSE,
     write |-> FALSE, dsklen |-> 0, state |-> "idle", fifo |-> <<>>,
     present |-> {}, change |-> Drives]

Stopped(c) == [c EXCEPT !.dmaen = FALSE, !.state = "idle", !.fifo = <<>>]

\* Mutant: the end of a transfer is only looked for when the Amiga reads.
CompletedReads(c) ==
    IF c.state = "active" /\ ~c.write /\ c.dsklen = 0 /\ c.fifo = <<>>
    THEN Stopped(c) ELSE c

(* Nothing left to transfer: DISKDMA_INT clears dmaen. *)
Completed(c) ==
    IF c.state = "active" /\ c.dsklen = 0 /\ c.fifo = <<>>
    THEN Stopped(c) ELSE c

-----------------------------------------------------------------------------
(* The ARM.                                                                *)

(* A frame, after the first word was latched: its second word starts the   *)
(* transfer the Amiga has enabled.                                         *)
Frame(c) ==
    IF c.state = "idle" /\ c.dmaen /\ c.dsklen # 0
    THEN [c EXCEPT !.state = "active"] ELSE c

(* A piece sent while the Amiga reads.  A full FIFO loses it, but dsklen   *)
(* counts it.                                                              *)
Send(c, piece) ==
    IF trackrd(c)
    THEN [c EXCEPT !.dsklen = @ - 1,
                   !.fifo = IF Len(@) < FifoSize THEN Append(@, piece) ELSE @]
    ELSE c

(* The first n pieces are fetched while the Amiga writes. *)
Fetch(c, n) == Completed([c EXCEPT !.fifo = SubSeq(@, n + 1, Len(@))])

(* UpdateDriveStatus(): the latch of the disk change is set while there is *)
(* no disk.                                                                *)
Present(c, disks) ==
    [c EXCEPT !.present = disks, !.change = @ \cup (Drives \ disks)]

-----------------------------------------------------------------------------
(* The Amiga.                                                              *)

(* DSKLEN written twice. *)
Enable(c, write, n) ==
    [c EXCEPT !.dmaen = TRUE, !.write = write, !.dsklen = n]

(* The heads move: the selected drive's latch is reset, if it has a disk. *)
Step(c, t) ==
    [c EXCEPT !.dsktrack[c.sel] = t, !.change = @ \ ({c.sel} \cap c.present)]

(* DMA to memory and from memory. *)
ToMemory(c) == Completed([c EXCEPT !.fifo = Tail(@)])
FromMemory(c, piece) ==
    [c EXCEPT !.dsklen = @ - 1, !.fifo = Append(@, piece)]
=============================================================================
