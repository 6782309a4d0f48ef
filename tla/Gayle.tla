------------------------------- MODULE Gayle -------------------------------
(***************************************************************************)
(* The disk interface of the Minimig core, src/cores/minimig/rtl/minimig/  *)
(* Gayle.v: the ATA registers ("task file") and the sector FIFO that the   *)
(* Amiga sees on one side and the ARM, over SPI, on the other.  The chip   *)
(* is one record; every access of either side is an operator from the      *)
(* record before to the record after it.  Sectors move as a whole: the     *)
(* Amiga is stalled (nrdy) while the word it wants is not in the FIFO.     *)
(***************************************************************************)
EXTENDS Integers, Sequences

CONSTANTS
    CountMod,      \* values of the sector count register, 256
    FifoSectors    \* sectors the FIFO holds, 16

ASSUME GayleAssumption ==
    /\ CountMod \in Nat \ {0, 1}
    /\ FifoSectors \in Nat \ {0}

full(g) == g.fifo # <<>>
drq(g) == (full(g) /\ g.pio_in) \/ (~full(g) /\ g.pio_out)
bsy(g) == g.busy /\ ~drq(g)

(* The two request bits the ARM polls and the interrupt of the Amiga. *)
hdd_cmd_req(g) == bsy(g)
hdd_dat_req(g) == full(g) /\ g.pio_out
irq(g) == (~g.pio_in \/ drq(g)) /\ g.intreq

(* pio_in falls when the drive is ready, that is neither busy nor waiting  *)
(* for the Amiga to take data.                                             *)
Settled(g) == [g EXCEPT !.pio_in = g.pio_in /\ (g.busy \/ full(g))]

PowerUp(regs) ==
    [busy |-> FALSE, pio_in |-> FALSE, pio_out |-> FALSE, intreq |-> FALSE,
     error |-> FALSE, tfr |-> regs, sector_count |-> 0, fifo |-> <<>>]

(* The reset of the Amiga: the registers and the sector counter stay. *)
Cleared(g) ==
    [PowerUp(g.tfr) EXCEPT !.sector_count = g.sector_count]

-----------------------------------------------------------------------------
(* The ARM.                                                                *)

(* WriteTaskFile(): reaches the registers only while the drive is busy,    *)
(* and never the command register.                                         *)
TaskFile(g, regs) ==
    IF g.busy THEN [g EXCEPT !.tfr = [regs EXCEPT !.cmd = g.tfr.cmd]] ELSE g

(* WriteStatus(), bits being the names of IDE_STATUS_.... *)
Status(g, bits) ==
    LET b == IF g.busy THEN bits ELSE {}
    IN  Settled([g EXCEPT
            !.busy = @ /\ "END" \notin b,
            !.intreq = @ \/ "IRQ" \in b,
            !.pio_in = @ \/ "RDY" \in b,
            !.pio_out = IF "END" \in b THEN FALSE ELSE @ \/ "REQ" \in b,
            !.error = @ \/ "ERR" \in b])

(* A sector from the ARM or straight from the card. *)
Put(g, d) == IF g.pio_in THEN [g EXCEPT !.fifo = Append(@, d)] ELSE g

(* CMD_IDE_DATA_RD: the ARM takes the sector at the head. *)
Taken(g) == [g EXCEPT !.fifo = Tail(@)]

-----------------------------------------------------------------------------
(* The Amiga.                                                              *)

(* The registers and, as the last of them, the command. *)
Command(g, regs) ==
    [g EXCEPT !.tfr = regs, !.sector_count = regs.count, !.busy = TRUE,
              !.error = FALSE, !.fifo = <<>>]

(* INTREQ is cleared by writing zero to it. *)
ClearInt(g) == [g EXCEPT !.intreq = FALSE]

(* The last word of a sector is read: the sector counter ends the command. *)
ReadSector(g) ==
    LET h == [g EXCEPT !.fifo = Tail(@)]
    IN  IF g.pio_in
        THEN Settled([h EXCEPT
                 !.sector_count = (@ + CountMod - 1) % CountMod,
                 !.busy = @ /\ g.sector_count # 1])
        ELSE h

WriteSector(g, d) == [g EXCEPT !.fifo = Append(@, d)]
=============================================================================
