------------------------------- MODULE Usart -------------------------------
(***************************************************************************)
(* The serial port of the ARM, src/firmware/hardware.c: two rings between  *)
(* the main loop (USART_Write(), USART_Poll()) and the interrupt handler,  *)
(* which may run between any two accesses of the main loop to memory or to *)
(* a register, and the transmitter with its holding and shift registers.   *)
(* Nothing is ever locked: each index is written by one side only.  Bytes  *)
(* are numbered, the ones to be sent in the order they are handed to       *)
(* USART_Write(), the ones received in the order they enter the ring.      *)
(***************************************************************************)
EXTENDS Integers

CONSTANTS
    Size,          \* of either ring, 256: indices are unsigned char
    MaxBytes       \* bound: bytes written, and bytes that arrive

ASSUME UsartAssumption ==
    /\ Size \in Nat \ {0, 1}
    /\ MaxBytes \in Nat

VARIABLES
    tx_buf, tx_rptr, tx_wptr,
    rx_buf, rx_rptr, rx_wptr,
    thr,           \* US_THR, the byte that waits for the shift register
    shift,         \* the byte that is being sent
    rhr,           \* a received byte waits in US_RHR
    tx_irq,        \* the interrupt AT91C_US_TXRDY is enabled
    pc,            \* where in USART_Write() or USART_Poll() the main loop is
    slot,          \* the entry of the ring it is about to access
    given,         \* bytes handed to USART_Write()
    sent,          \* the last byte sent
    arrived,       \* bytes that arrived
    stored,        \* bytes put into the receive ring
    taken,         \* the last byte USART_Poll() took out of it
    stale          \* a byte was sent from an entry that was not filled yet

tx == <<tx_buf, tx_rptr, tx_wptr, tx_irq>>
rx == <<rx_buf, rx_rptr, rx_wptr>>
uart == <<thr, shift, rhr, arrived>>
vars == <<tx, rx, uart, pc, slot, given, sent, stored, taken, stale>>

Slots == 0 .. Size - 1
None == -1                           \* no byte in the register

\* Mutant: an index that is wider than its ring.
SuccNoWrap(i) == i + 1

(* The next index: an unsigned char wraps around. *)
Succ(i) == IF i = Size - 1 THEN 0 ELSE i + 1

(* How far entry i is behind entry r. *)
Dist(r, i) == IF i >= r THEN i - r ELSE i - r + Size

-----------------------------------------------------------------------------
(* USART_Write(): the status register is read first ...                    *)
ReadStatus ==
    /\ pc = "main"
    /\ given < MaxBytes
    /\ given' = given + 1
    /\ pc' = IF thr = None THEN "test" ELSE "wait"
    /\ UNCHANGED <<tx, rx, uart, slot, sent, stored, taken, stale>>

(* ... and the indices after it. *)
TestEmpty ==
    /\ pc = "test"
    /\ pc' = IF tx_wptr = tx_rptr THEN "direct" ELSE "wait"
    /\ UNCHANGED <<tx, rx, uart, slot, given, sent, stored, taken, stale>>

(* "transmitter ready and buffer empty? -> send directly" *)
SendDirectly ==
    /\ pc = "direct"
    /\ thr' = given
    /\ pc' = "enable"
    /\ UNCHANGED <<tx, rx, shift, rhr, arrived, slot, given, sent, stored,
                   taken, stale>>

(* "block until space in buffer" *)
WaitForSpace ==
    /\ pc = "wait"
    /\ Succ(tx_wptr) # tx_rptr
    /\ pc' = "put"
    /\ UNCHANGED <<tx, rx, uart, slot, given, sent, stored, taken, stale>>

(* tx_buf[tx_wptr++] = c: in C either the entry or the index may be        *)
(* written first.                                                          *)
Put ==
    /\ pc = "put"
    /\ slot' = tx_wptr
    /\ \/ /\ tx_buf' = [tx_buf EXCEPT ![tx_wptr] = given]
          /\ pc' = "index"
          /\ UNCHANGED tx_wptr
       \/ /\ tx_wptr' = Succ(tx_wptr)
          /\ pc' = "fill"
          /\ UNCHANGED tx_buf
    /\ UNCHANGED <<tx_rptr, tx_irq, rx, uart, given, sent, stored, taken, stale>>

PutIndex ==
    /\ pc = "index"
    /\ tx_wptr' = Succ(slot)
    /\ pc' = "enable"
    /\ UNCHANGED <<tx_buf, tx_rptr, tx_irq, rx, uart, slot, given, sent, stored,
                   taken, stale>>

PutEntry ==
    /\ pc = "fill"
    /\ tx_buf' = [tx_buf EXCEPT ![slot] = given]
    /\ pc' = "enable"
    /\ UNCHANGED <<tx_rptr, tx_wptr, tx_irq, rx, uart, slot, given, sent, stored,
                   taken, stale>>

\* Mutant: the interrupt is enabled only when the byte is in the transmitter.
EnableWhenSending ==
    /\ pc = "enable"
    /\ tx_irq' = (thr # None)
    /\ pc' = "main"
    /\ UNCHANGED <<tx_buf, tx_rptr, tx_wptr, rx, uart, slot, given, sent, stored,
                   taken, stale>>

(* Either way the transmit interrupt is enabled at the end. *)
EnableInterrupt ==
    /\ pc = "enable"
    /\ tx_irq' = TRUE
    /\ pc' = "main"
    /\ UNCHANGED <<tx_buf, tx_rptr, tx_wptr, rx, uart, slot, given, sent, stored,
                   taken, stale>>

USART_Write ==
    \/ ReadStatus \/ TestEmpty \/ SendDirectly \/ WaitForSpace
    \/ Put \/ PutIndex \/ PutEntry \/ EnableInterrupt

-----------------------------------------------------------------------------
(* USART_Poll(), one turn of its loop: chr = rx_buf[rx_rptr++], again in   *)
(* either order.  What is done with the byte may call USART_Write().       *)
USART_Poll ==
    /\ pc = "main"
    /\ rx_wptr # rx_rptr
    /\ slot' = rx_rptr
    /\ \/ /\ rx_rptr' = Succ(rx_rptr)
          /\ pc' = "take"
          /\ UNCHANGED taken
       \/ /\ taken' = rx_buf[rx_rptr]
          /\ pc' = "advance"
          /\ UNCHANGED rx_rptr
    /\ UNCHANGED <<tx, rx_buf, rx_wptr, uart, given, sent, stored, stale>>

TakeByte ==
    /\ pc = "take"
    /\ taken' = rx_buf[slot]
    /\ pc' = "main"
    /\ UNCHANGED <<tx, rx, uart, slot, given, sent, stored, stale>>

Advance ==
    /\ pc = "advance"
    /\ rx_rptr' = Succ(slot)
    /\ pc' = "main"
    /\ UNCHANGED <<tx, rx_buf, rx_wptr, uart, slot, given, sent, stored, taken,
                   stale>>

MainLoop == USART_Write \/ USART_Poll \/ TakeByte \/ Advance

-----------------------------------------------------------------------------
(* Usart0IrqHandler(): one read of the status, then both halves.           *)

\* Mutant: the test for space is missing.
StoreAlways ==
    /\ rx_buf' = [rx_buf EXCEPT ![rx_wptr] = stored + 1]
    /\ rx_wptr' = Succ(rx_wptr)
    /\ stored' = stored + 1

StoreByte ==
    IF Succ(rx_wptr) # rx_rptr
    THEN /\ rx_buf' = [rx_buf EXCEPT ![rx_wptr] = stored + 1]
         /\ rx_wptr' = Succ(rx_wptr)
         /\ stored' = stored + 1
    ELSE UNCHANGED <<rx_buf, rx_wptr, stored>>

Receive ==
    IF rhr THEN /\ StoreByte
                /\ rhr' = FALSE
    ELSE UNCHANGED <<rx_buf, rx_wptr, stored, rhr>>

(* The main loop has moved the index past an entry it has yet to fill.     *)
Unfilled == pc = "fill" /\ tx_rptr = slot

\* Mutant: the newest byte is sent first.
TransmitNewest ==
    IF thr # None THEN UNCHANGED <<thr, tx_rptr, tx_irq, stale>>
    ELSE IF tx_wptr # tx_rptr
    THEN /\ thr' = tx_buf[IF tx_wptr = 0 THEN Size - 1 ELSE tx_wptr - 1]
         /\ tx_rptr' = Succ(tx_rptr)
         /\ stale' = (stale \/ Unfilled)
         /\ UNCHANGED tx_irq
    ELSE /\ tx_irq' = FALSE
         /\ UNCHANGED <<thr, tx_rptr, stale>>

Transmit ==
    IF thr # None THEN UNCHANGED <<thr, tx_rptr, tx_irq, stale>>
    ELSE IF tx_wptr # tx_rptr
    THEN /\ thr' = tx_buf[tx_rptr]
         /\ tx_rptr' = Succ(tx_rptr)
         /\ stale' = (stale \/ Unfilled)
         /\ UNCHANGED tx_irq
    ELSE /\ tx_irq' = FALSE
         /\ UNCHANGED <<thr, tx_rptr, stale>>

Usart0IrqHandler ==
    /\ rhr \/ (thr = None /\ tx_irq)
    /\ Receive
    /\ Transmit
    /\ UNCHANGED <<tx_buf, tx_wptr, rx_rptr, shift, arrived, pc, slot, given,
                   sent, taken>>

-----------------------------------------------------------------------------
(* The transmitter and the line (external).  The handler takes a received  *)
(* byte before the next one is there.                                      *)
Load ==
    /\ thr # None /\ shift = None
    /\ shift' = thr
    /\ thr' = None
    /\ UNCHANGED <<tx, rx, rhr, arrived, pc, slot, given, sent, stored, taken,
                   stale>>

ShiftOut ==
    /\ shift # None
    /\ sent' = shift
    /\ shift' = None
    /\ UNCHANGED <<tx, rx, thr, rhr, arrived, pc, slot, given, stored, taken,
                   stale>>

Arrive ==
    /\ ~rhr
    /\ arrived < MaxBytes
    /\ arrived' = arrived + 1
    /\ rhr' = TRUE
    /\ UNCHANGED <<tx, rx, thr, shift, pc, slot, given, sent, stored, taken,
                   stale>>

-----------------------------------------------------------------------------

Init ==
    /\ tx_buf = [i \in Slots |-> 0] /\ tx_rptr = 0 /\ tx_wptr = 0
    /\ rx_buf = [i \in Slots |-> 0] /\ rx_rptr = 0 /\ rx_wptr = 0
    /\ thr = None /\ shift = None /\ rhr = FALSE
    /\ tx_irq = FALSE
    /\ pc = "main" /\ slot = 0
    /\ given = 0 /\ sent = 0 /\ arrived = 0 /\ stored = 0 /\ taken = 0
    /\ stale = FALSE

Line == Load \/ ShiftOut \/ Arrive

Next == MainLoop \/ Usart0IrqHandler \/ Line

Spec == Init /\ [][Next]_vars

(* A call that has begun goes on, an interrupt that is pending is taken,   *)
(* and the transmitter transmits.                                          *)
Fairness ==
    /\ WF_vars(pc # "main" /\ MainLoop)
    /\ WF_vars(Usart0IrqHandler)
    /\ WF_vars(Load) /\ WF_vars(ShiftOut)

FairSpec == Spec /\ Fairness

-----------------------------------------------------------------------------
(* Properties.                                                             *)

PCs == {"main", "test", "direct", "wait", "put", "index", "fill", "enable",
        "take", "advance"}

TypeOK ==
    /\ tx_buf \in [Slots -> Nat] /\ tx_rptr \in Slots /\ tx_wptr \in Slots
    /\ rx_buf \in [Slots -> Nat] /\ rx_rptr \in Slots /\ rx_wptr \in Slots
    /\ thr \in Nat \cup {None} /\ shift \in Nat \cup {None} /\ rhr \in BOOLEAN
    /\ tx_irq \in BOOLEAN
    /\ pc \in PCs /\ slot \in Slots
    /\ given \in Nat /\ sent \in Nat /\ arrived \in Nat
    /\ stored \in Nat /\ taken \in Nat
    /\ stale \in BOOLEAN

(* Every byte that was put into the receive ring is taken out of it once   *)
(* and in order, in whichever order the index and the entry are accessed.  *)
RxInOrder == [][taken' = taken \/ taken' = taken + 1]_vars
RxKept == pc = "main" => stored - taken = Dist(rx_rptr, rx_wptr)

(* Bytes leave in the order they were handed to USART_Write(), whether     *)
(* directly or through the ring, and none leaves twice; unless the handler *)
(* saw the index of an entry that was not filled yet.                      *)
TxInOrder == [][sent' = sent \/ sent' > sent \/ stale]_vars

(* While bytes wait in the ring and no USART_Write() is under way, the     *)
(* interrupt that is to send them is enabled, though the handler disables  *)
(* it whenever it finds the ring empty.                                    *)
InterruptEnabled == pc = "main" /\ tx_wptr # tx_rptr => tx_irq

(* USART_Write() returns, also when the ring is full, and the ring is      *)
(* emptied in the end.                                                     *)
WriteReturns == pc # "main" ~> pc = "main"
RingEmptied == tx_wptr # tx_rptr ~> tx_wptr = tx_rptr
AllSent == WriteReturns /\ RingEmptied

(* "transmitter ready and buffer empty? -> send directly" (hardware.c:198):*)
(* no byte in the transmitter is overwritten.                              *)
TransmitterReady == pc = "direct" => thr = None
=============================================================================
