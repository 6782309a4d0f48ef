---------------------------- MODULE UsartProofs ----------------------------
(***************************************************************************)
(* What TLAPS proves of Usart for rings of any size: the types, that the   *)
(* receive ring hands over every byte once and in order, that bytes are    *)
(* sent in order, and that the transmit interrupt is enabled while bytes   *)
(* wait, wherever the interrupt handler cuts in.                           *)
(***************************************************************************)
EXTENDS Usart, TLAPS

USE UsartAssumption DEF Slots, None

(* An index stays in the ring. *)
LEMMA SuccInRing == \A i \in Slots : Succ(i) \in Slots /\ Succ(i) # i
BY DEF Succ

(* Distances in the ring are less than its size, and zero for the entry    *)
(* itself only.                                                            *)
LEMMA DistRange ==
    \A r, i \in Slots : /\ Dist(r, i) \in 0 .. Size - 1
                        /\ Dist(r, i) = 0 <=> i = r
BY DEF Dist

(* The next entry is one further, unless that is where counting starts.    *)
LEMMA DistNext ==
    \A r, i \in Slots : Succ(i) # r => Dist(r, Succ(i)) = Dist(r, i) + 1
BY DEF Succ, Dist

(* From the next entry on all distances are one less, but for the entry    *)
(* that was left: it is now the last.                                      *)
LEMMA DistAdvance ==
    \A r, i \in Slots : Dist(Succ(r), i) = IF i = r THEN Size - 1
                                           ELSE Dist(r, i) - 1
BY DEF Succ, Dist

(* Different entries are at different distances. *)
LEMMA DistInjective ==
    ASSUME NEW r \in Slots, NEW i \in Slots, NEW j \in Slots,
           Dist(r, i) = Dist(r, j)
    PROVE  i = j
BY DEF Dist

-----------------------------------------------------------------------------
(* Every step keeps the types.                                             *)
LEMMA TypeStep == TypeOK /\ [Next]_vars => TypeOK'
<1> SUFFICES ASSUME TypeOK, [Next]_vars PROVE TypeOK'
  OBVIOUS
<1> USE DEF TypeOK, PCs, tx, rx, uart, Succ
<1>1. CASE ReadStatus \/ TestEmpty \/ SendDirectly \/ WaitForSpace
  <2>1. CASE ReadStatus
    BY <2>1 DEF ReadStatus
  <2>2. CASE TestEmpty
    BY <2>2 DEF TestEmpty
  <2>3. CASE SendDirectly
    BY <2>3 DEF SendDirectly
  <2>4. CASE WaitForSpace
    BY <2>4 DEF WaitForSpace
  <2> QED
    BY <1>1, <2>1, <2>2, <2>3, <2>4
<1>2. CASE Put \/ PutIndex \/ PutEntry \/ EnableInterrupt
  <2>1. CASE Put
    <3>1. tx_buf' \in [Slots -> Nat]
      BY <2>1 DEF Put
    <3>2. tx_wptr' \in Slots
      BY <2>1 DEF Put
    <3> QED
      BY <2>1, <3>1, <3>2 DEF Put
  <2>2. CASE PutIndex
    BY <2>2 DEF PutIndex
  <2>3. CASE PutEntry
    BY <2>3 DEF PutEntry
  <2>4. CASE EnableInterrupt
    BY <2>4 DEF EnableInterrupt
  <2> QED
    BY <1>2, <2>1, <2>2, <2>3, <2>4
<1>3. CASE USART_Poll \/ TakeByte \/ Advance
  <2>1. CASE USART_Poll
    BY <2>1, SMTT(30) DEF USART_Poll
  <2>2. CASE TakeByte
    BY <2>2 DEF TakeByte
  <2>3. CASE Advance
    BY <2>3 DEF Advance
  <2> QED
    BY <1>3, <2>1, <2>2, <2>3
<1>4. CASE Usart0IrqHandler
  <2>1. /\ rx_buf' \in [Slots -> Nat] /\ rx_wptr' \in Slots /\ stored' \in Nat
    <3>1. CASE UNCHANGED <<rx_buf, rx_wptr, stored>>
      BY <3>1
    <3>2. ASSUME rx_buf' = [rx_buf EXCEPT ![rx_wptr] = stored + 1],
                 rx_wptr' = Succ(rx_wptr), stored' = stored + 1
          PROVE  /\ rx_buf' \in [Slots -> Nat] /\ rx_wptr' \in Slots
                 /\ stored' \in Nat
      BY <3>2
    <3> QED
      BY <1>4, <3>1, <3>2 DEF Usart0IrqHandler, Receive, StoreByte
  <2>2. rhr' \in BOOLEAN
    BY <1>4, Zenon DEF Usart0IrqHandler, Receive
  <2>3. thr' \in Nat \cup {None} /\ tx_rptr' \in Slots
    BY <1>4 DEF Usart0IrqHandler, Transmit
  <2>4. tx_irq' \in BOOLEAN /\ stale' \in BOOLEAN
    BY <1>4, Zenon DEF Usart0IrqHandler, Transmit
  <2> QED
    BY <1>4, <2>1, <2>2, <2>3, <2>4 DEF Usart0IrqHandler
<1>5. CASE Line
  <2>1. CASE Load
    BY <2>1 DEF Load
  <2>2. CASE ShiftOut
    BY <2>2 DEF ShiftOut
  <2>3. CASE Arrive
    BY <2>3 DEF Arrive
  <2> QED
    BY <1>5, <2>1, <2>2, <2>3 DEF Line
<1>6. CASE UNCHANGED vars
  BY <1>6 DEF vars
<1> QED
  BY <1>1, <1>2, <1>3, <1>4, <1>5, <1>6 DEF Next, MainLoop, USART_Write

(* Every variable of the rings and of the transmitter keeps its type; the  *)
(* indices in particular never leave the ring.                             *)
THEOREM TypeCorrect == Spec => []TypeOK
<1>1. Init => TypeOK
  <2> SUFFICES ASSUME Init PROVE TypeOK
    OBVIOUS
  <2>1. rhr \in BOOLEAN /\ tx_irq \in BOOLEAN /\ stale \in BOOLEAN
    BY Zenon DEF Init
  <2> QED
    BY <2>1 DEF Init, TypeOK, PCs
<1> QED
  BY <1>1, TypeStep, PTL DEF Spec

-----------------------------------------------------------------------------
(* The receive ring.                                                       *)

(* The number of the byte at the index of the main loop: the next one, the *)
(* one after it while that is taken behind the index, or the last one      *)
(* while the index is behind.                                              *)
FirstStored == IF pc = "take" THEN taken + 2
               ELSE IF pc = "advance" THEN taken ELSE taken + 1

(* The ring holds consecutive bytes, up to the last one stored; and the    *)
(* entry that is read behind the index is the one the handler never fills. *)
RxInv ==
    /\ stored = FirstStored + Dist(rx_rptr, rx_wptr) - 1
    /\ \A i \in Slots : Dist(rx_rptr, i) < Dist(rx_rptr, rx_wptr) =>
          rx_buf[i] = FirstStored + Dist(rx_rptr, i)
    /\ pc = "take" => Succ(slot) = rx_rptr /\ rx_buf[slot] = taken + 1
    /\ pc = "advance" => slot = rx_rptr /\ rx_wptr # rx_rptr

(* Every step keeps it: USART_Poll() in either order, and the handler      *)
(* wherever it cuts in.                                                    *)
LEMMA RxStep == TypeOK /\ RxInv /\ [Next]_vars => RxInv'
<1> SUFFICES ASSUME TypeOK, RxInv, [Next]_vars PROVE RxInv'
  OBVIOUS
<1>t. /\ rx_rptr \in Slots /\ rx_wptr \in Slots /\ slot \in Slots
      /\ rx_buf \in [Slots -> Nat] /\ stored \in Nat /\ taken \in Nat
  BY DEF TypeOK
<1>d. Dist(rx_rptr, rx_wptr) \in 0 .. Size - 1
  BY <1>t, DistRange
<1>1. CASE USART_Write
  <2>1. /\ pc \notin {"take", "advance"} /\ pc' \notin {"take", "advance"}
        /\ UNCHANGED <<rx, stored, taken>>
    BY <1>1 DEF USART_Write, ReadStatus, TestEmpty, SendDirectly, WaitForSpace,
                Put, PutIndex, PutEntry, EnableInterrupt
  <2> QED
    BY <2>1 DEF RxInv, FirstStored, rx
<1>2. CASE USART_Poll
  <2>1. /\ pc = "main" /\ slot' = rx_rptr /\ rx_wptr # rx_rptr
        /\ UNCHANGED <<rx_buf, rx_wptr, stored>>
    BY <1>2 DEF USART_Poll
  <2>f. FirstStored = taken + 1
    BY <2>1 DEF FirstStored
  <2>2. Dist(rx_rptr, rx_wptr) > 0
    BY <1>t, <1>d, <2>1, DistRange
  <2>3. rx_buf[rx_rptr] = taken + 1
    <3>1. Dist(rx_rptr, rx_rptr) = 0
      BY <1>t, DistRange
    <3> QED
      BY <1>t, <2>1, <2>2, <3>1 DEF RxInv, FirstStored
  <2>4. CASE rx_rptr' = Succ(rx_rptr) /\ pc' = "take" /\ UNCHANGED taken
    <3>1. Dist(rx_rptr', rx_wptr) = Dist(rx_rptr, rx_wptr) - 1
      BY <1>t, <2>1, <2>4, DistAdvance
    <3>2. ASSUME NEW i \in Slots, Dist(rx_rptr', i) < Dist(rx_rptr', rx_wptr)
          PROVE  rx_buf[i] = taken + 2 + Dist(rx_rptr', i)
      <4>1. Dist(rx_rptr', i) = Dist(rx_rptr, i) - 1
        BY <1>t, <1>d, <2>4, <3>1, <3>2, DistRange, DistAdvance
      <4>2. Dist(rx_rptr, i) \in 0 .. Size - 1
        BY <1>t, DistRange
      <4>3. Dist(rx_rptr, i) < Dist(rx_rptr, rx_wptr)
        BY <1>d, <3>1, <3>2, <4>1, <4>2
      <4>4. rx_buf[i] = taken + 1 + Dist(rx_rptr, i)
        BY <2>f, <4>3 DEF RxInv
      <4> QED
        BY <1>t, <4>1, <4>2, <4>4
    <3>3. stored = taken + 2 + Dist(rx_rptr', rx_wptr) - 1
      <4>1. stored = taken + 1 + Dist(rx_rptr, rx_wptr) - 1
        BY <2>f DEF RxInv
      <4> QED
        BY <1>t, <1>d, <3>1, <4>1, SMTT(30)
    <3> QED
      BY <1>t, <2>1, <2>3, <2>4, <3>2, <3>3 DEF RxInv, FirstStored
  <2>5. CASE taken' = rx_buf[rx_rptr] /\ pc' = "advance" /\ UNCHANGED rx_rptr
    BY <1>t, <2>1, <2>3, <2>5 DEF RxInv, FirstStored
  <2> QED
    BY <1>2, <2>4, <2>5 DEF USART_Poll
<1>3. CASE TakeByte
  <2>1. /\ pc = "take" /\ pc' = "main" /\ taken' = taken + 1
        /\ UNCHANGED <<rx, stored>>
    BY <1>3 DEF TakeByte, RxInv
  <2> QED
    BY <1>t, <2>1 DEF RxInv, FirstStored, rx
<1>4. CASE Advance
  <2>1. /\ pc = "advance" /\ pc' = "main" /\ rx_rptr' = Succ(rx_rptr)
        /\ rx_wptr # rx_rptr
        /\ UNCHANGED <<rx_buf, rx_wptr, stored, taken>>
    BY <1>4 DEF Advance, RxInv
  <2>f. FirstStored = taken
    BY <2>1 DEF FirstStored
  <2>2. Dist(rx_rptr', rx_wptr) = Dist(rx_rptr, rx_wptr) - 1
    BY <1>t, <2>1, DistAdvance
  <2>3. ASSUME NEW i \in Slots, Dist(rx_rptr', i) < Dist(rx_rptr', rx_wptr)
        PROVE  rx_buf[i] = taken + 1 + Dist(rx_rptr', i)
    <3>1. Dist(rx_rptr', i) = Dist(rx_rptr, i) - 1
      BY <1>t, <1>d, <2>1, <2>2, <2>3, DistRange, DistAdvance
    <3>2. Dist(rx_rptr, i) \in 0 .. Size - 1
      BY <1>t, DistRange
    <3>3. Dist(rx_rptr, i) < Dist(rx_rptr, rx_wptr)
      BY <1>d, <2>2, <2>3, <3>1, <3>2
    <3>4. rx_buf[i] = taken + Dist(rx_rptr, i)
      BY <2>f, <3>3 DEF RxInv
    <3> QED
      BY <1>t, <3>1, <3>2, <3>4
  <2>4. stored = taken + 1 + Dist(rx_rptr', rx_wptr) - 1
    <3>1. stored = taken + Dist(rx_rptr, rx_wptr) - 1
      BY <2>f DEF RxInv
    <3> QED
      BY <1>t, <1>d, <2>2, <3>1, SMTT(30)
  <2> QED
    BY <2>1, <2>3, <2>4 DEF RxInv, FirstStored
<1>5. CASE Usart0IrqHandler
  <2>1. UNCHANGED <<rx_rptr, pc, slot, taken>>
    BY <1>5 DEF Usart0IrqHandler
  <2>2. CASE UNCHANGED <<rx_buf, rx_wptr, stored>>
    BY <2>1, <2>2 DEF RxInv, FirstStored
  <2>3. ASSUME Succ(rx_wptr) # rx_rptr,
               rx_buf' = [rx_buf EXCEPT ![rx_wptr] = stored + 1],
               rx_wptr' = Succ(rx_wptr), stored' = stored + 1
        PROVE  RxInv'
    <3>1. Dist(rx_rptr, rx_wptr') = Dist(rx_rptr, rx_wptr) + 1
      BY <1>t, <2>3, DistNext
    <3>2. rx_buf'[rx_wptr] = stored + 1
      BY <1>t, <2>3
    <3>3. stored + 1 = FirstStored + Dist(rx_rptr, rx_wptr)
      <4>1. stored = FirstStored + Dist(rx_rptr, rx_wptr) - 1
        BY DEF RxInv
      <4>2. FirstStored \in Int
        BY <1>t DEF FirstStored
      <4> QED
        BY <1>t, <1>d, <4>1, <4>2, SMTT(30)
    <3>4. ASSUME NEW i \in Slots, Dist(rx_rptr, i) < Dist(rx_rptr, rx_wptr')
          PROVE  rx_buf'[i] = FirstStored + Dist(rx_rptr, i)
      <4>1. CASE i = rx_wptr
        BY <3>2, <3>3, <4>1
      <4>2. CASE i # rx_wptr
        <5>1. Dist(rx_rptr, i) < Dist(rx_rptr, rx_wptr)
          <6>1. Dist(rx_rptr, i) # Dist(rx_rptr, rx_wptr)
            BY <1>t, <4>2, DistInjective
          <6>2. Dist(rx_rptr, i) \in 0 .. Size - 1
            BY <1>t, DistRange
          <6> QED
            BY <1>d, <3>1, <3>4, <6>1, <6>2
        <5> QED
          BY <1>t, <2>3, <4>2, <5>1 DEF RxInv
      <4> QED
        BY <4>1, <4>2
    <3>5. pc = "take" => rx_buf'[slot] = rx_buf[slot]
      BY <1>t, <2>3 DEF RxInv
    <3>6. rx_wptr' # rx_rptr
      BY <2>3
    <3>7. FirstStored' = FirstStored
      BY <2>1 DEF FirstStored
    <3>8. FirstStored \in Int
      BY <1>t DEF FirstStored
    <3>9. stored' = FirstStored' + Dist(rx_rptr', rx_wptr') - 1
      BY <1>t, <1>d, <2>1, <2>3, <3>1, <3>3, <3>7, <3>8
    <3>10. \A i \in Slots : Dist(rx_rptr', i) < Dist(rx_rptr', rx_wptr') =>
              rx_buf'[i] = FirstStored' + Dist(rx_rptr', i)
      BY <2>1, <3>4, <3>7
    <3> QED
      BY <2>1, <3>5, <3>6, <3>9, <3>10 DEF RxInv
  <2> QED
    BY <1>5, <2>2, <2>3 DEF Usart0IrqHandler, Receive, StoreByte
<1>6. CASE Line \/ UNCHANGED vars
  <2>1. UNCHANGED <<rx, pc, slot, taken, stored>>
    BY <1>6 DEF Line, Load, ShiftOut, Arrive, vars
  <2> QED
    BY <2>1 DEF RxInv, FirstStored, rx
<1> QED
  BY <1>1, <1>2, <1>3, <1>4, <1>5, <1>6 DEF Next, MainLoop

(* The ring is empty at the start. *)
LEMMA RxStart == Init => RxInv
BY DEF Init, RxInv, FirstStored, Dist

(* What is in the receive ring is what was stored and not yet taken.       *)
THEOREM RxKeptCorrect == Spec => []RxKept
<1>1. TypeOK /\ RxInv => RxKept
  <2> SUFFICES ASSUME TypeOK, RxInv, pc = "main"
               PROVE  stored - taken = Dist(rx_rptr, rx_wptr)
    BY DEF RxKept
  <2>1. Dist(rx_rptr, rx_wptr) \in Int /\ stored \in Int /\ taken \in Int
    BY DistRange DEF TypeOK
  <2>2. stored = taken + 1 + Dist(rx_rptr, rx_wptr) - 1
    BY DEF RxInv, FirstStored
  <2> QED
    BY <2>1, <2>2
<1> QED
  BY <1>1, RxStart, RxStep, TypeCorrect, PTL DEF Spec

(* Every byte that was stored is handed over once and in order, for rings  *)
(* of any size and wherever the handler interrupts USART_Poll().           *)
THEOREM RxInOrderCorrect == Spec => RxInOrder
<1> DEFINE A == taken' = taken \/ taken' = taken + 1
<1>1. TypeOK /\ RxInv /\ [Next]_vars => [A]_vars
  <2> SUFFICES ASSUME TypeOK, RxInv, Next PROVE A
    OBVIOUS
  <2>1. CASE USART_Poll
    <3>1. CASE taken' = taken
      BY <3>1
    <3>2. CASE taken' = rx_buf[rx_rptr]
      <4>1. pc = "main" /\ rx_wptr # rx_rptr
        BY <2>1 DEF USART_Poll
      <4>2. Dist(rx_rptr, rx_wptr) > 0 /\ Dist(rx_rptr, rx_rptr) = 0
        BY <4>1 DEF TypeOK, Dist
      <4> QED
        BY <3>2, <4>1, <4>2 DEF TypeOK, RxInv, FirstStored
    <3> QED
      BY <2>1, <3>1, <3>2 DEF USART_Poll
  <2>2. CASE TakeByte
    BY <2>2 DEF TakeByte, RxInv
  <2>3. CASE UNCHANGED taken
    BY <2>3
  <2> QED
    BY <2>1, <2>2, <2>3
    DEF Next, MainLoop, USART_Write, ReadStatus, TestEmpty, SendDirectly,
        WaitForSpace, Put, PutIndex, PutEntry, EnableInterrupt, Advance,
        Usart0IrqHandler, Line, Load, ShiftOut, Arrive
<1> QED
  BY <1>1, RxStart, RxStep, TypeCorrect, PTL DEF Spec, RxInOrder

-----------------------------------------------------------------------------
(* The transmit ring.                                                      *)

(* The number of the last byte that went into the ring or the transmitter. *)
Before == {"test", "direct", "wait", "put", "index"}
Newest == IF pc \in Before THEN given - 1 ELSE given
Waiting == Dist(tx_rptr, tx_wptr)

TxRingInv ==
    /\ Waiting <= Newest
    /\ \A i \in Slots : Dist(tx_rptr, i) < Waiting /\ ~(pc = "fill" /\ i = slot) =>
          tx_buf[i] = Newest - Waiting + 1 + Dist(tx_rptr, i)
    /\ pc = "direct" => tx_wptr = tx_rptr
    /\ pc \in {"put", "index"} => Succ(tx_wptr) # tx_rptr
    /\ pc = "index" => slot = tx_wptr /\ tx_buf[slot] = given
    /\ pc = "fill" => tx_wptr = Succ(slot)

(* Whoever has left the ring is older than what waits in it, and younger   *)
(* the later it left.                                                      *)
TxOrderInv ==
    ~stale => /\ sent <= Newest - Waiting
              /\ shift # None => sent < shift /\ shift <= Newest - Waiting
              /\ thr # None => sent < thr /\ thr <= Newest - Waiting
              /\ thr # None /\ shift # None => shift < thr

(* While bytes wait only a USART_Write() that is about to enable the       *)
(* interrupt finds it disabled.                                            *)
InterruptInv ==
    tx_wptr # tx_rptr /\ pc \notin {"fill", "enable"} => tx_irq

(* At the start nothing waits and nothing is being sent. *)
LEMMA TxStart == Init => TxRingInv /\ TxOrderInv /\ InterruptInv
<1> SUFFICES ASSUME Init PROVE TxRingInv /\ TxOrderInv /\ InterruptInv
  OBVIOUS
<1>1. tx_rptr = 0 /\ tx_wptr = 0 /\ Waiting = 0 /\ Newest = 0
  BY DEF Init, Waiting, Newest, Before, Dist
<1>2. \A i \in Slots : ~(Dist(tx_rptr, i) < Waiting)
  BY <1>1, DistRange
<1> QED
  BY <1>1, <1>2 DEF Init, TxRingInv, TxOrderInv, InterruptInv

(* What the transmit ring holds is kept by every step: the handler takes   *)
(* from one end what the main loop adds at the other one.                  *)
LEMMA TxRingStep == TypeOK /\ TxRingInv /\ [Next]_vars => TxRingInv'
<1> SUFFICES ASSUME TypeOK, TxRingInv, [Next]_vars PROVE TxRingInv'
  OBVIOUS
<1>t. /\ tx_rptr \in Slots /\ tx_wptr \in Slots /\ slot \in Slots
      /\ tx_buf \in [Slots -> Nat] /\ given \in Nat
  BY DEF TypeOK
<1>d. Waiting \in 0 .. Size - 1 /\ Newest \in Int
  BY <1>t, DistRange DEF Waiting, Newest
<1>e. Waiting = 0 <=> tx_wptr = tx_rptr
  BY <1>t, DistRange DEF Waiting
<1>1. CASE ReadStatus
  <2>1. /\ pc = "main" /\ pc' \in {"test", "wait"} /\ given' = given + 1
        /\ UNCHANGED <<tx_buf, tx_rptr, tx_wptr, slot>>
    BY <1>1 DEF ReadStatus, tx
  <2>2. Newest' = Newest /\ Waiting' = Waiting
    BY <1>t, <2>1 DEF Newest, Waiting, Before
  <2> QED
    BY <2>1, <2>2 DEF TxRingInv
<1>2. CASE TestEmpty \/ WaitForSpace
  <2>1. /\ pc \in {"test", "wait"} /\ pc' \in {"direct", "wait", "put"}
        /\ pc' = "direct" => tx_wptr = tx_rptr
        /\ pc' = "put" => Succ(tx_wptr) # tx_rptr
        /\ UNCHANGED <<tx_buf, tx_rptr, tx_wptr, slot, given>>
    BY <1>2 DEF TestEmpty, WaitForSpace, tx
  <2>2. Newest' = Newest /\ Waiting' = Waiting
    BY <2>1 DEF Newest, Waiting, Before
  <2> QED
    BY <2>1, <2>2 DEF TxRingInv
<1>3. CASE SendDirectly
  <2>1. /\ pc = "direct" /\ pc' = "enable"
        /\ UNCHANGED <<tx_buf, tx_rptr, tx_wptr, slot, given>>
    BY <1>3 DEF SendDirectly, tx
  <2>2. Waiting' = 0
    BY <1>t, <2>1, DistRange DEF TxRingInv, Waiting
  <2>3. \A i \in Slots : ~(Dist(tx_rptr', i) < Waiting')
    BY <1>t, <2>1, <2>2, DistRange, SMTT(30)
  <2>4. Newest' = given
    BY <2>1 DEF Newest, Before
  <2> QED
    BY <1>t, <2>1, <2>2, <2>3, <2>4 DEF TxRingInv
<1>4. CASE Put
  <2>1. /\ pc = "put" /\ slot' = tx_wptr /\ Newest = given - 1
        /\ Succ(tx_wptr) # tx_rptr
        /\ UNCHANGED <<tx_rptr, given>>
    BY <1>4 DEF Put, TxRingInv, Newest, Before
  <2>2. CASE /\ tx_buf' = [tx_buf EXCEPT ![tx_wptr] = given]
             /\ pc' = "index" /\ UNCHANGED tx_wptr
    <3>1. Newest' = Newest /\ Waiting' = Waiting
      BY <2>1, <2>2 DEF Newest, Waiting, Before
    <3>2. tx_buf'[tx_wptr] = given
      BY <1>t, <2>2
    <3>3. ASSUME NEW i \in Slots, Dist(tx_rptr, i) < Waiting
          PROVE  tx_buf'[i] = tx_buf[i]
      <4>1. Dist(tx_rptr, i) \in Int
        BY <1>t, DistRange
      <4> QED
        BY <1>t, <1>d, <2>2, <3>3, <4>1 DEF Waiting
    <3> QED
      BY <2>1, <2>2, <3>1, <3>2, <3>3 DEF TxRingInv
  <2>3. CASE /\ tx_wptr' = Succ(tx_wptr) /\ pc' = "fill" /\ UNCHANGED tx_buf
    <3>1. Newest' = Newest + 1 /\ Waiting' = Waiting + 1
      BY <1>t, <2>1, <2>3, DistNext DEF Newest, Waiting, Before
    <3>2. ASSUME NEW i \in Slots, Dist(tx_rptr, i) < Waiting', i # slot'
          PROVE  tx_buf[i] = Newest - Waiting + 1 + Dist(tx_rptr, i)
      <4>1. Dist(tx_rptr, i) \in Int /\ Dist(tx_rptr, i) # Waiting
        BY <1>t, <2>1, <3>2, DistRange, DistInjective DEF Waiting
      <4> QED
        BY <1>d, <2>1, <3>1, <3>2, <4>1 DEF TxRingInv
    <3>3. Newest' - Waiting' = Newest - Waiting /\ Waiting' <= Newest'
      BY <1>d, <3>1 DEF TxRingInv
    <3> QED
      BY <2>1, <2>3, <3>2, <3>3 DEF TxRingInv
  <2> QED
    BY <1>4, <2>2, <2>3 DEF Put
<1>5. CASE PutIndex
  <2>1. /\ pc = "index" /\ pc' = "enable" /\ slot = tx_wptr
        /\ tx_wptr' = Succ(tx_wptr) /\ Succ(tx_wptr) # tx_rptr
        /\ tx_buf[tx_wptr] = given /\ Newest = given - 1
        /\ UNCHANGED <<tx_buf, tx_rptr, given>>
    BY <1>5 DEF PutIndex, TxRingInv, Newest, Before
  <2>2. Newest' = Newest + 1 /\ Waiting' = Waiting + 1
    BY <1>t, <2>1, DistNext DEF Newest, Waiting, Before
  <2>3. ASSUME NEW i \in Slots, Dist(tx_rptr, i) < Waiting'
        PROVE  tx_buf[i] = Newest - Waiting + 1 + Dist(tx_rptr, i)
    <3>1. CASE i = tx_wptr
      <4>1. tx_buf[i] = given /\ Dist(tx_rptr, i) = Waiting
        BY <2>1, <3>1 DEF Waiting
      <4> QED
        BY <1>t, <1>d, <2>1, <4>1
    <3>2. CASE i # tx_wptr
      <4>1. Dist(tx_rptr, i) \in Int /\ Dist(tx_rptr, i) # Waiting
        BY <1>t, <3>2, DistRange, DistInjective DEF Waiting
      <4> QED
        BY <1>d, <2>1, <2>2, <2>3, <4>1 DEF TxRingInv
    <3> QED
      BY <3>1, <3>2
  <2>4. Newest' - Waiting' = Newest - Waiting /\ Waiting' <= Newest'
    BY <1>d, <2>2 DEF TxRingInv
  <2> QED
    BY <2>1, <2>3, <2>4 DEF TxRingInv
<1>6. CASE PutEntry
  <2>1. /\ pc = "fill" /\ pc' = "enable" /\ tx_wptr = Succ(slot)
        /\ tx_buf' = [tx_buf EXCEPT ![slot] = given] /\ Newest = given
        /\ UNCHANGED <<tx_rptr, tx_wptr, slot, given>>
    BY <1>6 DEF PutEntry, TxRingInv, Newest, Before
  <2>2. Newest' = Newest /\ Waiting' = Waiting
    BY <2>1 DEF Newest, Waiting, Before
  <2>3. ASSUME NEW i \in Slots, Dist(tx_rptr, i) < Waiting
        PROVE  tx_buf'[i] = Newest - Waiting + 1 + Dist(tx_rptr, i)
    <3>1. CASE i = slot
      <4>1. Succ(slot) # tx_rptr
        <5>1. Dist(tx_rptr, i) \in Nat
          BY <1>t, DistRange
        <5> QED
          BY <1>d, <1>e, <2>1, <2>3, <5>1
      <4>2. Dist(tx_rptr, slot) + 1 = Waiting /\ Dist(tx_rptr, slot) \in Int
        BY <1>t, <2>1, <4>1, DistNext, DistRange DEF Waiting
      <4>3. tx_buf'[i] = Newest
        BY <1>t, <2>1, <3>1
      <4>4. Dist(tx_rptr, i) = Dist(tx_rptr, slot)
        BY <3>1
      <4> QED
        BY <1>d, <4>2, <4>3, <4>4
    <3>2. CASE i # slot
      BY <1>t, <2>1, <2>3, <3>2 DEF TxRingInv
    <3> QED
      BY <3>1, <3>2
  <2> QED
    BY <2>1, <2>2, <2>3 DEF TxRingInv
<1>7. CASE EnableInterrupt \/ USART_Poll \/ TakeByte \/ Advance
  <2>1. /\ pc \notin Before \cup {"fill"} /\ pc' \notin Before \cup {"fill"}
        /\ UNCHANGED <<tx_buf, tx_rptr, tx_wptr, given>>
    BY <1>7 DEF EnableInterrupt, USART_Poll, TakeByte, Advance, tx, Before
  <2>2. Newest' = Newest /\ Waiting' = Waiting
    BY <2>1 DEF Newest, Waiting
  <2> QED
    BY <2>1, <2>2 DEF TxRingInv, Before
<1>8. CASE Usart0IrqHandler
  <2>1. UNCHANGED <<tx_buf, tx_wptr, pc, slot, given>>
    BY <1>8 DEF Usart0IrqHandler
  <2>2. Newest' = Newest
    BY <2>1 DEF Newest
  <2>3. CASE UNCHANGED tx_rptr
    BY <2>1, <2>2, <2>3 DEF TxRingInv, Waiting
  <2>4. CASE tx_wptr # tx_rptr /\ tx_rptr' = Succ(tx_rptr)
    <3>1. Waiting' = Waiting - 1 /\ Waiting > 0
      <4>1. Waiting' = Dist(Succ(tx_rptr), tx_wptr)
        BY <2>1, <2>4 DEF Waiting
      <4>2. Dist(Succ(tx_rptr), tx_wptr) = Dist(tx_rptr, tx_wptr) - 1
        BY <1>t, <2>4, DistAdvance
      <4> QED
        BY <1>d, <1>e, <2>4, <4>1, <4>2 DEF Waiting
    <3>2. ASSUME NEW i \in Slots, Dist(tx_rptr', i) < Waiting'
          PROVE  /\ Dist(tx_rptr, i) < Waiting
                 /\ Dist(tx_rptr', i) = Dist(tx_rptr, i) - 1
      <4>1. Dist(tx_rptr, i) \in Int
        BY <1>t, DistRange
      <4>2. i # tx_rptr
        BY <1>t, <1>d, <2>4, <3>1, <3>2, DistAdvance
      <4>3. Dist(tx_rptr', i) = Dist(tx_rptr, i) - 1
        BY <1>t, <2>4, <4>2, DistAdvance
      <4> QED
        BY <1>d, <3>1, <3>2, <4>1, <4>3
    <3>3. ASSUME NEW i \in Slots, Dist(tx_rptr', i) < Waiting',
                 ~(pc = "fill" /\ i = slot)
          PROVE  tx_buf[i] = Newest' - Waiting' + 1 + Dist(tx_rptr', i)
      <4>1. tx_buf[i] = Newest - Waiting + 1 + Dist(tx_rptr, i)
        BY <3>2, <3>3 DEF TxRingInv
      <4>2. Dist(tx_rptr, i) \in Int
        BY <1>t, DistRange
      <4> QED
        BY <1>d, <2>2, <3>1, <3>2, <3>3, <4>1, <4>2
    <3>4. Waiting' <= Newest'
      BY <1>d, <2>2, <3>1 DEF TxRingInv
    <3>5. pc \in {"put", "index"} => Succ(tx_wptr) # tx_rptr'
      BY <1>t, <2>4 DEF Succ
    <3> QED
      BY <2>1, <2>4, <3>3, <3>4, <3>5 DEF TxRingInv
  <2> QED
    BY <1>8, <2>3, <2>4 DEF Usart0IrqHandler, Transmit
<1>9. CASE Line \/ UNCHANGED vars
  <2>1. UNCHANGED <<tx_buf, tx_rptr, tx_wptr, pc, slot, given>>
    BY <1>9 DEF Line, Load, ShiftOut, Arrive, vars, tx
  <2> QED
    BY <2>1 DEF TxRingInv, Newest, Waiting
<1> QED
  BY <1>1, <1>2, <1>3, <1>4, <1>5, <1>6, <1>7, <1>8, <1>9
  DEF Next, MainLoop, USART_Write

(* Bytes stay in order on their way through the transmitter, though a byte *)
(* may be overwritten there: whatever is sent directly is younger than all *)
(* that was in the ring.                                                   *)
LEMMA TxOrderStep == TypeOK /\ TxRingInv /\ TxOrderInv /\ [Next]_vars => TxOrderInv'
<1> SUFFICES ASSUME TypeOK, TxRingInv, TxOrderInv, [Next]_vars, ~stale'
             PROVE  TxOrderInv'
  BY DEF TxOrderInv
<1>t. /\ tx_rptr \in Slots /\ tx_wptr \in Slots /\ slot \in Slots
      /\ tx_buf \in [Slots -> Nat] /\ given \in Nat /\ sent \in Nat
      /\ thr \in Nat \cup {None} /\ shift \in Nat \cup {None}
  BY DEF TypeOK
<1>d. Waiting \in 0 .. Size - 1 /\ Newest \in Int
  BY <1>t, DistRange DEF Waiting, Newest
<1>e. Waiting = 0 <=> tx_wptr = tx_rptr
  BY <1>t, DistRange DEF Waiting
<1>1. CASE /\ Newest' - Waiting' = Newest - Waiting
           /\ UNCHANGED <<sent, shift, thr, stale>>
  BY <1>1 DEF TxOrderInv
<1>2. CASE ReadStatus
  <2>1. /\ pc = "main" /\ pc' \in {"test", "wait"} /\ given' = given + 1
        /\ UNCHANGED <<tx_rptr, tx_wptr, sent, shift, thr, stale>>
    BY <1>2 DEF ReadStatus, tx, uart
  <2>2. Newest' = Newest /\ Waiting' = Waiting
    BY <1>t, <2>1 DEF Newest, Waiting, Before
  <2> QED
    BY <1>1, <2>1, <2>2
<1>3. CASE TestEmpty \/ WaitForSpace
  <2>1. /\ pc \in {"test", "wait"} /\ pc' \in {"direct", "wait", "put"}
        /\ UNCHANGED <<tx_rptr, tx_wptr, given, sent, shift, thr, stale>>
    BY <1>3 DEF TestEmpty, WaitForSpace, tx, uart
  <2>2. Newest' = Newest /\ Waiting' = Waiting
    BY <2>1 DEF Newest, Waiting, Before
  <2> QED
    BY <1>1, <2>1, <2>2
<1>4. CASE SendDirectly
  <2>1. /\ pc = "direct" /\ pc' = "enable" /\ tx_wptr = tx_rptr
        /\ thr' = given /\ Newest = given - 1
        /\ UNCHANGED <<tx_rptr, tx_wptr, given, sent, shift, stale>>
    BY <1>4 DEF SendDirectly, TxRingInv, tx, Newest, Before
  <2>2. Waiting = 0 /\ Waiting' = 0
    BY <1>e, <2>1 DEF Waiting
  <2>3. Newest' = given
    BY <2>1 DEF Newest, Before
  <2> QED
    BY <1>t, <2>1, <2>2, <2>3 DEF TxOrderInv
<1>5. CASE Put \/ PutIndex
  <2>1. /\ pc \in {"put", "index"} /\ Newest = given - 1
        /\ Succ(tx_wptr) # tx_rptr
        /\ UNCHANGED <<tx_rptr, given, sent, shift, thr, stale>>
        /\ \/ pc' = "index" /\ UNCHANGED tx_wptr
           \/ pc' \in {"fill", "enable"} /\ tx_wptr' = Succ(tx_wptr)
    BY <1>5 DEF Put, PutIndex, TxRingInv, uart, Newest, Before
  <2>2. CASE pc' = "index" /\ UNCHANGED tx_wptr
    <3>1. Newest' = Newest /\ Waiting' = Waiting
      BY <2>1, <2>2 DEF Newest, Waiting, Before
    <3> QED
      BY <1>1, <2>1, <3>1
  <2>3. CASE pc' \in {"fill", "enable"} /\ tx_wptr' = Succ(tx_wptr)
    <3>1. Newest' = Newest + 1 /\ Waiting' = Waiting + 1
      BY <1>t, <2>1, <2>3, DistNext DEF Newest, Waiting, Before
    <3>2. Newest' - Waiting' = Newest - Waiting
      BY <1>d, <3>1
    <3> QED
      BY <1>1, <2>1, <3>2
  <2> QED
    BY <2>1, <2>2, <2>3
<1>6. CASE PutEntry \/ EnableInterrupt \/ USART_Poll \/ TakeByte \/ Advance \/ Arrive
  <2>1. /\ \/ pc' = pc
           \/ pc \notin Before /\ pc' \notin Before
        /\ UNCHANGED <<tx_rptr, tx_wptr, given, sent, shift, thr, stale>>
    BY <1>6 DEF PutEntry, EnableInterrupt, USART_Poll, TakeByte, Advance, Arrive,
                tx, uart, Before
  <2>2. Newest' = Newest /\ Waiting' = Waiting
    BY <2>1 DEF Newest, Waiting
  <2> QED
    BY <1>1, <2>1, <2>2
<1>7. CASE Usart0IrqHandler
  <2>1. UNCHANGED <<tx_buf, tx_wptr, pc, slot, given, sent, shift>>
    BY <1>7 DEF Usart0IrqHandler
  <2>2. Newest' = Newest
    BY <2>1 DEF Newest
  <2>3. CASE UNCHANGED <<thr, tx_rptr, stale>>
    <3>1. Waiting' = Waiting
      BY <2>1, <2>3 DEF Waiting
    <3> QED
      BY <1>1, <2>1, <2>2, <2>3, <3>1
  <2>4. CASE /\ thr = None /\ tx_wptr # tx_rptr
             /\ thr' = tx_buf[tx_rptr] /\ tx_rptr' = Succ(tx_rptr)
             /\ stale' = (stale \/ Unfilled)
    <3>1. Waiting' = Waiting - 1 /\ Waiting > 0
      <4>1. Waiting' = Dist(Succ(tx_rptr), tx_wptr)
        BY <2>1, <2>4 DEF Waiting
      <4>2. Dist(Succ(tx_rptr), tx_wptr) = Dist(tx_rptr, tx_wptr) - 1
        BY <1>t, <2>4, DistAdvance
      <4> QED
        BY <1>d, <1>e, <2>4, <4>1, <4>2 DEF Waiting
    <3>2. ~stale /\ ~Unfilled
      BY <2>4
    <3>3. thr' = Newest - Waiting + 1
      <4>1. Dist(tx_rptr, tx_rptr) = 0
        BY <1>t, DistRange
      <4>2. tx_buf[tx_rptr] = Newest - Waiting + 1 + Dist(tx_rptr, tx_rptr)
        BY <1>t, <3>1, <3>2, <4>1 DEF TxRingInv, Unfilled
      <4> QED
        BY <1>d, <2>4, <4>1, <4>2
    <3> QED
      BY <1>t, <1>d, <2>1, <2>2, <3>1, <3>2, <3>3 DEF TxOrderInv
  <2> QED
    BY <1>7, <2>3, <2>4 DEF Usart0IrqHandler, Transmit
<1>8. CASE Load \/ ShiftOut
  <2>1. UNCHANGED <<tx_rptr, tx_wptr, pc, given, stale>>
    BY <1>8 DEF Load, ShiftOut, tx
  <2>2. Newest' = Newest /\ Waiting' = Waiting
    BY <2>1 DEF Newest, Waiting
  <2>3. CASE Load
    BY <1>t, <2>1, <2>2, <2>3 DEF Load, TxOrderInv
  <2>4. CASE ShiftOut
    BY <1>t, <2>1, <2>2, <2>4 DEF ShiftOut, TxOrderInv
  <2> QED
    BY <1>8, <2>3, <2>4
<1>9. CASE UNCHANGED vars
  <2>1. UNCHANGED <<tx_rptr, tx_wptr, pc, given, sent, shift, thr, stale>>
    BY <1>9 DEF vars, tx, uart
  <2> QED
    BY <1>1, <2>1 DEF Newest, Waiting
<1> QED
  BY <1>2, <1>3, <1>4, <1>5, <1>6, <1>7, <1>8, <1>9
  DEF Next, MainLoop, USART_Write, Line

(* Bytes are sent in the order they were handed to USART_Write(), none of  *)
(* them twice, as long as no entry is sent before it was filled.           *)
THEOREM TxInOrderCorrect == Spec => TxInOrder
<1> DEFINE A == sent' = sent \/ sent' > sent \/ stale
<1>1. TypeOK /\ TxOrderInv /\ [Next]_vars => [A]_vars
  <2> SUFFICES ASSUME TypeOK, TxOrderInv, Next PROVE A
    OBVIOUS
  <2>1. CASE ShiftOut
    BY <2>1 DEF ShiftOut, TypeOK, TxOrderInv
  <2>2. CASE UNCHANGED sent
    BY <2>2
  <2> QED
    BY <2>1, <2>2
    DEF Next, MainLoop, USART_Write, ReadStatus, TestEmpty, SendDirectly,
        WaitForSpace, Put, PutIndex, PutEntry, EnableInterrupt, USART_Poll,
        TakeByte, Advance, Usart0IrqHandler, Line, Load, Arrive
<1> QED
  BY <1>1, TxStart, TxRingStep, TxOrderStep, TypeCorrect, PTL DEF Spec, TxInOrder

(* While bytes wait and no USART_Write() is under way the interrupt that   *)
(* sends them is enabled.                                                  *)
THEOREM InterruptCorrect == Spec => []InterruptEnabled
<1>1. InterruptInv => InterruptEnabled
  BY DEF InterruptInv, InterruptEnabled
<1>2. TypeOK /\ InterruptInv /\ [Next]_vars => InterruptInv'
  <2> SUFFICES ASSUME InterruptInv, [Next]_vars PROVE InterruptInv'
    OBVIOUS
  <2>1. CASE UNCHANGED <<tx_rptr, tx_wptr, tx_irq>> /\ pc \notin {"fill", "enable"}
    BY <2>1 DEF InterruptInv
  <2>2. CASE Put \/ PutIndex \/ PutEntry
    BY <2>2 DEF Put, PutIndex, PutEntry, InterruptInv
  <2>3. CASE EnableInterrupt
    BY <2>3 DEF EnableInterrupt, InterruptInv
  <2>4. CASE Usart0IrqHandler
    BY <2>4 DEF Usart0IrqHandler, Transmit, InterruptInv
  <2>5. CASE Line \/ UNCHANGED vars
    BY <2>5 DEF Line, Load, ShiftOut, Arrive, vars, tx, InterruptInv
  <2> QED
    BY <2>1, <2>2, <2>3, <2>4, <2>5
    DEF Next, MainLoop, USART_Write, ReadStatus, TestEmpty, SendDirectly,
        WaitForSpace, USART_Poll, TakeByte, Advance, tx
<1> QED
  BY <1>1, <1>2, TxStart, TypeCorrect, PTL DEF Spec

=============================================================================
