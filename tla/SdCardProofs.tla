--------------------------- MODULE SdCardProofs ---------------------------
(***************************************************************************)
(* What TLAPS proves of SdCard: its types, the handshake between the front *)
(* end and user_io_poll(), the coherence of the read-ahead buffer and, on  *)
(* the bare card, that the machine reads what it wrote.                    *)
(***************************************************************************)
EXTENDS SdCard, TLAPS

USE DEF Sectors, Lbas, NoLba, NoImage, PCs

(* What FileSeek() leaves behind is a cursor, whether it found the sector  *)
(* or ran into the end of the chain.                                       *)
LEMMA SeekType ==
    ASSUME NEW f \in Cursors, NEW start \in Links, NEW l \in Nat,
           NEW g \in FileSeek(f, start, l)
    PROVE  g \in Cursors
<1> DEFINE base == SeekBase(f, start, l)
           n == SeekSteps(base, l)
<1> USE FatAssumption DEF Cursors, Links
<1>1. base \in Cursors /\ base.sector <= l
  BY DEF SeekBase
<1>2. n \in Nat
  <2>1. ClusterIndex(base.sector) \in Nat /\ ClusterIndex(l) \in Nat
    BY <1>1 DEF ClusterIndex
  <2>2. ClusterIndex(base.sector) <= ClusterIndex(l)
    BY <1>1 DEF ClusterIndex
  <2> QED
    BY <2>1, <2>2 DEF SeekSteps
<1> HIDE DEF base
<1>3. CASE g \in SeekFound(base, l)
  <2>1. PICK walk \in SeekWalks(base, l) :
           g = [sector |-> l, cluster |-> walk[n]]
    BY <1>3 DEF SeekFound
  <2>2. walk \in [0 .. n -> Links]
    BY DEF SeekWalks
  <2> QED
    BY <1>2, <2>1, <2>2
<1>4. CASE g \in SeekFailed(base, l)
  <2>1. PICK k \in 1 .. n :
           g = [sector |-> base.sector + (k - 1) * ClusterSize, cluster |-> EOC]
    BY <1>4 DEF SeekFailed
  <2>2. (k - 1) * ClusterSize \in Nat
    BY <1>2
  <2> QED
    BY <1>1, <2>1, <2>2
<1> QED
  BY <1>3, <1>4 DEF FileSeek, base

(* Sector l of the card or of the file into buffer. *)
LEMMA FillType ==
    ASSUME ArmTypeOK, MediumTypeOK, NEW l \in Nat, Fill(l)
    PROVE  /\ cursor' \in Cursors
           /\ buffer' \in Data
           /\ held' \in Sectors \cup {NoLba}
           /\ faults' \in 0 .. MaxFaults
<1> USE SdCardAssumption
<1>1. cursor' \in Cursors
  <2>1. CASE sd_image # NoImage
    <3>1. sd_image \in Links /\ cursor \in Cursors
      BY <2>1 DEF ArmTypeOK, Links
    <3> QED
      BY <2>1, <3>1, SeekType DEF Fill
  <2>2. CASE sd_image = NoImage
    BY <2>2 DEF Fill, ArmTypeOK
  <2> QED
    BY <2>1, <2>2
<1>2. PICK s : MMC_Read(s)
  BY DEF Fill
<1>3. buffer' \in Data /\ held' \in Sectors \cup {NoLba}
  BY <1>2 DEF MMC_Read, ArmTypeOK, MediumTypeOK
<1>4. faults' \in 0 .. MaxFaults
  BY <1>2 DEF MMC_Read, MMC_Fail, MediumTypeOK
<1> QED
  BY <1>1, <1>3, <1>4

(* Every variable keeps its type: in particular the read-ahead buffer is   *)
(* never numbered beyond the sector after the last one asked for, and the  *)
(* cursor of the mounted file is always a cursor.                          *)
LEMMA FrontType == TypeOK /\ [Next]_vars => FrontTypeOK'
<1> SUFFICES ASSUME TypeOK, [Next]_vars PROVE FrontTypeOK'
  OBVIOUS
<1> USE DEF TypeOK, FrontTypeOK
<1>1. CASE UNCHANGED front
  BY <1>1 DEF front
<1>2. ASSUME NEW l \in Lbas, Cmd17(l) PROVE FrontTypeOK'
  BY <1>2 DEF Cmd17
<1>3. ASSUME NEW l \in Lbas, NEW d \in NewData, Cmd24(l, d) PROVE FrontTypeOK'
  BY <1>3, SdCardAssumption DEF Cmd24
<1>4. CASE SendData \/ SendToken \/ WriteDone
  BY <1>4 DEF SendData, SendToken, WriteDone
<1>5. CASE PollStatus
  BY <1>5 DEF PollStatus
<1>6. CASE AckRise
  BY <1>6 DEF AckRise
<1>7. CASE Write
  BY <1>7 DEF Write, AckFall
<1>8. CASE Send
  <2>1. sector' \in Data
    BY <1>8 DEF Send, TypeOK, ArmTypeOK
  <2> QED
    BY <1>8, <2>1 DEF Send, AckFall
<1> QED
  BY <1>1, <1>2, <1>3, <1>4, <1>5, <1>6, <1>7, <1>8
     DEF Next, Machine, FrontEnd, Arm, Menu, Store, Load, ReadAhead,
         user_io_file_mount, vars

(* The variables of user_io_poll() keep their type: req is always a       *)
(* sector the core may ask for, buffer_lba at most one beyond it.          *)
LEMMA ArmType == TypeOK /\ [Next]_vars => ArmTypeOK'
<1> SUFFICES ASSUME TypeOK, [Next]_vars PROVE ArmTypeOK'
  OBVIOUS
<1> USE SdCardAssumption DEF ArmTypeOK, arm
<1>1. CASE UNCHANGED arm
  BY <1>1 DEF TypeOK
<1>2. CASE PollStatus
  <2>1. pc' \in PCs /\ req' \in Lbas
    BY <1>2 DEF PollStatus, TypeOK, FrontTypeOK
  <2> QED
    BY <1>2, <2>1 DEF PollStatus, TypeOK
<1>3. CASE Write
  BY <1>3 DEF Write, TypeOK, FrontTypeOK
<1>4. CASE Store
  BY <1>4 DEF Store, TypeOK
<1>5. CASE Load
  <2>1. req \in Nat /\ Fill(req)
    BY <1>5 DEF Load, TypeOK
  <2> QED
    BY <1>5, <2>1, FillType DEF Load, TypeOK
<1>6. CASE Send
  BY <1>6 DEF Send, TypeOK
<1>7. CASE ReadAhead
  <2>1. req + 1 \in Nat /\ Fill(req + 1)
    BY <1>7 DEF ReadAhead, TypeOK
  <2> QED
    BY <1>7, <2>1, FillType DEF ReadAhead, TypeOK
<1>8. ASSUME NEW img \in Images, user_io_file_mount(img) PROVE ArmTypeOK'
  <2>1. [sector |-> 0, cluster |-> img] \in Cursors
    BY DEF Cursors, Links
  <2> QED
    BY <1>8, <2>1 DEF user_io_file_mount, TypeOK
<1> QED
  BY <1>1, <1>2, <1>3, <1>4, <1>5, <1>6, <1>7, <1>8
     DEF Next, Machine, FrontEnd, Arm, Menu, Cmd17, Cmd24, SendToken, SendData,
         WriteDone, AckRise, vars

(* The card, the count of failures and the history keep their type: a      *)
(* read past the end of the card never counts as one the buffer holds.     *)
LEMMA MediumType == TypeOK /\ [Next]_vars => MediumTypeOK'
<1> SUFFICES ASSUME TypeOK, [Next]_vars PROVE MediumTypeOK'
  OBVIOUS
<1> USE SdCardAssumption DEF MediumTypeOK, medium
<1>1. CASE UNCHANGED <<medium, view>>
  BY <1>1 DEF TypeOK
<1>2. CASE WriteDone
  <2>1. view' \in [Sectors -> Data]
    BY <1>2 DEF WriteDone, TypeOK, FrontTypeOK
  <2> QED
    BY <1>2, <2>1 DEF WriteDone, TypeOK
<1>3. CASE Store
  <2>1. card' \in [Sectors -> Data] /\ faults' \in 0 .. MaxFaults
    BY <1>3 DEF Store, MMC_Write, MMC_Fail, TypeOK, ArmTypeOK
  <2> QED
    BY <1>3, <2>1 DEF Store, TypeOK
<1>4. CASE Load
  <2>1. req \in Nat /\ Fill(req)
    BY <1>4 DEF Load, TypeOK, ArmTypeOK
  <2> QED
    BY <1>4, <2>1, FillType DEF Load, TypeOK
<1>5. CASE ReadAhead
  <2>1. req + 1 \in Nat /\ Fill(req + 1)
    BY <1>5 DEF ReadAhead, TypeOK, ArmTypeOK
  <2> QED
    BY <1>5, <2>1, FillType DEF ReadAhead, TypeOK
<1> QED
  BY <1>1, <1>2, <1>3, <1>4, <1>5
     DEF Next, Machine, FrontEnd, Arm, Menu, Cmd17, Cmd24, SendToken, SendData,
         PollStatus, AckRise, Write, Send, user_io_file_mount, vars

(* Every variable of the front end, the poll and the card keeps its type,  *)
(* whatever the machine asks for and whichever transfer fails.             *)
THEOREM TypeCorrect == Spec => []TypeOK
<1>1. Init => TypeOK
  <2> SUFFICES ASSUME Init PROVE TypeOK
    OBVIOUS
  <2>1. FrontTypeOK
    <3>1. lba \in Lbas /\ sector \in Data
      BY SdCardAssumption DEF Init
    <3>2. /\ io_rd \in BOOLEAN /\ io_wr \in BOOLEAN /\ io_ack \in BOOLEAN
          /\ rd_io_ack \in BOOLEAN /\ wr_io_ack \in BOOLEAN
      BY Zenon DEF Init
    <3> QED
      BY <3>1, <3>2 DEF Init, FrontTypeOK
  <2>2. ArmTypeOK
    BY SdCardAssumption DEF Init, ArmTypeOK, Cursors, Links
  <2>3. MediumTypeOK
    BY SdCardAssumption DEF Init, MediumTypeOK
  <2> QED
    BY <2>1, <2>2, <2>3 DEF TypeOK
<1>2. TypeOK /\ [Next]_vars => TypeOK'
  BY FrontType, ArmType, MediumType DEF TypeOK
<1> QED
  BY <1>1, <1>2, PTL DEF Spec

-----------------------------------------------------------------------------
(* The handshake.                                                          *)

(* A request line is up only while the front end waits for it and has not  *)
(* been answered, and the ARM works on a transfer only while the request   *)
(* that started it is still unanswered: between the status word and the    *)
(* transfer the front end cannot go on to another command.                 *)
Handshake ==
    /\ read_state = "IDLE" \/ write_state = "IDLE"
    /\ io_rd => read_state = "WAIT_IO" /\ ~rd_io_ack
    /\ io_wr => write_state = "BUSY" /\ ~wr_io_ack
    /\ pc = "write" => /\ write_state = "BUSY" /\ ~wr_io_ack
                       /\ req = lba
                       /\ io_wr = ~io_ack
    /\ pc = "load" => /\ read_state = "WAIT_IO" /\ ~rd_io_ack
                      /\ req = lba
                      /\ io_rd /\ ~io_ack
    /\ pc = "send" => /\ read_state = "WAIT_IO" /\ ~rd_io_ack
                      /\ req = lba
                      /\ io_rd = ~io_ack
    /\ io_ack => pc \in {"write", "send"}

(* Every step of machine, front end, ARM and menu keeps the agreement      *)
(* between the command in progress, the request lines and the poll.        *)
LEMMA HandshakeStep == TypeOK /\ Handshake /\ [Next]_vars => Handshake'
<1> SUFFICES ASSUME TypeOK, Handshake, [Next]_vars PROVE Handshake'
  OBVIOUS
<1> USE DEF Handshake
<1>1. CASE UNCHANGED vars
  BY <1>1 DEF vars, front, arm
<1>2. ASSUME NEW l \in Lbas, Cmd17(l) PROVE Handshake'
  BY <1>2, Zenon DEF Cmd17, Ready, arm
<1>3. ASSUME NEW l \in Lbas, NEW d \in NewData, Cmd24(l, d) PROVE Handshake'
  BY <1>3 DEF Cmd24, Ready, arm
<1>4. CASE SendData
  BY <1>4 DEF SendData, arm
<1>5. CASE SendToken
  BY <1>5 DEF SendToken, arm
<1>6. CASE WriteDone
  BY <1>6 DEF WriteDone, arm
<1>7. CASE PollStatus
  BY <1>7 DEF PollStatus
<1>8. CASE AckRise
  BY <1>8 DEF AckRise, arm
<1>9. CASE Write
  BY <1>9 DEF Write, AckFall
<1>10. CASE Store
  BY <1>10 DEF Store, front
<1>11. CASE Load
  BY <1>11 DEF Load, front
<1>12. CASE Send
  BY <1>12 DEF Send, AckFall
<1>13. CASE ReadAhead
  BY <1>13 DEF ReadAhead, front
<1>14. ASSUME NEW img \in Images, user_io_file_mount(img) PROVE Handshake'
  BY <1>14 DEF user_io_file_mount, front
<1> QED
  BY <1>1, <1>2, <1>3, <1>4, <1>5, <1>6, <1>7, <1>8, <1>9, <1>10, <1>11,
     <1>12, <1>13, <1>14 DEF Next, Machine, FrontEnd, Arm, Menu

(* A transfer answers the request that is pending and no other.            *)
THEOREM AckCorrect == Spec => []AckAnswersRequest
<1>1. Init => Handshake
  BY DEF Init, Handshake
<1>2. TypeOK /\ Handshake => AckAnswersRequest
  BY DEF Handshake, AckAnswersRequest
<1> QED
  BY <1>1, <1>2, TypeCorrect, HandshakeStep, PTL DEF Spec

(* The sector buffer of the front end is left alone while the machine      *)
(* reads it and until what the machine wrote has been fetched.             *)
THEOREM SectorStableCorrect == Spec => SectorStable
<1> DEFINE A == (read_state = "SEND_DATA" \/ (write_state = "BUSY" /\ ~wr_io_ack))
                  => sector' = sector
<1>1. Init => Handshake
  BY DEF Init, Handshake
<1>2. Handshake /\ [Next]_vars => [A]_vars
  <2> SUFFICES ASSUME Handshake, Next PROVE A
    OBVIOUS
  <2>1. CASE Send
    BY <2>1 DEF Send, Handshake
  <2>2. ASSUME NEW l \in Lbas, NEW d \in NewData, Cmd24(l, d) PROVE A
    BY <2>2 DEF Cmd24, Ready
  <2>3. CASE UNCHANGED sector
    BY <2>3
  <2> QED
    BY <2>1, <2>2, <2>3 DEF Next, Machine, FrontEnd, Arm, Menu, Cmd17, SendData,
       SendToken, WriteDone, PollStatus, AckRise, Write, Store, Load, ReadAhead,
       user_io_file_mount, front
<1> QED
  BY <1>1, <1>2, TypeCorrect, HandshakeStep, PTL DEF Spec, SectorStable

-----------------------------------------------------------------------------
(* The read-ahead buffer.                                                  *)

(* The card changes only in MMC_Write(), and there the buffer has been     *)
(* given up since the transfer of the sector.                              *)
BufferInv ==
    /\ BufferCoherent
    /\ pc = "store" => buffer_lba = NoLba

(* A successful read leaves in buffer what the card holds in the sector    *)
(* read; a failed one leaves no sector that buffer is claimed to hold.     *)
LEMMA FillCoherent ==
    ASSUME NEW l, Fill(l), UNCHANGED card
    PROVE  held' # NoLba => buffer' = card'[held']
<1>1. PICK s : MMC_Read(s)
  BY DEF Fill
<1> QED
  BY <1>1 DEF MMC_Read

(* Every step keeps the read-ahead buffer coherent: the write path has     *)
(* given the buffer up before the card changes.                            *)
LEMMA BufferStep == BufferInv /\ [Next]_vars => BufferInv'
<1> SUFFICES ASSUME BufferInv, [Next]_vars PROVE BufferInv'
  OBVIOUS
<1> USE DEF BufferInv, BufferCoherent
<1>1. CASE UNCHANGED <<pc, buffer, buffer_lba, card, held>>
  BY <1>1
<1>2. CASE PollStatus
  BY <1>2 DEF PollStatus, medium
<1>3. CASE Write
  BY <1>3 DEF Write
<1>4. CASE Store
  BY <1>4 DEF Store
<1>5. CASE Load
  BY <1>5, FillCoherent DEF Load
<1>6. CASE Send
  BY <1>6 DEF Send, medium
<1>7. CASE ReadAhead
  BY <1>7, FillCoherent DEF ReadAhead
<1>8. CASE Machine \/ FrontEnd \/ AckRise \/ Menu \/ UNCHANGED vars
  <2>1. UNCHANGED <<pc, buffer, buffer_lba, card, held>>
    BY <1>8 DEF Machine, FrontEnd, Menu, Cmd17, Cmd24, SendData, SendToken,
                WriteDone, AckRise, user_io_file_mount, vars, arm, medium
  <2> QED
    BY <2>1, <1>1
<1> QED
  BY <1>2, <1>3, <1>4, <1>5, <1>6, <1>7, <1>8 DEF Next, Arm

(* Whatever is written, mounted or fails, a valid read-ahead buffer holds  *)
(* what the card holds in the sector the buffer was filled from.           *)
THEOREM BufferCorrect == Spec => []BufferCoherent
<1>1. Init => BufferInv
  BY DEF Init, BufferInv, BufferCoherent
<1>2. BufferInv => BufferCoherent
  BY DEF BufferInv
<1> QED
  BY <1>1, <1>2, BufferStep, PTL DEF Spec

-----------------------------------------------------------------------------
(* The bare card: the machine reads what it wrote.                         *)

Bare == sd_image = NoImage /\ faults = 0

(* The contents of the card, counting a write from the moment its sector   *)
(* has been fetched.                                                       *)
Promised(s) == IF pc = "store" /\ req = s THEN wr_buf ELSE card[s]

(* Without a file the buffer belongs to the sector it is numbered for,     *)
(* unless that is past the end; the machine has seen acknowledged all that *)
(* is promised but the write whose acknowledgement is on its way; and what *)
(* the front end holds to be read is what was promised.                    *)
BareInv ==
    Bare =>
      /\ buffer_lba \in Sectors => held = buffer_lba
      /\ pc = "send" => buffer_lba = req
      /\ \A s \in Sectors :
           Promised(s) = IF write_state = "BUSY" /\ wr_io_ack /\ lba = s
                         THEN sector ELSE view[s]
      /\ (read_state # "IDLE" /\ rd_io_ack /\ lba \in Sectors)
            => sector = view[lba]
      /\ read_state = "SEND_DATA" => rd_io_ack

SafeInv == TypeOK /\ Handshake /\ BufferInv /\ BareInv

(* A file stays mounted and a failure counted. *)
LEMMA BareBefore == TypeOK /\ [Next]_vars /\ Bare' => Bare
<1> SUFFICES ASSUME TypeOK, [Next]_vars, Bare' PROVE Bare
  OBVIOUS
<1> USE SdCardAssumption DEF Bare
<1>1. CASE UNCHANGED <<sd_image, faults>>
  BY <1>1
<1>2. faults \in Nat
  BY DEF TypeOK, MediumTypeOK
<1>3. CASE Store
  BY <1>2, <1>3 DEF Store, MMC_Write, MMC_Fail
<1>4. CASE Load
  <2>1. PICK s : MMC_Read(s)
    BY <1>4 DEF Load, Fill
  <2> QED
    BY <1>2, <1>4, <2>1 DEF Load, MMC_Read, MMC_Fail
<1>5. CASE ReadAhead
  <2>1. PICK s : MMC_Read(s)
    BY <1>5 DEF ReadAhead, Fill
  <2> QED
    BY <1>2, <1>5, <2>1 DEF ReadAhead, MMC_Read, MMC_Fail
<1>6. ASSUME NEW img \in Images, user_io_file_mount(img) PROVE Bare
  BY <1>6, FatAssumption DEF user_io_file_mount
<1> QED
  BY <1>1, <1>3, <1>4, <1>5, <1>6
     DEF Next, Machine, FrontEnd, Arm, Menu, vars, arm, medium, Cmd17, Cmd24,
         SendData, SendToken, WriteDone, PollStatus, AckRise, Write, Send

(* Every step keeps what is known of the bare card: the machine's view is  *)
(* the card, but for the sector that is still on its way there.            *)
LEMMA BareStep == SafeInv /\ [Next]_vars => BareInv'
<1> SUFFICES ASSUME SafeInv, [Next]_vars, Bare' PROVE BareInv'
  BY DEF BareInv
<1>0. Bare
  BY BareBefore DEF SafeInv
<1> USE <1>0 DEF SafeInv, BareInv, Promised
<1>1. CASE UNCHANGED vars
  BY <1>1 DEF vars, front, arm, medium
<1>2. ASSUME NEW l \in Lbas, Cmd17(l) PROVE BareInv'
  BY <1>2 DEF Cmd17, Ready, arm, medium, Handshake
<1>3. ASSUME NEW l \in Lbas, NEW d \in NewData, Cmd24(l, d) PROVE BareInv'
  BY <1>3 DEF Cmd24, Ready, arm, medium, Handshake
<1>4. CASE SendData
  BY <1>4 DEF SendData, arm, medium
<1>5. CASE SendToken
  BY <1>5 DEF SendToken, arm, medium
<1>6. CASE WriteDone
  BY <1>6 DEF WriteDone, arm, medium, Handshake, TypeOK, MediumTypeOK, Bare
<1>7. CASE PollStatus
  BY <1>7 DEF PollStatus, medium
<1>8. CASE AckRise
  BY <1>8 DEF AckRise, arm, medium
<1>9. CASE Write
  <2>1. /\ write_state = "BUSY" /\ ~wr_io_ack /\ read_state = "IDLE"
        /\ req = lba /\ wr_io_ack'
    BY <1>9 DEF Write, AckFall, Handshake
  <2>2. \A s \in Sectors : card[s] = view[s]
    BY <1>9, <2>1 DEF Write
  <2> QED
    BY <1>9, <2>1, <2>2 DEF Write, medium
<1>10. CASE Store
  <2>1. req \in Sectors => card' = [card EXCEPT ![req] = wr_buf]
    BY <1>10 DEF Store, MMC_Write, MMC_Fail, Bare, TypeOK, MediumTypeOK
  <2>2. req \notin Sectors => card' = card
    BY <1>10 DEF Store, MMC_Write
  <2>3. \A s \in Sectors : Promised(s)' = Promised(s)
    BY <1>10, <2>1, <2>2 DEF Store, TypeOK, MediumTypeOK
  <2> QED
    BY <1>10, <2>3 DEF Store, front, BufferInv, NoLba
<1>11. CASE Load
  BY <1>11 DEF Load, Fill, MMC_Read, MMC_Fail, front, TypeOK, MediumTypeOK, Bare
<1>12. CASE Send
  BY <1>12 DEF Send, AckFall, medium, Handshake, BufferInv, BufferCoherent
<1>13. CASE ReadAhead
  BY <1>13 DEF ReadAhead, Fill, MMC_Read, MMC_Fail, front, TypeOK,
               MediumTypeOK, Bare
<1>14. ASSUME NEW img \in Images, user_io_file_mount(img) PROVE BareInv'
  BY <1>14, FatAssumption, SdCardAssumption DEF user_io_file_mount, Bare
<1> QED
  BY <1>1, <1>2, <1>3, <1>4, <1>5, <1>6, <1>7, <1>8, <1>9, <1>10, <1>11,
     <1>12, <1>13, <1>14 DEF Next, Machine, FrontEnd, Arm, Menu

(* On the bare card, as long as no transfer fails, the machine reads back  *)
(* what it wrote, though a write is acknowledged before it is stored.      *)
THEOREM ReadYourWritesCorrect == Spec => []ReadYourWrites
<1>1. Init => Handshake /\ BufferInv /\ BareInv
  BY SdCardAssumption DEF Init, Handshake, BufferInv, BufferCoherent, BareInv,
                          Promised
<1>2. SafeInv => ReadYourWrites
  BY DEF SafeInv, BareInv, Bare, ReadYourWrites
<1> QED
  BY <1>1, <1>2, TypeCorrect, HandshakeStep, BufferStep, BareStep, PTL
     DEF Spec, SafeInv
-----------------------------------------------------------------------------
(* The refinement: the machine sees a block device.                        *)

(* The memory and the command that the state of the emulation stands for,  *)
(* as SdCard gives them to BlockDevice.                                    *)
AbsMem == [s \in Sectors |-> Promised(s)]

AbsOp ==
    IF read_state = "IDLE" /\ write_state = "IDLE"
    THEN [kind |-> "idle"]
    ELSE IF write_state = "BUSY"
    THEN IF wr_io_ack THEN [kind |-> "written"]
         ELSE [kind |-> "write", lba |-> lba, data |-> sector]
    ELSE IF read_state = "WAIT_IO" /\ ~rd_io_ack
    THEN [kind |-> "read", lba |-> lba]
    ELSE [kind |-> "data", lba |-> lba, data |-> sector]

(* As long as no file is mounted and no transfer failed, every step of     *)
(* machine, front end and ARM is a step of the block device or leaves it   *)
(* as it is.                                                               *)
BlockDeviceSteps == BD!BDInit /\ [][Bare' => BD!BDNext]_(BD!BDVars)

(* A command is accepted: the mapped operation is a new one.               *)
LEMMA CommandMaps ==
    ASSUME SafeInv, NEW l \in Lbas,
           Cmd17(l) \/ \E d \in NewData : Cmd24(l, d)
    PROVE  BD!BDNext
<1>1. AbsMem' = AbsMem
  BY DEF Cmd17, Cmd24, arm, medium, AbsMem, Promised
<1>2. AbsOp = [kind |-> "idle"]
  BY DEF Cmd17, Cmd24, Ready, AbsOp
<1>3. CASE Cmd17(l)
  <2>1. AbsOp' = [kind |-> "read", lba |-> l]
    BY <1>3 DEF Cmd17, Ready, AbsOp
  <2>2. BD!StartRead(l)
    BY <1>1, <1>2, <2>1
       DEF BD!StartRead, BD!Idle, AbsMem, AbsOp, Promised
  <2> QED
    BY <2>2 DEF BD!BDNext, BD!Addresses, Lbas
<1>4. ASSUME NEW d \in NewData, Cmd24(l, d) PROVE BD!BDNext
  <2>1. AbsOp' = [kind |-> "write", lba |-> l, data |-> d]
    BY <1>4 DEF Cmd24, Ready, AbsOp
  <2>2. BD!StartWrite(l, d)
    BY <1>1, <1>2, <2>1
       DEF BD!StartWrite, BD!Idle, AbsMem, AbsOp, Promised
  <2> QED
    BY <2>2, SdCardAssumption DEF BD!BDNext, BD!Addresses, Lbas
<1> QED
  BY <1>3, <1>4

(* The sector is in the front end: the read is answered with what the      *)
(* memory holds, or with anything past the end.                            *)
LEMMA SendMaps == ASSUME SafeInv, Send, Bare PROVE BD!BDNext
<1>1. /\ read_state = "WAIT_IO" /\ ~rd_io_ack /\ write_state = "IDLE"
      /\ req = lba /\ pc = "send"
  BY DEF Send, SafeInv, Handshake
<1>2. AbsMem' = AbsMem
  BY DEF Send, medium, AbsMem, Promised
<1>3. AbsOp = [kind |-> "read", lba |-> lba]
  BY <1>1 DEF AbsOp
<1>4. AbsOp' = [kind |-> "data", lba |-> lba, data |-> buffer]
  BY <1>1 DEF Send, AckFall, AbsOp
<1>5. lba \in Sectors => buffer = AbsMem[lba]
  <2>1. SUFFICES ASSUME lba \in Sectors PROVE buffer = card[lba]
    BY <1>1 DEF AbsMem, Promised
  <2>2. buffer_lba = lba /\ held = lba
    BY <1>1, <2>1 DEF SafeInv, BareInv
  <2> QED
    BY <2>1, <2>2 DEF SafeInv, BufferInv, BufferCoherent, NoLba, Sectors
<1>6. buffer \in Data
  BY DEF SafeInv, TypeOK, ArmTypeOK
<1>7. BD!AnswerRead
  BY <1>2, <1>3, <1>4, <1>5, <1>6
     DEF BD!AnswerRead, BD!Stored, Sectors, AbsMem, AbsOp, Promised
<1> QED
  BY <1>7 DEF BD!BDNext

(* The sector is fetched: from here on the memory has it, though the card  *)
(* is written a step later.                                                *)
LEMMA WriteMaps == ASSUME SafeInv, Write PROVE BD!BDNext
<1>1. /\ write_state = "BUSY" /\ ~wr_io_ack /\ read_state = "IDLE"
      /\ req = lba /\ pc = "write"
  BY DEF Write, SafeInv, Handshake
<1>2. AbsOp = [kind |-> "write", lba |-> lba, data |-> sector]
  BY <1>1 DEF AbsOp
<1>3. AbsOp' = [kind |-> "written"]
  BY <1>1 DEF Write, AckFall, AbsOp
<1>4. AbsMem' = IF lba \in Sectors
                THEN [AbsMem EXCEPT ![lba] = sector] ELSE AbsMem
  BY <1>1 DEF Write, medium, AbsMem, Promised
<1>5. BD!AnswerWrite
  BY <1>2, <1>3, <1>4 DEF BD!AnswerWrite, BD!Stored, Sectors, AbsMem, AbsOp,
                          Promised
<1> QED
  BY <1>5 DEF BD!BDNext

(* The machine has its data, or its write is over.                         *)
LEMMA FinishMaps == ASSUME SafeInv, Bare, SendData \/ WriteDone PROVE BD!BDNext
<1>1. AbsMem' = AbsMem
  BY DEF SendData, WriteDone, arm, medium, AbsMem, Promised
<1>2. AbsOp' = [kind |-> "idle"]
  BY DEF SendData, WriteDone, SafeInv, Handshake, AbsOp
<1>3. AbsOp \in {[kind |-> "written"],
                 [kind |-> "data", lba |-> lba, data |-> sector]}
  BY DEF SendData, WriteDone, SafeInv, Handshake, AbsOp
<1>4. BD!Finish
  BY <1>1, <1>2, <1>3 DEF BD!Finish, BD!Idle, AbsMem, AbsOp, Promised
<1> QED
  BY <1>4 DEF BD!BDNext

(* Storing what was fetched changes nothing for the machine: it has been   *)
(* promised since.                                                         *)
LEMMA StoreMaps ==
    ASSUME SafeInv, Store, Bare' PROVE AbsMem' = AbsMem /\ AbsOp' = AbsOp
<1>1. Bare
  BY BareBefore DEF SafeInv, Next, Arm
<1>2. req \in Sectors => card' = [card EXCEPT ![req] = wr_buf]
  BY <1>1 DEF Store, MMC_Write, MMC_Fail, Bare, SafeInv, TypeOK, MediumTypeOK
<1>3. req \notin Sectors => card' = card
  BY DEF Store, MMC_Write
<1>4. AbsMem' = AbsMem
  BY <1>2, <1>3 DEF Store, SafeInv, TypeOK, MediumTypeOK, AbsMem, Promised
<1> QED
  BY <1>4 DEF Store, front, AbsOp

(* The other steps are not seen at all.                                    *)
LEMMA OthersMap ==
    ASSUME SafeInv,
           \/ SendToken \/ PollStatus \/ AckRise \/ Load \/ ReadAhead
           \/ \E img \in Images : user_io_file_mount(img)
           \/ UNCHANGED vars
    PROVE  AbsMem' = AbsMem /\ AbsOp' = AbsOp
<1> USE DEF AbsMem, AbsOp, Promised
<1>1. CASE SendToken
  BY <1>1 DEF SendToken, arm, medium, SafeInv, Handshake
<1>2. CASE PollStatus
  BY <1>2 DEF PollStatus, medium
<1>3. CASE AckRise
  BY <1>3 DEF AckRise, arm, medium
<1>4. CASE Load
  BY <1>4 DEF Load, front
<1>5. CASE ReadAhead
  BY <1>5 DEF ReadAhead, front
<1>6. ASSUME NEW img \in Images, user_io_file_mount(img)
      PROVE  AbsMem' = AbsMem /\ AbsOp' = AbsOp
  BY <1>6 DEF user_io_file_mount, front, medium
<1>7. CASE UNCHANGED vars
  BY <1>7 DEF vars, front, arm, medium
<1> QED
  BY <1>1, <1>2, <1>3, <1>4, <1>5, <1>6, <1>7

(* The initial card is the initial memory, with no command.                *)
LEMMA InitMaps == Init => BD!BDInit
<1> SUFFICES ASSUME Init PROVE BD!BDInit
  OBVIOUS
<1>1. AbsMem = InitCard
  BY SdCardAssumption DEF Init, AbsMem, Promised
<1>2. AbsOp = [kind |-> "idle"]
  BY DEF Init, AbsOp
<1> QED
  BY <1>1, <1>2 DEF BD!BDInit, BD!Idle, AbsMem, AbsOp, Promised

(* On the bare card every step maps to a step of the block device or to a  *)
(* stutter: the safety part of ImplementsBlockDevice, until a file is      *)
(* mounted or a transfer fails.                                            *)
THEOREM BlockDeviceCorrect == Spec => BlockDeviceSteps
<1>1. Init => Handshake /\ BufferInv /\ BareInv
  BY SdCardAssumption DEF Init, Handshake, BufferInv, BufferCoherent, BareInv,
                          Promised
<1>2. SafeInv /\ [Next]_vars => [Bare' => BD!BDNext]_(BD!BDVars)
  <2> SUFFICES ASSUME SafeInv, [Next]_vars, Bare',
                      ~(AbsMem' = AbsMem /\ AbsOp' = AbsOp)
               PROVE  BD!BDNext
    BY DEF BD!BDVars, AbsMem, AbsOp, Promised
  <2>1. Bare
    BY BareBefore DEF SafeInv
  <2> QED
    BY <2>1, CommandMaps, SendMaps, WriteMaps, FinishMaps, StoreMaps, OthersMap
       DEF Next, Machine, FrontEnd, Arm, Menu
<1> QED
  BY <1>1, <1>2, InitMaps, TypeCorrect, HandshakeStep, BufferStep, BareStep,
     PTL DEF Spec, SafeInv, BlockDeviceSteps
=============================================================================
