----------------------------- MODULE ArchieKbd -----------------------------
(***************************************************************************)
(* The Archimedes keyboard controller of src/firmware/archie.c and the     *)
(* keyboard driver of the ARM it talks to over a serial link.  Every key   *)
(* or mouse event is a pair of bytes, each sent only after the one before  *)
(* was acknowledged; bytes that have to wait go through a ring of          *)
(* QUEUE_LEN - 1.  After a reset both sides exchange HRST, RAK1, RAK2.     *)
(* The driver is not in this repository: it is modelled from the answers   *)
(* archie.c waits for.                                                     *)
(***************************************************************************)
EXTENDS Integers, Sequences

CONSTANTS
    QUEUE_LEN,     \* size of the ring, one entry stays unused
    MouseMax,      \* pending motion is clamped to -MouseMax-1 .. MouseMax
    MaxEvents,     \* bound: events the user makes
    MaxResets,     \* bound: times the driver asks for a reset
    MaxLate,       \* bound: timeouts that fire though an answer is coming
    MaxIds         \* bound: times the driver asks for the keyboard id

ASSUME ArchieAssumption ==
    /\ QUEUE_LEN \in Nat \ {0}
    /\ MouseMax \in Nat
    /\ MaxEvents \in Nat /\ MaxResets \in Nat /\ MaxLate \in Nat
    /\ MaxIds \in Nat

VARIABLES
    kbd,           \* the controller: kbd_state, tx_queue, flags, mouse
    toHost, toKbd, \* bytes on the link, in either direction
    host,          \* state of the driver
    first,         \* the first byte of a pair the driver holds
    events,        \* events accepted from the user, they are numbered
    decoded,       \* number of the last event the driver has understood
    broken,        \* the driver was sent a pair that is none, or out of order
    resets, late, ids

vars == <<kbd, toHost, toKbd, host, first, events, decoded, broken, resets,
          late, ids>>

-----------------------------------------------------------------------------
(* Bytes: a command, or half h of the pair of event n.                     *)

Cmd(c) == [cmd |-> c, n |-> 0, h |-> 0]
Half(n, h) == [cmd |-> "DATA", n |-> n, h |-> h]

ResetStates == {"HRST", "RAK1", "RAK2"}
WaitStates == {"WAIT4ACK1", "WAIT4ACK2"}
Acks == {"NACK", "SACK", "MACK", "SMAK"}

(* The functions of archie.c, on the record of the controller; out         *)
(* collects what they transmit.                                            *)
archie_kbd_tx(k, state, byte) ==
    [k EXCEPT !.state = state, !.out = Append(@, byte)]

\* Mutant: the test for a full ring is missing.
EnqueueUnchecked(k, state, byte) ==
    [k EXCEPT !.queue = Append(@, [state |-> state, byte |-> byte])]

archie_kbd_enqueue(k, state, byte) ==
    IF Len(k.queue) = QUEUE_LEN - 1
    THEN [k EXCEPT !.overflow = TRUE]
    ELSE [k EXCEPT !.queue = Append(@, [state |-> state, byte |-> byte])]

\* Mutant: only the first half waits for its acknowledgement.
SendAfterFirst(k, state, byte) ==
    IF k.state = "WAIT4ACK1"
    THEN archie_kbd_enqueue(k, state, byte)
    ELSE archie_kbd_tx(k, state, byte)

archie_kbd_send(k, state, byte) ==
    IF k.state \in WaitStates
    THEN archie_kbd_enqueue(k, state, byte)
    ELSE archie_kbd_tx(k, state, byte)

\* Mutant: an acknowledgement does not look at the ring.
CheckNothing(k) == k

archie_check_queue(k) ==
    IF k.queue = <<>> THEN k
    ELSE [archie_kbd_tx(k, Head(k.queue).state, Head(k.queue).byte)
             EXCEPT !.queue = Tail(k.queue)]

archie_kbd_reset(k) ==
    [k EXCEPT !.queue = <<>>, !.state = "HRST", !.mouse = 0,
              !.scan = FALSE, !.mouseOn = FALSE]

(* An event: both halves, the second one usually behind the first. *)
SendPair(k, n) ==
    archie_kbd_send(archie_kbd_send(k, "WAIT4ACK1", Half(n, 1)),
                    "WAIT4ACK2", Half(n, 2))

Clamp(m) == IF m > MouseMax THEN MouseMax
            ELSE IF m < -MouseMax - 1 THEN -MouseMax - 1 ELSE m

-----------------------------------------------------------------------------
(* The controller.                                                         *)

Transmit(k) ==
    /\ kbd' = [k EXCEPT !.out = <<>>]
    /\ toHost' = toHost \o k.out

\* Mutant: the handshake is not started over.
TimeoutOnlyAcks(k) ==
    IF k.state \in WaitStates THEN [k EXCEPT !.state = "IDLE"] ELSE k

(* The two tests of ack_timeout at the start of archie_handle_kbd(). *)
AckTimeout(k) ==
    IF k.state \in WaitStates THEN [k EXCEPT !.state = "IDLE"]
    ELSE IF k.state \in ResetStates THEN archie_kbd_send(k, "RAK1", Cmd("HRST"))
    ELSE k

(* The switch over the byte received; a byte not listed is ignored. *)
Received(k, c) ==
    CASE c = "HRST" ->
           archie_kbd_send(archie_kbd_reset(k), "RAK1", Cmd("HRST"))
      [] c = "RAK1" ->
           IF k.state = "RAK1" THEN archie_kbd_send(k, "RAK2", Cmd("RAK1"))
           ELSE [k EXCEPT !.state = "HRST"]
      [] c = "RAK2" ->
           IF k.state = "RAK2" THEN archie_kbd_send(k, "IDLE", Cmd("RAK2"))
           ELSE [k EXCEPT !.state = "HRST"]
      [] c = "RQID" -> archie_kbd_send(k, "IDLE", Cmd("KBID"))
      [] c = "BACK" -> archie_check_queue([k EXCEPT !.state = "IDLE"])
      [] c \in Acks ->
           archie_check_queue([k EXCEPT !.state = "IDLE",
                                        !.scan = c \in {"SACK", "SMAK"},
                                        !.mouseOn = c \in {"MACK", "SMAK"}])
      [] OTHER -> k

(* An answer is on its way as long as a byte is on the link: the driver    *)
(* answers at once or not at all.  A timeout that fires nevertheless is    *)
(* one the driver was too late for.                                        *)
Answering == toHost # <<>> \/ toKbd # <<>>

(* archie_handle_kbd(), called once per turn of the main loop. *)
archie_handle_kbd ==
    \E expired \in BOOLEAN :
      LET k == IF expired THEN AckTimeout(kbd) ELSE kbd IN
      /\ expired => kbd.state # "IDLE" /\ (Answering => late < MaxLate)
      /\ late' = IF expired /\ Answering THEN late + 1 ELSE late
      /\ \/ toKbd # <<>> /\ Transmit(Received(k, Head(toKbd).cmd))
                         /\ toKbd' = Tail(toKbd)
         \/ toKbd = <<>> /\ Transmit(k) /\ UNCHANGED toKbd
      /\ UNCHANGED <<host, first, events, decoded, broken, resets, ids>>

(* archie_kbd(): a key goes down or up. *)
archie_kbd ==
    /\ events < MaxEvents
    /\ kbd.state \notin ResetStates
    /\ kbd.scan
    /\ Transmit(SendPair(kbd, events + 1))
    /\ events' = events + 1
    /\ UNCHANGED <<toKbd, host, first, decoded, broken, resets, late, ids>>

(* archie_mouse(): motion is added up, clamped, and reported when nothing  *)
(* waits to be acknowledged; each button that changed is reported like a   *)
(* key.                                                                    *)
Reports(k) == k.mouseOn /\ k.mouse # 0 /\ k.state = "IDLE"

archie_mouse(dx, buttons) ==
    LET k == [kbd EXCEPT !.mouse = Clamp(@ + dx)]
        moved == IF Reports(k) THEN 1 ELSE 0
        pressed == IF k.scan THEN buttons ELSE 0
        sent[n \in 0 .. moved + pressed] ==
            IF n = 0 THEN k
            ELSE IF n = moved
                 THEN [SendPair(sent[n - 1], events + n) EXCEPT !.mouse = 0]
                 ELSE SendPair(sent[n - 1], events + n)
    IN  /\ events + 1 + buttons <= MaxEvents
        /\ IF k.state \in ResetStates
           THEN kbd' = k /\ UNCHANGED <<toHost, events>>
           ELSE /\ Transmit(sent[moved + pressed])
                /\ events' = events + moved + pressed
        /\ UNCHANGED <<toKbd, host, first, decoded, broken, resets, late, ids>>

-----------------------------------------------------------------------------
(* The driver (external).                                                  *)

Answer(c) == toKbd' = Append(toKbd, Cmd(c))
Ignore == UNCHANGED <<toKbd, host, first, decoded, broken>>

NoByte == Cmd("none")

(* The driver starts over and waits for the HRST of the keyboard. *)
StartOver ==
    /\ Answer("HRST")
    /\ host' = "HRST"
    /\ first' = NoByte
    /\ UNCHANGED <<decoded, broken>>

Handshake(b) ==
    \/ /\ b.cmd = "HRST"
       /\ Answer("RAK1") /\ host' = "RAK1" /\ first' = NoByte
       /\ UNCHANGED <<decoded, broken>>
    \/ /\ b.cmd = "RAK1" /\ host = "RAK1"
       /\ Answer("RAK2") /\ host' = "RAK2"
       /\ UNCHANGED <<first, decoded, broken>>
    \/ /\ b.cmd = "RAK2" /\ host = "RAK2"
       /\ \E a \in Acks : Answer(a)
       /\ host' = "idle"
       /\ UNCHANGED <<first, decoded, broken>>
    \/ /\ b.cmd \in {"RAK1", "RAK2"} /\ host \notin {b.cmd, "HRST"}
       /\ StartOver
    \/ /\ b.cmd \in {"RAK1", "RAK2"} /\ host = "HRST"
       /\ Ignore

(* The driver cannot tell the first half of a pair from the second one. *)
Data(b) ==
    /\ b.cmd = "DATA"
    /\ \/ /\ host = "idle"
          /\ Answer("BACK")
          /\ host' = "half"
          /\ first' = b
          /\ UNCHANGED <<decoded, broken>>
       \/ /\ host = "half"
          /\ \E a \in Acks : Answer(a)
          /\ host' = "idle"
          /\ first' = NoByte
          /\ broken' = (broken \/ ~(/\ first = Half(b.n, 1) /\ b.h = 2
                                   /\ b.n > decoded))
          /\ decoded' = b.n
       \/ host \in ResetStates /\ Ignore

HostReceive ==
    /\ toHost # <<>>
    /\ toHost' = Tail(toHost)
    /\ \/ Handshake(Head(toHost))
       \/ Data(Head(toHost))
       \/ Head(toHost).cmd = "KBID" /\ Ignore
    /\ UNCHANGED <<kbd, events, resets, late, ids>>

HostReset ==
    /\ resets < MaxResets
    /\ resets' = resets + 1
    /\ StartOver
    /\ UNCHANGED <<kbd, toHost, events, late, ids>>

HostAskId ==
    /\ ids < MaxIds
    /\ host \in {"idle", "half"}
    /\ ids' = ids + 1
    /\ Answer("RQID")
    /\ UNCHANGED <<kbd, toHost, host, first, events, decoded, broken, resets,
                   late>>

-----------------------------------------------------------------------------

(* After archie_init(): HRST is on its way to the driver. *)
Init ==
    /\ kbd = [state |-> "RAK1", queue |-> <<>>, scan |-> FALSE,
              mouseOn |-> FALSE, mouse |-> 0, overflow |-> FALSE, out |-> <<>>]
    /\ toHost = <<Cmd("HRST")>>
    /\ toKbd = <<>>
    /\ host = "HRST"
    /\ first = NoByte
    /\ events = 0 /\ decoded = 0 /\ broken = FALSE
    /\ resets = 0 /\ late = 0 /\ ids = 0

User == archie_kbd \/ \E dx \in {-1, 0, 1}, b \in 0 .. 3 : archie_mouse(dx, b)
Host == HostReceive \/ HostReset \/ HostAskId

Next == archie_handle_kbd \/ User \/ Host

(* The main loop polls the controller for ever, the driver takes what is   *)
(* sent to it.                                                             *)
Fairness == WF_vars(archie_handle_kbd) /\ WF_vars(HostReceive)

Spec == Init /\ [][Next]_vars
FairSpec == Spec /\ Fairness

-----------------------------------------------------------------------------
(* Properties.                                                             *)

Events == 0 .. MaxEvents
Bytes == [cmd : {"HRST", "RAK1", "RAK2", "RQID", "KBID", "BACK", "DATA", "none"}
                  \cup Acks, n : Events, h : 0 .. 2]
Entries == [state : WaitStates \cup {"IDLE"}, byte : Bytes]

TypeOK ==
    /\ kbd \in [state : ResetStates \cup WaitStates \cup {"IDLE"},
                queue : Seq(Entries), scan : BOOLEAN, mouseOn : BOOLEAN,
                mouse : -MouseMax - 1 .. MouseMax, overflow : BOOLEAN,
                out : {<<>>}]
    /\ Len(kbd.queue) < QUEUE_LEN
    /\ toHost \in Seq(Bytes) /\ toKbd \in Seq(Bytes)
    /\ host \in ResetStates \cup {"idle", "half"}
    /\ first \in Bytes
    /\ events \in Events /\ decoded \in Events
    /\ broken \in BOOLEAN
    /\ resets \in 0 .. MaxResets /\ late \in 0 .. MaxLate
    /\ ids \in 0 .. MaxIds

(* No timeout fired early, no byte was dropped and no id was asked for.    *)
Clean == late = 0 /\ ~kbd.overflow /\ ids = 0

(* Unless one of these happened, every two bytes the driver takes for an   *)
(* event are the two halves of one event and events come in order: the     *)
(* ring, the direct path of archie_kbd_send() and a reset in the middle    *)
(* never mix two events.                                                   *)
PairsIntact == Clean => ~broken

(* "don't send anything yet if we are still in reset state": no half of an *)
(* event goes out between the HRST and the end of the handshake.           *)
Sent == SubSeq(toHost', Len(toHost) + 1, Len(toHost'))
NoDataInReset ==
    [][kbd.state \in ResetStates =>
          \A i \in DOMAIN Sent : Sent[i].cmd # "DATA"]_vars

(* The reset handshake ends, however many times it is started over, with   *)
(* lost patience on either side.                                           *)
ResetCompletes == kbd.state \in ResetStates ~> kbd.state \notin ResetStates

(* Every event accepted is understood by the driver, unless it was dropped *)
(* by the ring or a reset of the driver took it away.                      *)
EventsDelivered ==
    \A n \in 1 .. MaxEvents :
        events >= n ~> decoded >= n \/ ~Clean \/ resets > 0
=============================================================================
