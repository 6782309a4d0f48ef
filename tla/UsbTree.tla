------------------------------ MODULE UsbTree ------------------------------
(***************************************************************************)
(* The USB host of src/firmware/usb: the table of devices and the way new  *)
(* ones get an address (usb.c), and the hubs (hub.c).  A device answers at *)
(* address 0 from its reset until it is given the number of a slot of the  *)
(* table, so only one device at a time may be there; the flag              *)
(* bResetInitiated, one for all hubs, is to see to that.  The firmware     *)
(* learns of changes by polling, port after port, while the user plugs and *)
(* unplugs whole trees of devices.  The hubs themselves are not part of    *)
(* the repository: their ports are modelled from how hub.c uses them.      *)
(***************************************************************************)
EXTENDS Integers, FiniteSets

CONSTANTS
    Devices,       \* what the user has to plug in
    Hubs,          \* the ones that are hubs
    Odd,           \* the ones no class driver accepts
    Board,         \* stands for the board, where the root device is plugged in
    Nobody,        \* stands for where an unplugged device is
    NumPorts,      \* ports of a hub
    NumDevices,    \* USB_NUMDEVICES
    MaxPlugs,      \* bound: times a device is plugged in
    MaxUnplugs,    \* bound: times one is unplugged
    MaxFaults      \* bound: calls in which a transfer fails

ASSUME UsbAssumption ==
    /\ Hubs \subseteq Devices /\ Odd \subseteq Devices \ Hubs
    /\ Board \notin Devices /\ Nobody \notin Devices \cup {Board}
    /\ NumPorts \in Nat \ {0} /\ NumDevices \in Nat \ {0}
    /\ MaxPlugs \in Nat /\ MaxUnplugs \in Nat /\ MaxFaults \in Nat

VARIABLES
    at,            \* where each device is plugged in
    addr,          \* the address it answers at, if it is reached at all
    rootReset,     \* the root device was reset since it was plugged in
    port,          \* the ports of the hubs
    dev,           \* the table of devices
    usb_task_state,
    bResetInitiated,
    poll,          \* where in usb_hub_check_hub_status() the firmware is
    plugs, unplugs, faults,
    bounced,       \* a device was back before its absence was noticed
    shared,        \* one address was given to two devices at once
    leaked,        \* an entry survived the removal of the root device
    refused,       \* a device was left at address 0, SET_ADDRESS failed
    ignored        \* a request to a hub failed, and nobody looked

bus == <<at, addr, rootReset, port>>
history == <<plugs, unplugs, faults, bounced, shared, leaked, refused, ignored>>
vars == <<bus, dev, usb_task_state, bResetInitiated, poll, history>>

-----------------------------------------------------------------------------
(* The bus.                                                                *)

Numbers == 1 .. NumPorts
Ports == Hubs \X Numbers
Root == <<Board, 0>>
Away == <<Nobody, 0>>
Places == Ports \cup {Root, Away}

(* A port has power or not; with power it is disabled, being reset or      *)
(* enabled, and has two change bits.                                       *)
Off == [state |-> "off", connection |-> FALSE, reset |-> FALSE]
Connected(p) == \E d \in Devices : at[d] = p

(* D and the devices plugged in behind it: the smallest set that has, with *)
(* a hub, what is plugged into it.                                         *)
Below(D) ==
    {d \in Devices : \A S \in SUBSET Devices :
        D \subseteq S /\ (\A e \in Devices : at[e][1] \in S => e \in S)
          => d \in S}

(* The devices that see what the host sends: the root device after its     *)
(* reset, and what is behind the enabled ports of hubs among them.         *)
Reached ==
    {d \in Devices : \A S \in SUBSET Devices :
        (\A e \in Devices :
            \/ at[e] = Root /\ rootReset
            \/ at[e] \in Ports /\ at[e][1] \in S /\ port[at[e]].state = "enabled"
            => e \in S)
        => d \in S}

Answering(a) == {d \in Reached : addr[d] = a}

(* Devices that are reset or without power forget their address, and the   *)
(* hubs among them their ports.                                            *)
Forgotten(D) ==
    LET gone == Below(D)
    IN  [d \in Devices |-> IF d \in gone THEN 0 ELSE addr[d]]

PortsOff(D) ==
    LET gone == Below(D)
    IN  [p \in Ports |-> IF p[1] \in gone THEN Off ELSE port[p]]

-----------------------------------------------------------------------------
(* The table.                                                              *)

Slots == 0 .. NumDevices - 1
Free == [bAddress |-> 0, parent |-> 0, port |-> 0, class |-> "none"]
First(S) == CHOOSE i \in S : \A j \in S : i <= j

Used == {i \in Slots : dev[i].bAddress # 0}
Matching(parent, p) == {i \in Used : dev[i].parent = parent /\ dev[i].port = p}

Class(d) == CASE d \in Hubs -> "hub" [] d \in Odd -> "none" [] OTHER -> "device"

\* Mutant: only the device itself is released.
ReleaseOne(parent, p) ==
    IF Matching(parent, p) = {} THEN dev
    ELSE [dev EXCEPT ![First(Matching(parent, p))] = Free]

(* Entry i, the entries that have it as a parent, and so on. *)
Kids(i) ==
    {j \in Used : \A S \in SUBSET Used :
        i \in S /\ (\A k \in Used :
                      (\E m \in S : dev[k].parent = dev[m].bAddress) => k \in S)
          => j \in S}

(* usb_release_device(): the first entry that matches, its kids first. *)
usb_release_device(parent, p) ==
    LET kids == Kids(First(Matching(parent, p)))
    IN  IF Matching(parent, p) = {} THEN dev
        ELSE [i \in Slots |-> IF i \in kids THEN Free ELSE dev[i]]

(* The hubs among D are configured and switch their ports on. *)
PowerOn(ports, D) ==
    [q \in Ports |->
       IF q[1] \in D
       THEN [state |-> "disabled", connection |-> Connected(q), reset |-> FALSE]
       ELSE ports[q]]

\* Mutant: the address is the number of devices.
AddressCounted(i) == Cardinality(Used) + 1

(* "address is simply the number of the free slot + 1" *)
NewAddress(i) == i + 1

(* usb_configure(): whoever is at address 0 is given the number of the     *)
(* first free slot, and the class drivers are asked in turn.  If           *)
(* SET_ADDRESS fails all stays as it is: the device is left at address 0   *)
(* and the slot free.  ports is what has become of the ports on the way    *)
(* here, lost the number of requests that failed.                          *)
usb_configure(parent, p, ports, lost) ==
    LET free == Slots \ Used
        i == First(free)
        new == Answering(0)
        Entry(c) == [bAddress |-> NewAddress(i), parent |-> parent, port |-> p,
                     class |-> c]
    IN  /\ faults + lost <= MaxFaults
        /\ \/ /\ free = {} \/ new = {}
              /\ port' = ports
              /\ faults' = faults + lost
              /\ UNCHANGED <<addr, dev, shared, refused>>
           \/ /\ free # {} /\ new # {}
              /\ faults + lost < MaxFaults
              /\ port' = ports
              /\ faults' = faults + lost + 1
              /\ refused' = TRUE
              /\ UNCHANGED <<addr, dev, shared>>
           \/ /\ free # {}
              /\ shared' = (shared \/ \E d, e \in new : d # e)
              /\ \E d \in new :
                   \/ /\ dev' = [dev EXCEPT ![i] = Entry(Class(d))]
                      /\ port' = PowerOn(ports, new \cap Hubs)
                      /\ faults' = faults + lost
                   \/ /\ faults + lost < MaxFaults
                      /\ dev' = [dev EXCEPT ![i] = Entry("none")]
                      /\ port' = ports
                      /\ faults' = faults + lost + 1
              /\ addr' = [d \in Devices |-> IF d \in new THEN NewAddress(i)
                                            ELSE addr[d]]
              /\ UNCHANGED refused

-----------------------------------------------------------------------------
(* The root port: usb_poll().                                              *)

Detached == {"INITIALIZE", "WAIT_FOR_DEVICE"}
Idle == [at |-> "idle", slot |-> 0, todo |-> {}]

(* max3421e_poll() and the switch on what it returns. *)
BusProbe ==
    /\ poll = Idle
    /\ \/ /\ ~Connected(Root) /\ usb_task_state \notin Detached
          /\ usb_task_state' = "INITIALIZE"
       \/ /\ Connected(Root) /\ usb_task_state \in Detached
          /\ usb_task_state' = "ATTACHED"
    /\ UNCHANGED <<bus, dev, bResetInitiated, poll, history>>

\* Mutant: only the root device is removed.
InitializeRoot ==
    /\ poll = Idle
    /\ usb_task_state = "INITIALIZE"
    /\ dev' = [i \in Slots |-> IF dev[i].parent = 0 THEN Free ELSE dev[i]]
    /\ usb_task_state' = "WAIT_FOR_DEVICE"
    /\ UNCHANGED <<bus, bResetInitiated, poll, history>>

(* "just remove everything": the entries some class accepted. *)
Initialize ==
    /\ poll = Idle
    /\ usb_task_state = "INITIALIZE"
    /\ dev' = [i \in Slots |-> IF dev[i].class # "none" THEN Free ELSE dev[i]]
    /\ leaked' = (leaked \/ \E i \in Slots : dev'[i].bAddress # 0)
    /\ usb_task_state' = "WAIT_FOR_DEVICE"
    /\ UNCHANGED <<bus, bResetInitiated, poll, plugs, unplugs, faults, bounced,
                   shared, refused, ignored>>

(* Settle, reset and the first frame. *)
ResetRoot ==
    /\ poll = Idle
    /\ usb_task_state = "ATTACHED"
    /\ LET D == {d \in Devices : at[d] = Root} IN
         /\ addr' = Forgotten(D)
         /\ port' = PortsOff(D)
         /\ rootReset' = (D # {})
    /\ usb_task_state' = "CONFIGURING"
    /\ UNCHANGED <<at, dev, bResetInitiated, poll, history>>

ConfigureRoot ==
    /\ poll = Idle
    /\ usb_task_state = "CONFIGURING"
    /\ usb_configure(0, 0, port, 0)
    /\ usb_task_state' = "RUNNING"
    /\ UNCHANGED <<at, rootReset, bResetInitiated, poll, plugs, unplugs,
                   bounced, leaked, ignored>>

-----------------------------------------------------------------------------
(* The hubs: usb_hub_poll().                                               *)

Changed(hub) ==
    {n \in Numbers : port[<<hub, n>>].connection \/ port[<<hub, n>>].reset}

(* The hub that answers for the slot; there is none when it was unplugged. *)
HubOf(i) == Answering(dev[i].bAddress) \cap Hubs

(* A hub reports the ports that changed; if none did it answers NAK. *)
usb_hub_poll(i) ==
    /\ poll = Idle
    /\ i \in Used /\ dev[i].class = "hub"
    /\ \E hub \in HubOf(i) :
         /\ Changed(hub) # {}
         /\ poll' = [at |-> "changed", slot |-> i, todo |-> Changed(hub)]
    /\ UNCHANGED <<bus, dev, usb_task_state, bResetInitiated, history>>

Next1(rest) ==
    IF rest # {} THEN [poll EXCEPT !.todo = rest]
    ELSE IF poll.at = "changed" THEN [poll EXCEPT !.at = "disabled",
                                                  !.todo = Numbers]
    ELSE Idle

(* The event: status and change bits of the port have to match exactly.    *)
(* In the second round a disabled port with a device counts as changed.    *)
Event(q) ==
    LET second == poll.at = "disabled"
        closed == port[q].state # "disabled" \/ ~Connected(q)
        changed == port[q].connection \/ second
    IN  IF second /\ closed THEN "none"
        ELSE IF changed /\ ~port[q].reset /\ port[q].state = "disabled"
        THEN IF Connected(q) THEN "CONNECT" ELSE "DISCONNECT"
        ELSE IF port[q].reset /\ ~changed /\ port[q].state = "enabled"
        THEN "RESET_COMPLETE" ELSE "none"

(* Nobody checks the requests for features of a port: the handler goes on  *)
(* as if the ones that failed had been carried out.                        *)
Requests(lost) ==
    /\ faults + lost <= MaxFaults
    /\ faults' = faults + lost
    /\ ignored' = (ignored \/ lost # 0)

(* The reset of a port begins; kept: its change bit was not taken back.    *)
PortReset(q, kept) ==
    LET D == {d \in Devices : at[d] = q}
    IN  /\ addr' = Forgotten(D)
        /\ port' = [PortsOff(D) EXCEPT ![q].state = "resetting",
                                       ![q].connection = kept]

\* Mutant: the flag is not looked at.
ConnectAnyway(q) ==
    /\ Event(q) = "CONNECT"
    /\ Requests(0) /\ PortReset(q, FALSE)
    /\ bResetInitiated' = TRUE
    /\ poll' = Idle
    /\ UNCHANGED <<dev, shared, refused>>

(* A device was connected: its port is reset, if no other one is. *)
Connect(q) ==
    /\ Event(q) = "CONNECT"
    /\ ~bResetInitiated
    /\ \/ Requests(0) /\ PortReset(q, FALSE)
       \/ Requests(1) /\ port[q].connection /\ PortReset(q, TRUE)
       \/ /\ Requests(1)
          /\ port' = [port EXCEPT ![q].connection = FALSE]
          /\ UNCHANGED addr
    /\ bResetInitiated' = TRUE
    /\ poll' = Idle
    /\ UNCHANGED <<dev, shared, refused>>

(* A device was disconnected. *)
Disconnect(q) ==
    /\ Event(q) = "DISCONNECT"
    /\ \/ Requests(0) /\ port' = [port EXCEPT ![q].connection = FALSE]
       \/ Requests(1) /\ UNCHANGED port
    /\ bResetInitiated' = FALSE
    /\ dev' = usb_release_device(dev[poll.slot].bAddress, q[2])
    /\ poll' = Next1(poll.todo \ {q[2]})
    /\ UNCHANGED <<addr, shared, refused>>

\* Mutant: the flag stays set.
ResetCompleteKeepsFlag(q) ==
    /\ Event(q) = "RESET_COMPLETE"
    /\ usb_configure(dev[poll.slot].bAddress, q[2],
                     [port EXCEPT ![q].reset = FALSE], 0)
    /\ poll' = Next1(poll.todo \ {q[2]})
    /\ UNCHANGED <<bResetInitiated, ignored>>

(* The reset is over: the device is configured. *)
ResetComplete(q) ==
    LET parent == dev[poll.slot].bAddress
        cleared == [port EXCEPT ![q].reset = FALSE]
    IN  /\ Event(q) = "RESET_COMPLETE"
        /\ \/ usb_configure(parent, q[2], cleared, 0) /\ UNCHANGED ignored
           \/ usb_configure(parent, q[2], port, 1) /\ ignored' = TRUE
        /\ bResetInitiated' = FALSE
        /\ poll' = Next1(poll.todo \ {q[2]})

(* Anything else, and a device connected while some port is reset, is left *)
(* as it is; and so is a port whose status cannot be read.                 *)
Ignore(q) ==
    /\ \/ Event(q) = "none" /\ UNCHANGED faults
       \/ Event(q) = "CONNECT" /\ bResetInitiated /\ UNCHANGED faults
       \/ faults < MaxFaults /\ faults' = faults + 1
    /\ poll' = Next1(poll.todo \ {q[2]})
    /\ UNCHANGED <<addr, port, dev, shared, bResetInitiated, refused, ignored>>

(* usb_hub_port_status_change() for the next port; or the hub does not     *)
(* answer any more.                                                        *)
usb_hub_port_status_change ==
    /\ poll # Idle
    /\ \/ \E hub \in HubOf(poll.slot) :
            LET q == <<hub, First(poll.todo)>>
            IN  Connect(q) \/ Disconnect(q) \/ ResetComplete(q) \/ Ignore(q)
       \/ /\ HubOf(poll.slot) = {}
          /\ poll' = Next1(poll.todo \ {First(poll.todo)})
          /\ UNCHANGED <<addr, port, dev, faults, shared, bResetInitiated,
                         refused, ignored>>
    /\ UNCHANGED <<at, rootReset, usb_task_state, plugs, unplugs, bounced,
                   leaked>>

-----------------------------------------------------------------------------
(* The hubs and the user (external).                                       *)

(* A hub ends the reset of a port: it is enabled. *)
PortResetDone(q) ==
    /\ port[q].state = "resetting"
    /\ port' = [port EXCEPT ![q].state = "enabled", ![q].reset = TRUE]
    /\ UNCHANGED <<at, addr, rootReset, dev, usb_task_state, bResetInitiated,
                   poll, history>>

(* The host still takes what was at this place for plugged in. *)
Unnoticed(q) ==
    IF q = Root THEN usb_task_state \notin Detached \/ rootReset \/ Used # {}
    ELSE port[q].connection

Plug(d, q) ==
    /\ plugs < MaxPlugs
    /\ at[d] = Away
    /\ q # Away /\ ~Connected(q)
    /\ q[1] \notin Below({d})
    /\ at' = [at EXCEPT ![d] = q]
    /\ port' = IF q = Root \/ port[q].state = "off" THEN port
               ELSE [port EXCEPT ![q].connection = TRUE]
    /\ bounced' = (bounced \/ Unnoticed(q))
    /\ plugs' = plugs + 1
    /\ UNCHANGED <<addr, rootReset, dev, usb_task_state, bResetInitiated, poll,
                   unplugs, faults, shared, leaked, refused, ignored>>

(* What is plugged in behind the device stays so. *)
Unplug(d) ==
    /\ unplugs < MaxUnplugs
    /\ at[d] # Away
    /\ LET q == at[d] IN
         /\ at' = [at EXCEPT ![d] = Away]
         /\ addr' = Forgotten({d})
         /\ port' = IF q = Root \/ port[q].state = "off" THEN PortsOff({d})
                    ELSE [PortsOff({d}) EXCEPT ![q].state = "disabled",
                                               ![q].connection = TRUE]
         /\ rootReset' = (rootReset /\ q # Root)
    /\ unplugs' = unplugs + 1
    /\ UNCHANGED <<dev, usb_task_state, bResetInitiated, poll, plugs, faults,
                   bounced, shared, leaked, refused, ignored>>

-----------------------------------------------------------------------------

Init ==
    /\ at = [d \in Devices |-> Away]
    /\ addr = [d \in Devices |-> 0]
    /\ rootReset = FALSE
    /\ port = [q \in Ports |-> Off]
    /\ dev = [i \in Slots |-> Free]
    /\ usb_task_state = "INITIALIZE"
    /\ bResetInitiated = FALSE
    /\ poll = Idle
    /\ plugs = 0 /\ unplugs = 0 /\ faults = 0
    /\ bounced = FALSE /\ shared = FALSE /\ leaked = FALSE
    /\ refused = FALSE /\ ignored = FALSE

usb_poll == BusProbe \/ Initialize \/ ResetRoot \/ ConfigureRoot

Host ==
    \/ usb_poll
    \/ \E i \in Slots : usb_hub_poll(i)
    \/ usb_hub_port_status_change

User == \E d \in Devices : Unplug(d) \/ \E q \in Places : Plug(d, q)

Next == Host \/ User \/ \E q \in Ports : PortResetDone(q)

(* The main loop calls usb_poll() for ever, every hub is polled in turn    *)
(* and the hubs end the resets they were asked for.                        *)
Fairness ==
    /\ SF_vars(usb_poll)
    /\ \A i \in Slots : SF_vars(usb_hub_poll(i))
    /\ WF_vars(usb_hub_port_status_change)
    /\ WF_vars(\E q \in Ports : PortResetDone(q))

Spec == Init /\ [][Next]_vars
FairSpec == Spec /\ Fairness

-----------------------------------------------------------------------------
(* Properties.                                                             *)

Entries == [bAddress : 0 .. NumDevices, parent : 0 .. NumDevices,
            port : 0 .. NumPorts, class : {"none", "hub", "device"}]

TypeOK ==
    /\ at \in [Devices -> Places]
    /\ addr \in [Devices -> 0 .. NumDevices]
    /\ rootReset \in BOOLEAN
    /\ port \in [Ports -> [state : {"off", "disabled", "resetting", "enabled"},
                           connection : BOOLEAN, reset : BOOLEAN]]
    /\ dev \in [Slots -> Entries]
    /\ \A i \in Slots : dev[i].bAddress \in {0, i + 1}
    /\ usb_task_state \in Detached \cup {"ATTACHED", "CONFIGURING", "RUNNING"}
    /\ bResetInitiated \in BOOLEAN
    /\ poll \in [at : {"idle", "changed", "disabled"}, slot : Slots,
                 todo : SUBSET Numbers]
    /\ plugs \in 0 .. MaxPlugs /\ unplugs \in 0 .. MaxUnplugs
    /\ faults \in 0 .. MaxFaults
    /\ bounced \in BOOLEAN /\ shared \in BOOLEAN /\ leaked \in BOOLEAN
    /\ refused \in BOOLEAN /\ ignored \in BOOLEAN

(* Every entry has a parent that is a hub, up to the root: nobody is       *)
(* released without the entries behind it, whatever is unplugged when.     *)
ParentsPresent ==
    \A i \in Used : dev[i].parent # 0 =>
        dev[i].parent - 1 \in Used /\ dev[dev[i].parent - 1].class = "hub"

NoRing ==
    \A S \in SUBSET Used :
        S # {} => \E i \in S : dev[i].parent = 0 \/ dev[i].parent - 1 \notin S

OnePerPort ==
    \A i, j \in Used :
        dev[i].parent = dev[j].parent /\ dev[i].port = dev[j].port => i = j

Orderly == ~bounced /\ ~shared /\ ~leaked /\ ~ignored

TableIsTree ==
    /\ ~leaked => ParentsPresent /\ NoRing
    /\ Orderly => OnePerPort

(* No two devices ever answer at the same address, unless one was given to *)
(* both; and that does not happen, since no two answer at the default      *)
(* address, while nothing is unplugged, the table has room and no device   *)
(* was left at the default address: usb_configure() leaves it there if     *)
(* SET_ADDRESS fails (usb.c:382), and the next reset is begun all the same.*)
Quiet == unplugs = 0 /\ ~refused /\ ~ignored

OneAnswers ==
    /\ Orderly =>
         \A a \in 1 .. NumDevices : \A d, e \in Answering(a) : d = e
    /\ Quiet => Orderly
    /\ Quiet /\ Used # Slots => \A d, e \in Answering(0) : d = e

(* "reset already in progress" (hub.c:162) is to see to that, but a        *)
(* disconnect at another port ends what the flag says.                     *)
NoAddressShared == ~shared

(* While nothing is unplugged and no transfer fails, every device that is  *)
(* plugged in is configured in the end: it stays plugged in, and does not  *)
(* stay without its entry.                                                 *)
Attached(d) == d \in Below({r \in Devices : at[r] = Root})
Served(d) == \E i \in Used : dev[i].bAddress = addr[d] /\ dev[i].class = Class(d)
EveryoneServed ==
    \A d \in Devices :
        []<>(Attached(d) => Served(d) \/ unplugs > 0 \/ faults > 0)

(* An entry whose device is gone is removed in the end, however many       *)
(* devices were plugged in behind it: no slot keeps one for ever.          *)
Alive(i) == Answering(i + 1) # {}
PhantomsGo ==
    \A i \in Slots : []<>(i \in Used /\ Orderly => Alive(i))

(* "reset already in progress" (hub.c:162): a device is refused for that   *)
(* reason only while some port is being reset, or the end of its reset or  *)
(* the loss of its device has yet to be noticed and takes the flag back.   *)
RefusedOnlyDuringReset ==
    poll # Idle /\ bResetInitiated /\ ~bounced =>
        \A hub \in HubOf(poll.slot) :
            Event(<<hub, First(poll.todo)>>) = "CONNECT" =>
                \E q \in Ports :
                    \/ port[q].state = "resetting"
                    \/ port[q].reset /\ port[q].state = "enabled"
                    \/ port[q].connection /\ ~port[q].reset /\ ~Connected(q)
=============================================================================
