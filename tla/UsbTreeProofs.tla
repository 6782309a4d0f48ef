--------------------------- MODULE UsbTreeProofs ---------------------------
(***************************************************************************)
(* Proofs about UsbTree, for any set of hubs and devices and any size of   *)
(* the table.                                                              *)
(***************************************************************************)
EXTENDS UsbTree, WellFoundedInduction, TLAPS

-----------------------------------------------------------------------------
(* The inductive invariant.                                                *)

(* The bus, whatever happened: one device per place; a hub whose ports     *)
(* have power was given an address; who has one is reached by the host; a  *)
(* port that is reset or enabled has a device.                             *)
OnePerPlace ==
    \A d, e \in Devices : at[d] = at[e] /\ at[d] # Away => d = e

PowerNeedsAddress == \A q \in Ports : port[q].state # "off" => addr[q[1]] # 0

AddressedReached == \A d \in Devices : addr[d] # 0 => d \in Reached

ActiveConnected ==
    \A q \in Ports : port[q].state \in {"resetting", "enabled"} => Connected(q)

BusInv ==
    OnePerPlace /\ PowerNeedsAddress /\ AddressedReached /\ ActiveConnected

(* A hub that is polled has ports left to look at. *)
PollInv ==
    /\ poll # Idle <=> poll.at # "idle"
    /\ poll # Idle => poll.todo # {}

(* Where the state machine of the root port is. *)
RootInv ==
    /\ usb_task_state \in Detached \cup {"ATTACHED"} => ~rootReset
    /\ rootReset => Connected(Root)
    /\ ~leaked /\ ~bounced =>
         \/ Used = {}
         \/ usb_task_state = "RUNNING"
         \/ usb_task_state = "INITIALIZE" /\ ~Connected(Root)
    /\ ~leaked /\ poll # Idle =>
         poll.slot \in Used /\ dev[poll.slot].class = "hub"

TreeInv == ~leaked => ParentsPresent /\ NoRing

(* The table and the bus agree: a device with an address has the entry of  *)
(* that number, which tells where it is; an entry of a port is that of the *)
(* device there, or of one whose absence is still to be reported.          *)
InService(q) == port[q].state = "enabled" /\ ~port[q].reset

LossPending(q) ==
    port[q].state = "disabled" /\ port[q].connection /\ ~Connected(q)

EntryOf(d) == dev[addr[d] - 1]

EntryTells ==
    \A d \in Devices : addr[d] # 0 =>
        /\ addr[d] - 1 \in Used
        /\ \/ at[d] = Root /\ EntryOf(d).parent = 0 /\ EntryOf(d).port = 0
           \/ /\ at[d] \in Ports
              /\ EntryOf(d).parent = addr[at[d][1]] /\ EntryOf(d).parent # 0
              /\ EntryOf(d).port = at[d][2]
              /\ InService(at[d])

AddressOnce ==
    \A d, e \in Devices : addr[d] = addr[e] /\ addr[d] # 0 => d = e

PortAgrees ==
    \A q \in Ports, j \in Used :
        /\ addr[q[1]] # 0
        /\ dev[j].parent = addr[q[1]] /\ dev[j].port = q[2]
        => InService(q) \/ LossPending(q)

Agrees == EntryTells /\ AddressOnce /\ PortAgrees /\ OnePerPort

TableInv == Orderly => Agrees

(* While nothing is unplugged and no request to a hub or SET_ADDRESS fails *)
(* one port at most is being reset, and only the device there has no       *)
(* address yet.                                                            *)
Pending(q) == port[q].state = "resetting" \/ port[q].reset

ResetInv ==
    /\ \A q \in Ports : port[q].connection => Connected(q)
    /\ \A q \in Ports : port[q].reset => port[q].state = "enabled"
    /\ \A q, r \in Ports : Pending(q) /\ Pending(r) => q = r
    /\ \A q \in Ports : Pending(q) => bResetInitiated

StageInv ==
    /\ usb_task_state \in Detached => Used = {}
    /\ usb_task_state \notin Detached => Connected(Root)
    /\ usb_task_state \in {"CONFIGURING", "RUNNING"} => rootReset

ServiceInv ==
    Used # Slots =>
       \A d \in Devices :
          /\ at[d] \in Ports /\ InService(at[d]) => addr[d] # 0
          /\ at[d] = Root /\ usb_task_state = "RUNNING" => addr[d] # 0

CalmInv == Quiet => Orderly /\ ResetInv /\ StageInv /\ ServiceInv

IInv == TypeOK /\ PollInv /\ BusInv /\ RootInv /\ TreeInv /\ TableInv /\ CalmInv

-----------------------------------------------------------------------------
(* Operators.                                                              *)

(* First() is defined for every nonempty set of numbers. *)
LEMMA FirstIn ==
    ASSUME NEW S, S \subseteq Nat, S # {}
    PROVE  First(S) \in S
<1> DEFINE R == {ss \in Nat \X Nat : ss[1] < ss[2]}
<1>1. PICK i \in S : \A j \in S : ~ (<<j, i>> \in R)
  <2>1. IsWellFoundedOn(R, Nat)
    BY NatLessThanWellFounded, Zenon DEF OpToRel
  <2> HIDE DEF R
  <2>2. QED
    BY <2>1, WFMin
<1>2. ASSUME NEW j \in S PROVE i <= j
  <2>1. i \in Nat /\ j \in Nat /\ ~ (<<j, i>> \in R)
    BY <1>1
  <2>2. ~ (j < i)
    BY <2>1
  <2>3. QED
    BY <2>1, <2>2
<1>3. QED
  BY <1>2 DEF First

(* Below(D) is the smallest closed set that holds D, and its members are   *)
(* those of D and those with a member as parent.                           *)
LEMMA BelowClosed ==
    ASSUME NEW D \in SUBSET Devices
    PROVE  /\ D \subseteq Below(D) /\ Below(D) \subseteq Devices
           /\ \A d \in Devices : at[d][1] \in Below(D) => d \in Below(D)
  BY DEF Below

LEMMA BelowLeast ==
    ASSUME NEW D \in SUBSET Devices, NEW S \in SUBSET Devices, D \subseteq S,
           \A d \in Devices : at[d][1] \in S => d \in S
    PROVE  Below(D) \subseteq S
  BY DEF Below

LEMMA BelowCases ==
    ASSUME NEW D \in SUBSET Devices, NEW d \in Below(D)
    PROVE  d \in D \/ at[d][1] \in Below(D)
<1> DEFINE S == {e \in Below(D) : e \in D \/ at[e][1] \in Below(D)}
<1>1. S \in SUBSET Devices /\ D \subseteq S
  BY BelowClosed
<1>2. \A e \in Devices : at[e][1] \in S => e \in S
  BY BelowClosed
<1>3. Below(D) \subseteq S
  BY <1>1, <1>2, BelowLeast
<1>4. QED
  BY <1>3

(* The same for Reached. *)
LEMMA ReachedClosed ==
    /\ Reached \subseteq Devices
    /\ \A d \in Devices : at[d] = Root /\ rootReset => d \in Reached
    /\ \A d \in Devices :
         at[d] \in Ports /\ at[d][1] \in Reached /\ port[at[d]].state = "enabled"
           => d \in Reached
  BY DEF Reached

LEMMA ReachedLeast ==
    ASSUME NEW S \in SUBSET Devices,
           \A d \in Devices : at[d] = Root /\ rootReset => d \in S,
           \A d \in Devices :
             at[d] \in Ports /\ at[d][1] \in S /\ port[at[d]].state = "enabled"
               => d \in S
    PROVE  Reached \subseteq S
  BY DEF Reached

Reaches(d) ==
    \/ at[d] = Root /\ rootReset
    \/ at[d] \in Ports /\ at[d][1] \in Reached /\ port[at[d]].state = "enabled"

LEMMA ReachedCases ==
    ASSUME NEW d \in Reached
    PROVE  Reaches(d)
<1> DEFINE S == {e \in Reached : Reaches(e)}
<1>1. S \in SUBSET Devices
  BY ReachedClosed
<1>2. \A e \in Devices : at[e] = Root /\ rootReset => e \in S
  BY ReachedClosed DEF Reaches
<1>3. \A e \in Devices :
         at[e] \in Ports /\ at[e][1] \in S /\ port[at[e]].state = "enabled"
           => e \in S
  BY ReachedClosed DEF Reaches
<1>4. QED
  BY <1>1, <1>2, <1>3, ReachedLeast

(* A step that takes the way only to devices in K leaves all others        *)
(* reached.                                                                *)
LEMMA ReachedKept ==
    ASSUME NEW K \in SUBSET Devices,
           \A d \in Devices \ K :
             /\ at[d] = Root /\ rootReset => at'[d] = Root /\ rootReset'
             /\ at[d] \in Ports /\ at[d][1] \notin K
                  /\ port[at[d]].state = "enabled"
                  => at'[d] = at[d] /\ port'[at[d]].state = "enabled"
             /\ at[d] \in Ports => at[d][1] \notin K
    PROVE  Reached \subseteq Reached' \cup K
<1>1. /\ Reached' \subseteq Devices
      /\ \A d \in Devices : at'[d] = Root /\ rootReset' => d \in Reached'
      /\ \A d \in Devices :
           at'[d] \in Ports /\ at'[d][1] \in Reached'
             /\ port'[at'[d]].state = "enabled"
             => d \in Reached'
  BY DEF Reached
<1> DEFINE S == Reached' \cup K
<1>2. S \in SUBSET Devices
  BY <1>1
<1>3. /\ \A d \in Devices : at[d] = Root /\ rootReset => d \in S
      /\ \A d \in Devices :
           at[d] \in Ports /\ at[d][1] \in S /\ port[at[d]].state = "enabled"
             => d \in S
  BY <1>1
<1> HIDE DEF S
<1>4. Reached \subseteq S
  BY <1>2, <1>3, ReachedLeast
<1>5. QED
  BY <1>4 DEF S

(* No device is behind itself: what is behind a hub that is reached is not *)
(* above it.                                                               *)
LEMMA NoLoop ==
    ASSUME UsbAssumption, NEW d \in Devices, at[d][1] \in Reached
    PROVE  at[d][1] \notin Below({d})
<1> DEFINE B == Below({d})
           S == Reached \ B
<1>1. SUFFICES ASSUME at[d][1] \in B PROVE FALSE
  OBVIOUS
<1>2. \A e \in B : at[e][1] \in B
  BY <1>1, BelowCases
<1>3. B \subseteq Devices
  BY BelowClosed
<1> HIDE DEF B
<1>4. S \in SUBSET Devices
  BY ReachedClosed
<1>5. \A e \in Devices : at[e] = Root /\ rootReset => e \in S
  BY <1>2, <1>3, ReachedClosed DEF Root, UsbAssumption
<1>6. \A e \in Devices :
         at[e] \in Ports /\ at[e][1] \in S /\ port[at[e]].state = "enabled"
           => e \in S
  BY <1>2, ReachedClosed
<1>7. Reached \subseteq S
  BY <1>4, <1>5, <1>6, ReachedLeast
<1>8. QED
  BY <1>1, <1>7

(* Kids(i), likewise. *)
LEMMA KidsClosed ==
    ASSUME NEW i \in Used
    PROVE  /\ i \in Kids(i) /\ Kids(i) \subseteq Used
           /\ \A k \in Used, m \in Kids(i) :
                 dev[k].parent = dev[m].bAddress => k \in Kids(i)
  BY DEF Kids

LEMMA KidsLeast ==
    ASSUME NEW i \in Used, NEW S \in SUBSET Used, i \in S,
           \A k \in Used, m \in S : dev[k].parent = dev[m].bAddress => k \in S
    PROVE  Kids(i) \subseteq S
  BY DEF Kids

LEMMA KidsCases ==
    ASSUME NEW i \in Used, NEW j \in Kids(i)
    PROVE  j = i \/ \E m \in Kids(i) : dev[j].parent = dev[m].bAddress
<1> DEFINE S == {k \in Kids(i) :
                   k = i \/ \E m \in Kids(i) : dev[k].parent = dev[m].bAddress}
<1>1. S \in SUBSET Used /\ i \in S
  BY KidsClosed
<1>2. \A k \in Used, m \in S : dev[k].parent = dev[m].bAddress => k \in S
  BY KidsClosed
<1>3. Kids(i) \subseteq S
  BY <1>1, <1>2, KidsLeast
<1>4. QED
  BY <1>3

-----------------------------------------------------------------------------
(* Types.                                                                  *)

PortRecords ==
    [state : {"off", "disabled", "resetting", "enabled"},
     connection : BOOLEAN, reset : BOOLEAN]
Polls == [at : {"idle", "changed", "disabled"}, slot : Slots,
          todo : SUBSET Numbers]

LEMMA RootNotPort ==
    /\ Root \notin Ports /\ Away \notin Ports /\ Root # Away
    /\ Root[1] \notin Devices /\ Away[1] \notin Devices
    /\ \A q \in Ports : q[1] \in Devices /\ q[2] \in Numbers
  BY UsbAssumption DEF Root, Away, Ports

LEMMA FreeType == Free \in Entries
  BY UsbAssumption DEF Free, Entries

LEMMA ForgottenType ==
    ASSUME TypeOK, NEW D
    PROVE  /\ Forgotten(D) \in [Devices -> 0 .. NumDevices]
           /\ PortsOff(D) \in [Ports -> PortRecords]
  BY UsbAssumption DEF TypeOK, Forgotten, PortsOff, PortRecords, Off

LEMMA PowerOnType ==
    ASSUME TypeOK, NEW ports \in [Ports -> PortRecords], NEW D
    PROVE  PowerOn(ports, D) \in [Ports -> PortRecords]
  BY DEF TypeOK, PowerOn, PortRecords, Connected

(* usb_configure(): nothing, since there is no slot, no device or no        *)
(* SET_ADDRESS that succeeds; or a new entry in a free slot i for whoever  *)
(* answers at address 0.                                                   *)
Configured(i, parent, p, ports) ==
    /\ addr' = [d \in Devices |-> IF d \in Answering(0) THEN i + 1 ELSE addr[d]]
    /\ shared' = (shared \/ \E d, e \in Answering(0) : d # e)
    /\ \E c \in {"none", "hub", "device"} :
         dev' = [dev EXCEPT ![i] = [bAddress |-> i + 1, parent |-> parent,
                                    port |-> p, class |-> c]]
    /\ port' = ports \/ port' = PowerOn(ports, Answering(0) \cap Hubs)

LEMMA ConfigureCases ==
    ASSUME TypeOK, NEW parent, NEW p, NEW ports, NEW lost,
           usb_configure(parent, p, ports, lost)
    PROVE  \/ /\ Slots \subseteq Used \/ Answering(0) = {} \/ refused'
              /\ port' = ports /\ UNCHANGED <<addr, dev, shared>>
           \/ /\ \E i \in Slots \ Used : Configured(i, parent, p, ports)
              /\ Answering(0) # {}
<1> DEFINE free == Slots \ Used
           i == First(free)
           new == Answering(0)
           Entry(c) == [bAddress |-> i + 1, parent |-> parent, port |-> p,
                        class |-> c]
           kept == port' = ports /\ UNCHANGED <<addr, dev, shared>>
           given == /\ shared' = (shared \/ \E d, e \in new : d # e)
                    /\ addr' = [d \in Devices |-> IF d \in new THEN i + 1
                                                  ELSE addr[d]]
                    /\ \E d \in new :
                         \/ /\ dev' = [dev EXCEPT ![i] = Entry(Class(d))]
                            /\ port' = PowerOn(ports, new \cap Hubs)
                         \/ /\ dev' = [dev EXCEPT ![i] = Entry("none")]
                            /\ port' = ports
<1>1. \/ (free = {} \/ new = {} \/ refused') /\ kept
      \/ free # {} /\ given
  BY DEF usb_configure, NewAddress
<1>2. CASE (free = {} \/ new = {} \/ refused') /\ kept
  BY <1>2
<1>3. CASE free # {} /\ given
  <2>1. free \subseteq Nat /\ free \subseteq Slots
    BY DEF Slots
  <2>2. i \in free
    BY <1>3, <2>1, FirstIn, Zenon
  <2>3. \A d : Class(d) \in {"none", "hub", "device"}
    BY DEF Class
  <2>4. new # {}
    BY <1>3
  <2> HIDE DEF i, new
  <2>5. /\ \E c \in {"none", "hub", "device"} : dev' = [dev EXCEPT ![i] = Entry(c)]
        /\ port' = ports \/ port' = PowerOn(ports, new \cap Hubs)
    BY <1>3, <2>3
  <2>6. Configured(i, parent, p, ports)
    BY <1>3, <2>5 DEF Configured, new
  <2>7. QED
    BY <2>2, <2>4, <2>6 DEF new
<1>4. QED
  BY <1>1, <1>2, <1>3

(* What usb_configure() notes of the transfers that failed.                *)
LEMMA ConfigureHistory ==
    ASSUME TypeOK, NEW parent, NEW p, NEW ports, NEW lost \in 0 .. 1,
           usb_configure(parent, p, ports, lost)
    PROVE  /\ faults' \in 0 .. MaxFaults
           /\ refused' \in BOOLEAN /\ (refused => refused')
<1>1. /\ faults + lost <= MaxFaults
      /\ \/ faults' = faults + lost
         \/ faults + lost < MaxFaults /\ faults' = faults + lost + 1
  BY DEF usb_configure
<1>2. refused' = TRUE \/ refused' = refused
  BY DEF usb_configure
<1>3. faults \in 0 .. MaxFaults /\ MaxFaults \in Nat /\ refused \in BOOLEAN
  BY UsbAssumption DEF TypeOK
<1>4. faults' \in 0 .. MaxFaults
  BY <1>1, <1>3
<1>5. refused' \in BOOLEAN /\ (refused => refused')
  BY <1>2, <1>3, Zenon
<1>6. QED
  BY <1>4, <1>5

LEMMA ConfigureType ==
    ASSUME TypeOK, NEW parent \in 0 .. NumDevices, NEW p \in 0 .. NumPorts,
           NEW ports \in [Ports -> PortRecords], NEW lost \in 0 .. 1,
           usb_configure(parent, p, ports, lost)
    PROVE  /\ addr' \in [Devices -> 0 .. NumDevices]
           /\ port' \in [Ports -> PortRecords]
           /\ dev' \in [Slots -> Entries]
           /\ \A i \in Slots : dev'[i].bAddress \in {0, i + 1}
           /\ faults' \in 0 .. MaxFaults
           /\ shared' \in BOOLEAN /\ refused' \in BOOLEAN
<1>1. CASE port' = ports /\ UNCHANGED <<addr, dev, shared>>
  BY <1>1, ConfigureHistory DEF TypeOK
<1>2. ASSUME NEW i \in Slots \ Used, Configured(i, parent, p, ports)
      PROVE  /\ addr' \in [Devices -> 0 .. NumDevices]
             /\ port' \in [Ports -> PortRecords]
             /\ dev' \in [Slots -> Entries]
             /\ \A k \in Slots : dev'[k].bAddress \in {0, k + 1}
             /\ shared' \in BOOLEAN
  <2>1. i \in Slots /\ i + 1 \in 0 .. NumDevices
    BY UsbAssumption DEF Slots
  <2>2. PICK c \in {"none", "hub", "device"} :
           dev' = [dev EXCEPT ![i] = [bAddress |-> i + 1, parent |-> parent,
                                      port |-> p, class |-> c]]
    BY <1>2 DEF Configured
  <2>3. [bAddress |-> i + 1, parent |-> parent, port |-> p, class |-> c] \in Entries
    BY <2>1 DEF Entries
  <2>4. /\ dev' \in [Slots -> Entries]
        /\ \A k \in Slots : dev'[k].bAddress \in {0, k + 1}
    BY <2>1, <2>2, <2>3 DEF TypeOK
  <2>5. addr' \in [Devices -> 0 .. NumDevices]
    BY <1>2, <2>1 DEF TypeOK, Configured
  <2>6. port' \in [Ports -> PortRecords]
    BY <1>2, PowerOnType DEF Configured
  <2>7. shared' \in BOOLEAN
    BY <1>2 DEF TypeOK, Configured
  <2>8. QED
    BY <2>4, <2>5, <2>6, <2>7
<1>3. QED
  BY <1>1, <1>2, ConfigureCases, ConfigureHistory

LEMMA TypeInit == Init => TypeOK /\ PollInv
<1> SUFFICES ASSUME Init PROVE TypeOK /\ PollInv
  OBVIOUS
<1> USE UsbAssumption DEF Init
<1>1. at \in [Devices -> Places] /\ addr \in [Devices -> 0 .. NumDevices]
  BY DEF Places
<1>2. port \in [Ports -> [state : {"off", "disabled", "resetting", "enabled"},
                          connection : BOOLEAN, reset : BOOLEAN]]
  BY DEF Off
<1>3. dev \in [Slots -> Entries] /\ \A i \in Slots : dev[i].bAddress \in {0, i + 1}
  BY FreeType DEF Free
<1>4. /\ poll \in [at : {"idle", "changed", "disabled"}, slot : Slots,
                   todo : SUBSET Numbers]
      /\ PollInv
  BY DEF Idle, Slots, PollInv
<1>5. /\ usb_task_state \in Detached /\ rootReset \in BOOLEAN
      /\ bResetInitiated \in BOOLEAN
      /\ bounced \in BOOLEAN /\ shared \in BOOLEAN /\ leaked \in BOOLEAN
      /\ refused \in BOOLEAN /\ ignored \in BOOLEAN
  BY Zenon DEF Detached
<1>6. /\ plugs \in 0 .. MaxPlugs /\ unplugs \in 0 .. MaxUnplugs
      /\ faults \in 0 .. MaxFaults
  OBVIOUS
<1> HIDE DEF Init
<1>7. QED
  BY <1>1, <1>2, <1>3, <1>4, <1>5, <1>6 DEF TypeOK

LEMMA NextPoll ==
    ASSUME TypeOK, PollInv, poll # Idle, NEW rest \in SUBSET Numbers
    PROVE  /\ Next1(rest) \in Polls
           /\ Next1(rest) # Idle <=> Next1(rest).at # "idle"
           /\ Next1(rest) # Idle => Next1(rest).todo # {}
<1>1. poll \in Polls /\ poll.at \in {"changed", "disabled"}
  BY DEF TypeOK, PollInv, Polls
<1>2. 1 \in Numbers
  BY UsbAssumption DEF Numbers
<1>3. CASE rest # {}
  BY <1>1, <1>3 DEF Next1, Polls, Idle
<1>4. CASE rest = {} /\ poll.at = "changed"
  BY <1>1, <1>2, <1>4 DEF Next1, Polls, Idle
<1>5. CASE rest = {} /\ poll.at # "changed"
  BY <1>5, UsbAssumption DEF Next1, Idle, Polls, Slots
<1>6. QED
  BY <1>3, <1>4, <1>5

(* The port looked at is one of a hub that answers. *)
PortAt(hub) == <<hub, First(poll.todo)>>

LEMMA PortAtType ==
    ASSUME TypeOK, PollInv, poll # Idle, NEW hub \in HubOf(poll.slot)
    PROVE  PortAt(hub) \in Ports /\ PortAt(hub)[2] \in Numbers
<1>1. First(poll.todo) \in poll.todo
  <2>1. poll.todo \subseteq Nat /\ poll.todo # {}
    BY DEF TypeOK, PollInv, Numbers
  <2>2. QED
    BY <2>1, FirstIn
<1>2. QED
  BY <1>1 DEF TypeOK, PortAt, HubOf, Ports

(* What a step of the poll leaves alone. *)
PollFrame ==
    UNCHANGED <<at, rootReset, usb_task_state, plugs, unplugs, bounced, leaked>>

LEMMA PortStepCases ==
    ASSUME TypeOK, PollInv, usb_hub_port_status_change
    PROVE  /\ poll # Idle /\ PollFrame
           /\ \/ \E hub \in HubOf(poll.slot) :
                   \/ Connect(PortAt(hub)) \/ Disconnect(PortAt(hub))
                   \/ ResetComplete(PortAt(hub)) \/ Ignore(PortAt(hub))
              \/ /\ poll' = Next1(poll.todo \ {First(poll.todo)})
                 /\ UNCHANGED <<addr, port, dev, faults, shared, bResetInitiated,
                                refused, ignored>>
  BY DEF usb_hub_port_status_change, PollFrame, PortAt

LEMMA PollTypeStep ==
    ASSUME TypeOK, PollInv, usb_hub_port_status_change
    PROVE  TypeOK' /\ PollInv'
<1> DEFINE Rest(n) == poll.todo \ {n}
<1>1. poll # Idle /\ PollFrame
  BY PortStepCases
<1>2. \A n : Rest(n) \in SUBSET Numbers
  BY DEF TypeOK
<1>3. ASSUME NEW n, poll' = Next1(Rest(n))
      PROVE  poll' \in Polls /\ PollInv'
  BY <1>1, <1>2, <1>3, NextPoll DEF PollInv
<1>4. port \in [Ports -> PortRecords] /\ dev \in [Slots -> Entries]
  BY DEF TypeOK, PortRecords
<1>5. SUFFICES /\ addr' \in [Devices -> 0 .. NumDevices]
               /\ port' \in [Ports -> PortRecords]
               /\ dev' \in [Slots -> Entries]
               /\ \A i \in Slots : dev'[i].bAddress \in {0, i + 1}
               /\ bResetInitiated' \in BOOLEAN /\ poll' \in Polls /\ PollInv'
               /\ faults' \in 0 .. MaxFaults /\ shared' \in BOOLEAN
               /\ refused' \in BOOLEAN /\ ignored' \in BOOLEAN
  BY <1>1 DEF TypeOK, PollFrame, PortRecords, Polls
<1>6. ASSUME Requests(0) \/ Requests(1)
      PROVE  faults' \in 0 .. MaxFaults /\ ignored' \in BOOLEAN
  <2>1. faults \in 0 .. MaxFaults /\ MaxFaults \in Nat
    BY UsbAssumption DEF TypeOK
  <2>2. faults' \in 0 .. MaxFaults
    BY <1>6, <2>1 DEF Requests
  <2>3. ignored' \in BOOLEAN
    BY <1>6, Zenon DEF Requests
  <2>4. QED
    BY <2>2, <2>3
<1>7. ASSUME NEW hub \in HubOf(poll.slot), Connect(PortAt(hub))
      PROVE  /\ addr' \in [Devices -> 0 .. NumDevices]
             /\ port' \in [Ports -> PortRecords]
             /\ UNCHANGED <<dev, shared, refused>>
             /\ faults' \in 0 .. MaxFaults /\ ignored' \in BOOLEAN
             /\ bResetInitiated' \in BOOLEAN /\ poll' \in Polls /\ PollInv'
  <2> DEFINE D == {d \in Devices : at[d] = PortAt(hub)}
  <2>1. /\ PortsOff(D) \in [Ports -> PortRecords]
        /\ Forgotten(D) \in [Devices -> 0 .. NumDevices]
    BY ForgottenType
  <2> HIDE DEF D
  <2>2. ASSUME NEW kept \in BOOLEAN, PortReset(PortAt(hub), kept)
        PROVE  /\ addr' \in [Devices -> 0 .. NumDevices]
               /\ port' \in [Ports -> PortRecords]
    <3>1. /\ addr' = Forgotten(D)
          /\ port' = [PortsOff(D) EXCEPT ![PortAt(hub)].state = "resetting",
                                         ![PortAt(hub)].connection = kept]
      BY <2>2, Zenon DEF PortReset, D
    <3>2. port' \in [Ports -> PortRecords]
      BY <2>1, <3>1 DEF PortRecords
    <3>3. QED
      BY <2>1, <3>1, <3>2
  <2>3. [port EXCEPT ![PortAt(hub)].connection = FALSE] \in [Ports -> PortRecords]
    BY <1>4 DEF PortRecords
  <2>4. /\ addr' \in [Devices -> 0 .. NumDevices]
        /\ port' \in [Ports -> PortRecords]
    BY <1>7, <2>2, <2>3 DEF Connect, TypeOK
  <2>5. poll' \in Polls /\ PollInv'
    BY <1>7, UsbAssumption DEF Connect, Idle, Polls, PollInv, Slots, Numbers
  <2>6. Requests(0) \/ Requests(1)
    BY <1>7 DEF Connect
  <2>7. UNCHANGED <<dev, shared, refused>> /\ bResetInitiated' \in BOOLEAN
    BY <1>7 DEF Connect
  <2>8. QED
    BY <1>6, <2>4, <2>5, <2>6, <2>7
<1>8. ASSUME NEW hub \in HubOf(poll.slot), Disconnect(PortAt(hub))
      PROVE  /\ UNCHANGED <<addr, shared, refused>>
             /\ port' \in [Ports -> PortRecords]
             /\ dev' \in [Slots -> Entries]
             /\ \A i \in Slots : dev'[i].bAddress \in {0, i + 1}
             /\ faults' \in 0 .. MaxFaults /\ ignored' \in BOOLEAN
             /\ bResetInitiated' \in BOOLEAN /\ poll' \in Polls /\ PollInv'
  <2>1. [port EXCEPT ![PortAt(hub)].connection = FALSE] \in [Ports -> PortRecords]
    BY <1>4 DEF PortRecords
  <2>2. \A parent, p : /\ usb_release_device(parent, p) \in [Slots -> Entries]
                       /\ \A i \in Slots :
                            usb_release_device(parent, p)[i].bAddress \in {0, i + 1}
    BY <1>4, FreeType DEF usb_release_device, Free, TypeOK
  <2>3. poll' \in Polls /\ PollInv'
    BY <1>3, <1>8 DEF Disconnect
  <2>4. Requests(0) \/ Requests(1)
    BY <1>8 DEF Disconnect
  <2>5. port' \in [Ports -> PortRecords]
    BY <1>4, <1>8, <2>1 DEF Disconnect
  <2>6. QED
    BY <1>6, <1>8, <2>2, <2>3, <2>4, <2>5 DEF Disconnect
<1>9. ASSUME NEW hub \in HubOf(poll.slot), ResetComplete(PortAt(hub))
      PROVE  /\ addr' \in [Devices -> 0 .. NumDevices]
             /\ port' \in [Ports -> PortRecords]
             /\ dev' \in [Slots -> Entries]
             /\ \A i \in Slots : dev'[i].bAddress \in {0, i + 1}
             /\ faults' \in 0 .. MaxFaults /\ shared' \in BOOLEAN
             /\ refused' \in BOOLEAN /\ ignored' \in BOOLEAN
             /\ bResetInitiated' \in BOOLEAN /\ poll' \in Polls /\ PollInv'
  <2> DEFINE q == PortAt(hub)
             parent == dev[poll.slot].bAddress
  <2>1. [port EXCEPT ![q].reset = FALSE] \in [Ports -> PortRecords]
    BY <1>4 DEF PortRecords
  <2>2. q[2] \in 0 .. NumPorts
    BY <1>1, PortAtType, UsbAssumption DEF Numbers
  <2>3. parent \in 0 .. NumDevices
    BY DEF TypeOK, Entries
  <2>4. /\ poll' \in Polls /\ PollInv'
        /\ bResetInitiated' \in BOOLEAN /\ ignored' \in BOOLEAN
    BY <1>3, <1>9 DEF ResetComplete, TypeOK
  <2>5. PICK ports \in [Ports -> PortRecords], lost \in 0 .. 1 :
           usb_configure(parent, q[2], ports, lost)
    <3>1. \/ usb_configure(parent, q[2], [port EXCEPT ![q].reset = FALSE], 0)
          \/ usb_configure(parent, q[2], port, 1)
      BY <1>9, Zenon DEF ResetComplete
    <3>2. 0 \in 0 .. 1 /\ 1 \in 0 .. 1
      OBVIOUS
    <3> HIDE DEF q, parent
    <3>3. QED
      BY <1>4, <2>1, <3>1, <3>2, Zenon
  <2> HIDE DEF q, parent
  <2>6. QED
    BY <2>2, <2>3, <2>4, <2>5, ConfigureType
<1>10. ASSUME NEW hub \in HubOf(poll.slot), Ignore(PortAt(hub))
      PROVE  /\ UNCHANGED <<addr, port, dev, shared, bResetInitiated>>
             /\ UNCHANGED <<refused, ignored>>
             /\ faults' \in 0 .. MaxFaults
             /\ poll' \in Polls /\ PollInv'
  <2>1. poll' \in Polls /\ PollInv'
    BY <1>3, <1>10 DEF Ignore
  <2>2. faults' \in 0 .. MaxFaults
    BY <1>10, UsbAssumption DEF Ignore, TypeOK
  <2>3. QED
    BY <1>10, <2>1, <2>2 DEF Ignore
<1>11. CASE /\ poll' = Next1(poll.todo \ {First(poll.todo)})
            /\ UNCHANGED <<addr, port, dev, faults, shared, bResetInitiated>>
            /\ UNCHANGED <<refused, ignored>>
  BY <1>3, <1>11, <1>4 DEF TypeOK
<1>12. QED
  BY <1>4, <1>7, <1>8, <1>9, <1>10, <1>11, PortStepCases DEF TypeOK

LEMMA TypeStep ==
    ASSUME TypeOK, PollInv, [Next]_vars
    PROVE  TypeOK' /\ PollInv'
<1> USE UsbAssumption
<1>0. port \in [Ports -> PortRecords]
  BY DEF TypeOK, PortRecords
<1>1. CASE BusProbe
  BY <1>1 DEF BusProbe, TypeOK, PollInv, bus, history, Detached
<1>2. CASE Initialize
  BY <1>2, FreeType DEF Initialize, TypeOK, PollInv, bus, Detached, Free
<1>3. CASE ResetRoot
  BY <1>3, ForgottenType DEF ResetRoot, TypeOK, PollInv, history, PortRecords
<1>4. CASE ConfigureRoot
  <2>1. usb_configure(0, 0, port, 0)
    BY <1>4 DEF ConfigureRoot
  <2>2. 0 \in 0 .. NumDevices /\ 0 \in 0 .. NumPorts /\ 0 \in 0 .. 1
    OBVIOUS
  <2>3. QED
    BY <1>0, <1>4, <2>1, <2>2, ConfigureType
    DEF ConfigureRoot, TypeOK, PollInv, PortRecords
<1>5. ASSUME NEW i \in Slots, usb_hub_poll(i) PROVE TypeOK' /\ PollInv'
  <2>1. PICK hub \in HubOf(i) :
           /\ Changed(hub) # {}
           /\ poll' = [at |-> "changed", slot |-> i, todo |-> Changed(hub)]
    BY <1>5 DEF usb_hub_poll
  <2>2. Changed(hub) \in SUBSET Numbers
    BY DEF Changed
  <2>3. poll' \in Polls /\ PollInv'
    BY <2>1, <2>2 DEF Polls, PollInv, Idle
  <2>4. QED
    BY <1>5, <2>3 DEF usb_hub_poll, TypeOK, Polls, bus, history
<1>6. CASE usb_hub_port_status_change
  BY <1>6, PollTypeStep
<1>7. ASSUME NEW q \in Ports, PortResetDone(q) PROVE TypeOK' /\ PollInv'
  <2>1. [port EXCEPT ![q].state = "enabled", ![q].reset = TRUE]
           \in [Ports -> PortRecords]
    BY <1>0 DEF PortRecords
  <2>2. QED
    BY <1>7, <2>1 DEF PortResetDone, TypeOK, PollInv, history, PortRecords
<1>8. ASSUME NEW d \in Devices, NEW q \in Places, Plug(d, q)
      PROVE  TypeOK' /\ PollInv'
  <2>1. [port EXCEPT ![q].connection = TRUE] \in [Ports -> PortRecords]
    BY <1>0 DEF PortRecords
  <2>2. port' \in [Ports -> PortRecords]
    BY <1>0, <1>8, <2>1 DEF Plug
  <2>3. bounced' \in BOOLEAN
    BY <1>8, <1>0 DEF Plug, TypeOK
  <2>4. QED
    BY <1>8, <2>2, <2>3 DEF Plug, TypeOK, PollInv, PortRecords
<1>9. ASSUME NEW d \in Devices, Unplug(d) PROVE TypeOK' /\ PollInv'
  <2>1. PortsOff({d}) \in [Ports -> PortRecords]
    BY ForgottenType
  <2>2. [PortsOff({d}) EXCEPT ![at[d]].state = "disabled",
                              ![at[d]].connection = TRUE]
           \in [Ports -> PortRecords]
    BY <2>1, ZenonT(40) DEF PortRecords
  <2>3. port' \in [Ports -> PortRecords]
    BY <1>9, <2>1, <2>2 DEF Unplug
  <2>4. addr' \in [Devices -> 0 .. NumDevices] /\ at' \in [Devices -> Places]
    BY <1>9, ForgottenType DEF Unplug, TypeOK, Places
  <2>5. rootReset' \in BOOLEAN /\ unplugs' \in 0 .. MaxUnplugs
    BY <1>9 DEF Unplug, TypeOK
  <2>6. UNCHANGED <<dev, usb_task_state, bResetInitiated, poll, plugs, faults,
                    bounced, shared, leaked, refused, ignored>>
    BY <1>9 DEF Unplug
  <2>7. QED
    BY <2>3, <2>4, <2>5, <2>6 DEF TypeOK, PollInv, PortRecords
<1>10. CASE UNCHANGED vars
  BY <1>10 DEF vars, bus, history, TypeOK, PollInv
<1>11. QED
  BY <1>1, <1>2, <1>3, <1>4, <1>5, <1>6, <1>7, <1>8, <1>9, <1>10
  DEF Next, Host, usb_poll, User

-----------------------------------------------------------------------------
(* What the steps do to the bus.                                           *)

LEMMA EventCases ==
    ASSUME TypeOK, NEW q \in Ports
    PROVE  /\ Event(q) = "CONNECT" =>
                port[q].state = "disabled" /\ ~port[q].reset /\ Connected(q)
           /\ Event(q) = "DISCONNECT" =>
                /\ port[q].state = "disabled" /\ ~port[q].reset
                /\ port[q].connection /\ ~Connected(q)
           /\ Event(q) = "RESET_COMPLETE" =>
                port[q].state = "enabled" /\ port[q].reset
<1> DEFINE closed == port[q].state # "disabled" \/ ~Connected(q)
           changed == port[q].connection \/ poll.at = "disabled"
           second == poll.at = "disabled"
<1>1. Event(q) =
        IF second /\ closed THEN "none"
        ELSE IF changed /\ ~port[q].reset /\ port[q].state = "disabled"
        THEN IF Connected(q) THEN "CONNECT" ELSE "DISCONNECT"
        ELSE IF port[q].reset /\ ~changed /\ port[q].state = "enabled"
        THEN "RESET_COMPLETE" ELSE "none"
  BY Zenon DEF Event
<1>2. changed => port[q].connection \/ second
  OBVIOUS
<1>3. ~closed => port[q].state = "disabled" /\ Connected(q)
  OBVIOUS
<1> HIDE DEF closed, changed, second
<1>4. QED
  BY <1>1, <1>2, <1>3

(* The host reaches nobody before it has reset the root device. *)
LEMMA BeforeReset ==
    ASSUME TypeOK, BusInv, ~rootReset
    PROVE  /\ Reached = {}
           /\ \A d \in Devices : addr[d] = 0
           /\ \A q \in Ports : port[q].state = "off"
<1>1. Reached = {}
  <2> DEFINE S == {}
  <2>1. S \in SUBSET Devices
    OBVIOUS
  <2>2. \A d \in Devices : at[d] = Root /\ rootReset => d \in S
    OBVIOUS
  <2>3. \A d \in Devices :
          at[d] \in Ports /\ at[d][1] \in S /\ port[at[d]].state = "enabled"
            => d \in S
    OBVIOUS
  <2> HIDE DEF S
  <2>4. Reached \subseteq S
    BY <2>1, <2>2, <2>3, ReachedLeast
  <2>5. QED
    BY <2>4 DEF S
<1>2. \A d \in Devices : addr[d] = 0
  BY <1>1 DEF BusInv, AddressedReached
<1>3. \A q \in Ports : port[q].state = "off"
  <2> SUFFICES ASSUME NEW q \in Ports PROVE port[q].state = "off"
    OBVIOUS
  <2>1. addr[q[1]] = 0
    BY <1>2, RootNotPort
  <2>2. QED
    BY <2>1 DEF BusInv, PowerNeedsAddress
<1>4. QED
  BY <1>1, <1>2, <1>3

(* A step that takes the devices behind those of D off the bus. *)
LEMMA CutReached ==
    ASSUME TypeOK, BusInv, NEW D \in SUBSET Devices, addr' = Forgotten(D),
           \A d \in Devices \ Below(D) :
             at'[d] = at[d] /\ (at[d] = Root /\ rootReset => rootReset'),
           \A d \in Devices \ Below(D) :
             at[d] \in Ports /\ port[at[d]].state = "enabled"
               => port'[at[d]].state = "enabled"
    PROVE  AddressedReached'
<1> DEFINE K == Below(D)
<1>1. K \in SUBSET Devices /\ \A d \in Devices \ K : at[d][1] \notin K
  BY BelowClosed
<1> HIDE DEF K
<1>2. Reached \subseteq Reached' \cup K
  BY <1>1, ReachedKept DEF K
<1>3. \A d \in Devices : addr'[d] # 0 => d \notin K /\ addr[d] # 0
  BY DEF Forgotten, K
<1>4. QED
  BY <1>2, <1>3 DEF BusInv, AddressedReached

LEMMA CutPower ==
    ASSUME TypeOK, BusInv, NEW D \in SUBSET Devices, addr' = Forgotten(D),
           \A q \in Ports : port'[q].state # "off" =>
              port[q].state # "off" /\ q[1] \notin Below(D)
    PROVE  PowerNeedsAddress'
  BY RootNotPort DEF BusInv, PowerNeedsAddress, Forgotten

(* What is noted of a request that fails. *)
LEMMA LostIgnored ==
    ASSUME Requests(1)
    PROVE  ignored'
<1>1. ignored' = (ignored \/ 1 # 0)
  BY Zenon DEF Requests
<1>2. 1 # 0
  OBVIOUS
<1>3. QED
  BY <1>1, <1>2, Zenon

(* A connect event begins the reset of a port, with one device behind it   *)
(* that is not above the port, unless a request to the hub fails.          *)
Resetting(kept) == [state |-> "resetting", connection |-> kept, reset |-> FALSE]

LEMMA ConnectFacts ==
    ASSUME TypeOK, PollInv, BusInv, poll # Idle, NEW hub \in HubOf(poll.slot),
           Connect(PortAt(hub))
    PROVE  LET q == PortAt(hub) IN
           /\ port[q].state = "disabled" /\ ~port[q].reset
           /\ \/ /\ ignored' /\ addr' = addr
                 /\ port' = [port EXCEPT ![q].connection = FALSE]
              \/ \E d \in Devices, kept \in BOOLEAN :
                   /\ kept => ignored'
                   /\ at[d] = q /\ q[1] \notin Below({d})
                   /\ addr' = Forgotten({d})
                   /\ \A p \in Ports :
                        port'[p] = IF p = q THEN Resetting(kept)
                                   ELSE IF p[1] \in Below({d}) THEN Off ELSE port[p]
<1> DEFINE q == PortAt(hub)
           D == {d \in Devices : at[d] = q}
<1>1. q \in Ports /\ q[1] = hub /\ hub \in Reached
  BY PortAtType DEF PortAt, HubOf, Answering
<1>2. port[q].state = "disabled" /\ ~port[q].reset /\ Connected(q)
  BY <1>1, EventCases DEF Connect
<1>3. PICK d \in Devices : at[d] = q
  BY <1>2 DEF Connected
<1>4. D = {d}
  BY <1>1, <1>3, RootNotPort DEF BusInv, OnePerPlace
<1>5. q[1] \notin Below({d})
  BY <1>1, <1>3, NoLoop, UsbAssumption
<1>6. ASSUME NEW kept \in BOOLEAN, PortReset(q, kept)
      PROVE  /\ addr' = Forgotten({d})
             /\ \A p \in Ports :
                  port'[p] = IF p = q THEN Resetting(kept)
                             ELSE IF p[1] \in Below({d}) THEN Off ELSE port[p]
  <2>1. /\ addr' = Forgotten({d})
        /\ port' = [PortsOff({d}) EXCEPT ![q].state = "resetting",
                                         ![q].connection = kept]
    BY <1>4, <1>6, Zenon DEF PortReset
  <2>2. PortsOff({d}) \in [Ports -> PortRecords] /\ PortsOff({d})[q] = port[q]
    BY <1>1, <1>5, ForgottenType DEF PortsOff
  <2>3. \A p \in Ports : p # q =>
           port'[p] = IF p[1] \in Below({d}) THEN Off ELSE port[p]
    BY <1>1, <2>1, <2>2 DEF PortsOff
  <2>4. port'[q] = Resetting(kept)
    <3>1. port'[q] = [port[q] EXCEPT !.state = "resetting", !.connection = kept]
      BY <1>1, <2>1, <2>2
    <3>2. port[q] \in PortRecords /\ port[q].reset = FALSE
      BY <1>1, <1>2 DEF TypeOK, PortRecords
    <3>3. QED
      BY <3>1, <3>2 DEF PortRecords, Resetting
  <2> HIDE DEF q
  <2>5. QED
    BY <2>1, <2>3, <2>4
<1>7. \/ PortReset(q, FALSE)
      \/ PortReset(q, TRUE) /\ ignored'
      \/ /\ ignored' /\ addr' = addr
         /\ port' = [port EXCEPT ![q].connection = FALSE]
  BY LostIgnored, Zenon DEF Connect
<1> HIDE DEF q, D
<1>8. QED
  BY <1>2, <1>3, <1>5, <1>6, <1>7 DEF q

(* What is unplugged takes its branch off the bus and is reported by the   *)
(* port it was in.                                                         *)
LEMMA UnplugFacts ==
    ASSUME TypeOK, BusInv, NEW d \in Devices, Unplug(d)
    PROVE  LET q == at[d] IN
           /\ q # Away /\ at' = [at EXCEPT ![d] = Away]
           /\ addr' = Forgotten({d})
           /\ q \in Ports /\ port[q].state # "off" => q[1] \notin Below({d})
           /\ \A p \in Ports :
                /\ p # q => port'[p] = IF p[1] \in Below({d}) THEN Off
                                       ELSE port[p]
                /\ p = q /\ port[p].state = "off" => port'[p].state = "off"
                /\ p = q /\ port[p].state # "off" =>
                      /\ port'[p].state = "disabled" /\ port'[p].connection
                      /\ port'[p].reset = port[p].reset
<1> DEFINE q == at[d]
<1>1. /\ q # Away /\ at' = [at EXCEPT ![d] = Away]
      /\ addr' = Forgotten({d})
      /\ port' = IF q = Root \/ port[q].state = "off" THEN PortsOff({d})
                 ELSE [PortsOff({d}) EXCEPT ![q].state = "disabled",
                                            ![q].connection = TRUE]
  BY DEF Unplug
<1>2. ASSUME q \in Ports, port[q].state # "off" PROVE q[1] \notin Below({d})
  <2>1. q[1] \in Reached
    BY <1>2, RootNotPort
    DEF BusInv, PowerNeedsAddress, AddressedReached
  <2>2. QED
    BY <2>1, NoLoop, UsbAssumption
<1>3. /\ PortsOff({d}) \in [Ports -> PortRecords]
      /\ \A p \in Ports :
           PortsOff({d})[p] = IF p[1] \in Below({d}) THEN Off ELSE port[p]
  BY ForgottenType DEF PortsOff
<1>4. q \in Ports \cup {Root} /\ Root \notin Ports
  BY <1>1, RootNotPort DEF TypeOK, Places
<1>5. CASE q = Root
  BY <1>1, <1>3, <1>4, <1>5
<1>6. CASE q \in Ports /\ port[q].state = "off"
  <2>1. port' = PortsOff({d})
    BY <1>1, <1>6
  <2>2. port'[q].state = "off"
    <3>1. port'[q] = Off \/ port'[q] = port[q]
      BY <1>3, <1>6, <2>1
    <3>2. Off.state = "off"
      BY DEF Off
    <3>3. QED
      BY <1>6, <3>1, <3>2
  <2>3. \A p \in Ports :
           port'[p] = IF p[1] \in Below({d}) THEN Off ELSE port[p]
    BY <1>3, <2>1
  <2> HIDE DEF q
  <2>4. QED
    BY <1>1, <1>6, <2>2, <2>3 DEF q
<1>7. CASE q \in Ports /\ port[q].state # "off"
  <2>1. port' = [PortsOff({d}) EXCEPT ![q].state = "disabled",
                                      ![q].connection = TRUE]
    BY <1>1, <1>4, <1>7
  <2>2. PortsOff({d})[q] = port[q]
    BY <1>2, <1>3, <1>7
  <2>3. /\ port'[q].state = "disabled" /\ port'[q].connection
        /\ port'[q].reset = port[q].reset
    BY <1>3, <1>7, <2>1, <2>2 DEF PortRecords
  <2>4. \A p \in Ports : p # q => port'[p] = PortsOff({d})[p]
    BY <1>3, <2>1
  <2>5. QED
    BY <1>1, <1>2, <1>3, <1>7, <2>3, <2>4
<1>8. QED
  BY <1>4, <1>5, <1>6, <1>7

-----------------------------------------------------------------------------
(* The bus.                                                                *)

LEMMA ReachedStays ==
    ASSUME \A d \in Devices : at[d] = Root \/ at[d] \in Ports => at'[d] = at[d],
           rootReset => rootReset',
           \A q \in Ports :
             port[q].state = "enabled" => port'[q].state = "enabled"
    PROVE  Reached \subseteq Reached'
<1> DEFINE K == {}
<1>1. K \in SUBSET Devices
  OBVIOUS
<1>2. \A d \in Devices \ K :
         /\ at[d] = Root /\ rootReset => at'[d] = Root /\ rootReset'
         /\ at[d] \in Ports /\ at[d][1] \notin K
              /\ port[at[d]].state = "enabled"
              => at'[d] = at[d] /\ port'[at[d]].state = "enabled"
         /\ at[d] \in Ports => at[d][1] \notin K
  OBVIOUS
<1> HIDE DEF K
<1>3. Reached \subseteq Reached' \cup K
  BY <1>1, <1>2, ReachedKept
<1>4. QED
  BY <1>3 DEF K

(* Changes of the other bits of a port, and the end of its reset.          *)
LEMMA BusFrame ==
    ASSUME TypeOK, BusInv, UNCHANGED <<at, addr, rootReset>>,
           \A q \in Ports :
             \/ port'[q].state = port[q].state
             \/ port[q].state = "resetting" /\ port'[q].state = "enabled"
    PROVE  BusInv'
<1>1. OnePerPlace'
  BY DEF BusInv, OnePerPlace
<1>2. PowerNeedsAddress'
  BY DEF BusInv, PowerNeedsAddress
<1>3. AddressedReached'
  <2>1. Reached \subseteq Reached'
    BY ReachedStays
  <2>2. QED
    BY <2>1 DEF BusInv, AddressedReached
<1>4. ActiveConnected'
  BY DEF BusInv, ActiveConnected, Connected
<1>5. QED
  BY <1>1, <1>2, <1>3, <1>4 DEF BusInv

LEMMA ConfigureBus ==
    ASSUME TypeOK, BusInv, NEW parent, NEW p, NEW ports \in [Ports -> PortRecords],
           \A q \in Ports : ports[q].state = port[q].state,
           NEW lost, usb_configure(parent, p, ports, lost),
           UNCHANGED <<at, rootReset>>
    PROVE  BusInv'
<1>1. CASE port' = ports /\ UNCHANGED addr
  BY <1>1, BusFrame
<1>2. ASSUME NEW i \in Slots, Configured(i, parent, p, ports) PROVE BusInv'
  <2> DEFINE new == Answering(0)
  <2>1. /\ \A d \in Devices : addr'[d] = IF d \in new THEN i + 1 ELSE addr[d]
        /\ i + 1 # 0
    BY <1>2 DEF Configured, Slots
  <2>2. new \subseteq Reached /\ \A d \in new : addr[d] = 0
    BY DEF Answering
  <2>3. \A q \in Ports :
           \/ q[1] \in new /\ port'[q].state = "disabled"
           \/ port'[q].state = port[q].state
    <3> SUFFICES ASSUME NEW q \in Ports
                 PROVE  \/ q[1] \in new /\ port'[q].state = "disabled"
                        \/ port'[q].state = port[q].state
      OBVIOUS
    <3>1. PowerOn(ports, new \cap Hubs)[q] =
             IF q[1] \in new \cap Hubs
             THEN [state |-> "disabled", connection |-> Connected(q),
                   reset |-> FALSE]
             ELSE ports[q]
      BY DEF PowerOn
    <3>2. port' = ports \/ port' = PowerOn(ports, new \cap Hubs)
      BY <1>2 DEF Configured
    <3> HIDE DEF new
    <3>3. QED
      BY <3>1, <3>2
  <2>4. \A q \in Ports : q[1] \in new => port[q].state = "off"
    BY <2>2 DEF BusInv, PowerNeedsAddress
  <2> HIDE DEF new
  <2>5. OnePerPlace'
    BY DEF BusInv, OnePerPlace
  <2>6. PowerNeedsAddress'
    BY <2>1, <2>3, RootNotPort DEF BusInv, PowerNeedsAddress
  <2>7. AddressedReached'
    <3>1. Reached \subseteq Reached'
      BY <2>3, <2>4, ReachedStays
    <3>2. QED
      BY <2>1, <2>2, <3>1 DEF BusInv, AddressedReached
  <2>8. ActiveConnected'
    BY <2>3 DEF BusInv, ActiveConnected, Connected
  <2>9. QED
    BY <2>5, <2>6, <2>7, <2>8 DEF BusInv
<1>3. QED
  BY <1>1, <1>2, ConfigureCases

LEMMA ConnectBus ==
    ASSUME TypeOK, PollInv, BusInv, poll # Idle, NEW hub \in HubOf(poll.slot),
           Connect(PortAt(hub)), PollFrame
    PROVE  BusInv'
<1> DEFINE q == PortAt(hub)
<1>0. CASE addr' = addr /\ port' = [port EXCEPT ![q].connection = FALSE]
  <2>1. \A p \in Ports : port'[p].state = port[p].state
    BY <1>0 DEF TypeOK
  <2>2. QED
    BY <1>0, <2>1, BusFrame DEF PollFrame
<1>1. SUFFICES ASSUME NEW d \in Devices, NEW kept \in BOOLEAN,
                      at[d] = q, q[1] \notin Below({d}), addr' = Forgotten({d}),
                      \A p \in Ports :
                        port'[p] = IF p = q THEN Resetting(kept)
                                   ELSE IF p[1] \in Below({d}) THEN Off ELSE port[p]
               PROVE  BusInv'
  BY <1>0, ConnectFacts
<1>2. port[q].state = "disabled" /\ q \in Ports
  BY ConnectFacts, PortAtType
<1>3. /\ Resetting(kept).state = "resetting" /\ Off.state = "off"
      /\ at' = at /\ rootReset' = rootReset
  BY DEF Resetting, Off, PollFrame
<1>4. /\ {d} \in SUBSET Devices
      /\ \A e \in Devices \ Below({d}) : at[e][1] \notin Below({d})
  BY BelowClosed
<1> HIDE DEF q
<1>5. OnePerPlace'
  BY <1>3 DEF BusInv, OnePerPlace
<1>6. PowerNeedsAddress'
  <2>1. \A p \in Ports : port'[p].state # "off" =>
           port[p].state # "off" /\ p[1] \notin Below({d})
    BY <1>1, <1>2, <1>3
  <2>2. QED
    BY <1>1, <1>4, <2>1, CutPower
<1>7. AddressedReached'
  <2>1. \A e \in Devices \ Below({d}) :
           at[e] \in Ports /\ port[at[e]].state = "enabled"
             => port'[at[e]].state = "enabled"
    BY <1>1, <1>2, <1>3, <1>4
  <2>2. QED
    BY <1>1, <1>3, <1>4, <2>1, CutReached
<1>8. ActiveConnected'
  BY <1>1, <1>3 DEF BusInv, ActiveConnected, Connected
<1>9. QED
  BY <1>5, <1>6, <1>7, <1>8 DEF BusInv

LEMMA PlugBus ==
    ASSUME TypeOK, BusInv, NEW d \in Devices, NEW q \in Places, Plug(d, q)
    PROVE  BusInv'
<1>1. /\ at[d] = Away /\ q # Away /\ ~Connected(q)
      /\ at' = [at EXCEPT ![d] = q]
      /\ UNCHANGED <<addr, rootReset>>
  BY DEF Plug
<1>2. \A p \in Ports : port'[p].state = port[p].state
  <2>1. port' = port \/ port' = [port EXCEPT ![q].connection = TRUE]
    BY DEF Plug
  <2>2. QED
    BY <2>1 DEF TypeOK
<1>3. \A e \in Devices : at'[e] = IF e = d THEN q ELSE at[e]
  BY <1>1 DEF TypeOK
<1>4. OnePerPlace'
  BY <1>1, <1>3 DEF BusInv, OnePerPlace, Connected, Away
<1>5. PowerNeedsAddress'
  BY <1>1, <1>2 DEF BusInv, PowerNeedsAddress
<1>6. AddressedReached'
  <2>1. Reached \subseteq Reached'
    BY <1>1, <1>2, <1>3, RootNotPort, ReachedStays
  <2>2. QED
    BY <1>1, <2>1 DEF BusInv, AddressedReached
<1>7. ActiveConnected'
  BY <1>1, <1>2, <1>3, RootNotPort DEF BusInv, ActiveConnected, Connected
<1>8. QED
  BY <1>4, <1>5, <1>6, <1>7 DEF BusInv

LEMMA UnplugBus ==
    ASSUME TypeOK, BusInv, NEW d \in Devices, Unplug(d)
    PROVE  BusInv'
<1> DEFINE q == at[d]
<1>1. /\ q # Away /\ at' = [at EXCEPT ![d] = Away]
      /\ addr' = Forgotten({d})
      /\ q \in Ports /\ port[q].state # "off" => q[1] \notin Below({d})
  BY UnplugFacts
<1>2. \A p \in Ports :
         /\ p # q => port'[p] = IF p[1] \in Below({d}) THEN Off ELSE port[p]
         /\ p = q /\ port[p].state = "off" => port'[p].state = "off"
         /\ p = q /\ port[p].state # "off" => port'[p].state = "disabled"
  BY UnplugFacts
<1>3. Off.state = "off" /\ rootReset' = (rootReset /\ q # Root)
  BY DEF Off, Unplug
<1>4. /\ {d} \in SUBSET Devices /\ d \in Below({d})
      /\ \A e \in Devices \ Below({d}) : at[e][1] \notin Below({d})
  BY BelowClosed
<1>5. \A e \in Devices : at'[e] = IF e = d THEN Away ELSE at[e]
  BY <1>1 DEF TypeOK
<1>6. \A e \in Devices : at[e] = q => e = d
  BY <1>1 DEF BusInv, OnePerPlace
<1> HIDE DEF q
<1>7. OnePerPlace'
  BY <1>5 DEF BusInv, OnePerPlace, Away
<1>8. PowerNeedsAddress'
  <2>1. \A p \in Ports : port'[p].state # "off" =>
           port[p].state # "off" /\ p[1] \notin Below({d})
    BY <1>1, <1>2, <1>3
  <2>2. QED
    BY <1>1, <1>4, <2>1, CutPower
<1>9. AddressedReached'
  <2>1. \A e \in Devices \ Below({d}) :
           at'[e] = at[e] /\ (at[e] = Root /\ rootReset => rootReset')
    BY <1>3, <1>4, <1>5, <1>6
  <2>2. \A e \in Devices \ Below({d}) :
           at[e] \in Ports /\ port[at[e]].state = "enabled"
             => port'[at[e]].state = "enabled"
    BY <1>2, <1>4, <1>6
  <2>3. QED
    BY <1>1, <1>4, <2>1, <2>2, CutReached
<1>10. ActiveConnected'
  <2>1. \A p \in Ports : p # q /\ Connected(p) => Connected(p)'
    BY <1>5 DEF Connected, q
  <2>2. QED
    BY <1>2, <1>3, <2>1 DEF BusInv, ActiveConnected
<1>11. QED
  BY <1>7, <1>8, <1>9, <1>10 DEF BusInv

LEMMA BusStep ==
    ASSUME TypeOK, PollInv, BusInv, RootInv, [Next]_vars
    PROVE  BusInv'
<1>1. CASE UNCHANGED bus
  BY <1>1, BusFrame DEF bus
<1>2. CASE ResetRoot
  <2>1. ~rootReset
    BY <1>2 DEF ResetRoot, RootInv
  <2>2. /\ at' = at
        /\ \A d \in Devices : addr'[d] = 0
        /\ \A q \in Ports : port'[q].state = "off"
    BY <1>2, <2>1, BeforeReset DEF ResetRoot, Forgotten, PortsOff, Off
  <2>3. QED
    BY <2>2 DEF BusInv, OnePerPlace, PowerNeedsAddress, AddressedReached,
                ActiveConnected
<1>3. CASE ConfigureRoot
  <2>1. usb_configure(0, 0, port, 0) /\ UNCHANGED <<at, rootReset>>
    BY <1>3 DEF ConfigureRoot
  <2>2. port \in [Ports -> PortRecords]
    BY DEF TypeOK, PortRecords
  <2>3. QED
    BY <2>1, <2>2, ConfigureBus
<1>4. CASE usb_hub_port_status_change
  <2>1. poll # Idle /\ PollFrame /\ UNCHANGED <<at, rootReset>>
    BY <1>4, PortStepCases DEF PollFrame
  <2>2. ASSUME NEW hub \in HubOf(poll.slot), Disconnect(PortAt(hub))
        PROVE  BusInv'
    <3>1. \A q \in Ports : port'[q].state = port[q].state
      BY <2>2 DEF Disconnect, TypeOK
    <3>2. QED
      BY <2>1, <2>2, <3>1, BusFrame DEF Disconnect
  <2>3. ASSUME NEW hub \in HubOf(poll.slot), ResetComplete(PortAt(hub))
        PROVE  BusInv'
    <3> DEFINE ports == [port EXCEPT ![PortAt(hub)].reset = FALSE]
    <3>1. /\ ports \in [Ports -> PortRecords] /\ port \in [Ports -> PortRecords]
          /\ \A q \in Ports : ports[q].state = port[q].state
      BY DEF TypeOK, PortRecords
    <3>2. \/ usb_configure(dev[poll.slot].bAddress, PortAt(hub)[2], ports, 0)
          \/ usb_configure(dev[poll.slot].bAddress, PortAt(hub)[2], port, 1)
      BY <2>3, Zenon DEF ResetComplete
    <3> HIDE DEF ports
    <3>3. QED
      BY <2>1, <3>1, <3>2, ConfigureBus
  <2>4. CASE UNCHANGED <<addr, port>>
    BY <2>1, <2>4, BusFrame
  <2>5. QED
    BY <1>4, <2>1, <2>2, <2>3, <2>4, ConnectBus, PortStepCases DEF Ignore
<1>5. ASSUME NEW q \in Ports, PortResetDone(q) PROVE BusInv'
  <2>1. port[q].state = "resetting"
    BY <1>5 DEF PortResetDone
  <2>2. \A p \in Ports : p # q => port'[p] = port[p]
    BY <1>5 DEF PortResetDone, TypeOK
  <2>3. port'[q].state = "enabled"
    BY <1>5 DEF PortResetDone, TypeOK
  <2>4. QED
    BY <1>5, <2>1, <2>2, <2>3, BusFrame DEF PortResetDone
<1>6. QED
  BY <1>1, <1>2, <1>3, <1>4, <1>5, PlugBus, UnplugBus
  DEF Next, Host, usb_poll, User, vars, BusProbe, Initialize, usb_hub_poll

-----------------------------------------------------------------------------
(* The table.                                                              *)

LEMMA UsedFacts ==
    ASSUME TypeOK
    PROVE  /\ Used \subseteq Slots
           /\ \A i \in Used : dev[i].bAddress = i + 1 /\ i \in Nat
           /\ \A i \in Slots \ Used : dev[i].bAddress = 0
           /\ Slots \subseteq Nat
  BY UsbAssumption DEF TypeOK, Used, Slots

LEMMA AfterNew ==
    ASSUME TypeOK, NEW i \in Slots \ Used, NEW parent, NEW p, NEW c,
           dev' = [dev EXCEPT ![i] = [bAddress |-> i + 1, parent |-> parent,
                                      port |-> p, class |-> c]]
    PROVE  /\ Used' = Used \cup {i}
           /\ \A k \in Slots : k # i => dev'[k] = dev[k]
           /\ dev'[i].parent = parent /\ dev'[i].port = p
<1>1. /\ \A k \in Slots : k # i => dev'[k] = dev[k]
      /\ dev'[i] = [bAddress |-> i + 1, parent |-> parent, port |-> p,
                    class |-> c]
  BY DEF TypeOK
<1>2. i \in Slots /\ i + 1 # 0
  BY DEF Slots
<1>3. Used' = Used \cup {i}
  BY <1>1, <1>2 DEF Used
<1>4. QED
  BY <1>1, <1>3

LEMMA AfterConfigured ==
    ASSUME TypeOK, NEW i \in Slots \ Used, NEW parent, NEW p, NEW ports,
           Configured(i, parent, p, ports)
    PROVE  /\ Used' = Used \cup {i} /\ i \in Nat /\ i \notin Used
           /\ Used \subseteq Slots /\ \A k \in Used : dev'[k] = dev[k]
           /\ dev'[i].parent = parent /\ dev'[i].port = p
<1>1. PICK c \in {"none", "hub", "device"} :
         dev' = [dev EXCEPT ![i] = [bAddress |-> i + 1, parent |-> parent,
                                    port |-> p, class |-> c]]
  BY DEF Configured
<1>2. /\ Used' = Used \cup {i}
      /\ \A k \in Slots : k # i => dev'[k] = dev[k]
      /\ dev'[i].parent = parent /\ dev'[i].port = p
  BY <1>1, AfterNew, ZenonT(40)
<1>3. QED
  BY <1>2, UsedFacts

LEMMA AfterRelease ==
    ASSUME TypeOK, NEW parent, NEW p, dev' = usb_release_device(parent, p)
    PROVE  \/ Matching(parent, p) = {} /\ dev' = dev
           \/ \E i \in Matching(parent, p) :
                /\ Used' = Used \ Kids(i)
                /\ \A k \in Slots : k \notin Kids(i) => dev'[k] = dev[k]
<1>1. CASE Matching(parent, p) = {}
  BY <1>1 DEF usb_release_device
<1>2. CASE Matching(parent, p) # {}
  <2> DEFINE i == First(Matching(parent, p))
             kids == Kids(i)
  <2>1. Matching(parent, p) \subseteq Nat
    BY UsedFacts DEF Matching
  <2>2. i \in Matching(parent, p)
    BY <1>2, <2>1, FirstIn
  <2>3. dev' = [k \in Slots |-> IF k \in kids THEN Free ELSE dev[k]]
    BY <1>2, Zenon DEF usb_release_device
  <2> HIDE DEF i, kids
  <2>4. /\ \A k \in Slots : k \notin kids => dev'[k] = dev[k]
        /\ \A k \in Slots : k \in kids => dev'[k] = Free
    BY <2>3
  <2>5. Used' = Used \ kids
    BY <2>4 DEF Used, Free
  <2>6. QED
    BY <2>2, <2>4, <2>5 DEF kids
<1>3. QED
  BY <1>1, <1>2

(* The hub whose port was looked at is not released with what was there.   *)
LEMMA HubStays ==
    ASSUME TypeOK, NoRing, NEW h \in Used, NEW i \in Used,
           dev[i].parent = dev[h].bAddress
    PROVE  h \notin Kids(i)
<1>1. /\ i \in Kids(i) /\ Kids(i) \subseteq Used
      /\ \A k \in Kids(i) :
           k = i \/ \E m \in Kids(i) : dev[k].parent = dev[m].bAddress
  BY KidsClosed, KidsCases
<1>2. PICK k \in Kids(i) : dev[k].parent = 0 \/ dev[k].parent - 1 \notin Kids(i)
  BY <1>1 DEF NoRing
<1>3. SUFFICES ASSUME h \in Kids(i) PROVE FALSE
  OBVIOUS
<1>4. PICK m \in Kids(i) : dev[k].parent = dev[m].bAddress
  BY <1>1, <1>3
<1>5. dev[k].parent = m + 1 /\ m \in Nat
  BY <1>1, <1>4, UsedFacts
<1>6. QED
  BY <1>2, <1>5

LEMMA NewTree ==
    ASSUME TypeOK, ParentsPresent, NoRing, NEW i \in Slots \ Used,
           NEW parent \in 0 .. NumDevices, NEW p, NEW c,
           dev' = [dev EXCEPT ![i] = [bAddress |-> i + 1, parent |-> parent,
                                      port |-> p, class |-> c]],
           parent # 0 => parent - 1 \in Used /\ dev[parent - 1].class = "hub"
    PROVE  ParentsPresent' /\ NoRing'
<1>1. /\ Used' = Used \cup {i} /\ Used \subseteq Slots
      /\ \A k \in Slots : k # i => dev'[k] = dev[k]
      /\ dev'[i].parent = parent
  BY AfterNew, UsedFacts
<1>2. ASSUME NEW k \in Used', dev'[k].parent # 0
      PROVE  dev'[k].parent - 1 \in Used' /\ dev'[dev'[k].parent - 1].class = "hub"
  <2>1. dev'[k].parent - 1 \in Used /\ dev[dev'[k].parent - 1].class = "hub"
    BY <1>1, <1>2 DEF ParentsPresent
  <2>2. QED
    BY <1>1, <2>1
<1>3. ASSUME NEW S \in SUBSET Used', S # {}
      PROVE  \E k \in S : dev'[k].parent = 0 \/ dev'[k].parent - 1 \notin S
  <2>1. CASE S = {i}
    BY <1>1, <2>1
  <2>2. CASE S # {i}
    <3>1. S \ {i} \in SUBSET Used /\ S \ {i} # {}
      BY <1>1, <1>3, <2>2
    <3>2. PICK k \in S \ {i} :
             dev[k].parent = 0 \/ dev[k].parent - 1 \notin S \ {i}
      BY <3>1 DEF NoRing
    <3>3. k \in Used /\ k # i /\ dev'[k] = dev[k]
      BY <1>1, <3>1
    <3>4. dev[k].parent # 0 => dev[k].parent - 1 # i
      BY <3>3 DEF ParentsPresent
    <3>5. QED
      BY <3>2, <3>3, <3>4
  <2>3. QED
    BY <2>1, <2>2
<1>4. QED
  BY <1>2, <1>3 DEF ParentsPresent, NoRing

LEMMA ReleaseTree ==
    ASSUME TypeOK, ParentsPresent, NoRing, NEW parent, NEW p,
           dev' = usb_release_device(parent, p)
    PROVE  ParentsPresent' /\ NoRing'
<1>1. CASE dev' = dev
  BY <1>1 DEF ParentsPresent, NoRing, Used
<1>2. ASSUME NEW i \in Used, Used' = Used \ Kids(i),
             \A k \in Slots : k \notin Kids(i) => dev'[k] = dev[k]
      PROVE  ParentsPresent' /\ NoRing'
  <2>1. \A k \in Used' : dev'[k] = dev[k] /\ k \in Used
    BY <1>2, UsedFacts
  <2>2. ASSUME NEW k \in Used', dev'[k].parent # 0
        PROVE  dev'[k].parent - 1 \in Used'
                 /\ dev'[dev'[k].parent - 1].class = "hub"
    <3> DEFINE m == dev[k].parent - 1
    <3>1. dev'[k].parent = dev[k].parent /\ k \in Used /\ k \notin Kids(i)
      BY <1>2, <2>1
    <3>2. m \in Used /\ dev[m].class = "hub"
      BY <2>2, <3>1 DEF ParentsPresent
    <3>3. dev[k].parent \in 0 .. NumDevices
      BY <3>1, UsedFacts DEF TypeOK, Entries
    <3>4. dev[k].parent = dev[m].bAddress
      BY <3>2, <3>3, UsedFacts, UsbAssumption
    <3>5. m \notin Kids(i)
      BY <1>2, <3>1, <3>4, KidsClosed
    <3> HIDE DEF m
    <3>6. m \in Used' /\ dev'[m] = dev[m]
      BY <1>2, <3>2, <3>5, <2>1
    <3>7. QED
      BY <3>1, <3>2, <3>6 DEF m
  <2>3. \A S \in SUBSET Used' :
          S # {} => \E k \in S : dev'[k].parent = 0 \/ dev'[k].parent - 1 \notin S
    BY <2>1 DEF NoRing
  <2>4. QED
    BY <2>2, <2>3 DEF ParentsPresent, NoRing
<1>3. QED
  BY <1>1, <1>2, AfterRelease DEF Matching

LEMMA HubOfFacts ==
    ASSUME NEW hub \in HubOf(poll.slot)
    PROVE  hub \in Hubs /\ hub \in Reached /\ addr[hub] = dev[poll.slot].bAddress
  BY DEF HubOf, Answering

(* The poll goes on with the same hub or ends. *)
SameHub == poll' # Idle => poll # Idle /\ poll'.slot = poll.slot

LEMMA NextSame ==
    ASSUME TypeOK, poll # Idle, NEW rest, poll' = Next1(rest)
    PROVE  SameHub
<1>1. CASE rest # {}
  BY <1>1 DEF Next1, SameHub, TypeOK
<1>2. CASE rest = {}
  BY <1>2 DEF Next1, SameHub, TypeOK
<1>3. QED
  BY <1>1, <1>2

(* The polled hub keeps its entry: only what is behind it is released.     *)
LEMMA PollKeepsHub ==
    ASSUME TypeOK, PollInv, RootInv, TreeInv, ~leaked, usb_hub_port_status_change
    PROVE  /\ SameHub
           /\ poll.slot \in Used /\ dev[poll.slot].class = "hub"
           /\ poll.slot \in Used' /\ dev'[poll.slot] = dev[poll.slot]
<1> DEFINE s == poll.slot
<1>1. poll # Idle
  BY PortStepCases
<1>2. s \in Used /\ dev[s].class = "hub" /\ ParentsPresent /\ NoRing
  BY <1>1 DEF RootInv, TreeInv
<1>3. ASSUME dev' = dev PROVE s \in Used' /\ dev'[s] = dev[s]
  BY <1>2, <1>3 DEF Used
<1>4. ASSUME NEW hub \in HubOf(s), Disconnect(PortAt(hub))
      PROVE  s \in Used' /\ dev'[s] = dev[s] /\ SameHub
  <2>1. dev' = usb_release_device(dev[s].bAddress, PortAt(hub)[2])
    BY <1>4, Zenon DEF Disconnect
  <2>2. ASSUME NEW i \in Matching(dev[s].bAddress, PortAt(hub)[2]),
               Used' = Used \ Kids(i),
               \A k \in Slots : k \notin Kids(i) => dev'[k] = dev[k]
        PROVE  s \in Used' /\ dev'[s] = dev[s]
    <3>1. i \in Used /\ dev[i].parent = dev[s].bAddress
      BY <2>2 DEF Matching
    <3>2. s \notin Kids(i)
      BY <1>2, <3>1, HubStays
    <3>3. QED
      BY <1>2, <2>2, <3>2, UsedFacts
  <2>3. SameHub
    BY <1>1, <1>4, NextSame, Zenon DEF Disconnect
  <2>4. QED
    BY <1>3, <2>1, <2>2, <2>3, AfterRelease
<1>5. ASSUME NEW hub \in HubOf(s), ResetComplete(PortAt(hub))
      PROVE  s \in Used' /\ dev'[s] = dev[s] /\ SameHub
  <2>1. SameHub
    BY <1>1, <1>5, NextSame, Zenon DEF ResetComplete
  <2>2. PICK ports, lost : usb_configure(dev[s].bAddress, PortAt(hub)[2], ports, lost)
    BY <1>5, Zenon DEF ResetComplete
  <2>3. ASSUME NEW i \in Slots \ Used, NEW c,
               dev' = [dev EXCEPT ![i] =
                        [bAddress |-> i + 1, parent |-> dev[s].bAddress,
                         port |-> PortAt(hub)[2], class |-> c]]
        PROVE  s \in Used' /\ dev'[s] = dev[s]
    BY <1>2, <2>3, AfterNew, UsedFacts, ZenonT(40)
  <2>4. QED
    BY <1>3, <2>1, <2>2, <2>3, ConfigureCases DEF Configured
<1>6. ASSUME NEW hub \in HubOf(s), Connect(PortAt(hub))
      PROVE  dev' = dev /\ SameHub
  BY <1>6 DEF Connect, SameHub
<1>7. ASSUME NEW hub \in HubOf(s), Ignore(PortAt(hub))
      PROVE  dev' = dev /\ SameHub
  BY <1>1, <1>7, NextSame, Zenon DEF Ignore
<1>8. CASE poll' = Next1(poll.todo \ {First(poll.todo)}) /\ UNCHANGED dev
  BY <1>1, <1>2, <1>3, <1>8, NextSame
<1>9. QED
  BY <1>2, <1>3, <1>4, <1>5, <1>6, <1>7, <1>8, PortStepCases

LEMMA InitializeEmpties ==
    ASSUME Initialize, ~leaked'
    PROVE  Used' = {}
  BY DEF Initialize, Used

LEMMA RootStep ==
    ASSUME TypeOK, PollInv, RootInv, TreeInv, [Next]_vars
    PROVE  RootInv'
<1>1. CASE BusProbe
  <2>1. poll' = Idle /\ UNCHANGED <<at, rootReset, dev, leaked, bounced>>
    BY <1>1 DEF BusProbe, bus, history
  <2>2. QED
    BY <1>1, <2>1 DEF BusProbe, RootInv, Connected, Used, Detached
<1>2. CASE Initialize
  <2>1. /\ poll' = Idle /\ UNCHANGED <<at, rootReset>>
        /\ usb_task_state = "INITIALIZE" /\ usb_task_state' = "WAIT_FOR_DEVICE"
    BY <1>2 DEF Initialize, bus
  <2>2. ~leaked' => Used' = {}
    BY <1>2, InitializeEmpties
  <2>3. QED
    BY <2>1, <2>2 DEF RootInv, Connected, Detached
<1>3. CASE ResetRoot
  <2>1. /\ poll' = Idle /\ UNCHANGED <<at, dev, leaked, bounced>>
        /\ usb_task_state = "ATTACHED" /\ usb_task_state' = "CONFIGURING"
        /\ rootReset' => Connected(Root)
    BY <1>3 DEF ResetRoot, history, Connected
  <2>2. QED
    BY <2>1 DEF RootInv, Connected, Detached, Used
<1>4. CASE ConfigureRoot
  <2>1. /\ poll' = Idle /\ UNCHANGED <<at, rootReset, leaked, bounced>>
        /\ usb_task_state' = "RUNNING"
    BY <1>4 DEF ConfigureRoot
  <2>2. QED
    BY <2>1 DEF RootInv, Connected, Detached
<1>5. ASSUME NEW i \in Slots, usb_hub_poll(i) PROVE RootInv'
  <2>1. /\ i \in Used /\ dev[i].class = "hub" /\ poll'.slot = i
        /\ UNCHANGED <<at, rootReset, dev, usb_task_state, leaked, bounced>>
    BY <1>5 DEF usb_hub_poll, bus, history
  <2>2. QED
    BY <2>1 DEF RootInv, Connected, Used
<1>6. CASE usb_hub_port_status_change
  <2>1. poll # Idle /\ UNCHANGED <<at, rootReset, usb_task_state, leaked, bounced>>
    BY <1>6, PortStepCases DEF PollFrame
  <2>2. CASE leaked
    BY <2>1, <2>2 DEF RootInv, Connected
  <2>3. CASE ~leaked
    <3>1. /\ SameHub /\ poll.slot \in Used /\ dev[poll.slot].class = "hub"
          /\ poll.slot \in Used' /\ dev'[poll.slot] = dev[poll.slot]
      BY <1>6, <2>3, PollKeepsHub
    <3>2. QED
      BY <2>1, <2>3, <3>1 DEF RootInv, Connected, SameHub
  <2>4. QED
    BY <2>2, <2>3
<1>7. ASSUME NEW q \in Ports, PortResetDone(q) PROVE RootInv'
  <2>1. UNCHANGED <<at, rootReset, dev, usb_task_state, poll, leaked, bounced>>
    BY <1>7 DEF PortResetDone, history
  <2>2. QED
    BY <2>1 DEF RootInv, Connected, Used
<1>8. ASSUME NEW d \in Devices, NEW q \in Places, Plug(d, q) PROVE RootInv'
  <2>1. /\ at[d] = Away /\ at' = [at EXCEPT ![d] = q]
        /\ UNCHANGED <<rootReset, dev, usb_task_state, poll, leaked>>
        /\ bounced' = (bounced \/ Unnoticed(q))
    BY <1>8 DEF Plug
  <2>2. /\ Connected(Root) => Connected(Root)'
        /\ q # Root => (Connected(Root)' => Connected(Root))
    BY <2>1, RootNotPort DEF Connected, TypeOK
  <2>3. q = Root /\ ~bounced' => Used = {}
    BY <2>1 DEF Unnoticed
  <2>4. QED
    BY <2>1, <2>2, <2>3 DEF RootInv, Used
<1>9. ASSUME NEW d \in Devices, Unplug(d) PROVE RootInv'
  <2>1. /\ at' = [at EXCEPT ![d] = Away]
        /\ UNCHANGED <<dev, usb_task_state, poll, leaked, bounced>>
        /\ rootReset' = (rootReset /\ at[d] # Root)
    BY <1>9 DEF Unplug
  <2>2. /\ Connected(Root)' => Connected(Root)
        /\ rootReset' => (Connected(Root) => Connected(Root)')
    <3>1. ASSUME NEW e \in Devices, at'[e] = Root PROVE at[e] = Root
      BY <2>1, <3>1, RootNotPort DEF TypeOK
    <3>2. ASSUME NEW e \in Devices, at[e] = Root, rootReset' PROVE at'[e] = Root
      BY <2>1, <3>2 DEF TypeOK
    <3>3. QED
      BY <3>1, <3>2 DEF Connected
  <2>3. QED
    BY <2>1, <2>2 DEF RootInv, Used
<1>10. CASE UNCHANGED vars
  BY <1>10 DEF vars, bus, history, RootInv, Connected, Used
<1>11. QED
  BY <1>1, <1>2, <1>3, <1>4, <1>5, <1>6, <1>7, <1>8, <1>9, <1>10
  DEF Next, Host, usb_poll, User

LEMMA TreeStep ==
    ASSUME TypeOK, PollInv, RootInv, TreeInv, [Next]_vars
    PROVE  TreeInv'
<1>1. SUFFICES ASSUME ~leaked' PROVE ParentsPresent' /\ NoRing'
  BY DEF TreeInv
<1>2. ~leaked
  BY <1>1 DEF Next, Host, usb_poll, User, vars, history, BusProbe, Initialize, ResetRoot,
              ConfigureRoot, usb_hub_poll, usb_hub_port_status_change,
              PortResetDone, Plug, Unplug
<1>3. ParentsPresent /\ NoRing
  BY <1>2 DEF TreeInv
<1>4. CASE UNCHANGED dev
  BY <1>3, <1>4 DEF ParentsPresent, NoRing, Used
<1>5. CASE Initialize
  <2>1. Used' = {}
    BY <1>1, <1>5, InitializeEmpties
  <2>2. QED
    BY <2>1 DEF ParentsPresent, NoRing
<1>6. ASSUME NEW parent \in 0 .. NumDevices, NEW p, NEW ports, NEW lost,
             usb_configure(parent, p, ports, lost),
             parent # 0 => parent - 1 \in Used /\ dev[parent - 1].class = "hub"
      PROVE  ParentsPresent' /\ NoRing'
  <2>1. ASSUME NEW i \in Slots \ Used, NEW c,
               dev' = [dev EXCEPT ![i] = [bAddress |-> i + 1, parent |-> parent,
                                          port |-> p, class |-> c]]
        PROVE  ParentsPresent' /\ NoRing'
    BY <1>3, <1>6, <2>1, NewTree
  <2>2. QED
    BY <1>4, <1>6, <2>1, ConfigureCases DEF Configured
<1>7. CASE ConfigureRoot
  <2>1. usb_configure(0, 0, port, 0) /\ 0 \in 0 .. NumDevices
    BY <1>7, UsbAssumption DEF ConfigureRoot
  <2>2. QED
    BY <1>6, <2>1
<1>8. CASE usb_hub_port_status_change
  <2>1. poll.slot \in Used /\ dev[poll.slot].class = "hub"
    BY <1>2, <1>8, PollKeepsHub
  <2>2. /\ dev[poll.slot].bAddress - 1 = poll.slot
        /\ dev[poll.slot].bAddress \in 0 .. NumDevices
    BY <2>1, UsedFacts DEF TypeOK, Entries
  <2>3. ASSUME NEW hub, ResetComplete(PortAt(hub))
        PROVE  ParentsPresent' /\ NoRing'
    <3>1. PICK ports, lost :
             usb_configure(dev[poll.slot].bAddress, PortAt(hub)[2], ports, lost)
      BY <2>3, Zenon DEF ResetComplete
    <3>2. QED
      BY <1>6, <2>1, <2>2, <3>1
  <2>4. ASSUME NEW hub, Disconnect(PortAt(hub))
        PROVE  ParentsPresent' /\ NoRing'
    <3>1. dev' = usb_release_device(dev[poll.slot].bAddress, PortAt(hub)[2])
      BY <2>4, Zenon DEF Disconnect
    <3>2. QED
      BY <1>3, <3>1, ReleaseTree
  <2>5. QED
    BY <1>4, <1>8, <2>3, <2>4, PortStepCases DEF Connect, Ignore
<1>9. QED
  BY <1>4, <1>5, <1>7, <1>8
  DEF Next, Host, usb_poll, User, vars, BusProbe, ResetRoot, usb_hub_poll, PortResetDone,
      Plug, Unplug

-----------------------------------------------------------------------------
(* The table and the bus agree, step by step.                              *)

(* Only the ports that are neither in service nor about to report a loss   *)
(* change, and they come to no such thing; no device has an entry there.   *)
LEMMA AgreesFrame ==
    ASSUME TypeOK, Agrees, UNCHANGED <<at, addr, dev>>,
           \A q \in Ports :
             \/ port'[q] = port[q]
             \/ ~InService(q) /\ ~LossPending(q)
             \/ ~InService(q) /\ InService(q)'
    PROVE  Agrees'
<1>1. Used' = Used
  BY DEF Used
<1>2. \A q \in Ports : InService(q) => InService(q)'
  BY DEF InService
<1>3. \A q \in Ports : LossPending(q) => InService(q)' \/ LossPending(q)'
  BY DEF InService, LossPending, Connected
<1>4. EntryTells'
  BY <1>1, <1>2 DEF Agrees, EntryTells, EntryOf
<1>5. AddressOnce' /\ OnePerPort'
  BY <1>1 DEF Agrees, AddressOnce, OnePerPort
<1>6. PortAgrees'
  BY <1>1, <1>2, <1>3 DEF Agrees, PortAgrees
<1>7. QED
  BY <1>4, <1>5, <1>6 DEF Agrees

(* Devices that leave the bus: the others have their entries still.        *)
LEMMA AgreesCut ==
    ASSUME TypeOK, BusInv, Agrees, NEW d \in Devices, dev' = dev,
           addr' = Forgotten({d}),
           \A e \in Devices : e # d => at'[e] = at[e],
           at'[d] \in {at[d], Away},
           \A p \in Ports : p # at[d] /\ p[1] \notin Below({d}) =>
              port'[p] = port[p],
           \A p \in Ports :
              /\ p = at[d] /\ p[1] \notin Below({d})
              /\ InService(p) \/ LossPending(p)
              => LossPending(p)'
    PROVE  Agrees'
<1>1. /\ d \in Below({d}) /\ Used' = Used
      /\ \A e \in Devices : addr'[e] = IF e \in Below({d}) THEN 0 ELSE addr[e]
      /\ \A e \in Devices : e \notin Below({d}) => at[e][1] \notin Below({d})
  BY BelowClosed DEF Forgotten, Used
<1>2. \A e \in Devices : at[e] \in Ports /\ at[e] = at[d] => e = d
  BY RootNotPort DEF BusInv, OnePerPlace
<1>3. EntryTells'
  <2> SUFFICES ASSUME NEW e \in Devices, addr'[e] # 0
               PROVE  /\ addr'[e] - 1 \in Used'
                      /\ \/ /\ at'[e] = Root
                            /\ EntryOf(e)'.parent = 0 /\ EntryOf(e)'.port = 0
                         \/ /\ at'[e] \in Ports
                            /\ EntryOf(e)'.parent = addr'[at'[e][1]]
                            /\ EntryOf(e)'.parent # 0
                            /\ EntryOf(e)'.port = at'[e][2]
                            /\ InService(at[e])'
    BY <1>1 DEF EntryTells
  <2>1. e \notin Below({d}) /\ e # d /\ addr'[e] = addr[e] /\ at'[e] = at[e]
    BY <1>1
  <2>2. EntryOf(e)' = EntryOf(e) /\ addr'[e] - 1 \in Used'
    BY <1>1, <2>1 DEF EntryOf, Agrees, EntryTells
  <2>3. CASE at[e] = Root
    BY <1>1, <2>1, <2>2, <2>3, RootNotPort DEF Agrees, EntryTells
  <2>4. CASE at[e] \in Ports
    <3>1. /\ at[e][1] \in Devices /\ at[e][1] \notin Below({d})
          /\ at[e] # at[d]
      BY <1>1, <1>2, <2>1, <2>4, RootNotPort
    <3>2. port'[at[e]] = port[at[e]] /\ addr'[at[e][1]] = addr[at[e][1]]
      BY <1>1, <2>4, <3>1
    <3>3. QED
      BY <1>1, <2>1, <2>2, <2>4, <3>2, RootNotPort
      DEF Agrees, EntryTells, InService
  <2>5. QED
    BY <2>1, <2>3, <2>4 DEF Agrees, EntryTells
<1>4. AddressOnce' /\ OnePerPort'
  <2>1. AddressOnce'
    BY <1>1 DEF Agrees, AddressOnce
  <2>2. OnePerPort'
    BY <1>1 DEF Agrees, OnePerPort
  <2>3. QED
    BY <2>1, <2>2
<1>5. PortAgrees'
  <2> SUFFICES ASSUME NEW p \in Ports, NEW j \in Used', addr'[p[1]] # 0,
                      dev'[j].parent = addr'[p[1]], dev'[j].port = p[2]
               PROVE  InService(p)' \/ LossPending(p)'
    BY DEF PortAgrees
  <2>1. p[1] \in Devices /\ p[1] \notin Below({d}) /\ addr'[p[1]] = addr[p[1]]
    BY <1>1, RootNotPort
  <2>2. InService(p) \/ LossPending(p)
    BY <1>1, <2>1 DEF Agrees, PortAgrees
  <2>3. CASE p = at[d]
    BY <2>1, <2>2, <2>3
  <2>4. CASE p # at[d]
    <3>1. port'[p] = port[p]
      BY <2>1, <2>4
    <3>2. Connected(p)' => Connected(p)
      BY <2>4, RootNotPort DEF Connected
    <3>3. QED
      BY <2>2, <3>1, <3>2 DEF InService, LossPending
  <2>5. QED
    BY <2>3, <2>4
<1>6. QED
  BY <1>3, <1>4, <1>5 DEF Agrees

(* Nobody who answers has an entry behind the one of an empty port.        *)
LEMMA NobodyThere ==
    ASSUME TypeOK, Agrees, NEW q \in Ports, ~Connected(q),
           NEW i \in Matching(addr[q[1]], q[2]), addr[q[1]] # 0
    PROVE  \A e \in Devices : addr[e] # 0 => addr[e] - 1 \notin Kids(i)
<1> DEFINE S == {j \in Used : \A e \in Devices : addr[e] # j + 1}
<1>1. /\ i \in Used /\ dev[i].parent = addr[q[1]] /\ dev[i].port = q[2]
      /\ q[1] \in Devices /\ q = <<q[1], q[2]>>
  BY RootNotPort DEF Matching, Ports
<1>2. \A e \in Devices : addr[e] \in Nat
  BY UsbAssumption DEF TypeOK
<1>3. \A e \in Devices, j \in Used : addr[e] = j + 1 => EntryOf(e) = dev[j]
  BY <1>2, UsedFacts DEF EntryOf
<1>4. ASSUME NEW e \in Devices, addr[e] = i + 1 PROVE FALSE
  <2>1. EntryOf(e) = dev[i] /\ addr[e] # 0
    BY <1>1, <1>3, <1>4, UsedFacts
  <2>2. /\ at[e] \in Ports /\ addr[at[e][1]] = addr[q[1]] /\ at[e][2] = q[2]
        /\ at[e][1] \in Devices /\ at[e] = <<at[e][1], at[e][2]>>
    BY <1>1, <2>1, RootNotPort DEF Agrees, EntryTells, Ports
  <2>3. at[e][1] = q[1]
    BY <1>1, <2>2 DEF Agrees, AddressOnce
  <2>4. at[e] = q
    BY <1>1, <2>2, <2>3
  <2>5. QED
    BY <2>4 DEF Connected
<1>5. ASSUME NEW k \in Used, NEW m \in S, dev[k].parent = dev[m].bAddress,
             NEW e \in Devices, addr[e] = k + 1
      PROVE  FALSE
  <2>1. /\ EntryOf(e) = dev[k] /\ addr[e] # 0
        /\ dev[k].parent = m + 1 /\ m + 1 # 0
    BY <1>3, <1>5, UsedFacts
  <2>2. at[e] \in Ports /\ addr[at[e][1]] = m + 1 /\ at[e][1] \in Devices
    BY <2>1, RootNotPort DEF Agrees, EntryTells
  <2>3. QED
    BY <2>2
<1>6. /\ S \in SUBSET Used /\ i \in S
      /\ \A k \in Used, m \in S : dev[k].parent = dev[m].bAddress => k \in S
  BY <1>1, <1>4, <1>5
<1>7. \A j \in S, e \in Devices : addr[e] # j + 1
  OBVIOUS
<1> HIDE DEF S
<1>8. Kids(i) \subseteq S
  BY <1>1, <1>6, KidsLeast
<1>9. ASSUME NEW e \in Devices, addr[e] # 0, addr[e] - 1 \in Kids(i)
      PROVE  FALSE
  BY <1>2, <1>7, <1>8, <1>9
<1>10. QED
  BY <1>9

LEMMA AgreesRelease ==
    ASSUME TypeOK, BusInv, Agrees, NEW q \in Ports, ~Connected(q),
           addr[q[1]] # 0, UNCHANGED <<at, addr>>,
           port' = [port EXCEPT ![q].connection = FALSE],
           dev' = usb_release_device(addr[q[1]], q[2])
    PROVE  Agrees'
<1>1. /\ \A p \in Ports : p # q => port'[p] = port[p]
      /\ \A p \in Ports : InService(p) => InService(p)'
      /\ \A p \in Ports : p # q /\ LossPending(p) => LossPending(p)'
      /\ ~InService(q)
  <2>1. /\ \A p \in Ports : p # q => port'[p] = port[p]
        /\ port'[q].state = port[q].state /\ port'[q].reset = port[q].reset
    BY DEF TypeOK
  <2>2. \A p \in Ports : InService(p) => InService(p)'
    BY <2>1 DEF InService
  <2>3. \A p \in Ports : p # q /\ LossPending(p) => LossPending(p)'
    BY <2>1 DEF LossPending, Connected
  <2>4. ~InService(q)
    BY DEF InService, BusInv, ActiveConnected
  <2>5. QED
    BY <2>1, <2>2, <2>3, <2>4
<1>2. ASSUME NEW gone, Used' = Used \ gone,
             \A k \in Slots : k \notin gone => dev'[k] = dev[k],
             \A e \in Devices : addr[e] # 0 => addr[e] - 1 \notin gone,
             \A k \in Matching(addr[q[1]], q[2]) : k \in gone
      PROVE  Agrees'
  <2>1. \A k \in Used' : k \in Used /\ dev'[k] = dev[k]
    BY <1>2, UsedFacts
  <2>2. EntryTells'
    <3>1. \A e \in Devices : addr[e] # 0 =>
             addr[e] - 1 \in Used' /\ EntryOf(e)' = EntryOf(e)
      BY <1>2, <2>1 DEF Agrees, EntryTells, EntryOf
    <3>2. QED
      BY <1>1, <3>1 DEF Agrees, EntryTells
  <2>3. AddressOnce'
    BY DEF Agrees, AddressOnce
  <2>4. PortAgrees'
    <3> SUFFICES ASSUME NEW p \in Ports, NEW j \in Used', addr[p[1]] # 0,
                        dev'[j].parent = addr[p[1]], dev'[j].port = p[2]
                 PROVE  InService(p)' \/ LossPending(p)'
      BY DEF PortAgrees
    <3>1. j \in Used /\ dev[j].parent = addr[p[1]] /\ dev[j].port = p[2]
      BY <2>1
    <3>2. p # q
      BY <1>2, <3>1 DEF Matching
    <3>3. InService(p) \/ LossPending(p)
      BY <3>1 DEF Agrees, PortAgrees
    <3>4. QED
      BY <1>1, <3>2, <3>3
  <2>5. OnePerPort'
    BY <2>1 DEF Agrees, OnePerPort
  <2>6. QED
    BY <2>2, <2>3, <2>4, <2>5 DEF Agrees
<1>3. CASE Matching(addr[q[1]], q[2]) = {} /\ dev' = dev
  <2>1. Used' = Used \ {} /\ \A k \in Slots : k \notin {} => dev'[k] = dev[k]
    BY <1>3 DEF Used
  <2>2. QED
    BY <1>2, <1>3, <2>1
<1>4. ASSUME NEW i \in Matching(addr[q[1]], q[2]), Used' = Used \ Kids(i),
             \A k \in Slots : k \notin Kids(i) => dev'[k] = dev[k]
      PROVE  Agrees'
  <2>1. \A e \in Devices : addr[e] # 0 => addr[e] - 1 \notin Kids(i)
    BY NobodyThere
  <2>2. ASSUME NEW k \in Matching(addr[q[1]], q[2]) PROVE k \in Kids(i)
    <3>1. k = i /\ i \in Used
      BY DEF Matching, Agrees, OnePerPort
    <3>2. QED
      BY <3>1, KidsClosed
  <2>3. QED
    BY <1>2, <1>4, <2>1, <2>2
<1>5. QED
  BY <1>3, <1>4, AfterRelease

LEMMA AgreesPlug ==
    ASSUME TypeOK, BusInv, Agrees, NEW d \in Devices, NEW q \in Places,
           Plug(d, q), ~bounced'
    PROVE  Agrees'
<1>1. /\ at[d] = Away /\ at' = [at EXCEPT ![d] = q] /\ q # Away
      /\ UNCHANGED <<addr, dev>> /\ ~Unnoticed(q)
  BY DEF Plug
<1>2. \A e \in Devices : e # d => at'[e] = at[e]
  BY <1>1
<1>3. Used' = Used /\ \A e \in Devices : EntryOf(e)' = EntryOf(e)
  BY <1>1 DEF Used, EntryOf
<1>4. \A p \in Ports :
         port'[p].state = port[p].state /\ port'[p].reset = port[p].reset
  <2>1. port' = port \/ port' = [port EXCEPT ![q].connection = TRUE]
    BY DEF Plug
  <2>2. QED
    BY <2>1 DEF TypeOK
<1>5. \A p \in Ports : p # q => port'[p] = port[p]
  <2>1. port' = port \/ port' = [port EXCEPT ![q].connection = TRUE]
    BY DEF Plug
  <2>2. QED
    BY <2>1 DEF TypeOK
<1>6. addr[d] = 0
  BY <1>1, RootNotPort DEF Agrees, EntryTells
<1>7. \A p \in Ports : InService(p) => InService(p)'
  BY <1>4 DEF InService
<1>8. ASSUME NEW p \in Ports, LossPending(p) PROVE LossPending(p)'
  <2>1. p # q
    BY <1>1, <1>8, RootNotPort DEF Unnoticed, LossPending
  <2>2. ~Connected(p)'
    BY <1>1, <1>2, <1>8, <2>1 DEF LossPending, Connected, TypeOK
  <2>3. QED
    BY <1>5, <1>8, <2>1, <2>2 DEF LossPending
<1>9. EntryTells'
  BY <1>1, <1>2, <1>3, <1>6, <1>7 DEF Agrees, EntryTells
<1>10. AddressOnce'
  BY <1>1 DEF Agrees, AddressOnce
<1>11. OnePerPort'
  BY <1>1, <1>3 DEF Agrees, OnePerPort
<1>12. PortAgrees'
  BY <1>1, <1>3, <1>7, <1>8 DEF Agrees, PortAgrees
<1>13. QED
  BY <1>9, <1>10, <1>11, <1>12 DEF Agrees

LEMMA AgreesUnplug ==
    ASSUME TypeOK, BusInv, Agrees, NEW d \in Devices, Unplug(d)
    PROVE  Agrees'
<1>1. /\ at[d] # Away /\ at' = [at EXCEPT ![d] = Away]
      /\ addr' = Forgotten({d}) /\ dev' = dev
  BY UnplugFacts DEF Unplug
<1>2. \A p \in Ports :
         /\ p # at[d] => port'[p] = IF p[1] \in Below({d}) THEN Off ELSE port[p]
         /\ p = at[d] /\ port[p].state # "off" =>
               port'[p].state = "disabled" /\ port'[p].connection
  BY UnplugFacts
<1>3. at'[d] = Away /\ \A e \in Devices : e # d => at'[e] = at[e]
  BY <1>1 DEF TypeOK
<1>4. ASSUME NEW p \in Ports, p = at[d], InService(p) \/ LossPending(p)
      PROVE  LossPending(p)'
  <2>1. port[p].state # "off"
    BY <1>4 DEF InService, LossPending
  <2>2. ~Connected(p)'
    BY <1>1, <1>3, <1>4, RootNotPort DEF Connected, BusInv, OnePerPlace
  <2>3. QED
    BY <1>2, <1>4, <2>1, <2>2 DEF LossPending
<1>5. QED
  BY <1>1, <1>2, <1>3, <1>4, AgreesCut

LEMMA AgreesConnect ==
    ASSUME TypeOK, PollInv, BusInv, Agrees, poll # Idle,
           NEW hub \in HubOf(poll.slot), Connect(PortAt(hub)), at' = at, ~ignored'
    PROVE  Agrees'
<1> DEFINE q == PortAt(hub)
<1>1. port[q].state = "disabled" /\ q \in Ports
  BY ConnectFacts, PortAtType
<1>2. PICK d \in Devices :
         /\ at[d] = q /\ addr' = Forgotten({d})
         /\ \A p \in Ports :
              port'[p] = IF p = q THEN Resetting(FALSE)
                         ELSE IF p[1] \in Below({d}) THEN Off ELSE port[p]
  BY ConnectFacts, Zenon
<1>3. dev' = dev
  BY DEF Connect
<1>4. ~InService(q) /\ ~LossPending(q)
  BY <1>1, <1>2 DEF InService, LossPending, Connected
<1> HIDE DEF q
<1>5. QED
  BY <1>2, <1>3, <1>4, AgreesCut

(* The root device gets the first entry of an empty table.                 *)
LEMMA AgreesRoot ==
    ASSUME TypeOK, BusInv, Agrees, Used = {}, at' = at,
           usb_configure(0, 0, port, 0)
    PROVE  Agrees'
<1>1. \A d \in Devices : addr[d] = 0
  BY DEF Agrees, EntryTells
<1>2. \A d, e \in Answering(0) : at[d] = Root /\ d = e
  <2>1. \A q \in Ports : port[q].state # "enabled"
    BY <1>1, RootNotPort DEF BusInv, PowerNeedsAddress
  <2>2. \A d \in Answering(0) : at[d] = Root /\ d \in Devices
    BY <2>1, ReachedCases, ReachedClosed DEF Reaches, Answering
  <2>3. QED
    BY <2>2, RootNotPort DEF BusInv, OnePerPlace
<1>3. CASE port' = port /\ UNCHANGED <<addr, dev>>
  BY <1>3, AgreesFrame
<1>4. ASSUME NEW i \in Slots \ Used, Configured(i, 0, 0, port)
      PROVE  Agrees'
  <2>1. /\ Used' = Used \cup {i} /\ i \in Nat
        /\ dev'[i].parent = 0 /\ dev'[i].port = 0
    BY <1>4, AfterConfigured
  <2>2. Used' = {i}
    BY <2>1
  <2>3. \A d \in Devices : addr'[d] = IF d \in Answering(0) THEN i + 1 ELSE 0
    BY <1>1, <1>4 DEF Configured
  <2>4. EntryTells'
    <3> SUFFICES ASSUME NEW d \in Devices, addr'[d] # 0
                 PROVE  /\ addr'[d] - 1 \in Used'
                        /\ at'[d] = Root /\ EntryOf(d)'.parent = 0
                        /\ EntryOf(d)'.port = 0
      BY DEF EntryTells
    <3>1. d \in Answering(0) /\ addr'[d] - 1 = i
      BY <2>1, <2>2, <2>3
    <3>2. QED
      BY <1>2, <2>1, <2>2, <3>1 DEF EntryOf
  <2>5. AddressOnce'
    BY <1>2, <2>1, <2>2, <2>3 DEF AddressOnce
  <2>6. PortAgrees'
    BY <2>1, <2>2 DEF PortAgrees
  <2>7. OnePerPort'
    BY <2>1, <2>2 DEF OnePerPort
  <2>8. QED
    BY <2>4, <2>5, <2>6, <2>7 DEF Agrees
<1>5. QED
  BY <1>3, <1>4, ConfigureCases

(* The device whose reset is over is the one that answers at address 0,    *)
(* and nobody has an entry at its port.                                    *)
LEMMA AgreesNew ==
    ASSUME TypeOK, BusInv, Agrees, ParentsPresent, NEW q \in Ports,
           q[1] \in Reached, addr[q[1]] - 1 \in Used, addr[q[1]] # 0,
           port[q].state = "enabled", port[q].reset, at' = at, ~shared',
           NEW ports, ports = [port EXCEPT ![q].reset = FALSE],
           NEW lost, usb_configure(addr[q[1]], q[2], ports, lost)
    PROVE  Agrees'
<1>1. /\ \A p \in Ports : p # q => ports[p] = port[p]
      /\ ports[q].state = "enabled" /\ ~ports[q].reset
      /\ ~InService(q) /\ ~LossPending(q)
  BY DEF TypeOK, InService, LossPending
<1>2. CASE port' = ports /\ UNCHANGED <<addr, dev>>
  BY <1>1, <1>2, AgreesFrame
<1>3. ASSUME NEW i \in Slots \ Used, Configured(i, addr[q[1]], q[2], ports)
      PROVE  Agrees'
  <2>1. PICK d \in Devices : at[d] = q
    BY DEF BusInv, ActiveConnected, Connected
  <2>2. addr[d] = 0
    BY <1>1, <2>1, RootNotPort DEF Agrees, EntryTells
  <2>3. Answering(0) = {d}
    <3>1. d \in Reached
      BY <2>1, ReachedClosed
    <3>2. ~ \E e, f \in Answering(0) : e # f
      BY <1>3 DEF Configured
    <3>3. QED
      BY <2>2, <3>1, <3>2 DEF Answering
  <2>4. \A e \in Devices : addr'[e] = IF e = d THEN i + 1 ELSE addr[e]
    BY <1>3, <2>3 DEF Configured
  <2>5. /\ Used' = Used \cup {i} /\ i \in Nat /\ i \notin Used
        /\ \A k \in Used : dev'[k] = dev[k]
        /\ dev'[i].parent = addr[q[1]] /\ dev'[i].port = q[2]
    BY <1>3, AfterConfigured
  <2>6. \A p \in Ports : p[1] # d => port'[p] = ports[p]
    <3>1. port' = ports \/ port' = PowerOn(ports, {d} \cap Hubs)
      BY <1>3, <2>3 DEF Configured
    <3>2. QED
      BY <3>1 DEF PowerOn
  <2>7. /\ q[1] # d /\ q[1] \in Devices /\ InService(q)'
        /\ \A p \in Ports : p[1] # d /\ p # q => port'[p] = port[p]
    BY <1>1, <2>2, <2>6, RootNotPort DEF InService
  <2>8. \A e \in Devices : addr[e] \in Nat
    BY UsbAssumption DEF TypeOK
  <2>9. EntryTells'
    <3> SUFFICES ASSUME NEW e \in Devices, addr'[e] # 0
                 PROVE  /\ addr'[e] - 1 \in Used'
                        /\ \/ /\ at'[e] = Root
                              /\ EntryOf(e)'.parent = 0 /\ EntryOf(e)'.port = 0
                           \/ /\ at'[e] \in Ports
                              /\ EntryOf(e)'.parent = addr'[at'[e][1]]
                              /\ EntryOf(e)'.parent # 0
                              /\ EntryOf(e)'.port = at'[e][2]
                              /\ InService(at[e])'
      BY DEF EntryTells
    <3>1. CASE e = d
      <4>1. addr'[e] - 1 = i /\ at'[e] = q
        BY <2>1, <2>4, <2>5, <3>1
      <4>2. EntryOf(e)' = dev'[i]
        BY <4>1 DEF EntryOf
      <4>3. addr'[q[1]] = addr[q[1]]
        BY <2>4, <2>7
      <4>4. QED
        BY <2>1, <2>5, <2>7, <4>1, <4>2, <4>3
    <3>2. CASE e # d
      <4>1. /\ addr'[e] = addr[e] /\ addr[e] - 1 \in Used
            /\ EntryOf(e)' = EntryOf(e)
        BY <2>4, <2>5, <3>2 DEF Agrees, EntryTells, EntryOf
      <4>2. CASE at[e] = Root
        BY <2>5, <4>1, <4>2, RootNotPort DEF Agrees, EntryTells
      <4>3. CASE at[e] \in Ports
        <5>1. /\ EntryOf(e).parent = addr[at[e][1]] /\ EntryOf(e).parent # 0
              /\ EntryOf(e).port = at[e][2] /\ InService(at[e])
          BY <4>1, <4>3, <3>2, <2>4, RootNotPort DEF Agrees, EntryTells
        <5>2. at[e][1] # d /\ at[e] # q /\ at[e][1] \in Devices
          BY <1>1, <2>2, <4>3, <5>1, RootNotPort
        <5>3. port'[at[e]] = port[at[e]] /\ addr'[at[e][1]] = addr[at[e][1]]
          BY <2>4, <2>7, <4>3, <5>2
        <5>4. QED
          BY <2>5, <4>1, <4>3, <5>1, <5>3 DEF InService
      <4>4. QED
        BY <2>4, <3>2, <4>2, <4>3 DEF Agrees, EntryTells
    <3>3. QED
      BY <3>1, <3>2
  <2>10. AddressOnce'
    <3>1. ASSUME NEW e \in Devices, e # d PROVE addr[e] # i + 1
      BY <2>5, <2>8, <3>1 DEF Agrees, EntryTells
    <3>2. QED
      BY <2>4, <3>1 DEF Agrees, AddressOnce
  <2>11. PortAgrees'
    <3> SUFFICES ASSUME NEW p \in Ports, NEW j \in Used', addr'[p[1]] # 0,
                        dev'[j].parent = addr'[p[1]], dev'[j].port = p[2]
                 PROVE  InService(p)' \/ LossPending(p)'
      BY DEF PortAgrees
    <3>1. p[1] \in Devices /\ p = <<p[1], p[2]>> /\ q = <<q[1], q[2]>>
      BY RootNotPort DEF Ports
    <3>2. CASE p = q
      BY <2>7, <3>2
    <3>3. CASE p # q /\ j = i
      <4>1. p[1] # d
        BY <2>4, <2>5, <2>8, <2>7, <3>3
      <4>2. addr[p[1]] = addr[q[1]]
        BY <2>4, <2>5, <3>1, <3>3, <4>1
      <4>3. p[1] = q[1]
        BY <2>7, <3>1, <4>2 DEF Agrees, AddressOnce
      <4>4. QED
        BY <2>5, <3>1, <3>3, <4>3
    <3>4. CASE p # q /\ j # i
      <4>1. j \in Used /\ dev[j].parent = addr'[p[1]] /\ dev[j].port = p[2]
        BY <2>5, <3>4
      <4>2. p[1] # d
        <5>1. p[1] = d => dev[j].parent - 1 = i /\ dev[j].parent # 0
          BY <2>4, <2>5, <4>1
        <5>2. QED
          BY <2>5, <4>1, <5>1 DEF ParentsPresent
      <4>3. InService(p) \/ LossPending(p)
        BY <2>4, <3>1, <4>1, <4>2 DEF Agrees, PortAgrees
      <4>4. port'[p] = port[p]
        BY <2>7, <3>4, <4>2
      <4>5. QED
        BY <4>3, <4>4 DEF InService, LossPending, Connected
    <3>5. QED
      BY <3>2, <3>3, <3>4
  <2>12. OnePerPort'
    <3>1. ASSUME NEW j \in Used, dev[j].parent = addr[q[1]], dev[j].port = q[2]
          PROVE  FALSE
      BY <1>1, <3>1 DEF Agrees, PortAgrees
    <3>2. QED
      BY <2>5, <3>1 DEF Agrees, OnePerPort
  <2>13. QED
    BY <2>9, <2>10, <2>11, <2>12 DEF Agrees
<1>4. QED
  BY <1>2, <1>3, ConfigureCases

(* What went wrong is not forgotten. *)
LEMMA NoteStays ==
    ASSUME [Next]_vars
    PROVE  (refused => refused') /\ (ignored => ignored')
<1>1. ASSUME NEW parent, NEW p, NEW ports, NEW lost,
             usb_configure(parent, p, ports, lost)
      PROVE  refused => refused'
  BY <1>1, Zenon DEF usb_configure
<1>2. refused => refused'
  BY <1>1 DEF Next, Host, usb_poll, User, vars, history, BusProbe, Initialize,
     ResetRoot, ConfigureRoot, usb_hub_poll, usb_hub_port_status_change,
     PortResetDone, Plug, Unplug, Connect, Disconnect, ResetComplete, Ignore
<1>3. ignored => ignored'
  BY DEF Next, Host, usb_poll, User, vars, history, BusProbe, Initialize, ResetRoot,
         ConfigureRoot, usb_hub_poll, usb_hub_port_status_change, PortResetDone,
         Plug, Unplug, Connect, Disconnect, ResetComplete, Ignore, Requests
<1>4. QED
  BY <1>2, <1>3

LEMMA OrderlyBefore ==
    ASSUME [Next]_vars, Orderly'
    PROVE  Orderly
<1>1. ASSUME NEW parent, NEW p, NEW ports, NEW lost,
             usb_configure(parent, p, ports, lost)
      PROVE  shared => shared'
  BY <1>1, Zenon DEF usb_configure
<1>2. leaked => leaked'
  BY DEF Next, Host, usb_poll, User, vars, history, BusProbe, Initialize, ResetRoot,
         ConfigureRoot, usb_hub_poll, usb_hub_port_status_change,
         PortResetDone, Plug, Unplug
<1>3. bounced => bounced'
  BY DEF Next, Host, usb_poll, User, vars, history, BusProbe, Initialize, ResetRoot,
         ConfigureRoot, usb_hub_poll, usb_hub_port_status_change,
         PortResetDone, Plug, Unplug
<1>4. shared => shared'
  BY <1>1 DEF Next, Host, usb_poll, User, vars, history, BusProbe, Initialize, ResetRoot,
         ConfigureRoot, usb_hub_poll, usb_hub_port_status_change,
         PortResetDone, Plug, Unplug, Connect, Disconnect, ResetComplete, Ignore
<1>5. ignored => ignored'
  BY NoteStays
<1>6. QED
  BY <1>2, <1>3, <1>4, <1>5 DEF Orderly

LEMMA TableStep ==
    ASSUME TypeOK, PollInv, BusInv, RootInv, TreeInv, TableInv, [Next]_vars
    PROVE  TableInv'
<1>1. SUFFICES ASSUME Orderly' PROVE Agrees'
  BY DEF TableInv
<1>2. ~bounced /\ ~shared /\ ~leaked /\ ~ignored' /\ Agrees
  BY <1>1, OrderlyBefore DEF Orderly, TableInv
<1>3. CASE UNCHANGED <<at, addr, port, dev>>
  BY <1>2, <1>3, AgreesFrame
<1>4. CASE Initialize
  <2>1. \A d \in Devices : addr[d] = 0
    BY <1>4, BeforeReset DEF Initialize, RootInv, Detached
  <2>2. Used' = {} /\ addr' = addr
    BY <1>1, <1>4, InitializeEmpties DEF Orderly, Initialize, bus
  <2>3. QED
    BY <2>1, <2>2 DEF Agrees, EntryTells, AddressOnce, PortAgrees, OnePerPort
<1>5. CASE ResetRoot
  <2>1. \A d \in Devices : addr[d] = 0
    BY <1>5, BeforeReset DEF ResetRoot, RootInv
  <2>2. dev' = dev /\ Used' = Used /\ \A d \in Devices : addr'[d] = 0
    BY <1>5, <2>1 DEF ResetRoot, Forgotten, Used
  <2>3. OnePerPort'
    BY <1>2, <2>2 DEF Agrees, OnePerPort
  <2>4. QED
    BY <2>2, <2>3, RootNotPort DEF Agrees, EntryTells, AddressOnce, PortAgrees
<1>6. CASE ConfigureRoot
  <2>1. usb_configure(0, 0, port, 0) /\ at' = at
    BY <1>6 DEF ConfigureRoot
  <2>2. Used = {}
    BY <1>2, <1>6 DEF ConfigureRoot, RootInv
  <2>3. QED
    BY <1>2, <2>1, <2>2, AgreesRoot
<1>7. CASE usb_hub_port_status_change
  <2>1. poll # Idle /\ at' = at
    BY <1>7, PortStepCases DEF PollFrame
  <2>2. poll.slot \in Used /\ ParentsPresent
    BY <1>2, <2>1 DEF RootInv, TreeInv
  <2>3. ASSUME NEW hub \in HubOf(poll.slot)
        PROVE  /\ PortAt(hub) \in Ports /\ PortAt(hub)[1] = hub
               /\ hub \in Reached
               /\ addr[hub] = dev[poll.slot].bAddress /\ addr[hub] # 0
               /\ addr[hub] - 1 \in Used
    BY <2>1, <2>2, PortAtType, HubOfFacts, UsedFacts DEF PortAt
  <2>4. ASSUME NEW hub \in HubOf(poll.slot), Connect(PortAt(hub))
        PROVE  Agrees'
    BY <1>2, <2>1, <2>4, AgreesConnect
  <2>5. ASSUME NEW hub \in HubOf(poll.slot), Disconnect(PortAt(hub))
        PROVE  Agrees'
    <3> DEFINE q == PortAt(hub)
    <3>1. /\ Event(q) = "DISCONNECT" /\ addr' = addr
          /\ port' = [port EXCEPT ![q].connection = FALSE]
          /\ dev' = usb_release_device(addr[q[1]], q[2])
      BY <1>2, <2>3, <2>5, LostIgnored, Zenon DEF Disconnect
    <3>2. q \in Ports /\ addr[q[1]] # 0
      BY <2>3
    <3> HIDE DEF q
    <3>3. ~Connected(q)
      BY <3>1, <3>2, EventCases
    <3>4. QED
      BY <1>2, <2>1, <3>1, <3>2, <3>3, AgreesRelease
  <2>6. ASSUME NEW hub \in HubOf(poll.slot), ResetComplete(PortAt(hub))
        PROVE  Agrees'
    <3> DEFINE q == PortAt(hub)
               ports == [port EXCEPT ![q].reset = FALSE]
    <3>1. /\ Event(q) = "RESET_COMPLETE"
          /\ usb_configure(addr[q[1]], q[2], ports, 0)
      BY <1>2, <2>3, <2>6, Zenon DEF ResetComplete
    <3>2. /\ q \in Ports /\ q[1] \in Reached
          /\ addr[q[1]] - 1 \in Used /\ addr[q[1]] # 0
      BY <2>3
    <3>3. ports = [port EXCEPT ![q].reset = FALSE]
      OBVIOUS
    <3> HIDE DEF q, ports
    <3>4. port[q].state = "enabled" /\ port[q].reset
      BY <3>1, <3>2, EventCases
    <3>5. ~shared'
      BY <1>1 DEF Orderly
    <3>6. QED
      BY <1>2, <2>1, <2>2, <3>1, <3>2, <3>3, <3>4, <3>5, AgreesNew
  <2>7. QED
    BY <1>3, <1>7, <2>1, <2>4, <2>5, <2>6, PortStepCases DEF Ignore
<1>8. ASSUME NEW q \in Ports, PortResetDone(q) PROVE Agrees'
  <2>1. ~InService(q) /\ ~LossPending(q)
    BY <1>8 DEF PortResetDone, InService, LossPending
  <2>2. UNCHANGED <<at, addr, dev>> /\ \A p \in Ports : p # q => port'[p] = port[p]
    BY <1>8 DEF PortResetDone, TypeOK
  <2>3. QED
    BY <1>2, <2>1, <2>2, AgreesFrame
<1>9. ASSUME NEW d \in Devices, NEW q \in Places, Plug(d, q) PROVE Agrees'
  BY <1>1, <1>2, <1>9, AgreesPlug DEF Orderly
<1>10. ASSUME NEW d \in Devices, Unplug(d) PROVE Agrees'
  BY <1>2, <1>10, AgreesUnplug
<1>11. QED
  BY <1>3, <1>4, <1>5, <1>6, <1>7, <1>8, <1>9, <1>10
  DEF Next, Host, usb_poll, User, vars, bus, BusProbe, usb_hub_poll

-----------------------------------------------------------------------------
(* While nothing is unplugged.                                             *)

Calm == Orderly /\ ResetInv /\ StageInv /\ ServiceInv

(* The device whose port is being reset is the only one without an address *)
(* that the host reaches.                                                  *)
LEMMA UniqueAtZero ==
    ASSUME TypeOK, BusInv, RootInv, Agrees, Calm, Used # Slots
    PROVE  \A d, e \in Answering(0) : d = e
<1>1. ASSUME NEW d \in Answering(0)
      PROVE  \/ at[d] = Root
             \/ at[d] \in Ports /\ Pending(at[d]) /\ addr[at[d][1]] # 0
  <2>1. d \in Devices /\ addr[d] = 0 /\ Reaches(d)
    BY ReachedCases, ReachedClosed DEF Answering
  <2>2. CASE at[d] \in Ports /\ port[at[d]].state = "enabled"
    <3>1. ~InService(at[d])
      BY <2>1, <2>2 DEF Calm, ServiceInv
    <3>2. port[at[d]].reset
      BY <2>2, <3>1 DEF InService
    <3>3. addr[at[d][1]] # 0
      BY <2>2 DEF BusInv, PowerNeedsAddress
    <3>4. QED
      BY <2>2, <3>2, <3>3 DEF Pending
  <2>3. QED
    BY <2>1, <2>2 DEF Reaches
<1>2. ASSUME NEW d \in Answering(0), NEW h \in Devices, at[d] = Root, addr[h] # 0
      PROVE  FALSE
  <2>1. usb_task_state # "RUNNING"
    BY <1>2 DEF Answering, Calm, ServiceInv, Reached
  <2>2. Used # {}
    BY <1>2 DEF Agrees, EntryTells
  <2>3. Connected(Root)
    BY <1>2, ReachedClosed DEF Connected, Answering
  <2>4. QED
    BY <2>1, <2>2, <2>3 DEF RootInv, Calm, Orderly
<1>3. ASSUME NEW d \in Answering(0), NEW e \in Answering(0) PROVE d = e
  <2>1. d \in Devices /\ e \in Devices
    BY ReachedClosed DEF Answering
  <2>2. at[d] = at[e] /\ at[d] # Away => d = e
    BY <2>1 DEF BusInv, OnePerPlace
  <2>3. CASE at[d] = Root
    BY <1>1, <1>2, <2>2, <2>3, RootNotPort
  <2>4. CASE at[e] = Root
    BY <1>1, <1>2, <2>2, <2>4, RootNotPort
  <2>5. CASE at[d] # Root /\ at[e] # Root
    <3>1. at[d] = at[e]
      BY <1>1, <2>5 DEF Calm, ResetInv
    <3>2. QED
      BY <1>1, <2>2, <2>5, <3>1, RootNotPort
  <2>6. QED
    BY <2>3, <2>4, <2>5
<1>4. QED
  BY <1>3

(* Nothing changes for the worse: the steps that give no address, take     *)
(* none and begin or end no reset.                                         *)
LEMMA CalmFrame ==
    ASSUME TypeOK, Calm, Orderly', UNCHANGED <<at, dev, rootReset>>,
           UNCHANGED <<addr, usb_task_state, bResetInitiated>>,
           \A q \in Ports :
              /\ port'[q].connection => port[q].connection
              /\ port'[q].reset => port'[q].state = "enabled"
              /\ InService(q)' => InService(q)
              /\ Pending(q)' => Pending(q)
    PROVE  Calm'
<1>1. Used' = Used /\ Connected(Root)' = Connected(Root)
  BY DEF Used, Connected
<1>2. ResetInv'
  BY DEF Calm, ResetInv, Connected
<1>3. StageInv'
  BY <1>1 DEF Calm, StageInv
<1>4. ServiceInv'
  BY <1>1 DEF Calm, ServiceInv
<1>5. QED
  BY <1>2, <1>3, <1>4 DEF Calm

(* A hub that is configured has nobody in service yet.                     *)
Fresh(q) ==
    /\ port'[q].state = "disabled" /\ ~port'[q].reset
    /\ port'[q].connection => Connected(q)

LEMMA ConfiguredPorts ==
    ASSUME TypeOK, NEW i, NEW parent, NEW p, NEW ports,
           Configured(i, parent, p, ports), NEW q \in Ports
    PROVE  port'[q] = ports[q] \/ Fresh(q)
<1> DEFINE D == Answering(0) \cap Hubs
           on == [state |-> "disabled", connection |-> Connected(q),
                  reset |-> FALSE]
<1>1. port' = ports \/ port' = PowerOn(ports, D)
  BY DEF Configured
<1>2. PowerOn(ports, D)[q] = IF q[1] \in D THEN on ELSE ports[q]
  BY DEF PowerOn
<1>3. on.state = "disabled" /\ on.connection = Connected(q) /\ on.reset = FALSE
  OBVIOUS
<1> HIDE DEF on, D
<1>4. port'[q] = on => Fresh(q)
  BY <1>3, Zenon DEF Fresh
<1>5. QED
  BY <1>1, <1>2, <1>4

LEMMA CalmConnect ==
    ASSUME TypeOK, PollInv, BusInv, Calm, Orderly', poll # Idle, PollFrame,
           NEW hub \in HubOf(poll.slot), Connect(PortAt(hub))
    PROVE  Calm'
<1> DEFINE q == PortAt(hub)
           on == Resetting(FALSE)
<1>1. PICK d \in Devices :
         /\ at[d] = q /\ q[1] \notin Below({d})
         /\ addr' = Forgotten({d})
         /\ \A p \in Ports :
              port'[p] = IF p = q THEN on
                         ELSE IF p[1] \in Below({d}) THEN Off ELSE port[p]
  <2>1. ~ignored'
    BY DEF Orderly
  <2>2. QED
    BY <2>1, ConnectFacts, Zenon
<1>2. q \in Ports
  BY PortAtType
<1>3. /\ UNCHANGED <<at, dev, rootReset, usb_task_state>>
      /\ ~bResetInitiated /\ bResetInitiated'
  BY DEF Connect, PollFrame
<1>4. /\ Used' = Used /\ Connected(Root)' = Connected(Root)
      /\ on = [state |-> "resetting", connection |-> FALSE, reset |-> FALSE]
      /\ Off = [state |-> "off", connection |-> FALSE, reset |-> FALSE]
  BY <1>3 DEF Used, Connected, Resetting, Off
<1>5. \A p \in Ports : ~Pending(p)
  BY <1>3 DEF Calm, ResetInv
<1> HIDE DEF q, on
<1>6. \A p \in Ports : Pending(p)' => p = q
  BY <1>1, <1>4, <1>5 DEF Pending
<1>7. ResetInv'
  <2>1. \A p \in Ports : port'[p].connection => Connected(p)'
    BY <1>1, <1>3, <1>4 DEF Calm, ResetInv, Connected
  <2>2. \A p \in Ports : port'[p].reset => port'[p].state = "enabled"
    BY <1>1, <1>4 DEF Calm, ResetInv
  <2>3. QED
    BY <1>3, <1>6, <2>1, <2>2 DEF ResetInv
<1>8. StageInv'
  BY <1>3, <1>4 DEF Calm, StageInv
<1>9. ServiceInv'
  <2> SUFFICES ASSUME Used # Slots, NEW e \in Devices,
                      \/ at[e] \in Ports /\ InService(at[e])'
                      \/ at[e] = Root /\ usb_task_state = "RUNNING"
               PROVE  addr'[e] # 0
    BY <1>3, <1>4 DEF ServiceInv
  <2>1. e # d /\ at[e] # q
    BY <1>1, <1>2, <1>3, <1>4, RootNotPort DEF InService
  <2>2. at[e] \in Ports =>
           at[e][1] \notin Below({d}) /\ port'[at[e]] = port[at[e]]
    <3> SUFFICES ASSUME at[e] \in Ports
                 PROVE  at[e][1] \notin Below({d}) /\ port'[at[e]] = port[at[e]]
      OBVIOUS
    <3>1. port'[at[e]] = IF at[e][1] \in Below({d}) THEN Off ELSE port[at[e]]
      BY <1>1, <2>1
    <3>2. port'[at[e]].state = "enabled"
      BY <1>3, RootNotPort DEF InService
    <3>3. QED
      BY <3>1, <3>2, <1>4
  <2>3. at[e][1] \notin Below({d})
    BY <2>2, RootNotPort, BelowClosed
  <2>4. e \notin Below({d})
    BY <2>1, <2>3, BelowCases
  <2>5. addr[e] # 0
    BY <1>3, <2>2, RootNotPort DEF Calm, ServiceInv, InService
  <2>6. QED
    BY <1>1, <2>4, <2>5 DEF Forgotten
<1>10. QED
  BY <1>7, <1>8, <1>9 DEF Calm

(* The device whose reset is over gets its entry, if there is one left.    *)
LEMMA CalmReset ==
    ASSUME TypeOK, BusInv, RootInv, Agrees, Calm, Orderly', NEW q \in Ports,
           q[1] \in Reached, port[q].state = "enabled", port[q].reset,
           UNCHANGED <<at, rootReset, usb_task_state>>, usb_task_state \notin Detached,
           NEW parent, NEW p, NEW ports, ports = [port EXCEPT ![q].reset = FALSE],
           NEW lost, usb_configure(parent, p, ports, lost), ~refused'
    PROVE  Calm'
<1>1. /\ \A r \in Ports : r # q => ports[r] = port[r]
      /\ ports[q].state = "enabled" /\ ~ports[q].reset
      /\ ports[q].connection = port[q].connection
  BY DEF TypeOK
<1>2. /\ \A r \in Ports : r # q => ~Pending(r)
      /\ Connected(Root)' = Connected(Root)
      /\ \A r \in Ports : Connected(r)' = Connected(r)
  BY DEF Calm, ResetInv, Pending, Connected
<1>3. PICK d \in Devices : at[d] = q
  BY DEF BusInv, ActiveConnected, Connected
<1>4. d \in Answering(0)
  <2>1. ~InService(q)
    BY DEF InService
  <2>2. addr[d] = 0
    BY <1>3, <2>1, RootNotPort DEF Agrees, EntryTells
  <2>3. QED
    BY <1>3, <2>2, ReachedClosed DEF Answering
<1>5. ASSUME \A r \in Ports : port'[r] = ports[r] \/ Fresh(r)
      PROVE  /\ ResetInv'
             /\ \A r \in Ports : InService(r)' => r = q \/ InService(r)
  <2>1. \A r \in Ports : port'[r].connection => Connected(r)'
    <3> SUFFICES ASSUME NEW r \in Ports, port'[r].connection
                 PROVE  Connected(r)
      BY <1>2
    <3>1. port[r].connection => Connected(r)
      BY DEF Calm, ResetInv
    <3>2. ports[r].connection = port[r].connection
      BY <1>1
    <3>3. QED
      BY <1>5, <3>1, <3>2 DEF Fresh
  <2>2. \A r \in Ports : ~Pending(r)'
    <3>1. \A r \in Ports : ports[r].state # "resetting" /\ ~ports[r].reset
      BY <1>1, <1>2 DEF Pending
    <3>2. QED
      BY <1>5, <3>1 DEF Pending, Fresh
  <2>3. \A r \in Ports : InService(r)' => r = q \/ InService(r)
    BY <1>1, <1>5 DEF InService, Fresh
  <2>4. QED
    BY <2>1, <2>2, <2>3 DEF ResetInv, Pending
<1>6. StageInv'
  BY <1>2 DEF Calm, StageInv
<1>7. CASE Slots \subseteq Used /\ port' = ports /\ UNCHANGED <<addr, dev>>
  <2>1. ResetInv'
    BY <1>5, <1>7
  <2>2. Used' = Slots
    BY <1>7 DEF Used
  <2>3. QED
    BY <1>6, <2>1, <2>2 DEF Calm, ServiceInv
<1>8. ASSUME NEW i \in Slots \ Used, Configured(i, parent, p, ports)
      PROVE  Calm'
  <2>1. \A r \in Ports : port'[r] = ports[r] \/ Fresh(r)
    BY <1>8, ConfiguredPorts
  <2>2. ResetInv' /\ \A r \in Ports : InService(r)' => r = q \/ InService(r)
    BY <1>5, <2>1
  <2>3. /\ \A e \in Devices : addr[e] # 0 => addr'[e] # 0
        /\ addr'[d] # 0
    BY <1>4, <1>8 DEF Configured, Slots, Answering
  <2>4. ServiceInv'
    <3>1. \A e \in Devices : at[e] = q => e = d
      BY <1>3, RootNotPort DEF BusInv, OnePerPlace
    <3>2. Used # Slots
      OBVIOUS
    <3>3. QED
      BY <2>2, <2>3, <3>1, <3>2 DEF Calm, ServiceInv
  <2>5. QED
    BY <1>6, <2>2, <2>4 DEF Calm
<1>9. QED
  BY <1>4, <1>7, <1>8, ConfigureCases

(* The root device is the first to be configured.                          *)
LEMMA CalmRoot ==
    ASSUME TypeOK, BusInv, RootInv, Agrees, Calm, Orderly', ConfigureRoot,
           ~refused'
    PROVE  Calm'
<1>1. /\ usb_task_state = "CONFIGURING" /\ usb_task_state' = "RUNNING"
      /\ usb_configure(0, 0, port, 0)
      /\ UNCHANGED <<at, rootReset, bResetInitiated>>
  BY DEF ConfigureRoot
<1>2. rootReset /\ Connected(Root) /\ Used = {}
  BY <1>1 DEF Calm, StageInv, Orderly, RootInv
<1>3. \A d \in Devices : addr[d] = 0
  BY <1>2 DEF Agrees, EntryTells
<1>4. \A q \in Ports : port[q].state = "off"
  BY <1>3, RootNotPort DEF BusInv, PowerNeedsAddress
<1>5. PICK d \in Devices : at[d] = Root
  BY <1>2 DEF Connected
<1>6. d \in Answering(0)
  BY <1>2, <1>3, <1>5, ReachedClosed DEF Answering
<1>7. PICK i \in Slots \ Used : Configured(i, 0, 0, port)
  <2>1. 0 \in Slots
    BY UsbAssumption DEF Slots
  <2>2. QED
    BY <1>1, <1>2, <1>6, <2>1, ConfigureCases
<1>8. \A q \in Ports : port'[q] = port[q] \/ Fresh(q)
  BY <1>7, ConfiguredPorts
<1>9. /\ \A q \in Ports : ~InService(q)' /\ ~Pending(q)'
      /\ \A q \in Ports : port'[q].connection => Connected(q)'
  <2>1. \A q \in Ports : ~port[q].reset /\ (port[q].connection => Connected(q))
    BY <1>4 DEF Calm, ResetInv
  <2>2. \A q \in Ports : Connected(q)' = Connected(q)
    BY <1>1 DEF Connected
  <2>3. QED
    BY <1>4, <1>8, <2>1, <2>2 DEF InService, Pending, Fresh
<1>10. ResetInv'
  BY <1>9 DEF ResetInv, Pending
<1>11. StageInv'
  BY <1>1, <1>2 DEF StageInv, Connected, Detached
<1>12. ServiceInv'
  <2>1. \A e \in Devices : at[e] = Root => e = d
    BY <1>5, RootNotPort DEF BusInv, OnePerPlace
  <2>2. addr'[d] # 0
    BY <1>6, <1>7 DEF Configured, Slots
  <2>3. QED
    BY <1>1, <1>9, <2>1, <2>2 DEF ServiceInv
<1>13. QED
  BY <1>10, <1>11, <1>12 DEF Calm

(* What is plugged in was not there before.                                *)
LEMMA CalmPlug ==
    ASSUME TypeOK, BusInv, RootInv, Calm, NEW d \in Devices, NEW q \in Places,
           Plug(d, q)
    PROVE  Calm'
<1>1. /\ at[d] = Away /\ at' = [at EXCEPT ![d] = q] /\ ~Connected(q)
      /\ q # Away /\ bounced' = (bounced \/ Unnoticed(q))
      /\ UNCHANGED <<addr, rootReset, dev, usb_task_state, bResetInitiated,
                     shared, leaked, ignored>>
  BY DEF Plug
<1>2. /\ at'[d] = q /\ Used' = Used
      /\ \A e \in Devices : e # d => at'[e] = at[e]
  BY <1>1 DEF TypeOK, Used
<1>3. \A p \in Ports :
         /\ port'[p].state = port[p].state /\ port'[p].reset = port[p].reset
         /\ p # q => port'[p].connection = port[p].connection
  <2>1. port' = port \/ port' = [port EXCEPT ![q].connection = TRUE]
    BY DEF Plug
  <2>2. QED
    BY <2>1 DEF TypeOK
<1>4. \A p : p # Away => (Connected(p) => Connected(p)')
  BY <1>1, <1>2 DEF Connected
<1>5. ~Unnoticed(q)
  BY <1>1 DEF Unnoticed, Calm, StageInv, ResetInv, RootInv, TypeOK, Places
<1>6. Orderly'
  BY <1>1, <1>5 DEF Calm, Orderly
<1>7. ResetInv'
  <2>1. \A p \in Ports : port'[p].connection => Connected(p)'
    BY <1>2, <1>3, <1>4, RootNotPort DEF Calm, ResetInv, Connected
  <2>2. \A p \in Ports : Pending(p)' = Pending(p)
    BY <1>3 DEF Pending
  <2>3. QED
    BY <1>1, <1>3, <2>1, <2>2 DEF Calm, ResetInv
<1>8. StageInv'
  BY <1>1, <1>2, <1>4, RootNotPort DEF Calm, StageInv
<1>9. ServiceInv'
  <2>1. \A p \in Ports : InService(p)' = InService(p)
    BY <1>3 DEF InService
  <2>2. q \in Ports => ~InService(q)
    BY <1>1 DEF BusInv, ActiveConnected, InService
  <2>3. q = Root => usb_task_state # "RUNNING"
    BY <1>1 DEF Calm, StageInv, Detached
  <2>4. QED
    BY <1>1, <1>2, <2>1, <2>2, <2>3 DEF Calm, ServiceInv
<1>10. QED
  BY <1>6, <1>7, <1>8, <1>9 DEF Calm

LEMMA SharedStays ==
    ASSUME TypeOK, BusInv, RootInv, Agrees, Calm,
           NEW parent, NEW p, NEW ports, NEW lost,
           usb_configure(parent, p, ports, lost)
    PROVE  ~shared'
<1>1. ~shared
  BY DEF Calm, Orderly
<1>2. CASE UNCHANGED shared
  BY <1>1, <1>2
<1>3. ASSUME NEW i \in Slots \ Used, Configured(i, parent, p, ports)
      PROVE  ~shared'
  <2>1. \A d, e \in Answering(0) : d = e
    BY UniqueAtZero
  <2>2. QED
    BY <1>1, <1>3, <2>1 DEF Configured
<1>4. QED
  BY <1>2, <1>3, ConfigureCases

LEMMA CalmStep ==
    ASSUME TypeOK, PollInv, BusInv, RootInv, TableInv, CalmInv, [Next]_vars
    PROVE  CalmInv'
<1>1. SUFFICES ASSUME Quiet' PROVE Calm'
  BY DEF CalmInv, Calm
<1>2. Quiet /\ \A d \in Devices : ~Unplug(d)
  <2>1. ASSUME NEW d \in Devices, Unplug(d) PROVE FALSE
    BY <1>1, <2>1, UsbAssumption DEF Unplug, TypeOK, Quiet
  <2>2. (\A d \in Devices : ~Unplug(d)) => unplugs' = unplugs
    BY DEF Next, Host, usb_poll, User, vars, history, BusProbe, Initialize, ResetRoot,
           ConfigureRoot, usb_hub_poll, usb_hub_port_status_change,
           PortResetDone, Plug
  <2>3. (refused => refused') /\ (ignored => ignored')
    BY NoteStays
  <2>4. QED
    BY <1>1, <2>1, <2>2, <2>3 DEF Quiet
<1>3. /\ Calm /\ Agrees /\ ~bounced /\ ~shared /\ ~leaked /\ ~ignored
      /\ ~ignored' /\ ~refused'
  BY <1>1, <1>2 DEF CalmInv, Calm, TableInv, Orderly, Quiet
<1>4. CASE /\ UNCHANGED <<bus, dev, usb_task_state, bResetInitiated>>
           /\ UNCHANGED <<bounced, shared, leaked, ignored>>
  BY <1>3, <1>4, CalmFrame DEF Calm, Orderly, bus, ResetInv, InService, Pending
<1>5. CASE BusProbe
  <2>1. /\ usb_task_state \in Detached /\ usb_task_state' = "ATTACHED"
        /\ Connected(Root)
    BY <1>3, <1>5 DEF BusProbe, Calm, StageInv
  <2>2. UNCHANGED <<bus, dev, bResetInitiated, bounced, shared, leaked, ignored>>
    BY <1>5 DEF BusProbe, history
  <2>3. ResetInv' /\ Orderly'
    BY <1>3, <2>2 DEF Calm, ResetInv, Orderly, Connected, Pending, bus
  <2>4. StageInv' /\ ServiceInv'
    BY <1>3, <2>1, <2>2
    DEF Calm, StageInv, ServiceInv, Connected, InService, Used, bus, Detached
  <2>5. QED
    BY <2>3, <2>4 DEF Calm
<1>6. CASE Initialize
  <2>1. /\ usb_task_state = "INITIALIZE" /\ usb_task_state' = "WAIT_FOR_DEVICE"
        /\ UNCHANGED <<bus, bResetInitiated, bounced, shared, ignored>>
    BY <1>6 DEF Initialize
  <2>2. Used = {} /\ \A q \in Ports : port[q].state = "off"
    BY <1>3, <2>1, BeforeReset DEF Calm, StageInv, RootInv, Detached
  <2>3. \A i \in Slots : dev'[i].bAddress = 0
    <3>1. \A i \in Slots : dev'[i] = Free \/ dev'[i] = dev[i]
      BY <1>6 DEF Initialize
    <3>2. Free.bAddress = 0 /\ \A i \in Slots : dev[i].bAddress = 0
      BY <2>2 DEF Free, Used
    <3>3. QED
      BY <3>1, <3>2
  <2>4. Used' = {} /\ Orderly'
    <3>1. leaked' = (leaked \/ \E i \in Slots : dev'[i].bAddress # 0)
      BY <1>6 DEF Initialize
    <3>2. ~leaked'
      BY <1>3, <2>3, <3>1
    <3>3. Used' = {}
      BY <2>3 DEF Used
    <3>4. QED
      BY <1>3, <2>1, <3>2, <3>3 DEF Orderly
  <2>5. ResetInv'
    BY <1>3, <2>1 DEF Calm, ResetInv, Connected, Pending, bus
  <2>6. StageInv' /\ ServiceInv'
    BY <2>1, <2>2, <2>4 DEF StageInv, ServiceInv, InService, bus, Detached
  <2>7. QED
    BY <2>4, <2>5, <2>6 DEF Calm
<1>7. CASE ResetRoot
  <2>1. /\ usb_task_state = "ATTACHED" /\ usb_task_state' = "CONFIGURING"
        /\ UNCHANGED <<at, dev, bResetInitiated, bounced, shared, leaked, ignored>>
        /\ rootReset' = ({d \in Devices : at[d] = Root} # {})
    BY <1>7 DEF ResetRoot, history
  <2>2. \A q \in Ports : port[q].state = "off"
    BY <2>1, BeforeReset DEF RootInv
  <2>3. \A q \in Ports : port'[q] = Off \/ port'[q] = port[q]
    BY <1>7 DEF ResetRoot, PortsOff
  <2>4. Orderly' /\ Connected(Root) /\ Connected(Root)'
    BY <1>3, <2>1 DEF Calm, Orderly, StageInv, Detached, Connected
  <2>5. Off = [state |-> "off", connection |-> FALSE, reset |-> FALSE]
    BY DEF Off
  <2>6. \A q \in Ports : ~InService(q)' /\ ~Pending(q)'
    <3>1. \A q \in Ports : ~port[q].reset
      BY <1>3, <2>2 DEF Calm, ResetInv
    <3>2. QED
      BY <2>2, <2>3, <2>5, <3>1 DEF InService, Pending
  <2>7. ResetInv'
    <3>1. \A q \in Ports : port'[q].connection => Connected(q)'
      BY <1>3, <2>1, <2>3, <2>5 DEF Calm, ResetInv, Connected
    <3>2. QED
      BY <2>6, <3>1 DEF ResetInv, Pending
  <2>8. StageInv'
    BY <2>1, <2>4 DEF StageInv, Detached, Connected
  <2>9. ServiceInv'
    BY <2>1, <2>6 DEF ServiceInv
  <2>10. QED
    BY <2>4, <2>7, <2>8, <2>9 DEF Calm
<1>8. CASE ConfigureRoot
  <2>1. Orderly'
    BY <1>3, <1>8, SharedStays DEF ConfigureRoot, Orderly
  <2>2. QED
    BY <1>3, <1>8, <2>1, CalmRoot
<1>9. CASE usb_hub_port_status_change
  <2>1. /\ poll # Idle /\ PollFrame
        /\ UNCHANGED <<at, rootReset, usb_task_state, bounced, leaked>>
    BY <1>9, PortStepCases DEF PollFrame
  <2>2. poll.slot \in Used /\ usb_task_state \notin Detached
    BY <1>3, <2>1 DEF RootInv, Calm, StageInv
  <2>3. ASSUME NEW hub \in HubOf(poll.slot), Connect(PortAt(hub)) PROVE Calm'
    <3>1. Orderly'
      BY <1>3, <2>1, <2>3 DEF Connect, Orderly
    <3>2. QED
      BY <1>3, <2>1, <2>3, <3>1, CalmConnect
  <2>4. ASSUME NEW hub \in HubOf(poll.slot), Disconnect(PortAt(hub))
        PROVE  Calm'
    <3>1. Event(PortAt(hub)) = "DISCONNECT" /\ PortAt(hub) \in Ports
      BY <2>1, <2>4, PortAtType DEF Disconnect
    <3>2. port[PortAt(hub)].connection /\ ~Connected(PortAt(hub))
      BY <3>1, EventCases
    <3>3. QED
      BY <1>3, <3>1, <3>2 DEF Calm, ResetInv
  <2>5. ASSUME NEW hub \in HubOf(poll.slot), ResetComplete(PortAt(hub))
        PROVE  Calm'
    <3> DEFINE q == PortAt(hub)
               ports == [port EXCEPT ![q].reset = FALSE]
    <3>1. /\ Event(q) = "RESET_COMPLETE"
          /\ usb_configure(dev[poll.slot].bAddress, q[2], ports, 0)
      BY <1>3, <2>5, Zenon DEF ResetComplete
    <3>2. q \in Ports /\ q[1] \in Reached
      BY <2>1, PortAtType, HubOfFacts DEF PortAt
    <3>3. ports = [port EXCEPT ![q].reset = FALSE]
      OBVIOUS
    <3> HIDE DEF q, ports
    <3>4. port[q].state = "enabled" /\ port[q].reset
      BY <3>1, <3>2, EventCases
    <3>5. Orderly'
      BY <1>3, <2>1, <3>1, SharedStays DEF Orderly
    <3>6. QED
      BY <1>3, <2>1, <2>2, <3>1, <3>2, <3>3, <3>4, <3>5, CalmReset
  <2>6. QED
    BY <1>4, <1>9, <2>1, <2>3, <2>4, <2>5, PortStepCases DEF Ignore, bus
<1>10. ASSUME NEW q \in Ports, PortResetDone(q) PROVE Calm'
  <2>1. /\ \A p \in Ports : p # q => port'[p] = port[p]
        /\ port[q].state = "resetting" /\ port'[q].state = "enabled"
        /\ port'[q].reset = TRUE
        /\ port'[q].connection = port[q].connection
    BY <1>10 DEF PortResetDone, TypeOK
  <2>2. /\ UNCHANGED <<at, dev, rootReset, addr, usb_task_state,
                       bResetInitiated, bounced, shared, leaked, ignored>>
    BY <1>10 DEF PortResetDone, history
  <2>3. \A p \in Ports :
           /\ port'[p].connection => port[p].connection
           /\ port'[p].reset => port'[p].state = "enabled"
           /\ InService(p)' => InService(p)
           /\ Pending(p)' => Pending(p)
    BY <1>3, <2>1 DEF InService, Pending, Calm, ResetInv
  <2>4. Orderly'
    BY <1>3, <2>2 DEF Orderly
  <2>5. QED
    BY <1>3, <2>2, <2>3, <2>4, CalmFrame
<1>11. ASSUME NEW d \in Devices, NEW q \in Places, Plug(d, q) PROVE Calm'
  BY <1>3, <1>11, CalmPlug
<1>12. QED
  BY <1>2, <1>4, <1>5, <1>6, <1>7, <1>8, <1>9, <1>10, <1>11
  DEF Next, Host, usb_poll, User, vars, history, usb_hub_poll

-----------------------------------------------------------------------------
(* The theorems.                                                           *)

LEMMA InitInv == Init => IInv
<1> SUFFICES ASSUME Init PROVE IInv
  OBVIOUS
<1>1. TypeOK /\ PollInv
  BY TypeInit
<1>2. /\ \A d \in Devices : at[d] = Away /\ addr[d] = 0
      /\ \A q \in Ports : port[q] = Off
      /\ \A i \in Slots : dev[i] = Free
      /\ ~rootReset /\ usb_task_state = "INITIALIZE" /\ poll = Idle
      /\ ~bounced /\ ~shared /\ ~leaked /\ ~ignored
  BY DEF Init
<1>3. /\ Off.state = "off" /\ ~Off.connection /\ ~Off.reset
      /\ Free.bAddress = 0
  BY DEF Off, Free
<1>4. Used = {}
  BY <1>2, <1>3 DEF Used
<1>5. \A q \in Ports : port[q].state = "off" /\ ~port[q].connection
                         /\ ~port[q].reset
  BY <1>2, <1>3
<1>6. BusInv
  BY <1>2, <1>5, RootNotPort
  DEF BusInv, OnePerPlace, PowerNeedsAddress, AddressedReached, ActiveConnected
<1>7. RootInv
  BY <1>2, <1>4 DEF RootInv
<1>8. TreeInv
  BY <1>4 DEF TreeInv, ParentsPresent, NoRing
<1>9. TableInv
  BY <1>2, <1>4, RootNotPort
  DEF TableInv, Agrees, EntryTells, AddressOnce, PortAgrees, OnePerPort
<1>10. CalmInv
  <2>1. Orderly /\ ResetInv
    BY <1>2, <1>5 DEF Orderly, ResetInv, Pending
  <2>2. StageInv /\ ServiceInv
    BY <1>2, <1>4, <1>5, RootNotPort
    DEF StageInv, ServiceInv, InService, Detached
  <2>3. QED
    BY <2>1, <2>2 DEF CalmInv
<1>11. QED
  BY <1>1, <1>6, <1>7, <1>8, <1>9, <1>10 DEF IInv

LEMMA NextInv == IInv /\ [Next]_vars => IInv'
  BY TypeStep, BusStep, RootStep, TreeStep, TableStep, CalmStep DEF IInv

(* The strengthening that the theorems below rest on holds in every state: *)
(* of the bus, the root port, the table and what each says of the others.  *)
THEOREM Invariant == Spec => []IInv
  BY InitInv, NextInv, PTL DEF Spec

(* Every variable keeps its type, and an address in the table is always    *)
(* the number of its slot plus one.                                        *)
THEOREM TypeCorrect == Spec => []TypeOK
<1>1. IInv => TypeOK
  BY DEF IInv
<1>2. QED
  BY <1>1, Invariant, PTL

(* Whatever is plugged in and out, and whenever, every entry of the table  *)
(* of devices that usb_release_device() left has a parent that is a hub of *)
(* the table, and no entries are parents of each other; and while no loss  *)
(* is overlooked, no two entries are of the same port.                     *)
THEOREM TreeCorrect == Spec => []TableIsTree
<1>1. IInv => TableIsTree
  BY DEF IInv, TreeInv, TableInv, Agrees, TableIsTree
<1>2. QED
  BY <1>1, Invariant, PTL

(* No two devices ever answer at the same address unless usb_configure()   *)
(* gave it to both; and while nothing is unplugged, the table has room and *)
(* neither SET_ADDRESS nor a request to a hub has failed it does not,      *)
(* since bResetInitiated lets one port at a time be reset.                 *)
THEOREM OneAnswersCorrect == Spec => []OneAnswers
<1>1. ASSUME IInv PROVE OneAnswers
  <2>1. Orderly => \A a \in 1 .. NumDevices :
                      \A d, e \in Answering(a) : d = e
    BY <1>1, ReachedClosed
    DEF IInv, TableInv, Agrees, AddressOnce, Answering
  <2>2. Quiet => Calm
    BY <1>1 DEF IInv, CalmInv, Calm
  <2>3. Calm => Orderly /\ Agrees
    BY <1>1 DEF IInv, TableInv, Calm
  <2>4. Quiet /\ Used # Slots => \A d, e \in Answering(0) : d = e
    BY <1>1, <2>2, <2>3, UniqueAtZero DEF IInv
  <2>5. QED
    BY <2>1, <2>2, <2>3, <2>4 DEF OneAnswers
<1>2. QED
  BY <1>1, Invariant, PTL
=============================================================================
