-------------------------------- MODULE UsbHub --------------------------------
(***************************************************************************)
(* USB hubs below the root ports (usb.c): hub_setup, hub_scan and the      *)
(* periodic rescan of usbkbd_poll, together with port_scan, enum_device,   *)
(* dev_drop and kbd_recover for keyboards on a root port or on a hub.      *)
(*                                                                         *)
(* A command or a control transfer and the wait for it are one step, which *)
(* succeeds only while the device is there, and may fail all the same      *)
(* (MaxFaults).  Events are handled between the steps wherever the code     *)
(* waits.  UsbKeyboard splits these steps further, for root ports only:    *)
(* commands under way, late answers, the race of a PORTSC write, the key   *)
(* queue.  A hub port's C_CONNECTION is left out, for the driver clears it *)
(* and never looks at it.  Hubs stand on root ports.                       *)
(***************************************************************************)
EXTENDS Naturals, FiniteSetsExt

CONSTANTS
    Ports,        \* root ports, 1..n
    HubPorts,     \* ports of a hub, 1..n
    Hubs, Kbds,   \* physical devices
    Usages,       \* keys
    Slots,        \* device slots of the controller, 1..n
    DevSlots,     \* entries of Xhci.dev, 1..MAX_DEVS
    Root, None,
    MaxPlugs, MaxKeys, MaxFaults   \* what the surroundings may do

ASSUME HubAssumption ==
    /\ Ports \subseteq Nat \ {0} /\ HubPorts \subseteq Nat \ {0}
    /\ Slots \subseteq Nat \ {0} /\ DevSlots \subseteq Nat \ {0} /\ DevSlots # {}
    /\ {MaxPlugs, MaxKeys, MaxFaults} \subseteq Nat
    /\ Hubs \cap Kbds = {} /\ {Root, None} \cap (Hubs \cup Kbds) = {} /\ Root # None

Devices == Hubs \cup Kbds

VARIABLES
    \* the world
    at,                  \* <<Root, port>>, <<hub, port>> or Nowhere
    key, fresh,          \* keys held; a report is due
    addr,                \* slot whose address the device answers to
    rooten, hport,       \* enable bits of root ports; state of hub ports
    on, ep, rpt, posted, \* the controller: slots, pipes, events not yet handled
    budget,
    \* the kernel
    dev, pscan, hubscan, \* Xhci.dev, pscan, hubscan_at
    pc, port, cur,       \* position in usbkbd_poll, and its locals
    hub, hp, ped,        \* hub_scan's d and p; PORT_ENABLE as last read
    booting, sweep,      \* the first scan; the periodic one
    lost                 \* ghost: devices the driver gave up or cannot notice

world  == <<at, key, fresh, addr, rooten, hport, on, ep, rpt, posted, budget>>
tables == <<dev, pscan, hubscan>>
place  == <<port, cur, hub, hp, ped, booting, sweep>>
vars   == <<world, tables, pc, place, lost>>

Nowhere == <<None, 0>>
NoDev   == [used |-> FALSE, slot |-> 0, rootport |-> 0, route |-> 0, parent |-> 0,
            is_kbd |-> FALSE, is_hub |-> FALSE, need_recover |-> FALSE,
            prev |-> {}, conn |-> {}]
PortOff == [power |-> FALSE, resetting |-> FALSE, creset |-> FALSE, enabled |-> FALSE]
NoEvent == [cc |-> "none", keys |-> {}]

\* Everything is plugged in anywhere when xhci_init_one scans the ports.
Init ==
    /\ at \in [Devices -> {Nowhere} \cup ({Root} \X Ports) \cup (Hubs \X HubPorts)]
    /\ \A h \in Hubs : at[h][1] \in {Root, None}
    /\ \A d, e \in Devices : at[d] = at[e] /\ at[d] # Nowhere => d = e
    /\ key = [k \in Kbds |-> {}] /\ fresh = [k \in Kbds |-> FALSE]
    /\ addr = [d \in Devices |-> 0]
    /\ rooten = [p \in Ports |-> FALSE]
    /\ hport = [h \in Hubs |-> [q \in HubPorts |-> PortOff]]
    /\ on = {} /\ ep = [s \in Slots |-> "none"] /\ rpt = [s \in Slots |-> NoEvent]
    /\ posted = {}
    /\ budget = [plugs |-> MaxPlugs, keys |-> MaxKeys, faults |-> MaxFaults]
    /\ dev = [i \in DevSlots |-> NoDev]
    /\ pscan = {} /\ hubscan = "off"
    /\ pc = "ports" /\ port = 1 /\ cur = 0 /\ hub = 0 /\ hp = 0 /\ ped = FALSE
    /\ booting = TRUE /\ sweep = FALSE /\ lost = {}

-----------------------------------------------------------------------------
(* The world: who is where, and who answers.                               *)
Spend(what) == budget[what] > 0 /\ budget' = [budget EXCEPT ![what] = @ - 1]

OnHub(d) == at[d][1] \in Hubs
Below(h) == {d \in Devices : at[d][1] = h}
At(x, p) == {d \in Devices : at[d] = <<x, p>>}

\* The device at a place as the driver names it: root port and route.
DevicesAt(p, q) ==
    IF q = 0 THEN At(Root, p) ELSE UNION {At(h, q) : h \in At(Root, p) \cap Hubs}

Answers(s) == \E d \in Devices : addr[d] = s
Physical(s) == {d \in Devices : addr[d] = s}

\* What the driver holds to be attached although it may be gone: a device put
\* there now goes unnoticed.
dev_on_root(p) == {i \in DevSlots : dev[i].used /\ dev[i].rootport = p /\ dev[i].route = 0}

Believed(x, p) ==
    IF x = Root THEN dev_on_root(p) # {}
    ELSE \E i \in DevSlots : /\ dev[i].used /\ addr[x] = dev[i].slot /\ addr[x] # 0
                             /\ p \in dev[i].conn

kernel == <<tables, pc, place>>

Plug(d, x, p) ==
    /\ at[d] = Nowhere /\ At(x, p) = {} /\ Spend("plugs")
    /\ at' = [at EXCEPT ![d] = <<x, p>>]
    /\ fresh' = [k \in Kbds |-> IF k \in {d} \cup Below(d) THEN key[k] # {} ELSE fresh[k]]
    /\ posted' = IF x = Root THEN posted \cup {p} ELSE posted
    /\ lost' = IF Believed(x, p) THEN lost \cup {d} ELSE lost \ {d}
    /\ UNCHANGED <<key, addr, rooten, hport, on, ep, rpt, kernel>>

Unplug(d) ==
    /\ at[d] # Nowhere /\ Spend("plugs")
    /\ at' = [at EXCEPT ![d] = Nowhere]
    /\ addr' = [e \in Devices |-> IF e = d \/ e \in Below(d) THEN 0 ELSE addr[e]]
    /\ IF OnHub(d)
       THEN /\ hport' = [hport EXCEPT ![at[d][1]][at[d][2]] =
                                 [@ EXCEPT !.enabled = FALSE, !.resetting = FALSE]]
            /\ UNCHANGED <<rooten, posted>>
       ELSE /\ hport' = [h \in Hubs |-> IF h = d THEN [q \in HubPorts |-> PortOff]
                                                 ELSE hport[h]]
            /\ rooten' = [rooten EXCEPT ![at[d][2]] = FALSE]
            /\ posted' = posted \cup {at[d][2]}
    /\ UNCHANGED <<key, fresh, on, ep, rpt, kernel, lost>>

Type(k, u) ==
    /\ Spend("keys")
    /\ key' = [key EXCEPT ![k] = IF u \in @ THEN @ \ {u} ELSE @ \cup {u}]
    /\ fresh' = [fresh EXCEPT ![k] = TRUE]
    /\ UNCHANGED <<at, addr, rooten, hport, on, ep, rpt, posted, kernel, lost>>

\* A hub ends the reset of a port: what is there is enabled, at no address.
HubResets(h, q) ==
    /\ hport[h][q].resetting
    /\ hport' = [hport EXCEPT ![h][q] =
                   [@ EXCEPT !.resetting = FALSE, !.creset = TRUE, !.enabled = TRUE]]
    /\ addr' = [d \in Devices |-> IF d \in At(h, q) THEN 0 ELSE addr[d]]
    /\ UNCHANGED <<at, key, fresh, rooten, on, ep, rpt, posted, budget, kernel, lost>>

HcReport(s) ==
    /\ ep[s] = "armed"
    /\ \E k \in Physical(s) \cap Kbds :
          /\ fresh[k] /\ fresh' = [fresh EXCEPT ![k] = FALSE]
          /\ rpt' = [rpt EXCEPT ![s] = [cc |-> "ok", keys |-> key[k]]]
    /\ ep' = [ep EXCEPT ![s] = "idle"]
    /\ UNCHANGED <<at, key, addr, rooten, hport, on, posted, budget, kernel, lost>>

HcPipeError(s) ==
    /\ ep[s] = "armed"
    /\ IF Answers(s) THEN Spend("faults") ELSE UNCHANGED budget
    /\ rpt' = [rpt EXCEPT ![s] = [cc |-> "error", keys |-> {}]]
    /\ ep' = [ep EXCEPT ![s] = "halted"]
    /\ UNCHANGED <<at, key, fresh, addr, rooten, hport, on, posted, kernel, lost>>

Surroundings ==
    \/ \E k \in Kbds, x \in {Root} \cup Hubs, p \in Ports \cup HubPorts :
          /\ p \in IF x = Root THEN Ports ELSE HubPorts
          /\ Plug(k, x, p)
    \/ \E h \in Hubs, p \in Ports : Plug(h, Root, p)
    \/ \E d \in Devices : Unplug(d)
    \/ \E k \in Kbds, u \in Usages : Type(k, u)
    \/ \E h \in Hubs, q \in HubPorts : HubResets(h, q)
    \/ \E s \in Slots : HcReport(s) \/ HcPipeError(s)

-----------------------------------------------------------------------------
(* Events, handled wherever the driver waits.                              *)
Waits == {"enable", "address", "describe", "configure", "enum_drop", "unplug",
          "recover", "hub_describe", "hub_config", "hub_power", "hub_status",
          "hub_reset", "hub_poll", "hub_ack", "hub_drop"}

Drained == posted = {} /\ \A s \in Slots : rpt[s] = NoEvent

dev_by_slot(s) == {i \in DevSlots : dev[i].used /\ dev[i].slot = s}

OnPort(p) ==
    /\ posted' = posted \ {p} /\ pscan' = pscan \cup {p}
    /\ UNCHANGED <<dev, ep, rpt>>

OnReport(s) ==
    /\ rpt[s] # NoEvent /\ rpt' = [rpt EXCEPT ![s] = NoEvent]
    /\ \/ /\ \A i \in dev_by_slot(s) : ~dev[i].is_kbd
          /\ UNCHANGED <<dev, ep>>
       \/ \E i \in dev_by_slot(s) :
             /\ dev[i].is_kbd
             /\ IF rpt[s].cc = "ok"
                THEN /\ dev' = [dev EXCEPT ![i].prev = rpt[s].keys]
                     /\ ep' = [ep EXCEPT ![s] = "armed"]
                ELSE dev' = [dev EXCEPT ![i].need_recover = TRUE] /\ UNCHANGED ep
    /\ UNCHANGED <<posted, pscan>>

handle_event ==
    /\ pc \in Waits \cup {"events"}
    /\ (\E p \in posted : OnPort(p)) \/ (\E s \in Slots : OnReport(s))
    /\ UNCHANGED <<at, key, fresh, addr, rooten, hport, on, budget, hubscan, pc, place, lost>>

-----------------------------------------------------------------------------
(* usbkbd_poll: events, flagged ports, recovery, then the hubs.            *)
\* A wait that ended: everything posted before the answer has been handled.
Wait(label) == pc = label /\ Drained

\* A control transfer on slot s, and a command, went well or did not.
Succeeds(s) == Answers(s) /\ UNCHANGED budget
Fails(s)    == IF Answers(s) THEN Spend("faults") ELSE UNCHANGED budget
Accepted    == UNCHANGED budget
Refused     == Spend("faults")

Quietly == UNCHANGED lost
GiveUp  == lost' = lost \cup DevicesAt(port, hp)

\* Where port_scan, enum_device and hub_scan go on.
Goto(label) == pc' = label /\ UNCHANGED <<port, hub, hp>>
NextPort    == pc' = "ports" /\ port' = port + 1 /\ hub' = 0 /\ hp' = 0
NextHubPort == pc' = "hub_status" /\ hp' = hp + 1 /\ UNCHANGED <<port, hub>>
Leave       == cur' = 0 /\ IF hub # 0 THEN NextHubPort ELSE NextPort
Stay(label) == Goto(label) /\ UNCHANGED cur

HubsFrom(i) == {j \in DevSlots : j >= i /\ dev[j].used /\ dev[j].is_hub}

\* hub_scan(d), and its return into the sweep or out of hub_setup.
ScanHub(i) == pc' = "hub_status" /\ hub' = i /\ hp' = 1 /\ port' = dev[i].rootport

ScanDone ==
    IF ~sweep THEN NextPort
    ELSE IF HubsFrom(hub + 1) # {} THEN ScanHub(Min(HubsFrom(hub + 1)))
    ELSE pc' = "idle" /\ port' = 0 /\ hub' = 0 /\ hp' = 0

\* What no step of the kernel touches, and what only one or two of them do.
physical == <<at, key, fresh, rpt>>
hardware == <<addr, rooten, hport, on, ep, posted>>
modes    == <<pscan, hubscan, booting, sweep>>

PollStart ==
    /\ pc = "idle" /\ pc' = "events" /\ sweep' = FALSE
    /\ UNCHANGED <<world, tables, port, cur, hub, hp, ped, booting, lost>>

EventsDrained ==
    /\ Wait("events") /\ pc' = "ports" /\ port' = 1
    /\ UNCHANGED <<world, tables, cur, hub, hp, ped, booting, sweep, lost>>

\* xhci_init_one scans every port, then arms the rescan only if it found a hub.
BootPort ==
    /\ pc = "ports" /\ booting
    /\ IF port \in Ports
       THEN pc' = "scan" /\ UNCHANGED <<port, booting, hubscan>>
       ELSE /\ pc' = "idle" /\ port' = 0 /\ booting' = FALSE
            /\ hubscan' = IF HubsFrom(1) # {} THEN "armed" ELSE "off"
    /\ UNCHANGED <<world, dev, pscan, cur, hub, hp, ped, sweep, lost>>

\* A scanned port arms the rescan if it was off.
RearmedNever == hubscan
Rearmed      == IF hubscan = "off" THEN "armed" ELSE hubscan

PickPort ==
    /\ pc = "ports" /\ ~booting
    /\ LET flagged == {p \in pscan : p >= port}
       IN IF flagged = {}
          THEN pc' = "recover" /\ port' = 0 /\ UNCHANGED <<pscan, hubscan>>
          ELSE /\ pc' = "scan" /\ port' = Min(flagged)
               /\ pscan' = pscan \ {Min(flagged)}
               /\ hubscan' = Rearmed
    /\ UNCHANGED <<world, dev, cur, hub, hp, ped, booting, sweep, lost>>

\* Everything on a port that reads disconnected is dropped.
port_scan ==
    /\ pc = "scan"
    /\ IF At(Root, port) = {} THEN Goto("unplug")
       ELSE IF dev_on_root(port) # {} THEN NextPort      \* already up
       ELSE Goto("reset")
    /\ UNCHANGED <<world, tables, cur, ped, booting, sweep, lost>>

ResetPort ==
    /\ pc = "reset"
    /\ IF At(Root, port) = {}
       THEN NextPort /\ UNCHANGED <<addr, rooten, posted>>
       ELSE /\ Goto("enum")
            /\ rooten' = [rooten EXCEPT ![port] = TRUE]
            /\ addr' = [d \in Devices |-> IF d \in At(Root, port) THEN 0 ELSE addr[d]]
            /\ posted' = posted \cup {port}
    /\ UNCHANGED <<physical, hport, on, ep, budget, tables, cur, ped, booting, sweep, lost>>

\* dev_drop: Disable Slot, then the entry is free.
dev_drop(i) ==
    /\ dev' = [dev EXCEPT ![i] = NoDev]
    /\ on' = on \ {dev[i].slot} /\ ep' = [ep EXCEPT ![dev[i].slot] = "none"]
    /\ addr' = [d \in Devices |-> IF d \in Physical(dev[i].slot) THEN 0 ELSE addr[d]]
    /\ UNCHANGED <<rooten, hport, posted>>

on_port_only(p) == dev_on_root(p)
on_port(p) == {i \in DevSlots : dev[i].used /\ dev[i].rootport = p}

Unplugging ==
    /\ Wait("unplug")
    /\ IF on_port(port) = {}
       THEN NextPort /\ UNCHANGED <<dev, hardware>>
       ELSE Goto("unplug") /\ dev_drop(Min(on_port(port)))
    /\ UNCHANGED <<physical, budget, modes, cur, ped, lost>>

-----------------------------------------------------------------------------
(* enum_device, for a device on a root port or, with hub # 0, on a hub.    *)
enum_device ==
    /\ pc = "enum"
    /\ LET unused == {i \in DevSlots : ~dev[i].used}
       IN IF unused = {}
          THEN Leave /\ GiveUp /\ UNCHANGED dev
          ELSE /\ cur' = Min(unused) /\ Goto("enable") /\ Quietly
               /\ dev' = [dev EXCEPT ![Min(unused)] =
                            [NoDev EXCEPT !.used = TRUE, !.rootport = port,
                                          !.route = hp, !.parent = hub]]
    /\ UNCHANGED <<world, modes, ped>>

EnableSlot ==
    /\ Wait("enable")
    /\ \/ /\ Accepted /\ on # Slots
          /\ LET s == Min(Slots \ on)
             IN on' = on \cup {s} /\ dev' = [dev EXCEPT ![cur].slot = s]
          /\ Stay("address") /\ Quietly
       \/ /\ IF on = Slots THEN UNCHANGED budget ELSE Refused
          /\ dev' = [dev EXCEPT ![cur] = NoDev] /\ UNCHANGED on
          /\ Leave /\ GiveUp
    /\ UNCHANGED <<physical, addr, rooten, hport, ep, posted, modes, ped>>

\* What Address Device finds at the root port and route of the device.
Addressable ==
    {d \in DevicesAt(port, hp) :
        IF OnHub(d) THEN addr[at[d][1]] # 0 /\ hport[at[d][1]][at[d][2]].enabled
                    ELSE rooten[port]}

AddressDevice ==
    /\ Wait("address") /\ Quietly
    /\ \/ /\ Accepted /\ Addressable # {} /\ Stay("describe")
          /\ addr' = [d \in Devices |-> IF d \in Addressable THEN dev[cur].slot ELSE addr[d]]
       \/ /\ IF Addressable = {} THEN UNCHANGED budget ELSE Refused
          /\ Stay("enum_drop") /\ UNCHANGED addr
    /\ UNCHANGED <<physical, rooten, hport, on, ep, posted, dev, modes, ped>>

\* The descriptors, and Set Configuration.
Described ==
    /\ Wait("describe") /\ Quietly
    /\ \/ /\ Succeeds(dev[cur].slot)
          /\ Stay(IF Physical(dev[cur].slot) \subseteq Hubs THEN "hub_describe" ELSE "configure")
       \/ Fails(dev[cur].slot) /\ Stay("enum_drop")
    /\ UNCHANGED <<physical, hardware, dev, modes, ped>>

EnumDropped ==
    /\ Wait("enum_drop") /\ dev_drop(cur) /\ Leave /\ GiveUp
    /\ UNCHANGED <<physical, budget, modes, ped>>

Configured ==
    /\ Wait("configure") /\ Leave
    /\ \/ /\ Accepted /\ Quietly
          /\ dev' = [dev EXCEPT ![cur].is_kbd = TRUE]
          /\ ep' = [ep EXCEPT ![dev[cur].slot] = "armed"]
       \/ Refused /\ GiveUp /\ UNCHANGED <<dev, ep>>
    /\ UNCHANGED <<physical, addr, rooten, hport, on, posted, modes, ped>>

-----------------------------------------------------------------------------
(* hub_setup, in the tail of enum_device: a failure leaves a device that   *)
(* is no hub.                                                              *)
HubDescribed ==
    /\ Wait("hub_describe")
    /\ \/ Succeeds(dev[cur].slot) /\ Stay("hub_config") /\ Quietly
       \/ Fails(dev[cur].slot) /\ Leave /\ GiveUp
    /\ UNCHANGED <<physical, hardware, dev, modes, ped>>

HubConfigured ==
    /\ Wait("hub_config")
    /\ \/ Accepted /\ Stay("hub_power") /\ Quietly
       \/ Refused /\ Leave /\ GiveUp
    /\ UNCHANGED <<physical, hardware, dev, modes, ped>>

\* PORT_POWER for every port, whatever becomes of the requests.
Powered(s) ==
    [h \in Hubs |-> IF h \in Physical(s) THEN [q \in HubPorts |-> [PortOff EXCEPT !.power = TRUE]]
                    ELSE hport[h]]

HubPowered ==
    /\ Wait("hub_power") /\ dev' = [dev EXCEPT ![cur].is_hub = TRUE] /\ ScanHub(cur) /\ cur' = 0
    /\ \/ Succeeds(dev[cur].slot) /\ hport' = Powered(dev[cur].slot) /\ Quietly
       \/ Fails(dev[cur].slot) /\ GiveUp /\ UNCHANGED hport
    /\ UNCHANGED <<physical, addr, rooten, on, ep, posted, modes, ped>>

-----------------------------------------------------------------------------
(* hub_scan, for port hp of the hub dev[hub].                              *)
Slot == dev[hub].slot
Hub  == CHOOSE h \in Hubs : addr[h] = Slot
State(q) == hport[Hub][q]
Connected(q) == State(q).power /\ At(Hub, q) # {}

\* conn is set before the attempt, so that a device that fails is not tried
\* again at every scan.
BelieveNothing == UNCHANGED dev
Believe == dev' = [dev EXCEPT ![hub].conn = @ \cup {hp}]
Doubt   == dev' = [dev EXCEPT ![hub].conn = @ \ {hp}]

\* Port by port, until one does not answer.
HubStatus ==
    /\ Wait("hub_status")
    /\ \/ hp \notin HubPorts /\ ScanDone /\ UNCHANGED <<budget, dev>>
       \/ hp \in HubPorts /\ Fails(Slot) /\ ScanDone /\ UNCHANGED dev
       \/ /\ hp \in HubPorts /\ Succeeds(Slot)
          /\ IF Connected(hp) /\ hp \notin dev[hub].conn
             THEN Goto("hub_reset") /\ Believe
             ELSE IF ~Connected(hp) /\ hp \in dev[hub].conn
             THEN Goto("hub_drop") /\ Doubt
             ELSE NextHubPort /\ UNCHANGED dev
    /\ UNCHANGED <<physical, hardware, modes, cur, ped, lost>>

\* PORT_RESET, which does nothing on an empty port.
HubReset ==
    /\ Wait("hub_reset") /\ Goto("hub_poll")
    /\ \/ /\ Succeeds(Slot) /\ Quietly
          /\ hport' = IF Connected(hp)
                      THEN [hport EXCEPT ![Hub][hp] =
                                 [@ EXCEPT !.resetting = TRUE, !.enabled = FALSE]]
                      ELSE hport
       \/ Fails(Slot) /\ GiveUp /\ UNCHANGED hport
    /\ UNCHANGED <<physical, addr, rooten, on, ep, posted, dev, modes, cur, ped>>

\* Poll for C_PORT_RESET: a failed read leaves hub_scan on the spot; fifty
\* reads outlast every reset that is under way.  The bit may be a stale one,
\* of a reset whose poll failed: the port is then taken for a dead one.
HubPoll ==
    /\ Wait("hub_poll")
    /\ \/ Fails(Slot) /\ ScanDone /\ GiveUp /\ UNCHANGED ped
       \/ /\ Succeeds(Slot)
          /\ State(hp).creset \/ ~State(hp).resetting
          /\ ped' = (State(hp).creset /\ State(hp).enabled)
          /\ Goto("hub_ack") /\ IF State(hp).resetting THEN GiveUp ELSE Quietly
    /\ UNCHANGED <<physical, hardware, dev, modes, cur>>

HubAck ==
    /\ Wait("hub_ack") /\ ped' = FALSE
    /\ IF ped THEN Goto("enum") ELSE NextHubPort
    /\ \/ Succeeds(Slot) /\ hport' = [hport EXCEPT ![Hub][hp] = [@ EXCEPT !.creset = FALSE]]
       \/ Fails(Slot) /\ UNCHANGED hport
    /\ UNCHANGED <<physical, addr, rooten, on, ep, posted, dev, modes, cur, lost>>

on_hub_all(i, q)  == {j \in DevSlots : dev[j].used /\ dev[j].parent = i}
on_hub_kbds(i, q) == {j \in DevSlots : dev[j].is_kbd /\ dev[j].parent = i /\ dev[j].route = q}
on_hub_port(i, q) == {j \in DevSlots : dev[j].used /\ dev[j].parent = i /\ dev[j].route = q}

HubDropping ==
    /\ Wait("hub_drop")
    /\ IF on_hub_port(hub, hp) = {}
       THEN NextHubPort /\ UNCHANGED <<dev, hardware>>
       ELSE Goto("hub_drop") /\ dev_drop(Min(on_hub_port(hub, hp)))
    /\ UNCHANGED <<physical, budget, modes, cur, ped, lost>>

-----------------------------------------------------------------------------
(* kbd_recover, and the sweep.                                             *)
Recover ==
    /\ Wait("recover")
    /\ LET broken == {i \in DevSlots : i > cur /\ dev[i].used /\ dev[i].need_recover}
       IN IF broken = {}
          THEN pc' = "sweep" /\ cur' = 0 /\ UNCHANGED <<dev, ep, budget, lost>>
          ELSE LET i == Min(broken)
               IN /\ pc' = "recover" /\ cur' = i
                  /\ \/ /\ Accepted /\ Quietly
                        /\ ep' = [ep EXCEPT ![dev[i].slot] = "armed"]
                        /\ dev' = [dev EXCEPT ![i].need_recover = FALSE]
                     \/ /\ Refused /\ UNCHANGED ep
                        /\ lost' = lost \cup Physical(dev[i].slot)
                        /\ dev' = [dev EXCEPT ![i].need_recover = FALSE, ![i].is_kbd = FALSE]
    /\ UNCHANGED <<physical, addr, rooten, hport, on, posted, modes, port, hub, hp, ped>>

\* 1.5 s after the last sweep; without hubs there is nothing to sweep.
Sweep ==
    /\ pc = "sweep"
    /\ IF hubscan = "due" /\ HubsFrom(1) # {}
       THEN ScanHub(Min(HubsFrom(1))) /\ hubscan' = "armed" /\ sweep' = TRUE
       ELSE /\ Goto("idle") /\ UNCHANGED sweep
            /\ hubscan' = IF hubscan = "due" THEN "off" ELSE hubscan
    /\ UNCHANGED <<world, dev, pscan, cur, ped, booting, lost>>

Tick ==
    /\ hubscan = "armed" /\ hubscan' = "due"
    /\ UNCHANGED <<world, dev, pscan, pc, place, lost>>

usbkbd_poll ==
    \/ PollStart \/ handle_event \/ EventsDrained \/ BootPort \/ PickPort
    \/ port_scan \/ ResetPort \/ Unplugging
    \/ enum_device \/ EnableSlot \/ AddressDevice \/ Described \/ EnumDropped \/ Configured
    \/ HubDescribed \/ HubConfigured \/ HubPowered
    \/ HubStatus \/ HubReset \/ HubPoll \/ HubAck \/ HubDropping
    \/ Recover \/ Sweep

Next == usbkbd_poll \/ Tick \/ Surroundings

\* The kernel polls whenever it waits for a key, time passes, a hub ends the
\* reset it began, and the controller delivers what is due.
Fairness ==
    /\ WF_vars(usbkbd_poll) /\ WF_vars(Tick)
    /\ \A h \in Hubs, q \in HubPorts : WF_vars(HubResets(h, q))
    /\ \A s \in Slots : WF_vars(HcReport(s))

Spec == Init /\ [][Next]_vars /\ Fairness

-----------------------------------------------------------------------------
(* Properties.                                                             *)

Place(i) == <<dev[i].rootport, dev[i].route>>

\* No keyboard outlives its hub, and the hub knows that its port is taken:
\* what a hub's port recorded can be dropped when the port, or the whole hub,
\* is gone.  Only while a drop is under way is one without the other.
ChildrenTracked ==
    \A i \in DevSlots :
       dev[i].used /\ dev[i].parent # 0 =>
          \/ pc = "unplug" /\ dev[i].rootport = port
          \/ /\ dev[dev[i].parent].used /\ dev[dev[i].parent].is_hub
             /\ dev[dev[i].parent].rootport = dev[i].rootport
             /\ \/ dev[i].route \in dev[dev[i].parent].conn
                \/ pc = "hub_drop" /\ hub = dev[i].parent /\ hp = dev[i].route

\* A place has one entry: neither the rescan, nor a port left in the middle of
\* a reset, nor a hub that comes back enumerates a device twice.
OneDevicePerPlace ==
    \A i, j \in DevSlots : dev[i].used /\ dev[j].used /\ Place(i) = Place(j) => i = j

\* A detach drops what was on that port of that hub, never a device that
\* still answers.
OnlyTheGoneAreDropped ==
    [][\A i \in DevSlots :
          dev[i].used /\ ~dev'[i].used =>
             pc \in {"enable", "enum_drop"} \/ ~Answers(dev[i].slot)]_vars

Attached(k) == at[k][1] = Root \/ (OnHub(k) /\ at[at[k][1]][1] = Root)

Excused(k) == k \in lost \/ at[k][1] \in lost

Known(k) == \E i \in DevSlots :
              dev[i].used /\ dev[i].is_kbd /\ addr[k] = dev[i].slot /\ dev[i].prev = key[k]

\* When the user leaves things alone, the keys of every keyboard become known,
\* wherever it is plugged and whatever was plugged, dropped, recovered or
\* rescanned meanwhile: unless the driver gave the keyboard, or its hub, up, or
\* could not notice it.
KeysArrive == []<>(\A k \in Kbds : Attached(k) => Known(k) \/ Excused(k))

\* And what was unplugged is forgotten, also from a hub, which tells no one:
\* unless what took the place of the hub itself went unnoticed.
GoneForgotten ==
    []<>(\A i \in DevSlots :
            dev[i].used => \/ DevicesAt(dev[i].rootport, dev[i].route) # {}
                           \/ DevicesAt(dev[i].rootport, 0) \cap lost # {})
=============================================================================
