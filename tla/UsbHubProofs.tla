---------------------------- MODULE UsbHubProofs ----------------------------
(***************************************************************************)
(* For every number of ports, hubs, keyboards, slots and table entries,    *)
(* every order of plugs and faults: a place of the tree has one entry of   *)
(* Xhci.dev, no keyboard outlives the record its hub keeps of it, and a    *)
(* detach drops only devices that no longer answer.                        *)
(*                                                                         *)
(* The inductive invariant says where the kernel is in hub_scan and        *)
(* enum_device (PlaceOK), that a slot is one entry's (SlotOK), that a      *)
(* device answers only at the place its entry names (AddrOK), on a hub     *)
(* port that has power (PowerOK), and that what is being dropped does not  *)
(* answer (GoneOK).                                                        *)
(***************************************************************************)
EXTENDS UsbHub, Integers, FiniteSetTheorems, TLAPS

-----------------------------------------------------------------------------
(* The least element of a set of numbers.                                  *)

\* A chosen port, device or slot (Min) is one of those it is chosen from.
LEMMA Least ==
    ASSUME NEW S, S \subseteq Nat, S # {}
    PROVE  Min(S) \in S
<1>1. PICK n \in S : TRUE
  OBVIOUS
<1> DEFINE below == {0 .. k : k \in S \cap (0 .. n)}
           R == StrictSubsetOrdering(0 .. n)
<1>2. IsWellFoundedOn(R, SUBSET (0 .. n))
  <2>1. IsFiniteSet(0 .. n)
    BY <1>1, FS_Interval
  <2>2. IsWellFoundedOn(R, FiniteSubsetsOf(0 .. n))
    BY FS_StrictSubsetOrderingWellFounded
  <2>3. FiniteSubsetsOf(0 .. n) = SUBSET (0 .. n)
    BY <2>1, FS_FiniteSubsetsOfFinite
  <2> QED
    BY <2>2, <2>3
<1>3. below \subseteq SUBSET (0 .. n) /\ below # {}
  <2>1. n \in Nat /\ n \in 0 .. n
    BY <1>1
  <2> QED
    BY <2>1
<1> HIDE DEF R
<1>4. PICK i \in below : \A j \in below : <<j, i>> \notin R
  <2> HIDE DEF below
  <2> QED
    BY <1>2, <1>3, WFMin
<1>5. PICK m \in S \cap (0 .. n) : i = 0 .. m
  BY <1>4
<1>6. ASSUME NEW y \in S, y < m
      PROVE  FALSE
  <2>1. y \in Nat /\ m \in Nat /\ n \in Nat /\ m <= n
    BY <1>5
  <2>2. 0 .. y \in below
    BY <1>6, <2>1
  <2>3. /\ 0 .. y \subseteq 0 .. m /\ 0 .. y # 0 .. m
        /\ 0 .. y \subseteq 0 .. n /\ 0 .. m \subseteq 0 .. n
    BY <1>6, <2>1
  <2> QED
    BY <1>4, <1>5, <2>2, <2>3 DEF R, StrictSubsetOrdering
<1>7. \A y \in S : m =< y
  BY <1>5, <1>6
<1> QED
  BY <1>7 DEF Min

-----------------------------------------------------------------------------
(* The inductive invariant.                                                *)

Device == [used : BOOLEAN, slot : Slots \cup {0}, rootport : Ports \cup {0},
           route : HubPorts \cup {0}, parent : DevSlots \cup {0},
           is_kbd : BOOLEAN, is_hub : BOOLEAN, need_recover : BOOLEAN,
           prev : SUBSET Usages, conn : SUBSET HubPorts]

PortState == [power : BOOLEAN, resetting : BOOLEAN, creset : BOOLEAN, enabled : BOOLEAN]

\* The kernel's places: in hub_scan; in enum_device, before and with an entry.
Scanning == {"hub_status", "hub_reset", "hub_poll", "hub_ack", "hub_drop"}
Settling == {"hub_reset", "hub_poll", "hub_ack"}
Entered  == {"enable", "address", "describe", "configure", "enum_drop",
             "hub_describe", "hub_config", "hub_power"}
OfPort   == {"scan", "unplug", "reset", "enum"} \cup Entered

WorldTypes ==
    /\ at \in [Devices -> {Nowhere} \cup ({Root} \X Ports) \cup (Hubs \X HubPorts)]
    /\ key \in [Kbds -> SUBSET Usages] /\ fresh \in [Kbds -> BOOLEAN]
    /\ addr \in [Devices -> Slots \cup {0}]
    /\ rooten \in [Ports -> BOOLEAN] /\ hport \in [Hubs -> [HubPorts -> PortState]]
    /\ on \subseteq Slots /\ ep \in [Slots -> {"none", "idle", "armed", "halted"}]
    /\ rpt \in [Slots -> [cc : {"none", "ok", "error"}, keys : SUBSET Usages]]
    /\ posted \subseteq Ports
    /\ budget \in [plugs : Nat, keys : Nat, faults : Nat]

KernelTypes ==
    /\ dev \in [DevSlots -> Device] /\ pscan \subseteq Ports
    /\ hubscan \in {"off", "armed", "due"}
    /\ pc \in {"idle", "events", "ports", "recover", "sweep"} \cup OfPort \cup Scanning
    /\ port \in Nat /\ cur \in Nat /\ hub \in DevSlots \cup {0} /\ hp \in Nat
    /\ pc \in OfPort => port \in Ports
    /\ ped \in BOOLEAN /\ booting \in BOOLEAN /\ sweep \in BOOLEAN
    /\ lost \subseteq Devices

TypeOK == WorldTypes /\ KernelTypes

\* Hubs are on root ports only, and no two devices are in one place.
WorldOK ==
    /\ \A h \in Hubs : at[h][1] \in {Root, None}
    /\ \A d, e \in Devices : at[d] = at[e] /\ at[d] # Nowhere => d = e

Free(p, q) == \A i \in DevSlots : dev[i].used => Place(i) # <<p, q>>

\* The hub that is scanned, for itself or around an enumeration.
ScannedHub == hub \in DevSlots /\ dev[hub].used /\ dev[hub].is_hub /\ dev[hub].rootport = port

PlaceOK ==
    /\ hub = 0 => hp = 0
    /\ hub # 0 => pc \in Scanning \cup OfPort /\ ScannedHub
    /\ pc \in Scanning => hub # 0
    /\ pc \in OfPort \cap {"scan", "unplug", "reset", "hub_describe", "hub_config", "hub_power"} =>
         hub = 0
    /\ hub # 0 /\ pc \in Settling \cup OfPort => hp \in HubPorts /\ hp \in dev[hub].conn
    /\ pc = "hub_drop" => hp \in HubPorts
    /\ pc \in Settling \cup {"reset", "enum"} => Free(port, hp)
    /\ pc \in Entered =>
         /\ cur \in DevSlots /\ dev[cur].used /\ Place(cur) = <<port, hp>>
         /\ dev[cur].parent = hub /\ ~dev[cur].is_hub

\* An entry of the table: on a root port, or the child of a hub.
EntryOK ==
    \A i \in DevSlots : dev[i].used =>
       /\ dev[i].rootport \in Ports
       /\ dev[i].parent = 0 <=> dev[i].route = 0
       /\ dev[i].is_hub => dev[i].parent = 0

\* A slot is on for one entry, from Enable Slot to Disable Slot.
SlotOK ==
    /\ \A i \in DevSlots : dev[i].used =>
         IF pc = "enable" /\ cur = i THEN dev[i].slot = 0 ELSE dev[i].slot \in on
    /\ \A i, j \in DevSlots :
         dev[i].used /\ dev[j].used /\ dev[i].slot = dev[j].slot => i = j

\* A device answers only as the entry of its place.
AddrOK ==
    \A d \in Devices : addr[d] # 0 =>
       \E i \in DevSlots : /\ dev[i].used /\ dev[i].slot = addr[d]
                           /\ d \in DevicesAt(dev[i].rootport, dev[i].route)

\* A port of a hub is reset or enabled only with power, and what answers
\* there has power.
PowerOK ==
    /\ \A h \in Hubs, q \in HubPorts :
         hport[h][q].enabled \/ hport[h][q].resetting => hport[h][q].power
    /\ \A d \in Devices : addr[d] # 0 /\ OnHub(d) => hport[at[d][1]][at[d][2]].power

\* What is being dropped does not answer.
GoneOK ==
    /\ pc = "unplug" => \A i \in on_port(port) : ~Answers(dev[i].slot)
    /\ pc = "hub_drop" => \A i \in on_hub_port(hub, hp) : ~Answers(dev[i].slot)

IInv ==
    /\ TypeOK /\ WorldOK /\ PlaceOK /\ EntryOK /\ SlotOK /\ AddrOK /\ PowerOK /\ GoneOK
    /\ ChildrenTracked /\ OneDevicePerPlace

-----------------------------------------------------------------------------
(* The world.                                                              *)

LEMMA Numbers ==
    /\ 0 \notin Slots /\ 0 \notin DevSlots /\ 0 \notin HubPorts /\ 0 \notin Ports
    /\ Slots \subseteq Nat /\ DevSlots \subseteq Nat /\ HubPorts \subseteq Nat /\ Ports \subseteq Nat
    /\ Root \notin Hubs /\ None \notin Hubs /\ Root # None
    /\ \A h \in Hubs : h \in Devices
  BY HubAssumption DEF HubAssumption, Devices

\* A device is nowhere, on a root port, or on a port of a hub.
LEMMA Whereabouts ==
    ASSUME TypeOK, NEW d \in Devices
    PROVE  \/ at[d] = Nowhere /\ ~OnHub(d)
           \/ \E p \in Ports : at[d] = <<Root, p>> /\ ~OnHub(d)
           \/ \E h \in Hubs, q \in HubPorts : at[d] = <<h, q>> /\ OnHub(d)
<1>1. \/ at[d] = Nowhere
      \/ \E p \in Ports : at[d] = <<Root, p>>
      \/ \E h \in Hubs, q \in HubPorts : at[d] = <<h, q>>
  BY DEF TypeOK, WorldTypes
<1> QED
  BY <1>1, Numbers DEF OnHub, Nowhere

\* Who is at a root port, and on a port of the hub there.
LEMMA AtPlace ==
    ASSUME TypeOK, NEW d \in Devices, NEW p, NEW q
    PROVE  d \in DevicesAt(p, q) <=>
             IF q = 0 THEN at[d] = <<Root, p>>
             ELSE \E h \in Hubs : at[h] = <<Root, p>> /\ at[d] = <<h, q>>
<1>1. d \in DevicesAt(p, 0) <=> at[d] = <<Root, p>>
  BY DEF DevicesAt, At
<1>2. ASSUME q # 0
      PROVE  d \in DevicesAt(p, q) <=> \E h \in Hubs : at[h] = <<Root, p>> /\ at[d] = <<h, q>>
  <2>1. DevicesAt(p, q) = UNION {At(h, q) : h \in At(Root, p) \cap Hubs}
    BY <1>2 DEF DevicesAt
  <2>2. \A h : d \in At(h, q) <=> at[d] = <<h, q>>
    BY DEF At
  <2>3. \A h : h \in At(Root, p) \cap Hubs <=> h \in Hubs /\ at[h] = <<Root, p>>
    BY Numbers DEF At
  <2> QED
    BY <2>1, <2>2, <2>3
<1> QED
  BY <1>1, <1>2

\* A device that answers is at the place of its entry.
LEMMA AnswersAt ==
    ASSUME IInv, NEW d \in Devices, NEW i \in DevSlots, dev[i].used,
           addr[d] = dev[i].slot, addr[d] # 0
    PROVE  d \in DevicesAt(dev[i].rootport, dev[i].route)
<1>1. PICK j \in DevSlots : /\ dev[j].used /\ dev[j].slot = addr[d]
                            /\ d \in DevicesAt(dev[j].rootport, dev[j].route)
  BY DEF IInv, AddrOK
<1>2. j = i
  BY <1>1 DEF IInv, SlotOK
<1> QED
  BY <1>1, <1>2

\* A hub port whose device left, whose reset ended, began, was acknowledged.
Cut(st)   == [st EXCEPT !.enabled = FALSE, !.resetting = FALSE]
Up(st)    == [st EXCEPT !.resetting = FALSE, !.creset = TRUE, !.enabled = TRUE]
Begun(st) == [st EXCEPT !.resetting = TRUE, !.enabled = FALSE]
Acked(st) == [st EXCEPT !.creset = FALSE]

LEMMA PortStates ==
    ASSUME NEW st \in PortState
    PROVE  /\ Cut(st) \in PortState /\ Cut(st).power = st.power
           /\ ~Cut(st).enabled /\ ~Cut(st).resetting
           /\ Up(st) \in PortState /\ Up(st).power = st.power
           /\ Begun(st) \in PortState /\ Begun(st).power = st.power
           /\ Acked(st) \in PortState /\ Acked(st).power = st.power
           /\ Acked(st).enabled = st.enabled /\ Acked(st).resetting = st.resetting
  BY DEF PortState, Cut, Up, Begun, Acked

\* A step that changes the state of one hub port.
Sets(h, q, st) == hport' = [hport EXCEPT ![h][q] = st]

LEMMA PortBits ==
    ASSUME TypeOK, NEW h \in Hubs, NEW q \in HubPorts, NEW st \in PortState, Sets(h, q, st)
    PROVE  /\ hport' \in [Hubs -> [HubPorts -> PortState]]
           /\ hport'[h][q] = st /\ hport[h][q] \in PortState
           /\ \A g \in Hubs, r \in HubPorts : <<g, r>> # <<h, q>> => hport'[g][r] = hport[g][r]
<1>1. hport[h] \in [HubPorts -> PortState] /\ hport \in [Hubs -> [HubPorts -> PortState]]
  BY DEF TypeOK, WorldTypes
<1> DEFINE f == [hport[h] EXCEPT ![q] = st]
<1>2. f \in [HubPorts -> PortState] /\ f[q] = st /\ \A r \in HubPorts : r # q => f[r] = hport[h][r]
  BY <1>1
<1>3. hport' = [hport EXCEPT ![h] = f]
  BY DEF Sets
<1> HIDE DEF f
<1>4. hport' \in [Hubs -> [HubPorts -> PortState]] /\ hport'[h] = f
      /\ \A g \in Hubs : g # h => hport'[g] = hport[g]
  BY <1>1, <1>2, <1>3
<1> QED
  BY <1>1, <1>2, <1>4

LEMMA PortTyped ==
    ASSUME TypeOK, NEW h \in Hubs, NEW q \in HubPorts
    PROVE  hport[h][q] \in PortState
  BY DEF TypeOK, WorldTypes

-----------------------------------------------------------------------------
(* The types.                                                              *)

LEMMA SpendTypes ==
    ASSUME TypeOK, NEW what \in {"plugs", "keys", "faults"}, Spend(what)
    PROVE  budget' \in [plugs : Nat, keys : Nat, faults : Nat]
<1>1. budget[what] \in Nat
  BY DEF TypeOK, WorldTypes
<1>2. budget[what] > 0 /\ budget' = [budget EXCEPT ![what] = @ - 1]
  BY DEF Spend
<1>3. budget[what] - 1 \in Nat
  BY <1>1, <1>2
<1> QED
  BY <1>2, <1>3 DEF TypeOK, WorldTypes

\* Plug, unplug, a hub's reset: the kernel's types are its own.
LEMMA SurroundTypes == TypeOK /\ Surroundings => TypeOK'
<1> SUFFICES ASSUME TypeOK, Surroundings
             PROVE  TypeOK'
  OBVIOUS
<1>1. \A d \in Devices : d \in Hubs \/ d \in Kbds
  BY DEF Devices
<1>2. ASSUME NEW d \in Devices, NEW x, NEW p, Plug(d, x, p),
             <<x, p>> \in ({Root} \X Ports) \cup (Hubs \X HubPorts)
      PROVE  TypeOK'
  <2>1. at' \in [Devices -> {Nowhere} \cup ({Root} \X Ports) \cup (Hubs \X HubPorts)]
    BY <1>2 DEF Plug, TypeOK, WorldTypes
  <2>2. budget' \in [plugs : Nat, keys : Nat, faults : Nat]
    BY <1>2, SpendTypes DEF Plug
  <2>3. fresh' \in [Kbds -> BOOLEAN] /\ posted' \subseteq Ports /\ lost' \subseteq Devices
    <3>1. x = Root => p \in Ports
      BY <1>2, Numbers
    <3> QED
      BY <1>2, <3>1 DEF Plug, TypeOK, WorldTypes, KernelTypes
  <2> QED
    BY <1>2, <2>1, <2>2, <2>3 DEF Plug, TypeOK, WorldTypes, KernelTypes, kernel, tables, place
<1>3. ASSUME NEW d \in Devices, Unplug(d)
      PROVE  TypeOK'
  <2>1. at' \in [Devices -> {Nowhere} \cup ({Root} \X Ports) \cup (Hubs \X HubPorts)]
        /\ addr' \in [Devices -> Slots \cup {0}]
    BY <1>3 DEF Unplug, TypeOK, WorldTypes
  <2>2. budget' \in [plugs : Nat, keys : Nat, faults : Nat]
    BY <1>3, SpendTypes DEF Unplug
  <2>3. hport' \in [Hubs -> [HubPorts -> PortState]] /\ rooten' \in [Ports -> BOOLEAN]
        /\ posted' \subseteq Ports
    <3>1. CASE OnHub(d)
      <4>1. PICK h \in Hubs, q \in HubPorts : at[d] = <<h, q>>
        BY <3>1, Whereabouts
      <4>2. /\ at[d][1] = h /\ at[d][2] = q
            /\ hport' = [hport EXCEPT ![at[d][1]][at[d][2]] =
                           [@ EXCEPT !.enabled = FALSE, !.resetting = FALSE]]
            /\ UNCHANGED <<rooten, posted>>
        BY <1>3, <3>1, <4>1 DEF Unplug
      <4>3. Sets(h, q, Cut(hport[h][q])) /\ UNCHANGED <<rooten, posted>>
        BY <4>2 DEF Sets, Cut
      <4>4. hport' \in [Hubs -> [HubPorts -> PortState]]
        BY <4>3, PortBits, PortStates, PortTyped
      <4> QED
        BY <4>3, <4>4 DEF TypeOK, WorldTypes
    <3>2. CASE ~OnHub(d)
      <4>1. PICK p \in Ports : at[d] = <<Root, p>>
        BY <1>3, <3>2, Whereabouts DEF Unplug
      <4>2. /\ hport' = [h \in Hubs |-> IF h = d THEN [q \in HubPorts |-> PortOff] ELSE hport[h]]
            /\ rooten' = [rooten EXCEPT ![p] = FALSE] /\ posted' = posted \cup {p}
        BY <1>3, <3>2, <4>1 DEF Unplug
      <4>3. [q \in HubPorts |-> PortOff] \in [HubPorts -> PortState]
        BY DEF PortOff, PortState
      <4> QED
        BY <4>2, <4>3 DEF TypeOK, WorldTypes
    <3> QED
      BY <3>1, <3>2
  <2> QED
    BY <1>3, <2>1, <2>2, <2>3 DEF Unplug, TypeOK, WorldTypes, KernelTypes, kernel, tables, place
<1>4. ASSUME NEW k \in Kbds, NEW u \in Usages, Type(k, u)
      PROVE  TypeOK'
  <2>1. budget' \in [plugs : Nat, keys : Nat, faults : Nat]
    BY <1>4, SpendTypes DEF Type
  <2>2. key' \in [Kbds -> SUBSET Usages] /\ fresh' \in [Kbds -> BOOLEAN]
    BY <1>4 DEF Type, TypeOK, WorldTypes
  <2> QED
    BY <1>4, <2>1, <2>2 DEF Type, TypeOK, WorldTypes, KernelTypes, kernel, tables, place
<1>5. ASSUME NEW h \in Hubs, NEW q \in HubPorts, HubResets(h, q)
      PROVE  TypeOK'
  <2>1. hport' \in [Hubs -> [HubPorts -> PortState]]
    <3>1. Sets(h, q, Up(hport[h][q]))
      BY <1>5 DEF HubResets, Sets, Up
    <3> QED
      BY <3>1, PortBits, PortStates, PortTyped
  <2>2. addr' \in [Devices -> Slots \cup {0}]
    BY <1>5 DEF HubResets, TypeOK, WorldTypes
  <2> QED
    BY <1>5, <2>1, <2>2 DEF HubResets, TypeOK, WorldTypes, KernelTypes, kernel, tables, place
<1>6. ASSUME NEW s \in Slots, HcReport(s) \/ HcPipeError(s)
      PROVE  TypeOK'
  <2>1. rpt' \in [Slots -> [cc : {"none", "ok", "error"}, keys : SUBSET Usages]]
    BY <1>6 DEF HcReport, HcPipeError, TypeOK, WorldTypes
  <2>2. fresh' \in [Kbds -> BOOLEAN] /\ ep' \in [Slots -> {"none", "idle", "armed", "halted"}]
    BY <1>6 DEF HcReport, HcPipeError, TypeOK, WorldTypes
  <2>3. budget' \in [plugs : Nat, keys : Nat, faults : Nat]
    BY <1>6, SpendTypes DEF HcReport, HcPipeError, TypeOK, WorldTypes
  <2> QED
    BY <1>6, <2>1, <2>2, <2>3 DEF HcReport, HcPipeError, TypeOK, WorldTypes, KernelTypes,
       kernel, tables, place
<1> QED
  <2>1. ASSUME NEW k \in Kbds, NEW x \in {Root} \cup Hubs, NEW p \in Ports \cup HubPorts,
               p \in IF x = Root THEN Ports ELSE HubPorts
        PROVE  k \in Devices /\ <<x, p>> \in ({Root} \X Ports) \cup (Hubs \X HubPorts)
    BY <2>1 DEF Devices
  <2>2. ASSUME NEW h \in Hubs, NEW p \in Ports
        PROVE  h \in Devices /\ <<Root, p>> \in ({Root} \X Ports) \cup (Hubs \X HubPorts)
    BY <2>2 DEF Devices
  <2> QED
    BY <1>2, <1>3, <1>4, <1>5, <1>6, <2>1, <2>2 DEF Surroundings

-----------------------------------------------------------------------------
(* The surroundings preserve the invariant: addresses are only lost.       *)

LEMMA NowhereSilent ==
    ASSUME IInv, NEW d \in Devices, at[d] = Nowhere
    PROVE  addr[d] = 0
<1> SUFFICES ASSUME addr[d] # 0
             PROVE  FALSE
  OBVIOUS
<1>1. PICK i \in DevSlots : d \in DevicesAt(dev[i].rootport, dev[i].route)
  BY DEF IInv, AddrOK
<1>2. \/ \E p : at[d] = <<Root, p>>
      \/ \E h \in Hubs : \E q : at[d] = <<h, q>>
  BY <1>1, AtPlace DEF IInv
<1> QED
  BY <1>2, Numbers DEF Nowhere

\* The table, the kernel's place and the slots that are on.
Shape(i) == [used |-> dev[i].used, slot |-> dev[i].slot, rootport |-> dev[i].rootport,
             route |-> dev[i].route, parent |-> dev[i].parent,
             is_hub |-> dev[i].is_hub, conn |-> dev[i].conn]

SameTable == \A i \in DevSlots : Shape(i)' = Shape(i)

LEMMA ShapeFields ==
    ASSUME SameTable, NEW i \in DevSlots
    PROVE  /\ dev'[i].used = dev[i].used /\ dev'[i].slot = dev[i].slot
           /\ dev'[i].rootport = dev[i].rootport /\ dev'[i].route = dev[i].route
           /\ dev'[i].parent = dev[i].parent /\ dev'[i].is_hub = dev[i].is_hub
           /\ dev'[i].conn = dev[i].conn /\ Place(i)' = Place(i)
  BY DEF SameTable, Shape, Place

Lowered == \A d \in Devices : addr'[d] = addr[d] \/ addr'[d] = 0

\* Who did not answer still does not.
LEMMA StillGone ==
    ASSUME Lowered, NEW s, s # 0, ~Answers(s)
    PROVE  ~Answers(s)'
  BY DEF Lowered, Answers

\* What a step leaves alone that changes neither the table nor the kernel's place.
LEMMA InPlaceInv ==
    ASSUME IInv, TypeOK', SameTable, Lowered, UNCHANGED <<on, pc, port, cur, hub, hp>>
    PROVE  /\ PlaceOK' /\ EntryOK' /\ SlotOK' /\ GoneOK'
           /\ ChildrenTracked' /\ OneDevicePerPlace'
<1>1. \A i \in DevSlots :
           /\ dev'[i].used = dev[i].used /\ dev'[i].slot = dev[i].slot
           /\ dev'[i].rootport = dev[i].rootport /\ dev'[i].route = dev[i].route
           /\ dev'[i].parent = dev[i].parent /\ dev'[i].is_hub = dev[i].is_hub
           /\ dev'[i].conn = dev[i].conn /\ Place(i)' = Place(i)
  BY ShapeFields
<1>2. PlaceOK'
  <2>1. ScannedHub' <=> ScannedHub
    BY <1>1 DEF ScannedHub
  <2>2. Free(port, hp)' <=> Free(port, hp)
    BY <1>1 DEF Free
  <2>3. hub # 0 => hub \in DevSlots
    BY DEF IInv, PlaceOK, ScannedHub
  <2> QED
    BY <1>1, <2>1, <2>2, <2>3 DEF IInv, PlaceOK
<1>3. EntryOK'
  BY <1>1 DEF IInv, EntryOK
<1>4. SlotOK'
  BY <1>1 DEF IInv, SlotOK
<1>5. OneDevicePerPlace'
  BY <1>1 DEF IInv, OneDevicePerPlace
<1>6. ChildrenTracked'
  <2>1. \A i \in DevSlots : dev[i].parent # 0 => dev[i].parent \in DevSlots
    BY DEF IInv, TypeOK, KernelTypes, Device
  <2> QED
    BY <1>1, <2>1 DEF IInv, ChildrenTracked
<1>7. GoneOK'
  <2>1. \A i \in DevSlots : dev[i].used /\ pc \in {"unplug", "hub_drop"} => dev[i].slot # 0
    BY Numbers DEF IInv, SlotOK, TypeOK, WorldTypes
  <2>2. ASSUME NEW i \in DevSlots, dev[i].used, pc \in {"unplug", "hub_drop"},
               ~Answers(dev[i].slot)
        PROVE  ~Answers(dev[i].slot)'
    <3>1. PICK s \in Slots \cup {0} : s = dev[i].slot
      BY DEF IInv, TypeOK, KernelTypes, Device
    <3>2. ~Answers(s)'
      BY <2>1, <2>2, <3>1, StillGone
    <3> QED
      BY <1>1, <3>1, <3>2
  <2>3. on_port(port)' = on_port(port) /\ on_hub_port(hub, hp)' = on_hub_port(hub, hp)
    BY <1>1 DEF on_port, on_hub_port
  <2>4. \A i \in on_port(port) \cup on_hub_port(hub, hp) : i \in DevSlots /\ dev[i].used
    BY DEF on_port, on_hub_port
  <2> QED
    BY <2>2, <2>3, <2>4 DEF IInv, GoneOK
<1> QED
  BY <1>2, <1>3, <1>4, <1>5, <1>6, <1>7

\* Addresses and hub ports, when nothing moves.
LEMMA StayingInv ==
    ASSUME IInv, TypeOK', SameTable, Lowered, UNCHANGED at,
           \A h \in Hubs, q \in HubPorts : hport[h][q].power => hport'[h][q].power,
           \A h \in Hubs, q \in HubPorts :
              hport'[h][q].enabled \/ hport'[h][q].resetting => hport'[h][q].power
    PROVE  WorldOK' /\ AddrOK' /\ PowerOK'
<1>1. WorldOK'
  BY DEF IInv, WorldOK
<1>2. AddrOK'
  <2>1. \A r, q : DevicesAt(r, q)' = DevicesAt(r, q)
    BY DEF DevicesAt, At
  <2>2. ASSUME NEW d \in Devices, addr'[d] # 0
        PROVE  \E i \in DevSlots : /\ dev'[i].used /\ dev'[i].slot = addr'[d]
                                   /\ d \in DevicesAt(dev[i].rootport, dev[i].route)'
    <3>1. addr'[d] = addr[d]
      BY <2>2 DEF Lowered
    <3>2. PICK i \in DevSlots : /\ dev[i].used /\ dev[i].slot = addr[d]
                               /\ d \in DevicesAt(dev[i].rootport, dev[i].route)
      BY <2>2, <3>1 DEF IInv, AddrOK
    <3> QED
      BY <2>1, <3>1, <3>2, ShapeFields
  <2> QED
    BY <2>2 DEF AddrOK
<1>3. PowerOK'
  <2>1. ASSUME NEW d \in Devices, addr'[d] # 0, OnHub(d)'
        PROVE  hport'[at[d][1]][at[d][2]].power
    <3>1. addr[d] # 0 /\ OnHub(d)
      BY <2>1 DEF Lowered, OnHub
    <3>2. PICK h \in Hubs, q \in HubPorts : at[d] = <<h, q>>
      BY <3>1, Whereabouts DEF IInv
    <3>3. hport[h][q].power
      BY <3>1, <3>2 DEF IInv, PowerOK
    <3> QED
      BY <3>2, <3>3
  <2> QED
    BY <2>1 DEF PowerOK
<1> QED
  BY <1>1, <1>2, <1>3

LEMMA SurroundInv == IInv /\ Surroundings => IInv'
<1> SUFFICES ASSUME IInv, Surroundings
             PROVE  IInv'
  OBVIOUS
<1>1. TypeOK /\ TypeOK'
  BY SurroundTypes DEF IInv
<1>2. UNCHANGED <<dev, on, pc, port, cur, hub, hp>>
  <2>1. ASSUME NEW d, NEW x, NEW p, Plug(d, x, p)
        PROVE  UNCHANGED <<on, kernel>>
    BY <2>1 DEF Plug
  <2>2. ASSUME NEW d, Unplug(d)
        PROVE  UNCHANGED <<on, kernel>>
    BY <2>2 DEF Unplug
  <2>3. ASSUME NEW k, NEW u, Type(k, u)
        PROVE  UNCHANGED <<on, kernel>>
    BY <2>3 DEF Type
  <2>4. ASSUME NEW h, NEW q, HubResets(h, q)
        PROVE  UNCHANGED <<on, kernel>>
    BY <2>4 DEF HubResets
  <2>5. ASSUME NEW s, HcReport(s) \/ HcPipeError(s)
        PROVE  UNCHANGED <<on, kernel>>
    BY <2>5 DEF HcReport, HcPipeError
  <2>6. UNCHANGED <<on, kernel>>
    BY <2>1, <2>2, <2>3, <2>4, <2>5 DEF Surroundings
  <2> QED
    BY <2>6 DEF kernel, tables, place
<1>3. SameTable
  BY <1>2 DEF SameTable, Shape
<1>4. \A h \in Hubs, q \in HubPorts : hport[h][q] \in PortState
  BY <1>1, PortTyped
<1>5. ASSUME NEW d \in Devices, NEW x, NEW p, Plug(d, x, p), d \in Hubs => x = Root,
             <<x, p>> \in ({Root} \X Ports) \cup (Hubs \X HubPorts)
      PROVE  Lowered /\ WorldOK' /\ AddrOK' /\ PowerOK'
  <2>1. /\ at[d] = Nowhere /\ At(x, p) = {} /\ UNCHANGED <<addr, hport>>
        /\ at' = [at EXCEPT ![d] = <<x, p>>]
    BY <1>5 DEF Plug
  <2>2. addr[d] = 0
    BY <2>1, NowhereSilent
  <2>3. \A e \in Devices : e # d => at'[e] = at[e]
    BY <1>1, <2>1 DEF TypeOK, WorldTypes
  <2>4. at'[d] = <<x, p>> /\ \A e \in Devices : at[e] # <<x, p>>
    BY <1>1, <2>1 DEF TypeOK, WorldTypes, At
  <2>5. WorldOK'
    <3>1. \A h \in Hubs : at'[h][1] \in {Root, None}
      BY <1>5, <2>3, <2>4, Numbers DEF IInv, WorldOK
    <3> QED
      BY <2>3, <2>4, <3>1 DEF IInv, WorldOK
  <2>6. ASSUME NEW e \in Devices, e # d, NEW r, NEW q, e \in DevicesAt(r, q)
        PROVE  e \in DevicesAt(r, q)'
    <3>1. CASE q = 0
      BY <2>3, <2>6, <3>1 DEF DevicesAt, At
    <3>2. CASE q # 0
      <4>1. PICK h \in Hubs : at[h] = <<Root, r>> /\ at[e] = <<h, q>>
        BY <1>1, <2>6, <3>2, AtPlace
      <4>2. h # d /\ h \in Devices
        BY <2>1, <4>1, Numbers DEF Nowhere
      <4>3. at'[h] = <<Root, r>> /\ at'[e] = <<h, q>>
        BY <2>3, <2>6, <4>1, <4>2
      <4> QED
        BY <3>2, <4>2, <4>3 DEF DevicesAt, At
    <3> QED
      BY <3>1, <3>2
  <2>7. AddrOK'
    BY <1>2, <2>1, <2>2, <2>6 DEF IInv, AddrOK
  <2>8. PowerOK'
    BY <2>1, <2>2, <2>3 DEF IInv, PowerOK, OnHub
  <2> QED
    BY <2>1, <2>5, <2>7, <2>8 DEF Lowered
<1>6. ASSUME NEW d \in Devices, Unplug(d)
      PROVE  Lowered /\ WorldOK' /\ AddrOK' /\ PowerOK'
  <2>1. /\ at[d] # Nowhere /\ at' = [at EXCEPT ![d] = Nowhere]
        /\ addr' = [e \in Devices |-> IF e = d \/ e \in Below(d) THEN 0 ELSE addr[e]]
    BY <1>6 DEF Unplug
  <2>2. at'[d] = Nowhere /\ \A e \in Devices : e # d => at'[e] = at[e]
    BY <1>1, <2>1 DEF TypeOK, WorldTypes
  <2>3. \A e \in Devices : addr'[e] # 0 => addr'[e] = addr[e] /\ e # d /\ at[e][1] # d
    BY <2>1 DEF Below
  <2>4. WorldOK'
    <3>1. Nowhere[1] = None
      BY DEF Nowhere
    <3>2. \A h \in Hubs : at'[h][1] \in {Root, None}
      BY <2>2, <3>1, Numbers DEF IInv, WorldOK
    <3> QED
      BY <2>2, <3>2 DEF IInv, WorldOK
  <2>5. ASSUME NEW e \in Devices, addr'[e] # 0, NEW r, NEW q, e \in DevicesAt(r, q)
        PROVE  e \in DevicesAt(r, q)'
    <3>1. CASE q = 0
      BY <2>2, <2>3, <2>5, <3>1 DEF DevicesAt, At
    <3>2. CASE q # 0
      <4>1. PICK h \in Hubs : at[h] = <<Root, r>> /\ at[e] = <<h, q>>
        BY <1>1, <2>5, <3>2, AtPlace
      <4>2. h # d /\ h \in Devices
        BY <2>3, <2>5, <4>1, Numbers
      <4>3. at'[h] = <<Root, r>> /\ at'[e] = <<h, q>>
        BY <2>2, <2>3, <2>5, <4>1, <4>2
      <4> QED
        BY <3>2, <4>2, <4>3 DEF DevicesAt, At
    <3> QED
      BY <3>1, <3>2
  <2>6. AddrOK'
    BY <1>2, <2>3, <2>5 DEF IInv, AddrOK
  <2>7. /\ \A h \in Hubs, q \in HubPorts :
             /\ h # d => (hport'[h][q].power <=> hport[h][q].power)
             /\ hport'[h][q].enabled \/ hport'[h][q].resetting => hport'[h][q].power
    <3>1. CASE OnHub(d)
      <4>1. PICK h \in Hubs, q \in HubPorts : at[d] = <<h, q>>
        BY <1>1, <3>1, Whereabouts
      <4>2. /\ at[d][1] = h /\ at[d][2] = q
            /\ hport' = [hport EXCEPT ![at[d][1]][at[d][2]] =
                           [@ EXCEPT !.enabled = FALSE, !.resetting = FALSE]]
        BY <1>6, <3>1, <4>1 DEF Unplug
      <4>3. Sets(h, q, Cut(hport[h][q]))
        BY <4>2 DEF Sets, Cut
      <4>4. /\ hport'[h][q] = Cut(hport[h][q])
            /\ \A g \in Hubs, r \in HubPorts : <<g, r>> # <<h, q>> => hport'[g][r] = hport[g][r]
        BY <1>1, <1>4, <4>3, PortBits, PortStates
      <4>5. /\ Cut(hport[h][q]).power = hport[h][q].power
            /\ ~Cut(hport[h][q]).enabled /\ ~Cut(hport[h][q]).resetting
        BY <1>4, PortStates
      <4> QED
        BY <4>4, <4>5 DEF IInv, PowerOK
    <3>2. CASE ~OnHub(d)
      <4>1. hport' = [h \in Hubs |-> IF h = d THEN [q \in HubPorts |-> PortOff] ELSE hport[h]]
        BY <1>6, <3>2 DEF Unplug
      <4>2. ~PortOff.enabled /\ ~PortOff.resetting
        BY DEF PortOff
      <4> QED
        BY <4>1, <4>2 DEF IInv, PowerOK
    <3> QED
      BY <3>1, <3>2
  <2>8. PowerOK'
    <3>1. ASSUME NEW e \in Devices, addr'[e] # 0, OnHub(e)'
          PROVE  hport'[at'[e][1]][at'[e][2]].power
      <4>1. addr[e] # 0 /\ at'[e] = at[e] /\ OnHub(e) /\ at[e][1] # d
        BY <2>2, <2>3, <3>1 DEF OnHub
      <4>2. PICK h \in Hubs, q \in HubPorts : at[e] = <<h, q>>
        BY <1>1, <4>1, Whereabouts
      <4>3. hport[h][q].power
        BY <4>1, <4>2 DEF IInv, PowerOK
      <4> QED
        BY <2>7, <4>1, <4>2, <4>3
    <3> QED
      BY <2>7, <3>1 DEF PowerOK
  <2> QED
    BY <2>1, <2>4, <2>6, <2>8 DEF Lowered
<1>7. ASSUME NEW h \in Hubs, NEW q \in HubPorts, HubResets(h, q)
      PROVE  Lowered /\ WorldOK' /\ AddrOK' /\ PowerOK'
  <2>1. Lowered /\ at' = at /\ hport[h][q].resetting
    BY <1>7 DEF HubResets, Lowered
  <2>2. Sets(h, q, Up(hport[h][q]))
    BY <1>7 DEF HubResets, Sets, Up
  <2>3. /\ hport'[h][q] = Up(hport[h][q])
        /\ \A g \in Hubs, r \in HubPorts : <<g, r>> # <<h, q>> => hport'[g][r] = hport[g][r]
    BY <1>1, <1>4, <2>2, PortBits, PortStates
  <2>4. hport[h][q].power /\ Up(hport[h][q]).power = hport[h][q].power
    BY <1>4, <2>1, PortStates DEF IInv, PowerOK
  <2>5. ASSUME NEW g \in Hubs, NEW r \in HubPorts
        PROVE  /\ hport[g][r].power => hport'[g][r].power
               /\ hport'[g][r].enabled \/ hport'[g][r].resetting => hport'[g][r].power
    <3>1. CASE <<g, r>> = <<h, q>>
      BY <2>3, <2>4, <3>1
    <3>2. CASE <<g, r>> # <<h, q>>
      BY <2>3, <3>2 DEF IInv, PowerOK
    <3> QED
      BY <3>1, <3>2
  <2> QED
    BY <1>1, <1>3, <2>1, <2>5, StayingInv
<1>8. ASSUME UNCHANGED <<at, addr, hport>>
      PROVE  Lowered /\ WorldOK' /\ AddrOK' /\ PowerOK'
  BY <1>1, <1>3, <1>8, StayingInv DEF Lowered, IInv, PowerOK
<1>9. Lowered /\ WorldOK' /\ AddrOK' /\ PowerOK'
  <2>1. ASSUME NEW k \in Kbds, NEW x \in {Root} \cup Hubs, NEW p \in Ports \cup HubPorts,
               p \in IF x = Root THEN Ports ELSE HubPorts
        PROVE  /\ k \in Devices /\ k \notin Hubs
               /\ <<x, p>> \in ({Root} \X Ports) \cup (Hubs \X HubPorts)
    BY <2>1, HubAssumption DEF Devices, HubAssumption
  <2>2. ASSUME NEW h \in Hubs, NEW p \in Ports
        PROVE  h \in Devices /\ <<Root, p>> \in ({Root} \X Ports) \cup (Hubs \X HubPorts)
    BY <2>2 DEF Devices
  <2>3. CASE \/ \E k \in Kbds, u \in Usages : Type(k, u)
             \/ \E s \in Slots : HcReport(s) \/ HcPipeError(s)
    BY <1>8, <2>3 DEF Type, HcReport, HcPipeError
  <2> QED
    BY <1>5, <1>6, <1>7, <2>1, <2>2, <2>3 DEF Surroundings
<1> QED
  BY <1>1, <1>2, <1>3, <1>9, InPlaceInv DEF IInv

-----------------------------------------------------------------------------
(* What the steps of the kernel have in common.                            *)

\* Ports keep their power, and only a port with power is reset or enabled.
Voltage ==
    \A h \in Hubs : \A q \in HubPorts :
       /\ hport[h][q].power => hport'[h][q].power
       /\ hport'[h][q].enabled \/ hport'[h][q].resetting => hport'[h][q].power

LEMMA SameVoltage == IInv /\ UNCHANGED hport => Voltage
  BY DEF IInv, PowerOK, Voltage

LEMMA SetsVoltage ==
    ASSUME IInv, NEW h \in Hubs, NEW q \in HubPorts, NEW st \in PortState, Sets(h, q, st),
           st.power = hport[h][q].power, st.enabled \/ st.resetting => st.power
    PROVE  Voltage
<1>1. /\ hport'[h][q] = st
      /\ \A g \in Hubs, r \in HubPorts : <<g, r>> # <<h, q>> => hport'[g][r] = hport[g][r]
  BY PortBits DEF IInv
<1> SUFFICES ASSUME NEW g \in Hubs, NEW r \in HubPorts
             PROVE  /\ hport[g][r].power => hport'[g][r].power
                    /\ hport'[g][r].enabled \/ hport'[g][r].resetting => hport'[g][r].power
  BY DEF Voltage
<1>2. CASE <<g, r>> = <<h, q>>
  BY <1>1, <1>2
<1>3. CASE <<g, r>> # <<h, q>>
  BY <1>1, <1>3 DEF IInv, PowerOK
<1> QED
  BY <1>2, <1>3

LEMMA WorldStays ==
    ASSUME IInv, Lowered, UNCHANGED at, Voltage
    PROVE  WorldOK' /\ PowerOK'
<1>1. WorldOK'
  BY DEF IInv, WorldOK
<1>2. ASSUME NEW d \in Devices, addr'[d] # 0, OnHub(d)'
      PROVE  hport'[at[d][1]][at[d][2]].power
  <2>1. addr[d] # 0 /\ OnHub(d)
    BY <1>2 DEF Lowered, OnHub
  <2>2. PICK h \in Hubs, q \in HubPorts : at[d] = <<h, q>>
    BY <2>1, Whereabouts DEF IInv
  <2>3. hport[h][q].power
    BY <2>1, <2>2 DEF IInv, PowerOK
  <2> QED
    BY <2>2, <2>3 DEF Voltage
<1> QED
  BY <1>1, <1>2 DEF PowerOK, Voltage

\* No drop under way: every child has its hub, and its hub's record.
ChildrenFull ==
    \A i \in DevSlots : dev[i].used /\ dev[i].parent # 0 =>
       /\ dev[i].parent \in DevSlots
       /\ dev[dev[i].parent].used /\ dev[dev[i].parent].is_hub
       /\ dev[dev[i].parent].rootport = dev[i].rootport
       /\ dev[i].route \in dev[dev[i].parent].conn

LEMMA Full == IInv /\ pc \notin {"unplug", "hub_drop"} => ChildrenFull
<1>1. IInv => \A i \in DevSlots : dev[i].parent \in DevSlots \cup {0}
  BY DEF IInv, TypeOK, KernelTypes, Device
<1> QED
  BY <1>1 DEF IInv, ChildrenTracked, ChildrenFull

\* Everything of an entry but its slot and what a keyboard has.
SameFrame == \A i \in DevSlots :
    /\ dev'[i].used = dev[i].used /\ dev'[i].rootport = dev[i].rootport
    /\ dev'[i].route = dev[i].route /\ dev'[i].parent = dev[i].parent
    /\ dev'[i].is_hub = dev[i].is_hub /\ dev'[i].conn = dev[i].conn

LEMMA TableFrame == SameTable => SameFrame
  BY ShapeFields DEF SameFrame

LEMMA FrameKept ==
    ASSUME IInv, SameFrame, ChildrenFull
    PROVE  EntryOK' /\ OneDevicePerPlace' /\ ChildrenTracked'
<1>1. EntryOK'
  BY DEF IInv, EntryOK, SameFrame
<1>2. OneDevicePerPlace'
  BY DEF IInv, OneDevicePerPlace, SameFrame, Place
<1>3. ChildrenTracked'
  BY DEF ChildrenFull, ChildrenTracked, SameFrame
<1> QED
  BY <1>1, <1>2, <1>3

\* A step that keeps the table and moves the kernel, but not into a drop.
LEMMA KeepInv ==
    ASSUME IInv, TypeOK', SameTable, Lowered, Voltage, ChildrenFull, UNCHANGED <<at, on>>,
           pc # "enable", pc' # "enable", PlaceOK', GoneOK'
    PROVE  IInv'
<1>1. EntryOK' /\ OneDevicePerPlace' /\ ChildrenTracked'
  BY TableFrame, FrameKept
<1>2. SlotOK'
  BY ShapeFields DEF IInv, SlotOK
<1>3. WorldOK' /\ AddrOK' /\ PowerOK'
  BY StayingInv DEF Voltage
<1> QED
  BY <1>1, <1>2, <1>3 DEF IInv

\* An entry that is freed: nobody answers to its slot any more.
LEMMA DropKept ==
    ASSUME IInv, NEW i \in DevSlots, dev[i].used, dev' = [dev EXCEPT ![i] = NoDev],
           UNCHANGED at, Voltage, Lowered, on' = on \ {dev[i].slot},
           \A d \in Devices : addr'[d] # 0 => addr'[d] # dev[i].slot,
           pc' # "enable", pc = "enable" => cur = i
    PROVE  WorldOK' /\ EntryOK' /\ SlotOK' /\ AddrOK' /\ PowerOK' /\ OneDevicePerPlace'
<1>1. /\ ~dev'[i].used
      /\ \A j \in DevSlots : j # i => dev'[j] = dev[j]
  BY DEF IInv, TypeOK, KernelTypes, NoDev
<1>2. WorldOK' /\ PowerOK'
  BY WorldStays
<1>3. EntryOK'
  BY <1>1 DEF IInv, EntryOK
<1>4. OneDevicePerPlace'
  BY <1>1 DEF IInv, OneDevicePerPlace, Place
<1>5. SlotOK'
  BY <1>1 DEF IInv, SlotOK
<1>6. AddrOK'
  <2>1. \A r, q : DevicesAt(r, q)' = DevicesAt(r, q)
    BY DEF DevicesAt, At
  <2>2. ASSUME NEW d \in Devices, addr'[d] # 0
        PROVE  \E j \in DevSlots : /\ dev'[j].used /\ dev'[j].slot = addr'[d]
                                   /\ d \in DevicesAt(dev[j].rootport, dev[j].route)'
    <3>1. addr'[d] = addr[d] /\ addr[d] # dev[i].slot
      BY <2>2 DEF Lowered
    <3>2. PICK j \in DevSlots : /\ dev[j].used /\ dev[j].slot = addr[d]
                                /\ d \in DevicesAt(dev[j].rootport, dev[j].route)
      BY <2>2, <3>1 DEF IInv, AddrOK
    <3> QED
      BY <1>1, <2>1, <3>1, <3>2
  <2> QED
    BY <2>2 DEF AddrOK
<1> QED
  BY <1>2, <1>3, <1>4, <1>5, <1>6

\* dev_drop, in terms of the above.
LEMMA DevDrop ==
    ASSUME IInv, NEW i \in DevSlots, dev[i].used, dev_drop(i)
    PROVE  /\ dev' \in [DevSlots -> Device] /\ addr' \in [Devices -> Slots \cup {0}]
           /\ on' \subseteq Slots /\ ep' \in [Slots -> {"none", "idle", "armed", "halted"}]
           /\ dev' = [dev EXCEPT ![i] = NoDev] /\ on' = on \ {dev[i].slot}
           /\ Lowered /\ UNCHANGED <<rooten, hport, posted>>
           /\ \A d \in Devices : addr'[d] # 0 => addr'[d] # dev[i].slot
<1>1. NoDev \in Device
  BY DEF NoDev, Device
<1>2. dev' \in [DevSlots -> Device] /\ on' \subseteq Slots
      /\ ep' \in [Slots -> {"none", "idle", "armed", "halted"}]
  BY <1>1 DEF dev_drop, IInv, TypeOK, WorldTypes, KernelTypes
<1>3. /\ \A d \in Devices : addr'[d] = IF addr[d] = dev[i].slot THEN 0 ELSE addr[d]
      /\ addr' \in [Devices -> Slots \cup {0}]
  BY DEF dev_drop, Physical, IInv, TypeOK, WorldTypes
<1> QED
  BY <1>2, <1>3 DEF dev_drop, Lowered

-----------------------------------------------------------------------------
(* Where the kernel goes on.                                               *)

Onward ==
    \/ NextPort
    \/ hub # 0 /\ NextHubPort
    \/ \E j \in DevSlots : dev[j].used /\ dev[j].is_hub /\ ScanHub(j)
    \/ pc' = "idle" /\ port' = 0 /\ hub' = 0 /\ hp' = 0

LEMMA HubsLeast ==
    ASSUME NEW n, HubsFrom(n) # {}
    PROVE  \E j \in DevSlots : dev[j].used /\ dev[j].is_hub /\ j = Min(HubsFrom(n))
<1>1. HubsFrom(n) \subseteq Nat /\ \A j \in HubsFrom(n) : j \in DevSlots /\ dev[j].used /\ dev[j].is_hub
  BY Numbers DEF HubsFrom
<1>2. Min(HubsFrom(n)) \in HubsFrom(n)
  BY <1>1, Least
<1> QED
  BY <1>1, <1>2

LEMMA LeaveOnward == Leave => Onward /\ cur' = 0
  BY DEF Leave, Onward

LEMMA ScanDoneOnward == ScanDone => Onward
  BY HubsLeast DEF ScanDone, Onward

\* Hubs stay hubs on their port.
HubsKept == \A i \in DevSlots : dev[i].used /\ dev[i].is_hub =>
    dev'[i].used /\ dev'[i].is_hub /\ dev'[i].rootport = dev[i].rootport

LEMMA OnwardPlace ==
    ASSUME IInv, Onward, HubsKept
    PROVE  /\ PlaceOK' /\ pc' \in {"ports", "hub_status", "idle"}
           /\ port' \in Nat /\ hub' \in DevSlots \cup {0} /\ hp' \in Nat
<1>1. /\ port \in Nat /\ hub \in DevSlots \cup {0} /\ hp \in Nat
      /\ \A j \in DevSlots : dev[j].rootport \in Nat
  <2>1. \A j \in DevSlots : dev[j].rootport \in Ports \cup {0}
    BY DEF IInv, TypeOK, KernelTypes, Device
  <2>2. \A n \in Ports \cup {0} : n \in Nat
    BY Numbers
  <2>3. port \in Nat /\ hub \in DevSlots \cup {0} /\ hp \in Nat
    BY DEF IInv, TypeOK, KernelTypes
  <2> QED
    BY <2>1, <2>2, <2>3
<1>2. CASE pc' \in {"ports", "idle"} /\ hub' = 0 /\ hp' = 0 /\ port' \in {0, port + 1}
  BY <1>1, <1>2 DEF PlaceOK, Scanning, Settling, OfPort, Entered
<1>3. CASE hub # 0 /\ NextHubPort
  <2>1. ScannedHub
    BY <1>3 DEF IInv, PlaceOK
  <2>2. ScannedHub'
    BY <1>3, <2>1 DEF ScannedHub, HubsKept, NextHubPort
  <2> QED
    BY <1>1, <1>3, <2>2 DEF NextHubPort, PlaceOK, Scanning, Settling, OfPort, Entered
<1>4. ASSUME NEW j \in DevSlots, dev[j].used, dev[j].is_hub, ScanHub(j)
      PROVE  /\ PlaceOK' /\ pc' \in {"ports", "hub_status", "idle"}
             /\ port' \in Nat /\ hub' \in DevSlots \cup {0} /\ hp' \in Nat
  <2>1. ScannedHub' /\ hub' # 0
    BY <1>4, Numbers DEF ScannedHub, HubsKept, ScanHub
  <2> QED
    BY <1>1, <1>4, <2>1 DEF ScanHub, PlaceOK, Scanning, Settling, OfPort, Entered
<1> QED
  BY <1>2, <1>3, <1>4 DEF Onward, NextPort

LEMMA FrameHubs == SameFrame => HubsKept
  BY DEF SameFrame, HubsKept

\* From one step of an enumeration to the next.
LEMMA StayPlace ==
    ASSUME IInv, NEW label \in Entered, pc \in Entered, Stay(label), SameFrame,
           label \in {"hub_describe", "hub_config", "hub_power"} => hub = 0
    PROVE  PlaceOK'
<1>1. /\ pc' = label /\ UNCHANGED <<port, hub, hp, cur>>
  BY DEF Stay, Goto
<1>2. /\ cur \in DevSlots /\ dev[cur].used /\ Place(cur) = <<port, hp>>
      /\ dev[cur].parent = hub /\ ~dev[cur].is_hub
      /\ pc \in OfPort
  BY DEF IInv, PlaceOK, OfPort
<1>3. Place(cur)' = Place(cur) /\ dev'[cur].used /\ dev'[cur].parent = hub /\ ~dev'[cur].is_hub
  BY <1>1, <1>2 DEF SameFrame, Place
<1>4. hub # 0 => ScannedHub' /\ hp \in HubPorts /\ hp \in dev'[hub].conn
  BY <1>1, <1>2 DEF IInv, PlaceOK, ScannedHub, SameFrame
<1>5. hub = 0 => hp = 0
  BY DEF IInv, PlaceOK
<1>6. /\ pc' \in OfPort /\ pc' \notin Scanning \cup Settling /\ pc' # "hub_drop"
      /\ pc' \notin {"scan", "unplug", "reset", "enum"}
  BY <1>1 DEF OfPort, Scanning, Settling, Entered
<1>7. pc' \in {"hub_describe", "hub_config", "hub_power"} => hub' = 0
  BY <1>1
<1> QED
  BY <1>1, <1>2, <1>3, <1>4, <1>5, <1>6, <1>7 DEF PlaceOK

-----------------------------------------------------------------------------
(* The poll, and the ports.                                                *)

LEMMA QuietInv ==
    ASSUME IInv, TypeOK', UNCHANGED <<at, addr, hport, on, dev>>, ChildrenFull,
           pc # "enable", pc' # "enable", PlaceOK', GoneOK'
    PROVE  IInv'
<1>1. SameTable /\ Lowered /\ Voltage
  BY SameVoltage DEF SameTable, Shape, Lowered
<1> QED
  BY <1>1, KeepInv

\* Outside the scans nothing is claimed.
LEMMA Outside ==
    ASSUME pc \in {"idle", "events", "ports", "recover", "sweep"}
    PROVE  pc \notin Scanning \cup OfPort \cup Settling \cup Entered
  BY DEF Scanning, OfPort, Settling, Entered

LEMMA OutsidePlace ==
    ASSUME pc' \in {"idle", "events", "ports", "recover", "sweep"}, hub' = 0, hp' = 0
    PROVE  PlaceOK' /\ GoneOK'
  BY DEF PlaceOK, GoneOK, Scanning, OfPort, Settling, Entered

LEMMA OutsideHub ==
    ASSUME IInv, pc \in {"idle", "events", "ports", "recover", "sweep"}
    PROVE  hub = 0 /\ hp = 0 /\ ChildrenFull
  BY Outside, Full DEF IInv, PlaceOK

LEMMA PollStartInv == IInv /\ PollStart => IInv'
<1> SUFFICES ASSUME IInv, PollStart
             PROVE  IInv'
  OBVIOUS
<1>1. /\ pc = "idle" /\ pc' = "events"
      /\ UNCHANGED <<at, addr, hport, on, dev, hub, hp>>
  BY DEF PollStart, world, tables
<1>2. TypeOK'
  BY DEF PollStart, world, tables, IInv, TypeOK, WorldTypes, KernelTypes, OfPort, Scanning, Entered
<1> QED
  BY <1>1, <1>2, OutsideHub, OutsidePlace, QuietInv

LEMMA EventsDrainedInv == IInv /\ EventsDrained => IInv'
<1> SUFFICES ASSUME IInv, EventsDrained
             PROVE  IInv'
  OBVIOUS
<1>1. /\ pc = "events" /\ pc' = "ports"
      /\ UNCHANGED <<at, addr, hport, on, dev, hub, hp>>
  BY DEF EventsDrained, Wait, world, tables
<1>2. TypeOK'
  BY DEF EventsDrained, Wait, world, tables, IInv, TypeOK, WorldTypes, KernelTypes, OfPort,
     Scanning, Entered
<1> QED
  BY <1>1, <1>2, OutsideHub, OutsidePlace, QuietInv

LEMMA ScanPlace ==
    ASSUME pc' = "scan", hub' = 0, hp' = 0
    PROVE  PlaceOK' /\ GoneOK'
  BY DEF PlaceOK, GoneOK, Scanning, OfPort, Settling, Entered

LEMMA BootPortInv == IInv /\ BootPort => IInv'
<1> SUFFICES ASSUME IInv, BootPort
             PROVE  IInv'
  OBVIOUS
<1>1. /\ pc = "ports" /\ pc' \in {"scan", "idle"}
      /\ UNCHANGED <<at, addr, hport, on, dev, hub, hp>>
  BY DEF BootPort, world
<1>2. TypeOK'
  <2>1. /\ (pc' = "scan" /\ port' \in Ports) \/ (pc' = "idle" /\ port' = 0)
        /\ booting' \in BOOLEAN /\ hubscan' \in {"off", "armed", "due"}
    BY DEF BootPort, IInv, TypeOK, KernelTypes
  <2>2. \A p \in Ports \cup {0} : p \in Nat
    BY Numbers
  <2>3. port' \in Nat
    BY <2>1, <2>2
  <2>4. UNCHANGED <<world, dev, pscan, cur, hub, hp, ped, sweep, lost>>
    BY DEF BootPort
  <2> QED
    BY <2>1, <2>3, <2>4 DEF world, IInv, TypeOK, WorldTypes, KernelTypes, OfPort, Scanning, Entered
<1>3. hub = 0 /\ hp = 0 /\ ChildrenFull
  BY <1>1, OutsideHub
<1>4. PlaceOK' /\ GoneOK'
  BY <1>1, <1>3, OutsidePlace, ScanPlace
<1> QED
  BY <1>1, <1>2, <1>3, <1>4, QuietInv

LEMMA PickPortInv == IInv /\ PickPort => IInv'
<1> SUFFICES ASSUME IInv, PickPort
             PROVE  IInv'
  OBVIOUS
<1> DEFINE flagged == {p \in pscan : p >= port}
<1>1. /\ pc = "ports" /\ pc' \in {"scan", "recover"}
      /\ UNCHANGED <<world, dev, cur, hub, hp, ped, booting, sweep, lost>>
      /\ flagged = {} => pc' = "recover" /\ port' = 0 /\ UNCHANGED <<pscan, hubscan>>
      /\ flagged # {} => /\ port' = Min(flagged) /\ pscan' = pscan \ {Min(flagged)}
                         /\ hubscan' = Rearmed
  BY DEF PickPort
<1>2. flagged # {} => Min(flagged) \in Ports
  <2>1. flagged \subseteq Ports
    BY DEF IInv, TypeOK, KernelTypes
  <2>2. flagged \subseteq Nat
    BY <2>1, Numbers
  <2> HIDE DEF flagged
  <2> QED
    BY <2>1, <2>2, Least
<1> HIDE DEF flagged
<1>3. pscan' \subseteq Ports /\ port' \in Nat /\ hubscan' \in {"off", "armed", "due"}
      /\ (pc' = "scan" => port' \in Ports)
  <2>1. \A p \in Ports \cup {0} : p \in Nat
    BY Numbers
  <2>2. pscan \subseteq Ports /\ hubscan \in {"off", "armed", "due"}
    BY DEF IInv, TypeOK, KernelTypes
  <2> QED
    BY <1>1, <1>2, <2>1, <2>2 DEF Rearmed
<1>4. TypeOK'
  BY <1>1, <1>3 DEF world, IInv, TypeOK, WorldTypes, KernelTypes, OfPort, Scanning, Entered
<1>5. hub = 0 /\ hp = 0 /\ ChildrenFull
  BY <1>1, OutsideHub
<1>6. PlaceOK' /\ GoneOK'
  BY <1>1, <1>5, OutsidePlace, ScanPlace
<1>7. UNCHANGED <<at, addr, hport, on, dev>>
  BY <1>1 DEF world
<1> QED
  BY <1>1, <1>4, <1>5, <1>6, <1>7, QuietInv

LEMMA TickInv == IInv /\ Tick => IInv'
<1> SUFFICES ASSUME IInv, Tick
             PROVE  IInv'
  OBVIOUS
<1>1. UNCHANGED <<at, addr, hport, on, dev, pc, port, cur, hub, hp>>
  BY DEF Tick, world, place
<1>2. TypeOK'
  BY DEF Tick, world, place, IInv, TypeOK, WorldTypes, KernelTypes
<1>3. SameTable /\ Lowered /\ Voltage
  BY <1>1, SameVoltage DEF SameTable, Shape, Lowered
<1> QED
  BY <1>1, <1>2, <1>3, InPlaceInv, StayingInv DEF IInv, Voltage

\* A place with no entry: nothing on the port was found in the table.
LEMMA RootFree ==
    ASSUME IInv, dev_on_root(port) = {}
    PROVE  Free(port, 0)
  BY DEF dev_on_root, Free, Place

LEMMA port_scanInv == IInv /\ port_scan => IInv'
<1> SUFFICES ASSUME IInv, port_scan
             PROVE  IInv'
  OBVIOUS
<1>1. /\ pc = "scan" /\ UNCHANGED <<world, tables, cur, ped, booting, sweep, lost>>
      /\ \/ At(Root, port) = {} /\ Goto("unplug")
         \/ NextPort
         \/ dev_on_root(port) = {} /\ Goto("reset")
  BY DEF port_scan
<1>2. hub = 0 /\ hp = 0 /\ port \in Ports /\ ChildrenFull
  BY <1>1, Full DEF IInv, PlaceOK, OfPort, TypeOK, KernelTypes
<1>3. UNCHANGED <<at, addr, hport, on, dev>>
  BY <1>1 DEF world, tables
<1>4. CASE At(Root, port) = {} /\ Goto("unplug")
  <2>1. pc' = "unplug" /\ UNCHANGED <<port, hub, hp>>
    BY <1>4 DEF Goto
  <2>2. TypeOK'
    BY <1>1, <1>2, <2>1 DEF world, tables, IInv, TypeOK, WorldTypes, KernelTypes, OfPort
  <2>3. PlaceOK'
    BY <1>2, <2>1 DEF PlaceOK, Scanning, OfPort, Settling, Entered
  <2>4. ASSUME NEW i \in DevSlots, dev[i].used, dev[i].rootport = port, NEW d \in Devices,
               addr[d] = dev[i].slot
        PROVE  FALSE
    <3>1. dev[i].slot \in on
      BY <1>1, <2>4 DEF IInv, SlotOK
    <3>2. addr[d] # 0
      BY <2>4, <3>1, Numbers DEF IInv, TypeOK, WorldTypes
    <3>3. d \in DevicesAt(port, dev[i].route)
      BY <2>4, <3>2, AnswersAt
    <3>4. \A e \in Devices : at[e] # <<Root, port>>
      BY <1>4 DEF At
    <3> QED
      BY <3>3, <3>4, AtPlace, Numbers DEF IInv
  <2>5. GoneOK'
    BY <1>3, <2>1, <2>4 DEF GoneOK, on_port, Answers
  <2> QED
    BY <1>1, <1>2, <1>3, <2>1, <2>2, <2>3, <2>5, QuietInv
<1>5. CASE NextPort
  <2>1. pc' = "ports" /\ port' = port + 1 /\ hub' = 0 /\ hp' = 0
    BY <1>5 DEF NextPort
  <2>2. TypeOK'
    BY <1>1, <2>1 DEF world, tables, IInv, TypeOK, WorldTypes, KernelTypes, OfPort,
       Scanning, Entered
  <2> QED
    BY <1>1, <1>2, <1>3, <2>1, <2>2, OutsidePlace, QuietInv
<1>6. CASE dev_on_root(port) = {} /\ Goto("reset")
  <2>1. pc' = "reset" /\ UNCHANGED <<port, hub, hp>>
    BY <1>6 DEF Goto
  <2>2. TypeOK'
    BY <1>1, <1>2, <2>1 DEF world, tables, IInv, TypeOK, WorldTypes, KernelTypes, OfPort
  <2>3. Free(port, hp)'
    BY <1>2, <1>3, <1>6, <2>1, RootFree DEF Free, Place
  <2>4. PlaceOK' /\ GoneOK'
    BY <1>2, <2>1, <2>3 DEF PlaceOK, GoneOK, Scanning, OfPort, Settling, Entered
  <2> QED
    BY <1>1, <1>2, <1>3, <2>1, <2>2, <2>4, QuietInv
<1> QED
  BY <1>1, <1>4, <1>5, <1>6

LEMMA ResetPortInv == IInv /\ ResetPort => IInv'
<1> SUFFICES ASSUME IInv, ResetPort
             PROVE  IInv'
  OBVIOUS
<1>1. /\ pc = "reset"
      /\ UNCHANGED <<physical, hport, on, ep, budget, tables, cur, ped, booting, sweep, lost>>
      /\ \/ NextPort /\ UNCHANGED <<addr, rooten, posted>>
         \/ /\ Goto("enum") /\ rooten' = [rooten EXCEPT ![port] = TRUE]
            /\ addr' = [d \in Devices |-> IF d \in At(Root, port) THEN 0 ELSE addr[d]]
            /\ posted' = posted \cup {port}
  BY DEF ResetPort
<1>2. hub = 0 /\ hp = 0 /\ port \in Ports /\ ChildrenFull /\ Free(port, hp)
  BY <1>1, Full DEF IInv, PlaceOK, OfPort, TypeOK, KernelTypes
<1>3. UNCHANGED <<at, hport, on, dev>> /\ SameTable /\ Voltage
  BY <1>1, SameVoltage DEF physical, tables, SameTable, Shape
<1>4. CASE NextPort /\ UNCHANGED <<addr, rooten, posted>>
  <2>1. pc' = "ports" /\ port' = port + 1 /\ hub' = 0 /\ hp' = 0
    BY <1>4 DEF NextPort
  <2>2. TypeOK'
    BY <1>1, <1>4, <2>1 DEF physical, tables, IInv, TypeOK, WorldTypes, KernelTypes, OfPort,
       Scanning, Entered
  <2> QED
    BY <1>1, <1>2, <1>3, <1>4, <2>1, <2>2, OutsidePlace, QuietInv
<1>5. CASE /\ Goto("enum") /\ rooten' = [rooten EXCEPT ![port] = TRUE]
           /\ addr' = [d \in Devices |-> IF d \in At(Root, port) THEN 0 ELSE addr[d]]
           /\ posted' = posted \cup {port}
  <2>1. pc' = "enum" /\ UNCHANGED <<port, hub, hp>>
    BY <1>5 DEF Goto
  <2>2. addr' \in [Devices -> Slots \cup {0}] /\ Lowered
    BY <1>5 DEF IInv, TypeOK, WorldTypes, Lowered
  <2>3. rooten' \in [Ports -> BOOLEAN] /\ posted' \subseteq Ports
    BY <1>2, <1>5 DEF IInv, TypeOK, WorldTypes
  <2>4. TypeOK'
    BY <1>1, <1>2, <2>1, <2>2, <2>3 DEF physical, tables, IInv, TypeOK, WorldTypes,
       KernelTypes, OfPort
  <2>5. Free(port, hp)'
    BY <1>2, <1>3, <2>1 DEF Free, Place
  <2>6. PlaceOK' /\ GoneOK'
    BY <1>2, <2>1, <2>5 DEF PlaceOK, GoneOK, Scanning, OfPort, Settling, Entered
  <2> QED
    BY <1>1, <1>2, <1>3, <2>1, <2>2, <2>4, <2>6, KeepInv
<1> QED
  BY <1>1, <1>4, <1>5

LEMMA handle_eventInv == IInv /\ handle_event => IInv'
<1> SUFFICES ASSUME IInv, handle_event
             PROVE  IInv'
  OBVIOUS
<1>1. UNCHANGED <<at, key, fresh, addr, rooten, hport, on, budget, hubscan, pc, place, lost>>
  BY DEF handle_event
<1>2. TypeOK
  BY DEF IInv
<1>3. ASSUME NEW p \in posted, OnPort(p)
      PROVE  TypeOK' /\ SameTable
  <2>1. posted' = posted \ {p} /\ pscan' = pscan \cup {p} /\ UNCHANGED <<dev, ep, rpt>>
    BY <1>3 DEF OnPort
  <2>2. posted' \subseteq Ports /\ pscan' \subseteq Ports
    BY <1>2, <2>1 DEF TypeOK, WorldTypes, KernelTypes
  <2> QED
    BY <1>1, <1>2, <2>1, <2>2 DEF TypeOK, WorldTypes, KernelTypes, place, SameTable, Shape
<1>4. ASSUME NEW s \in Slots, OnReport(s)
      PROVE  TypeOK' /\ SameTable
  <2>1. rpt' = [rpt EXCEPT ![s] = NoEvent] /\ UNCHANGED <<posted, pscan>>
    BY <1>4 DEF OnReport
  <2>2. rpt' \in [Slots -> [cc : {"none", "ok", "error"}, keys : SUBSET Usages]]
    BY <1>2, <2>1 DEF TypeOK, WorldTypes, NoEvent
  <2>3. \/ UNCHANGED <<dev, ep>>
        \/ \E i \in DevSlots :
              /\ dev' = [dev EXCEPT ![i].prev = rpt[s].keys]
              /\ ep' = [ep EXCEPT ![s] = "armed"]
        \/ \E i \in DevSlots :
              dev' = [dev EXCEPT ![i].need_recover = TRUE] /\ UNCHANGED ep
    BY <1>4 DEF OnReport, dev_by_slot
  <2>4. rpt[s].keys \in SUBSET Usages
    BY <1>2 DEF TypeOK, WorldTypes
  <2>5. dev \in [DevSlots -> Device] /\ ep \in [Slots -> {"none", "idle", "armed", "halted"}]
    BY <1>2 DEF TypeOK, WorldTypes, KernelTypes
  <2>6. dev' \in [DevSlots -> Device] /\ ep' \in [Slots -> {"none", "idle", "armed", "halted"}]
    <3>1. ASSUME NEW i \in DevSlots, dev' = [dev EXCEPT ![i].prev = rpt[s].keys]
          PROVE  dev' \in [DevSlots -> Device]
      BY <2>4, <2>5, <3>1 DEF Device
    <3>2. ASSUME NEW i \in DevSlots, dev' = [dev EXCEPT ![i].need_recover = TRUE]
          PROVE  dev' \in [DevSlots -> Device]
      <4>1. [dev[i] EXCEPT !.need_recover = TRUE] \in Device
        BY <2>5 DEF Device
      <4> QED
        BY <2>5, <3>2, <4>1
    <3>3. ep' \in [Slots -> {"none", "idle", "armed", "halted"}]
      BY <2>3, <2>5
    <3> QED
      BY <2>3, <2>5, <3>1, <3>2, <3>3
  <2>7. SameTable
    <3>1. ASSUME NEW i \in DevSlots, dev' = [dev EXCEPT ![i].prev = rpt[s].keys]
          PROVE  SameTable
      BY <2>5, <3>1 DEF SameTable, Shape, Device
    <3>2. ASSUME NEW i \in DevSlots, dev' = [dev EXCEPT ![i].need_recover = TRUE]
          PROVE  SameTable
      BY <2>5, <3>2 DEF SameTable, Shape, Device
    <3>3. dev' = dev => SameTable
      BY DEF SameTable, Shape
    <3> QED
      BY <2>3, <3>1, <3>2, <3>3
  <2> QED
    BY <1>1, <1>2, <2>1, <2>2, <2>6, <2>7 DEF TypeOK, WorldTypes, KernelTypes, place
<1>5. TypeOK' /\ SameTable
  BY <1>3, <1>4 DEF handle_event
<1>6. UNCHANGED <<at, addr, hport, on, pc, port, cur, hub, hp>>
  BY <1>1 DEF place
<1>7. Lowered /\ Voltage
  BY <1>6, SameVoltage DEF Lowered
<1> QED
  BY <1>5, <1>6, <1>7, InPlaceInv, StayingInv DEF IInv, Voltage

\* While a port is unplugged, the children of its hub may lose it first.
LEMMA UnpluggingInv == IInv /\ Unplugging => IInv'
<1> SUFFICES ASSUME IInv, Unplugging
             PROVE  IInv'
  OBVIOUS
<1>1. /\ pc = "unplug"
      /\ UNCHANGED <<physical, budget, modes, cur, ped, lost>>
      /\ \/ on_port(port) = {} /\ NextPort /\ UNCHANGED <<dev, hardware>>
         \/ /\ on_port(port) # {} /\ Goto("unplug") /\ dev_drop(Min(on_port(port)))
  BY DEF Unplugging, Wait
<1>2. hub = 0 /\ hp = 0 /\ port \in Ports /\ TypeOK
  BY <1>1 DEF IInv, PlaceOK, OfPort, TypeOK, KernelTypes
<1>3. CASE on_port(port) = {} /\ NextPort /\ UNCHANGED <<dev, hardware>>
  <2>1. pc' = "ports" /\ port' = port + 1 /\ hub' = 0 /\ hp' = 0
    BY <1>3 DEF NextPort
  <2>2. TypeOK'
    BY <1>1, <1>2, <1>3, <2>1 DEF physical, hardware, modes, TypeOK, WorldTypes, KernelTypes,
       OfPort, Scanning, Entered
  <2>3. ChildrenFull
    <3>1. \A i \in DevSlots : dev[i].parent \in DevSlots \cup {0}
      BY DEF IInv, TypeOK, KernelTypes, Device
    <3> QED
      BY <1>1, <1>3, <3>1 DEF IInv, ChildrenTracked, ChildrenFull, on_port
  <2>4. UNCHANGED <<at, addr, hport, on, dev>>
    BY <1>1, <1>3 DEF physical, hardware
  <2> QED
    BY <1>1, <2>1, <2>2, <2>3, <2>4, OutsidePlace, QuietInv
<1>4. CASE on_port(port) # {} /\ Goto("unplug") /\ dev_drop(Min(on_port(port)))
  <2>1. PICK i \in on_port(port) : i = Min(on_port(port))
    <3>1. on_port(port) \subseteq Nat
      BY Numbers DEF on_port
    <3> QED
      BY <1>4, <3>1, Least
  <2>2. i \in DevSlots /\ dev[i].used /\ dev[i].rootport = port /\ dev_drop(i)
    BY <1>4, <2>1 DEF on_port
  <2>3. pc' = "unplug" /\ UNCHANGED <<at, port, hub, hp, cur, hport>>
    BY <1>1, <1>4, <2>2 DEF Goto, physical, dev_drop
  <2>4. /\ dev' \in [DevSlots -> Device] /\ addr' \in [Devices -> Slots \cup {0}]
        /\ on' \subseteq Slots /\ ep' \in [Slots -> {"none", "idle", "armed", "halted"}]
        /\ dev' = [dev EXCEPT ![i] = NoDev] /\ on' = on \ {dev[i].slot}
        /\ Lowered /\ UNCHANGED <<rooten, hport, posted>>
        /\ \A d \in Devices : addr'[d] # 0 => addr'[d] # dev[i].slot
    BY <2>2, DevDrop
  <2>5. TypeOK'
    BY <1>1, <1>2, <2>3, <2>4 DEF physical, modes, TypeOK, WorldTypes, KernelTypes, OfPort,
       Scanning, Entered
  <2>6. Voltage
    BY <2>3, SameVoltage
  <2>7. WorldOK' /\ EntryOK' /\ SlotOK' /\ AddrOK' /\ PowerOK' /\ OneDevicePerPlace'
    BY <1>1, <2>2, <2>3, <2>4, <2>6, DropKept
  <2>8. PlaceOK'
    BY <1>2, <2>3 DEF PlaceOK, OfPort, Scanning, Settling, Entered
  <2>9. ~dev'[i].used /\ \A j \in DevSlots : j # i => dev'[j] = dev[j]
    BY <1>2, <2>2, <2>4 DEF TypeOK, KernelTypes, NoDev
  <2>10. ChildrenTracked'
    <3>1. ASSUME NEW j \in DevSlots, dev'[j].used, dev'[j].parent # 0
          PROVE  \/ dev'[j].rootport = port
                 \/ /\ dev'[dev[j].parent].used /\ dev'[dev[j].parent].is_hub
                    /\ dev'[dev[j].parent].rootport = dev[j].rootport
                    /\ dev[j].route \in dev'[dev[j].parent].conn
      <4>1. j # i /\ dev'[j] = dev[j] /\ dev[j].parent \in DevSlots
        BY <1>2, <2>9, <3>1 DEF TypeOK, KernelTypes, Device
      <4>2. \/ dev[j].rootport = port
            \/ /\ dev[dev[j].parent].used /\ dev[dev[j].parent].is_hub
               /\ dev[dev[j].parent].rootport = dev[j].rootport
               /\ dev[j].route \in dev[dev[j].parent].conn
        BY <1>1, <3>1, <4>1 DEF IInv, ChildrenTracked
      <4> QED
        BY <2>2, <2>9, <4>1, <4>2
    <3>2. \A j \in DevSlots : dev'[j].used => dev'[j] = dev[j]
      BY <2>9
    <3> QED
      BY <2>3, <3>1, <3>2 DEF ChildrenTracked
  <2>11. GoneOK'
    <3>1. ASSUME NEW j \in DevSlots, dev'[j].used, dev'[j].rootport = port
          PROVE  ~Answers(dev[j].slot)'
      <4>1. dev'[j] = dev[j]
        BY <2>9, <3>1
      <4>2. PICK s \in on : s = dev[j].slot
        BY <1>1, <3>1, <4>1 DEF IInv, SlotOK
      <4>3. ~Answers(s) /\ s # 0
        BY <1>1, <1>2, <3>1, <4>1, <4>2, Numbers DEF IInv, GoneOK, on_port, TypeOK, WorldTypes
      <4>4. ~Answers(s)'
        BY <2>4, <4>3, StillGone
      <4> QED
        BY <4>1, <4>2, <4>4
    <3> QED
      BY <2>3, <3>1 DEF GoneOK, on_port
  <2> QED
    BY <2>5, <2>7, <2>8, <2>10, <2>11 DEF IInv
<1> QED
  BY <1>1, <1>3, <1>4

-----------------------------------------------------------------------------
(* An enumeration.                                                         *)

\* One entry changes.
LEMMA PutDev ==
    ASSUME TypeOK, NEW i \in DevSlots, NEW e \in Device, dev' = [dev EXCEPT ![i] = e]
    PROVE  /\ dev' \in [DevSlots -> Device] /\ dev'[i] = e
           /\ \A j \in DevSlots : j # i => dev'[j] = dev[j]
  BY DEF TypeOK, KernelTypes

\* What enum_device knows of its place.
LEMMA Enumerating ==
    ASSUME IInv, pc \in Entered
    PROVE  /\ TypeOK /\ pc \in OfPort /\ pc \notin {"unplug", "hub_drop"} /\ port \in Ports
           /\ cur \in DevSlots /\ dev[cur].used /\ Place(cur) = <<port, hp>>
           /\ dev[cur].parent = hub /\ ~dev[cur].is_hub /\ ChildrenFull
           /\ (hub = 0 => hp = 0)
           /\ (hub # 0 => hub \in DevSlots /\ dev[hub].used /\ dev[hub].is_hub)
<1>1. pc \in OfPort /\ pc \notin {"unplug", "hub_drop"}
  BY DEF OfPort, Entered
<1> QED
  BY <1>1, Full DEF IInv, PlaceOK, TypeOK, KernelTypes, ScannedHub

LEMMA GiveUpTypes == IInv /\ (GiveUp \/ Quietly) => lost' \subseteq Devices
<1>1. DevicesAt(port, hp) \subseteq Devices
  BY DEF DevicesAt, At
<1> QED
  BY <1>1 DEF GiveUp, Quietly, IInv, TypeOK, KernelTypes

\* The types of a step that keeps the world but for the pipes and the budget.
EnumTypes ==
    /\ dev' \in [DevSlots -> Device] /\ addr' \in [Devices -> Slots \cup {0}]
    /\ on' \subseteq Slots /\ ep' \in [Slots -> {"none", "idle", "armed", "halted"}]
    /\ hport' \in [Hubs -> [HubPorts -> PortState]]
    /\ budget' \in [plugs : Nat, keys : Nat, faults : Nat]
    /\ lost' \subseteq Devices

LEMMA BudgetTypes ==
    ASSUME TypeOK, \/ UNCHANGED budget
                   \/ Spend("faults")
    PROVE  budget' \in [plugs : Nat, keys : Nat, faults : Nat]
  BY SpendTypes DEF TypeOK, WorldTypes

LEMMA OnwardTypes ==
    ASSUME IInv, Onward, HubsKept, EnumTypes, cur' \in Nat, ped' \in BOOLEAN,
           UNCHANGED <<physical, rooten, posted, modes>>
    PROVE  TypeOK'
<1>1. /\ pc' \in {"ports", "hub_status", "idle"}
      /\ port' \in Nat /\ hub' \in DevSlots \cup {0} /\ hp' \in Nat
  BY OnwardPlace
<1> QED
  BY <1>1 DEF EnumTypes, physical, modes, IInv, TypeOK, WorldTypes, KernelTypes, OfPort,
     Scanning, Entered

LEMMA StayTypes ==
    ASSUME IInv, pc \in Entered, NEW label \in Entered, Stay(label), EnumTypes,
           UNCHANGED <<physical, rooten, posted, modes, ped>>
    PROVE  TypeOK'
<1>1. pc' \in Entered /\ UNCHANGED <<port, hub, hp, cur>> /\ port \in Ports
  BY Enumerating DEF Stay, Goto
<1> QED
  BY <1>1 DEF EnumTypes, physical, modes, IInv, TypeOK, WorldTypes, KernelTypes, OfPort

\* The end of an enumeration or of a scan, which changes no entry's place.
LEMMA OnwardInv ==
    ASSUME IInv, Onward, SameTable, EnumTypes, cur' \in Nat, ped' \in BOOLEAN,
           UNCHANGED <<physical, rooten, posted, modes>>,
           Lowered, Voltage, UNCHANGED on, ChildrenFull, pc # "enable"
    PROVE  IInv'
<1>1. HubsKept
  BY TableFrame, FrameHubs
<1>2. TypeOK'
  BY <1>1, OnwardTypes
<1>3. PlaceOK' /\ pc' \in {"ports", "hub_status", "idle"}
  BY <1>1, OnwardPlace
<1>4. GoneOK'
  BY <1>3 DEF GoneOK
<1>5. UNCHANGED at
  BY DEF physical
<1> QED
  BY <1>2, <1>3, <1>4, <1>5, KeepInv

\* The next step of an enumeration that keeps the table.
LEMMA StayInv ==
    ASSUME IInv, pc \in Entered, pc # "enable", NEW label \in Entered, label # "enable",
           Stay(label), SameTable, EnumTypes,
           UNCHANGED <<physical, rooten, posted, modes, ped>>,
           Lowered, Voltage, UNCHANGED on,
           label \in {"hub_describe", "hub_config", "hub_power"} => hub = 0
    PROVE  IInv'
<1>1. TypeOK'
  BY StayTypes
<1>2. SameFrame /\ ChildrenFull
  BY TableFrame, Enumerating
<1>3. PlaceOK'
  BY <1>2, StayPlace
<1>4. pc' = label /\ GoneOK'
  <2>1. pc' = label /\ pc' \notin {"unplug", "hub_drop"}
    BY DEF Stay, Goto, Entered
  <2> QED
    BY <2>1 DEF GoneOK
<1>5. UNCHANGED at
  BY DEF physical
<1> QED
  BY <1>1, <1>2, <1>3, <1>4, <1>5, KeepInv

\* A new entry, with no slot yet, at a place that had none.
LEMMA enum_deviceInv == IInv /\ enum_device => IInv'
<1> SUFFICES ASSUME IInv, enum_device
             PROVE  IInv'
  OBVIOUS
<1> DEFINE unused == {i \in DevSlots : ~dev[i].used}
           New == [NoDev EXCEPT !.used = TRUE, !.rootport = port, !.route = hp, !.parent = hub]
<1>1. /\ pc = "enum" /\ UNCHANGED <<world, modes, ped>>
      /\ \/ unused = {} /\ Leave /\ GiveUp /\ UNCHANGED dev
         \/ /\ unused # {} /\ cur' = Min(unused) /\ Goto("enable") /\ Quietly
            /\ dev' = [dev EXCEPT ![Min(unused)] = New]
  BY DEF enum_device
<1>2. /\ TypeOK /\ port \in Ports /\ Free(port, hp) /\ ChildrenFull
      /\ hub = 0 => hp = 0
      /\ hub # 0 => ScannedHub /\ hp \in HubPorts /\ hp \in dev[hub].conn
  BY <1>1, Full DEF IInv, PlaceOK, OfPort, TypeOK, KernelTypes
<1>3. UNCHANGED <<physical, rooten, posted, at, addr, hport, on>> /\ Voltage /\ Lowered
      /\ UNCHANGED <<ep, budget>>
  BY <1>1, SameVoltage DEF world, physical, Lowered
<1>4. CASE unused = {} /\ Leave /\ GiveUp /\ UNCHANGED dev
  <2>1. Onward /\ cur' \in Nat
    BY <1>4, LeaveOnward
  <2>2. SameTable
    BY <1>4 DEF SameTable, Shape
  <2>3. EnumTypes
    BY <1>2, <1>3, <1>4, GiveUpTypes DEF EnumTypes, TypeOK, WorldTypes, KernelTypes
  <2>4. ped' \in BOOLEAN
    BY <1>1, <1>2 DEF TypeOK, KernelTypes
  <2> QED
    BY <1>1, <1>2, <1>3, <2>1, <2>2, <2>3, <2>4, OnwardInv
<1>5. CASE /\ unused # {} /\ cur' = Min(unused) /\ Goto("enable") /\ Quietly
           /\ dev' = [dev EXCEPT ![Min(unused)] = New]
  <2>1. PICK i \in DevSlots : i = Min(unused) /\ ~dev[i].used
    <3>1. unused \subseteq Nat /\ unused \subseteq {j \in DevSlots : ~dev[j].used}
      BY Numbers
    <3> HIDE DEF unused
    <3> QED
      BY <1>5, <3>1, Least
  <2>2. /\ New \in Device /\ New.used /\ New.slot = 0 /\ New.rootport = port
        /\ New.route = hp /\ New.parent = hub /\ ~New.is_hub
    <3>1. hp \in HubPorts \cup {0} /\ hub \in DevSlots \cup {0}
      BY <1>2 DEF TypeOK, KernelTypes
    <3> QED
      BY <1>2, <3>1 DEF Device, NoDev
  <2> HIDE DEF New
  <2>3. dev' = [dev EXCEPT ![i] = New]
    BY <1>5, <2>1
  <2>4. /\ dev' \in [DevSlots -> Device] /\ dev'[i] = New
        /\ \A j \in DevSlots : j # i => dev'[j] = dev[j]
    BY <1>2, <2>2, <2>3, PutDev
  <2>5. pc' = "enable" /\ cur' = i /\ UNCHANGED <<port, hub, hp>>
    BY <1>5, <2>1 DEF Goto
  <2>6. TypeOK'
    <3>1. i \in Nat
      BY Numbers
    <3> QED
      BY <1>1, <1>2, <1>3, <1>5, <2>4, <2>5, <3>1 DEF physical, modes, Quietly, TypeOK, WorldTypes,
         KernelTypes, OfPort, Entered
  <2>7. \A j \in DevSlots : dev[j].used => j # i /\ dev'[j] = dev[j]
    BY <2>1, <2>4
  <2>8. \A j \in DevSlots : dev'[j].used => j = i \/ (j # i /\ dev[j].used /\ dev'[j] = dev[j])
    BY <2>4
  <2>9. PlaceOK'
    <3>1. hub # 0 => ScannedHub' /\ hp \in HubPorts /\ hp \in dev'[hub].conn
      BY <1>2, <2>5, <2>7 DEF ScannedHub
    <3>2. Place(i)' = <<port, hp>>
      BY <2>2, <2>4 DEF Place
    <3>3. Place(cur)' = <<port, hp>>
      BY <2>2, <2>4, <2>5 DEF Place
    <3> QED
      BY <1>2, <2>2, <2>4, <2>5, <3>1, <3>3 DEF PlaceOK, OfPort, Scanning, Settling, Entered
  <2>10. EntryOK'
    <3>1. hub = 0 <=> hp = 0
      BY <1>2, Numbers
    <3> QED
      BY <1>2, <2>2, <2>4, <2>8, <3>1 DEF IInv, EntryOK
  <2>11. SlotOK'
    <3>1. \A j \in DevSlots : dev[j].used => dev[j].slot \in on /\ dev[j].slot # 0
      BY <1>1, <1>2, Numbers DEF IInv, SlotOK, TypeOK, WorldTypes
    <3>2. /\ dev'[i].slot = 0 /\ on' = on
      BY <1>3, <2>2, <2>4
    <3>3. \A j \in DevSlots : dev'[j].used /\ j # i =>
             dev[j].used /\ dev'[j].slot = dev[j].slot /\ dev[j].slot \in on /\ dev[j].slot # 0
      BY <2>8, <3>1
    <3> QED
      BY <2>5, <3>2, <3>3 DEF IInv, SlotOK
  <2>12. AddrOK'
    <3>1. \A r, q : DevicesAt(r, q)' = DevicesAt(r, q)
      BY <1>3 DEF DevicesAt, At
    <3>2. ASSUME NEW d \in Devices, addr'[d] # 0
          PROVE  \E j \in DevSlots : /\ dev'[j].used /\ dev'[j].slot = addr'[d]
                                     /\ d \in DevicesAt(dev[j].rootport, dev[j].route)'
      <4>1. PICK j \in DevSlots : /\ dev[j].used /\ dev[j].slot = addr[d]
                                  /\ d \in DevicesAt(dev[j].rootport, dev[j].route)
        BY <1>3, <3>2 DEF IInv, AddrOK
      <4> QED
        BY <1>3, <2>7, <3>1, <4>1
    <3> QED
      BY <3>2 DEF AddrOK
  <2>13. OneDevicePerPlace'
    <3>1. Place(i)' = <<port, hp>>
      BY <2>2, <2>4 DEF Place
    <3>2. \A j \in DevSlots : dev'[j].used /\ j # i =>
             dev[j].used /\ Place(j)' = Place(j) /\ Place(j) # <<port, hp>>
      BY <1>2, <2>8 DEF Place, Free
    <3> QED
      BY <3>1, <3>2 DEF IInv, OneDevicePerPlace
  <2>14. ChildrenTracked'
    <3>1. ASSUME NEW j \in DevSlots, dev'[j].used, dev'[j].parent # 0
          PROVE  /\ dev'[dev'[j].parent].used /\ dev'[dev'[j].parent].is_hub
                 /\ dev'[dev'[j].parent].rootport = dev'[j].rootport
                 /\ dev'[j].route \in dev'[dev'[j].parent].conn
      <4>1. CASE j = i
        BY <1>2, <2>2, <2>4, <2>7, <3>1, <4>1 DEF ScannedHub
      <4>2. CASE j # i
        <5>1. dev[j].used /\ dev'[j] = dev[j]
          BY <2>8, <3>1, <4>2
        <5> QED
          BY <1>2, <2>7, <3>1, <5>1 DEF ChildrenFull
      <4> QED
        BY <4>1, <4>2
    <3> QED
      BY <3>1 DEF ChildrenTracked
  <2>15. WorldOK' /\ PowerOK'
    BY <1>3, WorldStays
  <2>16. GoneOK'
    BY <2>5 DEF GoneOK
  <2> QED
    BY <2>6, <2>9, <2>10, <2>11, <2>12, <2>13, <2>14, <2>15, <2>16 DEF IInv
<1> QED
  BY <1>1, <1>4, <1>5

\* Other devices stay where they are: who is at a place, in terms of at alone.
LEMMA SamePlaces == UNCHANGED at => \A r, q : DevicesAt(r, q)' = DevicesAt(r, q)
  BY DEF DevicesAt, At

\* A slot that was off becomes the new entry's; or the entry is given back.
LEMMA EnableSlotInv == IInv /\ EnableSlot => IInv'
<1> SUFFICES ASSUME IInv, EnableSlot
             PROVE  IInv'
  OBVIOUS
<1>1. /\ pc = "enable" /\ UNCHANGED <<physical, addr, rooten, hport, ep, posted, modes, ped>>
      /\ \/ /\ Accepted /\ on # Slots /\ on' = on \cup {Min(Slots \ on)}
            /\ dev' = [dev EXCEPT ![cur].slot = Min(Slots \ on)]
            /\ Stay("address") /\ Quietly
         \/ /\ UNCHANGED budget \/ Spend("faults")
            /\ dev' = [dev EXCEPT ![cur] = NoDev] /\ UNCHANGED on
            /\ Leave /\ GiveUp
  BY DEF EnableSlot, Wait, Refused
<1>2. /\ TypeOK /\ pc \in Entered /\ port \in Ports
      /\ cur \in DevSlots /\ dev[cur].used /\ Place(cur) = <<port, hp>>
      /\ dev[cur].parent = hub /\ ~dev[cur].is_hub /\ ChildrenFull
      /\ dev[cur].slot = 0
  BY <1>1, Enumerating DEF Entered, IInv, SlotOK
<1>3. UNCHANGED <<at, addr, hport>> /\ Voltage /\ Lowered
  BY <1>1, SameVoltage DEF physical, Lowered
<1>4. CASE /\ Accepted /\ on # Slots /\ on' = on \cup {Min(Slots \ on)}
           /\ dev' = [dev EXCEPT ![cur].slot = Min(Slots \ on)]
           /\ Stay("address") /\ Quietly
  <2>1. PICK s \in Slots : s = Min(Slots \ on) /\ s \notin on
    <3>1. Slots \ on \subseteq Nat /\ Slots \ on # {}
      BY <1>2, <1>4, Numbers DEF TypeOK, WorldTypes
    <3> QED
      BY <3>1, Least
  <2>2. pc' = "address" /\ UNCHANGED <<port, hub, hp, cur>>
    BY <1>4 DEF Stay, Goto
  <2> DEFINE e == [dev[cur] EXCEPT !.slot = s]
  <2>3. /\ e \in Device /\ e.slot = s /\ e.used = dev[cur].used
        /\ e.rootport = dev[cur].rootport /\ e.route = dev[cur].route
        /\ e.parent = dev[cur].parent /\ e.is_hub = dev[cur].is_hub /\ e.conn = dev[cur].conn
    <3>1. dev[cur] \in Device
      BY <1>2 DEF TypeOK, KernelTypes
    <3> QED
      BY <3>1 DEF Device
  <2>4. dev' = [dev EXCEPT ![cur] = e]
    BY <1>4, <2>1
  <2> HIDE DEF e
  <2>5. /\ dev' \in [DevSlots -> Device] /\ dev'[cur] = e
        /\ \A j \in DevSlots : j # cur => dev'[j] = dev[j]
    BY <1>2, <2>3, <2>4, PutDev
  <2>6. SameFrame
    BY <2>3, <2>5 DEF SameFrame
  <2>7. EnumTypes
    <3>1. on' \subseteq Slots /\ lost' \subseteq Devices
      BY <1>2, <1>4, <2>1, GiveUpTypes DEF TypeOK, WorldTypes
    <3> QED
      BY <1>1, <1>2, <1>3, <1>4, <2>5, <3>1 DEF EnumTypes, Accepted, TypeOK, WorldTypes
  <2>8. TypeOK'
    BY <1>1, <1>2, <1>4, <2>7, StayTypes DEF Entered
  <2>9. PlaceOK'
    BY <1>2, <1>4, <2>6, StayPlace DEF Entered
  <2>10. EntryOK' /\ OneDevicePerPlace' /\ ChildrenTracked'
    BY <1>2, <2>6, FrameKept
  <2>11. SlotOK'
    <3>1. \A j \in DevSlots : dev[j].used /\ j # cur => dev[j].slot \in on
      BY <1>1 DEF IInv, SlotOK
    <3>2. \A j \in DevSlots : dev'[j].used => IF j = cur THEN dev'[j].slot = s
                                             ELSE dev[j].used /\ dev'[j].slot = dev[j].slot
                                                  /\ dev[j].slot \in on
      BY <2>3, <2>5, <3>1
    <3>3. on' = on \cup {s}
      BY <1>4, <2>1
    <3> QED
      BY <2>1, <2>2, <3>2, <3>3 DEF IInv, SlotOK
  <2>12. AddrOK'
    <3>1. ASSUME NEW d \in Devices, addr'[d] # 0
          PROVE  \E j \in DevSlots : /\ dev'[j].used /\ dev'[j].slot = addr'[d]
                                     /\ d \in DevicesAt(dev[j].rootport, dev[j].route)'
      <4>1. PICK j \in DevSlots : /\ dev[j].used /\ dev[j].slot = addr[d]
                                  /\ d \in DevicesAt(dev[j].rootport, dev[j].route)
        BY <1>3, <3>1 DEF IInv, AddrOK
      <4>2. j # cur /\ dev'[j] = dev[j]
        BY <1>2, <1>3, <2>5, <3>1, <4>1
      <4> QED
        BY <1>3, <4>1, <4>2, SamePlaces
    <3> QED
      BY <3>1 DEF AddrOK
  <2>13. WorldOK' /\ PowerOK'
    BY <1>3, WorldStays
  <2>14. GoneOK'
    BY <2>2 DEF GoneOK
  <2> QED
    BY <2>8, <2>9, <2>10, <2>11, <2>12, <2>13, <2>14 DEF IInv
<1>5. CASE /\ UNCHANGED budget \/ Spend("faults")
           /\ dev' = [dev EXCEPT ![cur] = NoDev] /\ UNCHANGED on
           /\ Leave /\ GiveUp
  <2>1. NoDev \in Device
    BY DEF NoDev, Device
  <2>2. /\ dev' \in [DevSlots -> Device] /\ dev'[cur] = NoDev
        /\ \A j \in DevSlots : j # cur => dev'[j] = dev[j]
    BY <1>2, <1>5, <2>1, PutDev
  <2>3. HubsKept
    BY <1>2, <2>2 DEF HubsKept
  <2>4. Onward /\ cur' = 0
    BY <1>5, LeaveOnward
  <2>5. EnumTypes
    BY <1>1, <1>2, <1>3, <1>5, <2>2, GiveUpTypes, BudgetTypes DEF EnumTypes, TypeOK, WorldTypes
  <2>6. TypeOK'
    BY <1>1, <1>2, <2>3, <2>4, <2>5, OnwardTypes DEF TypeOK, KernelTypes
  <2>7. PlaceOK' /\ pc' \in {"ports", "hub_status", "idle"}
    BY <2>3, <2>4, OnwardPlace
  <2>8. WorldOK' /\ EntryOK' /\ SlotOK' /\ AddrOK' /\ PowerOK' /\ OneDevicePerPlace'
    <3>1. on' = on \ {dev[cur].slot}
      BY <1>2, <1>5, Numbers DEF TypeOK, WorldTypes
    <3>2. \A d \in Devices : addr'[d] # 0 => addr'[d] # dev[cur].slot
      BY <1>2
    <3> QED
      BY <1>1, <1>2, <1>3, <1>5, <2>7, <3>1, <3>2, DropKept
  <2>9. ChildrenTracked'
    <3>1. \A j \in DevSlots : dev'[j].used => j # cur /\ dev'[j] = dev[j]
      BY <2>2 DEF NoDev
    <3>2. \A j \in DevSlots : dev[j].used /\ dev[j].parent # 0 => dev[j].parent # cur
      BY <1>2 DEF ChildrenFull
    <3> QED
      BY <1>2, <2>2, <3>1, <3>2 DEF ChildrenTracked, ChildrenFull
  <2>10. GoneOK'
    BY <2>7 DEF GoneOK
  <2> QED
    BY <2>6, <2>7, <2>8, <2>9, <2>10 DEF IInv
<1> QED
  BY <1>1, <1>4, <1>5

\* Address Device: what is found at the place answers as the entry of the place.
LEMMA AddressDeviceInv == IInv /\ AddressDevice => IInv'
<1> SUFFICES ASSUME IInv, AddressDevice
             PROVE  IInv'
  OBVIOUS
<1>1. /\ pc = "address" /\ Quietly
      /\ UNCHANGED <<physical, rooten, hport, on, ep, posted, dev, modes, ped>>
      /\ \/ /\ Accepted /\ Stay("describe")
            /\ addr' = [d \in Devices |-> IF d \in Addressable THEN dev[cur].slot ELSE addr[d]]
         \/ /\ UNCHANGED budget \/ Spend("faults")
            /\ Stay("enum_drop") /\ UNCHANGED addr
  BY DEF AddressDevice, Wait, Refused
<1>2. /\ TypeOK /\ pc \in Entered /\ port \in Ports /\ cur \in DevSlots /\ dev[cur].used
      /\ Place(cur) = <<port, hp>> /\ dev[cur].slot \in on /\ ChildrenFull
  BY <1>1, Enumerating DEF Entered, IInv, SlotOK
<1>3. UNCHANGED <<at, hport, dev>> /\ Voltage /\ SameTable
  BY <1>1, SameVoltage DEF physical, SameTable, Shape
<1>4. CASE /\ UNCHANGED budget \/ Spend("faults")
           /\ Stay("enum_drop") /\ UNCHANGED addr
  <2>1. EnumTypes
    BY <1>1, <1>2, <1>3, <1>4, GiveUpTypes, BudgetTypes DEF EnumTypes, TypeOK, WorldTypes, KernelTypes
  <2>2. Lowered /\ "enum_drop" \in Entered
    BY <1>4 DEF Lowered, Entered
  <2> QED
    BY <1>1, <1>2, <1>3, <1>4, <2>1, <2>2, StayInv
<1>5. CASE /\ Accepted /\ Stay("describe")
           /\ addr' = [d \in Devices |-> IF d \in Addressable THEN dev[cur].slot ELSE addr[d]]
  <2>1. pc' = "describe" /\ UNCHANGED <<port, hub, hp, cur>>
    BY <1>5 DEF Stay, Goto
  <2>2. \A d \in Devices : addr'[d] = IF d \in Addressable THEN dev[cur].slot ELSE addr[d]
    BY <1>5
  <2>3. EnumTypes
    <3>1. addr' \in [Devices -> Slots \cup {0}]
      BY <1>2, <1>5 DEF TypeOK, WorldTypes
    <3> QED
      BY <1>1, <1>2, <1>3, <1>5, <3>1, GiveUpTypes DEF EnumTypes, Accepted, TypeOK, WorldTypes, KernelTypes
  <2>4. TypeOK'
    BY <1>1, <1>2, <1>5, <2>3, StayTypes DEF Entered
  <2>5. SameFrame
    BY <1>3, TableFrame
  <2>6. PlaceOK'
    BY <1>2, <1>5, <2>5, StayPlace DEF Entered
  <2>7. EntryOK' /\ OneDevicePerPlace' /\ ChildrenTracked'
    BY <1>2, <2>5, FrameKept
  <2>8. SlotOK'
    BY <1>1, <1>3, <2>1 DEF IInv, SlotOK
  <2>9. AddrOK'
    <3>1. ASSUME NEW d \in Devices, addr'[d] # 0
          PROVE  \E j \in DevSlots : /\ dev[j].used /\ dev[j].slot = addr'[d]
                                     /\ d \in DevicesAt(dev[j].rootport, dev[j].route)
      <4>1. CASE d \in Addressable
        <5>1. d \in DevicesAt(port, hp) /\ addr'[d] = dev[cur].slot
          BY <2>2, <4>1 DEF Addressable
        <5> QED
          BY <1>2, <5>1 DEF Place
      <4>2. CASE d \notin Addressable
        BY <2>2, <3>1, <4>2 DEF IInv, AddrOK
      <4> QED
        BY <4>1, <4>2
    <3> QED
      BY <1>3, <3>1, SamePlaces DEF AddrOK
  <2>10. PowerOK'
    <3>1. ASSUME NEW d \in Devices, addr'[d] # 0, OnHub(d)
          PROVE  hport[at[d][1]][at[d][2]].power
      <4>1. PICK h \in Hubs, q \in HubPorts : at[d] = <<h, q>>
        BY <1>2, <3>1, Whereabouts
      <4>2. CASE d \in Addressable
        BY <3>1, <4>1, <4>2 DEF Addressable, IInv, PowerOK
      <4>3. CASE d \notin Addressable
        BY <2>2, <3>1, <4>3 DEF IInv, PowerOK
      <4> QED
        BY <4>2, <4>3
    <3> QED
      BY <1>3, <3>1 DEF IInv, PowerOK, OnHub
  <2>11. WorldOK'
    BY <1>3 DEF IInv, WorldOK
  <2>12. GoneOK'
    BY <2>1 DEF GoneOK
  <2> QED
    BY <2>4, <2>6, <2>7, <2>8, <2>9, <2>10, <2>11, <2>12 DEF IInv
<1> QED
  BY <1>1, <1>4, <1>5

\* Only a device on a root port is found to be a hub.
LEMMA DescribedInv == IInv /\ Described => IInv'
<1> SUFFICES ASSUME IInv, Described
             PROVE  IInv'
  OBVIOUS
<1> DEFINE label == IF Physical(dev[cur].slot) \subseteq Hubs THEN "hub_describe" ELSE "configure"
<1>1. /\ pc = "describe" /\ Quietly /\ UNCHANGED <<physical, hardware, dev, modes, ped>>
      /\ \/ Answers(dev[cur].slot) /\ UNCHANGED budget /\ Stay(label)
         \/ (UNCHANGED budget \/ Spend("faults")) /\ Stay("enum_drop")
  BY DEF Described, Wait, Succeeds, Fails
<1>2. /\ TypeOK /\ pc \in Entered /\ cur \in DevSlots /\ dev[cur].used
      /\ Place(cur) = <<port, hp>> /\ dev[cur].slot \in on
      /\ dev[cur].parent = hub /\ (hub # 0 => hp # 0)
  <2>1. hub # 0 => hp \in HubPorts
    BY <1>1 DEF IInv, PlaceOK, OfPort, Entered
  <2> QED
    BY <1>1, <2>1, Enumerating, Numbers DEF Entered, IInv, SlotOK
<1>3. UNCHANGED <<at, hport, on, addr, rooten, posted, ep>> /\ Voltage /\ SameTable /\ Lowered
  BY <1>1, SameVoltage DEF physical, hardware, SameTable, Shape, Lowered
<1>4. EnumTypes
  <2>1. budget' \in [plugs : Nat, keys : Nat, faults : Nat]
    BY <1>1, <1>2, BudgetTypes
  <2> QED
    BY <1>1, <1>2, <1>3, <2>1, GiveUpTypes DEF EnumTypes, TypeOK, WorldTypes, KernelTypes
<1>5. CASE Answers(dev[cur].slot) /\ Stay(label)
  <2>1. label = "hub_describe" => hub = 0
    <3> SUFFICES ASSUME Physical(dev[cur].slot) \subseteq Hubs, hub # 0
                 PROVE  FALSE
      OBVIOUS
    <3>1. PICK d \in Devices : addr[d] = dev[cur].slot
      BY <1>5 DEF Answers
    <3>2. d \in Hubs
      BY <3>1 DEF Physical
    <3>3. addr[d] # 0
      BY <1>2, <3>1, Numbers DEF TypeOK, WorldTypes
    <3>4. d \in DevicesAt(port, hp)
      BY <1>2, <3>1, <3>3, AnswersAt DEF Place
    <3>5. PICK h \in Hubs : at[d] = <<h, hp>>
      BY <1>2, <3>4, AtPlace
    <3> QED
      BY <3>2, <3>5, Numbers DEF IInv, WorldOK
  <2>2. label \in Entered /\ label # "enable"
        /\ (label \in {"hub_describe", "hub_config", "hub_power"} => hub = 0)
    BY <2>1 DEF Entered
  <2>3. Stay(label)
    BY <1>5
  <2> HIDE DEF label
  <2> QED
    BY <1>1, <1>2, <1>3, <1>4, <2>2, <2>3, StayInv
<1>6. CASE Stay("enum_drop")
  BY <1>1, <1>2, <1>3, <1>4, <1>6, StayInv DEF Entered
<1> QED
  BY <1>1, <1>5, <1>6

LEMMA EnumDroppedInv == IInv /\ EnumDropped => IInv'
<1> SUFFICES ASSUME IInv, EnumDropped
             PROVE  IInv'
  OBVIOUS
<1>1. /\ pc = "enum_drop" /\ dev_drop(cur) /\ Leave /\ GiveUp
      /\ UNCHANGED <<physical, budget, modes, ped>>
  BY DEF EnumDropped, Wait
<1>2. /\ TypeOK /\ cur \in DevSlots /\ dev[cur].used /\ ~dev[cur].is_hub /\ ChildrenFull
  BY <1>1, Enumerating DEF Entered
<1>3. /\ dev' \in [DevSlots -> Device] /\ addr' \in [Devices -> Slots \cup {0}]
      /\ on' \subseteq Slots /\ ep' \in [Slots -> {"none", "idle", "armed", "halted"}]
      /\ dev' = [dev EXCEPT ![cur] = NoDev] /\ on' = on \ {dev[cur].slot}
      /\ Lowered /\ UNCHANGED <<rooten, hport, posted>>
      /\ \A d \in Devices : addr'[d] # 0 => addr'[d] # dev[cur].slot
  BY <1>1, <1>2, DevDrop
<1>4. NoDev \in Device
  BY DEF NoDev, Device
<1>5. dev'[cur] = NoDev /\ \A j \in DevSlots : j # cur => dev'[j] = dev[j]
  BY <1>2, <1>3, <1>4, PutDev
<1>6. HubsKept
  BY <1>2, <1>5 DEF HubsKept
<1>7. Onward /\ cur' = 0
  BY <1>1, LeaveOnward
<1>8. EnumTypes
  BY <1>1, <1>2, <1>3, GiveUpTypes DEF EnumTypes, TypeOK, WorldTypes
<1>9. TypeOK'
  BY <1>1, <1>2, <1>3, <1>6, <1>7, <1>8, OnwardTypes DEF TypeOK, KernelTypes
<1>10. PlaceOK' /\ pc' \in {"ports", "hub_status", "idle"}
  BY <1>6, <1>7, OnwardPlace
<1>11. WorldOK' /\ EntryOK' /\ SlotOK' /\ AddrOK' /\ PowerOK' /\ OneDevicePerPlace'
  BY <1>1, <1>2, <1>3, <1>10, SameVoltage, DropKept DEF physical
<1>12. ChildrenTracked'
  <2>1. \A j \in DevSlots : dev'[j].used => j # cur /\ dev'[j] = dev[j]
    BY <1>5 DEF NoDev
  <2>2. \A j \in DevSlots : dev[j].used /\ dev[j].parent # 0 => dev[j].parent # cur
    BY <1>2 DEF ChildrenFull
  <2> QED
    BY <1>2, <1>5, <2>1, <2>2 DEF ChildrenTracked, ChildrenFull
<1>13. GoneOK'
  BY <1>10 DEF GoneOK
<1> QED
  BY <1>9, <1>10, <1>11, <1>12, <1>13 DEF IInv

\* The entries of a place keep their slots.
LEMMA StayingAddr ==
    ASSUME IInv, Lowered, UNCHANGED at,
           \A j \in DevSlots : /\ dev'[j].used = dev[j].used /\ dev'[j].slot = dev[j].slot
                               /\ dev'[j].rootport = dev[j].rootport
                               /\ dev'[j].route = dev[j].route
    PROVE  AddrOK'
<1>1. ASSUME NEW d \in Devices, addr'[d] # 0
      PROVE  \E j \in DevSlots : /\ dev'[j].used /\ dev'[j].slot = addr'[d]
                                 /\ d \in DevicesAt(dev[j].rootport, dev[j].route)'
  <2>1. addr'[d] = addr[d]
    BY <1>1 DEF Lowered
  <2>2. PICK j \in DevSlots : /\ dev[j].used /\ dev[j].slot = addr[d]
                             /\ d \in DevicesAt(dev[j].rootport, dev[j].route)
    BY <1>1, <2>1 DEF IInv, AddrOK
  <2> QED
    BY <2>1, <2>2, SamePlaces
<1> QED
  BY <1>1 DEF AddrOK

LEMMA ConfiguredInv == IInv /\ Configured => IInv'
<1> SUFFICES ASSUME IInv, Configured
             PROVE  IInv'
  OBVIOUS
<1>1. /\ pc = "configure" /\ Leave /\ (Quietly \/ GiveUp)
      /\ UNCHANGED <<physical, addr, rooten, hport, on, posted, modes, ped>>
      /\ UNCHANGED budget \/ Spend("faults")
      /\ \/ /\ dev' = [dev EXCEPT ![cur].is_kbd = TRUE]
            /\ ep' = [ep EXCEPT ![dev[cur].slot] = "armed"]
         \/ UNCHANGED <<dev, ep>>
  BY DEF Configured, Wait, Accepted, Refused
<1>2. TypeOK /\ pc \in Entered /\ cur \in DevSlots /\ ChildrenFull
  BY <1>1, Enumerating DEF Entered
<1>3. dev[cur] \in Device /\ dev \in [DevSlots -> Device]
  BY <1>2 DEF TypeOK, KernelTypes
<1>4. dev' \in [DevSlots -> Device] /\ SameTable
  <2>1. CASE dev' = [dev EXCEPT ![cur].is_kbd = TRUE]
    <3>1. [dev[cur] EXCEPT !.is_kbd = TRUE] \in Device
      BY <1>3 DEF Device
    <3>2. dev' \in [DevSlots -> Device]
      BY <1>3, <2>1, <3>1
    <3>3. SameTable
      BY <1>3, <2>1 DEF SameTable, Shape, Device
    <3> QED
      BY <3>2, <3>3
  <2>2. CASE dev' = dev
    BY <1>3, <2>2 DEF SameTable, Shape
  <2> QED
    BY <1>1, <2>1, <2>2
<1>5. ep' \in [Slots -> {"none", "idle", "armed", "halted"}]
  BY <1>1, <1>2 DEF TypeOK, WorldTypes
<1>6. EnumTypes
  BY <1>1, <1>2, <1>4, <1>5, GiveUpTypes, BudgetTypes DEF EnumTypes, TypeOK, WorldTypes
<1>7. Onward /\ cur' = 0
  BY <1>1, LeaveOnward
<1>8. Voltage /\ Lowered
  BY <1>1, SameVoltage DEF Lowered
<1>9. ped' \in BOOLEAN
  BY <1>1, <1>2 DEF TypeOK, KernelTypes
<1> QED
  BY <1>1, <1>2, <1>4, <1>6, <1>7, <1>8, <1>9, OnwardInv

-----------------------------------------------------------------------------
(* hub_setup.                                                              *)

\* Steps that go on to a label, or leave and give the device up.
LEMMA SetupInv ==
    ASSUME IInv, pc \in {"hub_describe", "hub_config"}, NEW label \in {"hub_config", "hub_power"},
           UNCHANGED <<physical, hardware, dev, modes, ped>>,
           \/ UNCHANGED budget
           \/ Spend("faults"),
           \/ Stay(label) /\ Quietly
           \/ Leave /\ GiveUp
    PROVE  IInv'
<1>1. TypeOK /\ pc \in Entered /\ pc # "enable" /\ ChildrenFull /\ hub = 0
  <2>1. hub = 0
    BY DEF IInv, PlaceOK, OfPort, Entered
  <2> QED
    BY <2>1, Enumerating DEF Entered
<1>2. UNCHANGED <<at, hport, on, addr, rooten, posted, ep>> /\ Voltage /\ SameTable /\ Lowered
  BY SameVoltage DEF physical, hardware, SameTable, Shape, Lowered
<1>3. EnumTypes
  BY <1>1, <1>2, GiveUpTypes, BudgetTypes DEF EnumTypes, TypeOK, WorldTypes, KernelTypes
<1>4. CASE Stay(label)
  BY <1>1, <1>2, <1>3, <1>4, StayInv DEF Entered
<1>5. CASE Leave
  <2>1. Onward /\ cur' = 0 /\ ped' \in BOOLEAN
    BY <1>1, <1>5, LeaveOnward DEF TypeOK, KernelTypes
  <2> QED
    BY <1>1, <1>2, <1>3, <2>1, OnwardInv
<1> QED
  BY <1>4, <1>5

LEMMA HubDescribedInv == IInv /\ HubDescribed => IInv'
<1> SUFFICES ASSUME IInv, HubDescribed
             PROVE  IInv'
  OBVIOUS
<1>1. /\ pc = "hub_describe" /\ UNCHANGED <<physical, hardware, dev, modes, ped>>
      /\ UNCHANGED budget \/ Spend("faults")
      /\ (Stay("hub_config") /\ Quietly) \/ (Leave /\ GiveUp)
  BY DEF HubDescribed, Wait, Succeeds, Fails
<1> QED
  BY <1>1, SetupInv

LEMMA HubConfiguredInv == IInv /\ HubConfigured => IInv'
<1> SUFFICES ASSUME IInv, HubConfigured
             PROVE  IInv'
  OBVIOUS
<1>1. /\ pc = "hub_config" /\ UNCHANGED <<physical, hardware, dev, modes, ped>>
      /\ UNCHANGED budget \/ Spend("faults")
      /\ (Stay("hub_power") /\ Quietly) \/ (Leave /\ GiveUp)
  BY DEF HubConfigured, Wait, Accepted, Refused
<1> QED
  BY <1>1, SetupInv

\* The entry becomes a hub, on its root port, and is scanned.
LEMMA HubPoweredInv == IInv /\ HubPowered => IInv'
<1> SUFFICES ASSUME IInv, HubPowered
             PROVE  IInv'
  OBVIOUS
<1>1. /\ pc = "hub_power" /\ dev' = [dev EXCEPT ![cur].is_hub = TRUE] /\ ScanHub(cur) /\ cur' = 0
      /\ UNCHANGED <<physical, addr, rooten, on, ep, posted, modes, ped>>
      /\ UNCHANGED budget \/ Spend("faults")
      /\ Quietly \/ GiveUp
      /\ hport' = Powered(dev[cur].slot) \/ UNCHANGED hport
  BY DEF HubPowered, Wait, Succeeds, Fails
<1>2. /\ TypeOK /\ pc \in Entered /\ cur \in DevSlots /\ dev[cur].used /\ ChildrenFull
      /\ dev[cur].parent = 0 /\ dev[cur] \in Device
  <2>1. hub = 0
    BY <1>1 DEF IInv, PlaceOK, OfPort, Entered
  <2> QED
    BY <1>1, <2>1, Enumerating DEF Entered, TypeOK, KernelTypes
<1> DEFINE e == [dev[cur] EXCEPT !.is_hub = TRUE]
<1>3. /\ e \in Device /\ e.used = dev[cur].used /\ e.slot = dev[cur].slot
      /\ e.rootport = dev[cur].rootport /\ e.route = dev[cur].route
      /\ e.parent = dev[cur].parent /\ e.is_hub /\ e.conn = dev[cur].conn
  BY <1>2 DEF Device
<1>4. dev' = [dev EXCEPT ![cur] = e]
  BY <1>1
<1> HIDE DEF e
<1>5. /\ dev' \in [DevSlots -> Device] /\ dev'[cur] = e
      /\ \A j \in DevSlots : j # cur => dev'[j] = dev[j]
  BY <1>2, <1>3, <1>4, PutDev
<1>6. \A j \in DevSlots :
         /\ dev'[j].used = dev[j].used /\ dev'[j].slot = dev[j].slot
         /\ dev'[j].rootport = dev[j].rootport /\ dev'[j].route = dev[j].route
         /\ dev'[j].parent = dev[j].parent /\ dev'[j].conn = dev[j].conn
         /\ dev'[j].is_hub <=> dev[j].is_hub \/ j = cur
  BY <1>3, <1>5
<1>7. hport' \in [Hubs -> [HubPorts -> PortState]] /\ Voltage
  <2>1. CASE UNCHANGED hport
    BY <1>2, <2>1, SameVoltage DEF TypeOK, WorldTypes
  <2>2. CASE hport' = Powered(dev[cur].slot)
    <3> DEFINE st == [PortOff EXCEPT !.power = TRUE]
               all == [q \in HubPorts |-> st]
    <3>1. st \in PortState /\ st.power
      BY DEF PortOff, PortState
    <3>2. hport' = [h \in Hubs |-> IF h \in Physical(dev[cur].slot) THEN all ELSE hport[h]]
      BY <2>2 DEF Powered
    <3> HIDE DEF st
    <3>3. all \in [HubPorts -> PortState] /\ \A q \in HubPorts : all[q].power
      BY <3>1
    <3> HIDE DEF all
    <3>4. hport' \in [Hubs -> [HubPorts -> PortState]]
      BY <1>2, <3>2, <3>3 DEF TypeOK, WorldTypes
    <3>5. Voltage
      BY <3>2, <3>3 DEF Voltage, IInv, PowerOK
    <3> QED
      BY <3>4, <3>5
  <2> QED
    BY <1>1, <2>1, <2>2
<1>8. /\ pc' = "hub_status" /\ hub' = cur /\ hp' = 1 /\ port' = dev[cur].rootport
      /\ hub' # 0
  BY <1>1, <1>2, Numbers DEF ScanHub
<1>9. TypeOK'
  <2>1. dev[cur].rootport \in Ports
    BY <1>2 DEF IInv, EntryOK
  <2>2. \A p \in Ports : p \in Nat
    BY Numbers
  <2>3. port' \in Nat /\ hp' \in Nat /\ hub' \in DevSlots \cup {0} /\ cur' \in Nat
    BY <1>1, <1>2, <1>8, <2>1, <2>2
  <2>4. budget' \in [plugs : Nat, keys : Nat, faults : Nat] /\ lost' \subseteq Devices
    BY <1>1, <1>2, BudgetTypes, GiveUpTypes
  <2> QED
    BY <1>1, <1>2, <1>5, <1>7, <1>8, <2>3, <2>4 DEF physical, modes, TypeOK, WorldTypes,
       KernelTypes, OfPort, Entered, Scanning
<1>10. PlaceOK' /\ GoneOK'
  <2>1. ScannedHub'
    BY <1>2, <1>6, <1>8 DEF ScannedHub
  <2> QED
    BY <1>8, <2>1 DEF PlaceOK, GoneOK, OfPort, Scanning, Settling, Entered
<1>11. EntryOK'
  BY <1>2, <1>6 DEF IInv, EntryOK
<1>12. SlotOK'
  BY <1>1, <1>6, <1>8 DEF IInv, SlotOK
<1>13. OneDevicePerPlace'
  BY <1>6 DEF IInv, OneDevicePerPlace, Place
<1>14. ChildrenTracked'
  BY <1>2, <1>6 DEF ChildrenFull, ChildrenTracked
<1>15. UNCHANGED <<at, addr>> /\ Lowered
  BY <1>1 DEF physical, Lowered
<1>16. WorldOK' /\ PowerOK'
  BY <1>7, <1>15, WorldStays
<1>17. AddrOK'
  BY <1>6, <1>15, StayingAddr
<1> QED
  BY <1>9, <1>10, <1>11, <1>12, <1>13, <1>14, <1>16, <1>17 DEF IInv

-----------------------------------------------------------------------------
(* hub_scan.                                                               *)

\* While a hub is scanned.
LEMMA InScan ==
    ASSUME IInv, pc \in Scanning
    PROVE  /\ TypeOK /\ hub \in DevSlots /\ hub # 0 /\ dev[hub].used /\ dev[hub].is_hub
           /\ dev[hub].rootport = port /\ port \in Ports
           /\ dev[hub].parent = 0 /\ dev[hub].route = 0
           /\ dev[hub].slot \in Slots /\ dev[hub].slot # 0 /\ dev[hub].slot = Slot
           /\ dev[hub] \in Device
<1>1. hub # 0 /\ ScannedHub /\ TypeOK /\ pc # "enable"
  BY DEF IInv, PlaceOK, Scanning
<1>2. hub \in DevSlots /\ dev[hub].used /\ dev[hub].is_hub /\ dev[hub].rootport = port
  BY <1>1 DEF ScannedHub
<1>3. port \in Ports /\ dev[hub].parent = 0 /\ dev[hub].route = 0
  BY <1>2 DEF IInv, EntryOK
<1>4. dev[hub].slot \in Slots
  BY <1>1, <1>2 DEF IInv, SlotOK, TypeOK, WorldTypes
<1>5. dev[hub].slot # 0
  BY <1>4, Numbers
<1> QED
  BY <1>1, <1>2, <1>3, <1>4, <1>5 DEF Slot, TypeOK, KernelTypes

LEMMA ScanTypes ==
    ASSUME IInv, pc \in Scanning, EnumTypes, NEW label \in Scanning \cup {"enum"}, Goto(label),
           UNCHANGED <<physical, rooten, posted, modes, cur>>, ped' \in BOOLEAN
    PROVE  TypeOK'
<1>1. port \in Ports /\ UNCHANGED <<port, hub, hp>> /\ pc' = label
  BY InScan DEF Goto
<1> QED
  BY <1>1 DEF EnumTypes, physical, modes, IInv, TypeOK, WorldTypes, KernelTypes, OfPort

\* From the reset of a hub's port to the enumeration of what is there.
LEMMA SettleInv ==
    ASSUME IInv, pc \in Settling, EnumTypes, NEW label \in Settling \cup {"enum"}, Goto(label),
           UNCHANGED <<physical, addr, rooten, on, posted, dev, modes, cur>>, ped' \in BOOLEAN,
           Voltage
    PROVE  IInv'
<1>1. pc \in Scanning /\ pc \notin {"enable", "unplug", "hub_drop"} /\ label \in Scanning \cup {"enum"}
  BY DEF Settling, Scanning
<1>2. TypeOK'
  BY <1>1, ScanTypes
<1>3. UNCHANGED <<port, hub, hp>> /\ pc' = label /\ hub # 0
  BY <1>1, InScan DEF Goto
<1>4. hp \in HubPorts /\ hp \in dev[hub].conn /\ Free(port, hp) /\ ScannedHub
  BY <1>3 DEF IInv, PlaceOK
<1>5. Free(port, hp)' /\ ScannedHub'
  BY <1>3, <1>4 DEF Free, Place, ScannedHub
<1>6. PlaceOK'
  BY <1>3, <1>4, <1>5 DEF PlaceOK, Settling, Scanning, OfPort, Entered
<1>7. GoneOK' /\ pc' # "enable"
  BY <1>3 DEF GoneOK, Settling
<1>8. SameTable /\ Lowered /\ ChildrenFull /\ UNCHANGED at
  BY <1>1, Full DEF SameTable, Shape, Lowered, physical
<1> QED
  BY <1>1, <1>2, <1>6, <1>7, <1>8, KeepInv

\* The hub that answers is the device on the port of its entry.
LEMMA TheHub ==
    ASSUME IInv, pc \in Scanning, NEW d \in Devices, addr[d] = Slot
    PROVE  at[d] = <<Root, port>>
<1>1. d \in DevicesAt(port, 0)
  BY InScan, AnswersAt
<1> QED
  BY <1>1, AtPlace, InScan

\* The port of a hub that answers is taken only with an entry of its conn.
LEMMA BelievedFree ==
    ASSUME IInv, pc = "hub_status", hp \in HubPorts, hp \notin dev[hub].conn
    PROVE  Free(port, hp)
<1>1. /\ TypeOK /\ hub \in DevSlots /\ hub # 0 /\ dev[hub].used /\ dev[hub].is_hub
      /\ dev[hub].rootport = port /\ dev[hub].route = 0
  BY InScan DEF Scanning
<1>2. ChildrenFull
  BY Full
<1> SUFFICES ASSUME NEW i \in DevSlots, dev[i].used, dev[i].rootport = port, dev[i].route = hp
             PROVE  FALSE
  BY DEF Free, Place
<1>3. dev[i].parent # 0
  BY Numbers DEF IInv, EntryOK
<1> DEFINE p == dev[i].parent
<1>4. p \in DevSlots /\ dev[p].used /\ dev[p].is_hub /\ dev[p].rootport = port /\ hp \in dev[p].conn
  BY <1>2, <1>3 DEF ChildrenFull
<1>5. dev[p].route = 0
  BY <1>4 DEF IInv, EntryOK
<1>6. p = hub
  <2> HIDE DEF p
  <2> QED
    BY <1>1, <1>4, <1>5 DEF IInv, OneDevicePerPlace, Place
<1> QED
  BY <1>4, <1>6

\* A hub that answers with an empty port: who was there answers no more.
LEMMA DoubtGone ==
    ASSUME IInv, pc = "hub_status", hp \in HubPorts, Answers(Slot), ~Connected(hp),
           NEW i \in DevSlots, dev[i].used, dev[i].parent = hub, dev[i].route = hp,
           NEW d \in Devices, addr[d] = dev[i].slot
    PROVE  FALSE
<1>1. /\ TypeOK /\ hub \in DevSlots /\ hub # 0 /\ dev[hub].rootport = port
      /\ pc \in Scanning
  BY InScan DEF Scanning
<1>2. dev[i].rootport = port
  BY <1>1, Full DEF ChildrenFull
<1>3. addr[d] # 0
  BY <1>1, Numbers DEF IInv, SlotOK, TypeOK, WorldTypes
<1>4. d \in DevicesAt(port, hp)
  BY <1>2, <1>3, AnswersAt
<1>5. hp # 0
  BY Numbers
<1>6. PICK h \in Hubs : at[h] = <<Root, port>> /\ at[d] = <<h, hp>>
  BY <1>1, <1>4, <1>5, AtPlace
<1>7. PICK e \in Devices : addr[e] = Slot
  BY DEF Answers
<1>8. \A x \in Devices : addr[x] = Slot => x = h
  <2>1. <<Root, port>> # Nowhere /\ h \in Devices
    BY Numbers DEF Nowhere
  <2> QED
    BY <1>1, <1>6, <2>1, TheHub DEF IInv, WorldOK
<1>9. Hub = h
  <2>1. addr[h] = Slot /\ \A x \in Hubs : addr[x] = Slot => x = h
    BY <1>7, <1>8, Numbers
  <2> QED
    BY <2>1 DEF Hub
<1>10. d \in At(Hub, hp)
  BY <1>6, <1>9 DEF At
<1>11. State(hp).power
  <2>1. OnHub(d) /\ at[d][1] = h /\ at[d][2] = hp
    BY <1>6 DEF OnHub
  <2> QED
    BY <1>3, <1>9, <2>1 DEF State, IInv, PowerOK
<1> QED
  BY <1>10, <1>11 DEF Connected

\* An entry with another record of its ports.
WithConn(x, s) == [x EXCEPT !.conn = s]

LEMMA ConnOf ==
    ASSUME NEW x \in Device, NEW s \in SUBSET HubPorts
    PROVE  /\ WithConn(x, s) \in Device /\ WithConn(x, s).used = x.used
           /\ WithConn(x, s).slot = x.slot /\ WithConn(x, s).rootport = x.rootport
           /\ WithConn(x, s).route = x.route /\ WithConn(x, s).parent = x.parent
           /\ WithConn(x, s).is_hub = x.is_hub /\ WithConn(x, s).conn = s
  BY DEF Device, WithConn

LEMMA HubStatusInv == IInv /\ HubStatus => IInv'
<1> SUFFICES ASSUME IInv, HubStatus
             PROVE  IInv'
  OBVIOUS
<1>1. /\ pc = "hub_status" /\ UNCHANGED <<physical, hardware, modes, cur, ped, lost>>
      /\ UNCHANGED budget \/ Spend("faults")
      /\ \/ (ScanDone \/ NextHubPort) /\ UNCHANGED dev
         \/ hp \in HubPorts /\ hp \notin dev[hub].conn /\ Goto("hub_reset") /\ Believe
         \/ hp \in HubPorts /\ Answers(Slot) /\ ~Connected(hp) /\ Goto("hub_drop") /\ Doubt
  BY DEF HubStatus, Wait, Fails, Succeeds
<1>2. /\ TypeOK /\ pc \in Scanning /\ hub \in DevSlots /\ hub # 0 /\ dev[hub].used
      /\ dev[hub].is_hub /\ dev[hub].rootport = port /\ port \in Ports /\ dev[hub] \in Device
      /\ ChildrenFull
  BY <1>1, InScan, Full DEF Scanning
<1>3. UNCHANGED <<at, hport, on, addr, rooten, posted, ep>> /\ Voltage /\ Lowered
  BY <1>1, SameVoltage DEF physical, hardware, Lowered
<1>4. dev' \in [DevSlots -> Device] => EnumTypes
  BY <1>1, <1>2, <1>3, BudgetTypes DEF EnumTypes, TypeOK, WorldTypes, KernelTypes
<1>5. CASE (ScanDone \/ NextHubPort) /\ UNCHANGED dev
  <2>1. Onward
    BY <1>2, <1>5, ScanDoneOnward DEF Onward
  <2>2. SameTable
    BY <1>5 DEF SameTable, Shape
  <2>3. EnumTypes
    BY <1>2, <1>4, <1>5 DEF TypeOK, KernelTypes
  <2>4. cur' \in Nat /\ ped' \in BOOLEAN
    BY <1>1, <1>2 DEF TypeOK, KernelTypes
  <2> QED
    BY <1>1, <1>2, <1>3, <2>1, <2>2, <2>3, <2>4, OnwardInv
<1> DEFINE grown  == WithConn(dev[hub], dev[hub].conn \cup {hp})
           shrunk == WithConn(dev[hub], dev[hub].conn \ {hp})
<1>6. ASSUME hp \in HubPorts, NEW e \in {grown, shrunk}
      PROVE  /\ e \in Device /\ e.used = dev[hub].used /\ e.slot = dev[hub].slot
             /\ e.rootport = dev[hub].rootport /\ e.route = dev[hub].route
             /\ e.parent = dev[hub].parent /\ e.is_hub = dev[hub].is_hub
             /\ \A q : q # hp => (q \in e.conn <=> q \in dev[hub].conn)
             /\ e = grown => hp \in e.conn
  <2>1. dev[hub].conn \in SUBSET HubPorts
    BY <1>2 DEF Device
  <2>2. dev[hub].conn \cup {hp} \in SUBSET HubPorts /\ dev[hub].conn \ {hp} \in SUBSET HubPorts
    BY <1>6, <2>1
  <2>3. PICK x \in Device : x = dev[hub]
    BY <1>2
  <2>4. PICK s \in SUBSET HubPorts : e = WithConn(x, s) /\ e.conn = s
                                   /\ (s = x.conn \cup {hp} \/ s = x.conn \ {hp})
                                   /\ (e = grown => s = x.conn \cup {hp})
    <3>1. CASE e = grown
      <4>1. e.conn = x.conn \cup {hp}
        BY <2>2, <2>3, <3>1, ConnOf DEF grown
      <4> QED
        BY <2>2, <2>3, <3>1, <4>1 DEF grown
    <3>2. CASE e = shrunk /\ e # grown
      <4>1. e.conn = x.conn \ {hp}
        BY <2>2, <2>3, <3>2, ConnOf DEF shrunk
      <4> QED
        BY <2>2, <2>3, <3>2, <4>1 DEF shrunk
    <3> QED
      BY <1>6, <3>1, <3>2
  <2>5. /\ e \in Device /\ e.used = x.used /\ e.slot = x.slot
        /\ e.rootport = x.rootport /\ e.route = x.route
        /\ e.parent = x.parent /\ e.is_hub = x.is_hub
    BY <2>4, ConnOf
  <2>6. \A q : q # hp => (q \in s <=> q \in x.conn)
    BY <2>4
  <2> QED
    BY <2>3, <2>4, <2>5, <2>6
<1> HIDE DEF grown, shrunk
<1>7. ASSUME hp \in HubPorts, NEW e \in {grown, shrunk}, dev' = [dev EXCEPT ![hub] = e],
             NEW label \in {"hub_reset", "hub_drop"}, Goto(label)
      PROVE  /\ TypeOK' /\ WorldOK' /\ EntryOK' /\ SlotOK' /\ AddrOK' /\ PowerOK'
             /\ OneDevicePerPlace' /\ ScannedHub'
             /\ dev' \in [DevSlots -> Device] /\ dev'[hub] = e
             /\ \A j \in DevSlots : j # hub => dev'[j] = dev[j]
             /\ pc' = label /\ UNCHANGED <<port, hub, hp, cur>>
  <2>1. /\ dev' \in [DevSlots -> Device] /\ dev'[hub] = e
        /\ \A j \in DevSlots : j # hub => dev'[j] = dev[j]
    <3>1. e \in Device
      BY <1>6, <1>7
    <3> QED
      BY <1>2, <1>7, <3>1, PutDev
  <2>2. \A j \in DevSlots :
           /\ dev'[j].used = dev[j].used /\ dev'[j].slot = dev[j].slot
           /\ dev'[j].rootport = dev[j].rootport /\ dev'[j].route = dev[j].route
           /\ dev'[j].parent = dev[j].parent /\ dev'[j].is_hub = dev[j].is_hub
    BY <1>6, <1>7, <2>1
  <2>3. pc' = label /\ UNCHANGED <<port, hub, hp, cur>>
    BY <1>1, <1>7 DEF Goto
  <2>4. TypeOK'
    <3>1. ped' \in BOOLEAN /\ label \in Scanning \cup {"enum"}
      BY <1>1, <1>2 DEF TypeOK, KernelTypes, Scanning
    <3> QED
      BY <1>1, <1>2, <1>3, <1>4, <1>7, <2>1, <3>1, ScanTypes
  <2>5. EntryOK'
    BY <2>2 DEF IInv, EntryOK
  <2>6. SlotOK'
    BY <1>1, <1>3, <2>2, <2>3 DEF IInv, SlotOK
  <2>7. OneDevicePerPlace'
    BY <2>2 DEF IInv, OneDevicePerPlace, Place
  <2>8. AddrOK' /\ WorldOK' /\ PowerOK'
    BY <1>3, <2>2, StayingAddr, WorldStays
  <2>9. ScannedHub'
    BY <1>2, <2>2, <2>3 DEF ScannedHub
  <2> QED
    BY <2>1, <2>3, <2>4, <2>5, <2>6, <2>7, <2>8, <2>9
<1>8. CASE hp \in HubPorts /\ hp \notin dev[hub].conn /\ Goto("hub_reset") /\ Believe
  <2>1. dev' = [dev EXCEPT ![hub] = grown]
    BY <1>8 DEF Believe, grown, WithConn
  <2>2. /\ TypeOK' /\ WorldOK' /\ EntryOK' /\ SlotOK' /\ AddrOK' /\ PowerOK'
        /\ OneDevicePerPlace' /\ ScannedHub'
        /\ dev' \in [DevSlots -> Device] /\ dev'[hub] = grown
        /\ \A j \in DevSlots : j # hub => dev'[j] = dev[j]
        /\ pc' = "hub_reset" /\ UNCHANGED <<port, hub, hp, cur>>
    BY <1>7, <1>8, <2>1
  <2>3. /\ grown.used = dev[hub].used /\ grown.rootport = dev[hub].rootport
        /\ grown.route = dev[hub].route /\ grown.parent = dev[hub].parent
        /\ grown.is_hub = dev[hub].is_hub /\ hp \in grown.conn
        /\ \A q : q # hp => (q \in grown.conn <=> q \in dev[hub].conn)
    BY <1>6, <1>8
  <2>4. Free(port, hp)'
    <3>1. Free(port, hp)
      BY <1>1, <1>8, BelievedFree
    <3> QED
      BY <2>2, <2>3, <3>1 DEF Free, Place
  <2>5. PlaceOK' /\ GoneOK'
    BY <1>2, <1>8, <2>2, <2>3, <2>4 DEF PlaceOK, GoneOK, OfPort, Scanning, Settling, Entered
  <2>6. ChildrenTracked'
    <3>1. \A q : q \in dev[hub].conn => q \in dev'[hub].conn
      BY <2>2, <2>3
    <3>2. \A j \in DevSlots :
             /\ dev'[j].used = dev[j].used /\ dev'[j].rootport = dev[j].rootport
             /\ dev'[j].route = dev[j].route /\ dev'[j].parent = dev[j].parent
             /\ dev'[j].is_hub = dev[j].is_hub
             /\ \A q : q \in dev[j].conn => q \in dev'[j].conn
      BY <2>2, <2>3, <3>1
    <3> QED
      BY <1>2, <3>2 DEF ChildrenFull, ChildrenTracked
  <2> QED
    BY <2>2, <2>5, <2>6 DEF IInv
<1>9. CASE hp \in HubPorts /\ Answers(Slot) /\ ~Connected(hp) /\ Goto("hub_drop") /\ Doubt
  <2>1. dev' = [dev EXCEPT ![hub] = shrunk]
    BY <1>9 DEF Doubt, shrunk, WithConn
  <2>2. /\ TypeOK' /\ WorldOK' /\ EntryOK' /\ SlotOK' /\ AddrOK' /\ PowerOK'
        /\ OneDevicePerPlace' /\ ScannedHub'
        /\ dev' \in [DevSlots -> Device] /\ dev'[hub] = shrunk
        /\ \A j \in DevSlots : j # hub => dev'[j] = dev[j]
        /\ pc' = "hub_drop" /\ UNCHANGED <<port, hub, hp, cur>>
    BY <1>7, <1>9, <2>1
  <2>3. /\ shrunk.used = dev[hub].used /\ shrunk.slot = dev[hub].slot
        /\ shrunk.rootport = dev[hub].rootport
        /\ shrunk.route = dev[hub].route /\ shrunk.parent = dev[hub].parent
        /\ shrunk.is_hub = dev[hub].is_hub
        /\ \A q : q # hp => (q \in shrunk.conn <=> q \in dev[hub].conn)
    BY <1>6, <1>9
  <2>4. \A j \in DevSlots :
           /\ dev'[j].used = dev[j].used /\ dev'[j].slot = dev[j].slot
           /\ dev'[j].rootport = dev[j].rootport
           /\ dev'[j].route = dev[j].route /\ dev'[j].parent = dev[j].parent
           /\ dev'[j].is_hub = dev[j].is_hub
           /\ \A q : j # hub \/ q # hp => (q \in dev[j].conn => q \in dev'[j].conn)
    BY <2>2, <2>3
  <2>5. PlaceOK'
    BY <1>2, <1>9, <2>2 DEF PlaceOK, OfPort, Scanning, Settling, Entered
  <2>6. ChildrenTracked'
    <3>1. ASSUME NEW j \in DevSlots, dev[j].used, dev[j].parent # 0
          PROVE  \/ dev[j].route \in dev'[dev[j].parent].conn
                 \/ dev[j].parent = hub /\ dev[j].route = hp
      BY <1>2, <2>4, <3>1 DEF ChildrenFull
    <3> QED
      BY <1>2, <2>2, <2>4, <3>1 DEF ChildrenFull, ChildrenTracked
  <2>7. GoneOK'
    <3>1. ASSUME NEW j \in DevSlots, dev[j].used, dev[j].parent = hub, dev[j].route = hp
          PROVE  ~Answers(dev[j].slot)
      BY <1>1, <1>9, <3>1, DoubtGone DEF Answers
    <3>2. ASSUME NEW j \in DevSlots, dev[j].used, dev[j].parent = hub, dev[j].route = hp
          PROVE  ~Answers(dev[j].slot)'
      <4>1. ~Answers(dev[j].slot)
        BY <3>1, <3>2
      <4>2. dev'[j].slot = dev[j].slot
        BY <2>4
      <4> QED
        BY <1>3, <4>1, <4>2 DEF Answers
    <3> QED
      BY <2>2, <2>4, <3>2 DEF GoneOK, on_hub_port
  <2> QED
    BY <2>2, <2>5, <2>6, <2>7 DEF IInv
<1> QED
  BY <1>1, <1>5, <1>8, <1>9

\* A request to no hub changes none.
LEMMA NoHub ==
    ASSUME TypeOK, NEW h, h \notin Hubs, NEW q, NEW st, Sets(h, q, st)
    PROVE  UNCHANGED hport
<1> DEFINE f == [hport[h] EXCEPT ![q] = st]
<1>1. hport' = [hport EXCEPT ![h] = f]
  BY DEF Sets
<1> HIDE DEF f
<1>2. hport \in [Hubs -> [HubPorts -> PortState]]
  BY DEF TypeOK, WorldTypes
<1> QED
  BY <1>1, <1>2

\* PORT_RESET needs power, which the port of a connected device has.
LEMMA HubResetInv == IInv /\ HubReset => IInv'
<1> SUFFICES ASSUME IInv, HubReset
             PROVE  IInv'
  OBVIOUS
<1> DEFINE st == State(hp)
<1>1. /\ pc = "hub_reset" /\ Goto("hub_poll") /\ (Quietly \/ GiveUp)
      /\ UNCHANGED <<physical, addr, rooten, on, ep, posted, dev, modes, cur, ped>>
      /\ UNCHANGED budget \/ Spend("faults")
      /\ \/ UNCHANGED hport
         \/ Connected(hp) /\ Sets(Hub, hp, Begun(hport[Hub][hp]))
  BY DEF HubReset, Wait, Succeeds, Fails, Sets, Begun
<1>2. TypeOK /\ hp \in HubPorts /\ ped' \in BOOLEAN /\ pc \in Settling
  BY <1>1, InScan DEF Scanning, Settling, IInv, PlaceOK, TypeOK, KernelTypes
<1>3. hport' \in [Hubs -> [HubPorts -> PortState]] /\ Voltage
  <2>1. CASE UNCHANGED hport
    BY <1>2, <2>1, SameVoltage DEF TypeOK, WorldTypes
  <2>2. CASE Connected(hp) /\ Sets(Hub, hp, Begun(hport[Hub][hp]))
    <3>1. CASE Hub \in Hubs
      <4>1. hport[Hub][hp] \in PortState /\ hport[Hub][hp].power
        BY <1>2, <2>2, <3>1, PortTyped DEF Connected, State
      <4>2. /\ Begun(hport[Hub][hp]) \in PortState
            /\ Begun(hport[Hub][hp]).power = hport[Hub][hp].power
        BY <4>1, PortStates
      <4> QED
        BY <1>2, <2>2, <3>1, <4>1, <4>2, PortBits, SetsVoltage
    <3>2. CASE Hub \notin Hubs
      <4>1. UNCHANGED hport
        BY <1>2, <2>2, <3>2, NoHub
      <4> QED
        BY <1>2, <4>1, SameVoltage DEF TypeOK, WorldTypes
    <3> QED
      BY <3>1, <3>2
  <2> QED
    BY <1>1, <2>1, <2>2
<1>4. EnumTypes
  BY <1>1, <1>2, <1>3, BudgetTypes, GiveUpTypes DEF EnumTypes, TypeOK, WorldTypes, KernelTypes
<1> QED
  BY <1>1, <1>2, <1>3, <1>4, SettleInv DEF Settling

LEMMA HubPollInv == IInv /\ HubPoll => IInv'
<1> SUFFICES ASSUME IInv, HubPoll
             PROVE  IInv'
  OBVIOUS
<1>1. /\ pc = "hub_poll" /\ UNCHANGED <<physical, hardware, dev, modes, cur>>
      /\ UNCHANGED budget \/ Spend("faults")
      /\ Quietly \/ GiveUp
      /\ \/ ScanDone /\ UNCHANGED ped
         \/ /\ ped' = (State(hp).creset /\ State(hp).enabled)
            /\ Goto("hub_ack")
  BY DEF HubPoll, Wait, Succeeds, Fails
<1>2. TypeOK /\ pc \in Settling /\ ChildrenFull
  BY <1>1, Full DEF Settling, IInv
<1>3. UNCHANGED <<at, hport, on, addr, rooten, posted, ep>> /\ Voltage /\ Lowered /\ SameTable
  BY <1>1, SameVoltage DEF physical, hardware, Lowered, SameTable, Shape
<1>4. EnumTypes
  BY <1>1, <1>2, <1>3, BudgetTypes, GiveUpTypes DEF EnumTypes, TypeOK, WorldTypes, KernelTypes
<1>5. CASE ScanDone /\ UNCHANGED ped
  <2>1. Onward /\ cur' \in Nat /\ ped' \in BOOLEAN
    BY <1>1, <1>2, <1>5, ScanDoneOnward DEF TypeOK, KernelTypes
  <2> QED
    BY <1>1, <1>2, <1>3, <1>4, <2>1, OnwardInv
<1>6. CASE /\ ped' = (State(hp).creset /\ State(hp).enabled)
           /\ Goto("hub_ack")
  <2>1. ped' \in BOOLEAN
    BY <1>6
  <2> QED
    BY <1>1, <1>2, <1>3, <1>4, <1>6, <2>1, SettleInv DEF Settling
<1> QED
  BY <1>1, <1>5, <1>6

LEMMA HubAckInv == IInv /\ HubAck => IInv'
<1> SUFFICES ASSUME IInv, HubAck
             PROVE  IInv'
  OBVIOUS
<1>1. /\ pc = "hub_ack" /\ ped' = FALSE /\ (Goto("enum") \/ NextHubPort)
      /\ UNCHANGED <<physical, addr, rooten, on, ep, posted, dev, modes, cur, lost>>
      /\ UNCHANGED budget \/ Spend("faults")
      /\ \/ UNCHANGED hport
         \/ Sets(Hub, hp, Acked(hport[Hub][hp]))
  BY DEF HubAck, Wait, Succeeds, Fails, Sets, Acked
<1>2. /\ TypeOK /\ hp \in HubPorts /\ ped' \in BOOLEAN /\ pc \in Settling /\ ChildrenFull
      /\ hub # 0 /\ cur \in Nat
  BY <1>1, InScan, Full DEF Scanning, Settling, IInv, PlaceOK, TypeOK, KernelTypes
<1>3. hport' \in [Hubs -> [HubPorts -> PortState]] /\ Voltage
  <2>1. CASE UNCHANGED hport
    BY <1>2, <2>1, SameVoltage DEF TypeOK, WorldTypes
  <2>2. CASE Sets(Hub, hp, Acked(hport[Hub][hp]))
    <3>1. CASE Hub \in Hubs
      <4>1. hport[Hub][hp] \in PortState
        BY <1>2, <3>1, PortTyped
      <4>2. /\ Acked(hport[Hub][hp]) \in PortState
            /\ Acked(hport[Hub][hp]).power = hport[Hub][hp].power
            /\ Acked(hport[Hub][hp]).enabled = hport[Hub][hp].enabled
            /\ Acked(hport[Hub][hp]).resetting = hport[Hub][hp].resetting
        BY <4>1, PortStates
      <4>3. hport[Hub][hp].enabled \/ hport[Hub][hp].resetting => hport[Hub][hp].power
        BY <1>2, <3>1 DEF IInv, PowerOK
      <4> QED
        BY <1>2, <2>2, <3>1, <4>2, <4>3, PortBits, SetsVoltage
    <3>2. CASE Hub \notin Hubs
      <4>1. UNCHANGED hport
        BY <1>2, <2>2, <3>2, NoHub
      <4> QED
        BY <1>2, <4>1, SameVoltage DEF TypeOK, WorldTypes
    <3> QED
      BY <3>1, <3>2
  <2> QED
    BY <1>1, <2>1, <2>2
<1>4. EnumTypes
  BY <1>1, <1>2, <1>3, BudgetTypes DEF EnumTypes, TypeOK, WorldTypes, KernelTypes
<1>5. CASE Goto("enum")
  BY <1>1, <1>2, <1>3, <1>4, <1>5, SettleInv
<1>6. CASE NextHubPort
  <2>1. Onward /\ SameTable /\ Lowered /\ cur' \in Nat /\ pc # "enable"
    BY <1>1, <1>2, <1>6 DEF Onward, SameTable, Shape, Lowered
  <2> QED
    BY <1>1, <1>2, <1>3, <1>4, <2>1, OnwardInv
<1> QED
  BY <1>1, <1>5, <1>6

\* What was on the port of a hub is freed; it is no hub itself.
LEMMA HubDroppingInv == IInv /\ HubDropping => IInv'
<1> SUFFICES ASSUME IInv, HubDropping
             PROVE  IInv'
  OBVIOUS
<1>1. /\ pc = "hub_drop" /\ UNCHANGED <<physical, budget, modes, cur, ped, lost>>
      /\ \/ on_hub_port(hub, hp) = {} /\ NextHubPort /\ UNCHANGED <<dev, hardware>>
         \/ /\ on_hub_port(hub, hp) # {} /\ Goto("hub_drop")
            /\ dev_drop(Min(on_hub_port(hub, hp)))
  BY DEF HubDropping, Wait
<1>2. /\ TypeOK /\ pc \in Scanning /\ hub \in DevSlots /\ hub # 0 /\ dev[hub].used
      /\ dev[hub].is_hub /\ dev[hub].rootport = port /\ dev[hub].parent = 0
      /\ hp \in HubPorts /\ cur \in Nat /\ ped \in BOOLEAN
  BY <1>1, InScan DEF Scanning, IInv, PlaceOK, TypeOK, KernelTypes
<1>3. \A j \in DevSlots : dev[j].used /\ dev[j].parent # 0 =>
         /\ dev[j].parent \in DevSlots
         /\ dev[dev[j].parent].used /\ dev[dev[j].parent].is_hub
         /\ dev[dev[j].parent].rootport = dev[j].rootport
         /\ dev[j].route \in dev[dev[j].parent].conn \/ j \in on_hub_port(hub, hp)
  <2>1. \A j \in DevSlots : dev[j].parent \in DevSlots \cup {0}
    BY <1>2 DEF TypeOK, KernelTypes, Device
  <2> QED
    BY <1>1, <2>1 DEF IInv, ChildrenTracked, on_hub_port
<1>4. CASE on_hub_port(hub, hp) = {} /\ NextHubPort /\ UNCHANGED <<dev, hardware>>
  <2>1. ChildrenFull
    BY <1>3, <1>4 DEF ChildrenFull
  <2>2. Onward
    BY <1>2, <1>4 DEF Onward
  <2>3. UNCHANGED <<at, hport, on, addr, rooten, posted, ep>> /\ Voltage /\ Lowered /\ SameTable
    BY <1>1, <1>4, SameVoltage DEF physical, hardware, Lowered, SameTable, Shape
  <2>4. EnumTypes
    BY <1>1, <1>2, <1>4, <2>3 DEF EnumTypes, TypeOK, WorldTypes, KernelTypes
  <2> QED
    BY <1>1, <1>2, <2>1, <2>2, <2>3, <2>4, OnwardInv
<1>5. CASE /\ on_hub_port(hub, hp) # {} /\ Goto("hub_drop")
           /\ dev_drop(Min(on_hub_port(hub, hp)))
  <2>1. PICK i \in on_hub_port(hub, hp) : i = Min(on_hub_port(hub, hp))
    <3>1. on_hub_port(hub, hp) \subseteq Nat
      BY Numbers DEF on_hub_port
    <3> QED
      BY <1>5, <3>1, Least
  <2>2. /\ i \in DevSlots /\ dev[i].used /\ dev[i].parent = hub /\ dev_drop(i)
        /\ ~dev[i].is_hub /\ i # hub
    BY <1>2, <1>5, <2>1 DEF on_hub_port, IInv, EntryOK
  <2>3. pc' = "hub_drop" /\ UNCHANGED <<at, port, hub, hp, cur, hport>>
    BY <1>1, <1>5, <2>2 DEF Goto, physical, dev_drop
  <2>4. /\ dev' \in [DevSlots -> Device] /\ addr' \in [Devices -> Slots \cup {0}]
        /\ on' \subseteq Slots /\ ep' \in [Slots -> {"none", "idle", "armed", "halted"}]
        /\ dev' = [dev EXCEPT ![i] = NoDev] /\ on' = on \ {dev[i].slot}
        /\ Lowered /\ UNCHANGED <<rooten, hport, posted>>
        /\ \A d \in Devices : addr'[d] # 0 => addr'[d] # dev[i].slot
    BY <2>2, DevDrop
  <2>5. TypeOK'
    <3>1. EnumTypes
      BY <1>1, <1>2, <2>3, <2>4 DEF EnumTypes, TypeOK, WorldTypes, KernelTypes
    <3> QED
      BY <1>1, <1>2, <1>5, <2>4, <3>1, ScanTypes DEF Scanning
  <2>6. Voltage
    BY <2>3, SameVoltage
  <2>7. WorldOK' /\ EntryOK' /\ SlotOK' /\ AddrOK' /\ PowerOK' /\ OneDevicePerPlace'
    BY <1>1, <2>2, <2>3, <2>4, <2>6, DropKept
  <2>8. ~dev'[i].used /\ \A j \in DevSlots : j # i => dev'[j] = dev[j]
    BY <1>2, <2>2, <2>4 DEF TypeOK, KernelTypes, NoDev
  <2>9. PlaceOK'
    <3>1. ScannedHub'
      BY <1>2, <2>2, <2>3, <2>8 DEF ScannedHub
    <3> QED
      BY <1>2, <2>3, <3>1 DEF PlaceOK, OfPort, Scanning, Settling, Entered
  <2>10. \A j \in DevSlots : dev'[j].used => j # i /\ dev[j].used /\ dev'[j] = dev[j]
    BY <2>8
  <2>11. ChildrenTracked'
    <3>1. ASSUME NEW j \in DevSlots, dev[j].used, dev[j].parent # 0
          PROVE  dev[j].parent # i /\ dev'[dev[j].parent] = dev[dev[j].parent]
      BY <1>3, <2>2, <2>8, <3>1
    <3>2. \A j \in DevSlots : dev'[j].used => dev'[j].parent = dev[j].parent
                             /\ dev'[j].route = dev[j].route /\ dev'[j].rootport = dev[j].rootport
      BY <2>10
    <3>3. \A j \in on_hub_port(hub, hp) : dev[j].parent = hub /\ dev[j].route = hp
      BY DEF on_hub_port
    <3> QED
      BY <1>3, <2>3, <2>10, <3>1, <3>2, <3>3 DEF ChildrenTracked
  <2>12. GoneOK'
    <3>1. ASSUME NEW j \in DevSlots, dev'[j].used, dev'[j].parent = hub, dev'[j].route = hp
          PROVE  ~Answers(dev[j].slot)'
      <4>1. dev'[j] = dev[j] /\ j \in on_hub_port(hub, hp)
        BY <2>10, <3>1 DEF on_hub_port
      <4>2. PICK s \in on : s = dev[j].slot
        BY <1>1, <3>1, <2>10 DEF IInv, SlotOK
      <4>3. ~Answers(s) /\ s # 0
        BY <1>1, <1>2, <4>1, <4>2, Numbers DEF IInv, GoneOK, TypeOK, WorldTypes
      <4>4. ~Answers(s)'
        BY <2>4, <4>3, StillGone
      <4> QED
        BY <4>1, <4>2, <4>4
    <3> QED
      BY <2>3, <3>1 DEF GoneOK, on_hub_port
  <2> QED
    BY <2>5, <2>7, <2>9, <2>11, <2>12 DEF IInv
<1> QED
  BY <1>1, <1>4, <1>5

-----------------------------------------------------------------------------
(* kbd_recover, the sweep, and all steps together.                         *)

LEMMA RecoverInv == IInv /\ Recover => IInv'
<1> SUFFICES ASSUME IInv, Recover
             PROVE  IInv'
  OBVIOUS
<1> DEFINE broken == {i \in DevSlots : i > cur /\ dev[i].used /\ dev[i].need_recover}
           i == Min(broken)
<1>1. /\ pc = "recover"
      /\ UNCHANGED <<physical, addr, rooten, hport, on, posted, modes, port, hub, hp, ped>>
      /\ \/ pc' = "sweep" /\ cur' = 0 /\ UNCHANGED <<dev, ep, budget, lost>>
         \/ /\ broken # {} /\ pc' = "recover" /\ cur' = i
            /\ UNCHANGED budget \/ Spend("faults")
            /\ \/ /\ ep' = [ep EXCEPT ![dev[i].slot] = "armed"] /\ Quietly
                  /\ dev' = [dev EXCEPT ![i].need_recover = FALSE]
               \/ /\ UNCHANGED ep /\ lost' = lost \cup Physical(dev[i].slot)
                  /\ dev' = [dev EXCEPT ![i].need_recover = FALSE, ![i].is_kbd = FALSE]
  BY DEF Recover, Wait, Accepted, Refused
<1>2. TypeOK /\ hub = 0 /\ hp = 0 /\ ChildrenFull
  BY <1>1, OutsideHub DEF IInv
<1>3. PlaceOK' /\ GoneOK' /\ pc' # "enable" /\ pc # "enable"
  BY <1>1, <1>2, OutsidePlace
<1>4. UNCHANGED <<at, on, hport, addr>> /\ Voltage /\ Lowered
  BY <1>1, SameVoltage DEF physical, Lowered
<1>5. TypeOK' /\ SameTable
  <2>1. CASE pc' = "sweep" /\ cur' = 0 /\ UNCHANGED <<dev, ep, budget, lost>>
    BY <1>1, <1>2, <2>1 DEF physical, modes, TypeOK, WorldTypes, KernelTypes, SameTable, Shape,
       OfPort, Scanning, Entered
  <2>2. CASE /\ broken # {} /\ pc' = "recover" /\ cur' = i
             /\ UNCHANGED budget \/ Spend("faults")
             /\ \/ /\ ep' = [ep EXCEPT ![dev[i].slot] = "armed"] /\ Quietly
                   /\ dev' = [dev EXCEPT ![i].need_recover = FALSE]
                \/ /\ UNCHANGED ep /\ lost' = lost \cup Physical(dev[i].slot)
                   /\ dev' = [dev EXCEPT ![i].need_recover = FALSE, ![i].is_kbd = FALSE]
    <3>1. PICK b \in DevSlots : b = i
      <4>1. broken \subseteq Nat /\ broken \subseteq DevSlots
        BY Numbers
      <4> HIDE DEF broken
      <4> QED
        BY <2>2, <4>1, Least
    <3> HIDE DEF i
    <3>2. b \in Nat
      BY Numbers
    <3>3. dev[b] \in Device /\ dev \in [DevSlots -> Device]
      BY <1>2 DEF TypeOK, KernelTypes
    <3>4. lost' \subseteq Devices
      BY <1>2, <2>2 DEF Quietly, Physical, TypeOK, KernelTypes
    <3>5. ep' \in [Slots -> {"none", "idle", "armed", "halted"}]
      BY <1>2, <2>2 DEF TypeOK, WorldTypes
    <3>6. budget' \in [plugs : Nat, keys : Nat, faults : Nat]
      BY <1>2, <2>2, BudgetTypes
    <3>7. PICK e \in Device : /\ dev' = [dev EXCEPT ![b] = e]
                              /\ e.used = dev[b].used /\ e.slot = dev[b].slot
                              /\ e.rootport = dev[b].rootport /\ e.route = dev[b].route
                              /\ e.parent = dev[b].parent /\ e.is_hub = dev[b].is_hub
                              /\ e.conn = dev[b].conn
      <4>1. CASE dev' = [dev EXCEPT ![b].need_recover = FALSE]
        <5> DEFINE e == [dev[b] EXCEPT !.need_recover = FALSE]
        <5>1. /\ e \in Device
              /\ e.used = dev[b].used /\ e.slot = dev[b].slot
              /\ e.rootport = dev[b].rootport /\ e.route = dev[b].route
              /\ e.parent = dev[b].parent /\ e.is_hub = dev[b].is_hub
              /\ e.conn = dev[b].conn
          BY <3>3 DEF Device
        <5>2. dev' = [dev EXCEPT ![b] = e]
          BY <4>1
        <5> HIDE DEF e
        <5> QED
          BY <5>1, <5>2
      <4>2. CASE dev' = [dev EXCEPT ![b].need_recover = FALSE, ![b].is_kbd = FALSE]
        <5> DEFINE e == [dev[b] EXCEPT !.need_recover = FALSE, !.is_kbd = FALSE]
        <5>1. /\ e \in Device
              /\ e.used = dev[b].used /\ e.slot = dev[b].slot
              /\ e.rootport = dev[b].rootport /\ e.route = dev[b].route
              /\ e.parent = dev[b].parent /\ e.is_hub = dev[b].is_hub
              /\ e.conn = dev[b].conn
          BY <3>3 DEF Device
        <5>2. dev' = [dev EXCEPT ![b] = e]
          BY <3>3, <4>2
        <5> HIDE DEF e
        <5> QED
          BY <5>1, <5>2
      <4> QED
        BY <2>2, <3>1, <4>1, <4>2
    <3>8. /\ dev' \in [DevSlots -> Device] /\ dev'[b] = e
          /\ \A j \in DevSlots : j # b => dev'[j] = dev[j]
      BY <1>2, <3>7, PutDev
    <3>9. SameTable
      BY <3>7, <3>8 DEF SameTable, Shape
    <3>10. pc' = "recover" /\ cur' = b
      BY <2>2, <3>1
    <3> QED
      BY <1>1, <1>2, <3>2, <3>4, <3>5, <3>6, <3>8, <3>9, <3>10 DEF physical, modes, TypeOK,
         WorldTypes, KernelTypes, OfPort, Scanning, Entered
  <2> QED
    BY <1>1, <2>1, <2>2
<1> QED
  BY <1>2, <1>3, <1>4, <1>5, KeepInv

LEMMA SweepInv == IInv /\ Sweep => IInv'
<1> SUFFICES ASSUME IInv, Sweep
             PROVE  IInv'
  OBVIOUS
<1>1. /\ pc = "sweep" /\ UNCHANGED <<world, dev, pscan, cur, ped, booting, lost>>
      /\ \/ HubsFrom(1) # {} /\ ScanHub(Min(HubsFrom(1))) /\ hubscan' = "armed" /\ sweep' = TRUE
         \/ /\ Goto("idle") /\ UNCHANGED sweep
            /\ hubscan' = IF hubscan = "due" THEN "off" ELSE hubscan
  BY DEF Sweep
<1>2. TypeOK /\ hub = 0 /\ hp = 0 /\ ChildrenFull
  BY <1>1, OutsideHub DEF IInv
<1>3. UNCHANGED <<at, on, hport, addr, dev>>
  BY <1>1 DEF world
<1>4. hubscan' \in {"off", "armed", "due"} /\ sweep' \in BOOLEAN
  BY <1>1, <1>2 DEF TypeOK, KernelTypes
<1>5. /\ PlaceOK' /\ pc' \in {"ports", "hub_status", "idle"}
      /\ port' \in Nat /\ hub' \in DevSlots \cup {0} /\ hp' \in Nat
  <2>1. CASE HubsFrom(1) # {} /\ ScanHub(Min(HubsFrom(1)))
    <3>1. Onward
      BY <2>1, HubsLeast DEF Onward
    <3>2. HubsKept
      BY <1>3 DEF HubsKept
    <3> QED
      BY <3>1, <3>2, OnwardPlace
  <2>2. CASE Goto("idle")
    <3>1. pc' = "idle" /\ hub' = 0 /\ hp' = 0 /\ port' \in Nat
      BY <1>2, <2>2 DEF Goto, TypeOK, KernelTypes
    <3> QED
      BY <3>1, OutsidePlace
  <2> QED
    BY <1>1, <2>1, <2>2
<1>6. GoneOK' /\ pc' # "enable" /\ pc # "enable"
  BY <1>1, <1>5 DEF GoneOK
<1>7. TypeOK'
  BY <1>1, <1>2, <1>4, <1>5 DEF world, TypeOK, WorldTypes, KernelTypes, OfPort, Scanning, Entered
<1> QED
  BY <1>2, <1>3, <1>5, <1>6, <1>7, QuietInv

LEMMA InitInv == Init => IInv
<1> SUFFICES ASSUME Init
             PROVE  IInv
  OBVIOUS
<1>1. PortOff \in PortState /\ NoDev \in Device /\ ~NoDev.used
      /\ ~PortOff.enabled /\ ~PortOff.resetting
  BY DEF PortOff, PortState, NoDev, Device
<1>2. \A i \in DevSlots : dev[i] = NoDev
  BY DEF Init
<1>3. WorldTypes
  <2>1. [q \in HubPorts |-> PortOff] \in [HubPorts -> PortState]
    BY <1>1
  <2>2. hport \in [Hubs -> [HubPorts -> PortState]]
    BY <2>1 DEF Init
  <2>3. budget \in [plugs : Nat, keys : Nat, faults : Nat]
    BY HubAssumption DEF Init, HubAssumption
  <2>4. rpt \in [Slots -> [cc : {"none", "ok", "error"}, keys : SUBSET Usages]]
    BY DEF Init, NoEvent
  <2> QED
    BY <2>2, <2>3, <2>4 DEF Init, WorldTypes
<1>4. KernelTypes
  BY <1>1 DEF Init, KernelTypes, OfPort, Entered, Scanning
<1>5. WorldOK
  BY DEF Init, WorldOK
<1>6. PlaceOK /\ GoneOK
  BY DEF Init, PlaceOK, GoneOK, OfPort, Entered, Scanning, Settling
<1>7. EntryOK /\ SlotOK /\ ChildrenTracked /\ OneDevicePerPlace
  BY <1>1, <1>2 DEF EntryOK, SlotOK, ChildrenTracked, OneDevicePerPlace
<1>8. AddrOK /\ PowerOK
  <2>1. \A d \in Devices : addr[d] = 0
    BY DEF Init
  <2>2. \A h \in Hubs, q \in HubPorts : hport[h][q] = PortOff
    BY DEF Init
  <2> QED
    BY <1>1, <2>1, <2>2 DEF AddrOK, PowerOK
<1> QED
  BY <1>3, <1>4, <1>5, <1>6, <1>7, <1>8 DEF IInv, TypeOK

LEMMA StutterInv == IInv /\ UNCHANGED vars => IInv'
<1> SUFFICES ASSUME IInv, UNCHANGED vars
             PROVE  IInv'
  OBVIOUS
<1>1. UNCHANGED <<at, addr, hport, on, dev, pc, port, cur, hub, hp>>
  BY DEF vars, world, tables, place
<1>2. TypeOK'
  BY DEF vars, world, tables, place, IInv, TypeOK, WorldTypes, KernelTypes
<1>3. SameTable /\ Lowered /\ Voltage
  BY <1>1, SameVoltage DEF SameTable, Shape, Lowered
<1> QED
  BY <1>1, <1>2, <1>3, InPlaceInv, StayingInv DEF IInv, Voltage

LEMMA NextInv == IInv /\ [Next]_vars => IInv'
  BY PollStartInv, handle_eventInv, EventsDrainedInv, BootPortInv, PickPortInv, port_scanInv,
     ResetPortInv, UnpluggingInv, enum_deviceInv, EnableSlotInv, AddressDeviceInv, DescribedInv,
     EnumDroppedInv, ConfiguredInv, HubDescribedInv, HubConfiguredInv, HubPoweredInv,
     HubStatusInv, HubResetInv, HubPollInv, HubAckInv, HubDroppingInv, RecoverInv, SweepInv,
     TickInv, SurroundInv, StutterInv
     DEF Next, usbkbd_poll

\* The inductive invariant holds, whatever is plugged, pulled and retried.
THEOREM Invariance == Spec => []IInv
<1>1. Init => IInv
  BY InitInv
<1>2. IInv /\ [Next]_vars => IInv'
  BY NextInv
<1> QED
  BY <1>1, <1>2, PTL DEF Spec

\* No child of a hub outlives the record its hub keeps of it, so that a drop of
\* the port, or of the hub's root port, reaches it (hub_scan, port_scan).
THEOREM NoOrphans == Spec => []ChildrenTracked
<1>1. IInv => ChildrenTracked
  BY DEF IInv
<1> QED
  BY <1>1, Invariance, PTL

\* No device is enumerated twice: a place of the tree has one entry.
THEOREM PlacesAreUnique == Spec => []OneDevicePerPlace
<1>1. IInv => OneDevicePerPlace
  BY DEF IInv
<1> QED
  BY <1>1, Invariance, PTL

-----------------------------------------------------------------------------
(* Who is dropped.                                                         *)

\* The world leaves the table alone, and an event changes no entry's use.
LEMMA SurroundingsDev == Surroundings => UNCHANGED dev
<1>1. ASSUME NEW d, NEW x, NEW p, Plug(d, x, p)
      PROVE  UNCHANGED kernel
  BY <1>1 DEF Plug
<1>2. ASSUME NEW d, Unplug(d)
      PROVE  UNCHANGED kernel
  BY <1>2 DEF Unplug
<1>3. ASSUME NEW k, NEW u, Type(k, u)
      PROVE  UNCHANGED kernel
  BY <1>3 DEF Type
<1>4. ASSUME NEW h, NEW q, HubResets(h, q)
      PROVE  UNCHANGED kernel
  BY <1>4 DEF HubResets
<1>5. ASSUME NEW s, HcReport(s) \/ HcPipeError(s)
      PROVE  UNCHANGED kernel
  BY <1>5 DEF HcReport, HcPipeError
<1>6. Surroundings => UNCHANGED kernel
  BY <1>1, <1>2, <1>3, <1>4, <1>5 DEF Surroundings
<1> QED
  BY <1>6 DEF kernel, tables

LEMMA EventsKeep ==
    ASSUME IInv, handle_event, NEW i \in DevSlots, dev[i].used
    PROVE  dev'[i].used
<1>1. dev \in [DevSlots -> Device] /\ dev[i] \in Device
  BY DEF IInv, TypeOK, KernelTypes
<1>2. ASSUME NEW j \in DevSlots, NEW keys, dev' = [dev EXCEPT ![j].prev = keys]
      PROVE  dev'[i].used
  BY <1>1, <1>2 DEF Device
<1>3. ASSUME NEW j \in DevSlots, dev' = [dev EXCEPT ![j].need_recover = TRUE]
      PROVE  dev'[i].used
  BY <1>1, <1>3 DEF Device
<1>4. ASSUME NEW s \in Slots, OnReport(s)
      PROVE  dev'[i].used
  <2>1. \/ UNCHANGED dev
        \/ \E j \in DevSlots : dev' = [dev EXCEPT ![j].prev = rpt[s].keys]
        \/ \E j \in DevSlots : dev' = [dev EXCEPT ![j].need_recover = TRUE]
    BY <1>4 DEF OnReport, dev_by_slot
  <2> QED
    BY <1>2, <1>3, <2>1
<1>5. \A p \in posted : OnPort(p) => UNCHANGED dev
  BY DEF OnPort
<1> QED
  BY <1>4, <1>5 DEF handle_event

\* The steps that free no entry.
LEMMA UsedKept ==
    ASSUME IInv, Next, pc \notin {"enable", "enum_drop", "unplug", "hub_drop"},
           NEW i \in DevSlots, dev[i].used
    PROVE  dev'[i].used
<1>1. TypeOK /\ dev \in [DevSlots -> Device] /\ dev[i] \in Device
  BY DEF IInv, TypeOK, KernelTypes
<1>2. CASE UNCHANGED dev
  BY <1>2
<1>3. ASSUME NEW j \in DevSlots, NEW e, dev' = [dev EXCEPT ![j] = e], e.used \/ j # i
      PROVE  dev'[i].used
  BY <1>1, <1>3
<1>4. CASE Surroundings
  BY <1>2, <1>4, SurroundingsDev
<1>5. CASE handle_event
  BY <1>5, EventsKeep
<1>6. CASE enum_device
  <2> DEFINE new == [NoDev EXCEPT !.used = TRUE, !.rootport = port, !.route = hp, !.parent = hub]
  <2>1. \/ UNCHANGED dev
        \/ dev' = [dev EXCEPT ![Min({j \in DevSlots : ~dev[j].used})] = new]
    BY <1>6 DEF enum_device
  <2>2. new.used
    BY DEF NoDev
  <2> HIDE DEF new
  <2> QED
    BY <1>1, <1>2, <2>1, <2>2
<1>7. CASE Configured \/ HubPowered
  <2>1. \/ UNCHANGED dev
        \/ dev' = [dev EXCEPT ![cur].is_kbd = TRUE]
        \/ dev' = [dev EXCEPT ![cur].is_hub = TRUE]
    BY <1>7 DEF Configured, HubPowered
  <2> QED
    BY <1>1, <2>1 DEF Device
<1>8. CASE HubStatus
  <2>1. UNCHANGED dev \/ Believe \/ Doubt
    BY <1>8 DEF HubStatus
  <2>2. \/ UNCHANGED dev
        \/ \E s : dev' = [dev EXCEPT ![hub].conn = s]
    BY <2>1 DEF Believe, Doubt
  <2> QED
    BY <1>1, <2>2 DEF Device
<1>9. CASE Recover
  <2>1. \/ UNCHANGED dev
        \/ \E j : \/ dev' = [dev EXCEPT ![j].need_recover = FALSE]
                  \/ dev' = [dev EXCEPT ![j].need_recover = FALSE, ![j].is_kbd = FALSE]
    BY <1>9 DEF Recover
  <2>2. ASSUME NEW j, dev' = [dev EXCEPT ![j].need_recover = FALSE]
        PROVE  dev'[i].used
    BY <1>1, <2>2 DEF Device
  <2>3. ASSUME NEW j, dev' = [dev EXCEPT ![j].need_recover = FALSE, ![j].is_kbd = FALSE]
        PROVE  dev'[i].used
    <3>1. CASE j = i
      BY <1>1, <2>3, <3>1 DEF Device
    <3>2. CASE j # i
      BY <1>1, <2>3, <3>2
    <3> QED
      BY <3>1, <3>2
  <2> QED
    BY <2>1, <2>2, <2>3
<1>10. CASE PollStart \/ EventsDrained \/ port_scan \/ ResetPort \/ Tick
  BY <1>2, <1>10 DEF PollStart, EventsDrained, port_scan, ResetPort, Tick, tables
<1>11. CASE \/ BootPort \/ PickPort \/ AddressDevice \/ Described \/ HubDescribed \/ HubConfigured
            \/ HubReset \/ HubPoll \/ HubAck \/ Sweep
  BY <1>2, <1>11 DEF BootPort, PickPort, AddressDevice, Described, HubDescribed, HubConfigured,
     HubReset, HubPoll, HubAck, Sweep
<1>12. ~(EnableSlot \/ EnumDropped \/ Unplugging \/ HubDropping)
  BY DEF EnableSlot, EnumDropped, Unplugging, HubDropping, Wait
<1> QED
  BY <1>4, <1>5, <1>6, <1>7, <1>8, <1>9, <1>10, <1>11, <1>12 DEF Next, usbkbd_poll

\* In a drop, only entries of the place that is dropped are freed.
LEMMA DropsGone ==
    ASSUME IInv, Next, pc \in {"unplug", "hub_drop"},
           NEW i \in DevSlots, dev[i].used, ~dev'[i].used
    PROVE  ~Answers(dev[i].slot)
<1>1. TypeOK /\ dev \in [DevSlots -> Device] /\ dev[i] \in Device
  BY DEF IInv, TypeOK, KernelTypes
<1>2. ASSUME NEW s \in SUBSET DevSlots, s # {}, dev_drop(Min(s))
      PROVE  i \in s
  <2>1. s \subseteq Nat
    BY Numbers
  <2>2. Min(s) \in s
    BY <1>2, <2>1, Least
  <2> QED
    BY <1>1, <1>2, <2>2 DEF dev_drop
<1>3. CASE Unplugging
  <2>1. /\ pc = "unplug"
        /\ UNCHANGED dev \/ (on_port(port) # {} /\ dev_drop(Min(on_port(port))))
    BY <1>3 DEF Unplugging, Wait
  <2>2. on_port(port) \in SUBSET DevSlots
    BY DEF on_port
  <2>3. i \in on_port(port)
    BY <1>2, <2>1, <2>2
  <2> QED
    BY <2>1, <2>3 DEF IInv, GoneOK
<1>4. CASE HubDropping
  <2>1. /\ pc = "hub_drop"
        /\ \/ UNCHANGED dev
           \/ on_hub_port(hub, hp) # {} /\ dev_drop(Min(on_hub_port(hub, hp)))
    BY <1>4 DEF HubDropping, Wait
  <2>2. on_hub_port(hub, hp) \in SUBSET DevSlots
    BY DEF on_hub_port
  <2>3. i \in on_hub_port(hub, hp)
    BY <1>2, <2>1, <2>2
  <2> QED
    BY <2>1, <2>3 DEF IInv, GoneOK
<1>5. CASE handle_event
  BY <1>5, EventsKeep
<1>6. CASE Surroundings \/ Tick
  <2>1. UNCHANGED dev
    BY <1>6, SurroundingsDev DEF Tick
  <2> QED
    BY <2>1
<1> QED
  <2>1. usbkbd_poll => Unplugging \/ HubDropping \/ handle_event
    BY DEF usbkbd_poll, PollStart, EventsDrained, BootPort, PickPort, port_scan, ResetPort,
       enum_device, EnableSlot, AddressDevice, Described, EnumDropped, Configured, HubDescribed,
       HubConfigured, HubPowered, HubStatus, HubReset, HubPoll, HubAck, Recover, Sweep, Wait
  <2> QED
    BY <1>3, <1>4, <1>5, <1>6, <2>1 DEF Next

\* A detach frees only entries whose device answers no more; what else is freed
\* is the entry of an enumeration that failed (enum_device's fail path).
THEOREM OnlyTheGone == Spec => OnlyTheGoneAreDropped
<1>1. IInv /\ [Next]_vars =>
        \A i \in DevSlots : dev[i].used /\ ~dev'[i].used =>
          pc \in {"enable", "enum_drop"} \/ ~Answers(dev[i].slot)
  <2>1. UNCHANGED vars => UNCHANGED dev
    BY DEF vars, tables
  <2> QED
    BY <2>1, UsedKept, DropsGone
<1>2. IInv /\ [Next]_vars =>
        [\A i \in DevSlots : dev[i].used /\ ~dev'[i].used =>
          pc \in {"enable", "enum_drop"} \/ ~Answers(dev[i].slot)]_vars
  BY <1>1
<1> QED
  BY <1>2, Invariance, PTL DEF Spec, OnlyTheGoneAreDropped
=============================================================================
