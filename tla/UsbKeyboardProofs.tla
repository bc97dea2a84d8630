------------------------- MODULE UsbKeyboardProofs -------------------------
(***************************************************************************)
(* For every number of ports, keyboards, slots and table entries, every    *)
(* order of plugs, keys, reports, errors and timeouts: no port has two     *)
(* devices, the pipe of a keyboard is waited on exactly once, a slot of    *)
(* the controller is not leaked, only a held key repeats, and the devices  *)
(* settle on the keyboards that are plugged in.                            *)
(*                                                                         *)
(* The inductive invariant ties what is in flight to the kernel's place:   *)
(* at most one command is the one being waited for, it is the last of the  *)
(* queue, and once it is executed no other command that could disturb a    *)
(* device is left (QueueOK); what its answer says is still so when the     *)
(* wait returns (AnswerOK); no command left over from a wait that was      *)
(* given up names the slot of a working keyboard (CleanOK).  Hotplug needs  *)
(* more (HotInv): every port on which the devices are not the keyboards    *)
(* owes the driver a scan, which is due or under way.                      *)
(***************************************************************************)
EXTENDS UsbKeyboard, Integers, SequenceTheorems, FiniteSetTheorems, TLAPS

-----------------------------------------------------------------------------
(* The least element of a set of numbers.                                  *)

\* A chosen port, device or slot (Min) is one of those it is chosen from.
LEMMA Least ==
    ASSUME NEW S, S \subseteq Nat, S # {}
    PROVE  Min(S) \in S
<1>1. PICK n \in S : TRUE
  OBVIOUS
<1> DEFINE below == {0 .. k : k \in S \cap (0 .. n)}
           R == StrictSubsetOrdering(0 .. n)
<1>2. IsWellFoundedOn(R, SUBSET (0 .. n))
  <2>1. IsFiniteSet(0 .. n)
    BY <1>1, FS_Interval
  <2>2. IsWellFoundedOn(R, FiniteSubsetsOf(0 .. n))
    BY FS_StrictSubsetOrderingWellFounded
  <2>3. FiniteSubsetsOf(0 .. n) = SUBSET (0 .. n)
    BY <2>1, FS_FiniteSubsetsOfFinite
  <2> QED
    BY <2>2, <2>3
<1>3. below \subseteq SUBSET (0 .. n) /\ below # {}
  <2>1. n \in Nat /\ n \in 0 .. n
    BY <1>1
  <2> QED
    BY <2>1
<1> HIDE DEF R
<1>4. PICK i \in below : \A j \in below : <<j, i>> \notin R
  <2> HIDE DEF below
  <2> QED
    BY <1>2, <1>3, WFMin
<1>5. PICK m \in S \cap (0 .. n) : i = 0 .. m
  BY <1>4
<1>6. ASSUME NEW y \in S, y < m
      PROVE  FALSE
  <2>1. y \in Nat /\ m \in Nat /\ n \in Nat /\ m <= n
    BY <1>5
  <2>2. 0 .. y \in below
    BY <1>6, <2>1
  <2>3. /\ 0 .. y \subseteq 0 .. m /\ 0 .. y # 0 .. m
        /\ 0 .. y \subseteq 0 .. n /\ 0 .. m \subseteq 0 .. n
    BY <1>6, <2>1
  <2> QED
    BY <1>4, <1>5, <2>2, <2>3 DEF R, StrictSubsetOrdering
<1>7. \A y \in S : m =< y
  BY <1>5, <1>6
<1> QED
  BY <1>7 DEF Min

-----------------------------------------------------------------------------
(* The inductive invariant.                                                *)

Op      == {"enable", "address", "control", "configure", "disable", "reset", "setdeq"}
Command == [op : Op, slot : Slots \cup {0}, port : Nat, cur : BOOLEAN]
KeyName == Usages \cup {"rollover"}

Event ==
    [type : {"command"}, for : Command, cc : {"ok", "error"}, slot : Slots \cup {0}]
    \cup [type : {"control"}, slot : Slots \cup {0}, cc : {"ok", "error"}]
    \cup [type : {"port"}, port : Ports]
    \cup [type : {"report"}, slot : Slots, cc : {"ok", "error"},
          phys : Kbds \cup {None}, keys : SUBSET KeyName]

HcSlot == [phys : Kbds \cup {None}, on : BOOLEAN,
           ep : {"none", "idle", "armed", "halted", "stopped"}]

Device == [used : BOOLEAN, slot : Slots \cup {0}, rootport : Ports \cup {0},
           is_kbd : BOOLEAN, need_recover : BOOLEAN, prev : SUBSET KeyName]

\* The kernel's places: with a port in hand, before there is a device on it,
\* while one is brought up, while one is dropped.
OfPort      == {"read", "ack", "unplug", "reset", "read_reset", "ack_reset", "enum"}
Bare        == {"reset", "read_reset", "ack_reset", "enum"}
Enumerating == {"enabled", "addressed", "described", "configured", "enum_dropped"}
Dropping    == {"enum_dropped", "unplugged"}

WorldTypes ==
    /\ at \in [Kbds -> Ports \cup {0}] /\ key \in [Kbds -> SUBSET Usages]
    /\ fresh \in [Kbds -> BOOLEAN] /\ addr \in [Kbds -> Slots \cup {0}]
    /\ chg \in [Ports -> SUBSET {"C", "R"}] /\ enabled \in [Ports -> BOOLEAN]
    /\ hc \in [Slots -> HcSlot]
    /\ budget \in [plugs : Nat, keys : Nat, errors : Nat, timeouts : Nat]
    /\ budget.timeouts <= MaxTimeouts

KernelTypes ==
    /\ cmdq \in Seq(Command) /\ evq \in Seq(Event)
    /\ dev \in [DevSlots -> Device]
    /\ pscan \subseteq Ports
    /\ pc \in {"idle", "events", "ports", "recover", "repeat"} \cup OfPort \cup Waits
    /\ port \in Nat /\ cur \in Nat
    /\ sc \in [conn : BOOLEAN, chg : SUBSET {"C", "R"}, ped : BOOLEAN]
    /\ pc \in OfPort \cup Enumerating \cup {"unplugged"} => port \in Ports
    /\ pc \in Waits => cur \in DevSlots
    /\ wdone \in BOOLEAN /\ wcc \in {"none", "ok", "error"} /\ wslotout \in Slots \cup {0}

TypeOK == WorldTypes /\ KernelTypes

\* The waiter waits exactly where the kernel does, for a device in use.
WaitOK ==
    /\ wt = IF pc \notin Waits THEN "none" ELSE IF pc = "described" THEN "control" ELSE "command"
    /\ pc \in Waits => dev[cur].used
    /\ pc \in Enumerating => ~dev[cur].is_kbd /\ dev[cur].rootport = port
    /\ pc = "enabled" => dev[cur].slot = 0
    /\ wdone => wcc # "none" /\ pc \in Waits

\* A device has a slot of its own, which is on until the device is dropped.
DevOK ==
    /\ \A i \in DevSlots : dev[i].used =>
         /\ dev[i].rootport \in Ports
         /\ dev[i].slot \in Slots \/ (pc = "enabled" /\ cur = i)
         /\ dev[i].need_recover => dev[i].is_kbd
         /\ dev[i].slot # 0 /\ ~(pc \in Dropping /\ cur = i) => hc[dev[i].slot].on
    /\ \A i, j \in DevSlots :
         dev[i].used /\ dev[j].used /\ dev[i].slot = dev[j].slot => i = j

PortOK ==
    /\ OneDevicePerPort
    /\ pc \in Bare => dev_on_root(port) = {}

\* What each wait waits for.
OpOf == [enabled |-> "enable", addressed |-> "address", described |-> "control",
         configured |-> "configure", enum_dropped |-> "disable",
         unplugged |-> "disable", pipe_reset |-> "reset", dequeued |-> "setdeq"]

\* The command waited for has been executed; event n is its completion.
Executed == \A n \in DOMAIN cmdq : ~cmdq[n].cur
Done(n)  == n \in DOMAIN evq /\ evq[n].type = "command" /\ evq[n].for.cur

QueueOK ==
    /\ \A n \in DOMAIN cmdq :
         /\ cmdq[n].op # "enable" => cmdq[n].slot \in Slots
         /\ cmdq[n].cur =>
              /\ pc \in Waits /\ n = Len(cmdq) /\ cmdq[n].op = OpOf[pc]
              /\ cmdq[n].op # "enable" => cmdq[n].slot = dev[cur].slot
              /\ wt = "command" => ~wdone
    /\ \A n \in DOMAIN evq : Done(n) =>
         /\ pc \in Waits /\ wt = "command" /\ ~wdone /\ Executed
         /\ \A m \in DOMAIN evq : Done(m) => m = n
    /\ pc \in Waits /\ (Executed \/ pc = "described") =>
         \A n \in DOMAIN cmdq : cmdq[n].op = "control"

\* The command waited for ended in how, with slot s: handled or on its way.
Answer(how, s) ==
    \/ wdone /\ wcc = how /\ wslotout = s
    \/ \E n \in DOMAIN evq : Done(n) /\ evq[n].cc = how /\ evq[n].slot = s

AnswerOK ==
    /\ pc = "enabled" => \A s \in Slots \cup {0} : Answer("ok", s) =>
         s \in Slots /\ hc[s].on /\ hc[s].ep = "none" /\ dev_by_slot(s) = {}
    /\ pc \in {"configured", "dequeued"} => \A s \in Slots \cup {0} : Answer("ok", s) =>
         hc[dev[cur].slot].ep = "idle"

\* No command but the one waited for can disturb device i's slot; none can
\* disable the slot of a device in use.
Clean(i) ==
    \A n \in DOMAIN cmdq :
       cmdq[n].op \notin {"enable", "control"} /\ cmdq[n].slot = dev[i].slot => cmdq[n].cur

CleanOK ==
    \A i \in DevSlots : dev[i].used =>
       /\ dev[i].is_kbd \/ (pc \in {"addressed", "described", "configured"} /\ cur = i) => Clean(i)
       /\ \A n \in DOMAIN cmdq :
            cmdq[n].op = "disable" /\ cmdq[n].slot = dev[i].slot => cmdq[n].cur

\* Where the one TRB of keyboard i is: lost to an error that is being or will
\* be recovered, armed, or in one event that waits to be handled.
PipeState(i) ==
    IF Recovering(i) \/ dev[i].need_recover
    THEN /\ ~(Recovering(i) /\ dev[i].need_recover)
         /\ ReportsOf(dev[i].slot) = {} /\ hc[dev[i].slot].ep # "armed"
    ELSE \/ ReportsOf(dev[i].slot) = {} /\ hc[dev[i].slot].ep = "armed"
         \/ \E n \in DOMAIN evq :
              /\ ReportsOf(dev[i].slot) = {n}
              /\ hc[dev[i].slot].ep = IF evq[n].cc = "ok" THEN "idle" ELSE "halted"

PipeOK ==
    \A i \in DevSlots : Keyboard(i) /\ ~(pc = "unplugged" /\ cur = i) => PipeState(i)

\* While no wait was given up: a slot that is on is owned or being handed
\* over, no command is left over, and a slot is off once its drop is answered.
SlotOK ==
    NoTimeouts =>
       /\ \A s \in Slots : hc[s].on =>
            dev_by_slot(s) # {} \/ (pc = "enabled" /\ Answer("ok", s))
       /\ \A n \in DOMAIN cmdq : cmdq[n].op # "control" => cmdq[n].cur
       /\ pc \in Dropping =>
            \A how \in {"ok", "error"}, s \in Slots \cup {0} :
               Answer(how, s) => ~hc[dev[cur].slot].on

IInv ==
    /\ TypeOK /\ WaitOK /\ DevOK /\ PortOK /\ QueueOK /\ AnswerOK
    /\ CleanOK /\ PipeOK /\ SlotOK /\ RepeatHasKeyUnlessAbandoned

-----------------------------------------------------------------------------
(* The sequences.                                                          *)

\* An event at the end of the event ring.
LEMMA Appended ==
    ASSUME TypeOK, NEW e \in Event, evq' = Append(evq, e)
    PROVE  /\ evq' \in Seq(Event) /\ Len(evq) \in Nat
           /\ DOMAIN evq = 1 .. Len(evq) /\ DOMAIN evq' = 1 .. Len(evq) + 1
           /\ \A n \in DOMAIN evq : evq'[n] = evq[n]
           /\ evq'[Len(evq) + 1] = e
  BY AppendProperties DEF TypeOK, KernelTypes

\* The event at its head is handled.
LEMMA Handled ==
    ASSUME TypeOK, evq # <<>>, evq' = Tail(evq)
    PROVE  /\ evq' \in Seq(Event) /\ Len(evq) \in Nat \ {0}
           /\ DOMAIN evq = 1 .. Len(evq) /\ DOMAIN evq' = 1 .. Len(evq) - 1
           /\ \A n \in DOMAIN evq' : evq'[n] = evq[n + 1]
           /\ Head(evq) = evq[1] /\ Head(evq) \in Event
<1>1. evq \in Seq(Event)
  BY DEF TypeOK, KernelTypes
<1>2. /\ Head(evq) \in Event /\ Tail(evq) \in Seq(Event) /\ Len(Tail(evq)) = Len(evq) - 1
      /\ \A n \in 1 .. Len(Tail(evq)) : Tail(evq)[n] = evq[n + 1]
  BY <1>1, HeadTailProperties
<1> QED
  BY <1>1, <1>2

\* The command at i is executed, and leaves the queue.
LEMMA Removed ==
    ASSUME TypeOK, NEW i \in DOMAIN cmdq, cmdq' = RemoveAt(cmdq, i)
    PROVE  /\ cmdq' \in Seq(Command) /\ Len(cmdq) \in Nat \ {0}
           /\ DOMAIN cmdq = 1 .. Len(cmdq)
           /\ Len(cmdq') = Len(cmdq) - 1 /\ DOMAIN cmdq' = 1 .. Len(cmdq) - 1
           /\ \A n \in DOMAIN cmdq' : cmdq'[n] = cmdq[IF n < i THEN n ELSE n + 1]
<1> DEFINE before == SubSeq(cmdq, 1, i - 1)
           after == SubSeq(cmdq, i + 1, Len(cmdq))
<1>1. /\ cmdq \in Seq(Command) /\ Len(cmdq) \in Nat /\ DOMAIN cmdq = 1 .. Len(cmdq)
      /\ i \in 1 .. Len(cmdq)
  BY DEF TypeOK, KernelTypes
<1>2. /\ before \in Seq(Command) /\ Len(before) = i - 1
      /\ \A n \in 1 .. i - 1 : before[n] = cmdq[n]
  BY <1>1
<1>3. /\ after \in Seq(Command) /\ Len(after) = Len(cmdq) - i
      /\ \A n \in 1 .. Len(cmdq) - i : after[n] = cmdq[i + n]
  BY <1>1
<1> HIDE DEF before, after
<1>4. cmdq' = before \o after
  BY DEF RemoveAt, before, after
<1>5. /\ cmdq' \in Seq(Command) /\ Len(cmdq') = Len(cmdq) - 1
      /\ \A n \in 1 .. Len(cmdq) - 1 :
           cmdq'[n] = IF n <= Len(before) THEN before[n] ELSE after[n - Len(before)]
  <2>1. Len(before) \in Nat /\ Len(after) \in Nat /\ Len(before) + Len(after) = Len(cmdq) - 1
    BY <1>1, <1>2, <1>3
  <2>2. /\ before \o after \in Seq(Command)
        /\ Len(before \o after) = Len(before) + Len(after)
        /\ \A n \in 1 .. Len(before) + Len(after) :
             (before \o after)[n] = IF n <= Len(before) THEN before[n] ELSE after[n - Len(before)]
    BY <1>2, <1>3, ConcatProperties
  <2> QED
    BY <1>4, <2>1, <2>2
<1>6. ASSUME NEW n \in 1 .. Len(cmdq) - 1
      PROVE  cmdq'[n] = cmdq[IF n < i THEN n ELSE n + 1]
  <2>1. CASE n < i
    BY <1>1, <1>2, <1>5, <2>1
  <2>2. CASE n >= i
    <3>1. /\ n - (i - 1) \in 1 .. Len(cmdq) - i /\ i + (n - (i - 1)) = n + 1
          /\ ~(n <= i - 1) /\ ~(n < i)
      BY <1>1, <2>2
    <3> QED
      BY <1>2, <1>3, <1>5, <3>1
  <2> QED
    BY <1>1, <2>1, <2>2
<1> QED
  BY <1>1, <1>5, <1>6

\* Every command left over is forgotten.
LEMMA ForgottenFacts ==
    ASSUME TypeOK
    PROVE  /\ Forgotten \in Seq(Command) /\ Len(Forgotten) = Len(cmdq) /\ Len(cmdq) \in Nat
           /\ DOMAIN cmdq = 1 .. Len(cmdq) /\ DOMAIN Forgotten = 1 .. Len(cmdq)
           /\ \A n \in DOMAIN cmdq :
                /\ Forgotten[n].op = cmdq[n].op /\ Forgotten[n].slot = cmdq[n].slot
                /\ ~Forgotten[n].cur
<1>1. /\ cmdq \in Seq(Command) /\ Len(cmdq) \in Nat /\ DOMAIN cmdq = 1 .. Len(cmdq)
      /\ \A n \in DOMAIN cmdq : cmdq[n] \in Command
  BY DEF TypeOK, KernelTypes
<1>2. \A c \in Command : /\ [c EXCEPT !.cur = FALSE] \in Command
                         /\ [c EXCEPT !.cur = FALSE].op = c.op
                         /\ [c EXCEPT !.cur = FALSE].slot = c.slot
                         /\ ~[c EXCEPT !.cur = FALSE].cur
  BY DEF Command
<1>3. Forgotten \in [1 .. Len(cmdq) -> Command]
  BY <1>1, <1>2 DEF Forgotten
<1>4. Forgotten \in Seq(Command) /\ Len(Forgotten) = Len(cmdq)
  BY <1>1, <1>3
<1> QED
  BY <1>1, <1>2, <1>3, <1>4 DEF Forgotten

\* A command is put at the end of the queue and waited for.
LEMMA Issued ==
    ASSUME TypeOK, NEW op \in Op, NEW s \in Slots \cup {0}, NEW label, Issue(op, s, label)
    PROVE  /\ cmdq' \in Seq(Command) /\ Len(cmdq) \in Nat
           /\ Len(cmdq') = Len(cmdq) + 1
           /\ DOMAIN cmdq = 1 .. Len(cmdq) /\ DOMAIN cmdq' = 1 .. Len(cmdq) + 1
           /\ \A n \in DOMAIN cmdq :
                /\ cmdq'[n].op = cmdq[n].op /\ cmdq'[n].slot = cmdq[n].slot
                /\ ~cmdq'[n].cur
           /\ cmdq'[Len(cmdq) + 1].op = op /\ cmdq'[Len(cmdq) + 1].slot = s
           /\ cmdq'[Len(cmdq) + 1].cur
<1> DEFINE c == [op |-> op, slot |-> s, port |-> port, cur |-> TRUE]
<1>1. c \in Command
  BY DEF Command, TypeOK, KernelTypes
<1>2. c.op = op /\ c.slot = s /\ c.cur
  OBVIOUS
<1> HIDE DEF c
<1>3. cmdq' = Append(Forgotten, c)
  BY DEF Issue, c
<1> QED
  BY <1>1, <1>2, <1>3, ForgottenFacts, AppendProperties

\* The events the controller and the ports raise.
LEMMA EventTypes ==
    /\ \A c \in Command, s \in Slots \cup {0} :
         CmdDone(c, "ok", s) \in Event /\ CmdDone(c, "error", s) \in Event
    /\ \A s \in Slots \cup {0} : CtlDone(s, "ok") \in Event /\ CtlDone(s, "error") \in Event
    /\ \A p \in Ports : PortEvent(p) \in Event
    /\ \A s \in Slots, k \in Kbds \cup {None}, r \in SUBSET KeyName :
         Report(s, "ok", k, r) \in Event /\ Report(s, "error", k, r) \in Event
  BY DEF CmdDone, CtlDone, PortEvent, Report, Event

\* What an event carries.
LEMMA EventFields ==
    ASSUME NEW e \in Event
    PROVE  /\ e.type \in {"command", "control", "port", "report"}
           /\ e.type = "command" => e.for \in Command
           /\ e.type \in {"command", "control"} =>
                e.cc \in {"ok", "error"} /\ e.slot \in Slots \cup {0}
           /\ e.type = "port" => e.port \in Ports
           /\ e.type = "report" =>
                e.slot \in Slots /\ e.cc \in {"ok", "error"} /\ e.keys \in SUBSET KeyName
  BY DEF Event

\* A change bit of a port, and the event it may raise.
LEMMA PortChangeTypes ==
    ASSUME TypeOK, NEW p \in Ports, NEW bit \in {"C", "R"}, PortChange(p, bit, evq)
    PROVE  /\ chg' \in [Ports -> SUBSET {"C", "R"}]
           /\ evq' = evq \/ evq' = Append(evq, PortEvent(p))
           /\ evq' \in Seq(Event)
<1>1. evq' = evq \/ evq' = Append(evq, PortEvent(p))
  BY DEF PortChange
<1>2. evq' \in Seq(Event)
  BY <1>1, EventTypes, Appended DEF TypeOK, KernelTypes
<1> QED
  BY <1>1, <1>2 DEF PortChange, TypeOK, WorldTypes

LEMMA UserTypes == TypeOK /\ User => TypeOK'
<1> SUFFICES ASSUME TypeOK, User
             PROVE  TypeOK'
  OBVIOUS
<1>1. ASSUME NEW k \in Kbds, NEW p \in Ports, Plug(k, p)
      PROVE  TypeOK'
  <2>1. chg' \in [Ports -> SUBSET {"C", "R"}] /\ evq' \in Seq(Event)
    BY <1>1, PortChangeTypes DEF Plug
  <2>2. budget' \in [plugs : Nat, keys : Nat, errors : Nat, timeouts : Nat]
        /\ budget'.timeouts = budget.timeouts
    BY <1>1 DEF Plug, Spend, TypeOK, WorldTypes
  <2> QED
    BY <1>1, <2>1, <2>2 DEF Plug, TypeOK, WorldTypes, KernelTypes, kernel, waiter, keys
<1>2. ASSUME NEW k \in Kbds, Unplug(k)
      PROVE  TypeOK'
  <2>1. at[k] \in Ports
    BY <1>2 DEF Unplug, TypeOK, WorldTypes
  <2>2. chg' \in [Ports -> SUBSET {"C", "R"}] /\ evq' \in Seq(Event)
    BY <1>2, <2>1, PortChangeTypes DEF Unplug
  <2>3. budget' \in [plugs : Nat, keys : Nat, errors : Nat, timeouts : Nat]
        /\ budget'.timeouts = budget.timeouts
    BY <1>2 DEF Unplug, Spend, TypeOK, WorldTypes
  <2> QED
    BY <1>2, <2>1, <2>2, <2>3 DEF Unplug, TypeOK, WorldTypes, KernelTypes, kernel, waiter, keys
<1>3. ASSUME NEW k \in Kbds, NEW u \in Usages, Type(k, u)
      PROVE  TypeOK'
  <2>1. budget' \in [plugs : Nat, keys : Nat, errors : Nat, timeouts : Nat]
        /\ budget'.timeouts = budget.timeouts
    BY <1>3 DEF Type, Spend, TypeOK, WorldTypes
  <2> QED
    BY <1>3, <2>1 DEF Type, TypeOK, WorldTypes, KernelTypes, kernel, waiter, keys
<1> QED
  BY <1>1, <1>2, <1>3 DEF User

LEMMA PipeTypes ==
    ASSUME TypeOK, NEW s \in Slots, HcReport(s) \/ HcPipeError(s)
    PROVE  TypeOK'
<1>1. hc[s] \in HcSlot /\ hc[s].phys \in Kbds \cup {None}
  BY DEF TypeOK, WorldTypes, HcSlot
<1>2. CASE HcReport(s)
  <2>1. hc[s].phys \in Kbds
    BY <1>1, <1>2 DEF HcReport, Answers
  <2>2. Content(hc[s].phys) \in SUBSET KeyName
    BY <2>1 DEF Content, KeyName, TypeOK, WorldTypes
  <2>3. evq' \in Seq(Event)
    BY <1>2, <2>1, <2>2, EventTypes, Appended DEF HcReport
  <2>4. hc' \in [Slots -> HcSlot]
    BY <1>2 DEF HcReport, TypeOK, WorldTypes, HcSlot
  <2> QED
    BY <1>2, <2>1, <2>3, <2>4 DEF HcReport, TypeOK, WorldTypes, KernelTypes, kernel, waiter, keys
<1>3. CASE HcPipeError(s)
  <2>1. {} \in SUBSET KeyName
    OBVIOUS
  <2>2. evq' \in Seq(Event)
    BY <1>1, <1>3, <2>1, EventTypes, Appended DEF HcPipeError
  <2>3. hc' \in [Slots -> HcSlot]
    BY <1>3 DEF HcPipeError, TypeOK, WorldTypes, HcSlot
  <2>4. budget' \in [plugs : Nat, keys : Nat, errors : Nat, timeouts : Nat]
        /\ budget'.timeouts = budget.timeouts
    BY <1>3 DEF HcPipeError, Spend, TypeOK, WorldTypes
  <2> QED
    BY <1>3, <2>2, <2>3, <2>4 DEF HcPipeError, TypeOK, WorldTypes, KernelTypes, kernel, waiter, keys
<1> QED
  BY <1>2, <1>3

LEMMA CommandTypes == TypeOK /\ HcCommand => TypeOK'
<1> SUFFICES ASSUME TypeOK, HcCommand
             PROVE  TypeOK'
  OBVIOUS
<1>1. PICK i \in DOMAIN cmdq :
        /\ \/ cmdq[i].op = "enable" /\ Enable(cmdq[i])
           \/ cmdq[i].op = "address" /\ AddressDevice(cmdq[i])
           \/ cmdq[i].op = "configure" /\ Pipe(cmdq[i], {"none"}, "idle")
           \/ cmdq[i].op = "reset" /\ Pipe(cmdq[i], {"halted"}, "stopped")
           \/ cmdq[i].op = "setdeq" /\ Pipe(cmdq[i], {"stopped"}, "idle")
           \/ cmdq[i].op = "disable" /\ DisableSlot(cmdq[i])
           \/ cmdq[i].op = "control" /\ ControlTransfer(cmdq[i])
        /\ cmdq' = RemoveAt(cmdq, i)
  BY DEF HcCommand
<1> DEFINE c == cmdq[i]
<1>2. c \in Command /\ c.slot \in Slots \cup {0}
  <2>1. c \in Command
    BY DEF TypeOK, KernelTypes
  <2> QED
    BY <2>1 DEF Command
<1>3. hc \in [Slots -> HcSlot] /\ addr \in [Kbds -> Slots \cup {0}]
  BY DEF TypeOK, WorldTypes
<1>4. UNCHANGED <<at, key, fresh, chg, enabled, budget, kernel, missed>>
  BY DEF HcCommand
<1> HIDE DEF c
<1>5. /\ hc' \in [Slots -> HcSlot] /\ addr' \in [Kbds -> Slots \cup {0}]
      /\ evq' \in Seq(Event)
  <2>1. CASE Enable(c)
    <3>1. CASE FreeSlots = {}
      BY <1>2, <1>3, <2>1, <3>1, EventTypes, Appended DEF Enable
    <3>2. CASE FreeSlots # {}
      <4>1. Min(FreeSlots) \in FreeSlots /\ FreeSlots \subseteq Slots
        BY <3>2, Least, UsbAssumption DEF FreeSlots, UsbAssumption
      <4>2. evq' \in Seq(Event)
        BY <1>2, <2>1, <3>2, <4>1, EventTypes, Appended DEF Enable
      <4>3. [FreeSlot EXCEPT !.on = TRUE] \in HcSlot
        BY DEF FreeSlot, HcSlot
      <4> QED
        BY <1>3, <2>1, <3>2, <4>1, <4>2, <4>3 DEF Enable
    <3> QED
      BY <3>1, <3>2
  <2>2. CASE AddressDevice(c)
    <3> DEFINE there == Here(c.port)
    <3>1. CASE there # {} /\ enabled[c.port] /\ hc[c.slot].on
      <4> DEFINE k == CHOOSE x \in there : TRUE
      <4>1. k \in Kbds
        BY <3>1 DEF Here
      <4>2. /\ hc' = [hc EXCEPT ![c.slot].phys = k] /\ addr' = [addr EXCEPT ![k] = c.slot]
            /\ evq' = Append(evq, CmdDone(c, "ok", 0))
        BY <2>2, <3>1 DEF AddressDevice
      <4> HIDE DEF k
      <4>3. hc' \in [Slots -> HcSlot] /\ addr' \in [Kbds -> Slots \cup {0}]
        BY <1>2, <1>3, <4>1, <4>2 DEF HcSlot
      <4> QED
        BY <1>2, <4>2, <4>3, EventTypes, Appended
    <3>2. CASE ~(there # {} /\ enabled[c.port] /\ hc[c.slot].on)
      <4>1. hc' = hc /\ addr' = addr /\ evq' = Append(evq, CmdDone(c, "error", 0))
        BY <2>2, <3>2 DEF AddressDevice
      <4> QED
        BY <1>2, <1>3, <4>1, EventTypes, Appended
    <3> QED
      BY <3>1, <3>2
  <2>3. ASSUME NEW from, NEW to \in {"idle", "stopped"}, Pipe(c, from, to)
        PROVE  /\ hc' \in [Slots -> HcSlot] /\ addr' \in [Kbds -> Slots \cup {0}]
               /\ evq' \in Seq(Event)
    <3>1. hc' \in [Slots -> HcSlot]
      BY <1>2, <1>3, <2>3 DEF Pipe, HcSlot
    <3>2. evq' \in Seq(Event)
      BY <1>2, <2>3, EventTypes, Appended DEF Pipe
    <3> QED
      BY <1>3, <2>3, <3>1, <3>2 DEF Pipe
  <2>4. CASE DisableSlot(c)
    <3>1. FreeSlot \in HcSlot
      BY DEF FreeSlot, HcSlot
    <3>2. evq' \in Seq(Event)
      BY <1>2, <2>4, EventTypes, Appended DEF DisableSlot
    <3> QED
      BY <1>2, <1>3, <2>4, <3>1, <3>2 DEF DisableSlot
  <2>5. CASE ControlTransfer(c)
    <3>1. evq' \in Seq(Event)
      BY <1>2, <2>5, EventTypes, Appended DEF ControlTransfer
    <3> QED
      BY <1>3, <2>5, <3>1 DEF ControlTransfer
  <2> QED
    BY <1>1, <2>1, <2>2, <2>3, <2>4, <2>5 DEF c
<1>6. cmdq' \in Seq(Command)
  BY <1>1, Removed
<1> QED
  BY <1>4, <1>5, <1>6 DEF TypeOK, WorldTypes, KernelTypes, kernel, waiter, keys

\* The doorbell changes the state of one pipe at most.
LEMMA ArmedFacts ==
    ASSUME TypeOK, NEW s \in Slots
    PROVE  /\ Armed(hc, s) \in [Slots -> HcSlot]
           /\ \A r \in Slots : /\ Armed(hc, s)[r].on = hc[r].on
                               /\ r # s => Armed(hc, s)[r] = hc[r]
           /\ Armed(hc, s)[s].ep = IF hc[s].ep = "idle" THEN "armed" ELSE hc[s].ep
<1>1. hc \in [Slots -> HcSlot]
  BY DEF TypeOK, WorldTypes
<1>2. CASE hc[s].ep = "idle"
  <2>1. Armed(hc, s) = [hc EXCEPT ![s].ep = "armed"]
    BY <1>2 DEF Armed
  <2> QED
    BY <1>1, <1>2, <2>1 DEF HcSlot
<1>3. CASE hc[s].ep # "idle"
  BY <1>1, <1>3 DEF Armed
<1> QED
  BY <1>2, <1>3

\* What handle_event does with the event at the head of the ring.
LEMMA EventTypeOK == TypeOK /\ handle_event => TypeOK'
<1> SUFFICES ASSUME TypeOK, handle_event
             PROVE  TypeOK'
  OBVIOUS
<1> DEFINE e == Head(evq)
<1>1. evq' \in Seq(Event) /\ e \in Event
  BY Handled DEF handle_event
<1>2. \/ e.type = "report" /\ OnReport(e)
      \/ e.type \in {"command", "control"} /\ OnCompletion(e)
      \/ e.type = "port" /\ OnPort(e)
  BY DEF handle_event
<1>3. UNCHANGED <<at, key, fresh, addr, chg, enabled, budget, cmdq, pc, port, cur, sc, ghosts>>
  BY DEF handle_event
<1>4. hc \in [Slots -> HcSlot] /\ dev \in [DevSlots -> Device]
  BY DEF TypeOK, WorldTypes, KernelTypes
<1> HIDE DEF e
<1>5. CASE e.type = "report" /\ OnReport(e)
  <2>1. e.slot \in Slots /\ e.keys \in SUBSET KeyName
    BY <1>1, <1>5, EventFields
  <2>2. hc' = hc \/ hc' = Armed(hc, e.slot)
    BY <1>5 DEF OnReport
  <2>3. hc' \in [Slots -> HcSlot]
    BY <1>4, <2>1, <2>2, ArmedFacts
  <2>4. \/ dev' = dev
        \/ \E i \in DevSlots : \/ dev' = [dev EXCEPT ![i].prev = e.keys]
                               \/ dev' = [dev EXCEPT ![i].need_recover = TRUE]
    BY <1>5 DEF OnReport, kbd_report, dev_by_slot
  <2>5. dev' \in [DevSlots -> Device]
    BY <1>4, <2>1, <2>4 DEF Device
  <2> QED
    BY <1>1, <1>3, <1>5, <2>3, <2>5 DEF OnReport, TypeOK, WorldTypes, KernelTypes, waiter
<1>6. CASE e.type \in {"command", "control"} /\ OnCompletion(e)
  <2>1. e.cc \in {"ok", "error"} /\ e.slot \in Slots \cup {0}
    BY <1>1, <1>6, EventFields
  <2>2. /\ wdone' \in BOOLEAN /\ wcc' \in {"none", "ok", "error"}
        /\ wslotout' \in Slots \cup {0}
    BY <1>6, <2>1 DEF OnCompletion, waiter, TypeOK, KernelTypes
  <2> QED
    BY <1>1, <1>3, <1>6, <2>2 DEF OnCompletion, TypeOK, WorldTypes, KernelTypes
<1>7. CASE e.type = "port" /\ OnPort(e)
  <2>1. e.port \in Ports
    BY <1>1, <1>7, EventFields
  <2> QED
    BY <1>1, <1>3, <1>7, <2>1 DEF OnPort, TypeOK, WorldTypes, KernelTypes, waiter
<1> QED
  BY <1>2, <1>5, <1>6, <1>7

\* A wait that returns was answered, or its time was up.
LEMMA ReturnedFacts ==
    ASSUME TypeOK, NEW label, Returned(label)
    PROVE  /\ pc = label /\ evq = <<>>
           /\ budget' \in [plugs : Nat, keys : Nat, errors : Nat, timeouts : Nat]
           /\ budget'.timeouts <= MaxTimeouts
           /\ budget'.timeouts = MaxTimeouts => budget.timeouts = MaxTimeouts /\ wdone
<1>1. MaxTimeouts \in Nat
  BY UsbAssumption DEF UsbAssumption
<1>2. CASE wdone
  BY <1>2 DEF Returned, TypeOK, WorldTypes
<1>3. CASE ~wdone
  <2>1. budget.timeouts > 0 /\ budget' = [budget EXCEPT !.timeouts = @ - 1]
    BY <1>3 DEF Returned, Spend
  <2> QED
    BY <1>1, <1>3, <2>1 DEF Returned, TypeOK, WorldTypes
<1> QED
  BY <1>2, <1>3

\* The steps of usbkbd_poll that start no wait and end none.
Glance ==
    \/ usbkbd_pop \/ PollStart \/ EventsDrained \/ PickPort \/ Repeat
    \/ ReadPortsc("read", "ack") \/ ReadPortsc("read_reset", "ack_reset")
    \/ AckPort \/ AckReset

LEMMA GlanceTypes == TypeOK /\ Glance => TypeOK'
<1> SUFFICES ASSUME TypeOK, Glance
             PROVE  TypeOK'
  OBVIOUS
<1> USE DEF TypeOK, KernelTypes, WorldTypes, world, waiter, keys, physical
<1>1. CASE usbkbd_pop
  BY <1>1 DEF usbkbd_pop
<1>2. CASE PollStart
  BY <1>2 DEF PollStart, Goto, OfPort, Enumerating, Waits
<1>3. CASE EventsDrained
  BY <1>3 DEF EventsDrained, Goto, OfPort, Enumerating, Waits
<1>4. CASE PickPort
  <2> DEFINE flagged == {p \in pscan : p >= port}
  <2>1. flagged # {} => Min(flagged) \in flagged
    <3>1. flagged \subseteq Nat
      BY UsbAssumption DEF UsbAssumption
    <3> QED
      BY <3>1, Least
  <2>2. /\ pscan' \subseteq Ports /\ cur' \in Nat
        /\ pc' \in {"recover", "read"} /\ (pc' = "read" => port' \in Ports)
        /\ port' \in Ports \cup {0}
    BY <1>4, <2>1 DEF PickPort, Goto
  <2>3. port' \in Nat
    <3>1. Ports \cup {0} \subseteq Nat
      BY UsbAssumption DEF UsbAssumption
    <3> QED
      BY <2>2, <3>1
  <2> QED
    BY <1>4, <2>2, <2>3 DEF PickPort, OfPort, Enumerating, Waits
<1>5. CASE Repeat
  BY <1>5 DEF Repeat, Goto, OfPort, Enumerating, Waits
<1>6. CASE ReadPortsc("read", "ack") \/ ReadPortsc("read_reset", "ack_reset")
  <2>1. pc' \in {"ack", "ack_reset"} /\ port \in Ports
    BY <1>6 DEF ReadPortsc, OfPort
  <2>2. sc' \in [conn : BOOLEAN, chg : SUBSET {"C", "R"}, ped : BOOLEAN]
    <3>1. chg[port] \in SUBSET {"C", "R"} /\ enabled[port] \in BOOLEAN
      BY <2>1
    <3>2. sc' = [conn |-> Here(port) # {}, chg |-> chg[port], ped |-> enabled[port]]
      BY <1>6 DEF ReadPortsc
    <3> QED
      BY ONLY <3>1, <3>2
  <2> QED
    BY <1>6, <2>1, <2>2 DEF ReadPortsc, OfPort, Enumerating, Waits
<1>7. CASE AckPort \/ AckReset
  <2>1. port \in Ports
    BY <1>7 DEF AckPort, AckReset, OfPort
  <2>2. chg' \in [Ports -> SUBSET {"C", "R"}]
    BY <1>7, <2>1 DEF AckPort, AckReset, AckSeen
  <2>3. sc' \in [conn : BOOLEAN, chg : SUBSET {"C", "R"}, ped : BOOLEAN]
    <3>1. {} \in SUBSET {"C", "R"}
      OBVIOUS
    <3>2. sc' = [conn |-> FALSE, chg |-> {}, ped |-> FALSE]
      BY <1>7 DEF AckPort, AckReset, ForgetPortsc
    <3> QED
      BY ONLY <3>1, <3>2
  <2>4. pc' \in {"unplug", "ports", "reset", "enum"} /\ port' \in Nat /\ cur' \in Nat
        /\ (pc' # "ports" => port' \in Ports)
    BY <1>7, <2>1, UsbAssumption DEF AckPort, AckReset, Goto, NextPort, UsbAssumption
  <2> QED
    BY <1>7, <2>2, <2>3, <2>4 DEF AckPort, AckReset, OfPort, Enumerating, Waits
<1> QED
  BY <1>1, <1>2, <1>3, <1>4, <1>5, <1>6, <1>7 DEF Glance

LEMMA ResetTypes == TypeOK /\ ResetPort => TypeOK'
<1> SUFFICES ASSUME TypeOK, ResetPort
             PROVE  TypeOK'
  OBVIOUS
<1>1. port \in Ports /\ port \in Nat
  BY DEF ResetPort, TypeOK, KernelTypes, OfPort
<1>2. /\ enabled' \in [Ports -> BOOLEAN] /\ addr' \in [Kbds -> Slots \cup {0}]
      /\ chg' \in [Ports -> SUBSET {"C", "R"}] /\ evq' \in Seq(Event)
  <2>1. CASE Here(port) = {}
    BY <2>1 DEF ResetPort, registers, TypeOK, WorldTypes, KernelTypes
  <2>2. CASE Here(port) # {}
    <3>1. chg' \in [Ports -> SUBSET {"C", "R"}] /\ evq' \in Seq(Event)
      BY <1>1, <2>2, PortChangeTypes DEF ResetPort
    <3> QED
      BY <1>1, <2>2, <3>1 DEF ResetPort, TypeOK, WorldTypes
  <2> QED
    BY <2>1, <2>2
<1>3. pc' = "read_reset" /\ port' = port /\ cur' = 0
  BY DEF ResetPort, Goto
<1> QED
  BY <1>1, <1>2, <1>3 DEF ResetPort, TypeOK, WorldTypes, KernelTypes, waiter, keys,
     OfPort, Enumerating, Waits

\* The steps that begin to wait, and those that end a wait and wait no more.
LEMMA WaitStart ==
    ASSUME TypeOK, NEW op \in Op, NEW s \in Slots \cup {0}, NEW label \in Waits,
           Issue(op, s, label), dev' \in [DevSlots -> Device],
           port' = port, label \in Enumerating \cup {"unplugged"} => port \in Ports,
           cur' \in DevSlots, UNCHANGED <<pscan, sc, evq>>
    PROVE  KernelTypes'
<1>1. cmdq' \in Seq(Command)
  BY Issued
<1>2. pc' = label /\ wdone' = FALSE /\ wcc' = "none" /\ wslotout' = 0
  BY DEF Issue
<1>3. cur' \in Nat
  BY UsbAssumption DEF UsbAssumption
<1> QED
  BY <1>1, <1>2, <1>3 DEF TypeOK, KernelTypes, OfPort, Enumerating, Waits

LEMMA WaitEnd ==
    ASSUME TypeOK, NEW p \in Nat, NEW c \in Nat,
           NEW label \in {"ports", "recover", "unplug"}, label = "unplug" => p \in Ports,
           Rest, Goto(label, p, c), dev' \in [DevSlots -> Device], UNCHANGED <<pscan, sc, evq>>
    PROVE  KernelTypes'
<1>1. cmdq' \in Seq(Command)
  BY ForgottenFacts DEF Rest
<1>2. wdone' = FALSE /\ wcc' = "none" /\ wslotout' = 0
  BY DEF Rest
<1>3. pc' = label /\ port' = p /\ cur' = c
  BY DEF Goto
<1> QED
  BY <1>1, <1>2, <1>3 DEF TypeOK, KernelTypes, OfPort, Enumerating, Waits

\* The device the kernel waits for, and its slot.
LEMMA Waiting ==
    ASSUME IInv, pc \in Waits
    PROVE  /\ cur \in DevSlots /\ dev[cur] \in Device /\ dev[cur].used
           /\ dev[cur].slot \in Slots \cup {0}
           /\ pc # "enabled" => dev[cur].slot \in Slots
           /\ pc = "enabled" => dev[cur].slot = 0
           /\ pc \in Enumerating \cup {"unplugged"} => port \in Ports
           /\ port \in Nat /\ cur \in Nat /\ port + 1 \in Nat /\ cur + 1 \in Nat
<1>1. /\ cur \in DevSlots /\ dev \in [DevSlots -> Device] /\ port \in Nat /\ cur \in Nat
      /\ pc \in Enumerating \cup {"unplugged"} => port \in Ports
  BY DEF IInv, TypeOK, KernelTypes
<1>2. dev[cur] \in Device
  BY <1>1
<1> QED
  BY <1>1, <1>2 DEF IInv, WaitOK, DevOK, Device

LEMMA NoDevType == NoDev \in Device /\ ~NoDev.used /\ ~NoDev.is_kbd /\ ~NoDev.need_recover
  BY DEF NoDev, Device

\* The steps that wait for the controller, or begin to.
Waiters ==
    \/ enum_device \/ SlotEnabled \/ Addressed \/ Described \/ Configured
    \/ EnumDropped \/ Unplugging \/ Unplugged
    \/ PickBroken \/ PipeReset \/ Dequeued

LEMMA WaiterTypes == IInv /\ Waiters => TypeOK'
<1> SUFFICES ASSUME IInv, Waiters
             PROVE  TypeOK'
  OBVIOUS
<1>1. TypeOK /\ WorldTypes /\ KernelTypes /\ dev \in [DevSlots -> Device] /\ port \in Nat
  BY DEF IInv, TypeOK, KernelTypes
<1>2. ASSUME UNCHANGED <<at, key, fresh, evq>>, UNCHANGED <<addr, chg, enabled>>,
             hc' \in [Slots -> HcSlot], NEW label, Returned(label)
      PROVE  WorldTypes'
  BY <1>1, <1>2, ReturnedFacts DEF WorldTypes
<1>3. hc \in [Slots -> HcSlot]
  BY <1>1 DEF WorldTypes
<1>4. CASE enum_device
  <2> DEFINE unused == {i \in DevSlots : ~dev[i].used}
  <2>1. port \in Ports /\ pc = "enum"
    BY <1>1, <1>4 DEF enum_device, KernelTypes, OfPort
  <2>2. WorldTypes'
    BY <1>1, <1>4 DEF enum_device, WorldTypes, world
  <2>3. CASE unused = {}
    BY <1>1, <1>4, <2>1, <2>2, <2>3 DEF enum_device, NextPort, Goto, TypeOK, KernelTypes,
       waiter, OfPort, Enumerating, Waits
  <2>4. CASE unused # {}
    <3>1. Min(unused) \in unused
      <4>1. unused \subseteq Nat
        BY UsbAssumption DEF UsbAssumption
      <4> QED
        BY <2>4, <4>1, Least
    <3>2. [NoDev EXCEPT !.used = TRUE, !.rootport = port] \in Device
      BY <2>1 DEF NoDev, Device
    <3>3. dev' \in [DevSlots -> Device] /\ cur' \in DevSlots /\ Issue("enable", 0, "enabled")
          /\ port' = port /\ UNCHANGED <<pscan, sc, evq>>
      BY <1>1, <1>4, <2>4, <3>1, <3>2 DEF enum_device
    <3>4. KernelTypes'
      BY <1>1, <2>1, <3>3, WaitStart DEF Op, Waits
    <3> QED
      BY <2>2, <3>4 DEF TypeOK
  <2> QED
    BY <2>3, <2>4
<1>5. CASE SlotEnabled
  <2>1. pc = "enabled" /\ cur \in DevSlots /\ port \in Ports /\ port + 1 \in Nat
    BY <1>5, Waiting DEF SlotEnabled, Returned, Waits, Enumerating
  <2>2. WorldTypes'
    BY <1>2, <1>3, <1>5 DEF SlotEnabled, physical, registers
  <2>3. UNCHANGED <<pscan, sc, evq>> /\ wslotout \in Slots \cup {0}
    BY <1>1, <1>5 DEF SlotEnabled, physical, KernelTypes
  <2>4. CASE cc = "ok" /\ wslotout # 0
    <3>1. /\ dev' = [dev EXCEPT ![cur].slot = wslotout]
          /\ Issue("address", wslotout, "addressed") /\ port' = port /\ cur' = cur
      BY <1>5, <2>4 DEF SlotEnabled
    <3>2. dev' \in [DevSlots -> Device]
      BY <1>1, <2>3, <3>1 DEF Device
    <3>3. KernelTypes'
      BY <1>1, <2>1, <2>3, <3>1, <3>2, WaitStart DEF Op, Waits
    <3> QED
      BY <2>2, <3>3 DEF TypeOK
  <2>5. CASE ~(cc = "ok" /\ wslotout # 0)
    <3>1. dev' = [dev EXCEPT ![cur].used = FALSE] /\ Rest /\ Goto("ports", port + 1, 0)
      BY <1>5, <2>5 DEF SlotEnabled, NextPort
    <3>2. dev' \in [DevSlots -> Device]
      BY <1>1, <3>1 DEF Device
    <3>3. KernelTypes'
      BY <1>1, <2>1, <2>3, <3>1, <3>2, WaitEnd
    <3> QED
      BY <2>2, <3>3 DEF TypeOK
  <2> QED
    BY <2>4, <2>5
<1>6. ASSUME NEW op \in Op, NEW label \in Enumerating, Then(op, label),
             NEW here \in Enumerating, Returned(here)
      PROVE  TypeOK'
  <2>1. pc = here /\ here \in Waits /\ label \in Waits
    BY <1>6 DEF Returned, Enumerating, Waits
  <2>2. /\ cur \in DevSlots /\ port \in Ports /\ dev[cur].slot \in Slots \cup {0}
    BY <1>6, <2>1, Waiting
  <2>3. WorldTypes'
    BY <1>2, <1>3, <1>6 DEF Then, physical, registers
  <2>4. UNCHANGED <<dev, pscan, port, cur, sc, evq>>
    BY <1>6 DEF Then, physical
  <2>5. Issue(op, dev[cur].slot, label) \/ Issue("disable", dev[cur].slot, "enum_dropped")
    BY <1>6 DEF Then
  <2>6. KernelTypes'
    BY <1>1, <1>6, <2>1, <2>2, <2>4, <2>5, WaitStart DEF Op, Waits
  <2> QED
    BY <2>3, <2>6 DEF TypeOK
<1>7. CASE Addressed \/ Described
  BY <1>6, <1>7 DEF Addressed, Described, Op, Enumerating
<1>8. CASE Configured
  <2>1. pc = "configured" /\ cur \in DevSlots /\ port + 1 \in Nat /\ dev[cur].slot \in Slots
    BY <1>8, Waiting DEF Configured, Returned, Waits
  <2>2. hc' \in [Slots -> HcSlot] /\ dev' \in [DevSlots -> Device]
    <3>1. \/ hc' = hc /\ dev' = dev
          \/ hc' = Armed(hc, dev[cur].slot) /\ dev' = [dev EXCEPT ![cur].is_kbd = TRUE]
      BY <1>8 DEF Configured
    <3> QED
      BY <1>1, <1>3, <2>1, <3>1, ArmedFacts DEF Device
  <2>3. WorldTypes'
    BY <1>2, <1>8, <2>2 DEF Configured, physical, registers
  <2>4. Rest /\ Goto("ports", port + 1, 0) /\ UNCHANGED <<pscan, sc, evq>>
    BY <1>8 DEF Configured, NextPort, physical
  <2>5. KernelTypes'
    BY <1>1, <2>1, <2>2, <2>4, WaitEnd
  <2> QED
    BY <2>3, <2>5 DEF TypeOK
<1>9. CASE EnumDropped \/ Unplugged
  <2>1. pc \in Dropping /\ cur \in DevSlots /\ port \in Ports /\ port \in Nat /\ port + 1 \in Nat
    BY <1>9, Waiting DEF EnumDropped, Unplugged, Returned, Waits, Dropping, Enumerating
  <2>2. WorldTypes'
    BY <1>2, <1>3, <1>9 DEF EnumDropped, Unplugged, physical, registers
  <2>3. dev' = [dev EXCEPT ![cur] = NoDev] /\ Rest /\ UNCHANGED <<pscan, sc, evq>>
    BY <1>9 DEF EnumDropped, Unplugged, dev_dropped, physical
  <2>4. Goto("ports", port + 1, 0) \/ Goto("unplug", port, 0)
    BY <1>9 DEF EnumDropped, Unplugged, NextPort
  <2>5. dev' \in [DevSlots -> Device]
    BY <1>1, <2>3, NoDevType
  <2>6. KernelTypes'
    BY <1>1, <2>1, <2>3, <2>4, <2>5, WaitEnd
  <2> QED
    BY <2>2, <2>6 DEF TypeOK
<1>10. CASE Unplugging
  <2>1. port \in Ports /\ pc = "unplug"
    BY <1>1, <1>10 DEF Unplugging, KernelTypes, OfPort
  <2>2. WorldTypes' /\ UNCHANGED <<dev, pscan, sc, evq>>
    BY <1>1, <1>10 DEF Unplugging, WorldTypes, world
  <2>3. CASE dev_on_root(port) = {}
    BY <1>1, <1>10, <2>1, <2>2, <2>3 DEF Unplugging, NextPort, Goto, TypeOK, KernelTypes,
       waiter, OfPort, Enumerating, Waits
  <2>4. CASE dev_on_root(port) # {}
    <3> DEFINE i == Min(dev_on_root(port))
    <3>1. i \in DevSlots
      <4>1. dev_on_root(port) \subseteq DevSlots /\ DevSlots \subseteq Nat
        BY UsbAssumption DEF UsbAssumption, dev_on_root
      <4> QED
        BY <2>4, <4>1, Least
    <3>2. cur' = i /\ port' = port /\ Issue("disable", dev[i].slot, "unplugged")
      BY <1>10, <2>4 DEF Unplugging
    <3> HIDE DEF i
    <3>3. dev[i].slot \in Slots \cup {0}
      BY <1>1, <3>1 DEF Device
    <3>4. KernelTypes'
      BY <1>1, <2>1, <2>2, <3>1, <3>2, <3>3, WaitStart DEF Op, Waits
    <3> QED
      BY <2>2, <3>4 DEF TypeOK
  <2> QED
    BY <2>3, <2>4
<1>11. CASE PickBroken
  <2> DEFINE broken == {i \in DevSlots : i >= cur /\ dev[i].used /\ dev[i].need_recover}
             i == Min(broken)
  <2>1. WorldTypes' /\ UNCHANGED <<pscan, sc, evq>> /\ pc = "recover"
    BY <1>1, <1>11 DEF PickBroken, WorldTypes, world
  <2>2. CASE broken = {}
    BY <1>1, <1>11, <2>1, <2>2 DEF PickBroken, Goto, TypeOK, KernelTypes,
       waiter, OfPort, Enumerating, Waits
  <2>3. CASE broken # {}
    <3>1. i \in DevSlots
      <4>1. broken \subseteq DevSlots /\ DevSlots \subseteq Nat
        BY UsbAssumption DEF UsbAssumption
      <4> QED
        BY <2>3, <4>1, Least
    <3>2. /\ cur' = i /\ port' = port /\ Issue("reset", dev[i].slot, "pipe_reset")
          /\ dev' = [dev EXCEPT ![i].need_recover = FALSE]
      BY <1>11, <2>3 DEF PickBroken
    <3> HIDE DEF i
    <3>3. dev[i].slot \in Slots \cup {0} /\ dev' \in [DevSlots -> Device]
      BY <1>1, <3>1, <3>2 DEF Device
    <3>4. KernelTypes'
      BY <1>1, <2>1, <3>1, <3>2, <3>3, WaitStart DEF Op, Waits, Enumerating
    <3> QED
      BY <2>1, <3>4 DEF TypeOK
  <2> QED
    BY <2>2, <2>3
<1>12. CASE PipeReset \/ Dequeued
  <2>1. /\ pc \in {"pipe_reset", "dequeued"} /\ cur \in DevSlots /\ cur + 1 \in Nat
        /\ dev[cur].slot \in Slots
    BY <1>12, Waiting DEF PipeReset, Dequeued, Returned, Waits
  <2>2. hc' \in [Slots -> HcSlot]
    BY <1>1, <1>3, <1>12, <2>1, ArmedFacts DEF PipeReset, Dequeued
  <2>3. WorldTypes'
    BY <1>2, <1>12, <2>2 DEF PipeReset, Dequeued, physical, registers
  <2>4. UNCHANGED <<pscan, sc, evq>>
    BY <1>12 DEF PipeReset, Dequeued, physical
  <2>5. \/ Issue("setdeq", dev[cur].slot, "dequeued") /\ UNCHANGED <<dev, port, cur>>
        \/ /\ Rest /\ Goto("recover", port, cur + 1)
           /\ dev' = dev \/ dev' = [dev EXCEPT ![cur].is_kbd = FALSE]
    BY <1>12 DEF PipeReset, Dequeued, GiveUp, NextDevice
  <2>6. dev' \in [DevSlots -> Device]
    BY <1>1, <2>5 DEF Device
  <2>7. KernelTypes'
    BY <1>1, <2>1, <2>4, <2>5, <2>6, WaitStart, WaitEnd DEF Op, Waits, Enumerating
  <2> QED
    BY <2>3, <2>7 DEF TypeOK
<1> QED
  BY <1>4, <1>5, <1>7, <1>8, <1>9, <1>10, <1>11, <1>12 DEF Waiters

-----------------------------------------------------------------------------
(* What an event that is added leaves as it was.                           *)

\* An event that is no answer changes no answer.
LEMMA NoAnswer ==
    ASSUME TypeOK, NEW e \in Event, ~(e.type = "command" /\ e.for.cur),
           evq' = Append(evq, e), UNCHANGED <<wdone, wcc, wslotout>>
    PROVE  /\ \A n \in DOMAIN evq' : Done(n)' <=> Done(n)
           /\ \A how, s : Answer(how, s)' => Answer(how, s)
<1>1. ASSUME NEW n \in DOMAIN evq'
      PROVE  Done(n)' <=> Done(n)
  BY <1>1, Appended DEF Done
<1>2. ASSUME NEW how, NEW s, Answer(how, s)'
      PROVE  Answer(how, s)
  BY <1>1, <1>2, Appended DEF Answer, Done
<1> QED
  BY <1>1, <1>2

\* An event that is no report of slot s changes none.
LEMMA NoReport ==
    ASSUME TypeOK, NEW e \in Event, evq' = Append(evq, e),
           NEW s, ~(e.type = "report" /\ e.slot = s)
    PROVE  /\ ReportsOf(s)' = ReportsOf(s)
           /\ \A n \in DOMAIN evq : evq'[n] = evq[n]
           /\ DOMAIN evq \subseteq DOMAIN evq'
  BY Appended DEF ReportsOf

\* Steps that touch no device, command, pipe or answer, and begin or end no wait.
Still ==
    /\ UNCHANGED <<dev, cmdq, hc, wt, wdone, wcc, wslotout, rep, gaveUp>>
    /\ budget'.timeouts = budget.timeouts
    /\ evq' = evq \/ \E p \in Ports : evq' = Append(evq, PortEvent(p))
    /\ UNCHANGED <<pc, port, cur>> \/ (pc \notin Waits /\ pc' \notin Waits)

LEMMA StillInv ==
    ASSUME IInv, Still, TypeOK'
    PROVE  /\ WaitOK' /\ DevOK' /\ QueueOK' /\ AnswerOK' /\ CleanOK' /\ PipeOK' /\ SlotOK'
           /\ RepeatHasKeyUnlessAbandoned' /\ OneDevicePerPort'
<1> USE DEF IInv
<1>1. /\ UNCHANGED <<dev, cmdq, hc, wt, wdone, wcc, wslotout, rep, gaveUp>>
      /\ UNCHANGED <<pc, port, cur>> \/ (pc \notin Waits /\ pc' \notin Waits)
  BY DEF Still
<1>2. \A n \in DOMAIN evq' : Done(n)' <=> Done(n)
  <2>1. CASE evq' = evq
    BY <2>1 DEF Done
  <2>2. ASSUME NEW p \in Ports, evq' = Append(evq, PortEvent(p))
        PROVE  \A n \in DOMAIN evq' : Done(n)' <=> Done(n)
    <3>1. PortEvent(p) \in Event /\ PortEvent(p).type = "port"
      BY EventTypes DEF PortEvent
    <3> QED
      BY <1>1, <2>2, <3>1, NoAnswer
  <2> QED
    BY <2>1, <2>2 DEF Still
<1>3. /\ \A s : ReportsOf(s)' = ReportsOf(s)
      /\ \A n \in DOMAIN evq : evq'[n] = evq[n]
      /\ DOMAIN evq \subseteq DOMAIN evq'
  <2>1. CASE evq' = evq
    BY <2>1 DEF ReportsOf
  <2>2. ASSUME NEW p \in Ports, evq' = Append(evq, PortEvent(p))
        PROVE  /\ \A s : ReportsOf(s)' = ReportsOf(s)
               /\ \A n \in DOMAIN evq : evq'[n] = evq[n]
               /\ DOMAIN evq \subseteq DOMAIN evq'
    <3>1. PortEvent(p) \in Event /\ PortEvent(p).type = "port"
      BY EventTypes DEF PortEvent
    <3> QED
      BY <2>2, <3>1, NoReport
  <2> QED
    BY <2>1, <2>2 DEF Still
<1>4. \A how, s : Answer(how, s)' => Answer(how, s)
  BY <1>1, <1>2, <1>3 DEF Answer, Done
<1>5. WaitOK' /\ DevOK' /\ OneDevicePerPort'
  BY <1>1 DEF WaitOK, DevOK, PortOK, OneDevicePerPort, Dropping, Enumerating, Waits
<1>6. QueueOK'
  BY <1>1, <1>2 DEF QueueOK, Executed, Done, WaitOK
<1>7. AnswerOK'
  BY <1>1, <1>4 DEF AnswerOK, dev_by_slot, Waits
<1>8. CleanOK'
  BY <1>1 DEF CleanOK, Clean, Waits
<1>9. PipeOK'
  <2> SUFFICES ASSUME NEW i \in DevSlots, Keyboard(i)', ~(pc = "unplugged" /\ cur = i)'
               PROVE  PipeState(i)'
    BY DEF PipeOK
  <2>1. Keyboard(i) /\ ~(pc = "unplugged" /\ cur = i) /\ (Recovering(i)' <=> Recovering(i))
    BY <1>1 DEF Keyboard, Recovering, Waits
  <2>2. PipeState(i)
    BY <2>1 DEF PipeOK
  <2> QED
    BY <1>1, <1>3, <2>1, <2>2 DEF PipeState
<1>10. SlotOK'
  <2>1. NoTimeouts' => NoTimeouts
    BY DEF Still, NoTimeouts
  <2>2. ASSUME NoTimeouts', NEW s \in Slots, hc[s].on
        PROVE  dev_by_slot(s)' # {} \/ (pc' = "enabled" /\ Answer("ok", s)')
    <3>1. dev_by_slot(s) # {} \/ (pc = "enabled" /\ Answer("ok", s))
      BY <2>1, <2>2 DEF SlotOK
    <3>2. dev_by_slot(s)' = dev_by_slot(s)
      BY <1>1 DEF dev_by_slot
    <3>3. Answer("ok", s) => Answer("ok", s)'
      BY <1>1, <1>2, <1>3 DEF Answer, Done
    <3> QED
      BY <1>1, <3>1, <3>2, <3>3 DEF Waits
  <2> QED
    BY <1>1, <1>4, <2>1, <2>2 DEF SlotOK, Dropping, Waits
<1>11. RepeatHasKeyUnlessAbandoned'
  BY <1>1 DEF RepeatHasKeyUnlessAbandoned, RepeatHasKey, Keyboard
<1> QED
  BY <1>5, <1>6, <1>7, <1>8, <1>9, <1>10, <1>11

-----------------------------------------------------------------------------
(* One lemma per kind of step.                                             *)

LEMMA UserInv == IInv /\ User => IInv'
<1> SUFFICES ASSUME IInv, User
             PROVE  IInv'
  OBVIOUS
<1>1. TypeOK /\ TypeOK'
  BY UserTypes DEF IInv
<1>2. Still
  <2>1. ASSUME NEW p \in Ports, PortChange(p, "C", evq)
        PROVE  evq' = evq \/ \E q \in Ports : evq' = Append(evq, PortEvent(q))
    BY <2>1 DEF PortChange
  <2>2. ASSUME NEW k \in Kbds, NEW p \in Ports, Plug(k, p)
        PROVE  Still
    <3>1. budget'.timeouts = budget.timeouts
      BY <1>1, <2>2 DEF Plug, Spend, TypeOK, WorldTypes
    <3> QED
      BY <2>1, <2>2, <3>1 DEF Plug, Still, kernel, waiter, keys
  <2>3. ASSUME NEW k \in Kbds, Unplug(k)
        PROVE  Still
    <3>1. budget'.timeouts = budget.timeouts
      BY <1>1, <2>3 DEF Unplug, Spend, TypeOK, WorldTypes
    <3>2. at[k] \in Ports
      BY <1>1, <2>3 DEF Unplug, TypeOK, WorldTypes
    <3> QED
      BY <2>1, <2>3, <3>1, <3>2 DEF Unplug, Still, kernel, waiter, keys
  <2>4. ASSUME NEW k \in Kbds, NEW u \in Usages, Type(k, u)
        PROVE  Still
    <3>1. budget'.timeouts = budget.timeouts
      BY <1>1, <2>4 DEF Type, Spend, TypeOK, WorldTypes
    <3> QED
      BY <2>4, <3>1 DEF Type, Still, kernel, waiter, keys
  <2> QED
    BY <2>2, <2>3, <2>4 DEF User
<1>3. UNCHANGED <<pc, port, dev>>
  BY DEF User, Plug, Unplug, Type, kernel
<1>4. PortOK'
  BY <1>1, <1>2, <1>3, StillInv DEF PortOK, IInv, dev_on_root
<1> QED
  BY <1>1, <1>2, <1>4, StillInv DEF IInv

\* The port in hand is bare, between the look at it and the enumeration.
LEMMA GlanceInv == IInv /\ Glance => IInv'
<1> SUFFICES ASSUME IInv, Glance
             PROVE  IInv'
  OBVIOUS
<1>1. TypeOK /\ TypeOK'
  BY GlanceTypes DEF IInv
<1> USE DEF world, waiter, keys, physical, ghosts, Goto
<1>2. Still
  <2>1. CASE usbkbd_pop
    BY <2>1 DEF usbkbd_pop, Still
  <2>2. CASE PollStart \/ EventsDrained \/ PickPort \/ Repeat
    BY <2>2 DEF PollStart, EventsDrained, PickPort, Repeat, Still, Waits
  <2>3. CASE ReadPortsc("read", "ack") \/ ReadPortsc("read_reset", "ack_reset")
    BY <2>3 DEF ReadPortsc, Still, Waits
  <2>4. CASE AckPort \/ AckReset
    BY <2>4 DEF AckPort, AckReset, NextPort, Still, Waits
  <2> QED
    BY <2>1, <2>2, <2>3, <2>4 DEF Glance
<1>3. pc' \in Bare => dev_on_root(port') = {}
  <2>1. CASE usbkbd_pop \/ PollStart \/ EventsDrained \/ PickPort \/ Repeat
    BY <2>1 DEF usbkbd_pop, PollStart, EventsDrained, PickPort, Repeat, Bare
  <2>2. CASE ReadPortsc("read", "ack") \/ ReadPortsc("read_reset", "ack_reset")
    BY <2>2 DEF ReadPortsc, Bare, IInv, PortOK
  <2>3. CASE AckPort
    BY <2>3 DEF AckPort, NextPort, Bare
  <2>4. CASE AckReset
    BY <2>4 DEF AckReset, NextPort, Bare, IInv, PortOK
  <2> QED
    BY <2>1, <2>2, <2>3, <2>4 DEF Glance
<1>4. dev' = dev
  BY <1>2 DEF Still
<1>5. PortOK'
  BY <1>1, <1>2, <1>3, <1>4, StillInv DEF PortOK, dev_on_root
<1> QED
  BY <1>1, <1>2, <1>5, StillInv DEF IInv

LEMMA ResetInv == IInv /\ ResetPort => IInv'
<1> SUFFICES ASSUME IInv, ResetPort
             PROVE  IInv'
  OBVIOUS
<1>1. TypeOK /\ TypeOK'
  BY ResetTypes DEF IInv
<1>2. port \in Ports
  BY <1>1 DEF ResetPort, TypeOK, KernelTypes, OfPort
<1>3. Still
  <2>1. evq' = evq \/ evq' = Append(evq, PortEvent(port))
    BY DEF ResetPort, PortChange
  <2> QED
    BY <1>2, <2>1 DEF ResetPort, Still, Goto, waiter, keys, ghosts, Waits
<1>4. PortOK'
  <2>1. dev' = dev /\ pc = "reset" /\ port' = port
    BY DEF ResetPort, Goto
  <2>2. OneDevicePerPort'
    BY <1>1, <1>3, StillInv
  <2> QED
    BY <2>1, <2>2 DEF IInv, PortOK, dev_on_root, Bare
<1> QED
  BY <1>1, <1>3, <1>4, StillInv DEF IInv

\* A report or an error ends the wait of an armed pipe.
LEMMA PipeInv ==
    ASSUME IInv, NEW s \in Slots, HcReport(s) \/ HcPipeError(s)
    PROVE  IInv'
<1> DEFINE how == IF HcReport(s) THEN "ok" ELSE "error"
<1> USE DEF IInv
<1>1. TypeOK /\ TypeOK'
  BY PipeTypes
<1>2. /\ UNCHANGED <<dev, cmdq, wt, wdone, wcc, wslotout, rep, gaveUp, pc, port, cur>>
      /\ budget'.timeouts = budget.timeouts
      /\ hc[s].on /\ hc[s].ep = "armed"
  BY <1>1 DEF HcReport, HcPipeError, Answers, Spend, kernel, waiter, keys, TypeOK, WorldTypes
<1>3. PICK to \in {"idle", "halted"}, e \in Event :
        /\ e.type = "report" /\ e.slot = s /\ evq' = Append(evq, e)
        /\ hc' = [hc EXCEPT ![s].ep = to]
        /\ to = IF e.cc = "ok" THEN "idle" ELSE "halted"
  <2>1. hc[s] \in HcSlot /\ hc[s].phys \in Kbds \cup {None}
    BY <1>1 DEF TypeOK, WorldTypes, HcSlot
  <2>2. CASE HcReport(s)
    <3> DEFINE e == Report(s, "ok", hc[s].phys, Content(hc[s].phys))
    <3>1. Content(hc[s].phys) \in SUBSET KeyName
      <4>1. hc[s].phys \in Kbds
        BY <2>1, <2>2 DEF HcReport, Answers
      <4> QED
        BY <1>1, <4>1 DEF Content, KeyName, TypeOK, WorldTypes
    <3>2. e \in Event /\ e.type = "report" /\ e.slot = s /\ e.cc = "ok"
      BY <2>1, <3>1, EventTypes DEF Report
    <3>3. evq' = Append(evq, e) /\ hc' = [hc EXCEPT ![s].ep = "idle"]
      BY <2>2 DEF HcReport
    <3> HIDE DEF e
    <3> QED
      BY <3>2, <3>3
  <2>3. CASE HcPipeError(s)
    <3> DEFINE e == Report(s, "error", hc[s].phys, {})
    <3>1. e \in Event /\ e.type = "report" /\ e.slot = s /\ e.cc = "error"
      BY <2>1, EventTypes DEF Report
    <3>2. evq' = Append(evq, e) /\ hc' = [hc EXCEPT ![s].ep = "halted"]
      BY <2>3 DEF HcPipeError
    <3> HIDE DEF e
    <3> QED
      BY <3>1, <3>2
  <2> QED
    BY <2>2, <2>3
<1>4. /\ \A r \in Slots : /\ hc'[r].on = hc[r].on
                          /\ r # s => hc'[r] = hc[r]
      /\ hc'[s].ep = to
  BY <1>1, <1>3 DEF TypeOK, WorldTypes, HcSlot
<1>5. /\ \A n \in DOMAIN evq' : Done(n)' <=> Done(n)
      /\ \A h, r : Answer(h, r)' => Answer(h, r)
  BY <1>1, <1>2, <1>3, NoAnswer
<1>6. /\ evq' \in Seq(Event) /\ Len(evq) \in Nat
      /\ DOMAIN evq = 1 .. Len(evq) /\ DOMAIN evq' = 1 .. Len(evq) + 1
      /\ \A n \in DOMAIN evq : evq'[n] = evq[n]
      /\ evq'[Len(evq) + 1] = e
  BY <1>1, <1>3, Appended
<1>7. \A r : r # s => ReportsOf(r)' = ReportsOf(r)
  BY <1>1, <1>3, NoReport
<1>8. WaitOK' /\ PortOK'
  BY <1>2 DEF WaitOK, PortOK, OneDevicePerPort, dev_on_root
<1>9. DevOK'
  BY <1>2, <1>4 DEF DevOK, WaitOK
<1>10. QueueOK'
  BY <1>2, <1>5 DEF QueueOK, Executed, Done
<1>11. AnswerOK'
  <2>1. dev_by_slot(s)' = dev_by_slot(s) /\ \A r : dev_by_slot(r)' = dev_by_slot(r)
    BY <1>2 DEF dev_by_slot
  <2>2. pc \in {"configured", "dequeued"} => dev[cur].slot \in Slots
    BY Waiting DEF Waits
  <2>3. pc = "enabled" => \A r \in Slots \cup {0} : Answer("ok", r) =>
          r \in Slots /\ r # s /\ hc[r].on /\ hc[r].ep = "none" /\ dev_by_slot(r) = {}
    BY <1>2 DEF AnswerOK
  <2>4. pc \in {"configured", "dequeued"} => \A r \in Slots \cup {0} : Answer("ok", r) =>
          dev[cur].slot # s /\ hc[dev[cur].slot].ep = "idle"
    BY <1>2, <2>2 DEF AnswerOK
  <2> QED
    BY <1>2, <1>4, <1>5, <2>1, <2>2, <2>3, <2>4 DEF AnswerOK
<1>12. CleanOK'
  BY <1>2 DEF CleanOK, Clean
<1>13. PipeOK'
  <2> SUFFICES ASSUME NEW i \in DevSlots, Keyboard(i)', ~(pc = "unplugged" /\ cur = i)'
               PROVE  PipeState(i)'
    BY DEF PipeOK
  <2>1. Keyboard(i) /\ ~(pc = "unplugged" /\ cur = i) /\ (Recovering(i)' <=> Recovering(i))
    BY <1>2 DEF Keyboard, Recovering
  <2>2. PipeState(i) /\ dev[i].slot \in Slots
    BY <2>1 DEF PipeOK, DevOK, Keyboard, WaitOK, Enumerating
  <2>3. CASE dev[i].slot # s
    BY <1>2, <1>4, <1>6, <1>7, <2>1, <2>2, <2>3 DEF PipeState
  <2>4. CASE dev[i].slot = s
    <3>1. ~Recovering(i) /\ ~dev[i].need_recover /\ ReportsOf(s) = {}
      BY <1>2, <2>2, <2>4 DEF PipeState
    <3>2. ReportsOf(s)' = {Len(evq) + 1}
      BY <1>3, <1>6, <3>1 DEF ReportsOf
    <3> QED
      BY <1>2, <1>3, <1>4, <1>6, <2>1, <2>4, <3>1, <3>2 DEF PipeState
  <2> QED
    BY <2>3, <2>4
<1>14. SlotOK'
  <2>1. NoTimeouts' => NoTimeouts
    BY <1>2 DEF NoTimeouts
  <2>2. ASSUME NEW r \in Slots
        PROVE  dev_by_slot(r)' = dev_by_slot(r) /\ (Answer("ok", r) => Answer("ok", r)')
    BY <1>2, <1>5, <1>6 DEF dev_by_slot, Answer, Done
  <2>3. pc \in Dropping => dev[cur].slot \in Slots
    BY DEF Dropping, DevOK, WaitOK, TypeOK, KernelTypes, Waits
  <2> QED
    BY <1>2, <1>4, <1>5, <2>1, <2>2, <2>3 DEF SlotOK
<1>15. RepeatHasKeyUnlessAbandoned'
  BY <1>2 DEF RepeatHasKeyUnlessAbandoned, RepeatHasKey, Keyboard
<1> QED
  BY <1>1, <1>8, <1>9, <1>10, <1>11, <1>12, <1>13, <1>14, <1>15

\* What a command does to the slots, and the event that tells of it.
Executes(c, e) ==
    /\ evq' = Append(evq, e)
    /\ \/ c.op = "control" /\ e.type = "control" /\ hc' = hc
       \/ /\ c.op # "control" /\ e.type = "command" /\ e.for = c
          /\ \/ c.op = "enable" /\ hc' = hc /\ e.cc = "error"
             \/ /\ c.op = "enable" /\ e.slot \in FreeSlots /\ e.cc = "ok"
                /\ hc' = [hc EXCEPT ![e.slot] = [FreeSlot EXCEPT !.on = TRUE]]
             \/ /\ c.op = "address"
                /\ \A r \in Slots : hc'[r].on = hc[r].on /\ hc'[r].ep = hc[r].ep
             \/ /\ c.op \in {"configure", "reset", "setdeq"}
                /\ \A r \in Slots : hc'[r].on = hc[r].on /\ (r # c.slot => hc'[r] = hc[r])
                /\ c.slot \in Slots => hc'[c.slot].ep \in {hc[c.slot].ep, "idle", "stopped"}
                /\ c.slot \in Slots /\ e.cc = "ok" /\ c.op # "reset" => hc'[c.slot].ep = "idle"
             \/ c.op = "disable" /\ hc' = [hc EXCEPT ![c.slot] = FreeSlot]

LEMMA Execution ==
    ASSUME TypeOK, NEW i \in DOMAIN cmdq,
           \/ cmdq[i].op = "enable" /\ Enable(cmdq[i])
           \/ cmdq[i].op = "address" /\ AddressDevice(cmdq[i])
           \/ cmdq[i].op = "configure" /\ Pipe(cmdq[i], {"none"}, "idle")
           \/ cmdq[i].op = "reset" /\ Pipe(cmdq[i], {"halted"}, "stopped")
           \/ cmdq[i].op = "setdeq" /\ Pipe(cmdq[i], {"stopped"}, "idle")
           \/ cmdq[i].op = "disable" /\ DisableSlot(cmdq[i])
           \/ cmdq[i].op = "control" /\ ControlTransfer(cmdq[i])
    PROVE  \E e \in Event : Executes(cmdq[i], e)
<1> DEFINE c == cmdq[i]
<1>1. c \in Command /\ c.slot \in Slots \cup {0} /\ hc \in [Slots -> HcSlot]
  <2>1. c \in Command
    BY DEF TypeOK, KernelTypes
  <2> QED
    BY <2>1 DEF Command, TypeOK, WorldTypes
<1> SUFFICES \E e \in Event : Executes(c, e)
  OBVIOUS
<1> HIDE DEF c
<1>2. ASSUME NEW how \in {"ok", "error"}, NEW s \in Slots \cup {0}
      PROVE  /\ CmdDone(c, how, s) \in Event /\ CmdDone(c, how, s).type = "command"
             /\ CmdDone(c, how, s).for = c /\ CmdDone(c, how, s).cc = how
             /\ CmdDone(c, how, s).slot = s
  BY <1>1, EventTypes DEF CmdDone
<1>3. CASE c.op = "enable" /\ Enable(c)
  <2>1. CASE FreeSlots = {}
    <3>1. Executes(c, CmdDone(c, "error", 0))
      BY <1>2, <1>3, <2>1 DEF Enable, Executes
    <3> QED
      BY <1>2, <3>1
  <2>2. CASE FreeSlots # {}
    <3>1. Min(FreeSlots) \in FreeSlots /\ FreeSlots \subseteq Slots
      BY <2>2, Least, UsbAssumption DEF FreeSlots, UsbAssumption
    <3>2. PICK s \in FreeSlots : /\ hc' = [hc EXCEPT ![s] = [FreeSlot EXCEPT !.on = TRUE]]
                                 /\ evq' = Append(evq, CmdDone(c, "ok", s))
      BY <1>3, <2>2, <3>1 DEF Enable
    <3>3. Executes(c, CmdDone(c, "ok", s))
      BY <1>2, <1>3, <3>1, <3>2 DEF Executes
    <3> QED
      BY <1>2, <3>1, <3>3
  <2> QED
    BY <2>1, <2>2
<1>4. CASE c.op = "address" /\ AddressDevice(c)
  <2>1. PICK how \in {"ok", "error"} : evq' = Append(evq, CmdDone(c, how, 0))
    BY <1>4 DEF AddressDevice
  <2>2. hc' = hc \/ \E k : hc' = [hc EXCEPT ![c.slot].phys = k]
    BY <1>4 DEF AddressDevice
  <2>3. \A r \in Slots : hc'[r].on = hc[r].on /\ hc'[r].ep = hc[r].ep
    <3>1. CASE hc' = hc
      BY <3>1
    <3>2. ASSUME NEW k, hc' = [hc EXCEPT ![c.slot].phys = k], NEW r \in Slots
          PROVE  hc'[r].on = hc[r].on /\ hc'[r].ep = hc[r].ep
      BY <1>1, <3>2 DEF HcSlot
    <3> QED
      BY <2>2, <3>1, <3>2
  <2>4. Executes(c, CmdDone(c, how, 0))
    BY <1>2, <1>4, <2>1, <2>3 DEF Executes
  <2> QED
    BY <1>2, <2>4
<1>5. ASSUME NEW from, NEW to \in {"idle", "stopped"}, Pipe(c, from, to),
             c.op \in {"configure", "reset", "setdeq"}, c.op # "reset" => to = "idle"
      PROVE  \E e \in Event : Executes(c, e)
  <2>1. CASE hc[c.slot].on /\ hc[c.slot].ep \in from
    <3>1. hc' = [hc EXCEPT ![c.slot].ep = to] /\ evq' = Append(evq, CmdDone(c, "ok", 0))
      BY <1>5, <2>1 DEF Pipe
    <3>2. /\ \A r \in Slots : hc'[r].on = hc[r].on /\ (r # c.slot => hc'[r] = hc[r])
          /\ c.slot \in Slots => hc'[c.slot].ep = to
      BY <1>1, <3>1 DEF HcSlot
    <3>3. Executes(c, CmdDone(c, "ok", 0))
      BY <1>2, <1>5, <3>1, <3>2 DEF Executes
    <3> QED
      BY <1>2, <3>3
  <2>2. CASE ~(hc[c.slot].on /\ hc[c.slot].ep \in from)
    <3>1. hc' = hc /\ evq' = Append(evq, CmdDone(c, "error", 0))
      BY <1>5, <2>2 DEF Pipe
    <3>2. Executes(c, CmdDone(c, "error", 0))
      BY <1>2, <1>5, <3>1 DEF Executes
    <3> QED
      BY <1>2, <3>2
  <2> QED
    BY <2>1, <2>2
<1>6. CASE c.op = "disable" /\ DisableSlot(c)
  <2>1. Executes(c, CmdDone(c, "ok", 0))
    BY <1>2, <1>6 DEF DisableSlot, Executes
  <2> QED
    BY <1>2, <2>1
<1>7. CASE c.op = "control" /\ ControlTransfer(c)
  <2>1. PICK how \in {"ok", "error"} : evq' = Append(evq, CtlDone(c.slot, how))
    BY <1>7 DEF ControlTransfer
  <2>2. CtlDone(c.slot, how) \in Event /\ CtlDone(c.slot, how).type = "control"
    BY <1>1, EventTypes DEF CtlDone
  <2>3. Executes(c, CtlDone(c.slot, how))
    BY <1>7, <2>1, <2>2 DEF ControlTransfer, Executes
  <2> QED
    BY <2>2, <2>3
<1> QED
  BY <1>3, <1>4, <1>5, <1>6, <1>7 DEF c

\* The command at i is executed, with the event e.
Runs(i, e) ==
    /\ i \in DOMAIN cmdq /\ e \in Event /\ Executes(cmdq[i], e)
    /\ cmdq' = RemoveAt(cmdq, i)
    /\ cmdq[i].op = "control" \/ \A j \in 1 .. (i - 1) : cmdq[j].op = "control"
    /\ UNCHANGED <<dev, wt, wdone, wcc, wslotout, rep, gaveUp, pc, port, cur, budget>>

LEMMA CommandRuns == IInv /\ HcCommand => \E i \in DOMAIN cmdq, e \in Event : Runs(i, e)
<1> SUFFICES ASSUME IInv, HcCommand
             PROVE  \E i \in DOMAIN cmdq, e \in Event : Runs(i, e)
  OBVIOUS
<1>1. PICK i \in DOMAIN cmdq :
        /\ cmdq[i].op = "control" \/ \A j \in 1 .. (i - 1) : cmdq[j].op = "control"
        /\ \/ cmdq[i].op = "enable" /\ Enable(cmdq[i])
           \/ cmdq[i].op = "address" /\ AddressDevice(cmdq[i])
           \/ cmdq[i].op = "configure" /\ Pipe(cmdq[i], {"none"}, "idle")
           \/ cmdq[i].op = "reset" /\ Pipe(cmdq[i], {"halted"}, "stopped")
           \/ cmdq[i].op = "setdeq" /\ Pipe(cmdq[i], {"stopped"}, "idle")
           \/ cmdq[i].op = "disable" /\ DisableSlot(cmdq[i])
           \/ cmdq[i].op = "control" /\ ControlTransfer(cmdq[i])
        /\ cmdq' = RemoveAt(cmdq, i)
  BY DEF HcCommand
<1>2. PICK e \in Event : Executes(cmdq[i], e)
  BY <1>1, Execution DEF IInv
<1>3. UNCHANGED <<dev, wt, wdone, wcc, wslotout, rep, gaveUp, pc, port, cur, budget>>
  BY DEF HcCommand, kernel, waiter, keys
<1>4. Runs(i, e)
  BY <1>1, <1>2, <1>3 DEF Runs
<1> QED
  BY <1>4

\* What the commands left in the queue were before.
LEMMA CommandsLeft ==
    ASSUME IInv, NEW i, NEW e, Runs(i, e)
    PROVE  /\ Len(cmdq) \in Nat \ {0} /\ i \in 1 .. Len(cmdq) /\ Len(cmdq') = Len(cmdq) - 1
           /\ DOMAIN cmdq = 1 .. Len(cmdq) /\ DOMAIN cmdq' = 1 .. Len(cmdq) - 1
           /\ \A n \in DOMAIN cmdq' : \E m \in DOMAIN cmdq :
                /\ cmdq'[n] = cmdq[m] /\ m # i
                /\ m = Len(cmdq) => n = Len(cmdq')
           /\ \A m \in DOMAIN cmdq : m # i => \E n \in DOMAIN cmdq' : cmdq'[n] = cmdq[m]
<1>1. /\ Len(cmdq) \in Nat \ {0}
      /\ DOMAIN cmdq = 1 .. Len(cmdq)
      /\ Len(cmdq') = Len(cmdq) - 1 /\ DOMAIN cmdq' = 1 .. Len(cmdq) - 1
      /\ \A n \in DOMAIN cmdq' : cmdq'[n] = cmdq[IF n < i THEN n ELSE n + 1]
      /\ i \in 1 .. Len(cmdq)
  BY Removed DEF Runs, IInv
<1>2. ASSUME NEW n \in DOMAIN cmdq'
      PROVE  \E m \in DOMAIN cmdq : /\ cmdq'[n] = cmdq[m] /\ m # i
                                    /\ m = Len(cmdq) => n = Len(cmdq')
  <2>1. CASE n < i
    BY <1>1, <1>2, <2>1
  <2>2. CASE ~(n < i)
    BY <1>1, <1>2, <2>2
  <2> QED
    BY <2>1, <2>2
<1>3. ASSUME NEW m \in DOMAIN cmdq, m # i
      PROVE  \E n \in DOMAIN cmdq' : cmdq'[n] = cmdq[m]
  <2>1. CASE m < i
    BY <1>1, <1>3, <2>1
  <2>2. CASE ~(m < i)
    <3>1. m - 1 \in DOMAIN cmdq' /\ ~(m - 1 < i) /\ (m - 1) + 1 = m
      BY <1>1, <1>3, <2>2
    <3> QED
      BY <1>1, <3>1
  <2> QED
    BY <2>1, <2>2
<1> QED
  BY <1>1, <1>2, <1>3

\* Whatever command runs, no report comes or goes, and no device changes.
LEMMA CommandKeeps ==
    ASSUME IInv, NEW i, NEW e, Runs(i, e), TypeOK'
    PROVE  /\ WaitOK' /\ PortOK' /\ CleanOK' /\ RepeatHasKeyUnlessAbandoned'
           /\ \A s : ReportsOf(s)' = ReportsOf(s)
           /\ \A n \in DOMAIN evq : evq'[n] = evq[n]
           /\ DOMAIN evq = 1 .. Len(evq) /\ DOMAIN evq' = 1 .. Len(evq) + 1
           /\ evq'[Len(evq) + 1] = e /\ Len(evq) \in Nat
           /\ \A s : dev_by_slot(s)' = dev_by_slot(s)
           /\ NoTimeouts' <=> NoTimeouts
<1>1. /\ UNCHANGED <<dev, wt, wdone, wcc, wslotout, rep, gaveUp, pc, port, cur, budget>>
      /\ evq' = Append(evq, e) /\ e \in Event /\ e.type \in {"command", "control"}
  BY DEF Runs, Executes
<1>2. TypeOK
  BY DEF IInv
<1>3. WaitOK' /\ PortOK' /\ RepeatHasKeyUnlessAbandoned' /\ (NoTimeouts' <=> NoTimeouts)
  BY <1>1 DEF IInv, WaitOK, PortOK, OneDevicePerPort, dev_on_root,
     RepeatHasKeyUnlessAbandoned, RepeatHasKey, Keyboard, NoTimeouts
<1>4. CleanOK'
  <2>1. ASSUME NEW d \in DevSlots, NEW n \in DOMAIN cmdq', dev[d].used
        PROVE  /\ /\ dev[d].is_kbd \/ (pc \in {"addressed", "described", "configured"} /\ cur = d)
                  /\ cmdq'[n].op \notin {"enable", "control"} /\ cmdq'[n].slot = dev[d].slot
                  => cmdq'[n].cur
               /\ cmdq'[n].op = "disable" /\ cmdq'[n].slot = dev[d].slot => cmdq'[n].cur
    <3>1. PICK m \in DOMAIN cmdq : cmdq'[n] = cmdq[m]
      BY <2>1, CommandsLeft
    <3> QED
      BY <2>1, <3>1 DEF IInv, CleanOK, Clean
  <2> QED
    BY <1>1, <2>1 DEF CleanOK, Clean
<1>5. \A s : ReportsOf(s)' = ReportsOf(s)
  BY <1>1, <1>2, NoReport
<1>6. \A s : dev_by_slot(s)' = dev_by_slot(s)
  BY <1>1 DEF dev_by_slot
<1> QED
  BY <1>1, <1>2, <1>3, <1>4, <1>5, <1>6, Appended

\* A control transfer disturbs nothing but the waiter it may belong to.
LEMMA ControlInv ==
    ASSUME IInv, NEW i, NEW e, Runs(i, e), TypeOK', cmdq[i].op = "control"
    PROVE  IInv'
<1> USE DEF IInv
<1>1. /\ UNCHANGED <<dev, hc, wt, wdone, wcc, wslotout, pc, port, cur>>
      /\ evq' = Append(evq, e) /\ e \in Event /\ e.type = "control"
  BY DEF Runs, Executes
<1>2. /\ \A n \in DOMAIN evq' : Done(n)' <=> Done(n)
      /\ \A how, s : Answer(how, s)' => Answer(how, s)
  BY <1>1, NoAnswer
<1>3. \A how, s : Answer(how, s) => Answer(how, s)'
  BY <1>1, <1>2, CommandKeeps DEF Answer, Done
<1>4. DevOK'
  BY <1>1 DEF DevOK
<1>5. QueueOK'
  <2>1. pc \in Waits /\ OpOf[pc] = "control" => pc = "described"
    BY DEF OpOf, Waits
  <2>2. Executed' /\ pc \in Waits => Executed \/ pc = "described"
    BY <2>1, CommandsLeft DEF Executed, QueueOK
  <2>3. Executed => Executed'
    BY CommandsLeft DEF Executed
  <2>4. \A n \in DOMAIN cmdq' :
          /\ cmdq'[n].op # "enable" => cmdq'[n].slot \in Slots
          /\ cmdq'[n].cur =>
               /\ pc \in Waits /\ n = Len(cmdq') /\ cmdq'[n].op = OpOf[pc]
               /\ cmdq'[n].op # "enable" => cmdq'[n].slot = dev[cur].slot
               /\ wt = "command" => ~wdone
    BY CommandsLeft DEF QueueOK
  <2>5. pc \in Waits /\ (Executed' \/ pc = "described") => \A n \in DOMAIN cmdq' : cmdq'[n].op = "control"
    BY <2>2, CommandsLeft DEF QueueOK
  <2>6. \A n \in DOMAIN evq' : Done(n)' =>
          /\ pc \in Waits /\ wt = "command" /\ ~wdone /\ Executed'
          /\ \A m \in DOMAIN evq' : Done(m)' => m = n
    BY <1>2, <2>3 DEF QueueOK, Done
  <2> QED
    BY <1>1, <2>4, <2>5, <2>6 DEF QueueOK
<1>6. AnswerOK'
  BY <1>1, <1>2, CommandKeeps DEF AnswerOK
<1>7. PipeOK'
  <2> SUFFICES ASSUME NEW d \in DevSlots, Keyboard(d)', ~(pc = "unplugged" /\ cur = d)'
               PROVE  PipeState(d)'
    BY DEF PipeOK
  <2>1. PipeState(d) /\ (Recovering(d)' <=> Recovering(d))
    BY <1>1 DEF PipeOK, Keyboard, Recovering
  <2> QED
    BY <1>1, <2>1, CommandKeeps DEF PipeState
<1>8. SlotOK'
  <2>1. NoTimeouts => \A n \in DOMAIN cmdq' : cmdq'[n].op # "control" => cmdq'[n].cur
    BY CommandsLeft DEF SlotOK
  <2> QED
    BY <1>1, <1>2, <1>3, <2>1, CommandKeeps DEF SlotOK
<1> QED
  BY <1>4, <1>5, <1>6, <1>7, <1>8, CommandKeeps

\* A command left over from a wait given up names no working keyboard's slot.
LEMMA StaleInv ==
    ASSUME IInv, NEW i, NEW e, Runs(i, e), TypeOK', cmdq[i].op # "control", ~cmdq[i].cur
    PROVE  IInv'
<1> DEFINE c == cmdq[i]
<1> USE DEF IInv
<1>1. /\ UNCHANGED <<dev, wt, wdone, wcc, wslotout, pc, port, cur>>
      /\ evq' = Append(evq, e) /\ e \in Event /\ e.type = "command" /\ e.for = c
      /\ i \in DOMAIN cmdq
  BY DEF Runs, Executes
<1>2. hc \in [Slots -> HcSlot] /\ c.slot \in Slots \cup {0}
  <2>1. c \in Command
    BY <1>1 DEF TypeOK, KernelTypes
  <2> QED
    BY <2>1 DEF TypeOK, WorldTypes, Command
<1>3. pc \in Waits => ~Executed /\ pc # "described"
  BY <1>1 DEF QueueOK
<1>4. \A n \in DOMAIN evq : ~Done(n)
  BY <1>3 DEF QueueOK
<1>5. ~wdone
  BY <1>3 DEF WaitOK, QueueOK, Executed
<1>6. /\ \A n \in DOMAIN evq' : ~Done(n)'
      /\ \A how, s : ~Answer(how, s) /\ ~Answer(how, s)'
  <2>1. \A n \in DOMAIN evq' : Done(n)' <=> Done(n)
    BY <1>1, NoAnswer
  <2> QED
    BY <1>1, <1>4, <1>5, <2>1 DEF Answer, Done
<1>7. ASSUME NEW d \in DevSlots, dev[d].used, dev[d].slot \in Slots,
             ~(pc \in Dropping /\ cur = d)
      PROVE  /\ hc[dev[d].slot].on /\ hc'[dev[d].slot].on
             /\ dev[d].is_kbd => hc'[dev[d].slot].ep = hc[dev[d].slot].ep
  <2>1. hc[dev[d].slot].on /\ 0 \notin Slots
    BY <1>7, UsbAssumption DEF DevOK, UsbAssumption
  <2>2. c.op = "disable" => c.slot # dev[d].slot
    BY <1>1, <1>7 DEF CleanOK
  <2>3. dev[d].is_kbd /\ c.op # "enable" => c.slot # dev[d].slot
    BY <1>1, <1>7 DEF CleanOK, Clean
  <2>4. dev[d].slot \notin FreeSlots
    BY <2>1 DEF FreeSlots
  <2> QED
    BY <1>1, <1>2, <1>7, <2>1, <2>2, <2>3, <2>4 DEF Runs, Executes, HcSlot, FreeSlot
<1>8. DevOK'
  BY <1>1, <1>7 DEF DevOK, WaitOK
<1>9. QueueOK'
  <2>1. pc \in Waits => ~Executed'
    <3>1. ASSUME pc \in Waits
          PROVE  \E n \in DOMAIN cmdq' : cmdq'[n].cur
      <4>1. PICK m \in DOMAIN cmdq : cmdq[m].cur
        BY <1>3, <3>1 DEF Executed
      <4>2. m # i
        BY <4>1
      <4> QED
        BY <4>1, <4>2, CommandsLeft
    <3> QED
      BY <3>1 DEF Executed
  <2>2. ASSUME NEW n \in DOMAIN cmdq'
        PROVE  /\ cmdq'[n].op # "enable" => cmdq'[n].slot \in Slots
               /\ cmdq'[n].cur =>
                    /\ pc \in Waits /\ n = Len(cmdq') /\ cmdq'[n].op = OpOf[pc]
                    /\ cmdq'[n].op # "enable" => cmdq'[n].slot = dev[cur].slot
                    /\ wt = "command" => ~wdone
    BY <2>2, CommandsLeft DEF QueueOK
  <2> QED
    BY <1>1, <1>3, <1>6, <2>1, <2>2 DEF QueueOK
<1>10. AnswerOK'
  BY <1>6 DEF AnswerOK
<1>11. PipeOK'
  <2> SUFFICES ASSUME NEW d \in DevSlots, Keyboard(d)', ~(pc = "unplugged" /\ cur = d)'
               PROVE  PipeState(d)'
    BY DEF PipeOK
  <2>1. /\ PipeState(d) /\ (Recovering(d)' <=> Recovering(d))
        /\ dev[d].used /\ dev[d].is_kbd /\ ~(pc \in Dropping /\ cur = d)
    BY <1>1 DEF PipeOK, Keyboard, Recovering, Dropping, WaitOK, Enumerating
  <2>2. dev[d].slot \in Slots
    BY <2>1 DEF DevOK, WaitOK, Enumerating
  <2>3. hc'[dev[d].slot].ep = hc[dev[d].slot].ep
    BY <1>7, <2>1, <2>2
  <2> QED
    BY <1>1, <2>1, <2>3, CommandKeeps DEF PipeState
<1>12. SlotOK'
  BY <1>1, CommandKeeps DEF SlotOK
<1> QED
  BY <1>8, <1>9, <1>10, <1>11, <1>12, CommandKeeps

\* The command waited for is the last: its answer is the only one.
LEMMA CurrentInv ==
    ASSUME IInv, NEW i, NEW e, Runs(i, e), TypeOK', cmdq[i].op # "control", cmdq[i].cur
    PROVE  IInv'
<1> DEFINE c == cmdq[i]
<1> USE DEF IInv
<1>1. /\ UNCHANGED <<dev, wt, wdone, wcc, wslotout, pc, port, cur>>
      /\ evq' = Append(evq, e) /\ e \in Event /\ e.type = "command" /\ e.for = c
      /\ i \in DOMAIN cmdq
  BY DEF Runs, Executes
<1>2. hc \in [Slots -> HcSlot] /\ c.slot \in Slots \cup {0} /\ 0 \notin Slots
  <2>1. c \in Command
    BY <1>1 DEF TypeOK, KernelTypes
  <2> QED
    BY <2>1, UsbAssumption DEF TypeOK, WorldTypes, Command, UsbAssumption
<1>3. /\ pc \in Waits /\ i = Len(cmdq) /\ c.op = OpOf[pc]
      /\ c.op # "enable" => c.slot = dev[cur].slot /\ c.slot \in Slots
  BY <1>1 DEF QueueOK
<1>4. pc # "described" /\ wt = "command" /\ ~wdone
  BY <1>1, <1>3 DEF QueueOK, WaitOK, OpOf, Waits
<1>5. \A n \in DOMAIN evq : ~Done(n)
  BY <1>1 DEF QueueOK, Executed
<1>6. /\ \A n \in DOMAIN evq' : Done(n)' <=> n = Len(evq) + 1
      /\ \A how, s : ~Answer(how, s)
      /\ \A how, s : Answer(how, s)' => how = e.cc /\ s = e.slot
      /\ Answer(e.cc, e.slot)'
  BY <1>1, <1>4, <1>5, CommandKeeps DEF Answer, Done
<1>7. \A n \in DOMAIN cmdq' : cmdq'[n].op = "control" /\ ~cmdq'[n].cur
  <2>1. \A m \in DOMAIN cmdq : m # i => cmdq[m].op = "control" /\ ~cmdq[m].cur
    BY <1>3, CommandsLeft DEF Runs, QueueOK
  <2> QED
    BY <2>1, CommandsLeft
<1>8. ASSUME NEW d \in DevSlots, dev[d].used, dev[d].slot \in Slots,
             ~(pc \in Dropping /\ cur = d)
      PROVE  /\ hc[dev[d].slot].on /\ hc'[dev[d].slot].on
             /\ d # cur => hc'[dev[d].slot].ep = hc[dev[d].slot].ep
  <2>1. hc[dev[d].slot].on /\ 0 \notin Slots
    BY <1>8, UsbAssumption DEF DevOK, UsbAssumption
  <2>2. d # cur => c.op = "enable" \/ c.slot # dev[d].slot
    BY <1>3, <1>8 DEF DevOK, WaitOK, TypeOK, KernelTypes
  <2>3. c.op = "disable" => pc \in Dropping
    BY <1>3 DEF OpOf, Waits, Dropping
  <2>4. dev[d].slot \notin FreeSlots
    BY <2>1 DEF FreeSlots
  <2> QED
    BY <1>1, <1>2, <1>8, <2>1, <2>2, <2>3, <2>4 DEF Runs, Executes, HcSlot, FreeSlot
<1>9. DevOK'
  BY <1>1, <1>8 DEF DevOK, WaitOK
<1>10. QueueOK'
  <2>1. \A n \in DOMAIN cmdq' : cmdq'[n].op # "enable" => cmdq'[n].slot \in Slots
    BY CommandsLeft DEF QueueOK
  <2>2. \A n \in DOMAIN evq' : Done(n)' =>
          /\ pc \in Waits /\ wt = "command" /\ ~wdone /\ Executed'
          /\ \A m \in DOMAIN evq' : Done(m)' => m = n
    BY <1>3, <1>4, <1>6, <1>7 DEF Executed
  <2> QED
    BY <1>1, <1>7, <2>1, <2>2 DEF QueueOK
<1>11. AnswerOK'
  <2>1. ASSUME pc = "enabled", NEW s \in Slots \cup {0}, Answer("ok", s)'
        PROVE  s \in Slots /\ hc'[s].on /\ hc'[s].ep = "none" /\ dev_by_slot(s) = {}
    <3>1. c.op = "enable" /\ s = e.slot /\ e.cc = "ok"
      BY <1>3, <1>6, <2>1 DEF OpOf
    <3>2. s \in FreeSlots /\ hc' = [hc EXCEPT ![s] = [FreeSlot EXCEPT !.on = TRUE]]
      BY <3>1 DEF Runs, Executes
    <3>3. dev_by_slot(s) = {}
      BY <1>2, <2>1, <3>2 DEF FreeSlots, dev_by_slot, DevOK, Dropping
    <3> QED
      BY <1>2, <3>2, <3>3 DEF FreeSlots, FreeSlot
  <2>2. ASSUME pc \in {"configured", "dequeued"}, NEW s \in Slots \cup {0}, Answer("ok", s)'
        PROVE  hc'[dev[cur].slot].ep = "idle"
    <3>1. c.op \in {"configure", "setdeq"} /\ c.slot = dev[cur].slot /\ c.slot \in Slots
      BY <1>3, <2>2 DEF OpOf
    <3>2. e.cc = "ok"
      BY <1>6, <2>2
    <3> QED
      BY <3>1, <3>2 DEF Runs, Executes
  <2> QED
    BY <1>1, <2>1, <2>2, CommandKeeps DEF AnswerOK
<1>12. PipeOK'
  <2> SUFFICES ASSUME NEW d \in DevSlots, Keyboard(d)', ~(pc = "unplugged" /\ cur = d)'
               PROVE  PipeState(d)'
    BY DEF PipeOK
  <2>1. /\ PipeState(d) /\ (Recovering(d)' <=> Recovering(d))
        /\ dev[d].used /\ dev[d].is_kbd /\ ~(pc \in Dropping /\ cur = d)
    BY <1>1 DEF PipeOK, Keyboard, Recovering, Dropping, WaitOK, Enumerating
  <2>2. dev[d].slot \in Slots
    BY <2>1 DEF DevOK, WaitOK, Enumerating
  <2>3. CASE d # cur
    BY <1>1, <1>8, <2>1, <2>2, <2>3, CommandKeeps DEF PipeState
  <2>4. CASE d = cur
    <3>1. pc \in {"pipe_reset", "dequeued"}
      BY <1>3, <2>1, <2>4 DEF WaitOK, Waits, Enumerating, Dropping
    <3>2. /\ Recovering(d) /\ ~dev[d].need_recover /\ ReportsOf(dev[d].slot) = {}
          /\ hc[dev[d].slot].ep # "armed"
      BY <2>1, <2>4, <3>1 DEF PipeState, Recovering
    <3>3. c.op \in {"reset", "setdeq"} /\ c.slot = dev[d].slot
      BY <1>3, <2>4, <3>1 DEF OpOf
    <3>4. hc'[dev[d].slot].ep # "armed"
      BY <2>2, <3>2, <3>3 DEF Runs, Executes
    <3> QED
      BY <1>1, <2>1, <3>2, <3>4, CommandKeeps DEF PipeState
  <2> QED
    BY <2>3, <2>4
<1>13. SlotOK'
  <2> SUFFICES ASSUME NoTimeouts
               PROVE  /\ \A s \in Slots : hc'[s].on =>
                           dev_by_slot(s) # {} \/ (pc = "enabled" /\ Answer("ok", s)')
                      /\ pc \in Dropping =>
                           \A how \in {"ok", "error"}, s \in Slots \cup {0} :
                              Answer(how, s)' => ~hc'[dev[cur].slot].on
    BY <1>1, <1>7, CommandKeeps DEF SlotOK
  <2>1. \A s \in Slots : hc[s].on => dev_by_slot(s) # {}
    BY <1>6 DEF SlotOK
  <2>2. ASSUME NEW s \in Slots, hc'[s].on
        PROVE  hc[s].on \/ (pc = "enabled" /\ Answer("ok", s)')
    <3>1. c.op = "enable" => pc = "enabled"
      BY <1>3 DEF OpOf, Waits
    <3> QED
      BY <1>2, <1>6, <2>2, <3>1 DEF Runs, Executes, FreeSlot, FreeSlots
  <2>3. ASSUME pc \in Dropping
        PROVE  ~hc'[dev[cur].slot].on
    <3>1. c.op = "disable" /\ c.slot = dev[cur].slot /\ c.slot \in Slots
      BY <1>3, <2>3 DEF OpOf, Dropping
    <3> QED
      BY <1>2, <3>1 DEF Runs, Executes, FreeSlot
  <2> QED
    BY <2>1, <2>2, <2>3
<1> QED
  BY <1>9, <1>10, <1>11, <1>12, <1>13, CommandKeeps

LEMMA CommandInv == IInv /\ HcCommand => IInv'
<1> SUFFICES ASSUME IInv, HcCommand
             PROVE  IInv'
  OBVIOUS
<1>1. TypeOK'
  BY CommandTypes DEF IInv
<1>2. PICK i \in DOMAIN cmdq, e \in Event : Runs(i, e)
  BY CommandRuns
<1>3. cmdq[i].cur \in BOOLEAN
  <2>1. cmdq[i] \in Command
    BY DEF IInv, TypeOK, KernelTypes
  <2> QED
    BY <2>1 DEF Command
<1> QED
  BY <1>1, <1>2, <1>3, ControlInv, StaleInv, CurrentInv

\* What handling an event may change: the keys and the need of recovery of one
\* keyboard, and whether its pipe is armed.
LEMMA EventEffect ==
    ASSUME IInv, handle_event
    PROVE  /\ UNCHANGED <<cmdq, budget, pc, port, cur, wt, gaveUp>>
           /\ \A d \in DevSlots :
                /\ dev'[d].used = dev[d].used /\ dev'[d].slot = dev[d].slot
                /\ dev'[d].rootport = dev[d].rootport /\ dev'[d].is_kbd = dev[d].is_kbd
           /\ \A s : dev_by_slot(s)' = dev_by_slot(s)
           /\ \A s \in Slots : hc'[s].on = hc[s].on
           /\ \/ dev' = dev /\ hc' = hc /\ rep' = rep /\ Head(evq).type # "report"
              \/ /\ dev' = dev /\ hc' = hc /\ rep' = rep /\ Head(evq).type = "report"
                 /\ \A d \in dev_by_slot(Head(evq).slot) : ~dev[d].is_kbd
                 /\ UNCHANGED waiter
              \/ /\ Head(evq).type = "report" /\ UNCHANGED waiter
                 /\ \E d \in dev_by_slot(Head(evq).slot) :
                      /\ dev[d].is_kbd
                      /\ \A x \in DevSlots : x # d => dev'[x] = dev[x]
                      /\ \A s \in Slots : s # dev[d].slot => hc'[s] = hc[s]
                      /\ dev[d].slot \in Slots
                      /\ \/ /\ Head(evq).cc = "ok"
                            /\ hc' = Armed(hc, dev[d].slot)
                            /\ dev'[d].need_recover = dev[d].need_recover
                            /\ (dev' = dev /\ rep' = rep) \/ rep' \in dev'[d].prev \cup {None}
                         \/ /\ Head(evq).cc = "error" /\ hc' = hc /\ rep' = rep
                            /\ dev'[d].need_recover /\ dev'[d].prev = dev[d].prev
<1> DEFINE e == Head(evq)
<1>1. e \in Event /\ TypeOK /\ hc \in [Slots -> HcSlot] /\ dev \in [DevSlots -> Device]
  BY Handled DEF handle_event, IInv, TypeOK, WorldTypes, KernelTypes
<1>2. UNCHANGED <<cmdq, budget, pc, port, cur, gaveUp>>
  BY DEF handle_event, ghosts
<1>3. \/ e.type = "report" /\ OnReport(e)
      \/ e.type \in {"command", "control"} /\ OnCompletion(e)
      \/ e.type = "port" /\ OnPort(e)
  BY DEF handle_event
<1> HIDE DEF e
<1>4. CASE e.type # "report"
  <2>1. dev' = dev /\ hc' = hc /\ rep' = rep /\ wt' = wt
    BY <1>3, <1>4 DEF OnCompletion, OnPort, waiter
  <2> QED
    BY <1>2, <1>4, <2>1 DEF dev_by_slot, e
<1>5. CASE e.type = "report" /\ \A d \in dev_by_slot(e.slot) : ~dev[d].is_kbd
  <2>1. dev' = dev /\ hc' = hc /\ rep' = rep /\ UNCHANGED waiter
    BY <1>3, <1>5 DEF OnReport
  <2> QED
    BY <1>2, <1>5, <2>1 DEF dev_by_slot, waiter, e
<1>6. CASE e.type = "report" /\ ~\A d \in dev_by_slot(e.slot) : ~dev[d].is_kbd
  <2>1. PICK d \in dev_by_slot(e.slot) :
          /\ dev[d].is_kbd
          /\ IF e.cc = "ok"
             THEN kbd_report(d, e.keys) /\ hc' = Armed(hc, e.slot)
             ELSE /\ dev' = [dev EXCEPT ![d].need_recover = TRUE]
                  /\ UNCHANGED <<hc, rep, kq>>
    BY <1>3, <1>6 DEF OnReport
  <2>2. UNCHANGED waiter
    BY <1>3, <1>6 DEF OnReport
  <2>3. d \in DevSlots /\ dev[d].slot = e.slot /\ e.slot \in Slots /\ e.cc \in {"ok", "error"}
    BY <1>1, <1>6, EventFields DEF dev_by_slot
  <2>4. CASE e.cc = "ok"
    <3>1. /\ hc' = Armed(hc, e.slot)
          /\ \A s \in Slots : /\ hc'[s].on = hc[s].on
                              /\ s # e.slot => hc'[s] = hc[s]
      BY <1>1, <2>1, <2>3, <2>4, ArmedFacts
    <3>2. \/ dev' = dev /\ rep' = rep
          \/ dev' = [dev EXCEPT ![d].prev = e.keys] /\ rep' \in e.keys \cup {None}
      BY <2>1, <2>4 DEF kbd_report
    <3>3. /\ \A x \in DevSlots : x # d => dev'[x] = dev[x]
          /\ dev'[d].used = dev[d].used /\ dev'[d].slot = dev[d].slot
          /\ dev'[d].rootport = dev[d].rootport /\ dev'[d].is_kbd = dev[d].is_kbd
          /\ dev'[d].need_recover = dev[d].need_recover
          /\ (dev' = dev /\ rep' = rep) \/ rep' \in dev'[d].prev \cup {None}
      BY <1>1, <2>3, <3>2 DEF Device
    <3>4. \A s : dev_by_slot(s)' = dev_by_slot(s)
      BY <2>3, <3>3 DEF dev_by_slot
    <3> QED
      BY <1>2, <1>6, <2>1, <2>2, <2>3, <2>4, <3>1, <3>3, <3>4 DEF waiter, e
  <2>5. CASE e.cc = "error"
    <3>1. dev' = [dev EXCEPT ![d].need_recover = TRUE] /\ hc' = hc /\ rep' = rep
      BY <2>1, <2>5
    <3>2. /\ \A x \in DevSlots : x # d => dev'[x] = dev[x]
          /\ dev'[d].used = dev[d].used /\ dev'[d].slot = dev[d].slot
          /\ dev'[d].rootport = dev[d].rootport /\ dev'[d].is_kbd = dev[d].is_kbd
          /\ dev'[d].need_recover /\ dev'[d].prev = dev[d].prev
      BY <1>1, <2>3, <3>1 DEF Device
    <3>3. \A s : dev_by_slot(s)' = dev_by_slot(s)
      BY <2>3, <3>2 DEF dev_by_slot
    <3> QED
      BY <1>2, <1>6, <2>1, <2>2, <2>3, <2>5, <3>1, <3>2, <3>3 DEF waiter, e
  <2> QED
    BY <2>3, <2>4, <2>5
<1> QED
  BY <1>4, <1>5, <1>6

\* The answers after an event is handled are those before it.
LEMMA HandledAnswers ==
    ASSUME IInv, handle_event, TypeOK'
    PROVE  /\ QueueOK' /\ WaitOK'
           /\ pc # "described" => \A how, s : Answer(how, s)' <=> Answer(how, s)
<1> DEFINE e == Head(evq)
<1> USE DEF IInv
<1>1. /\ evq' \in Seq(Event) /\ Len(evq) \in Nat \ {0}
      /\ DOMAIN evq = 1 .. Len(evq) /\ DOMAIN evq' = 1 .. Len(evq) - 1
      /\ \A n \in DOMAIN evq' : evq'[n] = evq[n + 1]
      /\ e = evq[1] /\ e \in Event
  BY Handled DEF handle_event
<1>2. /\ UNCHANGED <<cmdq, pc, port, cur, wt>>
      /\ \A d \in DevSlots :
           /\ dev'[d].used = dev[d].used /\ dev'[d].slot = dev[d].slot
           /\ dev'[d].rootport = dev[d].rootport /\ dev'[d].is_kbd = dev[d].is_kbd
  BY EventEffect
<1>3. pc \in Waits => cur \in DevSlots
  BY DEF TypeOK, KernelTypes
<1>4. \/ UNCHANGED waiter /\ ~Done(1)
      \/ /\ Done(1) /\ wt = "command"
         /\ wdone' = TRUE /\ wcc' = e.cc /\ wslotout' = e.slot
      \/ wt = "control" /\ wdone' = TRUE /\ wcc' = e.cc /\ ~Done(1) /\ e.cc \in {"ok", "error"}
  <2>1. Done(1) <=> e.type = "command" /\ e.for.cur
    BY <1>1 DEF Done
  <2>2. \/ e.type = "report" /\ OnReport(e)
        \/ e.type \in {"command", "control"} /\ OnCompletion(e)
        \/ e.type = "port" /\ OnPort(e)
    BY DEF handle_event
  <2>3. CASE e.type \in {"report", "port"}
    BY <2>1, <2>2, <2>3 DEF OnReport, OnPort
  <2>4. CASE e.type = "command" /\ OnCompletion(e)
    <3>1. Done(1) => wt = "command"
      BY <1>1 DEF QueueOK
    <3> QED
      BY <2>1, <2>4, <3>1 DEF OnCompletion
  <2>5. CASE e.type = "control" /\ OnCompletion(e)
    BY <1>1, <2>1, <2>5, EventFields DEF OnCompletion
  <2> QED
    BY <2>2, <2>3, <2>4, <2>5
<1>5. \A n \in DOMAIN evq' : Done(n)' <=> Done(n + 1)
  BY <1>1 DEF Done
<1>6. Executed' <=> Executed
  BY <1>2 DEF Executed
<1>7. Done(1) => /\ ~wdone /\ Executed /\ pc \in Waits
                 /\ \A n \in DOMAIN evq : Done(n) => n = 1
                 /\ e.cc \in {"ok", "error"}
  BY <1>1, EventFields DEF QueueOK, Done
<1>8. wdone' => wcc' # "none" /\ pc \in Waits
  BY <1>4, <1>7 DEF WaitOK, waiter
<1>9. WaitOK'
  BY <1>2, <1>3, <1>8 DEF WaitOK, Enumerating, Waits
<1>10. QueueOK'
  <2>1. \A n \in DOMAIN cmdq : 
          /\ cmdq[n].op # "enable" => cmdq[n].slot \in Slots
          /\ cmdq[n].cur =>
               /\ pc \in Waits /\ n = Len(cmdq) /\ cmdq[n].op = OpOf[pc]
               /\ cmdq[n].op # "enable" => cmdq[n].slot = dev'[cur].slot
               /\ wt = "command" => ~wdone'
    BY <1>2, <1>3, <1>4, <1>7 DEF QueueOK, Executed, waiter
  <2>2. ASSUME NEW n \in DOMAIN evq', Done(n)'
        PROVE  /\ pc \in Waits /\ wt = "command" /\ ~wdone' /\ Executed
               /\ \A m \in DOMAIN evq' : Done(m)' => m = n
    <3>1. Done(n + 1) /\ n + 1 \in DOMAIN evq /\ n + 1 # 1
      BY <1>1, <1>5, <2>2
    <3>2. ~Done(1) /\ wt = "command" /\ ~wdone /\ UNCHANGED waiter
      BY <1>4, <1>7, <3>1 DEF QueueOK
    <3>3. ASSUME NEW m \in DOMAIN evq', Done(m)'
          PROVE  m = n
      <4>1. Done(m + 1) /\ m + 1 \in DOMAIN evq
        BY <1>1, <1>5, <3>3
      <4>2. m + 1 = n + 1
        BY <3>1, <4>1 DEF QueueOK
      <4> QED
        BY <1>1, <4>2
    <3> QED
      BY <3>1, <3>2, <3>3 DEF QueueOK, waiter
  <2> QED
    BY <1>2, <1>6, <2>1, <2>2 DEF QueueOK
<1>11. ASSUME pc # "described", NEW how, NEW s
       PROVE  Answer(how, s)' <=> Answer(how, s)
  <2>1. wt # "control"
    BY <1>11 DEF WaitOK
  <2>2. CASE Done(1)
    <3>1. Answer(how, s) <=> e.cc = how /\ e.slot = s
      BY <1>1, <1>7, <2>2 DEF Answer
    <3>2. Answer(how, s)' <=> e.cc = how /\ e.slot = s
      <4>1. \A n \in DOMAIN evq' : ~Done(n)'
        BY <1>1, <1>5, <1>7, <2>2 DEF Done
      <4> QED
        BY <1>4, <2>1, <2>2, <4>1 DEF Answer, Done
    <3> QED
      BY <3>1, <3>2
  <2>3. CASE ~Done(1)
    <3>1. UNCHANGED waiter
      BY <1>4, <2>1, <2>3
    <3>2. ASSUME NEW n \in DOMAIN evq, Done(n)
          PROVE  /\ n - 1 \in DOMAIN evq' /\ evq'[n - 1] = evq[n]
                 /\ Done(n - 1)'
      <4>1. n # 1 /\ n - 1 \in DOMAIN evq' /\ (n - 1) + 1 = n
        BY <1>1, <2>3, <3>2
      <4>2. evq'[n - 1] = evq[n]
        BY <1>1, <4>1
      <4> QED
        BY <1>5, <3>2, <4>1, <4>2
    <3>3. ASSUME NEW n \in DOMAIN evq', Done(n)'
          PROVE  n + 1 \in DOMAIN evq /\ evq[n + 1] = evq'[n] /\ Done(n + 1)
      BY <1>1, <1>5, <3>3 DEF Done
    <3>4. Answer(how, s) => Answer(how, s)'
      BY <3>1, <3>2 DEF Answer, waiter
    <3>5. Answer(how, s)' => Answer(how, s)
      BY <3>1, <3>3 DEF Answer, waiter
    <3> QED
      BY <3>4, <3>5
  <2> QED
    BY <2>2, <2>3
<1> QED
  BY <1>9, <1>10, <1>11

LEMMA EventInv == IInv /\ handle_event => IInv'
<1> SUFFICES ASSUME IInv, handle_event
             PROVE  IInv'
  OBVIOUS
<1> DEFINE e == Head(evq)
<1> USE DEF IInv
<1>1. TypeOK'
  BY EventTypeOK
<1>2. /\ DOMAIN evq = 1 .. Len(evq) /\ DOMAIN evq' = 1 .. Len(evq) - 1 /\ Len(evq) \in Nat \ {0}
      /\ \A n \in DOMAIN evq' : evq'[n] = evq[n + 1]
      /\ e = evq[1] /\ e \in Event
  BY Handled DEF handle_event
<1>3. /\ UNCHANGED <<cmdq, budget, pc, port, cur, gaveUp>>
      /\ \A d \in DevSlots :
           /\ dev'[d].used = dev[d].used /\ dev'[d].slot = dev[d].slot
           /\ dev'[d].rootport = dev[d].rootport /\ dev'[d].is_kbd = dev[d].is_kbd
      /\ \A s : dev_by_slot(s)' = dev_by_slot(s)
      /\ \A s \in Slots : hc'[s].on = hc[s].on
  BY EventEffect
<1>4. pc # "described" => \A how, s : Answer(how, s)' <=> Answer(how, s)
  BY <1>1, HandledAnswers
<1>5. hc \in [Slots -> HcSlot]
  BY DEF TypeOK, WorldTypes
\* A pipe changes only when it is armed for a keyboard whose report came.
<1>6. ASSUME NEW s \in Slots, hc'[s] # hc[s]
      PROVE  /\ e.type = "report" /\ e.slot = s /\ e.cc = "ok" /\ hc' = Armed(hc, s)
             /\ \E d \in DevSlots : dev[d].used /\ dev[d].is_kbd /\ dev[d].slot = s
  BY <1>6, EventEffect DEF dev_by_slot
<1>7. \A s : e.type # "report" \/ e.slot # s =>
         /\ ReportsOf(s) = {} => ReportsOf(s)' = {}
         /\ \A n \in DOMAIN evq : ReportsOf(s) = {n} =>
              /\ n - 1 \in DOMAIN evq' /\ ReportsOf(s)' = {n - 1} /\ evq'[n - 1] = evq[n]
  <2>1. ASSUME NEW s, e.type # "report" \/ e.slot # s, NEW n \in DOMAIN evq, ReportsOf(s) = {n}
        PROVE  /\ n - 1 \in DOMAIN evq' /\ ReportsOf(s)' = {n - 1} /\ evq'[n - 1] = evq[n]
    <3>1. n # 1
      BY <1>2, <2>1 DEF ReportsOf
    <3>2. n - 1 \in DOMAIN evq' /\ (n - 1) + 1 = n /\ evq'[n - 1] = evq[n]
      BY <1>2, <2>1, <3>1
    <3>3. n - 1 \in ReportsOf(s)'
      BY <2>1, <3>2 DEF ReportsOf
    <3>4. ASSUME NEW m \in ReportsOf(s)'
          PROVE  m = n - 1
      <4>1. m + 1 \in ReportsOf(s) /\ m \in Int
        BY <1>2, <3>4 DEF ReportsOf
      <4> QED
        BY <1>2, <2>1, <4>1
    <3> QED
      BY <3>2, <3>3, <3>4
  <2>2. ASSUME NEW s, ReportsOf(s) = {}
        PROVE  ReportsOf(s)' = {}
    <3>1. ASSUME NEW m \in ReportsOf(s)'
          PROVE  FALSE
      <4>1. m + 1 \in ReportsOf(s)
        BY <1>2, <3>1 DEF ReportsOf
      <4> QED
        BY <2>2, <4>1
    <3> QED
      BY <3>1
  <2> QED
    BY <2>1, <2>2
<1>8. WaitOK' /\ QueueOK'
  BY <1>1, HandledAnswers
<1>9. DevOK'
  <2>1. \A d \in DevSlots : dev'[d].need_recover => dev[d].need_recover \/ dev[d].is_kbd
    BY EventEffect
  <2> QED
    BY <1>3, <2>1 DEF DevOK, WaitOK
<1>10. PortOK'
  BY <1>3 DEF PortOK, OneDevicePerPort, dev_on_root
<1>11. CleanOK'
  BY <1>3 DEF CleanOK, Clean
<1>12. SlotOK'
  <2>1. pc \in Dropping => dev[cur].slot \in Slots /\ cur \in DevSlots
    BY Waiting DEF Dropping, Waits
  <2>2. NoTimeouts' <=> NoTimeouts
    BY <1>3 DEF NoTimeouts
  <2>3. pc \in Dropping \cup {"enabled"} => \A how, s : Answer(how, s)' <=> Answer(how, s)
    BY <1>4 DEF Dropping
  <2> QED
    BY <1>3, <2>1, <2>2, <2>3 DEF SlotOK
<1>13. AnswerOK'
  <2>1. ASSUME pc = "enabled", NEW s \in Slots \cup {0}, Answer("ok", s)'
        PROVE  s \in Slots /\ hc'[s].on /\ hc'[s].ep = "none" /\ dev_by_slot(s) = {}
    <3>1. s \in Slots /\ hc[s].on /\ hc[s].ep = "none" /\ dev_by_slot(s) = {}
      BY <1>4, <2>1 DEF AnswerOK
    <3>2. hc'[s] = hc[s]
      BY <1>6, <3>1 DEF dev_by_slot
    <3> QED
      BY <3>1, <3>2
  <2>2. ASSUME pc \in {"configured", "dequeued"}, NEW s \in Slots \cup {0}, Answer("ok", s)'
        PROVE  hc'[dev[cur].slot].ep = "idle"
    <3>1. dev[cur].slot \in Slots /\ cur \in DevSlots /\ dev[cur].used
      BY <2>2, Waiting DEF Waits
    <3>2. hc[dev[cur].slot].ep = "idle"
      BY <1>4, <2>2 DEF AnswerOK
    <3>3. CASE hc'[dev[cur].slot] = hc[dev[cur].slot]
      BY <3>2, <3>3
    <3>4. CASE hc'[dev[cur].slot] # hc[dev[cur].slot]
      <4>1. PICK d \in DevSlots : /\ dev[d].used /\ dev[d].is_kbd /\ dev[d].slot = dev[cur].slot
                                  /\ e.type = "report" /\ e.slot = dev[cur].slot
        BY <1>6, <3>1, <3>4
      <4>2. d = cur
        BY <3>1, <4>1 DEF DevOK
      <4>3. pc = "dequeued" /\ PipeState(cur)
        BY <2>2, <3>1, <4>1, <4>2 DEF WaitOK, Enumerating, PipeOK, Keyboard
      <4>4. ReportsOf(dev[cur].slot) = {}
        BY <4>3 DEF PipeState, Recovering
      <4>5. 1 \in ReportsOf(dev[cur].slot)
        BY <1>2, <4>1 DEF ReportsOf
      <4> QED
        BY <4>4, <4>5
    <3> QED
      BY <3>3, <3>4
  <2> QED
    BY <1>3, <2>1, <2>2, Waiting DEF AnswerOK, Waits
<1>14. PipeOK'
  <2> SUFFICES ASSUME NEW d \in DevSlots, Keyboard(d)', ~(pc = "unplugged" /\ cur = d)'
               PROVE  PipeState(d)'
    BY DEF PipeOK
  <2>0. dev[d].slot \in Slots
    BY <1>3 DEF Keyboard, DevOK, WaitOK, Enumerating
  <2> PICK s \in Slots : s = dev[d].slot
    BY <2>0
  <2>1. /\ PipeState(d) /\ (Recovering(d)' <=> Recovering(d)) /\ dev'[d].slot = s
        /\ dev[d].used /\ dev[d].is_kbd /\ s \in Slots
    BY <1>3 DEF PipeOK, Keyboard, Recovering, DevOK, WaitOK, Enumerating
  <2>2. CASE ~(e.type = "report" /\ e.slot = s)
    <3>1. hc'[s] = hc[s]
      BY <1>6, <2>1, <2>2
    <3>2. dev'[d].need_recover = dev[d].need_recover
      BY <2>1, <2>2, EventEffect DEF dev_by_slot
    <3>3. /\ ReportsOf(s) = {} => ReportsOf(s)' = {}
          /\ \A n \in DOMAIN evq : ReportsOf(s) = {n} =>
              /\ n - 1 \in DOMAIN evq' /\ ReportsOf(s)' = {n - 1} /\ evq'[n - 1] = evq[n]
      BY <1>7, <2>2
    <3>4. CASE ReportsOf(s) = {}
      BY <1>3, <2>1, <3>1, <3>2, <3>3, <3>4 DEF PipeState
    <3>5. CASE ReportsOf(s) # {}
      <4>1. PICK n \in DOMAIN evq :
              /\ ~Recovering(d) /\ ~dev[d].need_recover /\ ReportsOf(s) = {n}
              /\ hc[s].ep = IF evq[n].cc = "ok" THEN "idle" ELSE "halted"
        BY <2>1, <3>5 DEF PipeState
      <4>2. n - 1 \in DOMAIN evq' /\ ReportsOf(s)' = {n - 1} /\ evq'[n - 1] = evq[n]
        BY <3>3, <4>1
      <4> QED
        BY <2>1, <3>1, <3>2, <4>1, <4>2 DEF PipeState
    <3> QED
      BY <3>4, <3>5
  <2>3. CASE e.type = "report" /\ e.slot = s
    <3>1. 1 \in ReportsOf(s)
      BY <1>2, <2>3 DEF ReportsOf
    <3>2. /\ ~Recovering(d) /\ ~dev[d].need_recover /\ ReportsOf(s) = {1}
          /\ hc[s].ep = IF e.cc = "ok" THEN "idle" ELSE "halted"
      BY <1>2, <2>1, <3>1 DEF PipeState
    <3>3. ReportsOf(s)' = {}
      <4>1. ASSUME NEW m \in ReportsOf(s)'
            PROVE  FALSE
        <5>0. m \in DOMAIN evq'
          BY <4>1 DEF ReportsOf
        <5>1. m + 1 \in ReportsOf(s) /\ m \in Nat \ {0}
          BY <1>2, <4>1, <5>0 DEF ReportsOf
        <5> QED
          BY <3>2, <5>1
      <4> QED
        BY <4>1
    <3>4. \/ e.cc = "ok" /\ hc' = Armed(hc, s) /\ ~dev'[d].need_recover
          \/ e.cc = "error" /\ hc' = hc /\ dev'[d].need_recover
      <4>1. d \in dev_by_slot(s) /\ \A x \in dev_by_slot(s) : x = d
        BY <2>1 DEF dev_by_slot, DevOK
      <4> QED
        BY <2>1, <2>3, <3>2, <4>1, EventEffect
    <3>5. CASE e.cc = "ok" /\ hc' = Armed(hc, s) /\ ~dev'[d].need_recover
      <4>1. hc'[s].ep = "armed"
        BY <2>1, <3>2, <3>5, ArmedFacts
      <4> QED
        BY <2>1, <3>2, <3>3, <3>5, <4>1 DEF PipeState
    <3>6. CASE e.cc = "error" /\ hc' = hc /\ dev'[d].need_recover
      BY <2>1, <3>2, <3>3, <3>6 DEF PipeState
    <3> QED
      BY <3>4, <3>5, <3>6
  <2> QED
    BY <2>2, <2>3
<1>15. RepeatHasKeyUnlessAbandoned'
  <2> SUFFICES ASSUME ~gaveUp, rep' # None
               PROVE  \E d \in DevSlots : Keyboard(d)' /\ rep' \in dev'[d].prev
    BY <1>3 DEF RepeatHasKeyUnlessAbandoned, RepeatHasKey
  <2>1. rep # None => \E d \in DevSlots : Keyboard(d) /\ rep \in dev[d].prev
    BY DEF RepeatHasKeyUnlessAbandoned, RepeatHasKey
  <2>2. CASE rep' = rep /\ \A d \in DevSlots : dev'[d].prev = dev[d].prev
    BY <1>3, <2>1, <2>2 DEF Keyboard
  <2>3. CASE \E d \in dev_by_slot(e.slot) : dev[d].is_kbd /\ rep' \in dev'[d].prev
    BY <1>3, <2>3 DEF Keyboard, dev_by_slot
  <2> QED
    <3>1. \/ rep' = rep /\ \A d \in DevSlots : dev'[d].prev = dev[d].prev
          \/ \E d \in dev_by_slot(e.slot) : dev[d].is_kbd /\ rep' \in dev'[d].prev
      BY EventEffect DEF dev_by_slot
    <3> QED
      BY <2>2, <2>3, <3>1
<1> QED
  BY <1>1, <1>8, <1>9, <1>10, <1>11, <1>12, <1>13, <1>14, <1>15

-----------------------------------------------------------------------------
(* The steps that begin or end a wait.                                     *)

\* A step adds no command but the one it will wait for.
Kept ==
    \A m \in DOMAIN cmdq' :
       \/ cmdq'[m].cur
       \/ \E n \in DOMAIN cmdq : cmdq'[m].op = cmdq[n].op /\ cmdq'[m].slot = cmdq[n].slot

\* A command is issued: nothing has answered it yet.
LEMMA WaitBegins ==
    ASSUME IInv, TypeOK', UNCHANGED evq, pc \notin Waits \/ evq = <<>>,
           NEW label \in Waits, NEW s \in Slots \cup {0}, Issue(OpOf[label], s, label),
           label # "enabled" => s \in Slots /\ s = dev'[cur'].slot,
           label = "described" => \A n \in DOMAIN cmdq : cmdq[n].op = "control"
    PROVE  /\ QueueOK' /\ AnswerOK' /\ Kept
           /\ pc' = label /\ ~wdone'
           /\ wt' = IF label = "described" THEN "control" ELSE "command"
           /\ \A how \in {"ok", "error"} : \A r : ~Answer(how, r)'
<1>1. TypeOK /\ OpOf[label] \in Op /\ (OpOf[label] = "control" <=> label = "described")
      /\ (OpOf[label] = "enable" <=> label = "enabled")
  BY DEF IInv, OpOf, Waits, Op
<1>2. /\ pc' = label /\ ~wdone' /\ wcc' = "none"
      /\ wt' = IF label = "described" THEN "control" ELSE "command"
  BY <1>1 DEF Issue
<1>3. \A n \in DOMAIN evq' : ~Done(n)'
  BY DEF IInv, QueueOK, Done
<1>4. \A how \in {"ok", "error"} : \A r : ~Answer(how, r)'
  BY <1>2, <1>3 DEF Answer
<1>5. /\ Len(cmdq) \in Nat /\ Len(cmdq') = Len(cmdq) + 1
      /\ DOMAIN cmdq = 1 .. Len(cmdq) /\ DOMAIN cmdq' = 1 .. Len(cmdq) + 1
      /\ \A n \in DOMAIN cmdq :
           /\ cmdq'[n].op = cmdq[n].op /\ cmdq'[n].slot = cmdq[n].slot
           /\ ~cmdq'[n].cur
      /\ cmdq'[Len(cmdq) + 1].op = OpOf[label] /\ cmdq'[Len(cmdq) + 1].slot = s
      /\ cmdq'[Len(cmdq) + 1].cur
  BY <1>1, Issued
<1>6. \A m \in DOMAIN cmdq' : m = Len(cmdq) + 1 \/ m \in DOMAIN cmdq
  BY <1>5
<1>7. Kept
  BY <1>5, <1>6 DEF Kept
<1>8. QueueOK'
  <2>1. ASSUME NEW m \in DOMAIN cmdq'
        PROVE  /\ cmdq'[m].op # "enable" => cmdq'[m].slot \in Slots
               /\ cmdq'[m].cur =>
                    /\ pc' \in Waits /\ m = Len(cmdq') /\ cmdq'[m].op = OpOf[pc']
                    /\ cmdq'[m].op # "enable" => cmdq'[m].slot = dev'[cur'].slot
                    /\ wt' = "command" => ~wdone'
    <3>1. CASE m = Len(cmdq) + 1
      BY <1>1, <1>2, <1>5, <3>1
    <3>2. CASE m \in DOMAIN cmdq
      BY <1>5, <3>2 DEF IInv, QueueOK
    <3> QED
      BY <1>6, <3>1, <3>2
  <2>2. ~Executed'
    BY <1>5 DEF Executed
  <2>3. pc' = "described" => \A m \in DOMAIN cmdq' : cmdq'[m].op = "control"
    BY <1>1, <1>2, <1>5, <1>6
  <2> QED
    BY <1>3, <2>1, <2>2, <2>3 DEF QueueOK
<1>9. AnswerOK'
  BY <1>4 DEF AnswerOK
<1> QED
  BY <1>2, <1>4, <1>7, <1>8, <1>9

\* A wait is over, and what is left of it forgotten.
LEMMA WaitEnds ==
    ASSUME IInv, TypeOK', UNCHANGED evq, pc \notin Waits \/ evq = <<>>, Rest, pc' \notin Waits
    PROVE  /\ QueueOK' /\ AnswerOK' /\ Kept /\ ~wdone' /\ wt' = "none"
           /\ \A m \in DOMAIN cmdq' : \E n \in DOMAIN cmdq :
                cmdq'[m].op = cmdq[n].op /\ cmdq'[m].slot = cmdq[n].slot
<1>1. TypeOK /\ cmdq' = Forgotten /\ ~wdone' /\ wt' = "none"
  BY DEF IInv, Rest
<1>2. \A n \in DOMAIN evq' : ~Done(n)'
  BY DEF IInv, QueueOK, Done
<1>3. /\ DOMAIN cmdq' = DOMAIN cmdq
      /\ \A n \in DOMAIN cmdq :
           /\ cmdq'[n].op = cmdq[n].op /\ cmdq'[n].slot = cmdq[n].slot
           /\ ~cmdq'[n].cur
  BY <1>1, ForgottenFacts
<1>4. \A m \in DOMAIN cmdq' : \E n \in DOMAIN cmdq :
        cmdq'[m].op = cmdq[n].op /\ cmdq'[m].slot = cmdq[n].slot
  BY <1>3
<1>5. QueueOK'
  BY <1>2, <1>3 DEF IInv, QueueOK
<1>6. AnswerOK'
  BY DEF AnswerOK, Waits
<1> QED
  BY <1>1, <1>4, <1>5, <1>6 DEF Kept

\* What is known when a wait returns: the ring is empty, and an answer that
\* came leaves no command that could disturb a pipe or a slot.
LEMMA Over ==
    ASSUME IInv, NEW label \in Waits, Returned(label)
    PROVE  /\ pc = label /\ evq = <<>> /\ \A s : ReportsOf(s) = {}
           /\ cc = "ok" => wdone /\ wcc = "ok"
           /\ cc = "timeout" => ~wdone
           /\ wdone => wcc \in {"ok", "error"} /\ Answer(wcc, wslotout)
           /\ \A how, s : Answer(how, s) => wdone /\ how = wcc /\ s = wslotout
           /\ wdone \/ pc = "described" => \A n \in DOMAIN cmdq : cmdq[n].op = "control"
           /\ NoTimeouts' => NoTimeouts /\ wdone
           /\ wslotout \in Slots \cup {0}
<1>1. TypeOK /\ pc = label /\ evq = <<>> /\ wcc \in {"none", "ok", "error"}
      /\ wslotout \in Slots \cup {0}
  BY DEF IInv, TypeOK, KernelTypes, Returned
<1>2. \A s : ReportsOf(s) = {}
  BY <1>1 DEF ReportsOf
<1>3. cc = IF wdone THEN wcc ELSE "timeout"
  BY DEF cc
<1>4. wdone => wcc \in {"ok", "error"}
  BY <1>1 DEF IInv, WaitOK
<1>5. wdone \/ pc = "described" => \A n \in DOMAIN cmdq : cmdq[n].op = "control"
  <2>1. CASE pc = "described"
    BY <2>1 DEF IInv, QueueOK, Waits
  <2>2. ASSUME wdone, pc # "described"
        PROVE  \A n \in DOMAIN cmdq : cmdq[n].op = "control"
    <3>1. wt = "command" /\ pc \in Waits
      BY <1>1, <2>2 DEF IInv, WaitOK
    <3>2. Executed
      BY <2>2, <3>1 DEF IInv, QueueOK, Executed
    <3> QED
      BY <3>1, <3>2 DEF IInv, QueueOK
  <2> QED
    BY <2>1, <2>2
<1>6. \A how, s : Answer(how, s) <=> wdone /\ wcc = how /\ wslotout = s
  BY <1>1 DEF Answer
<1>7. NoTimeouts' => NoTimeouts /\ wdone
  BY <1>1, ReturnedFacts DEF NoTimeouts
<1> QED
  BY <1>1, <1>2, <1>3, <1>4, <1>5, <1>6, <1>7

\* The slot of a device the kernel is not waiting for stays clean.
LEMMA OthersClean ==
    ASSUME IInv, Kept, NEW i \in DevSlots, dev[i].used, dev[i].slot \in Slots,
           ~(pc \in Waits /\ cur = i)
    PROVE  \A m \in DOMAIN cmdq' :
              /\ cmdq'[m].op \notin {"enable", "control"} /\ cmdq'[m].slot = dev[i].slot
              /\ dev[i].is_kbd \/ cmdq'[m].op = "disable"
              => cmdq'[m].cur
<1>1. ASSUME NEW n \in DOMAIN cmdq, cmdq[n].op \notin {"enable", "control"},
             cmdq[n].slot = dev[i].slot, dev[i].is_kbd \/ cmdq[n].op = "disable"
      PROVE  FALSE
  <2>1. cmdq[n].cur
    BY <1>1 DEF IInv, CleanOK, Clean
  <2>2. pc \in Waits /\ dev[i].slot = dev[cur].slot
    BY <1>1, <2>1 DEF IInv, QueueOK
  <2>3. cur \in DevSlots /\ dev[cur].used
    BY <2>2 DEF IInv, TypeOK, KernelTypes, WaitOK
  <2>4. cur = i
    BY <2>2, <2>3 DEF IInv, DevOK
  <2> QED
    BY <2>2, <2>4
<1> QED
  BY <1>1 DEF Kept

\* A pipe that a step does not touch.
LEMMA SamePipe ==
    ASSUME NEW i \in DevSlots, UNCHANGED evq, dev'[i].slot = dev[i].slot,
           dev'[i].need_recover = dev[i].need_recover,
           hc'[dev[i].slot] = hc[dev[i].slot], Recovering(i)' <=> Recovering(i)
    PROVE  PipeState(i)' <=> PipeState(i)
<1>1. ReportsOf(dev[i].slot)' = ReportsOf(dev[i].slot)
  BY DEF ReportsOf
<1> QED
  BY <1>1 DEF PipeState

\* A step of the enumeration of a port begins, a drop, or a recovery finds
\* nothing to do, and goes on.
LEMMA NothingInv ==
    ASSUME IInv, TypeOK', pc \notin Waits, pc' \in {"ports", "repeat"},
           UNCHANGED <<world, cmdq, evq, dev, waiter, keys, ghosts>>
    PROVE  IInv'
<1>1. Still
  BY DEF Still, world, waiter, keys, ghosts, Waits
<1>2. pc' \notin Bare
  BY DEF Bare
<1> QED
  BY <1>1, <1>2, StillInv DEF IInv, PortOK

LEMMA EnumInv == IInv /\ enum_device => IInv'
<1> SUFFICES ASSUME IInv, enum_device
             PROVE  IInv'
  OBVIOUS
<1> DEFINE unused == {i \in DevSlots : ~dev[i].used}
<1>1. TypeOK' /\ TypeOK /\ dev \in [DevSlots -> Device] /\ port \in Ports
  BY WaiterTypes DEF Waiters, IInv, TypeOK, KernelTypes, enum_device, OfPort
<1>2. /\ pc = "enum" /\ pc \notin Waits /\ pc \in Bare /\ pc \notin Dropping
      /\ UNCHANGED <<world, evq, pscan, sc, keys, ghosts>> /\ UNCHANGED <<hc, budget>>
  BY DEF enum_device, Waits, Bare, Dropping, world
<1>3. CASE unused = {}
  BY <1>1, <1>2, <1>3, NothingInv DEF enum_device, NextPort, Goto
<1>4. CASE unused # {}
  <2>1. Min(unused) \in unused
    BY <1>4, Least, UsbAssumption DEF UsbAssumption
  <2>2. PICK i \in DevSlots : i = Min(unused) /\ ~dev[i].used
    BY <2>1
  <2>3. /\ dev' = [dev EXCEPT ![i] = [NoDev EXCEPT !.used = TRUE, !.rootport = port]]
        /\ cur' = i /\ Issue("enable", 0, "enabled") /\ port' = port
    BY <1>4, <2>2 DEF enum_device
  <2>4. /\ dev'[i].used /\ dev'[i].slot = 0 /\ dev'[i].rootport = port
        /\ ~dev'[i].is_kbd /\ ~dev'[i].need_recover
        /\ \A j \in DevSlots : j # i => dev'[j] = dev[j]
    BY <1>1, <2>3 DEF NoDev
  <2> HIDE DEF unused
  <2>5. /\ QueueOK' /\ AnswerOK' /\ Kept /\ pc' = "enabled" /\ ~wdone' /\ wt' = "command"
        /\ \A how \in {"ok", "error"} : \A r : ~Answer(how, r)'
    BY <1>1, <1>2, <2>3, WaitBegins DEF OpOf, Waits
  <2>6. \A j \in DevSlots : dev[j].used => dev[j].slot \in Slots /\ dev[j].rootport # port
    BY <1>2 DEF IInv, DevOK, PortOK, dev_on_root
  <2>7. 0 \notin Slots
    BY UsbAssumption DEF UsbAssumption
  <2>8. WaitOK'
    BY <2>3, <2>4, <2>5 DEF WaitOK, Waits, Enumerating
  <2>9. DevOK'
    BY <1>1, <1>2, <2>2, <2>3, <2>4, <2>5, <2>6, <2>7 DEF IInv, DevOK, Dropping
  <2>10. PortOK'
    BY <1>1, <2>4, <2>5, <2>6 DEF IInv, PortOK, OneDevicePerPort, Bare
  <2>11. CleanOK'
    <3>1. ASSUME NEW j \in DevSlots, dev[j].used, j # i
          PROVE  \A m \in DOMAIN cmdq' :
                   /\ cmdq'[m].op \notin {"enable", "control"} /\ cmdq'[m].slot = dev[j].slot
                   /\ dev[j].is_kbd \/ cmdq'[m].op = "disable"
                   => cmdq'[m].cur
      BY <1>2, <2>5, <2>6, <3>1, OthersClean
    <3>2. \A m \in DOMAIN cmdq' : cmdq'[m].op = "disable" => cmdq'[m].slot # 0
      BY <2>5, <2>7 DEF QueueOK
    <3> QED
      BY <2>4, <2>5, <3>1, <3>2 DEF CleanOK, Clean
  <2>12. PipeOK'
    <3>1. ASSUME NEW j \in DevSlots, Keyboard(j)'
          PROVE  PipeState(j)'
      <4>1. j # i /\ Keyboard(j) /\ dev'[j] = dev[j]
        BY <2>4, <3>1 DEF Keyboard
      <4>2. (Recovering(j)' <=> Recovering(j)) /\ PipeState(j)
        BY <1>2, <2>5, <4>1 DEF IInv, PipeOK, Recovering
      <4> QED
        BY <1>2, <4>1, <4>2, SamePipe
    <3> QED
      BY <3>1 DEF PipeOK
  <2>13. SlotOK'
    <3>1. NoTimeouts' <=> NoTimeouts
      BY <1>2 DEF NoTimeouts
    <3>2. ASSUME NoTimeouts, NEW r \in Slots, hc[r].on
          PROVE  dev_by_slot(r)' # {}
      <4>1. dev_by_slot(r) # {}
        BY <1>2, <3>2 DEF IInv, SlotOK
      <4> QED
        BY <2>2, <2>4, <4>1 DEF dev_by_slot
    <3>3. ASSUME NoTimeouts, NEW m \in DOMAIN cmdq', cmdq'[m].op # "control"
          PROVE  cmdq'[m].cur
      BY <1>2, <2>5, <3>3 DEF IInv, SlotOK, QueueOK, Kept
    <3> QED
      BY <1>2, <2>5, <3>1, <3>2, <3>3 DEF SlotOK, Dropping
  <2>14. RepeatHasKeyUnlessAbandoned'
    BY <1>2, <2>2, <2>4 DEF IInv, RepeatHasKeyUnlessAbandoned, RepeatHasKey, Keyboard, keys, ghosts
  <2> QED
    BY <1>1, <2>5, <2>8, <2>9, <2>10, <2>11, <2>12, <2>13, <2>14 DEF IInv
<1> QED
  BY <1>3, <1>4

\* enum_device has its slot, or gives up the table entry.
LEMMA SlotEnabledInv == IInv /\ SlotEnabled => IInv'
<1> SUFFICES ASSUME IInv, SlotEnabled
             PROVE  IInv'
  OBVIOUS
<1>1. TypeOK' /\ TypeOK /\ dev \in [DevSlots -> Device]
  BY WaiterTypes DEF Waiters, IInv, TypeOK, KernelTypes
<1>2. /\ pc = "enabled" /\ evq = <<>> /\ \A s : ReportsOf(s) = {}
      /\ cc = "ok" => wdone /\ wcc = "ok"
      /\ wdone => wcc \in {"ok", "error"} /\ Answer(wcc, wslotout)
      /\ \A how, s : Answer(how, s) => wdone /\ how = wcc /\ s = wslotout
      /\ wdone => \A n \in DOMAIN cmdq : cmdq[n].op = "control"
      /\ NoTimeouts' => NoTimeouts /\ wdone
      /\ wslotout \in Slots \cup {0}
  BY Over DEF SlotEnabled, Waits
<1>3. UNCHANGED <<evq, hc, rep, gaveUp>>
  BY DEF SlotEnabled, physical, keys, ghosts
<1>4. /\ cur \in DevSlots /\ dev[cur].used /\ dev[cur].slot = 0 /\ dev[cur] \in Device
      /\ port \in Ports /\ ~dev[cur].is_kbd /\ dev[cur].rootport = port
      /\ ~dev[cur].need_recover
  BY <1>2, Waiting DEF IInv, WaitOK, DevOK, Waits, Enumerating
<1>5. /\ \A j \in DevSlots : dev[j].used /\ j # cur => dev[j].slot \in Slots /\ hc[dev[j].slot].on
      /\ 0 \notin Slots
  BY <1>2, UsbAssumption DEF IInv, DevOK, Dropping, UsbAssumption
<1>6. pc \in Waits /\ pc \notin Dropping
  BY <1>2 DEF Waits, Dropping
\* The other devices.
<1>7. ASSUME Kept, NEW j \in DevSlots, dev[j].used, j # cur
      PROVE  \A m \in DOMAIN cmdq' :
               /\ cmdq'[m].op \notin {"enable", "control"} /\ cmdq'[m].slot = dev[j].slot
               /\ dev[j].is_kbd \/ cmdq'[m].op = "disable"
               => cmdq'[m].cur
  BY <1>5, <1>7, OthersClean
<1>8. ASSUME pc' \in {"ports", "addressed"},
             \A j \in DevSlots : j # cur => dev'[j] = dev[j], ~dev'[cur].is_kbd
      PROVE  PipeOK' /\ RepeatHasKeyUnlessAbandoned'
  <2>1. ASSUME NEW j \in DevSlots, Keyboard(j)'
        PROVE  PipeState(j)'
    <3>1. j # cur /\ Keyboard(j) /\ dev'[j] = dev[j]
      BY <1>8, <2>1 DEF Keyboard
    <3>2. (Recovering(j)' <=> Recovering(j)) /\ PipeState(j)
      BY <1>2, <1>8, <3>1 DEF IInv, PipeOK, Recovering
    <3> QED
      BY <1>3, <3>1, <3>2, SamePipe
  <2> QED
    BY <1>3, <1>4, <1>8, <2>1 DEF IInv, PipeOK, RepeatHasKeyUnlessAbandoned, RepeatHasKey, Keyboard
<1>9. CASE cc = "ok" /\ wslotout # 0
  <2>1. PICK r \in Slots : r = wslotout
    BY <1>2, <1>9
  <2>2. /\ dev' = [dev EXCEPT ![cur].slot = r] /\ cur' = cur /\ port' = port
        /\ Issue("address", r, "addressed")
    BY <1>9, <2>1 DEF SlotEnabled
  <2>3. hc[r].on /\ hc[r].ep = "none" /\ dev_by_slot(r) = {}
    BY <1>2, <1>9, <2>1 DEF IInv, AnswerOK
  <2>4. /\ dev'[cur].used /\ dev'[cur].slot = r /\ dev'[cur].rootport = port
        /\ ~dev'[cur].is_kbd /\ ~dev'[cur].need_recover
        /\ \A j \in DevSlots : j # cur => dev'[j] = dev[j]
    BY <1>1, <1>4, <2>2 DEF Device
  <2>5. /\ QueueOK' /\ AnswerOK' /\ Kept /\ pc' = "addressed" /\ ~wdone' /\ wt' = "command"
        /\ \A how \in {"ok", "error"} : \A s : ~Answer(how, s)'
    BY <1>1, <1>2, <1>3, <2>2, <2>4, WaitBegins DEF OpOf, Waits
  <2>6. WaitOK'
    BY <1>4, <2>2, <2>4, <2>5 DEF WaitOK, Waits, Enumerating
  <2>7. DevOK'
    <3>1. \A j \in DevSlots : dev[j].used /\ j # cur => dev[j].slot # r
      BY <2>3 DEF dev_by_slot
    <3> QED
      BY <1>3, <1>4, <1>5, <2>2, <2>3, <2>4, <2>5, <3>1 DEF IInv, DevOK, Dropping
  <2>8. PortOK'
    BY <1>4, <2>4, <2>5 DEF IInv, PortOK, OneDevicePerPort, Bare
  <2>9. \A m \in DOMAIN cmdq' : cmdq'[m].op \notin {"enable", "control"} => cmdq'[m].cur
    BY <1>2, <1>9, <2>5 DEF Kept
  <2>10. CleanOK'
    BY <2>9 DEF CleanOK, Clean
  <2>11. SlotOK'
    <3>1. NoTimeouts' => NoTimeouts
      BY <1>2
    <3>2. ASSUME NoTimeouts, NEW s \in Slots, hc[s].on
          PROVE  dev_by_slot(s)' # {}
      <4>1. CASE s = r
        BY <1>4, <2>4, <4>1 DEF dev_by_slot
      <4>2. CASE s # r
        <5>1. dev_by_slot(s) # {}
          BY <1>2, <2>1, <3>2, <4>2 DEF IInv, SlotOK
        <5> QED
          BY <1>4, <1>5, <2>4, <5>1 DEF dev_by_slot
      <4> QED
        BY <4>1, <4>2
    <3>3. \A m \in DOMAIN cmdq' : cmdq'[m].op # "control" => cmdq'[m].cur
      BY <1>2, <1>9, <2>5 DEF Kept
    <3> QED
      BY <1>3, <2>5, <3>1, <3>2, <3>3 DEF SlotOK, Dropping
  <2> QED
    BY <1>1, <1>8, <2>4, <2>5, <2>6, <2>7, <2>8, <2>10, <2>11 DEF IInv
<1>10. CASE ~(cc = "ok" /\ wslotout # 0)
  <2>1. /\ dev' = [dev EXCEPT ![cur].used = FALSE] /\ Rest
        /\ pc' = "ports" /\ port' = port + 1 /\ cur' = 0
    BY <1>10 DEF SlotEnabled, NextPort, Goto
  <2>2. /\ ~dev'[cur].used /\ ~dev'[cur].is_kbd
        /\ \A j \in DevSlots : j # cur => dev'[j] = dev[j]
    BY <1>1, <1>4, <2>1 DEF Device
  <2>3. /\ QueueOK' /\ AnswerOK' /\ Kept /\ ~wdone' /\ wt' = "none"
        /\ \A m \in DOMAIN cmdq' : \E n \in DOMAIN cmdq :
             cmdq'[m].op = cmdq[n].op /\ cmdq'[m].slot = cmdq[n].slot
    BY <1>1, <1>2, <1>3, <2>1, WaitEnds DEF Waits
  <2>4. WaitOK'
    BY <2>1, <2>3 DEF WaitOK, Waits, Enumerating
  <2>5. DevOK'
    BY <1>3, <1>4, <1>5, <2>1, <2>2 DEF IInv, DevOK, Dropping
  <2>6. PortOK'
    BY <2>1, <2>2 DEF IInv, PortOK, OneDevicePerPort, Bare
  <2>7. CleanOK'
    BY <1>7, <2>1, <2>2, <2>3 DEF CleanOK, Clean
  <2>8. SlotOK'
    <3> SUFFICES ASSUME NoTimeouts'
                 PROVE  /\ \A s \in Slots : hc[s].on => dev_by_slot(s)' # {}
                        /\ \A m \in DOMAIN cmdq' : cmdq'[m].op # "control" => cmdq'[m].cur
      BY <1>3, <2>1 DEF SlotOK, Dropping
    <3>1. NoTimeouts /\ wdone /\ \A s \in Slots : ~Answer("ok", s)
      <4>1. NoTimeouts /\ wdone /\ \A s : Answer("ok", s) => wcc = "ok" /\ s = wslotout
        BY <1>2
      <4>2. wcc = "ok" => wslotout = 0
        BY <1>10, <4>1 DEF cc
      <4> QED
        BY <1>5, <4>1, <4>2
    <3>2. ASSUME NEW s \in Slots, hc[s].on
          PROVE  dev_by_slot(s)' # {}
      <4>1. dev_by_slot(s) # {}
        BY <1>2, <3>1, <3>2 DEF IInv, SlotOK
      <4> QED
        BY <1>4, <1>5, <2>2, <4>1 DEF dev_by_slot
    <3> QED
      BY <1>2, <2>3, <3>1, <3>2
  <2> QED
    BY <1>1, <1>8, <2>1, <2>2, <2>3, <2>4, <2>5, <2>6, <2>7, <2>8 DEF IInv
<1> QED
  BY <1>9, <1>10

\* A wait of the enumeration returns: on to the next, or drop the device.
LEMMA ThenInv ==
    ASSUME IInv, TypeOK', NEW here \in {"addressed", "described"}, Returned(here),
           Then(OpOf[IF here = "addressed" THEN "described" ELSE "configured"],
                IF here = "addressed" THEN "described" ELSE "configured")
    PROVE  IInv'
<1> DEFINE next == IF here = "addressed" THEN "described" ELSE "configured"
<1>1. /\ pc = here /\ evq = <<>> /\ here \in Waits
      /\ cc = "ok" => wdone
      /\ wdone \/ pc = "described" => \A n \in DOMAIN cmdq : cmdq[n].op = "control"
      /\ NoTimeouts' => NoTimeouts /\ wdone
  BY Over DEF Waits
<1>2. UNCHANGED <<evq, hc, rep, gaveUp, dev, port, cur>>
  BY DEF Then, physical, keys, ghosts
<1>3. /\ cur \in DevSlots /\ dev[cur].used /\ dev[cur].slot \in Slots
      /\ port \in Ports /\ ~dev[cur].is_kbd /\ dev[cur].rootport = port
  BY <1>1, Waiting DEF IInv, WaitOK, DevOK, Waits, Enumerating
<1>4. PICK s \in Slots : s = dev[cur].slot
  BY <1>3
<1>5. \A j \in DevSlots : dev[j].used => dev[j].slot \in Slots /\ hc[dev[j].slot].on
  BY <1>1, UsbAssumption DEF IInv, DevOK, Dropping, UsbAssumption
\* Whatever is issued.
<1>6. ASSUME NEW label \in {"described", "configured", "enum_dropped"},
             Issue(OpOf[label], s, label), label # "enum_dropped" => cc = "ok"
      PROVE  IInv'
  <2>1. /\ QueueOK' /\ AnswerOK' /\ Kept /\ pc' = label /\ ~wdone'
        /\ wt' = IF label = "described" THEN "control" ELSE "command"
        /\ \A how \in {"ok", "error"} : \A r : ~Answer(how, r)'
    BY <1>1, <1>2, <1>4, <1>6, WaitBegins DEF Waits
  <2>2. WaitOK'
    BY <1>2, <1>3, <2>1 DEF WaitOK, Waits, Enumerating
  <2>3. DevOK'
    BY <1>2, <1>5, <2>1 DEF IInv, DevOK
  <2>4. PortOK'
    BY <1>2, <2>1 DEF IInv, PortOK, OneDevicePerPort, Bare
  <2>5. wdone => \A m \in DOMAIN cmdq' : cmdq'[m].op # "control" => cmdq'[m].cur
    BY <1>1, <2>1 DEF Kept
  <2>6. CleanOK'
    <3>1. ASSUME NEW j \in DevSlots, dev[j].used, j # cur
          PROVE  \A m \in DOMAIN cmdq' :
                   /\ cmdq'[m].op \notin {"enable", "control"} /\ cmdq'[m].slot = dev[j].slot
                   /\ dev[j].is_kbd \/ cmdq'[m].op = "disable"
                   => cmdq'[m].cur
      BY <1>5, <2>1, <3>1, OthersClean
    <3>2. label # "enum_dropped" => Clean(cur)'
      BY <1>1, <1>6, <2>5 DEF Clean
    <3>3. ASSUME NEW m \in DOMAIN cmdq', cmdq'[m].op = "disable", cmdq'[m].slot = s
          PROVE  cmdq'[m].cur
      <4>1. ASSUME NEW n \in DOMAIN cmdq, cmdq[n].op = "disable", cmdq[n].slot = s
            PROVE  FALSE
        <5>1. cmdq[n].cur
          BY <1>3, <1>4, <4>1 DEF IInv, CleanOK
        <5> QED
          BY <1>1, <4>1, <5>1 DEF IInv, QueueOK, OpOf
      <4> QED
        BY <2>1, <3>3, <4>1 DEF Kept
    <3> QED
      BY <1>2, <1>3, <1>4, <2>1, <3>1, <3>2, <3>3 DEF CleanOK, Clean
  <2>7. PipeOK'
    <3>1. ASSUME NEW j \in DevSlots, Keyboard(j)'
          PROVE  PipeState(j)'
      <4>1. Keyboard(j) /\ dev'[j] = dev[j]
        BY <1>2, <3>1 DEF Keyboard
      <4>2. (Recovering(j)' <=> Recovering(j)) /\ PipeState(j)
        BY <1>1, <2>1, <4>1 DEF IInv, PipeOK, Recovering
      <4> QED
        BY <1>2, <4>1, <4>2, SamePipe
    <3> QED
      BY <3>1 DEF PipeOK
  <2>8. SlotOK'
    <3>1. \A r : dev_by_slot(r)' = dev_by_slot(r)
      BY <1>2 DEF dev_by_slot
    <3> QED
      BY <1>1, <1>2, <2>1, <2>5, <3>1 DEF IInv, SlotOK
  <2>9. RepeatHasKeyUnlessAbandoned'
    BY <1>2 DEF IInv, RepeatHasKeyUnlessAbandoned, RepeatHasKey, Keyboard
  <2> QED
    BY <2>1, <2>2, <2>3, <2>4, <2>6, <2>7, <2>8, <2>9 DEF IInv
<1>7. CASE cc = "ok"
  <2>1. Issue(OpOf[next], s, next)
    BY <1>4, <1>7 DEF Then
  <2> QED
    BY <1>6, <1>7, <2>1
<1>8. CASE cc # "ok"
  <2>1. Issue(OpOf["enum_dropped"], s, "enum_dropped")
    BY <1>4, <1>8 DEF Then, OpOf
  <2> QED
    BY <1>6, <2>1
<1> QED
  BY <1>7, <1>8

\* The endpoint is configured: the keyboard's pipe is armed for the first time.
LEMMA ConfiguredInv == IInv /\ Configured => IInv'
<1> SUFFICES ASSUME IInv, Configured
             PROVE  IInv'
  OBVIOUS
<1>1. TypeOK' /\ TypeOK /\ dev \in [DevSlots -> Device]
  BY WaiterTypes DEF Waiters, IInv, TypeOK, KernelTypes
<1>2. /\ pc = "configured" /\ evq = <<>> /\ \A s : ReportsOf(s) = {}
      /\ cc = "ok" => wdone /\ wcc = "ok"
      /\ wdone => Answer(wcc, wslotout)
      /\ wdone => \A n \in DOMAIN cmdq : cmdq[n].op = "control"
      /\ NoTimeouts' => NoTimeouts /\ wdone
      /\ wslotout \in Slots \cup {0}
  BY Over DEF Configured, Waits
<1>3. /\ UNCHANGED <<evq, rep, gaveUp>> /\ Rest
      /\ pc' = "ports" /\ port' = port + 1 /\ cur' = 0
  BY DEF Configured, physical, keys, ghosts, NextPort, Goto
<1>4. /\ cur \in DevSlots /\ dev[cur].used /\ dev[cur].slot \in Slots
      /\ ~dev[cur].is_kbd /\ ~dev[cur].need_recover
  BY <1>2, Waiting DEF IInv, WaitOK, DevOK, Waits, Enumerating
<1>5. PICK s \in Slots : s = dev[cur].slot
  BY <1>4
<1>6. \/ UNCHANGED <<dev, hc>>
      \/ /\ wdone /\ hc[s].ep = "idle" /\ hc' = Armed(hc, s)
         /\ dev' = [dev EXCEPT ![cur].is_kbd = TRUE]
  <2>1. CASE cc = "ok"
    <3>1. hc[dev[cur].slot].ep = "idle" /\ wdone
      BY <1>2, <2>1 DEF IInv, AnswerOK
    <3> QED
      BY <1>5, <2>1, <3>1 DEF Configured
  <2>2. CASE cc # "ok"
    BY <2>2 DEF Configured
  <2> QED
    BY <2>1, <2>2
<1>7. /\ \A j \in DevSlots : /\ dev'[j].used = dev[j].used /\ dev'[j].slot = dev[j].slot
                             /\ dev'[j].rootport = dev[j].rootport /\ dev'[j].prev = dev[j].prev
                             /\ dev'[j].need_recover = dev[j].need_recover
                             /\ dev[j].is_kbd => dev'[j].is_kbd
                             /\ j # cur => dev'[j] = dev[j]
      /\ dev'[cur].is_kbd =>
           wdone /\ hc'[s].ep = "armed" /\ dev' = [dev EXCEPT ![cur].is_kbd = TRUE]
      /\ \A r \in Slots : hc'[r].on = hc[r].on /\ (r # s => hc'[r] = hc[r])
  <2>1. CASE UNCHANGED <<dev, hc>>
    BY <1>4, <2>1
  <2>2. CASE /\ wdone /\ hc[s].ep = "idle" /\ hc' = Armed(hc, s)
             /\ dev' = [dev EXCEPT ![cur].is_kbd = TRUE]
    <3>1. hc'[s].ep = "armed" /\ \A r \in Slots : hc'[r].on = hc[r].on /\ (r # s => hc'[r] = hc[r])
      BY <1>1, <2>2, ArmedFacts
    <3>2. \A j \in DevSlots : /\ dev'[j].used = dev[j].used /\ dev'[j].slot = dev[j].slot
                              /\ dev'[j].rootport = dev[j].rootport /\ dev'[j].prev = dev[j].prev
                              /\ dev'[j].need_recover = dev[j].need_recover
                              /\ dev[j].is_kbd => dev'[j].is_kbd
                              /\ j # cur => dev'[j] = dev[j]
      BY <1>1, <1>4, <2>2 DEF Device
    <3> QED
      BY <2>2, <3>1, <3>2
  <2> QED
    BY <1>6, <2>1, <2>2
<1>8. /\ QueueOK' /\ AnswerOK' /\ Kept /\ ~wdone' /\ wt' = "none"
      /\ \A m \in DOMAIN cmdq' : \E n \in DOMAIN cmdq :
           cmdq'[m].op = cmdq[n].op /\ cmdq'[m].slot = cmdq[n].slot
  BY <1>1, <1>2, <1>3, WaitEnds DEF Waits
<1>9. WaitOK'
  BY <1>3, <1>8 DEF WaitOK, Waits, Enumerating
<1>10. DevOK'
  BY <1>2, <1>3, <1>7 DEF IInv, DevOK, Dropping
<1>11. PortOK'
  BY <1>3, <1>7 DEF IInv, PortOK, OneDevicePerPort, Bare
<1>12. CleanOK'
  <2>1. ASSUME NEW j \in DevSlots, dev[j].used, j # cur
        PROVE  \A m \in DOMAIN cmdq' :
                 /\ cmdq'[m].op \notin {"enable", "control"} /\ cmdq'[m].slot = dev[j].slot
                 /\ dev[j].is_kbd \/ cmdq'[m].op = "disable"
                 => cmdq'[m].cur
    BY <1>2, <1>8, <2>1, OthersClean DEF IInv, DevOK
  <2>2. dev'[cur].is_kbd =>
          \A m \in DOMAIN cmdq' : cmdq'[m].op \notin {"enable", "control"} => cmdq'[m].cur
    BY <1>2, <1>7, <1>8
  <2>3. ASSUME NEW m \in DOMAIN cmdq', cmdq'[m].op = "disable"
        PROVE  cmdq'[m].slot # s
    <3>1. PICK n \in DOMAIN cmdq : cmdq[n].op = "disable" /\ cmdq'[m].slot = cmdq[n].slot
      BY <1>8, <2>3
    <3>2. ~cmdq[n].cur
      BY <1>2, <3>1 DEF IInv, QueueOK, OpOf
    <3> QED
      BY <1>4, <1>5, <3>1, <3>2 DEF IInv, CleanOK
  <2> QED
    BY <1>3, <1>5, <1>7, <2>1, <2>2, <2>3 DEF CleanOK, Clean
<1>13. PipeOK'
  <2>1. ASSUME NEW j \in DevSlots, Keyboard(j)'
        PROVE  PipeState(j)'
    <3>1. ~Recovering(j) /\ ~Recovering(j)' /\ dev[j].used
      BY <1>2, <1>3, <1>7, <2>1 DEF Recovering, Keyboard
    <3>2. CASE j = cur
      <4>1. hc'[s].ep = "armed" /\ dev'[cur].slot = s /\ ~dev'[cur].need_recover
        BY <1>4, <1>5, <1>7, <2>1, <3>2 DEF Keyboard
      <4>2. ReportsOf(s)' = {}
        BY <1>2, <1>3 DEF ReportsOf
      <4> QED
        BY <3>1, <3>2, <4>1, <4>2 DEF PipeState
    <3>3. CASE j # cur
      <4>1. Keyboard(j) /\ dev'[j] = dev[j] /\ dev[j].slot # s /\ dev[j].slot \in Slots
        BY <1>2, <1>4, <1>5, <1>7, <2>1, <3>1, <3>3 DEF IInv, Keyboard, DevOK
      <4>2. PipeState(j)
        BY <1>2, <4>1 DEF IInv, PipeOK
      <4> QED
        BY <1>3, <1>7, <3>1, <4>1, <4>2, SamePipe
    <3> QED
      BY <3>2, <3>3
  <2> QED
    BY <2>1 DEF PipeOK
<1>14. SlotOK'
  <2>1. \A r : dev_by_slot(r)' = dev_by_slot(r)
    BY <1>7 DEF dev_by_slot
  <2>2. wdone => \A m \in DOMAIN cmdq' : cmdq'[m].op = "control"
    BY <1>2, <1>8
  <2> QED
    BY <1>2, <1>3, <1>7, <2>1, <2>2 DEF IInv, SlotOK, Dropping
<1>15. RepeatHasKeyUnlessAbandoned'
  BY <1>3, <1>7 DEF IInv, RepeatHasKeyUnlessAbandoned, RepeatHasKey, Keyboard
<1> QED
  BY <1>1, <1>8, <1>9, <1>10, <1>11, <1>12, <1>13, <1>14, <1>15 DEF IInv

\* A drop has been answered, or given up: the table entry is free again.
LEMMA DroppedInv == IInv /\ (EnumDropped \/ Unplugged) => IInv'
<1> SUFFICES ASSUME IInv, EnumDropped \/ Unplugged
             PROVE  IInv'
  OBVIOUS
<1>1. TypeOK' /\ TypeOK /\ dev \in [DevSlots -> Device]
  BY WaiterTypes DEF Waiters, IInv, TypeOK, KernelTypes
<1>2. /\ pc \in Dropping /\ evq = <<>> /\ pc \in Waits
      /\ wdone => wcc \in {"ok", "error"} /\ Answer(wcc, wslotout)
      /\ wdone => \A n \in DOMAIN cmdq : cmdq[n].op = "control"
      /\ NoTimeouts' => NoTimeouts /\ wdone
      /\ wslotout \in Slots \cup {0}
  <2>1. Returned("enum_dropped") \/ Returned("unplugged")
    BY DEF EnumDropped, Unplugged
  <2> QED
    BY <2>1, Over DEF Waits, Dropping
<1>3. /\ UNCHANGED <<evq, hc, gaveUp>> /\ Rest
      /\ pc' \in {"ports", "unplug"}
      /\ dev' = [dev EXCEPT ![cur] = NoDev]
      /\ rep' = IF dev[cur].is_kbd THEN None ELSE rep
  BY DEF EnumDropped, Unplugged, dev_dropped, physical, ghosts, NextPort, Goto
<1>4. /\ cur \in DevSlots /\ dev[cur].used /\ dev[cur].slot \in Slots
  BY <1>2, Waiting DEF Dropping
<1>5. /\ ~dev'[cur].used /\ ~dev'[cur].is_kbd
      /\ \A j \in DevSlots : j # cur => dev'[j] = dev[j]
  BY <1>1, <1>3, <1>4, NoDevType
<1>6. \A j \in DevSlots : dev[j].used /\ j # cur =>
         dev[j].slot \in Slots /\ hc[dev[j].slot].on
  BY <1>2, UsbAssumption DEF IInv, DevOK, Dropping, UsbAssumption
<1>7. /\ QueueOK' /\ AnswerOK' /\ Kept /\ ~wdone' /\ wt' = "none"
      /\ \A m \in DOMAIN cmdq' : \E n \in DOMAIN cmdq :
           cmdq'[m].op = cmdq[n].op /\ cmdq'[m].slot = cmdq[n].slot
  BY <1>1, <1>2, <1>3, WaitEnds DEF Waits
<1>8. WaitOK'
  BY <1>3, <1>7 DEF WaitOK, Waits, Enumerating
<1>9. DevOK'
  BY <1>3, <1>4, <1>5, <1>6 DEF IInv, DevOK, Dropping
<1>10. PortOK'
  BY <1>3, <1>5 DEF IInv, PortOK, OneDevicePerPort, Bare
<1>11. CleanOK'
  <2>1. ASSUME NEW j \in DevSlots, dev[j].used, j # cur
        PROVE  \A m \in DOMAIN cmdq' :
                 /\ cmdq'[m].op \notin {"enable", "control"} /\ cmdq'[m].slot = dev[j].slot
                 /\ dev[j].is_kbd \/ cmdq'[m].op = "disable"
                 => cmdq'[m].cur
    BY <1>6, <1>7, <2>1, OthersClean
  <2> QED
    BY <1>3, <1>5, <2>1 DEF CleanOK, Clean
<1>12. PipeOK'
  <2>1. ASSUME NEW j \in DevSlots, Keyboard(j)'
        PROVE  PipeState(j)'
    <3>1. j # cur /\ Keyboard(j) /\ dev'[j] = dev[j]
      BY <1>5, <2>1 DEF Keyboard
    <3>2. (Recovering(j)' <=> Recovering(j)) /\ PipeState(j)
      BY <1>3, <3>1 DEF IInv, PipeOK, Recovering
    <3> QED
      BY <1>3, <3>1, <3>2, SamePipe
  <2> QED
    BY <2>1 DEF PipeOK
<1>13. SlotOK'
  <2> SUFFICES ASSUME NoTimeouts'
               PROVE  /\ \A s \in Slots : hc[s].on => dev_by_slot(s)' # {}
                      /\ \A m \in DOMAIN cmdq' : cmdq'[m].op # "control" => cmdq'[m].cur
    BY <1>3 DEF SlotOK, Dropping
  <2>1. NoTimeouts /\ wdone
    BY <1>2
  <2>2. ~hc[dev[cur].slot].on
    BY <1>2, <2>1 DEF IInv, SlotOK
  <2>3. ASSUME NEW s \in Slots, hc[s].on
        PROVE  dev_by_slot(s)' # {}
    <3>1. dev_by_slot(s) # {}
      BY <1>2, <2>1, <2>3 DEF IInv, SlotOK, Dropping
    <3> QED
      BY <1>4, <1>5, <2>2, <2>3, <3>1 DEF dev_by_slot
  <2> QED
    BY <1>2, <1>7, <2>1, <2>3
<1>14. RepeatHasKeyUnlessAbandoned'
  BY <1>3, <1>5 DEF IInv, RepeatHasKeyUnlessAbandoned, RepeatHasKey, Keyboard
<1> QED
  BY <1>1, <1>7, <1>8, <1>9, <1>10, <1>11, <1>12, <1>13, <1>14 DEF IInv

\* The first device of a port that read disconnected is dropped.
LEMMA UnpluggingInv == IInv /\ Unplugging => IInv'
<1> SUFFICES ASSUME IInv, Unplugging
             PROVE  IInv'
  OBVIOUS
<1>1. TypeOK' /\ TypeOK /\ port \in Ports
  BY WaiterTypes DEF Waiters, IInv, TypeOK, KernelTypes, Unplugging, OfPort
<1>2. /\ pc = "unplug" /\ pc \notin Waits /\ pc \notin Dropping
      /\ UNCHANGED <<world, evq, dev, pscan, sc, keys, ghosts>> /\ UNCHANGED <<hc, budget>>
  BY DEF Unplugging, Waits, Dropping, world
<1>3. CASE dev_on_root(port) = {}
  BY <1>1, <1>2, <1>3, NothingInv DEF Unplugging, NextPort, Goto
<1>4. CASE dev_on_root(port) # {}
  <2>1. Min(dev_on_root(port)) \in dev_on_root(port)
    BY <1>4, Least, UsbAssumption DEF UsbAssumption, dev_on_root
  <2>2. PICK i \in DevSlots : i = Min(dev_on_root(port)) /\ dev[i].used /\ dev[i].rootport = port
    BY <2>1 DEF dev_on_root
  <2>3. PICK s \in Slots : s = dev[i].slot
    BY <1>2, <2>2 DEF IInv, DevOK
  <2>4. cur' = i /\ port' = port /\ Issue("disable", s, "unplugged")
    BY <1>4, <2>2, <2>3 DEF Unplugging
  <2>5. /\ QueueOK' /\ AnswerOK' /\ Kept /\ pc' = "unplugged" /\ ~wdone' /\ wt' = "command"
        /\ \A how \in {"ok", "error"} : \A r : ~Answer(how, r)'
    BY <1>1, <1>2, <2>3, <2>4, WaitBegins DEF OpOf, Waits
  <2>6. WaitOK'
    BY <1>2, <2>2, <2>4, <2>5 DEF WaitOK, Waits, Enumerating
  <2>7. DevOK'
    BY <1>2, <2>5 DEF IInv, DevOK
  <2>8. PortOK'
    BY <1>2, <2>5 DEF IInv, PortOK, OneDevicePerPort, Bare
  <2>9. CleanOK'
    <3>1. ASSUME NEW j \in DevSlots, dev[j].used
          PROVE  \A m \in DOMAIN cmdq' :
                   /\ cmdq'[m].op \notin {"enable", "control"} /\ cmdq'[m].slot = dev[j].slot
                   /\ dev[j].is_kbd \/ cmdq'[m].op = "disable"
                   => cmdq'[m].cur
      BY <1>2, <2>5, <3>1, OthersClean DEF IInv, DevOK
    <3> QED
      BY <1>2, <2>5, <3>1 DEF CleanOK, Clean
  <2>10. PipeOK'
    <3>1. ASSUME NEW j \in DevSlots, Keyboard(j)'
          PROVE  PipeState(j)'
      <4>1. Keyboard(j) /\ dev'[j] = dev[j]
        BY <1>2, <3>1 DEF Keyboard
      <4>2. (Recovering(j)' <=> Recovering(j)) /\ PipeState(j)
        BY <1>2, <2>5, <4>1 DEF IInv, PipeOK, Recovering
      <4> QED
        BY <1>2, <4>1, <4>2, SamePipe
    <3> QED
      BY <3>1 DEF PipeOK
  <2>11. SlotOK'
    <3>1. \A r : dev_by_slot(r)' = dev_by_slot(r)
      BY <1>2 DEF dev_by_slot
    <3>2. NoTimeouts' <=> NoTimeouts
      BY <1>2 DEF NoTimeouts
    <3>3. NoTimeouts => \A m \in DOMAIN cmdq' : cmdq'[m].op # "control" => cmdq'[m].cur
      BY <1>2, <2>5 DEF IInv, SlotOK, QueueOK, Kept
    <3> QED
      BY <1>2, <2>5, <3>1, <3>2, <3>3 DEF IInv, SlotOK
  <2>12. RepeatHasKeyUnlessAbandoned'
    BY <1>2 DEF IInv, RepeatHasKeyUnlessAbandoned, RepeatHasKey, Keyboard, keys, ghosts
  <2> QED
    BY <1>1, <2>5, <2>6, <2>7, <2>8, <2>9, <2>10, <2>11, <2>12 DEF IInv
<1> QED
  BY <1>3, <1>4

\* kbd_recover begins with the next keyboard whose pipe broke.
LEMMA PickBrokenInv == IInv /\ PickBroken => IInv'
<1> SUFFICES ASSUME IInv, PickBroken
             PROVE  IInv'
  OBVIOUS
<1> DEFINE broken == {i \in DevSlots : i >= cur /\ dev[i].used /\ dev[i].need_recover}
<1>1. TypeOK' /\ TypeOK /\ dev \in [DevSlots -> Device]
  BY WaiterTypes DEF Waiters, IInv, TypeOK, KernelTypes
<1>2. /\ pc = "recover" /\ pc \notin Waits /\ pc \notin Dropping
      /\ UNCHANGED <<world, evq, pscan, sc, keys, ghosts>> /\ UNCHANGED <<hc, budget>>
  BY DEF PickBroken, Waits, Dropping, world
<1>3. CASE broken = {}
  BY <1>1, <1>2, <1>3, NothingInv DEF PickBroken, Goto
<1>4. CASE broken # {}
  <2>1. Min(broken) \in broken
    BY <1>4, Least, UsbAssumption DEF UsbAssumption
  <2>2. PICK i \in DevSlots : i = Min(broken) /\ dev[i].used /\ dev[i].need_recover
    BY <2>1
  <2>3. PICK s \in Slots : s = dev[i].slot
    BY <1>2, <2>2 DEF IInv, DevOK
  <2>4. /\ cur' = i /\ port' = port /\ Issue("reset", s, "pipe_reset")
        /\ dev' = [dev EXCEPT ![i].need_recover = FALSE]
    BY <1>4, <2>2, <2>3 DEF PickBroken
  <2> HIDE DEF broken
  <2>5. /\ ~dev'[i].need_recover /\ dev[i].is_kbd
        /\ \A j \in DevSlots :
             /\ dev'[j].used = dev[j].used /\ dev'[j].slot = dev[j].slot
             /\ dev'[j].rootport = dev[j].rootport /\ dev'[j].prev = dev[j].prev
             /\ dev'[j].is_kbd = dev[j].is_kbd
             /\ j # i => dev'[j] = dev[j]
    BY <1>1, <2>2, <2>4 DEF Device, IInv, DevOK
  <2>6. /\ QueueOK' /\ AnswerOK' /\ Kept /\ pc' = "pipe_reset" /\ ~wdone' /\ wt' = "command"
        /\ \A how \in {"ok", "error"} : \A r : ~Answer(how, r)'
    BY <1>1, <1>2, <2>3, <2>4, <2>5, WaitBegins DEF OpOf, Waits
  <2>7. WaitOK'
    BY <2>2, <2>4, <2>5, <2>6 DEF WaitOK, Waits, Enumerating
  <2>8. DevOK'
    BY <1>2, <2>4, <2>5, <2>6 DEF IInv, DevOK, Dropping
  <2>9. PortOK'
    BY <2>5, <2>6 DEF IInv, PortOK, OneDevicePerPort, Bare
  <2>10. CleanOK'
    <3>1. ASSUME NEW j \in DevSlots, dev[j].used
          PROVE  \A m \in DOMAIN cmdq' :
                   /\ cmdq'[m].op \notin {"enable", "control"} /\ cmdq'[m].slot = dev[j].slot
                   /\ dev[j].is_kbd \/ cmdq'[m].op = "disable"
                   => cmdq'[m].cur
      BY <1>2, <2>6, <3>1, OthersClean DEF IInv, DevOK
    <3> QED
      BY <2>5, <2>6, <3>1 DEF CleanOK, Clean
  <2>11. PipeOK'
    <3>1. ASSUME NEW j \in DevSlots, Keyboard(j)'
          PROVE  PipeState(j)'
      <4>1. Keyboard(j) /\ PipeState(j) /\ ~Recovering(j)
        BY <1>2, <2>5, <3>1 DEF IInv, PipeOK, Keyboard, Recovering
      <4>2. CASE j = i
        <5>1. ReportsOf(s)' = {} /\ hc'[s].ep # "armed" /\ dev'[i].slot = s
          BY <1>2, <2>2, <2>3, <2>5, <4>1, <4>2 DEF PipeState, ReportsOf
        <5>2. Recovering(i)' /\ ~dev'[i].need_recover
          BY <2>4, <2>5, <2>6 DEF Recovering
        <5> QED
          BY <4>2, <5>1, <5>2 DEF PipeState
      <4>3. CASE j # i
        <5>1. ~Recovering(j)'
          BY <2>4, <4>3 DEF Recovering
        <5> QED
          BY <1>2, <2>5, <4>1, <4>3, <5>1, SamePipe
      <4> QED
        BY <4>2, <4>3
    <3> QED
      BY <3>1 DEF PipeOK
  <2>12. SlotOK'
    <3>1. \A r : dev_by_slot(r)' = dev_by_slot(r)
      BY <2>5 DEF dev_by_slot
    <3>2. NoTimeouts' <=> NoTimeouts
      BY <1>2 DEF NoTimeouts
    <3>3. NoTimeouts => \A m \in DOMAIN cmdq' : cmdq'[m].op # "control" => cmdq'[m].cur
      BY <1>2, <2>6 DEF IInv, SlotOK, QueueOK, Kept
    <3> QED
      BY <1>2, <2>6, <3>1, <3>2, <3>3 DEF IInv, SlotOK, Dropping
  <2>13. RepeatHasKeyUnlessAbandoned'
    BY <1>2, <2>5 DEF IInv, RepeatHasKeyUnlessAbandoned, RepeatHasKey, Keyboard, keys, ghosts
  <2> QED
    BY <1>1, <2>6, <2>7, <2>8, <2>9, <2>10, <2>11, <2>12, <2>13 DEF IInv
<1> QED
  BY <1>3, <1>4

\* A recovery goes on to Set TR Dequeue, succeeds, or abandons the keyboard.
LEMMA RecoverInv == IInv /\ (PipeReset \/ Dequeued) => IInv'
<1> SUFFICES ASSUME IInv, PipeReset \/ Dequeued
             PROVE  IInv'
  OBVIOUS
<1>1. TypeOK' /\ TypeOK /\ dev \in [DevSlots -> Device]
  BY WaiterTypes DEF Waiters, IInv, TypeOK, KernelTypes
<1>2. /\ pc \in {"pipe_reset", "dequeued"} /\ pc \in Waits /\ evq = <<>>
      /\ \A s : ReportsOf(s) = {}
      /\ cc = "ok" => wdone /\ wcc = "ok"
      /\ cc = "timeout" => ~wdone
      /\ wdone => Answer(wcc, wslotout)
      /\ wdone => \A n \in DOMAIN cmdq : cmdq[n].op = "control"
      /\ NoTimeouts' => NoTimeouts /\ wdone
      /\ wslotout \in Slots \cup {0}
  <2>1. Returned("pipe_reset") \/ Returned("dequeued")
    BY DEF PipeReset, Dequeued
  <2> QED
    BY <2>1, Over DEF Waits
<1>3. /\ cur \in DevSlots /\ dev[cur].used /\ dev[cur].slot \in Slots
  BY <1>2, Waiting
<1>4. PICK c \in DevSlots, s \in Slots : c = cur /\ s = dev[cur].slot
  BY <1>3
<1>5. /\ ~dev[c].need_recover
      /\ \A j \in DevSlots : dev[j].used => dev[j].slot \in Slots /\ hc[dev[j].slot].on
  <2>1. \A j \in DevSlots : dev[j].used => dev[j].slot \in Slots /\ hc[dev[j].slot].on
    BY <1>2, UsbAssumption DEF IInv, DevOK, Dropping, UsbAssumption
  <2>2. dev[c].need_recover => Keyboard(c)
    BY <1>3, <1>4 DEF IInv, DevOK, Keyboard
  <2>3. Recovering(c) /\ pc # "unplugged"
    BY <1>2, <1>4 DEF Recovering
  <2>4. Keyboard(c) => ~dev[c].need_recover
    BY <2>3 DEF IInv, PipeOK, PipeState
  <2> QED
    BY <2>1, <2>2, <2>4
<1>6. UNCHANGED <<evq, rep>>
  BY DEF PipeReset, Dequeued, physical, keys
\* What holds in every case of the devices but the current one.
<1>7. ASSUME Kept, NEW j \in DevSlots, dev[j].used, j # c
      PROVE  \A m \in DOMAIN cmdq' :
               /\ cmdq'[m].op \notin {"enable", "control"} /\ cmdq'[m].slot = dev[j].slot
               /\ dev[j].is_kbd \/ cmdq'[m].op = "disable"
               => cmdq'[m].cur
  BY <1>4, <1>5, <1>7, OthersClean
<1>8. CASE PipeReset /\ cc # "timeout"
  <2>1. /\ Issue("setdeq", s, "dequeued") /\ UNCHANGED <<dev, gaveUp, port, cur, hc>> /\ wdone
    BY <1>4, <1>8 DEF PipeReset, cc
  <2>2. /\ QueueOK' /\ AnswerOK' /\ Kept /\ pc' = "dequeued" /\ ~wdone' /\ wt' = "command"
        /\ \A how \in {"ok", "error"} : \A r : ~Answer(how, r)'
    BY <1>1, <1>2, <1>4, <1>6, <2>1, WaitBegins DEF OpOf, Waits
  <2>3. WaitOK'
    BY <1>3, <2>1, <2>2 DEF WaitOK, Waits, Enumerating
  <2>4. DevOK'
    BY <1>2, <1>5, <2>1, <2>2 DEF IInv, DevOK, Dropping
  <2>5. PortOK'
    BY <2>1, <2>2 DEF IInv, PortOK, OneDevicePerPort, Bare
  <2>6. \A m \in DOMAIN cmdq' : cmdq'[m].op # "control" => cmdq'[m].cur
    BY <1>2, <2>1, <2>2 DEF Kept
  <2>7. CleanOK'
    BY <2>6 DEF CleanOK, Clean
  <2>8. PipeOK'
    <3>1. ASSUME NEW j \in DevSlots, Keyboard(j)'
          PROVE  PipeState(j)'
      <4>1. Keyboard(j) /\ PipeState(j)
        BY <1>2, <2>1, <3>1 DEF IInv, PipeOK, Keyboard
      <4>2. Recovering(j)' <=> Recovering(j)
        BY <1>2, <2>1, <2>2 DEF Recovering
      <4> QED
        BY <1>6, <2>1, <4>1, <4>2, SamePipe
    <3> QED
      BY <3>1 DEF PipeOK
  <2>9. SlotOK'
    <3>1. \A r : dev_by_slot(r)' = dev_by_slot(r)
      BY <2>1 DEF dev_by_slot
    <3> QED
      BY <1>2, <2>1, <2>2, <2>6, <3>1 DEF IInv, SlotOK, Dropping
  <2>10. RepeatHasKeyUnlessAbandoned'
    BY <1>6, <2>1 DEF IInv, RepeatHasKeyUnlessAbandoned, RepeatHasKey, Keyboard
  <2> QED
    BY <1>1, <2>2, <2>3, <2>4, <2>5, <2>7, <2>8, <2>9, <2>10 DEF IInv
\* The wait is over.
<1>9. ASSUME Rest, pc' = "recover", \A r \in Slots : hc'[r].on = hc[r].on,
             \A r \in Slots : r # s => hc'[r] = hc[r],
             \A j \in DevSlots : j # c => dev'[j] = dev[j],
             /\ dev'[c].used /\ dev'[c].slot = s /\ dev'[c].rootport = dev[c].rootport
             /\ ~dev'[c].need_recover,
             ~dev'[c].is_kbd \/ (wdone /\ hc'[s].ep = "armed"),
             gaveUp' \/ (gaveUp' = gaveUp /\ dev' = dev)
      PROVE  IInv'
  <2>1. /\ QueueOK' /\ AnswerOK' /\ Kept /\ ~wdone' /\ wt' = "none"
        /\ \A m \in DOMAIN cmdq' : \E n \in DOMAIN cmdq :
             cmdq'[m].op = cmdq[n].op /\ cmdq'[m].slot = cmdq[n].slot
    BY <1>1, <1>2, <1>6, <1>9, WaitEnds DEF Waits
  <2>2. WaitOK'
    BY <1>9, <2>1 DEF WaitOK, Waits, Enumerating
  <2>3. DevOK'
    BY <1>3, <1>4, <1>5, <1>9 DEF IInv, DevOK
  <2>4. PortOK'
    BY <1>3, <1>4, <1>9 DEF IInv, PortOK, OneDevicePerPort, Bare
  <2>5. wdone => \A m \in DOMAIN cmdq' : cmdq'[m].op = "control"
    BY <1>2, <2>1
  <2>6. CleanOK'
    <3>1. ASSUME NEW m \in DOMAIN cmdq', cmdq'[m].op = "disable"
          PROVE  cmdq'[m].slot # s
      <4>1. PICK n \in DOMAIN cmdq : cmdq[n].op = "disable" /\ cmdq'[m].slot = cmdq[n].slot
        BY <2>1, <3>1
      <4>2. ~cmdq[n].cur
        BY <1>2, <4>1 DEF IInv, QueueOK, OpOf
      <4> QED
        BY <1>3, <1>4, <4>1, <4>2 DEF IInv, CleanOK
    <3> QED
      BY <1>7, <1>9, <2>1, <2>5, <3>1 DEF CleanOK, Clean
  <2>7. PipeOK'
    <3>1. ASSUME NEW j \in DevSlots, Keyboard(j)'
          PROVE  PipeState(j)'
      <4>1. ~Recovering(j)'
        BY <1>9 DEF Recovering
      <4>2. CASE j = c
        <5>1. ReportsOf(s)' = {} /\ hc'[s].ep = "armed"
          BY <1>2, <1>6, <1>9, <3>1, <4>2 DEF ReportsOf, Keyboard
        <5> QED
          BY <1>9, <4>1, <4>2, <5>1 DEF PipeState
      <4>3. CASE j # c
        <5>1. Keyboard(j) /\ PipeState(j) /\ ~Recovering(j) /\ dev'[j] = dev[j]
          BY <1>2, <1>4, <1>9, <3>1, <4>3 DEF IInv, PipeOK, Keyboard, Recovering
        <5>2. dev[j].slot \in Slots /\ dev[j].slot # s
          BY <1>3, <1>4, <1>5, <4>3, <5>1 DEF IInv, DevOK, Keyboard
        <5> QED
          BY <1>6, <1>9, <4>1, <5>1, <5>2, SamePipe
      <4> QED
        BY <4>2, <4>3
    <3> QED
      BY <3>1 DEF PipeOK
  <2>8. SlotOK'
    <3>1. \A r : dev_by_slot(r)' = dev_by_slot(r)
      BY <1>3, <1>4, <1>9 DEF dev_by_slot
    <3> QED
      BY <1>2, <1>9, <2>5, <3>1 DEF IInv, SlotOK, Dropping
  <2>9. RepeatHasKeyUnlessAbandoned'
    BY <1>6, <1>9 DEF IInv, RepeatHasKeyUnlessAbandoned, RepeatHasKey, Keyboard
  <2> QED
    BY <1>1, <1>9, <2>1, <2>2, <2>3, <2>4, <2>6, <2>7, <2>8, <2>9 DEF IInv
<1>10. CASE GiveUp /\ hc' = hc
  <2>1. Rest /\ pc' = "recover" /\ gaveUp' /\ dev' = [dev EXCEPT ![c].is_kbd = FALSE]
    BY <1>4, <1>10 DEF GiveUp, NextDevice, Goto
  <2>2. /\ dev'[c].used /\ dev'[c].slot = s /\ dev'[c].rootport = dev[c].rootport
        /\ ~dev'[c].need_recover /\ ~dev'[c].is_kbd
        /\ \A j \in DevSlots : j # c => dev'[j] = dev[j]
    BY <1>1, <1>3, <1>4, <1>5, <2>1 DEF Device
  <2> QED
    BY <1>9, <1>10, <2>1, <2>2
<1>11. CASE Dequeued /\ cc = "ok"
  <2>1. hc' = Armed(hc, s) /\ Rest /\ pc' = "recover" /\ UNCHANGED <<dev, gaveUp>>
    BY <1>4, <1>11 DEF Dequeued, NextDevice, Goto
  <2>2. wdone /\ hc[s].ep = "idle"
    BY <1>2, <1>4, <1>11 DEF IInv, AnswerOK, Dequeued, Returned
  <2>3. /\ hc'[s].ep = "armed" /\ \A r \in Slots : hc'[r].on = hc[r].on
        /\ \A r \in Slots : r # s => hc'[r] = hc[r]
    BY <1>1, <2>1, <2>2, ArmedFacts
  <2> QED
    BY <1>3, <1>4, <1>5, <1>9, <2>1, <2>2, <2>3
<1> QED
  BY <1>8, <1>10, <1>11 DEF PipeReset, Dequeued

LEMMA WaiterInv == IInv /\ Waiters => IInv'
<1>1. ASSUME IInv, Addressed
      PROVE  IInv'
  <2>1. TypeOK' /\ Returned("addressed") /\ Then(OpOf["described"], "described")
    BY <1>1, WaiterTypes DEF Waiters, Addressed, OpOf
  <2> QED
    BY <1>1, <2>1, ThenInv
<1>2. ASSUME IInv, Described
      PROVE  IInv'
  <2>1. TypeOK' /\ Returned("described") /\ Then(OpOf["configured"], "configured")
    BY <1>2, WaiterTypes DEF Waiters, Described, OpOf
  <2> QED
    BY <1>2, <2>1, ThenInv
<1> QED
  BY <1>1, <1>2, EnumInv, SlotEnabledInv, ConfiguredInv, DroppedInv, UnpluggingInv,
     PickBrokenInv, RecoverInv DEF Waiters

-----------------------------------------------------------------------------
(* The invariant holds, and what follows from it.                          *)

LEMMA InitInv == Init => IInv
<1> SUFFICES ASSUME Init
             PROVE  IInv
  OBVIOUS
<1> USE DEF Init
<1>1. TypeOK
  <2>1. WorldTypes
    BY UsbAssumption DEF WorldTypes, FreeSlot, HcSlot, UsbAssumption
  <2>2. dev \in [DevSlots -> Device]
    BY NoDevType
  <2>3. cmdq \in Seq(Command) /\ evq \in Seq(Event)
    BY EmptySeq
  <2>4. sc \in [conn : BOOLEAN, chg : SUBSET {"C", "R"}, ped : BOOLEAN]
    OBVIOUS
  <2>5. KernelTypes
    BY <2>2, <2>3, <2>4 DEF KernelTypes, OfPort, Enumerating, Waits
  <2> QED
    BY <2>1, <2>5 DEF TypeOK
<1>2. \A i \in DevSlots : ~dev[i].used /\ ~dev[i].is_kbd
  BY DEF NoDev
<1>3. \A s \in Slots : ~hc[s].on
  BY DEF FreeSlot
<1>4. WaitOK /\ QueueOK /\ AnswerOK
  BY DEF WaitOK, QueueOK, AnswerOK, Waits, Enumerating, Done
<1>5. DevOK /\ CleanOK /\ PipeOK
  BY <1>2 DEF DevOK, CleanOK, PipeOK, Keyboard
<1>6. PortOK
  BY <1>2 DEF PortOK, OneDevicePerPort, Bare
<1>7. SlotOK
  BY <1>3 DEF SlotOK, Dropping
<1>8. RepeatHasKeyUnlessAbandoned
  BY DEF RepeatHasKeyUnlessAbandoned, RepeatHasKey
<1> QED
  BY <1>1, <1>4, <1>5, <1>6, <1>7, <1>8 DEF IInv

LEMMA NextInv == IInv /\ [Next]_vars => IInv'
<1> SUFFICES ASSUME IInv, [Next]_vars
             PROVE  IInv'
  OBVIOUS
<1>1. CASE Controller
  BY <1>1, CommandInv, PipeInv DEF Controller
<1>2. CASE User
  BY <1>2, UserInv
<1>3. CASE usbkbd_poll \/ usbkbd_pop
  BY <1>3, GlanceInv, ResetInv, EventInv, WaiterInv DEF usbkbd_poll, Glance, Waiters
<1>4. CASE UNCHANGED vars
  <2>1. UNCHANGED <<dev, cmdq, hc, evq, wt, wdone, wcc, wslotout, rep, gaveUp, pc, port, cur, budget>>
    BY <1>4 DEF vars, world, waiter, keys, ghosts
  <2>2. TypeOK'
    BY <1>4 DEF vars, world, waiter, keys, ghosts, IInv, TypeOK, WorldTypes, KernelTypes
  <2>3. Still
    BY <2>1 DEF Still
  <2>4. PortOK'
    BY <2>1, <2>2, <2>3, StillInv DEF IInv, PortOK, dev_on_root
  <2> QED
    BY <2>2, <2>3, <2>4, StillInv DEF IInv
<1> QED
  BY <1>1, <1>2, <1>3, <1>4 DEF Next

\* What is in flight always agrees with the kernel's place.
THEOREM Invariance == Spec => []IInv
<1> QED
  BY InitInv, NextInv, PTL DEF Spec

\* No two devices of Xhci.dev are on the same root port: the scan that the
\* driver's own reset of a port asks for does not enumerate it again
\* (port_scan: "already up").
THEOREM OnePerPort == Spec => []OneDevicePerPort
<1>1. IInv => OneDevicePerPort
  BY DEF IInv, PortOK
<1> QED
  BY <1>1, Invariance, PTL

\* The typematic repeats only what some keyboard is known to hold, until a
\* keyboard has been abandoned by kbd_recover.
THEOREM RepeatHeld == Spec => []RepeatHasKeyUnlessAbandoned
<1>1. IInv => RepeatHasKeyUnlessAbandoned
  BY DEF IInv
<1> QED
  BY <1>1, Invariance, PTL

\* While no wait was given up, a slot that is on belongs to exactly one
\* device, but when Enable Slot is just answering: enum_device and dev_drop
\* give back every slot they take, on every path.
THEOREM SlotsAreOwned == Spec => []SlotsOwned
<1>1. ASSUME IInv, NoTimeouts, pc # "enabled", NEW s \in Slots, hc[s].on
      PROVE  Cardinality(dev_by_slot(s)) = 1
  <2>1. dev_by_slot(s) # {}
    BY <1>1 DEF IInv, SlotOK
  <2>2. PICK i \in DevSlots : dev[i].used /\ dev[i].slot = s
    BY <2>1 DEF dev_by_slot
  <2>3. dev_by_slot(s) = {i}
    BY <1>1, <2>2 DEF IInv, DevOK, dev_by_slot
  <2> QED
    BY <2>3, FS_Singleton
<1>2. IInv => SlotsOwned
  BY <1>1 DEF SlotsOwned
<1> QED
  BY <1>2, Invariance, PTL

\* A keyboard's pipe is neither dead nor armed twice: exactly one of an armed
\* TRB, one event that waits to be handled, a recovery that is due, and one
\* under way, until the keyboard is being dropped.
THEOREM OneTrb == Spec => []OneTrbPerKeyboard
<1>1. ASSUME IInv, NEW i \in DevSlots, Keyboard(i), ~(pc = "unplugged" /\ cur = i)
      PROVE  LET armed == hc[dev[i].slot].ep = "armed"
             IN /\ Cardinality(ReportsOf(dev[i].slot)) <= 1
                /\ Cardinality({way \in {1, 2, 3, 4} :
                      \/ way = 1 /\ armed
                      \/ way = 2 /\ ReportsOf(dev[i].slot) # {}
                      \/ way = 3 /\ dev[i].need_recover
                      \/ way = 4 /\ Recovering(i)}) = 1
  <2> DEFINE armed == hc[dev[i].slot].ep = "armed"
             reports == ReportsOf(dev[i].slot)
             ways == {way \in {1, 2, 3, 4} :
                        \/ way = 1 /\ armed
                        \/ way = 2 /\ reports # {}
                        \/ way = 3 /\ dev[i].need_recover
                        \/ way = 4 /\ Recovering(i)}
  <2>1. PipeState(i)
    BY <1>1 DEF IInv, PipeOK
  <2>2. reports = {} \/ \E n \in DOMAIN evq : reports = {n}
    BY <2>1 DEF PipeState
  <2>3. Cardinality(reports) <= 1
    <3>1. CASE reports = {}
      BY <3>1, FS_EmptySet
    <3>2. CASE \E n \in DOMAIN evq : reports = {n}
      BY <3>2, FS_Singleton
    <3> QED
      BY <2>2, <3>1, <3>2
  <2>4. \/ ways = {1} \/ ways = {2} \/ ways = {3} \/ ways = {4}
    <3>1. CASE Recovering(i)
      <4>1. ~dev[i].need_recover /\ reports = {} /\ ~armed
        BY <2>1, <3>1 DEF PipeState
      <4> QED
        BY <3>1, <4>1
    <3>2. CASE ~Recovering(i) /\ dev[i].need_recover
      <4>1. reports = {} /\ ~armed
        BY <2>1, <3>2 DEF PipeState
      <4> QED
        BY <3>2, <4>1
    <3>3. CASE ~Recovering(i) /\ ~dev[i].need_recover
      <4>1. (reports = {} /\ armed) \/ (reports # {} /\ ~armed)
        BY <2>1, <3>3 DEF PipeState
      <4> QED
        BY <3>3, <4>1
    <3> QED
      BY <3>1, <3>2, <3>3
  <2>5. Cardinality(ways) = 1
    BY <2>4, FS_Singleton
  <2> QED
    BY <2>3, <2>5
<1>2. IInv => OneTrbPerKeyboard
  BY <1>1 DEF OneTrbPerKeyboard
<1> QED
  BY <1>2, Invariance, PTL

-----------------------------------------------------------------------------
(* Hotplug: while no wait was given up, a port on which the devices are not *)
(* what is plugged in owes the driver a scan, which is due or under way.    *)

\* A scan of port p is due: a port event waits, or is noted.
Raised(p) == \E n \in DOMAIN evq : evq[n].type = "port" /\ evq[n].port = p
Due(p) == p \in pscan \/ Raised(p)

Standing(label, p) == pc = label /\ port = p

\* A port holds one keyboard; a reset bit is the one the kernel waits for; a
\* device dropped because its port read disconnected is on that port.
PortsOK ==
    /\ \A k, l \in Kbds : at[k] = at[l] /\ at[k] # 0 => k = l
    /\ \A p \in Ports : "R" \in chg[p] =>
         /\ pc \in {"read_reset", "ack_reset"} /\ port = p
         /\ pc = "ack_reset" => "R" \in sc.chg
    /\ pc = "ack" => "R" \notin sc.chg
    /\ pc = "unplugged" => dev[cur].rootport = port

\* A keyboard with an address is where the device of that slot, if any, is.
Lodged(k) ==
    addr[k] # 0 =>
       /\ hc[addr[k]].on
       /\ \A i \in DevSlots : dev[i].used /\ dev[i].slot = addr[k] => at[k] = dev[i].rootport

AddressOK ==
    /\ \A k \in Kbds : Lodged(k)
    /\ pc = "enabled" =>
         \A s \in Slots \cup {0} : Answer("ok", s) => \A k \in Kbds : addr[k] # s
    /\ \A n \in DOMAIN cmdq : cmdq[n].cur /\ cmdq[n].op = "address" => cmdq[n].port = port

\* A pipe is in the state the command about to run on it expects: no command
\* on a pipe fails.
Endpoint == hc[dev[cur].slot].ep
Failed == \E s \in Slots \cup {0} : Answer("error", s)

EndpointOK ==
    /\ \A i \in DevSlots :
         dev[i].used /\ dev[i].need_recover /\ ~(pc = "unplugged" /\ cur = i) =>
            hc[dev[i].slot].ep = "halted"
    /\ pc \in {"addressed", "described"} => Endpoint = "none"
    /\ pc = "configured" /\ ~Executed => Endpoint = "none"
    /\ pc = "pipe_reset" => Endpoint = IF Executed THEN "stopped" ELSE "halted"
    /\ pc = "dequeued" /\ ~Executed => Endpoint = "stopped"
    /\ pc \in {"configured", "dequeued"} => ~Failed

\* A change of port p raised an event that has not been looked into; nor has
\* the one a reset of the port raised, before the port's enumeration is over.
ChangeOK(p) ==
    /\ chg[p] # {} => Due(p) \/ Standing("read", p) \/ (Standing("ack", p) /\ sc.chg # {})
    /\ Standing("ack_reset", p) /\ "R" \in sc.chg => Due(p)
    /\ pc \in {"enum"} \cup Enumerating /\ port = p => Due(p)

\* Address Device of the device being brought up succeeded.
AddressTaken ==
    \/ pc \in {"described", "configured"}
    \/ pc = "addressed" /\ \E s \in Slots \cup {0} : Answer("ok", s)

\* The driver's device on port p is the keyboard plugged in there.
Linked(p) == \E k \in Here(p), i \in dev_on_root(p) : Keyboard(i) /\ addr[k] = dev[i].slot

\* A device whose keyboard is gone is found out.
GoneOK(p) ==
    Here(p) = {} /\ dev_on_root(p) # {} =>
       \/ Due(p) \/ Standing("read", p) \/ (Standing("ack", p) /\ ~sc.conn)
       \/ Standing("unplug", p) \/ Standing("unplugged", p)

\* A keyboard without a device is found; a device is its port's keyboard or is
\* being brought up; the keyboard of a device about to be dropped is gone.
ComeOK(p) ==
    /\ Here(p) # {} /\ dev_on_root(p) = {} =>
         Due(p) \/ Standing("read", p) \/ (Standing("ack", p) /\ sc.conn) \/ Standing("reset", p)
    /\ Here(p) # {} /\ dev_on_root(p) # {} =>
         Linked(p) \/ (pc \in Enumerating /\ port = p)
    /\ dev_on_root(p) # {} /\ Standing("ack", p) /\ ~sc.conn => Here(p) = {}
    /\ dev_on_root(p) # {} /\ pc \in {"unplug", "unplugged"} /\ port = p => Here(p) = {}
    /\ AddressTaken /\ port = p => \A k \in Here(p) : addr[k] = dev[cur].slot

PlugOK ==
    \A p \in Ports : ~Missed(p, "raced") =>
       ChangeOK(p) /\ GoneOK(p) /\ (~Missed(p, "swapped") => ComeOK(p))

HotInv == PortsOK /\ (NoTimeouts => AddressOK /\ EndpointOK /\ PlugOK)

\* An event that is added takes no scan away.
LEMMA DueKept ==
    ASSUME TypeOK, pscan \subseteq pscan',
           evq' = evq \/ \E e \in Event : evq' = Append(evq, e)
    PROVE  \A p : Due(p) => Due(p)'
<1>1. CASE evq' = evq
  BY <1>1 DEF Due, Raised
<1>2. ASSUME NEW e \in Event, evq' = Append(evq, e)
      PROVE  \A p : Due(p) => Due(p)'
  BY <1>2, Appended DEF Due, Raised
<1> QED
  BY <1>1, <1>2

\* The first change bit of a port raises an event.
LEMMA ChangeIsDue ==
    ASSUME TypeOK, NEW p \in Ports, NEW bit \in {"C", "R"}, PortChange(p, bit, evq), pscan' = pscan
    PROVE  /\ chg[p] = {} => Due(p)'
           /\ chg'[p] = chg[p] \cup {bit}
           /\ \A q \in Ports : q # p => chg'[q] = chg[q]
           /\ \A q : Due(q) => Due(q)'
<1>1. chg \in [Ports -> SUBSET {"C", "R"}] /\ PortEvent(p) \in Event
  BY EventTypes DEF TypeOK, WorldTypes
<1>2. PortEvent(p).type = "port" /\ PortEvent(p).port = p
  BY DEF PortEvent
<1>3. evq' = evq \/ evq' = Append(evq, PortEvent(p))
  BY DEF PortChange
<1>4. chg[p] = {} => Due(p)'
  <2>1. ASSUME evq' = Append(evq, PortEvent(p))
        PROVE  Due(p)'
    <3>1. /\ DOMAIN evq' = 1 .. Len(evq) + 1 /\ Len(evq) \in Nat
          /\ evq'[Len(evq) + 1] = PortEvent(p)
      BY <1>1, <2>1, Appended
    <3> QED
      BY <1>2, <3>1 DEF Due, Raised
  <2> QED
    BY <2>1 DEF PortChange
<1>5. \A q : Due(q) => Due(q)'
  BY <1>1, <1>3, DueKept
<1> QED
  BY <1>1, <1>4, <1>5 DEF PortChange

\* What does not touch commands, pipes and devices leaves the pipes as they

\* are expected to be.
LEMMA StillHot ==
    ASSUME IInv, Still, TypeOK'
    PROVE  /\ NoTimeouts' <=> NoTimeouts
           /\ EndpointOK => EndpointOK'
           /\ \A how, s : Answer(how, s)' <=> Answer(how, s)
           /\ \A p : dev_on_root(p)' = dev_on_root(p)
           /\ \A s : dev_by_slot(s)' = dev_by_slot(s)
<1>1. /\ UNCHANGED <<dev, cmdq, hc, wt, wdone, wcc, wslotout>>
      /\ budget'.timeouts = budget.timeouts
      /\ UNCHANGED <<pc, port, cur>> \/ (pc \notin Waits /\ pc' \notin Waits)
  BY DEF Still
<1>2. evq' = evq \/ \E e \in Event : e.type = "port" /\ evq' = Append(evq, e)
  BY EventTypes DEF Still, PortEvent
<1>3. \A how, s : Answer(how, s)' <=> Answer(how, s)
  <2>1. CASE evq' = evq
    BY <1>1, <2>1 DEF Answer, Done
  <2>2. ASSUME NEW e \in Event, e.type = "port", evq' = Append(evq, e)
        PROVE  \A how, s : Answer(how, s)' <=> Answer(how, s)
    <3>1. /\ \A n \in DOMAIN evq' : Done(n)' <=> Done(n)
          /\ \A how, s : Answer(how, s)' => Answer(how, s)
      BY <1>1, <2>2, NoAnswer DEF IInv
    <3>2. \A n \in DOMAIN evq : n \in DOMAIN evq' /\ evq'[n] = evq[n]
      BY <2>2, Appended DEF IInv
    <3>3. \A how, s : Answer(how, s) => Answer(how, s)'
      BY <1>1, <3>2 DEF Answer, Done
    <3> QED
      BY <3>1, <3>3
  <2> QED
    BY <1>2, <2>1, <2>2
<1>4. NoTimeouts' <=> NoTimeouts
  BY <1>1 DEF NoTimeouts
<1>5. Executed' <=> Executed
  BY <1>1 DEF Executed
<1>6. ASSUME EndpointOK
      PROVE  EndpointOK'
  <2>1. Failed' => Failed
    BY <1>3 DEF Failed
  <2>2. CASE UNCHANGED <<pc, port, cur>>
    BY <1>1, <1>5, <1>6, <2>1, <2>2 DEF EndpointOK, Endpoint
  <2>3. CASE pc \notin Waits /\ pc' \notin Waits
    BY <1>1, <1>6, <2>3 DEF EndpointOK, Waits
  <2> QED
    BY <1>1, <2>2, <2>3
<1>7. \A p : dev_on_root(p)' = dev_on_root(p)
  BY <1>1 DEF dev_on_root
<1>8. \A s : dev_by_slot(s)' = dev_by_slot(s)
  BY <1>1 DEF dev_by_slot
<1> QED
  BY <1>3, <1>4, <1>6, <1>7, <1>8

\* What the driver owes port q stays owed while neither it nor q moves on.
LEMMA Unmoved ==
    ASSUME IInv, NEW q \in Ports, UNCHANGED <<pc, port, cur, sc>>,
           \A d \in DevSlots :
              /\ dev'[d].used = dev[d].used /\ dev'[d].slot = dev[d].slot
              /\ dev'[d].rootport = dev[d].rootport /\ dev'[d].is_kbd = dev[d].is_kbd,
           Here(q)' = Here(q), \A k \in Here(q) : addr'[k] = addr[k], chg'[q] = chg[q],
           Due(q) => Due(q)', AddressTaken' /\ port = q => AddressTaken
    PROVE  /\ ChangeOK(q) => ChangeOK(q)'
           /\ GoneOK(q) => GoneOK(q)'
           /\ ComeOK(q) => ComeOK(q)'
<1>1. dev_on_root(q)' = dev_on_root(q)
  BY DEF dev_on_root
<1>2. \A label : Standing(label, q)' <=> Standing(label, q)
  BY DEF Standing
<1>3. ChangeOK(q) => ChangeOK(q)'
  BY <1>2 DEF ChangeOK
<1>4. GoneOK(q) => GoneOK(q)'
  BY <1>1, <1>2 DEF GoneOK
<1>5. ASSUME ComeOK(q)
      PROVE  ComeOK(q)'
  <2>1. Linked(q) => Linked(q)'
    <3>1. dev_on_root(q) \subseteq DevSlots
      BY DEF dev_on_root
    <3> QED
      BY <1>1, <3>1 DEF Linked, Keyboard
  <2>2. AddressTaken' /\ port = q => \A k \in Here(q)' : addr'[k] = dev'[cur'].slot
    <3>1. ASSUME AddressTaken', port = q
          PROVE  \A k \in Here(q)' : addr'[k] = dev'[cur'].slot
      <4>1. AddressTaken /\ cur \in DevSlots
        BY <3>1, Waiting DEF AddressTaken, Waits
      <4> QED
        BY <1>5, <3>1, <4>1 DEF ComeOK
    <3> QED
      BY <3>1
  <2>3. /\ Here(q)' # {} /\ dev_on_root(q)' = {} =>
             Due(q)' \/ Standing("read", q)' \/ (Standing("ack", q) /\ sc.conn)' \/ Standing("reset", q)'
        /\ dev_on_root(q)' # {} /\ (Standing("ack", q) /\ ~sc.conn)' => Here(q)' = {}
        /\ dev_on_root(q)' # {} /\ pc' \in {"unplug", "unplugged"} /\ port' = q => Here(q)' = {}
        /\ Here(q)' # {} /\ dev_on_root(q)' # {} =>
             Linked(q)' \/ (pc' \in Enumerating /\ port' = q)
    BY <1>1, <1>2, <1>5, <2>1 DEF ComeOK
  <2> QED
    BY <2>2, <2>3 DEF ComeOK
<1> QED
  BY <1>3, <1>4, <1>5

\* While a change bit of p is set, its scan is due or under way, unless the

\* bit is about to be cleared by a write of what was read before.
LEMMA ChangeSeen ==
    ASSUME IInv, PortsOK, NEW p \in Ports, ChangeOK(p), chg[p] # {}, ~Unseen(p)
    PROVE  Due(p) \/ Standing("read", p)
<1>1. sc.chg \subseteq {"C", "R"}
  BY DEF IInv, TypeOK, KernelTypes
<1> QED
  BY <1>1 DEF ChangeOK, PortsOK, Unseen, Standing

\* A keyboard is plugged in.
LEMMA PlugHot ==
    ASSUME IInv, HotInv, TypeOK', NEW k \in Kbds, NEW p \in Ports, Plug(k, p)
    PROVE  HotInv'
<1>1. /\ at[k] = 0 /\ Here(p) = {}
      /\ UNCHANGED <<hc, cmdq, dev, pscan, pc, port, cur, sc, wt, wdone, wcc, wslotout, rep, gaveUp>>
      /\ at' = [at EXCEPT ![k] = p] /\ addr' = [addr EXCEPT ![k] = 0]
      /\ PortChange(p, "C", evq)
  BY DEF Plug, kernel, waiter, keys
<1>2. /\ TypeOK /\ at \in [Kbds -> Ports \cup {0}] /\ addr \in [Kbds -> Slots \cup {0}]
      /\ 0 \notin Ports
  BY UsbAssumption DEF IInv, TypeOK, WorldTypes, UsbAssumption
<1>3. /\ at'[k] = p /\ addr'[k] = 0
      /\ \A x \in Kbds : x # k => at'[x] = at[x] /\ addr'[x] = addr[x]
  BY <1>1, <1>2
<1>4. /\ chg[p] = {} => Due(p)'
      /\ chg'[p] = chg[p] \cup {"C"}
      /\ \A q \in Ports : q # p => chg'[q] = chg[q]
      /\ \A q : Due(q) => Due(q)'
  BY <1>1, <1>2, ChangeIsDue
<1>5. /\ \A q, why : Missed(q, why) => Missed(q, why)'
      /\ Unseen(p) => Missed(p, "raced")'
      /\ dev_on_root(p) # {} => Missed(p, "swapped")'
  BY DEF Plug, Missed
<1>6. Still
  <2>1. budget'.timeouts = budget.timeouts
    BY <1>2 DEF Plug, Spend, TypeOK, WorldTypes
  <2>2. evq' = evq \/ evq' = Append(evq, PortEvent(p))
    BY <1>1 DEF PortChange
  <2> QED
    BY <1>1, <2>1, <2>2 DEF Still
<1>7. /\ NoTimeouts' <=> NoTimeouts
      /\ EndpointOK => EndpointOK'
      /\ \A how, s : Answer(how, s)' <=> Answer(how, s)
      /\ \A q : dev_on_root(q)' = dev_on_root(q)
      /\ \A s : dev_by_slot(s)' = dev_by_slot(s)
  BY <1>6, StillHot
<1>8. PortsOK'
  <2>1. \A x \in Kbds : at[x] # p
    BY <1>1 DEF Here
  <2>2. \A x, y \in Kbds : at'[x] = at'[y] /\ at'[x] # 0 => x = y
    BY <1>2, <1>3, <2>1 DEF HotInv, PortsOK
  <2>3. \A q \in Ports : "R" \in chg'[q] => "R" \in chg[q]
    BY <1>4
  <2> QED
    BY <1>1, <2>2, <2>3 DEF HotInv, PortsOK
<1>9. ASSUME NoTimeouts
      PROVE  AddressOK'
  <2>1. \A x \in Kbds : Lodged(x)'
    BY <1>1, <1>3, <1>9 DEF HotInv, AddressOK, Lodged
  <2>2. pc = "enabled" =>
          \A s \in Slots \cup {0} : Answer("ok", s)' => \A x \in Kbds : addr'[x] # s
    BY <1>3, <1>7, <1>9, UsbAssumption DEF HotInv, AddressOK, IInv, AnswerOK, UsbAssumption
  <2> QED
    BY <1>1, <1>9, <2>1, <2>2 DEF HotInv, AddressOK
<1>10. ASSUME NoTimeouts
       PROVE  PlugOK'
  <2> SUFFICES ASSUME NEW q \in Ports, ~Missed(q, "raced")'
               PROVE  ChangeOK(q)' /\ GoneOK(q)' /\ (~Missed(q, "swapped")' => ComeOK(q)')
    BY DEF PlugOK
  <2>1. ~Missed(q, "raced") /\ (~Missed(q, "swapped")' => ~Missed(q, "swapped"))
    BY <1>5
  <2>2. ChangeOK(q) /\ GoneOK(q) /\ (~Missed(q, "swapped") => ComeOK(q))
    BY <1>10, <2>1 DEF HotInv, PlugOK
  <2>3. CASE q # p
    <3>1. Here(q)' = Here(q) /\ k \notin Here(q)
      BY <1>1, <1>2, <1>3, <2>3 DEF Here
    <3>2. \A x \in Here(q) : addr'[x] = addr[x]
      BY <1>3, <3>1 DEF Here
    <3>3. AddressTaken' => AddressTaken
      BY <1>1, <1>7 DEF AddressTaken
    <3> QED
      BY <1>1, <1>4, <2>1, <2>2, <2>3, <3>1, <3>2, <3>3, Unmoved
  <2>4. CASE q = p
    <3>1. Due(p)' \/ Standing("read", p)
      BY <1>4, <1>5, <2>2, <2>4, ChangeSeen DEF HotInv
    <3>2. ChangeOK(p)'
      BY <1>1, <1>4, <2>2, <2>4, <3>1 DEF ChangeOK, Standing
    <3>3. GoneOK(p)'
      BY <1>3 DEF GoneOK, Here
    <3>4. ASSUME ~Missed(p, "swapped")'
          PROVE  ComeOK(p)'
      <4>1. dev_on_root(p) = {} /\ dev_on_root(p)' = {}
        BY <1>5, <1>7, <3>4
      <4>2. ~(AddressTaken' /\ port = p)
        <5>1. pc \in Enumerating => dev[cur].used /\ dev[cur].rootport = port /\ cur \in DevSlots
          BY Waiting DEF IInv, WaitOK, Enumerating, Waits
        <5> QED
          BY <1>1, <4>1, <5>1 DEF AddressTaken, Enumerating, dev_on_root
      <4> QED
        BY <1>1, <3>1, <4>1, <4>2 DEF ComeOK, Standing
    <3> QED
      BY <2>4, <3>2, <3>3, <3>4
  <2> QED
    BY <2>3, <2>4
<1> QED
  BY <1>7, <1>8, <1>9, <1>10 DEF HotInv

\* A keyboard is unplugged.
LEMMA UnplugHot ==
    ASSUME IInv, HotInv, TypeOK', NEW k \in Kbds, Unplug(k)
    PROVE  HotInv'
<1>1. /\ at[k] # 0
      /\ UNCHANGED <<hc, cmdq, dev, pscan, pc, port, cur, sc, wt, wdone, wcc, wslotout, rep, gaveUp>>
      /\ at' = [at EXCEPT ![k] = 0] /\ addr' = [addr EXCEPT ![k] = 0]
      /\ PortChange(at[k], "C", evq)
  BY DEF Unplug, kernel, waiter, keys
<1>2. /\ TypeOK /\ at \in [Kbds -> Ports \cup {0}] /\ addr \in [Kbds -> Slots \cup {0}]
      /\ 0 \notin Ports
  BY UsbAssumption DEF IInv, TypeOK, WorldTypes, UsbAssumption
<1>3. PICK p \in Ports : at[k] = p
  BY <1>1, <1>2
<1>4. /\ at'[k] = 0 /\ addr'[k] = 0
      /\ \A x \in Kbds : x # k => at'[x] = at[x] /\ addr'[x] = addr[x]
  BY <1>1, <1>2
<1>5. /\ chg[p] = {} => Due(p)'
      /\ chg'[p] = chg[p] \cup {"C"}
      /\ \A q \in Ports : q # p => chg'[q] = chg[q]
      /\ \A q : Due(q) => Due(q)'
  BY <1>1, <1>2, <1>3, ChangeIsDue
<1>6. /\ \A q, why : Missed(q, why) => Missed(q, why)'
      /\ Unseen(p) => Missed(p, "raced")'
  BY <1>3 DEF Unplug, Missed
<1>7. Still
  <2>1. budget'.timeouts = budget.timeouts
    BY <1>2 DEF Unplug, Spend, TypeOK, WorldTypes
  <2>2. evq' = evq \/ evq' = Append(evq, PortEvent(p))
    BY <1>1, <1>3 DEF PortChange
  <2> QED
    BY <1>1, <2>1, <2>2 DEF Still
<1>8. /\ NoTimeouts' <=> NoTimeouts
      /\ EndpointOK => EndpointOK'
      /\ \A how, s : Answer(how, s)' <=> Answer(how, s)
  BY <1>7, StillHot
<1>9. PortsOK'
  <2>1. \A x, y \in Kbds : at'[x] = at'[y] /\ at'[x] # 0 => x = y
    BY <1>2, <1>4 DEF HotInv, PortsOK
  <2>2. \A q \in Ports : "R" \in chg'[q] => "R" \in chg[q]
    BY <1>5
  <2> QED
    BY <1>1, <2>1, <2>2 DEF HotInv, PortsOK
<1>10. ASSUME NoTimeouts
       PROVE  AddressOK'
  <2>1. \A x \in Kbds : Lodged(x)'
    BY <1>1, <1>4, <1>10 DEF HotInv, AddressOK, Lodged
  <2>2. pc = "enabled" =>
          \A s \in Slots \cup {0} : Answer("ok", s)' => \A x \in Kbds : addr'[x] # s
    BY <1>4, <1>8, <1>10, UsbAssumption DEF HotInv, AddressOK, IInv, AnswerOK, UsbAssumption
  <2> QED
    BY <1>1, <1>10, <2>1, <2>2 DEF HotInv, AddressOK
<1>11. ASSUME NoTimeouts
       PROVE  PlugOK'
  <2> SUFFICES ASSUME NEW q \in Ports, ~Missed(q, "raced")'
               PROVE  ChangeOK(q)' /\ GoneOK(q)' /\ (~Missed(q, "swapped")' => ComeOK(q)')
    BY DEF PlugOK
  <2>1. ~Missed(q, "raced") /\ (~Missed(q, "swapped")' => ~Missed(q, "swapped"))
    BY <1>6
  <2>2. ChangeOK(q) /\ GoneOK(q) /\ (~Missed(q, "swapped") => ComeOK(q))
    BY <1>11, <2>1 DEF HotInv, PlugOK
  <2>3. CASE q # p
    <3>1. Here(q)' = Here(q) /\ k \notin Here(q)
      BY <1>2, <1>3, <1>4, <2>3 DEF Here
    <3>2. \A x \in Here(q) : addr'[x] = addr[x]
      BY <1>4, <3>1 DEF Here
    <3>3. AddressTaken' => AddressTaken
      BY <1>1, <1>8 DEF AddressTaken
    <3> QED
      BY <1>1, <1>5, <2>1, <2>2, <2>3, <3>1, <3>2, <3>3, Unmoved
  <2>4. CASE q = p
    <3>1. Due(p)' \/ Standing("read", p)
      BY <1>5, <1>6, <2>2, <2>4, ChangeSeen DEF HotInv
    <3>2. ChangeOK(p)'
      BY <1>1, <1>5, <2>2, <2>4, <3>1 DEF ChangeOK, Standing
    <3>3. GoneOK(p)'
      BY <1>1, <3>1 DEF GoneOK, Standing
    <3>4. Here(p)' = {}
      <4>1. \A x \in Kbds : x # k => at[x] # p
        BY <1>2, <1>3 DEF HotInv, PortsOK
      <4> QED
        BY <1>2, <1>4, <4>1 DEF Here
    <3>5. ComeOK(p)'
      BY <3>4 DEF ComeOK
    <3> QED
      BY <2>4, <3>2, <3>3, <3>5
  <2> QED
    BY <2>3, <2>4
<1> QED
  BY <1>8, <1>9, <1>10, <1>11 DEF HotInv

\* The world stays where it is, and the kernel with it: nothing new is owed.
LEMMA SettledHot ==
    ASSUME IInv, HotInv, TypeOK', Still,
           UNCHANGED <<at, addr, chg, pscan, pc, port, cur, sc, missed>>
    PROVE  HotInv'
<1>1. /\ UNCHANGED <<dev, cmdq, hc>>
      /\ evq' = evq \/ \E e \in Event : evq' = Append(evq, e)
  BY EventTypes DEF Still
<1>2. /\ NoTimeouts' <=> NoTimeouts
      /\ EndpointOK => EndpointOK'
      /\ \A how, s : Answer(how, s)' <=> Answer(how, s)
  BY StillHot
<1>3. PortsOK'
  BY <1>1 DEF HotInv, PortsOK
<1>4. NoTimeouts => AddressOK'
  BY <1>1, <1>2 DEF HotInv, AddressOK, Lodged
<1>5. ASSUME NoTimeouts
      PROVE  PlugOK'
  <2> SUFFICES ASSUME NEW q \in Ports, ~Missed(q, "raced")
               PROVE  ChangeOK(q)' /\ GoneOK(q)' /\ (~Missed(q, "swapped") => ComeOK(q)')
    BY DEF PlugOK, Missed
  <2>1. ChangeOK(q) /\ GoneOK(q) /\ (~Missed(q, "swapped") => ComeOK(q))
    BY <1>5 DEF HotInv, PlugOK
  <2>2. /\ Here(q)' = Here(q) /\ \A x \in Here(q) : addr'[x] = addr[x]
        /\ AddressTaken' => AddressTaken
    BY <1>2 DEF Here, AddressTaken
  <2>3. Due(q) => Due(q)'
    BY <1>1, DueKept DEF IInv
  <2> QED
    BY <1>1, <2>1, <2>2, <2>3, Unmoved
<1> QED
  BY <1>2, <1>3, <1>4, <1>5 DEF HotInv

\* What the user does.
LEMMA UserHot == IInv /\ HotInv /\ User => HotInv'
<1> SUFFICES ASSUME IInv, HotInv, User
             PROVE  HotInv'
  OBVIOUS
<1>1. TypeOK'
  BY UserTypes DEF IInv
<1>2. ASSUME NEW k \in Kbds, NEW u \in Usages, Type(k, u)
      PROVE  HotInv'
  <2>1. budget'.timeouts = budget.timeouts
    BY <1>2 DEF Type, Spend, IInv, TypeOK, WorldTypes
  <2>2. UNCHANGED <<at, addr, chg, pscan, pc, port, cur, sc, missed>>
    BY <1>2 DEF Type, kernel
  <2>3. Still
    BY <1>2, <2>1 DEF Type, kernel, waiter, keys, Still
  <2> QED
    BY <1>1, <2>2, <2>3, SettledHot
<1> QED
  BY <1>1, <1>2, PlugHot, UnplugHot DEF User

\* The kernel looks and moves on: what it owes moves with it.
LEMMA GlanceHot == IInv /\ HotInv /\ Glance => HotInv'
<1> SUFFICES ASSUME IInv, HotInv, Glance
             PROVE  HotInv'
  OBVIOUS
<1>1. /\ TypeOK /\ TypeOK' /\ port \in Nat /\ pscan \subseteq Ports
      /\ chg \in [Ports -> SUBSET {"C", "R"}] /\ sc.chg \subseteq {"C", "R"}
      /\ sc.conn \in BOOLEAN /\ sc.ped \in BOOLEAN
      /\ pc \in OfPort => port \in Ports
  BY GlanceTypes DEF IInv, TypeOK, KernelTypes, WorldTypes
<1>2. /\ UNCHANGED <<at, addr, hc, cmdq, dev, evq, wt, wdone, wcc, wslotout, missed, budget, rep, gaveUp>>
      /\ pc \notin Waits /\ pc' \notin Waits
  BY DEF Glance, usbkbd_pop, PollStart, EventsDrained, PickPort, Repeat, ReadPortsc, AckPort,
         AckReset, NextPort, Goto, world, waiter, keys, ghosts, physical, Waits
<1>3. Still
  BY <1>2 DEF Still
<1>4. /\ NoTimeouts' <=> NoTimeouts
      /\ EndpointOK => EndpointOK'
      /\ \A q : dev_on_root(q)' = dev_on_root(q) /\ Here(q)' = Here(q)
      /\ \A q : Linked(q)' <=> Linked(q)
      /\ \A q : Raised(q)' <=> Raised(q)
      /\ \A q, why : Missed(q, why)' <=> Missed(q, why)
  <2>1. \A q : dev_on_root(q)' = dev_on_root(q) /\ Here(q)' = Here(q)
    BY <1>2 DEF dev_on_root, Here
  <2>2. \A q : Linked(q)' <=> Linked(q)
    BY <1>2, <2>1 DEF Linked, Keyboard
  <2>3. \A q : Raised(q)' <=> Raised(q)
    BY <1>2 DEF Raised
  <2>4. \A q, why : Missed(q, why)' <=> Missed(q, why)
    BY <1>2 DEF Missed
  <2> QED
    BY <1>1, <1>3, <2>1, <2>2, <2>3, <2>4, StillHot
<1>5. NoTimeouts => AddressOK'
  <2>1. \A n \in DOMAIN cmdq : ~cmdq[n].cur
    BY <1>2 DEF IInv, QueueOK
  <2> QED
    BY <1>2, <2>1 DEF HotInv, AddressOK, Lodged, Waits
<1>6. pc \notin Enumerating /\ pc' \notin Enumerating /\ ~AddressTaken'
      /\ pc # "unplugged" /\ pc' # "unplugged"
  BY <1>2 DEF Enumerating, Waits, AddressTaken
<1>7. ASSUME PortsOK',
             \A q \in Ports : ChangeOK(q) => ChangeOK(q)',
             \A q \in Ports : ChangeOK(q) /\ GoneOK(q) => GoneOK(q)',
             \A q \in Ports : ChangeOK(q) /\ ComeOK(q) => ComeOK(q)'
      PROVE  HotInv'
  BY <1>4, <1>5, <1>7 DEF HotInv, PlugOK
<1>8. CASE usbkbd_pop
  <2>1. UNCHANGED <<at, addr, chg, pscan, pc, port, cur, sc, missed>>
    BY <1>8 DEF usbkbd_pop, world, ghosts
  <2> QED
    BY <1>1, <1>3, <2>1, SettledHot
<1>9. CASE PollStart \/ EventsDrained \/ Repeat \/ (PickPort /\ {p \in pscan : p >= port} = {})
  <2>1. UNCHANGED <<chg, pscan, sc>>
    BY <1>9 DEF PollStart, EventsDrained, Repeat, PickPort, world
  <2>2. pc \notin OfPort /\ pc' \notin OfPort
    BY <1>9 DEF PollStart, EventsDrained, Repeat, PickPort, Goto, OfPort
  <2>3. PortsOK'
    BY <1>2, <1>6, <2>1, <2>2 DEF HotInv, PortsOK, OfPort
  <2>4. \A q : (Due(q)' <=> Due(q))
    BY <1>4, <2>1 DEF Due
  <2>5. ASSUME NEW q \in Ports
        PROVE  /\ ChangeOK(q) => ChangeOK(q)'
               /\ GoneOK(q) => GoneOK(q)'
               /\ ComeOK(q) => ComeOK(q)'
    BY <1>4, <1>6, <2>1, <2>2, <2>4 DEF ChangeOK, GoneOK, ComeOK, Standing, OfPort
  <2> QED
    BY <1>7, <2>3, <2>5
<1>10. CASE PickPort /\ {p \in pscan : p >= port} # {}
  <2> DEFINE flagged == {p \in pscan : p >= port}
  <2>1. PICK p \in flagged : p = Min(flagged)
    <3>1. flagged \subseteq Nat /\ flagged # {}
      BY <1>1, <1>10, UsbAssumption DEF UsbAssumption
    <3> QED
      BY <3>1, Least
  <2>2. /\ UNCHANGED <<chg, sc>> /\ pc = "ports"
        /\ pc' = "read" /\ port' = p /\ pscan' = pscan \ {p} /\ p \in Ports
    BY <1>1, <1>10, <2>1 DEF PickPort, Goto, world
  <2>3. PortsOK'
    BY <1>2, <2>2 DEF HotInv, PortsOK
  <2>4. \A q : Due(q) => Due(q)' \/ q = p
    BY <1>4, <2>2 DEF Due
  <2>5. ASSUME NEW q \in Ports
        PROVE  /\ ChangeOK(q) => ChangeOK(q)'
               /\ GoneOK(q) => GoneOK(q)'
               /\ ComeOK(q) => ComeOK(q)'
    BY <1>4, <1>6, <2>2, <2>4 DEF ChangeOK, GoneOK, ComeOK, Standing
  <2> QED
    BY <1>7, <2>3, <2>5
<1>11. CASE ReadPortsc("read", "ack")
  <2>1. /\ UNCHANGED <<chg, pscan, port>> /\ pc = "read" /\ pc' = "ack"
        /\ sc'.conn = (Here(port) # {}) /\ sc'.chg = chg[port] /\ port \in Ports
    BY <1>1, <1>11 DEF ReadPortsc, world, OfPort
  <2>2. PortsOK'
    BY <1>2, <2>1 DEF HotInv, PortsOK
  <2>3. \A q : (Due(q)' <=> Due(q))
    BY <1>4, <2>1 DEF Due
  <2>4. ASSUME NEW q \in Ports
        PROVE  /\ ChangeOK(q) => ChangeOK(q)'
               /\ GoneOK(q) => GoneOK(q)'
               /\ ComeOK(q) => ComeOK(q)'
    <3>1. ChangeOK(q) => ChangeOK(q)'
      BY <1>6, <2>1, <2>3 DEF ChangeOK, Standing
    <3>2. GoneOK(q) => GoneOK(q)'
      BY <1>4, <2>1, <2>3 DEF GoneOK, Standing
    <3>3. ComeOK(q) => ComeOK(q)'
      BY <1>4, <1>6, <2>1, <2>3 DEF ComeOK, Standing
    <3> QED
      BY <3>1, <3>2, <3>3
  <2> QED
    BY <1>7, <2>2, <2>4
<1>12. CASE ReadPortsc("read_reset", "ack_reset")
  <2>1. /\ UNCHANGED <<chg, pscan, port>> /\ pc = "read_reset" /\ pc' = "ack_reset"
        /\ sc'.chg = chg[port] /\ port \in Ports
    BY <1>1, <1>12 DEF ReadPortsc, world, OfPort
  <2>2. PortsOK'
    BY <1>2, <2>1 DEF HotInv, PortsOK
  <2>3. \A q : (Due(q)' <=> Due(q))
    BY <1>4, <2>1 DEF Due
  <2>4. ASSUME NEW q \in Ports
        PROVE  /\ ChangeOK(q) => ChangeOK(q)'
               /\ GoneOK(q) => GoneOK(q)'
               /\ ComeOK(q) => ComeOK(q)'
    <3>1. ChangeOK(q) => ChangeOK(q)'
      BY <1>6, <2>1, <2>3 DEF ChangeOK, Standing
    <3>2. GoneOK(q) => GoneOK(q)'
      BY <1>4, <2>1, <2>3 DEF GoneOK, Standing
    <3>3. ComeOK(q) => ComeOK(q)'
      BY <1>4, <1>6, <2>1, <2>3 DEF ComeOK, Standing
    <3> QED
      BY <3>1, <3>2, <3>3
  <2> QED
    BY <1>7, <2>2, <2>4
<1>13. CASE AckPort
  <2>1. /\ UNCHANGED pscan /\ pc = "ack" /\ port \in Ports
        /\ chg'[port] = chg[port] \ sc.chg
        /\ \A q \in Ports : q # port => chg'[q] = chg[q]
        /\ sc'.chg = {} /\ sc'.conn = FALSE
    BY <1>1, <1>13 DEF AckPort, AckSeen, ForgetPortsc, OfPort
  <2>2. \/ pc' = "unplug" /\ port' = port /\ ~sc.conn
        \/ pc' = "ports" /\ sc.conn /\ dev_on_root(port) # {}
        \/ pc' = "reset" /\ port' = port /\ sc.conn /\ dev_on_root(port) = {}
    BY <1>1, <1>13 DEF AckPort, NextPort, Goto
  <2>3. \A q : (Due(q)' <=> Due(q))
    BY <1>4, <2>1 DEF Due
  <2>4. PortsOK'
    <3>1. \A q \in Ports : "R" \notin chg[q]
      BY <2>1 DEF HotInv, PortsOK
    <3> QED
      BY <1>2, <2>1, <2>2, <3>1 DEF HotInv, PortsOK
  <2>5. ASSUME NEW q \in Ports
        PROVE  /\ ChangeOK(q) => ChangeOK(q)'
               /\ GoneOK(q) => GoneOK(q)'
               /\ ComeOK(q) => ComeOK(q)'
    <3>1. sc.chg = {} \/ (sc.chg = {"C"} /\ chg'[port] = {})
      BY <1>1, <2>1 DEF HotInv, PortsOK
    <3>2. ChangeOK(q) => ChangeOK(q)'
      BY <1>6, <2>1, <2>2, <2>3, <3>1 DEF ChangeOK, Standing
    <3>3. GoneOK(q) => GoneOK(q)'
      BY <1>4, <2>1, <2>2, <2>3 DEF GoneOK, Standing
    <3>4. ComeOK(q) => ComeOK(q)'
      BY <1>4, <1>6, <2>1, <2>2, <2>3 DEF ComeOK, Standing
    <3> QED
      BY <3>2, <3>3, <3>4
  <2> QED
    BY <1>7, <2>4, <2>5
<1>14. CASE AckReset
  <2>1. /\ UNCHANGED pscan /\ pc = "ack_reset" /\ port \in Ports
        /\ chg'[port] = chg[port] \ sc.chg
        /\ \A q \in Ports : q # port => chg'[q] = chg[q]
        /\ sc'.chg = {}
    BY <1>1, <1>14 DEF AckReset, AckSeen, ForgetPortsc, OfPort
  <2>2. \/ pc' = "enum" /\ port' = port /\ "R" \in sc.chg
        \/ pc' = "ports"
    BY <1>1, <1>14 DEF AckReset, NextPort, Goto
  <2>3. \A q : (Due(q)' <=> Due(q))
    BY <1>4, <2>1 DEF Due
  <2>4. PortsOK'
    <3>1. \A q \in Ports : "R" \notin chg'[q]
      BY <1>1, <2>1 DEF HotInv, PortsOK
    <3> QED
      BY <1>2, <2>1, <2>2, <3>1 DEF HotInv, PortsOK
  <2>5. ASSUME NEW q \in Ports
        PROVE  /\ ChangeOK(q) => ChangeOK(q)'
               /\ GoneOK(q) => GoneOK(q)'
               /\ ComeOK(q) => ComeOK(q)'
    <3>1. chg'[q] # {} => chg[q] # {}
      BY <2>1
    <3>2. ChangeOK(q) => ChangeOK(q)'
      BY <1>6, <2>1, <2>2, <2>3, <3>1 DEF ChangeOK, Standing
    <3>3. GoneOK(q) => GoneOK(q)'
      BY <1>4, <2>1, <2>2, <2>3 DEF GoneOK, Standing
    <3>4. ComeOK(q) => ComeOK(q)'
      BY <1>4, <1>6, <2>1, <2>2, <2>3 DEF ComeOK, Standing
    <3> QED
      BY <3>2, <3>3, <3>4
  <2> QED
    BY <1>7, <2>4, <2>5
<1> QED
  BY <1>8, <1>9, <1>10, <1>11, <1>12, <1>13, <1>14 DEF Glance

\* The reset of a port: what is there loses its address, and a scan is due.
LEMMA ResetHot == IInv /\ HotInv /\ ResetPort => HotInv'
<1> SUFFICES ASSUME IInv, HotInv, ResetPort
             PROVE  HotInv'
  OBVIOUS
<1>1. /\ TypeOK /\ TypeOK' /\ port \in Ports /\ pc = "reset" /\ pc' = "read_reset" /\ port' = port
      /\ chg \in [Ports -> SUBSET {"C", "R"}] /\ addr \in [Kbds -> Slots \cup {0}]
      /\ dev_on_root(port) = {}
  BY ResetTypes DEF IInv, TypeOK, KernelTypes, WorldTypes, ResetPort, Goto, OfPort, PortOK, Bare
<1>2. UNCHANGED <<at, hc, cmdq, dev, pscan, sc, wt, wdone, wcc, wslotout, missed, budget, rep, gaveUp>>
  BY DEF ResetPort, waiter, keys, ghosts
<1>3. \/ Here(port) = {} /\ UNCHANGED <<addr, chg, evq>>
      \/ /\ Here(port) # {} /\ PortChange(port, "R", evq)
         /\ \A k \in Kbds : addr'[k] = IF k \in Here(port) THEN 0 ELSE addr[k]
  BY DEF ResetPort, registers
<1>4. Still
  BY <1>1, <1>2, <1>3 DEF Still, PortChange, Waits
<1>5. /\ NoTimeouts' <=> NoTimeouts
      /\ EndpointOK => EndpointOK'
      /\ \A q : dev_on_root(q)' = dev_on_root(q)
  BY <1>1, <1>4, StillHot
<1>6. /\ \A q \in Ports : q # port => chg'[q] = chg[q]
      /\ \A q : Due(q) => Due(q)'
      /\ Here(port) = {} => chg'[port] = chg[port]
      /\ Here(port) # {} => (chg[port] = {} => Due(port)')
  <2>1. CASE Here(port) = {}
    BY <1>2, <1>3, <2>1 DEF Due, Raised
  <2>2. CASE Here(port) # {}
    BY <1>1, <1>2, <1>3, <2>2, ChangeIsDue
  <2> QED
    BY <2>1, <2>2
<1>7. /\ \A k \in Kbds : addr'[k] = addr[k] \/ addr'[k] = 0
      /\ \A q : q # port => \A k \in Here(q) : addr'[k] = addr[k]
  BY <1>1, <1>3 DEF Here
<1>8. PortsOK'
  <2>1. \A q \in Ports : "R" \in chg'[q] => q = port
    BY <1>1, <1>6 DEF HotInv, PortsOK
  <2> QED
    BY <1>1, <1>2, <2>1 DEF HotInv, PortsOK
<1>9. NoTimeouts => AddressOK'
  <2>1. \A n \in DOMAIN cmdq : ~cmdq[n].cur
    BY <1>1 DEF IInv, QueueOK, Waits
  <2> QED
    BY <1>1, <1>2, <1>7, <2>1 DEF HotInv, AddressOK, Lodged
<1>10. ASSUME NoTimeouts
       PROVE  PlugOK'
  <2> SUFFICES ASSUME NEW q \in Ports, ~Missed(q, "raced")
               PROVE  ChangeOK(q)' /\ GoneOK(q)' /\ (~Missed(q, "swapped") => ComeOK(q)')
    BY <1>2 DEF PlugOK, Missed
  <2>1. ChangeOK(q) /\ GoneOK(q) /\ (~Missed(q, "swapped") => ComeOK(q))
    BY <1>10 DEF HotInv, PlugOK
  <2>2. Here(q)' = Here(q)
    BY <1>2 DEF Here
  <2>3. /\ pc' \notin Enumerating \cup {"enum"} /\ ~AddressTaken'
        /\ \A label : Standing(label, q)' => label = "read_reset"
        /\ \A label : Standing(label, q) => label = "reset" /\ q = port
    BY <1>1 DEF Enumerating, AddressTaken, Standing
  <2>4. Here(q) # {} /\ q = port => Due(q)'
    <3>1. ~Standing("read", q) /\ ~Standing("ack", q)
      BY <1>1 DEF Standing
    <3>2. chg[q] = {} \/ Due(q)
      BY <2>1, <3>1 DEF ChangeOK
    <3> QED
      BY <1>1, <1>6, <3>2
  <2>5. ChangeOK(q)'
    <3>1. chg'[q] # {} => Due(q)'
      BY <1>6, <2>1, <2>3, <2>4 DEF ChangeOK
    <3> QED
      BY <2>3, <3>1 DEF ChangeOK
  <2>6. GoneOK(q)'
    BY <1>1, <1>5, <1>6, <2>1, <2>2, <2>3 DEF GoneOK
  <2>7. ASSUME ~Missed(q, "swapped")
        PROVE  ComeOK(q)'
    <3>1. q # port => (Linked(q) => Linked(q)')
      <4>1. dev_on_root(q) \subseteq DevSlots
        BY DEF dev_on_root
      <4> QED
        BY <1>2, <1>5, <1>7, <2>2, <4>1 DEF Linked, Keyboard
    <3>2. Here(q)' # {} /\ dev_on_root(q)' = {} => Due(q)'
      BY <1>6, <2>1, <2>2, <2>3, <2>4, <2>7, <1>5 DEF ComeOK
    <3>3. Here(q)' # {} /\ dev_on_root(q)' # {} => Linked(q)'
      BY <1>1, <1>5, <2>1, <2>2, <2>7, <3>1 DEF ComeOK, Enumerating
    <3>4. pc' \notin {"ack", "unplug", "unplugged"}
      BY <1>1
    <3> QED
      BY <2>3, <3>2, <3>3, <3>4 DEF ComeOK, Standing
  <2> QED
    BY <2>5, <2>6, <2>7
<1> QED
  BY <1>5, <1>8, <1>9, <1>10 DEF HotInv

\* A step that touches only idle and armed pipes, while the kernel waits on.
LEMMA EndpointKept ==
    ASSUME IInv, EndpointOK, UNCHANGED <<pc, cur>>, Executed' <=> Executed,
           pc \in {"configured", "dequeued"} => (Failed' => Failed),
           \A r \in Slots : hc[r].ep \in {"none", "halted", "stopped"} => hc'[r].ep = hc[r].ep,
           \A i \in DevSlots :
              /\ dev'[i].used = dev[i].used /\ dev'[i].slot = dev[i].slot
              /\ dev[i].used /\ dev'[i].need_recover /\ ~(pc = "unplugged" /\ cur = i) =>
                   dev[i].need_recover \/ hc'[dev[i].slot].ep = "halted"
    PROVE  EndpointOK'
<1>1. \A i \in DevSlots : dev[i].used /\ dev[i].need_recover => dev[i].slot \in Slots
  BY DEF IInv, DevOK, WaitOK, Enumerating
<1>2. \A i \in DevSlots :
        dev'[i].used /\ dev'[i].need_recover /\ ~(pc = "unplugged" /\ cur = i) =>
           hc'[dev'[i].slot].ep = "halted"
  BY <1>1 DEF EndpointOK
<1>3. pc \in Waits /\ pc # "enabled" => cur \in DevSlots /\ dev[cur].slot \in Slots
  BY Waiting
<1>4. pc \in Waits /\ pc # "enabled" /\ Endpoint \in {"none", "halted", "stopped"} =>
        Endpoint' = Endpoint
  BY <1>3 DEF Endpoint
<1> QED
  BY <1>2, <1>4 DEF EndpointOK, Waits

\* A report or an error of an armed pipe, on which no command is expected.
LEMMA PipeHot ==
    ASSUME IInv, HotInv, TypeOK', NEW s \in Slots, HcReport(s) \/ HcPipeError(s)
    PROVE  HotInv'
<1>1. /\ UNCHANGED <<at, addr, chg, cmdq, dev, pscan, pc, port, cur, sc, wt, wdone, wcc, wslotout, missed>>
      /\ hc[s].ep = "armed"
  BY DEF HcReport, HcPipeError, Answers, kernel, waiter, keys
<1>2. TypeOK /\ hc \in [Slots -> HcSlot]
  BY DEF IInv, TypeOK, WorldTypes
<1>3. \A r \in Slots : hc'[r].on = hc[r].on /\ (hc[r].ep # "armed" => hc'[r] = hc[r])
  BY <1>1, <1>2 DEF HcReport, HcPipeError, HcSlot
<1>4. PICK e \in Event : e.type = "report" /\ evq' = Append(evq, e)
  <2>1. hc[s].phys \in Kbds \cup {None}
    BY <1>2 DEF HcSlot
  <2>2. /\ hc[s].phys \in Kbds => Content(hc[s].phys) \in SUBSET KeyName
    BY <1>2 DEF Content, KeyName, TypeOK, WorldTypes
  <2>3. CASE HcReport(s)
    <3>1. hc[s].phys \in Kbds
      BY <2>1, <2>3 DEF HcReport, Answers
    <3> QED
      BY <2>2, <2>3, <3>1, EventTypes DEF HcReport, Report
  <2>4. CASE HcPipeError(s)
    BY <2>1, <2>4, EventTypes DEF HcPipeError, Report
  <2> QED
    BY <2>3, <2>4
<1>5. \A how, r : Answer(how, r)' => Answer(how, r)
  BY <1>1, <1>2, <1>4, NoAnswer
<1>6. NoTimeouts' <=> NoTimeouts
  <2>1. budget'.timeouts = budget.timeouts
    BY <1>2 DEF HcReport, HcPipeError, Spend, TypeOK, WorldTypes
  <2> QED
    BY <2>1 DEF NoTimeouts
<1>7. PortsOK'
  BY <1>1 DEF HotInv, PortsOK
<1>8. ASSUME NoTimeouts
      PROVE  AddressOK'
  <2>1. \A x \in Kbds : Lodged(x)'
    <3>1. addr \in [Kbds -> Slots \cup {0}]
      BY DEF IInv, TypeOK, WorldTypes
    <3> QED
      BY <1>1, <1>3, <1>8, <3>1 DEF HotInv, AddressOK, Lodged
  <2> QED
    BY <1>1, <1>5, <1>8, <2>1 DEF HotInv, AddressOK
<1>9. ASSUME NoTimeouts
      PROVE  EndpointOK'
  <2>1. Failed' => Failed
    BY <1>5 DEF Failed
  <2>2. Executed' <=> Executed
    BY <1>1 DEF Executed
  <2>3. \A r \in Slots : hc[r].ep \in {"none", "halted", "stopped"} => hc'[r].ep = hc[r].ep
    BY <1>3
  <2> QED
    BY <1>1, <1>9, <2>1, <2>2, <2>3, EndpointKept DEF HotInv
<1>10. ASSUME NoTimeouts
       PROVE  PlugOK'
  <2> SUFFICES ASSUME NEW q \in Ports, ~Missed(q, "raced")
               PROVE  ChangeOK(q)' /\ GoneOK(q)' /\ (~Missed(q, "swapped") => ComeOK(q)')
    BY <1>1 DEF PlugOK, Missed
  <2>1. ChangeOK(q) /\ GoneOK(q) /\ (~Missed(q, "swapped") => ComeOK(q))
    BY <1>10 DEF HotInv, PlugOK
  <2>2. /\ Here(q)' = Here(q) /\ \A x \in Here(q) : addr'[x] = addr[x]
        /\ AddressTaken' => AddressTaken
    BY <1>1, <1>5 DEF Here, AddressTaken
  <2>3. Due(q) => Due(q)'
    BY <1>1, <1>2, <1>4, DueKept
  <2> QED
    BY <1>1, <2>1, <2>2, <2>3, Unmoved
<1> QED
  BY <1>6, <1>7, <1>8, <1>9, <1>10 DEF HotInv

\* An event is handled: a port event becomes a scan that is noted.
LEMMA EventHot == IInv /\ HotInv /\ handle_event => HotInv'
<1> SUFFICES ASSUME IInv, HotInv, handle_event
             PROVE  HotInv'
  OBVIOUS
<1>1. TypeOK /\ TypeOK' /\ hc \in [Slots -> HcSlot] /\ addr \in [Kbds -> Slots \cup {0}]
  BY EventTypeOK DEF IInv, TypeOK, WorldTypes
<1>2. /\ UNCHANGED <<at, addr, chg, cmdq, budget, pc, port, cur, sc, missed>>
      /\ evq # <<>> /\ evq' = Tail(evq)
  BY EventEffect DEF handle_event, ghosts
<1>3. /\ Len(evq) \in Nat \ {0}
      /\ DOMAIN evq = 1 .. Len(evq) /\ DOMAIN evq' = 1 .. Len(evq) - 1
      /\ \A n \in DOMAIN evq' : evq'[n] = evq[n + 1]
      /\ Head(evq) = evq[1]
  BY <1>1, <1>2, Handled
<1>4. /\ \A d \in DevSlots :
           /\ dev'[d].used = dev[d].used /\ dev'[d].slot = dev[d].slot
           /\ dev'[d].rootport = dev[d].rootport /\ dev'[d].is_kbd = dev[d].is_kbd
      /\ \A s \in Slots : hc'[s].on = hc[s].on
  BY EventEffect
<1>5. pc # "described" => \A how, s : Answer(how, s)' <=> Answer(how, s)
  BY <1>1, HandledAnswers
<1>6. NoTimeouts' <=> NoTimeouts
  BY <1>2 DEF NoTimeouts
<1>7. \A q : Due(q) => Due(q)'
  <2>1. pscan \subseteq pscan' /\ (Head(evq).type = "port" => Head(evq).port \in pscan')
    BY DEF handle_event, OnReport, OnCompletion, OnPort
  <2>2. ASSUME NEW q, NEW n \in DOMAIN evq, evq[n].type = "port", evq[n].port = q
        PROVE  Due(q)'
    <3>1. CASE n = 1
      BY <1>3, <2>1, <2>2, <3>1 DEF Due
    <3>2. CASE n # 1
      <4>1. n - 1 \in DOMAIN evq' /\ evq'[n - 1] = evq[n]
        BY <1>3, <3>2
      <4> QED
        BY <2>2, <4>1 DEF Due, Raised
    <3> QED
      BY <3>1, <3>2
  <2> QED
    BY <2>1, <2>2 DEF Due, Raised
<1>8. PortsOK'
  <2>1. pc = "unplugged" => cur \in DevSlots
    BY Waiting DEF Waits
  <2> QED
    BY <1>2, <1>4, <2>1 DEF HotInv, PortsOK
<1>9. ASSUME NoTimeouts
      PROVE  AddressOK'
  <2>1. \A x \in Kbds : Lodged(x)'
    BY <1>1, <1>2, <1>4, <1>9 DEF HotInv, AddressOK, Lodged
  <2> QED
    BY <1>2, <1>5, <1>9, <2>1 DEF HotInv, AddressOK
<1>10. ASSUME NoTimeouts
       PROVE  EndpointOK'
  <2>1. pc \in {"configured", "dequeued"} => (Failed' <=> Failed)
    BY <1>5 DEF Failed
  <2>2. Executed' <=> Executed
    BY <1>2 DEF Executed
  <2> DEFINE Calm == \A r \in Slots :
               hc[r].ep \in {"none", "halted", "stopped"} => hc'[r].ep = hc[r].ep
             Told == \A i \in DevSlots : dev'[i].need_recover =>
               \/ dev[i].need_recover
               \/ /\ hc' = hc /\ Keyboard(i)
                  /\ evq[1].type = "report" /\ evq[1].slot = dev[i].slot /\ evq[1].cc = "error"
  <2>3. Calm /\ Told
    <3>1. CASE dev' = dev /\ hc' = hc
      BY <3>1
    <3>2. ASSUME NEW d \in dev_by_slot(evq[1].slot), evq[1].type = "report", dev[d].is_kbd,
                 \A x \in DevSlots : x # d => dev'[x] = dev[x],
                 dev[d].slot \in Slots, dev'[d].need_recover = dev[d].need_recover,
                 hc' = Armed(hc, dev[d].slot)
          PROVE  Calm /\ Told
      <4>1. \A i \in DevSlots : dev'[i].need_recover = dev[i].need_recover
        BY <3>2
      <4>2. \A r \in Slots : hc[r].ep # "idle" => hc'[r].ep = hc[r].ep
        BY <1>1, <3>2, ArmedFacts
      <4> QED
        BY <4>1, <4>2
    <3>3. ASSUME NEW d \in dev_by_slot(evq[1].slot), evq[1].type = "report", dev[d].is_kbd,
                 \A x \in DevSlots : x # d => dev'[x] = dev[x],
                 evq[1].cc = "error", hc' = hc
          PROVE  Calm /\ Told
      BY <3>3 DEF dev_by_slot, Keyboard
    <3> QED
      BY <1>3, <3>1, <3>2, <3>3, EventEffect
  <2>4. ASSUME NEW i \in DevSlots, Keyboard(i), ~(pc = "unplugged" /\ cur = i),
               evq[1].type = "report", evq[1].slot = dev[i].slot, evq[1].cc = "error",
               ~dev[i].need_recover
        PROVE  hc[dev[i].slot].ep = "halted"
    <3>1. 1 \in ReportsOf(dev[i].slot)
      BY <1>3, <2>4 DEF ReportsOf
    <3>2. PipeState(i)
      BY <2>4 DEF IInv, PipeOK
    <3> QED
      BY <2>4, <3>1, <3>2 DEF PipeState
  <2> QED
    BY <1>2, <1>4, <1>10, <2>1, <2>2, <2>3, <2>4, EndpointKept DEF HotInv
<1>11. ASSUME NoTimeouts
       PROVE  PlugOK'
  <2> SUFFICES ASSUME NEW q \in Ports, ~Missed(q, "raced")
               PROVE  ChangeOK(q)' /\ GoneOK(q)' /\ (~Missed(q, "swapped") => ComeOK(q)')
    BY <1>2 DEF PlugOK, Missed
  <2>1. ChangeOK(q) /\ GoneOK(q) /\ (~Missed(q, "swapped") => ComeOK(q))
    BY <1>11 DEF HotInv, PlugOK
  <2>2. /\ Here(q)' = Here(q) /\ \A x \in Here(q) : addr'[x] = addr[x]
        /\ AddressTaken' => AddressTaken
    BY <1>2, <1>5 DEF Here, AddressTaken
  <2> QED
    BY <1>2, <1>4, <1>7, <2>1, <2>2, Unmoved
<1> QED
  BY <1>6, <1>8, <1>9, <1>10, <1>11 DEF HotInv

\* What a command that runs does to the addresses and to the slot it names,
\* and how it ends (e).
Does(c, e) ==
    /\ c.op # "address" => \A k \in Kbds :
         addr'[k] = IF c.op = "disable" /\ addr[k] = c.slot THEN 0 ELSE addr[k]
    /\ c.op = "control" => hc' = hc
    /\ c.op = "enable" =>
         \/ hc' = hc /\ e.cc = "error"
         \/ /\ e.cc = "ok" /\ e.slot \in FreeSlots /\ hc'[e.slot].on
            /\ \A r \in Slots : r # e.slot => hc'[r] = hc[r]
    /\ c.op = "address" =>
         /\ \A r \in Slots : hc'[r].on = hc[r].on /\ hc'[r].ep = hc[r].ep
         /\ \/ addr' = addr /\ e.cc = "error"
            \/ /\ e.cc = "ok" /\ hc[c.slot].on
               /\ \E k \in Here(c.port) : addr' = [addr EXCEPT ![k] = c.slot]
    /\ c.op \in {"configure", "reset", "setdeq"} =>
         /\ \A r \in Slots : hc'[r].on = hc[r].on /\ (r # c.slot => hc'[r] = hc[r])
         /\ c.slot \in Slots /\ hc[c.slot].on =>
              /\ c.op = "configure" /\ hc[c.slot].ep = "none" =>
                   hc'[c.slot].ep = "idle" /\ e.cc = "ok"
              /\ c.op = "reset" /\ hc[c.slot].ep = "halted" => hc'[c.slot].ep = "stopped"
              /\ c.op = "setdeq" /\ hc[c.slot].ep = "stopped" =>
                   hc'[c.slot].ep = "idle" /\ e.cc = "ok"
    /\ c.op = "disable" => \A r \in Slots : r # c.slot => hc'[r] = hc[r]

\* The command that HcCommand runs does what it is to do.
LEMMA CommandDoes ==
    ASSUME IInv, HcCommand
    PROVE  \E i \in DOMAIN cmdq, e \in Event :
              /\ Runs(i, e) /\ Does(cmdq[i], e)
              /\ UNCHANGED <<at, chg, pscan, sc, missed>>
<1>1. PICK i \in DOMAIN cmdq :
        /\ cmdq[i].op = "control" \/ \A j \in 1..(i - 1) : cmdq[j].op = "control"
        /\ \/ cmdq[i].op = "enable" /\ Enable(cmdq[i])
           \/ cmdq[i].op = "address" /\ AddressDevice(cmdq[i])
           \/ cmdq[i].op = "configure" /\ Pipe(cmdq[i], {"none"}, "idle")
           \/ cmdq[i].op = "reset" /\ Pipe(cmdq[i], {"halted"}, "stopped")
           \/ cmdq[i].op = "setdeq" /\ Pipe(cmdq[i], {"stopped"}, "idle")
           \/ cmdq[i].op = "disable" /\ DisableSlot(cmdq[i])
           \/ cmdq[i].op = "control" /\ ControlTransfer(cmdq[i])
        /\ cmdq' = RemoveAt(cmdq, i)
  BY DEF HcCommand
<1>2. TypeOK /\ hc \in [Slots -> HcSlot] /\ addr \in [Kbds -> Slots \cup {0}]
  BY DEF IInv, TypeOK, WorldTypes
<1>3. PICK e \in Event : Executes(cmdq[i], e)
  BY <1>1, <1>2, Execution
<1>4. /\ UNCHANGED <<at, chg, pscan, sc, missed>>
      /\ UNCHANGED <<dev, wt, wdone, wcc, wslotout, rep, gaveUp, pc, port, cur, budget>>
  BY DEF HcCommand, kernel, waiter, keys
<1>5. Runs(i, e)
  BY <1>1, <1>3, <1>4 DEF Runs
<1> DEFINE c == cmdq[i]
<1>6. c \in Command /\ c.slot \in Slots \cup {0} /\ c.op \in Op
  <2>1. c \in Command
    BY <1>2 DEF TypeOK, KernelTypes
  <2> QED
    BY <2>1 DEF Command
<1>7. \A f \in Event : evq' = Append(evq, f) => e = f
  BY <1>2, <1>3, Appended DEF Executes
<1>8. \A how \in {"ok", "error"}, s \in Slots \cup {0} :
        evq' = Append(evq, CmdDone(c, how, s)) => e.cc = how /\ e.slot = s
  <2>1. \A how, s : CmdDone(c, how, s).cc = how /\ CmdDone(c, how, s).slot = s
    BY DEF CmdDone
  <2>2. \A how \in {"ok", "error"}, s \in Slots \cup {0} : CmdDone(c, how, s) \in Event
    BY <1>6, EventTypes
  <2> QED
    BY <1>7, <2>1, <2>2
<1> SUFFICES Does(c, e)
  BY <1>4, <1>5
<1> HIDE DEF c
<1>9. CASE c.op = "enable" /\ Enable(c)
  <2>1. CASE FreeSlots = {}
    BY <1>8, <1>9, <2>1 DEF Does, Enable
  <2>2. CASE FreeSlots # {}
    <3>1. PICK s \in FreeSlots : s = Min(FreeSlots)
      BY <2>2, Least, UsbAssumption DEF FreeSlots, UsbAssumption
    <3>2. /\ hc' = [hc EXCEPT ![s] = [FreeSlot EXCEPT !.on = TRUE]]
          /\ evq' = Append(evq, CmdDone(c, "ok", s)) /\ UNCHANGED addr
      BY <1>9, <2>2, <3>1 DEF Enable
    <3>3. s \in Slots
      BY <3>1 DEF FreeSlots
    <3>4. e.cc = "ok" /\ e.slot = s
      BY <1>8, <3>2, <3>3
    <3>5. hc'[s].on /\ \A r \in Slots : r # s => hc'[r] = hc[r]
      BY <1>2, <3>2, <3>3 DEF FreeSlot
    <3> QED
      BY <1>9, <3>1, <3>2, <3>4, <3>5 DEF Does
  <2> QED
    BY <2>1, <2>2
<1>10. CASE c.op = "address" /\ AddressDevice(c)
  <2>1. CASE Here(c.port) # {} /\ enabled[c.port] /\ hc[c.slot].on
    <3>1. PICK k \in Here(c.port) : /\ hc' = [hc EXCEPT ![c.slot].phys = k]
                                    /\ addr' = [addr EXCEPT ![k] = c.slot]
                                    /\ evq' = Append(evq, CmdDone(c, "ok", 0))
      BY <1>10, <2>1 DEF AddressDevice
    <3>2. \A r \in Slots : hc'[r].on = hc[r].on /\ hc'[r].ep = hc[r].ep
      BY <1>2, <3>1 DEF HcSlot
    <3>3. e.cc = "ok"
      BY <1>8, <3>1
    <3> QED
      BY <1>10, <2>1, <3>1, <3>2, <3>3 DEF Does
  <2>2. CASE ~(Here(c.port) # {} /\ enabled[c.port] /\ hc[c.slot].on)
    BY <1>8, <1>10, <2>2 DEF Does, AddressDevice
  <2> QED
    BY <2>1, <2>2
<1>11. ASSUME NEW from, NEW to, Pipe(c, from, to)
       PROVE  /\ addr' = addr
              /\ \A r \in Slots : hc'[r].on = hc[r].on /\ (r # c.slot => hc'[r] = hc[r])
              /\ c.slot \in Slots /\ hc[c.slot].on /\ hc[c.slot].ep \in from =>
                   hc'[c.slot].ep = to /\ e.cc = "ok"
  <2>1. CASE hc[c.slot].on /\ hc[c.slot].ep \in from
    <3>1. /\ hc' = [hc EXCEPT ![c.slot].ep = to] /\ addr' = addr
          /\ evq' = Append(evq, CmdDone(c, "ok", 0))
      BY <1>11, <2>1 DEF Pipe
    <3>2. e.cc = "ok"
      BY <1>8, <3>1
    <3> QED
      BY <1>2, <3>1, <3>2 DEF HcSlot
  <2>2. CASE ~(hc[c.slot].on /\ hc[c.slot].ep \in from)
    BY <1>11, <2>2 DEF Pipe
  <2> QED
    BY <2>1, <2>2
<1>12. CASE \/ c.op = "configure" /\ Pipe(c, {"none"}, "idle")
            \/ c.op = "reset" /\ Pipe(c, {"halted"}, "stopped")
            \/ c.op = "setdeq" /\ Pipe(c, {"stopped"}, "idle")
  BY <1>11, <1>12 DEF Does
<1>13. CASE c.op = "disable" /\ DisableSlot(c)
  BY <1>2, <1>13 DEF Does, DisableSlot
<1>14. CASE c.op = "control" /\ ControlTransfer(c)
  BY <1>14 DEF Does, ControlTransfer
<1> QED
  BY <1>1, <1>9, <1>10, <1>12, <1>13, <1>14 DEF c

\* What a command leaves is what the driver saw before, but for the addresses

\* of keyboards it names.
LEMMA CommandPlug ==
    ASSUME IInv, PlugOK, TypeOK', NEW i, NEW e, Runs(i, e), UNCHANGED <<at, chg, pscan, sc, missed>>,
           NEW q \in Ports, \A k \in Here(q) : addr'[k] = addr[k],
           AddressTaken' /\ port = q => AddressTaken
    PROVE  ~Missed(q, "raced")' =>
              ChangeOK(q)' /\ GoneOK(q)' /\ (~Missed(q, "swapped")' => ComeOK(q)')
<1>1. UNCHANGED <<dev, pc, port, cur>> /\ evq' = Append(evq, e) /\ e \in Event /\ TypeOK
  BY DEF Runs, Executes, IInv
<1>2. Due(q) => Due(q)'
  BY <1>1, DueKept
<1>3. Here(q)' = Here(q)
  BY DEF Here
<1>4. ~Missed(q, "raced") => ChangeOK(q) /\ GoneOK(q) /\ (~Missed(q, "swapped") => ComeOK(q))
  BY DEF PlugOK
<1>5. \A why : Missed(q, why)' <=> Missed(q, why)
  BY DEF Missed
<1> QED
  BY <1>1, <1>2, <1>3, <1>4, <1>5, Unmoved

\* A control transfer touches no address and no pipe.
LEMMA ControlHot ==
    ASSUME IInv, HotInv, NoTimeouts, TypeOK', NEW i, NEW e, Runs(i, e), Does(cmdq[i], e),
           UNCHANGED <<at, chg, pscan, sc, missed>>, cmdq[i].op = "control"
    PROVE  AddressOK' /\ EndpointOK' /\ PlugOK'
<1>1. /\ UNCHANGED <<dev, wt, wdone, wcc, wslotout, pc, port, cur, hc>>
      /\ evq' = Append(evq, e) /\ e \in Event /\ e.type = "control"
      /\ i \in DOMAIN cmdq /\ TypeOK /\ addr \in [Kbds -> Slots \cup {0}]
  BY DEF Runs, Executes, IInv, TypeOK, WorldTypes
<1>2. \A k \in Kbds : addr'[k] = addr[k]
  BY DEF Does
<1>3. \A how, s : Answer(how, s)' => Answer(how, s)
  BY <1>1, NoAnswer
<1>4. /\ \A n \in DOMAIN cmdq' : \E m \in DOMAIN cmdq : cmdq'[n] = cmdq[m]
      /\ \A m \in DOMAIN cmdq : m # i => \E n \in DOMAIN cmdq' : cmdq'[n] = cmdq[m]
  BY CommandsLeft
<1>5. AddressOK'
  <2>1. \A x \in Kbds : Lodged(x)'
    BY <1>1, <1>2 DEF HotInv, AddressOK, Lodged
  <2> QED
    BY <1>1, <1>2, <1>3, <1>4, <2>1 DEF HotInv, AddressOK
<1>6. CASE pc = "described"
  <2>1. EndpointOK'
    BY <1>1, <1>6 DEF HotInv, EndpointOK, Endpoint
  <2>2. \A q \in Ports : AddressTaken' => AddressTaken
    BY <1>6 DEF AddressTaken
  <2> QED
    BY <1>2, <1>5, <2>1, <2>2, CommandPlug DEF HotInv, PlugOK, Here
<1>7. CASE pc # "described"
  <2>1. Executed' <=> Executed
    <3>1. pc \notin Waits \/ OpOf[pc] # "control"
      BY <1>7 DEF OpOf, Waits
    <3>2. ~cmdq[i].cur
      BY <1>1, <3>1 DEF IInv, QueueOK
    <3> QED
      BY <1>1, <1>4, <3>2 DEF Executed
  <2>2. Failed' => Failed
    BY <1>3 DEF Failed
  <2>3. EndpointOK'
    BY <1>1, <2>1, <2>2, EndpointKept DEF HotInv
  <2>4. AddressTaken' => AddressTaken
    BY <1>1, <1>3 DEF AddressTaken
  <2> QED
    BY <1>2, <1>5, <2>3, <2>4, CommandPlug DEF HotInv, PlugOK, Here
<1> QED
  BY <1>6, <1>7

\* The command waited for is executed, as it is expected to be.
LEMMA CurrentHot ==
    ASSUME IInv, HotInv, NoTimeouts, TypeOK', NEW i, NEW e, Runs(i, e), Does(cmdq[i], e),
           UNCHANGED <<at, chg, pscan, sc, missed>>, cmdq[i].op # "control", cmdq[i].cur
    PROVE  AddressOK' /\ EndpointOK' /\ PlugOK'
<1> DEFINE c == cmdq[i]
<1>1. /\ UNCHANGED <<dev, wt, wdone, wcc, wslotout, pc, port, cur>>
      /\ evq' = Append(evq, e) /\ e \in Event /\ e.type = "command" /\ e.for = c
      /\ i \in DOMAIN cmdq /\ TypeOK /\ addr \in [Kbds -> Slots \cup {0}]
      /\ hc \in [Slots -> HcSlot] /\ 0 \notin Slots /\ at \in [Kbds -> Ports \cup {0}]
      /\ dev \in [DevSlots -> Device]
  BY UsbAssumption DEF Runs, Executes, IInv, TypeOK, WorldTypes, KernelTypes, UsbAssumption
<1>2. /\ pc \in Waits /\ c.op = OpOf[pc] /\ i = Len(cmdq)
      /\ c.op # "enable" => c.slot = dev[cur].slot /\ c.slot \in Slots
      /\ cur \in DevSlots /\ dev[cur].used
  BY <1>1, Waiting DEF IInv, QueueOK
<1>3. pc # "described" /\ ~wdone /\ wt = "command"
  BY <1>1, <1>2 DEF IInv, QueueOK, WaitOK, OpOf, Waits
<1>4. /\ c.op = "enable" <=> pc = "enabled"
      /\ c.op = "address" <=> pc = "addressed"
      /\ c.op = "configure" <=> pc = "configured"
      /\ c.op = "reset" <=> pc = "pipe_reset"
      /\ c.op = "setdeq" <=> pc = "dequeued"
      /\ c.op = "disable" <=> pc \in Dropping
  BY <1>2 DEF OpOf, Waits, Dropping
<1>5. \A how, s : Answer(how, s)' => how = e.cc /\ s = e.slot
  <2>1. \A n \in DOMAIN evq : ~Done(n)
    BY <1>1 DEF IInv, QueueOK, Executed
  <2>2. ASSUME NEW n \in DOMAIN evq', Done(n)'
        PROVE  evq'[n] = e
    <3>1. n \in DOMAIN evq \/ n = Len(evq) + 1
      BY <1>1, Appended
    <3> QED
      BY <1>1, <2>1, <2>2, <3>1, Appended DEF Done
  <2> QED
    BY <1>1, <1>3, <2>2 DEF Answer, Done
<1>6. ~Executed /\ Executed' /\ \A n \in DOMAIN cmdq' : ~cmdq'[n].cur
  <2>1. \A m \in DOMAIN cmdq : m # i => ~cmdq[m].cur
    BY <1>2 DEF IInv, QueueOK
  <2> QED
    BY <1>1, <2>1, CommandsLeft DEF Executed
<1>7. \A d \in DevSlots : dev[d].used /\ d # cur => dev[d].slot \in Slots /\ dev[d].slot # dev[cur].slot
  BY <1>2 DEF IInv, DevOK
<1>8. \A d \in DevSlots : dev[d].used /\ dev[d].need_recover /\ ~(pc = "unplugged" /\ cur = d) =>
        d # cur /\ hc[dev[d].slot].ep = "halted" /\ hc[dev[d].slot].on
  <2>1. ASSUME dev[cur].need_recover, pc # "unplugged"
        PROVE  FALSE
    <3>1. Keyboard(cur)
      BY <1>2, <2>1 DEF Keyboard, IInv, DevOK
    <3>2. pc \in {"pipe_reset", "dequeued"}
      BY <1>2, <2>1, <3>1 DEF Keyboard, IInv, WaitOK, Waits, Enumerating
    <3>3. PipeState(cur)
      BY <1>2, <2>1, <3>1 DEF IInv, PipeOK
    <3> QED
      BY <2>1, <3>2, <3>3 DEF PipeState, Recovering
  <2>2. \A d \in DevSlots : dev[d].used /\ d # cur => hc[dev[d].slot].on
    BY <1>1, <1>7 DEF IInv, DevOK
  <2> QED
    BY <2>1, <2>2 DEF HotInv, EndpointOK
<1>9. ASSUME \A k \in Kbds : Lodged(k)',
             pc = "enabled" =>
               \A s \in Slots \cup {0} : Answer("ok", s)' => \A k \in Kbds : addr'[k] # s
      PROVE  AddressOK'
  BY <1>1, <1>6, <1>9 DEF AddressOK
<1>10. CASE c.op = "enable"
  <2>1. pc = "enabled" /\ \A k \in Kbds : addr'[k] = addr[k]
    BY <1>4, <1>10 DEF Does
  <2>2. /\ \A r \in Slots : hc[r].on => hc'[r] = hc[r]
        /\ e.cc = "ok" => e.slot \in Slots /\ ~hc[e.slot].on
    BY <1>10 DEF Does, FreeSlots
  <2>3. AddressOK'
    <3>1. \A k \in Kbds : Lodged(k)'
      BY <1>1, <2>1, <2>2 DEF HotInv, AddressOK, Lodged
    <3>2. e.cc = "ok" => \A k \in Kbds : addr'[k] # e.slot
      BY <1>1, <2>1, <2>2 DEF HotInv, AddressOK, Lodged
    <3> QED
      BY <1>5, <1>9, <3>1, <3>2
  <2>4. EndpointOK'
    BY <1>1, <1>7, <1>8, <2>1, <2>2 DEF EndpointOK
  <2>5. ~AddressTaken'
    BY <1>1, <2>1 DEF AddressTaken
  <2> QED
    BY <2>1, <2>3, <2>4, <2>5, CommandPlug DEF HotInv, PlugOK, Here
<1>11. CASE c.op = "address"
  <2>1. /\ pc = "addressed" /\ c.slot = dev[cur].slot /\ c.slot \in Slots /\ c.port = port
        /\ dev[cur].rootport = port /\ port \in Ports
    BY <1>1, <1>2, <1>4, <1>11, Waiting DEF HotInv, AddressOK, IInv, WaitOK, Enumerating
  <2>2. \A r \in Slots : hc'[r].on = hc[r].on /\ hc'[r].ep = hc[r].ep
    BY <1>11 DEF Does
  <2>3. EndpointOK'
    BY <1>1, <1>2, <1>7, <1>8, <2>1, <2>2 DEF HotInv, EndpointOK, Endpoint
  <2>4. CASE addr' = addr /\ e.cc = "error"
    <3>1. \A k \in Kbds : Lodged(k)'
      BY <1>1, <2>2, <2>4 DEF HotInv, AddressOK, Lodged
    <3>2. ~AddressTaken'
      BY <1>1, <1>5, <2>1, <2>4 DEF AddressTaken
    <3> QED
      BY <1>9, <2>1, <2>3, <2>4, <3>1, <3>2, CommandPlug DEF HotInv, PlugOK
  <2>5. ASSUME NEW k \in Here(port), addr' = [addr EXCEPT ![k] = c.slot], hc[c.slot].on
        PROVE  AddressOK' /\ PlugOK'
    <3>1. /\ k \in Kbds /\ at[k] = port /\ addr'[k] = c.slot
          /\ \A x \in Kbds : x # k => addr'[x] = addr[x]
      BY <1>1, <2>5 DEF Here
    <3>2. \A x \in Kbds : Lodged(x)'
      BY <1>1, <1>7, <2>1, <2>2, <2>5, <3>1 DEF HotInv, AddressOK, Lodged
    <3>3. ASSUME NEW q \in Ports, ~Missed(q, "raced")'
          PROVE  ChangeOK(q)' /\ GoneOK(q)' /\ (~Missed(q, "swapped")' => ComeOK(q)')
      <4>1. CASE q # port
        <5>1. \A x \in Here(q) : addr'[x] = addr[x]
          BY <3>1, <4>1 DEF Here
        <5> QED
          BY <3>3, <4>1, <5>1, CommandPlug DEF HotInv
      <4>2. CASE q = port
        <5>1. ChangeOK(q)
          BY <3>3 DEF HotInv, PlugOK, Missed
        <5>2. Due(q)
          BY <2>1, <4>2, <5>1 DEF ChangeOK, Enumerating
        <5>3. Due(q)'
          BY <1>1, <5>2, DueKept
        <5>4. ChangeOK(q)' /\ GoneOK(q)'
          BY <5>3 DEF ChangeOK, GoneOK
        <5>5. Here(q)' = {k}
          BY <1>1, <2>1, <3>1, <4>2, UsbAssumption DEF HotInv, PortsOK, Here, UsbAssumption
        <5>6. ComeOK(q)'
          BY <1>1, <2>1, <3>1, <4>2, <5>3, <5>5 DEF ComeOK, Enumerating, Standing
        <5> QED
          BY <5>4, <5>6
      <4> QED
        BY <4>1, <4>2
    <3> QED
      BY <1>9, <2>1, <3>2, <3>3 DEF PlugOK
  <2> QED
    BY <1>11, <2>1, <2>3, <2>4, <2>5 DEF Does
<1>12. CASE c.op \in {"configure", "reset", "setdeq"}
  <2>1. /\ \A r \in Slots : hc'[r].on = hc[r].on /\ (r # dev[cur].slot => hc'[r] = hc[r])
        /\ \A k \in Kbds : addr'[k] = addr[k]
        /\ dev[cur].slot \in Slots /\ c.slot = dev[cur].slot
    BY <1>2, <1>12 DEF Does
  <2>2. hc[c.slot].on
    BY <1>1, <1>2, <1>4, <1>12, <2>1 DEF IInv, DevOK, Dropping
  <2>3. /\ c.op = "configure" => hc'[c.slot].ep = "idle" /\ e.cc = "ok"
        /\ c.op = "reset" => hc'[c.slot].ep = "stopped"
        /\ c.op = "setdeq" => hc'[c.slot].ep = "idle" /\ e.cc = "ok"
    BY <1>4, <1>6, <2>1, <2>2 DEF Does, HotInv, EndpointOK, Endpoint
  <2>4. AddressOK'
    <3>1. \A k \in Kbds : Lodged(k)'
      BY <1>1, <2>1 DEF HotInv, AddressOK, Lodged
    <3> QED
      BY <1>4, <1>9, <1>12, <3>1
  <2>5. EndpointOK'
    <3>1. ~(pc \in {"configured", "dequeued"} /\ Failed')
      BY <1>4, <1>5, <2>3 DEF Failed
    <3>2. \A d \in DevSlots : dev[d].used /\ dev[d].need_recover /\ ~(pc = "unplugged" /\ cur = d) =>
            hc'[dev[d].slot].ep = "halted"
      BY <1>7, <1>8, <2>1
    <3> QED
      BY <1>1, <1>4, <1>6, <1>12, <2>1, <2>3, <3>1, <3>2 DEF EndpointOK, Endpoint
  <2>6. AddressTaken' => AddressTaken
    BY <1>1, <1>4, <1>12 DEF AddressTaken
  <2> QED
    BY <2>1, <2>4, <2>5, <2>6, CommandPlug DEF HotInv, PlugOK, Here
<1>13. CASE c.op = "disable"
  <2>1. /\ \A r \in Slots : r # dev[cur].slot => hc'[r] = hc[r]
        /\ \A k \in Kbds : addr'[k] = IF addr[k] = dev[cur].slot THEN 0 ELSE addr[k]
        /\ pc \in {"enum_dropped", "unplugged"} /\ dev[cur].slot \in Slots
        /\ port \in Ports
    BY <1>2, <1>4, <1>13, Waiting DEF Does, Dropping, Enumerating
  <2>2. dev[cur].rootport = port
    BY <2>1 DEF HotInv, PortsOK, IInv, WaitOK, Enumerating
  <2>3. AddressOK'
    <3>1. \A k \in Kbds : Lodged(k)'
      BY <1>1, <2>1 DEF HotInv, AddressOK, Lodged
    <3> QED
      BY <1>9, <2>1, <3>1
  <2>4. EndpointOK'
    BY <1>1, <1>7, <1>8, <2>1 DEF EndpointOK
  <2>5. ~AddressTaken'
    BY <1>1, <2>1 DEF AddressTaken
  <2>6. ASSUME NEW q \in Ports, ~Missed(q, "raced")'
        PROVE  ChangeOK(q)' /\ GoneOK(q)' /\ (~Missed(q, "swapped")' => ComeOK(q)')
    <3>1. CASE \A x \in Here(q) : addr'[x] = addr[x]
      BY <2>5, <2>6, <3>1, CommandPlug DEF HotInv
    <3>2. ASSUME NEW x \in Here(q), addr'[x] # addr[x]
          PROVE  ChangeOK(q)' /\ GoneOK(q)' /\ (~Missed(q, "swapped")' => ComeOK(q)')
      <4>1. q = port /\ cur \in dev_on_root(q)
        BY <1>1, <1>2, <2>1, <2>2, <3>2 DEF HotInv, AddressOK, Lodged, Here, dev_on_root
      <4>2. ChangeOK(q) /\ (~Missed(q, "swapped") => ComeOK(q))
        BY <2>6 DEF HotInv, PlugOK, Missed
      <4>3. CASE pc = "unplugged"
        <5>1. Missed(q, "swapped")
          BY <3>2, <4>1, <4>2, <4>3 DEF ComeOK
        <5>2. ChangeOK(q)'
          <6>1. Due(q) => Due(q)'
            BY <1>1, DueKept
          <6> QED
            BY <1>1, <4>2, <4>3, <6>1 DEF ChangeOK, Standing
        <5>3. GoneOK(q)'
          BY <3>2 DEF GoneOK, Here
        <5> QED
          BY <5>1, <5>2, <5>3 DEF Missed
      <4>4. CASE pc = "enum_dropped"
        <5>1. Due(q)'
          <6>1. Due(q)
            BY <4>1, <4>2, <4>4 DEF ChangeOK, Enumerating
          <6> QED
            BY <1>1, <6>1, DueKept
        <5>2. ChangeOK(q)' /\ GoneOK(q)'
          BY <5>1 DEF ChangeOK, GoneOK
        <5>3. ComeOK(q)'
          BY <1>1, <2>5, <4>1, <4>4, <5>1 DEF ComeOK, Enumerating, Standing
        <5> QED
          BY <5>2, <5>3
      <4> QED
        BY <2>1, <4>3, <4>4
    <3> QED
      BY <3>1, <3>2
  <2> QED
    BY <2>3, <2>4, <2>6 DEF PlugOK
<1> QED
  BY <1>2, <1>3, <1>10, <1>11, <1>12, <1>13 DEF OpOf, Waits

\* A command is executed.
LEMMA CommandHot == IInv /\ HotInv /\ HcCommand => HotInv'
<1> SUFFICES ASSUME IInv, HotInv, HcCommand
             PROVE  HotInv'
  OBVIOUS
<1>1. TypeOK'
  BY CommandTypes DEF IInv
<1>2. PICK i \in DOMAIN cmdq, e \in Event :
        Runs(i, e) /\ Does(cmdq[i], e) /\ UNCHANGED <<at, chg, pscan, sc, missed>>
  BY CommandDoes
<1>3. UNCHANGED <<dev, pc, port, cur>> /\ (NoTimeouts' <=> NoTimeouts)
  BY <1>2 DEF Runs, NoTimeouts
<1>4. PortsOK'
  BY <1>2, <1>3 DEF HotInv, PortsOK
<1>5. NoTimeouts /\ cmdq[i].op # "control" => cmdq[i].cur
  BY <1>2 DEF IInv, SlotOK
<1> QED
  BY <1>1, <1>2, <1>3, <1>4, <1>5, ControlHot, CurrentHot DEF HotInv

\* A port the kernel has no business with while it waits.
LEMMA Elsewhere ==
    ASSUME NEW q \in Ports, UNCHANGED <<at, addr, chg, pscan, evq>>,
           pc \in Waits \cup {"enum", "unplug", "recover"},
           pc' \in Waits \cup {"ports", "recover", "repeat", "unplug"},
           port = q => pc \in {"recover", "pipe_reset", "dequeued"},
           port' = q => pc' \in {"ports", "recover", "repeat", "pipe_reset", "dequeued"},
           dev_on_root(q)' = dev_on_root(q),
           \A d \in dev_on_root(q) : dev'[d].used = dev[d].used /\ dev'[d].slot = dev[d].slot
                                     /\ dev'[d].is_kbd = dev[d].is_kbd
    PROVE  /\ ChangeOK(q) => ChangeOK(q)'
           /\ GoneOK(q) => GoneOK(q)'
           /\ ComeOK(q) => ComeOK(q)'
<1>1. Here(q)' = Here(q) /\ (Due(q)' <=> Due(q)) /\ (Linked(q)' <=> Linked(q))
  BY DEF Here, Due, Raised, Linked, Keyboard
<1>2. ChangeOK(q) => ChangeOK(q)'
  BY <1>1 DEF ChangeOK, Standing, Waits, Enumerating
<1>3. GoneOK(q) => GoneOK(q)'
  BY <1>1 DEF GoneOK, Standing, Waits
<1>4. ComeOK(q) => ComeOK(q)'
  <2>1. ~(AddressTaken' /\ port' = q) /\ ~(pc \in Enumerating /\ port = q)
    BY DEF AddressTaken, Enumerating
  <2>2. \A label \in {"read", "ack", "reset"} : ~Standing(label, q) /\ ~Standing(label, q)'
    BY DEF Standing, Waits
  <2>3. ~(pc' \in {"unplug", "unplugged"} /\ port' = q)
    OBVIOUS
  <2> QED
    BY <1>1, <2>1, <2>2, <2>3 DEF ComeOK
<1> QED
  BY <1>2, <1>3, <1>4

\* What the steps that begin or end a wait have in common.
LEMMA WaiterFrame ==
    ASSUME IInv, HotInv, Waiters
    PROVE  /\ UNCHANGED <<at, addr, chg, pscan, evq, sc, missed>>
           /\ NoTimeouts' => NoTimeouts
           /\ \A q : Due(q)' <=> Due(q)
           /\ pc \in Waits \cup {"enum", "unplug", "recover"}
           /\ \A q \in Ports : "R" \notin chg[q]
<1>1. UNCHANGED <<at, addr, chg, pscan, evq, sc, missed>>
  BY DEF Waiters, enum_device, SlotEnabled, Addressed, Described, Then, Configured, EnumDropped,
         Unplugging, Unplugged, PickBroken, PipeReset, Dequeued, GiveUp, world, physical,
         registers, ghosts
<1>2. pc \in Waits \cup {"enum", "unplug", "recover"}
  BY DEF Waiters, enum_device, SlotEnabled, Addressed, Described, Configured, EnumDropped,
         Unplugging, Unplugged, PickBroken, PipeReset, Dequeued, Returned, Waits
<1>3. NoTimeouts' => NoTimeouts
  <2>1. CASE enum_device \/ Unplugging \/ PickBroken
    BY <2>1 DEF enum_device, Unplugging, PickBroken, world, NoTimeouts
  <2>2. CASE ~(enum_device \/ Unplugging \/ PickBroken)
    <3>1. \E label \in Waits : Returned(label)
      BY <2>2 DEF Waiters, SlotEnabled, Addressed, Described, Configured, EnumDropped,
                  Unplugged, PipeReset, Dequeued, Waits
    <3> QED
      BY <3>1, Over
  <2> QED
    BY <2>1, <2>2
<1>4. \A q : Due(q)' <=> Due(q)
  BY <1>1 DEF Due, Raised
<1>5. \A q \in Ports : "R" \notin chg[q]
  BY <1>2 DEF HotInv, PortsOK, Waits
<1> QED
  BY <1>1, <1>2, <1>3, <1>4, <1>5

\* A step that begins or ends a wait keeps what is said of addresses when it

\* gives no device a slot that some keyboard has for an address.
LEMMA WaitAddress ==
    ASSUME IInv', AddressOK, UNCHANGED <<at, addr>>, addr \in [Kbds -> Slots \cup {0}],
           \A r \in Slots : hc'[r].on = hc[r].on,
           \A d \in DevSlots : dev'[d].used =>
              \/ dev[d].used /\ dev'[d].slot = dev[d].slot /\ dev'[d].rootport = dev[d].rootport
              \/ dev'[d].slot = 0
              \/ \A k \in Kbds : addr[k] # dev'[d].slot,
           pc' = "enabled" => \A s \in Slots \cup {0} : ~Answer("ok", s)',
           pc' = "addressed" => cmdq'[Len(cmdq')].port = port'
    PROVE  AddressOK'
<1>1. \A k \in Kbds : Lodged(k)'
  BY DEF AddressOK, Lodged
<1>2. \A n \in DOMAIN cmdq' : cmdq'[n].cur /\ cmdq'[n].op = "address" => cmdq'[n].port = port'
  <2>1. \A n \in DOMAIN cmdq' : cmdq'[n].cur =>
          pc' \in Waits /\ n = Len(cmdq') /\ cmdq'[n].op = OpOf[pc']
    BY DEF IInv, QueueOK
  <2>2. \A label \in Waits : OpOf[label] = "address" => label = "addressed"
    BY DEF Waits, OpOf
  <2> QED
    BY <2>1, <2>2
<1> QED
  BY <1>1, <1>2 DEF AddressOK

\* The command issued names the port in hand, and has not been executed.
LEMMA IssuedHere ==
    ASSUME TypeOK, NEW op \in Op, NEW s \in Slots \cup {0}, NEW label, Issue(op, s, label)
    PROVE  cmdq'[Len(cmdq')].port = port /\ ~Executed'
<1> DEFINE c == [op |-> op, slot |-> s, port |-> port, cur |-> TRUE]
<1>1. c \in Command /\ c.port = port
  BY DEF Command, TypeOK, KernelTypes
<1> HIDE DEF c
<1>2. cmdq' = Append(Forgotten, c)
  BY DEF Issue, c
<1>3. Forgotten \in Seq(Command) /\ Len(Forgotten) = Len(cmdq) /\ Len(cmdq) \in Nat
  BY ForgottenFacts
<1>4. Len(cmdq') = Len(cmdq) + 1 /\ cmdq'[Len(cmdq) + 1] = c
  BY <1>1, <1>2, <1>3, AppendProperties
<1>5. ~Executed'
  BY Issued DEF Executed
<1> QED
  BY <1>1, <1>4, <1>5

\* enum_device takes a table entry, or there is none.
LEMMA EnumHot == IInv /\ HotInv /\ enum_device => HotInv'
<1> SUFFICES ASSUME IInv, HotInv, enum_device
             PROVE  HotInv'
  OBVIOUS
<1>1. IInv' /\ TypeOK' /\ TypeOK /\ Waiters /\ dev \in [DevSlots -> Device]
  BY EnumInv DEF Waiters, IInv, TypeOK, KernelTypes
<1>2. /\ UNCHANGED <<at, addr, chg, pscan, evq, sc, missed>>
      /\ NoTimeouts' => NoTimeouts
      /\ \A q : Due(q)' <=> Due(q)
      /\ \A q \in Ports : "R" \notin chg[q]
  BY <1>1, WaiterFrame
<1>3. /\ pc = "enum" /\ port \in Ports /\ UNCHANGED hc
      /\ addr \in [Kbds -> Slots \cup {0}]
  BY DEF enum_device, IInv, TypeOK, KernelTypes, WorldTypes, OfPort, world
<1>4. PortsOK'
  <2>1. pc' \in {"ports", "enabled"}
    BY DEF enum_device, NextPort, Goto, Issue
  <2> QED
    BY <1>2, <2>1 DEF HotInv, PortsOK
<1> SUFFICES ASSUME NoTimeouts'
             PROVE  AddressOK' /\ EndpointOK' /\ PlugOK'
  BY <1>4 DEF HotInv
<1>5. AddressOK /\ EndpointOK /\ PlugOK
  BY <1>2 DEF HotInv
<1> DEFINE unused == {d \in DevSlots : ~dev[d].used}
<1>6. CASE unused = {}
  <2>1. pc' = "ports" /\ UNCHANGED dev
    BY <1>6 DEF enum_device, NextPort, Goto
  <2>2. AddressOK'
    BY <1>1, <1>2, <1>3, <1>5, <2>1, WaitAddress
  <2>3. EndpointOK'
    BY <1>3, <1>5, <2>1 DEF EndpointOK
  <2>4. ASSUME NEW q \in Ports, ~Missed(q, "raced")'
        PROVE  ChangeOK(q)' /\ GoneOK(q)' /\ (~Missed(q, "swapped")' => ComeOK(q)')
    <3>1. ChangeOK(q) /\ GoneOK(q) /\ (~Missed(q, "swapped")' => ComeOK(q))
      BY <1>2, <1>5, <2>4 DEF PlugOK, Missed
    <3>2. /\ dev_on_root(q)' = dev_on_root(q) /\ Here(q)' = Here(q)
          /\ Linked(q)' <=> Linked(q)
      BY <1>2, <2>1 DEF dev_on_root, Here, Linked, Keyboard
    <3>3. ChangeOK(q)'
      BY <1>2, <1>3, <2>1, <3>1 DEF ChangeOK, Standing, Enumerating
    <3>4. GoneOK(q)'
      BY <1>2, <1>3, <2>1, <3>1, <3>2 DEF GoneOK, Standing
    <3>5. ComeOK(q) => ComeOK(q)'
      BY <1>2, <1>3, <2>1, <3>2 DEF ComeOK, Standing, Enumerating, AddressTaken
    <3> QED
      BY <3>1, <3>3, <3>4, <3>5
  <2> QED
    BY <2>2, <2>3, <2>4 DEF PlugOK
<1>7. CASE unused # {}
  <2>1. PICK i \in unused : i = Min(unused)
    BY <1>7, Least, UsbAssumption DEF UsbAssumption
  <2>2. /\ dev' = [dev EXCEPT ![i] = [NoDev EXCEPT !.used = TRUE, !.rootport = port]]
        /\ Issue("enable", 0, "enabled") /\ port' = port /\ cur' = i
    BY <1>7, <2>1 DEF enum_device
  <2>3. /\ i \in DevSlots /\ ~dev[i].used
        /\ dev'[i].used /\ dev'[i].slot = 0 /\ dev'[i].rootport = port /\ ~dev'[i].need_recover
        /\ \A d \in DevSlots : d # i => dev'[d] = dev[d]
    BY <1>1, <2>1, <2>2 DEF NoDev
  <2>4. pc' = "enabled" /\ \A how \in {"ok", "error"} : \A r : ~Answer(how, r)'
    <3>1. Issue(OpOf["enabled"], 0, "enabled")
      BY <2>2 DEF OpOf
    <3> QED
      BY <1>1, <1>2, <1>3, <3>1, WaitBegins DEF Waits
  <2>5. AddressOK'
    BY <1>1, <1>2, <1>3, <1>5, <2>3, <2>4, WaitAddress
  <2>6. EndpointOK'
    BY <1>3, <1>5, <2>3, <2>4 DEF EndpointOK
  <2>7. ASSUME NEW q \in Ports, ~Missed(q, "raced")'
        PROVE  ChangeOK(q)' /\ GoneOK(q)' /\ (~Missed(q, "swapped")' => ComeOK(q)')
    <3>1. ChangeOK(q) /\ GoneOK(q) /\ (~Missed(q, "swapped")' => ComeOK(q))
      BY <1>2, <1>5, <2>7 DEF PlugOK, Missed
    <3>2. CASE q # port
      <4>1. dev_on_root(q)' = dev_on_root(q)
        BY <2>3, <3>2 DEF dev_on_root
      <4>2. \A d \in dev_on_root(q) : dev'[d] = dev[d]
        BY <2>3 DEF dev_on_root
      <4> QED
        BY <1>2, <1>3, <2>2, <2>4, <3>1, <3>2, <4>1, <4>2, Elsewhere DEF Waits
    <3>3. CASE q = port
      <4>1. Due(q)'
        BY <1>2, <1>3, <3>1, <3>3 DEF ChangeOK
      <4>2. i \in dev_on_root(q)'
        BY <2>3, <3>3 DEF dev_on_root
      <4>3. ~AddressTaken'
        BY <2>4 DEF AddressTaken
      <4> QED
        BY <2>2, <2>4, <3>3, <4>1, <4>2, <4>3 DEF ChangeOK, GoneOK, ComeOK, Enumerating, Standing
    <3> QED
      BY <3>2, <3>3
  <2> QED
    BY <2>5, <2>6, <2>7 DEF PlugOK
<1> QED
  BY <1>6, <1>7

\* While the enumeration of a port goes on, only what it says of its own

\* device is to be shown again.
LEMMA EnumPlug ==
    ASSUME IInv, PlugOK, UNCHANGED <<at, addr, chg, pscan, evq, missed>>, port' = port,
           pc \in Enumerating, pc' \in Enumerating,
           \A d \in DevSlots : /\ dev'[d].used = dev[d].used /\ dev'[d].rootport = dev[d].rootport
                               /\ d # cur => dev'[d] = dev[d],
           ~Missed(port, "raced") /\ ~Missed(port, "swapped") /\ AddressTaken' =>
              \A k \in Here(port) : addr[k] = dev'[cur'].slot
    PROVE  PlugOK'
<1> SUFFICES ASSUME NEW q \in Ports, ~Missed(q, "raced")'
             PROVE  ChangeOK(q)' /\ GoneOK(q)' /\ (~Missed(q, "swapped")' => ComeOK(q)')
  BY DEF PlugOK
<1>1. ChangeOK(q) /\ GoneOK(q) /\ (~Missed(q, "swapped")' => ComeOK(q))
  BY DEF PlugOK, Missed
<1>2. /\ cur \in DevSlots /\ dev[cur].used /\ dev[cur].rootport = port
      /\ pc \in Waits /\ pc' \in Waits
  BY Waiting DEF IInv, WaitOK, Enumerating, Waits
<1>3. dev_on_root(q)' = dev_on_root(q) /\ Here(q)' = Here(q)
  BY DEF dev_on_root, Here
<1>4. CASE q # port
  <2>1. \A d \in dev_on_root(q) : d \in DevSlots /\ dev'[d] = dev[d]
    BY <1>2, <1>4 DEF dev_on_root
  <2> QED
    BY <1>1, <1>2, <1>3, <1>4, <2>1, Elsewhere
<1>5. CASE q = port
  <2>1. Due(q)'
    BY <1>1, <1>5 DEF ChangeOK, Due, Raised
  <2>2. cur \in dev_on_root(q)
    BY <1>2, <1>5 DEF dev_on_root
  <2>3. ~Missed(q, "swapped")' /\ AddressTaken' => \A k \in Here(q)' : addr'[k] = dev'[cur'].slot
    BY <1>3, <1>5 DEF Missed
  <2>4. /\ ~Standing("ack", q)'
        /\ pc' \notin {"unplug", "unplugged"}
    BY DEF Enumerating, Standing
  <2> QED
    BY <1>3, <1>5, <2>1, <2>2, <2>3, <2>4 DEF ChangeOK, GoneOK, ComeOK
<1> QED
  BY <1>4, <1>5

\* The enumeration of a port ends without a device on it: the scan is due.
LEMMA NoDevicePlug ==
    ASSUME IInv, PlugOK, UNCHANGED <<at, addr, chg, pscan, evq, missed>>, pc' = "ports",
           pc \in Enumerating, ~dev'[cur].used,
           \A d \in DevSlots : d # cur => dev'[d] = dev[d]
    PROVE  PlugOK'
<1> SUFFICES ASSUME NEW q \in Ports, ~Missed(q, "raced")'
             PROVE  ChangeOK(q)' /\ GoneOK(q)' /\ (~Missed(q, "swapped")' => ComeOK(q)')
  BY DEF PlugOK
<1>1. ChangeOK(q) /\ GoneOK(q) /\ (~Missed(q, "swapped")' => ComeOK(q))
  BY DEF PlugOK, Missed
<1>2. cur \in DevSlots /\ dev[cur].used /\ dev[cur].rootport = port /\ pc \in Waits
  BY Waiting DEF IInv, WaitOK, Enumerating, Waits
<1>3. CASE q # port
  <2>1. /\ dev_on_root(q)' = dev_on_root(q)
        /\ \A d \in dev_on_root(q) : d \in DevSlots /\ dev'[d] = dev[d]
    BY <1>2, <1>3 DEF dev_on_root
  <2> QED
    BY <1>1, <1>2, <1>3, <2>1, Elsewhere
<1>4. CASE q = port
  <2>1. Due(q)'
    BY <1>1, <1>4 DEF ChangeOK, Due, Raised
  <2>2. dev_on_root(q)' = {}
    BY <1>2, <1>4 DEF IInv, PortOK, OneDevicePerPort, dev_on_root
  <2>3. ~AddressTaken'
    BY DEF AddressTaken
  <2> QED
    BY <2>1, <2>2, <2>3 DEF ChangeOK, GoneOK, ComeOK, Standing, Enumerating
<1> QED
  BY <1>3, <1>4

\* The slot that Enable Slot gave is no keyboard's address.
LEMMA SlotEnabledHot == IInv /\ HotInv /\ SlotEnabled => HotInv'
<1> SUFFICES ASSUME IInv, HotInv, SlotEnabled
             PROVE  HotInv'
  OBVIOUS
<1>1. IInv' /\ TypeOK' /\ TypeOK /\ Waiters /\ dev \in [DevSlots -> Device]
  BY SlotEnabledInv DEF Waiters, IInv, TypeOK, KernelTypes
<1>2. /\ UNCHANGED <<at, addr, chg, pscan, evq, sc, missed>>
      /\ NoTimeouts' => NoTimeouts
      /\ \A q \in Ports : "R" \notin chg[q]
  BY <1>1, WaiterFrame
<1>3. /\ pc = "enabled" /\ evq = <<>> /\ UNCHANGED hc
      /\ wdone => Answer(wcc, wslotout)
      /\ cc = "ok" => wdone /\ wcc = "ok"
      /\ NoTimeouts' => NoTimeouts /\ wdone
      /\ wslotout \in Slots \cup {0} /\ addr \in [Kbds -> Slots \cup {0}]
  BY Over DEF SlotEnabled, Waits, IInv, TypeOK, WorldTypes
<1>4. /\ cur \in DevSlots /\ dev[cur].used /\ ~dev[cur].is_kbd /\ ~dev[cur].need_recover
      /\ dev[cur].rootport = port
  BY <1>3, Waiting DEF IInv, WaitOK, DevOK, Waits, Enumerating
<1>5. PortsOK'
  <2>1. pc' \in {"ports", "addressed"}
    BY DEF SlotEnabled, NextPort, Goto, Issue
  <2> QED
    BY <1>2, <2>1 DEF HotInv, PortsOK
<1> SUFFICES ASSUME NoTimeouts'
             PROVE  AddressOK' /\ EndpointOK' /\ PlugOK'
  BY <1>5 DEF HotInv
<1>6. AddressOK /\ EndpointOK /\ PlugOK
  BY <1>2 DEF HotInv
<1>7. CASE cc = "ok" /\ wslotout # 0
  <2>1. /\ dev' = [dev EXCEPT ![cur].slot = wslotout]
        /\ Issue("address", wslotout, "addressed") /\ port' = port /\ cur' = cur
        /\ wslotout \in Slots
    BY <1>3, <1>7 DEF SlotEnabled
  <2>2. \A d \in DevSlots : /\ dev'[d].used = dev[d].used /\ dev'[d].rootport = dev[d].rootport
                            /\ dev'[d].need_recover = dev[d].need_recover
                            /\ d # cur => dev'[d] = dev[d]
                            /\ d = cur => dev'[d].slot = wslotout
    BY <1>1, <1>4, <2>1 DEF Device
  <2>3. pc' = "addressed" /\ \A how \in {"ok", "error"} : \A r : ~Answer(how, r)'
    <3>1. Issue(OpOf["addressed"], wslotout, "addressed")
      BY <2>1 DEF OpOf
    <3> QED
      BY <1>1, <1>2, <1>3, <1>4, <2>1, <2>2, <3>1, WaitBegins DEF Waits
  <2>4. cmdq'[Len(cmdq')].port = port'
    BY <1>1, <2>1, IssuedHere DEF Op
  <2>5. Answer("ok", wslotout)
    BY <1>3, <1>7
  <2>6. AddressOK'
    <3>1. \A k \in Kbds : addr[k] # wslotout
      BY <1>3, <1>6, <2>5 DEF AddressOK
    <3> QED
      BY <1>1, <1>2, <1>3, <1>6, <2>2, <2>3, <2>4, <3>1, WaitAddress
  <2>7. EndpointOK'
    <3>1. Endpoint' = "none"
      BY <1>3, <1>4, <2>1, <2>2, <2>5 DEF Endpoint, IInv, AnswerOK
    <3>2. \A d \in DevSlots : dev'[d].used /\ dev'[d].need_recover => hc'[dev'[d].slot].ep = "halted"
      BY <1>3, <1>4, <1>6, <2>2 DEF EndpointOK
    <3> QED
      BY <2>3, <3>1, <3>2 DEF EndpointOK
  <2>8. PlugOK'
    <3>1. ~AddressTaken'
      BY <2>3 DEF AddressTaken
    <3> QED
      BY <1>2, <1>3, <1>6, <2>1, <2>2, <2>3, <3>1, EnumPlug DEF Enumerating
  <2> QED
    BY <2>6, <2>7, <2>8
<1>8. CASE ~(cc = "ok" /\ wslotout # 0)
  <2>1. dev' = [dev EXCEPT ![cur].used = FALSE] /\ pc' = "ports"
    BY <1>8 DEF SlotEnabled, NextPort, Goto
  <2>2. ~dev'[cur].used /\ \A d \in DevSlots : d # cur => dev'[d] = dev[d]
    BY <1>1, <1>4, <2>1 DEF Device
  <2>3. AddressOK'
    BY <1>1, <1>2, <1>3, <1>6, <2>1, <2>2, WaitAddress
  <2>4. EndpointOK'
    BY <1>3, <1>6, <2>1, <2>2 DEF EndpointOK
  <2>5. PlugOK'
    BY <1>2, <1>3, <1>6, <2>1, <2>2, NoDevicePlug DEF Enumerating
  <2> QED
    BY <2>3, <2>4, <2>5
<1> QED
  BY <1>7, <1>8

\* The device has its address, or its descriptors: on, or give it up.
LEMMA ThenHot ==
    ASSUME IInv, HotInv, IInv', NEW here \in {"addressed", "described"}, Returned(here),
           Then(OpOf[IF here = "addressed" THEN "described" ELSE "configured"],
                IF here = "addressed" THEN "described" ELSE "configured"),
           Waiters
    PROVE  HotInv'
<1> DEFINE next == IF here = "addressed" THEN "described" ELSE "configured"
<1>1. TypeOK' /\ TypeOK /\ OpOf[next] \in Op /\ OpOf["enum_dropped"] = "disable"
  BY DEF IInv, OpOf, Op
<1>2. /\ UNCHANGED <<at, addr, chg, pscan, evq, sc, missed>>
      /\ NoTimeouts' => NoTimeouts
      /\ \A q \in Ports : "R" \notin chg[q]
  BY WaiterFrame
<1>3. /\ pc = here /\ evq = <<>> /\ UNCHANGED <<hc, dev, port, cur>>
      /\ wdone => Answer(wcc, wslotout)
      /\ cc = "ok" => wdone /\ wcc = "ok"
      /\ wdone \/ pc = "described" => \A n \in DOMAIN cmdq : cmdq[n].op = "control"
      /\ wslotout \in Slots \cup {0} /\ addr \in [Kbds -> Slots \cup {0}]
  BY Over DEF Then, Waits, IInv, TypeOK, WorldTypes
<1>4. cur \in DevSlots /\ dev[cur].used /\ dev[cur].slot \in Slots /\ dev[cur].rootport = port
  BY <1>3, Waiting DEF IInv, WaitOK, Waits, Enumerating
<1>5. \/ cc = "ok" /\ Issue(OpOf[next], dev[cur].slot, next)
      \/ Issue("disable", dev[cur].slot, "enum_dropped")
  BY DEF Then
<1>6. pc' \in {next, "enum_dropped"} /\ (pc' = next => cc = "ok")
  BY <1>5 DEF Issue
<1>7. PortsOK'
  BY <1>2, <1>3, <1>6 DEF HotInv, PortsOK
<1> SUFFICES ASSUME NoTimeouts'
             PROVE  AddressOK' /\ EndpointOK' /\ PlugOK'
  BY <1>7 DEF HotInv
<1>8. AddressOK /\ EndpointOK /\ PlugOK
  BY <1>2 DEF HotInv
<1>9. AddressOK'
  BY <1>2, <1>3, <1>6, <1>8, WaitAddress
<1>10. EndpointOK'
  <2>1. Endpoint' = "none"
    BY <1>3, <1>8 DEF EndpointOK, Endpoint
  <2>2. pc' = "configured" => ~Failed'
    <3>1. ASSUME pc' = "configured"
          PROVE  ~Failed'
      <4>1. next = "configured" /\ cc = "ok" /\ pc = "described"
        BY <1>3, <1>6, <3>1
      <4>2. Issue(OpOf["configured"], dev[cur].slot, "configured")
        BY <1>5, <3>1, <4>1 DEF Issue
      <4>3. \A how \in {"ok", "error"} : \A r : ~Answer(how, r)'
        BY <1>1, <1>2, <1>3, <1>4, <4>2, WaitBegins DEF Waits
      <4> QED
        BY <4>3 DEF Failed
    <3> QED
      BY <3>1
  <2>3. \A d \in DevSlots : dev'[d].used /\ dev'[d].need_recover => hc'[dev'[d].slot].ep = "halted"
    BY <1>3, <1>8 DEF EndpointOK
  <2> QED
    BY <1>6, <2>1, <2>2, <2>3 DEF EndpointOK
<1>11. PlugOK'
  <2>1. ~Missed(port, "raced") /\ ~Missed(port, "swapped") /\ AddressTaken' =>
          \A k \in Here(port) : addr[k] = dev'[cur'].slot
    <3>1. AddressTaken' => AddressTaken
      BY <1>3, <1>6 DEF AddressTaken
    <3>2. port \in Ports
      BY <1>3, Waiting DEF Waits, Enumerating
    <3> QED
      BY <1>3, <1>8, <3>1, <3>2 DEF PlugOK, ComeOK
  <2>2. pc \in Enumerating /\ pc' \in Enumerating
    BY <1>3, <1>6 DEF Enumerating
  <2> QED
    BY <1>2, <1>3, <1>8, <2>1, <2>2, EnumPlug
<1> QED
  BY <1>9, <1>10, <1>11

\* The pipe of the new keyboard is armed: it is the keyboard that is there.
LEMMA ConfiguredHot == IInv /\ HotInv /\ Configured => HotInv'
<1> SUFFICES ASSUME IInv, HotInv, Configured
             PROVE  HotInv'
  OBVIOUS
<1>1. IInv' /\ TypeOK /\ Waiters /\ dev \in [DevSlots -> Device]
  BY ConfiguredInv DEF Waiters, IInv, TypeOK, KernelTypes
<1>2. /\ UNCHANGED <<at, addr, chg, pscan, evq, sc, missed>>
      /\ NoTimeouts' => NoTimeouts
      /\ \A q \in Ports : "R" \notin chg[q]
  BY <1>1, WaiterFrame
<1>3. /\ pc = "configured" /\ pc' = "ports"
      /\ wdone => wcc \in {"ok", "error"} /\ Answer(wcc, wslotout)
      /\ NoTimeouts' => NoTimeouts /\ wdone
      /\ wslotout \in Slots \cup {0} /\ addr \in [Kbds -> Slots \cup {0}]
  BY Over DEF Configured, NextPort, Goto, Waits, IInv, TypeOK, WorldTypes
<1>4. /\ cur \in DevSlots /\ dev[cur].used /\ dev[cur].slot \in Slots
      /\ dev[cur].rootport = port /\ port \in Ports
  BY <1>3, Waiting DEF IInv, WaitOK, Waits, Enumerating
<1>5. PortsOK'
  BY <1>2, <1>3 DEF HotInv, PortsOK
<1> SUFFICES ASSUME NoTimeouts'
             PROVE  AddressOK' /\ EndpointOK' /\ PlugOK'
  BY <1>5 DEF HotInv
<1>6. AddressOK /\ EndpointOK /\ PlugOK
  BY <1>2 DEF HotInv
<1>7. cc = "ok"
  <2>1. ~Failed
    BY <1>3, <1>6 DEF EndpointOK
  <2> QED
    BY <1>3, <2>1 DEF Failed, cc
<1>8. hc' = Armed(hc, dev[cur].slot) /\ dev' = [dev EXCEPT ![cur].is_kbd = TRUE]
  BY <1>7 DEF Configured
<1>9. /\ dev'[cur].is_kbd
      /\ \A d \in DevSlots : /\ dev'[d].used = dev[d].used /\ dev'[d].slot = dev[d].slot
                             /\ dev'[d].rootport = dev[d].rootport
                             /\ dev'[d].need_recover = dev[d].need_recover
                             /\ d # cur => dev'[d] = dev[d]
  BY <1>1, <1>4, <1>8 DEF Device
<1>10. \A r \in Slots : hc'[r].on = hc[r].on /\ (hc[r].ep = "halted" => hc'[r].ep = "halted")
  BY <1>1, <1>4, <1>8, ArmedFacts
<1>11. AddressOK'
  BY <1>1, <1>2, <1>3, <1>6, <1>9, <1>10, WaitAddress
<1>12. EndpointOK'
  <2>1. \A d \in DevSlots : dev[d].used => dev[d].slot \in Slots
    BY <1>3 DEF IInv, DevOK
  <2> QED
    BY <1>3, <1>6, <1>9, <1>10, <2>1 DEF EndpointOK
<1>13. ASSUME NEW q \in Ports, ~Missed(q, "raced")'
       PROVE  ChangeOK(q)' /\ GoneOK(q)' /\ (~Missed(q, "swapped")' => ComeOK(q)')
  <2>1. ChangeOK(q) /\ GoneOK(q) /\ (~Missed(q, "swapped")' => ComeOK(q))
    BY <1>2, <1>6, <1>13 DEF PlugOK, Missed
  <2>2. dev_on_root(q)' = dev_on_root(q) /\ Here(q)' = Here(q)
    BY <1>2, <1>9 DEF dev_on_root, Here
  <2>3. CASE q # port
    <3>1. \A d \in dev_on_root(q) : d \in DevSlots /\ dev'[d] = dev[d]
      BY <1>4, <1>9, <2>3 DEF dev_on_root
    <3> QED
      BY <1>2, <1>3, <2>1, <2>2, <2>3, <3>1, Elsewhere DEF Waits
  <2>4. CASE q = port
    <3>1. Due(q)'
      BY <1>2, <1>3, <2>1, <2>4 DEF ChangeOK, Due, Raised, Enumerating
    <3>2. cur \in dev_on_root(q)
      BY <1>4, <2>4 DEF dev_on_root
    <3>3. ComeOK(q) /\ Here(q)' # {} => Linked(q)'
      BY <1>2, <1>3, <1>4, <1>9, <2>2, <2>4, <3>2 DEF ComeOK, AddressTaken, Linked, Keyboard
    <3> QED
      BY <1>3, <2>1, <3>1, <3>3 DEF ChangeOK, GoneOK, ComeOK, Standing, Enumerating, AddressTaken
  <2> QED
    BY <2>3, <2>4
<1> QED
  BY <1>11, <1>12, <1>13 DEF PlugOK

\* A device is dropped, after its enumeration or after its port.
LEMMA DroppedHot == IInv /\ HotInv /\ (EnumDropped \/ Unplugged) => HotInv'
<1> SUFFICES ASSUME IInv, HotInv, EnumDropped \/ Unplugged
             PROVE  HotInv'
  OBVIOUS
<1>1. IInv' /\ Waiters /\ dev \in [DevSlots -> Device]
  BY DroppedInv DEF Waiters, IInv, TypeOK, KernelTypes
<1>2. /\ UNCHANGED <<at, addr, chg, pscan, evq, sc, missed>>
      /\ NoTimeouts' => NoTimeouts
      /\ \A q \in Ports : "R" \notin chg[q]
  BY <1>1, WaiterFrame
<1>3. /\ \/ pc = "enum_dropped" /\ pc' = "ports"
         \/ pc = "unplugged" /\ pc' = "unplug" /\ port' = port
      /\ dev' = [dev EXCEPT ![cur] = NoDev] /\ UNCHANGED hc
      /\ addr \in [Kbds -> Slots \cup {0}]
  BY DEF EnumDropped, Unplugged, Returned, dev_dropped, NextPort, Goto, IInv, TypeOK, WorldTypes
<1>4. /\ cur \in DevSlots /\ dev[cur].used /\ port \in Ports
      /\ dev[cur].rootport = port
      /\ pc \in Waits
  BY <1>3, Waiting DEF IInv, WaitOK, Waits, Enumerating, HotInv, PortsOK
<1>5. ~dev'[cur].used /\ \A d \in DevSlots : d # cur => dev'[d] = dev[d]
  BY <1>1, <1>3, <1>4, NoDevType
<1>6. PortsOK'
  BY <1>2, <1>3 DEF HotInv, PortsOK
<1> SUFFICES ASSUME NoTimeouts'
             PROVE  AddressOK' /\ EndpointOK' /\ PlugOK'
  BY <1>6 DEF HotInv
<1>7. AddressOK /\ EndpointOK /\ PlugOK
  BY <1>2 DEF HotInv
<1>8. AddressOK'
  BY <1>1, <1>2, <1>3, <1>5, <1>7, WaitAddress
<1>9. EndpointOK'
  BY <1>3, <1>5, <1>7 DEF EndpointOK
<1>10. CASE pc = "enum_dropped"
  BY <1>2, <1>3, <1>5, <1>7, <1>8, <1>9, <1>10, NoDevicePlug DEF Enumerating
<1>11. CASE pc = "unplugged"
  <2> SUFFICES ASSUME NEW q \in Ports, ~Missed(q, "raced")'
               PROVE  ChangeOK(q)' /\ GoneOK(q)' /\ (~Missed(q, "swapped")' => ComeOK(q)')
    BY <1>8, <1>9 DEF PlugOK
  <2>1. ChangeOK(q) /\ GoneOK(q) /\ (~Missed(q, "swapped")' => ComeOK(q))
    BY <1>2, <1>7 DEF PlugOK, Missed
  <2>2. Here(q)' = Here(q) /\ (Due(q)' <=> Due(q))
    BY <1>2 DEF Here, Due, Raised
  <2>3. CASE q # port
    <3>1. /\ dev_on_root(q)' = dev_on_root(q)
          /\ \A d \in dev_on_root(q) : d \in DevSlots /\ dev'[d] = dev[d]
      BY <1>4, <1>5, <2>3 DEF dev_on_root
    <3> QED
      BY <1>2, <1>3, <1>4, <1>11, <2>1, <2>3, <3>1, Elsewhere
  <2>4. CASE q = port
    <3>1. cur \in dev_on_root(q)
      BY <1>4, <2>4 DEF dev_on_root
    <3>2. ChangeOK(q)'
      BY <1>2, <1>3, <1>11, <2>1, <2>2, <2>4 DEF ChangeOK, Standing, Enumerating
    <3>3. GoneOK(q)'
      BY <1>3, <1>11, <2>4 DEF GoneOK, Standing
    <3>4. ComeOK(q) => ComeOK(q)'
      <4>1. ComeOK(q) => Here(q)' = {}
        BY <1>11, <2>2, <2>4, <3>1 DEF ComeOK
      <4> QED
        BY <4>1 DEF ComeOK
    <3> QED
      BY <2>1, <3>2, <3>3, <3>4
  <2> QED
    BY <2>3, <2>4
<1> QED
  BY <1>3, <1>10, <1>11

\* Everything on a port that read disconnected is dropped, if there is any.
LEMMA UnpluggingHot == IInv /\ HotInv /\ Unplugging => HotInv'
<1> SUFFICES ASSUME IInv, HotInv, Unplugging
             PROVE  HotInv'
  OBVIOUS
<1>1. IInv' /\ TypeOK /\ TypeOK' /\ Waiters /\ port \in Ports
  BY UnpluggingInv DEF Waiters, IInv, TypeOK, KernelTypes, Unplugging, OfPort
<1>2. /\ UNCHANGED <<at, addr, chg, pscan, evq, sc, missed>>
      /\ NoTimeouts' => NoTimeouts
      /\ \A q \in Ports : "R" \notin chg[q]
  BY <1>1, WaiterFrame
<1>3. /\ pc = "unplug" /\ UNCHANGED <<dev, hc>>
      /\ addr \in [Kbds -> Slots \cup {0}]
  BY DEF Unplugging, IInv, TypeOK, WorldTypes, world
<1>4. \A q : /\ Here(q)' = Here(q) /\ (Due(q)' <=> Due(q))
             /\ dev_on_root(q)' = dev_on_root(q)
  BY <1>2, <1>3 DEF Here, Due, Raised, dev_on_root
<1> DEFINE d == Min(dev_on_root(port))
<1>5. \/ dev_on_root(port) = {} /\ pc' = "ports"
      \/ /\ d \in DevSlots /\ dev[d].used /\ dev[d].rootport = port /\ dev[d].slot \in Slots
         /\ dev_on_root(port) # {}
         /\ cur' = d /\ port' = port /\ Issue(OpOf["unplugged"], dev[d].slot, "unplugged")
  <2>1. CASE dev_on_root(port) = {}
    BY <2>1 DEF Unplugging, NextPort, Goto
  <2>2. CASE dev_on_root(port) # {}
    <3>1. d \in dev_on_root(port)
      BY <2>2, Least, UsbAssumption DEF UsbAssumption, dev_on_root
    <3>2. d \in DevSlots /\ dev[d].used /\ dev[d].rootport = port
      BY <3>1 DEF dev_on_root
    <3>3. dev[d].slot \in Slots
      BY <1>3, <3>2 DEF IInv, DevOK
    <3>4. cur' = d /\ port' = port /\ Issue("disable", dev[d].slot, "unplugged")
      BY <2>2 DEF Unplugging
    <3> QED
      BY <2>2, <3>2, <3>3, <3>4 DEF OpOf
  <2> QED
    BY <2>1, <2>2
<1> HIDE DEF d
<1>6. /\ pc' \in {"ports", "unplugged"} /\ (pc' = "unplugged" => cur' = d /\ port' = port)
      /\ dev_on_root(port) # {} => pc' = "unplugged"
  BY <1>5 DEF Issue
<1>7. PortsOK'
  <2>1. pc' = "unplugged" => dev[d].rootport = port
    BY <1>5
  <2> QED
    BY <1>2, <1>3, <1>6, <2>1 DEF HotInv, PortsOK
<1> SUFFICES ASSUME NoTimeouts'
             PROVE  AddressOK' /\ EndpointOK' /\ PlugOK'
  BY <1>7 DEF HotInv
<1>8. AddressOK /\ EndpointOK /\ PlugOK
  BY <1>2 DEF HotInv
<1>9. AddressOK'
  BY <1>1, <1>2, <1>3, <1>6, <1>8, WaitAddress
<1>10. EndpointOK'
  BY <1>3, <1>6, <1>8 DEF EndpointOK
<1>11. ASSUME NEW q \in Ports, ~Missed(q, "raced")'
       PROVE  ChangeOK(q)' /\ GoneOK(q)' /\ (~Missed(q, "swapped")' => ComeOK(q)')
  <2>1. ChangeOK(q) /\ GoneOK(q) /\ (~Missed(q, "swapped")' => ComeOK(q))
    BY <1>2, <1>8, <1>11 DEF PlugOK, Missed
  <2>2. CASE q # port
    <3>1. port' = q => pc' = "ports"
      BY <1>6, <2>2
    <3> QED
      BY <1>2, <1>3, <1>4, <1>6, <2>1, <2>2, <3>1, Elsewhere DEF Waits
  <2>3. CASE q = port
    <3>1. ChangeOK(q)'
      BY <1>2, <1>3, <1>4, <1>6, <2>1, <2>3 DEF ChangeOK, Standing, Enumerating
    <3>2. GoneOK(q)'
      BY <1>4, <1>5, <1>6, <2>3 DEF GoneOK, Standing
    <3>3. ASSUME ComeOK(q)
          PROVE  ComeOK(q)'
      <4>1. CASE dev_on_root(q) = {} /\ pc' = "ports"
        BY <1>3, <1>4, <3>3, <4>1 DEF ComeOK, Standing, AddressTaken
      <4>2. CASE dev_on_root(q) # {}
        <5>1. Here(q)' = {}
          BY <1>3, <1>4, <2>3, <3>3, <4>2 DEF ComeOK
        <5> QED
          BY <5>1 DEF ComeOK
      <4> QED
        BY <1>5, <2>3, <4>1, <4>2
    <3> QED
      BY <2>1, <3>1, <3>2, <3>3
  <2> QED
    BY <2>2, <2>3
<1> QED
  BY <1>9, <1>10, <1>11 DEF PlugOK

\* A broken pipe is picked for recovery, if there is one.
LEMMA PickBrokenHot == IInv /\ HotInv /\ PickBroken => HotInv'
<1> SUFFICES ASSUME IInv, HotInv, PickBroken
             PROVE  HotInv'
  OBVIOUS
<1> DEFINE broken == {d \in DevSlots : d >= cur /\ dev[d].used /\ dev[d].need_recover}
           i == Min(broken)
<1>1. IInv' /\ TypeOK /\ TypeOK' /\ Waiters /\ dev \in [DevSlots -> Device]
  BY PickBrokenInv DEF Waiters, IInv, TypeOK, KernelTypes
<1>2. /\ UNCHANGED <<at, addr, chg, pscan, evq, sc, missed>>
      /\ NoTimeouts' => NoTimeouts
      /\ \A q \in Ports : "R" \notin chg[q]
  BY <1>1, WaiterFrame
<1>3. pc = "recover" /\ UNCHANGED hc /\ addr \in [Kbds -> Slots \cup {0}]
  BY DEF PickBroken, IInv, TypeOK, WorldTypes, world
<1>4. \/ pc' = "repeat" /\ UNCHANGED dev
      \/ /\ i \in DevSlots /\ dev[i].used /\ dev[i].need_recover /\ dev[i].slot \in Slots
         /\ dev' = [dev EXCEPT ![i].need_recover = FALSE]
         /\ cur' = i /\ port' = port /\ Issue(OpOf["pipe_reset"], dev[i].slot, "pipe_reset")
  <2>1. CASE broken = {}
    BY <2>1 DEF PickBroken, Goto
  <2>2. CASE broken # {}
    <3>1. i \in broken
      BY <2>2, Least, UsbAssumption DEF UsbAssumption
    <3>2. dev[i].slot \in Slots
      BY <1>3, <3>1 DEF IInv, DevOK
    <3>3. /\ cur' = i /\ port' = port /\ Issue("reset", dev[i].slot, "pipe_reset")
          /\ dev' = [dev EXCEPT ![i].need_recover = FALSE]
      BY <2>2 DEF PickBroken
    <3> QED
      BY <3>1, <3>2, <3>3 DEF OpOf
  <2> QED
    BY <2>1, <2>2
<1> HIDE DEF broken, i
<1>5. /\ pc' \in {"repeat", "pipe_reset"} /\ (pc' = "pipe_reset" => cur' = i)
      /\ pc' = "repeat" => UNCHANGED dev
  BY <1>4 DEF Issue
<1>6. \A d \in DevSlots : /\ dev'[d].used = dev[d].used /\ dev'[d].slot = dev[d].slot
                          /\ dev'[d].rootport = dev[d].rootport
                          /\ dev'[d].is_kbd = dev[d].is_kbd
                          /\ dev'[d].need_recover => dev[d].need_recover
  BY <1>1, <1>4 DEF Device
<1>7. PortsOK'
  BY <1>2, <1>5 DEF HotInv, PortsOK
<1> SUFFICES ASSUME NoTimeouts'
             PROVE  AddressOK' /\ EndpointOK' /\ PlugOK'
  BY <1>7 DEF HotInv
<1>8. AddressOK /\ EndpointOK /\ PlugOK
  BY <1>2 DEF HotInv
<1>9. AddressOK'
  BY <1>1, <1>2, <1>3, <1>5, <1>6, <1>8, WaitAddress
<1>10. EndpointOK'
  <2>1. pc' = "pipe_reset" => Endpoint' = "halted" /\ ~Executed'
    <3>1. ASSUME pc' = "pipe_reset"
          PROVE  Endpoint' = "halted" /\ ~Executed'
      <4>1. /\ i \in DevSlots /\ dev[i].used /\ dev[i].need_recover /\ dev[i].slot \in Slots
            /\ cur' = i /\ Issue(OpOf["pipe_reset"], dev[i].slot, "pipe_reset")
        BY <1>4, <3>1
      <4>2. ~Executed'
        BY <1>1, <4>1, IssuedHere DEF OpOf, Op
      <4>3. hc[dev[i].slot].ep = "halted"
        BY <1>3, <1>8, <4>1 DEF EndpointOK
      <4> QED
        BY <1>3, <1>6, <4>1, <4>2, <4>3 DEF Endpoint
    <3> QED
      BY <3>1
  <2>2. \A d \in DevSlots : dev'[d].used /\ dev'[d].need_recover => hc'[dev'[d].slot].ep = "halted"
    BY <1>3, <1>6, <1>8 DEF EndpointOK
  <2> QED
    BY <1>5, <2>1, <2>2 DEF EndpointOK
<1>11. ASSUME NEW q \in Ports, ~Missed(q, "raced")'
       PROVE  ChangeOK(q)' /\ GoneOK(q)' /\ (~Missed(q, "swapped")' => ComeOK(q)')
  <2>1. ChangeOK(q) /\ GoneOK(q) /\ (~Missed(q, "swapped")' => ComeOK(q))
    BY <1>2, <1>8, <1>11 DEF PlugOK, Missed
  <2>2. /\ dev_on_root(q)' = dev_on_root(q)
        /\ \A d \in dev_on_root(q) : d \in DevSlots
    BY <1>6 DEF dev_on_root
  <2> QED
    BY <1>2, <1>3, <1>5, <1>6, <2>1, <2>2, Elsewhere DEF Waits
<1> QED
  BY <1>9, <1>10, <1>11 DEF PlugOK

\* No command of a recovery fails: the pipe is reset, then armed again.
LEMMA RecoverHot == IInv /\ HotInv /\ (PipeReset \/ Dequeued) => HotInv'
<1> SUFFICES ASSUME IInv, HotInv, PipeReset \/ Dequeued
             PROVE  HotInv'
  OBVIOUS
<1>1. IInv' /\ TypeOK /\ TypeOK' /\ Waiters
  BY RecoverInv DEF Waiters, IInv
<1>2. /\ UNCHANGED <<at, addr, chg, pscan, evq, sc, missed>>
      /\ NoTimeouts' => NoTimeouts
      /\ \A q \in Ports : "R" \notin chg[q]
  BY <1>1, WaiterFrame
<1>3. /\ pc \in {"pipe_reset", "dequeued"} /\ evq = <<>> /\ pc \in Waits
      /\ pc = "dequeued" <=> Dequeued
      /\ wdone => wcc \in {"ok", "error"} /\ Answer(wcc, wslotout)
      /\ wdone => \A n \in DOMAIN cmdq : cmdq[n].op = "control"
      /\ NoTimeouts' => NoTimeouts /\ wdone
      /\ wslotout \in Slots \cup {0} /\ addr \in [Kbds -> Slots \cup {0}]
  <2>1. Returned("pipe_reset") \/ Returned("dequeued")
    BY DEF PipeReset, Dequeued
  <2>2. pc = "dequeued" <=> Dequeued
    BY DEF PipeReset, Dequeued, Returned
  <2> QED
    BY <2>1, <2>2, Over DEF Waits, IInv, TypeOK, WorldTypes
<1>4. cur \in DevSlots /\ dev[cur].used /\ dev[cur].slot \in Slots
  BY <1>3, Waiting
<1>5. PortsOK'
  <2>1. pc' \in {"dequeued", "recover"}
    BY DEF PipeReset, Dequeued, Issue, GiveUp, NextDevice, Goto
  <2> QED
    BY <1>2, <2>1 DEF HotInv, PortsOK
<1> SUFFICES ASSUME NoTimeouts'
             PROVE  AddressOK' /\ EndpointOK' /\ PlugOK'
  BY <1>5 DEF HotInv
<1>6. AddressOK /\ EndpointOK /\ PlugOK /\ wdone
  BY <1>2, <1>3 DEF HotInv
<1>7. \/ /\ pc = "pipe_reset" /\ pc' = "dequeued" /\ UNCHANGED <<hc, port, cur>>
         /\ Issue(OpOf["dequeued"], dev[cur].slot, "dequeued")
      \/ /\ pc = "dequeued" /\ pc' = "recover" /\ hc' = Armed(hc, dev[cur].slot)
  <2>1. CASE pc = "pipe_reset"
    <3>1. PipeReset /\ cc # "timeout"
      BY <1>3, <1>6, <2>1 DEF cc
    <3> QED
      BY <2>1, <3>1 DEF PipeReset, OpOf, Issue
  <2>2. CASE pc = "dequeued"
    <3>1. ~Failed
      BY <1>6, <2>2 DEF EndpointOK
    <3>2. cc = "ok"
      BY <1>3, <1>6, <3>1 DEF Failed, cc
    <3> QED
      BY <1>3, <2>2, <3>2 DEF Dequeued, NextDevice, Goto
  <2> QED
    BY <1>3, <2>1, <2>2
<1>8. UNCHANGED dev
  <2>1. CASE pc = "pipe_reset"
    BY <1>3, <1>6, <2>1 DEF PipeReset, cc
  <2>2. CASE pc = "dequeued"
    <3>1. ~Failed
      BY <1>6, <2>2 DEF EndpointOK
    <3> QED
      BY <1>3, <1>6, <2>2, <3>1 DEF Dequeued, Failed, cc
  <2> QED
    BY <1>3, <2>1, <2>2
<1>9. \A r \in Slots : hc'[r].on = hc[r].on /\ (hc[r].ep = "halted" => hc'[r].ep = "halted")
  BY <1>1, <1>4, <1>7, ArmedFacts
<1>10. AddressOK'
  BY <1>1, <1>2, <1>3, <1>6, <1>7, <1>8, <1>9, WaitAddress
<1>11. EndpointOK'
  <2>1. \A d \in DevSlots : dev'[d].used /\ dev'[d].need_recover => hc'[dev'[d].slot].ep = "halted"
    <3>1. \A d \in DevSlots : dev[d].used => dev[d].slot \in Slots
      BY <1>3 DEF IInv, DevOK
    <3> QED
      BY <1>3, <1>6, <1>8, <1>9, <3>1 DEF EndpointOK
  <2>2. CASE pc = "dequeued"
    BY <1>7, <2>1, <2>2 DEF EndpointOK
  <2>3. CASE pc = "pipe_reset"
    <3>1. Executed
      BY <1>3, <1>4, <1>6, <2>3 DEF Executed, IInv, QueueOK, WaitOK
    <3>2. Endpoint' = "stopped"
      BY <1>6, <1>7, <1>8, <2>3, <3>1 DEF EndpointOK, Endpoint
    <3>3. ~Failed'
      <4>1. \A how \in {"ok", "error"} : \A r : ~Answer(how, r)'
        BY <1>1, <1>2, <1>3, <1>4, <1>7, <1>8, <2>3, WaitBegins DEF Waits
      <4> QED
        BY <4>1 DEF Failed
    <3> QED
      BY <1>7, <2>1, <2>3, <3>2, <3>3 DEF EndpointOK
  <2> QED
    BY <1>3, <2>2, <2>3
<1>12. ASSUME NEW q \in Ports, ~Missed(q, "raced")'
       PROVE  ChangeOK(q)' /\ GoneOK(q)' /\ (~Missed(q, "swapped")' => ComeOK(q)')
  <2>1. ChangeOK(q) /\ GoneOK(q) /\ (~Missed(q, "swapped")' => ComeOK(q))
    BY <1>2, <1>6, <1>12 DEF PlugOK, Missed
  <2>2. dev_on_root(q)' = dev_on_root(q)
    BY <1>8 DEF dev_on_root
  <2>3. pc' \in {"dequeued", "recover"}
    BY <1>7
  <2> QED
    BY <1>2, <1>3, <1>8, <2>1, <2>2, <2>3, Elsewhere DEF Waits
<1> QED
  BY <1>10, <1>11, <1>12 DEF PlugOK

\* Whatever the kernel waits for.
LEMMA WaiterHot == IInv /\ HotInv /\ Waiters => HotInv'
<1> SUFFICES ASSUME IInv, HotInv, Waiters
             PROVE  HotInv'
  OBVIOUS
<1>1. IInv'
  BY WaiterInv
<1>2. CASE Addressed
  <2>1. Returned("addressed") /\ Then(OpOf["described"], "described")
    BY <1>2 DEF Addressed, OpOf
  <2> QED
    BY <1>1, <2>1, ThenHot
<1>3. CASE Described
  <2>1. Returned("described") /\ Then(OpOf["configured"], "configured")
    BY <1>3 DEF Described, OpOf
  <2> QED
    BY <1>1, <2>1, ThenHot
<1> QED
  BY <1>2, <1>3, EnumHot, SlotEnabledHot, ConfiguredHot, DroppedHot, UnpluggingHot,
     PickBrokenHot, RecoverHot DEF Waiters

\* Nothing is plugged in and nothing is owed at first.
LEMMA InitHot == Init => HotInv
<1> SUFFICES ASSUME Init
             PROVE  HotInv
  OBVIOUS
<1>1. /\ pc = "idle" /\ cmdq = <<>>
      /\ \A k \in Kbds : at[k] = 0 /\ addr[k] = 0
      /\ \A p \in Ports : chg[p] = {}
      /\ \A i \in DevSlots : ~dev[i].used
  BY DEF Init, NoDev
<1>2. PortsOK
  BY <1>1 DEF PortsOK
<1>3. AddressOK
  BY <1>1 DEF AddressOK, Lodged
<1>4. EndpointOK
  BY <1>1 DEF EndpointOK
<1>5. ASSUME NEW p \in Ports
      PROVE  Here(p) = {} /\ dev_on_root(p) = {}
  BY <1>1, <1>5, UsbAssumption DEF Here, dev_on_root, UsbAssumption
<1>6. PlugOK
  BY <1>1, <1>5 DEF PlugOK, ChangeOK, GoneOK, ComeOK, Standing, AddressTaken, Enumerating
<1> QED
  BY <1>2, <1>3, <1>4, <1>6 DEF HotInv

\* Every step keeps what is owed.
LEMMA NextHot == IInv /\ HotInv /\ [Next]_vars => HotInv'
<1> SUFFICES ASSUME IInv, HotInv, [Next]_vars
             PROVE  HotInv'
  OBVIOUS
<1>1. CASE Controller
  <2>1. ASSUME NEW s \in Slots, HcReport(s) \/ HcPipeError(s)
        PROVE  HotInv'
    BY <2>1, PipeTypes, PipeHot DEF IInv
  <2> QED
    BY <1>1, <2>1, CommandHot DEF Controller
<1>2. CASE User
  BY <1>2, UserHot
<1>3. CASE usbkbd_poll \/ usbkbd_pop
  BY <1>3, GlanceHot, ResetHot, EventHot, WaiterHot DEF usbkbd_poll, Glance, Waiters
<1>4. CASE UNCHANGED vars
  <2>1. UNCHANGED <<dev, cmdq, hc, evq, wt, wdone, wcc, wslotout, rep, gaveUp, pc, port, cur, budget>>
        /\ UNCHANGED <<at, addr, chg, pscan, sc, missed>>
    BY <1>4 DEF vars, world, waiter, keys, ghosts
  <2>2. TypeOK'
    BY <1>4, NextInv DEF IInv
  <2>3. Still
    BY <2>1 DEF Still
  <2> QED
    BY <2>1, <2>2, <2>3, SettledHot
<1> QED
  BY <1>1, <1>2, <1>3, <1>4 DEF Next

\* The scans owed, the slots with an address and the pipes always agree.
THEOREM HotInvariance == Spec => [](IInv /\ HotInv)
<1>1. IInv /\ HotInv /\ [Next]_vars => (IInv /\ HotInv)'
  BY NextInv, NextHot
<1> QED
  BY InitInv, InitHot, <1>1, PTL DEF Spec

\* When nothing is left to do, the driver's devices are the keyboards that are

\* plugged in, unless a change fell where no scan could see it.
THEOREM HotplugSeen == Spec => []HotplugWorksIfSeen
<1>1. ASSUME IInv, HotInv
      PROVE  HotplugWorksIfSeen
  <2> SUFFICES ASSUME Quiet, NoTimeouts, NEW p \in Ports,
                      ~Missed(p, "raced"), ~Missed(p, "swapped")
               PROVE  Settled(p)
    BY DEF HotplugWorksIfSeen
  <2>1. /\ pc = "idle" /\ ~Due(p)
        /\ GoneOK(p) /\ ComeOK(p)
    BY <1>1 DEF Quiet, Due, Raised, HotInv, PlugOK
  <2>2. Here(p) = {} => dev_on_root(p) = {}
    BY <2>1 DEF GoneOK, Standing
  <2>3. Here(p) # {} => Linked(p)
    BY <2>1 DEF ComeOK, Standing, Enumerating
  <2>4. ASSUME NEW k \in Kbds, at[k] = p
        PROVE  \E i \in DevSlots : Keyboard(i) /\ dev[i].rootport = p /\ addr[k] = dev[i].slot
    <3>1. Here(p) = {k}
      BY <1>1, <2>4, UsbAssumption DEF HotInv, PortsOK, Here, UsbAssumption
    <3> QED
      BY <2>3, <3>1 DEF Linked, dev_on_root
  <2>5. ASSUME NEW k \in Kbds, NEW i \in DevSlots, Keyboard(i), dev[i].rootport = p,
               addr[k] = dev[i].slot
        PROVE  at[k] = p
    <3>1. dev[i].used /\ dev[i].slot \in Slots
      BY <1>1, <2>1, <2>5 DEF Keyboard, IInv, DevOK
    <3>2. addr[k] # 0
      BY <2>5, <3>1, UsbAssumption DEF UsbAssumption
    <3> QED
      BY <1>1, <2>5, <3>1, <3>2 DEF HotInv, AddressOK, Lodged
  <2> QED
    BY <2>4, <2>5 DEF Settled
<1> QED
  BY <1>1, HotInvariance, PTL
=============================================================================
