---------------------------- MODULE UsbKeyboard ----------------------------
(***************************************************************************)
(* USB keyboards on the root ports of one xHCI controller (usb.c): hotplug *)
(* (port_scan, enum_device, dev_drop), the interrupt-IN pipe of a keyboard *)
(* (kbd_arm, handle_event, kbd_report, kbd_recover), the single waiter of  *)
(* cmd_exec and ctrl_xfer, the key queue and the software typematic.       *)
(*                                                                         *)
(* The kernel is one thread: usbkbd_poll drains events, then rescans       *)
(* flagged ports, then recovers pipes, then repeats the held key.  Every   *)
(* command it waits for drains events too, so a report, an error or a port *)
(* change can be handled in the middle of an enumeration, a drop or a      *)
(* recovery.  Around it act the controller, the user who plugs and types,  *)
(* and time (a wait may give up).  The event ring is the queue EventRing   *)
(* implements, the command ring the one TrbRing implements.  Hubs, and    *)
(* that keys arrive in the end, are UsbHub's.                              *)
(***************************************************************************)
EXTENDS Naturals, SequencesExt

CONSTANTS
    Ports,        \* root ports, 1..n
    Kbds,         \* physical keyboards
    Usages,       \* keys
    RollLimit,    \* keys a report can hold: 6
    Slots,        \* device slots of the controller, 1..n
    DevSlots,     \* entries of Xhci.dev: 1..MAX_DEVS
    KQ,           \* size of the key queue: 64
    None,
    MaxPlugs, MaxKeys, MaxErrors, MaxTimeouts   \* what the surroundings may do

ASSUME UsbAssumption ==
    /\ Ports \subseteq Nat \ {0} /\ Slots \subseteq Nat \ {0}
    /\ DevSlots \subseteq Nat \ {0} /\ DevSlots # {}
    /\ RollLimit \in Nat \ {0} /\ KQ \in Nat /\ KQ >= 2
    /\ {MaxPlugs, MaxKeys, MaxErrors, MaxTimeouts} \subseteq Nat
    /\ None \notin Kbds \cup Usages \cup Slots

VARIABLES
    \* the world
    at, key, fresh, addr,       \* where each keyboard is; keys held; report due; slot
    chg, enabled,               \* PORTSC change bits and enable bit
    hc,                         \* the controller's slots
    cmdq, evq,                  \* commands not yet executed, events not yet handled
    budget,
    \* the kernel
    dev, pscan,                 \* Xhci.dev, Xhci.pscan
    pc, port, cur, sc,          \* usbkbd_poll's position and locals
    wt, wdone, wcc, wslotout,   \* the waiter
    rep, kq,                    \* rep_usage, the key queue
    missed, gaveUp              \* ghosts: port changes the driver cannot see;
                                \* kbd_recover abandoned a keyboard

world  == <<at, key, fresh, addr, chg, enabled, hc, budget>>
waiter == <<wt, wdone, wcc, wslotout>>
keys   == <<rep, kq>>
ghosts == <<missed, gaveUp>>
vars   == <<world, cmdq, evq, dev, pscan, pc, port, cur, sc, waiter, keys, ghosts>>

NoDev  == [used |-> FALSE, slot |-> 0, rootport |-> 0, is_kbd |-> FALSE,
           need_recover |-> FALSE, prev |-> {}]
FreeSlot == [phys |-> None, on |-> FALSE, ep |-> "none"]

Init ==
    /\ at = [k \in Kbds |-> 0] /\ key = [k \in Kbds |-> {}]
    /\ fresh = [k \in Kbds |-> FALSE] /\ addr = [k \in Kbds |-> 0]
    /\ chg = [p \in Ports |-> {}] /\ enabled = [p \in Ports |-> FALSE]
    /\ hc = [s \in Slots |-> FreeSlot]
    /\ cmdq = <<>> /\ evq = <<>>
    /\ budget = [plugs |-> MaxPlugs, keys |-> MaxKeys, errors |-> MaxErrors,
                 timeouts |-> MaxTimeouts]
    /\ dev = [i \in DevSlots |-> NoDev]
    /\ pscan = {} /\ pc = "idle" /\ port = 0 /\ cur = 0
    /\ sc = [conn |-> FALSE, chg |-> {}, ped |-> FALSE]
    /\ wt = "none" /\ wdone = FALSE /\ wcc = "none" /\ wslotout = 0
    /\ rep = None /\ kq = <<>>
    /\ missed = {} /\ gaveUp = FALSE

-----------------------------------------------------------------------------
(* Events.                                                                 *)
CmdDone(c, cc, s)  == [type |-> "command", for |-> c, cc |-> cc, slot |-> s]
PortEvent(p)       == [type |-> "port", port |-> p]
Report(s, cc, k, r) == [type |-> "report", slot |-> s, cc |-> cc, phys |-> k, keys |-> r]
CtlDone(s, cc)     == [type |-> "control", slot |-> s, cc |-> cc]

\* Change bits raise an event only when none was set (PSCEG, 0 to 1).
PortChange(p, bit, queue) ==
    /\ chg' = [chg EXCEPT ![p] = @ \cup {bit}]
    /\ evq' = IF chg[p] = {} THEN Append(queue, PortEvent(p)) ELSE queue

Here(p) == {k \in Kbds : at[k] = p}

Spend(what) == budget[what] > 0 /\ budget' = [budget EXCEPT ![what] = @ - 1]

kernel == <<dev, pscan, pc, port, cur, sc, waiter, keys, gaveUp>>

\* A change on p that no scan will ever learn of, because its bit is cleared
\* by a write that echoes an earlier read ("raced"), or because it puts a
\* keyboard where the driver still has a device ("swapped").
Unseen(p) == pc \in {"ack", "ack_reset"} /\ port = p /\ "C" \in sc.chg
dev_on_root(p) == {i \in DevSlots : dev[i].used /\ dev[i].rootport = p}

Plug(k, p) ==
    /\ at[k] = 0 /\ Here(p) = {}
    /\ Spend("plugs")
    /\ at' = [at EXCEPT ![k] = p] /\ addr' = [addr EXCEPT ![k] = 0]
    /\ fresh' = [fresh EXCEPT ![k] = key[k] # {}]
    /\ PortChange(p, "C", evq)
    /\ missed' = missed \cup {<<p, why>> : why \in
                    {w \in {"raced"} : Unseen(p)} \cup
                    {w \in {"swapped"} : dev_on_root(p) # {}}}
    /\ UNCHANGED <<key, enabled, hc, cmdq, kernel>>

Unplug(k) ==
    /\ at[k] # 0
    /\ Spend("plugs")
    /\ at' = [at EXCEPT ![k] = 0] /\ addr' = [addr EXCEPT ![k] = 0]
    /\ enabled' = [enabled EXCEPT ![at[k]] = FALSE]
    /\ PortChange(at[k], "C", evq)
    /\ missed' = missed \cup {<<at[k], w>> : w \in {v \in {"raced"} : Unseen(at[k])}}
    /\ UNCHANGED <<key, fresh, hc, cmdq, kernel>>

Type(k, u) ==
    /\ Spend("keys")
    /\ key' = [key EXCEPT ![k] = IF u \in @ THEN @ \ {u} ELSE @ \cup {u}]
    /\ fresh' = [fresh EXCEPT ![k] = TRUE]
    /\ UNCHANGED <<at, addr, chg, enabled, hc, cmdq, evq, kernel, missed>>

(* The controller polls an armed pipe: a report when the keyboard has one, *)
(* an error, which halts the pipe, when it is gone or the wire fails.      *)
Content(k) == IF Cardinality(key[k]) > RollLimit THEN {"rollover"} ELSE key[k]

Answers(s) == hc[s].on /\ hc[s].ep = "armed" /\ hc[s].phys # None
              /\ addr[hc[s].phys] = s

HcReport(s) ==
    /\ Answers(s) /\ fresh[hc[s].phys]
    /\ evq' = Append(evq, Report(s, "ok", hc[s].phys, Content(hc[s].phys)))
    /\ fresh' = [fresh EXCEPT ![hc[s].phys] = FALSE]
    /\ hc' = [hc EXCEPT ![s].ep = "idle"]
    /\ UNCHANGED <<at, key, addr, chg, enabled, budget, cmdq, kernel, missed>>

HcPipeError(s) ==
    /\ hc[s].on /\ hc[s].ep = "armed"
    /\ IF Answers(s) THEN Spend("errors") ELSE UNCHANGED budget
    /\ evq' = Append(evq, Report(s, "error", hc[s].phys, {}))
    /\ hc' = [hc EXCEPT ![s].ep = "halted"]
    /\ UNCHANGED <<at, key, fresh, addr, chg, enabled, cmdq, kernel, missed>>

(* One command, at the head of the command ring, and its completion.       *)
FreeSlots == {s \in Slots : ~hc[s].on}

Enable(c) ==
    IF FreeSlots = {}
    THEN UNCHANGED <<hc, addr>> /\ evq' = Append(evq, CmdDone(c, "error", 0))
    ELSE LET s == Min(FreeSlots)
         IN /\ hc' = [hc EXCEPT ![s] = [FreeSlot EXCEPT !.on = TRUE]]
            /\ evq' = Append(evq, CmdDone(c, "ok", s))
            /\ UNCHANGED addr

AddressDevice(c) ==
    LET there == Here(c.port)
    IN IF there # {} /\ enabled[c.port] /\ hc[c.slot].on
       THEN LET k == CHOOSE x \in there : TRUE
            IN /\ hc' = [hc EXCEPT ![c.slot].phys = k]
               /\ addr' = [addr EXCEPT ![k] = c.slot]
               /\ evq' = Append(evq, CmdDone(c, "ok", 0))
       ELSE UNCHANGED <<hc, addr>> /\ evq' = Append(evq, CmdDone(c, "error", 0))

\* An endpoint command: works from some pipe states, and leaves another.
Pipe(c, from, to) ==
    /\ UNCHANGED addr
    /\ IF hc[c.slot].on /\ hc[c.slot].ep \in from
       THEN /\ hc' = [hc EXCEPT ![c.slot].ep = to]
            /\ evq' = Append(evq, CmdDone(c, "ok", 0))
       ELSE UNCHANGED hc /\ evq' = Append(evq, CmdDone(c, "error", 0))

DisableSlot(c) ==
    /\ hc' = [hc EXCEPT ![c.slot] = FreeSlot]
    /\ addr' = [k \in Kbds |-> IF addr[k] = c.slot THEN 0 ELSE addr[k]]
    /\ evq' = Append(evq, CmdDone(c, "ok", 0))

ControlTransfer(c) ==
    /\ UNCHANGED <<hc, addr>>
    /\ LET k == hc[c.slot].phys
       IN evq' = Append(evq, CtlDone(c.slot,
                   IF k # None /\ addr[k] = c.slot THEN "ok" ELSE "error"))

\* Commands run in ring order; a control transfer has a ring of its own.
HcCommand ==
    \E i \in DOMAIN cmdq :
       LET c == cmdq[i]
       IN /\ c.op = "control" \/ \A j \in 1..(i - 1) : cmdq[j].op = "control"
          /\ \/ c.op = "enable" /\ Enable(c)
             \/ c.op = "address" /\ AddressDevice(c)
             \/ c.op = "configure" /\ Pipe(c, {"none"}, "idle")
             \/ c.op = "reset" /\ Pipe(c, {"halted"}, "stopped")
             \/ c.op = "setdeq" /\ Pipe(c, {"stopped"}, "idle")
             \/ c.op = "disable" /\ DisableSlot(c)
             \/ c.op = "control" /\ ControlTransfer(c)
          /\ cmdq' = RemoveAt(cmdq, i)
          /\ UNCHANGED <<at, key, fresh, chg, enabled, budget, kernel, missed>>

Controller == HcCommand \/ \E s \in Slots : HcReport(s) \/ HcPipeError(s)

User == \/ \E k \in Kbds, p \in Ports : Plug(k, p)
        \/ \E k \in Kbds : Unplug(k)
        \/ \E k \in Kbds, u \in Usages : Type(k, u)

-----------------------------------------------------------------------------
(* The kernel handles an event.                                            *)
dev_by_slot(s) == {i \in DevSlots : dev[i].used /\ dev[i].slot = s}

Pushed(q, u) == IF Len(q) < KQ - 1 THEN Append(q, u) ELSE q

\* The doorbell of kbd_arm, rung for slot s of the controller state h.
Armed(h, s) ==
    IF h[s].ep = "idle" THEN [h EXCEPT ![s].ep = "armed"] ELSE h

\* A report of d with the keys r: new ones are queued, in the report's order.
kbd_report(i, r) ==
    IF r = {"rollover"}
    THEN UNCHANGED <<dev, rep, kq>>
    ELSE \E order \in SetToSeqs(r \ dev[i].prev) :
           /\ kq' = FoldLeft(Pushed, kq, order)
           /\ LET last == IF order = <<>> THEN rep ELSE Last(order)
              IN rep' = IF last \in r THEN last ELSE None
           /\ dev' = [dev EXCEPT ![i].prev = r]

OnReportOfNewsOnly(e) ==
    /\ \/ /\ \A i \in dev_by_slot(e.slot) : ~dev[i].is_kbd
          /\ UNCHANGED <<dev, hc, rep, kq>>
       \/ \E i \in dev_by_slot(e.slot) :
            /\ dev[i].is_kbd
            /\ IF e.cc = "ok"
               THEN /\ kbd_report(i, e.keys)
                    /\ hc' = IF e.keys = {"rollover"} THEN hc ELSE Armed(hc, e.slot)
               ELSE /\ dev' = [dev EXCEPT ![i].need_recover = TRUE]
                    /\ UNCHANGED <<hc, rep, kq>>
    /\ UNCHANGED <<waiter, pscan>>

OnReport(e) ==
    /\ \/ /\ \A i \in dev_by_slot(e.slot) : ~dev[i].is_kbd
          /\ UNCHANGED <<dev, hc, rep, kq>>
       \/ \E i \in dev_by_slot(e.slot) :
            /\ dev[i].is_kbd
            /\ IF e.cc = "ok"
               THEN kbd_report(i, e.keys) /\ hc' = Armed(hc, e.slot)
               ELSE /\ dev' = [dev EXCEPT ![i].need_recover = TRUE]
                    /\ UNCHANGED <<hc, rep, kq>>
    /\ UNCHANGED <<waiter, pscan>>

OnCompletion(e) ==
    /\ IF \/ wt = "command" /\ e.type = "command" /\ e.for.cur
          \/ wt = "control" /\ e.type = "control" /\ e.slot = dev[cur].slot
       THEN wdone' = TRUE /\ wcc' = e.cc /\ wslotout' = e.slot /\ UNCHANGED wt
       ELSE UNCHANGED waiter
    /\ UNCHANGED <<dev, hc, rep, kq, pscan>>

OnPort(e) == pscan' = pscan \cup {e.port} /\ UNCHANGED <<dev, hc, rep, kq, waiter>>

Waits == {"enabled", "addressed", "described", "configured", "enum_dropped",
          "unplugged", "pipe_reset", "dequeued"}

handle_event ==
    /\ pc \in Waits \cup {"events"} /\ evq # <<>>
    /\ LET e == Head(evq)
       IN \/ e.type = "report" /\ OnReport(e)
          \/ e.type \in {"command", "control"} /\ OnCompletion(e)
          \/ e.type = "port" /\ OnPort(e)
    /\ evq' = Tail(evq)
    /\ UNCHANGED <<at, key, fresh, addr, chg, enabled, budget, cmdq,
                   pc, port, cur, sc, ghosts>>

-----------------------------------------------------------------------------
(* One wait at a time.  wait_done empties the event ring before it looks    *)
(* whether it is over, and then forgets the request: a late answer to it   *)
(* has another TRB's address (cur becomes FALSE).                          *)
Forgotten == [i \in DOMAIN cmdq |-> [cmdq[i] EXCEPT !.cur = FALSE]]

Issue(op, s, label) ==
    /\ cmdq' = Append(Forgotten, [op |-> op, slot |-> s, port |-> port, cur |-> TRUE])
    /\ wt' = IF op = "control" THEN "control" ELSE "command"
    /\ wdone' = FALSE /\ wcc' = "none" /\ wslotout' = 0
    /\ pc' = label

Rest == /\ cmdq' = Forgotten
        /\ wt' = "none" /\ wdone' = FALSE /\ wcc' = "none" /\ wslotout' = 0

Returned(label) ==
    /\ pc = label /\ evq = <<>>
    /\ IF wdone THEN UNCHANGED budget ELSE Spend("timeouts")

cc == IF wdone THEN wcc ELSE "timeout"

\* What no step of the kernel but handle_event and the resets touches.
physical == <<at, key, fresh, evq>>
registers == <<addr, chg, enabled>>
-----------------------------------------------------------------------------
(* usbkbd_poll: events, ports, recovery, repeat.                           *)
Goto(label, p, c) == pc' = label /\ port' = p /\ cur' = c

NextPort   == Goto("ports", port + 1, 0)
NextDevice == Goto("recover", port, cur + 1)

usbkbd_pop ==
    /\ pc = "idle" /\ kq # <<>> /\ kq' = Tail(kq)
    /\ UNCHANGED <<world, cmdq, evq, dev, pscan, pc, port, cur, sc, waiter, rep, ghosts>>

PollStart ==
    /\ pc = "idle" /\ Goto("events", 0, 0)
    /\ UNCHANGED <<world, cmdq, evq, dev, pscan, sc, waiter, keys, ghosts>>

EventsDrained ==
    /\ pc = "events" /\ evq = <<>> /\ Goto("ports", 1, 0)
    /\ UNCHANGED <<world, cmdq, evq, dev, pscan, sc, waiter, keys, ghosts>>

PickPort ==
    /\ pc = "ports"
    /\ LET flagged == {p \in pscan : p >= port}
       IN IF flagged = {}
          THEN Goto("recover", 0, 1) /\ UNCHANGED pscan
          ELSE /\ Goto("read", Min(flagged), 0)
               /\ pscan' = pscan \ {Min(flagged)}
    /\ UNCHANGED <<world, cmdq, evq, dev, sc, waiter, keys, ghosts>>

ReadPortsc(here, next) ==
    /\ pc = here /\ pc' = next
    /\ sc' = [conn |-> Here(port) # {}, chg |-> chg[port], ped |-> enabled[port]]
    /\ UNCHANGED <<world, cmdq, evq, dev, pscan, port, cur, waiter, keys, ghosts>>

AckConnect == chg' = [chg EXCEPT ![port] = @ \ {"C"}]

\* The write that clears exactly the change bits that were read.
AckSeen == chg' = [chg EXCEPT ![port] = @ \ sc.chg]

ForgetPortsc == sc' = [conn |-> FALSE, chg |-> {}, ped |-> FALSE]

AckPortAnew ==
    /\ pc = "ack" /\ AckSeen /\ ForgetPortsc
    /\ IF ~sc.conn THEN Goto("unplug", port, 0) ELSE Goto("reset", port, 0)
    /\ UNCHANGED <<physical, addr, enabled, hc, budget, cmdq, dev, pscan, waiter, keys, ghosts>>

AckPort ==
    /\ pc = "ack" /\ AckSeen /\ ForgetPortsc
    /\ IF ~sc.conn THEN Goto("unplug", port, 0)
       ELSE IF dev_on_root(port) # {} THEN NextPort      \* already up
       ELSE Goto("reset", port, 0)
    /\ UNCHANGED <<physical, addr, enabled, hc, budget, cmdq, dev, pscan, waiter, keys, ghosts>>

\* Reset and its hardware side: what is there is enabled, at no address.
ResetPort ==
    /\ pc = "reset" /\ Goto("read_reset", port, 0)
    /\ IF Here(port) = {}
       THEN UNCHANGED <<registers, evq>>
       ELSE /\ enabled' = [enabled EXCEPT ![port] = TRUE]
            /\ addr' = [k \in Kbds |-> IF k \in Here(port) THEN 0 ELSE addr[k]]
            /\ PortChange(port, "R", evq)
    /\ UNCHANGED <<at, key, fresh, hc, budget, cmdq, dev, pscan, sc, waiter, keys, ghosts>>

AckReset ==
    /\ pc = "ack_reset" /\ AckSeen /\ ForgetPortsc
    /\ IF "R" \in sc.chg /\ sc.ped THEN Goto("enum", port, 0) ELSE NextPort
    /\ UNCHANGED <<physical, addr, enabled, hc, budget, cmdq, dev, pscan, waiter, keys, ghosts>>

-----------------------------------------------------------------------------
(* enum_device, one wait after another.                                    *)
enum_device ==
    /\ pc = "enum"
    /\ LET unused == {i \in DevSlots : ~dev[i].used}
       IN IF unused = {}
          THEN NextPort /\ UNCHANGED <<dev, cmdq, waiter>>
          ELSE /\ dev' = [dev EXCEPT ![Min(unused)] =
                            [NoDev EXCEPT !.used = TRUE, !.rootport = port]]
               /\ cur' = Min(unused) /\ Issue("enable", 0, "enabled") /\ UNCHANGED port
    /\ UNCHANGED <<world, evq, pscan, sc, keys, ghosts>>

SlotEnabled ==
    /\ Returned("enabled")
    /\ IF cc = "ok" /\ wslotout # 0
       THEN /\ dev' = [dev EXCEPT ![cur].slot = wslotout]
            /\ Issue("address", wslotout, "addressed") /\ UNCHANGED <<port, cur>>
       ELSE dev' = [dev EXCEPT ![cur].used = FALSE] /\ Rest /\ NextPort
    /\ UNCHANGED <<physical, registers, hc, pscan, sc, keys, ghosts>>

ThenOrForget(op, label) ==
    /\ IF cc = "ok"
       THEN Issue(op, dev[cur].slot, label) /\ UNCHANGED <<dev, port, cur>>
       ELSE dev' = [dev EXCEPT ![cur] = NoDev] /\ Rest /\ NextPort
    /\ UNCHANGED <<physical, registers, hc, pscan, sc, keys, ghosts>>

\* A step of the enumeration that failed gives the device up.
Then(op, label) ==
    /\ IF cc = "ok" THEN Issue(op, dev[cur].slot, label)
       ELSE Issue("disable", dev[cur].slot, "enum_dropped")
    /\ UNCHANGED <<physical, registers, hc, dev, pscan, port, cur, sc, keys, ghosts>>

Addressed == Returned("addressed") /\ Then("control", "described")
Described == Returned("described") /\ Then("configure", "configured")

Configured ==
    /\ Returned("configured") /\ Rest /\ NextPort
    /\ IF cc = "ok"
       THEN /\ dev' = [dev EXCEPT ![cur].is_kbd = TRUE]
            /\ hc' = Armed(hc, dev[cur].slot)
       ELSE UNCHANGED <<dev, hc>>
    /\ UNCHANGED <<physical, registers, pscan, sc, keys, ghosts>>

dev_dropped_only == dev' = [dev EXCEPT ![cur] = NoDev] /\ UNCHANGED rep /\ Rest

\* The end of dev_drop, after its wait for Disable Slot.
dev_dropped ==
    /\ dev' = [dev EXCEPT ![cur] = NoDev]
    /\ rep' = IF dev[cur].is_kbd THEN None ELSE rep
    /\ Rest

EnumDropped ==
    /\ Returned("enum_dropped") /\ dev_dropped /\ NextPort
    /\ UNCHANGED <<physical, registers, hc, pscan, sc, kq, ghosts>>

\* A port read disconnected: everything on it is dropped, one by one.
Unplugging ==
    /\ pc = "unplug"
    /\ IF dev_on_root(port) = {}
       THEN NextPort /\ UNCHANGED <<cmdq, waiter>>
       ELSE /\ cur' = Min(dev_on_root(port)) /\ UNCHANGED port
            /\ Issue("disable", dev[Min(dev_on_root(port))].slot, "unplugged")
    /\ UNCHANGED <<world, evq, dev, pscan, sc, keys, ghosts>>

Unplugged ==
    /\ Returned("unplugged") /\ dev_dropped /\ Goto("unplug", port, 0)
    /\ UNCHANGED <<physical, registers, hc, pscan, sc, kq, ghosts>>

-----------------------------------------------------------------------------
(* kbd_recover, and the software typematic.                                *)
PickBroken ==
    /\ pc = "recover"
    /\ LET broken == {i \in DevSlots : i >= cur /\ dev[i].used /\ dev[i].need_recover}
       IN IF broken = {}
          THEN Goto("repeat", 0, 0) /\ UNCHANGED <<dev, cmdq, waiter>>
          ELSE /\ cur' = Min(broken) /\ UNCHANGED port
               /\ dev' = [dev EXCEPT ![Min(broken)].need_recover = FALSE]
               /\ Issue("reset", dev[Min(broken)].slot, "pipe_reset")
    /\ UNCHANGED <<world, evq, pscan, sc, keys, ghosts>>

GiveUp == /\ dev' = [dev EXCEPT ![cur].is_kbd = FALSE]
          /\ gaveUp' = TRUE /\ Rest /\ NextDevice

PipeReset ==
    /\ Returned("pipe_reset")
    /\ IF cc = "timeout"
       THEN GiveUp
       ELSE /\ Issue("setdeq", dev[cur].slot, "dequeued")
            /\ UNCHANGED <<dev, gaveUp, port, cur>>
    /\ UNCHANGED <<physical, registers, hc, pscan, sc, keys, missed>>

Dequeued ==
    /\ Returned("dequeued")
    /\ IF cc = "ok"
       THEN hc' = Armed(hc, dev[cur].slot) /\ Rest /\ NextDevice /\ UNCHANGED <<dev, gaveUp>>
       ELSE GiveUp /\ UNCHANGED hc
    /\ UNCHANGED <<physical, registers, pscan, sc, keys, missed>>

\* The key held down repeats when its time has come (rep_next).
Repeat ==
    /\ pc = "repeat" /\ Goto("idle", 0, 0)
    /\ kq' \in {kq} \cup {Pushed(kq, u) : u \in {rep} \ {None}}
    /\ UNCHANGED <<world, cmdq, evq, dev, pscan, sc, waiter, rep, ghosts>>

usbkbd_poll ==
    \/ PollStart \/ handle_event \/ EventsDrained
    \/ PickPort \/ ReadPortsc("read", "ack") \/ AckPort
    \/ ResetPort \/ ReadPortsc("read_reset", "ack_reset") \/ AckReset
    \/ enum_device \/ SlotEnabled \/ Addressed \/ Described \/ Configured
    \/ EnumDropped \/ Unplugging \/ Unplugged
    \/ PickBroken \/ PipeReset \/ Dequeued \/ Repeat

Next == usbkbd_poll \/ usbkbd_pop \/ Controller \/ User

Spec == Init /\ [][Next]_vars
-----------------------------------------------------------------------------
(* Properties.                                                             *)

Keyboard(i) == dev[i].used /\ dev[i].is_kbd
Recovering(i) == pc \in {"pipe_reset", "dequeued"} /\ cur = i
ReportsOf(s) == {n \in DOMAIN evq : evq[n].type = "report" /\ evq[n].slot = s}

\* The pipe of a keyboard is never dead and never armed twice (kbd_arm after
\* every report and after a recovery, need_recover after every error): a TRB
\* waits for a report, or one event waits to be handled, or a recovery is due
\* or under way; only a drop being carried out ends this.
OneTrbPerKeyboard ==
    \A i \in DevSlots :
       Keyboard(i) /\ ~(pc = "unplugged" /\ cur = i) =>
          LET armed == hc[dev[i].slot].ep = "armed"
          IN /\ Cardinality(ReportsOf(dev[i].slot)) <= 1
             /\ Cardinality({way \in {1, 2, 3, 4} :
                   \/ way = 1 /\ armed
                   \/ way = 2 /\ ReportsOf(dev[i].slot) # {}
                   \/ way = 3 /\ dev[i].need_recover
                   \/ way = 4 /\ Recovering(i)}) = 1

\* The scan that port_scan's own reset asks for, through the change bit that
\* the reset leaves, never enumerates a device twice.
OneDevicePerPort ==
    \A i, j \in DevSlots :
       dev[i].used /\ dev[j].used /\ dev[i].rootport = dev[j].rootport => i = j

NoTimeouts == budget.timeouts = MaxTimeouts

\* A slot of the controller is not leaked over any number of plug cycles and
\* failed enumerations: unless a wait was given up, it is some device's, or
\* the kernel is just being given it.
SlotsOwned ==
    NoTimeouts /\ pc # "enabled" =>
       \A s \in Slots : hc[s].on => Cardinality(dev_by_slot(s)) = 1

\* The typematic repeats only a key that some keyboard is known to hold
\* (usb.c:201 "repeat dies with its key").
RepeatHasKey == rep # None => \E i \in DevSlots : Keyboard(i) /\ rep \in dev[i].prev

\* The same, but for a keyboard abandoned by kbd_recover.
RepeatHasKeyUnlessAbandoned == gaveUp \/ RepeatHasKey

\* When nothing is left to do, the devices are the keyboards that are there.
Settled(p) ==
    \A k \in Kbds : at[k] = p <=>
       \E i \in DevSlots : Keyboard(i) /\ dev[i].rootport = p /\ addr[k] = dev[i].slot

Quiet == pc = "idle" /\ evq = <<>> /\ cmdq = <<>> /\ pscan = {}

Missed(p, why) == <<p, why>> \in missed

\* Keyboards may be plugged and unplugged at any time (usb.c:21 "incl. hotplug
\* after boot"); only the window between reading PORTSC and acknowledging is
\* forgiven here.
HotplugWorks ==
    Quiet /\ NoTimeouts => \A p \in Ports : Missed(p, "raced") \/ Settled(p)

\* The same, but for a keyboard that took another's place, or its own, before
\* the driver saw the port empty.
HotplugWorksIfSeen ==
    Quiet /\ NoTimeouts =>
       \A p \in Ports : Missed(p, "raced") \/ Missed(p, "swapped") \/ Settled(p)
=============================================================================
