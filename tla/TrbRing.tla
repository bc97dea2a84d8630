------------------------------ MODULE TrbRing ------------------------------
(***************************************************************************)
(* A ring the kernel produces into and the xHCI controller consumes from:  *)
(* the command ring, an EP0 ring, a keyboard's interrupt-IN ring (usb.c,   *)
(* ring_init and ring_push).  The kernel's stores become visible one at a  *)
(* time, in program order (x86 and the compiler barriers), and the         *)
(* controller may read between any two of them; the cycle bit tells it     *)
(* which TRBs are its own.                                                 *)
(*                                                                         *)
(* The last slot holds the Link TRB, written lazily: by the push that      *)
(* follows the one that filled the slot before it.                         *)
(***************************************************************************)
EXTENDS RingSizes, Sequences

CONSTANTS
    Values,       \* what a TRB carries
    MaxPush       \* bound on the pushes of a run

VARIABLES
    t,            \* the TRBs: p and s are "data", the control word c the rest
    enq, cyc,     \* Ring.enq, Ring.cyc
    pc, arg,      \* where ring_push is, and its argument
    hc_deq, hc_ccs,   \* the controller's dequeue pointer and cycle state
    sent, got     \* TRBs given to the controller, TRBs it executed

vars == <<t, enq, cyc, pc, arg, hc_deq, hc_ccs, sent, got>>

LinkSlot == RingTrbs - 1
Slots    == 0 .. LinkSlot

Trb == [data : Values \cup {NoData, "ring"}, type : {"none", "trb", "link"},
        cycle : {0, 1}]

Other(bit) == 1 - bit

\* The two stores a TRB takes: its body, and the word with type and cycle.
WithBody(trb, data)    == [data |-> data, type |-> trb.type, cycle |-> trb.cycle]
WithControl(trb, type) == [data |-> trb.data, type |-> type, cycle |-> cyc]

Init ==
    /\ t = [i \in Slots |-> [data |-> NoData, type |-> "none", cycle |-> 0]]
    /\ enq = 0 /\ cyc = 1
    /\ pc = "idle" /\ arg = NoData
    /\ hc_deq = 0 /\ hc_ccs = 1
    /\ sent = <<>> /\ got = <<>>

-----------------------------------------------------------------------------
InFlight == Len(sent) - Len(got)

(* A call of ring_push.  Nothing in ring_push refuses a full ring: that    *)
(* the callers keep fewer TRBs outstanding is an assumption on them.       *)
Push(v) ==
    /\ pc = "idle"
    /\ InFlight < MaxInFlight
    /\ Len(sent) < MaxPush
    /\ arg' = v
    /\ pc' = IF enq = LinkSlot THEN "link" ELSE "body"
    /\ UNCHANGED <<t, enq, cyc, hc_deq, hc_ccs, sent, got>>

WriteLink ==                             \* l->p = r->phys; l->s = 0
    /\ pc = "link"
    /\ t' = [t EXCEPT ![enq] = WithBody(@, "ring")]
    /\ pc' = "linkctl"
    /\ UNCHANGED <<enq, cyc, arg, hc_deq, hc_ccs, sent, got>>

CommitLinkNoToggle ==
    /\ pc = "linkctl"
    /\ t' = [t EXCEPT ![enq] = WithControl(@, "link")]
    /\ enq' = 0
    /\ pc' = "body"
    /\ UNCHANGED <<cyc, arg, hc_deq, hc_ccs, sent, got>>

CommitLink ==                            \* Link, Toggle Cycle
    /\ pc = "linkctl"
    /\ t' = [t EXCEPT ![enq] = WithControl(@, "link")]
    /\ enq' = 0 /\ cyc' = Other(cyc)
    /\ pc' = "body"
    /\ UNCHANGED <<arg, hc_deq, hc_ccs, sent, got>>

WriteBodyAndCycle ==
    /\ pc = "body"
    /\ t' = [t EXCEPT ![enq] = WithControl(@, "trb")]
    /\ enq' = enq + 1
    /\ pc' = "ctl"
    /\ UNCHANGED <<cyc, arg, hc_deq, hc_ccs, sent, got>>

WriteBody ==                             \* t->p = p; t->s = s
    /\ pc = "body"
    /\ t' = [t EXCEPT ![enq] = WithBody(@, arg)]
    /\ enq' = enq + 1
    /\ pc' = "ctl"
    /\ UNCHANGED <<cyc, arg, hc_deq, hc_ccs, sent, got>>

Commit ==                                \* t->c = (ctl & ~1u) | r->cyc
    /\ pc = "ctl"
    /\ t' = [t EXCEPT ![enq - 1] = WithControl(@, "trb")]
    /\ sent' = Append(sent, arg)
    /\ pc' = "idle" /\ arg' = NoData
    /\ UNCHANGED <<enq, cyc, hc_deq, hc_ccs, got>>

(* The controller: it owns the TRB at its dequeue pointer when the cycle   *)
(* bit matches; a Link TRB takes it back to the start with the other bit.  *)
Owned == t[hc_deq].cycle = hc_ccs

HcFollowLink ==
    /\ Owned
    /\ t[hc_deq].type = "link"
    /\ hc_deq' = 0 /\ hc_ccs' = Other(hc_ccs)
    /\ UNCHANGED <<t, enq, cyc, pc, arg, sent, got>>

HcExecute ==
    /\ Owned
    /\ t[hc_deq].type # "link"
    /\ hc_deq' = hc_deq + 1
    /\ got' = Append(got, t[hc_deq].data)
    /\ UNCHANGED <<t, enq, cyc, pc, arg, hc_ccs, sent>>

KernelStep == WriteLink \/ CommitLink \/ WriteBody \/ Commit

Next == KernelStep \/ HcFollowLink \/ HcExecute \/ \E v \in Values : Push(v)

Spec == Init /\ [][Next]_vars

-----------------------------------------------------------------------------
(* Every variable stays in its type.                                       *)
TypeOK ==
    /\ t \in [Slots -> Trb]
    /\ enq \in Slots /\ cyc \in {0, 1}
    /\ pc \in {"idle", "link", "linkctl", "body", "ctl"}
    /\ arg \in Values \cup {NoData}
    /\ hc_deq \in Slots /\ hc_ccs \in {0, 1}
    /\ sent \in Seq(Values) /\ got \in Seq(Values)

(* The ring is a queue: what the controller executes is what was pushed,   *)
(* in order, each TRB once, none of them half written (ring_push: "cycle   *)
(* bit written last so the HC never sees a half TRB").                     *)
Queue == INSTANCE Fifo
ImplementsFifo == Queue!Spec
=============================================================================
