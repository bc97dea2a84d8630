----------------------------- MODULE EventRing -----------------------------
(***************************************************************************)
(* The ring the controller produces into and poll_events (usb.c) consumes  *)
(* from.  One segment, no Link TRB: both sides wrap at RING_TRBS and flip  *)
(* their cycle bit.  The kernel tells the controller how far it got only   *)
(* when poll_events ends (ERDP), and a controller never fills the slot     *)
(* just before ERDP.                                                       *)
(***************************************************************************)
EXTENDS RingSizes, Sequences

CONSTANTS
    Values,       \* events; NoData is none of them
    MaxPost       \* bound on the events of a run

VARIABLES
    ev,                 \* the event TRBs: body and cycle bit
    hc_enq, hc_pcs,     \* the controller's enqueue pointer and cycle state
    posting,            \* the event it is writing, or NoData
    erdp,               \* what it knows of the kernel's progress
    ev_deq, ev_cyc,     \* Xhci.ev_deq, Xhci.ev_cyc
    kpc, n,             \* where poll_events is, and its event count
    posted, handled     \* events published, events given to handle_event

vars == <<ev, hc_enq, hc_pcs, posting, erdp, ev_deq, ev_cyc, kpc, n, posted, handled>>

hcvars == <<hc_enq, hc_pcs, posting, posted>>
kvars  == <<erdp, ev_deq, ev_cyc, kpc, n, handled>>

Slots    == 0 .. (RingTrbs - 1)
After(i) == IF i + 1 = RingTrbs THEN 0 ELSE i + 1
Flip(i, bit) == IF i + 1 = RingTrbs THEN 1 - bit ELSE bit

Init ==
    /\ ev = [i \in Slots |-> [data |-> NoData, cycle |-> 0]]
    /\ hc_enq = 0 /\ hc_pcs = 1 /\ posting = NoData
    /\ erdp = 0 /\ ev_deq = 0 /\ ev_cyc = 1
    /\ kpc = "idle" /\ n = 0
    /\ posted = <<>> /\ handled = <<>>

-----------------------------------------------------------------------------
(* The controller writes an event's body, then its control word.           *)
Full == After(hc_enq) = erdp

HcWriteEvent(v) ==
    /\ posting = NoData
    /\ ~Full
    /\ Len(posted) < MaxPost
    /\ ev' = [ev EXCEPT ![hc_enq].data = v]
    /\ posting' = v
    /\ UNCHANGED <<hc_enq, hc_pcs, posted, kvars>>

HcPublish ==
    /\ posting # NoData
    /\ ev' = [ev EXCEPT ![hc_enq].cycle = hc_pcs]
    /\ hc_enq' = After(hc_enq) /\ hc_pcs' = Flip(hc_enq, hc_pcs)
    /\ posted' = Append(posted, posting)
    /\ posting' = NoData
    /\ UNCHANGED kvars

(* poll_events: look at the cycle bit, read and handle, repeat.            *)
PollStart ==
    /\ kpc = "idle"
    /\ kpc' = "look" /\ n' = 0
    /\ UNCHANGED <<ev, erdp, ev_deq, ev_cyc, handled, hcvars>>

PollLook ==
    /\ kpc = "look"
    /\ ev[ev_deq].cycle = ev_cyc
    /\ kpc' = "read"
    /\ UNCHANGED <<ev, erdp, ev_deq, ev_cyc, n, handled, hcvars>>

PollDone ==                              \* if(n) ERDP = ev_deq | EHB
    /\ kpc = "look"
    /\ ev[ev_deq].cycle # ev_cyc
    /\ kpc' = "idle" /\ n' = 0
    /\ erdp' = IF n > 0 THEN ev_deq ELSE erdp
    /\ UNCHANGED <<ev, ev_deq, ev_cyc, handled, hcvars>>

PollHandleNoFlip ==
    /\ kpc = "read"
    /\ handled' = Append(handled, ev[ev_deq].data)
    /\ ev_deq' = After(ev_deq)
    /\ kpc' = "look" /\ n' = n + 1
    /\ UNCHANGED <<ev, ev_cyc, erdp, hcvars>>

PollHandle ==                            \* handle_event, advance, ++n > 512
    /\ kpc = "read"
    /\ handled' = Append(handled, ev[ev_deq].data)
    /\ ev_deq' = After(ev_deq) /\ ev_cyc' = Flip(ev_deq, ev_cyc)
    /\ IF n + 1 > RunawayGuard
       THEN kpc' = "idle" /\ n' = 0 /\ erdp' = ev_deq'
       ELSE kpc' = "look" /\ n' = n + 1 /\ UNCHANGED erdp
    /\ UNCHANGED <<ev, hcvars>>

Poll == PollStart \/ PollLook \/ PollDone \/ PollHandle

Next == Poll \/ HcPublish \/ \E v \in Values : HcWriteEvent(v)

Spec == Init /\ [][Next]_vars

-----------------------------------------------------------------------------
(* Every event is handled exactly once and in the order the controller     *)
(* posted it: no overwritten slot, no event seen a second time a lap later *)
(* (poll_events and its ev_cyc toggle).                                    *)
Queue == INSTANCE Fifo WITH sent <- posted, got <- handled
ImplementsFifo == Queue!Spec
=============================================================================
