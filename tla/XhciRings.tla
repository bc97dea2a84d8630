----------------------------- MODULE XhciRings -----------------------------
(***************************************************************************)
(* A command ring and the event ring of one controller together: the       *)
(* kernel pushes commands, the controller executes them and posts a        *)
(* completion event for each, the kernel polls the events (usb.c,          *)
(* cmd_exec, poll_events).  Port status changes share the event ring, so   *)
(* an idle kernel still has something to lose.                             *)
(***************************************************************************)
EXTENDS RingSizes, Sequences, FiniteSets

CONSTANTS Commands, PortChange,
          MaxPush, MaxPost     \* bounds on the commands and events of a run

ASSUME XhciAssumption ==
    PortChange \notin Commands \cup {NoData} /\ NoData \notin Commands

VARIABLES t, enq, cyc, pc, arg, hc_deq, hc_ccs, sent, got,
          ev, hc_enq, hc_pcs, posting, erdp, ev_deq, ev_cyc, kpc, n,
          posted, handled

C == INSTANCE TrbRing WITH Values <- Commands
E == INSTANCE EventRing WITH Values <- Commands \cup {PortChange}

cvars == <<t, enq, cyc, pc, arg, hc_deq, hc_ccs, sent, got>>
evars == <<ev, hc_enq, hc_pcs, posting, erdp, ev_deq, ev_cyc, kpc, n, posted, handled>>
vars  == <<cvars, evars>>

Init == C!Init /\ E!Init

\* Completions already posted, or being written.
Reported == Cardinality({k \in 1 .. Len(posted) : posted[k] \in Commands})
            + (IF posting \in Commands THEN 1 ELSE 0)

(* The controller reports the next executed command, or a port change.     *)
HcComplete ==
    /\ Reported < Len(got)
    /\ E!HcWriteEvent(got[Reported + 1])
    /\ UNCHANGED cvars

HcPortChange == E!HcWriteEvent(PortChange) /\ UNCHANGED cvars

HcPublish == E!HcPublish /\ UNCHANGED cvars

Poll == E!Poll /\ UNCHANGED cvars

CommandRing == C!Next /\ UNCHANGED evars

Next == HcComplete \/ HcPortChange \/ HcPublish \/ Poll \/ CommandRing

Spec == Init /\ [][Next]_vars

-----------------------------------------------------------------------------
(* The controller executes the commands ring_push was given: in order,     *)
(* each once, none half written ("cycle bit written last so the HC never   *)
(* sees a half TRB"), the lazily written Link TRB included.                *)
CommandFifo == C!ImplementsFifo

(* handle_event gets the events the controller posted: in order, each      *)
(* once, none lost when the ring is full and the controller has to wait    *)
(* for the ERDP poll_events writes, none seen again a lap later.           *)
EventFifo == E!ImplementsFifo
=============================================================================
