----------------------------- MODULE RingSizes -----------------------------
(***************************************************************************)
(* The sizes usb.c gives its rings.  Every ring of the driver is one page: *)
(* RING_TRBS TRBs of 16 bytes.                                             *)
(***************************************************************************)
EXTENDS Naturals

CONSTANTS
    RingTrbs,      \* RING_TRBS: 256
    RunawayGuard,  \* events after which poll_events gives up: 512
    MaxInFlight,   \* TRBs a ring's callers leave outstanding
    NoData         \* what a zeroed TRB carries

ASSUME RingAssumption ==
    /\ RingTrbs \in Nat /\ RingTrbs >= 2
    /\ RunawayGuard \in Nat
    /\ MaxInFlight \in 1 .. (RingTrbs - 1)
=============================================================================
