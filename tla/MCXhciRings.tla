---------------------------- MODULE MCXhciRings ----------------------------
(* A command ring of two TRBs and a link, an event ring of three: both lap *)
(* more than twice, and both fill up.                                      *)
EXTENDS XhciRings

CONSTANTS c1, c2
MCCommands == {c1, c2}
=============================================================================
