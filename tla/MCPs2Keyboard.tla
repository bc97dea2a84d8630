--------------------------- MODULE MCPs2Keyboard ---------------------------
(* A ring of three codes, so that a program that reads late overflows it.  *)
EXTENDS Ps2Keyboard
=============================================================================
