--------------------------- MODULE MCUsbKeyboard ---------------------------
(* Two keyboards share root ports; a report holds at most one key, so two  *)
(* held keys are a rollover.                                               *)
EXTENDS UsbKeyboard

CONSTANTS k1, k2, x, y

Symmetric == Permutations(Kbds) \cup Permutations(Usages)
=============================================================================
