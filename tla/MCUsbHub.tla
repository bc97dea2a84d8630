------------------------------ MODULE MCUsbHub ------------------------------
(* One hub and two keyboards.                                              *)
EXTENDS UsbHub

CONSTANTS h1, k1, k2, x
=============================================================================
