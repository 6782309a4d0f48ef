----------------------------- MODULE MCUsbTree -----------------------------
(***************************************************************************)
(* Model checking UsbTree: two hubs of two ports and up to two devices, as *)
(* the cfg takes them.                                                     *)
(***************************************************************************)
EXTENDS UsbTree

CONSTANTS h, g, a, b
=============================================================================
