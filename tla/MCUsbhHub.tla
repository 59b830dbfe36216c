------------------------------- MODULE MCUsbhHub -------------------------------
(***************************************************************************)
(* A root hub with one port, and a hub with two ports.                     *)
(***************************************************************************)
EXTENDS UsbhHub, TLC
=============================================================================
