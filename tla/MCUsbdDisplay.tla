----------------------------- MODULE MCUsbdDisplay -----------------------------
(***************************************************************************)
(* Two blocks of two reads of two packets each.  The frames of the passing *)
(* run have one short packet, two full packets and an empty one (one read),*)
(* three and a short one (two reads), or do not fit.                       *)
(***************************************************************************)
EXTENDS UsbdDisplay, TLC
=============================================================================
