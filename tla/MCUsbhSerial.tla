------------------------------ MODULE MCUsbhSerial -----------------------------
(***************************************************************************)
(* A ring of four bytes and transfers of up to two bytes behind a header.  *)
(***************************************************************************)
EXTENDS UsbhSerial, TLC
=============================================================================
