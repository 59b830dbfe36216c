----------------------------- MODULE MCUsbfsBulk -----------------------------
(* Small instances of UsbfsBulk for TLC: packets of 2 bytes, reads of one  *)
(* packet, of three, and of two and a half, and writes of every length up  *)
(* to two packets and a half, the empty one included.                      *)
EXTENDS UsbfsBulk

MCReads   == {Mps, 2 * Mps + 1, 3 * Mps}
MCWrites  == 0 .. 2 * Mps + 1
MCPackets == 0 .. Mps
=============================================================================
