------------------------------ MODULE MCRndisLink ------------------------------
(***************************************************************************)
(* Packets of four units, headers of two: a message that ends within its   *)
(* packet, and one that fills it and is padded into the next.  As in the   *)
(* code the receive buffer of the device is no whole number of packets.    *)
(***************************************************************************)
EXTENDS RndisLink, TLC
=============================================================================
