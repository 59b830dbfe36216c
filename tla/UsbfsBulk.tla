------------------------------ MODULE UsbfsBulk ------------------------------
(***************************************************************************)
(* The bulk endpoints of port/ch32/ch32fs/usb_dc_usbfs.c: how the driver   *)
(* cuts transfers into packets and keeps the data toggles while handshakes *)
(* get lost, endpoints are stalled and cleared, and the host selects       *)
(* another setting.  One OUT and one IN endpoint; a class driver starts    *)
(* transfers on them, the host moves packets.                              *)
(*                                                                         *)
(* The toggle bits live in the controller, which flips them by itself      *)
(* (AUTO_TOG): the transmit one on an acknowledged IN packet, the receive  *)
(* one on an OUT packet that carries the expected toggle.  An OUT packet   *)
(* with the other one is acknowledged too, and reported without TOG_OK.    *)
(***************************************************************************)
EXTENDS Integers

CONSTANTS
    W,          \* modulus of uint32_t
    Mps,        \* ep_mps
    Reads,      \* lengths of the reads a class driver starts
    Writes,     \* lengths of the writes a class driver starts
    Packets,    \* sizes of the packets the host sends
    Alts        \* alternate settings the host selects with SET_INTERFACE

ASSUME SizesAssumption ==
    /\ W \in Nat /\ Mps \in 1 .. W - 1
    /\ Reads \subseteq 1 .. W - 1
    /\ Writes \subseteq 0 .. W - 1
    /\ Packets \subseteq 0 .. Mps
    /\ Alts \subseteq Nat

VARIABLES
    rx,        \* UEPn_RX_CTRL: response and expected toggle
    out,       \* out_ep[n]: xfer_len, actual_xfer_len
    reading,   \* length of the read in progress, 0 for none
    astray,    \* history: data that no read has asked for, "no", "spilt" or "unread"
    tx,        \* UEPn_TX_CTRL and UEPn_TX_LEN
    in,        \* in_ep[n]: xfer_len, actual_xfer_len
    writing,   \* length of the last write
    hOut,      \* host: its packet, the packet's toggle and its fate
    copies,    \* how often the device took that packet
    hInTog,    \* host: the toggle it expects
    hInGot     \* host: the bytes it has of the last write

device == <<rx, out, reading, astray, tx, in, writing>>
vars   == <<device, hOut, copies, hInTog, hInGot>>

Least(a, b) == IF a <= b THEN a ELSE b

Drop == [fate |-> "dropped", n |-> 0, tog |-> FALSE]

\* After the bus reset and SET_CONFIGURATION of an enumeration.
Init ==
    /\ rx = [resp |-> "NAK", tog |-> FALSE]
    /\ tx = [resp |-> "NAK", tog |-> FALSE, len |-> 0]
    /\ out = [len |-> 0, actual |-> 0] /\ reading = 0 /\ astray = "no"
    /\ in  = [len |-> 0, actual |-> 0] /\ writing = 0
    /\ hOut = Drop /\ copies = 0 /\ hInTog = FALSE /\ hInGot = 0

-----------------------------------------------------------------------------
(***************************************************************************)
(* The class driver.  It has one transfer per endpoint at a time, and      *)
(* stalls an endpoint between transfers, as usbd_msc_bot_abort does; a     *)
(* transfer started on a stalled endpoint ends the stall.                  *)
(***************************************************************************)

\* Mutant: the response bits are not set.
StartRead_NotArmed(len) ==
    /\ reading = 0
    /\ out' = [len |-> len, actual |-> 0] /\ reading' = len /\ astray' = "no"
    /\ UNCHANGED <<rx, tx, in, writing, hOut, copies, hInTog, hInGot>>

\* usbd_ep_start_read
StartRead(len) ==
    /\ reading = 0
    /\ out' = [len |-> len, actual |-> 0] /\ reading' = len /\ astray' = "no"
    /\ rx' = [rx EXCEPT !.resp = "ACK"]
    /\ UNCHANGED <<tx, in, writing, hOut, copies, hInTog, hInGot>>

\* usbd_ep_start_write
StartWrite(len) ==
    /\ tx.resp # "ACK"
    /\ in' = [len |-> len, actual |-> 0] /\ writing' = len
    /\ tx' = [tx EXCEPT !.resp = "ACK", !.len = Least(len, Mps)]
    /\ hInGot' = 0
    /\ UNCHANGED <<rx, out, reading, astray, hOut, copies, hInTog>>

\* usbd_ep_set_stall
StallOut ==
    /\ reading = 0
    /\ rx' = [rx EXCEPT !.resp = "STALL"]
    /\ UNCHANGED <<out, reading, astray, tx, in, writing, hOut, copies, hInTog, hInGot>>

StallIn ==
    /\ tx.resp # "ACK"
    /\ tx' = [tx EXCEPT !.resp = "STALL"]
    /\ UNCHANGED <<rx, out, reading, astray, in, writing, hOut, copies, hInTog, hInGot>>

-----------------------------------------------------------------------------
(***************************************************************************)
(* The interrupts.                                                         *)
(***************************************************************************)

\* Mutant: TOG_OK is not looked at.
Expected_Ignored == TRUE

\* The packet carries the toggle the endpoint expects (TOG_OK).
Expected == hOut.tog = rx.tog

\* Mutant: only a short packet ends a read.
ReadDone_ShortOnly(n, left) == n < Mps

ReadDone(n, left) == n < Mps \/ left = 0

\* Reception of the host's packet.  All of it is copied, also what is more
\* than what is left of the read, or belongs to none.
OutInterrupt ==
    LET n    == hOut.n
        left == (out.len - n) % W
    IN  IF Expected
        THEN /\ out' = [len |-> left, actual |-> (out.actual + n) % W]
             /\ rx' = [resp |-> IF ReadDone(n, left) THEN "NAK" ELSE "ACK", tog |-> ~rx.tog]
             /\ reading' = IF ReadDone(n, left) THEN 0 ELSE reading
             /\ astray' = IF reading > 0 /\ n > out.len THEN "spilt" ELSE astray
             /\ copies' = copies + 1
        ELSE UNCHANGED <<rx, out, reading, astray, copies>>

LastPacket == in.len <= Mps

\* Mutant: the endpoint goes on acknowledging after the last packet.
InInterrupt_KeepAck ==
    /\ \/ /\ LastPacket
          /\ in' = [len |-> 0, actual |-> in.actual + in.len]
          /\ tx' = [tx EXCEPT !.tog = ~@]
       \/ /\ ~LastPacket
          /\ in' = [len |-> in.len - Mps, actual |-> in.actual + Mps]
          /\ tx' = [resp |-> "ACK", tog |-> ~tx.tog, len |-> Least(in.len - Mps, Mps)]
    /\ UNCHANGED <<rx, out, reading, astray, writing>>

\* The host acknowledged the packet; the controller flipped the toggle.
InInterrupt ==
    /\ \/ /\ LastPacket
          /\ in' = [len |-> 0, actual |-> in.actual + in.len]
          /\ tx' = [tx EXCEPT !.resp = "NAK", !.tog = ~@]
       \/ /\ ~LastPacket
          /\ in' = [len |-> in.len - Mps, actual |-> in.actual + Mps]
          /\ tx' = [resp |-> "ACK", tog |-> ~tx.tog, len |-> Least(in.len - Mps, Mps)]
    /\ UNCHANGED <<rx, out, reading, astray, writing>>

-----------------------------------------------------------------------------
(***************************************************************************)
(* The host.                                                               *)
(***************************************************************************)

\* The host has a new packet to send.
NewPacket ==
    /\ hOut.fate # "sending"
    /\ \E n \in Packets : hOut' = [hOut EXCEPT !.fate = "sending", !.n = n]
    /\ copies' = 0
    /\ UNCHANGED <<device, hInTog, hInGot>>

Send == hOut.fate = "sending" /\ rx.resp = "ACK" /\ OutInterrupt

OutToken ==
    /\ Send
    /\ hOut' = [hOut EXCEPT !.fate = "acked", !.tog = ~@]
    /\ UNCHANGED <<tx, in, writing, hInTog, hInGot>>

\* The device's acknowledgement does not reach the host.
OutTokenLost ==
    /\ Send
    /\ UNCHANGED <<tx, in, writing, hOut, hInTog, hInGot>>

\* The host fetches a packet; one it already has is thrown away.
Fetch ==
    /\ tx.resp = "ACK"
    /\ hInGot' = IF tx.tog = hInTog THEN hInGot + tx.len ELSE hInGot
    /\ hInTog' = ~tx.tog
    /\ UNCHANGED <<hOut, copies>>

InToken == Fetch /\ InInterrupt

\* The host's acknowledgement does not reach the device.
InTokenLost == Fetch /\ UNCHANGED device

\* usbd_ep_clear_stall, for a host that found the endpoint stalled.  The OUT
\* endpoint acknowledges again at once, whether or not a read was started.
ClearHaltOut ==
    /\ rx.resp = "STALL"
    /\ rx' = [resp |-> "ACK", tog |-> FALSE]
    /\ astray' = IF reading = 0 THEN "unread" ELSE astray
    /\ hOut' = Drop
    /\ UNCHANGED <<out, reading, tx, in, writing, copies, hInTog, hInGot>>

\* Mutant: the toggle is not reset.
ClearHaltIn_KeepToggle ==
    /\ tx.resp = "STALL"
    /\ tx' = [tx EXCEPT !.resp = "NAK"]
    /\ hInTog' = FALSE
    /\ UNCHANGED <<rx, out, reading, astray, in, writing, hOut, copies, hInGot>>

ClearHaltIn ==
    /\ tx.resp = "STALL"
    /\ tx' = [tx EXCEPT !.resp = "NAK", !.tog = FALSE]
    /\ hInTog' = FALSE
    /\ UNCHANGED <<rx, out, reading, astray, in, writing, hOut, copies, hInGot>>

\* Setting 0 closes the endpoints, which this port does not do anything for.
CloseEndpoints == UNCHANGED <<device, hInGot>>

\* Another setting opens them: what was in progress is dropped.
OpenEndpoints ==
    /\ rx' = [resp |-> "NAK", tog |-> FALSE] /\ reading' = 0
    /\ tx' = [tx EXCEPT !.resp = "NAK", !.tog = FALSE] /\ writing' = 0
    /\ hInGot' = 0
    /\ UNCHANGED <<out, astray, in>>

\* SET_INTERFACE; the host starts over with DATA0 on both endpoints.
SetInterface(alt) ==
    /\ IF alt = 0 THEN CloseEndpoints ELSE OpenEndpoints
    /\ hOut' = Drop /\ copies' = 0 /\ hInTog' = FALSE

Next ==
    \/ \E len \in Reads : StartRead(len)
    \/ \E len \in Writes : StartWrite(len)
    \/ StallOut \/ StallIn
    \/ NewPacket \/ OutToken \/ OutTokenLost \/ InToken \/ InTokenLost
    \/ ClearHaltOut \/ ClearHaltIn
    \/ \E alt \in Alts : SetInterface(alt)

\* The class driver asks for more after each read, and the host polls and
\* retries until a handshake gets through.
Fairness ==
    /\ WF_vars(\E len \in Reads : StartRead(len))
    /\ WF_vars(OutToken) /\ WF_vars(InToken)

Spec     == Init /\ [][Next]_vars
FairSpec == Spec /\ Fairness

-----------------------------------------------------------------------------
(***************************************************************************)
(* Properties.                                                             *)
(***************************************************************************)

\* The types of the variables.
TypeOK ==
    /\ rx \in [resp : {"NAK", "ACK", "STALL"}, tog : BOOLEAN]
    /\ tx \in [resp : {"NAK", "ACK", "STALL"}, tog : BOOLEAN, len : 0 .. Mps]
    /\ out \in [len : 0 .. W - 1, actual : 0 .. W - 1] /\ reading \in 0 .. W - 1
    /\ astray \in {"no", "spilt", "unread"}
    /\ in \in [len : 0 .. W - 1, actual : 0 .. W - 1] /\ writing \in 0 .. W - 1
    /\ hOut \in [fate : {"dropped", "sending", "acked"}, n : 0 .. Mps, tog : BOOLEAN]
    /\ copies \in Nat /\ hInTog \in BOOLEAN /\ hInGot \in Nat

(* A packet the host believes delivered was taken by the device exactly    *)
(* once, and one it is still sending at most once, whatever handshakes got *)
(* lost and wherever the toggles were reset.                               *)
ExactlyOnce ==
    /\ copies <= 1
    /\ hOut.fate = "acked" => copies = 1

(* The host gets the bytes of a write in order and once: the packet the    *)
(* endpoint offers is the next one, or the one it already has; and when    *)
(* the driver reports the write complete the host has all of it.           *)
InOrder ==
    IF tx.resp = "ACK"
    THEN hInGot = in.actual + (IF tx.tog = hInTog THEN 0 ELSE tx.len)
    ELSE hInGot = writing

(* While a read is in progress, what is left of it and what it has received*)
(* make up what was asked for ("Max length of the data requested to read"),*)
(* and something is left; without one the endpoint takes no packet.  So    *)
(* data passes the end of the caller's buffer only where the code has      *)
(* nothing against it: if the host sends more than is left, or after it has*)
(* cleared the halt of the endpoint, which then acknowledges without a     *)
(* read.                                                                   *)
TransferFits ==
    IF reading > 0
    THEN astray = "spilt" \/ (out.actual + out.len = reading /\ out.len > 0)
    ELSE rx.resp = "ACK" => astray = "unread"

(* Every packet the host sends is settled.                                 *)
PacketSettled == hOut.fate = "sending" ~> hOut.fate # "sending"

(* Every write ends.                                                       *)
WriteEnds == tx.resp = "ACK" ~> tx.resp # "ACK"
=============================================================================
