----------------------------- MODULE Ep0Control ------------------------------
(***************************************************************************)
(* Control transfers on endpoint 0: the stage machine of core/usbd_core.c  *)
(* on top of the endpoint 0 half of the interrupt handler of               *)
(* port/ch32/ch32fs/usb_dc_usbfs.c, against a USB 2.0 host that may miss   *)
(* an acknowledgement, call a request off or reset the bus.                *)
(*                                                                         *)
(* Endpoint 0 of this controller has one DMA pointer for both directions:  *)
(* a SETUP packet lands where it points, and the handler reads the setup   *)
(* structure whatever the pointer was.  A SETUP packet is received whatever*)
(* the handshake bits say, as USB requires.  The receive toggle of endpoint*)
(* 0 only feeds TOG_OK, which its handler does not read, so it is left out.*)
(* What a request does is abstracted to the length its handler offers and  *)
(* its verdict, and to SET_ADDRESS, which the port defers.                 *)
(***************************************************************************)
EXTENDS Integers

CONSTANTS
    W,          \* modulus of uint32_t
    Mps,        \* maximum packet size of endpoint 0
    ReqBuf,     \* CONFIG_USBDEV_REQUEST_BUFFER_LEN
    MaxAddr,    \* device addresses are 0 .. MaxAddr
    Requests,   \* the requests the host may make
    Loss,       \* the packets whose handshake may get lost
    Aborts,     \* the phases in which the host may call a request off
    BusResets   \* may the host reset the bus?

Packets == {"setup", "dataIn", "lastIn", "statusIn", "dataOut", "statusOut"}
Phases  == {"idle", "again", "dataIn", "statusIn", "dataOut", "resend", "statusOut"}
NoAddr  == -1

(***************************************************************************)
(* A request: its direction, wLength, the length its handler offers, the   *)
(* handler's verdict, and the new address of a SET_ADDRESS.                *)
(***************************************************************************)
RequestType ==
    [dir : {"in", "out"}, wLength : 0 .. W - 1, offer : 0 .. W - 1,
     ok : BOOLEAN, addr : {NoAddr} \cup 0 .. MaxAddr]

\* The setup structure of zeroes a bus reset leaves.
ZeroSetup == [dir |-> "out", wLength |-> 0, offer |-> 0, ok |-> TRUE, addr |-> NoAddr]

ASSUME SizesAssumption ==
    /\ W \in Nat /\ Mps \in 1 .. W - 1 /\ ReqBuf \in 1 .. W - 1
    /\ MaxAddr \in Nat

ASSUME HostAssumption ==
    /\ Requests \subseteq RequestType /\ ZeroSetup \in Requests
    /\ Loss \subseteq Packets /\ Aborts \subseteq Phases /\ BusResets \in BOOLEAN

\* The requests of a host that asks for something only where there is something,
\* and does not send a device back to address 0 but by a reset.
OrderlyRequests ==
    \A r \in Requests :
        /\ r.dir = "in" /\ r.wLength > 0 /\ r.ok => r.offer > 0
        /\ r.addr # NoAddr => r.wLength = 0 /\ r.addr # 0

VARIABLES
    ep0State,   \* g_usbd_core.ep0_next_state
    residue,    \* ep0_data_buf_residue
    zlp,        \* zlp_flag
    setup,      \* g_usbd_core.setup
    setupMem,   \* g_ch32_usbfs_udc.setup
    dma,        \* UEP0_DMA: at the setup structure or in the request buffer
    tx,         \* UEP0_TX_CTRL and UEP0_TX_LEN
    rx,         \* the response bits of UEP0_RX_CTRL
    inEp,       \* in_ep[0]: xfer_len and actual_xfer_len
    outActual,  \* out_ep[0].actual_xfer_len
    txToggle,   \* ep0_tx_data_toggle
    devAddr,    \* g_ch32_usbfs_udc.dev_addr: address to take, 0 for none
    hwAddr,     \* DEV_ADDR
    phase,      \* the stage the host is in
    req,        \* its request
    moved,      \* data bytes it has moved
    hTog,       \* the toggle it expects
    hAddr,      \* the address it uses
    outcome     \* how the last request ended; while it is in progress, a record of
                \* its course: "lost" if the device could not take its SETUP packet,
                \* "spoilt" if a data packet was taken twice

core == <<ep0State, residue, zlp, setup>>
port == <<setupMem, dma, tx, rx, inEp, outActual, txToggle, devAddr, hwAddr>>
host == <<phase, req, moved, hTog, hAddr, outcome>>
vars == <<ep0State, residue, zlp, setup,
          setupMem, dma, tx, rx, inEp, outActual, txToggle, devAddr, hwAddr,
          phase, req, moved, hTog, hAddr, outcome>>

Least(a, b) == IF a <= b THEN a ELSE b
Sub(a, b)   == (a - b) % W

IsRead(r)   == r.dir = "in" /\ r.wLength > 0
IsWrite(r)  == r.dir = "out" /\ r.wLength > 0
Reply(r)    == Least(r.offer, r.wLength)

-----------------------------------------------------------------------------
(***************************************************************************)
(* The controller driver, as used on endpoint 0.                           *)
(***************************************************************************)

\* usbd_ep_start_write: the DMA pointer moves only if there is data.
StartWrite(len, toggle) ==
    /\ inEp' = [len |-> len, actual |-> 0]
    /\ tx'   = [resp |-> "ACK", tog |-> toggle, len |-> Least(len, Mps)]

\* Mutant: the response bits are not set.
StartRead_NotArmed ==
    /\ rx' = "NAK"
    /\ outActual' = 0

\* usbd_ep_start_read
StartRead ==
    /\ rx' = "ACK"
    /\ outActual' = 0

\* Mutant: the stall leaves the DMA pointer in the request buffer.
SetStall_KeepDma ==
    /\ tx'  = [tx EXCEPT !.resp = "STALL", !.tog = TRUE]
    /\ rx'  = "ACK"
    /\ UNCHANGED dma

\* usbd_ep_set_stall on endpoint 0 also re-arms the reception of a SETUP.
SetStall ==
    /\ tx'  = [tx EXCEPT !.resp = "STALL", !.tog = TRUE]
    /\ dma' = "setup"
    /\ rx'  = "ACK"

-----------------------------------------------------------------------------
(***************************************************************************)
(* The interrupts of endpoint 0.                                           *)
(***************************************************************************)

\* A control write longer than the request buffer is stalled at once and
\* leaves the stage machine where it was.
SetupTooLong(s) ==
    /\ s.dir = "out" /\ s.wLength > ReqBuf
    /\ SetStall
    /\ UNCHANGED <<ep0State, residue, zlp, inEp, outActual, devAddr, hwAddr>>

\* The data of a control write is received first.
SetupWrite(s) ==
    /\ IsWrite(s) /\ s.wLength <= ReqBuf
    /\ ep0State' = "OUT_DATA" /\ residue' = s.wLength /\ zlp' = FALSE
    /\ StartRead /\ dma' = "data"
    /\ tx' = [tx EXCEPT !.resp = "NAK", !.tog = FALSE]
    /\ UNCHANGED <<inEp, devAddr, hwAddr>>

\* Mutant: every address is taken at once.
TakeAddress_Now(s) ==
    /\ devAddr' = devAddr
    /\ hwAddr'  = IF s.addr = NoAddr THEN hwAddr ELSE s.addr

\* The handler of SET_ADDRESS: address 0 is taken now, another one later.
TakeAddress(s) ==
    /\ devAddr' = IF s.addr = NoAddr THEN devAddr ELSE s.addr
    /\ hwAddr'  = IF s.addr = 0 THEN 0 ELSE hwAddr

\* Mutant: the verdict of the handler is ignored.
Refused_NoVerdict(s) == Reply(s) > ReqBuf

Refused(s) == ~s.ok \/ Reply(s) > ReqBuf

SetupRefused(s) ==
    /\ ~IsWrite(s) /\ Refused(s)
    /\ ep0State' = "SETUP" /\ zlp' = FALSE
    /\ residue' = IF s.ok THEN Reply(s) ELSE s.wLength
    /\ SetStall
    /\ UNCHANGED <<inEp, outActual, devAddr, hwAddr>>

\* Mutant: a full last packet is always followed by an empty one.
NeedsZlp_Always(s) == s.offer % Mps = 0

\* The host asked for more, and the reply fills its last packet.
NeedsZlp(s) == s.wLength > s.offer /\ s.offer % Mps = 0

\* A reply without data leaves the pointer where it is.
ReplyDma(s) == IF Reply(s) > 0 THEN "data" ELSE dma

\* The reply, or the status of a request without data, is queued.
SetupServed(s) ==
    /\ ~IsWrite(s) /\ ~Refused(s)
    /\ ep0State' = IF Reply(s) > 0 THEN "IN_DATA" ELSE "IN_STATUS"
    /\ residue' = Reply(s) /\ zlp' = NeedsZlp(s)
    /\ StartWrite(Reply(s), txToggle)
    /\ dma' = ReplyDma(s)
    /\ rx' = "NAK"
    /\ TakeAddress(s)
    /\ UNCHANGED outActual

\* A SETUP packet with request r arrives.
SetupInterrupt(r) ==
    LET s == IF dma = "setup" THEN r ELSE setupMem IN
    /\ setupMem' = s /\ setup' = s
    /\ SetupTooLong(s) \/ SetupWrite(s) \/ SetupRefused(s) \/ SetupServed(s)
    /\ UNCHANGED txToggle

\* Mutant: the setup pointer is restored only after a request without data.
InStatus_NoWrite == setupMem.wLength = 0

\* The IN packet that completed was the status of the request in setupMem.
InStatus == setupMem.wLength = 0 \/ setupMem.dir = "out"

NextToggle(full) == IF full THEN ~txToggle ELSE TRUE

\* What is left to send after a completion of n bytes.
InLeft(n) == Sub(residue, n)

\* The host acknowledged an IN packet.
InInterrupt ==
    LET full   == inEp.len >= Mps
        n      == inEp.actual + (IF full THEN Mps ELSE inEp.len)
        left   == InLeft(n)
        toggle == NextToggle(full)
        more   == left # 0 \/ zlp
    IN  /\ residue' = left
        /\ zlp' = (zlp /\ left # 0)
        /\ \/ /\ more
              /\ StartWrite(left, toggle)
              /\ rx' = IF InStatus THEN "ACK" ELSE rx
              /\ UNCHANGED <<ep0State, outActual>>
           \/ /\ ~more
              /\ inEp' = [len |-> IF full THEN inEp.len - Mps ELSE 0, actual |-> n]
              /\ UNCHANGED tx
              /\ \/ /\ IsRead(setup)
                    /\ ep0State' = "OUT_STATUS"
                    /\ StartRead
                 \/ /\ ~IsRead(setup)
                    /\ ep0State' = IF ep0State = "IN_STATUS" THEN "SETUP" ELSE ep0State
                    /\ rx' = IF InStatus THEN "ACK" ELSE rx
                    /\ UNCHANGED outActual
        /\ dma' = IF InStatus THEN "setup" ELSE IF left # 0 THEN "data" ELSE dma
        /\ txToggle' = (toggle \/ InStatus)
        /\ hwAddr'  = IF devAddr > 0 THEN devAddr ELSE hwAddr
        /\ devAddr' = 0
        /\ UNCHANGED <<setup, setupMem>>

OutReceived(left) == left = 0

\* An OUT packet of n bytes was received, into the setup structure if the
\* DMA pointer is there; what that leaves in it is arbitrary.
OutInterrupt(n) ==
    LET total == outActual + n
        left  == Sub(residue, total)
    IN  /\ \/ /\ total > 0 /\ OutReceived(left) /\ ~setup.ok
              /\ ep0State' = "SETUP" /\ residue' = left
              /\ SetStall
              /\ outActual' = total
              /\ UNCHANGED inEp
           \/ /\ total > 0 /\ OutReceived(left) /\ setup.ok
              /\ ep0State' = "IN_STATUS" /\ residue' = left
              /\ StartWrite(0, txToggle)
              /\ rx' = IF n = 0 THEN "ACK" ELSE "NAK"
              /\ dma' = IF n = 0 THEN "setup" ELSE dma
              /\ outActual' = total
           \/ /\ total > 0 /\ ~OutReceived(left)
              /\ residue' = left
              /\ StartRead
              /\ dma' = IF n = 0 THEN "setup" ELSE "data"
              /\ UNCHANGED <<ep0State, inEp, tx>>
           \/ /\ total = 0
              /\ ep0State' = "SETUP"
              /\ dma' = "setup" /\ rx' = "ACK"
              /\ UNCHANGED <<residue, inEp, outActual, tx>>
        /\ txToggle' = (txToggle \/ n = 0)
        /\ IF dma = "setup" /\ n > 0 THEN setupMem' \in Requests ELSE UNCHANGED setupMem
        /\ UNCHANGED <<zlp, setup, devAddr, hwAddr>>

-----------------------------------------------------------------------------
(***************************************************************************)
(* The host.  A transaction whose handshake is lost is complete for the    *)
(* side that sent the handshake only.                                      *)
(***************************************************************************)
Hears == hwAddr = hAddr

\* Where the controller starts: the first bus reset is over.
Init ==
    /\ ep0State = "SETUP" /\ residue = 0 /\ zlp = FALSE
    /\ setup = ZeroSetup /\ setupMem = ZeroSetup /\ dma = "setup"
    /\ tx = [resp |-> "NAK", tog |-> FALSE, len |-> 0] /\ rx = "ACK"
    /\ inEp = [len |-> 0, actual |-> 0] /\ outActual = 0 /\ txToggle = TRUE
    /\ devAddr = 0 /\ hwAddr = 0
    /\ phase = "idle" /\ req = ZeroSetup /\ moved = 0 /\ hTog = TRUE /\ hAddr = 0
    /\ outcome = "none"

FirstStage(r) == IF IsRead(r) THEN "dataIn" ELSE IF IsWrite(r) THEN "dataOut" ELSE "statusIn"

AfterData(n) == IF n = req.wLength THEN "statusIn" ELSE "dataOut"

\* A new request.
Submit ==
    /\ phase = "idle" /\ Hears
    /\ \E r \in Requests :
         /\ req' = r
         /\ SetupInterrupt(r)
         /\ \/ phase' = FirstStage(r)
            \/ "setup" \in Loss /\ phase' = "again"
    /\ moved' = 0 /\ hTog' = TRUE
    /\ outcome' = IF dma = "setup" THEN "none" ELSE "lost"
    /\ UNCHANGED hAddr

\* The host missed the handshake and sends the SETUP again.
Resubmit ==
    /\ phase = "again" /\ Hears
    /\ SetupInterrupt(req)
    /\ phase' = FirstStage(req)
    /\ UNCHANGED <<req, moved, hTog, hAddr, outcome>>

\* The host takes a data packet; a repeated one is thrown away.
AcceptData ==
    /\ phase = "dataIn"
    /\ \/ /\ tx.tog = hTog
          /\ moved' = moved + tx.len
          /\ hTog' = ~hTog
          /\ phase' = IF tx.len < Mps \/ moved + tx.len >= req.wLength
                      THEN "statusOut" ELSE "dataIn"
       \/ tx.tog # hTog /\ UNCHANGED <<phase, moved, hTog>>
    /\ UNCHANGED <<req, hAddr, outcome>>

AcceptStatus ==
    /\ phase = "statusIn" /\ tx.tog = TRUE /\ tx.len = 0
    /\ phase' = "idle" /\ outcome' = "passed"
    /\ hAddr' = IF req.addr = NoAddr THEN hAddr ELSE req.addr
    /\ UNCHANGED <<req, moved, hTog>>

AcceptIn == AcceptData \/ AcceptStatus

Offered == tx.resp = "ACK" /\ Hears

InToken == Offered /\ AcceptIn /\ InInterrupt

\* The acknowledgement of an IN packet does not reach the device.
InTokenLost ==
    /\ Offered /\ AcceptIn
    /\ \/ phase' = "dataIn" /\ "dataIn" \in Loss
       \/ phase' = "statusOut" /\ "lastIn" \in Loss
       \/ phase' = "idle" /\ "statusIn" \in Loss
    /\ UNCHANGED <<core, port>>

InStalled ==
    /\ phase \in {"dataIn", "statusIn"} /\ tx.resp = "STALL" /\ Hears
    /\ phase' = "idle" /\ outcome' = "refused"
    /\ UNCHANGED <<core, port, req, moved, hTog, hAddr>>

\* A data packet of a control write is on its way to the device.
SendData ==
    LET n == Least(req.wLength - moved, Mps) IN
    /\ phase = "dataOut" /\ rx = "ACK" /\ Hears
    /\ OutInterrupt(n)
    /\ moved' = moved + n /\ hTog' = TRUE
    /\ \/ phase' = AfterData(moved')
       \/ "dataOut" \in Loss /\ phase' = "resend"
    /\ UNCHANGED <<req, hAddr, outcome>>

\* The host missed the handshake and sends the same packet again.
Resend ==
    LET n == IF moved % Mps = 0 THEN Mps ELSE moved % Mps IN
    /\ phase = "resend" /\ rx = "ACK" /\ Hears
    /\ OutInterrupt(n)
    /\ phase' = AfterData(moved)
    /\ outcome' = IF outcome = "none" THEN "spoilt" ELSE outcome
    /\ UNCHANGED <<req, moved, hTog, hAddr>>

SendStatus ==
    /\ phase = "statusOut" /\ rx = "ACK" /\ Hears
    /\ OutInterrupt(0)
    /\ \/ phase' = "idle" /\ outcome' = "passed"
       \/ "statusOut" \in Loss /\ UNCHANGED <<phase, outcome>>
    /\ UNCHANGED <<req, moved, hTog, hAddr>>

CallOff ==
    /\ phase # "idle" /\ phase \in Aborts
    /\ phase' = "idle" /\ outcome' = "cancelled"
    /\ UNCHANGED <<core, port, req, moved, hTog, hAddr>>

\* The bus reset interrupt and usbd_event_reset_handler.
BusReset ==
    /\ BusResets
    /\ ep0State' = "SETUP"
    /\ setupMem' = ZeroSetup /\ dma' = "setup"
    /\ tx' = [resp |-> "NAK", tog |-> FALSE, len |-> 0] /\ rx' = "ACK"
    /\ inEp' = [len |-> 0, actual |-> 0] /\ outActual' = 0 /\ txToggle' = TRUE
    /\ devAddr' = 0 /\ hwAddr' = 0
    /\ phase' = "idle" /\ hAddr' = 0
    /\ outcome' = IF phase = "idle" THEN outcome ELSE "cancelled"
    /\ UNCHANGED <<residue, zlp, setup, req, moved, hTog>>

Deliver == Resubmit \/ InToken \/ InStalled \/ SendData \/ Resend \/ SendStatus

Next == Submit \/ Deliver \/ InTokenLost \/ CallOff \/ BusReset

-----------------------------------------------------------------------------
\* The host finishes the request it has begun: it retries what was not
\* answered, and handshakes do not get lost for ever.
Fairness == WF_vars(Deliver)

Spec     == Init /\ [][Next]_vars
FairSpec == Spec /\ Fairness

-----------------------------------------------------------------------------
(***************************************************************************)
(* Properties.                                                             *)
(***************************************************************************)

\* The types of the variables.
TypeOK ==
    /\ ep0State \in {"SETUP", "IN_DATA", "OUT_DATA", "IN_STATUS", "OUT_STATUS"}
    /\ residue \in 0 .. W - 1 /\ zlp \in BOOLEAN
    /\ setup \in Requests /\ setupMem \in Requests
    /\ dma \in {"setup", "data"}
    /\ tx \in [resp : {"NAK", "ACK", "STALL"}, tog : BOOLEAN, len : 0 .. Mps]
    /\ rx \in {"NAK", "ACK"}
    /\ inEp \in [len : 0 .. W - 1, actual : Nat] /\ outActual \in Nat
    /\ txToggle \in BOOLEAN
    /\ devAddr \in 0 .. MaxAddr /\ hwAddr \in 0 .. MaxAddr
    /\ phase \in Phases /\ req \in Requests /\ moved \in Nat
    /\ hTog \in BOOLEAN /\ hAddr \in 0 .. MaxAddr
    /\ outcome \in {"none", "lost", "spoilt", "passed", "refused", "cancelled"}

Busy == phase # "idle"

(* The request the device works on is the one the host has in progress:    *)
(* every SETUP packet lands in the setup structure, whatever transfer came *)
(* before and however it ended ("In status, start reading setup").         *)
ActsOnRequest == Busy => setup = req

(* Between requests endpoint 0 is left ready for the next SETUP packet,    *)
(* with the toggle the first packet of the next reply must carry.          *)
ReadyForSetup == phase = "idle" => dma = "setup" /\ txToggle = TRUE

(* The stages of the two sides agree once the data stage is over, and the  *)
(* host has then all of the reply ("indicate the transfer done after zlp   *)
(* sent").                                                                 *)
StagesAgree ==
    /\ phase = "statusOut" =>
         /\ moved = Reply(req)
         /\ ep0State \in {"OUT_STATUS", "SETUP"} /\ residue = 0 /\ ~zlp
    /\ phase = "statusIn" =>
         \/ ep0State = "IN_STATUS" /\ tx = [resp |-> "ACK", tog |-> TRUE, len |-> 0]
         \/ ep0State = "SETUP" /\ tx.resp = "STALL"

(* Whatever the host does, one direction of endpoint 0 answers: a handler  *)
(* that left both NAKing would mute a device that acts only on packets.    *)
NeverMute == tx.resp # "NAK" \/ rx = "ACK"

(* The device answers at the address the host uses: the new one is taken   *)
(* with the status stage of SET_ADDRESS, neither before nor later.         *)
AddressInStep == hwAddr = hAddr

(* Every request ends.                                                     *)
EveryRequestEnds == Busy ~> ~Busy

Goal(r)   == IF r.dir = "in" THEN Reply(r) ELSE r.wLength
Serves(r) == r.ok /\ Goal(r) <= ReqBuf

(* The two ends together are a control pipe, whatever gets lost and        *)
(* whatever the host calls off: a request whose SETUP packet the device has*)
(* taken passes only if the device serves it, with all of its data moved   *)
(* and no packet of a write taken twice, and is refused only by a device   *)
(* that means it.                                                          *)
Pipe == INSTANCE ControlPipe WITH busy <- Busy, request <- req
ImplementsPipe == Pipe!Spec
=============================================================================
