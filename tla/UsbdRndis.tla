------------------------------- MODULE UsbdRndis -------------------------------
(***************************************************************************)
(* The network function of a device (class/wireless/usbd_rndis.c): answers *)
(* to encapsulated commands from one buffer, and Ethernet frames, each in  *)
(* a message of its own, over two bulk endpoints.                          *)
(*                                                                         *)
(* Handlers and callbacks are interrupts; the program polls for frames     *)
(* (usbd_rndis_eth_rx).  The notification of an answer is left out, as the *)
(* host of this repository does not listen to it.                          *)
(***************************************************************************)
EXTENDS RndisMessages

CONSTANTS
    RxTotal,        \* size of the receive buffer, and of the transmit buffer
    FrameLens,      \* lengths of Ethernet frames
    Numbers         \* bound: frames are numbered modulo this

ASSUME RndisAssumption ==
    /\ RxTotal \in Nat \ {0}
    /\ FrameLens \subseteq Nat \ {0} /\ \A len \in FrameLens : HeaderLen + len < RxTotal
    /\ Numbers \in Nat \ {0, 1}

VARIABLES
    configured,     \* usb_device_is_configured
    initState,      \* init_state
    rspPending,     \* set_rsp_get: a command was sent and its answer not fetched
    rspBuffer,      \* rndis_encapsulated_resp_buffer: kind and request number
    indicating,     \* usbd_rndis_set_connect: "no" if it does not run, "tested" from its
                    \* test on, "overtaken" if a command came since; "spoilt" when that
                    \* has cost a command its answer
    txLength,       \* g_rndis_tx_data_length
    txData,         \* what the IN endpoint still has to send
    rxArmed,        \* the OUT endpoint receives
    rxBuffer,       \* g_rndis_rx_buffer, as far as it is filled
    rxLength,       \* g_rndis_rx_data_length
    rxStep          \* steps of usbd_rndis_start_read the program has still to do

deviceVars == <<configured, initState, rspPending, rspBuffer, indicating, txLength, txData,
                rxArmed, rxBuffer, rxLength, rxStep>>
controlVars == <<initState, rspPending, rspBuffer, indicating>>
txVars      == <<txLength, txData>>
rxVars      == <<rxArmed, rxBuffer, rxLength, rxStep>>

NoResponse == [kind |-> "none", id |-> 0]

DeviceInit ==
    /\ configured = FALSE /\ initState = "uninitialized"
    /\ rspPending = FALSE /\ rspBuffer = NoResponse /\ indicating = "no"
    /\ txLength = 0 /\ txData = <<>>
    /\ rxArmed = FALSE /\ rxBuffer = <<>> /\ rxLength = 0 /\ rxStep = <<>>

-----------------------------------------------------------------------------
(***************************************************************************)
(* Encapsulated commands.                                                  *)
(***************************************************************************)
\* The answer of a handler repeats the request number.
Answered(command) == rspBuffer' = command

InitCommand(command) ==
    command.kind = "init" /\ Answered(command) /\ initState' = "initialized"

QueryCommand(command) ==
    command.kind = "query" /\ Answered(command) /\ UNCHANGED initState

\* The filter this host sets is not 0.
SetCommand(command) ==
    /\ command.kind \in {"filter", "multicast"} /\ Answered(command)
    /\ initState' = IF command.kind = "filter" THEN "data_initialized" ELSE initState

KeepaliveCommand(command) ==
    command.kind = "keepalive" /\ Answered(command) /\ UNCHANGED initState

\* The program is between its test and the end of its writes.
Indicates == indicating \in {"tested", "overtaken"}

\* SEND_ENCAPSULATED_COMMAND
SendEncapsulated(command) ==
    /\ rspPending' = TRUE
    /\ indicating' = IF Indicates THEN "overtaken" ELSE "no"
    /\ \/ InitCommand(command) \/ QueryCommand(command)
       \/ SetCommand(command) \/ KeepaliveCommand(command)

\* GET_ENCAPSULATED_RESPONSE; the answer stays in the buffer.
GetEncapsulated ==
    /\ rspPending' = FALSE
    /\ indicating' = IF Indicates THEN indicating ELSE "no"
    /\ UNCHANGED <<initState, rspBuffer>>

\* Mutant: an answer that is to be fetched is not spared.
MayIndicate_Always == configured

MayIndicate == configured /\ ~rspPending

\* usbd_rndis_set_connect, which runs with the interrupt enabled: the test ...
TestConnect ==
    /\ ~Indicates /\ MayIndicate
    /\ indicating' = "tested"
    /\ UNCHANGED <<configured, initState, rspPending, rspBuffer, txVars, rxVars>>

\* ... and the writes.  They replace whatever a command put there in between;
\* an answer that is mixed of both stands for one that is replaced.
SetConnect ==
    /\ Indicates
    /\ rspBuffer' = [kind |-> "indicate", id |-> 0]
    /\ indicating' = IF indicating = "overtaken" /\ rspPending THEN "spoilt" ELSE "no"
    /\ UNCHANGED <<configured, initState, rspPending, txVars, rxVars>>

-----------------------------------------------------------------------------
(***************************************************************************)
(* Frames.                                                                 *)
(***************************************************************************)
\* The length is compared with the buffer as if there were no header.
Clipped(len) == IF len > RxTotal THEN RxTotal ELSE len

\* usbd_rndis_eth_tx and usbd_rndis_start_write
EthTx(no, len) ==
    /\ configured /\ txLength = 0
    /\ txData' = Padded(Message(no, Clipped(len))) /\ txLength' = Len(txData')
    /\ UNCHANGED <<configured, controlVars, rxVars>>

\* A packet leaves; rndis_bulk_in follows the last one.
PacketSent ==
    /\ txData # <<>>
    /\ txData' = Rest(txData)
    /\ txLength' = IF txData' = <<>> THEN 0 ELSE txLength
    /\ UNCHANGED <<configured, controlVars, rxVars>>

\* The test of rndis_bulk_out.
Accepted(s) == StartsMessage(s) /\ Len(s) >= MessageLen(s)

\* A packet arrives.  The read ends when it is short or the buffer exactly full;
\* rndis_bulk_out keeps the message or starts to read again.
PacketReceived(packet) ==
    LET s == rxBuffer \o packet IN
    /\ rxArmed
    /\ IF Len(packet) < Mps \/ Len(s) = RxTotal
       THEN IF Accepted(s)
            THEN rxArmed' = FALSE /\ rxBuffer' = s /\ rxLength' = s[1].k
            ELSE rxBuffer' = <<>> /\ rxLength' = 0 /\ UNCHANGED rxArmed
       ELSE rxBuffer' = s /\ UNCHANGED <<rxArmed, rxLength>>
    /\ UNCHANGED <<configured, controlVars, txVars, rxStep>>

\* Mutant: the read is started before the length is cleared.
StartRead_ArmFirst == <<"arm", "clear">>

\* The steps of usbd_rndis_start_read.
StartRead == <<"clear", "arm">>

\* usbd_rndis_eth_rx, up to the restart; without memory the frame is dropped.
EthRx ==
    /\ rxStep = <<>> /\ rxLength # 0
    /\ rxStep' = StartRead
    /\ UNCHANGED <<configured, controlVars, txVars, rxArmed, rxBuffer, rxLength>>

RestartRx ==
    /\ rxStep # <<>> /\ rxStep' = Tail(rxStep)
    /\ \/ Head(rxStep) = "clear" /\ rxLength' = 0 /\ UNCHANGED <<rxArmed, rxBuffer>>
       \/ Head(rxStep) = "arm" /\ rxArmed' = TRUE /\ rxBuffer' = <<>> /\ UNCHANGED rxLength
    /\ UNCHANGED <<configured, controlVars, txVars>>

\* A bus reset; the pending answer is not forgotten.
DeviceReset ==
    /\ configured' = FALSE
    /\ rxLength' = 0 /\ rxArmed' = FALSE /\ rxBuffer' = <<>>
    /\ txLength' = 0 /\ txData' = <<>>
    /\ UNCHANGED <<controlVars, rxStep>>

\* The CONFIGURED event starts to read.
DeviceConfigured ==
    /\ configured' = TRUE
    /\ rxLength' = 0 /\ rxArmed' = TRUE /\ rxBuffer' = <<>>
    /\ UNCHANGED <<controlVars, txVars, rxStep>>
=============================================================================
