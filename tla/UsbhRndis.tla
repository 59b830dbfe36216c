------------------------------- MODULE UsbhRndis -------------------------------
(***************************************************************************)
(* The network driver of the host (class/wireless/usbh_rndis.c): the       *)
(* commands of usbh_rndis_connect, the polls of the receive thread until   *)
(* the device is connected, and the messages it finds in what it receives. *)
(*                                                                         *)
(* One thread at a time uses the control endpoint: the commands share      *)
(* g_rndis_buf and no lock.                                                *)
(***************************************************************************)
EXTENDS RndisMessages

CONSTANTS
    RxSize,         \* CONFIG_USBHOST_RNDIS_ETH_MAX_RX_SIZE, also the size of a transfer
    Dummy,          \* fewer units than this cannot be a message
    Ids             \* bound: request_id counts modulo this

ASSUME HostAssumption ==
    /\ RxSize \in Nat \ {0} /\ RxSize % Mps = 0 /\ Dummy \in 1 .. HeaderLen /\ Ids \in Nat \ {0, 1}

VARIABLES
    phase,      \* "off", "connect", "poll", "up", or "failed" (not registered)
    command,    \* the last command sent: kind and request number
    answer,     \* what was fetched for it, none yet if it is still in g_rndis_buf
    asking,     \* its answer is still to be fetched
    left,       \* commands usbh_rndis_connect has still to send
    inUrb,      \* the IN transfer is under way
    received,   \* g_rndis_rx_buffer, g_rndis_rx_length units of it
    parsing,    \* messages are being taken from it
    hung,       \* the loop without end after an overflow
    outData     \* what the OUT transfer still has to send

hostVars == <<phase, command, answer, asking, left, inUrb, received, parsing, hung, outData>>
askVars  == <<phase, command, answer, asking, left>>
inVars   == <<inUrb, received, parsing, hung>>

\* INITIALIZE, the list of the supported queries, the queries, two settings.
ConnectCommands == <<"init", "query", "query", "filter", "multicast">>

NoCommand == [kind |-> "none", id |-> 0]

HostInit ==
    /\ phase = "off" /\ command = NoCommand /\ answer = NoCommand
    /\ asking = FALSE /\ left = <<>>
    /\ inUrb = FALSE /\ received = <<>> /\ parsing = FALSE /\ hung = FALSE
    /\ outData = <<>>

\* usbh_rndis_connect is called for a new device and clears the structure.
HostConnects ==
    /\ phase' = "connect" /\ left' = ConnectCommands
    /\ asking' = FALSE /\ command' = NoCommand /\ answer' = NoCommand
    /\ inUrb' = FALSE /\ received' = <<>> /\ parsing' = FALSE /\ outData' = <<>>
    /\ UNCHANGED hung

-----------------------------------------------------------------------------
\* The command that is due: of the connect sequence, the poll of the receive
\* thread, or a keepalive of the program.
Due ==
    CASE phase = "connect" -> Head(left)
      [] phase = "poll"    -> "query"
      [] phase = "up"      -> "keepalive"
      [] OTHER             -> "none"

NextCommand == [kind |-> Due, id |-> (command.id + 1) % Ids]

CommandSent ==
    /\ Due # "none" /\ ~asking
    /\ command' = NextCommand /\ answer' = NoCommand /\ asking' = TRUE
    /\ UNCHANGED <<phase, left>>

\* The end of a command.  The device reports every link as connected.
AnswerFetched(response) ==
    /\ asking /\ asking' = FALSE
    /\ answer' = response
    /\ left' = IF phase = "connect" THEN Tail(left) ELSE left
    /\ phase' = CASE phase = "connect" /\ left' = <<>> -> "poll"
                  [] phase = "poll"                    -> "up"
                  [] OTHER                             -> phase
    /\ UNCHANGED command

\* A control transfer fails: the connect function gives up, the receive
\* thread polls again, the program is told.
ControlFails ==
    /\ Due # "none" /\ asking' = FALSE
    /\ phase' = IF phase = "connect" THEN "failed" ELSE phase
    /\ command' = IF asking THEN command ELSE NextCommand
    /\ UNCHANGED <<answer, left>>

-----------------------------------------------------------------------------
\* The receive thread submits the next transfer, behind what it has.
SubmitIn ==
    /\ phase = "up" /\ ~inUrb /\ ~parsing /\ ~hung
    /\ inUrb' = TRUE
    /\ UNCHANGED <<askVars, received, parsing, hung, outData>>

\* A packet arrives.  The transfer ends when it is short or there is no more
\* room; what has come is taken apart if a short packet ended it.
PacketIn(packet) ==
    LET s    == received \o packet
        ends == Len(packet) < Mps \/ Len(s) >= RxSize
    IN  /\ inUrb
        /\ received' = s
        /\ inUrb' = ~ends
        /\ parsing' = (ends /\ Len(s) % Mps # 0)
        /\ hung' = (ends /\ Len(s) % Mps = 0 /\ Len(s) = RxSize)
        /\ UNCHANGED <<askVars, outData>>

\* The last dummy byte is dropped.
Remainder(s) == IF Len(s) < Dummy THEN <<>> ELSE s

\* One round of the loop: the message at the start, or an error.
TakeMessage ==
    /\ parsing
    /\ received' = IF StartsMessage(received)
                   THEN Remainder(SubSeq(received, MessageLen(received) + 1, Len(received)))
                   ELSE <<>>
    /\ parsing' = (received' # <<>>)
    /\ UNCHANGED <<askVars, inUrb, hung, outData>>

\* usbh_rndis_eth_output; the message is padded as the device pads its own.
EthOutput(transfer) ==
    /\ phase = "up" /\ outData = <<>>
    /\ outData' = transfer
    /\ UNCHANGED <<askVars, inVars>>

PacketOut(rest) == outData' = rest /\ UNCHANGED <<askVars, inVars>>
=============================================================================
