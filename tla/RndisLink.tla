------------------------------- MODULE RndisLink -------------------------------
(***************************************************************************)
(* A network link: the device of UsbdRndis on the host of UsbhRndis, with  *)
(* failing control transfers and bus resets.  What is on its way is kept   *)
(* for the properties.                                                     *)
(***************************************************************************)
EXTENDS UsbdRndis, UsbhRndis

CONSTANTS MaxLinkFaults     \* bound: failing control transfers, frames without memory, bus resets

ASSUME FaultsAssumption == MaxLinkFaults \in Nat

VARIABLES
    toHost, toDevice,   \* frames sent and not yet handed over: number and length
    heard,              \* the frames handed over last, on the host and on the device
    linkFaults

linkVars == <<deviceVars, hostVars, toHost, toDevice, heard, linkFaults>>
wayVars == <<toHost, toDevice, heard>>

Nothing == <<>>
MaxOnTheWay == 2        \* bound: frames on their way, both directions together
RoomOnTheWay == Len(toHost) + Len(toDevice) < MaxOnTheWay

LinkInit ==
    /\ DeviceInit /\ HostInit
    /\ toHost = <<>> /\ toDevice = <<>> /\ heard = [host |-> Nothing, device |-> Nothing]
    /\ linkFaults = 0

ALinkFault == linkFaults < MaxLinkFaults /\ linkFaults' = linkFaults + 1
NoLinkFault == UNCHANGED linkFaults

\* The program of the device is between two calls.
BetweenCalls == rxStep = <<>>

\* A bus reset ends whatever was on its way.
BusReset ==
    /\ BetweenCalls /\ ALinkFault
    /\ DeviceReset
    /\ phase' = "off" /\ asking' = FALSE /\ inUrb' = FALSE /\ outData' = <<>>
    /\ received' = <<>> /\ parsing' = FALSE
    /\ toHost' = <<>> /\ toDevice' = <<>>
    /\ UNCHANGED <<command, answer, left, hung, heard>>

Configure ==
    /\ phase = "off" /\ BetweenCalls
    /\ DeviceConfigured /\ HostConnects
    /\ UNCHANGED <<wayVars, linkFaults>>

-----------------------------------------------------------------------------
Send ==
    /\ CommandSent /\ SendEncapsulated(command')
    /\ UNCHANGED <<configured, txVars, rxVars, inVars, outData, wayVars, linkFaults>>

Get ==
    /\ AnswerFetched(rspBuffer) /\ GetEncapsulated
    /\ UNCHANGED <<configured, txVars, rxVars, inVars, outData, wayVars, linkFaults>>

\* A request fails before or after the device has carried it out.
ControlLost ==
    /\ ALinkFault /\ ControlFails
    /\ \/ UNCHANGED controlVars
       \/ ~asking /\ SendEncapsulated(NextCommand)
       \/ asking /\ GetEncapsulated
    /\ UNCHANGED <<configured, txVars, rxVars, inVars, outData, wayVars>>

Indicate == (TestConnect \/ SetConnect) /\ UNCHANGED <<hostVars, wayVars, linkFaults>>

Control == Send \/ Get \/ ControlLost \/ Indicate

-----------------------------------------------------------------------------
\* The number of the next frame in a direction.
After(queue, last) ==
    IF queue # <<>> THEN (queue[Len(queue)][1] + 1) % Numbers
    ELSE IF last # Nothing THEN (last[1].no + 1) % Numbers ELSE 0

DeviceSends ==
    /\ RoomOnTheWay
    /\ \E len \in FrameLens :
         LET no == After(toHost, heard.host) IN
         EthTx(no, len) /\ toHost' = Append(toHost, <<no, len>>)
    /\ UNCHANGED <<hostVars, toDevice, heard, linkFaults>>

HostSends ==
    /\ RoomOnTheWay
    /\ \E len \in FrameLens :
         LET no == After(toDevice, heard.device) IN
         EthOutput(Padded(Message(no, len))) /\ toDevice' = Append(toDevice, <<no, len>>)
    /\ UNCHANGED <<deviceVars, toHost, heard, linkFaults>>

PacketToHost ==
    /\ PacketIn(Packet(txData)) /\ PacketSent
    /\ UNCHANGED <<wayVars, linkFaults>>

PacketToDevice ==
    /\ outData # <<>>
    /\ PacketReceived(Packet(outData)) /\ PacketOut(Rest(outData))
    /\ UNCHANGED <<wayVars, linkFaults>>

\* usbh_rndis_eth_input
HostReceives ==
    /\ TakeMessage
    /\ IF StartsMessage(received)
       THEN /\ heard' = [heard EXCEPT !.host = FrameAt(received)]
            /\ toHost' = IF toHost = <<>> THEN <<>> ELSE Tail(toHost)
       ELSE UNCHANGED <<heard, toHost>>
    /\ UNCHANGED <<deviceVars, toDevice, linkFaults>>

DeviceReceives ==
    /\ EthRx
    /\ \/ NoLinkFault /\ heard' = [heard EXCEPT !.device = SubSeq(rxBuffer, HeaderLen + 1, HeaderLen + rxLength)]
       \/ ALinkFault /\ UNCHANGED heard
    /\ toDevice' = IF toDevice = <<>> THEN <<>> ELSE Tail(toDevice)
    /\ UNCHANGED <<hostVars, toHost>>

DeviceRestarts == RestartRx /\ UNCHANGED <<hostVars, wayVars, linkFaults>>
HostSubmits    == SubmitIn /\ UNCHANGED <<deviceVars, wayVars, linkFaults>>

Data == \/ DeviceSends \/ HostSends \/ PacketToHost \/ PacketToDevice
        \/ HostReceives \/ DeviceReceives \/ DeviceRestarts \/ HostSubmits

LinkNext == BusReset \/ Configure \/ Control \/ Data

(* The controllers move packets, the receive thread of the host and the    *)
(* program of the device run, the host asks for what it waits for.  Nobody *)
(* has to send.                                                            *)
LinkFairness ==
    /\ WF_linkVars(Configure) /\ WF_linkVars(phase # "up" /\ Send) /\ WF_linkVars(Get)
    /\ WF_linkVars(PacketToHost) /\ WF_linkVars(PacketToDevice) /\ WF_linkVars(HostReceives)
    /\ WF_linkVars(DeviceReceives) /\ WF_linkVars(DeviceRestarts) /\ WF_linkVars(HostSubmits)

LinkSpec     == LinkInit /\ [][LinkNext]_linkVars
FairLinkSpec == LinkSpec /\ LinkFairness

-----------------------------------------------------------------------------
(***************************************************************************)
(* Properties.                                                             *)
(***************************************************************************)

(* The answer the host has fetched, which it does not check, is the one to *)
(* its own command, whatever the program of the device indicates meanwhile *)
(* and whatever requests were lost before; unless the command came between *)
(* the test and the writes of the program, against which the code has      *)
(* nothing.                                                                *)
OwnAnswer ==
    [][asking /\ ~asking' /\ linkFaults' = linkFaults =>
           answer' = command \/ indicating = "spoilt"]_linkVars

(* A frame that is handed over, on either side, is the oldest on its way,  *)
(* with the length it was sent with: whole, in order and once.             *)
FramesIntact ==
    [][/\ heard'.host # heard.host =>
            toHost # <<>> /\ heard'.host = Frame(Head(toHost)[1], Head(toHost)[2])
       /\ heard'.device # heard.device =>
            toDevice # <<>> /\ heard'.device = Frame(Head(toDevice)[1], Head(toDevice)[2])]_linkVars

(* A frame on its way is handed over although no other follows it, unless  *)
(* the bus is reset or the host has given the device up: in neither        *)
(* direction does the same frame wait for ever.                            *)
FramesArrive ==
    /\ []<>(toHost = <<>> \/ phase = "failed") \/ []<><<heard'.host # heard.host>>_linkVars
    /\ []<>(toDevice = <<>>) \/ []<><<heard'.device # heard.device>>_linkVars
=============================================================================
