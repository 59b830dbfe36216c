------------------------------- MODULE UsbhMsc -------------------------------
(***************************************************************************)
(* The mass-storage driver of the host stack (class/msc/usbh_msc.c) and a  *)
(* program above it, against the mass-storage function of UsbdMsc, whose   *)
(* ideal host it takes the place of.  The driver clears no halt, resets    *)
(* nothing, gives every command the tag 0, and checks of a CSW its         *)
(* signature and its status; what makes it start afresh is the next        *)
(* connection.  Bulk transfers are those of the host core, which is not in *)
(* the repository: each ends with an error if the endpoint is halted, if   *)
(* the device sends more than was asked for, or after a timeout.           *)
(***************************************************************************)
EXTENDS UsbdMsc

CONSTANTS
    Calls,        \* the calls of the program: operation, first sector, sectors
    ReadyTries,   \* CONFIG_USBHOST_MSC_READY_CHECK_TIMES
    Timeouts      \* phases in which a transfer may time out though the device answers

ASSUME DriverAssumption ==
    /\ Calls \subseteq [op : {"read10", "write10"}, lba : 0 .. W - 1, n : Nat]
    /\ ReadyTries \in Nat
    /\ Timeouts \subseteq {"dataIn", "dataOut", "status"}

VARIABLES
    step,     \* where usbh_msc_scsi_init is, or "up" once it succeeded
    tries,    \* its cnt
    blocks,   \* msc_class->blocknum; Unknown if it was taken from anything else
    asked,    \* sectors of the last call
    right,    \* every packet of its data so far was taken from, or put in, its place
    stored,   \* sectors the medium took during the call
    result    \* of the last call

driver  == <<step, tries, blocks, asked, right, stored, result>>
allVars == <<vars, driver>>

Unknown == 0

HostInit ==
    /\ Init
    /\ step = "off" /\ tries = 0 /\ blocks = Unknown
    /\ asked = 0 /\ right = TRUE /\ stored = 0 /\ result = "none"

-----------------------------------------------------------------------------
(***************************************************************************)
(* The command blocks.                                                     *)
(***************************************************************************)
Block(op, dir, dlen, lba, n) ==
    [tag |-> 0, form |-> "good", dir |-> dir, dlen |-> dlen, op |-> op,
     lba |-> lba, n |-> n, alloc |-> IF dlen < 256 THEN dlen ELSE 0]

\* Test unit ready, request sense, inquiry and read capacity of the initialisation.
InitBlock ==
    CASE step = "ready"    -> Block("testUnitReady", "out", 0, 0, 0)
      [] step = "sense"    -> Block("requestSense", "in", RespLen["requestSense"], 0, 0)
      [] step = "inquiry"  -> Block("inquiry", "in", RespLen["inquiry"], 0, 0)
      [] step = "capacity" -> Block("readCapacity10", "in", RespLen["readCapacity10"], 0, 0)

\* usbh_msc_scsi_read10 and usbh_msc_scsi_write10; the count is cut to 16 bits.
CallBlock(k) ==
    Block(k.op, IF k.op = "read10" THEN "in" ELSE "out", Bytes(k.n % W16), k.lba, k.n % W16)

Starting == {"ready", "sense", "inquiry", "capacity"}

(***************************************************************************)
(* A command is over: the next step of the initialisation, or the value    *)
(* the program gets.                                                       *)
(***************************************************************************)
NextStep(ok) ==
    CASE step = "ready"    -> IF ok THEN "inquiry" ELSE "sense"
      [] step = "sense"    -> IF tries + 1 > ReadyTries THEN "failed" ELSE "ready"
      [] step = "inquiry"  -> IF ok THEN "capacity" ELSE "failed"
      [] step = "capacity" -> IF ok THEN "up" ELSE "failed"
      [] OTHER             -> step

Return(ok) ==
    /\ phase' = "idle"
    /\ step'  = NextStep(ok)
    /\ tries' = IF step = "sense" THEN tries + 1 ELSE tries
    /\ result' = IF step = "up" THEN (IF ok THEN "ok" ELSE "error") ELSE result

Fail == Return(FALSE) /\ UNCHANGED <<blocks, asked, right, stored>>

-----------------------------------------------------------------------------
(***************************************************************************)
(* usbh_bulk_cbw_csw_xfer, one packet at a time.                           *)
(***************************************************************************)
SendCbw(c, n) ==
    /\ outEp.resp = "ACK"
    /\ cmd' = c /\ moved' = 0 /\ phase' = DataPhase(c)
    /\ cbw' = IF outEp.buf = "cbw" /\ outEp.actual = 0 THEN c ELSE cbw
    /\ OutInterrupt(cbw', CbwLen)
    /\ asked' = n /\ right' = TRUE /\ stored' = 0 /\ result' = "none"
    /\ UNCHANGED <<step, tries, blocks>>

Initialise == phase = "idle" /\ step \in Starting /\ SendCbw(InitBlock, 0)

Call == phase = "idle" /\ step = "up" /\ \E k \in Calls : SendCbw(CallBlock(k), k.n)

\* The OUT endpoint takes no command.
CbwFails ==
    /\ phase = "idle" /\ step \in Starting \cup {"up"} /\ outEp.resp # "ACK"
    /\ Fail
    /\ UNCHANGED <<priv, outEp, inEp, cmd, moved>>

\* The next packet of a write.
PushData ==
    LET n == Least(cmd.dlen - moved, Mps) IN
    /\ phase = "dataOut" /\ outEp.resp = "ACK"
    /\ moved' = moved + n
    /\ phase' = IF moved + n = cmd.dlen THEN "status" ELSE "dataOut"
    /\ OutInterrupt(cbw, n)
    /\ right'  = (right /\ stage = "DATA_OUT" /\ outEp.buf = "block"
                        /\ (startSector - cmd.lba) * BlkSize + outEp.actual = moved)
    /\ stored' = stored + Sub(startSector', startSector)
    /\ UNCHANGED <<cbw, cmd, step, tries, blocks, asked, result>>

\* What the device offers is what the command asked for, at the place the host is.
InPlace ==
    /\ inEp.buf = "block"
    /\ IF cmd.op \in ReadOps
       THEN (block - cmd.lba) * BlkSize + inEp.actual = moved
       ELSE block = NoSector /\ cbw.op = cmd.op

\* Room left in the transfer under way.
Wanted == IF phase = "dataIn" THEN cmd.dlen - moved ELSE CswLen

\* The next packet of a reply.  A short one ends it, and no one asks how much
\* came; a capacity is taken from whatever that was.
PullData ==
    LET n    == PacketLen(inEp)
        done == n < Mps \/ n = Wanted
    IN  /\ phase = "dataIn" /\ inEp.resp = "ACK" /\ n <= Wanted
        /\ moved' = moved + n
        /\ right' = (right /\ InPlace)
        /\ phase' = IF done THEN "status" ELSE "dataIn"
        /\ blocks' = IF ~(done /\ step = "capacity") THEN blocks
                     ELSE IF right' /\ moved' = cmd.dlen THEN BlkNbr ELSE Unknown
        /\ InInterrupt
        /\ UNCHANGED <<cbw, cmd, step, tries, asked, stored, result>>

\* Mutant: the status is not looked at.
CswGood_NoStatus == inEp.buf = "csw"

\* The signature and the status are checked, the tag and the residue are not.
CswGood == inEp.buf = "csw" /\ csw.status = "PASSED"

PullCsw ==
    /\ phase = "status" /\ inEp.resp = "ACK" /\ PacketLen(inEp) <= Wanted
    /\ Return(CswGood)
    /\ InInterrupt
    /\ UNCHANGED <<cbw, cmd, moved, blocks, asked, right, stored>>

\* The endpoint is halted, stays silent, sends more than fits (which the
\* controller does not acknowledge), or is too slow.
TransferFails ==
    /\ \/ phase \in {"dataIn", "status"} /\ (inEp.resp # "ACK" \/ PacketLen(inEp) > Wanted)
       \/ phase = "dataOut" /\ outEp.resp # "ACK"
       \/ phase \in Timeouts
    /\ Fail
    /\ UNCHANGED <<priv, outEp, inEp, cmd, moved>>

-----------------------------------------------------------------------------
\* usbh_msc_connect, with the SET_CONFIGURATION of the enumeration before it,
\* and the program calling usbh_msc_scsi_init.
Plug ==
    /\ phase = "off" /\ DeviceConfigured
    /\ phase' = "idle" /\ step' = "ready" /\ tries' = 0 /\ blocks' = Unknown
    /\ UNCHANGED <<cmd, moved, asked, right, stored, result>>

\* The program tries the initialisation again.
InitAgain ==
    /\ phase = "idle" /\ step = "failed"
    /\ step' = "ready" /\ tries' = 0
    /\ UNCHANGED <<vars, blocks, asked, right, stored, result>>

\* usbh_msc_disconnect: what is under way is killed.
Unplug ==
    /\ phase # "off" /\ DeviceReset
    /\ phase' = "off" /\ step' = "off"
    /\ result' = IF phase # "idle" /\ step = "up" THEN "error" ELSE result
    /\ UNCHANGED <<cmd, moved, tries, blocks, asked, right, stored>>

HostNext ==
    \/ Initialise \/ Call \/ CbwFails
    \/ PushData \/ PullData \/ PullCsw \/ TransferFails
    \/ Plug \/ InitAgain \/ Unplug

HostSpec == HostInit /\ [][HostNext]_allVars

-----------------------------------------------------------------------------
\* A program whose counts and lengths fit the words of the driver and of the
\* device and whose writes stay on the medium, over transfers that wait for
\* the data of a write to be taken.
OrderlyProgram ==
    /\ \A k \in Calls :
         /\ k.n < W16 /\ k.lba + k.n < W /\ k.n * BlkSize < W
         /\ k.op = "write10" /\ k.n # 0 => k.lba + k.n <= BlkNbr
    /\ "dataOut" \notin Timeouts

(* What the driver tells the program is so: a call that succeeded moved    *)
(* every byte of every sector it named to or from its place, a write has   *)
(* reached the medium to the last sector, and a device that is up has the  *)
(* size the driver believes.  The driver asks for neither the length of    *)
(* the data nor the tag nor the residue of the status; the three hold      *)
(* because of how the device leaves its endpoints after an error.          *)
SuccessIsReal ==
    /\ result = "ok" =>
         /\ right /\ moved = asked * BlkSize
         /\ cmd.op = "write10" => stored = asked
    /\ step = "up" => blocks = BlkNbr
=============================================================================
