------------------------------- MODULE UsbdMsc -------------------------------
(***************************************************************************)
(* The mass-storage function of the firmware: the Bulk-Only Transport and  *)
(* SCSI state machine of class/msc/usbd_msc.c, running in the USB          *)
(* interrupt on top of the two bulk endpoints of the ch32fs port           *)
(* (port/ch32/ch32fs/usb_dc_usbfs.c), against a host that follows the      *)
(* Bulk-Only protocol, gives up on a device that no longer answers, and    *)
(* recovers in one of several ways.                                        *)
(*                                                                         *)
(* One step is one token the controller handles in its interrupt handler,  *)
(* or one control request.  Handlers run to completion (there is one       *)
(* interrupt), so a step is the whole handler: endpoint bookkeeping, the   *)
(* completion callback, and what the callback starts.                      *)
(***************************************************************************)
EXTENDS Integers

CONSTANTS
    W,            \* modulus of uint32_t
    W16,          \* modulus of uint16_t
    Mps,          \* maximum packet size of the bulk endpoints
    BlkSize,      \* scsi_blk_size
    BlkNbr,       \* scsi_blk_nbr
    BufSize,      \* CONFIG_USBDEV_MSC_MAX_BUFSIZE
    CbwLen,       \* sizeof(struct CBW)
    CswLen,       \* sizeof(struct CSW)
    RespLen,      \* full length of the reply to each information command
    Commands,     \* the command blocks the host may send
    Recoveries,   \* how the host recovers: subset of {"bus", "class", "config"}
    Impatient,    \* may the host give up on a device that is still answering?
    MediaFaults   \* which media accesses may fail: subset of {"read", "write"}

InfoOps   == {"requestSense", "inquiry", "inquiryVpd", "modeSense6",
              "modeSense10", "readFormatCapacity", "readCapacity10"}
NoDataOps == {"testUnitReady", "startStopUnit", "preventAllow"}
ReadOps   == {"read10", "read12"}
WriteOps  == {"write10", "write12"}
OtherOps  == {"inquiryBadVpd", "verify10", "synchCache10", "unknown"}
Ops       == InfoOps \cup NoDataOps \cup ReadOps \cup WriteOps \cup OtherOps

(***************************************************************************)
(* A command block wrapper: dTag, its form (well formed, with a bad        *)
(* dSignature or bCBLength, or cut short), the direction flag, dDataLength,*)
(* and the fields of the SCSI command: lba, number of blocks, allocation   *)
(* length.                                                                 *)
(***************************************************************************)
CommandType ==
    [tag : {0, 1}, form : {"good", "badSignature", "short"}, dir : {"in", "out"},
     dlen : 0 .. W - 1, op : Ops, lba : 0 .. W - 1, n : 0 .. W - 1, alloc : 0 .. 255]

ASSUME SizesAssumption ==
    /\ W \in Nat /\ W16 \in 1 .. W
    /\ Mps \in Nat \ {0}
    /\ CbwLen \in 1 .. Mps - 1
    /\ CswLen \in 1 .. Mps - 1
    /\ BlkSize \in Nat \ {0}
    /\ BufSize \in Nat \ {0}
    /\ BufSize < W /\ CbwLen < W /\ Mps < W
    /\ BlkNbr \in 1 .. W - 1

ASSUME BlocksAssumption ==
    /\ \E p \in 1 .. BlkSize : BlkSize = p * Mps
    /\ \E k \in 1 .. BufSize : BufSize = k * BlkSize

ASSUME RespLenAssumption == RespLen \in [InfoOps -> 1 .. Mps - 1]

ASSUME HostAssumption ==
    /\ Commands \subseteq CommandType
    /\ Recoveries \subseteq {"bus", "class", "config"}
    /\ Impatient \in BOOLEAN
    /\ MediaFaults \subseteq {"read", "write"}

VARIABLES
    stage,        \* g_usbd_msc.stage
    cbw,          \* g_usbd_msc.cbw, with its tag
    csw,          \* g_usbd_msc.csw
    sense,        \* sKey/ASC/ASQ
    startSector,  \* g_usbd_msc.start_sector
    nsectors,     \* g_usbd_msc.nsectors
    block,        \* the sector whose data block_buffer starts with
    outEp,        \* bulk OUT endpoint: registers and out_ep[] record
    inEp,         \* bulk IN endpoint: registers and in_ep[] record
    phase,        \* what the host is doing
    cmd,          \* the command the host is working on, with its tag
    moved         \* bytes the host has moved in the data phase of cmd

priv == <<stage, cbw, csw, sense, startSector, nsectors, block>>
host == <<phase, cmd, moved>>
vars == <<stage, cbw, csw, sense, startSector, nsectors, block,
          outEp, inEp, phase, cmd, moved>>

NoSector == W   \* block_buffer holds no sector

Least(a, b) == IF a <= b THEN a ELSE b

Add(a, b) == (a + b) % W
Sub(a, b) == (a - b) % W
Bytes(n)  == (n * BlkSize) % W

(***************************************************************************)
(* The endpoints.  resp is the handshake the controller gives the next     *)
(* token; buf, len and actual are xfer_buf, xfer_len and actual_xfer_len.  *)
(* xfer_buf always points actual bytes into buf.                           *)
(***************************************************************************)
Buffers == {"none", "cbw", "block", "csw"}

Room(buf) == CASE buf = "cbw"   -> CbwLen
               [] buf = "block" -> BufSize
               [] buf = "csw"   -> CswLen
               [] OTHER         -> 0

ClosedEp == [resp |-> "NAK", buf |-> "none", len |-> 0, actual |-> 0]

Start(buf, len) == [resp |-> "ACK", buf |-> buf, len |-> len, actual |-> 0]

\* Opening an endpoint only rewrites its control register.
Open(ep) == [ep EXCEPT !.resp = "NAK"]

ReadCbw == Start("cbw", CbwLen)

\* Mutant: the buffer pointer does not advance.
Receive_NoAdvance(ep, n) == [ep EXCEPT !.resp = "NAK", !.len = Sub(@, n)]

\* Reception of one OUT packet of n bytes, before the completion callback.
Receive(ep, n) ==
    [ep EXCEPT !.resp = "NAK", !.actual = @ + n, !.len = Sub(@, n)]

ReceiveDone(ep, n) == n < Mps \/ Receive(ep, n).len = 0

\* The size of the packet an IN token fetches.
PacketLen(ep) == Least(ep.len, Mps)

\* Mutant: the buffer pointer does not advance.
Transmit_NoAdvance(ep) ==
    IF ep.len > Mps THEN [ep EXCEPT !.len = @ - Mps]
    ELSE [ep EXCEPT !.resp = "NAK", !.len = 0]

Transmit(ep) ==
    IF ep.len > Mps
    THEN [ep EXCEPT !.len = @ - Mps, !.actual = @ + Mps]
    ELSE [ep EXCEPT !.resp = "NAK", !.actual = @ + ep.len, !.len = 0]

TransmitDone(ep) == ep.len <= Mps

-----------------------------------------------------------------------------
(***************************************************************************)
(* Helpers of the SCSI layer.  Each is the part of a handler that runs     *)
(* with the endpoint record o left by the interrupt handler.               *)
(***************************************************************************)

\* Mutant: the abort only stalls.
BotAbort_NoRearm ==
    /\ inEp'  = [inEp EXCEPT !.resp = "STALL"]
    /\ outEp' = [outEp EXCEPT !.resp = "STALL"]

\* usbd_msc_bot_abort: the OUT stall is set first, and start_read then
\* makes the OUT endpoint answer ACK again.
BotAbort ==
    /\ inEp'  = [inEp EXCEPT !.resp = "STALL"]
    /\ outEp' = ReadCbw

SendCsw(tag, residue, status) ==
    /\ csw'   = [tag |-> tag, residue |-> residue, status |-> status]
    /\ stage' = "WAIT_CSW"
    /\ inEp'  = Start("csw", CswLen)

\* Mutant: a chunk is not limited to the buffer.
ChunkLen_Unbounded(n) == Bytes(n)

\* The part of the remaining n blocks that fits block_buffer.
ChunkLen(n) == Least(Bytes(n), BufSize)

\* Mutant: the last chunk is left out.
LastChunk_OffByOne(left) == left <= 1

LastChunk(left) == left = 0

\* SCSI_processRead: fetch the next chunk and queue it.  tag and residue are
\* those of the CSW, already those of the command being decoded.
ProcessRead(lba, n, tag, residue) ==
    LET len  == ChunkLen(n)
        blks == len \div BlkSize
    IN  /\ block'       = lba
        /\ startSector' = Add(lba, blks)
        /\ nsectors'    = Sub(n, blks)
        /\ csw'         = [csw EXCEPT !.tag = tag, !.residue = Sub(residue, len)]
        /\ stage'       = IF LastChunk(Sub(n, blks)) THEN "SEND_CSW" ELSE "DATA_IN"
        /\ inEp'        = Start("block", len)
        /\ UNCHANGED sense

\* Decoding fails with sense data k; the sector counters are not touched.
Reject(c, k) ==
    /\ sense' = k
    /\ csw'   = [csw EXCEPT !.tag = c.tag, !.residue = c.dlen]
    /\ BotAbort
    /\ UNCHANGED <<stage, startSector, nsectors, block>>

\* A command without data succeeds.
Succeed(c, o) ==
    /\ SendCsw(c.tag, c.dlen, "PASSED")
    /\ outEp' = o
    /\ UNCHANGED <<sense, startSector, nsectors, block>>

\* A command replies with len bytes built in block_buffer.
Reply(c, o, len) ==
    IF len = 0 THEN Succeed(c, o)
    ELSE LET size == Least(len, c.dlen) IN
         /\ stage' = "SEND_CSW"
         /\ inEp'  = Start("block", size)
         /\ csw'   = [tag |-> c.tag, residue |-> Sub(c.dlen, size), status |-> "PASSED"]
         /\ outEp' = o
         /\ block' = NoSector
         /\ UNCHANGED <<sense, startSector, nsectors>>

-----------------------------------------------------------------------------
(***************************************************************************)
(* The SCSI commands.  o is the OUT endpoint as the interrupt handler left *)
(* it; a command that does not start a read leaves it so.                  *)
(***************************************************************************)

NoData(c, o) ==
    \/ c.dlen # 0 /\ Reject(c, "invalidCommand")
    \/ c.dlen = 0 /\ Succeed(c, o)

Inform(c, o, len) ==
    \/ c.dlen = 0 /\ Reject(c, "invalidCommand")
    \/ c.dlen # 0 /\ Reply(c, o, len)

TestUnitReady(c, o)      == c.op = "testUnitReady" /\ NoData(c, o)
StartStopUnit(c, o)      == c.op = "startStopUnit" /\ NoData(c, o)
PreventAllow(c, o)       == c.op = "preventAllow" /\ NoData(c, o)
RequestSense(c, o)       == c.op = "requestSense"
                            /\ Inform(c, o, Least(c.alloc, RespLen[c.op]))
Inquiry(c, o)            == \/ c.op = "inquiry"
                               /\ Inform(c, o, Least(c.alloc, RespLen[c.op]))
                            \/ c.op = "inquiryVpd" /\ Inform(c, o, RespLen[c.op])
                            \/ c.op = "inquiryBadVpd"
                               /\ Reject(c, IF c.dlen = 0 THEN "invalidCommand"
                                                          ELSE "invalidField")
ModeSense6(c, o)         == c.op = "modeSense6"
                            /\ Inform(c, o, Least(c.alloc, RespLen[c.op]))
ModeSense10(c, o)        == c.op = "modeSense10"
                            /\ Inform(c, o, Least(c.alloc, RespLen[c.op]))
ReadFormatCapacity(c, o) == c.op = "readFormatCapacity" /\ Inform(c, o, RespLen[c.op])
ReadCapacity10(c, o)     == c.op = "readCapacity10" /\ Inform(c, o, RespLen[c.op])

\* A data command fails after the sector counters were loaded.
RejectTransfer(c, n, k, st) ==
    /\ startSector' = c.lba
    /\ nsectors'    = n
    /\ stage'       = st
    /\ sense'       = k
    /\ csw'         = [csw EXCEPT !.tag = c.tag, !.residue = c.dlen]
    /\ BotAbort
    /\ UNCHANGED block

\* Mutant: one block too many is in range.
OutOfRange_OffByOne(c, n) == Add(c.lba, n) > BlkNbr + 1

OutOfRange(c, n) == Add(c.lba, n) > BlkNbr

\* SCSI_read10 and SCSI_read12 differ in the width of the block count only.
Read(c, o, n) ==
    \/ (c.dir # "in" \/ c.dlen = 0) /\ Reject(c, "invalidCommand")
    \/ /\ c.dir = "in" /\ c.dlen # 0
       /\ \/ OutOfRange(c, n) /\ RejectTransfer(c, n, "lbaOutOfRange", stage)
          \/ /\ ~OutOfRange(c, n) /\ c.dlen # Bytes(n)
             /\ RejectTransfer(c, n, sense, stage)
          \/ /\ ~OutOfRange(c, n) /\ c.dlen = Bytes(n)
             /\ \/ ProcessRead(c.lba, n, c.tag, c.dlen) /\ outEp' = o
                \/ /\ "read" \in MediaFaults
                   /\ RejectTransfer(c, n, "readError", "DATA_IN")

Read10(c, o) == c.op = "read10" /\ Read(c, o, c.n % W16)
Read12(c, o) == c.op = "read12" /\ Read(c, o, c.n)

Write(c, n) ==
    \/ (c.dir # "out" \/ c.dlen = 0) /\ Reject(c, "invalidCommand")
    \/ /\ c.dir = "out" /\ c.dlen # 0
       /\ \/ /\ OutOfRange(c, n) \/ c.dlen # Bytes(n)
             /\ RejectTransfer(c, n, sense, stage)
          \/ /\ ~OutOfRange(c, n) /\ c.dlen = Bytes(n)
             /\ startSector' = c.lba
             /\ nsectors'    = n
             /\ csw'   = [csw EXCEPT !.tag = c.tag, !.residue = c.dlen]
             /\ stage' = "DATA_OUT"
             /\ outEp' = Start("block", ChunkLen(n))
             /\ UNCHANGED <<sense, inEp, block>>

Write10(c) == c.op = "write10" /\ Write(c, c.n % W16)
Write12(c) == c.op = "write12" /\ Write(c, c.n)

Others(c, o) ==
    \/ c.op = "verify10" /\ Reject(c, sense)
    \/ c.op = "synchCache10" /\ Succeed(c, o)
    \/ c.op = "unknown" /\ Reject(c, "invalidCommand")

Dispatch(c, o) ==
    \/ TestUnitReady(c, o) \/ StartStopUnit(c, o) \/ PreventAllow(c, o)
    \/ RequestSense(c, o)  \/ Inquiry(c, o)
    \/ ModeSense6(c, o)    \/ ModeSense10(c, o)
    \/ ReadFormatCapacity(c, o) \/ ReadCapacity10(c, o)
    \/ Read10(c, o) \/ Read12(c, o) \/ Write10(c) \/ Write12(c)
    \/ Others(c, o)

\* SCSI_CBWDecode and the abort of mass_storage_bulk_out, for a transfer of nb bytes.
CbwDecode(c, o, nb) ==
    \/ /\ nb # CbwLen
       /\ sense' = "invalidCommand"
       /\ BotAbort
       /\ UNCHANGED <<stage, csw, startSector, nsectors, block>>
    \/ nb = CbwLen /\ c.form # "good" /\ Reject(c, "invalidCommand")
    \/ nb = CbwLen /\ c.form = "good" /\ Dispatch(c, o)

-----------------------------------------------------------------------------
(***************************************************************************)
(* The completion callbacks.                                               *)
(***************************************************************************)

ProcessWrite(o, nb) ==
    LET blks == nb \div BlkSize
        left == Sub(nsectors, blks)
        res  == Sub(csw.residue, nb)
    IN  \/ /\ startSector' = Add(startSector, blks)
           /\ nsectors'    = left
           /\ UNCHANGED <<sense, block>>
           /\ \/ /\ LastChunk(left)
                 /\ SendCsw(csw.tag, res, "PASSED")
                 /\ outEp' = o
              \/ /\ ~LastChunk(left)
                 /\ csw'   = [csw EXCEPT !.residue = res]
                 /\ outEp' = Start("block", ChunkLen(left))
                 /\ UNCHANGED <<stage, inEp>>
        \/ /\ "write" \in MediaFaults
           /\ sense' = "writeFault"
           /\ SendCsw(csw.tag, csw.residue, "FAILED")
           /\ outEp' = o
           /\ UNCHANGED <<startSector, nsectors, block>>

\* mass_storage_bulk_out; c is the cbw structure after the reception.
BulkOut(c, o, nb) ==
    \/ stage = "READ_CBW" /\ CbwDecode(c, o, nb)
    \/ stage = "DATA_OUT" /\ c.op \in WriteOps /\ ProcessWrite(o, nb)
    \/ /\ stage # "READ_CBW" /\ ~(stage = "DATA_OUT" /\ c.op \in WriteOps)
       /\ outEp' = o
       /\ UNCHANGED <<stage, csw, sense, startSector, nsectors, block, inEp>>

\* The host has the CSW: wait for the next command.
CswSent(i) ==
    /\ stage' = "READ_CBW"
    /\ inEp'  = i
    /\ outEp' = ReadCbw
    /\ UNCHANGED <<csw, sense, startSector, nsectors, block>>

\* mass_storage_bulk_in; i is the IN endpoint as the interrupt handler left it.
BulkIn(i) ==
    \/ /\ stage = "DATA_IN" /\ cbw.op \in ReadOps
       /\ \/ ProcessRead(startSector, nsectors, csw.tag, csw.residue) /\ UNCHANGED outEp
          \/ /\ "read" \in MediaFaults
             /\ sense' = "readError"
             /\ SendCsw(csw.tag, csw.residue, "FAILED")
             /\ UNCHANGED <<startSector, nsectors, block, outEp>>
    \/ /\ stage = "SEND_CSW"
       /\ SendCsw(csw.tag, csw.residue, "PASSED")
       /\ UNCHANGED <<sense, startSector, nsectors, block, outEp>>
    \/ stage = "WAIT_CSW" /\ CswSent(i)
    \/ /\ stage \notin {"SEND_CSW", "WAIT_CSW"}
       /\ ~(stage = "DATA_IN" /\ cbw.op \in ReadOps)
       /\ inEp' = i
       /\ UNCHANGED <<stage, csw, sense, startSector, nsectors, block, outEp>>

-----------------------------------------------------------------------------
(***************************************************************************)
(* The host and the bus.  A token the device answers NAK is retried by the *)
(* host controller and changes nothing; a token answered ACK is one        *)
(* interrupt of the device.                                                *)
(***************************************************************************)
Phases == {"off", "idle", "dataIn", "dataOut", "status",
           "recover", "clearIn", "clearOut"}

NoCommand == [tag |-> 0, form |-> "badSignature", dir |-> "out", dlen |-> 0,
              op |-> "testUnitReady", lba |-> 0, n |-> 0, alloc |-> 0]

Init ==
    /\ stage = "READ_CBW" /\ cbw = NoCommand /\ sense = "none"
    /\ csw = [tag |-> 0, residue |-> 0, status |-> "PASSED"]
    /\ startSector = 0 /\ nsectors = 0 /\ block = NoSector
    /\ outEp = ClosedEp /\ inEp = ClosedEp
    /\ phase = "off" /\ cmd = NoCommand /\ moved = 0

\* The interrupt of an OUT packet of n bytes; c is the cbw structure after
\* the controller driver copied the packet.
OutInterrupt(c, n) ==
    IF ReceiveDone(outEp, n)
    THEN BulkOut(c, Receive(outEp, n), outEp.actual + n)
    ELSE /\ outEp' = [Receive(outEp, n) EXCEPT !.resp = "ACK"]
         /\ UNCHANGED <<stage, csw, sense, startSector, nsectors, block, inEp>>

InInterrupt ==
    IF TransmitDone(inEp)
    THEN BulkIn(Transmit(inEp))
    ELSE /\ inEp' = Transmit(inEp)
         /\ UNCHANGED <<stage, csw, sense, startSector, nsectors, block, outEp>>

DataPhase(c) == IF c.dlen = 0 THEN "status"
                ELSE IF c.dir = "in" THEN "dataIn" ELSE "dataOut"

\* The host sends a new command.  It lands in cbw only if the CBW read is
\* the transfer that is armed.
SendCommand(c) ==
    /\ phase = "idle" /\ outEp.resp = "ACK" /\ c.tag # cmd.tag
    /\ cmd' = c /\ moved' = 0 /\ phase' = DataPhase(c)
    /\ cbw' = IF outEp.buf = "cbw" /\ outEp.actual = 0 THEN c ELSE cbw
    /\ OutInterrupt(cbw', IF c.form = "short" THEN CbwLen - 1 ELSE CbwLen)

\* The host sends the next data packet of a write.
SendData ==
    LET n == Least(cmd.dlen - moved, Mps) IN
    /\ phase = "dataOut" /\ outEp.resp = "ACK"
    /\ moved' = moved + n
    /\ phase' = IF moved + n = cmd.dlen THEN "status" ELSE "dataOut"
    /\ OutInterrupt(cbw, n)
    /\ UNCHANGED <<cbw, cmd>>

\* The host fetches a data packet; a short one ends the data phase.
FetchData ==
    LET n == PacketLen(inEp) IN
    /\ phase = "dataIn" /\ inEp.resp = "ACK"
    /\ moved' = moved + n
    /\ phase' = IF n < Mps \/ moved + n >= cmd.dlen THEN "status" ELSE "dataIn"
    /\ InInterrupt
    /\ UNCHANGED <<cbw, cmd>>

\* The host fetches the CSW; anything else in its place is a protocol error.
FetchStatus ==
    /\ phase = "status" /\ inEp.resp = "ACK"
    /\ phase' = IF inEp.buf = "csw" /\ csw.tag = cmd.tag THEN "idle" ELSE "recover"
    /\ InInterrupt
    /\ UNCHANGED <<cbw, cmd, moved>>

\* The IN endpoint is halted: the host clears the halt and asks for the CSW.
ClearHalt ==
    /\ phase \in {"dataIn", "status"} /\ inEp.resp = "STALL"
    /\ inEp' = [inEp EXCEPT !.resp = "NAK"]
    /\ phase' = "status"
    /\ UNCHANGED <<priv, outEp, cmd, moved>>

\* The endpoint the host is polling never answers again.
Stuck ==
    \/ phase \in {"idle", "dataOut"} /\ outEp.resp = "NAK"
    \/ phase \in {"dataIn", "status"} /\ inEp.resp = "NAK"

GiveUp ==
    /\ \/ Stuck
       \/ Impatient /\ phase \in {"dataIn", "dataOut", "status"}
    /\ phase' = "recover"
    /\ UNCHANGED <<priv, outEp, inEp, cmd, moved>>

\* Mutant: the class driver is not told of the reset.
BusReset_KeepStage ==
    /\ phase = "recover" /\ "bus" \in Recoveries
    /\ outEp' = ClosedEp /\ inEp' = ClosedEp
    /\ phase' = "off"
    /\ UNCHANGED <<priv, cmd, moved>>

\* usbd_event_reset_handler and the port's bus reset: the controller state is
\* zeroed, the class driver is told, the device is no longer configured.
DeviceReset ==
    /\ stage' = "READ_CBW"
    /\ outEp' = ClosedEp /\ inEp' = ClosedEp
    /\ UNCHANGED <<cbw, csw, sense, startSector, nsectors, block>>

BusReset ==
    /\ phase = "recover" /\ "bus" \in Recoveries
    /\ DeviceReset
    /\ phase' = "off"
    /\ UNCHANGED <<cmd, moved>>

\* Mutant: the CONFIGURED event is ignored.
SetConfiguration_NoRead ==
    /\ \/ phase = "off"
       \/ phase = "recover" /\ "config" \in Recoveries
    /\ inEp' = Open(inEp) /\ outEp' = Open(outEp)
    /\ phase' = "idle"
    /\ UNCHANGED <<priv, cmd, moved>>

\* SET_CONFIGURATION opens both endpoints and the class driver asks for a CBW.
DeviceConfigured ==
    /\ inEp' = Open(inEp)
    /\ outEp' = ReadCbw
    /\ UNCHANGED priv

SetConfiguration ==
    /\ \/ phase = "off"
       \/ phase = "recover" /\ "config" \in Recoveries
    /\ DeviceConfigured
    /\ phase' = "idle"
    /\ UNCHANGED <<cmd, moved>>

\* Reset recovery of the Bulk-Only Transport: the class request, then the
\* halt of each endpoint is cleared.
ClassReset ==
    /\ phase = "recover" /\ "class" \in Recoveries
    /\ stage' = "READ_CBW"
    /\ phase' = "clearIn"
    /\ UNCHANGED <<cbw, csw, sense, startSector, nsectors, block,
                   outEp, inEp, cmd, moved>>

ClearHaltIn ==
    /\ phase = "clearIn"
    /\ inEp' = [inEp EXCEPT !.resp = "NAK"]
    /\ phase' = "clearOut"
    /\ UNCHANGED <<priv, outEp, cmd, moved>>

ClearHaltOut ==
    /\ phase = "clearOut"
    /\ outEp' = [outEp EXCEPT !.resp = "ACK"]
    /\ phase' = "idle"
    /\ UNCHANGED <<priv, inEp, cmd, moved>>

Next ==
    \/ \E c \in Commands : SendCommand(c)
    \/ SendData \/ FetchData \/ FetchStatus
    \/ ClearHalt \/ GiveUp
    \/ BusReset \/ SetConfiguration \/ ClassReset \/ ClearHaltIn \/ ClearHaltOut

\* The host keeps polling and keeps recovering; the device runs in its interrupt.
Fairness == WF_vars(Next)

Spec     == Init /\ [][Next]_vars
FairSpec == Spec /\ Fairness

-----------------------------------------------------------------------------
(***************************************************************************)
(* Properties.                                                             *)
(***************************************************************************)
EpType == [resp : {"NAK", "ACK", "STALL"}, buf : Buffers, len : 0 .. W - 1, actual : Nat]

SenseKeys == {"none", "invalidCommand", "invalidField", "lbaOutOfRange",
              "readError", "writeFault"}

\* The types of the variables of usbd_msc.c, of the endpoints and of the host.
TypeOK ==
    /\ stage \in {"READ_CBW", "DATA_OUT", "DATA_IN", "SEND_CSW", "WAIT_CSW"}
    /\ cbw \in CommandType /\ cmd \in CommandType
    /\ csw \in [tag : {0, 1}, residue : 0 .. W - 1, status : {"PASSED", "FAILED"}]
    /\ sense \in SenseKeys
    /\ startSector \in 0 .. W - 1 /\ nsectors \in 0 .. W - 1 /\ block \in 0 .. W
    /\ outEp \in EpType /\ inEp \in EpType
    /\ phase \in Phases /\ moved \in Nat

\* A host that sends data only with a write the device accepts, and whose
\* transfers stay within the words the device computes with.
OrderlyCommand(c) ==
    /\ c.op \in ReadOps \cup WriteOps =>
         /\ c.lba + c.n < W /\ c.n * BlkSize < W
         /\ c.op \in {"read10", "write10"} => c.n < W16
    /\ c.dir = "out" /\ c.dlen # 0 =>
         /\ c.form = "good" /\ c.op \in WriteOps
         /\ c.lba + c.n <= BlkNbr /\ c.dlen = c.n * BlkSize

OrderlyCommands == \A c \in Commands : OrderlyCommand(c)

\* A host that resets the bus to recover, or never has to recover in the
\* middle of a transfer.
OrderlyRecovery ==
    \/ Recoveries \subseteq {"bus"}
    \/ ~Impatient /\ MediaFaults = {}

OrderlyHost == OrderlyCommands /\ OrderlyRecovery

Working == phase \in {"dataIn", "dataOut", "status"}

CswQueued == inEp.resp = "ACK" /\ inEp.buf = "csw"

(* The transport waits for a command exactly when the OUT endpoint is armed *)
(* to receive one CBW at the start of the cbw structure: neither an abort,  *)
(* a completed command nor a recovery forgets to arm it, and none arms it   *)
(* for a transport that is elsewhere ("Start reading cbw" in the notify     *)
(* handler and in mass_storage_bulk_in).                                    *)
ReadyForCommand ==
    phase # "off" => (stage = "READ_CBW" <=> outEp = ReadCbw)

(* No OUT transfer delivers more bytes than the buffer it was started on   *)
(* holds (usb_dc.h: data_len is the "Max length of the data requested to   *)
(* read").                                                                 *)
TransferFits == outEp.actual <= Room(outEp.buf)

(* The CSW answers the command the host sent ("Same tag as original        *)
(* command"), and its residue is what was really not transferred ("Amount  *)
(* not transferred"): exactly for a passed command, never less for a       *)
(* failed one.  A passed read or write has moved every byte and has        *)
(* covered exactly the sectors the command named.                          *)
HonestStatus ==
    CswQueued /\ Working =>
        /\ csw.tag = cmd.tag
        /\ csw.status = "PASSED" => csw.residue + moved = cmd.dlen
        /\ csw.status = "FAILED" => /\ csw.residue + moved >= cmd.dlen
                                    /\ csw.residue <= cmd.dlen
        /\ csw.status = "PASSED" /\ cmd.op \in ReadOps \cup WriteOps =>
             /\ moved = cmd.dlen
             /\ startSector = cmd.lba + cmd.n /\ nsectors = 0

(* The packet a READ offers next is the one the host expects next: the     *)
(* sector in block_buffer and the offset in it equal the bytes the host    *)
(* has so far, however the data is split into chunks and packets.          *)
ReadPosition ==
    /\ phase = "dataIn" /\ cmd.op \in ReadOps
    /\ inEp.resp = "ACK" /\ inEp.buf = "block"
    => (block - cmd.lba) * BlkSize + inEp.actual = moved

(* The bytes a WRITE has collected so far will be written where the host   *)
(* meant them to go.                                                       *)
WritePosition ==
    stage = "DATA_OUT" /\ phase = "dataOut"
    => /\ outEp.buf = "block"
       /\ (startSector - cmd.lba) * BlkSize + outEp.actual = moved

(* No access to the medium leaves the capacity the device reports.         *)
MediaInRange ==
    /\ stage \in {"DATA_IN", "DATA_OUT"} => startSector + nsectors <= BlkNbr
    /\ block < BlkNbr \/ block = NoSector

(* Whatever the device refused and whatever the host gave up on, service    *)
(* resumes: the host is idle again and the device waits for its next CBW.  *)
ServiceResumes ==
    phase # "idle" ~> phase = "idle" /\ stage = "READ_CBW" /\ outEp = ReadCbw
=============================================================================
