------------------------------- MODULE UsbdDfu ---------------------------------
(***************************************************************************)
(* The firmware update class (class/dfu/usbd_dfu.c): one state machine fed *)
(* by class requests, and the application behind its weak functions.       *)
(*                                                                         *)
(* A block of an image is the pair <<version, number>>.  The application   *)
(* (not in this repository) collects the blocks of a load and makes them   *)
(* its image when the load ends; writing and reading a block may fail.     *)
(***************************************************************************)
EXTENDS Integers, Sequences

CONSTANTS
    Blocks,         \* the number of blocks of an image; the last one is short
    BlockFaults     \* may writing or reading a block fail?

ASSUME BlocksAssumption == Blocks \in Nat \ {0} /\ BlockFaults \in BOOLEAN

Versions == {1, 2}
Image(v) == [k \in 1 .. Blocks |-> <<v, k>>]

VARIABLES
    dfuState,   \* g_usbd_dfu.dfu_state
    load,       \* the blocks written since usbd_dfu_begin_load
    image       \* what the application holds

dfuVars == <<dfuState, load, image>>

Block == Versions \X (1 .. Blocks)

DfuStates == {"APP_IDLE", "APP_DETACH", "IDLE", "DNLOAD_SYNC", "DNLOAD_BUSY", "DNLOAD_IDLE",
              "MANIFEST_SYNC", "MANIFEST_WAIT_RESET", "UPLOAD_IDLE", "ERROR"}

DfuTypeOK == dfuState \in DfuStates /\ load \in Seq(Block) /\ image \in Seq(Block)

DfuInit == dfuState = "APP_IDLE" /\ load = <<>> /\ image = <<>>

-----------------------------------------------------------------------------
\* The states in which a request is not answered with a stall.
Accepts(request) ==
    CASE request = "DETACH"    -> {"APP_IDLE"}
      [] request = "DNLOAD"    -> {"IDLE", "DNLOAD_IDLE"}
      [] request = "UPLOAD"    -> {"IDLE", "UPLOAD_IDLE"}
      [] request = "ABORT"     -> {"IDLE", "DNLOAD_IDLE", "UPLOAD_IDLE"}
      [] request = "GETSTATUS" -> DfuStates \ {"ERROR"}
      [] request = "GETSTATE"  -> DfuStates \ {"ERROR"}
      [] request = "CLRSTATUS" -> {"ERROR"}

DfuRefused(request) == dfuState \notin Accepts(request) /\ UNCHANGED dfuVars

\* Mutant: a load that was broken off goes on.
Begun_Continued == load

\* usbd_dfu_begin_load is called in the first request of a load.
Begun == IF dfuState = "IDLE" THEN <<>> ELSE load

\* DNLOAD with data.
Download(block) ==
    /\ dfuState \in Accepts("DNLOAD")
    /\ \/ dfuState' = "DNLOAD_SYNC" /\ load' = Append(Begun, block)
       \/ BlockFaults /\ dfuState' = "ERROR" /\ load' = Begun
    /\ UNCHANGED image

\* The end of a load without data leaves the image of the application alone.
EndLoad == image' = IF load = <<>> THEN image ELSE load

\* DNLOAD without data; in the idle state no load was begun.
DownloadEnd ==
    /\ dfuState \in Accepts("DNLOAD")
    /\ EndLoad
    /\ dfuState' = "MANIFEST_SYNC"
    /\ UNCHANGED load

\* The length of what usbd_dfu_read finds: all blocks but the last are full.
ReadLength(k, full) ==
    IF k < Len(image) THEN full ELSE IF k = Len(image) THEN full - 1 ELSE 0

\* UPLOAD of block k.  Only the first answer carries the length that was read,
\* and only a later block ends the load that the first one began.
Upload(k, full, told) ==
    LET last == dfuState = "UPLOAD_IDLE" /\ ReadLength(k, full) < full IN
    /\ dfuState \in Accepts("UPLOAD")
    /\ told = IF dfuState = "IDLE" THEN ReadLength(k, full) ELSE full
    /\ dfuState' = IF last THEN "IDLE" ELSE "UPLOAD_IDLE"
    /\ load' = Begun
    /\ IF last THEN EndLoad ELSE UNCHANGED image

\* UPLOAD of a block that usbd_dfu_read cannot read: the request is refused.
UploadFails ==
    /\ BlockFaults /\ dfuState \in Accepts("UPLOAD")
    /\ dfuState' = "ERROR" /\ load' = Begun
    /\ UNCHANGED image

Abort == dfuState \in Accepts("ABORT") /\ dfuState' = "IDLE" /\ UNCHANGED <<load, image>>

\* Mutant: the busy state answers without leaving.
NextOnStatus_StayBusy == [s \in {"DNLOAD_SYNC", "MANIFEST_SYNC"} |->
    IF s = "DNLOAD_SYNC" THEN "DNLOAD_BUSY" ELSE "MANIFEST_WAIT_RESET"]

\* The states that move on when the host polls.
NextOnStatus == [s \in {"DNLOAD_SYNC", "DNLOAD_BUSY", "MANIFEST_SYNC"} |->
    CASE s = "DNLOAD_SYNC"   -> "DNLOAD_BUSY"
      [] s = "DNLOAD_BUSY"   -> "DNLOAD_IDLE"
      [] s = "MANIFEST_SYNC" -> "MANIFEST_WAIT_RESET"]

GetStatus ==
    /\ dfuState \in Accepts("GETSTATUS")
    /\ dfuState' = IF dfuState \in DOMAIN NextOnStatus THEN NextOnStatus[dfuState] ELSE dfuState
    /\ UNCHANGED <<load, image>>

ClearStatus ==
    /\ dfuState \in Accepts("CLRSTATUS")
    /\ dfuState' = "IDLE"
    /\ UNCHANGED <<load, image>>

\* The RESET event.  An unfinished load is not told to the application.
DfuReset == dfuState' = "IDLE" /\ UNCHANGED <<load, image>>
=============================================================================
