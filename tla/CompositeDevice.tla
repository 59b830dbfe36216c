---------------------------- MODULE CompositeDevice ----------------------------
(***************************************************************************)
(* A composite device and its host: the requests of UsbdCore, dispatched   *)
(* to the firmware update class (UsbdDfu), to the streaming classes        *)
(* (UsbdStreams) and to the debug bridge (UsbdAdb), with bus resets and    *)
(* suspensions at any moment.                                              *)
(*                                                                         *)
(* The host knows what its accepted requests and resets should have left;  *)
(* the properties compare that with the device.  A host is an operating    *)
(* system with all its requests, or one whose update tool, media player or *)
(* debugger uses the device.                                               *)
(***************************************************************************)
EXTENDS UsbdCore, UsbdDfu, UsbdStreams, UsbdAdb

CONSTANTS
    Reads,      \* streaming OUT endpoints the program starts to read when opened
    ReplyLoss   \* may the update tool miss an answer?

ASSUME ReadsAssumption == Reads \subseteq OutEndpoints /\ ReplyLoss \in BOOLEAN

VARIABLES
    known,      \* what the host believes of the device
    active,     \* the bus is not suspended
    tool,       \* the update tool: its step, next block and version
    user        \* what uses the device, once and for all

vars == <<configuration, deviceAddress, altSetting, wakeup, suspended, endpoint,
          dfuState, load, image,
          opened, volume, stream, producing, frame, packet, taken,
          adb, rx, tx, reading, writing, shell, peer,
          known, active, tool, user>>

Drivers == <<dfuVars, streamVars, adbVars>>
Users   == {"system", "tool", "player", "debugger"}
Steps   == {"idle", "block", "poll", "end", "manifest", "done", "upload", "failed"}
Unknown == 1     \* no volume on offer

\* What a host that has just reset the bus may rely on: of the settings, the
\* wakeup feature and the volume nothing until it has set them.
Fresh == [config |-> 0, alt |-> [i \in Intfs |-> 0], selected |-> {}, halted |-> {},
          wakeup |-> "unknown", volume |-> Unknown]

Init ==
    /\ CoreInit /\ DfuInit /\ StreamInit /\ AdbInit
    /\ known = Fresh /\ active = TRUE /\ user \in Users
    /\ tool = [step |-> "idle", next |-> 1, version |-> 1]

-----------------------------------------------------------------------------
(***************************************************************************)
(* The requests of the operating system.                                   *)
(***************************************************************************)
Asked     == active /\ UNCHANGED <<active, tool, user>>
AtRest    == tool.step = "idle" /\ peer.step = "off"
AsSystem  == user = "system" /\ Asked

Enumerate ==
    /\ AsSystem
    /\ \E a \in 1 .. MaxAddr : SetAddress(a)
    /\ UNCHANGED <<Drivers, known>>

\* The host takes all interfaces to be in their default setting.
Configure ==
    /\ Asked /\ AtRest
    /\ \E value \in {0, ConfigValue, ConfigValue + 1} :
         /\ SetConfiguration(value)
         /\ known' = CASE value = ConfigValue -> [known EXCEPT
                              !.config = value, !.halted = @ \ DefaultEndpoints,
                              !.alt = [i \in Intfs |-> 0], !.selected = {}]
                       [] value = 0 -> [known EXCEPT !.config = 0]
                       [] OTHER     -> known
         /\ IF value = ConfigValue
            THEN AdbConfigured /\ peer' = IF user = "debugger" THEN [Away EXCEPT !.step = "fresh"] ELSE peer
            ELSE UNCHANGED adbVars
    /\ UNCHANGED <<dfuVars, streamVars>>

Select ==
    /\ Asked /\ user \in {"system", "player"}
    /\ \E i \in Intfs : \E a \in DOMAIN Alts[i] :
         /\ SetInterface(i, a, IF Streams(i, a) THEN Reads \cap Alts[i][a] ELSE {})
         /\ StreamSetInterface(i, a)
         /\ known' = [known EXCEPT !.alt[i] = a, !.selected = @ \cup {i},
                                   !.halted = IF a = 0 THEN @ ELSE @ \ Alts[i][a]]
    /\ UNCHANGED <<dfuVars, adbVars>>

Halt ==
    /\ AsSystem
    /\ \E e \in Endpoints, on \in BOOLEAN :
         /\ SetHalt(e, on)
         /\ known' = [known EXCEPT !.halted = IF on THEN @ \cup {e} ELSE @ \ {e}]
    /\ UNCHANGED Drivers

WakeupFeature ==
    /\ AsSystem
    /\ \E on \in BOOLEAN :
         SetWakeupFeature(on) /\ known' = [known EXCEPT !.wakeup = IF on THEN "on" ELSE "off"]
    /\ UNCHANGED Drivers

\* Requests of the audio class.
ChangeVolume ==
    /\ AsSystem
    /\ \E v \in OfferedVolumes :
         SetVolume(v) /\ known' = [known EXCEPT !.volume = v]
    /\ UNCHANGED <<configuration, deviceAddress, altSetting, wakeup, suspended, endpoint, dfuVars, adbVars>>

System == Enumerate \/ Configure \/ Select \/ Halt \/ WakeupFeature \/ ChangeVolume

-----------------------------------------------------------------------------
(***************************************************************************)
(* The bus.                                                                *)
(***************************************************************************)

\* The notifications of a bus reset reach every driver.
BusReset ==
    /\ CoreReset /\ DfuReset /\ StreamReset /\ AdbReset /\ peer' = Away
    /\ known' = Fresh /\ active' = TRUE
    /\ tool' = [tool EXCEPT !.step = "idle"]
    /\ UNCHANGED user

Disconnect ==
    /\ user = "system" /\ CoreDisconnect
    /\ known' = Fresh
    /\ UNCHANGED <<Drivers, active, tool, user>>

Suspend ==
    /\ active /\ user = "system" /\ active' = FALSE
    /\ CoreSuspend
    /\ UNCHANGED <<Drivers, known, tool, user>>

\* The host resumes the bus, on its own or because the device asks it to.
Resume ==
    /\ ~active /\ active' = TRUE
    /\ CoreResume
    /\ UNCHANGED <<Drivers, known, tool, user>>

Bus == BusReset \/ Disconnect \/ Suspend \/ Resume

-----------------------------------------------------------------------------
(***************************************************************************)
(* The player takes payloads while the program produces frames.            *)
(***************************************************************************)
CoreIdle == UNCHANGED <<coreVars, known, active, user>>

VideoEndpoints == UNION {Alts[i][1] : i \in VideoIntfs}

Play ==
    /\ user = "player"
    /\ \/ \E len \in FrameLens :
            StartFrame(len, is_device_configured, \A e \in VideoEndpoints : endpoint[e].enable)
       \/ PayloadTaken
    /\ CoreIdle /\ UNCHANGED <<dfuVars, adbVars, tool>>

-----------------------------------------------------------------------------
(***************************************************************************)
(* The update tool.  Goto is its next step if it hears the answer.         *)
(***************************************************************************)
Goto(step)  == tool' = [tool EXCEPT !.step = step]
Working     == user = "tool" /\ CoreIdle /\ UNCHANGED <<streamVars, adbVars>>
At(step)    == tool.step = step

Begin ==
    /\ At("idle")
    /\ \/ tool' = [step |-> "block", next |-> 1, version |-> 3 - tool.version]
       \/ image # <<>> /\ tool' = [tool EXCEPT !.step = "upload", !.next = 1]
    /\ UNCHANGED dfuVars

SendBlock ==
    /\ At("block")
    /\ \/ /\ Download(<<tool.version, tool.next>>)
          /\ Goto(IF dfuState' = "ERROR" THEN "failed" ELSE "poll")
       \/ DfuRefused("DNLOAD") /\ Goto("failed")

Poll ==
    /\ At("poll") /\ GetStatus
    /\ tool' = IF dfuState' # "DNLOAD_IDLE" THEN tool
               ELSE [tool EXCEPT !.next = @ + 1,
                                 !.step = IF tool.next = Blocks THEN "end" ELSE "block"]

SendEnd ==
    /\ At("end")
    /\ \/ DownloadEnd /\ Goto("manifest")
       \/ DfuRefused("DNLOAD") /\ Goto("failed")

PollManifest ==
    /\ At("manifest") /\ GetStatus
    /\ Goto(IF dfuState' = "MANIFEST_WAIT_RESET" THEN "done" ELSE "manifest")

\* An upload ends with the first block that is not full.
FetchBlock ==
    /\ At("upload")
    /\ \/ \E told \in 0 .. 2 :
            /\ Upload(tool.next, 2, told)
            /\ tool' = [tool EXCEPT !.next = @ + 1, !.step = IF told < 2 THEN "idle" ELSE @]
       \/ (UploadFails \/ DfuRefused("UPLOAD")) /\ Goto("failed")

Recover ==
    /\ At("failed")
    /\ \/ ClearStatus /\ Goto("idle")
       \/ dfuState \notin Accepts("CLRSTATUS") /\ Abort /\ Goto("idle")

ToolStep == Working /\ (SendBlock \/ Poll \/ SendEnd \/ PollManifest \/ FetchBlock \/ Recover)

ToolBegins == Working /\ Begin

\* The answer to a request does not reach the tool, which asks again.
AnswerLost ==
    /\ ReplyLoss /\ Working
    /\ \/ At("block") /\ Download(<<tool.version, tool.next>>)
       \/ At("poll") /\ GetStatus
       \/ At("end") /\ DownloadEnd
       \/ At("manifest") /\ GetStatus
    /\ UNCHANGED tool

\* The tool ends with a bus reset, and has no other way out of a state that
\* refuses everything.
ToolResets ==
    /\ user = "tool" /\ BusReset
    /\ \/ At("done")
       \/ At("failed") /\ dfuState \notin Accepts("CLRSTATUS") \cup Accepts("ABORT")

-----------------------------------------------------------------------------
\* The debugger talks to the bridge.
Debugging == user = "debugger" /\ CoreIdle /\ UNCHANGED <<dfuVars, streamVars, tool>>

Debug     == Debugging /\ Chat
DebugOn   == Debugging /\ AdbGoesOn

Next == System \/ Bus \/ Play \/ ToolBegins \/ ToolStep \/ AnswerLost \/ ToolResets \/ Debug

-----------------------------------------------------------------------------
\* A tool that has begun goes on, and not every answer gets lost; so do a
\* debugger and the shell it talks to.
Fairness == WF_vars(ToolStep) /\ WF_vars(ToolResets) /\ WF_vars(DebugOn)

Spec     == Init /\ [][Next]_vars
FairSpec == Spec /\ Fairness

-----------------------------------------------------------------------------
\* What the drivers make of the layout: those that read from the beginning do
\* so in the default setting, and a streaming driver opens exactly in the
\* settings that have its endpoint.
OrderlyLayout ==
    \A i \in Intfs : \A a \in DOMAIN Alts[i] :
        /\ a # 0 => Alts[i][a] \cap Listens = {}
        /\ Alts[i][a] \cap Reads # {} => Streams(i, a)
        /\ i \in AudioIntfs \cup VideoIntfs => (Streams(i, a) <=> Alts[i][a] # {})

-----------------------------------------------------------------------------
(***************************************************************************)
(* Properties.                                                             *)
(***************************************************************************)

\* The types of the variables.
TypeOK ==
    /\ CoreTypeOK /\ DfuTypeOK /\ StreamTypeOK /\ AdbTypeOK
    /\ known \in [config : {0, ConfigValue}, alt : [Intfs -> Nat], selected : SUBSET Intfs,
                  halted : SUBSET Endpoints, wakeup : {"unknown", "on", "off"}, volume : Int]
    /\ active \in BOOLEAN
    /\ tool \in [step : Steps, next : Nat, version : Versions]
    /\ user \in Users

(* A configured device serves what the host has selected: the endpoints of *)
(* every interface are open in its setting, those a driver reads from      *)
(* answer unless halted, and a streaming driver was told of its setting.   *)
Serves ==
    known.config # 0 =>
        /\ \A i \in Intfs : \A e \in Alts[i][known.alt[i]] :
             /\ endpoint[e].enable
             /\ e \in (Listens \cup Reads) \ known.halted => endpoint[e].resp = "ACK"
        /\ \A i \in known.selected \cap (AudioIntfs \cup VideoIntfs) :
             i \in opened <=> Alts[i][known.alt[i]] # {}

(* What the device answers agrees with what the host has set since it last *)
(* could rely on it, whatever configurations, settings and resets came     *)
(* between.                                                                *)
AnswersTruly ==
    /\ Configuration = known.config
    /\ known.wakeup # "unknown" => DeviceStatus = (known.wakeup = "on")
    /\ is_device_configured => \A i \in known.selected : InterfaceSetting(i) = known.alt[i]
    /\ known.volume # Unknown => FromDb(volume) = known.volume

(* A configured device on an active bus does not take itself for suspended,*)
(* which would keep its application from sending and let it signal a       *)
(* wakeup: the reset handler does not end a suspension, SET_CONFIGURATION  *)
(* does.                                                                   *)
AwakeWhenActive == active /\ is_device_configured => ~suspended

(* The application holds whole images only, and the image of the tool when *)
(* that has finished, however many updates were broken off by resets,      *)
(* refused or repeated before.                                             *)
WholeImages ==
    /\ image \in {<<>>} \cup {Image(v) : v \in Versions}
    /\ tool.step = "done" => image = Image(tool.version)

(* A frame the host sees end is one frame of the program, all of it, once  *)
(* and in order.                                                           *)
FramesWhole ==
    [][taken'.whole /\ ~taken.whole =>
         taken'.bytes = [j \in 1 .. frame.len |-> <<frame.no, j>>]]_vars

(* An update or an upload ends, with success or not: there is no state of  *)
(* the update class that the tool cannot leave.                            *)
UpdateEnds == tool.step # "idle" ~> tool.step = "idle"
=============================================================================
