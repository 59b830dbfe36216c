------------------------ MODULE CompositeDevice_proofs ------------------------
(***************************************************************************)
(* Machine-checked proofs about CompositeDevice, for every layout of       *)
(* interfaces and endpoints, every number of blocks, every length of       *)
(* frames and payloads and every range of volumes.                         *)
(***************************************************************************)
EXTENDS CompositeDevice, SequenceTheorems, TLAPS

-----------------------------------------------------------------------------
(* Which steps leave which component alone. *)

CoreSeen == <<coreVars, known, active, opened, volume>>

LEMMA CoreUntouched ==
    ASSUME Play \/ ToolBegins \/ ToolStep \/ AnswerLost \/ Debug
    PROVE  UNCHANGED CoreSeen
  BY DEF Play, StartFrame, PayloadTaken, ToolBegins, ToolStep, AnswerLost, Working,
         Debug, Debugging, CoreIdle, streamVars, CoreSeen

LEMMA UpdateUntouched ==
    ASSUME System \/ Disconnect \/ Suspend \/ Resume \/ Play \/ Debug
    PROVE  UNCHANGED <<dfuVars, tool>>
  BY DEF System, Enumerate, Configure, Select, Halt, WakeupFeature, ChangeVolume, AsSystem, Asked,
         Drivers, Disconnect, Suspend, Resume, Play, Debug, Debugging

FramesSeen == <<stream, producing, frame, packet, taken>>

LEMMA FramesUntouched ==
    ASSUME \/ Enumerate \/ Configure \/ Halt \/ WakeupFeature \/ ChangeVolume
           \/ Disconnect \/ Suspend \/ Resume \/ ToolBegins \/ ToolStep \/ AnswerLost \/ Debug
    PROVE  UNCHANGED FramesSeen
  BY DEF Enumerate, Configure, Halt, WakeupFeature, ChangeVolume, SetVolume, Drivers, streamVars,
         Disconnect, Suspend, Resume, ToolBegins, ToolStep, AnswerLost, Working, Debug, Debugging,
         FramesSeen

LEMMA BridgeUntouched ==
    ASSUME \/ Enumerate \/ Select \/ Halt \/ WakeupFeature \/ ChangeVolume
           \/ Disconnect \/ Suspend \/ Resume \/ Play \/ ToolBegins \/ ToolStep \/ AnswerLost
    PROVE  UNCHANGED adbVars
  BY DEF Enumerate, Select, Halt, WakeupFeature, ChangeVolume, Drivers, Disconnect, Suspend, Resume,
         Play, ToolBegins, ToolStep, AnswerLost, Working

LEMMA ResetIsBusReset == ToolResets => BusReset
  BY DEF ToolResets

-----------------------------------------------------------------------------
(* Suspension. *)

(* A configured device on an active bus never takes itself for suspended,  *)
(* in whatever order resets, suspensions and configurations come.          *)
THEOREM AwakeAlways == Spec => []AwakeWhenActive
  <1>1. Init => AwakeWhenActive
    BY DEF Init, CoreInit, AwakeWhenActive
  <1>2. AwakeWhenActive /\ [Next]_vars => AwakeWhenActive'
    <2> SUFFICES ASSUME AwakeWhenActive, [Next]_vars PROVE AwakeWhenActive'
      OBVIOUS
    <2> USE DEF AwakeWhenActive, is_device_configured
    <2>1. CASE Enumerate \/ Halt \/ WakeupFeature \/ Select \/ ChangeVolume
      BY <2>1 DEF Enumerate, Halt, WakeupFeature, Select, ChangeVolume, AsSystem, Asked,
                  SetAddress, SetHalt, SetWakeupFeature, SetInterface
    <2>2. CASE Configure
      BY <2>2, LayoutAssumption DEF Configure, Asked, SetConfiguration, Suspension
    <2>3. CASE BusReset
      BY <2>3 DEF BusReset, CoreReset
    <2>4. CASE Disconnect \/ Suspend \/ Resume
      BY <2>4 DEF Disconnect, Suspend, Resume, CoreDisconnect, CoreSuspend, CoreResume
    <2>5. CASE Play \/ ToolBegins \/ ToolStep \/ AnswerLost \/ Debug
      BY <2>5, CoreUntouched DEF CoreSeen, coreVars
    <2>6. CASE UNCHANGED vars
      BY <2>6 DEF vars
    <2> QED BY <2>1, <2>2, <2>3, <2>4, <2>5, <2>6, ResetIsBusReset DEF Next, System, Bus
  <1> QED BY <1>1, <1>2, PTL DEF Spec

-----------------------------------------------------------------------------
(* What the device answers. *)

\* The volume the host has set is the one it reads back: the two conversions
\* of the audio driver are inverse on what the device offers.
LEMMA VolumeKept ==
    ASSUME NEW v \in OfferedVolumes
    PROVE  FromDb(ToDb(v)) = v
  <1>1. PICK db \in -QuietDb .. 0 : v = FromDb(db)
    BY DEF OfferedVolumes
  <1>2. VolUnit \in Nat \ {0} /\ QuietDb \in Nat \ {0} /\ VolWord \in Nat
        /\ QuietDb * VolUnit <= VolWord \div 2
    BY StreamAssumption
  <1>3. CASE db = 0
    <2>1. v = 0
      BY <1>1, <1>2, <1>3 DEF FromDb
    <2>2. 0 \div VolUnit = 0
      BY <1>2
    <2>3. QuietDb * VolUnit > 0
      BY <1>2
    <2>4. QuietDb * VolUnit \in Int /\ VolWord \div 2 \in Int
      BY <1>2
    <2>5. 0 < VolWord \div 2
      BY <1>2, <2>3, <2>4
    <2>6. ToDb(0) = 0
      BY <2>2, <2>5 DEF ToDb
    <2> QED BY <1>1, <1>3, <2>1, <2>6
  <1>4. CASE db # 0
    <2> DEFINE m == -db
    <2>1. m \in Nat \ {0} /\ m <= QuietDb /\ db = -m /\ db < 0
      BY <1>2, <1>4
    <2> HIDE DEF m
    <2>2. m * VolUnit \in Nat /\ m * VolUnit <= QuietDb * VolUnit /\ db * VolUnit = -(m * VolUnit)
      BY <1>2, <2>1
    <2>3. v = VolWord - m * VolUnit
      BY <1>1, <1>2, <2>1, <2>2 DEF FromDb
    <2>4. ~(v < VolWord \div 2)
      BY <1>2, <2>2, <2>3
    <2>5. VolWord - v = m * VolUnit
      BY <1>2, <2>2, <2>3
    <2>6. (m * VolUnit) \div VolUnit = m
      BY <1>2, <2>1
    <2>7. ToDb(v) = -m
      BY <2>4, <2>5, <2>6 DEF ToDb
    <2> QED BY <1>1, <2>1, <2>7
  <1> QED BY <1>3, <1>4

Settled == altSetting \in [Intfs -> Nat] /\ known.alt \in [Intfs -> Nat]

\* The records of the host and of the device, without the guard that the
\* device is configured: what was noted for a selected interface stays noted.
AnswersInv ==
    /\ Settled
    /\ known.selected \subseteq Intfs
    /\ known = [config |-> configuration, alt |-> known.alt, selected |-> known.selected,
                halted |-> known.halted, wakeup |-> known.wakeup, volume |-> known.volume]
    /\ known.wakeup \in {"unknown", "on", "off"}
    /\ known.wakeup # "unknown" => wakeup = (known.wakeup = "on")
    /\ \A i \in known.selected : altSetting[i] = known.alt[i]
    /\ known.volume # Unknown => FromDb(volume) = known.volume

\* What the host notes when it has selected setting a of interface i.
Chosen(i, a) == [known EXCEPT !.alt[i] = a, !.selected = @ \cup {i},
                              !.halted = IF a = 0 THEN @ ELSE @ \ Alts[i][a]]

\* What the host notes when it has configured the device.
AllDefault == [known EXCEPT !.config = ConfigValue, !.halted = @ \ DefaultEndpoints,
                             !.alt = [i \in Intfs |-> 0], !.selected = {}]

ConfigureTo(value) ==
    /\ SetConfiguration(value)
    /\ known' = CASE value = ConfigValue -> AllDefault
                   [] value = 0 -> [known EXCEPT !.config = 0]
                   [] OTHER     -> known

LEMMA AnswersInit == Init => AnswersInv
  BY DEF Init, CoreInit, Fresh, AnswersInv, Settled, Unknown

LEMMA AnswersStep == AnswersInv /\ [Next]_vars => AnswersInv'
  <1> SUFFICES ASSUME AnswersInv, [Next]_vars PROVE AnswersInv'
    OBVIOUS
  <1> USE DEF AnswersInv, Settled
  <1>1. CASE Enumerate \/ Halt
    BY <1>1 DEF Enumerate, Halt, AsSystem, Asked, SetAddress, SetHalt, Drivers, streamVars
  <1>2. CASE WakeupFeature
    BY <1>2 DEF WakeupFeature, AsSystem, Asked, SetWakeupFeature, Drivers, streamVars
  <1>3. CASE Configure
    <2>1. UNCHANGED <<altSetting, wakeup, volume>>
      BY <1>3 DEF Configure, SetConfiguration, streamVars
    <2>2. PICK value \in {0, ConfigValue, ConfigValue + 1} : ConfigureTo(value)
      BY <1>3 DEF Configure, ConfigureTo, AllDefault
    <2>3. CASE value = ConfigValue
      BY <2>1, <2>2, <2>3, LayoutAssumption DEF ConfigureTo, SetConfiguration, AllDefault
    <2>4. CASE value = 0
      BY <2>1, <2>2, <2>4, LayoutAssumption DEF ConfigureTo, SetConfiguration
    <2>5. CASE value = ConfigValue + 1
      BY <2>1, <2>2, <2>5, LayoutAssumption DEF ConfigureTo, SetConfiguration
    <2> QED BY <2>2, <2>3, <2>4, <2>5
  <1>4. CASE Select
    <2>1. PICK i \in Intfs : \E a \in DOMAIN Alts[i] :
            /\ altSetting' = [altSetting EXCEPT ![i] = a]
            /\ known' = Chosen(i, a)
      BY <1>4 DEF Select, SetInterface, NewAlts, Chosen
    <2>2. PICK a \in DOMAIN Alts[i] :
            /\ altSetting' = [altSetting EXCEPT ![i] = a]
            /\ known' = Chosen(i, a)
      BY <2>1
    <2>3. UNCHANGED <<configuration, wakeup, volume>>
      BY <1>4 DEF Select, SetInterface, StreamSetInterface
    <2>4. a \in Nat
      BY LayoutAssumption
    <2>5. known' = [config |-> known.config, alt |-> [known.alt EXCEPT ![i] = a],
                    selected |-> known.selected \cup {i},
                    halted |-> IF a = 0 THEN known.halted ELSE known.halted \ Alts[i][a],
                    wakeup |-> known.wakeup, volume |-> known.volume]
      BY <2>2 DEF Chosen
    <2>6. Settled'
      BY <2>2, <2>4, <2>5
    <2>7. \A j \in known'.selected : altSetting'[j] = known'.alt[j]
      BY <2>2, <2>5
    <2> QED BY <2>2, <2>3, <2>5, <2>6, <2>7
  <1>5. CASE ChangeVolume
    <2>1. PICK v \in OfferedVolumes : volume' = ToDb(v) /\ known' = [known EXCEPT !.volume = v]
      BY <1>5 DEF ChangeVolume, SetVolume
    <2>2. UNCHANGED <<configuration, altSetting, wakeup>>
      BY <1>5 DEF ChangeVolume
    <2> QED BY <2>1, <2>2, VolumeKept
  <1>6. CASE BusReset
    BY <1>6 DEF BusReset, CoreReset, StreamReset, Fresh, Unknown
  <1>7. CASE Disconnect
    BY <1>7 DEF Disconnect, CoreDisconnect, Fresh, Unknown, Drivers, streamVars
  <1>8. CASE Suspend \/ Resume
    BY <1>8 DEF Suspend, Resume, CoreSuspend, CoreResume, Drivers, streamVars
  <1>9. CASE Play \/ ToolBegins \/ ToolStep \/ AnswerLost \/ Debug
    BY <1>9, CoreUntouched DEF CoreSeen, coreVars
  <1>10. CASE UNCHANGED vars
    BY <1>10 DEF vars
  <1> QED BY <1>1, <1>2, <1>3, <1>4, <1>5, <1>6, <1>7, <1>8, <1>9, <1>10, ResetIsBusReset
          DEF Next, System, Bus

(* What the device answers about its configuration, settings, wakeup       *)
(* feature and volume is what the host has set since it could last rely on *)
(* it, for every layout of interfaces and every range of volumes.          *)
THEOREM AnswersAgree == Spec => []AnswersTruly
  <1>1. AnswersInv => AnswersTruly
    BY DEF AnswersInv, AnswersTruly, Configuration, DeviceStatus, InterfaceSetting
  <1> QED BY AnswersInit, AnswersStep, <1>1, PTL DEF Spec

-----------------------------------------------------------------------------
(* What the device serves. *)

EndpointsTyped == endpoint \in [Endpoints -> [enable : BOOLEAN, resp : {"NAK", "ACK", "STALL"}]]

\* Whatever settings are selected, the endpoints of the default settings stay
\* open: closing an endpoint does nothing, and only a bus reset, which also
\* takes the configuration back, closes them.  So an interface may return to
\* its default setting at any time.
DefaultsOpen ==
    /\ \A e \in DefaultEndpoints : endpoint[e].enable
    /\ \A e \in Listens \ known.halted : endpoint[e].resp = "ACK"

SettingsOpen ==
    \A i \in Intfs : \A e \in Alts[i][known.alt[i]] :
        /\ endpoint[e].enable
        /\ e \in (Listens \cup Reads) \ known.halted => endpoint[e].resp = "ACK"

StreamsTold ==
    \A i \in known.selected \cap (AudioIntfs \cup VideoIntfs) :
        i \in opened <=> Alts[i][known.alt[i]] # {}

ServesInv ==
    /\ EndpointsTyped
    /\ known.config # 0 =>
         /\ \A i \in Intfs : known.alt[i] \in DOMAIN Alts[i]
         /\ DefaultsOpen /\ SettingsOpen /\ StreamsTold

LEMMA LayoutFacts ==
    /\ OutEndpoints \cap InEndpoints = {} /\ Endpoints = OutEndpoints \cup InEndpoints
    /\ Listens \subseteq OutEndpoints /\ Reads \subseteq OutEndpoints
    /\ Listens \subseteq DefaultEndpoints /\ DefaultEndpoints \subseteq Endpoints
    /\ \A i \in Intfs : /\ 0 \in DOMAIN Alts[i] /\ Alts[i][0] \subseteq DefaultEndpoints
                        /\ \A a \in DOMAIN Alts[i] : a \in Nat /\ Alts[i][a] \subseteq Endpoints
  BY LayoutAssumption, ReadsAssumption DEF DefaultEndpoints, Endpoints

\* A default setting has endpoints to read from at once, and no others.
LEMMA DefaultReads ==
    ASSUME OrderlyLayout
    PROVE  \A i \in Intfs : Alts[i][0] \cap Reads = {}
  <1>1. \A i \in Intfs : ~Streams(i, 0)
    BY DEF Streams
  <1> QED BY <1>1, LayoutFacts DEF OrderlyLayout

LEMMA OpenedTyped ==
    ASSUME EndpointsTyped, NEW eps \in SUBSET Endpoints
    PROVE  Opened(endpoint, eps) \in [Endpoints -> [enable : BOOLEAN, resp : {"NAK", "ACK", "STALL"}]]
  BY DEF EndpointsTyped, Opened

LEMMA StartedTyped ==
    ASSUME NEW E \in [Endpoints -> [enable : BOOLEAN, resp : {"NAK", "ACK", "STALL"}]], NEW eps
    PROVE  /\ Started(E, eps) \in [Endpoints -> [enable : BOOLEAN, resp : {"NAK", "ACK", "STALL"}]]
           /\ \A e \in Endpoints : Started(E, eps)[e].enable = E[e].enable
           /\ \A e \in Endpoints : e \in eps /\ E[e].enable => Started(E, eps)[e].resp = "ACK"
           /\ \A e \in Endpoints : e \notin eps => Started(E, eps)[e] = E[e]
  BY DEF Started

LEMMA ServesInit == Init => ServesInv
  BY DEF Init, CoreInit, Fresh, ServesInv, EndpointsTyped, Closed

\* A new configuration opens the default settings, and the drivers that listen
\* are told when their endpoints are open.
LEMMA ServesConfigure ==
    ASSUME OrderlyLayout, AnswersInv, ServesInv, Configure
    PROVE  ServesInv'
  <1>1. PICK value \in {0, ConfigValue, ConfigValue + 1} : ConfigureTo(value)
    BY DEF Configure, ConfigureTo, AllDefault
  <1>2. ConfigValue \in Nat \ {0} /\ opened' = opened
    BY LayoutAssumption DEF Configure, streamVars
  <1>3. CASE value = ConfigValue
    <2>1. /\ known' = [config |-> ConfigValue, alt |-> [i \in Intfs |-> 0], selected |-> {},
                       halted |-> known.halted \ DefaultEndpoints, wakeup |-> known.wakeup,
                       volume |-> known.volume]
          /\ endpoint' = Started(Opened(endpoint, DefaultEndpoints), Listens)
      BY <1>1, <1>2, <1>3 DEF ConfigureTo, SetConfiguration, AllDefault, AnswersInv, Configured
    <2> DEFINE E == Opened(endpoint, DefaultEndpoints)
    <2>2. /\ E \in [Endpoints -> [enable : BOOLEAN, resp : {"NAK", "ACK", "STALL"}]]
          /\ \A e \in DefaultEndpoints : E[e].enable
          /\ \A e \in Endpoints \ DefaultEndpoints : E[e] = endpoint[e]
      BY OpenedTyped, LayoutFacts DEF ServesInv, Opened
    <2>3. endpoint' = Started(E, Listens)
      BY <2>1
    <2> HIDE DEF E
    <2>8. EndpointsTyped'
      BY <2>2, <2>3, StartedTyped DEF EndpointsTyped
    <2>4. \A e \in DefaultEndpoints : endpoint'[e].enable /\ (e \in Listens => endpoint'[e].resp = "ACK")
      <3>1. DefaultEndpoints \subseteq Endpoints
        BY LayoutFacts
      <3>2. /\ \A e \in Endpoints : endpoint'[e].enable = E[e].enable
            /\ \A e \in Endpoints : e \in Listens /\ E[e].enable => endpoint'[e].resp = "ACK"
        BY <2>2, <2>3, StartedTyped
      <3> QED BY <2>2, <3>1, <3>2
    <2>5. DefaultsOpen'
      BY <2>4, LayoutFacts DEF DefaultsOpen
    <2>6. SettingsOpen'
      BY <2>1, <2>4, LayoutFacts, DefaultReads DEF SettingsOpen
    <2>7. StreamsTold'
      BY <2>1 DEF StreamsTold
    <2> QED BY <2>1, <2>5, <2>6, <2>7, <2>8, LayoutFacts DEF ServesInv
  <1>4. CASE value = 0
    BY <1>1, <1>2, <1>4 DEF ConfigureTo, SetConfiguration, ServesInv, AnswersInv, EndpointsTyped
  <1>5. CASE value = ConfigValue + 1
    BY <1>1, <1>2, <1>5 DEF ConfigureTo, SetConfiguration, ServesInv, EndpointsTyped, DefaultsOpen,
       SettingsOpen, StreamsTold
  <1> QED BY <1>1, <1>3, <1>4, <1>5

\* A setting opens its endpoints anew; those of others that it shares are read
\* from again as well.
LEMMA ServesSelect ==
    ASSUME OrderlyLayout, AnswersInv, ServesInv, Select
    PROVE  ServesInv'
  <1>1. PICK i \in Intfs : \E a \in DOMAIN Alts[i] :
          /\ SetInterface(i, a, IF Streams(i, a) THEN Reads \cap Alts[i][a] ELSE {})
          /\ StreamSetInterface(i, a)
          /\ known' = Chosen(i, a)
    BY DEF Select, Chosen
  <1>2. PICK a \in DOMAIN Alts[i] :
          /\ SetInterface(i, a, IF Streams(i, a) THEN Reads \cap Alts[i][a] ELSE {})
          /\ StreamSetInterface(i, a)
          /\ known' = Chosen(i, a)
    BY <1>1
  <1>3. configuration # 0 /\ known.config # 0
    BY <1>2 DEF SetInterface, is_device_configured, AnswersInv
  <1>4. known' = [config |-> known.config, alt |-> [known.alt EXCEPT ![i] = a],
                  selected |-> known.selected \cup {i},
                  halted |-> IF a = 0 THEN known.halted ELSE known.halted \ Alts[i][a],
                  wakeup |-> known.wakeup, volume |-> known.volume]
    BY <1>2 DEF Chosen, AnswersInv
  <1>5. known.alt \in [Intfs -> Nat]
    BY DEF AnswersInv, Settled
  <1>6. \A j \in Intfs : known'.alt[j] = IF j = i THEN a ELSE known.alt[j]
    BY <1>4, <1>5
  <1>7. \A j \in Intfs : known'.alt[j] \in DOMAIN Alts[j]
    BY <1>3, <1>6 DEF ServesInv
  <1>8. StreamsTold'
    <2>1. \A j \in Intfs : Streams(j, a) => j \in AudioIntfs \cup VideoIntfs
      BY DEF Streams
    <2>2. opened' = IF Streams(i, a) THEN opened \cup {i} ELSE opened \ {i}
      BY <1>2 DEF StreamSetInterface
    <2>3. i \in AudioIntfs \cup VideoIntfs => (i \in opened' <=> Alts[i][a] # {})
      BY <2>2 DEF OrderlyLayout
    <2>4. \A j \in known'.selected \ {i} : j \in known.selected /\ (j \in opened' <=> j \in opened)
      BY <1>4, <2>2
    <2>5. known.selected \subseteq Intfs
      BY DEF AnswersInv
    <2> QED BY <1>3, <1>6, <2>3, <2>4, <2>5 DEF StreamsTold, ServesInv
  <1>9. CASE a = 0
    <2>1. endpoint' = endpoint /\ known'.halted = known.halted
      BY <1>2, <1>4, <1>9 DEF SetInterface, Reset
    <2>2. DefaultsOpen'
      BY <1>3, <2>1 DEF ServesInv, DefaultsOpen
    <2>3. \A e \in Alts[i][0] : endpoint[e].enable
            /\ (e \in (Listens \cup Reads) \ known.halted => endpoint[e].resp = "ACK")
      BY <1>3, LayoutFacts, DefaultReads DEF ServesInv, DefaultsOpen
    <2>4. SettingsOpen'
      BY <1>3, <1>6, <1>9, <2>1, <2>3 DEF ServesInv, SettingsOpen
    <2>5. EndpointsTyped'
      BY <2>1 DEF ServesInv, EndpointsTyped
    <2> QED BY <1>4, <1>7, <1>8, <2>2, <2>4, <2>5 DEF ServesInv
  <1>10. CASE a # 0
    <2> DEFINE E == Opened(endpoint, Alts[i][a])
               R == IF Streams(i, a) THEN Reads \cap Alts[i][a] ELSE {}
    <2>1. endpoint' = Started(E, R) /\ known'.halted = known.halted \ Alts[i][a]
      BY <1>2, <1>4, <1>10 DEF SetInterface
    <2>2. Alts[i][a] \subseteq Endpoints /\ Alts[i][a] \cap Listens = {} /\ R = Reads \cap Alts[i][a]
      BY <1>10, LayoutFacts DEF OrderlyLayout
    <2>3. /\ E \in [Endpoints -> [enable : BOOLEAN, resp : {"NAK", "ACK", "STALL"}]]
          /\ \A e \in Alts[i][a] : E[e].enable
          /\ \A e \in Endpoints \ Alts[i][a] : E[e] = endpoint[e]
      BY <2>2, OpenedTyped DEF ServesInv, Opened
    <2> HIDE DEF E, R
    <2>4. EndpointsTyped'
      BY <2>1, <2>3, StartedTyped DEF EndpointsTyped
    <2>5. \A e \in Alts[i][a] : endpoint'[e].enable /\ (e \in Reads => endpoint'[e].resp = "ACK")
      BY <2>1, <2>2, <2>3, StartedTyped
    <2>6. \A e \in Endpoints \ Alts[i][a] : endpoint'[e] = endpoint[e]
      BY <2>1, <2>2, <2>3, StartedTyped
    <2>7. DefaultsOpen'
      <3>1. \A e \in DefaultEndpoints : endpoint'[e].enable
        BY <1>3, <2>5, <2>6, LayoutFacts DEF ServesInv, DefaultsOpen
      <3>2. \A e \in Listens \ known'.halted : endpoint'[e].resp = "ACK"
        BY <1>3, <2>1, <2>2, <2>6, LayoutFacts DEF ServesInv, DefaultsOpen
      <3> QED BY <3>1, <3>2 DEF DefaultsOpen
    <2>8. SettingsOpen'
      <3> SUFFICES ASSUME NEW j \in Intfs, NEW e \in Alts[j][known'.alt[j]]
                   PROVE  /\ endpoint'[e].enable
                          /\ e \in (Listens \cup Reads) \ known'.halted => endpoint'[e].resp = "ACK"
        BY DEF SettingsOpen
      <3>1. e \in Endpoints
        BY <1>7, LayoutFacts
      <3>2. CASE e \in Alts[i][a]
        BY <2>2, <2>5, <3>2
      <3>3. CASE e \notin Alts[i][a]
        <4>1. j # i /\ e \in Alts[j][known.alt[j]]
          BY <1>6, <3>3
        <4> QED BY <1>3, <2>1, <2>6, <3>1, <3>3, <4>1 DEF ServesInv, SettingsOpen
      <3> QED BY <3>2, <3>3
    <2> QED BY <1>4, <1>7, <1>8, <2>4, <2>7, <2>8 DEF ServesInv
  <1> QED BY <1>9, <1>10

\* A halt the host sets is on its list; one it clears makes an endpoint that is
\* read from answer again.
LEMMA ServesHalt ==
    ASSUME AnswersInv, ServesInv, Halt
    PROVE  ServesInv'
  <1>1. PICK e \in Endpoints, on \in BOOLEAN :
          /\ SetHalt(e, on)
          /\ known' = [known EXCEPT !.halted = IF on THEN @ \cup {e} ELSE @ \ {e}]
    BY DEF Halt
  <1>2. known' = [config |-> known.config, alt |-> known.alt, selected |-> known.selected,
                  halted |-> IF on THEN known.halted \cup {e} ELSE known.halted \ {e},
                  wakeup |-> known.wakeup, volume |-> known.volume]
    BY <1>1 DEF AnswersInv
  <1>3. opened' = opened
    BY DEF Halt, Drivers, streamVars
  <1>4. EndpointsTyped'
    BY <1>1 DEF ServesInv, EndpointsTyped, SetHalt, Stalled, StallCleared
  <1>5. /\ \A f \in Endpoints : endpoint'[f].enable = endpoint[f].enable
        /\ \A f \in Endpoints \ {e} : endpoint'[f] = endpoint[f]
        /\ ~on /\ e \in OutEndpoints => endpoint'[e].resp = "ACK"
    BY <1>1 DEF ServesInv, EndpointsTyped, SetHalt, Stalled, StallCleared
  <1>6. CASE known.config # 0
    <2>1. \A i \in Intfs : Alts[i][known.alt[i]] \subseteq Endpoints
      BY <1>6, LayoutFacts DEF ServesInv
    <2>2. DefaultsOpen'
      BY <1>2, <1>5, <1>6, LayoutFacts DEF ServesInv, DefaultsOpen
    <2>3. SettingsOpen'
      BY <1>2, <1>5, <1>6, <2>1, LayoutFacts DEF ServesInv, SettingsOpen
    <2> QED BY <1>2, <1>3, <1>4, <1>6, <2>2, <2>3 DEF ServesInv, StreamsTold
  <1> QED BY <1>2, <1>4, <1>6 DEF ServesInv

LEMMA ServesStep ==
    ASSUME OrderlyLayout, AnswersInv, ServesInv, [Next]_vars
    PROVE  ServesInv'
  <1>1. CASE UNCHANGED <<configuration, endpoint, opened>> /\ UNCHANGED <<known>>
    BY <1>1 DEF ServesInv, EndpointsTyped, DefaultsOpen, SettingsOpen, StreamsTold
  <1>2. CASE WakeupFeature \/ ChangeVolume
    <2>1. UNCHANGED <<endpoint, opened>>
      BY <1>2 DEF WakeupFeature, ChangeVolume, SetWakeupFeature, SetVolume, Drivers, streamVars
    <2>2. /\ known'.config = known.config /\ known'.alt = known.alt
          /\ known'.selected = known.selected /\ known'.halted = known.halted
      BY <1>2 DEF WakeupFeature, ChangeVolume, AnswersInv
    <2> QED BY <2>1, <2>2 DEF ServesInv, EndpointsTyped, DefaultsOpen, SettingsOpen, StreamsTold
  <1>3. CASE BusReset
    BY <1>3 DEF BusReset, CoreReset, Fresh, ServesInv, EndpointsTyped, Closed
  <1>4. CASE Disconnect
    BY <1>4 DEF Disconnect, CoreDisconnect, Fresh, ServesInv, EndpointsTyped
  <1>5. CASE Enumerate \/ Suspend \/ Resume
    BY <1>1, <1>5 DEF Enumerate, SetAddress, Suspend, Resume, CoreSuspend, CoreResume, Drivers, streamVars
  <1>6. CASE Play \/ ToolBegins \/ ToolStep \/ AnswerLost \/ Debug
    BY <1>1, <1>6, CoreUntouched DEF CoreSeen, coreVars
  <1>7. CASE UNCHANGED vars
    BY <1>1, <1>7 DEF vars
  <1> QED BY <1>2, <1>3, <1>4, <1>5, <1>6, <1>7, ServesConfigure, ServesSelect, ServesHalt,
             ResetIsBusReset DEF Next, System, Bus

(* A configured device serves what the host has selected: every endpoint   *)
(* of it is open and, unless halted, answers where a driver reads from it, *)
(* and each streaming driver was told of its setting - for every layout    *)
(* the drivers allow, and any order of configurations, settings, halts,    *)
(* suspensions, resets and disconnections.                                 *)
THEOREM ServesAlways ==
    ASSUME OrderlyLayout
    PROVE  Spec => []Serves
  <1>1. ServesInv => Serves
    BY DEF ServesInv, Serves, SettingsOpen, StreamsTold
  <1>2. Init => AnswersInv /\ ServesInv
    BY AnswersInit, ServesInit
  <1>3. AnswersInv /\ ServesInv /\ [Next]_vars => (AnswersInv /\ ServesInv)'
    BY AnswersStep, ServesStep
  <1> QED BY <1>1, <1>2, <1>3, PTL DEF Spec

-----------------------------------------------------------------------------
(* Images. *)

\* The first k blocks of the image the tool sends.
Loaded(k) == [j \in 1 .. k |-> <<tool.version, j>>]

\* The states from which a load has still to begin.
Before == {"APP_IDLE", "IDLE", "UPLOAD_IDLE"}

ToolTyped ==
    /\ dfuState \in DfuStates
    /\ tool \in [step : Steps, next : Nat, version : Versions]

\* Step by step of the tool: how far the device is, and what it has collected.
\* An answer that got lost leaves the device one state ahead of the tool, in a
\* state that refuses the repeated request.
LoadInv ==
    /\ image \in {<<>>} \cup {Image(v) : v \in Versions}
    /\ dfuState = "UPLOAD_IDLE" => load = <<>>
    /\ tool.step \in {"idle", "upload"} => dfuState \in Before
    /\ tool.step = "block" =>
         /\ tool.next \in 1 .. Blocks
         /\ \/ dfuState = "DNLOAD_IDLE" /\ load = Loaded(tool.next - 1)
            \/ dfuState \in Before /\ tool.next = 1
            \/ dfuState \in {"DNLOAD_SYNC", "ERROR"}
    /\ tool.step = "poll" =>
         /\ tool.next \in 1 .. Blocks /\ load = Loaded(tool.next)
         /\ dfuState \in {"DNLOAD_SYNC", "DNLOAD_BUSY", "DNLOAD_IDLE"}
    /\ tool.step = "end" =>
         \/ dfuState = "DNLOAD_IDLE" /\ load = Image(tool.version)
         \/ dfuState = "MANIFEST_SYNC"
    /\ tool.step = "manifest" =>
         dfuState \in {"MANIFEST_SYNC", "MANIFEST_WAIT_RESET"} /\ image = Image(tool.version)
    /\ tool.step = "done" => image = Image(tool.version)

LEMMA BlocksInOrder ==
    ASSUME NEW v \in Versions, NEW n \in Nat \ {0}
    PROVE  Append([j \in 1 .. n - 1 |-> <<v, j>>], <<v, n>>) = [j \in 1 .. n |-> <<v, j>>]
  <1> DEFINE s == [j \in 1 .. n - 1 |-> <<v, j>>]
             a == Append(s, <<v, n>>)
             t == [j \in 1 .. n |-> <<v, j>>]
  <1>1. \A j \in 1 .. n : <<v, j>> \in Versions \X Nat
    OBVIOUS
  <1>2. s \in Seq(Versions \X Nat) /\ Len(s) = n - 1 /\ \A j \in 1 .. n - 1 : s[j] = <<v, j>>
    BY <1>1
  <1>3. t \in Seq(Versions \X Nat) /\ Len(t) = n /\ \A j \in 1 .. n : t[j] = <<v, j>>
    BY <1>1
  <1> HIDE DEF s, t
  <1>4. a \in Seq(Versions \X Nat) /\ Len(a) = n
    BY <1>1, <1>2
  <1>5. \A j \in 1 .. n : a[j] = <<v, j>>
    BY <1>1, <1>2
  <1>6. a = t
    BY <1>3, <1>4, <1>5, SeqEqual
  <1> QED BY <1>6 DEF s, t

\* What a block that is accepted adds up to.
LEMMA BlockAdded ==
    ASSUME ToolTyped, LoadInv, tool.step = "block", dfuState \in Accepts("DNLOAD")
    PROVE  Append(Begun, <<tool.version, tool.next>>) = Loaded(tool.next)
  <1>1. dfuState \in {"IDLE", "DNLOAD_IDLE"} /\ tool.version \in Versions /\ tool.next \in Nat \ {0}
    BY DEF Accepts, ToolTyped, LoadInv
  <1>2. Append(Loaded(tool.next - 1), <<tool.version, tool.next>>) = Loaded(tool.next)
    BY <1>1, BlocksInOrder DEF Loaded
  <1>3. CASE dfuState = "DNLOAD_IDLE"
    BY <1>2, <1>3 DEF LoadInv, Before, Begun
  <1>4. CASE dfuState = "IDLE"
    <2>1. tool.next = 1
      BY <1>4 DEF LoadInv
    <2>2. Loaded(tool.next - 1) = <<>>
      BY <2>1 DEF Loaded
    <2> QED BY <1>2, <1>4, <2>2 DEF Begun
  <1> QED BY <1>1, <1>3, <1>4

LEMMA ImageFull ==
    ASSUME NEW v \in Versions
    PROVE  Image(v) # <<>>
  <1>1. Blocks \in Nat \ {0}
    BY BlocksAssumption
  <1>2. DOMAIN Image(v) = 1 .. Blocks /\ 1 \in 1 .. Blocks
    BY <1>1 DEF Image
  <1>3. DOMAIN <<>> = {}
    OBVIOUS
  <1> QED BY <1>2, <1>3

LEMMA LoadInit == Init => ToolTyped /\ LoadInv
  BY DEF Init, DfuInit, ToolTyped, LoadInv, Before, DfuStates, Steps, Versions

LEMMA LoadReset ==
    ASSUME ToolTyped, LoadInv, BusReset
    PROVE  (ToolTyped /\ LoadInv)'
  <1>1. /\ dfuState' = "IDLE" /\ UNCHANGED <<load, image>>
        /\ tool' = [tool EXCEPT !.step = "idle"]
    BY DEF BusReset, DfuReset
  <1>2. ToolTyped' /\ tool'.step = "idle"
    BY <1>1 DEF ToolTyped, DfuStates, Steps
  <1> QED BY <1>1, <1>2 DEF LoadInv, Before

LEMMA LoadToolBegins ==
    ASSUME ToolTyped, LoadInv, ToolBegins
    PROVE  (ToolTyped /\ LoadInv)'
  <1>1. Blocks \in Nat \ {0}
    BY BlocksAssumption
  <1>2. tool.step = "idle" /\ UNCHANGED dfuVars /\ tool.version \in {1, 2}
    BY DEF ToolBegins, Begin, At, ToolTyped, Versions
  <1>3. CASE tool' = [step |-> "block", next |-> 1, version |-> 3 - tool.version]
    <2>1. ToolTyped' /\ tool'.step = "block" /\ tool'.next = 1
      BY <1>2, <1>3 DEF ToolTyped, Steps, Versions, dfuVars
    <2> QED BY <1>1, <1>2, <2>1 DEF LoadInv, dfuVars, Before
  <1>4. CASE tool' = [tool EXCEPT !.step = "upload", !.next = 1]
    <2>1. ToolTyped' /\ tool'.step = "upload"
      BY <1>2, <1>4 DEF ToolTyped, Steps, Versions, dfuVars
    <2> QED BY <1>2, <2>1 DEF LoadInv, dfuVars, Before
  <1> QED BY <1>3, <1>4 DEF ToolBegins, Begin

LEMMA LoadToolStep ==
    ASSUME ToolTyped, LoadInv, ToolStep
    PROVE  (ToolTyped /\ LoadInv)'
  <1>1. Blocks \in Nat \ {0}
    BY BlocksAssumption
  <1>2. /\ tool.next \in Nat /\ tool.version \in Versions /\ tool.step \in Steps
        /\ tool = [step |-> tool.step, next |-> tool.next, version |-> tool.version]
    BY DEF ToolTyped
  <1>3. \A s \in Steps : Goto(s) => /\ tool'.step = s /\ tool'.next = tool.next
                                    /\ tool'.version = tool.version
                                    /\ tool' \in [step : Steps, next : Nat, version : Versions]
    BY <1>2 DEF Goto
  <1>4. CASE SendBlock
    <2>1. tool.step = "block" /\ image' = image
      BY <1>4 DEF SendBlock, At, Download, DfuRefused, dfuVars
    <2>2. CASE Download(<<tool.version, tool.next>>) /\ dfuState' = "DNLOAD_SYNC"
      <3>1. load' = Loaded(tool.next)
        BY <2>1, <2>2, BlockAdded DEF Download
      <3>2. Goto("poll")
        BY <1>4, <2>2 DEF SendBlock, DfuRefused, dfuVars, Download, Accepts
      <3> QED BY <1>3, <2>1, <2>2, <3>1, <3>2 DEF LoadInv, Loaded, ToolTyped, DfuStates, Steps
    <2>3. CASE dfuState' = "ERROR" /\ Goto("failed")
      BY <1>3, <2>1, <2>3 DEF LoadInv, ToolTyped, DfuStates, Steps
    <2>4. CASE DfuRefused("DNLOAD") /\ Goto("failed")
      BY <1>3, <2>1, <2>4 DEF LoadInv, ToolTyped, DfuRefused, dfuVars, Steps
    <2> QED BY <1>4, <2>2, <2>3, <2>4 DEF SendBlock, Download
  <1>5. CASE Poll
    <2>1. tool.step = "poll" /\ UNCHANGED <<load, image>> /\ load = Loaded(tool.next)
          /\ tool.next \in 1 .. Blocks
          /\ dfuState \in {"DNLOAD_SYNC", "DNLOAD_BUSY", "DNLOAD_IDLE"}
      BY <1>5 DEF Poll, At, GetStatus, LoadInv
    <2>2. dfuState' = IF dfuState = "DNLOAD_SYNC" THEN "DNLOAD_BUSY" ELSE "DNLOAD_IDLE"
      BY <1>5, <2>1 DEF Poll, GetStatus, NextOnStatus
    <2>3. CASE dfuState' = "DNLOAD_BUSY"
      BY <1>5, <2>1, <2>3 DEF Poll, LoadInv, ToolTyped, Loaded, DfuStates
    <2>4. CASE dfuState' = "DNLOAD_IDLE" /\ tool.next = Blocks
      <3>1. tool' = [step |-> "end", next |-> tool.next + 1, version |-> tool.version]
        BY <1>2, <1>5, <2>4 DEF Poll
      <3>2. load' = Image(tool.version)
        BY <2>1, <2>4 DEF Loaded, Image
      <3> QED BY <1>2, <2>1, <2>4, <3>1, <3>2 DEF LoadInv, ToolTyped, DfuStates, Steps
    <2>5. CASE dfuState' = "DNLOAD_IDLE" /\ tool.next # Blocks
      <3>1. tool' = [step |-> "block", next |-> tool.next + 1, version |-> tool.version]
        BY <1>2, <1>5, <2>5 DEF Poll
      <3>2. tool'.next \in 1 .. Blocks /\ tool'.next - 1 = tool.next
        BY <1>1, <2>1, <2>5, <3>1
      <3> QED BY <1>2, <2>1, <2>5, <3>1, <3>2 DEF LoadInv, ToolTyped, Loaded, DfuStates, Steps
    <2> QED BY <2>2, <2>3, <2>4, <2>5
  <1>6. CASE SendEnd
    <2>1. tool.step = "end"
      BY <1>6 DEF SendEnd, At
    <2>2. CASE DownloadEnd /\ Goto("manifest")
      <3>1. dfuState = "DNLOAD_IDLE" /\ load = Image(tool.version)
        BY <2>1, <2>2 DEF LoadInv, DownloadEnd, Accepts
      <3>2. image' = Image(tool.version)
        BY <1>2, <2>2, <3>1, ImageFull DEF DownloadEnd, EndLoad
      <3> QED BY <1>2, <1>3, <2>2, <3>2 DEF LoadInv, ToolTyped, DownloadEnd, DfuStates, Steps
    <2>3. CASE DfuRefused("DNLOAD") /\ Goto("failed")
      BY <1>3, <2>1, <2>3 DEF LoadInv, ToolTyped, DfuRefused, dfuVars, Steps
    <2> QED BY <1>6, <2>2, <2>3 DEF SendEnd
  <1>7. CASE PollManifest
    <2>1. tool.step = "manifest" /\ image' = image /\ image = Image(tool.version)
          /\ dfuState \in {"MANIFEST_SYNC", "MANIFEST_WAIT_RESET"}
      BY <1>7 DEF PollManifest, At, GetStatus, LoadInv
    <2>2. dfuState' = "MANIFEST_WAIT_RESET"
      BY <1>7, <2>1 DEF PollManifest, GetStatus, NextOnStatus
    <2>3. Goto("done")
      BY <1>7, <2>2 DEF PollManifest
    <2> QED BY <1>2, <1>3, <2>1, <2>2, <2>3 DEF LoadInv, ToolTyped, DfuStates, Steps
  <1>8. CASE FetchBlock
    <2>4. dfuState \in Before
      BY <1>8 DEF FetchBlock, At, LoadInv
    <2>1. tool.step = "upload" /\ image' = image
      BY <1>8, <2>4 DEF FetchBlock, At, Upload, UploadFails, EndLoad, DfuRefused, dfuVars, LoadInv
    <2>2. CASE DfuRefused("UPLOAD") /\ Goto("failed")
      BY <1>3, <2>1, <2>2 DEF LoadInv, ToolTyped, DfuRefused, dfuVars, Steps
    <2>5. CASE UploadFails /\ Goto("failed")
      BY <1>3, <2>1, <2>5 DEF LoadInv, ToolTyped, UploadFails, DfuStates, Steps
    <2>3. CASE \E told \in 0 .. 2 :
                 /\ Upload(tool.next, 2, told)
                 /\ tool' = [tool EXCEPT !.next = @ + 1, !.step = IF told < 2 THEN "idle" ELSE @]
      <3>1. dfuState' \in {"IDLE", "UPLOAD_IDLE"} /\ load' = Begun
        BY <2>3 DEF Upload
      <3>4. load' = <<>>
        BY <2>3, <3>1 DEF Upload, Accepts, Begun, LoadInv
      <3>2. PICK step \in {"idle", "upload"} :
                 tool' = [step |-> step, next |-> tool.next + 1, version |-> tool.version]
        BY <1>2, <2>1, <2>3
      <3>3. tool'.step \in {"idle", "upload"} /\ ToolTyped'
        BY <1>2, <3>1, <3>2 DEF ToolTyped, DfuStates, Steps
      <3> QED BY <2>1, <3>1, <3>3, <3>4 DEF LoadInv, Before
    <2> QED BY <1>8, <2>2, <2>3, <2>5 DEF FetchBlock
  <1>9. CASE Recover
    <2>1. Goto("idle") /\ dfuState' = "IDLE" /\ UNCHANGED <<load, image>>
      BY <1>9 DEF Recover, ClearStatus, Abort
    <2> QED BY <1>3, <2>1 DEF LoadInv, ToolTyped, DfuStates, Steps, Before
  <1> QED BY <1>4, <1>5, <1>6, <1>7, <1>8, <1>9 DEF ToolStep

LEMMA LoadAnswerLost ==
    ASSUME ToolTyped, LoadInv, AnswerLost
    PROVE  (ToolTyped /\ LoadInv)'
  <1>1. tool' = tool /\ tool.version \in Versions
    BY DEF AnswerLost, ToolTyped
  <1>2. CASE tool.step = "block" /\ Download(<<tool.version, tool.next>>)
    BY <1>1, <1>2 DEF LoadInv, ToolTyped, Download, DfuStates
  <1>3. CASE tool.step = "poll" /\ GetStatus
    <2>1. dfuState \in {"DNLOAD_SYNC", "DNLOAD_BUSY", "DNLOAD_IDLE"}
      BY <1>3 DEF LoadInv
    <2>2. dfuState' \in {"DNLOAD_BUSY", "DNLOAD_IDLE"} /\ UNCHANGED <<load, image>>
      BY <1>3, <2>1 DEF GetStatus, NextOnStatus
    <2> QED BY <1>1, <1>3, <2>2 DEF LoadInv, Loaded, ToolTyped, DfuStates
  <1>4. CASE tool.step = "end" /\ DownloadEnd
    <2>1. load = Image(tool.version) /\ dfuState' = "MANIFEST_SYNC"
      BY <1>4 DEF LoadInv, DownloadEnd, Accepts
    <2>2. image' = Image(tool.version)
      BY <1>1, <1>4, <2>1, ImageFull DEF DownloadEnd, EndLoad
    <2> QED BY <1>1, <1>4, <2>1, <2>2 DEF LoadInv, ToolTyped, DfuStates
  <1>5. CASE tool.step = "manifest" /\ GetStatus
    <2>1. dfuState' = "MANIFEST_WAIT_RESET" /\ image' = image
      BY <1>5 DEF LoadInv, GetStatus, NextOnStatus
    <2> QED BY <1>1, <1>5, <2>1 DEF LoadInv, ToolTyped, DfuStates
  <1> QED BY <1>2, <1>3, <1>4, <1>5 DEF AnswerLost, At

LEMMA LoadStep == ToolTyped /\ LoadInv /\ [Next]_vars => (ToolTyped /\ LoadInv)'
  <1> SUFFICES ASSUME ToolTyped, LoadInv, [Next]_vars PROVE (ToolTyped /\ LoadInv)'
    OBVIOUS
  <1>1. CASE UNCHANGED <<dfuVars, tool>>
    BY <1>1 DEF ToolTyped, LoadInv, Loaded, dfuVars
  <1>2. CASE UNCHANGED vars
    BY <1>1, <1>2 DEF vars, dfuVars
  <1> QED BY <1>1, <1>2, UpdateUntouched, ResetIsBusReset, LoadReset, LoadToolBegins, LoadToolStep,
             LoadAnswerLost DEF Next, Bus

(* The application holds no image or a whole one, and that of the tool     *)
(* once it has finished, for every number of blocks, whatever fails, gets  *)
(* lost, is repeated or is broken off by a reset.                          *)
THEOREM ImagesWhole == Spec => []WholeImages
  <1>1. LoadInv => WholeImages
    BY DEF LoadInv, WholeImages
  <1> QED BY LoadInit, LoadStep, <1>1, PTL DEF Spec

-----------------------------------------------------------------------------
(* Frames. *)

FramesTyped ==
    /\ stream \in [len : Nat, offset : Nat, finish : BOOLEAN, id : {0, 1}]
    /\ producing \in BOOLEAN
    /\ frame \in [no : Nat, len : Nat]
    /\ packet \in [from : Nat, n : Nat, id : {0, 1}, eof : BOOLEAN, valid : BOOLEAN]
    /\ taken \in [id : {0, 1, 2}, bytes : Seq(Nat \X Nat), whole : BOOLEAN]

\* The first k bytes of a frame, and the bytes of a payload.
Part(no, k)         == [j \in 1 .. k |-> <<no, j>>]
Piece(no, from, n)  == [j \in 1 .. n |-> <<no, from + j>>]

\* What the host has of the frame to which the payload in the endpoint belongs.
Collected == IF taken.id = packet.id /\ ~taken.whole THEN taken.bytes ELSE <<>>

\* The driver's position is behind the payload in the endpoint, the host's
\* before it; the identifier flips with the last payload, so that the host never
\* takes the rest of one frame for the start of the next.
FrameInv ==
    /\ ~producing => ~packet.valid /\ (taken.whole \/ taken.id = 2)
    /\ packet.valid =>
         /\ packet.from + packet.n = stream.offset
         /\ stream.offset + stream.len = frame.len
         /\ packet.eof <=> stream.finish
         /\ packet.eof => stream.len = 0
         /\ packet.id = (IF packet.eof THEN 1 - stream.id ELSE stream.id)
         /\ Collected = Part(frame.no, packet.from)

LEMMA PieceAdded ==
    ASSUME NEW no \in Nat, NEW m \in Nat, NEW n \in Nat
    PROVE  /\ Part(no, m) \o Piece(no, m, n) = Part(no, m + n)
           /\ Part(no, m) \in Seq(Nat \X Nat)
           /\ Part(no, 0) = <<>>
  <1> DEFINE s == Part(no, m)
             p == Piece(no, m, n)
             t == Part(no, m + n)
  <1>1. s \in Seq(Nat \X Nat) /\ Len(s) = m /\ \A j \in 1 .. m : s[j] = <<no, j>>
    BY DEF Part
  <1>2. p \in Seq(Nat \X Nat) /\ Len(p) = n /\ \A j \in 1 .. n : p[j] = <<no, m + j>>
    BY DEF Piece
  <1>3. t \in Seq(Nat \X Nat) /\ Len(t) = m + n /\ \A j \in 1 .. m + n : t[j] = <<no, j>>
    BY DEF Part
  <1>4. Part(no, 0) = <<>>
    BY DEF Part
  <1> HIDE DEF s, p, t
  <1>5. s \o p \in Seq(Nat \X Nat) /\ Len(s \o p) = m + n
    BY <1>1, <1>2, ConcatProperties
  <1>6. \A j \in 1 .. m + n : (s \o p)[j] = <<no, j>>
    <2>0. \A j \in 1 .. m + n : (s \o p)[j] = IF j <= m THEN s[j] ELSE p[j - m]
      BY <1>1, <1>2, ConcatProperties
    <2> SUFFICES ASSUME NEW j \in 1 .. m + n PROVE (s \o p)[j] = <<no, j>>
      OBVIOUS
    <2>1. CASE j <= m
      BY <1>1, <2>0, <2>1
    <2>2. CASE ~(j <= m)
      <3>1. j - m \in 1 .. n /\ m + (j - m) = j
        BY <2>2
      <3>2. (s \o p)[j] = p[j - m]
        BY <2>0, <2>2
      <3> QED BY <1>2, <3>1, <3>2
    <2> QED BY <2>1, <2>2
  <1>7. s \o p = t
    BY <1>3, <1>5, <1>6, SeqEqual
  <1> QED BY <1>1, <1>4, <1>7 DEF s, p, t

LEMMA FrameInit == Init => FramesTyped /\ FrameInv
  <1> SUFFICES ASSUME Init PROVE FramesTyped /\ FrameInv
    OBVIOUS
  <1>1. /\ stream = [len |-> 0, offset |-> 0, finish |-> FALSE, id |-> 0]
        /\ producing = FALSE /\ frame = [no |-> 0, len |-> 1]
        /\ packet = NoPacket /\ taken = NoTaken
    BY DEF Init, StreamInit
  <1>2. <<>> \in Seq(Nat \X Nat)
    OBVIOUS
  <1>3. taken \in [id : {0, 1, 2}, bytes : Seq(Nat \X Nat), whole : BOOLEAN]
    BY <1>1, <1>2 DEF NoTaken
  <1>4. FramesTyped
    BY <1>1, <1>3 DEF FramesTyped, NoPacket
  <1> QED BY <1>1, <1>4 DEF FrameInv, NoPacket, NoTaken

LEMMA FrameStart ==
    ASSUME FramesTyped, FrameInv, NEW len \in FrameLens, NEW on,
           StartFrame(len, is_device_configured, on)
    PROVE  (FramesTyped /\ FrameInv)'
  <1> DEFINE n == Least(len, Payload)
  <1>1. len \in Nat /\ Payload \in Nat \ {0} /\ n \in Nat /\ n <= len
        /\ MaxFrames \in Nat \ {0}
    BY StreamAssumption DEF Least
  <1>2. /\ ~producing /\ producing' = TRUE /\ taken' = taken
        /\ frame' = [no |-> (frame.no + 1) % MaxFrames, len |-> len]
        /\ stream' = [len |-> len - n, offset |-> n, finish |-> FALSE, id |-> stream.id]
        /\ packet' \in {packet, [from |-> 0, n |-> n, id |-> stream.id, eof |-> FALSE, valid |-> TRUE]}
    BY DEF StartFrame
  <1> HIDE DEF n
  <1>3. (frame.no + 1) % MaxFrames \in Nat
    BY <1>1 DEF FramesTyped
  <1>4. stream.id \in {0, 1} /\ ~packet.valid /\ (taken.whole \/ taken.id = 2)
    BY <1>2 DEF FramesTyped, FrameInv
  <1>5. FramesTyped'
    <2>1. stream' \in [len : Nat, offset : Nat, finish : BOOLEAN, id : {0, 1}]
      BY <1>1, <1>2, <1>4
    <2>2. packet' \in [from : Nat, n : Nat, id : {0, 1}, eof : BOOLEAN, valid : BOOLEAN]
      <3>1. [from |-> 0, n |-> n, id |-> stream.id, eof |-> FALSE, valid |-> TRUE]
              \in [from : Nat, n : Nat, id : {0, 1}, eof : BOOLEAN, valid : BOOLEAN]
        BY <1>1, <1>4
      <3>2. packet \in [from : Nat, n : Nat, id : {0, 1}, eof : BOOLEAN, valid : BOOLEAN]
        BY DEF FramesTyped
      <3> QED BY <1>2, <3>1, <3>2
    <2> QED BY <1>1, <1>2, <1>3, <2>1, <2>2 DEF FramesTyped
  <1>6. CASE packet' = packet
    BY <1>2, <1>4, <1>5, <1>6 DEF FrameInv
  <1>7. CASE packet' = [from |-> 0, n |-> n, id |-> stream.id, eof |-> FALSE, valid |-> TRUE]
    <2>1. Collected' = <<>>
      BY <1>2, <1>4, <1>7 DEF Collected
    <2>2. frame'.no \in Nat
      BY <1>2, <1>3
    <2>3. Part(frame'.no, 0) = <<>>
      BY <2>2, PieceAdded
    <2> QED BY <1>1, <1>2, <1>5, <1>7, <2>1, <2>3 DEF FrameInv
  <1> QED BY <1>2, <1>5, <1>6, <1>7

\* What the host has after a payload, and that it is all of the frame with the
\* last one.
LEMMA FrameTaken ==
    ASSUME FramesTyped, FrameInv, PayloadTaken
    PROVE  /\ taken'.bytes = Part(frame.no, stream.offset)
           /\ taken'.id = packet.id /\ taken'.whole = packet.eof
           /\ taken'.whole => taken'.bytes = Part(frame.no, frame.len)
           /\ taken' \in [id : {0, 1, 2}, bytes : Seq(Nat \X Nat), whole : BOOLEAN]
  <1>1. packet.valid
    BY DEF PayloadTaken
  <1>2. /\ frame.no \in Nat /\ packet.from \in Nat /\ packet.n \in Nat
        /\ stream.offset \in Nat /\ stream.len \in Nat /\ frame.len \in Nat
        /\ packet.eof \in BOOLEAN /\ packet.id \in {0, 1}
    BY DEF FramesTyped
  <1>3. taken' = [id |-> packet.id, bytes |-> Collected \o Piece(frame.no, packet.from, packet.n),
                  whole |-> packet.eof]
    BY DEF PayloadTaken, Collected, Piece
  <1>4. Collected = Part(frame.no, packet.from) /\ packet.from + packet.n = stream.offset
        /\ (packet.eof => stream.offset = frame.len)
    BY <1>1, <1>2 DEF FrameInv
  <1>5. taken'.bytes = Part(frame.no, stream.offset)
    <2>1. Part(frame.no, packet.from) \o Piece(frame.no, packet.from, packet.n)
            = Part(frame.no, packet.from + packet.n)
      BY <1>2, PieceAdded
    <2> QED BY <1>3, <1>4, <2>1
  <1>6. Part(frame.no, stream.offset) \in Seq(Nat \X Nat)
    BY <1>2, PieceAdded
  <1> QED BY <1>2, <1>3, <1>4, <1>5, <1>6

LEMMA FramePayload ==
    ASSUME FramesTyped, FrameInv, PayloadTaken
    PROVE  (FramesTyped /\ FrameInv)'
  <1> DEFINE n == Least(stream.len, Payload)
             last == IsLast(stream.len)
  <1>1. /\ stream.len \in Nat /\ stream.offset \in Nat /\ frame.no \in Nat /\ frame.len \in Nat
        /\ stream.id \in {0, 1} /\ Payload \in Nat \ {0}
        /\ stream.finish \in BOOLEAN /\ producing \in BOOLEAN
    BY StreamAssumption DEF FramesTyped
  <1>2. n \in Nat /\ n <= stream.len /\ last \in BOOLEAN /\ (last => n = stream.len)
    BY <1>1 DEF Least, IsLast
  <1>3. packet.valid /\ frame' = frame /\ SplitTransfer
    BY DEF PayloadTaken
  <1>4. producing /\ stream.offset + stream.len = frame.len /\ (packet.eof <=> stream.finish)
        /\ packet.id = (IF packet.eof THEN 1 - stream.id ELSE stream.id)
    BY <1>3 DEF FrameInv
  <1>5. CASE stream.finish
    <2>1. producing' = FALSE /\ packet' = NoPacket /\ stream' = [stream EXCEPT !.finish = FALSE]
      BY <1>3, <1>5 DEF SplitTransfer
    <2>2. FramesTyped'
      BY <1>3, <2>1, FrameTaken DEF FramesTyped, NoPacket
    <2> QED BY <1>4, <1>5, <2>1, <2>2, FrameTaken DEF FrameInv, NoPacket
  <1>6. CASE ~stream.finish
    <2>1. /\ stream' = [len |-> stream.len - n, offset |-> stream.offset + n,
                        finish |-> last, id |-> IF last THEN 1 - stream.id ELSE stream.id]
          /\ packet' = [from |-> stream.offset, n |-> n, id |-> stream.id,
                        eof |-> last, valid |-> TRUE]
          /\ producing' = producing
      BY <1>3, <1>6 DEF SplitTransfer
    <2> HIDE DEF n, last
    <2>2. FramesTyped'
      <3>1. stream' \in [len : Nat, offset : Nat, finish : BOOLEAN, id : {0, 1}]
        BY <1>1, <1>2, <2>1
      <3>2. packet' \in [from : Nat, n : Nat, id : {0, 1}, eof : BOOLEAN, valid : BOOLEAN]
        BY <1>1, <1>2, <2>1
      <3> QED BY <1>1, <1>3, <2>1, <3>1, <3>2, FrameTaken DEF FramesTyped
    <2>3. Collected' = Part(frame.no, stream.offset)
      BY <1>4, <1>6, <2>1, FrameTaken DEF Collected
    <2>4. packet'.id = IF packet'.eof THEN 1 - stream'.id ELSE stream'.id
      BY <1>1, <1>2, <2>1
    <2> QED BY <1>1, <1>2, <1>3, <1>4, <2>1, <2>2, <2>3, <2>4 DEF FrameInv
  <1> QED BY <1>1, <1>5, <1>6

\* Selecting a setting of a streaming interface, or resetting the bus, drops the
\* payload and what the host has; only the former makes the program begin anew.
LEMMA FrameDropped ==
    ASSUME FramesTyped, FrameInv, Select \/ BusReset
    PROVE  (FramesTyped /\ FrameInv)'
  <1>1. PICK dropped \in BOOLEAN, restarted \in BOOLEAN :
          /\ restarted => dropped
          /\ packet' = IF dropped THEN NoPacket ELSE packet
          /\ taken' = IF dropped THEN NoTaken ELSE taken
          /\ producing' = IF restarted THEN FALSE ELSE producing
          /\ UNCHANGED <<stream, frame>>
    <2>1. CASE Select
      <3>1. PICK i \in Intfs : \E a \in DOMAIN Alts[i] : StreamSetInterface(i, a)
        BY <2>1 DEF Select
      <3>2. CASE i \in VideoIntfs
        <4>1. packet' = NoPacket /\ taken' = NoTaken /\ producing' = FALSE /\ UNCHANGED <<stream, frame>>
          BY <3>1, <3>2 DEF StreamSetInterface
        <4> WITNESS TRUE \in BOOLEAN, TRUE \in BOOLEAN
        <4> QED BY <4>1
      <3>3. CASE i \notin VideoIntfs
        <4>1. UNCHANGED <<packet, taken, producing, stream, frame>>
          BY <3>1, <3>3 DEF StreamSetInterface
        <4> WITNESS FALSE \in BOOLEAN, FALSE \in BOOLEAN
        <4> QED BY <4>1
      <3> QED BY <3>2, <3>3
    <2>2. CASE BusReset
      <3>1. packet' = NoPacket /\ taken' = NoTaken /\ UNCHANGED <<producing, stream, frame>>
        BY <2>2 DEF BusReset, StreamReset
      <3> WITNESS TRUE \in BOOLEAN, FALSE \in BOOLEAN
      <3> QED BY <3>1
    <2> QED BY <2>1, <2>2
  <1>2. NoTaken \in [id : {0, 1, 2}, bytes : Seq(Nat \X Nat), whole : BOOLEAN]
    BY DEF NoTaken
  <1>3. NoPacket \in [from : Nat, n : Nat, id : {0, 1}, eof : BOOLEAN, valid : BOOLEAN]
        /\ NoPacket.valid = FALSE /\ NoTaken.id = 2
    BY DEF NoPacket, NoTaken
  <1>4. FramesTyped'
    BY <1>1, <1>2, <1>3 DEF FramesTyped
  <1>5. CASE dropped
    BY <1>1, <1>3, <1>4, <1>5 DEF FrameInv
  <1>6. CASE ~dropped
    BY <1>1, <1>4, <1>6 DEF FrameInv, Collected
  <1> QED BY <1>5, <1>6

LEMMA FrameStep == FramesTyped /\ FrameInv /\ [Next]_vars => (FramesTyped /\ FrameInv)'
  <1> SUFFICES ASSUME FramesTyped, FrameInv, [Next]_vars PROVE (FramesTyped /\ FrameInv)'
    OBVIOUS
  <1>1. CASE UNCHANGED FramesSeen
    BY <1>1 DEF FramesSeen, FramesTyped, FrameInv, Collected
  <1>2. CASE UNCHANGED vars
    BY <1>1, <1>2 DEF vars, FramesSeen
  <1>3. CASE Play
    BY <1>3, FrameStart, FramePayload DEF Play
  <1> QED BY <1>1, <1>2, <1>3, FramesUntouched, FrameDropped, ResetIsBusReset
          DEF Next, System, Bus

\* Only a payload can end a frame.
LEMMA FrameEnds ==
    ASSUME [Next]_vars, taken'.whole, ~taken.whole
    PROVE  PayloadTaken
  <1>1. CASE UNCHANGED vars \/ UNCHANGED FramesSeen
    BY <1>1 DEF vars, FramesSeen
  <1>2. CASE Select \/ BusReset
    <2>1. taken' \in {taken, NoTaken}
      <3>1. CASE Select
        BY <3>1 DEF Select, StreamSetInterface
      <3>2. CASE BusReset
        BY <3>2 DEF BusReset, StreamReset
      <3> QED BY <1>2, <3>1, <3>2
    <2> QED BY <2>1 DEF NoTaken
  <1>3. CASE Play
    BY <1>3 DEF Play, StartFrame
  <1> QED BY <1>1, <1>2, <1>3, FramesUntouched, ResetIsBusReset DEF Next, System, Bus

(* A frame whose end the host sees is one frame of the program, whole and  *)
(* in order, for every length of frames and payloads, and whatever         *)
(* selections and resets broke off the frames before it.                   *)
THEOREM FramesAreWhole == Spec => FramesWhole
  <1>1. FramesTyped /\ FrameInv /\ [Next]_vars =>
          [taken'.whole /\ ~taken.whole =>
             taken'.bytes = [j \in 1 .. frame.len |-> <<frame.no, j>>]]_vars
    BY FrameEnds, FrameTaken DEF Part
  <1> QED BY FrameInit, FrameStep, <1>1, PTL DEF Spec, FramesWhole

-----------------------------------------------------------------------------
(* Types. *)

KnownTyped ==
    known \in [config : {0, ConfigValue}, alt : [Intfs -> Nat], selected : SUBSET Intfs,
               halted : SUBSET Endpoints, wakeup : {"unknown", "on", "off"}, volume : Int]

\* All that a step of the core can change.
DeviceTyped ==
    /\ CoreTypeOK /\ KnownTyped /\ active \in BOOLEAN
    /\ opened \subseteq AudioIntfs \cup VideoIntfs /\ volume \in Int

\* A payload is received only after the header of a message that has one, and
\* so of a command the driver knows.
BridgeTyped ==
    /\ AdbTypeOK
    /\ reading = "data" => rx.command \in {"CNXN", "OPEN", "WRTE"}

LoadTyped == load \in Seq(Block)

LEMMA DeviceInit == Init => DeviceTyped
  <1> SUFFICES ASSUME Init PROVE DeviceTyped
    OBVIOUS
  <1>1. ConfigValue \in Nat \ {0} /\ MaxAddr \in Nat
    BY LayoutAssumption
  <1>2. KnownTyped
    BY DEF Init, Fresh, Unknown, KnownTyped
  <1>3. CoreTypeOK
    <2>1. [e \in Endpoints |-> Closed] \in [Endpoints -> [enable : BOOLEAN, resp : {"NAK", "ACK", "STALL"}]]
      BY DEF Closed
    <2>2. [i \in Intfs |-> 0] \in [Intfs -> Nat]
      OBVIOUS
    <2>3. CoreInit
      BY DEF Init
    <2>4. configuration = 0 /\ deviceAddress = 0 /\ wakeup = FALSE /\ suspended = FALSE
      BY <2>3 DEF CoreInit
    <2>5. 0 \in 0 .. MaxAddr
      BY <1>1
    <2> QED BY <2>1, <2>2, <2>3, <2>4, <2>5 DEF CoreInit, CoreTypeOK
  <1> QED BY <1>2, <1>3 DEF Init, StreamInit, DeviceTyped

LEMMA VolumesTyped == \A v \in OfferedVolumes : v \in Int /\ ToDb(v) \in Int
  <1>1. VolUnit \in Nat \ {0} /\ VolWord \in Nat /\ QuietDb \in Nat
    BY StreamAssumption
  <1>2. ASSUME NEW db \in -QuietDb .. 0 PROVE FromDb(db) \in Int
    BY <1>1 DEF FromDb
  <1>3. ASSUME NEW v \in Int PROVE ToDb(v) \in Int
    <2>1. v \div VolUnit \in Int /\ (VolWord - v) \div VolUnit \in Int
      BY <1>1
    <2> QED BY <2>1 DEF ToDb
  <1> QED BY <1>2, <1>3 DEF OfferedVolumes

LEMMA DeviceStep == DeviceTyped /\ [Next]_vars => DeviceTyped'
  <1> SUFFICES ASSUME DeviceTyped, [Next]_vars PROVE DeviceTyped'
    OBVIOUS
  <1> USE DEF DeviceTyped, CoreTypeOK, KnownTyped
  <1>1. ConfigValue \in Nat \ {0} /\ MaxAddr \in Nat
    BY LayoutAssumption
  <1>2. CASE Enumerate
    BY <1>1, <1>2 DEF Enumerate, AsSystem, Asked, SetAddress, Drivers, streamVars
  <1>3. CASE Configure
    <2>1. UNCHANGED <<deviceAddress, altSetting, wakeup, volume, opened, active>>
      BY <1>3 DEF Configure, Asked, SetConfiguration, streamVars
    <2>2. PICK value \in {0, ConfigValue, ConfigValue + 1} : ConfigureTo(value)
      BY <1>3 DEF Configure, ConfigureTo, AllDefault
    <2>3. /\ configuration' \in {0, ConfigValue} /\ suspended' \in BOOLEAN
          /\ endpoint' \in {endpoint, Started(Opened(endpoint, DefaultEndpoints), Listens)}
      BY <2>2 DEF ConfigureTo, SetConfiguration, Suspension, Configured
    <2>4. EndpointsTyped'
      <3>1. EndpointsTyped /\ DefaultEndpoints \subseteq Endpoints
        BY LayoutFacts DEF EndpointsTyped
      <3>2. Started(Opened(endpoint, DefaultEndpoints), Listens)
              \in [Endpoints -> [enable : BOOLEAN, resp : {"NAK", "ACK", "STALL"}]]
        BY <3>1, OpenedTyped, StartedTyped
      <3> QED BY <2>3, <3>1, <3>2 DEF EndpointsTyped
    <2>5. KnownTyped'
      BY <1>1, <2>2 DEF ConfigureTo, AllDefault
    <2> QED BY <2>1, <2>3, <2>4, <2>5 DEF EndpointsTyped
  <1>4. CASE Select
    <2>1. PICK i \in Intfs : \E a \in DOMAIN Alts[i] :
            /\ SetInterface(i, a, IF Streams(i, a) THEN Reads \cap Alts[i][a] ELSE {})
            /\ StreamSetInterface(i, a)
            /\ known' = Chosen(i, a)
      BY <1>4 DEF Select, Chosen
    <2>2. PICK a \in DOMAIN Alts[i] :
            /\ SetInterface(i, a, IF Streams(i, a) THEN Reads \cap Alts[i][a] ELSE {})
            /\ StreamSetInterface(i, a)
            /\ known' = Chosen(i, a)
      BY <2>1
    <2>3. a \in Nat /\ Alts[i][a] \subseteq Endpoints
      BY LayoutFacts
    <2>4. KnownTyped'
      BY <2>2, <2>3 DEF Chosen
    <2>5. \E R : endpoint' \in {endpoint, Started(Opened(endpoint, Alts[i][a]), R)}
      BY <2>2 DEF SetInterface, Reset
    <2>6. EndpointsTyped'
      BY <2>3, <2>5, OpenedTyped, StartedTyped DEF EndpointsTyped
    <2>7. UNCHANGED <<configuration, deviceAddress, wakeup, suspended, active, volume>>
          /\ altSetting' = [altSetting EXCEPT ![i] = a]
      BY <1>4, <2>2 DEF SetInterface, NewAlts, StreamSetInterface, Select, Asked
    <2>8. opened' \subseteq AudioIntfs \cup VideoIntfs
      BY <2>2 DEF StreamSetInterface, Streams
    <2> QED BY <2>3, <2>4, <2>6, <2>7, <2>8 DEF EndpointsTyped
  <1>5. CASE Halt
    BY <1>5 DEF Halt, AsSystem, Asked, SetHalt, Stalled, StallCleared, Drivers, streamVars
  <1>6. CASE WakeupFeature
    BY <1>6 DEF WakeupFeature, AsSystem, Asked, SetWakeupFeature, Drivers, streamVars
  <1>7. CASE ChangeVolume
    BY <1>7, VolumesTyped DEF ChangeVolume, AsSystem, Asked, SetVolume
  <1>8. CASE BusReset
    BY <1>1, <1>8 DEF BusReset, CoreReset, StreamReset, Fresh, Unknown, Closed
  <1>9. CASE Disconnect
    BY <1>1, <1>9 DEF Disconnect, CoreDisconnect, Fresh, Unknown, Drivers, streamVars
  <1>10. CASE Suspend \/ Resume
    BY <1>10 DEF Suspend, Resume, CoreSuspend, CoreResume, Drivers, streamVars
  <1>11. CASE Play \/ ToolBegins \/ ToolStep \/ AnswerLost \/ Debug
    BY <1>11, CoreUntouched DEF CoreSeen, coreVars
  <1>12. CASE UNCHANGED vars
    BY <1>12 DEF vars, coreVars
  <1> QED BY <1>2, <1>3, <1>4, <1>5, <1>6, <1>7, <1>8, <1>9, <1>10, <1>11, <1>12, ResetIsBusReset
          DEF Next, System, Bus

LEMMA LoadTypedStep == ToolTyped /\ LoadInv /\ LoadTyped /\ [Next]_vars => LoadTyped'
  <1> SUFFICES ASSUME ToolTyped, LoadInv, LoadTyped, [Next]_vars PROVE LoadTyped'
    OBVIOUS
  <1>6. Begun \in Seq(Block) /\ load \in Seq(Block)
    <2>1. <<>> \in Seq(Block) /\ load \in Seq(Block)
      BY DEF LoadTyped
    <2> QED BY <2>1 DEF Begun
  <1>1. ASSUME tool.step = "block", Download(<<tool.version, tool.next>>)
        PROVE  LoadTyped'
    <2>1. <<tool.version, tool.next>> \in Block
      BY <1>1 DEF LoadInv, ToolTyped, Block
    <2>3. load' \in {Append(Begun, <<tool.version, tool.next>>), Begun}
      BY <1>1 DEF Download
    <2>4. Append(Begun, <<tool.version, tool.next>>) \in Seq(Block)
      BY <1>6, <2>1
    <2> QED BY <1>6, <2>3, <2>4 DEF LoadTyped
  <1>2. CASE UNCHANGED <<dfuVars, tool>> \/ UNCHANGED vars
    BY <1>2 DEF vars, dfuVars, LoadTyped
  <1>3. CASE BusReset \/ ToolBegins
    BY <1>3 DEF BusReset, DfuReset, ToolBegins, Begin, dfuVars, LoadTyped
  <1>4. CASE AnswerLost
    BY <1>1, <1>4 DEF AnswerLost, At, GetStatus, DownloadEnd, LoadTyped
  <1>5. CASE ToolStep
    <2>1. CASE SendBlock
      BY <1>1, <2>1 DEF SendBlock, At, DfuRefused, dfuVars, LoadTyped
    <2>2. CASE Poll \/ SendEnd \/ PollManifest \/ Recover
      BY <2>2 DEF Poll, SendEnd, PollManifest, Recover, GetStatus, DownloadEnd, DfuRefused, dfuVars,
                  ClearStatus, Abort, LoadTyped
    <2>3. CASE FetchBlock
      <3>1. load' \in {load, Begun}
        BY <2>3 DEF FetchBlock, Upload, UploadFails, DfuRefused, dfuVars
      <3> QED BY <3>1, <1>6 DEF LoadTyped
    <2> QED BY <1>5, <2>1, <2>2, <2>3 DEF ToolStep
  <1> QED BY <1>2, <1>3, <1>4, <1>5, UpdateUntouched, ResetIsBusReset DEF Next, Bus

LEMMA ImageTyped ==
    ASSUME LoadInv
    PROVE  image \in Seq(Block)
  <1>1. ASSUME NEW v \in Versions PROVE Image(v) \in Seq(Block)
    BY BlocksAssumption DEF Image, Block
  <1>2. <<>> \in Seq(Block)
    OBVIOUS
  <1> QED BY <1>1, <1>2 DEF LoadInv

\* The messages of the bridge.
LEMMA MessagesTyped ==
    /\ \A c \in Commands \cup {"none"}, f \in BOOLEAN : Msg(c, f) \in Messages
    /\ \A s \in Wanted : Open(s) \in Messages
    /\ NoMsg \in Messages
    /\ \A c, f : Msg(c, f).command = c /\ Msg(c, f).full = f
    /\ \A s : Open(s).command = "OPEN" /\ Open(s).full = TRUE
    /\ Stray \in Messages /\ Stray.command = "WRTE" /\ Stray.full = TRUE
  <1>1. /\ \A c, f : Msg(c, f).command = c /\ Msg(c, f).full = f
        /\ \A s : Open(s).command = "OPEN" /\ Open(s).full = TRUE
        /\ Stray.command = "WRTE" /\ Stray.full = TRUE
    BY DEF Msg, Open, Stray
  <1>2. "shell" \in Services \cup {"other"} /\ "OPEN" \in Commands /\ Wanted \subseteq Services \cup {"other"}
    BY ChatAssumption DEF Services, Commands
  <1>3. \A c \in Commands \cup {"none"}, f \in BOOLEAN : Msg(c, f) \in Messages
    BY <1>2 DEF Msg, Messages
  <1>4. \A s \in Wanted : Open(s) \in Messages
    BY <1>2 DEF Open, Messages
  <1>5. NoMsg \in Messages
    BY <1>3 DEF NoMsg
  <1>6. Stray \in Messages
    BY DEF Stray, Messages, Commands
  <1> QED BY <1>1, <1>3, <1>4, <1>5, <1>6

LEMMA BridgeInit == Init => BridgeTyped
  BY MessagesTyped DEF Init, AdbInit, Away, BridgeTyped, AdbTypeOK, Transfers

AdbType == [common : {"READ_MSG", "READ_DATA", "WRITE_MSG", "WRITE_DATA"},
            write : {"none", "AWRITE_MSG", "AWRITE_DATA"},
            writable : BOOLEAN, localid : Services \cup {"none"}]
ShellType == {"idle", "input", "write", "lost"}
PeerType == [step : {"off", "fresh", "sending", "waiting", "ready", "stream", "confused"},
             sent : Messages, got : Messages, owes : BOOLEAN]

LEMMA BridgeParts ==
    AdbTypeOK <=> /\ adb \in AdbType /\ rx \in Messages /\ tx \in Messages
                  /\ reading \in Transfers /\ writing \in Transfers
                  /\ shell \in ShellType /\ peer \in PeerType
  BY DEF AdbTypeOK, AdbType, ShellType, PeerType

LEMMA HostSendsTyped ==
    ASSUME BridgeTyped, NEW m \in Messages, HostSends(m),
           m.full => m.command \in {"CNXN", "OPEN", "WRTE"}
    PROVE  BridgeTyped'
  <1>1. peer' \in PeerType
    BY BridgeParts DEF BridgeTyped, HostSends, PeerType
  <1>2. rx' = m /\ (TakeHeader(m) \/ Ignored)
    BY DEF HostSends, HeaderReceived
  <1>3. adb' \in AdbType /\ shell' \in ShellType
    BY <1>2, BridgeParts DEF BridgeTyped, TakeHeader, Ignored, AdbType, ShellType, WriteDone
  <1>4. reading' \in Transfers /\ (reading' = "data" => m.full) /\ UNCHANGED <<tx, writing>>
    BY <1>2 DEF TakeHeader, Ignored, Transfers
  <1>5. AdbTypeOK'
    BY <1>1, <1>2, <1>3, <1>4, BridgeParts DEF BridgeTyped, AdbTypeOK, AdbType, ShellType, PeerType
  <1> QED BY <1>2, <1>4, <1>5 DEF BridgeTyped

LEMMA BridgeChat ==
    ASSUME BridgeTyped, Chat
    PROVE  BridgeTyped'
  <1>1. /\ adb \in AdbType /\ rx \in Messages /\ tx \in Messages
        /\ reading \in Transfers /\ writing \in Transfers
        /\ shell \in ShellType /\ peer \in PeerType
    BY BridgeParts DEF BridgeTyped
  <1>2. CASE HostConnects \/ HostAcknowledges \/ HostWrites \/ HostStrays \/ HostCloses \/ HostOpens
    <2>1. \E m \in Messages : HostSends(m) /\ (m.full => m.command \in {"CNXN", "OPEN", "WRTE"})
      <3>1. CASE HostConnects
        BY <3>1, MessagesTyped DEF HostConnects, Commands
      <3>2. CASE HostAcknowledges
        BY <3>2, MessagesTyped DEF HostAcknowledges, Commands
      <3>3. CASE HostWrites
        BY <3>3, MessagesTyped DEF HostWrites, Commands
      <3>4. CASE HostCloses
        BY <3>4, MessagesTyped DEF HostCloses, Commands
      <3>5. CASE HostOpens
        BY <3>5, MessagesTyped DEF HostOpens
      <3>6. CASE HostStrays
        BY <3>6, MessagesTyped DEF HostStrays
      <3> QED BY <1>2, <3>1, <3>2, <3>3, <3>4, <3>5, <3>6
    <2> QED BY <2>1, HostSendsTyped
  <1>3. CASE HostSendsPayload
    <2>1. reading = "data" /\ rx.command \in {"CNXN", "OPEN", "WRTE"} /\ rx' = rx
      BY <1>3 DEF HostSendsPayload, PayloadReceived, BridgeTyped
    <2>2. peer' \in PeerType
      BY <1>1, <1>3 DEF HostSendsPayload, PeerType
    <2>3. CASE Ignored
      BY <1>1, <2>1, <2>2, <2>3 DEF Ignored, BridgeTyped, AdbTypeOK, AdbType, ShellType, PeerType, Transfers
    <2>4. CASE TakePayload
      <3>1. reading' = "none" /\ shell' = shell
        BY <2>4 DEF TakePayload
      <3>2. adb' \in AdbType /\ tx' \in Messages /\ writing' \in Transfers
        <4>1. CASE rx.command = "CNXN"
          <5>1. tx' = Msg("CNXN", TRUE) /\ writing' = "msg"
                /\ adb' = [adb EXCEPT !.common = "WRITE_MSG", !.writable = FALSE]
            BY <2>4, <4>1 DEF TakePayload, SendMsg
          <5> QED BY <1>1, <5>1, MessagesTyped DEF AdbType, Commands, Transfers
        <4>2. CASE rx.command = "OPEN" /\ rx.service \notin Services
          BY <1>1, <2>4, <4>2 DEF TakePayload
        <4>3. CASE rx.command = "OPEN" /\ rx.service \in Services
          <5>1. tx' = Msg("OKAY", FALSE) /\ writing' = "msg"
                /\ adb' = [adb EXCEPT !.common = "WRITE_MSG", !.localid = rx.service]
            BY <2>4, <4>3 DEF TakePayload, SendMsg
          <5> QED BY <1>1, <4>3, <5>1, MessagesTyped DEF AdbType, Commands, Transfers
        <4>4. CASE rx.command = "WRTE"
          <5>1. tx' \in {Msg("OKAY", FALSE), Msg("CLSE", FALSE)} /\ writing' = "msg"
                /\ adb' = [adb EXCEPT !.common = "WRITE_MSG"]
            BY <2>4, <4>4 DEF TakePayload, SendMsg
          <5>2. tx' \in Messages
            BY <5>1, MessagesTyped DEF Commands
          <5> QED BY <1>1, <5>1, <5>2 DEF AdbType, Transfers
        <4> QED BY <2>1, <4>1, <4>2, <4>3, <4>4
      <3> QED BY <1>1, <2>1, <2>2, <3>1, <3>2
              DEF BridgeTyped, AdbTypeOK, AdbType, ShellType, PeerType, Transfers
    <2> QED BY <1>3, <2>3, <2>4 DEF HostSendsPayload, PayloadReceived
  <1>4. CASE HostFetches
    <2>1. UNCHANGED <<rx, tx>> /\ Sent
      BY <1>4 DEF HostFetches
    <2>2. adb' \in AdbType
      BY <1>1, <2>1 DEF Sent, AdbType
    <2>3. shell' \in ShellType
      BY <1>1, <2>1 DEF Sent, ShellType, WriteDone
    <2>4. reading' \in {reading, "msg"} /\ writing' \in {"none", "data"}
      BY <2>1 DEF Sent, NextRead
    <2>5. ASSUME NEW m \in Messages PROVE Heard(m) \in PeerType
      BY <1>1, MessagesTyped DEF Heard, PeerType
    <2>6. peer' \in PeerType
      BY <1>1, <1>4, <2>5 DEF HostFetches, PeerType
    <2> QED BY <1>1, <2>1, <2>2, <2>3, <2>4, <2>6
            DEF BridgeTyped, AdbTypeOK, AdbType, ShellType, PeerType, Transfers
  <1>5. CASE ShellWrites \/ ShellCloses \/ ShellSilent
    <2>1. UNCHANGED <<rx, reading, peer>> /\ shell' \in ShellType
      BY <1>5 DEF ShellWrites, ShellCloses, ShellSilent, ShellType
    <2>2. adb' \in AdbType
      BY <1>1, <1>5 DEF ShellWrites, ShellCloses, ShellSilent, AdbType
    <2>3. tx' \in Messages /\ writing' \in Transfers
      <3>1. Msg("WRTE", TRUE) \in Messages /\ Msg("CLSE", FALSE) \in Messages
        BY MessagesTyped DEF Commands
      <3> QED BY <1>1, <1>5, <3>1 DEF ShellWrites, ShellCloses, ShellSilent, SendMsg, Transfers
    <2> QED BY <1>1, <2>1, <2>2, <2>3
            DEF BridgeTyped, AdbTypeOK, AdbType, ShellType, PeerType
  <1> QED BY <1>2, <1>3, <1>4, <1>5 DEF Chat, AdbGoesOn

LEMMA BridgeStep == BridgeTyped /\ [Next]_vars => BridgeTyped'
  <1> SUFFICES ASSUME BridgeTyped, [Next]_vars PROVE BridgeTyped'
    OBVIOUS
  <1>1. CASE UNCHANGED adbVars \/ UNCHANGED vars
    BY <1>1 DEF vars, adbVars, BridgeTyped, AdbTypeOK
  <1>2. CASE Debug
    BY <1>2, BridgeChat DEF Debug
  <1>3. /\ adb \in AdbType /\ rx \in Messages /\ tx \in Messages /\ shell \in ShellType /\ peer \in PeerType
    BY BridgeParts DEF BridgeTyped
  <1>4. NoMsg \in Messages
    BY MessagesTyped
  <1>5. CASE BusReset
    <2>1. reading' = "none" /\ writing' = "none" /\ shell' \in ShellType
          /\ UNCHANGED <<adb, rx, tx>> /\ peer' \in PeerType
      BY <1>3, <1>4, <1>5 DEF BusReset, AdbReset, Abandoned, ShellType, Away, PeerType
    <2> QED BY <1>3, <2>1 DEF BridgeTyped, AdbTypeOK, AdbType, ShellType, PeerType, Transfers
  <1>6. CASE Configure
    <2>1. PICK value \in {0, ConfigValue, ConfigValue + 1} :
            IF value = ConfigValue
            THEN AdbConfigured /\ peer' = IF user = "debugger" THEN [Away EXCEPT !.step = "fresh"] ELSE peer
            ELSE UNCHANGED adbVars
      BY <1>6 DEF Configure
    <2>2. CASE AdbConfigured /\ peer' = IF user = "debugger" THEN [Away EXCEPT !.step = "fresh"] ELSE peer
      <3>1. reading' = "msg" /\ writing' = "none" /\ shell' \in ShellType /\ UNCHANGED <<rx, tx>>
        BY <1>3, <2>2 DEF AdbConfigured, Abandoned, ShellType
      <3>2. adb' \in AdbType /\ peer' \in PeerType
        BY <1>3, <1>4, <2>2 DEF AdbConfigured, Away, AdbType, PeerType
      <3> QED BY <1>3, <3>1, <3>2 DEF BridgeTyped, AdbTypeOK, AdbType, ShellType, PeerType, Transfers
    <2> QED BY <1>1, <2>1, <2>2
  <1> QED BY <1>1, <1>2, <1>5, <1>6, BridgeUntouched, ResetIsBusReset DEF Next, System, Bus

LEMMA UserStep == user \in Users /\ [Next]_vars => user' \in Users
  BY ResetIsBusReset
  DEF Next, System, Enumerate, Configure, Select, Halt, WakeupFeature, ChangeVolume, AsSystem, Asked,
      Bus, BusReset, Disconnect, Suspend, Resume, Play, CoreIdle, ToolBegins, ToolStep, AnswerLost,
      Working, Debug, Debugging, vars

(* Every variable of the composite device keeps its type, for every layout *)
(* of interfaces, and whatever the four kinds of host do.                  *)
THEOREM TypeCorrect == Spec => []TypeOK
  <1> DEFINE I == /\ DeviceTyped /\ ToolTyped /\ LoadInv /\ LoadTyped
                  /\ FramesTyped /\ FrameInv /\ BridgeTyped /\ user \in Users
  <1>1. Init => I
    <2>1. Init => LoadTyped /\ user \in Users
      BY DEF Init, DfuInit, LoadTyped
    <2> QED BY <2>1, DeviceInit, LoadInit, FrameInit, BridgeInit
  <1>2. I /\ [Next]_vars => I'
    BY DeviceStep, LoadStep, LoadTypedStep, FrameStep, BridgeStep, UserStep
  <1>3. I => TypeOK
    BY ImageTyped DEF TypeOK, DeviceTyped, KnownTyped, ToolTyped, LoadTyped, FramesTyped, BridgeTyped,
                      DfuTypeOK, StreamTypeOK
  <1> HIDE DEF I
  <1> QED BY <1>1, <1>2, <1>3, PTL DEF Spec
===============================================================================
