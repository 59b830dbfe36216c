------------------------------- MODULE UsbdCore --------------------------------
(***************************************************************************)
(* The device core above the stages of endpoint 0: the standard requests,  *)
(* the configuration, the settings of the interfaces, the events of the    *)
(* bus and their notification to the class drivers (core/usbd_core.c).     *)
(*                                                                         *)
(* A request is handled within one interrupt, so each handler is one step; *)
(* the operators below are the handlers, and CompositeDevice makes the     *)
(* actions of them.  A handler says what it does to the variables of this  *)
(* module.  A request that only reads is an operator for its answer;       *)
(* strings and descriptors, which are copied to the host, are left out.     *)
(***************************************************************************)
EXTENDS Integers, FiniteSets

CONSTANTS
    Intfs,          \* interface numbers, in the order of usbd_add_interface
    Alts,           \* Alts[i]: from the settings of interface i to their endpoints
    OutEndpoints, InEndpoints,
    Listens,        \* OUT endpoints whose driver starts a read when configured
    ConfigValue,    \* bConfigurationValue of the one configuration
    MaxAddr         \* device addresses are 0 .. MaxAddr

Endpoints == OutEndpoints \cup InEndpoints
Setting(i, a) == a \in DOMAIN Alts[i]

ASSUME LayoutAssumption ==
    /\ IsFiniteSet(Intfs) /\ ConfigValue \in Nat \ {0} /\ MaxAddr \in Nat
    /\ OutEndpoints \cap InEndpoints = {} /\ Listens \subseteq OutEndpoints
    /\ \A i \in Intfs : /\ DOMAIN Alts[i] \subseteq Nat /\ 0 \in DOMAIN Alts[i]
                        /\ \A a \in DOMAIN Alts[i] : Alts[i][a] \subseteq Endpoints
    /\ \A e \in Listens : \E i \in Intfs : e \in Alts[i][0]

VARIABLES
    configuration,  \* 0: not configured
    deviceAddress,  \* device_address
    altSetting,     \* intf_altsetting[]
    wakeup,         \* remote_wakeup_enabled
    suspended,      \* is_suspend
    endpoint        \* ep_enable and the response bits of each endpoint

coreVars == <<configuration, deviceAddress, altSetting, wakeup, suspended, endpoint>>

Closed == [enable |-> FALSE, resp |-> "NAK"]

CoreTypeOK ==
    /\ configuration \in {0, ConfigValue}
    /\ deviceAddress \in 0 .. MaxAddr
    /\ altSetting \in [Intfs -> Nat]
    /\ wakeup \in BOOLEAN
    /\ suspended \in BOOLEAN
    /\ endpoint \in [Endpoints -> [enable : BOOLEAN, resp : {"NAK", "ACK", "STALL"}]]

\* usbd_desc_register clears the whole structure.
CoreInit ==
    /\ configuration = 0 /\ deviceAddress = 0
    /\ altSetting = [i \in Intfs |-> 0]
    /\ wakeup = FALSE /\ suspended = FALSE
    /\ endpoint = [e \in Endpoints |-> Closed]

is_device_configured == configuration # 0

-----------------------------------------------------------------------------
(***************************************************************************)
(* The endpoints: E is endpoint or what became of it in this step.         *)
(***************************************************************************)

\* usbd_set_endpoint: an opened endpoint does not answer until it is used.
Opened(E, eps) ==
    [e \in Endpoints |-> IF e \in eps THEN [enable |-> TRUE, resp |-> "NAK"] ELSE E[e]]

\* usbd_reset_endpoint: usbd_ep_close of this port does nothing.
Reset(E, eps) == E

\* usbd_ep_start_read and usbd_ep_start_write refuse a closed endpoint.
Started(E, eps) ==
    [e \in Endpoints |-> IF e \in eps /\ E[e].enable THEN [E[e] EXCEPT !.resp = "ACK"] ELSE E[e]]

\* usbd_ep_set_stall does not look at ep_enable.
Stalled(E, e) == [E EXCEPT ![e].resp = "STALL"]

\* usbd_ep_clear_stall: OUT endpoints answer at once, IN endpoints wait.
StallCleared(E, e) == [E EXCEPT ![e].resp = IF e \in OutEndpoints THEN "ACK" ELSE "NAK"]

-----------------------------------------------------------------------------
(***************************************************************************)
(* Standard requests to the device.                                        *)
(***************************************************************************)
\* GET_STATUS of the device and GET_CONFIGURATION.
DeviceStatus  == wakeup
Configuration == configuration

SetWakeupFeature(on) ==
    /\ wakeup' = on
    /\ UNCHANGED <<configuration, deviceAddress, altSetting, suspended, endpoint>>

SetAddress(a) ==
    /\ deviceAddress' = a
    /\ UNCHANGED <<configuration, altSetting, wakeup, suspended, endpoint>>

\* Every endpoint of every default setting.
DefaultEndpoints == UNION {Alts[i][0] : i \in Intfs}

\* Mutant: the drivers are told before the endpoints are open.
Configured_NotifyFirst(E) == Opened(Started(E, Listens), DefaultEndpoints)

\* usbd_set_configuration, then the CONFIGURED event, on which drivers start
\* to read.
Configured(E) == Started(Opened(E, DefaultEndpoints), Listens)

\* Mutant: a new configuration does not end the suspension.
Suspension_Kept == suspended

\* What SET_CONFIGURATION leaves of is_suspend.
Suspension == FALSE

SetConfiguration(value) ==
    /\ \/ /\ value = 0
          /\ configuration' = 0
          /\ UNCHANGED <<suspended, endpoint>>
       \/ /\ value # 0 /\ value # ConfigValue
          /\ UNCHANGED <<configuration, suspended, endpoint>>
       \/ /\ value = ConfigValue
          /\ configuration' = value
          /\ suspended' = Suspension
          /\ endpoint' = Configured(endpoint)
    /\ UNCHANGED <<deviceAddress, altSetting, wakeup>>

-----------------------------------------------------------------------------
(***************************************************************************)
(* Standard requests to an interface or an endpoint.                       *)
(***************************************************************************)
\* GET_INTERFACE
InterfaceSetting(i) == altSetting[i]

\* Mutant: only settings that open endpoints are written down.
NewAlts_NotDefault(i, a) == IF a = 0 THEN altSetting ELSE [altSetting EXCEPT ![i] = a]

NewAlts(i, a) == [altSetting EXCEPT ![i] = a]

\* usbd_set_interface; "reads" are the endpoints the driver of i starts to
\* read when it is told.
SetInterface(i, a, reads) ==
    /\ is_device_configured /\ Setting(i, a)
    /\ altSetting' = NewAlts(i, a)
    /\ endpoint' = IF a = 0 THEN Reset(endpoint, UNION {Alts[i][b] : b \in DOMAIN Alts[i]})
                   ELSE Started(Opened(endpoint, Alts[i][a]), reads)
    /\ UNCHANGED <<configuration, deviceAddress, wakeup, suspended>>

SetHalt(e, on) ==
    /\ is_device_configured
    /\ endpoint' = IF on THEN Stalled(endpoint, e) ELSE StallCleared(endpoint, e)
    /\ UNCHANGED <<configuration, deviceAddress, altSetting, wakeup, suspended>>

-----------------------------------------------------------------------------
(***************************************************************************)
(* Events of the controller.                                               *)
(***************************************************************************)

\* The bus reset interrupt and usbd_event_reset_handler: the flags of the
\* wakeup feature, of suspension and the settings stay.
CoreReset ==
    /\ deviceAddress' = 0 /\ configuration' = 0
    /\ endpoint' = [e \in Endpoints |-> Closed]
    /\ UNCHANGED <<altSetting, wakeup, suspended>>

CoreDisconnect ==
    /\ configuration' = 0
    /\ UNCHANGED <<deviceAddress, altSetting, wakeup, suspended, endpoint>>

\* A device without an address does not take notice.
CoreSuspend ==
    /\ deviceAddress > 0
    /\ suspended' = TRUE
    /\ UNCHANGED <<configuration, deviceAddress, altSetting, wakeup, endpoint>>

CoreResume ==
    /\ suspended' = FALSE
    /\ UNCHANGED <<configuration, deviceAddress, altSetting, wakeup, endpoint>>
=============================================================================
