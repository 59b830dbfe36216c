-------------------------------- MODULE UsbhHub --------------------------------
(***************************************************************************)
(* The hub driver of the host (class/hub/usbh_hub.c): one thread takes the *)
(* hubs that report a change from a queue, debounces, resets and enumerates*)
(* their ports, and releases what was unplugged.  Devices come and go at   *)
(* any moment, also between two control requests of the thread.            *)
(*                                                                         *)
(* Port 0 is a port of the root hub, where a function or a hub may be      *)
(* plugged; the other ports are those of that hub.  The level of a device  *)
(* is 0 if it is attached only, 1 if its port was reset and 2 if it is     *)
(* enumerated.  The controller, the queue, the timer and the enumeration   *)
(* itself are not in this repository.                                      *)
(*                                                                         *)
(* A hub that goes is released in steps, as usbh_hub_disconnect does it:   *)
(* the transfer is killed, the timer deleted, the structure cleared.  The  *)
(* timer may fire and the transfer complete between them.                  *)
(***************************************************************************)
EXTENDS Integers, Sequences, FiniteSets

CONSTANTS
    NPorts,         \* nports of the external hub
    StableReads,    \* HUB_DEBOUNCE_STABLE \div HUB_DEBOUNCE_STEP
    MaxReads,       \* HUB_DEBOUNCE_TIMEOUT \div HUB_DEBOUNCE_STEP
    MqLimit,        \* length of hub_mq
    LateUnplug,     \* may a hub go while the change of one of its ports is acknowledged?
    MaxPlugs,       \* bound: times something is plugged in or out
    MaxFaults       \* bound: requests and transfers that fail

ASSUME HubAssumption ==
    /\ NPorts \in Nat /\ MqLimit \in Nat \ {0} /\ LateUnplug \in BOOLEAN
    /\ StableReads \in Nat \ {0} /\ MaxReads \in Nat /\ StableReads <= MaxReads
    /\ MaxPlugs \in Nat /\ MaxFaults \in Nat

VARIABLES
    device, level,  \* what is plugged into each port, and how far it is
    change,         \* C_CONNECTION of each port
    child,          \* child[]: what the driver has enumerated on each port
    used,           \* the structure of the external hub is in use
    timer, urb,     \* its int_timer runs, its intin_urb is under way
    release,        \* how far usbh_hub_disconnect is: "no", "killed" or "deleted"
    refired,        \* history: the timer fired during the last release
    intbuf,         \* int_buffer of each hub
    mq,             \* hub_mq
    thread,         \* of usbh_hub_events: step, hub, port, ports still to look at
    debounce,       \* its connection, debouncestable and debouncetime
    gaveUp, deaf,   \* ports given up for an error, hubs that will not report any more
    plugs, faults   \* counters of the bounds

ports == <<device, level, change>>
poll  == <<used, timer, urb, release, refired>>
vars  == <<ports, child, poll, intbuf, mq, thread, debounce, gaveUp, deaf, plugs, faults>>

None  == "none"
Hubs  == {"root", "ext"}
Ports == 0 .. NPorts
PortsOf(h) == IF h = "root" THEN {0} ELSE 1 .. NPorts
HubOf(p)   == IF p = 0 THEN "root" ELSE "ext"
Steps == {"idle", "ports", "clear", "debounce", "again", "reset", "enable", "enumerate", "exit"}

TypeOK ==
    /\ device \in [Ports -> {None, "function", "hub"}] /\ level \in [Ports -> 0 .. 2]
    /\ change \in [Ports -> BOOLEAN] /\ child \in [Ports -> {None, "function", "hub"}]
    /\ used \in BOOLEAN /\ timer \in BOOLEAN /\ urb \in BOOLEAN
    /\ release \in {"no", "killed", "deleted"} /\ refired \in BOOLEAN
    /\ intbuf \in [Hubs -> SUBSET Ports] /\ mq \in Seq(Hubs \cup {"stop"})
    /\ thread \in [step : Steps, hub : Hubs, port : Ports, left : SUBSET Ports]
    /\ debounce \in [connected : BOOLEAN, stable : Nat, reads : Nat]
    /\ gaveUp \subseteq Ports /\ deaf \subseteq Hubs
    /\ plugs \in 0 .. MaxPlugs /\ faults \in 0 .. MaxFaults

\* usbh_hub_initialize
Init ==
    /\ device = [p \in Ports |-> None] /\ level = [p \in Ports |-> 0]
    /\ change = [p \in Ports |-> FALSE] /\ child = [p \in Ports |-> None]
    /\ used = FALSE /\ timer = FALSE /\ urb = FALSE /\ release = "no" /\ refired = FALSE
    /\ intbuf = [h \in Hubs |-> {}] /\ mq = <<>>
    /\ thread = [step |-> "idle", hub |-> "root", port |-> 0, left |-> {}]
    /\ debounce = [connected |-> FALSE, stable |-> 0, reads |-> 0]
    /\ gaveUp = {} /\ deaf = {} /\ plugs = 0 /\ faults = 0

NoFault == UNCHANGED faults
AFault  == faults < MaxFaults /\ faults' = faults + 1

\* Does the hub answer?  Its ports have power only then.
Answers(h) == h = "root" \/ (device[0] = "hub" /\ level[0] = 2)

\* usbh_hub_thread_wakeup; a message that does not fit is lost.
Wakeup(h) ==
    IF Len(mq) < MqLimit THEN mq' = Append(mq, h) /\ UNCHANGED deaf
    ELSE deaf' = deaf \cup {h} /\ UNCHANGED mq

-----------------------------------------------------------------------------
(***************************************************************************)
(* The user, and the controller.                                           *)
(***************************************************************************)
\* Something is plugged into port p, or out with all that hangs on it.
Replug(p, d) ==
    /\ plugs < MaxPlugs /\ plugs' = plugs + 1 /\ thread.step # "exit"
    /\ device[p] # d /\ (d # None => device[p] = None)
    /\ IF p = 0
       THEN /\ device' = [q \in Ports |-> IF q = 0 THEN d ELSE None]
            /\ level' = [q \in Ports |-> 0]
            /\ change' = [q \in Ports |-> q = 0]
            /\ intbuf' = [intbuf EXCEPT !["root"] = {0}] /\ Wakeup("root")
            /\ ~LateUnplug => ~(thread.step = "clear" /\ thread.hub = "ext")
       ELSE /\ device[0] = "hub" /\ d # "hub"
            /\ device' = [device EXCEPT ![p] = d] /\ level' = [level EXCEPT ![p] = 0]
            /\ change' = [change EXCEPT ![p] = Answers("ext")]
            /\ UNCHANGED <<intbuf, mq, deaf>>
    /\ UNCHANGED <<child, poll, thread, debounce, gaveUp, faults>>

User == \E p \in Ports, d \in {None, "function", "hub"} : Replug(p, d)

\* hub_int_timeout.  A transfer that is still under way is refused as busy;
\* what comes of a structure that is clear is open.
TimerFires ==
    /\ timer /\ timer' = FALSE
    /\ urb' \in IF used THEN {TRUE} ELSE {urb, TRUE}
    /\ refired' = (refired \/ release # "no")
    /\ UNCHANGED <<ports, child, used, release, intbuf, mq, thread, debounce, gaveUp, deaf, plugs,
                   faults>>

Changed(h) == {p \in PortsOf(h) : change[p]}

\* Mutant: a transfer without an answer is not started again.
TimerAfterNak_Off == timer

TimerAfterNak == TRUE

\* hub_int_complete_callback, with data and without.  After any other error
\* the transfer is not started again.  A structure that is clear has no
\* callback, and what starting a deleted timer does is open.
Reports ==
    /\ urb /\ urb' = FALSE /\ used /\ Answers("ext") /\ Changed("ext") # {}
    /\ intbuf' = [intbuf EXCEPT !["ext"] = Changed("ext")]
    /\ Wakeup("ext") /\ NoFault /\ UNCHANGED timer

NoReport ==
    /\ urb /\ urb' = FALSE
    /\ \/ /\ used /\ Answers("ext") /\ Changed("ext") = {} /\ NoFault /\ UNCHANGED deaf
          /\ timer' \in IF release = "deleted" THEN BOOLEAN ELSE {TimerAfterNak}
       \/ (~used \/ ~Answers("ext")) /\ NoFault /\ UNCHANGED <<timer, deaf>>
       \/ used /\ Answers("ext") /\ AFault /\ deaf' = deaf \cup {"ext"} /\ UNCHANGED timer
    /\ UNCHANGED <<intbuf, mq>>

IntComplete ==
    /\ Reports \/ NoReport
    /\ UNCHANGED <<ports, child, used, release, refired, thread, debounce, gaveUp, plugs>>

-----------------------------------------------------------------------------
(***************************************************************************)
(* The thread.                                                             *)
(***************************************************************************)
Goto(step) == thread' = [thread EXCEPT !.step = step]
Working    == UNCHANGED <<device, intbuf, plugs>>
Idles      == UNCHANGED <<level, change, child, poll>>
Succeeds   == Answers(thread.hub) /\ NoFault
Fails      == (~Answers(thread.hub) /\ NoFault) \/ (Answers(thread.hub) /\ AFault)
GiveUp     == gaveUp' = gaveUp \cup {thread.port}

\* Mutant: a hub that is gone is not told from one that is there.
Ignored_Never(h) == FALSE

\* The first test of usbh_hub_events: the structure of a hub that is gone is
\* clear.  It may belong to another hub by now.
Ignored(h) == h = "ext" /\ ~used

\* usbh_hub_thread, and the start of usbh_hub_events
Receive ==
    /\ thread.step = "idle" /\ mq # <<>> /\ Head(mq) # "stop"
    /\ mq' = Tail(mq)
    /\ thread' = IF Ignored(Head(mq)) THEN thread
                 ELSE [step |-> "ports", hub |-> Head(mq), port |-> 0, left |-> intbuf[Head(mq)]]
    /\ deaf' = deaf \ {Head(mq)}
    /\ Working /\ Idles /\ UNCHANGED <<debounce, gaveUp, faults>>

\* usbh_hubport_release; with a hub go the devices on its ports, and the first
\* step of usbh_hub_disconnect kills its transfer.
Release(p) ==
    /\ child' = [q \in Ports |-> IF p \in {0, q} THEN None ELSE child[q]]
    /\ IF p = 0 /\ used
       THEN urb' = FALSE /\ release' = "killed" /\ refired' = FALSE /\ UNCHANGED <<used, timer>>
       ELSE UNCHANGED poll

\* The other steps, before the thread goes on.
DeleteTimer == release = "killed" /\ release' = "deleted" /\ timer' = FALSE /\ UNCHANGED used
FreeHub     == release = "deleted" /\ release' = "no" /\ used' = FALSE /\ UNCHANGED timer

Disconnect ==
    /\ DeleteTimer \/ FreeHub
    /\ UNCHANGED <<ports, child, urb, refired, intbuf, mq, thread, debounce, gaveUp, deaf, plugs,
                   faults>>

Stop ==
    /\ thread.step = "idle" /\ mq # <<>> /\ Head(mq) = "stop"
    /\ mq' = Tail(mq) /\ Goto("exit")
    /\ Release(0)
    /\ Working /\ UNCHANGED <<level, change, debounce, gaveUp, deaf, faults>>

\* The end of usbh_hub_events starts the next poll.
Ends ==
    /\ thread.step = "ports" /\ thread.left = {}
    /\ Goto("idle")
    /\ timer' = (timer \/ thread.hub = "ext")
    /\ Working /\ UNCHANGED <<level, change, child, used, urb, release, refired, mq, debounce, gaveUp,
                              deaf, faults>>

\* The status of the next port.  A port of the root hub whose status cannot be
\* read is not looked at again; another hub reports it in the next poll.
ReadStatus ==
    /\ thread.step = "ports" /\ thread.left # {}
    /\ \E p \in thread.left :
         /\ \A q \in thread.left : p <= q
         /\ \/ Succeeds /\ UNCHANGED gaveUp
               /\ thread' = [thread EXCEPT !.left = @ \ {p}, !.port = p,
                                           !.step = IF change[p] THEN "clear" ELSE "ports"]
            \/ Fails /\ gaveUp' = (IF p = 0 THEN gaveUp \cup {p} ELSE gaveUp)
               /\ thread' = [thread EXCEPT !.left = @ \ {p}]
    /\ Working /\ Idles /\ UNCHANGED <<mq, debounce, deaf>>

\* A request that fails is repeated, for ever if the hub is gone.
Acknowledge ==
    /\ thread.step = "clear"
    /\ \/ /\ Succeeds
          /\ change' = [change EXCEPT ![thread.port] = FALSE]
          /\ gaveUp' = gaveUp \ {thread.port}
          /\ debounce' = [connected |-> FALSE, stable |-> 0, reads |-> 0]
          /\ Goto("debounce")
       \/ Fails /\ UNCHANGED <<change, gaveUp, debounce, thread>>
    /\ Working /\ UNCHANGED <<level, child, poll, mq, deaf>>

Connected == device[thread.port] # None

\* One round of the debounce loop, up to the acknowledgement of a change.
Debounce ==
    LET calm   == ~change[thread.port] /\ Connected = debounce.connected
        stable == IF calm THEN debounce.stable + 1 ELSE 0
    IN  /\ thread.step = "debounce" /\ debounce.reads < MaxReads
        /\ \/ /\ Succeeds
              /\ debounce' = [connected |-> IF calm THEN debounce.connected ELSE Connected,
                              stable |-> stable,
                              reads |-> IF change[thread.port] THEN debounce.reads ELSE debounce.reads + 1]
              /\ \/ stable >= StableReads /\ Connected /\ Goto("reset") /\ UNCHANGED <<child, poll>>
                 \/ stable >= StableReads /\ ~Connected /\ Goto("ports") /\ Release(thread.port)
                 \/ stable < StableReads /\ UNCHANGED <<child, poll>>
                    /\ Goto(IF change[thread.port] THEN "again" ELSE "debounce")
           \/ /\ Fails /\ debounce' = [debounce EXCEPT !.reads = @ + 1]
              /\ UNCHANGED <<child, poll, thread>>
        /\ Working /\ UNCHANGED <<level, change, mq, gaveUp, deaf>>

Unchange ==
    /\ thread.step = "again"
    /\ \/ Succeeds /\ change' = [change EXCEPT ![thread.port] = FALSE]
       \/ Fails /\ UNCHANGED change
    /\ debounce' = [debounce EXCEPT !.reads = @ + 1] /\ Goto("debounce")
    /\ Working /\ UNCHANGED <<level, child, poll, mq, gaveUp, deaf>>

\* The port does not come to rest: it and the ports after it are left.
DebounceFails ==
    /\ thread.step = "debounce" /\ debounce.reads = MaxReads
    /\ thread' = [thread EXCEPT !.step = "ports", !.left = {}] /\ GiveUp
    /\ Working /\ Idles /\ UNCHANGED <<mq, debounce, deaf, faults>>

ResetPort ==
    /\ thread.step = "reset"
    /\ \/ /\ Succeeds /\ Goto("enable") /\ UNCHANGED gaveUp
          /\ level' = [level EXCEPT ![thread.port] = IF Connected THEN 1 ELSE 0]
       \/ Fails /\ Goto("ports") /\ GiveUp /\ UNCHANGED level
    /\ Working /\ UNCHANGED <<change, child, poll, mq, debounce, deaf>>

\* What was enumerated on the port before is released first.
ReadEnable ==
    /\ thread.step = "enable"
    /\ \/ /\ Succeeds /\ Release(thread.port) /\ UNCHANGED gaveUp
          /\ Goto(IF level[thread.port] > 0 THEN "enumerate" ELSE "ports")
       \/ Fails /\ Goto("ports") /\ GiveUp /\ UNCHANGED <<child, poll>>
    /\ Working /\ UNCHANGED <<level, change, mq, debounce, deaf>>

\* Mutant: all changes of the port are acknowledged once more in the end.
Remaining_None(p) == FALSE

\* The change bit after the enumeration.
Remaining(p) == change[p]

\* usbh_hub_connect of what is plugged into the root hub, if that is a hub: its
\* ports get power, and report what is plugged in.  The structure is the one
\* that was released; a transfer that outlived it is forgotten.
HubConnect ==
    /\ IF device[0] = "hub"
       THEN used' = TRUE /\ timer' = TRUE /\ urb' = FALSE /\ refired' = FALSE /\ UNCHANGED release
       ELSE UNCHANGED poll
    /\ change' = [q \in Ports |-> IF q = 0 THEN Remaining(0) ELSE device[q] # None]
    /\ deaf' = deaf \ {"ext"} /\ gaveUp' = gaveUp \ PortsOf("ext")

\* usbh_enumerate, which finds the class driver of the device.
Enumerate ==
    LET p == thread.port IN
    /\ thread.step = "enumerate" /\ Goto("ports")
    /\ \/ /\ Succeeds /\ level[p] = 1
          /\ level' = [level EXCEPT ![p] = 2]
          /\ child' = [q \in Ports |-> IF q = p THEN device[p] ELSE IF p = 0 THEN None ELSE child[q]]
          /\ IF p = 0 THEN HubConnect
             ELSE change' = [change EXCEPT ![p] = Remaining(p)] /\ UNCHANGED <<poll, deaf, gaveUp>>
       \/ /\ Fails \/ (Succeeds /\ level[p] # 1)
          /\ Release(p)
          /\ gaveUp' = (IF level[p] = 1 THEN gaveUp \cup {p} ELSE gaveUp)
          /\ change' = [change EXCEPT ![p] = Remaining(p)]
          /\ UNCHANGED <<level, deaf>>
    /\ Working /\ UNCHANGED <<mq, debounce>>

Works == \/ Receive \/ Stop \/ Ends \/ ReadStatus \/ Acknowledge \/ Debounce \/ Unchange
         \/ DebounceFails \/ ResetPort \/ ReadEnable \/ Enumerate

Thread == (release = "no" /\ Works) \/ Disconnect

\* usbh_hub_deinitialize; the thread is sent its last message.  (The thread and
\* its caller each delete the queue in the end; that is not modelled.)
Deinitialize ==
    /\ "stop" \notin {mq[k] : k \in DOMAIN mq} /\ Len(mq) < MqLimit /\ thread.step # "exit"
    /\ mq' = Append(mq, "stop")
    /\ UNCHANGED <<ports, child, poll, intbuf, thread, debounce, gaveUp, deaf, plugs, faults>>

Next == User \/ TimerFires \/ IntComplete \/ Thread \/ Deinitialize

\* The thread and the timer run, and a transfer of a hub with something to
\* report completes.
Fairness == WF_vars(Thread) /\ WF_vars(TimerFires) /\ WF_vars(IntComplete)

Spec     == Init /\ [][Next]_vars
FairSpec == Spec /\ Fairness

-----------------------------------------------------------------------------
(***************************************************************************)
(* Properties.                                                             *)
(***************************************************************************)
\* The driver has what is plugged in, and that was enumerated.
Tracked(p) == child[p] = device[p] /\ (device[p] # None => level[p] = 2)

InHand(p) ==
    /\ thread.hub = HubOf(p) /\ thread.port = p
    /\ thread.step \in {"debounce", "again", "reset", "enable", "enumerate"}

(* Where the driver is wrong about a port, a change is still to be         *)
(* acknowledged or being worked on, or the port was given up for an error: *)
(* whatever is plugged in or out between two requests of the thread, no    *)
(* acknowledgement loses a change.  A thread that has ended has released   *)
(* everything.                                                             *)
NothingStale ==
    IF thread.step = "exit" THEN \A p \in Ports : child[p] = None
    ELSE \A p \in Ports : \/ Tracked(p) \/ change[p] \/ InHand(p) \/ p \in gaveUp
                          \/ p # 0 /\ ~Tracked(0)

(* The structure of a hub is in use as long as its port has the hub or is  *)
(* being released; the thread works for no hub that was released, although *)
(* messages of one may still be in the queue.  Its timer and its transfer  *)
(* end with it, unless the timer fired between the two statements that     *)
(* stop them, for the transfer was killed first: then the transfer may     *)
(* outlive the structure.                                                  *)
OwnHub ==
    /\ used <=> (child[0] = "hub" \/ release # "no")
    /\ ~used /\ (timer \/ urb) => refired
    /\ thread.hub = "ext" /\ thread.step \notin {"idle", "exit"} => used /\ release = "no"

\* Given up after an error, or not reported any more.
Excused(p) == p \in gaveUp \/ HubOf(p) \in deaf

(* When nothing is plugged in or out any more, the driver comes to have    *)
(* what is plugged in: no change waits for a poll, a message or the thread *)
(* for ever.                                                               *)
PortsSettle ==
    <>[](\/ thread.step = "exit"
         \/ \A p \in Ports : Tracked(p) \/ Excused(p) \/ (p # 0 /\ Excused(0)))
=============================================================================
