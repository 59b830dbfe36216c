---------------------------- MODULE UsbHost_proofs ----------------------------
(***************************************************************************)
(* Machine-checked proofs about two systems of the host, which share no    *)
(* state: the hub driver of UsbhHub, for every number of ports, length of  *)
(* the queue and of the debounce loop, and the network link of RndisLink,  *)
(* for every size of packets, headers, buffers and frames.  Both for any   *)
(* number of plugs, resets and faults.                                     *)
(***************************************************************************)
EXTENDS UsbhHub, RndisLink, SequenceTheorems, TLAPS

(***************************************************************************)
(* The hub driver.                                                         *)
(***************************************************************************)
Attached == {None, "function", "hub"}

LEMMA PortFacts ==
    /\ 0 \in Ports /\ Ports \subseteq Nat
    /\ PortsOf("root") = {0}
    /\ \A h \in Hubs : PortsOf(h) \subseteq Ports
    /\ \A h \in Hubs : \A p \in PortsOf(h) : HubOf(p) = h /\ (p = 0 <=> h = "root")
  BY HubAssumption DEF Ports, PortsOf, HubOf, Hubs

-----------------------------------------------------------------------------
(* Types. *)

QueueTyped  == mq \in Seq(Hubs \cup {"stop"})
ThreadTyped == thread \in [step : Steps, hub : Hubs, port : Ports, left : SUBSET Ports]

LEMMA WakeupTyped ==
    ASSUME QueueTyped, deaf \subseteq Hubs, NEW h \in Hubs, Wakeup(h)
    PROVE  QueueTyped' /\ deaf' \subseteq Hubs
  BY DEF Wakeup, QueueTyped

LEMMA QueueStep == TypeOK /\ [Next]_vars => QueueTyped' /\ deaf' \subseteq Hubs
  <1> SUFFICES ASSUME TypeOK, [Next]_vars PROVE QueueTyped' /\ deaf' \subseteq Hubs
    OBVIOUS
  <1>1. QueueTyped /\ deaf \subseteq Hubs /\ "ext" \in Hubs /\ "root" \in Hubs
    BY DEF TypeOK, QueueTyped, Hubs
  <1>2. CASE Wakeup("ext") \/ Wakeup("root")
    BY <1>1, <1>2, WakeupTyped
  <1>3. CASE UNCHANGED mq /\ deaf' \in {deaf, deaf \cup {"ext"}, deaf \ {"ext"}}
    BY <1>1, <1>3 DEF QueueTyped
  <1>4. CASE mq # <<>> /\ mq' = Tail(mq) /\ deaf' \in {deaf, deaf \ {Head(mq)}}
    BY <1>1, <1>4 DEF QueueTyped
  <1>5. CASE mq' = Append(mq, "stop") /\ deaf' = deaf
    BY <1>1, <1>5 DEF QueueTyped
  <1>6. CASE User
    <2>1. PICK p \in Ports, d \in {None, "function", "hub"} : Replug(p, d)
      BY <1>6 DEF User
    <2> QED BY <1>2, <1>3, <2>1 DEF Replug
  <1>7. CASE TimerFires
    BY <1>3, <1>7 DEF TimerFires
  <1>8. CASE IntComplete
    BY <1>2, <1>3, <1>8 DEF IntComplete, Reports, NoReport
  <1>9. CASE Receive \/ Stop
    BY <1>4, <1>9 DEF Receive, Stop
  <1>10. CASE Ends \/ ReadStatus \/ Acknowledge \/ Debounce \/ Unchange \/ DebounceFails
           \/ ResetPort \/ ReadEnable
    BY <1>3, <1>10 DEF Ends, ReadStatus, Acknowledge, Debounce, Unchange, DebounceFails, ResetPort, ReadEnable
  <1>11. CASE Enumerate
    BY <1>3, <1>11 DEF Enumerate, HubConnect
  <1>12. CASE Deinitialize
    BY <1>5, <1>12 DEF Deinitialize
  <1>13. CASE Disconnect \/ UNCHANGED vars
    BY <1>3, <1>13 DEF Disconnect, vars
  <1> QED BY <1>6, <1>7, <1>8, <1>9, <1>10, <1>11, <1>12, <1>13 DEF Next, Thread, Works

LEMMA ThreadStep == TypeOK /\ [Next]_vars => ThreadTyped'
  <1> SUFFICES ASSUME TypeOK, [Next]_vars PROVE ThreadTyped'
    OBVIOUS
  <1>1. ThreadTyped /\ QueueTyped /\ intbuf \in [Hubs -> SUBSET Ports]
    BY DEF TypeOK, ThreadTyped, QueueTyped
  <1>2. CASE UNCHANGED thread
    BY <1>1, <1>2 DEF ThreadTyped
  <1>3. ASSUME NEW s \in Steps, Goto(s) PROVE ThreadTyped'
    BY <1>1, <1>3 DEF Goto, ThreadTyped
  <1>4. CASE Receive
    <2>1. Head(mq) \in Hubs /\ 0 \in Ports
      BY <1>1, <1>4, PortFacts DEF Receive, QueueTyped
    <2>2. thread' \in {thread, [step |-> "ports", hub |-> Head(mq), port |-> 0, left |-> intbuf[Head(mq)]]}
      BY <1>4 DEF Receive
    <2> QED BY <1>1, <2>1, <2>2 DEF ThreadTyped, Steps
  <1>5. CASE ReadStatus
    <2>1. PICK p \in thread.left :
            thread' \in {[thread EXCEPT !.left = @ \ {p}, !.port = p, !.step = "clear"],
                         [thread EXCEPT !.left = @ \ {p}, !.port = p, !.step = "ports"],
                         [thread EXCEPT !.left = @ \ {p}]}
      BY <1>5 DEF ReadStatus
    <2> QED BY <1>1, <2>1 DEF ThreadTyped, Steps
  <1>6. CASE DebounceFails
    BY <1>1, <1>6 DEF DebounceFails, ThreadTyped, Steps
  <1>7. CASE Acknowledge \/ Debounce \/ Unchange \/ ResetPort \/ ReadEnable \/ Enumerate \/ Ends \/ Stop
    <2>1. UNCHANGED thread \/ \E s \in Steps : Goto(s)
      BY <1>7 DEF Acknowledge, Debounce, Unchange, ResetPort, ReadEnable, Enumerate, Ends, Stop, Steps
    <2> QED BY <1>2, <1>3, <2>1
  <1>8. CASE User \/ TimerFires \/ IntComplete \/ Disconnect \/ Deinitialize \/ UNCHANGED vars
    BY <1>2, <1>8 DEF User, Replug, TimerFires, IntComplete, Disconnect, Deinitialize, vars
  <1> QED BY <1>4, <1>5, <1>6, <1>7, <1>8 DEF Next, Thread, Works

PlugsTyped ==
    /\ device \in [Ports -> Attached] /\ level \in [Ports -> 0 .. 2]
    /\ change \in [Ports -> BOOLEAN] /\ child \in [Ports -> Attached]
    /\ intbuf \in [Hubs -> SUBSET Ports]

PollTyped ==
    /\ used \in BOOLEAN /\ timer \in BOOLEAN /\ urb \in BOOLEAN
    /\ release \in {"no", "killed", "deleted"} /\ refired \in BOOLEAN

\* Release and GiveUp are what most branches of the thread do.
LEMMA ReleaseTyped ==
    ASSUME PlugsTyped, PollTyped, NEW p \in Ports, Release(p)
    PROVE  child' \in [Ports -> Attached] /\ PollTyped'
  <1>1. child' \in [Ports -> Attached]
    BY DEF Release, PlugsTyped, Attached
  <1>2. CASE UNCHANGED poll
    BY <1>1, <1>2 DEF PollTyped, poll
  <1>3. CASE urb' = FALSE /\ release' = "killed" /\ refired' = FALSE /\ UNCHANGED <<used, timer>>
    BY <1>1, <1>3 DEF PollTyped
  <1> QED BY <1>1, <1>2, <1>3 DEF Release

LEMMA PlugsStep == TypeOK /\ [Next]_vars => PlugsTyped'
  <1> SUFFICES ASSUME TypeOK, [Next]_vars PROVE PlugsTyped'
    OBVIOUS
  <1>1. PlugsTyped /\ ThreadTyped /\ thread.port \in Ports /\ 0 \in Ports /\ "ext" \in Hubs /\ "root" \in Hubs
        /\ PollTyped
    BY PortFacts DEF TypeOK, PlugsTyped, PollTyped, ThreadTyped, Attached, Hubs
  <1> USE DEF PlugsTyped
  <1>2. CASE UNCHANGED <<ports, child, intbuf>>
    BY <1>1, <1>2 DEF ports
  <1>3. CASE User
    <2>1. PICK p \in Ports, d \in Attached : Replug(p, d)
      BY <1>3 DEF User, Attached
    <2>2. CASE p = 0
      <3>1. /\ device' = [q \in Ports |-> IF q = 0 THEN d ELSE None]
            /\ level' = [q \in Ports |-> 0] /\ change' = [q \in Ports |-> q = 0]
            /\ intbuf' = [intbuf EXCEPT !["root"] = {0}] /\ child' = child
        BY <2>1, <2>2 DEF Replug
      <3>2. device' \in [Ports -> Attached]
        BY <3>1 DEF Attached
      <3>3. intbuf' \in [Hubs -> SUBSET Ports]
        BY <1>1, <3>1
      <3> QED BY <1>1, <3>1, <3>2, <3>3
    <2>3. CASE p # 0
      <3>1. /\ device' = [device EXCEPT ![p] = d] /\ level' = [level EXCEPT ![p] = 0]
            /\ change' = [change EXCEPT ![p] = Answers("ext")]
            /\ UNCHANGED <<intbuf, child>>
        BY <2>1, <2>3 DEF Replug
      <3>2. Answers("ext") \in BOOLEAN
        BY DEF Answers
      <3> QED BY <1>1, <3>1, <3>2
    <2> QED BY <2>2, <2>3
  <1>4. CASE IntComplete
    <2>1. UNCHANGED <<ports, child>>
      BY <1>4 DEF IntComplete
    <2>2. Changed("ext") \in SUBSET Ports
      BY <1>1, PortFacts DEF Changed
    <2>3. intbuf' \in {intbuf, [intbuf EXCEPT !["ext"] = Changed("ext")]}
      BY <1>4 DEF IntComplete, Reports, NoReport
    <2> QED BY <1>1, <2>1, <2>2, <2>3 DEF ports
  <1>5. CASE \/ TimerFires \/ Receive \/ Ends \/ ReadStatus \/ DebounceFails \/ Disconnect
             \/ Deinitialize \/ UNCHANGED vars
    BY <1>2, <1>5 DEF TimerFires, Receive, Ends, ReadStatus, DebounceFails, Disconnect, Deinitialize, vars,
                      ports, Working, Idles
  <1>6. CASE Stop
    <2>1. Release(0) /\ UNCHANGED <<device, intbuf, level, change>>
      BY <1>6 DEF Stop, Working
    <2> QED BY <1>1, <2>1, ReleaseTyped
  <1>7. CASE Acknowledge \/ Unchange
    <2>1. change' \in {change, [change EXCEPT ![thread.port] = FALSE]} /\ UNCHANGED <<device, level, child, intbuf>>
      BY <1>7 DEF Acknowledge, Unchange, Working
    <2> QED BY <1>1, <2>1
  <1>8. CASE Debounce \/ ReadEnable
    <2>1. (Release(thread.port) \/ child' = child) /\ UNCHANGED <<device, level, change, intbuf>>
      BY <1>8 DEF Debounce, ReadEnable, Working
    <2> QED BY <1>1, <2>1, ReleaseTyped
  <1>9. CASE ResetPort
    <2>1. level' \in {level, [level EXCEPT ![thread.port] = IF Connected THEN 1 ELSE 0]}
          /\ UNCHANGED <<device, change, child, intbuf>>
      BY <1>9 DEF ResetPort, Working
    <2> QED BY <1>1, <2>1
  <1>10. CASE Enumerate
    <2>1. UNCHANGED <<device, intbuf>>
      BY <1>10 DEF Enumerate, Working
    <2>2. level' \in {level, [level EXCEPT ![thread.port] = 2]}
      BY <1>10 DEF Enumerate
    <2>3. Release(thread.port)
          \/ child' = [q \in Ports |-> IF q = thread.port THEN device[thread.port]
                                       ELSE IF thread.port = 0 THEN None ELSE child[q]]
      BY <1>10 DEF Enumerate
    <2>4. change' \in {[change EXCEPT ![thread.port] = change[thread.port]],
                       [q \in Ports |-> IF q = 0 THEN change[0] ELSE device[q] # None]}
      BY <1>10 DEF Enumerate, HubConnect, Remaining
    <2>5. child' \in [Ports -> Attached]
      BY <1>1, <2>3, ReleaseTyped DEF Attached
    <2>6. change' \in [Ports -> BOOLEAN]
      BY <1>1, <2>4
    <2> QED BY <1>1, <2>1, <2>2, <2>5, <2>6
  <1> QED BY <1>3, <1>4, <1>5, <1>6, <1>7, <1>8, <1>9, <1>10 DEF Next, Thread, Works

BoundsTyped ==
    /\ PollTyped
    /\ debounce \in [connected : BOOLEAN, stable : Nat, reads : Nat]
    /\ gaveUp \subseteq Ports /\ plugs \in 0 .. MaxPlugs /\ faults \in 0 .. MaxFaults

LEMMA BoundsStep == TypeOK /\ [Next]_vars => BoundsTyped'
  <1> SUFFICES ASSUME TypeOK, [Next]_vars PROVE BoundsTyped'
    OBVIOUS
  <1>1. /\ PlugsTyped /\ ThreadTyped /\ thread.port \in Ports
        /\ PollTyped
        /\ debounce \in [connected : BOOLEAN, stable : Nat, reads : Nat]
        /\ gaveUp \subseteq Ports /\ plugs \in 0 .. MaxPlugs /\ faults \in 0 .. MaxFaults
        /\ MaxPlugs \in Nat /\ MaxFaults \in Nat
    BY HubAssumption DEF TypeOK, PlugsTyped, PollTyped, ThreadTyped, Attached
  <1>2. plugs' \in 0 .. MaxPlugs
    <2>1. plugs' = plugs \/ (plugs < MaxPlugs /\ plugs' = plugs + 1)
      BY DEF Next, User, Replug, TimerFires, IntComplete, Thread, Works, Disconnect, Deinitialize, vars, Receive,
             Stop, Ends, ReadStatus, Acknowledge, Debounce, Unchange, DebounceFails, ResetPort, ReadEnable, Enumerate,
             Working
    <2> QED BY <1>1, <2>1
  <1>3. faults' \in 0 .. MaxFaults
    <2>1. UNCHANGED faults \/ AFault
      BY DEF Next, User, Replug, TimerFires, IntComplete, Reports, NoReport, Thread, Works, Disconnect, Deinitialize, vars,
             Receive, Stop, Ends, ReadStatus, Acknowledge, Debounce, Unchange, DebounceFails, ResetPort,
             ReadEnable, Enumerate, NoFault, Succeeds, Fails
    <2> QED BY <1>1, <2>1 DEF AFault
  <1>4. gaveUp' \subseteq Ports
    <2>1. gaveUp' \subseteq gaveUp \cup {thread.port} \/ gaveUp' \subseteq gaveUp \cup {0}
          \/ \E p \in thread.left : gaveUp' \subseteq gaveUp \cup {p}
      <3>1. CASE ReadStatus
        BY <3>1 DEF ReadStatus
      <3>2. CASE Enumerate
        BY <3>2 DEF Enumerate, HubConnect
      <3>3. CASE Acknowledge \/ DebounceFails \/ ResetPort \/ ReadEnable
        BY <3>3 DEF Acknowledge, DebounceFails, ResetPort, ReadEnable, GiveUp
      <3>4. CASE UNCHANGED gaveUp
        BY <3>4
      <3> QED BY <3>1, <3>2, <3>3, <3>4
              DEF Next, User, Replug, TimerFires, IntComplete, Thread, Works, Disconnect, Deinitialize, vars,
                  Receive, Stop, Ends, Debounce, Unchange
    <2> QED BY <1>1, <2>1, PortFacts DEF ThreadTyped
  <1>5. debounce' \in [connected : BOOLEAN, stable : Nat, reads : Nat]
    <2>1. CASE Debounce
      <3>1. PICK stable \in Nat, c \in BOOLEAN, r \in {debounce.reads, debounce.reads + 1} :
              debounce' = [connected |-> c, stable |-> stable, reads |-> r]
        <4>1. CASE debounce' = [debounce EXCEPT !.reads = @ + 1]
          BY <1>1, <4>1
        <4> DEFINE calm == ~change[thread.port] /\ Connected = debounce.connected
                   stable == IF calm THEN debounce.stable + 1 ELSE 0
                   c == IF calm THEN debounce.connected ELSE Connected
                   r == IF change[thread.port] THEN debounce.reads ELSE debounce.reads + 1
        <4>2. CASE debounce' = [connected |-> c, stable |-> stable, reads |-> r]
          <5>1. stable \in Nat /\ c \in BOOLEAN /\ r \in {debounce.reads, debounce.reads + 1}
            <6>1. debounce.stable \in Nat /\ debounce.connected \in BOOLEAN
              BY <1>1
            <6>2. stable \in Nat
              BY <6>1
            <6>3. c \in BOOLEAN
              BY <6>1 DEF Connected
            <6> QED BY <6>2, <6>3
          <5> QED BY <4>2, <5>1
        <4> QED BY <2>1, <4>1, <4>2 DEF Debounce
      <3> QED BY <1>1, <3>1
    <2>2. CASE Unchange \/ Acknowledge
      <3>1. debounce' \in {debounce, [debounce EXCEPT !.reads = @ + 1],
                           [connected |-> FALSE, stable |-> 0, reads |-> 0]}
        BY <2>2 DEF Unchange, Acknowledge
      <3>2. [debounce EXCEPT !.reads = @ + 1] \in [connected : BOOLEAN, stable : Nat, reads : Nat]
        BY <1>1
      <3>3. [connected |-> FALSE, stable |-> 0, reads |-> 0] \in [connected : BOOLEAN, stable : Nat, reads : Nat]
        OBVIOUS
      <3> QED BY <1>1, <3>1, <3>2, <3>3
    <2>3. CASE UNCHANGED debounce
      BY <1>1, <2>3
    <2> QED BY <2>1, <2>2, <2>3
            DEF Next, User, Replug, TimerFires, IntComplete, Thread, Works, Disconnect, Deinitialize, vars,
                Receive, Stop, Ends, ReadStatus, DebounceFails, ResetPort, ReadEnable, Enumerate
  <1>6. PollTyped'
    <2>1. CASE UNCHANGED poll
      BY <1>1, <2>1 DEF poll, PollTyped
    <2>2. CASE TimerFires
      <3>1. urb' \in {urb, TRUE} /\ timer' = FALSE /\ refired' = (refired \/ release # "no")
            /\ UNCHANGED <<used, release>>
        BY <2>2 DEF TimerFires
      <3> QED BY <1>1, <3>1 DEF PollTyped
    <2>3. CASE IntComplete
      <3>1. urb' = FALSE /\ (timer' = timer \/ timer' \in BOOLEAN) /\ UNCHANGED <<used, release, refired>>
        BY <2>3 DEF IntComplete, Reports, NoReport, TimerAfterNak
      <3> QED BY <1>1, <3>1 DEF PollTyped
    <2>4. CASE \E p \in Ports : Release(p)
      BY <1>1, <2>4, ReleaseTyped
    <2>5. CASE Ends
      <3>1. timer' = (timer \/ thread.hub = "ext") /\ UNCHANGED <<used, urb, release, refired>>
        BY <2>5 DEF Ends
      <3> QED BY <1>1, <3>1 DEF PollTyped
    <2>6. CASE HubConnect
      BY <1>1, <2>1, <2>6 DEF HubConnect, PollTyped
    <2>7. CASE Disconnect
      BY <1>1, <2>7 DEF Disconnect, DeleteTimer, FreeHub, PollTyped
    <2> QED BY <1>1, <2>1, <2>2, <2>3, <2>4, <2>5, <2>6, <2>7, PortFacts
            DEF Next, User, Replug, Thread, Works, Deinitialize, vars, Receive, Stop, ReadStatus, Acknowledge,
                Debounce, Unchange, DebounceFails, ResetPort, ReadEnable, Enumerate, Idles
  <1> QED BY <1>1, <1>2, <1>3, <1>4, <1>5, <1>6 DEF BoundsTyped

LEMMA TypeInit == Init => TypeOK
  <1> SUFFICES ASSUME Init PROVE TypeOK
    OBVIOUS
  <1>1. 0 \in Ports /\ 0 \in 0 .. MaxPlugs /\ 0 \in 0 .. MaxFaults /\ <<>> \in Seq(Hubs \cup {"stop"})
    BY PortFacts, HubAssumption
  <1> QED BY <1>1 DEF Init, TypeOK, Hubs, Steps

LEMMA TypeStep == TypeOK /\ [Next]_vars => TypeOK'
  BY QueueStep, ThreadStep, PlugsStep, BoundsStep
  DEF TypeOK, QueueTyped, ThreadTyped, PlugsTyped, BoundsTyped, PollTyped, Attached

(* Every variable of the hub driver keeps its type, whatever is plugged in *)
(* or out and whatever fails.                                              *)
THEOREM TypeCorrect == Spec => []TypeOK
  BY TypeInit, TypeStep, PTL DEF Spec

-----------------------------------------------------------------------------
(* Whose ports the thread works on. *)

AtPort == thread.step \in {"clear", "debounce", "again", "reset", "enable", "enumerate"}

\* A hub reports its own ports only, and the thread keeps to those of the hub
\* whose message it has received.
OwnPorts ==
    /\ \A h \in Hubs : intbuf[h] \subseteq PortsOf(h)
    /\ thread.left \subseteq PortsOf(thread.hub)
    /\ AtPort => thread.port \in PortsOf(thread.hub)

LEMMA OwnPortsInit == Init => OwnPorts
  BY DEF Init, OwnPorts, AtPort

LEMMA OwnPortsStep ==
    ASSUME TypeOK, OwnPorts, [Next]_vars
    PROVE  OwnPorts'
  <1>1. /\ ThreadTyped /\ QueueTyped /\ thread.hub \in Hubs /\ "ext" \in Hubs /\ "root" \in Hubs
        /\ intbuf \in [Hubs -> SUBSET Ports]
    BY DEF TypeOK, ThreadTyped, QueueTyped, Hubs
  <1>2. \A h \in Hubs : intbuf'[h] \subseteq PortsOf(h)
    <2>1. CASE UNCHANGED intbuf
      BY <2>1 DEF OwnPorts
    <2>2. CASE intbuf' = [intbuf EXCEPT !["root"] = {0}]
      BY <1>1, <2>2, PortFacts DEF OwnPorts
    <2>3. CASE intbuf' = [intbuf EXCEPT !["ext"] = Changed("ext")]
      BY <1>1, <2>3 DEF OwnPorts, Changed
    <2>4. CASE User
      BY <2>1, <2>2, <2>4 DEF User, Replug
    <2>5. CASE IntComplete
      BY <2>1, <2>3, <2>5 DEF IntComplete, Reports, NoReport
    <2> QED BY <2>1, <2>4, <2>5
            DEF Next, TimerFires, Thread, Works, Disconnect, Deinitialize, vars, Receive, Stop, Ends,
                ReadStatus, Acknowledge, Debounce, Unchange, DebounceFails, ResetPort, ReadEnable, Enumerate, Working
  <1> DEFINE Keeps == /\ thread'.left \subseteq PortsOf(thread'.hub)
                      /\ AtPort' => thread'.port \in PortsOf(thread'.hub)
  <1> SUFFICES Keeps
    BY <1>2 DEF OwnPorts
  <1>3. CASE UNCHANGED thread
    BY <1>3 DEF OwnPorts, AtPort
  <1>4. ASSUME NEW s, Goto(s), AtPort \/ s \notin {"clear", "debounce", "again", "reset", "enable", "enumerate"}
        PROVE  Keeps
    BY <1>1, <1>4 DEF Goto, OwnPorts, AtPort, ThreadTyped
  <1>5. CASE Receive
    <2>1. Head(mq) \in Hubs
      BY <1>1, <1>5 DEF Receive, QueueTyped
    <2>2. thread' \in {thread, [step |-> "ports", hub |-> Head(mq), port |-> 0, left |-> intbuf[Head(mq)]]}
      BY <1>5 DEF Receive
    <2> QED BY <1>3, <2>1, <2>2 DEF OwnPorts, AtPort
  <1>6. CASE ReadStatus
    <2>1. PICK p \in thread.left :
            thread' \in {[thread EXCEPT !.left = @ \ {p}, !.port = p, !.step = "clear"],
                         [thread EXCEPT !.left = @ \ {p}, !.port = p, !.step = "ports"],
                         [thread EXCEPT !.left = @ \ {p}]}
      BY <1>6 DEF ReadStatus
    <2>2. thread.step = "ports"
      BY <1>6 DEF ReadStatus
    <2> QED BY <1>1, <2>1, <2>2 DEF OwnPorts, AtPort, ThreadTyped
  <1>7. CASE DebounceFails
    BY <1>1, <1>7 DEF DebounceFails, OwnPorts, AtPort, ThreadTyped
  <1>8. CASE Acknowledge \/ Debounce \/ Unchange \/ ResetPort \/ ReadEnable \/ Enumerate
    <2>1. AtPort /\ (UNCHANGED thread \/ \E s \in Steps : Goto(s))
      BY <1>8 DEF Acknowledge, Debounce, Unchange, ResetPort, ReadEnable, Enumerate, AtPort, Steps
    <2> QED BY <1>3, <1>4, <2>1
  <1>9. CASE Ends \/ Stop
    <2>1. Goto("idle") \/ Goto("exit")
      BY <1>9 DEF Ends, Stop
    <2> QED BY <1>4, <2>1
  <1>10. CASE User \/ TimerFires \/ IntComplete \/ Disconnect \/ Deinitialize \/ UNCHANGED vars
    BY <1>3, <1>10 DEF User, Replug, TimerFires, IntComplete, Disconnect, Deinitialize, vars
  <1> QED BY <1>5, <1>6, <1>7, <1>8, <1>9, <1>10 DEF Next, Thread, Works

\* While the thread works on a port, that is one of its hub.
LEMMA PortInHand ==
    ASSUME TypeOK, OwnPorts, AtPort
    PROVE  /\ thread.port \in Ports /\ thread.hub \in Hubs
           /\ HubOf(thread.port) = thread.hub
           /\ thread.port = 0 <=> thread.hub = "root"
  BY PortFacts DEF TypeOK, OwnPorts

\* A hub that is released is no child any more.  Its transfer stays killed and
\* its timer deleted, unless the timer fires.
Stopping ==
    release # "no" => /\ child[0] # "hub"
                      /\ ~refired => ~urb /\ (release = "deleted" => ~timer)

\* What was enumerated on a port is released before the next device is.
Vacant == thread.step = "enumerate" => child[thread.port] = None

LEMMA OwnHubInit == Init => OwnHub /\ Stopping /\ Vacant
  BY PortFacts DEF Init, OwnHub, Stopping, Vacant, None

LEMMA VacantStep ==
    ASSUME TypeOK, Vacant, [Next]_vars
    PROVE  Vacant'
  <1>1. /\ thread \in [step : Steps, hub : Hubs, port : Ports, left : SUBSET Ports]
        /\ thread.port \in Ports
    BY DEF TypeOK
  <1>2. \A s : Goto(s) => thread'.step = s /\ thread'.port = thread.port
    BY <1>1 DEF Goto
  <1>3. CASE thread'.step # "enumerate"
    BY <1>3 DEF Vacant
  <1>4. CASE UNCHANGED <<thread, child>>
    BY <1>4 DEF Vacant
  <1>5. CASE User \/ TimerFires \/ IntComplete \/ Disconnect \/ Deinitialize \/ UNCHANGED vars
    BY <1>4, <1>5 DEF User, Replug, TimerFires, IntComplete, Disconnect, Deinitialize, vars
  <1>6. CASE ReadEnable
    <2>1. Goto("ports") \/ (Goto("enumerate") /\ Release(thread.port))
      BY <1>6 DEF ReadEnable
    <2>2. Release(thread.port) => child'[thread.port] = None
      BY <1>1 DEF Release
    <2> QED BY <1>2, <2>1, <2>2 DEF Vacant
  <1>7. CASE Receive
    <2>1. thread.step = "idle"
          /\ thread' \in {thread, [step |-> "ports", hub |-> Head(mq), port |-> 0, left |-> intbuf[Head(mq)]]}
      BY <1>7 DEF Receive
    <2> QED BY <1>3, <2>1
  <1>8. CASE ReadStatus
    <2>1. thread.step = "ports"
      BY <1>8 DEF ReadStatus
    <2>2. PICK p \in thread.left :
            thread' \in {[thread EXCEPT !.left = @ \ {p}, !.port = p, !.step = "clear"],
                         [thread EXCEPT !.left = @ \ {p}, !.port = p, !.step = "ports"],
                         [thread EXCEPT !.left = @ \ {p}]}
      BY <1>8 DEF ReadStatus
    <2>3. thread'.step \in {"clear", "ports"}
      BY <1>1, <2>1, <2>2
    <2> QED BY <1>3, <2>3
  <1>9. CASE DebounceFails
    <2>1. thread'.step = "ports"
      BY <1>1, <1>9 DEF DebounceFails
    <2> QED BY <1>3, <2>1
  <1>10. CASE Acknowledge \/ Debounce \/ Unchange \/ ResetPort
    <2>1. thread.step # "enumerate"
          /\ (thread' = thread \/ \E s \in {"debounce", "again", "reset", "enable", "ports"} : Goto(s))
      BY <1>10 DEF Acknowledge, Debounce, Unchange, ResetPort
    <2> QED BY <1>2, <1>3, <2>1
  <1>11. CASE Enumerate \/ Ends \/ Stop
    <2>1. \E s \in {"idle", "exit", "ports"} : Goto(s)
      BY <1>11 DEF Enumerate, Ends, Stop
    <2> QED BY <1>2, <1>3, <2>1
  <1> QED BY <1>5, <1>6, <1>7, <1>8, <1>9, <1>10, <1>11 DEF Next, Thread, Works

LEMMA StoppingStep ==
    ASSUME TypeOK, OwnHub, Stopping, [Next]_vars
    PROVE  Stopping'
  <1>1. /\ release \in {"no", "killed", "deleted"} /\ urb \in BOOLEAN /\ timer \in BOOLEAN
        /\ refired \in BOOLEAN /\ 0 \in Ports
    BY PortFacts DEF TypeOK
  <1>2. CASE UNCHANGED <<poll, child>>
    BY <1>2 DEF Stopping, poll
  <1>3. CASE release' = "no"
    BY <1>3 DEF Stopping
  <1>4. ASSUME NEW p, Release(p), release = "no" PROVE Stopping'
    <2>1. CASE p = 0 /\ used
      <3>1. urb' = FALSE /\ release' = "killed" /\ child'[0] = None
        BY <1>1, <1>4, <2>1 DEF Release
      <3> QED BY <3>1 DEF Stopping, None
    <2>2. CASE ~(p = 0 /\ used)
      BY <1>3, <1>4, <2>2 DEF Release, poll
    <2> QED BY <2>1, <2>2
  <1>5. CASE TimerFires
    BY <1>5 DEF TimerFires, Stopping
  <1>6. CASE IntComplete
    <2>1. urb /\ urb' = FALSE /\ UNCHANGED <<child, release, refired>>
      BY <1>6 DEF IntComplete, Reports, NoReport
    <2> QED BY <2>1 DEF Stopping
  <1>7. CASE Disconnect
    BY <1>7 DEF Disconnect, DeleteTimer, FreeHub, Stopping
  <1>8. CASE release = "no" /\ Works
    <2>1. release' = "no" \/ \E p \in {0, thread.port} : Release(p)
      BY <1>8 DEF Works, Receive, Stop, Ends, ReadStatus, Acknowledge, Debounce, Unchange, DebounceFails,
                  ResetPort, ReadEnable, Enumerate, HubConnect, Idles, poll
    <2> QED BY <1>3, <1>4, <1>8, <2>1
  <1>9. CASE User \/ Deinitialize \/ UNCHANGED vars
    BY <1>2, <1>9 DEF User, Replug, Deinitialize, vars
  <1> QED BY <1>5, <1>6, <1>7, <1>8, <1>9 DEF Next, Thread

\* A hub that goes takes the thread's work with it, since only the thread
\* releases it, and then works for the root hub; and its timer and transfer,
\* unless the timer fires in the meantime.
LEMMA OwnHubStep ==
    ASSUME TypeOK, OwnPorts, OwnHub, Stopping, Vacant, [Next]_vars
    PROVE  OwnHub'
  <1>1. /\ ThreadTyped /\ QueueTyped /\ thread.hub \in Hubs /\ 0 \in Ports
        /\ child \in [Ports -> Attached] /\ release \in {"no", "killed", "deleted"}
        /\ used \in BOOLEAN /\ timer \in BOOLEAN /\ urb \in BOOLEAN /\ refired \in BOOLEAN
    BY PortFacts DEF TypeOK, ThreadTyped, QueueTyped, Hubs, Attached
  <1> DEFINE InUse    == used <=> (child[0] = "hub" \/ release # "no")
             Outlived == ~used /\ (timer \/ urb) => refired
             Employed == thread.hub = "ext" /\ thread.step \notin {"idle", "exit"} => used /\ release = "no"
  <1>2. InUse /\ Outlived /\ Employed
    BY DEF OwnHub
  <1>3. (InUse /\ Outlived /\ Employed)' => OwnHub'
    BY DEF OwnHub
  <1>4. ASSUME NEW p \in Ports, Release(p), release = "no"
        PROVE  InUse' /\ Outlived' /\ (p # 0 => UNCHANGED <<used, release>>)
    <2>1. child' = [q \in Ports |-> IF p \in {0, q} THEN None ELSE child[q]]
      BY <1>4 DEF Release
    <2>2. CASE p = 0 /\ used
      <3>1. urb' = FALSE /\ release' = "killed" /\ refired' = FALSE /\ used' = used
        BY <1>4, <2>2 DEF Release
      <3> QED BY <2>2, <3>1
    <2>3. CASE p = 0 /\ ~used
      <3>1. UNCHANGED <<used, timer, urb, release, refired>> /\ child'[0] = None
        BY <1>1, <1>4, <2>1, <2>3 DEF Release, poll
      <3> QED BY <1>2, <1>4, <2>3, <3>1 DEF None
    <2>4. CASE p # 0
      <3>1. UNCHANGED <<used, timer, urb, release, refired>> /\ child'[0] = child[0]
        BY <1>1, <1>4, <2>1, <2>4 DEF Release, poll
      <3> QED BY <1>2, <3>1
    <2> QED BY <1>1, <2>2, <2>3, <2>4
  <1>5. ASSUME AtPort, Release(thread.port), thread'.hub = thread.hub, release = "no"
        PROVE  OwnHub'
    <2>1. thread.port \in Ports /\ (thread.port = 0 <=> thread.hub = "root") /\ thread.step \notin {"idle", "exit"}
      BY <1>5, PortInHand DEF AtPort
    <2>2. InUse' /\ Outlived' /\ (thread.port # 0 => UNCHANGED <<used, release>>)
      BY <1>4, <1>5, <2>1
    <2>3. Employed'
      BY <1>2, <1>5, <2>1, <2>2
    <2> QED BY <1>3, <2>2, <2>3
  <1>6. ASSUME UNCHANGED <<child, poll>>, thread'.hub = thread.hub,
               thread.step \in {"idle", "exit"} => thread'.step \in {"idle", "exit"}
        PROVE  OwnHub'
    BY <1>6 DEF OwnHub, poll
  <1>7. \A s : Goto(s) => thread'.hub = thread.hub /\ thread'.step = s
    BY <1>1 DEF Goto, ThreadTyped
  <1>8. CASE User
    BY <1>6, <1>8 DEF User, Replug, OwnHub
  <1>9. CASE TimerFires
    BY <1>9 DEF TimerFires, OwnHub
  <1>10. CASE IntComplete
    <2>1. urb /\ UNCHANGED <<child, used, release, refired, thread>>
      BY <1>10 DEF IntComplete, Reports, NoReport
    <2> QED BY <2>1 DEF OwnHub
  <1>11. CASE Disconnect
    <2>1. CASE DeleteTimer
      BY <1>11, <2>1 DEF Disconnect, DeleteTimer, OwnHub
    <2>2. CASE FreeHub
      <3>1. release = "deleted" /\ release' = "no" /\ used' = FALSE
            /\ UNCHANGED <<child, timer, urb, refired, thread>>
        BY <1>11, <2>2 DEF Disconnect, FreeHub
      <3>2. child[0] # "hub"
        BY <3>1 DEF Stopping
      <3> QED BY <3>1, <3>2 DEF OwnHub, Stopping
    <2> QED BY <1>11, <2>1, <2>2 DEF Disconnect
  <1>12. CASE Receive /\ release = "no"
    <2>1. Head(mq) \in Hubs
      BY <1>1, <1>12 DEF Receive, QueueTyped
    <2>2. UNCHANGED <<child, used, timer, urb, release, refired>>
      BY <1>12 DEF Receive, Idles, poll
    <2>3. CASE Ignored(Head(mq))
      BY <1>12, <2>2, <2>3 DEF Receive, OwnHub
    <2>4. CASE ~Ignored(Head(mq))
      <3>1. thread'.hub = Head(mq)
        BY <1>12, <2>4 DEF Receive
      <3> QED BY <1>12, <2>2, <2>4, <3>1 DEF Ignored, OwnHub
    <2> QED BY <2>3, <2>4
  <1>13. CASE Stop /\ release = "no"
    <2>1. Release(0) /\ thread'.step = "exit"
      BY <1>7, <1>13 DEF Stop
    <2>2. InUse' /\ Outlived'
      BY <1>1, <1>4, <1>13, <2>1
    <2> QED BY <1>3, <2>1, <2>2
  <1>14. CASE Ends
    <2>1. thread.step = "ports" /\ thread'.step = "idle" /\ timer' = (timer \/ thread.hub = "ext")
          /\ UNCHANGED <<child, used, urb, release, refired>>
      BY <1>7, <1>14 DEF Ends
    <2> QED BY <2>1 DEF OwnHub
  <1>15. CASE ReadStatus
    <2>1. thread'.hub = thread.hub /\ thread.step = "ports"
      BY <1>1, <1>15 DEF ReadStatus, ThreadTyped
    <2> QED BY <1>6, <1>15, <2>1 DEF ReadStatus, Idles
  <1>16. CASE Acknowledge \/ Unchange \/ ResetPort
    <2>1. AtPort /\ thread'.hub = thread.hub /\ UNCHANGED <<child, poll>>
      BY <1>7, <1>16 DEF Acknowledge, Unchange, ResetPort, AtPort
    <2> QED BY <1>6, <2>1 DEF AtPort
  <1>17. CASE DebounceFails
    <2>1. thread'.hub = thread.hub /\ thread.step = "debounce"
      BY <1>1, <1>17 DEF DebounceFails, ThreadTyped
    <2> QED BY <1>6, <1>17, <2>1 DEF DebounceFails, Idles
  <1>18. CASE release = "no" /\ (Debounce \/ ReadEnable)
    <2>1. AtPort /\ thread'.hub = thread.hub /\ (Release(thread.port) \/ UNCHANGED <<child, poll>>)
      BY <1>7, <1>18 DEF Debounce, ReadEnable, AtPort
    <2> QED BY <1>5, <1>6, <1>18, <2>1 DEF AtPort
  <1>19. CASE Enumerate /\ release = "no"
    <2>1. AtPort /\ thread'.hub = thread.hub /\ thread.step = "enumerate" /\ UNCHANGED device
      BY <1>7, <1>19 DEF Enumerate, AtPort, Working
    <2>2. CASE Release(thread.port)
      BY <1>5, <1>19, <2>1, <2>2
    <2>3. CASE child' = [q \in Ports |-> IF q = thread.port THEN device[thread.port]
                                         ELSE IF thread.port = 0 THEN None ELSE child[q]]
               /\ IF thread.port = 0 THEN HubConnect ELSE UNCHANGED poll
      <3>1. CASE thread.port = 0
        <4>1. child'[0] = device[0] /\ thread.hub = "root" /\ HubConnect
          BY <1>1, <2>1, <2>3, <3>1, PortInHand
        <4>2. CASE device[0] = "hub"
          <5>1. used' = TRUE /\ UNCHANGED release
            BY <4>1, <4>2 DEF HubConnect
          <5> QED BY <2>1, <4>1, <4>2, <5>1 DEF OwnHub
        <4>3. CASE device[0] # "hub"
          <5>1. UNCHANGED <<used, timer, urb, release, refired>>
            BY <4>1, <4>3 DEF HubConnect, poll
          <5>2. child[0] # "hub"
            BY <2>1, <3>1 DEF Vacant, None
          <5>3. ~used
            BY <1>2, <1>19, <5>2
          <5>4. InUse'
            BY <1>19, <4>1, <4>3, <5>1, <5>3
          <5>5. Outlived' /\ Employed'
            BY <1>2, <2>1, <4>1, <5>1
          <5> QED BY <1>3, <5>4, <5>5
        <4> QED BY <4>2, <4>3
      <3>2. CASE thread.port # 0
        <4>1. child'[0] = child[0] /\ UNCHANGED <<used, timer, urb, release, refired>>
          BY <1>1, <2>3, <3>2 DEF poll
        <4> QED BY <2>1, <4>1 DEF OwnHub
      <3> QED BY <3>1, <3>2
    <2> QED BY <1>19, <2>2, <2>3 DEF Enumerate
  <1>20. CASE Deinitialize \/ UNCHANGED vars
    BY <1>6, <1>20 DEF Deinitialize, vars
  <1> QED BY <1>8, <1>9, <1>10, <1>11, <1>12, <1>13, <1>14, <1>15, <1>16, <1>17, <1>18, <1>19, <1>20
          DEF Next, Thread, Works

(* The structure of a hub is in use exactly as long as the driver has the  *)
(* hub on its port or is releasing it, and the thread works for none that  *)
(* was released; a transfer or a timer outlives the structure only if the  *)
(* timer fired during the release.  For every number of ports, however     *)
(* often hubs are unplugged with messages of theirs in the queue.          *)
THEOREM HubIsOwn == Spec => []OwnHub
  <1> DEFINE I == TypeOK /\ OwnPorts /\ OwnHub /\ Stopping /\ Vacant
  <1>1. Init => I
    BY TypeInit, OwnPortsInit, OwnHubInit
  <1>2. I /\ [Next]_vars => I'
    BY TypeStep, OwnPortsStep, OwnHubStep, StoppingStep, VacantStep
  <1> QED BY <1>1, <1>2, PTL DEF Spec

-----------------------------------------------------------------------------
(* No change is lost. *)

\* Without a hub on port 0 there is nothing on the ports of one: neither what a
\* user has plugged in, nor what the driver has enumerated.
Tree ==
    /\ child[0] # "hub" => \A q \in Ports \ {0} : child[q] = None
    /\ device[0] # "hub" => \A q \in Ports \ {0} : device[q] = None

\* A device that is plugged in while the thread resets its port or enumerates it
\* does not pass for the one that was there: it reports a change.
Fresh ==
    thread.step \in {"enable", "enumerate"} =>
        /\ level[thread.port] # 2
        /\ device[thread.port] # None /\ level[thread.port] = 0 /\ Answers(thread.hub)
             => change[thread.port]

Released(p) == child' = [q \in Ports |-> IF p \in {0, q} THEN None ELSE child[q]]

\* What Enumerate does to the children if it succeeds.
Found(p) == child' = [q \in Ports |-> IF q = p THEN device[p] ELSE IF p = 0 THEN None ELSE child[q]]

LEMMA Values ==
    ASSUME TypeOK
    PROVE  /\ device \in [Ports -> Attached] /\ level \in [Ports -> 0 .. 2]
           /\ change \in [Ports -> BOOLEAN] /\ child \in [Ports -> Attached]
           /\ thread \in [step : Steps, hub : Hubs, port : Ports, left : SUBSET Ports]
           /\ thread.port \in Ports /\ thread.hub \in Hubs /\ 0 \in Ports
  BY PortFacts DEF TypeOK, Attached

LEMMA GotoValues ==
    ASSUME TypeOK, NEW s, Goto(s)
    PROVE  thread'.step = s /\ thread'.hub = thread.hub /\ thread'.port = thread.port
  BY Values DEF Goto

LEMMA TreeInit == Init => Tree /\ Fresh /\ NothingStale
  <1> SUFFICES ASSUME Init PROVE Tree /\ Fresh /\ NothingStale
    OBVIOUS
  <1>1. \A p \in Ports : device[p] = None /\ child[p] = None
    BY DEF Init
  <1>2. thread.step = "idle"
    BY DEF Init
  <1> QED BY <1>1, <1>2 DEF Tree, Fresh, NothingStale, Tracked

LEMMA TreeStep ==
    ASSUME TypeOK, OwnPorts, OwnHub, Tree, [Next]_vars
    PROVE  Tree'
  <1>1. CASE UNCHANGED <<device, child>>
    BY <1>1 DEF Tree
  <1>2. ASSUME NEW p \in Ports, Released(p), UNCHANGED device PROVE Tree'
    <2>1. CASE p = 0
      BY <1>2, <2>1, Values DEF Released, Tree
    <2>2. CASE p # 0
      BY <1>2, <2>2, Values DEF Released, Tree
    <2> QED BY <2>1, <2>2
  <1>3. CASE User
    <2>1. PICK p \in Ports, d \in {None, "function", "hub"} : Replug(p, d)
      BY <1>3 DEF User
    <2>2. CASE p = 0
      <3>1. device' = [q \in Ports |-> IF q = 0 THEN d ELSE None] /\ child' = child
        BY <2>1, <2>2 DEF Replug
      <3> QED BY <3>1 DEF Tree
    <2>3. CASE p # 0
      <3>1. device[0] = "hub" /\ device' = [device EXCEPT ![p] = d] /\ child' = child
        BY <2>1, <2>3 DEF Replug
      <3> QED BY <2>3, <3>1, Values DEF Tree
    <2> QED BY <2>2, <2>3
  <1>4. CASE Enumerate
    <2>1. Found(thread.port) \/ Released(thread.port)
      BY <1>4 DEF Enumerate, Release, Found, Released
    <2>2. UNCHANGED device /\ AtPort /\ thread.step = "enumerate"
      BY <1>4 DEF Enumerate, Working, AtPort
    <2>3. CASE Found(thread.port) /\ thread.port = 0
      <3>1. \A q \in Ports \ {0} : child'[q] = None
        BY <2>3 DEF Found
      <3> QED BY <2>2, <3>1 DEF Tree
    <2>4. CASE Found(thread.port) /\ thread.port # 0
      <3>1. thread.hub = "ext"
        BY <2>2, <2>4, PortInHand DEF Hubs
      <3>2. child[0] = "hub"
        BY <2>2, <3>1 DEF OwnHub
      <3>3. child'[0] = child[0]
        BY <2>4, Values DEF Found
      <3> QED BY <2>2, <3>2, <3>3 DEF Tree
    <2> QED BY <1>2, <2>1, <2>2, <2>3, <2>4, Values
  <1>5. CASE Stop
    BY <1>2, <1>5, Values DEF Stop, Working, Release, Released
  <1>6. CASE Debounce \/ ReadEnable
    <2>1. UNCHANGED device /\ (UNCHANGED child \/ Released(thread.port))
      BY <1>6 DEF Debounce, ReadEnable, Working, Release, Released
    <2> QED BY <1>1, <1>2, <2>1, Values
  <1>7. CASE \/ TimerFires \/ IntComplete \/ Receive \/ Ends \/ ReadStatus \/ Acknowledge \/ Unchange
             \/ DebounceFails \/ ResetPort \/ Disconnect \/ Deinitialize \/ UNCHANGED vars
    BY <1>1, <1>7 DEF TimerFires, IntComplete, Receive, Ends, ReadStatus, Acknowledge, Unchange,
                      DebounceFails, ResetPort, Disconnect, Deinitialize, vars, Working, Idles, ports
  <1> QED BY <1>3, <1>4, <1>5, <1>6, <1>7 DEF Next, Thread, Works

LEMMA FreshStep ==
    ASSUME TypeOK, OwnPorts, Fresh, [Next]_vars
    PROVE  Fresh'
  <1>1. CASE thread'.step \notin {"enable", "enumerate"}
    BY <1>1 DEF Fresh
  <1>2. CASE UNCHANGED <<ports, thread>>
    BY <1>2 DEF Fresh, ports, Answers
  <1>3. CASE User
    <2>1. PICK p \in Ports, d \in {None, "function", "hub"} : Replug(p, d)
      BY <1>3 DEF User
    <2>2. thread' = thread
      BY <2>1 DEF Replug
    <2>3. CASE p = 0
      <3>1. /\ device' = [q \in Ports |-> IF q = 0 THEN d ELSE None]
            /\ level' = [q \in Ports |-> 0] /\ change' = [q \in Ports |-> q = 0]
        BY <2>1, <2>3 DEF Replug
      <3>2. /\ level'[thread.port] = 0
            /\ thread.port = 0 => change'[thread.port] = TRUE
            /\ thread.port # 0 => device'[thread.port] = None
        BY <3>1, Values
      <3> QED BY <2>2, <3>2 DEF Fresh
    <2>4. CASE p # 0
      <3>1. /\ device' = [device EXCEPT ![p] = d] /\ level' = [level EXCEPT ![p] = 0]
            /\ change' = [change EXCEPT ![p] = Answers("ext")]
        BY <2>1, <2>4 DEF Replug
      <3>2. device'[0] = device[0] /\ level'[0] = level[0] /\ (\A h : Answers(h)' <=> Answers(h))
        BY <2>4, <3>1, Values DEF Answers
      <3>3. CASE thread.port = p /\ AtPort
        <4>1. thread.hub = "ext"
          BY <2>4, <3>3, PortInHand DEF Hubs
        <4> QED BY <2>2, <3>1, <3>2, <3>3, <4>1, Values DEF Fresh
      <3>4. CASE thread.port # p
        BY <2>2, <3>1, <3>2, <3>4, Values DEF Fresh
      <3> QED BY <1>1, <2>2, <3>3, <3>4 DEF AtPort
    <2> QED BY <2>3, <2>4
  <1>4. CASE ResetPort
    <2>1. CASE Goto("ports")
      BY <1>1, <2>1, GotoValues
    <2>2. CASE Goto("enable") /\ level' = [level EXCEPT ![thread.port] = IF Connected THEN 1 ELSE 0]
      <3>1. thread'.port = thread.port /\ UNCHANGED device
        BY <1>4, <2>2, GotoValues DEF ResetPort, Working
      <3>2. level'[thread.port] = IF Connected THEN 1 ELSE 0
        BY <2>2, Values
      <3> QED BY <3>1, <3>2 DEF Fresh, Connected
    <2> QED BY <1>4, <2>1, <2>2 DEF ResetPort
  <1>5. CASE ReadEnable
    <2>1. CASE Goto("ports")
      BY <1>1, <2>1, GotoValues
    <2>2. CASE Goto("enumerate")
      <3>1. thread'.port = thread.port /\ thread'.hub = thread.hub /\ UNCHANGED ports
        BY <1>5, <2>2, GotoValues DEF ReadEnable, Working, ports
      <3>2. thread.step = "enable"
        BY <1>5 DEF ReadEnable
      <3> QED BY <3>1, <3>2 DEF Fresh, ports, Answers
    <2> QED BY <1>5, <2>1, <2>2 DEF ReadEnable
  <1>6. CASE Debounce
    <2>1. thread' = thread \/ \E s \in {"reset", "ports", "again", "debounce"} : Goto(s)
      BY <1>6 DEF Debounce
    <2>2. thread.step = "debounce"
      BY <1>6 DEF Debounce
    <2> QED BY <1>1, <2>1, <2>2, GotoValues
  <1>7. CASE Acknowledge \/ Unchange
    <2>1. thread.step \in {"clear", "again"} /\ (thread' = thread \/ Goto("debounce"))
      BY <1>7 DEF Acknowledge, Unchange
    <2> QED BY <1>1, <2>1, GotoValues
  <1>8. CASE Receive
    <2>1. thread.step = "idle"
          /\ thread' \in {thread, [step |-> "ports", hub |-> Head(mq), port |-> 0, left |-> intbuf[Head(mq)]]}
      BY <1>8 DEF Receive
    <2> QED BY <1>1, <2>1
  <1>9. CASE ReadStatus
    <2>1. PICK p \in thread.left :
            thread' \in {[thread EXCEPT !.left = @ \ {p}, !.port = p, !.step = "clear"],
                         [thread EXCEPT !.left = @ \ {p}, !.port = p, !.step = "ports"],
                         [thread EXCEPT !.left = @ \ {p}]}
      BY <1>9 DEF ReadStatus
    <2>2. thread.step = "ports"
      BY <1>9 DEF ReadStatus
    <2>3. thread'.step \in {"clear", "ports"}
      BY <2>1, <2>2, Values
    <2> QED BY <1>1, <2>3
  <1>10. CASE DebounceFails
    <2>1. thread'.step = "ports"
      BY <1>10, Values DEF DebounceFails
    <2> QED BY <1>1, <2>1
  <1>11. CASE Ends \/ Stop \/ Enumerate
    <2>1. \E s \in {"idle", "exit", "ports"} : Goto(s)
      BY <1>11 DEF Ends, Stop, Enumerate
    <2> QED BY <1>1, <2>1, GotoValues
  <1>12. CASE TimerFires \/ IntComplete \/ Disconnect \/ Deinitialize \/ UNCHANGED vars
    BY <1>2, <1>12 DEF TimerFires, IntComplete, Disconnect, Deinitialize, vars
  <1> QED BY <1>3, <1>4, <1>5, <1>6, <1>7, <1>8, <1>9, <1>10, <1>11, <1>12 DEF Next, Thread, Works

\* A port about which nothing is lost.
Settled(p) ==
    \/ Tracked(p) \/ change[p] \/ InHand(p) \/ p \in gaveUp
    \/ p # 0 /\ ~Tracked(0)

\* Steps that touch no port: the thread looks elsewhere only if it is done.
LEMMA Quiet ==
    ASSUME NothingStale, thread.step # "exit", thread'.step # "exit",
           UNCHANGED <<device, level, change, child>>, gaveUp \subseteq gaveUp',
           \A p \in Ports : InHand(p) => InHand(p)' \/ p \in gaveUp'
    PROVE  NothingStale'
  BY DEF NothingStale, Tracked

\* Steps that touch one port.
LEMMA OnePort ==
    ASSUME NothingStale, thread.step # "exit", thread'.step # "exit", NEW p \in Ports,
           \A q \in Ports \ {p} : /\ device'[q] = device[q] /\ level'[q] = level[q]
                                  /\ child'[q] = child[q] /\ change'[q] = change[q]
                                  /\ InHand(q) => InHand(q)'
                                  /\ q \in gaveUp => q \in gaveUp',
           p = 0 /\ ~Tracked(0) => ~Tracked(0)',
           Settled(p)', 0 \in Ports
    PROVE  NothingStale'
  <1>1. ~Tracked(0) => ~Tracked(0)'
    BY DEF Tracked
  <1>2. ASSUME NEW q \in Ports, q # p PROVE Settled(q)'
    BY <1>1, <1>2 DEF NothingStale, Settled, Tracked
  <1> QED BY <1>2 DEF NothingStale, Settled

\* What is released with a hub hangs on a port that is not tracked any more.
LEMMA ReleasedPorts ==
    ASSUME TypeOK, OwnPorts, Tree, NothingStale, AtPort, NEW p \in Ports, p = thread.port,
           Released(p), UNCHANGED <<device, level, change>>, gaveUp \subseteq gaveUp',
           thread'.step # "exit", Settled(p)'
    PROVE  NothingStale'
  <1>1. 0 \in Ports /\ thread.step # "exit"
    BY Values DEF AtPort
  <1>2. child'[p] = None
    BY DEF Released
  <1>3. CASE p = 0
    <2>1. \A q \in Ports \ {0} : child'[q] = None
      BY <1>3 DEF Released
    <2>2. CASE device[0] = "hub"
      <3>1. ~Tracked(0)'
        BY <1>2, <1>3, <2>2 DEF Tracked, None
      <3>2. \A q \in Ports : Settled(q)'
        BY <1>3, <3>1 DEF Settled
      <3> QED BY <1>1, <3>2 DEF NothingStale, Settled
    <2>3. CASE device[0] # "hub"
      <3>1. \A q \in Ports \ {0} : Tracked(q)'
        BY <2>1, <2>3 DEF Tree, Tracked
      <3>2. \A q \in Ports : Settled(q)'
        BY <1>3, <3>1 DEF Settled
      <3> QED BY <1>1, <3>2 DEF NothingStale, Settled
    <2> QED BY <2>2, <2>3
  <1>4. CASE p # 0
    <2>1. \A q \in Ports \ {p} : /\ device'[q] = device[q] /\ level'[q] = level[q]
                                 /\ child'[q] = child[q] /\ change'[q] = change[q]
                                 /\ InHand(q) => InHand(q)'
                                 /\ q \in gaveUp => q \in gaveUp'
      <3>1. \A q \in Ports \ {p} : child'[q] = child[q] /\ ~InHand(q)
        BY <1>4, Values DEF Released, InHand
      <3> QED BY <3>1
    <2> QED BY <1>1, <1>4, <2>1, OnePort
  <1> QED BY <1>3, <1>4

\* What was released needs a change, an excuse, or nothing plugged in.
LEMMA ReleasePort ==
    ASSUME TypeOK, OwnPorts, Tree, NothingStale, AtPort, Released(thread.port),
           UNCHANGED <<device, level, change>>, gaveUp \subseteq gaveUp', Goto("ports"),
           \/ device[thread.port] = None \/ change[thread.port] \/ thread.port \in gaveUp'
           \/ thread.port # 0 /\ ~Tracked(0)
    PROVE  NothingStale'
  <1>0. PICK p \in Ports : p = thread.port
    BY Values
  <1>1. 0 \in Ports /\ thread'.step = "ports"
    BY Values, GotoValues
  <1>2. child'[p] = None
    BY <1>0 DEF Released
  <1>3. p # 0 => child'[0] = child[0]
    BY <1>0, <1>1, Values DEF Released
  <1>4. Settled(p)'
    <2>1. device[p] = None => Settled(p)'
      BY <1>2 DEF Settled, Tracked
    <2>2. p # 0 /\ ~Tracked(0) => Settled(p)'
      BY <1>3 DEF Settled, Tracked
    <2>3. change[p] \/ p \in gaveUp' => Settled(p)'
      BY DEF Settled
    <2> QED BY <1>0, <2>1, <2>2, <2>3
  <1> QED BY <1>0, <1>1, <1>4, ReleasedPorts

LEMMA StaleUser ==
    ASSUME TypeOK, Tree, NothingStale, User
    PROVE  NothingStale'
  <1>1. PICK p \in Ports, d \in {None, "function", "hub"} : Replug(p, d)
    BY DEF User
  <1>2. UNCHANGED <<child, thread, gaveUp>> /\ thread.step # "exit"
    BY <1>1 DEF Replug
  <1>3. CASE p = 0
    <2>1. /\ device' = [q \in Ports |-> IF q = 0 THEN d ELSE None]
          /\ level' = [q \in Ports |-> 0] /\ change' = [q \in Ports |-> q = 0]
      BY <1>1, <1>3 DEF Replug
    <2>2. change'[0] /\ level'[0] = 0 /\ device'[0] = d /\ \A q \in Ports \ {0} : device'[q] = None
      BY <2>1, Values
    <2>3. ASSUME NEW q \in Ports, q # 0, child[q] # None PROVE ~Tracked(0)'
      <3>1. child[0] = "hub"
        BY <2>3 DEF Tree
      <3> QED BY <1>2, <2>2, <3>1 DEF Tracked, None
    <2>4. ASSUME NEW q \in Ports PROVE Settled(q)'
      <3>1. CASE q = 0
        BY <2>2, <3>1 DEF Settled
      <3>2. CASE q # 0 /\ child[q] = None
        BY <1>2, <2>2, <3>2 DEF Settled, Tracked
      <3>3. CASE q # 0 /\ child[q] # None
        BY <2>3, <3>3 DEF Settled
      <3> QED BY <3>1, <3>2, <3>3
    <2> QED BY <1>2, <2>4 DEF NothingStale, Settled
  <1>4. CASE p # 0
    <2>1. /\ device[0] = "hub"
          /\ device' = [device EXCEPT ![p] = d] /\ level' = [level EXCEPT ![p] = 0]
          /\ change' = [change EXCEPT ![p] = Answers("ext")]
      BY <1>1, <1>4 DEF Replug
    <2>2. \A q \in Ports \ {p} : device'[q] = device[q] /\ level'[q] = level[q] /\ change'[q] = change[q]
      BY <2>1, Values
    <2>3. change'[p] = Answers("ext")
      BY <2>1, Values
    <2>4. CASE Answers("ext")
      <3>1. Settled(p)'
        BY <2>3, <2>4 DEF Settled
      <3> QED BY <1>2, <1>4, <2>2, <3>1, Values, OnePort DEF InHand
    <2>5. CASE ~Answers("ext")
      <3>1. ~Tracked(0)'
        BY <1>4, <2>1, <2>2, <2>5, Values DEF Tracked, Answers, None
      <3>2. Settled(p)'
        BY <1>4, <3>1 DEF Settled
      <3> QED BY <1>2, <1>4, <2>2, <3>2, Values, OnePort DEF InHand
    <2> QED BY <2>4, <2>5
  <1> QED BY <1>3, <1>4

LEMMA StaleAcknowledge ==
    ASSUME TypeOK, OwnPorts, NothingStale, Acknowledge \/ Unchange
    PROVE  NothingStale'
  <1> DEFINE p == thread.port
  <1>1. AtPort /\ p \in Ports /\ 0 \in Ports /\ HubOf(p) = thread.hub
    BY PortInHand, Values DEF Acknowledge, Unchange, AtPort
  <1>2. UNCHANGED <<device, level, child>> /\ thread.step \in {"clear", "again"}
    BY DEF Acknowledge, Unchange, Working
  <1>3. CASE thread' = thread /\ change' = change /\ gaveUp' = gaveUp
    BY <1>2, <1>3, Quiet DEF InHand
  <1>4. CASE /\ Goto("debounce") /\ change' \in {change, [change EXCEPT ![p] = FALSE]}
             /\ gaveUp' \in {gaveUp, gaveUp \ {p}}
    <2>1. thread'.step = "debounce" /\ thread'.hub = thread.hub /\ thread'.port = thread.port
      BY <1>4, GotoValues
    <2>2. InHand(p)'
      BY <1>1, <2>1 DEF InHand
    <2>3. \A q \in Ports \ {p} : change'[q] = change[q] /\ ~InHand(q) /\ (q \in gaveUp => q \in gaveUp')
      BY <1>4, Values DEF InHand
    <2>4. Settled(p)'
      BY <2>1, <2>2 DEF Settled
    <2>5. ~Tracked(0) => ~Tracked(0)'
      BY <1>2 DEF Tracked
    <2>6. \A q \in Ports \ {p} : /\ device'[q] = device[q] /\ level'[q] = level[q]
                                 /\ child'[q] = child[q] /\ change'[q] = change[q]
                                 /\ InHand(q) => InHand(q)'
                                 /\ q \in gaveUp => q \in gaveUp'
      BY <1>2, <2>3
    <2> QED BY <1>1, <1>2, <2>1, <2>4, <2>5, <2>6, OnePort
  <1> QED BY <1>3, <1>4 DEF Acknowledge, Unchange

\* A port is at rest only with its change acknowledged and the device there, or
\* away, that was seen: a release then leaves nothing behind.
LEMMA StaleDebounce ==
    ASSUME TypeOK, OwnPorts, Tree, NothingStale, Debounce
    PROVE  NothingStale'
  <1>1. AtPort /\ thread.step = "debounce" /\ UNCHANGED <<device, level, change, gaveUp>>
    BY DEF Debounce, AtPort, Working
  <1>2. CASE thread' = thread /\ UNCHANGED child
    BY <1>1, <1>2, Quiet DEF InHand
  <1>3. CASE UNCHANGED child /\ \E s \in {"reset", "again", "debounce"} : Goto(s)
    <2>1. thread'.step \in {"reset", "again", "debounce"} /\ thread'.hub = thread.hub /\ thread'.port = thread.port
      BY <1>3, GotoValues
    <2> QED BY <1>1, <1>3, <2>1, Quiet DEF InHand
  <1>4. CASE ~Connected /\ Goto("ports") /\ Release(thread.port)
    <2>1. device[thread.port] = None /\ Released(thread.port)
      BY <1>4 DEF Connected, Release, Released
    <2> QED BY <1>1, <1>4, <2>1, ReleasePort
  <1> QED BY <1>2, <1>3, <1>4 DEF Debounce

LEMMA StaleReset ==
    ASSUME TypeOK, OwnPorts, NothingStale, ResetPort
    PROVE  NothingStale'
  <1> DEFINE p == thread.port
  <1>1. AtPort /\ thread.step = "reset" /\ p \in Ports /\ 0 \in Ports /\ HubOf(p) = thread.hub
        /\ UNCHANGED <<device, change, child>>
    BY PortInHand, Values DEF ResetPort, AtPort, Working
  <1>2. CASE Goto("ports") /\ GiveUp /\ UNCHANGED level
    <2>1. thread'.step = "ports" /\ gaveUp' = gaveUp \cup {p}
      BY <1>2, GotoValues DEF GiveUp
    <2> QED BY <1>1, <1>2, <2>1, Quiet DEF InHand
  <1>3. CASE /\ Goto("enable") /\ UNCHANGED gaveUp
             /\ level' = [level EXCEPT ![p] = IF Connected THEN 1 ELSE 0]
    <2>1. thread'.step = "enable" /\ thread'.hub = thread.hub /\ thread'.port = thread.port
      BY <1>3, GotoValues
    <2>2. level'[p] = IF Connected THEN 1 ELSE 0
      BY <1>3, Values
    <2>3. \A q \in Ports \ {p} : level'[q] = level[q] /\ ~InHand(q)
      BY <1>3, Values DEF InHand
    <2>4. Settled(p)'
      BY <1>1, <2>1 DEF Settled, InHand
    <2>5. p = 0 /\ ~Tracked(0) => ~Tracked(0)'
      BY <1>1, <2>2 DEF Tracked, Connected
    <2>6. \A q \in Ports \ {p} : /\ device'[q] = device[q] /\ level'[q] = level[q]
                                 /\ child'[q] = child[q] /\ change'[q] = change[q]
                                 /\ InHand(q) => InHand(q)'
                                 /\ q \in gaveUp => q \in gaveUp'
      BY <1>1, <1>3, <2>3
    <2> QED BY <1>1, <2>1, <2>4, <2>5, <2>6, OnePort
  <1> QED BY <1>2, <1>3 DEF ResetPort

LEMMA StaleEnable ==
    ASSUME TypeOK, OwnPorts, Tree, Fresh, NothingStale, ReadEnable
    PROVE  NothingStale'
  <1>1. AtPort /\ thread.step = "enable" /\ UNCHANGED <<device, level, change>>
    BY DEF ReadEnable, AtPort, Working
  <1>2. CASE Succeeds /\ level[thread.port] > 0 /\ Goto("enumerate") /\ Release(thread.port) /\ UNCHANGED gaveUp
    <2>1. PICK p \in Ports : p = thread.port /\ HubOf(p) = thread.hub
      BY <1>1, Values, PortInHand
    <2>2. thread'.step = "enumerate" /\ thread'.hub = thread.hub /\ thread'.port = p
      BY <1>2, <2>1, GotoValues
    <2>3. Settled(p)'
      BY <2>1, <2>2 DEF Settled, InHand
    <2>4. Released(p)
      BY <1>2, <2>1 DEF Release, Released
    <2>5. thread'.step # "exit" /\ gaveUp \subseteq gaveUp'
      BY <1>2, <2>2
    <2> QED BY <1>1, <2>1, <2>3, <2>4, <2>5, ReleasedPorts
  <1>3. CASE Succeeds /\ level[thread.port] = 0 /\ Goto("ports") /\ Release(thread.port) /\ UNCHANGED gaveUp
    <2>1. device[thread.port] = None \/ change[thread.port]
      BY <1>1, <1>3 DEF Fresh, Succeeds
    <2>2. Released(thread.port)
      BY <1>3 DEF Release, Released
    <2> QED BY <1>1, <1>3, <2>1, <2>2, ReleasePort
  <1>4. CASE Goto("ports") /\ GiveUp /\ UNCHANGED child
    <2>1. thread'.step = "ports" /\ gaveUp' = gaveUp \cup {thread.port}
      BY <1>4, GotoValues DEF GiveUp
    <2> QED BY <1>1, <1>4, <2>1, Quiet DEF InHand
  <1>5. level[thread.port] > 0 \/ level[thread.port] = 0
    <2>1. level[thread.port] \in 0 .. 2
      BY Values
    <2> QED BY <2>1
  <1> QED BY <1>2, <1>3, <1>4, <1>5 DEF ReadEnable

\* A device whose enumeration fails is released; unless it is given up, it is
\* gone, or another is there that reports a change, or its hub is gone.
LEMMA StaleEnumerate ==
    ASSUME TypeOK, OwnPorts, Tree, Fresh, NothingStale, Enumerate
    PROVE  NothingStale'
  <1>0. PICK p \in Ports : p = thread.port
    BY Values
  <1>1. AtPort /\ thread.step = "enumerate" /\ 0 \in Ports
        /\ (p = 0 <=> thread.hub = "root") /\ thread.hub \in {"root", "ext"}
        /\ UNCHANGED device /\ Goto("ports")
    BY <1>0, PortInHand, Values DEF Enumerate, AtPort, Working, Hubs
  <1>2. thread'.step = "ports"
    BY <1>1, GotoValues
  <1>3. [change EXCEPT ![p] = Remaining(p)] = change
    BY Values DEF Remaining
  <1>4. CASE /\ Release(p) /\ UNCHANGED level /\ change' = [change EXCEPT ![p] = Remaining(p)]
             /\ gaveUp' = (IF level[p] = 1 THEN gaveUp \cup {p} ELSE gaveUp)
    <2>1. Released(p) /\ change' = change /\ gaveUp \subseteq gaveUp'
      BY <1>3, <1>4 DEF Release, Released
    <2>2. level[p] = 1 => p \in gaveUp'
      BY <1>4
    <2>3. level[p] = 0 /\ Answers(thread.hub) => device[p] = None \/ change[p]
      BY <1>0, <1>1 DEF Fresh
    <2>4. ~Answers(thread.hub) => device[p] = None \/ (p # 0 /\ ~Tracked(0))
      <3> SUFFICES ASSUME ~Answers(thread.hub), device[p] # None PROVE p # 0 /\ ~Tracked(0)
        OBVIOUS
      <3>1. p # 0 /\ ~(device[0] = "hub" /\ level[0] = 2)
        BY <1>1 DEF Answers
      <3>2. device[0] = "hub"
        BY <1>1, <3>1 DEF Tree
      <3> QED BY <3>1, <3>2 DEF Tracked, None
    <2>5. level[p] \in {0, 1}
      <3>1. level[p] \in 0 .. 2 /\ level[p] # 2
        BY <1>0, <1>1, Values DEF Fresh
      <3> QED BY <3>1
    <2> QED BY <1>0, <1>1, <1>4, <2>1, <2>2, <2>3, <2>4, <2>5, ReleasePort
  <1>5. CASE /\ level' = [level EXCEPT ![p] = 2] /\ Found(p)
             /\ IF p = 0 THEN HubConnect
                ELSE change' = [change EXCEPT ![p] = Remaining(p)] /\ UNCHANGED gaveUp
    <2>1. child'[p] = device[p] /\ level'[p] = 2
      BY <1>1, <1>5, Values DEF Found
    <2>2. Tracked(p)'
      BY <1>1, <2>1 DEF Tracked
    <2>3. CASE p = 0
      <3>1. \A q \in Ports \ {0} : child'[q] = None /\ change'[q] = (device[q] # None)
        BY <1>5, <2>3 DEF Found, HubConnect
      <3>2. \A q \in Ports \ {0} : Settled(q)'
        BY <1>1, <3>1 DEF Settled, Tracked
      <3>3. Settled(0)'
        BY <2>2, <2>3 DEF Settled
      <3> QED BY <1>2, <3>2, <3>3 DEF NothingStale, Settled
    <2>4. CASE p # 0
      <3>1. change' = change /\ gaveUp' = gaveUp
        BY <1>3, <1>5, <2>4
      <3>2. \A q \in Ports \ {p} : child'[q] = child[q] /\ level'[q] = level[q] /\ ~InHand(q)
        BY <1>0, <1>5, <2>4, Values DEF Found, InHand
      <3>3. Settled(p)'
        BY <2>2 DEF Settled
      <3>4. \A q \in Ports \ {p} : /\ device'[q] = device[q] /\ level'[q] = level[q]
                                   /\ child'[q] = child[q] /\ change'[q] = change[q]
                                   /\ InHand(q) => InHand(q)'
                                   /\ q \in gaveUp => q \in gaveUp'
        BY <1>1, <3>1, <3>2
      <3> QED BY <1>1, <1>2, <2>4, <3>3, <3>4, OnePort
    <2> QED BY <2>3, <2>4
  <1> QED BY <1>0, <1>4, <1>5 DEF Enumerate, Found

\* Messages, polls and the end of the driver.
LEMMA StaleOther ==
    ASSUME TypeOK, NothingStale,
           \/ TimerFires \/ IntComplete \/ Receive \/ Ends \/ ReadStatus \/ DebounceFails \/ Stop
           \/ Disconnect \/ Deinitialize \/ UNCHANGED vars
    PROVE  NothingStale'
  <1>1. CASE TimerFires \/ IntComplete \/ Disconnect \/ Deinitialize \/ UNCHANGED vars
    <2>1. UNCHANGED <<device, level, change, child, thread, gaveUp>>
      BY <1>1 DEF TimerFires, IntComplete, Disconnect, Deinitialize, vars, ports
    <2> QED BY <2>1 DEF NothingStale, Tracked, InHand
  <1>2. CASE Receive \/ Ends \/ ReadStatus
    <2>1. UNCHANGED <<device, level, change, child>> /\ thread.step \in {"idle", "ports"}
          /\ gaveUp \subseteq gaveUp'
      BY <1>2 DEF Receive, Ends, ReadStatus, Working, Idles
    <2>2. thread'.step # "exit"
      <3>1. CASE Receive
        BY <2>1, <3>1 DEF Receive
      <3>2. CASE Ends
        BY <3>2, GotoValues DEF Ends
      <3>3. CASE ReadStatus
        <4>1. PICK q \in thread.left :
                thread' \in {[thread EXCEPT !.left = @ \ {q}, !.port = q, !.step = "clear"],
                             [thread EXCEPT !.left = @ \ {q}, !.port = q, !.step = "ports"],
                             [thread EXCEPT !.left = @ \ {q}]}
          BY <3>3 DEF ReadStatus
        <4> QED BY <2>1, <4>1, Values
      <3> QED BY <1>2, <3>1, <3>2, <3>3
    <2> QED BY <2>1, <2>2, Quiet DEF InHand
  <1>3. CASE DebounceFails
    <2>1. UNCHANGED <<device, level, change, child>> /\ thread.step = "debounce"
          /\ gaveUp' = gaveUp \cup {thread.port}
      BY <1>3 DEF DebounceFails, Working, Idles, GiveUp
    <2>2. thread'.step = "ports"
      BY <1>3, Values DEF DebounceFails
    <2> QED BY <2>1, <2>2, Quiet DEF InHand
  <1>4. CASE Stop
    <2>1. child' = [q \in Ports |-> None] /\ Goto("exit")
      BY <1>4 DEF Stop, Release
    <2>2. thread'.step = "exit"
      BY <2>1, GotoValues
    <2> QED BY <2>1, <2>2 DEF NothingStale
  <1> QED BY <1>1, <1>2, <1>3, <1>4

(* Where the driver is wrong about a port, a change is still to be         *)
(* acknowledged or worked on, or the port was given up, whatever is plugged*)
(* in or out between two requests of the thread: no acknowledgement loses a*)
(* change, for every number of ports, of rounds and of faults.             *)
THEOREM NoChangeIsLost == Spec => []NothingStale
  <1> DEFINE I == TypeOK /\ OwnPorts /\ OwnHub /\ Stopping /\ Vacant /\ Tree /\ Fresh /\ NothingStale
  <1>1. Init => I
    BY TypeInit, OwnPortsInit, OwnHubInit, TreeInit
  <1>2. ASSUME I, [Next]_vars PROVE NothingStale'
    BY <1>2, StaleUser, StaleAcknowledge, StaleDebounce, StaleReset, StaleEnable, StaleEnumerate, StaleOther
    DEF Next, Thread, Works
  <1>3. I /\ [Next]_vars => I'
    BY <1>2, TypeStep, OwnPortsStep, OwnHubStep, StoppingStep, VacantStep, TreeStep, FreshStep
  <1> QED BY <1>1, <1>3, PTL DEF Spec

-----------------------------------------------------------------------------
(***************************************************************************)
(* The network link.                                                       *)
(***************************************************************************)
Units   == [type : {"head", "header", "data", "pad"}, no : Nat, k : Nat]
Frames  == (0 .. Numbers - 1) \X FrameLens
PadUnit == Unit("pad", 0, 0)

\* What is sent for a frame.
Whole(f) == Padded(Message(f[1], f[2]))

LEMMA LinkConstants ==
    /\ Mps \in Nat \ {0, 1} /\ HeaderLen \in Nat \ {0} /\ RxTotal \in Nat \ {0}
    /\ \A len \in FrameLens : len \in Nat \ {0} /\ HeaderLen + len < RxTotal
    /\ Numbers \in Nat \ {0, 1} /\ Dummy \in 1 .. HeaderLen
  BY MessagesAssumption, RndisAssumption, HostAssumption

(* Remainders.                                                             *)
LEMMA Quotient ==
    ASSUME NEW m \in Nat \ {0}, NEW a \in Nat
    PROVE  a \div m \in Int /\ a % m \in 0 .. m - 1 /\ a = m * (a \div m) + (a % m)
  OBVIOUS

LEMMA Times ==
    ASSUME NEW m \in Nat \ {0}, NEW d \in Int
    PROVE  m * d \in Int /\ (d >= 1 => m * d >= m) /\ (d <= -1 => m * d <= -m)
  OBVIOUS

LEMMA OneMore ==
    ASSUME NEW m \in Nat \ {0, 1}, NEW a \in Nat, a % m = 0
    PROVE  (a + m) % m = 0 /\ (a + 1) % m # 0
  <1> DEFINE q == a \div m
             p == (a + m) \div m
             r == (a + m) % m
             u == (a + 1) \div m
             t == (a + 1) % m
  <1>1. q \in Int /\ a = m * q
    BY Quotient
  <1>2. p \in Int /\ r \in 0 .. m - 1 /\ a + m = m * p + r
    <2>1. a + m \in Nat
      OBVIOUS
    <2> QED BY <2>1, Quotient
  <1>3. u \in Int /\ t \in 0 .. m - 1 /\ a + 1 = m * u + t
    <2>1. a + 1 \in Nat
      OBVIOUS
    <2> QED BY <2>1, Quotient
  <1> HIDE DEF q, p, r, u, t
  <1>4. m * (q + 1 - p) = m * q + m - m * p /\ m * q \in Int /\ m * p \in Int /\ m * u \in Int
    BY <1>1, <1>2, <1>3, Times
  <1>5. r = m * (q + 1 - p)
    BY <1>1, <1>2, <1>4
  <1>6. r = 0
    <2>1. q + 1 - p \in Int
      BY <1>1, <1>2
    <2>2. CASE q + 1 - p = 0
      BY <1>5, <2>2
    <2>3. CASE q + 1 - p >= 1 \/ q + 1 - p <= -1
      BY <1>2, <1>5, <2>1, <2>3, Times
    <2> QED BY <2>1, <2>2, <2>3
  <1>7. m * (u - q) = m * u - m * q
    BY <1>1, <1>3
  <1>8. 1 - t = m * (u - q)
    BY <1>1, <1>3, <1>4, <1>7
  <1>9. t # 0
    <2>1. SUFFICES ASSUME t = 0 PROVE FALSE
      OBVIOUS
    <2>2. u - q \in Int /\ m * (u - q) = 1
      BY <1>1, <1>3, <1>8, <2>1
    <2>3. CASE u - q = 0
      BY <2>2, <2>3
    <2>4. CASE u - q >= 1 \/ u - q <= -1
      BY <2>2, <2>4, Times
    <2> QED BY <2>2, <2>3, <2>4
  <1> QED BY <1>6, <1>9 DEF r, t

-----------------------------------------------------------------------------
(* Messages: their length is never a multiple of the packet size, they fit *)
(* the buffer of the device, and the frame can be found in them again.     *)

LEMMA FrameIs ==
    ASSUME NEW no \in Nat, NEW len \in Nat
    PROVE  /\ Frame(no, len) \in Seq(Units) /\ Len(Frame(no, len)) = len
           /\ \A k \in 1 .. len : Frame(no, len)[k] = Unit("data", no, k)
  <1>1. \A k \in 1 .. len : Unit("data", no, k) \in Units
    BY DEF Unit, Units
  <1> QED BY <1>1 DEF Frame

LEMMA MessageIs ==
    ASSUME NEW no \in Nat, NEW len \in Nat
    PROVE  LET m == Message(no, len) IN
           /\ m \in Seq(Units) /\ Len(m) = HeaderLen + len
           /\ m[1] = Unit("head", no, len)
           /\ \A k \in 1 .. len : m[HeaderLen + k] = Unit("data", no, k)
  <1> DEFINE a == <<Unit("head", no, len)>>
             b == [k \in 1 .. HeaderLen - 1 |-> Unit("header", no, k)]
             c == Frame(no, len)
  <1>1. HeaderLen \in Nat \ {0}
    BY LinkConstants
  <1>2. a \in Seq(Units) /\ Len(a) = 1 /\ a[1] = Unit("head", no, len)
    BY DEF Unit, Units
  <1>3. b \in Seq(Units) /\ Len(b) = HeaderLen - 1
    <2>1. \A k \in 1 .. HeaderLen - 1 : Unit("header", no, k) \in Units
      BY <1>1 DEF Unit, Units
    <2> QED BY <1>1, <2>1
  <1>4. c \in Seq(Units) /\ Len(c) = len /\ \A k \in 1 .. len : c[k] = Unit("data", no, k)
    BY FrameIs
  <1>5. Message(no, len) = (a \o b) \o c
    BY DEF Message
  <1> HIDE DEF a, b, c
  <1>6. a \o b \in Seq(Units) /\ Len(a \o b) = HeaderLen /\ (a \o b)[1] = a[1]
    <2>1. /\ a \o b \in Seq(Units) /\ Len(a \o b) = Len(a) + Len(b)
          /\ \A i \in 1 .. Len(a) + Len(b) : (a \o b)[i] = IF i <= Len(a) THEN a[i] ELSE b[i - Len(a)]
      BY <1>2, <1>3, ConcatProperties
    <2>2. 1 \in 1 .. Len(a) + Len(b) /\ 1 <= Len(a) /\ Len(a) + Len(b) = HeaderLen
      BY <1>1, <1>2, <1>3
    <2> QED BY <2>1, <2>2
  <1> DEFINE d == a \o b
  <1>7. d \in Seq(Units) /\ Len(d) = HeaderLen /\ d[1] = a[1]
    BY <1>6
  <1> HIDE DEF d
  <1>8. /\ d \o c \in Seq(Units) /\ Len(d \o c) = HeaderLen + len
        /\ \A i \in 1 .. HeaderLen + len : (d \o c)[i] = IF i <= HeaderLen THEN d[i] ELSE c[i - HeaderLen]
    BY <1>4, <1>7, ConcatProperties
  <1>9. (d \o c)[1] = Unit("head", no, len)
    BY <1>1, <1>2, <1>7, <1>8
  <1>10. ASSUME NEW k \in 1 .. len PROVE (d \o c)[HeaderLen + k] = Unit("data", no, k)
    BY <1>1, <1>4, <1>8, <1>10
  <1> QED BY <1>5, <1>8, <1>9, <1>10 DEF d

LEMMA PadIs == PadUnit \in Units
  BY DEF PadUnit, Unit, Units

(* All that is needed of a message on its way.                             *)
LEMMA WholeIs ==
    ASSUME NEW f \in Frames
    PROVE  LET w == Whole(f) IN
           /\ w \in Seq(Units) /\ w # <<>>
           /\ Len(w) % Mps # 0 /\ Len(w) <= RxTotal /\ Len(w) >= HeaderLen + f[2]
           /\ w[1].type = "head" /\ w[1].k = f[2]
           /\ SubSeq(w, HeaderLen + 1, HeaderLen + f[2]) = Frame(f[1], f[2])
           /\ SubSeq(w, HeaderLen + f[2] + 1, Len(w)) \in {<<>>, <<PadUnit>>}
  <1> DEFINE no == f[1]
             len == f[2]
             m == Message(no, len)
             w == Whole(f)
  <1>1. no \in Nat /\ len \in Nat \ {0} /\ len \in FrameLens
    BY LinkConstants DEF Frames
  <1>2. /\ HeaderLen \in Nat \ {0} /\ Mps \in Nat \ {0, 1} /\ RxTotal \in Nat \ {0}
        /\ HeaderLen + len < RxTotal
    BY <1>1, LinkConstants
  <1>3. /\ m \in Seq(Units) /\ Len(m) = HeaderLen + len
        /\ m[1] = Unit("head", no, len)
        /\ \A k \in 1 .. len : m[HeaderLen + k] = Unit("data", no, k)
    BY <1>1, MessageIs
  <1>4. w = IF Len(m) % Mps = 0 THEN Append(m, PadUnit) ELSE m
    BY DEF Whole, Padded, PadUnit
  <1>5. Frame(no, len) \in Seq(Units) /\ Len(Frame(no, len)) = len
        /\ \A k \in 1 .. len : Frame(no, len)[k] = Unit("data", no, k)
    BY <1>1, FrameIs
  <1> SUFFICES
           /\ w \in Seq(Units) /\ w # <<>>
           /\ Len(w) % Mps # 0 /\ Len(w) <= RxTotal /\ Len(w) >= HeaderLen + len
           /\ w[1].type = "head" /\ w[1].k = len
           /\ SubSeq(w, HeaderLen + 1, HeaderLen + len) = Frame(no, len)
           /\ SubSeq(w, HeaderLen + len + 1, Len(w)) \in {<<>>, <<PadUnit>>}
    OBVIOUS
  <1> HIDE DEF m, w, no, len
  <1>6. /\ w \in Seq(Units) /\ Len(w) \in {HeaderLen + len, HeaderLen + len + 1}
        /\ \A i \in 1 .. HeaderLen + len : w[i] = m[i]
        /\ Len(w) % Mps # 0
        /\ Len(w) = HeaderLen + len + 1 => Len(m) % Mps = 0 /\ w[HeaderLen + len + 1] = PadUnit
    <2>1. CASE Len(m) % Mps = 0
      <3>1. w = Append(m, PadUnit)
        BY <1>4, <2>1
      <3>2. /\ w \in Seq(Units) /\ Len(w) = Len(m) + 1
            /\ \A i \in 1 .. Len(m) : w[i] = m[i]
            /\ w[Len(m) + 1] = PadUnit
        BY <1>3, <3>1, PadIs, AppendProperties
      <3>3. Len(m) \in Nat
        BY <1>3
      <3>4. (Len(m) + 1) % Mps # 0
        BY <1>2, <2>1, <3>3, OneMore
      <3> QED BY <1>3, <2>1, <3>2, <3>4
    <2>2. CASE Len(m) % Mps # 0
      <3>1. w = m
        BY <1>4, <2>2
      <3>2. Len(m) # HeaderLen + len + 1
        BY <1>1, <1>2, <1>3
      <3> QED BY <1>3, <2>2, <3>1, <3>2
    <2> QED BY <2>1, <2>2
  <1>7. Len(w) <= RxTotal
    BY <1>1, <1>2, <1>6
  <1>8. w # <<>> /\ w[1].type = "head" /\ w[1].k = len /\ Len(w) >= HeaderLen + len
    <2>1. Len(w) >= HeaderLen + len /\ Len(w) # 0 /\ 1 \in 1 .. HeaderLen + len
      BY <1>1, <1>2, <1>6
    <2>2. w[1] = Unit("head", no, len)
      BY <1>3, <1>6, <2>1
    <2> QED BY <2>1, <2>2 DEF Unit
  <1>9. SubSeq(w, HeaderLen + 1, HeaderLen + len) = Frame(no, len)
    <2> DEFINE s == SubSeq(w, HeaderLen + 1, HeaderLen + len)
    <2>1. \A i \in HeaderLen + 1 .. HeaderLen + len : w[i] \in Units
      BY <1>1, <1>2, <1>6
    <2>2. HeaderLen + 1 \in Int /\ HeaderLen + len \in Int /\ HeaderLen + 1 <= HeaderLen + len
          /\ HeaderLen + len - (HeaderLen + 1) + 1 = len
      BY <1>1, <1>2
    <2>3. /\ s \in Seq(Units) /\ Len(s) = len
          /\ \A i \in 1 .. len : s[i] = w[HeaderLen + 1 + i - 1]
      <3> DEFINE a == HeaderLen + 1
                 b == HeaderLen + len
      <3>1. a \in Int /\ b \in Int /\ a <= b /\ b - a + 1 = len
        BY <1>1, <1>2, <2>2
      <3>3. \A i \in a .. b : w[i] \in Units
        BY <2>1
      <3> HIDE DEF a, b
      <3>2. /\ SubSeq(w, a, b) \in Seq(Units) /\ Len(SubSeq(w, a, b)) = b - a + 1
            /\ \A i \in 1 .. b - a + 1 : SubSeq(w, a, b)[i] = w[a + i - 1]
        BY <3>1, <3>3, SubSeqProperties
      <3> QED BY <3>1, <3>2 DEF a, b
    <2> HIDE DEF s
    <2>4. ASSUME NEW i \in 1 .. len PROVE s[i] = Frame(no, len)[i]
      <3>1. HeaderLen + 1 + i - 1 = HeaderLen + i /\ HeaderLen + i \in 1 .. HeaderLen + len
        BY <1>1, <1>2
      <3> QED BY <1>3, <1>5, <1>6, <2>3, <3>1
    <2>5. s = Frame(no, len)
      BY <1>5, <2>3, <2>4, SeqEqual
    <2> QED BY <2>5 DEF s
  <1>10. SubSeq(w, HeaderLen + len + 1, Len(w)) \in {<<>>, <<PadUnit>>}
    <2>1. HeaderLen + len \in Nat /\ HeaderLen + len + 1 \in Int
      BY <1>1, <1>2
    <2>2. CASE Len(w) = HeaderLen + len
      <3>1. SubSeq(w, HeaderLen + len + 1, Len(w)) = <<>>
        BY <2>1, <2>2, SubSeqEmpty
      <3> QED BY <3>1
    <2>3. CASE Len(w) = HeaderLen + len + 1
      <3> DEFINE n == HeaderLen + len + 1
                 s == SubSeq(w, n, n)
      <3>1. w[n] = PadUnit
        BY <1>6, <2>3
      <3>2. n \in Int /\ n - n + 1 = 1 /\ n <= n
        BY <2>1
      <3> HIDE DEF n
      <3>3. /\ s \in Seq(Units) /\ Len(s) = 1 /\ \A i \in 1 .. 1 : s[i] = w[n + i - 1]
        <4>1. \A i \in n .. n : w[i] \in Units
          BY <3>1, <3>2, PadIs
        <4> QED BY <3>2, <4>1, SubSeqProperties
      <3> HIDE DEF s
      <3>4. s[1] = PadUnit
        BY <3>1, <3>2, <3>3
      <3>5. s = <<PadUnit>>
        BY <3>3, <3>4, PadIs
      <3> QED BY <2>3, <3>5 DEF n, s
    <2> QED BY <1>6, <2>2, <2>3
  <1> QED BY <1>6, <1>7, <1>8, <1>9, <1>10

(* The next packet and what remains.                                       *)
LEMMA PacketIs ==
    ASSUME NEW s \in Seq(Units), s # <<>>
    PROVE  /\ Packet(s) \in Seq(Units) /\ Packet(s) # <<>> /\ Rest(s) \in Seq(Units)
           /\ Packet(s) \o Rest(s) = s
           /\ Len(Packet(s)) <= Mps
           /\ Len(Packet(s)) < Mps => Packet(s) = s /\ Rest(s) = <<>>
  <1> DEFINE n == IF Len(s) < Mps THEN Len(s) ELSE Mps
  <1>1. Mps \in Nat \ {0} /\ Len(s) \in Nat \ {0} /\ n \in 1 .. Len(s) /\ n <= Mps
    BY LinkConstants
  <1>2. Packet(s) = SubSeq(s, 1, n)
    BY DEF Packet
  <1> HIDE DEF n
  <1>3. Packet(s) \in Seq(Units) /\ Len(Packet(s)) = n
    <2>1. \A i \in 1 .. n : s[i] \in Units
      BY <1>1
    <2> QED BY <1>1, <1>2, <2>1, SubSeqProperties
  <1>4. Rest(s) = SubSeq(s, n + 1, Len(s))
    BY <1>3 DEF Rest
  <1>5. Rest(s) \in Seq(Units)
    <2>1. \A i \in n + 1 .. Len(s) : s[i] \in Units
      BY <1>1
    <2> QED BY <1>1, <1>4, <2>1, SubSeqProperties
  <1>6. Packet(s) \o Rest(s) = s
    <2>1. SubSeq(s, 1, n) \o SubSeq(s, n + 1, Len(s)) = SubSeq(s, 1, Len(s))
      BY <1>1, ConcatAdjacentSubSeq
    <2> QED BY <1>2, <1>4, <2>1, SubSeqFull
  <1>7. ASSUME Len(Packet(s)) < Mps PROVE Packet(s) = s /\ Rest(s) = <<>>
    <2>1. n = Len(s)
      BY <1>1, <1>3, <1>7 DEF n
    <2>2. Packet(s) = s
      BY <1>2, <2>1, SubSeqFull
    <2>3. Rest(s) = <<>>
      BY <1>1, <1>4, <2>1, SubSeqEmpty
    <2> QED BY <2>2, <2>3
  <1> QED BY <1>1, <1>3, <1>5, <1>6, <1>7

-----------------------------------------------------------------------------
(* A transfer: the frames of a direction that were sent and not handed     *)
(* over, what the receiver has of the first, and what is still to come.    *)

\* The next frame, when there is one, has not begun to arrive.
Follows(queue, data) ==
    \/ queue = <<>> /\ data = <<>>
    \/ Len(queue) = 1 /\ data = Whole(queue[1])

\* The only frame is arriving, in full packets so far.
Arrives(queue, got, data) ==
    \/ queue = <<>> /\ got = <<>> /\ data = <<>>
    \/ Len(queue) = 1 /\ got \o data = Whole(queue[1]) /\ data # <<>> /\ Len(got) % Mps = 0

LEMMA OnlyFrame ==
    ASSUME NEW queue \in Seq(Frames), Len(queue) = 1
    PROVE  queue[1] \in Frames /\ Tail(queue) = <<>> /\ queue # <<>>
  <1> DEFINE S == Frames
  <1>1. queue \in Seq(S)
    OBVIOUS
  <1> HIDE DEF S
  <1>2. queue[1] \in S /\ queue # <<>>
    BY <1>1
  <1>3. Tail(queue) \in Seq(S) /\ Len(Tail(queue)) = 0
    BY <1>1, <1>2, HeadTailProperties
  <1>4. Tail(queue) = <<>>
    BY <1>3, EmptySeq
  <1> QED BY <1>2, <1>4 DEF S

LEMMA FollowsArrives ==
    ASSUME NEW queue \in Seq(Frames), NEW data \in Seq(Units), Follows(queue, data)
    PROVE  Arrives(queue, <<>>, data)
  <1>1. CASE queue = <<>> /\ data = <<>>
    BY <1>1 DEF Arrives
  <1>2. CASE Len(queue) = 1 /\ data = Whole(queue[1])
    <2>0. queue[1] \in Frames
      BY <1>2, OnlyFrame
    <2>1. data # <<>>
      BY <1>2, <2>0, WholeIs
    <2>2. <<>> \o data = data
      BY ConcatEmptySeq
    <2>3. Len(<<>>) = 0 /\ 0 % Mps = 0
      BY LinkConstants
    <2> QED BY <1>2, <2>1, <2>2, <2>3 DEF Arrives
  <1> QED BY <1>1, <1>2 DEF Follows

\* Nothing is left to send: the next message may be.
LEMMA FollowsSent ==
    ASSUME NEW queue \in Seq(Frames), Follows(queue, <<>>), NEW f \in Frames
    PROVE  queue = <<>> /\ Follows(Append(queue, f), Whole(f))
  <1>1. queue = <<>>
    BY WholeIs DEF Follows
  <1>2. Append(queue, f) = <<f>>
    BY <1>1
  <1> QED BY <1>1, <1>2 DEF Follows

LEMMA ArrivesSent ==
    ASSUME NEW queue \in Seq(Frames), NEW got \in Seq(Units), Arrives(queue, got, <<>>), NEW f \in Frames
    PROVE  queue = <<>> /\ got = <<>> /\ Arrives(Append(queue, f), got, Whole(f))
  <1>1. queue = <<>> /\ got = <<>>
    BY DEF Arrives
  <1>2. Append(queue, f) = <<f>>
    BY <1>1
  <1>3. Follows(<<f>>, Whole(f))
    BY DEF Follows
  <1>4. <<f>> \in Seq(Frames) /\ Whole(f) \in Seq(Units)
    BY WholeIs
  <1>5. Arrives(<<f>>, <<>>, Whole(f))
    BY <1>3, <1>4, FollowsArrives
  <1> QED BY <1>1, <1>2, <1>5

LEMMA Associates ==
    ASSUME NEW a \in Seq(Units), NEW b \in Seq(Units), NEW c \in Seq(Units)
    PROVE  (a \o b) \o c = a \o (b \o c)
  BY ConcatAssociative

(* A packet: a short one completes the message, after a full one the rest  *)
(* is still to come.                                                       *)
LEMMA PacketArrives ==
    ASSUME NEW queue \in Seq(Frames), NEW got \in Seq(Units), NEW data \in Seq(Units),
           Arrives(queue, got, data), data # <<>>
    PROVE  LET s == got \o Packet(data) IN
           /\ queue # <<>> /\ s \in Seq(Units) /\ Rest(data) \in Seq(Units)
           /\ Len(Packet(data)) < Mps =>
                /\ s = Whole(queue[1]) /\ Rest(data) = <<>> /\ Tail(queue) = <<>>
                /\ Len(s) % Mps # 0
           /\ Len(Packet(data)) >= Mps =>
                Arrives(queue, s, Rest(data)) /\ Len(s) % Mps = 0 /\ Len(s) < RxTotal
  <1> DEFINE p == Packet(data)
             r == Rest(data)
             s == got \o p
             w == Whole(queue[1])
  <1>1. Len(queue) = 1 /\ got \o data = w /\ Len(got) % Mps = 0
    BY DEF Arrives
  <1>2. queue[1] \in Frames /\ Tail(queue) = <<>> /\ queue # <<>>
    BY <1>1, OnlyFrame
  <1>3. p \in Seq(Units) /\ r \in Seq(Units) /\ p \o r = data /\ Len(p) <= Mps
        /\ (Len(p) < Mps => p = data /\ r = <<>>)
    BY PacketIs
  <1>4. w \in Seq(Units) /\ Len(w) % Mps # 0 /\ Len(w) <= RxTotal
    BY <1>2, WholeIs
  <1>5. Mps \in Nat \ {0, 1} /\ RxTotal \in Nat
    BY LinkConstants
  <1> HIDE DEF p, r, w
  <1>6. s \in Seq(Units) /\ Len(s) = Len(got) + Len(p)
    BY <1>3, ConcatProperties
  <1>7. s \o r = w
    <2>1. (got \o p) \o r = got \o (p \o r)
      <3>1. p \in Seq(Units) /\ r \in Seq(Units)
        BY <1>3
      <3> QED BY <3>1, Associates
    <2> QED BY <1>1, <1>3, <2>1
  <1>9. ASSUME Len(p) < Mps PROVE s = w /\ r = <<>> /\ Len(s) % Mps # 0
    BY <1>1, <1>3, <1>4, <1>9
  <1>10. ASSUME Len(p) >= Mps
         PROVE  Arrives(queue, s, r) /\ Len(s) % Mps = 0 /\ Len(s) < RxTotal
    <2>1. Len(p) = Mps
      <3>1. Len(p) \in Nat
        BY <1>3
      <3> QED BY <1>3, <1>5, <1>10, <3>1
    <2>2. Len(got) \in Nat
      OBVIOUS
    <2>3. Len(s) % Mps = 0
      BY <1>1, <1>5, <1>6, <2>1, <2>2, OneMore
    <2> HIDE DEF s
    <2>4. r # <<>>
      <3>1. SUFFICES ASSUME r = <<>> PROVE FALSE
        OBVIOUS
      <3>2. s \o <<>> = s
        BY <1>6, ConcatEmptySeq
      <3>3. s = w
        BY <1>7, <3>1, <3>2
      <3> QED BY <1>4, <2>3, <3>3
    <2>5. Len(s) < RxTotal
      <3>1. Len(w) = Len(s) + Len(r)
        BY <1>3, <1>6, <1>7, ConcatProperties
      <3>2. Len(s) \in Nat /\ Len(r) \in Nat /\ Len(r) # 0
        BY <1>3, <1>6, <2>4
      <3> QED BY <1>4, <1>5, <3>1, <3>2
    <2> QED BY <1>1, <1>7, <2>3, <2>4, <2>5 DEF Arrives, w
  <1> QED BY <1>2, <1>3, <1>6, <1>9, <1>10 DEF p, r, w

-----------------------------------------------------------------------------
(* The invariant: of either direction, where the frames on their way are.  *)

Heard == {<<>>} \cup {Frame(f[1], f[2]) : f \in Frames}

DataTyped ==
    /\ toHost \in Seq(Frames) /\ toDevice \in Seq(Frames)
    /\ heard \in [host : Heard, device : Heard]
    /\ txData \in Seq(Units) /\ rxBuffer \in Seq(Units)
    /\ received \in Seq(Units) /\ outData \in Seq(Units)

\* The host receives the first message, takes it apart, or drops its padding.
HostSide ==
    \/ ~parsing /\ Arrives(toHost, received, txData)
    \/ parsing /\ toHost # <<>> /\ received = Whole(toHost[1]) /\ Follows(Tail(toHost), txData)
    \/ parsing /\ received = <<PadUnit>> /\ Follows(toHost, txData)

\* The device receives the first message, keeps it until its program asks,
\* or prepares to receive the next one.
DeviceSide ==
    \/ rxStep = <<>> /\ rxLength = 0 /\ Arrives(toDevice, rxBuffer, outData)
    \/ /\ rxStep = <<>> /\ ~rxArmed /\ toDevice # <<>> /\ rxBuffer = Whole(toDevice[1])
       /\ rxLength = toDevice[1][2] /\ Follows(Tail(toDevice), outData)
    \/ /\ rxStep \in {<<"clear", "arm">>, <<"arm">>} /\ ~rxArmed /\ Follows(toDevice, outData)
       /\ rxStep = <<"arm">> => rxLength = 0

\* Nothing is on its way before the device is configured, the device does not
\* take a message before the last one has left, nothing arrives during parsing.
NothingElse ==
    /\ phase = "off" => ~configured /\ toHost = <<>> /\ toDevice = <<>> /\ txData = <<>>
    /\ txLength = 0 <=> txData = <<>>
    /\ ~(inUrb /\ parsing)

LinkInv == DataTyped /\ HostSide /\ DeviceSide /\ NothingElse

LEMMA LinkInvInit == LinkInit => LinkInv
  <1> SUFFICES ASSUME LinkInit PROVE LinkInv
    OBVIOUS
  <1> USE DEF LinkInit, DeviceInit, HostInit
  <1>1. DataTyped
    BY DEF DataTyped, Heard, Nothing
  <1>2. HostSide
    BY DEF HostSide, Arrives
  <1>3. DeviceSide
    BY DEF DeviceSide, Arrives
  <1>4. NothingElse
    BY DEF NothingElse
  <1> QED BY <1>1, <1>2, <1>3, <1>4 DEF LinkInv

LEMMA FrameNumber ==
    ASSUME NEW queue \in Seq(Frames), NEW last \in Heard
    PROVE  After(queue, last) \in 0 .. Numbers - 1
  <1>1. Numbers \in Nat \ {0}
    BY LinkConstants
  <1>2. \A n \in Nat : (n + 1) % Numbers \in 0 .. Numbers - 1
    BY <1>1
  <1>3. CASE queue # <<>>
    <2> DEFINE S == Frames
    <2>1. queue \in Seq(S)
      OBVIOUS
    <2> HIDE DEF S
    <2>2. queue[Len(queue)] \in S
      BY <1>3, <2>1
    <2>3. queue[Len(queue)][1] \in Nat
      BY <1>1, <2>2 DEF S, Frames
    <2> QED BY <1>2, <1>3, <2>3 DEF After
  <1>4. CASE queue = <<>> /\ last # <<>>
    <2>1. PICK f \in Frames : last = Frame(f[1], f[2])
      BY <1>4 DEF Heard
    <2>2. f[1] \in Nat /\ f[2] \in Nat \ {0}
      BY <1>1, LinkConstants DEF Frames
    <2>3. last[1] = Unit("data", f[1], 1)
      <3>1. \A k \in 1 .. f[2] : Frame(f[1], f[2])[k] = Unit("data", f[1], k)
        BY <2>2, FrameIs
      <3>2. 1 \in 1 .. f[2]
        BY <2>2
      <3> QED BY <2>1, <3>1, <3>2
    <2>4. last[1].no \in Nat
      BY <2>2, <2>3 DEF Unit
    <2> QED BY <1>2, <1>4, <2>4 DEF After, Nothing
  <1>5. CASE queue = <<>> /\ last = <<>>
    BY <1>1, <1>5 DEF After, Nothing
  <1> QED BY <1>3, <1>4, <1>5

(* Steps that leave the frames alone.                                      *)
LEMMA DataKept ==
    ASSUME LinkInv, UNCHANGED <<configured, txVars, rxVars, inVars, outData, wayVars>>,
           phase' = "off" => phase = "off"
    PROVE  LinkInv'
  <1> USE DEF txVars, rxVars, inVars, wayVars
  <1>1. DataTyped'
    BY DEF LinkInv, DataTyped
  <1>2. HostSide'
    BY DEF LinkInv, HostSide
  <1>3. DeviceSide'
    BY DEF LinkInv, DeviceSide
  <1>4. NothingElse'
    BY DEF LinkInv, NothingElse
  <1> QED BY <1>1, <1>2, <1>3, <1>4 DEF LinkInv

LEMMA DataControl == LinkInv /\ Control => LinkInv'
  <1> SUFFICES ASSUME LinkInv, Control PROVE LinkInv'
    OBVIOUS
  <1>1. CASE Send
    BY <1>1, DataKept DEF Send, CommandSent
  <1>2. CASE Get
    BY <1>2, DataKept DEF Get, AnswerFetched
  <1>3. CASE ControlLost
    BY <1>3, DataKept DEF ControlLost, ControlFails
  <1>4. CASE Indicate
    BY <1>4, DataKept DEF Indicate, TestConnect, SetConnect, hostVars, inVars
  <1> QED BY <1>1, <1>2, <1>3, <1>4 DEF Control

LEMMA NothingArrives == Arrives(<<>>, <<>>, <<>>) /\ Follows(<<>>, <<>>)
  BY DEF Arrives, Follows

LEMMA DataReset == LinkInv /\ BusReset => LinkInv'
  <1> SUFFICES ASSUME LinkInv, BusReset PROVE LinkInv'
    OBVIOUS
  <1>1. /\ toHost' = <<>> /\ toDevice' = <<>> /\ heard' = heard /\ txData' = <<>> /\ rxBuffer' = <<>>
        /\ received' = <<>> /\ outData' = <<>> /\ parsing' = FALSE /\ rxStep' = <<>> /\ rxLength' = 0
        /\ configured' = FALSE /\ txLength' = 0 /\ inUrb' = FALSE
    BY DEF BusReset, DeviceReset, BetweenCalls
  <1>2. DataTyped'
    BY <1>1 DEF LinkInv, DataTyped
  <1>3. HostSide' /\ DeviceSide'
    BY <1>1, NothingArrives DEF HostSide, DeviceSide
  <1>4. NothingElse'
    BY <1>1 DEF NothingElse
  <1> QED BY <1>2, <1>3, <1>4 DEF LinkInv

LEMMA DataConfigure == LinkInv /\ Configure => LinkInv'
  <1> SUFFICES ASSUME LinkInv, Configure PROVE LinkInv'
    OBVIOUS
  <1>0. toHost = <<>> /\ toDevice = <<>> /\ txData = <<>> /\ txLength = 0
    BY DEF LinkInv, NothingElse, Configure
  <1>1. /\ toHost' = <<>> /\ toDevice' = <<>> /\ heard' = heard /\ txData' = <<>> /\ rxBuffer' = <<>>
        /\ received' = <<>> /\ outData' = <<>> /\ parsing' = FALSE /\ rxStep' = <<>> /\ rxLength' = 0
        /\ txLength' = 0 /\ inUrb' = FALSE /\ phase' = "connect"
    BY <1>0 DEF Configure, DeviceConfigured, HostConnects, BetweenCalls, wayVars, txVars
  <1>2. DataTyped'
    BY <1>1 DEF LinkInv, DataTyped
  <1>3. HostSide' /\ DeviceSide'
    BY <1>1, NothingArrives DEF HostSide, DeviceSide
  <1>4. NothingElse'
    BY <1>1 DEF NothingElse
  <1> QED BY <1>2, <1>3, <1>4 DEF LinkInv

LEMMA AppendFrame ==
    ASSUME NEW queue \in Seq(Frames), NEW f \in Frames
    PROVE  Append(queue, f) \in Seq(Frames) /\ Append(queue, f) # <<>>
           /\ (queue # <<>> => Append(queue, f)[1] = queue[1] /\ Tail(Append(queue, f)) = Append(Tail(queue), f))
  <1> DEFINE S == Frames
  <1>1. queue \in Seq(S) /\ f \in S
    OBVIOUS
  <1> HIDE DEF S
  <1>2. Append(queue, f) \in Seq(S) /\ Append(queue, f) # <<>>
        /\ \A i \in 1 .. Len(queue) : Append(queue, f)[i] = queue[i]
    BY <1>1, AppendProperties
  <1>3. ASSUME queue # <<>>
        PROVE  Append(queue, f)[1] = queue[1] /\ Tail(Append(queue, f)) = Append(Tail(queue), f)
    <2>1. 1 \in 1 .. Len(queue)
      BY <1>1, <1>3
    <2> QED BY <1>1, <1>2, <1>3, <2>1, HeadTailAppend
  <1> QED BY <1>2, <1>3 DEF S

LEMMA TailFrames ==
    ASSUME NEW queue \in Seq(Frames), queue # <<>>
    PROVE  Tail(queue) \in Seq(Frames) /\ queue[1] \in Frames /\ Head(queue) = queue[1]
  <1> DEFINE S == Frames
  <1>1. queue \in Seq(S)
    OBVIOUS
  <1> HIDE DEF S
  <1>2. Tail(queue) \in Seq(S) /\ queue[1] \in S /\ Head(queue) = queue[1]
    BY <1>1, HeadTailProperties
  <1> QED BY <1>2 DEF S

LEMMA DataDeviceSends == LinkInv /\ DeviceSends => LinkInv'
  <1> SUFFICES ASSUME LinkInv, DeviceSends PROVE LinkInv'
    OBVIOUS
  <1> DEFINE no == After(toHost, heard.host)
  <1>1. PICK len \in FrameLens : EthTx(no, len) /\ toHost' = Append(toHost, <<no, len>>)
    BY DEF DeviceSends
  <1> DEFINE f == <<no, len>>
  <1>2. toHost \in Seq(Frames) /\ heard.host \in Heard /\ received \in Seq(Units)
    BY DEF LinkInv, DataTyped
  <1>3. f \in Frames /\ f[1] = no /\ f[2] = len
    <2>1. no \in 0 .. Numbers - 1
      BY <1>2, FrameNumber
    <2> QED BY <2>1 DEF Frames
  <1>4. configured /\ txLength = 0 /\ txData' = Whole(f) /\ txLength' = Len(Whole(f)) /\ toHost' = Append(toHost, f)
    <2>1. len \in Nat /\ len < RxTotal
      BY LinkConstants
    <2>2. Clipped(len) = len
      BY <2>1, LinkConstants DEF Clipped
    <2> QED BY <1>1, <1>3, <2>2 DEF EthTx, Whole
  <1>5. UNCHANGED <<configured, rxArmed, rxBuffer, rxLength, rxStep, phase, inUrb, received, parsing, outData, toDevice, heard>>
    BY <1>1 DEF DeviceSends, EthTx, hostVars, rxVars
  <1> HIDE DEF no, f
  <1>6. Whole(f) \in Seq(Units) /\ Whole(f) # <<>>
    BY <1>3, WholeIs
  <1>7. txData = <<>> /\ phase # "off"
    BY <1>4 DEF LinkInv, NothingElse
  <1>8. toHost' \in Seq(Frames) /\ toHost' # <<>>
        /\ (toHost # <<>> => toHost'[1] = toHost[1] /\ Tail(toHost') = Append(Tail(toHost), f))
    BY <1>2, <1>3, <1>4, AppendFrame
  <1>9. DataTyped'
    BY <1>4, <1>5, <1>6, <1>8 DEF LinkInv, DataTyped
  <1>10. HostSide'
    <2>1. CASE ~parsing /\ Arrives(toHost, received, txData)
      <3>1. Arrives(Append(toHost, f), received, Whole(f))
        BY <1>2, <1>3, <1>7, <2>1, ArrivesSent
      <3> QED BY <1>4, <1>5, <2>1, <3>1 DEF HostSide
    <2>2. CASE parsing /\ toHost # <<>> /\ received = Whole(toHost[1]) /\ Follows(Tail(toHost), txData)
      <3>1. Tail(toHost) \in Seq(Frames)
        BY <1>2, <2>2, TailFrames
      <3>2. Follows(Append(Tail(toHost), f), Whole(f))
        BY <1>3, <1>7, <2>2, <3>1, FollowsSent
      <3> QED BY <1>4, <1>5, <1>8, <2>2, <3>2 DEF HostSide
    <2>3. CASE parsing /\ received = <<PadUnit>> /\ Follows(toHost, txData)
      <3>1. Follows(Append(toHost, f), Whole(f))
        BY <1>2, <1>3, <1>7, <2>3, FollowsSent
      <3> QED BY <1>4, <1>5, <2>3, <3>1 DEF HostSide
    <2> QED BY <2>1, <2>2, <2>3 DEF LinkInv, HostSide
  <1>11. DeviceSide'
    BY <1>5 DEF LinkInv, DeviceSide
  <1>12. NothingElse'
    <2>1. Len(Whole(f)) # 0
      BY <1>6
    <2> QED BY <1>4, <1>5, <1>6, <1>7, <2>1 DEF LinkInv, NothingElse
  <1> QED BY <1>9, <1>10, <1>11, <1>12 DEF LinkInv

LEMMA DataHostSends == LinkInv /\ HostSends => LinkInv'
  <1> SUFFICES ASSUME LinkInv, HostSends PROVE LinkInv'
    OBVIOUS
  <1> DEFINE no == After(toDevice, heard.device)
  <1>1. PICK len \in FrameLens : EthOutput(Padded(Message(no, len))) /\ toDevice' = Append(toDevice, <<no, len>>)
    BY DEF HostSends
  <1> DEFINE f == <<no, len>>
  <1>2. toDevice \in Seq(Frames) /\ heard.device \in Heard /\ rxBuffer \in Seq(Units)
    BY DEF LinkInv, DataTyped
  <1>3. f \in Frames /\ f[1] = no /\ f[2] = len
    <2>1. no \in 0 .. Numbers - 1
      BY <1>2, FrameNumber
    <2> QED BY <2>1 DEF Frames
  <1>4. phase = "up" /\ outData = <<>> /\ outData' = Whole(f) /\ toDevice' = Append(toDevice, f)
    BY <1>1, <1>3 DEF EthOutput, Whole
  <1>5. UNCHANGED <<configured, rxArmed, rxBuffer, rxLength, rxStep, phase, inUrb, received, parsing,
                    txData, txLength, toHost, heard>>
    BY <1>1 DEF HostSends, EthOutput, deviceVars, askVars, inVars
  <1> HIDE DEF no, f
  <1>6. Whole(f) \in Seq(Units)
    BY <1>3, WholeIs
  <1>7. toDevice' \in Seq(Frames) /\ toDevice' # <<>>
        /\ (toDevice # <<>> => toDevice'[1] = toDevice[1] /\ Tail(toDevice') = Append(Tail(toDevice), f))
    BY <1>2, <1>3, <1>4, AppendFrame
  <1>8. DataTyped'
    BY <1>4, <1>5, <1>6, <1>7 DEF LinkInv, DataTyped
  <1>9. DeviceSide'
    <2>1. CASE rxStep = <<>> /\ rxLength = 0 /\ Arrives(toDevice, rxBuffer, outData)
      <3>1. Arrives(Append(toDevice, f), rxBuffer, Whole(f))
        BY <1>2, <1>3, <1>4, <2>1, ArrivesSent
      <3> QED BY <1>4, <1>5, <2>1, <3>1 DEF DeviceSide
    <2>2. CASE /\ rxStep = <<>> /\ ~rxArmed /\ toDevice # <<>> /\ rxBuffer = Whole(toDevice[1])
               /\ rxLength = toDevice[1][2] /\ Follows(Tail(toDevice), outData)
      <3>1. Tail(toDevice) \in Seq(Frames)
        BY <1>2, <2>2, TailFrames
      <3>2. Follows(Append(Tail(toDevice), f), Whole(f))
        BY <1>3, <1>4, <2>2, <3>1, FollowsSent
      <3> QED BY <1>4, <1>5, <1>7, <2>2, <3>2 DEF DeviceSide
    <2>3. CASE /\ rxStep \in {<<"clear", "arm">>, <<"arm">>} /\ ~rxArmed /\ Follows(toDevice, outData)
               /\ rxStep = <<"arm">> => rxLength = 0
      <3>1. Follows(Append(toDevice, f), Whole(f))
        BY <1>2, <1>3, <1>4, <2>3, FollowsSent
      <3> QED BY <1>4, <1>5, <2>3, <3>1 DEF DeviceSide
    <2> QED BY <2>1, <2>2, <2>3 DEF LinkInv, DeviceSide
  <1>10. HostSide'
    BY <1>5 DEF LinkInv, HostSide
  <1>11. NothingElse'
    BY <1>4, <1>5 DEF LinkInv, NothingElse
  <1> QED BY <1>8, <1>9, <1>10, <1>11 DEF LinkInv

LEMMA DataPacketToHost == LinkInv /\ PacketToHost => LinkInv'
  <1> SUFFICES ASSUME LinkInv, PacketToHost PROVE LinkInv'
    OBVIOUS
  <1> DEFINE p == Packet(txData)
             s == received \o p
  <1>1. toHost \in Seq(Frames) /\ received \in Seq(Units) /\ txData \in Seq(Units) /\ txData # <<>>
    BY DEF LinkInv, DataTyped, PacketToHost, PacketSent
  <1>2. /\ received' = s /\ txData' = Rest(txData)
        /\ inUrb' = ~(Len(p) < Mps \/ Len(s) >= RxSize)
        /\ parsing' = ((Len(p) < Mps \/ Len(s) >= RxSize) /\ Len(s) % Mps # 0)
        /\ txLength' = IF txData' = <<>> THEN 0 ELSE txLength
    BY DEF PacketToHost, PacketIn, PacketSent
  <1>3. UNCHANGED <<configured, rxArmed, rxBuffer, rxLength, rxStep, phase, outData, toHost, toDevice, heard>>
    BY DEF PacketToHost, PacketIn, PacketSent, askVars, rxVars, wayVars
  <1>4. inUrb /\ ~parsing
    BY DEF PacketToHost, PacketIn, LinkInv, NothingElse
  <1>5. Arrives(toHost, received, txData)
    BY <1>4 DEF LinkInv, HostSide
  <1>6. /\ toHost # <<>> /\ s \in Seq(Units) /\ Rest(txData) \in Seq(Units)
        /\ Len(p) < Mps => /\ s = Whole(toHost[1]) /\ Rest(txData) = <<>> /\ Tail(toHost) = <<>>
                           /\ Len(s) % Mps # 0
        /\ Len(p) >= Mps => Arrives(toHost, s, Rest(txData)) /\ Len(s) % Mps = 0 /\ Len(s) < RxTotal
    BY <1>1, <1>5, PacketArrives
  <1>7. Len(p) < Mps \/ Len(p) >= Mps
    <2>1. p \in Seq(Units)
      BY <1>1, PacketIs
    <2> HIDE DEF p
    <2> QED BY <2>1, LinkConstants
  <1> HIDE DEF p, s
  <1>8. DataTyped'
    BY <1>2, <1>3, <1>6 DEF LinkInv, DataTyped
  <1>9. HostSide'
    <2>1. CASE Len(p) < Mps
      <3>1. parsing' = TRUE /\ received' = Whole(toHost[1]) /\ txData' = <<>> /\ toHost' = toHost
        BY <1>2, <1>3, <1>6, <2>1
      <3>2. Follows(Tail(toHost), <<>>)
        BY <1>6, <2>1, NothingArrives
      <3> QED BY <1>6, <3>1, <3>2 DEF HostSide
    <2>2. CASE Len(p) >= Mps
      <3>1. parsing' = FALSE /\ Arrives(toHost, received', txData') /\ toHost' = toHost
        BY <1>2, <1>3, <1>6, <2>2
      <3> QED BY <3>1 DEF HostSide
    <2> QED BY <1>7, <2>1, <2>2
  <1>10. DeviceSide'
    BY <1>3 DEF LinkInv, DeviceSide
  <1>11. NothingElse'
    BY <1>1, <1>2, <1>3, <1>6 DEF LinkInv, NothingElse
  <1> QED BY <1>8, <1>9, <1>10, <1>11 DEF LinkInv

LEMMA DataPacketToDevice == LinkInv /\ PacketToDevice => LinkInv'
  <1> SUFFICES ASSUME LinkInv, PacketToDevice PROVE LinkInv'
    OBVIOUS
  <1> DEFINE p == Packet(outData)
             s == rxBuffer \o p
  <1>1. toDevice \in Seq(Frames) /\ rxBuffer \in Seq(Units) /\ outData \in Seq(Units) /\ outData # <<>>
    BY DEF LinkInv, DataTyped, PacketToDevice
  <1>2. /\ rxArmed /\ outData' = Rest(outData)
        /\ IF Len(p) < Mps \/ Len(s) = RxTotal
           THEN IF Accepted(s)
                THEN rxArmed' = FALSE /\ rxBuffer' = s /\ rxLength' = s[1].k
                ELSE rxBuffer' = <<>> /\ rxLength' = 0 /\ UNCHANGED rxArmed
           ELSE rxBuffer' = s /\ UNCHANGED <<rxArmed, rxLength>>
    BY DEF PacketToDevice, PacketReceived, PacketOut
  <1>3. UNCHANGED <<configured, txLength, txData, rxStep, phase, inUrb, received, parsing, toHost, toDevice, heard>>
    BY DEF PacketToDevice, PacketReceived, PacketOut, askVars, inVars, txVars, wayVars
  <1>4. rxStep = <<>> /\ rxLength = 0 /\ Arrives(toDevice, rxBuffer, outData)
    BY <1>2 DEF LinkInv, DeviceSide
  <1>5. /\ toDevice # <<>> /\ s \in Seq(Units) /\ Rest(outData) \in Seq(Units)
        /\ Len(p) < Mps => /\ s = Whole(toDevice[1]) /\ Rest(outData) = <<>> /\ Tail(toDevice) = <<>>
                           /\ Len(s) % Mps # 0
        /\ Len(p) >= Mps => Arrives(toDevice, s, Rest(outData)) /\ Len(s) % Mps = 0 /\ Len(s) < RxTotal
    BY <1>1, <1>4, PacketArrives
  <1>6. p \in Seq(Units)
    BY <1>1, PacketIs
  <1>7. toDevice[1] \in Frames
    BY <1>1, <1>5, TailFrames
  <1> HIDE DEF p, s
  <1>8. DataTyped' /\ DeviceSide'
    <2>1. CASE Len(p) < Mps
      <3>1. s = Whole(toDevice[1]) /\ Tail(toDevice) = <<>> /\ outData' = <<>>
        BY <1>2, <1>5, <2>1
      <3>2. s # <<>> /\ Len(s) >= HeaderLen + toDevice[1][2] /\ s[1].type = "head" /\ s[1].k = toDevice[1][2]
        BY <1>7, <3>1, WholeIs
      <3>3. Accepted(s)
        BY <3>2 DEF Accepted, StartsMessage, MessageLen
      <3>4. rxArmed' = FALSE /\ rxBuffer' = s /\ rxLength' = toDevice[1][2]
        BY <1>2, <2>1, <3>2, <3>3
      <3>5. Follows(Tail(toDevice), <<>>)
        BY <3>1, NothingArrives
      <3>6. DeviceSide'
        BY <1>3, <1>4, <1>5, <3>1, <3>4, <3>5 DEF DeviceSide
      <3>7. DataTyped'
        BY <1>2, <1>3, <1>5, <3>4 DEF LinkInv, DataTyped
      <3> QED BY <3>6, <3>7
    <2>2. CASE Len(p) >= Mps
      <3>1. ~(Len(p) < Mps) /\ Len(s) # RxTotal
        <4>1. Len(p) \in Nat /\ Len(s) \in Nat /\ Mps \in Nat /\ RxTotal \in Nat
          BY <1>5, <1>6, LinkConstants
        <4>2. Len(s) < RxTotal
          BY <1>5, <2>2
        <4> QED BY <2>2, <4>1, <4>2
      <3>2. rxBuffer' = s /\ rxArmed' = rxArmed /\ rxLength' = rxLength
        BY <1>2, <3>1
      <3>3. DeviceSide'
        BY <1>2, <1>3, <1>4, <1>5, <2>2, <3>2 DEF DeviceSide
      <3>4. DataTyped'
        BY <1>2, <1>3, <1>5, <3>2 DEF LinkInv, DataTyped
      <3> QED BY <3>3, <3>4
    <2>3. Len(p) < Mps \/ Len(p) >= Mps
      BY <1>6, LinkConstants
    <2> QED BY <2>1, <2>2, <2>3
  <1>9. HostSide' /\ NothingElse'
    BY <1>3 DEF LinkInv, HostSide, NothingElse
  <1> QED BY <1>8, <1>9 DEF LinkInv

(* A frame that is handed over on the host is the first on its way, and    *)
(* what is left of its message is at most the padding.                     *)
LEMMA DataHostReceives ==
    LinkInv /\ HostReceives =>
        /\ LinkInv'
        /\ heard'.host # heard.host => toHost # <<>> /\ heard'.host = Frame(Head(toHost)[1], Head(toHost)[2])
        /\ heard'.device = heard.device
  <1> SUFFICES ASSUME LinkInv, HostReceives
               PROVE  /\ LinkInv'
                      /\ heard'.host # heard.host =>
                            toHost # <<>> /\ heard'.host = Frame(Head(toHost)[1], Head(toHost)[2])
                      /\ heard'.device = heard.device
    OBVIOUS
  <1>1. /\ toHost \in Seq(Frames) /\ received \in Seq(Units) /\ txData \in Seq(Units)
        /\ heard \in [host : Heard, device : Heard]
    BY DEF LinkInv, DataTyped
  <1>2. /\ parsing
        /\ received' = IF StartsMessage(received)
                       THEN Remainder(SubSeq(received, MessageLen(received) + 1, Len(received)))
                       ELSE <<>>
        /\ parsing' = (received' # <<>>)
    BY DEF HostReceives, TakeMessage
  <1>3. UNCHANGED <<configured, txLength, txData, rxArmed, rxBuffer, rxLength, rxStep, phase, inUrb,
                    outData, toDevice>>
    BY DEF HostReceives, TakeMessage, deviceVars, askVars
  <1>4. ~inUrb
    BY <1>2 DEF LinkInv, NothingElse
  <1>5. IF StartsMessage(received)
        THEN /\ heard' = [heard EXCEPT !.host = FrameAt(received)]
             /\ toHost' = IF toHost = <<>> THEN <<>> ELSE Tail(toHost)
        ELSE UNCHANGED <<heard, toHost>>
    BY DEF HostReceives
  <1>6. CASE toHost # <<>> /\ received = Whole(toHost[1]) /\ Follows(Tail(toHost), txData)
    <2> DEFINE f == toHost[1]
    <2>1. f \in Frames /\ Tail(toHost) \in Seq(Frames) /\ Head(toHost) = f
      BY <1>1, <1>6, TailFrames
    <2>2. /\ received # <<>> /\ received[1].type = "head" /\ received[1].k = f[2]
          /\ SubSeq(received, HeaderLen + 1, HeaderLen + f[2]) = Frame(f[1], f[2])
          /\ SubSeq(received, HeaderLen + f[2] + 1, Len(received)) \in {<<>>, <<PadUnit>>}
      BY <1>6, <2>1, WholeIs
    <2> HIDE DEF f
    <2>3. StartsMessage(received) /\ MessageLen(received) = HeaderLen + f[2] /\ FrameAt(received) = Frame(f[1], f[2])
      BY <2>2 DEF StartsMessage, MessageLen, FrameAt
    <2>4. received' \in {<<>>, <<PadUnit>>} /\ received' \in Seq(Units)
      <3> DEFINE r == SubSeq(received, HeaderLen + f[2] + 1, Len(received))
      <3>1. r \in {<<>>, <<PadUnit>>}
        BY <2>2
      <3>2. received' = Remainder(r)
        BY <1>2, <2>3
      <3> HIDE DEF r
      <3>3. received' \in {<<>>, <<PadUnit>>}
        BY <3>1, <3>2 DEF Remainder
      <3>4. <<>> \in Seq(Units) /\ <<PadUnit>> \in Seq(Units)
        BY PadIs
      <3> QED BY <3>3, <3>4
    <2>5. toHost' = Tail(toHost) /\ heard' = [heard EXCEPT !.host = Frame(f[1], f[2])]
      BY <1>5, <1>6, <2>3
    <2>6. Frame(f[1], f[2]) \in Heard
      BY <2>1 DEF Heard
    <2>7. DataTyped'
      BY <1>1, <1>3, <2>1, <2>4, <2>5, <2>6 DEF LinkInv, DataTyped
    <2>8. HostSide'
      <3>1. CASE received' = <<>>
        <4>1. Arrives(Tail(toHost), <<>>, txData)
          BY <1>1, <1>6, <2>1, FollowsArrives
        <4> QED BY <1>2, <1>3, <2>5, <3>1, <4>1 DEF HostSide
      <3>2. CASE received' = <<PadUnit>>
        <4>1. parsing' = TRUE
          <5>1. received' # <<>>
            <6>1. Len(<<PadUnit>>) = 1 /\ Len(<<>>) = 0
              OBVIOUS
            <6> QED BY <3>2, <6>1
          <5> QED BY <1>2, <5>1
        <4>2. Follows(toHost', txData')
          BY <1>3, <1>6, <2>5
        <4> QED BY <3>2, <4>1, <4>2 DEF HostSide
      <3> QED BY <2>4, <3>1, <3>2
    <2>9. NothingElse'
      BY <1>2, <1>3, <1>4, <1>6, <2>5 DEF LinkInv, NothingElse
    <2>10. DeviceSide'
      BY <1>3 DEF LinkInv, DeviceSide
    <2>11. heard'.host = Frame(f[1], f[2]) /\ heard'.device = heard.device
      BY <1>1, <2>5
    <2> QED BY <1>6, <2>1, <2>7, <2>8, <2>9, <2>10, <2>11 DEF LinkInv
  <1>7. CASE received = <<PadUnit>> /\ Follows(toHost, txData)
    <2>1. ~StartsMessage(received)
      BY <1>7 DEF StartsMessage, PadUnit, Unit
    <2>2. received' = <<>> /\ parsing' = FALSE /\ heard' = heard /\ toHost' = toHost
      BY <1>2, <1>5, <2>1
    <2>3. DataTyped'
      BY <1>3, <2>2 DEF LinkInv, DataTyped
    <2>4. HostSide'
      <3>1. Arrives(toHost, <<>>, txData)
        BY <1>1, <1>7, FollowsArrives
      <3> QED BY <1>3, <2>2, <3>1 DEF HostSide
    <2>5. NothingElse' /\ DeviceSide'
      BY <1>3, <2>2 DEF LinkInv, NothingElse, DeviceSide
    <2> QED BY <2>2, <2>3, <2>4, <2>5 DEF LinkInv
  <1> QED BY <1>2, <1>6, <1>7 DEF LinkInv, HostSide

LEMMA DataDeviceReceives ==
    LinkInv /\ DeviceReceives =>
        /\ LinkInv'
        /\ heard'.device # heard.device =>
              toDevice # <<>> /\ heard'.device = Frame(Head(toDevice)[1], Head(toDevice)[2])
        /\ heard'.host = heard.host
  <1> SUFFICES ASSUME LinkInv, DeviceReceives
               PROVE  /\ LinkInv'
                      /\ heard'.device # heard.device =>
                            toDevice # <<>> /\ heard'.device = Frame(Head(toDevice)[1], Head(toDevice)[2])
                      /\ heard'.host = heard.host
    OBVIOUS
  <1>1. toDevice \in Seq(Frames) /\ heard \in [host : Heard, device : Heard]
    BY DEF LinkInv, DataTyped
  <1>2. /\ rxStep = <<>> /\ rxLength # 0 /\ rxStep' = <<"clear", "arm">>
        /\ heard' \in {heard, [heard EXCEPT !.device = SubSeq(rxBuffer, HeaderLen + 1, HeaderLen + rxLength)]}
        /\ toDevice' = IF toDevice = <<>> THEN <<>> ELSE Tail(toDevice)
    BY DEF DeviceReceives, EthRx, StartRead
  <1>3. UNCHANGED <<configured, txLength, txData, rxArmed, rxBuffer, rxLength, phase, inUrb,
                    received, parsing, outData, toHost>>
    BY DEF DeviceReceives, EthRx, hostVars, txVars
  <1>4. /\ ~rxArmed /\ toDevice # <<>> /\ rxBuffer = Whole(toDevice[1])
        /\ rxLength = toDevice[1][2] /\ Follows(Tail(toDevice), outData)
    BY <1>2 DEF LinkInv, DeviceSide
  <1> DEFINE f == toDevice[1]
  <1>5. f \in Frames /\ Tail(toDevice) \in Seq(Frames) /\ Head(toDevice) = f
    BY <1>1, <1>4, TailFrames
  <1>6. SubSeq(rxBuffer, HeaderLen + 1, HeaderLen + rxLength) = Frame(f[1], f[2]) /\ Frame(f[1], f[2]) \in Heard
    BY <1>4, <1>5, WholeIs DEF Heard
  <1> HIDE DEF f
  <1>7. heard' \in [host : Heard, device : Heard] /\ heard'.host = heard.host
        /\ (heard'.device # heard.device => heard'.device = Frame(f[1], f[2]))
    BY <1>1, <1>2, <1>6
  <1>8. DataTyped'
    BY <1>2, <1>3, <1>4, <1>5, <1>7 DEF LinkInv, DataTyped
  <1>9. DeviceSide'
    BY <1>2, <1>3, <1>4 DEF DeviceSide
  <1>10. HostSide' /\ NothingElse'
    BY <1>2, <1>3, <1>4 DEF LinkInv, HostSide, NothingElse
  <1> QED BY <1>4, <1>5, <1>7, <1>8, <1>9, <1>10 DEF LinkInv

LEMMA DataDeviceRestarts == LinkInv /\ DeviceRestarts => LinkInv'
  <1> SUFFICES ASSUME LinkInv, DeviceRestarts PROVE LinkInv'
    OBVIOUS
  <1>1. toDevice \in Seq(Frames) /\ outData \in Seq(Units)
    BY DEF LinkInv, DataTyped
  <1>2. /\ rxStep # <<>> /\ rxStep' = Tail(rxStep)
        /\ \/ Head(rxStep) = "clear" /\ rxLength' = 0 /\ UNCHANGED <<rxArmed, rxBuffer>>
           \/ Head(rxStep) = "arm" /\ rxArmed' = TRUE /\ rxBuffer' = <<>> /\ UNCHANGED rxLength
    BY DEF DeviceRestarts, RestartRx
  <1>3. UNCHANGED <<configured, txLength, txData, phase, inUrb, received, parsing, outData, toHost, toDevice, heard>>
    BY DEF DeviceRestarts, RestartRx, hostVars, txVars, wayVars
  <1>4. /\ rxStep \in {<<"clear", "arm">>, <<"arm">>} /\ ~rxArmed /\ Follows(toDevice, outData)
        /\ rxStep = <<"arm">> => rxLength = 0
    BY <1>2 DEF LinkInv, DeviceSide
  <1>5. DataTyped'
    <2>1. rxBuffer \in Seq(Units) /\ <<>> \in Seq(Units)
      BY DEF LinkInv, DataTyped
    <2>2. rxBuffer' \in Seq(Units)
      BY <1>2, <2>1
    <2> QED BY <1>3, <2>2 DEF LinkInv, DataTyped
  <1>6. DeviceSide'
    <2>1. CASE rxStep = <<"clear", "arm">>
      <3>1. rxStep' = <<"arm">> /\ Head(rxStep) = "clear"
        BY <1>2, <2>1
      <3>2. rxLength' = 0 /\ rxArmed' = rxArmed
        BY <1>2, <3>1
      <3> QED BY <1>3, <1>4, <3>1, <3>2 DEF DeviceSide
    <2>2. CASE rxStep = <<"arm">>
      <3>1. rxStep' = <<>> /\ Head(rxStep) = "arm"
        BY <1>2, <2>2
      <3>2. rxLength' = 0 /\ rxBuffer' = <<>>
        BY <1>2, <1>4, <2>2, <3>1
      <3>3. Arrives(toDevice, <<>>, outData)
        BY <1>1, <1>4, FollowsArrives
      <3> QED BY <1>3, <3>1, <3>2, <3>3 DEF DeviceSide
    <2> QED BY <1>4, <2>1, <2>2
  <1>7. HostSide' /\ NothingElse'
    BY <1>3 DEF LinkInv, HostSide, NothingElse
  <1> QED BY <1>5, <1>6, <1>7 DEF LinkInv

LEMMA DataHostSubmits == LinkInv /\ HostSubmits => LinkInv'
  <1> SUFFICES ASSUME LinkInv, HostSubmits PROVE LinkInv'
    OBVIOUS
  <1>1. UNCHANGED <<deviceVars, phase, received, parsing, outData, wayVars>> /\ ~parsing
    BY DEF HostSubmits, SubmitIn, askVars
  <1>2. DataTyped' /\ HostSide' /\ DeviceSide' /\ NothingElse'
    BY <1>1 DEF LinkInv, DataTyped, HostSide, DeviceSide, NothingElse, deviceVars, wayVars
  <1> QED BY <1>2 DEF LinkInv

LEMMA LinkStutters == LinkInv /\ UNCHANGED linkVars => LinkInv'
  <1> SUFFICES ASSUME LinkInv, UNCHANGED linkVars PROVE LinkInv'
    OBVIOUS
  <1>1. UNCHANGED <<configured, txVars, rxVars, inVars, outData, wayVars>> /\ phase' = phase
    BY DEF linkVars, deviceVars, hostVars, wayVars, txVars, rxVars, inVars
  <1> QED BY <1>1, DataKept

LEMMA HeardKept ==
    [LinkNext]_linkVars => UNCHANGED heard \/ HostReceives \/ DeviceReceives
  BY DEF LinkNext, Data, Control, BusReset, Configure, Send, Get, ControlLost, Indicate, DeviceSends, HostSends,
         PacketToHost, PacketToDevice, DeviceRestarts, HostSubmits, linkVars, wayVars

LEMMA LinkInvStep == LinkInv /\ [LinkNext]_linkVars => LinkInv'
  BY DataReset, DataConfigure, DataControl, DataDeviceSends, DataHostSends, DataPacketToHost, DataPacketToDevice,
     DataHostReceives, DataDeviceReceives, DataDeviceRestarts, DataHostSubmits, LinkStutters
  DEF LinkNext, Data

(* Frames are handed over whole, in order and once, in both directions:    *)
(* the heads, the padding and the packets put the same frame together      *)
(* again, for every size of packets, headers, buffers and frames.          *)
THEOREM FramesAreIntact == LinkSpec => FramesIntact
  <1> DEFINE Step ==
        /\ heard'.host # heard.host =>
              toHost # <<>> /\ heard'.host = Frame(Head(toHost)[1], Head(toHost)[2])
        /\ heard'.device # heard.device =>
              toDevice # <<>> /\ heard'.device = Frame(Head(toDevice)[1], Head(toDevice)[2])
  <1>1. LinkInv /\ [LinkNext]_linkVars => [Step]_linkVars
    BY HeardKept, DataHostReceives, DataDeviceReceives
  <1> QED BY <1>1, LinkInvInit, LinkInvStep, PTL DEF LinkSpec, FramesIntact

-----------------------------------------------------------------------------
(* The answer in the buffer is the one to the command that was sent, from  *)
(* the command until its answer is fetched, unless the program was between *)
(* its test and its writes when the command came.                          *)
OwnInv ==
    /\ asking => rspPending /\ (rspBuffer = command \/ indicating = "spoilt")
    /\ indicating = "tested" => ~rspPending
    /\ phase = "off" => ~asking
    /\ linkFaults \in Nat

LEMMA OwnInit == LinkInit => OwnInv
  BY DEF LinkInit, HostInit, DeviceInit, OwnInv

LEMMA OwnStep == OwnInv /\ [LinkNext]_linkVars => OwnInv'
  <1> SUFFICES ASSUME OwnInv, [LinkNext]_linkVars PROVE OwnInv'
    OBVIOUS
  <1> USE DEF OwnInv
  <1>1. CASE BusReset
    BY <1>1 DEF BusReset, DeviceReset, controlVars, ALinkFault
  <1>2. CASE Configure
    BY <1>2 DEF Configure, HostConnects, DeviceConfigured, controlVars
  <1>3. CASE Send
    <2>1. rspPending' = TRUE /\ rspBuffer' = command' /\ indicating' # "tested"
      BY <1>3 DEF Send, SendEncapsulated, InitCommand, QueryCommand, SetCommand, KeepaliveCommand, Answered
    <2>2. phase' = phase /\ phase # "off" /\ linkFaults' = linkFaults
      BY <1>3 DEF Send, CommandSent, Due
    <2> QED BY <2>1, <2>2
  <1>4. CASE Get
    BY <1>4 DEF Get, AnswerFetched, GetEncapsulated
  <1>5. CASE ControlLost
    <2>1. asking' = FALSE /\ linkFaults' = linkFaults + 1 /\ (phase' = "off" => phase = "off")
      BY <1>5 DEF ControlLost, ControlFails, ALinkFault
    <2>2. indicating' = "tested" => ~rspPending'
      BY <1>5 DEF ControlLost, SendEncapsulated, GetEncapsulated, controlVars
    <2> QED BY <2>1, <2>2
  <1>6. CASE Indicate
    BY <1>6 DEF Indicate, TestConnect, SetConnect, Indicates, MayIndicate, hostVars
  <1>7. CASE DeviceSends \/ HostSends \/ PacketToHost \/ PacketToDevice \/ HostReceives
               \/ DeviceReceives \/ DeviceRestarts \/ HostSubmits
    <2>1. UNCHANGED <<asking, command, phase, rspBuffer, rspPending, indicating>>
      BY <1>7 DEF DeviceSends, HostSends, PacketToHost, PacketToDevice, HostReceives, DeviceReceives, DeviceRestarts,
           HostSubmits, EthTx, EthOutput, PacketIn, PacketSent, PacketReceived, PacketOut, TakeMessage, EthRx, RestartRx,
           SubmitIn, deviceVars, hostVars, controlVars, askVars
    <2>2. linkFaults' \in Nat
      BY <1>7 DEF DeviceSends, HostSends, PacketToHost, PacketToDevice, HostReceives, DeviceReceives, DeviceRestarts,
           HostSubmits, NoLinkFault, ALinkFault
    <2> QED BY <2>1, <2>2
  <1>8. CASE UNCHANGED linkVars
    BY <1>8 DEF linkVars, deviceVars, hostVars
  <1> QED BY <1>1, <1>2, <1>3, <1>4, <1>5, <1>6, <1>7, <1>8 DEF LinkNext, Control, Data

(* The answer that is fetched is the one to the host's own command: between *)
(* a command and its answer the device writes nothing else to the buffer,  *)
(* whatever its program indicates and whatever was lost before, unless the *)
(* command came between the test and the writes of usbd_rndis_set_connect. *)
THEOREM AnswersOwn == LinkSpec => OwnAnswer
  <1>1. OwnInv /\ [LinkNext]_linkVars =>
            [asking /\ ~asking' /\ linkFaults' = linkFaults =>
                 answer' = command \/ indicating = "spoilt"]_linkVars
    <2> SUFFICES ASSUME OwnInv, LinkNext, asking, ~asking', linkFaults' = linkFaults
                 PROVE  answer' = command \/ indicating = "spoilt"
      OBVIOUS
    <2>1. ~ALinkFault
      BY DEF OwnInv, ALinkFault
    <2>2. CASE Get
      BY <2>2 DEF OwnInv, Get, AnswerFetched
    <2>3. CASE Configure
      BY <2>3 DEF OwnInv, Configure
    <2>4. CASE Send
      BY <2>4 DEF Send, CommandSent
    <2>5. CASE BusReset \/ ControlLost
      BY <2>1, <2>5 DEF BusReset, ControlLost
    <2>6. CASE Indicate \/ Data
      BY <2>6 DEF Indicate, Data, DeviceSends, HostSends, PacketToHost, PacketToDevice, HostReceives, DeviceReceives,
           DeviceRestarts, HostSubmits, EthOutput, PacketIn, PacketOut, TakeMessage, SubmitIn, hostVars, askVars
    <2> QED BY <2>2, <2>3, <2>4, <2>5, <2>6 DEF LinkNext, Control
  <1> QED BY <1>1, OwnInit, OwnStep, PTL DEF LinkSpec, OwnAnswer
=============================================================================
