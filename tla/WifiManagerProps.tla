-------------------------- MODULE WifiManagerProps --------------------------
(***************************************************************************)
(* What must be true of the Wi-Fi manager.                                 *)
(***************************************************************************)
EXTENDS WifiManager

(* Nothing is under way in the firmware: no task has work, no message or   *)
(* event waits, and no timer runs.                                         *)
Quiet ==
    /\ mgrPc = "idle" /\ queue = <<>> /\ events = <<>>
    /\ evtOut = None /\ tmrOut = None
    /\ timerCmds = <<>> /\ timers = {}

(* The manager is the only task that empties its queue, and it sends to    *)
(* that queue with portMAX_DELAY from inside its handlers: if the queue    *)
(* is full then, it waits for itself.  That never happens.                 *)
ManagerNeverSelfBlocks == mgrPc = "send" => Len(queue) < QueueLength

(* No order reaches the driver in a mode that makes ESP_ERROR_CHECK abort: *)
(* above all, no retry that was started before the access point was given  *)
(* the radio fires after it.                                               *)
NeverAborts == mgrPc # "aborted"

(* The device is never left with nothing to do and no way to reach it: the *)
(* station is up or connecting, or the access point is.                    *)
NotStranded == Quiet => link # "down" \/ mode = "AP"

(* The bits that handlers decide by are exact once the events that change  *)
(* them have been handled.                                                 *)
BitsFollowDriver ==
    Running /\ events = <<>> =>
        /\ "CONNECTED" \in bits <=> link = "up"
        /\ "AP_STARTED" \in bits <=> mode = "AP"

(* The address the web server compares the Host header with is the         *)
(* station's lease when every event and message has been handled, although *)
(* losses and leases are written by different handlers.                    *)
AddressFollowsLease ==
    Quiet => staIp = linkAddr

(* At rest, one station of the access point that holds an address finds    *)
(* the web server and the captive DNS, and a station-mode device keeps the *)
(* web server it booted with and no DNS hijack.                            *)
ServersFollowMode ==
    Quiet => /\ mode = "AP" /\ (\E c \in Clients : clients[c] = "leased")
                    => http = "lru" /\ dns = "running"
             /\ mode = "STA" => http = "running" /\ dns = "stopped"

(* Again and again the device is on the network or is an access point.     *)
Reachable == []<>(link = "up" \/ mode = "AP")

(* The manager implements Connectivity: the phase is read off the driver.  *)
Phase ==
    CASE mode = "AP"                          -> "access_point"
      [] mode = "STA" /\ link = "up"          -> "online"
      [] mode = "STA" /\ link = "connecting"  -> "trying"
      [] mode = "STA" /\ link = "down" /\ failures = 0 -> "booted"
      [] mode = "STA" /\ link = "down" /\ failures > 0 -> "waiting"

Conn == INSTANCE Connectivity WITH phase <- Phase, failed <- failures

ImplementsConnectivity == Conn!CFairSpec

-----------------------------------------------------------------------------
(***************************************************************************)
(* The inductive invariant, when no application task sends orders.  While  *)
(* the radio is in station mode exactly one thing is in progress: a        *)
(* connection of the driver, the news of its end, or what the manager does *)
(* about it.  Everything else is empty, except that news of leases may     *)
(* still precede the news of a loss.                                       *)
(***************************************************************************)
LeaseMsg(m)     == m.code = "STA_GOT_IP"
LossMsg         == Order("STA_DISCONNECTED")
LeaseMsgs(q)    == \A i \in 1..Len(q) : LeaseMsg(q[i])
LeaseEvents(es) == \A i \in 1..Len(es) : es[i].ev = "STA_GOT_IP"

NoEvents   == events = <<>> /\ evtOut = None
MgrIdle    == mgrPc = "idle" /\ queue = <<>>
TimersIdle ==
    /\ timers = {} /\ tmrOut = None
    /\ timerCmds = <<>> \/ timerCmds = <<"stop_retry">>

(* The message in progress is in the queue or in the manager's hands.      *)
Carried(m) ==
    \/ queue = <<m>> /\ mgrPc = "idle"
    \/ queue = <<>> /\ mgrPc = "handle" /\ mgrMsg = m
    \/ queue = <<>> /\ mgrPc = "send" /\ mgrMsg = m

Unlinked == link = "down" /\ "CONNECTED" \notin bits \cup uxBits

Loading ==
    /\ Unlinked /\ NoEvents /\ TimersIdle
    /\ Carried(Order("LOAD_AND_RESTORE_STA")) /\ mgrPc # "send"
    /\ failures = 0 /\ retries = 0

ConnectOrdered ==
    /\ Unlinked /\ NoEvents /\ TimersIdle /\ staConfig = "saved"
    /\ \E why \in {"RESTORE", "AUTO_RECONNECT"} : Carried(Connect(why))
    /\ retries = failures

ApOrdered ==
    /\ Unlinked /\ NoEvents /\ TimersIdle
    /\ Carried(Order("START_AP"))
    /\ failures \in {0, MaxRetry + 1} /\ retries = 0

Connecting ==
    /\ link = "connecting" /\ "CONNECTED" \notin bits
    /\ NoEvents /\ TimersIdle /\ MgrIdle /\ staConfig = "saved"
    /\ retries = failures

(* The manager is at rest or notes a lease.                                *)
NotingLeases == mgrPc = "idle" \/ (mgrPc = "handle" /\ LeaseMsg(mgrMsg))
EvtOutLease  == evtOut = None \/ LeaseMsg(evtOut)

Linked ==
    /\ link = "up" /\ failures = 0 /\ staConfig = "saved" /\ TimersIdle
    /\ LeaseMsgs(queue) /\ EvtOutLease /\ LeaseEvents(events) /\ NotingLeases
    /\ retries = 0 \/ queue # <<>> \/ evtOut # None \/ events # <<>> \/ mgrPc = "handle"

(* The loss is the first one if a lease precedes it, and otherwise one     *)
(* more than the retries made.                                             *)
RetriesCount(leasePrecedes) ==
    /\ leasePrecedes => failures = 1
    /\ ~leasePrecedes => retries + 1 = failures

(* A loss is on its way to the manager, last after any lease.              *)
LossInEvents ==
    /\ LeaseMsgs(queue) /\ EvtOutLease /\ NotingLeases
    /\ events # <<>> /\ events[Len(events)].ev = "STA_DISCONNECTED"
    /\ \A i \in 1..Len(events) - 1 : events[i].ev = "STA_GOT_IP"
    /\ RetriesCount(Len(events) > 1 \/ evtOut # None \/ queue # <<>> \/ mgrPc = "handle")

LossInTask ==
    /\ LeaseMsgs(queue) /\ NotingLeases /\ events = <<>> /\ evtOut = LossMsg
    /\ "CONNECTED" \notin bits
    /\ RetriesCount(queue # <<>> \/ mgrPc = "handle")

LossInQueue ==
    /\ NoEvents /\ NotingLeases /\ "CONNECTED" \notin bits
    /\ queue # <<>> /\ queue[Len(queue)] = LossMsg
    /\ \A i \in 1..Len(queue) - 1 : LeaseMsg(queue[i])
    /\ RetriesCount(Len(queue) > 1 \/ mgrPc = "handle")

LossHandled ==
    /\ NoEvents /\ queue = <<>> /\ "CONNECTED" \notin bits
    /\ mgrPc = "handle" /\ mgrMsg = LossMsg
    /\ retries + 1 = failures

Lost ==
    /\ link = "down" /\ staConfig = "saved" /\ TimersIdle
    /\ LossInEvents \/ LossInTask \/ LossInQueue \/ LossHandled

RetryPending ==
    /\ Unlinked /\ NoEvents /\ MgrIdle /\ staConfig = "saved"
    /\ failures > 0 /\ retries = failures
    /\ \/ /\ timerCmds = <<"start_retry">> \/ timerCmds = <<"stop_retry", "start_retry">>
          /\ timers = {} /\ tmrOut = None
       \/ timerCmds = <<>> /\ timers = {"retry"} /\ tmrOut = None
       \/ /\ timerCmds = <<"stop_retry">> /\ timers = {}
          /\ tmrOut = Connect("AUTO_RECONNECT")

NoRequests ==
    (bits \cup uxBits) \cap {"AP_STARTED", "REQUEST_STA_CONNECT", "REQUEST_DISCONNECT"} = {}

StationInv ==
    /\ NoRequests
    /\ \/ Loading \/ ConnectOrdered \/ ApOrdered \/ Connecting
       \/ Linked \/ Lost \/ RetryPending

HttpMsg(m) == m.code \in {"START_HTTP_SERVER", "STOP_HTTP_SERVER"}
ApEvents   == {"AP_START", "AP_STAIPASSIGNED", "AP_STADISCONNECTED"}

AccessPointInv ==
    /\ link = "down" /\ TimersIdle
    /\ \A i \in 1..Len(queue) : HttpMsg(queue[i])
    /\ \A i \in 1..Len(events) : events[i].ev \in ApEvents
    /\ evtOut = None \/ HttpMsg(evtOut)
    /\ mgrPc = "idle" \/ (mgrPc = "handle" /\ HttpMsg(mgrMsg))

InProgress ==
    /\ scan = "idle" /\ "shutdown" \notin timers
    /\ mode = "STA" => StationInv
    /\ mode = "AP" => AccessPointInv

OneThingInProgress == TypeOK /\ InProgress

-----------------------------------------------------------------------------
(***************************************************************************)
(* Inductive invariants about what is on its way.  The driver is ahead of  *)
(* the firmware by the events and messages that wait; what the firmware    *)
(* will believe once it has handled them agrees with the driver at any     *)
(* time.                                                                   *)
(***************************************************************************)

(* What a value that is now "now" will be when s has been handled: what    *)
(* the last news in s says, where says maps each news to a value.          *)
NewsIn(s, says) == {i \in 1..Len(s) : s[i] \in DOMAIN says}
Foretold(s, says, now) ==
    LET news == NewsIn(s, says)
    IN  IF news = {} THEN now ELSE says[s[CHOOSE i \in news : \A j \in news : j <= i]]

EventsOf(evs) == {e \in Events : e.ev \in evs}
OnOff(p) == IF p THEN "on" ELSE "off"

LinkEvents == [e \in EventsOf({"STA_GOT_IP", "STA_DISCONNECTED"}) |-> OnOff(e.ev = "STA_GOT_IP")]
ModeEvents == [e \in EventsOf({"AP_START", "AP_STOP"}) |-> OnOff(e.ev = "AP_START")]

(* The bits that event_handler will have left.                             *)
BitsForetold ==
    /\ Foretold(events, LinkEvents, OnOff("CONNECTED" \in bits)) = OnOff(link = "up")
    /\ Foretold(events, ModeEvents, OnOff("AP_STARTED" \in bits)) = OnOff(mode = "AP")

(* News goes from the events to the event task, from there to the queue,   *)
(* and from there to the manager, which has noted what it has not in hand. *)
Sent(msgSays, noted) ==
    IF evtOut \in DOMAIN msgSays THEN msgSays[evtOut] ELSE Foretold(queue, msgSays, noted)
OnItsWay(eventSays, msgSays, noted) == Foretold(events, eventSays, Sent(msgSays, noted))

AddressEvents   == [e \in EventsOf({"STA_GOT_IP", "STA_DISCONNECTED"}) |-> e.addr]
AddressMessages ==
    [m \in {m \in Messages : m.code \in {"STA_GOT_IP", "STA_DISCONNECTED"}} |-> m.param]

AddressInHand == IF Handling("STA_GOT_IP") THEN mgrMsg.param ELSE staIp

(* The address that wifi_manager_sta_ip will have is the lease, which a    *)
(* station that is not up has not.  Only event_handler sends news of it.   *)
AddressForetold ==
    /\ OnItsWay(AddressEvents, AddressMessages, AddressInHand) = linkAddr
    /\ link # "up" => linkAddr = NoAddr
    /\ tmrOut \notin DOMAIN AddressMessages
    /\ mgrPc = "send" => mgrMsg \notin DOMAIN AddressMessages

Serving == <<"lru", "running">>
Closed  == <<"stopped", "stopped">>

ServerEvents ==
    [e \in EventsOf({"AP_STAIPASSIGNED", "AP_STADISCONNECTED"}) |->
        IF e.ev = "AP_STAIPASSIGNED" THEN Serving ELSE Closed]
ServerMessages ==
    [m \in {m \in Messages : HttpMsg(m)} |->
        IF m.code = "START_HTTP_SERVER" THEN Serving ELSE Closed]

ServersInHand ==
    IF mgrPc = "handle" /\ HttpMsg(mgrMsg) THEN ServerMessages[mgrMsg] ELSE <<http, dns>>

(* The servers will run when the station of the access point has a lease;  *)
(* in station mode they are as they were at the start.                     *)
ServersForetold ==
    /\ mode = "STA" => http = "running" /\ dns = "stopped"
    /\ mode = "AP" /\ (\E c \in Clients : clients[c] = "leased")
          => OnItsWay(ServerEvents, ServerMessages, ServersInHand) = Serving
=============================================================================
