---------------------------- MODULE WifiManager ----------------------------
(***************************************************************************)
(* The Wi-Fi manager of the firmware (user_components/wifi_manager): one   *)
(* task that consumes a short FreeRTOS queue of orders and events, and the *)
(* three other tasks that fill the queue -- the system event task, which   *)
(* runs event_handler; the timer daemon, which runs the two timer          *)
(* callbacks; and, in the configurations that allow it, an application     *)
(* task that uses wifi_manager_send_message.                               *)
(*                                                                         *)
(* Every sender waits for room with portMAX_DELAY, the manager included:   *)
(* a send is a step of its own, enabled only when the queue has room.  A   *)
(* handler of the manager is two steps, because it takes a snapshot of the *)
(* event bits (uxBits) and acts on the snapshot later, and the event task, *)
(* whose priority is higher, can run in between.                           *)
(***************************************************************************)
EXTENDS Naturals, Sequences

CONSTANTS
    QueueLength,   \* xQueueCreate(3, ...)
    TimerQueueLength, \* commands the timer daemon's queue holds
    MaxRetry,      \* CONFIG_WIFI_MANAGER_MAX_RETRY_START_AP
    Addrs,         \* addresses the network's DHCP server may lease
    NoAddr,        \* the address 0.0.0.0
    Clients,       \* stations that may join the access point
    UserOrders,    \* orders an application task may send
    MaxEvents      \* bound: the driver posts no event while this many wait

Msg(code, param) == [code |-> code, param |-> param]
Order(code)      == Msg(code, NoAddr)
Connect(why)     == Msg("CONNECT_STA", why)

OrderMessages ==
    {Order(c) : c \in {"LOAD_AND_RESTORE_STA", "DISCONNECT_STA", "START_AP",
                       "STOP_AP", "START_HTTP_SERVER", "STOP_HTTP_SERVER",
                       "START_WIFI_SCAN"}}
    \cup {Connect(why) : why \in {"USER", "RESTORE", "AUTO_RECONNECT"}}

Messages ==
    OrderMessages
    \cup {Order("STA_DISCONNECTED")}
    \cup {Msg("STA_GOT_IP", a) : a \in Addrs}

(* Addresses are told apart from the reasons of a connection request.      *)
ASSUME ConstantsAssumption ==
    /\ QueueLength \in Nat \ {0}
    /\ TimerQueueLength \in Nat \ {0, 1}
    /\ MaxRetry \in Nat
    /\ MaxEvents \in Nat
    /\ NoAddr \notin Addrs
    /\ UserOrders \subseteq OrderMessages

None == Order("NONE")

Bits == {"CONNECTED", "AP_STARTED", "REQUEST_STA_CONNECT",
         "REQUEST_RESTORE_STA", "SCAN", "REQUEST_DISCONNECT"}

(* What the Wi-Fi driver tells the system event task.                      *)
Ev(ev, addr) == [ev |-> ev, addr |-> addr]
Events ==
    {Ev(e, NoAddr) : e \in {"STA_DISCONNECTED", "AP_START", "AP_STOP",
                            "AP_STAIPASSIGNED", "AP_STADISCONNECTED",
                            "SCAN_DONE"}}
    \cup {Ev("STA_GOT_IP", a) : a \in Addrs}

TimerCmds == {"start_retry", "stop_retry", "start_shutdown", "stop_shutdown"}

(* Bound: the history of failures is not counted beyond this.              *)
FailuresBound == MaxRetry + 2

VARIABLES
    \* the manager task
    queue,         \* wifi_manager_queue
    mgrPc,         \* "idle" in xQueueReceive, "handle" a message, "send", "aborted"
    mgrMsg,        \* the message being handled or sent
    uxBits,        \* the handler's snapshot of the event bits
    retries,
    staConfig, \* wifi_config->sta names a network
    \* shared between the tasks
    bits,          \* wifi_manager_event_group
    staIp,         \* wifi_manager_sta_ip
    \* what the manager starts and stops
    http,          \* httpd_handle: "stopped", "running", "lru" (lru_purge_enable)
    dns,           \* task_dns_server is running
    \* the other senders: the message each waits to send, or None
    evtOut, tmrOut,
    \* the timer daemon
    timerCmds,     \* commands xTimerStart and xTimerStop have queued
    timers,        \* the timers that run
    \* the Wi-Fi driver, external
    events,        \* the system event queue
    mode,          \* "STA" or "AP"
    link,          \* the station: "down", "connecting", "up"
    linkAddr,      \* the address leased to the station
    failures,      \* history: connections failed or lost since an address was leased
    scan,
    clients        \* stations of the access point: "away", "joined", "leased"

mgrVars   == <<mgrPc, mgrMsg, uxBits, retries, staConfig>>
sideVars  == <<evtOut, tmrOut>>
httpVars  == <<http, dns>>
timerVars == <<timerCmds, timers>>
linkVars  == <<link, linkAddr, failures>>
wifiVars  == <<events, mode, link, linkAddr, failures, scan, clients>>
vars == <<queue, mgrPc, mgrMsg, uxBits, retries, staConfig, bits, staIp,
          http, dns, evtOut, tmrOut, timerCmds, timers, events, mode, link, linkAddr, failures, scan,
          clients>>

TypeQueue == queue \in Seq(Messages) /\ Len(queue) <= QueueLength

TypeManager ==
    /\ mgrPc \in {"idle", "handle", "send", "aborted"}
    /\ mgrMsg \in Messages \cup {None}
    /\ mgrPc \in {"handle", "send"} => mgrMsg \in Messages
    /\ uxBits \in SUBSET Bits
    /\ retries \in 0..MaxRetry
    /\ staConfig \in {"erased", "saved"}

TypeShared ==
    /\ bits \in SUBSET Bits
    /\ staIp \in Addrs \cup {NoAddr}
    /\ http \in {"stopped", "running", "lru"}
    /\ dns \in {"stopped", "running"}

TypeSenders ==
    /\ evtOut \in Messages \cup {None}
    /\ tmrOut \in Messages \cup {None}

TypeTimers ==
    /\ timerCmds \in Seq(TimerCmds) /\ Len(timerCmds) <= TimerQueueLength
    /\ timers \in SUBSET {"retry", "shutdown"}

TypeWifi ==
    /\ events \in Seq(Events)
    /\ mode \in {"STA", "AP"}
    /\ link \in {"down", "connecting", "up"}
    /\ linkAddr \in Addrs \cup {NoAddr}
    /\ failures \in 0..FailuresBound
    /\ scan \in {"idle", "running"}
    /\ clients \in [Clients -> {"away", "joined", "leased"}]

TypeOK ==
    TypeQueue /\ TypeManager /\ TypeShared /\ TypeSenders /\ TypeTimers /\ TypeWifi

(* The manager has run its preamble and enters its loop: the radio is up   *)
(* in station mode, the web server runs without the LRU purge, and the     *)
(* first order is in the queue.                                            *)
Init ==
    /\ queue = <<Order("LOAD_AND_RESTORE_STA")>>
    /\ mgrPc = "idle" /\ mgrMsg = None /\ uxBits = {}
    /\ retries = 0 /\ staConfig = "erased"
    /\ bits = {} /\ staIp = NoAddr
    /\ http = "running" /\ dns = "stopped"
    /\ evtOut = None /\ tmrOut = None
    /\ timerCmds = <<>> /\ timers = {}
    /\ events = <<>> /\ mode = "STA" /\ link = "down" /\ linkAddr = NoAddr
    /\ failures = 0 /\ scan = "idle"
    /\ clients = [c \in Clients |-> "away"]

-----------------------------------------------------------------------------
(* The manager's loop.                                                     *)

(* A handler ends: back to xQueueReceive, or off to send one last message. *)
Done    == mgrPc' = "idle" /\ mgrMsg' = None /\ uxBits' = {}
Then(m) == mgrPc' = "send" /\ mgrMsg' = m /\ uxBits' = {}

(* ESP_ERROR_CHECK on an error code calls abort().                         *)
Abort   == mgrPc' = "aborted" /\ mgrMsg' = None /\ uxBits' = {}

(* xTimerStart and xTimerStop with no time to wait: the command is lost    *)
(* when the daemon's queue is full, and the result is ignored.             *)
Post(cmd) ==
    IF Len(timerCmds) < TimerQueueLength THEN Append(timerCmds, cmd) ELSE timerCmds

OneMore(n) == IF n < FailuresBound THEN n + 1 ELSE n

(* The request bits CONNECT_STA sets before it looks at the others.        *)
Requested(m) ==
    CASE m = Connect("USER")    -> {"REQUEST_STA_CONNECT"}
      [] m = Connect("RESTORE") -> {"REQUEST_RESTORE_STA"}
      [] OTHER                  -> {}

(* The messages whose handlers call xEventGroupGetBits.                    *)
ReadsBits == {"START_WIFI_SCAN", "CONNECT_STA", "STA_DISCONNECTED", "STOP_AP",
              "STA_GOT_IP"}

(* wifi_manager_safe_update_sta_ip_string(0) on a disconnection.  Fault:   *)
(* the old address stays.                                                  *)
AddressKept(m) == staIp
AddressOnReceive(m) == IF m.code = "STA_DISCONNECTED" THEN NoAddr ELSE staIp

(* xQueueReceive, and what a handler does up to its xEventGroupGetBits.  A *)
(* disconnection first zeroes the address string and cancels the timer     *)
(* that would stop the access point.                                       *)
Receive ==
    /\ mgrPc = "idle" /\ queue # <<>>
    /\ LET m == Head(queue) IN
       /\ queue' = Tail(queue)
       /\ mgrPc' = "handle" /\ mgrMsg' = m
       /\ bits' = bits \cup Requested(m)
       /\ uxBits' = IF m.code \in ReadsBits THEN bits' ELSE {}
       /\ staIp' = AddressOnReceive(m)
       /\ timerCmds' = IF m.code = "STA_DISCONNECTED" /\ "shutdown" \in timers
                       THEN Post("stop_shutdown") ELSE timerCmds
    /\ UNCHANGED <<retries, staConfig, http, dns, evtOut, tmrOut,
                   timers, events, mode, link, linkAddr,
                   failures, scan, clients>>

Running == mgrPc # "aborted"

(* The driver posts an event when the event task's queue has room for it.  *)
Room == Running /\ Len(events) < MaxEvents

Handling(code) == mgrPc = "handle" /\ mgrMsg.code = code

(* wifi_manager_send_message from inside a handler: the only consumer of   *)
(* the queue waits for room in it.                                         *)
ManagerSend ==
    /\ mgrPc = "send" /\ Len(queue) < QueueLength
    /\ queue' = Append(queue, mgrMsg)
    /\ Done
    /\ UNCHANGED <<retries, staConfig, bits, staIp, httpVars, sideVars,
                   timerVars, wifiVars>>

(* Settings either hold an enabled network, which is copied to wifi_config,*)
(* or not, and then the access point is started.                           *)
LoadAndRestoreSta ==
    /\ Handling("LOAD_AND_RESTORE_STA")
    /\ \/ staConfig' = "saved" /\ Then(Connect("RESTORE"))
       \/ UNCHANGED staConfig /\ Then(Order("START_AP"))
    /\ UNCHANGED <<queue, retries, bits, staIp, httpVars, sideVars, timerVars,
                   wifiVars>>

(* esp_wifi_connect fails without the station interface or without a       *)
(* network name, and a failure aborts.                                     *)
CanConnect == mode = "STA" /\ staConfig = "saved"

ConnectSta ==
    /\ Handling("CONNECT_STA") /\ Room
    /\ \/ /\ "CONNECTED" \in uxBits
          /\ Done
          /\ UNCHANGED <<link, events, scan>>
       \/ /\ "CONNECTED" \notin uxBits
          /\ IF "SCAN" \in uxBits /\ scan = "running"
             THEN scan' = "idle" /\ events' = Append(events, Ev("SCAN_DONE", NoAddr))
             ELSE UNCHANGED <<scan, events>>
          /\ IF CanConnect
             THEN /\ link' = IF link = "down" THEN "connecting" ELSE link
                  /\ Done
             ELSE UNCHANGED link /\ Abort
    /\ UNCHANGED <<queue, retries, staConfig, bits, staIp, httpVars,
                   sideVars, timerVars, mode, linkAddr, failures, clients>>

(* Fault: one retry more than configured.                                  *)
RetriesLeftInclusive == retries <= MaxRetry
RetriesLeft == retries < MaxRetry

(* The connection was lost beyond repair.  Faults: the retry timer is      *)
(* started here too; the access point is not started.                      *)
FallBackAndRetry ==
    retries' = 0 /\ Then(Order("START_AP")) /\ timerCmds' = Post("start_retry")
FallBackForgotten == retries' = 0 /\ Done /\ UNCHANGED timerCmds
FallBack == retries' = 0 /\ Then(Order("START_AP")) /\ UNCHANGED timerCmds

(* The end of a connection means one of three things, told apart by the    *)
(* request bits of the snapshot.                                           *)
StaDisconnected ==
    /\ Handling("STA_DISCONNECTED")
    /\ \/ /\ "REQUEST_STA_CONNECT" \in uxBits
          /\ bits' = bits \ {"REQUEST_STA_CONNECT"}
          /\ Done
          /\ UNCHANGED <<retries, staConfig, timerCmds>>
       \/ /\ "REQUEST_STA_CONNECT" \notin uxBits
          /\ "REQUEST_DISCONNECT" \in uxBits
          /\ bits' = bits \ {"REQUEST_DISCONNECT"}
          /\ staConfig' = "erased"
          /\ Then(Order("START_AP"))
          /\ UNCHANGED <<retries, timerCmds>>
       \/ /\ uxBits \cap {"REQUEST_STA_CONNECT", "REQUEST_DISCONNECT"} = {}
          /\ bits' = bits \ {"REQUEST_RESTORE_STA"}
          /\ \/ /\ "AP_STARTED" \in uxBits
                /\ Done
                /\ UNCHANGED <<retries, timerCmds>>
             \/ /\ "AP_STARTED" \notin uxBits /\ RetriesLeft
                /\ retries' = retries + 1
                /\ timerCmds' = Post("start_retry")
                /\ Done
             \/ /\ "AP_STARTED" \notin uxBits /\ ~RetriesLeft
                /\ FallBack
          /\ UNCHANGED staConfig
    /\ UNCHANGED <<queue, staIp, httpVars, sideVars, timers, wifiVars>>

(* esp_wifi_stop, esp_wifi_set_mode(WIFI_MODE_AP), esp_wifi_start: a       *)
(* connected station is disconnected, a running access point restarted.    *)
StartAp ==
    /\ Handling("START_AP") /\ Room
    /\ Done
    /\ mode' = "AP" /\ link' = "down" /\ linkAddr' = NoAddr
    /\ failures' = IF link = "up" THEN OneMore(failures) ELSE failures
    /\ clients' = [c \in Clients |-> "away"]
    /\ scan' = "idle"
    /\ events' = events \o (IF link = "up" THEN <<Ev("STA_DISCONNECTED", NoAddr)>> ELSE <<>>)
                        \o (IF mode = "AP" THEN <<Ev("AP_STOP", NoAddr)>> ELSE <<>>)
                        \o <<Ev("AP_START", NoAddr)>>
    /\ UNCHANGED <<queue, retries, staConfig, bits, staIp, httpVars,
                   sideVars, timerVars>>

(* http_app_stop, then http_app_start(true).  Fault: started without being *)
(* stopped, which http_app_start ignores when the server runs.             *)
StartHttpOnly == http' = IF http = "stopped" THEN "lru" ELSE http
RestartHttp   == http' = "lru"

StartHttpServer ==
    /\ Handling("START_HTTP_SERVER")
    /\ RestartHttp /\ dns' = "running"
    /\ Done
    /\ UNCHANGED <<queue, retries, staConfig, bits, staIp, sideVars,
                   timerVars, wifiVars>>

StopHttpServer ==
    /\ Handling("STOP_HTTP_SERVER")
    /\ http' = "stopped" /\ dns' = "stopped"
    /\ Done
    /\ UNCHANGED <<queue, retries, staConfig, bits, staIp, sideVars,
                   timerVars, wifiVars>>

(* The access point stops only if the snapshot says the station is up.     *)
StopAp ==
    /\ Handling("STOP_AP") /\ Room
    /\ Done
    /\ IF "CONNECTED" \in uxBits
       THEN /\ mode' = "STA"
            /\ clients' = [c \in Clients |-> "away"]
            /\ events' = IF mode = "AP" THEN Append(events, Ev("AP_STOP", NoAddr))
                         ELSE events
            /\ http' = "running" /\ dns' = "stopped"
       ELSE UNCHANGED <<mode, clients, events, httpVars>>
    /\ UNCHANGED <<queue, retries, staConfig, bits, staIp, sideVars,
                   timerVars, link, linkAddr, failures, scan>>

(* The access point, if it runs, is stopped after a delay.  Fault: it is   *)
(* ordered to stop at once, whether it runs or not.                        *)
ShutdownAtOnce == Then(Order("STOP_AP")) /\ UNCHANGED timerCmds
ScheduleShutdown ==
    /\ Done
    /\ timerCmds' = IF "AP_STARTED" \in uxBits
                    THEN Post("start_shutdown") ELSE timerCmds

StaGotIp ==
    /\ Handling("STA_GOT_IP")
    /\ bits' = bits \ {"REQUEST_STA_CONNECT", "REQUEST_RESTORE_STA"}
    /\ staIp' = mgrMsg.param
    /\ retries' = 0
    /\ dns' = "stopped"
    /\ ScheduleShutdown
    /\ UNCHANGED <<queue, staConfig, http, sideVars, timers, wifiVars>>

(* esp_wifi_scan_start fails in access-point mode and while connecting.    *)
StartWifiScan ==
    /\ Handling("START_WIFI_SCAN")
    /\ IF "SCAN" \in uxBits
       THEN Done /\ UNCHANGED <<bits, scan>>
       ELSE /\ bits' = bits \cup {"SCAN"}
            /\ IF mode = "STA" /\ link # "connecting"
               THEN Done /\ scan' = "running"
               ELSE Abort /\ UNCHANGED scan
    /\ UNCHANGED <<queue, retries, staConfig, staIp, httpVars, sideVars,
                   timerVars, events, mode, linkVars, clients>>

DisconnectSta ==
    /\ Handling("DISCONNECT_STA") /\ Room
    /\ bits' = bits \cup {"REQUEST_DISCONNECT"}
    /\ Done
    /\ link' = "down" /\ linkAddr' = NoAddr
    /\ IF link = "down" THEN UNCHANGED <<events, failures>>
       ELSE /\ events' = Append(events, Ev("STA_DISCONNECTED", NoAddr))
            /\ failures' = OneMore(failures)
    /\ UNCHANGED <<queue, retries, staConfig, staIp, httpVars, sideVars,
                   timerVars, mode, scan, clients>>

(* abort() restarts the chip: everything in RAM is lost.                   *)
Reboot ==
    /\ mgrPc = "aborted"
    /\ queue' = <<Order("LOAD_AND_RESTORE_STA")>>
    /\ mgrPc' = "idle" /\ mgrMsg' = None /\ uxBits' = {}
    /\ retries' = 0 /\ staConfig' = "erased"
    /\ bits' = {} /\ staIp' = NoAddr
    /\ http' = "running" /\ dns' = "stopped"
    /\ evtOut' = None /\ tmrOut' = None
    /\ timerCmds' = <<>> /\ timers' = {}
    /\ events' = <<>> /\ mode' = "STA" /\ link' = "down" /\ linkAddr' = NoAddr
    /\ failures' = 0 /\ scan' = "idle"
    /\ clients' = [c \in Clients |-> "away"]

Handle ==
    \/ LoadAndRestoreSta \/ ConnectSta \/ StaDisconnected \/ StartAp
    \/ StartHttpServer \/ StopHttpServer \/ StopAp \/ StaGotIp
    \/ StartWifiScan \/ DisconnectSta

Manager == Receive \/ Handle \/ ManagerSend

-----------------------------------------------------------------------------
(* The system event task runs event_handler on one event after another.    *)

(* The bits an event changes, and the message it makes, None for those     *)
(* event_handler only logs.  Faults: a disconnection leaves CONNECTED set; *)
(* a disconnection is not passed on to the manager.                        *)
BitsAfterKeepsConnected(e) ==
    CASE e.ev = "STA_DISCONNECTED" -> bits \ {"SCAN"}
      [] e.ev = "STA_GOT_IP"       -> bits \cup {"CONNECTED"}
      [] e.ev = "AP_START"         -> bits \cup {"AP_STARTED"}
      [] e.ev = "AP_STOP"          -> bits \ {"AP_STARTED"}
      [] OTHER                     -> bits

BitsAfter(e) ==
    CASE e.ev = "STA_DISCONNECTED" -> bits \ {"CONNECTED", "SCAN"}
      [] e.ev = "STA_GOT_IP"       -> bits \cup {"CONNECTED"}
      [] e.ev = "AP_START"         -> bits \cup {"AP_STARTED"}
      [] e.ev = "AP_STOP"          -> bits \ {"AP_STARTED"}
      [] OTHER                     -> bits

MessageOfWithoutLoss(e) ==
    CASE e.ev = "STA_GOT_IP"         -> Msg("STA_GOT_IP", e.addr)
      [] e.ev = "AP_STAIPASSIGNED"   -> Order("START_HTTP_SERVER")
      [] e.ev = "AP_STADISCONNECTED" -> Order("STOP_HTTP_SERVER")
      [] OTHER                       -> None

MessageOf(e) ==
    CASE e.ev = "STA_DISCONNECTED"   -> Order("STA_DISCONNECTED")
      [] e.ev = "STA_GOT_IP"         -> Msg("STA_GOT_IP", e.addr)
      [] e.ev = "AP_STAIPASSIGNED"   -> Order("START_HTTP_SERVER")
      [] e.ev = "AP_STADISCONNECTED" -> Order("STOP_HTTP_SERVER")
      [] OTHER                       -> None

EventHandler ==
    /\ Running /\ evtOut = None /\ events # <<>>
    /\ events' = Tail(events)
    /\ bits' = BitsAfter(Head(events))
    /\ evtOut' = MessageOf(Head(events))
    /\ UNCHANGED <<queue, mgrVars, staIp, httpVars, tmrOut, timerVars,
                   mode, linkVars, scan, clients>>

EventSend ==
    /\ Running /\ evtOut # None /\ Len(queue) < QueueLength
    /\ queue' = Append(queue, evtOut)
    /\ evtOut' = None
    /\ UNCHANGED <<mgrVars, bits, staIp, httpVars, tmrOut, timerVars,
                   wifiVars>>

-----------------------------------------------------------------------------
(* The timer daemon: it executes the queued commands in order, and the     *)
(* callbacks of the timers that expire.  A callback that waits for room in *)
(* the manager's queue holds up the commands.                              *)

TimerCommand ==
    /\ Running /\ tmrOut = None /\ timerCmds # <<>>
    /\ LET c == Head(timerCmds) IN
       timers' = CASE c = "start_retry"    -> timers \cup {"retry"}
                   [] c = "stop_retry"     -> timers \ {"retry"}
                   [] c = "start_shutdown" -> timers \cup {"shutdown"}
                   [] c = "stop_shutdown"  -> timers \ {"shutdown"}
    /\ timerCmds' = Tail(timerCmds)
    /\ UNCHANGED <<queue, mgrVars, bits, staIp, httpVars, sideVars, wifiVars>>

RetryExpires ==
    /\ Running /\ tmrOut = None /\ "retry" \in timers
    /\ timers' = timers \ {"retry"}
    /\ timerCmds' = Post("stop_retry")
    /\ tmrOut' = Connect("AUTO_RECONNECT")
    /\ UNCHANGED <<queue, mgrVars, bits, staIp, httpVars, evtOut, wifiVars>>

ShutdownExpires ==
    /\ Running /\ tmrOut = None /\ "shutdown" \in timers
    /\ timers' = timers \ {"shutdown"}
    /\ timerCmds' = Post("stop_shutdown")
    /\ tmrOut' = Order("STOP_AP")
    /\ UNCHANGED <<queue, mgrVars, bits, staIp, httpVars, evtOut, wifiVars>>

TimerSend ==
    /\ Running /\ tmrOut # None /\ Len(queue) < QueueLength
    /\ queue' = Append(queue, tmrOut)
    /\ tmrOut' = None
    /\ UNCHANGED <<mgrVars, bits, staIp, httpVars, evtOut, timerVars,
                   wifiVars>>

-----------------------------------------------------------------------------
(* An application task that orders what wifi_manager.h lets it order.      *)

UserOrder ==
    /\ Running /\ Len(queue) < QueueLength
    /\ \E m \in UserOrders : queue' = Append(queue, m)
    /\ UNCHANGED <<mgrVars, bits, staIp, httpVars, sideVars, timerVars, wifiVars>>

-----------------------------------------------------------------------------
(* The Wi-Fi driver and the network, external to the firmware.             *)

softVars == <<queue, mgrVars, bits, staIp, httpVars, sideVars, timerVars>>

Associated(a) ==
    /\ Room /\ link = "connecting"
    /\ link' = "up" /\ linkAddr' = a /\ failures' = 0
    /\ events' = Append(events, Ev("STA_GOT_IP", a))
    /\ UNCHANGED <<softVars, mode, scan, clients>>

(* A lease renewed with another address posts STA_GOT_IP again.            *)
AddressChanged(a) ==
    /\ Room /\ link = "up" /\ linkAddr # a
    /\ linkAddr' = a
    /\ events' = Append(events, Ev("STA_GOT_IP", a))
    /\ UNCHANGED <<softVars, mode, link, failures, scan, clients>>

FailedOrLost ==
    /\ Room /\ link # "down"
    /\ link' = "down" /\ linkAddr' = NoAddr
    /\ failures' = OneMore(failures)
    /\ events' = Append(events, Ev("STA_DISCONNECTED", NoAddr))
    /\ UNCHANGED <<softVars, mode, scan, clients>>

ScanDone ==
    /\ Room /\ scan = "running"
    /\ scan' = "idle"
    /\ events' = Append(events, Ev("SCAN_DONE", NoAddr))
    /\ UNCHANGED <<softVars, mode, linkVars, clients>>

ClientJoins(c) ==
    /\ Running /\ mode = "AP" /\ clients[c] = "away"
    /\ clients' = [clients EXCEPT ![c] = "joined"]
    /\ UNCHANGED <<softVars, events, mode, linkVars, scan>>

ClientLeased(c) ==
    /\ Room /\ mode = "AP" /\ clients[c] = "joined"
    /\ clients' = [clients EXCEPT ![c] = "leased"]
    /\ events' = Append(events, Ev("AP_STAIPASSIGNED", NoAddr))
    /\ UNCHANGED <<softVars, mode, linkVars, scan>>

ClientLeaves(c) ==
    /\ Room /\ mode = "AP" /\ clients[c] # "away"
    /\ clients' = [clients EXCEPT ![c] = "away"]
    /\ events' = Append(events, Ev("AP_STADISCONNECTED", NoAddr))
    /\ UNCHANGED <<softVars, mode, linkVars, scan>>

Network ==
    \/ \E a \in Addrs : Associated(a) \/ AddressChanged(a)
    \/ FailedOrLost
    \/ ScanDone
    \/ \E c \in Clients : ClientJoins(c) \/ ClientLeased(c) \/ ClientLeaves(c)

Next ==
    \/ Manager \/ Reboot
    \/ EventHandler \/ EventSend
    \/ TimerCommand \/ RetryExpires \/ ShutdownExpires \/ TimerSend
    \/ UserOrder
    \/ Network

Spec == Init /\ [][Next]_vars

(* Every task is scheduled, a running timer expires, and the driver ends   *)
(* every connection attempt; nothing makes a station or an order come.     *)
Answer == (\E a \in Addrs : Associated(a)) \/ (link = "connecting" /\ FailedOrLost)

Fairness ==
    /\ WF_vars(Manager) /\ WF_vars(Reboot)
    /\ WF_vars(EventHandler) /\ WF_vars(EventSend)
    /\ WF_vars(TimerCommand \/ TimerSend)
    /\ WF_vars(RetryExpires) /\ WF_vars(ShutdownExpires)
    /\ WF_vars(Answer)

FairSpec == Spec /\ Fairness
=============================================================================
