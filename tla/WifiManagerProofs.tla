------------------------- MODULE WifiManagerProofs -------------------------
(***************************************************************************)
(* Proofs about the Wi-Fi manager, for every length of its queue, every    *)
(* number of retries, and any addresses and stations: its type, what is in *)
(* progress, the refinement of Connectivity, and last that the manager, the*)
(* bits and the servers agree with the driver once all news has arrived.   *)
(***************************************************************************)
EXTENDS WifiManagerProps, SequenceTheorems, FiniteSetTheorems, WellFoundedInduction, TLAPS

-----------------------------------------------------------------------------
(* Sequences: what a queue operation keeps.                                *)

(* A message sent to the back of a queue with room leaves a queue of       *)
(* messages, no longer than its capacity.                                  *)
LEMMA SendKeepsQueue ==
    ASSUME NEW S, NEW q \in Seq(S), NEW m \in S, NEW n \in Nat, Len(q) < n
    PROVE  Append(q, m) \in Seq(S) /\ Len(Append(q, m)) <= n
  OBVIOUS

(* The message at the front is one of the queue's messages, and the rest   *)
(* is a shorter queue of them.                                             *)
LEMMA ReceiveKeepsQueue ==
    ASSUME NEW S, NEW q \in Seq(S), q # <<>>
    PROVE  Head(q) \in S /\ Tail(q) \in Seq(S) /\ Len(Tail(q)) = Len(q) - 1
  OBVIOUS

(* A command posted to the timer daemon leaves its queue within bounds.    *)
LEMMA PostKeepsCommands ==
    ASSUME TypeTimers, NEW cmd \in TimerCmds
    PROVE  Post(cmd) \in Seq(TimerCmds) /\ Len(Post(cmd)) <= TimerQueueLength
  BY ConstantsAssumption DEF TypeTimers, Post

(* Every order a task can send is a message.                               *)
LEMMA SentMessages ==
    /\ \A c \in {"LOAD_AND_RESTORE_STA", "DISCONNECT_STA", "START_AP", "STOP_AP",
                 "START_HTTP_SERVER", "STOP_HTTP_SERVER", "START_WIFI_SCAN",
                 "STA_DISCONNECTED"} : Order(c) \in Messages
    /\ \A why \in {"USER", "RESTORE", "AUTO_RECONNECT"} : Connect(why) \in Messages
    /\ \A a \in Addrs : Msg("STA_GOT_IP", a) \in Messages
    /\ None \notin Messages
  BY DEF Messages, OrderMessages, Order, Connect, Msg, None

(* The driver's events.                                                    *)
LEMMA PostedEvents ==
    /\ \A e \in {"STA_DISCONNECTED", "AP_START", "AP_STOP", "AP_STAIPASSIGNED",
                 "AP_STADISCONNECTED", "SCAN_DONE"} : Ev(e, NoAddr) \in Events
    /\ \A a \in Addrs : Ev("STA_GOT_IP", a) \in Events
  BY DEF Events

LEMMA FailuresCount ==
    ASSUME NEW n \in 0..FailuresBound
    PROVE  OneMore(n) \in 0..FailuresBound
  BY ConstantsAssumption DEF OneMore, FailuresBound

-----------------------------------------------------------------------------
(* Type correctness.                                                       *)

LEMMA InitTyped == Init => TypeOK
  <1> SUFFICES ASSUME Init PROVE TypeOK
    OBVIOUS
  <1>1. TypeQueue
    BY SentMessages, ConstantsAssumption DEF Init, TypeQueue
  <1>2. TypeManager
    BY ConstantsAssumption DEF Init, TypeManager
  <1>3. TypeShared
    BY DEF Init, TypeShared
  <1>4. TypeSenders
    BY DEF Init, TypeSenders
  <1>5. TypeTimers
    BY ConstantsAssumption DEF Init, TypeTimers
  <1>6. TypeWifi
    BY ConstantsAssumption DEF Init, TypeWifi, FailuresBound
  <1>7. QED
    BY <1>1, <1>2, <1>3, <1>4, <1>5, <1>6 DEF TypeOK

(* The groups of variables, as the state functions TypeOK reads.           *)
LEMMA TypedWhenUnchanged ==
    ASSUME TypeOK, UNCHANGED vars
    PROVE  TypeOK'
  BY DEF TypeOK, TypeQueue, TypeManager, TypeShared, TypeSenders, TypeTimers,
         TypeWifi, vars

(* Each handler of the manager keeps every variable in its type.           *)
LEMMA HandlersTyped ==
    ASSUME TypeOK, Handle
    PROVE  TypeOK'
  <1> USE DEF TypeOK, TypeQueue
  <1> USE DEF Handling, Room, mgrVars, sideVars, httpVars, timerVars, linkVars, wifiVars
  <1>1. ASSUME LoadAndRestoreSta PROVE TypeOK'
    BY <1>1, SentMessages
       DEF LoadAndRestoreSta, Then, TypeManager, TypeShared, TypeSenders, TypeTimers, TypeWifi
  <1>2. ASSUME ConnectSta PROVE TypeOK'
    <2>1. TypeManager'
      BY <1>2 DEF ConnectSta, Done, Abort, TypeManager
    <2>2. TypeWifi'
      <3>1. events' = events \/ events' = Append(events, Ev("SCAN_DONE", NoAddr))
        BY <1>2 DEF ConnectSta
      <3>2. events' \in Seq(Events)
        BY <3>1, PostedEvents DEF TypeWifi
      <3>3. scan' \in {"idle", "running"} /\ link' \in {"down", "connecting", "up"}
        BY <1>2 DEF ConnectSta, TypeWifi
      <3>4. QED
        BY <1>2, <3>2, <3>3 DEF ConnectSta, TypeWifi
    <2>3. QED
      BY <1>2, <2>1, <2>2 DEF ConnectSta, TypeShared, TypeSenders, TypeTimers
  <1>3. ASSUME StaDisconnected PROVE TypeOK'
    <2>1. TypeManager'
      BY <1>3, SentMessages, ConstantsAssumption
         DEF StaDisconnected, RetriesLeft, FallBack, Done, Then, TypeManager
    <2>2. TypeTimers'
      BY <1>3, PostKeepsCommands DEF StaDisconnected, FallBack, TypeTimers, TimerCmds
    <2>3. QED
      BY <1>3, <2>1, <2>2 DEF StaDisconnected, TypeShared, TypeSenders, TypeWifi
  <1>4. ASSUME StartAp PROVE TypeOK'
    <2>1. events' \in Seq(Events)
      BY <1>4, PostedEvents DEF StartAp, TypeWifi
    <2>2. TypeWifi'
      BY <1>4, <2>1, FailuresCount DEF StartAp, TypeWifi
    <2>3. QED
      BY <1>4, <2>2 DEF StartAp, Done, TypeManager, TypeShared, TypeSenders, TypeTimers
  <1>5. ASSUME StartHttpServer PROVE TypeOK'
    BY <1>5 DEF StartHttpServer, RestartHttp, Done, TypeManager, TypeShared,
                TypeSenders, TypeTimers, TypeWifi
  <1>6. ASSUME StopHttpServer PROVE TypeOK'
    BY <1>6 DEF StopHttpServer, Done, TypeManager, TypeShared, TypeSenders,
                TypeTimers, TypeWifi
  <1>7. ASSUME StopAp PROVE TypeOK'
    <2>1. TypeWifi'
      <3>1. events' = events \/ events' = Append(events, Ev("AP_STOP", NoAddr))
        BY <1>7 DEF StopAp
      <3>2. events' \in Seq(Events)
        BY <3>1, PostedEvents DEF TypeWifi
      <3>3. mode' \in {"STA", "AP"} /\ clients' \in [Clients -> {"away", "joined", "leased"}]
        BY <1>7 DEF StopAp, TypeWifi
      <3>4. QED
        BY <1>7, <3>2, <3>3 DEF StopAp, TypeWifi
    <2>2. QED
      BY <1>7, <2>1 DEF StopAp, Done, TypeManager, TypeShared, TypeSenders, TypeTimers
  <1>8. ASSUME StaGotIp PROVE TypeOK'
    <2>1. mgrMsg.param \in Addrs
      BY <1>8 DEF StaGotIp, TypeManager, Messages, OrderMessages, Order, Connect, Msg
    <2>2. TypeTimers'
      BY <1>8, PostKeepsCommands DEF StaGotIp, ScheduleShutdown, TypeTimers, TimerCmds
    <2>3. QED
      BY <1>8, <2>1, <2>2, ConstantsAssumption
         DEF StaGotIp, ScheduleShutdown, Done, TypeManager, TypeShared, TypeSenders, TypeWifi
  <1>9. ASSUME StartWifiScan PROVE TypeOK'
    <2>1. TypeManager'
      BY <1>9 DEF StartWifiScan, Done, Abort, TypeManager
    <2>2. TypeShared'
      BY <1>9 DEF StartWifiScan, TypeShared, Bits
    <2>3. scan' \in {"idle", "running"}
      BY <1>9 DEF StartWifiScan, TypeWifi
    <2>4. QED
      BY <1>9, <2>1, <2>2, <2>3 DEF StartWifiScan, TypeSenders, TypeTimers, TypeWifi
  <1>10. ASSUME DisconnectSta PROVE TypeOK'
    <2>1. TypeWifi'
      <3>1. events' = events \/ events' = Append(events, Ev("STA_DISCONNECTED", NoAddr))
        BY <1>10 DEF DisconnectSta
      <3>2. events' \in Seq(Events)
        BY <3>1, PostedEvents DEF TypeWifi
      <3>3. failures' = failures \/ failures' = OneMore(failures)
        BY <1>10 DEF DisconnectSta
      <3>4. QED
        BY <1>10, <3>2, <3>3, FailuresCount DEF DisconnectSta, TypeWifi
    <2>2. QED
      BY <1>10, <2>1 DEF DisconnectSta, Done, TypeManager, TypeShared, TypeSenders,
                         TypeTimers, Bits
  <1>11. QED
    BY <1>1, <1>2, <1>3, <1>4, <1>5, <1>6, <1>7, <1>8, <1>9, <1>10 DEF Handle

(* So does every other step of the firmware's tasks.                       *)
LEMMA TasksTyped ==
    ASSUME TypeOK,
           Receive \/ ManagerSend \/ Reboot \/ EventHandler \/ EventSend
           \/ TimerCommand \/ RetryExpires \/ ShutdownExpires \/ TimerSend \/ UserOrder
    PROVE  TypeOK'
  <1> USE DEF TypeOK
  <1> USE DEF mgrVars, sideVars, httpVars, timerVars, linkVars, wifiVars
  <1>1. ASSUME Receive PROVE TypeOK'
    <2>1. Head(queue) \in Messages /\ TypeQueue'
      BY <1>1, ReceiveKeepsQueue, ConstantsAssumption DEF Receive, TypeQueue
    <2>2. TypeTimers'
      BY <1>1, PostKeepsCommands DEF Receive, TypeTimers, TimerCmds
    <2>3. Requested(Head(queue)) \in SUBSET Bits
      BY DEF Requested, Bits
    <2>4. TypeManager' /\ TypeShared'
      BY <1>1, <2>1, <2>3 DEF Receive, AddressOnReceive, TypeManager, TypeShared
    <2>5. QED
      BY <1>1, <2>1, <2>2, <2>4 DEF Receive, TypeSenders, TypeWifi
  <1>2. ASSUME ManagerSend PROVE TypeOK'
    <2>1. TypeQueue'
      BY <1>2, SendKeepsQueue, ConstantsAssumption DEF ManagerSend, TypeQueue, TypeManager
    <2>2. QED
      BY <1>2, <2>1 DEF ManagerSend, Done, TypeManager, TypeShared, TypeSenders,
                        TypeTimers, TypeWifi
  <1>3. ASSUME Reboot PROVE TypeOK'
    <2>1. TypeQueue'
      BY <1>3, SentMessages, ConstantsAssumption DEF Reboot, TypeQueue
    <2>2. TypeManager'
      BY <1>3, ConstantsAssumption DEF Reboot, TypeManager
    <2>3. TypeShared' /\ TypeSenders'
      BY <1>3 DEF Reboot, TypeShared, TypeSenders
    <2>4. TypeTimers' /\ TypeWifi'
      BY <1>3, ConstantsAssumption DEF Reboot, TypeTimers, TypeWifi, FailuresBound
    <2>5. QED
      BY <2>1, <2>2, <2>3, <2>4
  <1>4. ASSUME EventHandler PROVE TypeOK'
    <2>1. Head(events) \in Events /\ Tail(events) \in Seq(Events)
      BY <1>4, ReceiveKeepsQueue DEF EventHandler, TypeWifi
    <2>2. MessageOf(Head(events)) \in Messages \cup {None}
      BY <2>1, SentMessages DEF MessageOf, Events, Ev
    <2>3. BitsAfter(Head(events)) \in SUBSET Bits
      BY DEF BitsAfter, TypeShared, Bits
    <2>4. QED
      BY <1>4, <2>1, <2>2, <2>3
         DEF EventHandler, TypeQueue, TypeManager, TypeShared, TypeSenders, TypeTimers, TypeWifi
  <1>5. ASSUME EventSend PROVE TypeOK'
    <2>1. TypeQueue'
      BY <1>5, SendKeepsQueue, ConstantsAssumption DEF EventSend, TypeQueue, TypeSenders
    <2>2. QED
      BY <1>5, <2>1 DEF EventSend, TypeManager, TypeShared, TypeSenders, TypeTimers, TypeWifi
  <1>6. ASSUME TimerCommand PROVE TypeOK'
    <2>1. TypeTimers'
      <3>1. Tail(timerCmds) \in Seq(TimerCmds) /\ Len(Tail(timerCmds)) <= TimerQueueLength
        BY <1>6, ReceiveKeepsQueue, ConstantsAssumption DEF TimerCommand, TypeTimers
      <3>2. timers' \in SUBSET {"retry", "shutdown"}
        BY <1>6 DEF TimerCommand, TypeTimers, TimerCmds
      <3>3. QED
        BY <1>6, <3>1, <3>2 DEF TimerCommand, TypeTimers
    <2>2. QED
      BY <1>6, <2>1 DEF TimerCommand, TypeQueue, TypeManager, TypeShared, TypeSenders, TypeWifi
  <1>7. ASSUME RetryExpires PROVE TypeOK'
    <2>1. TypeTimers'
      BY <1>7, PostKeepsCommands DEF RetryExpires, TypeTimers, TimerCmds
    <2>2. QED
      BY <1>7, <2>1, SentMessages
         DEF RetryExpires, TypeQueue, TypeManager, TypeShared, TypeSenders, TypeWifi
  <1>8. ASSUME ShutdownExpires PROVE TypeOK'
    <2>1. TypeTimers'
      BY <1>8, PostKeepsCommands DEF ShutdownExpires, TypeTimers, TimerCmds
    <2>2. QED
      BY <1>8, <2>1, SentMessages
         DEF ShutdownExpires, TypeQueue, TypeManager, TypeShared, TypeSenders, TypeWifi
  <1>9. ASSUME TimerSend PROVE TypeOK'
    <2>1. TypeQueue'
      BY <1>9, SendKeepsQueue, ConstantsAssumption DEF TimerSend, TypeQueue, TypeSenders
    <2>2. QED
      BY <1>9, <2>1 DEF TimerSend, TypeManager, TypeShared, TypeSenders, TypeTimers, TypeWifi
  <1>10. ASSUME UserOrder PROVE TypeOK'
    <2>1. UserOrders \subseteq Messages
      BY ConstantsAssumption DEF Messages
    <2>2. TypeQueue'
      BY <1>10, <2>1, SendKeepsQueue, ConstantsAssumption DEF UserOrder, TypeQueue
    <2>3. QED
      BY <1>10, <2>2 DEF UserOrder, TypeManager, TypeShared, TypeSenders, TypeTimers, TypeWifi
  <1>11. QED
    BY <1>1, <1>2, <1>3, <1>4, <1>5, <1>6, <1>7, <1>8, <1>9, <1>10

(* And every step of the driver and the stations.                          *)
LEMMA NetworkTyped ==
    ASSUME TypeOK, Network
    PROVE  TypeOK'
  <1> USE DEF softVars, mgrVars, sideVars, httpVars, timerVars, linkVars
  <1>1. UNCHANGED softVars => TypeQueue' /\ TypeManager' /\ TypeShared' /\ TypeSenders' /\ TypeTimers'
    BY DEF TypeOK, TypeQueue, TypeManager, TypeShared, TypeSenders, TypeTimers
  <1>2. ASSUME NEW a \in Addrs, Associated(a) \/ AddressChanged(a)
        PROVE  UNCHANGED softVars /\ TypeWifi'
    BY <1>2, PostedEvents, ConstantsAssumption
       DEF Associated, AddressChanged, TypeOK, TypeWifi, FailuresBound
  <1>3. ASSUME FailedOrLost PROVE UNCHANGED softVars /\ TypeWifi'
    BY <1>3, PostedEvents, FailuresCount DEF FailedOrLost, TypeOK, TypeWifi
  <1>4. ASSUME ScanDone PROVE UNCHANGED softVars /\ TypeWifi'
    BY <1>4, PostedEvents DEF ScanDone, TypeOK, TypeWifi
  <1>5. ASSUME NEW c \in Clients, ClientJoins(c) \/ ClientLeased(c) \/ ClientLeaves(c)
        PROVE  UNCHANGED softVars /\ TypeWifi'
    BY <1>5, PostedEvents, SMTT(30) DEF ClientJoins, ClientLeased, ClientLeaves, TypeOK, TypeWifi
  <1>6. QED
    BY <1>1, <1>2, <1>3, <1>4, <1>5 DEF Network, TypeOK

(* Every variable keeps its type: the manager's queue and the timer        *)
(* daemon's never exceed their capacity, and the 8-bit count of retries    *)
(* never passes its threshold.                                             *)
THEOREM TypeCorrect == Spec => []TypeOK
  <1>1. TypeOK /\ [Next]_vars => TypeOK'
    BY HandlersTyped, TasksTyped, NetworkTyped, TypedWhenUnchanged DEF Next, Manager
  <1>2. QED
    BY InitTyped, <1>1, PTL DEF Spec

-----------------------------------------------------------------------------
(* One thing in progress, when no application task sends orders.           *)

LEMMA TypedStep == TypeOK /\ [Next]_vars => TypeOK'
  BY HandlersTyped, TasksTyped, NetworkTyped, TypedWhenUnchanged DEF Next, Manager

(* Codes tell messages apart.                                              *)
LEMMA Codes ==
    /\ \A c : Order(c).code = c
    /\ \A w : Connect(w).code = "CONNECT_STA" /\ Connect(w).param = w
    /\ \A a : Msg("STA_GOT_IP", a).code = "STA_GOT_IP"
    /\ None.code = "NONE"
  BY DEF Order, Connect, Msg, None

(* A queue of one message: what receiving and sending do to it.            *)
LEMMA Single ==
    ASSUME NEW m
    PROVE  /\ Head(<<m>>) = m /\ Tail(<<m>>) = <<>> /\ <<m>> # <<>>
           /\ Append(<<>>, m) = <<m>> /\ Len(<<m>>) = 1
  OBVIOUS

LEMMA Pair ==
    ASSUME NEW m, NEW n
    PROVE  /\ Head(<<m, n>>) = m /\ Tail(<<m, n>>) = <<n>> /\ <<m, n>> # <<>>
           /\ Append(<<m>>, n) = <<m, n>> /\ Len(<<m, n>>) = 2
  <1>1. Head(<<m, n>>) = m
    OBVIOUS
  <1>2. Tail(<<m, n>>) = <<n>>
    OBVIOUS
  <1>3. <<m, n>> # <<>> /\ Len(<<m, n>>) = 2
    OBVIOUS
  <1>4. Append(<<m>>, n) = <<m, n>>
    <2> DEFINE S == {m, n}
    <2>1. <<m>> \in Seq(S) /\ <<m, n>> \in Seq(S)
      OBVIOUS
    <2>2. /\ Append(<<m>>, n) \in Seq(S) /\ Len(Append(<<m>>, n)) = 2
          /\ Append(<<m>>, n)[1] = m /\ Append(<<m>>, n)[2] = n
      BY <2>1, AppendProperties
    <2>3. Len(<<m, n>>) = 2 /\ <<m, n>>[1] = m /\ <<m, n>>[2] = n
      OBVIOUS
    <2>4. \A i \in 1..2 : Append(<<m>>, n)[i] = <<m, n>>[i]
      <3>1. \A i \in 1..2 : i = 1 \/ i = 2
        OBVIOUS
      <3>2. QED
        BY <2>2, <2>3, <3>1, Zenon
    <2> HIDE DEF S
    <2>5. QED
      BY <2>1, <2>2, <2>3, <2>4, SeqEqual
  <1>5. QED
    BY <1>1, <1>2, <1>3, <1>4

(* A station that is down with nothing in the driver or the timers leaves  *)
(* only the manager and the timer daemon's last command to run.            *)
LEMMA OnlyManagerRuns ==
    ASSUME UserOrders = {}, mode = "STA", link = "down", scan = "idle",
           NoEvents, TimersIdle, Next
    PROVE  Manager \/ Reboot \/ TimerCommand
  BY DEF Next, NoEvents, TimersIdle, EventHandler, EventSend, RetryExpires,
         ShutdownExpires, TimerSend, UserOrder, Network, Associated, AddressChanged,
         FailedOrLost, ScanDone, ClientJoins, ClientLeased, ClientLeaves

(* A command of an idle timer daemon is the stop a callback left behind.   *)
LEMMA LastCommand ==
    ASSUME TimersIdle, TimerCommand
    PROVE  TimersIdle' /\ timers' = {}
  <1>1. timerCmds = <<"stop_retry">> /\ timers = {}
    BY DEF TimersIdle, TimerCommand
  <1>2. Head(timerCmds) = "stop_retry" /\ Tail(timerCmds) = <<>>
    BY <1>1, Single
  <1>3. timers' = {} /\ timerCmds' = <<>> /\ tmrOut' = None
    BY <1>1, <1>2 DEF TimerCommand, TimersIdle, sideVars
  <1>4. QED
    BY <1>3 DEF TimersIdle

(* A message being handled is handled by the handler of its code.          *)
LEMMA Dispatch ==
    ASSUME Handle
    PROVE  /\ mgrPc = "handle"
           /\ mgrMsg.code = "LOAD_AND_RESTORE_STA" => LoadAndRestoreSta
           /\ mgrMsg.code = "CONNECT_STA" => ConnectSta
           /\ mgrMsg.code = "STA_DISCONNECTED" => StaDisconnected
           /\ mgrMsg.code = "START_AP" => StartAp
           /\ mgrMsg.code = "STA_GOT_IP" => StaGotIp
           /\ HttpMsg(mgrMsg) => StartHttpServer \/ StopHttpServer
  BY DEF Handle, Handling, LoadAndRestoreSta, ConnectSta, StaDisconnected, StartAp,
         StartHttpServer, StopHttpServer, StopAp, StaGotIp, StartWifiScan,
         DisconnectSta, HttpMsg

(* While the timer daemon is idle its last command changes no stage.       *)
LEMMA TimerCommandKeeps ==
    ASSUME InProgress, TimersIdle, TimerCommand
    PROVE  InProgress'
  <1> USE DEF TimerCommand, mgrVars, sideVars, httpVars, wifiVars
  <1>1. TimersIdle' /\ timers' = {}
    BY LastCommand
  <1>2. ~RetryPending
    <2>1. <<"start_retry">> # <<"stop_retry">> /\ <<"stop_retry", "start_retry">> # <<"stop_retry">>
          /\ <<"stop_retry">> # <<>> /\ <<"start_retry">> # <<>>
          /\ <<"stop_retry", "start_retry">> # <<>>
      OBVIOUS
    <2>2. tmrOut = None /\ timers = {}
      BY DEF TimersIdle
    <2>3. Connect("AUTO_RECONNECT") # None
      BY Codes
    <2>4. QED
      BY <2>1, <2>2, <2>3 DEF TimersIdle, RetryPending
  <1>3. /\ Loading => Loading'
        /\ ConnectOrdered => ConnectOrdered'
        /\ ApOrdered => ApOrdered'
    BY <1>1 DEF Loading, ConnectOrdered, ApOrdered, Carried, Unlinked, NoEvents
  <1>4. Connecting => Connecting'
    BY <1>1 DEF Connecting, MgrIdle, NoEvents
  <1>5. Linked => Linked'
    BY <1>1 DEF Linked, NotingLeases, EvtOutLease
  <1>6. Lost => Lost'
    <2>1. UNCHANGED <<queue, events, evtOut, bits, mgrPc, mgrMsg, retries, failures>>
      OBVIOUS
    <2>2. /\ LeaseMsgs(queue)' <=> LeaseMsgs(queue)
          /\ EvtOutLease' <=> EvtOutLease
          /\ NotingLeases' <=> NotingLeases
      BY <2>1 DEF LeaseMsgs, EvtOutLease, NotingLeases
    <2>3. LossInEvents => LossInEvents'
      BY <2>1, <2>2 DEF LossInEvents, RetriesCount
    <2>4. LossInTask => LossInTask'
      BY <2>1, <2>2 DEF LossInTask, RetriesCount
    <2>5. LossInQueue => LossInQueue'
      BY <2>1, <2>2 DEF LossInQueue, RetriesCount, NoEvents
    <2>6. LossHandled => LossHandled'
      BY <2>1 DEF LossHandled, NoEvents
    <2>7. QED
      BY <1>1, <2>3, <2>4, <2>5, <2>6 DEF Lost
  <1>7. NoRequests => NoRequests'
    BY DEF NoRequests
  <1>8. AccessPointInv => AccessPointInv'
    BY <1>1 DEF AccessPointInv
  <1>9. StationInv => StationInv'
    BY <1>2, <1>3, <1>4, <1>5, <1>6, <1>7 DEF StationInv
  <1>10. QED
    BY <1>1, <1>8, <1>9 DEF InProgress

(* The manager takes the message in progress, or sends it to itself, and   *)
(* nothing else moves.                                                     *)
LEMMA CarriedSteps ==
    ASSUME NEW m, Carried(m), m.code # "STA_DISCONNECTED",
           Requested(m) \subseteq {"REQUEST_RESTORE_STA"},
           Unlinked, NoRequests, NoEvents, TimersIdle, Receive \/ ManagerSend
    PROVE  /\ Carried(m)' /\ Unlinked' /\ NoRequests' /\ NoEvents' /\ TimersIdle'
           /\ mgrPc' # "send"
           /\ UNCHANGED <<mode, link, scan, timers, retries, failures, staConfig>>
  <1>1. CASE Receive
    <2>1. queue = <<m>> /\ mgrPc = "idle"
      BY <1>1 DEF Receive, Carried
    <2>2. Head(queue) = m /\ Tail(queue) = <<>>
      BY <2>1, Single
    <2>3. Carried(m)' /\ mgrPc' # "send"
      BY <1>1, <2>2 DEF Receive, Carried
    <2>4. bits' = bits \cup Requested(m) /\ (uxBits' = bits' \/ uxBits' = {})
      BY <1>1, <2>2 DEF Receive
    <2>5. Unlinked' /\ NoRequests'
      BY <1>1, <2>4 DEF Receive, Unlinked, NoRequests
    <2>6. timerCmds' = timerCmds
      BY <1>1, <2>2 DEF Receive
    <2>7. QED
      BY <1>1, <2>3, <2>5, <2>6 DEF Receive, NoEvents, TimersIdle
  <1>2. CASE ManagerSend
    <2>1. queue = <<>> /\ mgrMsg = m
      BY <1>2 DEF ManagerSend, Carried
    <2>2. Carried(m)' /\ mgrPc' # "send"
      BY <1>2, <2>1, Single DEF ManagerSend, Done, Carried
    <2>3. QED
      BY <1>2, <2>2
         DEF ManagerSend, Done, Unlinked, NoRequests, NoEvents, TimersIdle,
             sideVars, timerVars, wifiVars
  <1>3. QED
    BY <1>1, <1>2

(* From the first order: the saved network is tried, or the access point   *)
(* is ordered.                                                             *)
LEMMA FromLoading ==
    ASSUME UserOrders = {}, InProgress, mode = "STA", StationInv, Loading, Next
    PROVE  InProgress'
  <1> DEFINE load == Order("LOAD_AND_RESTORE_STA")
  <1>1. Manager \/ TimerCommand
    BY OnlyManagerRuns DEF InProgress, Loading, Unlinked, Carried, Reboot
  <1>2. Requested(load) = {} /\ load.code = "LOAD_AND_RESTORE_STA"
    BY Codes DEF Requested
  <1>3. CASE Receive \/ ManagerSend
    <2>1. Loading' /\ NoRequests'
      BY <1>2, <1>3, CarriedSteps DEF Loading, StationInv
    <2>2. UNCHANGED <<mode, scan, timers>>
      BY <1>2, <1>3, CarriedSteps DEF Loading, StationInv
    <2>3. QED
      BY <2>1, <2>2 DEF InProgress, StationInv
  <1>4. CASE Handle
    <2>1. LoadAndRestoreSta /\ queue = <<>>
      BY <1>2, <1>4, Dispatch DEF Loading, Carried
    <2>2. NoEvents' /\ TimersIdle' /\ Unlinked' /\ NoRequests' /\ queue' = <<>>
          /\ mode' = mode /\ scan' = scan /\ timers' = timers
          /\ retries' = 0 /\ failures' = 0
      BY <2>1
         DEF LoadAndRestoreSta, Then, Loading, Unlinked, StationInv, NoRequests,
             NoEvents, TimersIdle, sideVars, timerVars, wifiVars
    <2>3. CASE staConfig' = "saved" /\ Then(Connect("RESTORE"))
      <3>1. ConnectOrdered'
        BY <2>2, <2>3 DEF ConnectOrdered, Carried, Then
      <3>2. QED
        BY <2>2, <3>1 DEF InProgress, StationInv
    <2>4. CASE Then(Order("START_AP"))
      <3>1. ApOrdered'
        BY <2>2, <2>4 DEF ApOrdered, Carried, Then
      <3>2. QED
        BY <2>2, <3>1 DEF InProgress, StationInv
    <2>5. QED
      BY <2>1, <2>3, <2>4 DEF LoadAndRestoreSta
  <1>5. CASE TimerCommand
    BY <1>5, TimerCommandKeeps DEF Loading
  <1>6. QED
    BY <1>1, <1>3, <1>4, <1>5 DEF Manager

(* From an ordered connection: the driver starts to connect.               *)
LEMMA FromConnectOrdered ==
    ASSUME UserOrders = {}, InProgress, mode = "STA", StationInv, ConnectOrdered, Next
    PROVE  InProgress'
  <1>1. Manager \/ TimerCommand
    BY OnlyManagerRuns DEF InProgress, ConnectOrdered, Unlinked, Carried, Reboot
  <1>2. PICK why \in {"RESTORE", "AUTO_RECONNECT"} : Carried(Connect(why))
    BY DEF ConnectOrdered
  <1>3. /\ Requested(Connect(why)) \subseteq {"REQUEST_RESTORE_STA"}
        /\ Connect(why).code = "CONNECT_STA"
    BY Codes DEF Requested
  <1>4. CASE Receive \/ ManagerSend
    <2>1. ConnectOrdered' /\ NoRequests' /\ UNCHANGED <<mode, scan, timers>>
      BY <1>2, <1>3, <1>4, CarriedSteps DEF ConnectOrdered, StationInv
    <2>2. QED
      BY <2>1 DEF InProgress, StationInv
  <1>5. CASE Handle
    <2>1. ConnectSta /\ queue = <<>>
      BY <1>2, <1>3, <1>5, Dispatch DEF Carried
    <2>2. CanConnect /\ "CONNECTED" \notin uxBits /\ scan = "idle" /\ link = "down"
      BY DEF CanConnect, ConnectOrdered, Unlinked, InProgress
    <2>3. /\ link' = "connecting" /\ events' = events /\ scan' = scan
          /\ mgrPc' = "idle" /\ uxBits' = {}
      BY <2>1, <2>2 DEF ConnectSta, Done
    <2>4. UNCHANGED <<queue, retries, staConfig, bits, evtOut, tmrOut, timerCmds,
                      timers, mode, failures>>
      BY <2>1 DEF ConnectSta, sideVars, timerVars
    <2>5. Connecting' /\ NoRequests'
      BY <2>1, <2>3, <2>4
         DEF Connecting, ConnectOrdered, Unlinked, NoEvents, TimersIdle, MgrIdle,
             StationInv, NoRequests
    <2>6. QED
      BY <2>3, <2>4, <2>5 DEF InProgress, StationInv
  <1>6. CASE TimerCommand
    BY <1>6, TimerCommandKeeps DEF ConnectOrdered
  <1>7. QED
    BY <1>1, <1>4, <1>5, <1>6 DEF Manager

(* From an ordered access point: the radio is the access point's.          *)
LEMMA FromApOrdered ==
    ASSUME UserOrders = {}, InProgress, mode = "STA", StationInv, ApOrdered, Next
    PROVE  InProgress'
  <1> DEFINE start == Order("START_AP")
  <1>1. Manager \/ TimerCommand
    BY OnlyManagerRuns DEF InProgress, ApOrdered, Unlinked, Carried, Reboot
  <1>2. Requested(start) = {} /\ start.code = "START_AP"
    BY Codes DEF Requested
  <1>3. CASE Receive \/ ManagerSend
    <2>1. ApOrdered' /\ NoRequests' /\ UNCHANGED <<mode, scan, timers>>
      BY <1>2, <1>3, CarriedSteps DEF ApOrdered, StationInv
    <2>2. QED
      BY <2>1 DEF InProgress, StationInv
  <1>4. CASE Handle
    <2>1. StartAp /\ queue = <<>> /\ link = "down" /\ events = <<>> /\ evtOut = None
      BY <1>2, <1>4, Dispatch DEF Carried, ApOrdered, Unlinked, NoEvents
    <2>2. events' = <<>> \o <<>> \o <<>> \o <<Ev("AP_START", NoAddr)>>
      BY <2>1 DEF StartAp
    <2>3. events' = <<Ev("AP_START", NoAddr)>>
      BY <2>2
    <2>4. Len(events') = 1 /\ events'[1].ev = "AP_START"
      BY <2>3 DEF Ev
    <2>5. TimersIdle' /\ queue' = <<>> /\ evtOut' = None /\ mgrPc' = "idle"
      BY <2>1 DEF StartAp, Done, ApOrdered, TimersIdle, sideVars, timerVars
    <2>6. AccessPointInv'
      BY <2>1, <2>4, <2>5 DEF StartAp, AccessPointInv, ApEvents
    <2>7. QED
      BY <2>1, <2>6 DEF StartAp, InProgress, timerVars
  <1>5. CASE TimerCommand
    BY <1>5, TimerCommandKeeps DEF ApOrdered
  <1>6. QED
    BY <1>1, <1>3, <1>4, <1>5 DEF Manager

(* In station mode, with the timer daemon idle and no scan, these steps    *)
(* are left.                                                               *)
LEMMA StationSteps ==
    ASSUME UserOrders = {}, mode = "STA", scan = "idle", mgrPc # "aborted",
           TimersIdle, Next
    PROVE  \/ Manager \/ EventHandler \/ EventSend \/ TimerCommand \/ FailedOrLost
           \/ \E a \in Addrs : Associated(a) \/ AddressChanged(a)
  BY DEF Next, Reboot, TimersIdle, RetryExpires, ShutdownExpires, TimerSend, UserOrder,
         Network, ScanDone, ClientJoins, ClientLeased, ClientLeaves

(* The back of a queue.                                                    *)
LEMMA Back ==
    ASSUME NEW S, NEW q \in Seq(S), NEW m \in S
    PROVE  /\ Append(q, m) # <<>>
           /\ Len(Append(q, m)) = Len(q) + 1
           /\ Append(q, m)[Len(q) + 1] = m
           /\ \A i \in 1..Len(q) : Append(q, m)[i] = q[i]
           /\ q # <<>> <=> Len(q) + 1 > 1
  OBVIOUS

(* The front of a queue.                                                   *)
LEMMA Front ==
    ASSUME NEW S, NEW q \in Seq(S), q # <<>>
    PROVE  /\ Head(q) = q[1] /\ 1 \in 1..Len(q)
           /\ Len(Tail(q)) = Len(q) - 1
           /\ \A i \in 1..Len(Tail(q)) : Tail(q)[i] = q[i + 1] /\ i + 1 \in 1..Len(q)
           /\ Tail(q) # <<>> <=> Len(q) > 1
           /\ Len(q) \in Nat /\ (Len(q) = 1 \/ Len(q) > 1)
  <1>1. Len(q) \in Nat \ {0} /\ Tail(q) \in Seq(S) /\ Len(Tail(q)) = Len(q) - 1
    OBVIOUS
  <1>2. Tail(q) # <<>> <=> Len(Tail(q)) # 0
    BY <1>1, EmptySeq
  <1>3. Head(q) = q[1]
    OBVIOUS
  <1>4. \A i \in 1..Len(Tail(q)) : Tail(q)[i] = q[i + 1] /\ i + 1 \in 1..Len(q)
    OBVIOUS
  <1>5. 1 \in 1..Len(q) /\ (Len(q) = 1 \/ Len(q) > 1)
    BY <1>1
  <1>6. Len(Tail(q)) # 0 <=> Len(q) > 1
    BY <1>1, <1>5
  <1>7. QED
    BY <1>1, <1>2, <1>3, <1>4, <1>5, <1>6

(* From a connection attempt: it succeeds, or fails.                       *)
LEMMA FromConnecting ==
    ASSUME UserOrders = {}, TypeOK, InProgress, mode = "STA", StationInv, Connecting, Next
    PROVE  InProgress'
  <1> USE DEF softVars, mgrVars, sideVars, timerVars
  <1>1. TimerCommand \/ FailedOrLost \/ \E a \in Addrs : Associated(a)
    BY StationSteps
       DEF InProgress, Connecting, MgrIdle, NoEvents, Manager, Receive, Handle, Handling,
           LoadAndRestoreSta, ConnectSta, StaDisconnected, StartAp, StartHttpServer,
           StopHttpServer, StopAp, StaGotIp, StartWifiScan, DisconnectSta, ManagerSend,
           EventHandler, EventSend, AddressChanged
  <1>2. CASE TimerCommand
    BY <1>2, TimerCommandKeeps DEF Connecting
  <1>3. ASSUME UNCHANGED softVars, UNCHANGED <<mode, scan>>, Linked' \/ Lost'
        PROVE  InProgress'
    BY <1>3 DEF InProgress, StationInv, NoRequests
  <1>4. ASSUME NEW e, events' = <<e>>, UNCHANGED softVars
        PROVE  /\ TimersIdle' /\ staConfig' = "saved" /\ events' # <<>> /\ Len(events') = 1
               /\ events'[1] = e
               /\ mgrPc' = "idle" /\ queue' = <<>> /\ evtOut' = None
               /\ LeaseMsgs(queue)' /\ EvtOutLease' /\ NotingLeases'
    BY <1>4 DEF Connecting, MgrIdle, NoEvents, TimersIdle, LeaseMsgs, EvtOutLease, NotingLeases
  <1>5. ASSUME NEW a \in Addrs, Associated(a)
        PROVE  InProgress'
    <2>1. events' = <<Ev("STA_GOT_IP", a)>> /\ UNCHANGED softVars /\ UNCHANGED <<mode, scan>>
          /\ link' = "up" /\ failures' = 0
      BY <1>5 DEF Associated, Connecting, NoEvents
    <2>2. LeaseEvents(events)'
      BY <2>1 DEF LeaseEvents, Ev
    <2>3. Linked'
      BY <2>1, <2>2, <1>4 DEF Linked
    <2>4. QED
      BY <1>3, <2>1, <2>3
  <1>6. CASE FailedOrLost
    <2>1. events' = <<Ev("STA_DISCONNECTED", NoAddr)>> /\ UNCHANGED softVars
          /\ UNCHANGED <<mode, scan>> /\ link' = "down" /\ failures' = OneMore(failures)
      BY <1>6 DEF FailedOrLost, Connecting, NoEvents
    <2>2. failures' = retries' + 1
      BY <2>1, ConstantsAssumption DEF Connecting, TypeOK, TypeManager, OneMore, FailuresBound
    <2>3. LossInEvents'
      BY <1>4, <2>1, <2>2 DEF LossInEvents, Ev, RetriesCount
    <2>4. QED
      BY <1>3, <1>4, <2>1, <2>3 DEF Lost
  <1>7. QED
    BY <1>1, <1>2, <1>5, <1>6

(* A step of the manager while it only has leases to note: what it takes   *)
(* from the queue, or what it does with it.                                *)
LEMMA NotingSteps ==
    ASSUME TypeOK, NotingLeases, NoRequests, TimersIdle, Manager,
           queue # <<>> /\ mgrPc = "idle" => LeaseMsg(Head(queue))
    PROVE  /\ NotingLeases' /\ NoRequests' /\ TimersIdle'
           /\ UNCHANGED <<staConfig, evtOut, events, mode, link, failures, scan, timers>>
           /\ bits' \subseteq bits
           /\ \/ /\ mgrPc = "idle" /\ queue # <<>> /\ queue' = Tail(queue)
                 /\ mgrPc' = "handle" /\ retries' = retries
              \/ mgrPc = "handle" /\ queue' = queue /\ mgrPc' = "idle" /\ retries' = 0
  <1> USE DEF sideVars, timerVars, wifiVars
  <1>1. CASE Receive
    <2>1. LeaseMsg(Head(queue)) /\ mgrMsg' = Head(queue) /\ queue # <<>>
      BY <1>1 DEF Receive
    <2>2. Head(queue).code = "STA_GOT_IP" /\ Requested(Head(queue)) = {}
      BY <2>1, Codes DEF LeaseMsg, Requested
    <2>3. /\ mgrPc = "idle" /\ mgrPc' = "handle" /\ queue' = Tail(queue)
          /\ bits' = bits /\ uxBits' = bits /\ timerCmds' = timerCmds
          /\ UNCHANGED <<retries, staConfig, evtOut, tmrOut, timers, events, mode, link,
                         failures, scan>>
      BY <1>1, <2>2 DEF Receive, ReadsBits
    <2>4. QED
      BY <2>1, <2>3 DEF NotingLeases, LeaseMsg, NoRequests, TimersIdle
  <1>2. CASE Handle
    <2>1. mgrPc = "handle" /\ StaGotIp
      BY <1>2, Dispatch DEF NotingLeases, LeaseMsg
    <2>2. timerCmds' = timerCmds /\ Done
      BY <2>1 DEF StaGotIp, ScheduleShutdown, NoRequests
    <2>3. QED
      BY <2>1, <2>2 DEF StaGotIp, Done, NotingLeases, NoRequests, TimersIdle
  <1>3. CASE ManagerSend
    BY <1>3 DEF ManagerSend, NotingLeases
  <1>4. QED
    BY <1>1, <1>2, <1>3 DEF Manager

(* Leases stay leases when one is added at the back or taken at the front. *)
LEMMA LeasesAppended ==
    ASSUME TypeOK, LeaseMsgs(queue), NEW m \in Messages, LeaseMsg(m),
           queue' = Append(queue, m)
    PROVE  LeaseMsgs(queue)' /\ queue' # <<>>
  BY Back DEF LeaseMsgs, TypeOK, TypeQueue

LEMMA LeasesTaken ==
    ASSUME TypeOK, LeaseMsgs(queue), queue # <<>>
    PROVE  LeaseMsg(Head(queue)) /\ (queue' = Tail(queue) => LeaseMsgs(queue)')
  <1>1. queue \in Seq(Messages)
    BY DEF TypeOK, TypeQueue
  <1>2. LeaseMsg(Head(queue))
    BY <1>1, Front DEF LeaseMsgs
  <1>3. ASSUME queue' = Tail(queue) PROVE LeaseMsgs(queue)'
    BY <1>1, <1>3, Front DEF LeaseMsgs
  <1>4. QED
    BY <1>2, <1>3

(* What the event task makes of a lease and of a loss.                     *)
LEMMA HandledEvent ==
    ASSUME EventHandler
    PROVE  /\ events # <<>> /\ evtOut = None /\ events' = Tail(events)
           /\ Head(events).ev = "STA_GOT_IP" =>
                LeaseMsg(evtOut') /\ bits' = bits \cup {"CONNECTED"}
           /\ Head(events).ev = "STA_DISCONNECTED" =>
                evtOut' = LossMsg /\ bits' = bits \ {"CONNECTED", "SCAN"}
           /\ UNCHANGED <<queue, mgrPc, mgrMsg, uxBits, retries, staConfig, tmrOut,
                          timerCmds, timers, mode, link, failures, scan>>
  <1>1. ASSUME Head(events).ev = "STA_GOT_IP"
        PROVE  LeaseMsg(evtOut') /\ bits' = bits \cup {"CONNECTED"}
    BY <1>1, Codes DEF EventHandler, MessageOf, BitsAfter, LeaseMsg
  <1>2. ASSUME Head(events).ev = "STA_DISCONNECTED"
        PROVE  evtOut' = LossMsg /\ bits' = bits \ {"CONNECTED", "SCAN"}
    BY <1>2 DEF EventHandler, MessageOf, BitsAfter, LossMsg
  <1>3. QED
    BY <1>1, <1>2 DEF EventHandler, mgrVars, timerVars, linkVars

(* From a connection: leases are noted until it is lost.                   *)
LEMMA FromLinked ==
    ASSUME UserOrders = {}, TypeOK, InProgress, mode = "STA", StationInv, Linked, Next
    PROVE  InProgress'
  <1> USE DEF softVars, mgrVars, sideVars, timerVars
  <1>1. \/ Manager \/ EventHandler \/ EventSend \/ TimerCommand \/ FailedOrLost
        \/ \E a \in Addrs : AddressChanged(a)
    BY StationSteps DEF InProgress, Linked, NotingLeases, Associated
  <1>2. ASSUME Linked' \/ Lost', NoRequests', UNCHANGED <<mode, scan, timers>>
        PROVE  InProgress'
    BY <1>2 DEF InProgress, StationInv
  <1>3. CASE Manager
    <2>1. queue # <<>> => LeaseMsg(Head(queue)) /\ (queue' = Tail(queue) => LeaseMsgs(queue)')
      BY LeasesTaken DEF Linked
    <2>2. /\ NotingLeases' /\ NoRequests' /\ TimersIdle'
          /\ UNCHANGED <<staConfig, evtOut, events, mode, link, failures, scan, timers>>
          /\ \/ /\ queue # <<>> /\ queue' = Tail(queue) /\ mgrPc' = "handle"
             \/ queue' = queue /\ retries' = 0
      BY <1>3, <2>1, NotingSteps DEF Linked, StationInv
    <2>3. LeaseMsgs(queue)'
      BY <2>1, <2>2 DEF Linked, LeaseMsgs
    <2>4. Linked'
      BY <2>2, <2>3 DEF Linked, LeaseEvents, EvtOutLease
    <2>5. QED
      BY <1>2, <2>2, <2>4
  <1>4. CASE EventHandler
    <2>1. events # <<>> /\ events \in Seq(Events)
      BY <1>4, HandledEvent DEF TypeOK, TypeWifi
    <2>2. Head(events).ev = "STA_GOT_IP" /\ LeaseEvents(Tail(events))
      BY <2>1, Front DEF Linked, LeaseEvents
    <2>3. LeaseMsg(evtOut') /\ events' = Tail(events) /\ bits' = bits \cup {"CONNECTED"}
      BY <1>4, <2>2, HandledEvent
    <2>4. UNCHANGED <<queue, mgrPc, mgrMsg, uxBits, retries, staConfig, tmrOut,
                      timerCmds, timers, mode, link, failures, scan>>
      BY <1>4, HandledEvent
    <2>5. evtOut' # None
      BY <2>3, Codes DEF LeaseMsg
    <2>6. Linked' /\ NoRequests'
      BY <2>2, <2>3, <2>4, <2>5
         DEF Linked, LeaseEvents, LeaseMsgs, EvtOutLease, NotingLeases, TimersIdle,
             StationInv, NoRequests
    <2>7. QED
      BY <1>2, <2>4, <2>6
  <1>5. CASE EventSend
    <2>1. LeaseMsg(evtOut) /\ evtOut \in Messages
      BY <1>5 DEF EventSend, Linked, EvtOutLease, TypeOK, TypeSenders
    <2>2. LeaseMsgs(queue)' /\ queue' # <<>>
      BY <1>5, <2>1, LeasesAppended DEF EventSend, Linked
    <2>3. Linked' /\ NoRequests'
      BY <1>5, <2>2
         DEF EventSend, wifiVars, Linked, EvtOutLease, LeaseEvents, NotingLeases, TimersIdle,
             StationInv, NoRequests
    <2>4. QED
      BY <1>2, <1>5, <2>3 DEF EventSend, wifiVars
  <1>6. CASE TimerCommand
    BY <1>6, TimerCommandKeeps DEF Linked
  <1>7. ASSUME NEW a \in Addrs, AddressChanged(a)
        PROVE  InProgress'
    <2>1. /\ events' = Append(events, Ev("STA_GOT_IP", a)) /\ UNCHANGED softVars
          /\ UNCHANGED <<mode, link, failures, scan>>
      BY <1>7 DEF AddressChanged
    <2>2. LeaseEvents(events)' /\ events' # <<>>
      BY <2>1, Back, PostedEvents, SMTT(30) DEF Linked, LeaseEvents, TypeOK, TypeWifi, Ev
    <2>3. Linked' /\ NoRequests'
      BY <2>1, <2>2
         DEF Linked, LeaseMsgs, EvtOutLease, NotingLeases, TimersIdle, StationInv, NoRequests
    <2>4. QED
      BY <1>2, <2>1, <2>3
  <1>8. CASE FailedOrLost
    <2>1. /\ events' = Append(events, Ev("STA_DISCONNECTED", NoAddr)) /\ UNCHANGED softVars
          /\ UNCHANGED <<mode, scan>> /\ link' = "down" /\ failures' = OneMore(failures)
      BY <1>8 DEF FailedOrLost
    <2>2. failures' = 1
      BY <2>1, ConstantsAssumption DEF Linked, OneMore, FailuresBound
    <2>3. /\ events' # <<>> /\ Len(events') = Len(events) + 1
          /\ events'[Len(events')] = Ev("STA_DISCONNECTED", NoAddr)
          /\ \A i \in 1..Len(events') - 1 : events'[i] = events[i]
          /\ Len(events') > 1 <=> events # <<>>
      BY <2>1, Back, PostedEvents DEF TypeOK, TypeWifi
    <2>4. \A i \in 1..Len(events') - 1 : events'[i].ev = "STA_GOT_IP"
      BY <2>3 DEF Linked, LeaseEvents, TypeOK, TypeWifi
    <2>5. RetriesCount(Len(events) > 1 \/ evtOut # None \/ queue # <<>> \/ mgrPc = "handle")'
      BY <2>1, <2>2, <2>3 DEF RetriesCount, Linked
    <2>6. LossInEvents'
      BY <2>1, <2>3, <2>4, <2>5
         DEF LossInEvents, Linked, LeaseMsgs, EvtOutLease, NotingLeases, Ev
    <2>7. Lost' /\ NoRequests'
      BY <2>1, <2>6 DEF Lost, Linked, TimersIdle, StationInv, NoRequests
    <2>8. QED
      BY <1>2, <2>1, <2>7
  <1>9. QED
    BY <1>1, <1>3, <1>4, <1>5, <1>6, <1>7, <1>8

(* Before the last event of a lost connection is handled.                  *)
LEMMA FromLossInEvents ==
    ASSUME TypeOK, NoRequests, TimersIdle, LossInEvents,
           Manager \/ EventHandler \/ EventSend
    PROVE  /\ LossInEvents' \/ LossInTask'
           /\ NoRequests' /\ TimersIdle' /\ UNCHANGED <<mode, link, staConfig, scan, timers>>
  <1> USE DEF mgrVars, sideVars, timerVars, wifiVars
  <1>1. CASE Manager
    <2>1. queue # <<>> => LeaseMsg(Head(queue)) /\ (queue' = Tail(queue) => LeaseMsgs(queue)')
      BY LeasesTaken DEF LossInEvents
    <2>2. /\ NotingLeases' /\ NoRequests' /\ TimersIdle'
          /\ UNCHANGED <<staConfig, evtOut, events, mode, link, failures, scan, timers>>
          /\ \/ queue # <<>> /\ queue' = Tail(queue) /\ mgrPc' = "handle" /\ retries' = retries
             \/ mgrPc = "handle" /\ queue' = queue /\ retries' = 0
      BY <1>1, <2>1, NotingSteps DEF LossInEvents
    <2>3. LeaseMsgs(queue)' /\ EvtOutLease'
      BY <2>1, <2>2 DEF LossInEvents, LeaseMsgs, EvtOutLease
    <2>4. failures = 1
      BY <2>2 DEF LossInEvents, RetriesCount
    <2>5. RetriesCount(Len(events) > 1 \/ evtOut # None \/ queue # <<>> \/ mgrPc = "handle")'
      BY <2>2, <2>4 DEF RetriesCount
    <2>6. LossInEvents'
      BY <2>2, <2>3, <2>5 DEF LossInEvents
    <2>7. QED
      BY <2>2, <2>6
  <1>2. CASE EventHandler
    <2>1. events # <<>> /\ events \in Seq(Events) /\ evtOut = None /\ events' = Tail(events)
      BY <1>2, HandledEvent DEF TypeOK, TypeWifi
    <2>2. UNCHANGED <<queue, mgrPc, mgrMsg, uxBits, retries, staConfig, tmrOut,
                      timerCmds, timers, mode, link, failures, scan>>
      BY <1>2, HandledEvent
    <2>3. LeaseMsgs(queue)' /\ NotingLeases' /\ TimersIdle'
      BY <2>2 DEF LossInEvents, LeaseMsgs, NotingLeases, TimersIdle
    <2>4. CASE Len(events) > 1
      <3>1. Head(events).ev = "STA_GOT_IP"
        BY <2>1, <2>4, Front DEF LossInEvents
      <3>2. LeaseMsg(evtOut') /\ bits' = bits \cup {"CONNECTED"} /\ evtOut' # None
        BY <1>2, <3>1, HandledEvent, Codes DEF LeaseMsg
      <3>3. /\ events' # <<>> /\ events'[Len(events')].ev = "STA_DISCONNECTED"
            /\ \A i \in 1..Len(events') - 1 : events'[i].ev = "STA_GOT_IP"
        BY <2>1, <2>4, Front DEF LossInEvents
      <3>4. failures' = 1
        BY <2>2, <2>4 DEF LossInEvents, RetriesCount
      <3>5. LossInEvents'
        BY <2>3, <3>2, <3>3, <3>4 DEF LossInEvents, EvtOutLease, RetriesCount
      <3>6. QED
        BY <2>2, <2>3, <3>2, <3>5 DEF NoRequests
    <2>5. CASE Len(events) = 1
      <3>1. Head(events).ev = "STA_DISCONNECTED" /\ events' = <<>>
        BY <2>1, <2>5, Front DEF LossInEvents
      <3>2. evtOut' = LossMsg /\ bits' = bits \ {"CONNECTED", "SCAN"}
        BY <1>2, <3>1, HandledEvent
      <3>3. RetriesCount(queue # <<>> \/ mgrPc = "handle")'
        BY <2>1, <2>2, <2>5 DEF LossInEvents, RetriesCount
      <3>4. LossInTask'
        BY <2>3, <3>1, <3>2, <3>3 DEF LossInTask
      <3>5. QED
        BY <2>2, <2>3, <3>2, <3>4 DEF NoRequests
    <2>6. Len(events) = 1 \/ Len(events) > 1
      BY <2>1, Front
    <2>7. QED
      BY <2>4, <2>5, <2>6
  <1>3. CASE EventSend
    <2>1. LeaseMsg(evtOut) /\ evtOut \in Messages
      BY <1>3 DEF EventSend, LossInEvents, EvtOutLease, TypeOK, TypeSenders
    <2>2. LeaseMsgs(queue)' /\ queue' # <<>>
      BY <1>3, <2>1, LeasesAppended DEF EventSend, LossInEvents
    <2>3. failures' = 1 /\ evtOut' = None
      BY <1>3 DEF EventSend, LossInEvents, RetriesCount
    <2>4. LossInEvents'
      BY <1>3, <2>2, <2>3
         DEF EventSend, LossInEvents, EvtOutLease, NotingLeases, RetriesCount
    <2>5. QED
      BY <1>3, <2>4 DEF EventSend, NoRequests, TimersIdle
  <1>4. QED
    BY <1>1, <1>2, <1>3

(* While the event task sends the loss.                                    *)
LEMMA FromLossInTask ==
    ASSUME TypeOK, NoRequests, TimersIdle, LossInTask,
           Manager \/ EventHandler \/ EventSend
    PROVE  /\ LossInTask' \/ LossInQueue'
           /\ NoRequests' /\ TimersIdle' /\ UNCHANGED <<mode, link, staConfig, scan, timers>>
  <1> USE DEF mgrVars, sideVars, timerVars, wifiVars
  <1>1. CASE Manager
    <2>1. queue # <<>> => LeaseMsg(Head(queue)) /\ (queue' = Tail(queue) => LeaseMsgs(queue)')
      BY LeasesTaken DEF LossInTask
    <2>2. /\ NotingLeases' /\ NoRequests' /\ TimersIdle' /\ bits' \subseteq bits
          /\ UNCHANGED <<staConfig, evtOut, events, mode, link, failures, scan, timers>>
          /\ \/ queue # <<>> /\ queue' = Tail(queue) /\ mgrPc' = "handle" /\ retries' = retries
             \/ mgrPc = "handle" /\ queue' = queue /\ retries' = 0
      BY <1>1, <2>1, NotingSteps DEF LossInTask
    <2>3. LeaseMsgs(queue)'
      BY <2>1, <2>2 DEF LossInTask, LeaseMsgs
    <2>4. failures = 1
      BY <2>2 DEF LossInTask, RetriesCount
    <2>5. LossInTask'
      BY <2>2, <2>3, <2>4 DEF LossInTask, RetriesCount
    <2>6. QED
      BY <2>2, <2>5
  <1>2. CASE EventHandler
    BY <1>2 DEF EventHandler, LossInTask
  <1>3. CASE EventSend
    <2>1. /\ queue' = Append(queue, LossMsg) /\ evtOut' = None /\ events' = <<>>
          /\ LossMsg \in Messages /\ queue \in Seq(Messages)
          /\ UNCHANGED <<mgrPc, mgrMsg, bits, retries, failures>>
      BY <1>3, SentMessages DEF EventSend, LossInTask, LossMsg, TypeOK, TypeQueue
    <2>2. /\ queue' # <<>> /\ Len(queue') = Len(queue) + 1
          /\ queue'[Len(queue')] = LossMsg
          /\ \A i \in 1..Len(queue') - 1 : queue'[i] = queue[i]
          /\ Len(queue') > 1 <=> queue # <<>>
      BY <2>1, Back
    <2>3. \A i \in 1..Len(queue') - 1 : LeaseMsg(queue'[i])
      BY <2>1, <2>2 DEF LossInTask, LeaseMsgs
    <2>4. LossInQueue'
      BY <2>1, <2>2, <2>3 DEF LossInTask, LossInQueue, NoEvents, NotingLeases, RetriesCount
    <2>5. QED
      BY <1>3, <2>4 DEF EventSend, NoRequests, TimersIdle
  <1>4. QED
    BY <1>1, <1>2, <1>3

(* While the loss waits in the queue.                                      *)
LEMMA FromLossInQueue ==
    ASSUME TypeOK, NoRequests, TimersIdle, LossInQueue,
           Manager \/ EventHandler \/ EventSend
    PROVE  /\ LossInQueue' \/ LossHandled'
           /\ NoRequests' /\ TimersIdle' /\ UNCHANGED <<mode, link, staConfig, scan, timers>>
  <1> USE DEF mgrVars, sideVars, timerVars, wifiVars
  <1>1. Manager
    BY DEF LossInQueue, NoEvents, EventHandler, EventSend
  <1>2. queue \in Seq(Messages) /\ queue # <<>>
    BY DEF TypeOK, TypeQueue, LossInQueue
  <1> DEFINE last == Len(queue)
  <1>9. /\ Head(queue) = queue[1] /\ last \in Nat /\ (last = 1 \/ last > 1)
        /\ Len(Tail(queue)) = last - 1
        /\ \A i \in 1..Len(Tail(queue)) : Tail(queue)[i] = queue[i + 1] /\ i + 1 \in 1..last
        /\ Tail(queue) # <<>> <=> last > 1
    BY <1>2, Front
  <1> HIDE DEF last
  <1>10. /\ queue[last] = LossMsg /\ \A i \in 1..last - 1 : LeaseMsg(queue[i])
         /\ RetriesCount(last > 1 \/ mgrPc = "handle")
    BY DEF LossInQueue, last
  <1>3. CASE mgrPc = "idle" /\ last = 1
    <2>1. Head(queue) = LossMsg /\ Tail(queue) = <<>>
      BY <1>3, <1>9, <1>10
    <2>2. Receive
      BY <1>1, <1>3 DEF Manager, Handle, Handling, LoadAndRestoreSta, ConnectSta,
         StaDisconnected, StartAp, StartHttpServer, StopHttpServer, StopAp, StaGotIp,
         StartWifiScan, DisconnectSta, ManagerSend
    <2>3. LossMsg.code = "STA_DISCONNECTED" /\ Requested(LossMsg) = {} /\ "shutdown" \notin timers
      BY Codes DEF LossMsg, Requested, TimersIdle
    <2>4. /\ queue' = <<>> /\ mgrPc' = "handle" /\ mgrMsg' = LossMsg
          /\ bits' = bits /\ uxBits' = bits /\ timerCmds' = timerCmds
          /\ UNCHANGED <<retries, staConfig, evtOut, tmrOut, timers, events, mode, link,
                         failures, scan>>
      BY <2>1, <2>2, <2>3 DEF Receive, ReadsBits
    <2>5. retries + 1 = failures
      BY <1>3, <1>10 DEF RetriesCount
    <2>6. LossHandled'
      BY <2>4, <2>5 DEF LossInQueue, LossHandled, NoEvents
    <2>7. QED
      BY <2>4, <2>6 DEF NoRequests, TimersIdle
  <1>4. CASE mgrPc # "idle" \/ last # 1
    <2>1. failures = 1
      BY <1>4, <1>9, <1>10 DEF LossInQueue, NotingLeases, RetriesCount
    <2>2. mgrPc = "idle" => LeaseMsg(Head(queue)) /\ last > 1
      BY <1>4, <1>9, <1>10
    <2>3. /\ NotingLeases' /\ NoRequests' /\ TimersIdle' /\ bits' \subseteq bits
          /\ UNCHANGED <<staConfig, evtOut, events, mode, link, failures, scan, timers>>
          /\ \/ mgrPc = "idle" /\ queue' = Tail(queue) /\ mgrPc' = "handle"
             \/ queue' = queue /\ mgrPc' = "idle" /\ retries' = 0
      BY <1>1, <2>2, NotingSteps DEF LossInQueue
    <2>4. /\ queue' # <<>> /\ queue'[Len(queue')] = LossMsg
          /\ \A i \in 1..Len(queue') - 1 : LeaseMsg(queue'[i])
      <3>1. CASE queue' = queue
        BY <1>2, <1>10, <3>1 DEF last
      <3>2. CASE mgrPc = "idle" /\ queue' = Tail(queue)
        <4>1. queue' # <<>> /\ Len(queue') = last - 1
          BY <1>9, <2>2, <3>2
        <4>2. Len(queue') \in 1..Len(queue') /\ last - 1 + 1 = last
          BY <1>9, <2>2, <3>2, <4>1
        <4>3. queue'[Len(queue')] = LossMsg
          BY <1>9, <1>10, <3>2, <4>1, <4>2
        <4>4. \A i \in 1..Len(queue') - 1 : LeaseMsg(queue'[i])
          BY <1>9, <1>10, <3>2, <4>1
        <4>5. QED
          BY <4>1, <4>3, <4>4
      <3>3. QED
        BY <2>3, <3>1, <3>2
    <2>5. LossInQueue'
      BY <2>1, <2>3, <2>4 DEF LossInQueue, NoEvents, RetriesCount
    <2>6. QED
      BY <2>3, <2>5
  <1>5. QED
    BY <1>3, <1>4

(* When the manager has the loss: it retries, or gives the radio to the    *)
(* access point.                                                           *)
LEMMA FromLossHandled ==
    ASSUME TypeOK, NoRequests, TimersIdle, LossHandled, link = "down", staConfig = "saved",
           Manager \/ EventHandler \/ EventSend
    PROVE  /\ RetryPending' \/ ApOrdered'
           /\ NoRequests' /\ UNCHANGED <<mode, scan, timers>>
  <1> USE DEF mgrVars, sideVars, timerVars, wifiVars
  <1>1. StaDisconnected
    BY Dispatch, Codes
       DEF LossHandled, NoEvents, EventHandler, EventSend, LossMsg, Manager, Receive, ManagerSend
  <1>2. uxBits \cap {"REQUEST_STA_CONNECT", "REQUEST_DISCONNECT", "AP_STARTED"} = {}
    BY DEF NoRequests
  <1>3. /\ UNCHANGED <<queue, staConfig, evtOut, tmrOut, timers, events, mode, link,
                       failures, scan>>
        /\ bits' \subseteq bits
        /\ \/ /\ RetriesLeft /\ retries' = retries + 1
              /\ timerCmds' = Post("start_retry") /\ Done
           \/ ~RetriesLeft /\ FallBack
    BY <1>1, <1>2 DEF StaDisconnected
  <1>4. uxBits' = {} /\ NoRequests' /\ Unlinked' /\ NoEvents' /\ queue' = <<>>
    BY <1>3 DEF Done, FallBack, Then, NoRequests, LossHandled, Unlinked, NoEvents
  <1>5. CASE RetriesLeft
    <2>1. retries' = failures' /\ failures' > 0 /\ mgrPc' = "idle"
      BY <1>3, <1>5 DEF LossHandled, Done, TypeOK, TypeManager
    <2>2. timerCmds' = Post("start_retry") /\ TimerQueueLength \in Nat /\ TimerQueueLength > 1
      BY <1>3, <1>5, ConstantsAssumption
    <2>3. ASSUME timerCmds = <<>> PROVE timerCmds' = <<"start_retry">>
      <3>1. Len(timerCmds) = 0
        BY <2>3
      <3>2. timerCmds' = Append(timerCmds, "start_retry")
        BY <2>2, <3>1 DEF Post
      <3>3. QED
        BY <2>3, <3>2, Single
    <2>4. ASSUME timerCmds = <<"stop_retry">>
          PROVE  timerCmds' = <<"stop_retry", "start_retry">>
      <3>1. Len(timerCmds) = 1
        BY <2>4, Single
      <3>2. timerCmds' = Append(timerCmds, "start_retry")
        BY <2>2, <3>1 DEF Post
      <3>3. QED
        BY <2>4, <3>2, Pair
    <2>5. timerCmds' = <<"start_retry">> \/ timerCmds' = <<"stop_retry", "start_retry">>
      BY <2>3, <2>4 DEF TimersIdle
    <2>6. RetryPending'
      BY <1>3, <1>4, <2>1, <2>5 DEF RetryPending, TimersIdle, MgrIdle
    <2>7. QED
      BY <1>3, <1>4, <2>6
  <1>6. CASE ~RetriesLeft
    <2>1. retries' = 0 /\ Then(Order("START_AP")) /\ timerCmds' = timerCmds
      BY <1>3, <1>6 DEF FallBack
    <2>2. failures' = MaxRetry + 1
      BY <1>3, <1>6, ConstantsAssumption DEF LossHandled, RetriesLeft, TypeOK, TypeManager
    <2>3. Carried(Order("START_AP"))'
      BY <1>4, <2>1 DEF Then, Carried
    <2>4. ApOrdered'
      BY <1>3, <1>4, <2>1, <2>2, <2>3 DEF ApOrdered, TimersIdle
    <2>5. QED
      BY <1>3, <1>4, <2>4
  <1>7. QED
    BY <1>5, <1>6

(* From a failed or lost connection to what is done about it.              *)
LEMMA FromLost ==
    ASSUME UserOrders = {}, TypeOK, InProgress, mode = "STA", StationInv, Lost, Next
    PROVE  InProgress'
  <1>1. Manager \/ EventHandler \/ EventSend \/ TimerCommand
    BY StationSteps
       DEF InProgress, Lost, LossInEvents, LossInTask, LossInQueue, LossHandled,
           NotingLeases, Associated, AddressChanged, FailedOrLost
  <1>2. NoRequests /\ TimersIdle /\ link = "down" /\ staConfig = "saved"
    BY DEF Lost, StationInv
  <1>3. CASE Manager \/ EventHandler \/ EventSend
    <2>1. CASE LossInEvents
      <3>1. Lost' /\ NoRequests' /\ UNCHANGED <<mode, scan, timers>>
        BY <1>2, <1>3, <2>1, FromLossInEvents DEF Lost
      <3>2. QED
        BY <3>1 DEF InProgress, StationInv
    <2>2. CASE LossInTask
      <3>1. Lost' /\ NoRequests' /\ UNCHANGED <<mode, scan, timers>>
        BY <1>2, <1>3, <2>2, FromLossInTask DEF Lost
      <3>2. QED
        BY <3>1 DEF InProgress, StationInv
    <2>3. CASE LossInQueue
      <3>1. Lost' /\ NoRequests' /\ UNCHANGED <<mode, scan, timers>>
        BY <1>2, <1>3, <2>3, FromLossInQueue DEF Lost
      <3>2. QED
        BY <3>1 DEF InProgress, StationInv
    <2>4. CASE LossHandled
      <3>1. (RetryPending' \/ ApOrdered') /\ NoRequests' /\ UNCHANGED <<mode, scan, timers>>
        BY <1>2, <1>3, <2>4, FromLossHandled
      <3>2. QED
        BY <3>1 DEF InProgress, StationInv
    <2>5. QED
      BY <2>1, <2>2, <2>3, <2>4 DEF Lost
  <1>4. CASE TimerCommand
    BY <1>2, <1>4, TimerCommandKeeps
  <1>5. QED
    BY <1>1, <1>3, <1>4

(* From a retry on its way through the timer daemon to the manager.        *)
LEMMA FromRetryPending ==
    ASSUME UserOrders = {}, TypeOK, InProgress, mode = "STA", StationInv, RetryPending, Next
    PROVE  InProgress'
  <1> USE DEF mgrVars, sideVars, timerVars, wifiVars
  <1> DEFINE connect == Connect("AUTO_RECONNECT")
  <1>1. TimerCommand \/ RetryExpires \/ TimerSend
    BY DEF Next, InProgress, RetryPending, Unlinked, MgrIdle, NoEvents, Manager, Receive,
           Handle, Handling, LoadAndRestoreSta, ConnectSta, StaDisconnected, StartAp,
           StartHttpServer, StopHttpServer, StopAp, StaGotIp, StartWifiScan, DisconnectSta,
           ManagerSend, Reboot, EventHandler, EventSend, ShutdownExpires, UserOrder, Network,
           Associated, AddressChanged, FailedOrLost, ScanDone, ClientJoins, ClientLeased,
           ClientLeaves
  <1>2. ASSUME UNCHANGED <<mode, scan>>, "shutdown" \notin timers', NoRequests',
               RetryPending' \/ ConnectOrdered'
        PROVE  InProgress'
    BY <1>2 DEF InProgress, StationInv
  <1>3. connect # None
    BY Codes
  <1>4. CASE TimerCommand
    <2>1. tmrOut = None /\ timerCmds # <<>> /\ tmrOut' = None /\ timerCmds' = Tail(timerCmds)
          /\ UNCHANGED <<queue, mgrPc, uxBits, bits, evtOut, events, mode, link, scan,
                         retries, failures, staConfig>>
      BY <1>4 DEF TimerCommand
    <2>2. Unlinked' /\ NoEvents' /\ MgrIdle' /\ NoRequests'
      BY <2>1 DEF RetryPending, Unlinked, NoEvents, MgrIdle, StationInv, NoRequests
    <2>3. CASE timerCmds = <<"start_retry">>
      <3>1. timerCmds' = <<>> /\ Head(timerCmds) = "start_retry" /\ timers = {}
        BY <1>3, <2>1, <2>3, Single DEF RetryPending
      <3>2. timers' = {"retry"}
        BY <1>4, <3>1 DEF TimerCommand
      <3>3. RetryPending'
        BY <2>1, <2>2, <3>1, <3>2 DEF RetryPending
      <3>4. QED
        BY <1>2, <2>1, <2>2, <3>2, <3>3
    <2>4. CASE timerCmds = <<"stop_retry", "start_retry">>
      <3>1. timerCmds' = <<"start_retry">> /\ Head(timerCmds) = "stop_retry" /\ timers = {}
        BY <1>3, <2>1, <2>4, Pair DEF RetryPending
      <3>2. timers' = {}
        BY <1>4, <3>1 DEF TimerCommand
      <3>3. RetryPending'
        BY <2>1, <2>2, <3>1, <3>2 DEF RetryPending
      <3>4. QED
        BY <1>2, <2>1, <2>2, <3>2, <3>3
    <2>5. QED
      BY <1>3, <2>1, <2>3, <2>4 DEF RetryPending
  <1>5. CASE RetryExpires
    <2>1. timerCmds = <<>> /\ timers = {"retry"}
      BY <1>3, <1>5 DEF RetryPending, RetryExpires
    <2>2. Post("stop_retry") = <<"stop_retry">>
      BY <2>1, ConstantsAssumption DEF Post
    <2>3. timers' = {} /\ timerCmds' = <<"stop_retry">> /\ tmrOut' = connect
          /\ UNCHANGED <<queue, mgrPc, uxBits, bits, evtOut, events, mode, link, scan,
                         retries, failures, staConfig>>
      BY <1>5, <2>1, <2>2 DEF RetryExpires
    <2>4. RetryPending' /\ NoRequests'
      BY <2>3 DEF RetryPending, Unlinked, NoEvents, MgrIdle, StationInv, NoRequests
    <2>5. QED
      BY <1>2, <2>3, <2>4
  <1>6. CASE TimerSend
    <2>1. tmrOut = connect /\ timerCmds = <<"stop_retry">> /\ timers = {} /\ queue = <<>>
          /\ mgrPc = "idle"
      BY <1>6 DEF TimerSend, RetryPending, MgrIdle
    <2>2. queue' = <<connect>> /\ tmrOut' = None
          /\ UNCHANGED <<mgrPc, uxBits, bits, evtOut, events, mode, link, scan,
                         retries, failures, staConfig, timers, timerCmds>>
      BY <1>6, <2>1, Single DEF TimerSend
    <2>3. Carried(connect)' /\ TimersIdle'
      BY <2>1, <2>2 DEF Carried, TimersIdle
    <2>4. ConnectOrdered' /\ NoRequests'
      BY <2>2, <2>3
         DEF ConnectOrdered, RetryPending, Unlinked, NoEvents, StationInv, NoRequests
    <2>5. QED
      BY <1>2, <2>1, <2>2, <2>4
  <1>7. QED
    BY <1>1, <1>4, <1>5, <1>6

(* The access point keeps the radio: the manager only starts and stops the *)
(* web server.                                                             *)
LEMMA FromAccessPoint ==
    ASSUME UserOrders = {}, TypeOK, InProgress, mode = "AP", AccessPointInv, Next
    PROVE  InProgress' /\ UNCHANGED <<mode, link, failures>>
  <1> USE DEF softVars, mgrVars, sideVars, timerVars, wifiVars, linkVars, httpVars
  <1>1. \/ Manager \/ EventHandler \/ EventSend \/ TimerCommand
        \/ \E c \in Clients : ClientJoins(c) \/ ClientLeased(c) \/ ClientLeaves(c)
    BY DEF Next, InProgress, AccessPointInv, TimersIdle, Reboot, RetryExpires, ShutdownExpires,
           TimerSend, UserOrder, Network, Associated, AddressChanged, FailedOrLost, ScanDone
  <1>2. ASSUME AccessPointInv', UNCHANGED <<mode, scan, timers>> PROVE InProgress'
    BY <1>2 DEF InProgress
  <1>3. queue \in Seq(Messages) /\ events \in Seq(Events)
    BY DEF TypeOK, TypeQueue, TypeWifi
  <1>4. CASE Receive
    <2>1. queue # <<>> /\ queue' = Tail(queue) /\ mgrMsg' = Head(queue) /\ mgrPc' = "handle"
          /\ UNCHANGED <<evtOut, tmrOut, timers, events, mode, link, failures, scan>>
      BY <1>4 DEF Receive
    <2>2. HttpMsg(Head(queue)) /\ \A i \in 1..Len(queue') : HttpMsg(queue'[i])
      BY <1>3, <2>1, Front DEF AccessPointInv
    <2>3. timerCmds' = timerCmds
      BY <1>4, <2>2 DEF Receive, HttpMsg
    <2>4. AccessPointInv'
      BY <2>1, <2>2, <2>3 DEF AccessPointInv, TimersIdle
    <2>5. QED
      BY <1>2, <2>1, <2>4
  <1>5. CASE Handle
    <2>1. StartHttpServer \/ StopHttpServer
      BY <1>5, Dispatch DEF AccessPointInv
    <2>2. mgrPc' = "idle"
          /\ UNCHANGED <<queue, evtOut, tmrOut, timerCmds, timers, events, mode, link, failures, scan>>
      BY <2>1 DEF StartHttpServer, StopHttpServer, Done
    <2>3. AccessPointInv'
      BY <2>2 DEF AccessPointInv, TimersIdle
    <2>4. QED
      BY <1>2, <2>2, <2>3
  <1>6. CASE ManagerSend
    BY <1>6 DEF ManagerSend, AccessPointInv
  <1>7. CASE EventHandler
    <2>1. events # <<>> /\ events' = Tail(events) /\ evtOut' = MessageOf(Head(events))
          /\ UNCHANGED <<queue, mgrPc, mgrMsg, tmrOut, timerCmds, timers, mode, link, failures, scan>>
      BY <1>7 DEF EventHandler
    <2>2. Head(events).ev \in ApEvents /\ \A i \in 1..Len(events') : events'[i].ev \in ApEvents
      BY <1>3, <2>1, Front DEF AccessPointInv
    <2>3. evtOut' = None \/ HttpMsg(evtOut')
      BY <2>1, <2>2, Codes DEF MessageOf, ApEvents, HttpMsg
    <2>4. AccessPointInv'
      BY <2>1, <2>2, <2>3 DEF AccessPointInv, TimersIdle
    <2>5. QED
      BY <1>2, <2>1, <2>4
  <1>8. CASE EventSend
    <2>1. queue' = Append(queue, evtOut) /\ evtOut' = None /\ evtOut \in Messages
          /\ HttpMsg(evtOut)
          /\ UNCHANGED <<mgrPc, mgrMsg, tmrOut, timerCmds, timers, events, mode, link, failures, scan>>
      BY <1>8 DEF EventSend, AccessPointInv, TypeOK, TypeSenders
    <2>2. \A i \in 1..Len(queue') : HttpMsg(queue'[i])
      BY <1>3, <2>1, Back DEF AccessPointInv
    <2>3. AccessPointInv'
      BY <2>1, <2>2 DEF AccessPointInv, TimersIdle
    <2>4. QED
      BY <1>2, <2>1, <2>3
  <1>9. CASE TimerCommand
    BY <1>9, TimerCommandKeeps DEF AccessPointInv, TimerCommand
  <1>10. ASSUME NEW c \in Clients, ClientJoins(c) \/ ClientLeased(c) \/ ClientLeaves(c)
         PROVE  InProgress' /\ UNCHANGED <<mode, link, failures>>
    <2>1. UNCHANGED softVars /\ UNCHANGED <<mode, link, failures, scan>>
      BY <1>10 DEF ClientJoins, ClientLeased, ClientLeaves
    <2>2. \/ events' = events
          \/ \E e \in {Ev("AP_STAIPASSIGNED", NoAddr), Ev("AP_STADISCONNECTED", NoAddr)} :
                events' = Append(events, e)
      BY <1>10 DEF ClientJoins, ClientLeased, ClientLeaves
    <2>3. ASSUME NEW e \in {Ev("AP_STAIPASSIGNED", NoAddr), Ev("AP_STADISCONNECTED", NoAddr)},
                 events' = Append(events, e)
          PROVE  \A i \in 1..Len(events') : events'[i].ev \in ApEvents
      <3>1. e.ev \in ApEvents /\ e \in Events
        BY PostedEvents DEF Ev, ApEvents
      <3>2. QED
        BY <1>3, <2>3, <3>1, Back DEF AccessPointInv
    <2>4. \A i \in 1..Len(events') : events'[i].ev \in ApEvents
      BY <2>2, <2>3 DEF AccessPointInv
    <2>5. AccessPointInv'
      BY <2>1, <2>4 DEF AccessPointInv, TimersIdle
    <2>6. QED
      BY <1>2, <2>1, <2>5
  <1>11. QED
    BY <1>1, <1>4, <1>5, <1>6, <1>7, <1>8, <1>9, <1>10 DEF Manager

(* The first state, and every step.                                        *)
LEMMA InitInProgress == Init => InProgress
  <1> SUFFICES ASSUME Init PROVE InProgress
    OBVIOUS
  <1>1. Loading
    BY DEF Init, Loading, Unlinked, NoEvents, TimersIdle, Carried
  <1>2. QED
    BY <1>1 DEF Init, InProgress, StationInv, NoRequests

LEMMA StepInProgress ==
    ASSUME UserOrders = {}, TypeOK, InProgress, [Next]_vars
    PROVE  InProgress'
  <1>1. CASE Next /\ mode = "STA"
    <2>1. StationInv
      BY <1>1 DEF InProgress
    <2>2. QED
      BY <1>1, <2>1, FromLoading, FromConnectOrdered, FromApOrdered, FromConnecting,
         FromLinked, FromLost, FromRetryPending DEF StationInv
  <1>2. CASE Next /\ mode = "AP"
    BY <1>2, FromAccessPoint DEF InProgress
  <1>3. CASE UNCHANGED vars
    BY <1>3
       DEF vars, InProgress, StationInv, AccessPointInv, NoRequests, Loading, ConnectOrdered,
           ApOrdered, Connecting, Linked, Lost, LossInEvents, LossInTask, LossInQueue,
           LossHandled, RetryPending, Unlinked, NoEvents, TimersIdle, MgrIdle, Carried,
           NotingLeases, EvtOutLease, RetriesCount, LeaseMsgs, LeaseEvents
  <1>4. QED
    BY <1>1, <1>2, <1>3 DEF TypeOK, TypeWifi

(* In a firmware in which no application task sends orders, exactly one    *)
(* thing is in progress at any time, for any number of retries, any length *)
(* of the queues and any network.                                          *)
THEOREM OneThing ==
    ASSUME UserOrders = {}
    PROVE  Spec => []OneThingInProgress
  <1>1. Init => OneThingInProgress
    BY InitTyped, InitInProgress DEF OneThingInProgress
  <1>2. OneThingInProgress /\ [Next]_vars => OneThingInProgress'
    BY TypedStep, StepInProgress DEF OneThingInProgress
  <1>3. QED
    BY <1>1, <1>2, PTL DEF Spec

-----------------------------------------------------------------------------
(* What follows from it.                                                   *)

(* The manager's handlers never find the queue full when they send to it,  *)
(* however short the queue is: the task never waits for itself.            *)
THEOREM NeverSelfBlocks ==
    ASSUME UserOrders = {}
    PROVE  Spec => []ManagerNeverSelfBlocks
  <1>1. OneThingInProgress => ManagerNeverSelfBlocks
    <2> SUFFICES ASSUME OneThingInProgress, mgrPc = "send" PROVE Len(queue) < QueueLength
      BY DEF ManagerNeverSelfBlocks
    <2>1. queue = <<>>
      BY DEF OneThingInProgress, TypeOK, TypeWifi, InProgress, StationInv, AccessPointInv,
             Loading, ConnectOrdered, ApOrdered, Connecting, Linked, Lost, LossInEvents,
             LossInTask, LossInQueue, LossHandled, RetryPending, Carried, MgrIdle, NotingLeases
    <2>2. QED
      BY <2>1, ConstantsAssumption
  <1>2. QED
    BY <1>1, OneThing, PTL

(* No order reaches the driver in a mode that aborts: the retry timer      *)
(* never outlives the station mode.                                        *)
THEOREM NoAbort ==
    ASSUME UserOrders = {}
    PROVE  Spec => []NeverAborts
  <1>1. OneThingInProgress => NeverAborts
    BY DEF NeverAborts, OneThingInProgress, TypeOK, TypeWifi, InProgress, StationInv,
           AccessPointInv, Loading, ConnectOrdered, ApOrdered, Connecting, Linked, Lost,
           LossInEvents, LossInTask, LossInQueue, LossHandled, RetryPending, Carried,
           MgrIdle, NotingLeases
  <1>2. QED
    BY <1>1, OneThing, PTL

(* When nothing is left to do, the device can be reached, or is about to   *)
(* be.                                                                     *)
THEOREM Reached ==
    ASSUME UserOrders = {}
    PROVE  Spec => []NotStranded
  <1>1. OneThingInProgress => NotStranded
    <2> SUFFICES ASSUME OneThingInProgress, Quiet, mode = "STA", link = "down" PROVE FALSE
      BY DEF NotStranded, OneThingInProgress, TypeOK, TypeWifi
    <2>1. StationInv /\ queue = <<>> /\ mgrPc = "idle" /\ events = <<>> /\ evtOut = None
          /\ timerCmds = <<>> /\ timers = {}
      BY DEF OneThingInProgress, InProgress, Quiet
    <2>2. ~Loading /\ ~ConnectOrdered /\ ~ApOrdered
      BY <2>1, Single DEF Loading, ConnectOrdered, ApOrdered, Carried
    <2>3. ~Connecting /\ ~Linked
      BY DEF Connecting, Linked
    <2>4. ~Lost
      BY <2>1, SentMessages
         DEF Lost, LossInEvents, LossInTask, LossInQueue, LossHandled, LossMsg
    <2>5. ~RetryPending
      BY <2>1, Single, Pair DEF RetryPending
    <2>6. QED
      BY <2>1, <2>2, <2>3, <2>4, <2>5 DEF StationInv
  <1>2. QED
    BY <1>1, OneThing, PTL

-----------------------------------------------------------------------------
(* The manager implements Connectivity.                                    *)

(* The driver changes what Connectivity tells apart in four steps only.    *)
LEMMA ConnectivitySteps ==
    ASSUME UserOrders = {}, TypeOK, InProgress, Next
    PROVE  \/ UNCHANGED <<mode, link, failures>>
           \/ mode = "STA" /\ ConnectSta /\ ConnectOrdered /\ mgrPc = "handle"
           \/ mode = "STA" /\ StartAp /\ ApOrdered
           \/ mode = "STA" /\ (Connecting \/ Linked) /\ FailedOrLost
           \/ mode = "STA" /\ Connecting /\ \E a \in Addrs : Associated(a)
  <1> USE DEF softVars, mgrVars, sideVars, timerVars, wifiVars, linkVars
  <1>1. CASE mode = "AP"
    BY <1>1, FromAccessPoint DEF InProgress
  <1>2. CASE mode = "STA"
    <2>1. StationInv /\ scan = "idle"
      BY <1>2 DEF InProgress
    <2>2. mgrPc = "handle" =>
            \/ ConnectOrdered /\ mgrMsg.code = "CONNECT_STA"
            \/ ApOrdered /\ mgrMsg.code = "START_AP"
            \/ mgrMsg.code \in {"LOAD_AND_RESTORE_STA", "STA_DISCONNECTED", "STA_GOT_IP"}
      BY <2>1, Codes
         DEF StationInv, Loading, ConnectOrdered, ApOrdered, Connecting, Linked, Lost,
             LossInEvents, LossInTask, LossInQueue, LossHandled, RetryPending, Carried,
             MgrIdle, NotingLeases, LeaseMsg, LossMsg
    <2>3. link # "down" => (Connecting /\ link = "connecting") \/ (Linked /\ link = "up")
      <3>1. Loading \/ ConnectOrdered \/ ApOrdered \/ Lost \/ RetryPending => link = "down"
        BY DEF Loading, ConnectOrdered, ApOrdered, Lost, RetryPending, Unlinked
      <3>2. (Connecting => link = "connecting") /\ (Linked => link = "up")
        BY DEF Connecting, Linked
      <3>3. link # "down" => Connecting \/ Linked
        BY <2>1, <3>1, Zenon DEF StationInv
      <3>4. QED
        BY <3>2, <3>3, Zenon
    <2>4. mgrPc # "aborted"
      BY <2>1
         DEF StationInv, Loading, ConnectOrdered, ApOrdered, Connecting, Linked, Lost,
             LossInEvents, LossInTask, LossInQueue, LossHandled, RetryPending, Carried,
             MgrIdle, NotingLeases
    <2>5. CASE Handle
      BY <1>2, <2>2, <2>5
         DEF Handle, Handling, LoadAndRestoreSta, ConnectSta, StaDisconnected, StartAp,
             StartHttpServer, StopHttpServer, StopAp, StaGotIp, StartWifiScan, DisconnectSta
    <2>6. CASE Receive \/ ManagerSend \/ EventHandler \/ EventSend \/ TimerCommand
               \/ RetryExpires \/ ShutdownExpires \/ TimerSend \/ UserOrder
      BY <2>6
         DEF Receive, ManagerSend, EventHandler, EventSend, TimerCommand, RetryExpires,
             ShutdownExpires, TimerSend, UserOrder
    <2>7. CASE Network
      BY <1>2, <2>3, <2>7
         DEF Network, Associated, AddressChanged, FailedOrLost, ScanDone, ClientJoins,
             ClientLeased, ClientLeaves
    <2>8. QED
      BY <2>4, <2>5, <2>6, <2>7 DEF Next, Manager, Reboot
  <1>3. QED
    BY <1>1, <1>2 DEF TypeOK, TypeWifi

LEMMA InitConnectivity == Init => Conn!CInit
  BY DEF Init, Conn!CInit, Phase

LEMMA StepConnectivity ==
    ASSUME UserOrders = {}, TypeOK, InProgress, [Next]_vars
    PROVE  [Conn!CNext]_(Conn!cvars)
  <1> USE DEF Conn!cvars
  <1>1. ASSUME UNCHANGED <<mode, link, failures>>
        PROVE  UNCHANGED Conn!cvars
    BY <1>1 DEF Phase
  <1>2. CASE mode = "STA" /\ ConnectSta /\ ConnectOrdered /\ mgrPc = "handle"
    <2>1. CanConnect /\ link = "down" /\ "CONNECTED" \notin uxBits
      BY <1>2 DEF CanConnect, ConnectOrdered, Unlinked
    <2>2. link' = "connecting" /\ mode' = "STA" /\ failures' = failures
      BY <1>2, <2>1 DEF ConnectSta
    <2>3. failures \in Nat /\ failures <= MaxRetry
      BY <1>2, ConstantsAssumption DEF ConnectOrdered, TypeOK, TypeManager
    <2>4. Phase' = "trying"
      BY <2>2 DEF Phase
    <2>5. Phase = "booted" \/ (Phase = "waiting" /\ failures <= MaxRetry)
      BY <1>2, <2>1, <2>3 DEF Phase
    <2>6. Conn!Try
      BY <2>2, <2>4, <2>5 DEF Conn!Try
    <2>7. QED
      BY <2>6 DEF Conn!CNext
  <1>3. CASE mode = "STA" /\ StartAp /\ ApOrdered
    <2>1. link = "down" /\ mode' = "AP" /\ failures' = failures
      BY <1>3 DEF StartAp, ApOrdered, Unlinked
    <2>2. Phase' = "access_point"
      BY <2>1 DEF Phase
    <2>3. Phase = "booted" \/ (Phase = "waiting" /\ failures = MaxRetry + 1)
      BY <1>3, <2>1, ConstantsAssumption DEF Phase, ApOrdered
    <2>4. Conn!GiveUp
      BY <2>1, <2>2, <2>3 DEF Conn!GiveUp
    <2>5. QED
      BY <2>4 DEF Conn!CNext
  <1>4. CASE mode = "STA" /\ (Connecting \/ Linked) /\ FailedOrLost
    <2>1. link' = "down" /\ mode' = "STA" /\ failures' = OneMore(failures)
      BY <1>4 DEF FailedOrLost
    <2>2. failures' = failures + 1 /\ failures' > 0
      BY <1>4, <2>1, ConstantsAssumption
         DEF OneMore, FailuresBound, Connecting, Linked, TypeOK, TypeManager
    <2>3. Phase' = "waiting"
      BY <2>1, <2>2 DEF Phase
    <2>4. Phase \in {"trying", "online"}
      BY <1>4 DEF Phase, Connecting, Linked
    <2>5. Conn!FailOrLose
      BY <2>2, <2>3, <2>4 DEF Conn!FailOrLose
    <2>6. QED
      BY <2>5 DEF Conn!CNext
  <1>5. ASSUME mode = "STA", Connecting, NEW a \in Addrs, Associated(a)
        PROVE  Conn!CNext
    <2>1. link = "connecting" /\ link' = "up" /\ mode' = "STA" /\ failures' = 0
      BY <1>5 DEF Associated
    <2>2. Phase = "trying" /\ Phase' = "online"
      BY <1>5, <2>1 DEF Phase
    <2>3. Conn!Succeed
      BY <2>1, <2>2 DEF Conn!Succeed
    <2>4. QED
      BY <2>3 DEF Conn!CNext
  <1>6. QED
    BY <1>1, <1>2, <1>3, <1>4, <1>5, ConnectivitySteps DEF vars

(* Every behaviour of the manager is one Connectivity allows: it connects  *)
(* at most MaxRetry times after a failure, then and only then gives the    *)
(* radio to the access point, which keeps it.  Liveness is left to TLC.    *)
THEOREM Refinement ==
    ASSUME UserOrders = {}
    PROVE  Spec => Conn!CSpec
  <1>1. OneThingInProgress /\ [Next]_vars => [Conn!CNext]_(Conn!cvars)
    BY StepConnectivity DEF OneThingInProgress
  <1>2. QED
    BY InitConnectivity, OneThing, <1>1, PTL DEF Spec, Conn!CSpec

-----------------------------------------------------------------------------
(* What is on its way.  The manager, the application's bits and its        *)
(* servers follow the driver through queues, so that they agree with it    *)
(* only once everything posted has been handled.  The inductive invariants *)
(* BitsForetold, AddressForetold and ServersForetold say of every moment   *)
(* what they will agree with: of the news still on its way the last one    *)
(* tells the present state of the driver, and if none is on its way the    *)
(* state is told already.                                                  *)

(* A finite set of numbers has a greatest one.                             *)
LEMMA Greatest ==
    ASSUME NEW S \in SUBSET Int, IsFiniteSet(S), S # {}
    PROVE  \E i \in S : \A j \in S : j <= i
  <1> DEFINE Above(i) == {j \in S : i <= j}
             T == {Above(i) : i \in S}
  <1>1. T \subseteq FiniteSubsetsOf(S)
    <2>1. \A i \in S : Above(i) \in SUBSET S
      OBVIOUS
    <2>2. QED
      BY <2>1, FS_FiniteSubsetsOfFinite
  <1>2. PICK X \in T : \A Y \in T : <<Y, X>> \notin StrictSubsetOrdering(S)
    <2>1. T # {}
      OBVIOUS
    <2>2. QED
      BY <1>1, <2>1, FS_StrictSubsetOrderingWellFounded, WFMin
  <1>3. PICK i \in S : X = Above(i)
    OBVIOUS
  <1>4. ASSUME NEW j \in S, i < j PROVE FALSE
    <2>1. Above(j) \subseteq X /\ i \in X /\ i \notin Above(j)
      <3>1. \A k \in S : k \in Int /\ (k \in Above(i) <=> i <= k) /\ (k \in Above(j) <=> j <= k)
        OBVIOUS
      <3>2. Above(i) \subseteq S /\ Above(j) \subseteq S
        OBVIOUS
      <3> HIDE DEF Above
      <3>3. QED
        BY <1>3, <1>4, <3>1, <3>2
    <2>2. <<Above(j), X>> \in StrictSubsetOrdering(S)
      <3>1. Above(j) \in SUBSET S /\ X \in SUBSET S
        OBVIOUS
      <3> HIDE DEF Above, T
      <3>2. QED
        BY <2>1, <3>1 DEF StrictSubsetOrdering
    <2>3. QED
      BY <1>2, <2>2
  <1>5. QED
    BY <1>4

(* The last news of a queue is what it foretells.                          *)
LEMMA LastNews ==
    ASSUME NEW S, NEW s \in Seq(S), NEW says, NEW now, NewsIn(s, says) # {}
    PROVE  \E i \in NewsIn(s, says) : /\ \A j \in NewsIn(s, says) : j <= i
                                      /\ Foretold(s, says, now) = says[s[i]]
  <1> DEFINE N == NewsIn(s, says)
             last == CHOOSE i \in N : \A j \in N : j <= i
  <1>1. N \subseteq 1..Len(s) /\ Len(s) \in Nat
    BY DEF NewsIn
  <1>2. IsFiniteSet(N) /\ N \in SUBSET Int
    <2>1. IsFiniteSet(1..Len(s)) /\ 1..Len(s) \in SUBSET Int
      BY <1>1, FS_Interval
    <2>2. QED
      BY <1>1, <2>1, FS_Subset
  <1>3. \E i \in N : \A j \in N : j <= i
    BY <1>2, Greatest
  <1>4. last \in N /\ \A j \in N : j <= last
    BY <1>3
  <1>5. Foretold(s, says, now) = says[s[last]]
    BY DEF Foretold
  <1>6. QED
    BY <1>4, <1>5

LEMMA LastNewsIs ==
    ASSUME NEW S, NEW s \in Seq(S), NEW says, NEW now,
           NEW i \in NewsIn(s, says), \A j \in NewsIn(s, says) : j <= i
    PROVE  Foretold(s, says, now) = says[s[i]]
  <1>1. PICK k \in NewsIn(s, says) : /\ \A j \in NewsIn(s, says) : j <= k
                                     /\ Foretold(s, says, now) = says[s[k]]
    BY LastNews
  <1>2. k <= i /\ i <= k /\ k \in Nat /\ i \in Nat
    BY <1>1 DEF NewsIn
  <1>3. QED
    BY <1>1, <1>2

LEMMA NoNews ==
    ASSUME NEW says, NEW now
    PROVE  Foretold(<<>>, says, now) = now
  BY DEF Foretold, NewsIn

LEMMA NoNewsInOne ==
    ASSUME NEW m, NEW says, m \notin DOMAIN says, NEW now
    PROVE  Foretold(<<m>>, says, now) = now
  <1>1. NewsIn(<<m>>, says) = {}
    BY DEF NewsIn
  <1>2. QED
    BY <1>1 DEF Foretold

(* What is sent last is believed, if it is news at all.                    *)
LEMMA NewsSent ==
    ASSUME NEW S, NEW s \in Seq(S), NEW m \in S, NEW says, NEW now
    PROVE  Foretold(Append(s, m), says, now)
             = IF m \in DOMAIN says THEN says[m] ELSE Foretold(s, says, now)
  <1> DEFINE q == Append(s, m)
  <1>1. /\ q \in Seq(S) /\ Len(q) = Len(s) + 1 /\ q[Len(s) + 1] = m /\ Len(s) \in Nat
        /\ \A i \in 1..Len(s) : q[i] = s[i]
    BY Back
  <1>2. q \in Seq(S)
    BY <1>1
  <1> HIDE DEF q
  <1>3. CASE m \in DOMAIN says
    <2>1. Len(s) + 1 \in NewsIn(q, says) /\ \A j \in NewsIn(q, says) : j <= Len(s) + 1
      BY <1>1, <1>3 DEF NewsIn
    <2>2. QED
      <3>1. Foretold(q, says, now) = says[q[Len(s) + 1]]
        BY <1>2, <2>1, LastNewsIs
      <3>2. QED
        BY <1>1, <1>3, <3>1 DEF q
  <1>4. CASE m \notin DOMAIN says
    <2>1. NewsIn(q, says) = NewsIn(s, says)
      BY <1>1, <1>4 DEF NewsIn
    <2>2. CASE NewsIn(s, says) = {}
      BY <1>4, <2>1, <2>2 DEF Foretold, q
    <2>3. CASE NewsIn(s, says) # {}
      <3>1. PICK i \in NewsIn(s, says) : /\ \A j \in NewsIn(s, says) : j <= i
                                         /\ Foretold(s, says, now) = says[s[i]]
        BY <2>3, LastNews
      <3>2. i \in NewsIn(q, says) /\ \A j \in NewsIn(q, says) : j <= i
        BY <2>1, <3>1
      <3>3. Foretold(q, says, now) = says[q[i]]
        BY <1>2, <3>2, LastNewsIs
      <3>4. i \in 1..Len(s)
        BY DEF NewsIn
      <3>5. QED
        BY <1>1, <1>4, <3>1, <3>3, <3>4 DEF q
    <2>4. QED
      BY <2>2, <2>3
  <1>5. QED
    BY <1>3, <1>4

(* Taking what waits in front, and noting it if it is news, changes        *)
(* nothing in the end.                                                     *)
LEMMA NewsTaken ==
    ASSUME NEW S, NEW s \in Seq(S), s # <<>>, NEW says, NEW now
    PROVE  Foretold(Tail(s), says, IF Head(s) \in DOMAIN says THEN says[Head(s)] ELSE now)
             = Foretold(s, says, now)
  <1> DEFINE q == Tail(s)
             noted == IF Head(s) \in DOMAIN says THEN says[Head(s)] ELSE now
  <1>1. /\ Head(s) = s[1] /\ 1 \in 1..Len(s) /\ Len(q) = Len(s) - 1 /\ Len(s) \in Nat
        /\ \A i \in 1..Len(q) : q[i] = s[i + 1] /\ i + 1 \in 1..Len(s)
    BY Front
  <1>2. q \in Seq(S)
    OBVIOUS
  <1> HIDE DEF q
  <1>3. \A i \in NewsIn(q, says) : i + 1 \in NewsIn(s, says) /\ i \in Nat /\ i \in 1..Len(q)
    BY <1>1 DEF NewsIn
  <1>4. \A i \in NewsIn(s, says) : i = 1 \/ (i - 1 \in NewsIn(q, says) /\ i \in Int)
    <2> SUFFICES ASSUME NEW i \in NewsIn(s, says), i # 1
                 PROVE  i - 1 \in NewsIn(q, says) /\ i \in Int
      OBVIOUS
    <2>1. i \in 1..Len(s) /\ s[i] \in DOMAIN says
      BY DEF NewsIn
    <2>2. i - 1 \in 1..Len(q) /\ i \in Int /\ (i - 1) + 1 = i
      BY <1>1, <2>1
    <2>3. q[i - 1] = s[i]
      BY <1>1, <2>2
    <2>4. QED
      BY <2>1, <2>2, <2>3 DEF NewsIn
  <1>5. CASE NewsIn(q, says) # {}
    <2>1. PICK i \in NewsIn(q, says) : /\ \A j \in NewsIn(q, says) : j <= i
                                       /\ Foretold(q, says, noted) = says[q[i]]
      BY <1>2, <1>5, LastNews, Zenon
    <2>2. \A j \in NewsIn(s, says) : j <= i + 1
      BY <1>3, <1>4, <2>1
    <2>3. Foretold(s, says, now) = says[s[i + 1]]
      BY <1>3, <2>2, LastNewsIs
    <2>4. QED
      BY <1>1, <1>3, <2>1, <2>3 DEF q
  <1>6. CASE NewsIn(q, says) = {}
    <2>1. Foretold(q, says, noted) = noted
      BY <1>6 DEF Foretold
    <2>2. CASE Head(s) \in DOMAIN says
      <3>1. 1 \in NewsIn(s, says) /\ \A j \in NewsIn(s, says) : j <= 1
        BY <1>1, <1>4, <1>6, <2>2 DEF NewsIn
      <3>2. Foretold(s, says, now) = says[s[1]]
        BY <3>1, LastNewsIs, ZenonT(40)
      <3>3. QED
        BY <1>1, <2>1, <2>2, <3>2 DEF q
    <2>3. CASE Head(s) \notin DOMAIN says
      <3>1. NewsIn(s, says) = {}
        BY <1>1, <1>4, <1>6, <2>3 DEF NewsIn
      <3>2. Foretold(s, says, now) = now
        BY <3>1 DEF Foretold
      <3>3. QED
        BY <2>1, <2>3, <3>2 DEF q
    <2>4. QED
      BY <2>2, <2>3
  <1>7. QED
    BY <1>5, <1>6

-----------------------------------------------------------------------------
(* The bits that handlers decide by.                                       *)

LEMMA LinkSays ==
    ASSUME NEW e \in Events
    PROVE  /\ e \in DOMAIN LinkEvents <=> e.ev \in {"STA_GOT_IP", "STA_DISCONNECTED"}
           /\ e \in DOMAIN LinkEvents => LinkEvents[e] = OnOff(e.ev = "STA_GOT_IP")
           /\ e \in DOMAIN ModeEvents <=> e.ev \in {"AP_START", "AP_STOP"}
           /\ e \in DOMAIN ModeEvents => ModeEvents[e] = OnOff(e.ev = "AP_START")
  BY DEF LinkEvents, ModeEvents, EventsOf

(* What an event that is posted does to the forecast of the bits.          *)
LEMMA BitsPosted ==
    ASSUME NEW es \in Seq(Events), NEW e \in Events, NEW now
    PROVE  /\ Foretold(Append(es, e), LinkEvents, now) =
                IF e.ev \in {"STA_GOT_IP", "STA_DISCONNECTED"} THEN OnOff(e.ev = "STA_GOT_IP")
                ELSE Foretold(es, LinkEvents, now)
           /\ Foretold(Append(es, e), ModeEvents, now) =
                IF e.ev \in {"AP_START", "AP_STOP"} THEN OnOff(e.ev = "AP_START")
                ELSE Foretold(es, ModeEvents, now)
  <1>1. /\ Foretold(Append(es, e), LinkEvents, now) =
             IF e \in DOMAIN LinkEvents THEN LinkEvents[e] ELSE Foretold(es, LinkEvents, now)
        /\ Foretold(Append(es, e), ModeEvents, now) =
             IF e \in DOMAIN ModeEvents THEN ModeEvents[e] ELSE Foretold(es, ModeEvents, now)
    BY NewsSent
  <1>2. QED
    BY <1>1, LinkSays

(* A step that posts nothing and changes neither a bit nor the link.       *)
LEMMA BitsKept ==
    ASSUME BitsForetold, events' = events, mode' = mode, link' = "up" <=> link = "up",
           "CONNECTED" \in bits' <=> "CONNECTED" \in bits,
           "AP_STARTED" \in bits' <=> "AP_STARTED" \in bits
    PROVE  BitsForetold'
  <1>1. OnOff("CONNECTED" \in bits') = OnOff("CONNECTED" \in bits)
        /\ OnOff("AP_STARTED" \in bits') = OnOff("AP_STARTED" \in bits)
        /\ OnOff(link' = "up") = OnOff(link = "up") /\ OnOff(mode' = "AP") = OnOff(mode = "AP")
    BY DEF OnOff
  <1>2. QED
    BY <1>1 DEF BitsForetold

(* A step of the driver, with the event that tells of it.                  *)
LEMMA BitsAfterPost ==
    ASSUME TypeOK, BitsForetold, NEW e \in Events, events' = Append(events, e),
           "CONNECTED" \in bits' <=> "CONNECTED" \in bits,
           "AP_STARTED" \in bits' <=> "AP_STARTED" \in bits,
           link' = "up" <=> (e.ev = "STA_GOT_IP" \/ (e.ev # "STA_DISCONNECTED" /\ link = "up")),
           mode' = "AP" <=> (e.ev = "AP_START" \/ (e.ev # "AP_STOP" /\ mode = "AP"))
    PROVE  BitsForetold'
  <1>1. events \in Seq(Events)
    BY DEF TypeOK, TypeWifi
  <1>2. OnOff("CONNECTED" \in bits') = OnOff("CONNECTED" \in bits)
        /\ OnOff("AP_STARTED" \in bits') = OnOff("AP_STARTED" \in bits)
    BY DEF OnOff
  <1>3. Foretold(events', LinkEvents, OnOff("CONNECTED" \in bits')) = OnOff(link' = "up")
    BY <1>1, <1>2, BitsPosted DEF BitsForetold, OnOff
  <1>4. Foretold(events', ModeEvents, OnOff("AP_STARTED" \in bits')) = OnOff(mode' = "AP")
    BY <1>1, <1>2, BitsPosted DEF BitsForetold, OnOff
  <1>5. QED
    BY <1>3, <1>4 DEF BitsForetold

(* The events esp_wifi_stop and esp_wifi_start post, one after another.    *)
LEMMA ApEventsPosted ==
    ASSUME TypeOK, StartAp
    PROVE  LET lost    == Ev("STA_DISCONNECTED", NoAddr)
               stopped == Ev("AP_STOP", NoAddr)
               started == Ev("AP_START", NoAddr)
               one == IF link = "up" THEN Append(events, lost) ELSE events
               two == IF mode = "AP" THEN Append(one, stopped) ELSE one
           IN  events' = Append(two, started) /\ link' = "down" /\ linkAddr' = NoAddr
  <1> DEFINE lost    == Ev("STA_DISCONNECTED", NoAddr)
             stopped == Ev("AP_STOP", NoAddr)
             started == Ev("AP_START", NoAddr)
             one == IF link = "up" THEN Append(events, lost) ELSE events
             two == IF mode = "AP" THEN Append(one, stopped) ELSE one
  <1>1. lost \in Events /\ stopped \in Events /\ started \in Events
    BY PostedEvents
  <1>2. events \in Seq(Events) /\ one \in Seq(Events) /\ two \in Seq(Events)
    BY <1>1 DEF TypeOK, TypeWifi
  <1>3. \A q \in Seq(Events), e \in Events : q \o <<e>> = Append(q, e) /\ q \o <<>> = q
    OBVIOUS
  <1>4. events' = (events \o (IF link = "up" THEN <<lost>> ELSE <<>>))
                      \o (IF mode = "AP" THEN <<stopped>> ELSE <<>>) \o <<started>>
    BY DEF StartAp
  <1>5. events \o (IF link = "up" THEN <<lost>> ELSE <<>>) = one
    BY <1>1, <1>2, <1>3
  <1>6. one \o (IF mode = "AP" THEN <<stopped>> ELSE <<>>) = two
    BY <1>1, <1>2, <1>3
  <1> HIDE DEF one, two, started
  <1>7. events' = Append(two, started)
    BY <1>1, <1>2, <1>3, <1>4, <1>5, <1>6
  <1>8. QED
    BY <1>7 DEF StartAp, one, two, started

(* The access point takes the radio, with up to three events.              *)
LEMMA BitsAfterStartAp ==
    ASSUME TypeOK, BitsForetold, StartAp
    PROVE  BitsForetold'
  <1> DEFINE lost    == Ev("STA_DISCONNECTED", NoAddr)
             stopped == Ev("AP_STOP", NoAddr)
             started == Ev("AP_START", NoAddr)
             one == IF link = "up" THEN Append(events, lost) ELSE events
             two == IF mode = "AP" THEN Append(one, stopped) ELSE one
  <1>1. /\ lost \in Events /\ stopped \in Events /\ started \in Events
        /\ lost.ev = "STA_DISCONNECTED" /\ stopped.ev = "AP_STOP" /\ started.ev = "AP_START"
    BY PostedEvents DEF Ev
  <1>2. events \in Seq(Events) /\ one \in Seq(Events) /\ two \in Seq(Events)
    BY <1>1 DEF TypeOK, TypeWifi
  <1>3. events' = Append(two, started) /\ bits' = bits /\ mode' = "AP" /\ link' = "down"
    BY ApEventsPosted DEF StartAp
  <1> HIDE DEF lost, stopped, started
  <1>4. Foretold(one, LinkEvents, OnOff("CONNECTED" \in bits)) = "off"
    BY <1>1, <1>2, BitsPosted DEF BitsForetold, OnOff
  <1>5. Foretold(two, LinkEvents, OnOff("CONNECTED" \in bits)) = "off"
    BY <1>1, <1>2, <1>4, BitsPosted
  <1> HIDE DEF one, two
  <1>6. /\ Foretold(events', LinkEvents, OnOff("CONNECTED" \in bits)) = "off"
        /\ Foretold(events', ModeEvents, OnOff("AP_STARTED" \in bits)) = "on"
    BY <1>1, <1>2, <1>3, <1>5, BitsPosted DEF OnOff
  <1>7. QED
    BY <1>3, <1>6 DEF BitsForetold, OnOff

(* event_handler takes an event and sets the bits it tells of.             *)
LEMMA BitsAfterEvent ==
    ASSUME TypeOK, BitsForetold, EventHandler
    PROVE  BitsForetold'
  <1>1. /\ events \in Seq(Events) /\ events # <<>> /\ events' = Tail(events)
        /\ bits' = BitsAfter(Head(events)) /\ link' = link /\ mode' = mode
    BY DEF EventHandler, linkVars, TypeOK, TypeWifi
  <1>2. Head(events) \in Events
    BY <1>1, ReceiveKeepsQueue
  <1>3. OnOff("CONNECTED" \in bits') =
          IF Head(events) \in DOMAIN LinkEvents THEN LinkEvents[Head(events)]
          ELSE OnOff("CONNECTED" \in bits)
    BY <1>1, <1>2, LinkSays DEF BitsAfter, OnOff
  <1>4. OnOff("AP_STARTED" \in bits') =
          IF Head(events) \in DOMAIN ModeEvents THEN ModeEvents[Head(events)]
          ELSE OnOff("AP_STARTED" \in bits)
    BY <1>1, <1>2, LinkSays DEF BitsAfter, OnOff
  <1>5. Foretold(events', LinkEvents, OnOff("CONNECTED" \in bits'))
          = Foretold(events, LinkEvents, OnOff("CONNECTED" \in bits))
    BY <1>1, <1>3, NewsTaken
  <1>6. Foretold(events', ModeEvents, OnOff("AP_STARTED" \in bits'))
          = Foretold(events, ModeEvents, OnOff("AP_STARTED" \in bits))
    BY <1>1, <1>4, NewsTaken
  <1>7. QED
    BY <1>1, <1>5, <1>6 DEF BitsForetold

LEMMA BitsInit == Init => BitsForetold
  BY NoNews DEF Init, BitsForetold, OnOff

LEMMA BitsAfterHandler ==
    ASSUME TypeOK, BitsForetold, Handle
    PROVE  BitsForetold'
  <1> USE DEF sideVars, httpVars, timerVars, linkVars, wifiVars
  <1>1. CASE LoadAndRestoreSta \/ StartHttpServer \/ StopHttpServer
    BY <1>1, BitsKept DEF LoadAndRestoreSta, StartHttpServer, StopHttpServer
  <1>2. CASE ConnectSta
    <2>1. bits' = bits /\ mode' = mode /\ (link' = "up" <=> link = "up")
      BY <1>2 DEF ConnectSta
    <2>2. events' = events \/ events' = Append(events, Ev("SCAN_DONE", NoAddr))
      BY <1>2 DEF ConnectSta
    <2>3. QED
      BY <2>1, <2>2, BitsKept, BitsAfterPost, PostedEvents DEF Ev
  <1>3. CASE StaDisconnected
    BY <1>3, BitsKept DEF StaDisconnected
  <1>4. CASE StartAp
    BY <1>4, BitsAfterStartAp
  <1>5. CASE StopAp
    <2>1. bits' = bits /\ link' = link
      BY <1>5 DEF StopAp
    <2>2. \/ events' = events /\ (mode' = "AP" <=> mode = "AP")
          \/ events' = Append(events, Ev("AP_STOP", NoAddr)) /\ mode' = "STA"
      BY <1>5 DEF StopAp
    <2>3. CASE events' = events /\ (mode' = "AP" <=> mode = "AP")
      <3>1. mode' = mode
        BY <1>5, <2>3 DEF StopAp, TypeOK, TypeWifi
      <3>2. QED
        BY <2>1, <2>3, <3>1, BitsKept
    <2>4. CASE events' = Append(events, Ev("AP_STOP", NoAddr)) /\ mode' = "STA"
      BY <2>1, <2>4, BitsAfterPost, PostedEvents DEF Ev
    <2>5. QED
      BY <2>2, <2>3, <2>4
  <1>6. CASE StaGotIp
    BY <1>6, BitsKept DEF StaGotIp
  <1>7. CASE StartWifiScan
    BY <1>7, BitsKept DEF StartWifiScan
  <1>8. CASE DisconnectSta
    <2>1. ("CONNECTED" \in bits' <=> "CONNECTED" \in bits)
          /\ ("AP_STARTED" \in bits' <=> "AP_STARTED" \in bits) /\ mode' = mode /\ link' = "down"
      BY <1>8 DEF DisconnectSta
    <2>2. \/ link = "down" /\ events' = events
          \/ events' = Append(events, Ev("STA_DISCONNECTED", NoAddr))
      BY <1>8 DEF DisconnectSta
    <2>3. QED
      BY <2>1, <2>2, BitsKept, BitsAfterPost, PostedEvents DEF Ev
  <1>9. QED
    BY <1>1, <1>2, <1>3, <1>4, <1>5, <1>6, <1>7, <1>8 DEF Handle

LEMMA BitsAfterNetwork ==
    ASSUME TypeOK, BitsForetold, Network
    PROVE  BitsForetold'
  <1> USE DEF softVars, linkVars
  <1>1. ASSUME NEW a \in Addrs, Associated(a) \/ AddressChanged(a) PROVE BitsForetold'
    <2>1. events' = Append(events, Ev("STA_GOT_IP", a)) /\ link' = "up" /\ UNCHANGED <<bits, mode>>
      BY <1>1 DEF Associated, AddressChanged
    <2>2. QED
      BY <2>1, BitsAfterPost, PostedEvents DEF Ev
  <1>2. ASSUME FailedOrLost PROVE BitsForetold'
    <2>1. events' = Append(events, Ev("STA_DISCONNECTED", NoAddr)) /\ link' = "down"
          /\ UNCHANGED <<bits, mode>>
      BY <1>2 DEF FailedOrLost
    <2>2. QED
      BY <2>1, BitsAfterPost, PostedEvents DEF Ev
  <1>3. ASSUME ScanDone PROVE BitsForetold'
    <2>1. events' = Append(events, Ev("SCAN_DONE", NoAddr)) /\ UNCHANGED <<bits, mode, link>>
      BY <1>3 DEF ScanDone
    <2>2. QED
      BY <2>1, BitsAfterPost, PostedEvents DEF Ev
  <1>4. ASSUME NEW c \in Clients, ClientJoins(c) \/ ClientLeased(c) \/ ClientLeaves(c)
        PROVE  BitsForetold'
    <2>1. UNCHANGED <<bits, mode, link>>
      BY <1>4 DEF ClientJoins, ClientLeased, ClientLeaves
    <2>2. \/ events' = events
          \/ events' = Append(events, Ev("AP_STAIPASSIGNED", NoAddr))
          \/ events' = Append(events, Ev("AP_STADISCONNECTED", NoAddr))
      BY <1>4 DEF ClientJoins, ClientLeased, ClientLeaves
    <2>3. QED
      BY <2>1, <2>2, BitsKept, BitsAfterPost, PostedEvents DEF Ev
  <1>5. QED
    BY <1>1, <1>2, <1>3, <1>4 DEF Network

LEMMA BitsStep ==
    ASSUME TypeOK, BitsForetold, [Next]_vars
    PROVE  BitsForetold'
  <1> USE DEF mgrVars, sideVars, timerVars, linkVars, wifiVars
  <1>1. CASE Receive
    <2>1. bits' = bits \cup Requested(Head(queue)) /\ UNCHANGED <<events, mode, link>>
      BY <1>1 DEF Receive
    <2>2. Requested(Head(queue)) \cap {"CONNECTED", "AP_STARTED"} = {}
      BY DEF Requested
    <2>3. QED
      BY <2>1, <2>2, BitsKept
  <1>2. CASE ManagerSend \/ EventSend \/ TimerCommand \/ RetryExpires \/ ShutdownExpires
             \/ TimerSend \/ UserOrder \/ UNCHANGED vars
    BY <1>2, BitsKept
       DEF ManagerSend, EventSend, TimerCommand, RetryExpires, ShutdownExpires, TimerSend,
           UserOrder, vars
  <1>3. CASE Reboot
    BY <1>3, NoNews DEF Reboot, BitsForetold, OnOff
  <1>4. QED
    BY <1>1, <1>2, <1>3, BitsAfterHandler, BitsAfterEvent, BitsAfterNetwork DEF Next, Manager

(* The bits will agree with the driver, whatever an application orders and *)
(* however long the events wait.                                           *)
THEOREM BitsAgree == Spec => []BitsFollowDriver
  <1>1. TypeOK /\ BitsForetold /\ [Next]_vars => (TypeOK /\ BitsForetold)'
    BY TypedStep, BitsStep
  <1>2. BitsForetold => BitsFollowDriver
    <2> SUFFICES ASSUME BitsForetold, events = <<>>
                 PROVE  /\ "CONNECTED" \in bits <=> link = "up"
                        /\ "AP_STARTED" \in bits <=> mode = "AP"
      BY DEF BitsFollowDriver
    <2>1. OnOff("CONNECTED" \in bits) = OnOff(link = "up")
          /\ OnOff("AP_STARTED" \in bits) = OnOff(mode = "AP")
      BY NoNews DEF BitsForetold
    <2>2. QED
      BY <2>1 DEF OnOff
  <1>3. QED
    BY InitTyped, BitsInit, <1>1, <1>2, PTL DEF Spec

-----------------------------------------------------------------------------
(* The address the web server knows the device by.                         *)

News == {"STA_GOT_IP", "STA_DISCONNECTED"}

LEMMA AddressEventSays ==
    ASSUME NEW e \in Events
    PROVE  /\ e \in DOMAIN AddressEvents <=> e.ev \in News
           /\ e \in DOMAIN AddressEvents => AddressEvents[e] = e.addr
           /\ e.ev = "STA_DISCONNECTED" => e.addr = NoAddr
  BY DEF AddressEvents, EventsOf, News, Events, Ev

LEMMA AddressMessageSays ==
    /\ \A m \in Messages : /\ m \in DOMAIN AddressMessages <=> m.code \in News
                           /\ m \in DOMAIN AddressMessages => AddressMessages[m] = m.param
                           /\ m.code = "STA_DISCONNECTED" => m.param = NoAddr
    /\ None \notin DOMAIN AddressMessages
  <1>1. \A m \in Messages : m.code = "STA_DISCONNECTED" => m.param = NoAddr
    BY DEF Messages, OrderMessages, Order, Connect, Msg
  <1>2. None \notin Messages
    BY SentMessages
  <1>3. QED
    BY <1>1, <1>2 DEF AddressMessages, News

(* event_handler passes the news on as it is.                              *)
LEMMA AddressPassedOn ==
    ASSUME NEW e \in Events
    PROVE  /\ e \in DOMAIN AddressEvents <=> MessageOf(e) \in DOMAIN AddressMessages
           /\ e \in DOMAIN AddressEvents => AddressMessages[MessageOf(e)] = AddressEvents[e]
  <1>1. CASE e.ev = "STA_DISCONNECTED"
    <2>1. MessageOf(e) = Order("STA_DISCONNECTED") /\ MessageOf(e) \in Messages
      BY <1>1, SentMessages DEF MessageOf
    <2>2. MessageOf(e).code = "STA_DISCONNECTED"
      BY <2>1, Codes
    <2>3. QED
      BY <1>1, <2>1, <2>2, AddressEventSays, AddressMessageSays DEF News
  <1>2. CASE e.ev = "STA_GOT_IP"
    <2>1. MessageOf(e) = Msg("STA_GOT_IP", e.addr) /\ e.addr \in Addrs
      BY <1>2 DEF MessageOf, Events, Ev
    <2>2. MessageOf(e) \in Messages /\ MessageOf(e).code = "STA_GOT_IP" /\ MessageOf(e).param = e.addr
      BY <2>1, SentMessages DEF Msg
    <2>3. QED
      BY <1>2, <2>2, AddressEventSays, AddressMessageSays DEF News
  <1>3. CASE e.ev \notin News
    <2>1. MessageOf(e) \in {None, Order("START_HTTP_SERVER"), Order("STOP_HTTP_SERVER")}
      BY <1>3 DEF MessageOf, News
    <2>2. MessageOf(e) \notin DOMAIN AddressMessages
      BY <2>1, Codes, SentMessages, AddressMessageSays DEF News
    <2>3. QED
      BY <1>3, <2>2, AddressEventSays
  <1>4. QED
    BY <1>1, <1>2, <1>3 DEF News

(* What an event that is posted does to the forecast of the address.       *)
LEMMA AddressPosted ==
    ASSUME NEW es \in Seq(Events), NEW e \in Events, NEW now
    PROVE  Foretold(Append(es, e), AddressEvents, now) =
                IF e.ev \in News THEN e.addr ELSE Foretold(es, AddressEvents, now)
  <1>1. Foretold(Append(es, e), AddressEvents, now) =
          IF e \in DOMAIN AddressEvents THEN AddressEvents[e] ELSE Foretold(es, AddressEvents, now)
    BY NewsSent
  <1>2. QED
    BY <1>1, AddressEventSays

(* A message that is sent and is no news of the address.                   *)
LEMMA AddressNotSent ==
    ASSUME TypeOK, NEW m \in Messages, m \notin DOMAIN AddressMessages, NEW now
    PROVE  Foretold(Append(queue, m), AddressMessages, now) = Foretold(queue, AddressMessages, now)
  BY NewsSent DEF TypeOK, TypeQueue

AddressSent == Sent(AddressMessages, AddressInHand)

(* Nobody but event_handler has news to send.                              *)
NoOtherNews ==
    /\ tmrOut \notin DOMAIN AddressMessages
    /\ mgrPc = "send" => mgrMsg \notin DOMAIN AddressMessages

(* A step of the firmware that leaves the driver alone, and the forecast.  *)
LEMMA AddressStays ==
    ASSUME AddressForetold, events' = events, link' = link, linkAddr' = linkAddr,
           AddressSent' = AddressSent, NoOtherNews'
    PROVE  AddressForetold'
  <1>1. Foretold(events', AddressEvents, AddressSent') = linkAddr'
    BY DEF AddressForetold, OnItsWay, AddressSent
  <1>2. QED
    BY <1>1 DEF AddressForetold, OnItsWay, AddressSent, NoOtherNews

(* A step of the driver, with the event that tells of it.                  *)
LEMMA AddressAfterPost ==
    ASSUME TypeOK, AddressForetold, NEW e \in Events, events' = Append(events, e),
           AddressSent' = AddressSent, NoOtherNews',
           linkAddr' = IF e.ev \in News THEN e.addr ELSE linkAddr,
           link' # "up" => linkAddr' = NoAddr
    PROVE  AddressForetold'
  <1>1. events \in Seq(Events)
    BY DEF TypeOK, TypeWifi
  <1>2. Foretold(events', AddressEvents, AddressSent') = linkAddr'
    BY <1>1, AddressPosted DEF AddressForetold, OnItsWay, AddressSent
  <1>3. QED
    BY <1>2 DEF AddressForetold, OnItsWay, AddressSent, NoOtherNews

LEMMA AddressInit == Init => AddressForetold
  <1> SUFFICES ASSUME Init PROVE AddressForetold
    OBVIOUS
  <1> DEFINE load == Order("LOAD_AND_RESTORE_STA")
  <1>1. load \in Messages /\ load \notin DOMAIN AddressMessages
    BY SentMessages, Codes, AddressMessageSays DEF News
  <1> HIDE DEF load
  <1>2. Foretold(<<load>>, AddressMessages, staIp) = staIp
    BY <1>1, NoNewsInOne
  <1>3. queue = <<load>> /\ evtOut = None /\ events = <<>> /\ mgrPc = "idle"
        /\ tmrOut = None /\ staIp = NoAddr /\ linkAddr = NoAddr
    BY DEF Init, load
  <1>4. OnItsWay(AddressEvents, AddressMessages, AddressInHand) = NoAddr
    BY <1>2, <1>3, AddressMessageSays, NoNews DEF OnItsWay, Sent, AddressInHand, Handling
  <1>5. QED
    BY <1>3, <1>4, AddressMessageSays DEF AddressForetold

(* The manager takes a message: news of a loss is noted at once, news of a *)
(* lease when it is handled.                                               *)
LEMMA AddressReceived ==
    ASSUME TypeOK, AddressForetold, Receive
    PROVE  AddressForetold'
  <1> DEFINE m == Head(queue)
  <1>1. /\ queue \in Seq(Messages) /\ queue # <<>> /\ queue' = Tail(queue) /\ mgrPc = "idle"
        /\ mgrPc' = "handle" /\ mgrMsg' = m /\ staIp' = AddressOnReceive(m)
        /\ UNCHANGED <<evtOut, events, link, linkAddr, tmrOut>>
    BY DEF Receive, TypeOK, TypeQueue
  <1>2. m \in Messages
    BY <1>1, ReceiveKeepsQueue
  <1>3. AddressInHand' = IF m \in DOMAIN AddressMessages THEN AddressMessages[m] ELSE AddressInHand
    BY <1>1, <1>2, AddressMessageSays DEF AddressInHand, Handling, AddressOnReceive, News
  <1>4. Foretold(queue', AddressMessages, AddressInHand')
          = Foretold(queue, AddressMessages, AddressInHand)
    BY <1>1, <1>3, NewsTaken
  <1>5. AddressSent' = AddressSent
    BY <1>1, <1>4 DEF AddressSent, Sent
  <1>6. NoOtherNews'
    BY <1>1 DEF AddressForetold, NoOtherNews
  <1>7. QED
    BY <1>1, <1>5, <1>6, AddressStays

(* A handler leaves what it had in hand.                                   *)
LEMMA AddressHandled ==
    ASSUME TypeOK, AddressForetold, Handle
    PROVE  /\ AddressSent' = AddressSent /\ NoOtherNews'
           /\ UNCHANGED <<queue, evtOut, tmrOut>>
  <1> USE DEF sideVars
  <1>1. \/ LoadAndRestoreSta \/ ConnectSta \/ StaDisconnected \/ StartAp \/ StartHttpServer
        \/ StopHttpServer \/ StopAp \/ StaGotIp \/ StartWifiScan \/ DisconnectSta
    BY DEF Handle
  <1>2. UNCHANGED <<queue, evtOut, tmrOut>> /\ mgrPc = "handle"
    BY <1>1
       DEF Handling, LoadAndRestoreSta, ConnectSta, StaDisconnected, StartAp, StartHttpServer,
           StopHttpServer, StopAp, StaGotIp, StartWifiScan, DisconnectSta
  <1>3. staIp' = AddressInHand
    BY <1>1
       DEF Handling, LoadAndRestoreSta, ConnectSta, StaDisconnected, StartAp, StartHttpServer,
           StopHttpServer, StopAp, StaGotIp, StartWifiScan, DisconnectSta, AddressInHand
  <1>4. \/ mgrPc' \in {"idle", "aborted"}
        \/ mgrPc' = "send" /\ mgrMsg' \in {Connect("RESTORE"), Order("START_AP")}
    BY <1>1
       DEF LoadAndRestoreSta, ConnectSta, StaDisconnected, StartAp, StartHttpServer,
           StopHttpServer, StopAp, StaGotIp, StartWifiScan, DisconnectSta, Done, Then, Abort,
           FallBack, ScheduleShutdown
  <1>5. AddressInHand' = AddressInHand
    BY <1>3, <1>4 DEF AddressInHand, Handling
  <1>6. AddressSent' = AddressSent
    BY <1>2, <1>5 DEF AddressSent, Sent
  <1>7. \A m \in {Connect("RESTORE"), Order("START_AP")} : m \notin DOMAIN AddressMessages
    BY SentMessages, Codes, AddressMessageSays DEF News
  <1>8. NoOtherNews'
    BY <1>2, <1>4, <1>7 DEF NoOtherNews, AddressForetold
  <1>9. QED
    BY <1>2, <1>6, <1>8

(* The handlers that do something to the driver, and those that do not.    *)
LEMMA AddressAfterHandler ==
    ASSUME TypeOK, AddressForetold, Handle
    PROVE  AddressForetold'
  <1> USE DEF wifiVars, linkVars
  <1>1. AddressSent' = AddressSent /\ NoOtherNews'
    BY AddressHandled DEF AddressForetold
  <1>2. CASE LoadAndRestoreSta \/ StaDisconnected \/ StartHttpServer \/ StopHttpServer
             \/ StaGotIp \/ StartWifiScan
    BY <1>1, <1>2, AddressHandled, AddressStays
       DEF LoadAndRestoreSta, StaDisconnected, StartHttpServer, StopHttpServer, StaGotIp,
           StartWifiScan
  <1>3. CASE ConnectSta \/ StopAp
    <2>1. linkAddr' = linkAddr /\ (link' = link \/ (link' # "up" /\ link = "down"))
      BY <1>3 DEF ConnectSta, StopAp
    <2>2. \/ events' = events
          \/ \E ev \in {"SCAN_DONE", "AP_STOP"} : events' = Append(events, Ev(ev, NoAddr))
      BY <1>3 DEF ConnectSta, StopAp
    <2>3. link' # "up" => linkAddr' = NoAddr
      BY <2>1 DEF AddressForetold
    <2>4. CASE events' = events
      <3>1. Foretold(events', AddressEvents, AddressSent') = linkAddr'
        BY <1>1, <2>1, <2>4 DEF AddressForetold, OnItsWay, AddressSent
      <3>2. QED
        BY <1>1, <2>3, <3>1, AddressHandled DEF AddressForetold, OnItsWay, AddressSent, NoOtherNews
    <2>5. ASSUME NEW ev \in {"SCAN_DONE", "AP_STOP"}, events' = Append(events, Ev(ev, NoAddr))
          PROVE  AddressForetold'
      <3>1. Ev(ev, NoAddr) \in Events /\ Ev(ev, NoAddr).ev \notin News
        BY PostedEvents DEF Ev, News
      <3>2. QED
        BY <2>1, <2>3, <2>5, <3>1, AddressHandled, AddressAfterPost
    <2>6. QED
      BY <2>2, <2>4, <2>5
  <1>4. CASE DisconnectSta
    <2>1. linkAddr' = NoAddr /\ link' = "down"
      BY <1>4 DEF DisconnectSta
    <2>2. \/ link = "down" /\ events' = events
          \/ events' = Append(events, Ev("STA_DISCONNECTED", NoAddr))
      BY <1>4 DEF DisconnectSta
    <2>3. CASE link = "down" /\ events' = events
      BY <2>1, <2>3, AddressHandled, AddressStays DEF AddressForetold
    <2>4. CASE events' = Append(events, Ev("STA_DISCONNECTED", NoAddr))
      BY <2>1, <2>4, AddressHandled, AddressAfterPost, PostedEvents DEF Ev, News
    <2>5. QED
      BY <2>2, <2>3, <2>4
  <1>5. CASE StartAp
    <2> DEFINE lost    == Ev("STA_DISCONNECTED", NoAddr)
               stopped == Ev("AP_STOP", NoAddr)
               started == Ev("AP_START", NoAddr)
               one == IF link = "up" THEN Append(events, lost) ELSE events
               two == IF mode = "AP" THEN Append(one, stopped) ELSE one
    <2>1. /\ lost \in Events /\ stopped \in Events /\ started \in Events
          /\ lost.ev \in News /\ lost.addr = NoAddr /\ stopped.ev \notin News
          /\ started.ev \notin News
      BY PostedEvents DEF Ev, News
    <2>2. events \in Seq(Events) /\ one \in Seq(Events) /\ two \in Seq(Events)
      BY <2>1 DEF TypeOK, TypeWifi
    <2>3. events' = Append(two, started) /\ linkAddr' = NoAddr /\ link' = "down"
      BY <1>5, ApEventsPosted
    <2> HIDE DEF lost, stopped, started
    <2>4. Foretold(one, AddressEvents, AddressSent) = NoAddr
      BY <1>1, <2>1, <2>2, AddressPosted DEF AddressForetold, OnItsWay, AddressSent
    <2>5. Foretold(two, AddressEvents, AddressSent) = NoAddr
      BY <2>1, <2>2, <2>4, AddressPosted
    <2> HIDE DEF one, two
    <2>6. Foretold(events', AddressEvents, AddressSent') = NoAddr
      BY <1>1, <2>1, <2>2, <2>3, <2>5, AddressPosted
    <2>7. QED
      BY <1>1, <2>3, <2>6 DEF AddressForetold, OnItsWay, AddressSent, NoOtherNews
  <1>6. QED
    BY <1>2, <1>3, <1>4, <1>5 DEF Handle

LEMMA AddressAfterNetwork ==
    ASSUME TypeOK, AddressForetold, Network
    PROVE  AddressForetold'
  <1> USE DEF softVars, mgrVars, sideVars, linkVars
  <1>1. ASSUME UNCHANGED softVars
        PROVE  AddressSent' = AddressSent /\ NoOtherNews'
    BY <1>1 DEF AddressSent, Sent, AddressInHand, Handling, NoOtherNews, AddressForetold
  <1>2. ASSUME NEW a \in Addrs, Associated(a) \/ AddressChanged(a) PROVE AddressForetold'
    <2>1. /\ events' = Append(events, Ev("STA_GOT_IP", a)) /\ link' = "up" /\ linkAddr' = a
          /\ UNCHANGED softVars
      BY <1>2 DEF Associated, AddressChanged
    <2>2. Ev("STA_GOT_IP", a) \in Events /\ Ev("STA_GOT_IP", a).ev \in News
          /\ Ev("STA_GOT_IP", a).addr = a
      BY PostedEvents DEF Ev, News
    <2>3. QED
      BY <1>1, <2>1, <2>2, AddressAfterPost
  <1>3. ASSUME FailedOrLost PROVE AddressForetold'
    <2>1. /\ events' = Append(events, Ev("STA_DISCONNECTED", NoAddr)) /\ linkAddr' = NoAddr
          /\ UNCHANGED softVars
      BY <1>3 DEF FailedOrLost
    <2>2. Ev("STA_DISCONNECTED", NoAddr) \in Events /\ Ev("STA_DISCONNECTED", NoAddr).ev \in News
          /\ Ev("STA_DISCONNECTED", NoAddr).addr = NoAddr
      BY PostedEvents DEF Ev, News
    <2>3. QED
      BY <1>1, <2>1, <2>2, AddressAfterPost
  <1>4. ASSUME UNCHANGED <<softVars, link, linkAddr>>,
               NEW ev \in {"SCAN_DONE", "AP_STAIPASSIGNED", "AP_STADISCONNECTED"},
               events' = events \/ events' = Append(events, Ev(ev, NoAddr))
        PROVE  AddressForetold'
    <2>1. Ev(ev, NoAddr) \in Events /\ Ev(ev, NoAddr).ev \notin News
      BY PostedEvents DEF Ev, News
    <2>2. AddressSent' = AddressSent /\ NoOtherNews' /\ UNCHANGED <<link, linkAddr>>
      BY <1>1, <1>4
    <2>3. CASE events' = events
      BY <2>2, <2>3, AddressStays
    <2>4. CASE events' = Append(events, Ev(ev, NoAddr))
      <3>1. link' # "up" => linkAddr' = NoAddr
        BY <2>2 DEF AddressForetold
      <3>2. QED
        BY <2>1, <2>2, <2>4, <3>1, AddressAfterPost
    <2>5. QED
      BY <1>4, <2>3, <2>4
  <1>5. ASSUME ScanDone PROVE AddressForetold'
    BY <1>4, <1>5 DEF ScanDone
  <1>6. ASSUME NEW c \in Clients, ClientJoins(c) \/ ClientLeased(c) \/ ClientLeaves(c)
        PROVE  AddressForetold'
    <2>1. UNCHANGED <<softVars, link, linkAddr>>
      BY <1>6 DEF ClientJoins, ClientLeased, ClientLeaves
    <2>2. \/ events' = events
          \/ events' = Append(events, Ev("AP_STAIPASSIGNED", NoAddr))
          \/ events' = Append(events, Ev("AP_STADISCONNECTED", NoAddr))
      BY <1>6 DEF ClientJoins, ClientLeased, ClientLeaves
    <2>3. QED
      BY <1>4, <2>1, <2>2
  <1>7. QED
    BY <1>2, <1>3, <1>5, <1>6 DEF Network

(* event_handler takes an event and makes the message it passes on.        *)
LEMMA AddressAfterEvent ==
    ASSUME TypeOK, AddressForetold, EventHandler
    PROVE  AddressForetold'
  <1> DEFINE e == Head(events)
  <1>1. /\ events \in Seq(Events) /\ events # <<>> /\ events' = Tail(events)
        /\ evtOut = None /\ evtOut' = MessageOf(e)
        /\ UNCHANGED <<queue, mgrPc, mgrMsg, staIp, tmrOut, link, linkAddr>>
    BY DEF EventHandler, mgrVars, linkVars, TypeOK, TypeWifi
  <1>2. e \in Events
    BY <1>1, ReceiveKeepsQueue
  <1>3. AddressInHand' = AddressInHand
    BY <1>1 DEF AddressInHand, Handling
  <1> HIDE DEF e
  <1>4. AddressSent' = IF e \in DOMAIN AddressEvents THEN AddressEvents[e] ELSE AddressSent
    BY <1>1, <1>2, <1>3, AddressPassedOn, AddressMessageSays DEF AddressSent, Sent
  <1>5. Foretold(events', AddressEvents, AddressSent')
          = Foretold(events, AddressEvents, AddressSent)
    BY <1>1, <1>4, NewsTaken DEF e
  <1>6. QED
    BY <1>1, <1>5 DEF AddressForetold, OnItsWay, AddressSent

(* A message reaches the queue: the news of event_handler, or no news.     *)
LEMMA AddressAfterSend ==
    ASSUME TypeOK, AddressForetold, ManagerSend \/ EventSend \/ TimerSend \/ UserOrder
    PROVE  AddressForetold'
  <1> USE DEF mgrVars, sideVars, wifiVars
  <1>1. UNCHANGED <<events, link, linkAddr>>
    BY DEF ManagerSend, EventSend, TimerSend, UserOrder
  <1>2. AddressInHand' = AddressInHand
    BY DEF ManagerSend, EventSend, TimerSend, UserOrder, Done, AddressInHand, Handling
  <1>3. NoOtherNews'
    <2>1. (tmrOut' = tmrOut \/ tmrOut' = None)
          /\ (mgrPc' = "send" => mgrPc = "send" /\ mgrMsg' = mgrMsg)
      BY DEF ManagerSend, EventSend, TimerSend, UserOrder, Done
    <2>2. QED
      BY <2>1, AddressMessageSays DEF NoOtherNews, AddressForetold
  <1>4. queue \in Seq(Messages)
    BY DEF TypeOK, TypeQueue
  <1>5. ASSUME NEW m \in Messages, m \notin DOMAIN AddressMessages,
               queue' = Append(queue, m), evtOut' = evtOut
        PROVE  AddressSent' = AddressSent
    BY <1>2, <1>5, AddressNotSent DEF AddressSent, Sent
  <1>6. CASE ManagerSend
    <2>1. mgrMsg \in Messages /\ mgrMsg \notin DOMAIN AddressMessages
          /\ queue' = Append(queue, mgrMsg) /\ evtOut' = evtOut
      BY <1>6 DEF ManagerSend, TypeOK, TypeManager, AddressForetold
    <2>2. QED
      BY <1>1, <1>3, <1>5, <2>1, AddressStays
  <1>7. CASE TimerSend
    <2>1. tmrOut \in Messages /\ tmrOut \notin DOMAIN AddressMessages
          /\ queue' = Append(queue, tmrOut) /\ evtOut' = evtOut
      BY <1>7 DEF TimerSend, TypeOK, TypeSenders, AddressForetold
    <2>2. QED
      BY <1>1, <1>3, <1>5, <2>1, AddressStays
  <1>8. CASE UserOrder
    <2>1. PICK m \in UserOrders : queue' = Append(queue, m) /\ evtOut' = evtOut
      BY <1>8 DEF UserOrder
    <2>2. m \in Messages /\ m.code \notin News
      BY ConstantsAssumption, Codes DEF Messages, OrderMessages, News
    <2>3. m \notin DOMAIN AddressMessages
      BY <2>2, AddressMessageSays
    <2>4. QED
      BY <1>1, <1>3, <1>5, <2>1, <2>2, <2>3, AddressStays
  <1>9. CASE EventSend
    <2>1. evtOut \in Messages /\ queue' = Append(queue, evtOut) /\ evtOut' = None
      BY <1>9 DEF EventSend, TypeOK, TypeSenders
    <2>2. Foretold(queue', AddressMessages, AddressInHand') = AddressSent
      BY <1>2, <1>4, <2>1, NewsSent DEF AddressSent, Sent
    <2>3. AddressSent' = AddressSent
      BY <2>1, <2>2, AddressMessageSays DEF AddressSent, Sent
    <2>4. QED
      BY <1>1, <1>3, <2>3, AddressStays
  <1>10. QED
    BY <1>6, <1>7, <1>8, <1>9

LEMMA AddressStep ==
    ASSUME TypeOK, AddressForetold, [Next]_vars
    PROVE  AddressForetold'
  <1> USE DEF mgrVars, sideVars, wifiVars
  <1>1. CASE TimerCommand \/ RetryExpires \/ ShutdownExpires \/ UNCHANGED vars
    <2>1. UNCHANGED <<queue, evtOut, mgrPc, mgrMsg, staIp, events, link, linkAddr>>
      BY <1>1 DEF TimerCommand, RetryExpires, ShutdownExpires, vars
    <2>2. tmrOut' \in {tmrOut, Connect("AUTO_RECONNECT"), Order("STOP_AP")}
      BY <1>1 DEF TimerCommand, RetryExpires, ShutdownExpires, vars
    <2>3. \A m \in {Connect("AUTO_RECONNECT"), Order("STOP_AP")} : m \notin DOMAIN AddressMessages
      BY SentMessages, Codes, AddressMessageSays DEF News
    <2>4. NoOtherNews'
      BY <2>1, <2>2, <2>3 DEF NoOtherNews, AddressForetold
    <2>5. AddressSent' = AddressSent
      BY <2>1 DEF AddressSent, Sent, AddressInHand, Handling
    <2>6. QED
      BY <2>1, <2>4, <2>5, AddressStays
  <1>2. CASE Reboot
    <2>1. Init'
      BY <1>2 DEF Reboot, Init
    <2>2. QED
      BY <2>1, AddressInit, PTL
  <1>3. QED
    BY <1>1, <1>2, AddressReceived, AddressAfterHandler, AddressAfterEvent, AddressAfterSend,
       AddressAfterNetwork DEF Next, Manager

(* At any time the address string will be the lease once what is on its    *)
(* way has been handled, whatever orders the applications send: event      *)
(* handler, queue and manager never lose, repeat or overtake an address.   *)
THEOREM AddressTold == Spec => []AddressForetold
  <1>1. TypeOK /\ AddressForetold /\ [Next]_vars => (TypeOK /\ AddressForetold)'
    BY TypedStep, AddressStep
  <1>2. QED
    BY InitTyped, AddressInit, <1>1, PTL DEF Spec

(* Once everything has been handled the address string is the lease, for   *)
(* any orders, any number of leases and losses in any order, and at any    *)
(* delay of the tasks between them.                                        *)
THEOREM AddressAgrees == Spec => []AddressFollowsLease
  <1>1. AddressForetold => AddressFollowsLease
    BY NoNews, AddressMessageSays
       DEF AddressForetold, AddressFollowsLease, Quiet, OnItsWay, Sent, AddressInHand, Handling
  <1>2. QED
    BY AddressTold, <1>1, PTL

-----------------------------------------------------------------------------
(* The servers, when no application task sends orders and the access point *)
(* has one client.                                                         *)

ClientNews == {"AP_STAIPASSIGNED", "AP_STADISCONNECTED"}

LEMMA ServerEventSays ==
    ASSUME NEW e \in Events
    PROVE  /\ e \in DOMAIN ServerEvents <=> e.ev \in ClientNews
           /\ e.ev = "AP_STAIPASSIGNED" => ServerEvents[e] = Serving
           /\ e.ev = "AP_STADISCONNECTED" => ServerEvents[e] = Closed
  BY DEF ServerEvents, EventsOf, ClientNews

LEMMA ServerMessageSays ==
    /\ \A m \in Messages : /\ m \in DOMAIN ServerMessages <=> HttpMsg(m)
                           /\ m.code = "START_HTTP_SERVER" => ServerMessages[m] = Serving
                           /\ m.code = "STOP_HTTP_SERVER" => ServerMessages[m] = Closed
    /\ None \notin DOMAIN ServerMessages
  <1>1. None \notin Messages
    BY SentMessages
  <1>2. QED
    BY <1>1 DEF ServerMessages, HttpMsg

(* event_handler turns the news of clients into orders for the servers.    *)
LEMMA ServersPassedOn ==
    ASSUME NEW e \in Events
    PROVE  /\ e \in DOMAIN ServerEvents <=> MessageOf(e) \in DOMAIN ServerMessages
           /\ e \in DOMAIN ServerEvents => ServerMessages[MessageOf(e)] = ServerEvents[e]
  <1>1. CASE e.ev = "AP_STAIPASSIGNED"
    <2>1. MessageOf(e) \in Messages /\ MessageOf(e).code = "START_HTTP_SERVER"
      BY <1>1, SentMessages, Codes DEF MessageOf
    <2>2. QED
      BY <1>1, <2>1, ServerEventSays, ServerMessageSays DEF HttpMsg, ClientNews
  <1>2. CASE e.ev = "AP_STADISCONNECTED"
    <2>1. MessageOf(e) \in Messages /\ MessageOf(e).code = "STOP_HTTP_SERVER"
      BY <1>2, SentMessages, Codes DEF MessageOf
    <2>2. QED
      BY <1>2, <2>1, ServerEventSays, ServerMessageSays DEF HttpMsg, ClientNews
  <1>3. CASE e.ev \notin ClientNews
    <2>1. \/ MessageOf(e) = None
          \/ MessageOf(e) = Order("STA_DISCONNECTED")
          \/ MessageOf(e) = Msg("STA_GOT_IP", e.addr) /\ e.addr \in Addrs
      BY <1>3 DEF MessageOf, ClientNews, Events, Ev
    <2>2. MessageOf(e) \notin DOMAIN ServerMessages
      BY <2>1, SentMessages, Codes, ServerMessageSays DEF HttpMsg
    <2>3. QED
      BY <1>3, <2>2, ServerEventSays
  <1>4. QED
    BY <1>1, <1>2, <1>3 DEF ClientNews

ServersSent   == Sent(ServerMessages, ServersInHand)
ServersToBe   == OnItsWay(ServerEvents, ServerMessages, ServersInHand)
Leased        == \E c \in Clients : clients[c] = "leased"
OneClient     == \A c, d \in Clients : c = d

(* What the manager handles in station mode is no order for the servers.   *)
LEMMA StationHandlers ==
    ASSUME TypeOK, InProgress, mode = "STA", mgrPc = "handle"
    PROVE  mgrMsg.code \in {"LOAD_AND_RESTORE_STA", "CONNECT_STA", "START_AP",
                            "STA_DISCONNECTED", "STA_GOT_IP"}
  BY Codes
     DEF InProgress, StationInv, Loading, ConnectOrdered, ApOrdered, Connecting, Linked, Lost,
         LossInEvents, LossInTask, LossInQueue, LossHandled, RetryPending, Carried, MgrIdle,
         NotingLeases, LeaseMsg, LossMsg

(* In station mode no step touches the servers, and the access point       *)
(* starts without clients.                                                 *)
LEMMA ServersInStation ==
    ASSUME UserOrders = {}, TypeOK, InProgress, ServersForetold, mode = "STA", Next
    PROVE  ServersForetold'
  <1>1. http = "running" /\ dns = "stopped"
    BY DEF ServersForetold
  <1>2. http' = "running" /\ dns' = "stopped"
    <2>1. CASE Handle
      <3>1. LoadAndRestoreSta \/ ConnectSta \/ StartAp \/ StaDisconnected \/ StaGotIp
        BY <2>1, StationHandlers, Dispatch
      <3>2. QED
        BY <1>1, <3>1 DEF LoadAndRestoreSta, ConnectSta, StartAp, StaDisconnected, StaGotIp, httpVars
    <2>2. CASE Network
      BY <1>1, <2>2
         DEF Network, Associated, AddressChanged, FailedOrLost, ScanDone, ClientJoins,
             ClientLeased, ClientLeaves, softVars, httpVars
    <2>3. CASE Receive \/ ManagerSend \/ Reboot \/ EventHandler \/ EventSend \/ TimerCommand
               \/ RetryExpires \/ ShutdownExpires \/ TimerSend \/ UserOrder
      BY <1>1, <2>3
         DEF Receive, ManagerSend, Reboot, EventHandler, EventSend, TimerCommand,
             RetryExpires, ShutdownExpires, TimerSend, UserOrder, httpVars
    <2>4. QED
      BY <2>1, <2>2, <2>3 DEF Next, Manager
  <1>3. mode' = "STA" \/ StartAp
    BY ConnectivitySteps DEF ConnectSta, FailedOrLost, Associated
  <1>4. StartAp => ~Leased'
    BY DEF StartAp, Leased
  <1>5. QED
    BY <1>2, <1>3, <1>4 DEF ServersForetold, Leased

(* While the access point has the radio, what the last client did is what  *)
(* the servers will be told last.                                          *)
LEMMA ServersInAccessPoint ==
    ASSUME UserOrders = {}, OneClient, TypeOK, InProgress, ServersForetold, mode = "AP", Next
    PROVE  ServersForetold'
  <1> USE DEF softVars, mgrVars, sideVars, timerVars, wifiVars, linkVars, httpVars
  <1>1. AccessPointInv /\ mode' = "AP"
    BY FromAccessPoint DEF InProgress
  <1>2. Leased => ServersToBe = Serving
    BY DEF ServersForetold, Leased, ServersToBe
  <1>3. SUFFICES ASSUME Leased' PROVE ServersToBe' = Serving
    BY <1>1 DEF ServersForetold, Leased, ServersToBe
  <1>4. queue \in Seq(Messages) /\ events \in Seq(Events)
    BY DEF TypeOK, TypeQueue, TypeWifi
  <1>5. ASSUME events' = events, clients' = clients, ServersSent' = ServersSent
        PROVE  ServersToBe' = Serving
    BY <1>2, <1>3, <1>5 DEF ServersToBe, OnItsWay, ServersSent, Leased
  <1>6. \/ Receive \/ Handle \/ ManagerSend \/ EventHandler \/ EventSend \/ TimerCommand
        \/ \E c \in Clients : ClientJoins(c) \/ ClientLeased(c) \/ ClientLeaves(c)
    BY <1>1 DEF Next, Manager, InProgress, AccessPointInv, TimersIdle, Reboot, RetryExpires,
                ShutdownExpires, TimerSend, UserOrder, Network, Associated, AddressChanged,
                FailedOrLost, ScanDone
  <1>7. CASE Receive
    <2> DEFINE m == Head(queue)
    <2>1. /\ queue # <<>> /\ queue' = Tail(queue) /\ mgrPc = "idle" /\ mgrPc' = "handle"
          /\ mgrMsg' = m /\ UNCHANGED <<evtOut, events, clients, http, dns>>
      BY <1>7 DEF Receive
    <2>2. m \in Messages /\ HttpMsg(m)
      BY <1>1, <1>4, <2>1, Front, ReceiveKeepsQueue DEF AccessPointInv
    <2>3. ServersInHand' = IF m \in DOMAIN ServerMessages THEN ServerMessages[m] ELSE ServersInHand
      BY <2>1, <2>2, ServerMessageSays DEF ServersInHand
    <2>4. Foretold(queue', ServerMessages, ServersInHand')
            = Foretold(queue, ServerMessages, ServersInHand)
      BY <1>4, <2>1, <2>3, NewsTaken
    <2>5. ServersSent' = ServersSent
      BY <2>1, <2>4 DEF ServersSent, Sent
    <2>6. QED
      BY <1>5, <2>1, <2>5
  <1>8. CASE Handle
    <2>1. mgrPc = "handle" /\ HttpMsg(mgrMsg) /\ mgrMsg \in Messages
      BY <1>1, <1>8, Dispatch DEF AccessPointInv, TypeOK, TypeManager
    <2>2. \/ StartHttpServer /\ mgrMsg.code = "START_HTTP_SERVER"
          \/ StopHttpServer /\ mgrMsg.code = "STOP_HTTP_SERVER"
      BY <1>8, <2>1, Dispatch DEF StartHttpServer, StopHttpServer, Handling
    <2>3. <<http', dns'>> = ServerMessages[mgrMsg]
      BY <2>1, <2>2, ServerMessageSays
         DEF StartHttpServer, StopHttpServer, RestartHttp, Serving, Closed
    <2>4. mgrPc' = "idle" /\ UNCHANGED <<queue, evtOut, events, clients>>
      BY <2>2 DEF StartHttpServer, StopHttpServer, Done
    <2>5. ServersInHand' = ServersInHand
      BY <2>1, <2>3, <2>4 DEF ServersInHand
    <2>6. ServersSent' = ServersSent
      BY <2>4, <2>5 DEF ServersSent, Sent
    <2>7. QED
      BY <1>5, <2>4, <2>6
  <1>9. CASE ManagerSend
    BY <1>1, <1>9 DEF ManagerSend, AccessPointInv
  <1>10. CASE EventHandler
    <2> DEFINE e == Head(events)
    <2>1. /\ events # <<>> /\ events' = Tail(events) /\ evtOut = None /\ evtOut' = MessageOf(e)
          /\ UNCHANGED <<queue, mgrPc, mgrMsg, http, dns, clients>>
      BY <1>10 DEF EventHandler
    <2>2. e \in Events
      BY <1>4, <2>1, ReceiveKeepsQueue
    <2>3. ServersInHand' = ServersInHand
      BY <2>1 DEF ServersInHand
    <2> HIDE DEF e
    <2>4. ServersSent' = IF e \in DOMAIN ServerEvents THEN ServerEvents[e] ELSE ServersSent
      BY <2>1, <2>2, <2>3, ServersPassedOn, ServerMessageSays DEF ServersSent, Sent
    <2>5. Foretold(events', ServerEvents, ServersSent') = Foretold(events, ServerEvents, ServersSent)
      BY <1>4, <2>1, <2>4, NewsTaken DEF e
    <2>6. QED
      BY <1>2, <1>3, <2>1, <2>5 DEF ServersToBe, OnItsWay, ServersSent, Leased
  <1>11. CASE EventSend
    <2>1. /\ evtOut \in Messages /\ queue' = Append(queue, evtOut) /\ evtOut' = None
          /\ UNCHANGED <<mgrPc, mgrMsg, http, dns, events, clients>>
      BY <1>11 DEF EventSend, TypeOK, TypeSenders
    <2>2. ServersInHand' = ServersInHand
      BY <2>1 DEF ServersInHand
    <2>3. Foretold(queue', ServerMessages, ServersInHand') = ServersSent
      BY <1>4, <2>1, <2>2, NewsSent DEF ServersSent, Sent
    <2>4. ServersSent' = ServersSent
      BY <2>1, <2>3, ServerMessageSays DEF ServersSent, Sent
    <2>5. QED
      BY <1>5, <2>1, <2>4
  <1>12. CASE TimerCommand
    <2>1. UNCHANGED <<queue, mgrPc, mgrMsg, http, dns, evtOut, events, clients>>
      BY <1>12 DEF TimerCommand
    <2>2. ServersSent' = ServersSent
      BY <2>1 DEF ServersSent, Sent, ServersInHand
    <2>3. QED
      BY <1>5, <2>1, <2>2
  <1>13. ASSUME NEW c \in Clients, ClientJoins(c) \/ ClientLeased(c) \/ ClientLeaves(c)
         PROVE  ServersToBe' = Serving
    <2>1. ServersSent' = ServersSent /\ clients \in [Clients -> {"away", "joined", "leased"}]
      <3>1. UNCHANGED softVars
        BY <1>13 DEF ClientJoins, ClientLeased, ClientLeaves
      <3>2. QED
        BY <3>1 DEF ServersSent, Sent, ServersInHand, TypeOK, TypeWifi
    <2>2. CASE ClientJoins(c)
      <3>1. events' = events /\ Leased
        BY <1>3, <2>1, <2>2 DEF ClientJoins, Leased
      <3>2. QED
        BY <1>2, <2>1, <3>1 DEF ServersToBe, OnItsWay, ServersSent
    <2>3. CASE ClientLeased(c)
      <3> DEFINE e == Ev("AP_STAIPASSIGNED", NoAddr)
      <3>1. e \in Events /\ e \in DOMAIN ServerEvents /\ ServerEvents[e] = Serving
        BY PostedEvents, ServerEventSays DEF Ev, ClientNews
      <3>2. events' = Append(events, e)
        BY <2>3 DEF ClientLeased
      <3> HIDE DEF e
      <3>3. Foretold(events', ServerEvents, ServersSent') = Serving
        BY <1>4, <3>1, <3>2, NewsSent
      <3>4. QED
        BY <3>3 DEF ServersToBe, OnItsWay, ServersSent
    <2>4. CASE ClientLeaves(c)
      <3>1. ~Leased'
        BY <2>1, <2>4 DEF ClientLeaves, Leased, OneClient
      <3>2. QED
        BY <1>3, <3>1
    <2>5. QED
      BY <1>13, <2>2, <2>3, <2>4
  <1>14. QED
    BY <1>6, <1>7, <1>8, <1>9, <1>10, <1>11, <1>12, <1>13

LEMMA ServersStep ==
    ASSUME UserOrders = {}, OneClient, TypeOK, InProgress, ServersForetold, [Next]_vars
    PROVE  ServersForetold'
  <1>1. CASE UNCHANGED vars
    BY <1>1 DEF vars, ServersForetold, OnItsWay, Sent, ServersInHand
  <1>2. QED
    BY <1>1, ServersInStation, ServersInAccessPoint DEF TypeOK, TypeWifi

(* With one client at most, the servers are at rest what they should be in *)
(* either mode, however its comings and goings overtook the manager.       *)
THEOREM ServersAgree ==
    ASSUME UserOrders = {}, \A c, d \in Clients : c = d
    PROVE  Spec => []ServersFollowMode
  <1>1. OneThingInProgress /\ ServersForetold /\ [Next]_vars => ServersForetold'
    BY ServersStep DEF OneThingInProgress, OneClient
  <1>2. Init => ServersForetold
    BY DEF Init, ServersForetold
  <1>3. ServersForetold => ServersFollowMode
    BY NoNews, ServerMessageSays
       DEF ServersForetold, ServersFollowMode, Quiet, OnItsWay, Sent, ServersInHand, Serving
  <1>4. QED
    BY OneThing, <1>1, <1>2, <1>3, PTL DEF Spec
=============================================================================
