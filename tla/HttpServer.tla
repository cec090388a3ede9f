----------------------------- MODULE HttpServer -----------------------------
(***************************************************************************)
(* The web server (user_components/esp_http_server) as http_app starts and *)
(* stops it: one task that waits in select for its listening socket, its   *)
(* sessions and a control socket, to which httpd_stop and the purge of the *)
(* least recently used session send it messages over UDP.  Its task, the   *)
(* task of the Wi-Fi manager, which starts and stops it, application tasks *)
(* that queue work for it, and the clients interleave.                     *)
(*                                                                         *)
(* A connection is named by its client; its socket is open from accept to  *)
(* close.  A request is abstracted to what the server does about it: it is *)
(* short, it is followed by a second request in the same segment, or it    *)
(* carries a body that its handler does not read.                          *)
(***************************************************************************)
EXTENDS Naturals, Sequences, FiniteSets

CONSTANTS
    MaxOpenSockets, \* config.max_open_sockets
    Conns,          \* the clients
    None,           \* the descriptor -1
    Mailbox,        \* datagrams the control socket holds
    Requests,       \* what clients send in this instance
    Works           \* whether application tasks queue work and closes

ASSUME ServerAssumption ==
    /\ MaxOpenSockets \in Nat \ {0}
    /\ Mailbox \in Nat \ {0}
    /\ None \notin Conns
    /\ Requests \subseteq {"request", "two", "upload"}
    /\ Works \in BOOLEAN

Slots == 1..MaxOpenSockets

VARIABLES
    caller,   \* the task in http_app: "off", "running" after start, "stopping"
    pc,       \* the server's task: "none", "select", "ctrl", "sessions", "purge",
              \* "accept", "exit", "stopped"
    lruPurge, \* config.lru_purge_enable
    slots,    \* hd_sd[i].fd
    lru,      \* hd_sd[i].lru_counter, by rank
    counted,  \* whether httpd_sess_get_lru_counter has given its 0
    pending,  \* hd_sd[i].pending_len is not 0
    ctrl,     \* the datagrams in the control socket
    readSet,  \* read_set after select: the sockets of sessions,
    ctrlSet,  \* the control socket,
    listenSet,\* and the listening socket
    fd,       \* where the loop over the sessions is
    peer,     \* the client: "away", "waiting" in the backlog, "open", "left"
    inbox,    \* what the session's socket holds
    backlog,  \* the connections to accept, in order
    \* history
    done,     \* the sessions that this pass has processed
    served    \* the sessions that have served a request, the last one last

callerVars  == <<caller, lruPurge>>
sessionVars == <<slots, lru, counted, pending, served>>
passVars    == <<readSet, ctrlSet, listenSet>>
clientVars  == <<peer, inbox, backlog>>
vars == <<caller, lruPurge, pc, slots, lru, counted, pending, served,
          readSet, ctrlSet, listenSet, fd, done, ctrl, peer, inbox, backlog>>

(* A close carries a pointer to the slot; for is the session that was in   *)
(* it then (history).                                                      *)
Close(i) == [kind |-> "close", slot |-> i, for |-> slots[i]]
Work     == [kind |-> "work", slot |-> 1, for |-> None]
Shutdown == [kind |-> "shutdown", slot |-> 1, for |-> None]

Messages == [kind : {"close", "work", "shutdown"}, slot : Slots, for : Conns \cup {None}]

Sessions == {slots[i] : i \in Slots} \ {None}
SlotOf(c) == CHOOSE i \in Slots : slots[i] = c
Free     == {i \in Slots : slots[i] = None}
First(S) == CHOOSE i \in S : \A j \in S : i <= j

TypeOK ==
    /\ caller \in {"off", "running", "stopping"}
    /\ pc \in {"none", "select", "ctrl", "sessions", "purge", "accept", "exit", "stopped"}
    /\ lruPurge \in BOOLEAN
    /\ slots \in [Slots -> Conns \cup {None}]
    /\ lru \in [Slots -> 0..MaxOpenSockets]
    /\ counted \in BOOLEAN
    /\ pending \in [Slots -> BOOLEAN]
    /\ ctrl \in Seq(Messages) /\ Len(ctrl) <= Mailbox
    /\ readSet \subseteq Conns /\ ctrlSet \in BOOLEAN /\ listenSet \in BOOLEAN
    /\ fd \in Conns \cup {None}
    /\ peer \in [Conns -> {"away", "waiting", "open", "left"}]
    /\ inbox \in [Conns -> Requests \cup {"none", "request"}]
    /\ backlog \in Seq(Conns)
    /\ done \subseteq Conns
    /\ served \in Seq(Conns)

Init ==
    /\ caller = "off" /\ lruPurge = FALSE /\ pc = "none"
    /\ slots = [i \in Slots |-> None]
    /\ lru = [i \in Slots |-> 0] /\ counted = FALSE
    /\ pending = [i \in Slots |-> FALSE]
    /\ ctrl = <<>>
    /\ readSet = {} /\ ctrlSet = FALSE /\ listenSet = FALSE
    /\ fd = None /\ done = {} /\ served = <<>>
    /\ peer = [c \in Conns |-> "away"] /\ inbox = [c \in Conns |-> "none"]
    /\ backlog = <<>>

-----------------------------------------------------------------------------
(* cs_send_to_ctrl_sock: UDP drops what the socket has no room for, and    *)
(* the sender is not told.  Fault: one message at a time is taken.         *)
PostedIfEmpty(m) == IF ctrl = <<>> THEN <<m>> ELSE ctrl
Posted(m) == IF Len(ctrl) < Mailbox THEN Append(ctrl, m) ELSE ctrl

(* http_app_start and http_app_stop, which the Wi-Fi manager calls: the    *)
(* instance is created anew, and httpd_stop waits for the task to stop.    *)
Start ==
    /\ caller = "off" /\ caller' = "running"
    /\ lruPurge' \in BOOLEAN
    /\ pc' = "select"
    /\ slots' = [i \in Slots |-> None] /\ lru' = [i \in Slots |-> 0]
    /\ pending' = [i \in Slots |-> FALSE]
    /\ ctrl' = <<>> /\ served' = <<>>
    /\ UNCHANGED <<counted, passVars, fd, done, clientVars>>

Stop ==
    /\ caller = "running" /\ caller' = "stopping"
    /\ ctrl' = Posted(Shutdown)
    /\ UNCHANGED <<lruPurge, pc, sessionVars, passVars, fd, done, clientVars>>

StopReturns ==
    /\ caller = "stopping" /\ pc = "stopped"
    /\ caller' = "off" /\ pc' = "none"
    /\ UNCHANGED <<lruPurge, sessionVars, passVars, fd, done, ctrl, clientVars>>

(* httpd_queue_work and httpd_sess_trigger_close from another task.        *)
AppQueues ==
    /\ Works /\ caller = "running"
    /\ \/ ctrl' = Posted(Work)
       \/ \E c \in Sessions : ctrl' = Posted(Close(SlotOf(c)))
    /\ UNCHANGED <<callerVars, pc, sessionVars, passVars, fd, done, clientVars>>

-----------------------------------------------------------------------------
(* httpd_server, the body of the task's loop.  Faults: a full server does  *)
(* not listen even if it purges; messages wait until no session has data.  *)
ListeningRoomOnly == Free # {}
Listening         == lruPurge \/ Free # {}

Readable == {c \in Sessions : inbox[c] # "none" \/ peer[c] = "left"}

CtrlReadyIdle == ctrl # <<>> /\ Readable = {}
CtrlReady     == ctrl # <<>>

Select ==
    /\ pc = "select" /\ pc' = "ctrl"
    /\ readSet' = Readable
    /\ ctrlSet' = CtrlReady
    /\ listenSet' = (Listening /\ backlog # <<>>)
    /\ readSet' # {} \/ ctrlSet' \/ listenSet'
    /\ UNCHANGED <<callerVars, sessionVars, fd, done, ctrl, clientVars>>

(* httpd_sess_delete and close: the slot is free, the client's connection  *)
(* is closed.  Fault: the first taken slot is freed, whoever has it.       *)
DeletedFirst(c) == [slots EXCEPT ![First({i \in Slots : slots[i] # None})] = None]
Deleted(c)  == [i \in Slots |-> IF slots[i] = c THEN None ELSE slots[i]]
Unserved(c) ==
    LET at == CHOOSE k \in 1..Len(served) : served[k] = c
    IN  IF \E k \in 1..Len(served) : served[k] = c
        THEN [k \in 1..(Len(served) - 1) |-> served[IF k < at THEN k ELSE k + 1]]
        ELSE served

CloseSession(c) ==
    /\ slots' = Deleted(c) /\ served' = Unserved(c)
    /\ peer' = [peer EXCEPT ![c] = "away"] /\ inbox' = [inbox EXCEPT ![c] = "none"]
    /\ UNCHANGED <<lru, counted, pending, backlog>>

(* httpd_process_ctrl_msg: one message.  httpd_sess_close closes whatever  *)
(* is in the slot by now; the descriptor of a free slot is -1, and closing *)
(* it does nothing.                                                        *)
ProcessCtrl ==
    /\ pc = "ctrl"
    /\ fd' = None /\ done' = {}
    /\ IF ~ctrlSet
       THEN pc' = "sessions" /\ UNCHANGED <<ctrl, sessionVars, clientVars>>
       ELSE /\ ctrl' = Tail(ctrl)
            /\ LET m == Head(ctrl) IN
               \/ /\ m.kind = "shutdown" /\ pc' = "exit"
                  /\ UNCHANGED <<sessionVars, clientVars>>
               \/ /\ m.kind = "close" /\ slots[m.slot] # None /\ pc' = "sessions"
                  /\ CloseSession(slots[m.slot])
               \/ /\ (m.kind = "work" \/ (m.kind = "close" /\ slots[m.slot] = None))
                  /\ pc' = "sessions"
                  /\ UNCHANGED <<sessionVars, clientVars>>
    /\ UNCHANGED <<callerVars, passVars>>

(* httpd_sess_iterate: the session in the first taken slot behind that of  *)
(* the descriptor; from the start if no slot has it.                       *)
After(c) ==
    LET from == IF c \in Sessions THEN SlotOf(c) ELSE 0
        rest == {i \in Slots : i > from /\ slots[i] # None}
    IN  IF rest = {} THEN None ELSE slots[First(rest)]

(* What httpd_sess_delete returns: the session before the deleted one.     *)
(* Faults: the deleted one; the one behind it.                             *)
PrecedingItself(c) == c
PrecedingBehind(c) == After(c)
Preceding(c) ==
    LET taken == {i \in Slots : i < SlotOf(c) /\ slots[i] # None}
    IN  IF taken = {} THEN None ELSE slots[CHOOSE i \in taken : \A j \in taken : j <= i]

(* The counter of a session is set after a request; the first value of all *)
(* is 0, as in a new session.                                              *)
Counted(c) ==
    LET i   == SlotOf(c)
        old == {lru[j] : j \in Slots \ {i}}
        Rank(v) == Cardinality({w \in old \ {0} : w < v}) + 1
    IN  [j \in Slots |-> IF j = i
                         THEN (IF counted THEN Cardinality(old \ {0}) + 1 ELSE 0)
                         ELSE (IF lru[j] = 0 THEN 0 ELSE Rank(lru[j]))]

Succeed(c) ==
    /\ lru' = Counted(c) /\ counted' = TRUE
    /\ served' = Append(Unserved(c), c)
    /\ fd' = c /\ pc' = "sessions"
    /\ UNCHANGED <<slots, peer, backlog>>

Fail(c) ==
    /\ fd' = Preceding(c) /\ pc' = "sessions"
    /\ CloseSession(c)

(* httpd_sess_process: httpd_req_new reads and parses a request, from what *)
(* is pending or from the socket, and runs its handler; what it has read   *)
(* of the next request stays pending.  Anything may fail on the way, and   *)
(* it does if the client has closed the connection.                        *)
Process(c) ==
    LET i == SlotOf(c) IN
    /\ done' = done \cup {c}
    /\ \/ Fail(c)
       \/ /\ pending[i] /\ pending' = [pending EXCEPT ![i] = FALSE]
          /\ inbox' = inbox /\ Succeed(c)
       \/ /\ ~pending[i] /\ inbox[c] = "request"
          /\ inbox' = [inbox EXCEPT ![c] = "none"] /\ pending' = pending /\ Succeed(c)
       \/ /\ ~pending[i] /\ inbox[c] = "two"
          /\ \/ /\ inbox' = [inbox EXCEPT ![c] = "none"]
                /\ pending' = [pending EXCEPT ![i] = TRUE]
             \/ /\ inbox' = [inbox EXCEPT ![c] = "request"] /\ pending' = pending
          /\ Succeed(c)
       \/ /\ ~pending[i] /\ inbox[c] = "upload"
          /\ inbox' = [inbox EXCEPT ![c] = "none"] /\ pc' = "purge" /\ fd' = c
          /\ UNCHANGED <<sessionVars, peer, backlog>>

(* The loop over the sessions: the ones that are readable are processed.   *)
Session ==
    /\ pc = "sessions"
    /\ LET c == After(fd) IN
       \/ /\ c = None /\ pc' = "accept"
          /\ UNCHANGED <<fd, done, sessionVars, clientVars>>
       \/ /\ c # None /\ c \notin readSet /\ ~pending[SlotOf(c)]
          /\ fd' = c /\ UNCHANGED <<pc, done, sessionVars, clientVars>>
       \/ /\ c # None /\ (c \in readSet \/ pending[SlotOf(c)])
          /\ Process(c)
    /\ UNCHANGED <<callerVars, passVars, ctrl>>

(* httpd_req_delete reads the rest of a body until there is none, or an    *)
(* error such as a timeout ends it; when the client has closed the         *)
(* connection, recv returns 0 and the loop goes on for good.               *)
Purge ==
    /\ pc = "purge" /\ peer[fd] = "open"
    /\ \/ inbox' = inbox /\ pending' = pending /\ Succeed(fd)
       \/ Fail(fd)
    /\ UNCHANGED <<callerVars, passVars, ctrl, done>>

(* httpd_sess_close_lru: of the least counters, the first slot's.  Fault:  *)
(* of the greatest.                                                        *)
LruSlotGreatest == First({i \in Slots : \A j \in Slots : lru[i] >= lru[j]})
LruSlot         == First({i \in Slots : \A j \in Slots : lru[i] <= lru[j]})

(* httpd_accept_conn: with no room the least recently used session is to   *)
(* be closed, else the connection gets the first free slot.                *)
AcceptInto(i) ==
    LET c == Head(backlog) IN
    /\ backlog' = Tail(backlog)
    /\ slots' = [slots EXCEPT ![i] = c]
    /\ lru' = [lru EXCEPT ![i] = 0] /\ pending' = [pending EXCEPT ![i] = FALSE]
    /\ peer' = [peer EXCEPT ![c] = "open"]
    /\ UNCHANGED <<counted, served, inbox, ctrl>>

AcceptConn ==
    \/ Free # {} /\ AcceptInto(First(Free))
    \/ Free = {} /\ ctrl' = Posted(Close(LruSlot)) /\ UNCHANGED <<sessionVars, clientVars>>

Accept ==
    /\ pc = "accept" /\ pc' = "select"
    /\ readSet' = {} /\ ctrlSet' = FALSE /\ listenSet' = FALSE /\ fd' = None /\ done' = {}
    /\ IF listenSet
       THEN AcceptConn
       ELSE UNCHANGED <<sessionVars, clientVars, ctrl>>
    /\ UNCHANGED callerVars

(* The end of httpd_thread: every socket is closed, and the connections    *)
(* that wait are reset.                                                    *)
Exit ==
    /\ pc = "exit" /\ pc' = "stopped"
    /\ slots' = [i \in Slots |-> None] /\ served' = <<>>
    /\ peer' = [c \in Conns |-> "away"] /\ inbox' = [c \in Conns |-> "none"]
    /\ backlog' = <<>> /\ ctrl' = <<>>
    /\ readSet' = {} /\ ctrlSet' = FALSE /\ listenSet' = FALSE
    /\ UNCHANGED <<callerVars, lru, counted, pending, fd, done>>

-----------------------------------------------------------------------------
(* The clients, external.                                                  *)
ServerOpen == pc \notin {"none", "stopped"}

ClientConnects(c) ==
    /\ peer[c] = "away" /\ ServerOpen
    /\ peer' = [peer EXCEPT ![c] = "waiting"] /\ backlog' = Append(backlog, c)
    /\ UNCHANGED <<callerVars, pc, sessionVars, passVars, fd, done, ctrl, inbox>>

ClientSends(c) ==
    /\ peer[c] = "open" /\ inbox[c] = "none"
    /\ \E r \in Requests : inbox' = [inbox EXCEPT ![c] = r]
    /\ UNCHANGED <<callerVars, pc, sessionVars, passVars, fd, done, ctrl, peer, backlog>>

ClientLeaves(c) ==
    /\ peer[c] = "open" /\ peer' = [peer EXCEPT ![c] = "left"]
    /\ UNCHANGED <<callerVars, pc, sessionVars, passVars, fd, done, ctrl, inbox, backlog>>

Server == Select \/ ProcessCtrl \/ Session \/ Purge \/ Accept \/ Exit

Next ==
    \/ Start \/ Stop \/ StopReturns \/ AppQueues
    \/ Server
    \/ \E c \in Conns : ClientConnects(c) \/ ClientSends(c) \/ ClientLeaves(c)

Spec == Init /\ [][Next]_vars

(* The task runs when it is ready, its recv times out, and the task in     *)
(* httpd_stop polls.  Clients and applications owe nothing.                *)
FairSpec == Spec /\ WF_vars(Server) /\ WF_vars(StopReturns)

-----------------------------------------------------------------------------
(* The sessions are exactly the sockets that are open, each in one slot:   *)
(* httpd_sess_new, httpd_sess_delete and close leak no socket or slot.     *)
SlotsMatchSockets ==
    /\ \A i, j \in Slots : slots[i] = slots[j] /\ slots[i] # None => i = j
    /\ Sessions = {c \in Conns : peer[c] \in {"open", "left"}}

(* Sessions are deleted in the loop that iterates over them, which goes on *)
(* from the descriptor that httpd_sess_delete returns (httpd_main.c,       *)
(* httpd_server): it comes to every session that select has found readable *)
(* and that is still there.                                                *)
NobodySkipped == pc = "accept" => readSet \cap Sessions \subseteq done

(* And it never comes back to one: a session that was found readable once  *)
(* would be read twice, and block the task until the recv times out.       *)
NeverTwice == pc = "sessions" => After(fd) \notin done

(* Both at once: whichever sessions are deleted on the way, a pass reads   *)
(* each readable one that stays, and reads it once (httpd_server).         *)
OncePerPass == NobodySkipped /\ NeverTwice

(* httpd_sess_trigger_close queues a pointer to a slot: when the message   *)
(* is processed the session it was meant for is in the slot, or none.      *)
CloseHitsTarget ==
    pc = "ctrl" /\ ctrlSet /\ Head(ctrl).kind = "close"
    => slots[Head(ctrl).slot] \in {Head(ctrl).for, None}

(* httpd_stop does not look at the result of the send, and UDP drops: the  *)
(* message it then waits for is there until the task has taken it.         *)
ShutdownNotLost ==
    caller = "stopping" => \/ pc \in {"exit", "stopped"}
                           \/ \E k \in 1..Len(ctrl) : ctrl[k].kind = "shutdown"

(* Of the sessions that have served a request, a full server purges the    *)
(* one that did so longest ago (esp_http_server.h, lru_purge_enable),      *)
(* although sessions come, go and inherit slots with old counters.         *)
PurgeOrder ==
    [][\A i \in Slots : Accept /\ ctrl' = Append(ctrl, Close(i))
           => \A k \in 2..Len(served) : served[k] # slots[i]]_vars

(* httpd_stop returns, for the Wi-Fi manager waits for it.                 *)
StopEnds == caller = "stopping" ~> caller = "off"

(* The clients are alike: one stands for all.                              *)
Client == CHOOSE c \in Conns : TRUE

(* With the purge a client gets in however full the server is.             *)
PurgeMakesRoom == (lruPurge /\ peer[Client] = "waiting") ~> peer[Client] # "waiting"

(* What a session has received is read, or the session is closed.          *)
RequestsRead ==
    (peer[Client] = "open" /\ inbox[Client] # "none") ~> inbox[Client] = "none"
=============================================================================
