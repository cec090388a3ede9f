------------------------------- MODULE Framing -------------------------------
(***************************************************************************)
(* What the server promises about the requests of one connection, however  *)
(* the network cuts them into pieces: handlers are called for them one by  *)
(* one and in their order, each is told its own URI and headers, and what  *)
(* is read while it is handled is its own body, from the first byte to the *)
(* last one, before the next request is looked at.                         *)
(***************************************************************************)
EXTENDS HttpText

VARIABLES
    requests, \* what the client sends
    text,     \* its bytes
    served,   \* how many requests have got to their handlers
    told,     \* what the last handler was told
    left,     \* bytes of its body not read yet
    chunk,    \* what the last read got
    open      \* whether the connection is open

fvars == <<requests, text, served, told, left, chunk, open>>

(* The n-th request as its handler should see it.                          *)
Facts(n) ==
    [uri     |-> Where(text, n, {"u"}),
     headers |-> Where(text, n, {"f", "c", "v"}),
     length  |-> requests[n].body]

Nothing == [uri |-> {}, headers |-> {}, length |-> 0]

FInit ==
    /\ text = TextOf(requests)
    /\ served = 0 /\ told = Nothing /\ left = 0 /\ chunk = <<>> /\ open = TRUE

Deliver ==
    /\ open /\ left = 0 /\ served < Len(requests)
    /\ served' = served + 1
    /\ told' = Facts(served + 1) /\ left' = requests[served + 1].body
    /\ UNCHANGED <<requests, text, chunk, open>>

(* The next bytes of the body, the last one of which ends it.              *)
ReadBody ==
    LET end == CHOOSE p \in DOMAIN text :
                   text[p].req = served /\ (p = Len(text) \/ text[p + 1].req # served)
    IN  /\ open
        /\ \E n \in 1..left :
               /\ left' = left - n
               /\ chunk' = [i \in 1..n |-> end - left + i]
        /\ UNCHANGED <<requests, text, served, told, open>>

CloseConnection ==
    /\ open /\ open' = FALSE /\ left' = 0
    /\ UNCHANGED <<requests, text, served, told, chunk>>

FNext == Deliver \/ ReadBody \/ CloseConnection

FSpec == FInit /\ [][FNext]_fvars
=============================================================================
