----------------------------- MODULE HttpRequest -----------------------------
(***************************************************************************)
(* How the web server gets requests out of the bytes of one connection     *)
(* (httpd_parse, httpd_txrx): blocks are received into a scratch buffer    *)
(* and parsed as they come; the parser is paused where the headers begin,  *)
(* so that the first line makes room for them, and where they end; what    *)
(* it has not parsed by then is pushed back into a buffer of the session   *)
(* and received again, some of it to be skipped.  Handlers read bodies,    *)
(* and what they leave is purged before the next request.                  *)
(*                                                                         *)
(* Buffers hold positions of the client's text, 0 for a byte that was      *)
(* overwritten with '\0'.  The network may cut the text anywhere: recv     *)
(* returns any number of bytes, or fails.                                  *)
(***************************************************************************)
EXTENDS HttpText, FiniteSets

CONSTANTS
    Streams,   \* what clients send in this instance: sequences of requests
    BlockSize, \* PARSER_BLOCK_SIZE
    Scratch,   \* sizeof(scratch)
    MaxUri,    \* HTTPD_MAX_URI_LEN
    PurgeBuf   \* CONFIG_HTTPD_PURGE_BUF_LEN

ASSUME StreamsAssumption == Streams \subseteq Seq(Requests)

ASSUME SizesAssumption ==
    /\ BlockSize \in Nat \ {0} /\ Scratch \in Nat /\ BlockSize <= Scratch
    /\ MaxUri \in Nat /\ PurgeBuf \in Nat \ {0}

VARIABLES
    requests, text, \* what this client sends, and its bytes
    taken,      \* how many of them recv has returned
    pending,    \* pending_data of the session
    pc,         \* "idle", "read", "execute", "handler", "purge", "closed"
    buf,        \* the first raw_datalen bytes of scratch
    offset,     \* of the next block in it
    cursor,     \* what http_parser_execute has parsed of it
    grammar,    \* the state of http_parser
    parsed,     \* the last byte it has parsed (history)
    status,     \* parser_data.status, without its PARSING_
    last,       \* parser_data.last: a position in buf and a length
    paused,
    preParsed,  \* pre_parsed
    hdrs,       \* req_hdrs_count
    uri,        \* req->uri
    remaining,  \* remaining_len
    \* history
    refused,    \* whether an error was the answer to what was received
    served, told, chunk \* what handlers got

parserVars  == <<grammar, parsed, status, last, paused, preParsed>>
requestVars == <<hdrs, uri, remaining>>
streamVars  == <<requests, text>>
heardVars   == <<served, told, chunk>>
vars == <<requests, text, taken, pending, pc, buf, offset, cursor, grammar, parsed,
          status, last, paused, preParsed, hdrs, uri, remaining, refused, served,
          told, chunk>>

Grammar == {"start", "method", "url", "line", "field", "colon", "value", "body"}
Status  == {"IDLE", "URL", "HDR_FIELD", "HDR_VALUE", "BODY", "COMPLETE", "FAILED"}
Notes   == [at : 0..Scratch + 1, length : 0..Scratch]

TypeOK ==
    /\ taken \in 0..Len(text)
    /\ pending \in Seq(0..Len(text)) /\ Len(pending) <= BlockSize
    /\ pc \in {"idle", "read", "execute", "handler", "purge", "closed"}
    /\ buf \in Seq(0..Len(text)) /\ Len(buf) <= Scratch
    /\ offset \in 0..Scratch /\ cursor \in 0..Len(buf)
    /\ grammar \in Grammar /\ status \in Status /\ parsed \in 0..Len(text)
    /\ last \in Notes
    /\ paused \in BOOLEAN /\ preParsed \in 0..BlockSize
    /\ hdrs \in Nat /\ uri \subseteq 0..Len(text) /\ Cardinality(uri) <= MaxUri
    /\ remaining \in Nat
    /\ refused \in BOOLEAN /\ served \in Nat

NewParser ==
    /\ grammar' = "start" /\ parsed' = 0 /\ status' = "IDLE"
    /\ last' = [at |-> 0, length |-> 0] /\ paused' = FALSE /\ preParsed' = 0

Nobody == [uri |-> {}, headers |-> {}, length |-> 0]

Init ==
    /\ requests \in Streams /\ text = TextOf(requests)
    /\ taken = 0 /\ pending = <<>> /\ pc = "idle"
    /\ buf = <<>> /\ offset = 0 /\ cursor = 0
    /\ grammar = "start" /\ parsed = 0 /\ status = "IDLE"
    /\ last = [at |-> 0, length |-> 0] /\ paused = FALSE /\ preParsed = 0
    /\ hdrs = 0 /\ uri = {} /\ remaining = 0
    /\ refused = FALSE /\ served = 0 /\ told = Nobody /\ chunk = <<>>

-----------------------------------------------------------------------------
Least(a, b)   == IF a < b THEN a ELSE b
Upto(s, n)    == SubSeq(s, 1, n)
From(s, n)    == SubSeq(s, n, Len(s))
Arrived(n)    == [i \in 1..n |-> taken + i]
Erase(s, a, b) == [i \in DOMAIN s |-> IF i \in a..b THEN 0 ELSE s[i]]

(* httpd_req_handle_err: no error handler is registered, so that the       *)
(* answer is an error and the session is closed.                           *)
Refuse ==
    /\ pc' = "closed" /\ refused' = TRUE
    /\ UNCHANGED <<streamVars, taken, pending, buf, offset, cursor, parserVars,
                   requestVars, heardVars>>

(* The client is gone, or silent for longer than the timeout (a 408).      *)
Disconnect ==
    /\ pc' = "closed"
    /\ UNCHANGED <<streamVars, taken, pending, buf, offset, cursor, parserVars,
                   requestVars, refused, heardVars>>

(* httpd_req_new for a session that is readable or has pending data.       *)
HttpdReqNew ==
    /\ pc = "idle" /\ pc' = "read"
    /\ NewParser
    /\ buf' = <<>> /\ offset' = 0 /\ cursor' = 0
    /\ hdrs' = 0 /\ uri' = {} /\ remaining' = 0
    /\ UNCHANGED <<streamVars, taken, pending, refused, heardVars>>

(* read_block.  Fault: the offset is not subtracted.                       *)
RoomBehind == BlockSize
Room       == Least(BlockSize, Scratch - offset)

(* continue_parsing, at the start of parse_block: what was parsed before   *)
(* the pause is skipped.  Fault: it is not.                                *)
SkippedNone(new) == 0
Skipped(new)     == IF paused THEN Least(Len(new), preParsed) ELSE 0

Parse(new) ==
    /\ buf' = Upto(buf, offset) \o new
    /\ cursor' = offset + Skipped(new)
    /\ preParsed' = preParsed - Skipped(new) /\ paused' = FALSE
    /\ \/ Skipped(new) = Len(new) /\ pc' = "read" /\ offset' = Skipped(new)
       \/ Skipped(new) < Len(new) /\ pc' = "execute" /\ offset' = offset
    /\ UNCHANGED <<streamVars, grammar, parsed, status, last, requestVars, refused, heardVars>>

(* Pending data comes first, and alone.  With no room left the first line  *)
(* or the headers are too long.                                            *)
ReadBlock ==
    /\ pc = "read"
    /\ \/ Room = 0 /\ Refuse
       \/ /\ Room > 0 /\ pending # <<>>
          /\ LET n == Least(Room, Len(pending)) IN
             pending' = From(pending, n + 1) /\ Parse(Upto(pending, n))
          /\ UNCHANGED taken
       \/ /\ Room > 0 /\ pending = <<>>
          /\ \E n \in 1..Least(Room, Len(text) - taken) :
                taken' = taken + n /\ Parse(Arrived(n))
          /\ UNCHANGED pending
       \/ Room > 0 /\ pending = <<>> /\ Disconnect

-----------------------------------------------------------------------------
(* http_parser_execute, external but for the callbacks: what it accepts,   *)
(* and the callback that the next bytes lead to.                           *)
Executing == pc = "execute" /\ cursor < Len(buf)
At        == cursor + 1
Kind(i)   == IF buf[i] = 0 THEN "nul" ELSE text[buf[i]].kind

(* The last byte of the run of one kind that begins here.                  *)
RunEnd ==
    CHOOSE j \in At..Len(buf) :
        /\ \A i \in At..j : Kind(i) = Kind(At)
        /\ j = Len(buf) \/ Kind(j + 1) # Kind(At)
Run == RunEnd - cursor

Rules ==
    {<<"start", "m", "method">>, <<"method", "u", "url">>, <<"url", "u", "url">>,
     <<"url", "l", "line">>, <<"line", "f", "field">>, <<"field", "f", "field">>,
     <<"field", "c", "colon">>, <<"colon", "v", "value">>, <<"value", "v", "value">>,
     <<"value", "n", "line">>, <<"line", "n", "body">>}

Accepted(kind) == \E r \in Rules : r[1] = grammar /\ r[2] = kind
Becomes        == (CHOOSE r \in Rules : r[1] = grammar /\ r[2] = Kind(At))[3]

Parsed(i) == cursor' = i /\ parsed' = buf[i]

(* Bytes between the tokens, without a callback.                           *)
Punctuation ==
    /\ Executing /\ Accepted(Kind(At))
    /\ Kind(At) \in {"m", "l", "c"} \/ <<grammar, Kind(At)>> = <<"value", "n">>
    /\ grammar' = Becomes /\ Parsed(At)
    /\ UNCHANGED <<streamVars, taken, pending, pc, buf, offset, status, last, paused,
                   preParsed, requestVars, refused, heardVars>>

BadRequest == Executing /\ grammar # "body" /\ ~Accepted(Kind(At)) /\ Refuse

Token(kind) ==
    /\ Executing /\ grammar # "body" /\ Kind(At) = kind /\ Accepted(kind)

(* A token, or a part of one if the block ends in it, is noted in last.    *)
Note(st, at, length) ==
    /\ status' = st /\ last' = [at |-> at, length |-> length]
    /\ grammar' = Becomes /\ Parsed(RunEnd)
    /\ UNCHANGED <<streamVars, taken, pending, pc, offset, paused, preParsed, uri,
                   remaining, refused, heardVars>>

(* cb_url.                                                                 *)
UriTooLong(n) == n > MaxUri

CbUrl ==
    /\ Token("u")
    /\ LET length == Run + (IF status = "IDLE" THEN 0 ELSE last.length)
           at     == IF status = "IDLE" THEN At ELSE last.at
       IN  \/ status \in {"IDLE", "URL"} /\ ~UriTooLong(length)
              /\ Note("URL", at, length) /\ UNCHANGED <<buf, hdrs>>
           \/ (status \notin {"IDLE", "URL"} \/ UriTooLong(length)) /\ Refuse

(* verify_url.                                                             *)
Verified  == last.length <= MaxUri /\ requests[text[parsed].req].verdict # "line"
UriNoted  == {buf[i] : i \in last.at..last.at + last.length - 1}

(* pause_parsing pushes back what begins at a position of b.  Fault: the   *)
(* length that http_parser has yet to parse is not deducted.               *)
Unparsed(b, at) == Len(b) + 1 - at
PushBack(b, at) == pending' = IF Unparsed(b, at) > 0 THEN From(b, at) ELSE pending

PreParsedAll(at, end) == Unparsed(buf, at)
PreParsed(at, end)    == Unparsed(buf, at) - (Len(buf) - end)

(* The first header: the first line is verified and makes room.  The colon *)
(* is parsed before http_parser_execute returns.                           *)
FirstHeader ==
    LET end == IF RunEnd < Len(buf) /\ Kind(RunEnd + 1) = "c" THEN RunEnd + 1 ELSE RunEnd IN
    /\ uri' = UriNoted
    /\ status' = "HDR_FIELD" /\ last' = [at |-> 1, length |-> Run]
    /\ PushBack(buf, At) /\ paused' = TRUE /\ preParsed' = PreParsed(At, end)
    /\ grammar' = (IF end > RunEnd THEN "colon" ELSE "field") /\ Parsed(end)
    /\ offset' = 0 /\ pc' = "read"
    /\ UNCHANGED <<streamVars, taken, buf, hdrs, remaining, refused, heardVars>>

(* Line ends become the ends of the strings before them.  Fault: they are  *)
(* left as they are.                                                       *)
TerminatedNot(b, from, to) == b
Terminated(b, from, to)    == Erase(b, from, to)

CbHeaderField ==
    /\ Token("f")
    /\ \/ /\ status = "URL" /\ Verified /\ Unparsed(buf, At) <= BlockSize
          /\ FirstHeader
       \/ /\ status = "URL" /\ ~(Verified /\ Unparsed(buf, At) <= BlockSize)
          /\ Refuse
       \/ /\ status = "HDR_VALUE"
          /\ buf' = Terminated(buf, last.at + last.length, cursor)
          /\ hdrs' = hdrs + 1
          /\ Note("HDR_FIELD", At, Run)
       \/ /\ status = "HDR_FIELD"
          /\ Note("HDR_FIELD", last.at, last.length + Run)
          /\ UNCHANGED <<buf, hdrs>>

CbHeaderValue ==
    /\ Token("v")
    /\ \/ status = "HDR_FIELD" /\ Note("HDR_VALUE", At, Run)
       \/ status = "HDR_VALUE" /\ Note("HDR_VALUE", last.at, last.length + Run)
    /\ UNCHANGED <<buf, hdrs>>

(* What a handler finds when it looks for a header: as many strings at the *)
(* start of the scratch buffer as there are headers.                       *)
Strings(b, count) ==
    {b[i] : i \in {j \in DOMAIN b :
        b[j] # 0 /\ Cardinality({h \in 2..j : b[h] # 0 /\ b[h - 1] = 0}) < count}}

(* httpd_uri calls the handler; where there is none HandlerFails follows.  *)
CallHandler ==
    /\ pc' = "handler" /\ status' = "COMPLETE" /\ last' = [at |-> 0, length |-> 0]
    /\ served' = served + 1 /\ chunk' = chunk
    /\ told' = [uri |-> uri', headers |-> Strings(buf', hdrs'), length |-> remaining']
    /\ UNCHANGED <<streamVars, taken, offset, paused, preParsed, refused>>

(* cb_headers_complete: the line ends behind the last header are those of  *)
(* the header and of the empty line.  Without a header, last stays where   *)
(* cb_url left it.                                                         *)
ValueEnd == last.at + last.length
LineEnds == {i \in ValueEnd..Len(buf) : Kind(i) = "n"}
TwoLineEnds ==
    CHOOSE i \in LineEnds : Cardinality({j \in LineEnds : j <= i}) = 2

Body == requests[text[buf[At]].req].body

(* Then cb_no_body, for a request without a body; else on to the body.     *)
EndOfHeaders(mark) ==
    /\ remaining' = Body
    /\ grammar' = Becomes /\ Parsed(At)
    /\ \/ Body = 0 /\ PushBack(buf', mark) /\ CallHandler
       \/ /\ Body > 0 /\ status' = "BODY" /\ last' = [last EXCEPT !.at = mark]
          /\ UNCHANGED <<streamVars, taken, pending, pc, offset, paused, preParsed,
                         refused, heardVars>>

HeadersAccepted ==
    /\ requests[text[buf[At]].req].verdict # "headers"
    /\ status = "URL" => Verified
    /\ status = "HDR_VALUE" => Cardinality(LineEnds) >= 2
    /\ (status = "URL" /\ Body = 0) => Unparsed(buf, last.at) <= BlockSize

CbHeadersComplete ==
    /\ Token("n") /\ grammar = "line"
    /\ \/ ~HeadersAccepted /\ Refuse
       \/ /\ HeadersAccepted
          /\ IF status = "URL"
             THEN /\ uri' = UriNoted /\ UNCHANGED <<buf, hdrs>>
                  /\ EndOfHeaders(last.at)
             ELSE /\ buf' = Erase(buf, ValueEnd, TwoLineEnds) /\ hdrs' = hdrs + 1
                  /\ UNCHANGED uri
                  /\ EndOfHeaders(TwoLineEnds + 1)

CbOnBody ==
    /\ Executing /\ grammar = "body"
    /\ PushBack(buf, At) /\ Parsed(At)
    /\ UNCHANGED <<buf, hdrs, uri, remaining, grammar>>
    /\ CallHandler

(* Nothing is left of the block: parse_block returns the offset.           *)
BlockParsed ==
    /\ pc = "execute" /\ cursor = Len(buf)
    /\ pc' = "read" /\ offset' = Len(buf)
    /\ UNCHANGED <<streamVars, taken, pending, buf, cursor, parserVars, requestVars,
                   refused, heardVars>>

-----------------------------------------------------------------------------
(* httpd_recv_with_opt: pending data, and what else the socket has.        *)
Recv(length) ==
    LET old == Least(length, Len(pending)) IN
    \E new \in 0..Least(length - old, Len(text) - taken) :
        /\ old + new > 0
        /\ pending' = From(pending, old + 1) /\ taken' = taken + new
        /\ remaining' = remaining - (old + new)
        /\ chunk' = Upto(pending, old) \o Arrived(new)

(* httpd_req_recv, called by a handler or by httpd_req_delete.             *)
ReadBody(length) ==
    /\ Recv(length)
    /\ UNCHANGED <<streamVars, pc, buf, offset, cursor, parserVars, hdrs, uri, refused,
                   served, told>>

HandlerReads == pc = "handler" /\ \E length \in 1..remaining : ReadBody(length)

HandlerReturns ==
    /\ pc = "handler" /\ pc' = "purge"
    /\ UNCHANGED <<streamVars, taken, pending, buf, offset, cursor, parserVars,
                   requestVars, refused, heardVars>>

(* httpd_req_delete.  Fault: the rest of the body stays.                   *)
PurgedAlways == TRUE
Purged       == remaining = 0

Purge ==
    /\ pc = "purge"
    /\ \/ ~Purged /\ ReadBody(Least(PurgeBuf, remaining))
       \/ /\ Purged /\ pc' = "idle"
          /\ UNCHANGED <<streamVars, taken, pending, buf, offset, cursor, parserVars,
                         requestVars, refused, heardVars>>

(* The handler fails, or recv does.                                        *)
HandlerFails == pc \in {"handler", "purge"} /\ Disconnect

Next ==
    \/ HttpdReqNew \/ ReadBlock
    \/ Punctuation \/ BadRequest
    \/ CbUrl \/ CbHeaderField \/ CbHeaderValue \/ CbHeadersComplete \/ CbOnBody
    \/ BlockParsed
    \/ HandlerReads \/ HandlerReturns \/ Purge \/ HandlerFails

Spec == Init /\ [][Next]_vars

-----------------------------------------------------------------------------
(* However blocks are cut, pushed back and skipped, http_parser gets every *)
(* byte of a request once: its first one when it starts, and then always   *)
(* the one behind the last it has parsed (parse_block, pause_parsing,      *)
(* continue_parsing).                                                      *)
ParserInStep ==
    Executing => IF parsed = 0
                 THEN text[buf[At]] = [req |-> served + 1, kind |-> "m"]
                 ELSE buf[At] = parsed + 1

(* What the server can take: the first line has to fit the scratch buffer  *)
(* with a byte of the headers, and so have the headers, with a byte of the *)
(* body if there is one.                                                   *)
Supported(r) ==
    /\ r.verdict = "good" /\ r.url \in 1..MaxUri
    /\ Len(LineKinds(r)) < Scratch
    /\ Len(HeadersKinds(r)) + (IF r.body > 0 THEN 1 ELSE 0) <= Scratch

(* An error is answered only to a request the server cannot take: no       *)
(* request fails because of where the network cut it, or because of the    *)
(* request before it.                                                      *)
RefusedWithReason ==
    refused => served < Len(requests) /\ ~Supported(requests[served + 1])

(* Handlers get the requests of the connection as Framing says.            *)
F == INSTANCE Framing WITH
        left <- IF pc \in {"handler", "purge"} THEN remaining ELSE 0,
        open <- pc # "closed"

ImplementsFraming == F!FSpec
=============================================================================
