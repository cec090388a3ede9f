--------------------------- MODULE MCHttpRequest ---------------------------
(* Connections with two requests each.  With a scratch buffer of 10 bytes, *)
(* LongLine and Fits just fit: the first line and a byte of the headers,   *)
(* the headers and a byte of the body; LongerLine and Overflows need one   *)
(* byte more.                                                              *)
EXTENDS HttpRequest

Header(f, v) == [field |-> f, value |-> v]
Request(url, headers, body, verdict) ==
    [url |-> url, headers |-> headers, body |-> body, verdict |-> verdict]

One  == <<Header(1, 1)>>
Two  == <<Header(1, 1), Header(1, 1)>>

Get        == Request(1, One, 0, "good")
Fits       == Request(2, Two, 2, "good")
Upload     == Request(1, <<Header(2, 3)>>, 3, "good")
LongLine   == Request(7, One, 0, "good")
Overflows  == Request(1, <<Header(1, 2), Header(1, 1)>>, 1, "good")
LongerLine == Request(8, One, 0, "good")
TooLong    == Request(10, One, 0, "good")
Malformed  == Request(0, One, 0, "good")
BadLine    == Request(1, One, 0, "line")
BadHeaders == Request(1, One, 1, "headers")

Answered == {Get, Fits, Upload, LongLine}
Rejected == {LongerLine, Overflows, TooLong, Malformed, BadLine, BadHeaders}

MCStreams == {<<a, b>> : a \in Answered, b \in Answered \cup Rejected}
=============================================================================
