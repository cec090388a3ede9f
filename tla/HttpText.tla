------------------------------ MODULE HttpText -------------------------------
(***************************************************************************)
(* What a client sends over one connection: requests, one after another,   *)
(* as a text of bytes.  Of a byte only its part of the request matters:    *)
(*   "m" the method      "u" the URI         "l" the rest of that line     *)
(*   "f" a header field  "c" its colon       "v" its value                 *)
(*   "n" an end of line  "b" the body                                      *)
(* A request is [url, headers, body, verdict]: lengths, a sequence of      *)
(* [field, value] lengths, and whether its first line and its headers are  *)
(* ones the server supports.                                               *)
(***************************************************************************)
EXTENDS Naturals, Sequences, SequencesExt

(* What a client may send, of any lengths.                                 *)
Requests ==
    [url : Nat, headers : Seq([field : Nat, value : Nat]), body : Nat,
     verdict : {"good", "line", "headers"}]

Repeat(kind, n) == [i \in 1..n |-> kind]

LineKinds(r)   == <<"m">> \o Repeat("u", r.url) \o <<"l">>
HeaderKinds(h) == Repeat("f", h.field) \o <<"c">> \o Repeat("v", h.value) \o <<"n">>
HeadersKinds(r) ==
    FlattenSeq([i \in DOMAIN r.headers |-> HeaderKinds(r.headers[i])]) \o <<"n">>
Kinds(r) == LineKinds(r) \o HeadersKinds(r) \o Repeat("b", r.body)

RequestText(rs, n) == [i \in DOMAIN Kinds(rs[n]) |-> [req |-> n, kind |-> Kinds(rs[n])[i]]]
TextOf(rs) == FlattenSeq([n \in DOMAIN rs |-> RequestText(rs, n)])

(* The positions of some parts of the n-th request.                        *)
Where(text, n, kinds) == {p \in DOMAIN text : text[p].req = n /\ text[p].kind \in kinds}
=============================================================================
