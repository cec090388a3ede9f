------------------------------ MODULE JsonText ------------------------------
(***************************************************************************)
(* How cJSON prints documents into buffers and parses them again           *)
(* (src/user_components/cJSON/cJSON/cJSON.c).  The firmware prints into a  *)
(* buffer of its own (json_maker.c), which cannot grow.                    *)
(***************************************************************************)
EXTENDS JsonValues

CONSTANTS
  NestingLimit,       \* CJSON_NESTING_LIMIT
  TextDocuments       \* bound: the documents that are printed and parsed

Quote == 34
Slash == 47
Backslash == 92
NullText == <<110, 117, 108, 108>>
TrueText == <<116, 114, 117, 101>>
FalseText == <<102, 97, 108, 115, 101>>
\* The control characters with an escape of their own, and its letter.
ShortEscapes == {<<8, 98>>, <<12, 102>>, <<10, 110>>, <<13, 114>>, <<9, 116>>}
EscapeOf(c) == CHOOSE l \in {e[2] : e \in ShortEscapes} : <<c, l>> \in ShortEscapes
HasEscape(c) == \E e \in ShortEscapes : e[1] = c

-----------------------------------------------------------------------------
(* Printing.  A buffer p has what is written, its length, whether it may   *)
(* grow, whether the print is formatted and how deep it is; past tells     *)
(* whether anything was ever written behind its end.                       *)

Buffer(length, noalloc, format) ==
  [out |-> <<>>, length |-> length, noalloc |-> noalloc, format |-> format,
   depth |-> 0, ok |-> TRUE, past |-> FALSE]

\* ensure, and the bytes written into the room it has made, with a NUL behind
\* them or without.
Emit(p, needed, bytes, nul) ==
  LET total == Len(p.out) + needed + 1
      grown == IF total <= p.length THEN p.length ELSE 2 * total
  IN IF \/ ~p.ok
        \/ p.length > 0 /\ Len(p.out) >= p.length
        \/ total > p.length /\ p.noalloc
       THEN [p EXCEPT !.ok = FALSE]
     ELSE [p EXCEPT !.out = @ \o bytes, !.length = grown,
                    !.past = @ \/ Len(p.out) + Len(bytes) + (IF nul THEN 1 ELSE 0) > grown]

RECURSIVE Digits(_)
Digits(n) == IF n < 10 THEN <<48 + n>> ELSE Digits(n \div 10) \o <<48 + (n % 10)>>
Decimal(n) == IF n < 0 THEN <<45>> \o Digits(-n) ELSE Digits(n)

\* print_number, for numbers that are whole: %d when the int has the value,
\* otherwise %1.15g.
PrintNumber(p, v) ==
  LET text == IF v.num = ValueInt(v) THEN Decimal(ValueInt(v)) ELSE Decimal(v.num)
  IN Emit(p, Len(text) + 1, text, TRUE)

Hex(n) == IF n < 10 THEN 48 + n ELSE 87 + n
\* What print_string_ptr makes of a character, and the room it counts for it.
Escaped(c) ==
  IF c \in {Quote, Backslash} THEN <<Backslash, c>>
  ELSE IF HasEscape(c) THEN <<Backslash, EscapeOf(c)>>
  ELSE IF c < 32 THEN <<Backslash, 117, 48, 48, Hex(c \div 16), Hex(c % 16)>>
  ELSE <<c>>
ShortEscapesOnly(c) == IF c \in {Quote, Backslash} \/ c < 32 THEN 1 ELSE 0
EscapeCharacters(c) ==
  IF c \in {Quote, Backslash} \/ HasEscape(c) THEN 1 ELSE IF c < 32 THEN 5 ELSE 0

PrintString(p, s) ==
  LET needed == Len(s) + FoldSeq(LAMBDA c, n : EscapeCharacters(c) + n, 0, s)
  IN Emit(p, needed + 3, <<Quote>> \o FlattenSeq([k \in DOMAIN s |-> Escaped(s[k])]) \o <<Quote>>, TRUE)

Deeper(p) == [p EXCEPT !.depth = @ + 1]
Shallower(p) == [p EXCEPT !.depth = @ - 1]
Tabs(n) == [k \in 1 .. n |-> 9]

RECURSIVE PrintValue(_, _), PrintElements(_, _, _), PrintMembers(_, _, _)
\* print_value, print_array, print_object
PrintValue(p, v) ==
  CASE v.type = "null" -> Emit(p, 5, NullText, TRUE)
    [] v.type = "false" -> Emit(p, 6, FalseText, TRUE)
    [] v.type = "true" -> Emit(p, 5, TrueText, TRUE)
    [] v.type = "number" -> PrintNumber(p, v)
    [] v.type = "string" -> PrintString(p, v.text)
    [] v.type = "array" ->
         Shallower(Emit(PrintElements(Deeper(Emit(p, 1, <<91>>, FALSE)), v.kids, 1), 2, <<93>>, TRUE))
    [] v.type = "object" ->
         LET opened == IF p.format THEN Emit(p, 3, <<123, 10>>, FALSE) ELSE Emit(p, 2, <<123>>, FALSE)
             q == PrintMembers(Deeper(opened), v.kids, 1)
         IN Shallower(IF p.format THEN Emit(q, q.depth + 1, Tabs(q.depth - 1) \o <<125>>, TRUE)
                      ELSE Emit(q, 2, <<125>>, TRUE))

\* The loop of print_array.
PrintElements(p, kids, k) ==
  LET q == PrintValue(p, kids[k])
      comma == IF p.format THEN <<44, 32>> ELSE <<44>>
  IN IF k > Len(kids) THEN p
     ELSE IF k = Len(kids) THEN q
     ELSE PrintElements(Emit(q, Len(comma) + 1, comma, TRUE), kids, k + 1)

\* The loop of print_object.
PrintMembers(p, kids, k) ==
  LET tabbed == IF p.format THEN Emit(p, p.depth, Tabs(p.depth), FALSE) ELSE p
      colon == IF p.format THEN <<58, 9>> ELSE <<58>>
      named == Emit(PrintString(tabbed, kids[k].name), Len(colon), colon, FALSE)
      ends == (IF k < Len(kids) THEN <<44>> ELSE <<>>) \o (IF p.format THEN <<10>> ELSE <<>>)
  IN IF k > Len(kids) THEN p
     ELSE PrintMembers(Emit(PrintValue(named, kids[k]), Len(ends) + 1, ends, TRUE), kids, k + 1)

\* cJSON_Print, cJSON_PrintUnformatted, cJSON_PrintBuffered
PrintBuffered(v, prebuffer, format) == PrintValue(Buffer(prebuffer, FALSE, format), v)
PrintText(v, format) == PrintBuffered(v, 256, format)
PrintPreallocated(v, length, format) == PrintValue(Buffer(length, TRUE, format), v)

-----------------------------------------------------------------------------
(* Parsing of a text t that ends with a NUL.  A parser at position at      *)
(* returns whether it succeeds, the position it leaves and the item.       *)

Failed == [ok |-> FALSE, at |-> 0, item |-> NoItem]
Parsed(at, item) == [ok |-> TRUE, at |-> at, item |-> item]

Here(t, at, s) == at + Len(s) - 1 <= Len(t) /\ SubSeq(t, at, at + Len(s) - 1) = s

\* buffer_skip_whitespace: the NUL counts as whitespace, and the end steps back.
RECURSIVE SkipWhitespace(_, _)
SkipWhitespace(t, at) ==
  IF at > Len(t) THEN at
  ELSE IF t[at] > 32 THEN at
  ELSE IF at = Len(t) THEN at
  ELSE SkipWhitespace(t, at + 1)

\* parse_number: as much as strtod takes of the digits; - stands only in front.
NumberAt(t, at) ==
  LET sign == IF t[at] = 45 THEN 1 ELSE 0
      ends == {k \in at + sign .. Len(t) : t[k] \notin 48 .. 57}
      end == CHOOSE k \in ends : \A j \in ends : k <= j
      value == FoldLeft(LAMBDA n, c : 10 * n + c - 48, 0, SubSeq(t, at + sign, end - 1))
  IN IF end = at + sign THEN Failed
     ELSE Parsed(end, NumberItem(IF sign = 1 THEN -value ELSE value))

HexDigit(c) ==
  CASE c \in 48 .. 57 -> c - 48
    [] c \in 65 .. 70 -> c - 55
    [] c \in 97 .. 102 -> c - 87
    [] OTHER -> -1
\* parse_hex4: a digit that is none makes the whole number 0.
ParseHex4(d) ==
  IF \E k \in 1 .. 4 : HexDigit(d[k]) < 0 THEN 0
  ELSE FoldLeft(LAMBDA h, c : 16 * h + HexDigit(c), 0, SubSeq(d, 1, 4))

\* The UTF-8 bytes utf16_literal_to_utf8 writes.
Utf8(code) ==
  LET Tail6(n) == 128 + (n % 64)
  IN IF code < 128 THEN <<code>>
     ELSE IF code < 2048 THEN <<192 + (code \div 64), Tail6(code)>>
     ELSE IF code < 65536 THEN <<224 + (code \div 4096), Tail6(code \div 64), Tail6(code)>>
     ELSE <<240 + (code \div 262144), Tail6(code \div 4096), Tail6(code \div 64), Tail6(code)>>

\* utf16_literal_to_utf8 of the literal at the head of s: the bytes and how
\* much of s they stand for, which is 0 when it is refused.
Refused == [bytes |-> <<>>, length |-> 0]
Utf16Literal(s) ==
  LET first == ParseHex4(SubSeq(s, 3, 6))
      second == ParseHex4(SubSeq(s, 9, 12))
  IN IF Len(s) < 6 THEN Refused
     ELSE IF first \in 56320 .. 57343 THEN Refused
     ELSE IF first \notin 55296 .. 56319 THEN [bytes |-> Utf8(first), length |-> 6]
     ELSE IF Len(s) < 12 THEN Refused
     ELSE IF SubSeq(s, 7, 8) # <<Backslash, 117>> \/ second \notin 56320 .. 57343 THEN Refused
     ELSE [bytes |-> Utf8(65536 + 1024 * (first - 55296) + (second - 56320)), length |-> 12]

\* One character or escape of a string literal.
Unescape(s) ==
  LET e == s[2]
      One(c) == [bytes |-> <<c>>, length |-> 2]
  IN IF s[1] # Backslash THEN [bytes |-> <<s[1]>>, length |-> 1]
     ELSE IF Len(s) < 2 THEN Refused
     ELSE IF e \in {Quote, Backslash, Slash} THEN One(e)
     ELSE IF \E x \in ShortEscapes : x[2] = e THEN One((CHOOSE x \in ShortEscapes : x[2] = e)[1])
     ELSE IF e = 117 THEN Utf16Literal(s)
     ELSE Refused

RECURSIVE StringEnd(_, _), UnescapeAll(_, _)
\* The closing quote, or a position behind the text.
StringEnd(t, at) ==
  IF at > Len(t) THEN at
  ELSE IF t[at] = Quote THEN at
  ELSE IF t[at] = Backslash THEN StringEnd(t, at + 2)
  ELSE StringEnd(t, at + 1)

UnescapeAll(s, out) ==
  LET u == Unescape(s)
  IN IF s = <<>> THEN [ok |-> TRUE, out |-> out]
     ELSE IF u.length = 0 THEN [ok |-> FALSE, out |-> out]
     ELSE UnescapeAll(SubSeq(s, u.length + 1, Len(s)), out \o u.bytes)

\* What a reader of a C string sees of it.
CString(s) ==
  LET nuls == {k \in DOMAIN s : s[k] = 0}
  IN IF nuls = {} THEN s ELSE SubSeq(s, 1, (CHOOSE k \in nuls : \A j \in nuls : k <= j) - 1)

\* parse_string
StringAt(t, at) ==
  LET end == StringEnd(t, at + 1)
      u == UnescapeAll(SubSeq(t, at + 1, end - 1), <<>>)
  IN IF t[at] # Quote \/ end > Len(t) THEN Failed
     ELSE IF ~u.ok THEN Failed
     ELSE Parsed(end + 1, StringItem(CString(u.out)))

RECURSIVE ParseValue(_, _, _), ParseElements(_, _, _, _), ParseMembers(_, _, _, _)
\* parse_value and the heads of parse_array and parse_object
ParseValue(t, at, depth) ==
  LET inside == SkipWhitespace(t, at + 1)
  IN CASE Here(t, at, NullText) -> Parsed(at + 4, Literal("null"))
       [] Here(t, at, FalseText) -> Parsed(at + 5, Literal("false"))
       [] Here(t, at, TrueText) -> Parsed(at + 4, Literal("true"))
       [] t[at] = Quote -> StringAt(t, at)
       [] t[at] = 45 \/ t[at] \in 48 .. 57 -> NumberAt(t, at)
       [] t[at] \in {91, 123} ->
            IF depth >= NestingLimit THEN Failed
            ELSE IF t[at] = 91
              THEN IF t[inside] = 93 THEN Parsed(inside + 1, ArrayItem(<<>>))
                   ELSE ParseElements(t, inside, depth + 1, <<>>)
            ELSE IF t[inside] = 125 THEN Parsed(inside + 1, ObjectItem(<<>>))
            ELSE ParseMembers(t, inside, depth + 1, <<>>)
       [] OTHER -> Failed

\* The loop of parse_array.
ParseElements(t, at, depth, kids) ==
  LET v == ParseValue(t, at, depth)
      next == SkipWhitespace(t, v.at)
  IN IF ~v.ok THEN Failed
     ELSE IF t[next] = 44 THEN ParseElements(t, SkipWhitespace(t, next + 1), depth, Append(kids, v.item))
     ELSE IF t[next] = 93 THEN Parsed(next + 1, ArrayItem(Append(kids, v.item)))
     ELSE Failed

\* The loop of parse_object.
ParseMembers(t, at, depth, kids) ==
  LET n == StringAt(t, at)
      colon == SkipWhitespace(t, n.at)
      v == ParseValue(t, SkipWhitespace(t, colon + 1), depth)
      next == SkipWhitespace(t, v.at)
      members == Append(kids, Named(n.item.text, v.item))
  IN IF ~n.ok THEN Failed
     ELSE IF t[colon] # 58 THEN Failed
     ELSE IF ~v.ok THEN Failed
     ELSE IF t[next] = 44 THEN ParseMembers(t, SkipWhitespace(t, next + 1), depth, members)
     ELSE IF t[next] = 125 THEN Parsed(next + 1, ObjectItem(members))
     ELSE Failed

\* skip_utf8_bom
SkipBom(t) == IF Len(t) > 4 /\ SubSeq(t, 1, 3) = <<239, 187, 191>> THEN 4 ELSE 1

\* cJSON_ParseWithOpts of a C string, with its end required behind the value.
Parse(text) ==
  LET t == text \o <<0>>
      v == ParseValue(t, SkipWhitespace(t, SkipBom(t)), 0)
  IN IF ~v.ok THEN Failed
     ELSE IF t[SkipWhitespace(t, v.at)] # 0 THEN Failed
     ELSE v

-----------------------------------------------------------------------------
(* cJSON_Minify *)

CharAt(s, k) == IF k > Len(s) THEN 0 ELSE s[k]

RECURSIVE StringKept(_, _), LineSkipped(_, _), CommentSkipped(_, _), MinifyFrom(_, _, _)
\* minify_string: the position behind the closing quote.
StringKept(s, k) ==
  CASE CharAt(s, k) = 0 -> k
    [] CharAt(s, k) = Quote -> k + 1
    [] CharAt(s, k) = Backslash /\ CharAt(s, k + 1) = Quote -> StringKept(s, k + 2)
    [] OTHER -> StringKept(s, k + 1)
\* skip_oneline_comment, skip_multiline_comment
LineSkipped(s, k) ==
  IF CharAt(s, k) = 0 THEN k ELSE IF s[k] = 10 THEN k + 1 ELSE LineSkipped(s, k + 1)
CommentSkipped(s, k) ==
  IF CharAt(s, k) = 0 THEN k
  ELSE IF s[k] = 42 /\ CharAt(s, k + 1) = Slash THEN k + 2
  ELSE CommentSkipped(s, k + 1)

MinifyFrom(s, k, out) ==
  LET c == CharAt(s, k)
      end == StringKept(s, k + 1)
  IN CASE c = 0 -> out
       [] c \in {32, 9, 13, 10} -> MinifyFrom(s, k + 1, out)
       [] c = Slash -> MinifyFrom(s, CASE CharAt(s, k + 1) = Slash -> LineSkipped(s, k + 2)
                                       [] CharAt(s, k + 1) = 42 -> CommentSkipped(s, k + 2)
                                       [] OTHER -> k + 1, out)
       [] c = Quote -> MinifyFrom(s, end, out \o SubSeq(s, k, end - 1))
       [] OTHER -> MinifyFrom(s, k + 1, Append(out, c))
Minify(s) == MinifyFrom(s, 1, <<>>)

-----------------------------------------------------------------------------
(* What users of the library rely on, for the documents of TextDocuments.  *)

\* What is printed, formatted or not, is parsed to the document it was.
PrintedParses ==
  \A v \in TextDocuments, format \in BOOLEAN :
    LET parsed == Parse(PrintText(v, format).out) IN parsed.ok /\ parsed.item = v

\* A part of the text of a document with brackets is not taken for a document.
PartsRefused ==
  \A v \in {d \in TextDocuments : d.type \in {"array", "object", "string"}}, format \in BOOLEAN :
    LET out == PrintText(v, format).out
    IN \A n \in 0 .. Len(out) - 1 : ~Parse(SubSeq(out, 1, n)).ok

\* cJSON.h:163: a buffer 5 bytes longer than needed suffices.  A shorter one is
\* either enough or refused, and never written past.
BuffersSuffice ==
  \A v \in TextDocuments, format \in BOOLEAN :
    LET text == PrintText(v, format).out
    IN \A length \in 0 .. Len(text) + 6 :
         LET fixed == PrintPreallocated(v, length, format)
             grown == PrintBuffered(v, length, format)
         IN /\ ~grown.past /\ grown.ok /\ grown.out = text
            /\ fixed.ok => ~fixed.past /\ fixed.out = text /\ Len(text) < length
            /\ length >= Len(text) + 1 + 5 => fixed.ok

\* Minify takes away what formatting has put in.  It does not of a string that
\* ends with a backslash, whose closing quote it takes for an escaped one
\* (cJSON.c:2828).
RECURSIVE EndsWithBackslash(_)
EndsWithBackslash(v) ==
  \/ \E s \in {v.name, v.text} : s # <<>> /\ Last(s) = Backslash
  \/ \E k \in DOMAIN v.kids : EndsWithBackslash(v.kids[k])
MinifyUnformats ==
  \A v \in TextDocuments :
    ~EndsWithBackslash(v) => Minify(PrintText(v, TRUE).out) = PrintText(v, FALSE).out

\* A \u escape stands for the bytes whose code points UTF-8 decodes it to; a
\* half of a surrogate pair for none.
HexDigits(n) == [k \in 1 .. 4 |-> Hex((n \div (16 ^ (4 - k))) % 16)]
UEscape(n) == <<Backslash, 117>> \o HexDigits(n)
DecodedUtf8(b) ==
  LET Low(k) == b[k] - 128
  IN CASE Len(b) = 1 -> b[1]
       [] Len(b) = 2 -> (b[1] - 192) * 64 + Low(2)
       [] Len(b) = 3 -> (b[1] - 224) * 4096 + Low(2) * 64 + Low(3)
       [] Len(b) = 4 -> (b[1] - 240) * 262144 + Low(2) * 4096 + Low(3) * 64 + Low(4)
Boundaries == {1, 31, 127, 128, 2047, 2048, 55295, 57344, 65535}
Pairs == {<<55296, 56320>>, <<55296, 57343>>, <<56319, 56320>>, <<56319, 57343>>}
ParsedString(escapes) == Parse(<<Quote>> \o escapes \o <<Quote>>)
EscapesDecoded ==
  /\ \A n \in Boundaries :
       LET p == ParsedString(UEscape(n))
       IN p.ok /\ DecodedUtf8(p.item.text) = n /\ \A k \in DOMAIN p.item.text : p.item.text[k] < 256
  /\ \A pair \in Pairs :
       LET p == ParsedString(UEscape(pair[1]) \o UEscape(pair[2]))
       IN p.ok /\ DecodedUtf8(p.item.text) = 65536 + (pair[1] - 55296) * 1024 + (pair[2] - 56320)
  /\ \A pair \in Pairs : /\ ~ParsedString(UEscape(pair[1])).ok
                          /\ ~ParsedString(UEscape(pair[2])).ok
                          /\ ~ParsedString(UEscape(pair[2]) \o UEscape(pair[1])).ok
                          /\ ~ParsedString(UEscape(pair[1]) \o UEscape(65)).ok

\* Lists in lists are parsed as deep as the limit and no deeper.
NestingBounded ==
  \A n \in 1 .. NestingLimit + 1 :
    Parse([k \in 1 .. 2 * n |-> IF k <= n THEN 91 ELSE 93]).ok <=> n <= NestingLimit

PrintingAndParsing ==
  /\ PrintedParses /\ PartsRefused /\ BuffersSuffice
  /\ MinifyUnformats /\ EscapesDecoded /\ NestingBounded
=============================================================================
