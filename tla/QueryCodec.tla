----------------------------- MODULE QueryCodec -----------------------------
(***************************************************************************)
(* A query on its way from the editor to the server: encodeQuery and       *)
(* base64.js on the page, cleanQuery, desanitize64 and HandleQuery in      *)
(* pkg/api.  A string is the sequence of its code units, or of its bytes.  *)
(*                                                                         *)
(* Left out: white space outside ASCII, which JavaScript and Go trim too,  *)
(* and base64.js's decoder, which nothing calls.                           *)
(***************************************************************************)
EXTENDS Integers, SequencesExt

Newline == 10
Dash    == 45

\* The code units of a query: of 16 bits, no surrogates, and the editor has no "\r".
Chars == {c \in Nat : c < 16 * 4096 /\ c \notin 55296 .. 57343 /\ c # 13}

IsSpace(c) == c \in {9, 10, 11, 12, 13, 32}

\* strings.TrimSpace, $.trim
Trim(s) ==
    LET kept == {k \in DOMAIN s : ~IsSpace(s[k])}
    IN IF kept = {} THEN <<>> ELSE SubSeq(s, Min(kept), Max(kept))

Join(lines) ==
    IF lines = <<>> THEN <<>>
    ELSE Tail(FlattenSeq([k \in DOMAIN lines |-> <<Newline>> \o lines[k]]))

\* SelectSeq with a set for its test.
Without(s, unwanted) ==
    LET kept[k \in 0 .. Len(s)] ==
            IF k = 0 THEN <<>>
            ELSE IF s[k] \in unwanted THEN kept[k - 1] ELSE Append(kept[k - 1], s[k])
    IN kept[Len(s)]

Split(s) ==
    LET ends == Without([k \in 1 .. Len(s) + 1 |-> k], {k \in DOMAIN s : s[k] # Newline})
    IN [n \in DOMAIN ends |->
            SubSeq(s, IF n = 1 THEN 1 ELSE ends[n - 1] + 1, ends[n] - 1)]

\* The parts of n elements that s is cut into; the last may have fewer.
Parts(s, n) ==
    [k \in 1 .. (Len(s) + n - 1) \div n |->
        SubSeq(s, n * (k - 1) + 1, IF n * k < Len(s) THEN n * k ELSE Len(s))]

-----------------------------------------------------------------------------
\* Mutant of Utf8Unit: code units above 2047 are cut to two bytes' worth.
Utf8TwoBytes(c) ==
    IF c < 128 THEN <<c>> ELSE <<((c \div 64) % 32) + 192, (c % 64) + 128>>

\* The bytes of one code unit; what sets the high bits in the code adds here.
Utf8Unit(c) ==
    IF c < 128 THEN <<c>>
    ELSE IF c < 2048 THEN <<(c \div 64) + 192, (c % 64) + 128>>
    ELSE <<(c \div 4096) + 224, ((c \div 64) % 64) + 128, (c % 64) + 128>>

\* _utf8_encode.  The editor's text has no "\r\n" for it to replace.
Utf8Encode(string) == FlattenSeq([k \in DOMAIN string |-> Utf8Unit(string[k])])

\* _keyStr, 64 being the padding
KeyStr(e) ==
    CASE e < 26 -> e + 65
      [] e \in 26 .. 51 -> e + 71
      [] e \in 52 .. 61 -> e - 4
      [] e = 62 -> 43
      [] e = 63 -> 47
      [] e = 64 -> 61

\* The four numbers of up to three bytes.  A byte that is not there counts as 0
\* in the code's bit operations, and its digit is the padding.
Sextets(chr1, chr2, chr3) ==
    <<chr1 \div 4, ((chr1 % 4) * 16) + (chr2 \div 16), ((chr2 % 16) * 4) + (chr3 \div 64), chr3 % 64>>

EncodeGroup(g) ==
    LET chr == [k \in 1 .. 3 |-> IF k <= Len(g) THEN g[k] ELSE 0]
        enc == Sextets(chr[1], chr[2], chr[3])
    IN [k \in 1 .. 4 |-> KeyStr(IF k <= Len(g) + 1 THEN enc[k] ELSE 64)]

Base64Encode(string) ==
    LET groups == Parts(Utf8Encode(string), 3)
    IN FlattenSeq([k \in DOMAIN groups |-> EncodeGroup(groups[k])])

\* "+", "/" and "=" for a URL
UrlSafe(c) == CASE c = 43 -> 45 [] c = 47 -> 95 [] c = 61 -> 46 [] OTHER -> c

encodeQuery(query) ==
    LET encoded == Base64Encode(query)
    IN [k \in DOMAIN encoded |-> UrlSafe(encoded[k])]

-----------------------------------------------------------------------------
\* The lines without their comments.
cleanQuery(query) ==
    LET trimmed == [k \in DOMAIN Split(query) |-> Trim(Split(query)[k])]
        comments == {line \in Range(trimmed) : IsPrefix(<<Dash, Dash>>, line)}
    IN Trim(Join(Without(trimmed, comments)))

\* Mutant of desanitize64: "_" is not put back.
desanitizePlusOnly(query) ==
    LET Standard(c) == CASE c = 45 -> 43 [] c = 46 -> 61 [] OTHER -> c
    IN [k \in DOMAIN query |-> Standard(query[k])]

desanitize64(query) ==
    LET Standard(c) == CASE c = 45 -> 43 [] c = 95 -> 47 [] c = 46 -> 61 [] OTHER -> c
    IN [k \in DOMAIN query |-> Standard(query[k])]

\* encoding/base64: line ends are skipped, padding closes the last group.
IsBase64(s) ==
    /\ Len(s) % 4 = 0
    /\ \A k \in DOMAIN s :
         \/ \E e \in 0 .. 63 : KeyStr(e) = s[k]
         \/ s[k] = KeyStr(64) /\ k >= Len(s) - 1 /\ Last(s) = KeyStr(64)

OfSextets(e1, e2, e3, e4) ==
    <<(e1 * 4) + (e2 \div 16), ((e2 % 16) * 16) + (e3 \div 4), ((e3 % 4) * 64) + e4>>

DecodeGroup(g) ==
    LET e == [k \in 1 .. 4 |-> CHOOSE e \in 0 .. 64 : KeyStr(e) = g[k]]
        padding == Cardinality({k \in 1 .. 4 : e[k] = 64})
    IN SubSeq(OfSextets(e[1], e[2], e[3] % 64, e[4] % 64), 1, 3 - padding)

DecodeString(s) ==
    LET groups == Parts(s, 4)
    IN FlattenSeq([k \in DOMAIN groups |-> DecodeGroup(groups[k])])

\* HandleQuery up to the client's Query: a query that decodes is decoded.
HandleQuery(query) ==
    LET coded == Without(desanitize64(query), {10, 13})
    IN IF IsBase64(coded) THEN DecodeString(coded) ELSE query

\* "EXPLAIN "
Explain == <<69, 88, 80, 76, 65, 73, 78, 32>>

\* RunQuery (GET for an export, POST otherwise), ExplainQuery and, standing for
\* AnalyzeQuery too: the bytes PostgreSQL is given, none when they refuse.
Executed(op, value) ==
    LET query == cleanQuery(value)
    IN IF query = <<>> THEN <<>>
       ELSE HandleQuery(IF op = "explain" THEN Explain \o query ELSE query)

-----------------------------------------------------------------------------
\* RFC 3629, as PostgreSQL reads the bytes of a query, for sequences of up to
\* three bytes: the code points; a byte that fits nowhere is -1.
IsTail(bytes, k) == k \in DOMAIN bytes /\ bytes[k] \in 128 .. 191

Leads(bytes) ==
    Without([k \in DOMAIN bytes |-> k], {k \in DOMAIN bytes : IsTail(bytes, k)})

CodePoint(bytes, k) ==
    LET follow == {n \in 1 .. 3 : \A i \in 1 .. n : IsTail(bytes, k + i)}
    IN CASE bytes[k] < 128 /\ follow = {} -> bytes[k]
         [] bytes[k] \in 194 .. 223 /\ follow = {1} ->
               (bytes[k] - 192) * 64 + bytes[k + 1] - 128
         [] bytes[k] \in 224 .. 239 /\ follow = {1, 2} ->
               (bytes[k] - 224) * 4096 + (bytes[k + 1] - 128) * 64 + bytes[k + 2] - 128
         [] OTHER -> -1

Utf8Text(bytes) == [n \in DOMAIN Leads(bytes) |-> CodePoint(bytes, Leads(bytes)[n])]
=============================================================================
