-------------------------------- MODULE Urls --------------------------------
(***************************************************************************)
(* webcc/url.cc: percent coding, the query of key value pairs and the      *)
(* parts of a URL, as operators.  A text is a sequence of character codes. *)
(***************************************************************************)
EXTENDS Integers, Sequences

S == INSTANCE FiniteSetsExt

Space == 32
Percent == 37
Ampersand == 38
Plus == 43
Slash == 47
Colon == 58
Equals == 61
Question == 63

Invalid == <<-1>>

\* std::string::find and substr, erase of a vector; Find is 0 for npos.
Find(s, t) ==
    LET hits == {i \in 1..(Len(s) - Len(t) + 1) : SubSeq(s, i, i + Len(t) - 1) = t}
    IN  IF hits = {} THEN 0 ELSE S!Min(hits)
Before(s, i) == SubSeq(s, 1, i - 1)
From(s, i) == SubSeq(s, i, Len(s))
Erase(s, i) == Before(s, i) \o From(s, i + 1)

\* HexToDecimal, with -1 for its false.
HexToDecimal(c) ==
    CASE c \in 48..57 -> c - 48 [] c \in 65..70 -> c - 55 [] c \in 97..102 -> c - 87 [] OTHER -> -1
Hex(n) == IF n < 10 THEN n + 48 ELSE n + 55

\* Decode: at[i] is what the text from i on decodes to; Invalid for its false.
Decode(s) ==
    LET Put(c, t) == IF t = Invalid THEN t ELSE <<c>> \o t
        at[i \in 1..(Len(s) + 1)] ==
            IF i > Len(s) THEN <<>>
            ELSE IF s[i] = Percent
            THEN IF i + 2 > Len(s) THEN Invalid
                 ELSE IF -1 \in {HexToDecimal(s[i + 1]), HexToDecimal(s[i + 2])} THEN Invalid
                 ELSE Put(16 * HexToDecimal(s[i + 1]) + HexToDecimal(s[i + 2]), at[i + 3])
            ELSE IF s[i] > 127 THEN Invalid
            ELSE Put(s[i], at[i + 1])
    IN  at[1]

IsAlphaNumeric(c) == c \in (48..57) \cup (65..90) \cup (97..122)
IsUnreserved(c) == IsAlphaNumeric(c) \/ c \in {45, 46, 95, 126}
SubDelimiter(c) == c \in {33, 36, Ampersand, 39, 40, 41, 42, Plus, 44, 59, Equals}
IsPathChar(c) == IsUnreserved(c) \/ SubDelimiter(c) \/ c \in {Percent, Slash, Colon, 64}
IsQueryChar(c) == IsPathChar(c) \/ c = Question

\* EncodeImpl, with the characters for which should_encode holds.
EncodeImpl(raw, should_encode) ==
    LET after[n \in 0..Len(raw)] ==
            IF n = 0 THEN <<>>
            ELSE after[n - 1] \o IF raw[n] \in should_encode
                                 THEN <<Percent, Hex(raw[n] \div 16), Hex(raw[n] % 16)>>
                                 ELSE <<raw[n]>>
    IN  after[Len(raw)]

NoQueryChars == {c \in 0..255 : ~IsQueryChar(c)}

EncodeQuery_KeepsPercent(query) == EncodeImpl(query, NoQueryChars)

EncodeQuery(query) == EncodeImpl(query, NoQueryChars \cup {Percent, Plus})

-----------------------------------------------------------------------------
\* The parameters_ of a UrlQuery: a sequence of key value pairs.
Has(q, key) == \E i \in 1..Len(q) : q[i][1] = key

\* UrlQuery::Find, 0 for end().
FindKey(q, key) == IF Has(q, key) THEN S!Min({i \in 1..Len(q) : q[i][1] = key}) ELSE 0

Add(q, key, value) == IF Has(q, key) THEN q ELSE Append(q, <<key, value>>)

Remove(q, key) == IF Has(q, key) THEN Erase(q, FindKey(q, key)) ELSE q

Get(q, key) == IF Has(q, key) THEN q[FindKey(q, key)][2] ELSE <<>>

\* The separator before a parameter, of UrlQuery::ToString and of Url::AddQuery.
Joined(str, kv) == IF str = <<>> THEN kv ELSE str \o <<Ampersand>> \o kv
KeyValue(key, value) == key \o <<Equals>> \o value

ToString(q) ==
    LET after[n \in 0..Len(q)] ==
            IF n = 0 THEN <<>> ELSE Joined(after[n - 1], KeyValue(q[n][1], q[n][2]))
    IN  EncodeQuery(after[Len(q)])

\* The pieces of a text between the occurrences of a character.
Pieces(s, c) ==
    LET piece[i \in 1..(Len(s) + 1)] ==
            LET j == Find(From(s, i), <<c>>) IN
            IF j = 0 THEN <<From(s, i)>> ELSE <<Before(From(s, i), j)>> \o piece[i + j]
    IN  piece[1]

\* UrlQuery::UrlQuery with SplitKeyValue: a pair without '=' or key is left out.
AddPair(q, kv) ==
    LET i == Find(kv, <<Equals>>) IN
    IF i \in {0, 1} THEN q ELSE Add(q, Before(kv, i), From(kv, i + 1))

UrlQuery(str) ==
    LET kvs == Pieces(str, Ampersand)
        after[n \in 0..Len(kvs)] == IF n = 0 THEN <<>> ELSE AddPair(after[n - 1], kvs[n])
    IN  IF str = <<>> THEN <<>> ELSE after[Len(kvs)]

-----------------------------------------------------------------------------
\* Url::Parse, from an empty Url.
TrimLeft(s) == IF \A i \in 1..Len(s) : s[i] = Space THEN <<>>
               ELSE From(s, S!Min({i \in 1..Len(s) : s[i] # Space}))

Parse(str) ==
    LET all == TrimLeft(str)
        p == Find(all, <<Colon, Slash, Slash>>)
        tmp == IF p = 0 THEN all ELSE From(all, p + 3)
        s == Find(tmp, <<Slash>>)
        rest == IF s = 0 THEN tmp ELSE From(tmp, s + 1)
        q == Find(rest, <<Question>>)
        part == IF q = 0 THEN rest ELSE Before(rest, q)
        authority == IF s = 0 THEN part ELSE Before(tmp, s)
        c == Find(authority, <<Colon>>)
    IN  [scheme |-> IF p = 0 THEN <<>> ELSE Before(all, p),
         host |-> IF c = 0 THEN authority ELSE Before(authority, c),
         port |-> IF c = 0 THEN <<>> ELSE From(authority, c + 1),
         path |-> IF s = 0 THEN <<>> ELSE part,
         query |-> IF q = 0 THEN <<>> ELSE From(rest, q + 1)]

\* Url::Init with its default arguments: the whole text is decoded, then taken apart.
UrlInit(str) == Parse(IF Decode(str) = Invalid THEN str ELSE Decode(str))

AddQuery_NoSeparator(url, key, value) == [url EXCEPT !.query = @ \o key \o <<Equals>> \o value]

AddQuery(url, key, value) == [url EXCEPT !.query = Joined(@, KeyValue(key, value))]
=============================================================================
