------------------------------- MODULE Base64 -------------------------------
(***************************************************************************)
(* The two base64 codecs of the detector: webcc/base64.cc, which encodes   *)
(* the credentials of a request, and base64/base64.cpp, with which the     *)
(* service decodes the image it is posted.  A character is the index the   *)
(* alphabet gives it, Pad for '=' or Other for anything else.  The machine *)
(* grows an arbitrary input of either direction, one unit at a time.       *)
(***************************************************************************)
EXTENDS Integers, Sequences, FiniteSetsExt

CONSTANTS Bytes,       \* the byte values inputs are made of
          Letters,     \* the alphabet indices texts are made of
          Junk,        \* what an unassigned element of a local array may hold
          MaxBytes,    \* bound on the bytes to encode
          MaxChars     \* bound on the text to decode

Pad == 64
Other == 65

VARIABLES data,   \* bytes to encode
          text    \* characters to decode, when there are no bytes
vars == <<data, text>>

Init == data = <<>> /\ text = <<>>

AddByte == /\ text = <<>> /\ Len(data) < MaxBytes
           /\ \E b \in Bytes : data' = Append(data, b)
           /\ UNCHANGED text

AddChar == /\ data = <<>> /\ Len(text) < MaxChars
           /\ \E c \in Letters \cup {Pad, Other} : text' = Append(text, c)
           /\ UNCHANGED data

Next == AddByte \/ AddChar

Spec == Init /\ [][Next]_vars

-----------------------------------------------------------------------------
\* The four characters of three bytes, and back; the shifts and masks of the code.
Quad(b) == <<b[1] \div 4, (b[1] % 4) * 16 + b[2] \div 16,
             (b[2] % 16) * 4 + b[3] \div 64, b[3] % 64>>

Triple(c) == <<(c[1] * 4 + (c[2] % 64) \div 16) % 256,
               ((c[2] % 16) * 16 + (c[3] % 64) \div 4) % 256,
               ((c[3] % 4) * 64 + c[4]) % 256>>

\* The k-th group of n elements, the elements after the last whole group, and what
\* Op makes of the groups, m elements of each.
Group(s, n, k) == SubSeq(s, n * (k - 1) + 1, n * k)
Rest(s, n) == SubSeq(s, n * (Len(s) \div n) + 1, Len(s))
Groups(s, n, m, Op(_)) ==
    [i \in 1..(m * (Len(s) \div n)) |->
        Op(Group(s, n, ((i - 1) \div m) + 1))[((i - 1) % m) + 1]]

\* The characters the loops of both decoders take: up to '=' or a stranger.
Taken(src) == LET stops == {k \in 1..Len(src) : src[k] \in {Pad, Other}} IN
              IF stops = {} THEN src ELSE SubSeq(src, 1, Min(stops) - 1)

\* r followed by whatever the rest of an array of n elements holds.
Filled(r, n, junk) == [k \in 1..n |-> IF k <= Len(r) THEN r[k] ELSE junk]

\* webcc/base64.cc
EncodedSize(n) == 4 * ((n + 2) \div 3)
DecodedSize(n) == (n \div 4) * 3

Encode(in) ==
    LET r == Rest(in, 3) IN
    Groups(in, 3, 4, Quad)
        \o CASE Len(r) = 2 -> <<r[1] \div 4, (r[1] % 4) * 16 + r[2] \div 16, (r[2] % 16) * 4, Pad>>
             [] Len(r) = 1 -> <<r[1] \div 4, (r[1] % 4) * 16, Pad, Pad>>
             [] OTHER -> <<>>

Decode_WholeTriple(src, junk) ==
    LET r == Rest(Taken(src), 4) IN
    Groups(Taken(src), 4, 3, Triple)
        \o IF r = <<>> THEN <<>> ELSE Triple(Filled(r, 4, junk))

Decode(src, junk) ==
    LET r == Rest(Taken(src), 4) IN
    Groups(Taken(src), 4, 3, Triple)
        \o IF r = <<>> THEN <<>> ELSE SubSeq(Triple(Filled(r, 4, junk)), 1, Len(r) - 1)

\* The string is first as long as DecodedSize says, then as long as Decode said: what
\* Decode wrote behind its end is cleared.
Base64Decode(input, junk) ==
    LET out == Decode(input, junk) IN
    [k \in 1..Len(out) |-> IF k <= DecodedSize(Len(input)) THEN out[k] ELSE 0]

\* base64/base64.cpp
base64_encode_NoZeroes(bytes) ==
    LET r == Rest(bytes, 3) IN
    Groups(bytes, 3, 4, Quad)
        \o IF r = <<>> THEN <<>>
           ELSE [k \in 1..4 |-> IF k <= Len(r) + 1 THEN Quad(Filled(r, 3, 255))[k] ELSE Pad]

base64_encode(bytes) ==
    LET r == Rest(bytes, 3) IN
    Groups(bytes, 3, 4, Quad)
        \o IF r = <<>> THEN <<>>
           ELSE [k \in 1..4 |-> IF k <= Len(r) + 1 THEN Quad(Filled(r, 3, 0))[k] ELSE Pad]

base64_decode(encoded, junk) ==
    LET r == Rest(Taken(encoded), 4) IN
    Groups(Taken(encoded), 4, 3, Triple)
        \o IF r = <<>> THEN <<>> ELSE SubSeq(Triple(Filled(r, 4, junk)), 1, Len(r) - 1)

-----------------------------------------------------------------------------
\* The k-th bit of a value of that width, and the i-th of a sequence of values.
Bit(value, width, k) == (value \div 2 ^ (width - k)) % 2
BitAt(s, width, i) == Bit(s[(i \div width) + 1], width, (i % width) + 1)

\* The reference: txt carries the bits of bytes in order, six to a character,
\* zeroes after the last one and '=' up to a multiple of four characters.
Carries(txt, bytes) ==
    LET chars == (8 * Len(bytes) + 5) \div 6 IN
    /\ Len(txt) = EncodedSize(Len(bytes))
    /\ \A k \in 1..Len(txt) : (txt[k] = Pad) <=> (k > chars)
    /\ \A i \in 0..(6 * chars - 1) :
           BitAt(txt, 6, i) = IF i < 8 * Len(bytes) THEN BitAt(bytes, 8, i) ELSE 0

\* Both encoders write the base64 text of the bytes, of the size EncodedSize
\* reserves for it, whatever the number of bytes after the last whole group.
EncodesBits == Carries(Encode(data), data) /\ Carries(base64_encode(data), data)

\* The reference: bytes are what the characters of txt in front of the first '=' or
\* stranger carry whole.
Reads(bytes, txt) ==
    LET chars == Max({k \in 0..Len(txt) : \A i \in 1..k : txt[i] < Pad}) IN
    /\ Len(bytes) = (6 * chars) \div 8
    /\ \A i \in 0..(8 * Len(bytes) - 1) : BitAt(bytes, 8, i) = BitAt(txt, 6, i)

\* The detector's decoder reads every text, wherever it ends and whatever the
\* elements of its array hold that it did not assign, so that a text that was cut
\* off loses the end of the image and garbles nothing.  The client's decoder reads
\* every text of the length it "requires", a multiple of four, and writes no byte
\* of it behind the ones it reserved.  So either undoes either encoder.
DecodesBits ==
    \A junk \in Junk :
        /\ Reads(base64_decode(text, junk), text)
        /\ Len(text) % 4 = 0 =>
               /\ Len(Decode(text, junk)) <= DecodedSize(Len(text))
               /\ Reads(Base64Decode(text, junk), text)
=============================================================================
