-------------------------- MODULE HttpParserProofs --------------------------
(***************************************************************************)
(* Proofs about HttpParser, for any conversations and any way the network  *)
(* cuts them into reads.                                                   *)
(***************************************************************************)
EXTENDS HttpParser, SequenceTheorems, WellFoundedInduction, TLAPS

\* The symbols that clients send.
Symbols == UNION {UNION {ToSet(c[i].wire) : i \in 1..Len(c)} : c \in Conversations}

\* Every request is made of them, and the lengths among them fit a size_t.
LEMMA SymbolFacts ==
    /\ \A c \in Conversations : Len(c) \in Nat \ {0} /\ \A i \in 1..Len(c) : c[i].wire \in Seq(Symbols)
    /\ \A s \in Symbols : s[1] \in {"Content-Length", "size"} => s[2] \in 0..SizeMax
<1>1. ASSUME NEW c \in Conversations PROVE Len(c) \in Nat \ {0}
    BY ConversationsAssumption, EmptySeq
<1>2. ASSUME NEW c \in Conversations, NEW i \in 1..Len(c) PROVE c[i].wire \in Seq(Symbols)
    <2>1. ToSet(c[i].wire) \subseteq Symbols
        BY DEF Symbols
    <2>2. c[i].wire \in Seq(ToSet(c[i].wire))
        BY ConversationsAssumption
    <2>3. QED
        BY <2>1, <2>2, SeqMonotonic
<1>3. ASSUME NEW s \in Symbols, s[1] \in {"Content-Length", "size"} PROVE s[2] \in 0..SizeMax
    <2>1. PICK c \in Conversations : \E i \in 1..Len(c) : s \in ToSet(c[i].wire)
        BY DEF Symbols
    <2>2. QED
        BY <1>3, <2>1, ConversationsAssumption
<1>4. QED
    BY <1>1, <1>2, <1>3

\* A set of natural numbers has a least one.
LEMMA LeastNatural ==
    ASSUME NEW T \in SUBSET Nat, T # {}
    PROVE  \E m \in T : \A n \in T : m <= n
<1> DEFINE Below == OpToRel(<, Nat)
<1>1. IsWellFoundedOn(Below, Nat)
    BY NatLessThanWellFounded
<1>2. \A m, n \in Nat : <<n, m>> \in Below <=> n < m
    BY DEF OpToRel
<1> HIDE DEF Below
<1>3. PICK m \in T : \A n \in T : <<n, m>> \notin Below
    BY <1>1, WFMin
<1>4. ASSUME NEW n \in T PROVE m <= n
    <2>1. m \in Nat /\ n \in Nat
        OBVIOUS
    <2>2. ~(n < m)
        BY <1>2, <1>3, <2>1, Zenon
    <2>3. QED
        BY <2>1, <2>2
<1>5. QED
    BY <1>4

\* A part of what is pending is made of the same symbols.
LEMMA PartOfSeq ==
    ASSUME NEW s \in Seq(Symbols), NEW m \in Nat \ {0}, NEW n \in Int, n <= Len(s)
    PROVE  SubSeq(s, m, n) \in Seq(Symbols)
<1>1. \A i \in m..n : s[i] \in Symbols
    BY ElementOfSeq
<1>2. QED
    BY <1>1, SubSeqProperties

\* The first line of what is pending, and what follows it.
LEMMA FirstLine ==
    ASSUME NEW s \in Seq(Symbols), Ends(s) # {}
    PROVE  LineAt(s, 1) \in Seq(Symbols) /\ After(s, 1) \in Seq(Symbols)
<1>1. Ends(s) \in SUBSET Nat /\ {e \in Ends(s) : e >= 1} = Ends(s)
    BY DEF Ends
<1>2. LineEnd(s, 1) \in Ends(s)
    BY <1>1, LeastNatural DEF LineEnd, Min
<1>3. LineEnd(s, 1) \in 1..Len(s) - 1
    BY <1>2 DEF Ends
<1>4. QED
    BY <1>3, PartOfSeq DEF LineAt, After

-----------------------------------------------------------------------------
\* The types of the variables one by one.  What is read and not yet parsed comes
\* from the client, which bounds the lengths; a part has one name or none.
Flags ==
    /\ start_line_parsed \in BOOLEAN /\ content_length_parsed \in BOOLEAN
    /\ header_ended \in BOOLEAN /\ chunked \in BOOLEAN /\ multipart \in BOOLEAN
Places ==
    /\ conversation \in Conversations /\ turn \in 1..Len(conversation)
    /\ pc \in {"read", "headers", "content"}
    /\ outcome \in {"reading", "finished", "refused", "thrown"}
Data == input \in Seq(Symbols) /\ pending \in Seq(Symbols)
Lengths == content_length \in 0..SizeMax /\ chunk_size \in 0..SizeMax
FormStep ==
    /\ step \in {"kStart", "kBoundaryParsed", "kHeadersParsed", "kEnded"}
    /\ part = <<>> \/ \E name : part = <<name>>
    /\ step = "kHeadersParsed" => part # <<>>

ParserInv == Flags /\ Places /\ Data /\ Lengths /\ FormStep

\* A new connection satisfies the invariant.
LEMMA InitStep == Init => ParserInv
<1> SUFFICES ASSUME Init PROVE ParserInv
    OBVIOUS
<1>1. Flags
    BY DEF Init, Flags
<1>2. Places /\ Data
    BY SymbolFacts DEF Init, Places, Data
<1>3. Lengths /\ FormStep
    BY SizeMaxNat DEF Init, Lengths, FormStep, kInvalidLength
<1>4. QED
    BY <1>1, <1>2, <1>3 DEF ParserInv

\* The next request and the next read keep it.
LEMMA ReadStep == ParserInv /\ (Start \/ Read) => ParserInv'
<1> SUFFICES ASSUME ParserInv, Start \/ Read PROVE ParserInv'
    OBVIOUS
<1> USE DEF ParserInv
<1>1. CASE Start
    <2>1. Flags'
        BY <1>1 DEF Start, Flags
    <2>2. turn + 1 \in 1..Len(conversation)
        BY <1>1, SymbolFacts DEF Start, Places
    <2>3. conversation[turn + 1].wire \in Seq(Symbols)
        BY <2>2, SymbolFacts DEF Places
    <2>4. Places' /\ Data'
        BY <1>1, <2>2, <2>3 DEF Start, Places, Data
    <2>5. Lengths' /\ FormStep'
        BY <1>1, SizeMaxNat DEF Start, Lengths, FormStep, kInvalidLength
    <2>6. QED
        BY <2>1, <2>4, <2>5
<1>2. ASSUME NEW n \in 1..Len(input), Parse(n) PROVE ParserInv'
    <2>1. Flags'
        BY <1>2 DEF Parse, Flags, headerVars
    <2>2. Places'
        BY <1>2 DEF Parse, Places
    <2>3. SubSeq(input, 1, n) \in Seq(Symbols) /\ SubSeq(input, n + 1, Len(input)) \in Seq(Symbols)
        BY PartOfSeq DEF Data
    <2>4. Data'
        BY <1>2, <2>3 DEF Parse, Data
    <2>5. Lengths' /\ FormStep'
        BY <1>2 DEF Parse, Lengths, FormStep, headerVars, formVars
    <2>6. QED
        BY <2>1, <2>2, <2>4, <2>5
<1>3. QED
    BY <1>1, <1>2 DEF Read

\* ParseHeaders: lengths come from lines the client wrote.
LEMMA HeaderStep ==
    ParserInv /\ (HeaderMore \/ HeadersEnd \/ HeaderLine \/ HeaderBad) => ParserInv'
<1> SUFFICES ASSUME ParserInv, HeaderMore \/ HeadersEnd \/ HeaderLine \/ HeaderBad
             PROVE  ParserInv'
    OBVIOUS
<1> USE DEF ParserInv
<1>1. CASE HeaderMore \/ HeaderBad
    <2>1. Flags' /\ Lengths' /\ FormStep' /\ Data'
        BY <1>1 DEF HeaderMore, HeaderBad, Flags, Lengths, FormStep, Data, headerVars, formVars, wire
    <2>2. Places'
        BY <1>1 DEF HeaderMore, HeaderBad, NeedMore, Refuse, Places, wire
    <2>3. QED
        BY <2>1, <2>2
<1>2. CASE HeadersEnd
    <2>1. After(pending, 1) \in Seq(Symbols)
        BY <1>2, FirstLine DEF HeadersEnd, HasLine, Data
    <2>2. Flags'
        BY <1>2 DEF HeadersEnd, Flags
    <2>3. Places' /\ Data' /\ Lengths' /\ FormStep'
        BY <1>2, <2>1 DEF HeadersEnd, Places, Data, Lengths, FormStep, formVars, wire
    <2>4. QED
        BY <2>2, <2>3
<1>3. CASE HeaderLine
    <2>1. LineAt(pending, 1) \in Seq(Symbols) /\ After(pending, 1) \in Seq(Symbols)
        BY <1>3, FirstLine DEF HeaderLine, HasLine, Data
    <2>2. PICK symbol \in Symbols : symbol = LineAt(pending, 1)[1]
        BY <1>3, <2>1 DEF HeaderLine, GoodLine
    <2>3. /\ content_length' = IF symbol[1] = "Content-Length" THEN symbol[2] ELSE content_length
          /\ content_length_parsed' = (content_length_parsed \/ symbol[1] = "Content-Length")
          /\ multipart' = (multipart \/ symbol = Multipart)
          /\ chunked' = (chunked \/ symbol = Chunked)
          /\ start_line_parsed' = TRUE /\ header_ended' = header_ended
        BY <1>3, <2>2 DEF HeaderLine
    <2>4. Flags'
        BY <2>3 DEF Flags
    <2>5. Lengths'
        BY <1>3, <2>3, SymbolFacts DEF HeaderLine, Lengths
    <2>6. Places' /\ Data' /\ FormStep'
        BY <1>3, <2>1 DEF HeaderLine, Places, Data, FormStep, formVars, wire
    <2>7. QED
        BY <2>4, <2>5, <2>6
<1>4. QED
    BY <1>1, <1>2, <1>3

\* ParseFixedContent and ParseChunkedContent: what is left of a chunk gets smaller.
LEMMA ContentStep ==
    ParserInv /\ (NoContent \/ FixedContent \/ ChunkSize \/ ChunkLast \/ ChunkWhole
                    \/ ChunkPart \/ ChunkWait) => ParserInv'
<1> SUFFICES ASSUME ParserInv, NoContent \/ FixedContent \/ ChunkSize \/ ChunkLast
                                   \/ ChunkWhole \/ ChunkPart \/ ChunkWait
             PROVE  ParserInv'
    OBVIOUS
<1> USE DEF ParserInv
<1>1. Flags' /\ FormStep' /\ input' = input /\ content_length' = content_length
    <2>1. UNCHANGED <<wire, headerVars, formVars>>
        BY DEF NoContent, FixedContent, ChunkSize, ChunkLast, ChunkWhole, ChunkPart, ChunkWait
    <2>2. QED
        BY <2>1 DEF wire, headerVars, formVars, Flags, FormStep
<1>2. Places'
    BY DEF NoContent, FixedContent, ChunkSize, ChunkLast, ChunkWhole, ChunkPart, ChunkWait,
           NeedMore, Finish, Refuse, Throw, Places, wire
<1>3. CASE NoContent \/ ChunkLast \/ ChunkWait
    BY <1>1, <1>2, <1>3 DEF NoContent, ChunkLast, ChunkWait, Data, Lengths
<1>4. CASE FixedContent
    BY <1>1, <1>2, <1>4 DEF FixedContent, Data, Lengths
<1>5. CASE ChunkSize
    <2>1. LineAt(pending, 1) \in Seq(Symbols) /\ After(pending, 1) \in Seq(Symbols)
        BY <1>5, FirstLine DEF ChunkSize, HasLine, Data
    <2>2. \/ chunk_size' = chunk_size
          \/ \E symbol \in Symbols : symbol[1] = "size" /\ chunk_size' = symbol[2]
        BY <1>5, <2>1 DEF ChunkSize
    <2>3. chunk_size' \in 0..SizeMax
        BY <2>2, SymbolFacts DEF Lengths
    <2>4. QED
        BY <1>1, <1>2, <1>5, <2>1, <2>3 DEF ChunkSize, Data, Lengths
<1>6. CASE ChunkWhole
    <2>1. SubSeq(pending, chunk_size + 3, Len(pending)) \in Seq(Symbols)
        BY PartOfSeq, SizeMaxNat DEF Data, Lengths
    <2>2. /\ pending' \in {pending, SubSeq(pending, chunk_size + 3, Len(pending))}
          /\ chunk_size' \in {chunk_size, SizeMax}
        BY <1>6 DEF ChunkWhole, kInvalidLength
    <2>3. Data'
        BY <1>1, <2>1, <2>2 DEF Data
    <2>4. Lengths'
        BY <1>1, <2>2, SizeMaxNat DEF Lengths
    <2>5. QED
        BY <1>1, <1>2, <2>3, <2>4
<1>7. CASE ChunkPart
    <2>1. chunk_size - Len(pending) \in 0..SizeMax
        BY <1>7, SizeMaxNat DEF ChunkPart, Data, Lengths
    <2>2. QED
        BY <1>1, <1>2, <1>7, <2>1 DEF ChunkPart, Data, Lengths
<1>8. QED
    BY <1>3, <1>4, <1>5, <1>6, <1>7

\* ParseMultipartContent: once its headers are parsed a part has a name.
LEMMA FormPartStep ==
    ParserInv /\ (MultipartBad \/ MultipartEmpty \/ FirstBoundary \/ PartHeaders \/ PartData)
        => ParserInv'
<1> SUFFICES ASSUME ParserInv,
                    MultipartBad \/ MultipartEmpty \/ FirstBoundary \/ PartHeaders \/ PartData
             PROVE  ParserInv'
    OBVIOUS
<1> USE DEF ParserInv
<1>1. Flags' /\ Lengths' /\ input' = input
    <2>1. UNCHANGED <<wire, headerVars, chunk_size>>
        BY DEF MultipartBad, MultipartEmpty, FirstBoundary, PartHeaders, PartData
    <2>2. QED
        BY <2>1 DEF wire, headerVars, Flags, Lengths
<1>2. Places'
    <2>1. UNCHANGED wire
        BY DEF MultipartBad, MultipartEmpty, FirstBoundary, PartHeaders, PartData
    <2>2. UNCHANGED <<pc, outcome>> \/ NeedMore \/ Finish \/ Refuse
        BY DEF MultipartBad, MultipartEmpty, FirstBoundary, PartHeaders, PartData
    <2>3. QED
        BY <2>1, <2>2 DEF wire, Places, NeedMore, Finish, Refuse
<1>3. CASE MultipartBad \/ MultipartEmpty
    BY <1>1, <1>2, <1>3 DEF MultipartBad, MultipartEmpty, Data, FormStep, formVars
<1>4. CASE FirstBoundary
    <2>1. HasLine => After(pending, 1) \in Seq(Symbols)
        BY FirstLine DEF HasLine, Data
    <2>2. QED
        BY <1>1, <1>2, <1>4, <2>1 DEF FirstBoundary, Data, FormStep
<1>5. CASE PartHeaders
    <2>1. \E name : part' = <<name>>
        <3>1. \A ends : \E name : PartName(ends) = <<name>>
            BY DEF PartName, FormStep
        <3>2. QED
            BY <1>5, <3>1 DEF PartHeaders
    <2>2. ASSUME NEW last \in Ends(pending) PROVE SubSeq(pending, last + 2, Len(pending)) \in Seq(Symbols)
        BY PartOfSeq DEF Ends, Data
    <2>3. pending' = pending \/ \E last \in Ends(pending) : pending' = SubSeq(pending, last + 2, Len(pending))
        BY <1>5 DEF PartHeaders, FirstOf
    <2>4. step' \in {step, "kHeadersParsed"}
        BY <1>5 DEF PartHeaders
    <2>5. Data'
        BY <1>1, <2>2, <2>3 DEF Data
    <2>6. FormStep'
        <3>1. PICK name : part' = <<name>>
            BY <2>1
        <3>2. <<name>> # <<>>
            OBVIOUS
        <3>3. QED
            BY <2>4, <3>1, <3>2 DEF FormStep
    <2>7. QED
        BY <1>1, <1>2, <2>5, <2>6
<1>6. CASE PartData
    <2>1. ASSUME NEW next \in Ends(pending) PROVE PastBoundary(next) \in Seq(Symbols)
        BY PartOfSeq DEF PastBoundary, Ends, Data
    <2>2. \/ UNCHANGED <<pending, formVars>>
          \/ /\ \E next \in Ends(pending) : pending' = PastBoundary(next)
             /\ part' = <<>> /\ step' \in {"kEnded", "kBoundaryParsed"}
        BY <1>6 DEF PartData, FirstOf
    <2>3. QED
        BY <1>1, <1>2, <2>1, <2>2 DEF Data, FormStep, formVars
<1>7. QED
    BY <1>3, <1>4, <1>5, <1>6

\* Every step of the parser keeps it.
LEMMA ParserInvStep == ParserInv /\ [Next]_vars => ParserInv'
<1>1. ParserInv /\ UNCHANGED vars => ParserInv'
    BY DEF ParserInv, vars, wire, headerVars, formVars, Flags, Places, Data, Lengths, FormStep
<1>2. QED
    BY <1>1, ReadStep, HeaderStep, ContentStep, FormPartStep DEF Next, ParserStep, MultipartSpin

\* The parser keeps its types for any conversation and any reads: no length
\* overflows a size_t when a chunk comes in pieces, and a part whose headers were
\* parsed has a name for its data.
THEOREM TypeCorrect == Spec => []TypeOK
<1>1. ParserInv => TypeOK
    <2> SUFFICES ASSUME ParserInv PROVE TypeOK
        OBVIOUS
    <2> USE DEF ParserInv
    <2>1. \A b \in {start_line_parsed, content_length_parsed, header_ended, chunked,
                    multipart} : b \in BOOLEAN
        BY DEF Flags
    <2>2. Len(part) <= 1 /\ (step = "kHeadersParsed" => Len(part) = 1)
        BY DEF FormStep
    <2>3. QED
        BY <2>1, <2>2 DEF TypeOK, Places, Lengths, FormStep
<1>2. QED
    BY <1>1, InitStep, ParserInvStep, PTL DEF Spec
=============================================================================
