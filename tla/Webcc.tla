-------------------------------- MODULE Webcc --------------------------------
(***************************************************************************)
(* The sequential parts of webcc, which share no state: in a behaviour one *)
(* of them, part, is called and the others stay as they were made.  The    *)
(* states are the sum of theirs, not the product.                          *)
(***************************************************************************)
EXTENDS Integers, Sequences

CONSTANTS Bytes, Letters, Junk, MaxBytes, MaxChars,               \* Base64
          QueryKeys, QueryValues, MaxParameters,                  \* QueryObject
          Addresses, TargetKeys, TargetValues, MaxAdded,          \* RequestTarget
          HeaderNames, HeaderValues, Sizes, MaxHeaders, MaxParts, MaxCalls,
                                                                  \* RequestAssembly
          Sessions, Clients,                                      \* ClientPool
          Services, Detail, BoundUrls, Paths, Captures, MaxBindings
                                                                  \* RestDispatch

\* Bytes are eight bits, and so is what an array may hold; a letter is an index of
\* the alphabet.
ASSUME CodecAssumption ==
    Bytes \subseteq 0..255 /\ Junk \subseteq 0..255 /\ Letters \subseteq 0..63

\* The parts of a server's key are comparable, and no client is the null pointer.
ASSUME PoolAssumption ==
    /\ \A servers \in Sessions : servers \subseteq [scheme : Nat, host : Nat, port : Nat]
    /\ "none" \notin Clients

\* The length of a body is the library's to announce; a size is a number.
ASSUME AssemblyAssumption ==
    "Content-Length" \notin HeaderNames /\ Sizes \subseteq Nat

\* A text is of characters of eight bits.
ASSUME TextAssumption ==
    \A t \in QueryKeys \cup QueryValues \cup Addresses \cup TargetKeys \cup TargetValues :
        t \in Seq(0..255)

VARIABLES part,
          data, text,                                       \* Base64
          parameters, first,                                \* QueryObject
          address, url, added, start_line, built, seen,     \* RequestTarget
          headers, content_type, builder, request, wire, changed, calls,
                                                            \* RequestAssembly
          keys, root, left, right, kept,                    \* ClientPool
          items, bound, routed                              \* RestDispatch

Codec == INSTANCE Base64
Query == INSTANCE QueryObject WITH Keys <- QueryKeys, Values <- QueryValues
Target == INSTANCE RequestTarget WITH Keys <- TargetKeys, Values <- TargetValues
Assembly == INSTANCE RequestAssembly WITH Names <- HeaderNames, Values <- HeaderValues
Pool == INSTANCE ClientPool
Dispatch == INSTANCE RestDispatch WITH Urls <- BoundUrls

-----------------------------------------------------------------------------
\* A part that is not called was made in one way.
Init ==
    /\ part \in {"codec", "query", "target", "assembly", "pool", "dispatch"}
    /\ Codec!Init /\ Query!Init /\ Target!Init /\ Assembly!Init /\ Pool!Init /\ Dispatch!Init
    /\ part = "target" \/ address = Target!UrlInit(CHOOSE a \in Addresses : TRUE)
    /\ part = "pool" \/ keys = CHOOSE servers \in Sessions : TRUE

codec == <<data, text>>
query == <<parameters, first>>
target == <<address, url, added, start_line, built, seen>>
assembly == <<headers, content_type, builder, request, wire, changed, calls>>
pool == <<keys, root, left, right, kept>>
dispatch == <<items, bound, routed>>
vars == <<part, codec, query, target, assembly, pool, dispatch>>

Next ==
    \/ /\ part = "codec" /\ Codec!Next
       /\ UNCHANGED <<part, query, target, assembly, pool, dispatch>>
    \/ /\ part = "query" /\ Query!Next
       /\ UNCHANGED <<part, codec, target, assembly, pool, dispatch>>
    \/ /\ part = "target" /\ Target!Next
       /\ UNCHANGED <<part, codec, query, assembly, pool, dispatch>>
    \/ /\ part = "assembly" /\ Assembly!Next
       /\ UNCHANGED <<part, codec, query, target, pool, dispatch>>
    \/ /\ part = "pool" /\ Pool!Next
       /\ UNCHANGED <<part, codec, query, target, assembly, dispatch>>
    \/ /\ part = "dispatch" /\ Dispatch!Next
       /\ UNCHANGED <<part, codec, query, target, assembly, pool>>

Spec == Init /\ [][Next]_vars

-----------------------------------------------------------------------------
\* The properties of the parts, stated and explained in their modules.

\* The base64 encoders of the client and of the detector write the bits in order.
EncodesBits == Codec!EncodesBits
\* The detector's decoder reads the bits of any text, padded, cut or with strangers
\* in it, and the client's those of texts of whole groups.
DecodesBits == Codec!DecodesBits

\* What UrlQuery::ToString writes is read back the same, the first value of a key.
ToStringIsRead == Query!ToStringIsRead

\* The path and the parameters of a request's URL reach the service.
TargetArrives == Target!TargetArrives

\* Headers are sent once, with the caller's value where it set one.
CallerWins == Assembly!CallerWins
\* The length, the type and the boundary announced are those of the body.
BodyAnnounced == Assembly!BodyAnnounced
\* Sending an unchanged request again sends the same message.
ResendIsSame == Assembly!ResendIsSame

\* The pool finds the client that was kept for a server and never another one's.
KeptIsFound == Pool!KeptIsFound

\* A request goes to the first URL bound that covers its path, with its sub-matches.
RoutedAsBound == Dispatch!RoutedAsBound
=============================================================================
