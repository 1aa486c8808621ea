------------------------------ MODULE MCWebcc -------------------------------
(***************************************************************************)
(* TLC instance of Webcc: the texts, servers and services of its parts.    *)
(***************************************************************************)
EXTENDS Webcc, TLC

\* Characters, and the texts made of them: those that percent coding or the query
\* syntax treats on its own, and a byte of a UTF-8 text.
U == INSTANCE Urls
h == 104
p == 112
x == 120
Scheme == <<x, U!Colon, U!Slash, U!Slash>>

MCQueryKeys == {<<97>>, <<97, U!Space>>, <<U!Percent, 50>>, <<>>, <<97, U!Equals>>}
MCQueryValues == {<<>>, <<97>>, <<U!Percent, 50, 54>>, <<U!Plus, U!Equals>>, <<195, 169>>,
                  <<U!Ampersand>>}

\* x://h/p, h:8?a=1 and x://h/p%20p?b=/.
MCAddresses ==
    {Scheme \o <<h, U!Slash, p>>,
     <<h, U!Colon, 56, U!Question, 97, U!Equals, 49>>,
     Scheme \o <<h, U!Slash, p, U!Percent, 50, 48, p, U!Question, 98, U!Equals, U!Slash>>}
MCTargetKeys == {<<97>>, <<98>>, <<>>, <<97, U!Equals>>}
MCTargetValues ==
    {<<>>, <<97>>, <<U!Slash>>, <<U!Question, U!Colon>>, <<U!Equals, U!Plus>>,
     <<U!Colon, U!Slash, U!Slash>>, <<U!Percent, 50, 54>>, <<97, U!Space, 98>>,
     <<U!Space>>, <<U!Ampersand>>}

\* Servers that operator< orders; and with them two that are each less than the
\* other, and a third.
Key(s, n, port) == [scheme |-> s, host |-> n, port |-> port]
OrderedServers == {Key(0, 1, 1), Key(0, 1, 2), Key(0, 2, 2), Key(1, 2, 3), Key(1, 3, 3)}
AnyServers == OrderedServers \cup {Key(0, 1, 2), Key(0, 2, 1), Key(1, 1, 1)}
MCSessions == {OrderedServers, AnyServers}

\* A list and a detail service, a URL that is also a regular expression, one with a
\* sub-match, the path it matches and one that does not compile.
MCCaptures == "/images" :> ("/images" :> <<>>) @@ "/images/(d+)" :> ("/images/7" :> <<"7">>)
=============================================================================
