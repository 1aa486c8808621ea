----------------------------- MODULE QueryObject -----------------------------
(***************************************************************************)
(* A UrlQuery object (webcc/url.cc) and the calls on it, beside the map it *)
(* stands for.                                                             *)
(***************************************************************************)
EXTENDS Urls

CONSTANTS Keys, Values,   \* the texts the parameters are made of
          MaxParameters   \* bound on the parameters of the object

VARIABLES parameters,   \* parameters_
          first         \* by key, what was first added since it was last removed
vars == <<parameters, first>>

Absent == <<-1>>

Init == parameters = <<>> /\ first = [k \in Keys |-> Absent]

CallAdd(k, v) ==
    /\ Len(parameters) < MaxParameters
    /\ parameters' = Add(parameters, k, v)
    /\ first' = [first EXCEPT ![k] = IF @ = Absent THEN v ELSE @]

CallRemove(k) ==
    /\ parameters' = Remove(parameters, k)
    /\ first' = [first EXCEPT ![k] = Absent]

Next == \E k \in Keys : CallRemove(k) \/ \E v \in Values : CallAdd(k, v)

Spec == Init /\ [][Next]_vars

-----------------------------------------------------------------------------
\* A text that the query syntax does not take apart.
Whole(t, separators) == \A i \in 1..Len(t) : t[i] \notin separators

\* What ToString writes and the receiver decodes and reads is the same list of
\* parameters, in order, percent signs, blanks and plus signs in it included, as
\* long as no key is empty and neither holds a separator.  By key it is the value
\* that was added first since the key was last removed.
ToStringIsRead ==
    LET read == UrlQuery(Decode(ToString(parameters))) IN
    (\A i \in 1..Len(parameters) :
        /\ parameters[i][1] # <<>>
        /\ Whole(parameters[i][1], {Ampersand, Equals})
        /\ Whole(parameters[i][2], {Ampersand}))
        => /\ read = parameters
           /\ \A k \in Keys : /\ Has(read, k) <=> first[k] # Absent
                             /\ Has(read, k) => Get(read, k) = first[k]
=============================================================================
