----------------------------- MODULE ClientPool -----------------------------
(***************************************************************************)
(* webcc/client_pool.h and its use by ClientSession::Send: clients kept    *)
(* per scheme, host and port in a std::map ordered by Key::operator<.  The *)
(* map is the search tree it is in libstdc++, with at most two nodes, for  *)
(* which the tree needs no rotation.                                       *)
(***************************************************************************)
EXTENDS Naturals

CONSTANTS Sessions,  \* for each way to use a session, the servers it talks to:
                     \* records of scheme, host and port, as numbers in the
                     \* order of the strings
          Clients    \* clients that can be open at a time

Nil == [key |-> [scheme |-> 0, host |-> 0, port |-> 0], client |-> "none"]

VARIABLES keys,                \* the servers of this session
          root, left, right,   \* the nodes of clients_
          kept                 \* the client left open by the last Send to each server
vars == <<keys, root, left, right, kept>>

Less_NoPort(a, b) ==
    \/ a.scheme < b.scheme
    \/ a.host < b.host

\* Key::operator<.
Less(a, b) ==
    \/ a.scheme < b.scheme
    \/ a.host < b.host
    \/ a.port < b.port

Init ==
    /\ keys \in Sessions
    /\ root = Nil /\ left = Nil /\ right = Nil
    /\ kept = [k \in keys |-> "none"]

\* std::map::lower_bound and find.
LowerBound(k) ==
    IF root = Nil THEN Nil
    ELSE IF Less(root.key, k)
         THEN IF right # Nil /\ ~Less(right.key, k) THEN right ELSE Nil
         ELSE IF left # Nil /\ ~Less(left.key, k) THEN left ELSE root

Get(k) == IF LowerBound(k) # Nil /\ ~Less(k, LowerBound(k).key) THEN LowerBound(k) ELSE Nil

\* ClientPool::Add for a key that is not found: a new node, on the left of the
\* one there is if the key compares less.
Add(k, c) ==
    LET node == [key |-> k, client |-> c] IN
    /\ left = Nil /\ right = Nil
    /\ IF root = Nil THEN root' = node /\ UNCHANGED <<left, right>>
       ELSE IF Less(k, root.key) THEN left' = node /\ UNCHANGED <<root, right>>
       ELSE right' = node /\ UNCHANGED <<root, left>>

\* ClientPool::Remove of a node that was found; the child replaces the root.
Remove(node) ==
    /\ root' = IF node # root THEN root ELSE IF left # Nil THEN left ELSE right
    /\ left' = IF node \in {left, root} THEN Nil ELSE left
    /\ right' = IF node \in {right, root} THEN Nil ELSE right

\* ClientSession::Send, by whether its client is open at the end.
SendKept(k) ==
    \/ /\ Get(k) # Nil
       /\ UNCHANGED vars
    \/ /\ Get(k) = Nil
       /\ \E c \in Clients \ {root.client, left.client, right.client} :
              /\ Add(k, c)
              /\ kept' = [kept EXCEPT ![k] = c]
              /\ UNCHANGED keys

SendClosed(k) ==
    /\ IF Get(k) # Nil THEN Remove(Get(k)) ELSE UNCHANGED <<root, left, right>>
    /\ kept' = [kept EXCEPT ![k] = "none"]
    /\ UNCHANGED keys

\* The session ends with its pool, and another one begins.
Destroy ==
    /\ keys' \in Sessions
    /\ root' = Nil /\ left' = Nil /\ right' = Nil
    /\ kept' = [k \in keys' |-> "none"]

Next == (\E k \in keys : SendKept(k) \/ SendClosed(k)) \/ Destroy

Spec == Init /\ [][Next]_vars

-----------------------------------------------------------------------------
\* operator< orders the servers: of no two is each less than the other.
Ordered == \A a, b \in keys : ~(Less(a, b) /\ Less(b, a))

\* A Send gets a client that was opened for its own server or none; while operator<
\* orders the servers of the session, it gets the client that the last Send to that
\* server left open, and no other.
KeptIsFound ==
    \A k \in keys :
        /\ Get(k) # Nil => Get(k).key = k
        /\ Ordered => Get(k).client = kept[k]
=============================================================================
