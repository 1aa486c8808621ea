-------------------------- MODULE WebServerProofs ---------------------------
(***************************************************************************)
(* Proofs about WebServer for any set of connections and any finite,       *)
(* non-empty set of workers.                                               *)
(***************************************************************************)
EXTENDS WebServer, TLAPS

-----------------------------------------------------------------------------
\* Facts about the operations the actions are built from.

\* Cancelling operations keeps each one's connection and kind.
LEMMA CancelledOps ==
    ASSUME NEW C, NEW S \in SUBSET Ops
    PROVE  /\ Cancelled(C, S) \in SUBSET Ops
           /\ \A p \in Cancelled(C, S) : \E o \in S : p[1] = o[1] /\ p[2] = o[2]
           /\ \A o \in S : \E p \in Cancelled(C, S) : p[1] = o[1] /\ p[2] = o[2]
           /\ (\A o, p \in S : o[1] = p[1] => o = p)
                => (\A o, p \in Cancelled(C, S) : o[1] = p[1] => o = p)
<1> DEFINE F(o) == IF o[1] \in C /\ o[3] = "pending"
                   THEN <<o[1], o[2], "aborted">> ELSE o
<1>1. \A o \in S : F(o) \in Ops /\ F(o)[1] = o[1] /\ F(o)[2] = o[2]
    BY DEF Ops, Results
<1>2. Cancelled(C, S) = {F(o) : o \in S}
    BY DEF Cancelled
<1> HIDE DEF F
<1>3. QED
    BY <1>1, <1>2

\* So does closing all connections.
LEMMA CloseAllOps ==
    ASSUME ops \in SUBSET Ops, CloseAll
    PROVE  /\ ops' \in SUBSET Ops
           /\ \A p \in ops' : \E o \in ops : p[1] = o[1] /\ p[2] = o[2]
           /\ \A o \in ops : \E p \in ops' : p[1] = o[1] /\ p[2] = o[2]
           /\ (\A o, p \in ops : o[1] = p[1] => o = p)
                => (\A o, p \in ops' : o[1] = p[1] => o = p)
<1>1. PICK midway \in SUBSET connections :
          ops' = {IF o[1] \in midway /\ o[3] = "pending"
                  THEN <<o[1], o[2], "error">> ELSE o :
                     o \in Cancelled(connections \ midway, ops)}
    BY DEF CloseAll
<1> DEFINE S == Cancelled(connections \ midway, ops)
           F(o) == IF o[1] \in midway /\ o[3] = "pending"
                   THEN <<o[1], o[2], "error">> ELSE o
<1>2. /\ S \in SUBSET Ops
      /\ \A p \in S : \E o \in ops : p[1] = o[1] /\ p[2] = o[2]
      /\ \A o \in ops : \E p \in S : p[1] = o[1] /\ p[2] = o[2]
      /\ (\A o, p \in ops : o[1] = p[1] => o = p)
            => (\A o, p \in S : o[1] = p[1] => o = p)
    BY CancelledOps
<1>3. \A o \in S : F(o) \in Ops /\ F(o)[1] = o[1] /\ F(o)[2] = o[2]
    BY <1>2 DEF Ops, Results
<1>4. ops' = {F(o) : o \in S}
    BY <1>1
<1> HIDE DEF S, F
<1>5. QED
    BY <1>2, <1>3, <1>4

\* A started operation is an operation of its connection.
LEMMA StartedOp ==
    ASSUME NEW c \in Conns, NEW kind \in {"read", "write"}
    PROVE  Started(c, kind) \in Ops /\ Started(c, kind)[1] = c /\ Started(c, kind)[2] = kind
BY DEF Started, Ops, Results

\* What the head and the tail of a queue hold.
LEMMA HeadTail ==
    ASSUME NEW S, NEW q \in Seq(S), q # <<>>
    PROVE  /\ Len(q) \in Nat /\ Len(q) > 0
           /\ Head(q) = q[1] /\ Head(q) \in S
           /\ Tail(q) \in Seq(S) /\ Len(Tail(q)) = Len(q) - 1
           /\ \A i \in 1..Len(Tail(q)) : Tail(q)[i] = q[i + 1]
OBVIOUS

\* What a queue holds after a push.
LEMMA AppendLast ==
    ASSUME NEW S, NEW q \in Seq(S), NEW x \in S
    PROVE  /\ Append(q, x) \in Seq(S) /\ Len(q) \in Nat
           /\ Len(Append(q, x)) = Len(q) + 1
           /\ \A i \in 1..Len(q) : Append(q, x)[i] = q[i]
           /\ Append(q, x)[Len(q) + 1] = x
OBVIOUS

-----------------------------------------------------------------------------
\* The type invariant needs that a worker that handles a message got a
\* connection, not the null that stops it.
HandlesConn ==
    \A w \in Workers : wpc[w] \in {"handle", "write"} => wconn[w] \in Conns

TypeInv == TypeOK /\ HandlesConn

\* Every step keeps the types.
LEMMA TypeInvStep == TypeInv /\ [Next]_vars => TypeInv'
<1> SUFFICES ASSUME TypeInv, [Next]_vars PROVE TypeInv'
    OBVIOUS
<1> USE DEF TypeInv, TypeOK, HandlesConn, serverVars, poolVars, msgVars, workerVars, Results
<1>1. CASE UNCHANGED vars
    BY <1>1 DEF vars
<1>2. ASSUME Construct \/ ConstructThrows \/ RunRefused \/ RaiseSignal \/ RunReturns
             \/ AcceptCompletes \/ OnAcceptStopped \/ OnAcceptError
      PROVE  TypeInv'
    BY <1>2 DEF Construct, ConstructThrows, RunRefused, RaiseSignal, RunReturns, AcceptCompletes,
                OnAcceptStopped, OnAcceptError
<1>3. ASSUME Run PROVE TypeInv'
    BY <1>3 DEF Run
<1>4. ASSUME NEW c \in Conns, OnAccept(c) PROVE TypeInv'
    <2>1. ops' \subseteq Ops
        BY <1>4 DEF OnAccept, Ops
    <2>2. QED
        BY <1>4, <2>1 DEF OnAccept, Headers
<1>5. ASSUME NEW c \in Conns, OnReadBad(c) \/ OnReadMore(c) \/ OnWriteKeep(c)
      PROVE  TypeInv'
    <2>1. ops' \subseteq Ops
        BY <1>5, StartedOp DEF OnReadBad, OnReadMore, OnWriteKeep
    <2>2. keep' \in [Conns -> BOOLEAN]
        BY <1>5 DEF OnReadBad, OnReadMore, OnWriteKeep, ReadData
    <2>3. QED
        BY <1>5, <2>1, <2>2 DEF OnReadBad, OnReadMore, OnWriteKeep, HeaderFor, Headers
<1>6. ASSUME NEW c \in Conns, OnReadFinished(c) PROVE TypeInv'
    <2>1. queue' \in Seq(Conns \cup {Null})
        BY <1>6, AppendLast DEF OnReadFinished
    <2>2. keep' \in [Conns -> BOOLEAN]
        BY <1>6 DEF OnReadFinished, ReadData
    <2>3. QED
        BY <1>6, <2>1, <2>2 DEF OnReadFinished
<1>7. ASSUME NEW c \in Conns, ParserThrows(c) \/ ParserSpins(c) PROVE TypeInv'
    BY <1>7 DEF ParserThrows, ParserSpins
<1>8. ASSUME NEW c \in Conns, NEW kind \in {"read", "write"}, OpCompletes(c, kind)
      PROVE  TypeInv'
    <2>1. ops' \subseteq Ops
        BY <1>8 DEF OpCompletes, Ops
    <2>2. QED
        BY <1>8, <2>1 DEF OpCompletes
<1>9. ASSUME NEW c \in Conns, NEW kind \in {"read", "write"},
             OnFailure(c, kind) \/ OnWriteClose(c)
      PROVE  TypeInv'
    <2>1. ops' \subseteq Ops
        BY <1>9, CancelledOps DEF OnFailure, OnAborted, OnError, OnWriteClose, PoolClose
    <2>2. QED
        BY <1>9, <2>1 DEF OnFailure, OnAborted, OnError, OnWriteClose, PoolClose
<1>10. ASSUME NEW w \in Workers, WorkerPop(w) PROVE TypeInv'
    <2>1. Head(queue) \in Conns \cup {Null} /\ queue' \in Seq(Conns \cup {Null})
        BY <1>10, HeadTail DEF WorkerPop
    <2>2. QED
        BY <1>10, <2>1 DEF WorkerPop
<1>11. ASSUME NEW w \in Workers, WorkerHandle(w) \/ WorkerThrows(w) PROVE TypeInv'
    <2>1. response' \in [Conns -> Headers]
        BY <1>11 DEF WorkerHandle, WorkerThrows, HeaderFor, Headers
    <2>2. CASE WorkerHandle(w)
        BY <2>1, <2>2 DEF WorkerHandle
    <2>3. CASE WorkerThrows(w)
        BY <2>3 DEF WorkerThrows
    <2>4. QED
        BY <1>11, <2>2, <2>3
<1>12. ASSUME NEW w \in Workers, WorkerWrite(w) PROVE TypeInv'
    <2>1. ops' \subseteq Ops
        BY <1>12, StartedOp DEF WorkerWrite
    <2>2. QED
        BY <1>12, <2>1 DEF WorkerWrite
<1>13. ASSUME NEW w \in Workers, WorkerRelay(w) PROVE TypeInv'
    <2>1. queue' \in Seq(Conns \cup {Null})
        BY <1>13, AppendLast DEF WorkerRelay
    <2>2. QED
        BY <1>13, <2>1 DEF WorkerRelay
<1>14. ASSUME OnSignal \/ StopClear \/ StopJoin PROVE TypeInv'
    <2>1. CASE OnSignal
        BY <2>1 DEF OnSignal
    <2>2. CASE StopClear
        BY <2>2 DEF StopClear
    <2>3. CASE StopJoin
        BY <2>3 DEF StopJoin
    <2>4. QED
        BY <1>14, <2>1, <2>2, <2>3
<1>15. ASSUME StopPush PROVE TypeInv'
    <2>1. queue' \in Seq(Conns \cup {Null})
        BY <1>15, AppendLast DEF StopPush
    <2>2. QED
        BY <1>15, <2>1 DEF StopPush
<1>16. ASSUME CloseAll PROVE TypeInv'
    <2>1. ops' \subseteq Ops
        BY <1>16, CloseAllOps
    <2>2. QED
        BY <1>16, <2>1 DEF CloseAll
<1>17. QED
    BY <1>1, <1>2, <1>3, <1>4, <1>5, <1>6, <1>7, <1>8, <1>9, <1>10, <1>11, <1>12,
       <1>13, <1>14, <1>15, <1>16
       DEF Next, ServerStep, ConnectionStep, WorkerStep, StopStep, Ended, OnReadOk, OnWriteOk

\* The variables of the server always have their types; in particular no
\* worker starts a write on the null connection.
THEOREM TypeCorrect == Spec => []TypeOK
<1>1. Init => TypeInv
    BY DEF Init, TypeInv, TypeOK, HandlesConn, Results, Headers
<1>2. TypeInv => TypeOK
    BY DEF TypeInv
<1>3. QED
    BY <1>1, <1>2, TypeInvStep, PTL DEF Spec

-----------------------------------------------------------------------------
\* A step that gives no connection an operation it had none of, and none a
\* second one, keeps every connection with at most one owner.
LEMMA OpsRenewed ==
    ASSUME OneOwner, UNCHANGED <<queue, wpc, wconn>>,
           \A p \in ops' : \E o \in ops : p[1] = o[1],
           \A o, p \in ops' : o[1] = p[1] => o = p
    PROVE  OneOwner'
<1> SUFFICES ASSUME NEW c \in Conns PROVE AtMostOneOwner(c)'
    BY DEF OneOwner
<1>1. AtMostOneOwner(c)
    BY DEF OneOwner
<1>2. HasOp(c)' => HasOp(c)
    BY DEF HasOp
<1>3. (InQueue(c)' <=> InQueue(c)) /\ Holders(c)' = Holders(c)
    BY DEF InQueue, Holders
<1>4. QED
    BY <1>1, <1>2, <1>3 DEF AtMostOneOwner

\* With one owner each, operations are told apart by their connections.
LEMMA OpsApart ==
    ASSUME TypeInv, OneOwner
    PROVE  \A o, p \in ops : o[1] = p[1] => o = p
<1>1. \A o \in ops : o[1] \in Conns
    BY DEF TypeInv, TypeOK, Ops
<1>2. QED
    BY <1>1 DEF OneOwner, AtMostOneOwner

\* Every step leaves a connection with one owner at most.
LEMMA OneOwnerStep == TypeInv /\ OneOwner /\ [Next]_vars => OneOwner'
<1> SUFFICES ASSUME TypeInv, OneOwner, [Next]_vars PROVE OneOwner'
    OBVIOUS
<1> USE DEF serverVars, poolVars, msgVars, workerVars
<1>a. ops \in SUBSET Ops /\ queue \in Seq(Conns \cup {Null})
    BY DEF TypeInv, TypeOK
<1>b. \A o, p \in ops : o[1] = p[1] => o = p
    BY OpsApart
<1>1. ASSUME UNCHANGED <<ops, queue, wpc, wconn>> PROVE OneOwner'
    BY <1>1, <1>b, OpsRenewed
<1>2. ASSUME Run PROVE OneOwner'
    <2> SUFFICES ASSUME NEW d \in Conns PROVE AtMostOneOwner(d)'
        BY DEF OneOwner
    <2>1. (InQueue(d)' <=> InQueue(d)) /\ (HasOp(d)' <=> HasOp(d)) /\ Holders(d)' = {}
        BY <1>2 DEF Run, InQueue, HasOp, Holders
    <2>2. QED
        BY <1>2, <2>1 DEF Run, AtMostOneOwner, OneOwner
<1>3. ASSUME NEW c \in Conns, OnAccept(c) PROVE OneOwner'
    <2> SUFFICES ASSUME NEW d \in Conns PROVE AtMostOneOwner(d)'
        BY DEF OneOwner
    <2>1. (InQueue(d)' <=> InQueue(d)) /\ Holders(d)' = Holders(d)
        BY <1>3 DEF OnAccept, InQueue, Holders
    <2>2. CASE d = c
        BY <1>3, <2>1, <2>2 DEF OnAccept, Free, HasOp, AtMostOneOwner, OneOwner
    <2>3. CASE d # c
        <3>1. HasOp(d)' <=> HasOp(d)
            BY <1>3, <2>3 DEF OnAccept, HasOp
        <3>2. QED
            BY <1>3, <2>1, <2>3, <3>1 DEF OnAccept, AtMostOneOwner, OneOwner
    <2>4. QED
        BY <2>2, <2>3
<1>4. ASSUME NEW c \in Conns, NEW o \in ops, NEW p, o[1] = c, p[1] = c,
             ops' = (ops \ {o}) \cup {p}, UNCHANGED <<queue, wpc, wconn>>
      PROVE  OneOwner'
    BY <1>4, <1>b, OpsRenewed
<1>5. ASSUME NEW c \in Conns, OnReadBad(c) \/ OnReadMore(c) \/ OnWriteKeep(c)
      PROVE  OneOwner'
    BY <1>5, <1>4, StartedOp DEF OnReadBad, OnReadMore, OnWriteKeep, ReadData
<1>6. ASSUME NEW c \in Conns, NEW kind \in {"read", "write"}, OpCompletes(c, kind)
      PROVE  OneOwner'
    <2>1. PICK r \in {"ok", "error"} :
              ops' = (ops \ {<<c, kind, "pending">>}) \cup {<<c, kind, r>>}
        BY <1>6 DEF OpCompletes
    <2>2. <<c, kind, "pending">>[1] = c /\ <<c, kind, r>>[1] = c
        OBVIOUS
    <2>3. <<c, kind, "pending">> \in ops /\ UNCHANGED <<queue, wpc, wconn>>
        BY <1>6 DEF OpCompletes
    <2>4. QED
        BY <1>4, <2>1, <2>2, <2>3
<1>7. ASSUME NEW c \in Conns, NEW kind \in {"read", "write"},
             OnFailure(c, kind) \/ OnWriteClose(c)
      PROVE  OneOwner'
    <2>1. CASE \E o \in ops : ops' = ops \ {o}
        BY <1>7, <2>1, <1>b, OpsRenewed
           DEF OnFailure, OnAborted, OnError, OnWriteClose
    <2>2. CASE \E o \in ops : ops' = Cancelled({c}, ops \ {o})
        <3>1. PICK o \in ops : ops' = Cancelled({c}, ops \ {o})
            BY <2>2
        <3>2. \A p \in ops' : \E q \in ops : p[1] = q[1]
            BY <3>1, <1>a, CancelledOps
        <3>3. \A p, q \in ops' : p[1] = q[1] => p = q
            BY <3>1, <1>a, <1>b, CancelledOps
        <3>4. UNCHANGED <<queue, wpc, wconn>>
            BY <1>7 DEF OnFailure, OnAborted, OnError, OnWriteClose
        <3>5. QED
            BY <3>2, <3>3, <3>4, OpsRenewed
    <2>3. QED
        BY <1>7, <2>1, <2>2 DEF OnFailure, OnAborted, OnError, OnWriteClose, PoolClose
<1>8. ASSUME CloseAll PROVE OneOwner'
    BY <1>8, <1>a, <1>b, CloseAllOps, OpsRenewed DEF CloseAll
<1>9. ASSUME NEW c \in Conns, OnReadFinished(c) PROVE OneOwner'
    <2> SUFFICES ASSUME NEW d \in Conns PROVE AtMostOneOwner(d)'
        BY DEF OneOwner
    <2>1. /\ queue' = Append(queue, c) /\ Len(queue') = Len(queue) + 1 /\ Len(queue) \in Nat
          /\ \A i \in 1..Len(queue) : queue'[i] = queue[i]
          /\ queue'[Len(queue) + 1] = c
        BY <1>9, <1>a, AppendLast DEF OnReadFinished
    <2>2. Holders(d)' = Holders(d) /\ ops' = ops \ {<<c, "read", "ok">>}
        BY <1>9 DEF OnReadFinished, Holders
    <2>3. CASE d = c
        <3>1. HasOp(c)
            BY <1>9 DEF OnReadFinished, ReadData, HasOp
        <3>2. ~InQueue(c) /\ Holders(c) = {}
            BY <3>1 DEF OneOwner, AtMostOneOwner
        <3>3. ~HasOp(c)'
            BY <1>9, <1>b, <2>2 DEF OnReadFinished, ReadData, HasOp
        <3>4. \A i, j \in 1..Len(queue') : queue'[i] = c /\ queue'[j] = c => i = j
            BY <2>1, <3>2 DEF InQueue
        <3>5. \A o, p \in ops' : o[1] = p[1] => o = p
            BY <1>b, <2>2
        <3>6. QED
            BY <2>2, <2>3, <3>2, <3>3, <3>4, <3>5 DEF AtMostOneOwner
    <2>4. CASE d # c
        <3>1. InQueue(d)' <=> InQueue(d)
            BY <2>1, <2>4 DEF InQueue
        <3>2. HasOp(d)' => HasOp(d)
            BY <2>2 DEF HasOp
        <3>3. \A i, j \in 1..Len(queue') : queue'[i] = d /\ queue'[j] = d => i = j
            BY <2>1, <2>4 DEF OneOwner, AtMostOneOwner
        <3>4. QED
            BY <2>2, <3>1, <3>2, <3>3 DEF OneOwner, AtMostOneOwner
    <2>5. QED
        BY <2>3, <2>4
<1>10. ASSUME UNCHANGED <<ops, wconn>>, queue' = Append(queue, Null),
              \A c \in Conns : Holders(c)' = Holders(c)
       PROVE  OneOwner'
    <2> SUFFICES ASSUME NEW d \in Conns PROVE AtMostOneOwner(d)'
        BY DEF OneOwner
    <2>1. /\ Len(queue') = Len(queue) + 1 /\ Len(queue) \in Nat
          /\ \A i \in 1..Len(queue) : queue'[i] = queue[i]
          /\ queue'[Len(queue) + 1] # d
        BY <1>10, <1>a, AppendLast, NullIsNoConn
    <2>2. (InQueue(d)' <=> InQueue(d)) /\ (HasOp(d)' <=> HasOp(d))
        BY <1>10, <2>1 DEF InQueue, HasOp
    <2>3. \A i, j \in 1..Len(queue') : queue'[i] = d /\ queue'[j] = d => i = j
        BY <2>1 DEF OneOwner, AtMostOneOwner
    <2>4. QED
        BY <1>10, <2>2, <2>3 DEF OneOwner, AtMostOneOwner
<1>11. ASSUME StopPush PROVE OneOwner'
    BY <1>11, <1>10 DEF StopPush, Holders
<1>12. ASSUME NEW w \in Workers, WorkerRelay(w) PROVE OneOwner'
    <2>1. \A c \in Conns : Holders(c)' = Holders(c)
        BY <1>12 DEF WorkerRelay, Holders, TypeInv, TypeOK
    <2>2. QED
        BY <1>12, <2>1, <1>10 DEF WorkerRelay
<1>13. ASSUME StopClear PROVE OneOwner'
    <2> SUFFICES ASSUME NEW d \in Conns PROVE AtMostOneOwner(d)'
        BY DEF OneOwner
    <2>1. Len(queue') = 0
        BY <1>13 DEF StopClear
    <2>2. ~InQueue(d)' /\ (HasOp(d)' <=> HasOp(d)) /\ Holders(d)' = Holders(d)
        BY <1>13, <2>1 DEF StopClear, InQueue, HasOp, Holders
    <2>3. QED
        BY <1>13, <2>1, <2>2 DEF StopClear, OneOwner, AtMostOneOwner
<1>14. ASSUME NEW w \in Workers, WorkerPop(w) PROVE OneOwner'
    <2> SUFFICES ASSUME NEW d \in Conns PROVE AtMostOneOwner(d)'
        BY DEF OneOwner
    <2>1. /\ Len(queue) \in Nat /\ Len(queue) > 0 /\ Len(queue') = Len(queue) - 1
          /\ \A i \in 1..Len(queue') : queue'[i] = queue[i + 1]
          /\ Head(queue) = queue[1] /\ wconn'[w] = queue[1]
        BY <1>14, <1>a, HeadTail DEF WorkerPop, TypeInv, TypeOK
    <2>2. HasOp(d)' <=> HasOp(d)
        BY <1>14 DEF WorkerPop, HasOp
    <2>3. \A i, j \in 1..Len(queue') : queue'[i] = d /\ queue'[j] = d => i = j
        BY <2>1 DEF OneOwner, AtMostOneOwner
    <2>4. CASE d = queue[1]
        <3>1. InQueue(d) /\ Holders(d) = {} /\ ~HasOp(d)
            BY <2>1, <2>4 DEF InQueue, OneOwner, AtMostOneOwner
        <3>2. ~InQueue(d)'
            BY <2>1, <2>4 DEF InQueue, OneOwner, AtMostOneOwner
        <3>3. \A v \in Holders(d)' : v = w
            BY <1>14, <3>1 DEF WorkerPop, Holders, TypeInv, TypeOK
        <3>4. QED
            BY <1>14, <2>2, <2>3, <3>1, <3>2, <3>3
               DEF WorkerPop, OneOwner, AtMostOneOwner
    <2>5. CASE d # queue[1]
        <3>1. InQueue(d)' => InQueue(d)
            BY <2>1 DEF InQueue
        <3>2. Holders(d)' = Holders(d)
            BY <1>14, <2>1, <2>5 DEF WorkerPop, Holders, TypeInv, TypeOK
        <3>3. QED
            BY <1>14, <2>2, <2>3, <3>1, <3>2 DEF WorkerPop, OneOwner, AtMostOneOwner
    <2>6. QED
        BY <2>4, <2>5
<1>15. ASSUME NEW w \in Workers, WorkerHandle(w) PROVE OneOwner'
    <2> SUFFICES ASSUME NEW d \in Conns PROVE AtMostOneOwner(d)'
        BY DEF OneOwner
    <2>1. Holders(d)' = Holders(d)
        BY <1>15 DEF WorkerHandle, Holders, TypeInv, TypeOK
    <2>2. (InQueue(d)' <=> InQueue(d)) /\ (HasOp(d)' <=> HasOp(d))
        BY <1>15 DEF WorkerHandle, InQueue, HasOp
    <2>3. QED
        BY <1>15, <2>1, <2>2 DEF WorkerHandle, OneOwner, AtMostOneOwner
<1>16. ASSUME NEW w \in Workers, WorkerWrite(w) PROVE OneOwner'
    <2> SUFFICES ASSUME NEW d \in Conns PROVE AtMostOneOwner(d)'
        BY DEF OneOwner
    <2> DEFINE c == wconn[w]
    <2>1. c \in Conns /\ w \in Holders(c)
        BY <1>16 DEF WorkerWrite, Holders, TypeInv, HandlesConn
    <2>2. InQueue(d)' <=> InQueue(d)
        BY <1>16 DEF WorkerWrite, InQueue
    <2>3. PICK x : x[1] = c /\ ops' = ops \cup {x}
        BY <1>16, <2>1, StartedOp DEF WorkerWrite
    <2>4. CASE d = c
        <3>1. ~HasOp(c) /\ ~InQueue(c) /\ \A v \in Holders(c) : v = w
            BY <2>1 DEF OneOwner, AtMostOneOwner
        <3>2. Holders(c)' = {}
            BY <1>16, <3>1 DEF WorkerWrite, Holders, TypeInv, TypeOK
        <3>3. \A o, p \in ops' : o[1] = c /\ p[1] = c => o = p
            BY <2>3, <3>1 DEF HasOp
        <3>4. QED
            BY <1>16, <2>2, <2>4, <3>1, <3>2, <3>3 DEF WorkerWrite, AtMostOneOwner, InQueue
    <2>5. CASE d # c
        <3>1. HasOp(d)' <=> HasOp(d)
            BY <2>3, <2>5 DEF HasOp
        <3>2. Holders(d)' = Holders(d)
            BY <1>16, <2>5 DEF WorkerWrite, Holders, TypeInv, TypeOK
        <3>3. QED
            BY <1>16, <2>2, <2>3, <2>5, <3>1, <3>2 DEF WorkerWrite, OneOwner, AtMostOneOwner
    <2>6. QED
        BY <2>4, <2>5
<1>17. ASSUME \/ Construct \/ ConstructThrows \/ RunRefused \/ RaiseSignal \/ RunReturns
              \/ AcceptCompletes \/ OnAcceptStopped \/ OnAcceptError
              \/ OnSignal \/ StopJoin
              \/ \E c \in Conns : ParserThrows(c) \/ ParserSpins(c)
              \/ \E w \in Workers : WorkerThrows(w)
              \/ UNCHANGED vars
       PROVE  OneOwner'
    BY <1>17, <1>1 DEF Construct, ConstructThrows, RunRefused, RaiseSignal, RunReturns, AcceptCompletes,
           OnAcceptStopped, OnAcceptError, OnSignal, StopJoin, ParserThrows, ParserSpins,
           WorkerThrows, vars
<1>18. QED
    BY <1>2, <1>3, <1>5, <1>6, <1>7, <1>8, <1>9, <1>11, <1>12, <1>13, <1>14, <1>15,
       <1>16, <1>17
       DEF Next, ServerStep, ConnectionStep, WorkerStep, StopStep, Ended, OnReadOk, OnWriteOk

\* A connection has at most one owner at any time: the io thread and the
\* workers never meet in it, for any number of connections and workers.
THEOREM OwnersSafe == Spec => []OneOwner
<1>1. Init => TypeInv /\ OneOwner
    <2>1. Init => TypeInv
        BY DEF Init, TypeInv, TypeOK, HandlesConn, Results, Headers
    <2>2. Init => OneOwner
        BY DEF Init, OneOwner, AtMostOneOwner, HasOp, InQueue, Holders
    <2>3. QED
        BY <2>1, <2>2
<1>2. QED
    BY <1>1, TypeInvStep, OneOwnerStep, PTL DEF Spec

-----------------------------------------------------------------------------
\* How far the server has come and what that says of its other state.
Stages ==
    /\ proc \in {"new", "built"} =>
           /\ stopping = "no" /\ accept = "none" /\ ops = {} /\ open = {}
           /\ \A w \in Workers : wpc[w] = "unstarted"
    /\ sig = "handled" <=> stopping # "no"
    /\ stopping # "no" => acceptor = "closed"
    /\ stopping \in {"closeall", "done"} => \A w \in Workers : wpc[w] = "done"
    /\ stopping = "done" => open = {}

StageInv == TypeInv /\ Stages /\ PoolOwnsLive /\ DrainedOnReturn

\* Every step goes on with starting and stopping in order.
LEMMA StagesStep == StageInv /\ [Next]_vars => Stages' /\ PoolOwnsLive' /\ DrainedOnReturn'
<1> SUFFICES ASSUME StageInv, [Next]_vars
             PROVE  Stages' /\ PoolOwnsLive' /\ DrainedOnReturn'
    OBVIOUS
<1> USE DEF StageInv, Stages, PoolOwnsLive, DrainedOnReturn, serverVars, poolVars, msgVars,
            workerVars
<1>1. CASE UNCHANGED vars
    BY <1>1 DEF vars
<1>2. ASSUME Construct \/ ConstructThrows \/ RunRefused \/ RaiseSignal
      PROVE  Stages' /\ PoolOwnsLive' /\ DrainedOnReturn'
    BY <1>2 DEF Construct, ConstructThrows, RunRefused, RaiseSignal, TypeInv, TypeOK
<1>3. ASSUME Run PROVE Stages' /\ PoolOwnsLive' /\ DrainedOnReturn'
    BY <1>3 DEF Run, TypeInv, TypeOK
<1>4. ASSUME RunReturns PROVE Stages' /\ PoolOwnsLive' /\ DrainedOnReturn'
    BY <1>4 DEF RunReturns, IoFree, TypeInv, TypeOK
<1>5. ASSUME AcceptCompletes \/ OnAcceptStopped \/ OnAcceptError
      PROVE  Stages' /\ PoolOwnsLive' /\ DrainedOnReturn'
    BY <1>5 DEF AcceptCompletes, OnAcceptStopped, OnAcceptError, IoFree, WorkersRun
<1>6. ASSUME NEW c \in Conns, OnAccept(c)
      PROVE  Stages' /\ PoolOwnsLive' /\ DrainedOnReturn'
    BY <1>6 DEF OnAccept, IoFree
<1>7. ASSUME NEW c \in Conns, OnReadBad(c) \/ OnReadMore(c) \/ OnReadFinished(c)
                               \/ OnWriteKeep(c) \/ ParserThrows(c) \/ ParserSpins(c)
      PROVE  Stages' /\ PoolOwnsLive' /\ DrainedOnReturn'
    BY <1>7 DEF OnReadBad, OnReadMore, OnReadFinished, OnWriteKeep, ParserThrows,
                ParserSpins, ReadData, IoFree
<1>8. ASSUME NEW c \in Conns, NEW kind \in {"read", "write"},
             OpCompletes(c, kind) \/ OnFailure(c, kind) \/ OnWriteClose(c)
      PROVE  Stages' /\ PoolOwnsLive' /\ DrainedOnReturn'
    BY <1>8 DEF OpCompletes, OnFailure, OnAborted, OnError, OnWriteClose, PoolClose,
                IoFree, WorkersRun
<1>9. ASSUME NEW w \in Workers, WorkerPop(w) \/ WorkerHandle(w) \/ WorkerThrows(w)
                                 \/ WorkerWrite(w) \/ WorkerRelay(w)
      PROVE  Stages' /\ PoolOwnsLive' /\ DrainedOnReturn'
    BY <1>9 DEF WorkerPop, WorkerHandle, WorkerThrows, WorkerWrite, WorkerRelay, WorkersRun
<1>10. ASSUME OnSignal PROVE Stages' /\ PoolOwnsLive' /\ DrainedOnReturn'
    BY <1>10 DEF OnSignal, IoFree
<1>11. ASSUME StopClear \/ StopPush \/ StopJoin
       PROVE  Stages' /\ PoolOwnsLive' /\ DrainedOnReturn'
    BY <1>11 DEF StopClear, StopPush, StopJoin
<1>12. ASSUME CloseAll PROVE Stages' /\ PoolOwnsLive' /\ DrainedOnReturn'
    BY <1>12 DEF CloseAll
<1>13. QED
    BY <1>1, <1>2, <1>3, <1>4, <1>5, <1>6, <1>7, <1>8, <1>9, <1>10, <1>11, <1>12
       DEF Next, ServerStep, ConnectionStep, WorkerStep, StopStep, Ended, OnReadOk, OnWriteOk

\* The constructor begins in the first stage, with nothing owned.
LEMMA StageInvInit == Init => StageInv /\ OneOwner
<1>1. Init => TypeInv
    BY DEF Init, TypeInv, TypeOK, HandlesConn, Results, Headers
<1>2. Init => Stages /\ PoolOwnsLive /\ DrainedOnReturn
    BY DEF Init, Stages, PoolOwnsLive, DrainedOnReturn
<1>3. Init => OneOwner
    BY DEF Init, OneOwner, AtMostOneOwner, HasOp, InQueue, Holders
<1>4. QED
    BY <1>1, <1>2, <1>3 DEF StageInv

\* Every step keeps types and stages together.
LEMMA StageInvariant == StageInv /\ [Next]_vars => StageInv'
BY TypeInvStep, StagesStep DEF StageInv

\* The pool owns exactly the live connections: CloseAll misses none.
THEOREM PoolSafe == Spec => []PoolOwnsLive
<1>1. StageInv => PoolOwnsLive
    BY DEF StageInv
<1>2. QED
    BY <1>1, StageInvInit, StageInvariant, PTL DEF Spec

\* When Run returns no connection, operation or worker is left.
THEOREM DrainedSafe == Spec => []DrainedOnReturn
<1>1. StageInv => DrainedOnReturn
    BY DEF StageInv
<1>2. QED
    BY <1>1, StageInvInit, StageInvariant, PTL DEF Spec

-----------------------------------------------------------------------------
\* Until CloseAll, whoever carries a connection on finds its socket open.
OwnersOpen ==
    /\ WorkerSocketOpen
    /\ stopping # "done" => \A c \in Conns : HasOp(c) \/ InQueue(c) => c \in open

OwnerInv == StageInv /\ OneOwner /\ OwnersOpen

\* No step closes the socket of a connection that someone carries on.
LEMMA OwnersOpenStep == OwnerInv /\ [Next]_vars => OwnersOpen'
<1> SUFFICES ASSUME OwnerInv, [Next]_vars PROVE OwnersOpen'
    OBVIOUS
<1> USE DEF serverVars, poolVars, msgVars, workerVars
<1>a. /\ ops \in SUBSET Ops /\ queue \in Seq(Conns \cup {Null})
      /\ TypeInv /\ TypeOK /\ OneOwner /\ Stages
    BY DEF OwnerInv, StageInv, TypeInv, TypeOK
<1>b. /\ WorkerSocketOpen
      /\ stopping # "done" => \A c \in Conns : HasOp(c) \/ InQueue(c) => c \in open
    BY DEF OwnerInv, OwnersOpen
<1>1. ASSUME UNCHANGED <<open, queue, wpc, wconn, stopping>>,
             \A p \in ops' : \E o \in ops : p[1] = o[1]
      PROVE  OwnersOpen'
    BY <1>1, <1>b DEF OwnersOpen, WorkerSocketOpen, HasOp, InQueue
<1>2. CASE UNCHANGED vars
    BY <1>1, <1>2 DEF vars
<1>3. ASSUME Run PROVE OwnersOpen'
    BY <1>3, <1>b DEF Run, OwnersOpen, WorkerSocketOpen, HasOp, InQueue
<1>4. ASSUME NEW c \in Conns, OnAccept(c) PROVE OwnersOpen'
    BY <1>4, <1>b DEF OnAccept, OwnersOpen, WorkerSocketOpen, HasOp, InQueue
<1>5. ASSUME NEW c \in Conns, OnReadBad(c) \/ OnReadMore(c) \/ OnWriteKeep(c) PROVE OwnersOpen'
    BY <1>5, <1>1, StartedOp DEF OnReadBad, OnReadMore, OnWriteKeep, ReadData
<1>6. ASSUME NEW c \in Conns, NEW kind \in {"read", "write"},
             OpCompletes(c, kind) \/ OnAborted(c, kind)
      PROVE  OwnersOpen'
    BY <1>6, <1>1 DEF OpCompletes, OnAborted
<1>7. ASSUME NEW c \in Conns, NEW o \in ops, o[1] = c, PoolClose(c, ops \ {o}),
             UNCHANGED <<queue, wpc, wconn, stopping>>
      PROVE  OwnersOpen'
    <2>1. HasOp(c)
        BY <1>7 DEF HasOp
    <2>2. ~InQueue(c) /\ Holders(c) = {} /\ \A p \in ops : p[1] = c => p = o
        BY <1>7, <2>1, <1>a DEF OneOwner, AtMostOneOwner
    <2>3. \A p \in ops' : \E q \in ops : q # o /\ p[1] = q[1]
        BY <1>7, <1>a, CancelledOps DEF PoolClose
    <2>4. ASSUME NEW d \in Conns, HasOp(d)' \/ InQueue(d)'
          PROVE  (HasOp(d) \/ InQueue(d)) /\ d # c
        BY <1>7, <2>2, <2>3, <2>4 DEF HasOp, InQueue
    <2>5. WorkerSocketOpen'
        BY <1>7, <1>a, <1>b, <2>2
           DEF PoolClose, WorkerSocketOpen, Holders, TypeInv, HandlesConn
    <2>6. QED
        BY <1>7, <1>b, <2>4, <2>5 DEF PoolClose, OwnersOpen
<1>8. ASSUME NEW c \in Conns, NEW kind \in {"read", "write"}, OnError(c, kind) \/ OnWriteClose(c)
      PROVE  OwnersOpen'
    BY <1>8, <1>7 DEF OnError, OnWriteClose
<1>9. ASSUME NEW c \in Conns, OnReadFinished(c) PROVE OwnersOpen'
    <2>1. HasOp(c)
        BY <1>9 DEF OnReadFinished, ReadData, HasOp
    <2>2. \A d \in Conns : InQueue(d)' => InQueue(d) \/ d = c
        BY <1>9, <1>a, AppendLast DEF OnReadFinished, InQueue
    <2>3. \A d \in Conns : HasOp(d)' => HasOp(d)
        BY <1>9 DEF OnReadFinished, HasOp
    <2>4. QED
        BY <1>9, <1>b, <2>1, <2>2, <2>3 DEF OnReadFinished, OwnersOpen, WorkerSocketOpen
<1>10. ASSUME NEW w \in Workers, WorkerPop(w) PROVE OwnersOpen'
    <2>1. \A d \in Conns : (InQueue(d)' => InQueue(d)) /\ (HasOp(d)' <=> HasOp(d))
        BY <1>10, <1>a, HeadTail DEF WorkerPop, InQueue, HasOp
    <2>2. Head(queue) \in Conns => InQueue(Head(queue))
        BY <1>10, <1>a, HeadTail DEF WorkerPop, InQueue
    <2>3. Head(queue) \in Conns \cup {Null} /\ stopping # "done"
        BY <1>10, <1>a, HeadTail DEF WorkerPop, Stages
    <2>4. WorkerSocketOpen'
        BY <1>10, <1>a, <1>b, <2>2, <2>3 DEF WorkerPop, WorkerSocketOpen, TypeOK
    <2>5. QED
        BY <1>10, <1>b, <2>1, <2>4 DEF WorkerPop, OwnersOpen
<1>11. ASSUME NEW w \in Workers, WorkerHandle(w) PROVE OwnersOpen'
    BY <1>11, <1>a, <1>b DEF WorkerHandle, OwnersOpen, WorkerSocketOpen, HasOp, InQueue, TypeOK
<1>12. ASSUME NEW w \in Workers, WorkerWrite(w) PROVE OwnersOpen'
    <2>1. wconn[w] \in open /\ wconn[w] \in Conns
        BY <1>12, <1>a, <1>b DEF WorkerWrite, WorkerSocketOpen, TypeInv, HandlesConn
    <2>2. \A d \in Conns : (HasOp(d)' => HasOp(d) \/ d = wconn[w]) /\ (InQueue(d)' <=> InQueue(d))
        BY <1>12, <2>1, StartedOp DEF WorkerWrite, HasOp, InQueue
    <2>3. QED
        BY <1>12, <1>a, <1>b, <2>1, <2>2 DEF WorkerWrite, OwnersOpen, WorkerSocketOpen, TypeOK
<1>13. ASSUME NEW w \in Workers, WorkerRelay(w) PROVE OwnersOpen'
    <2>1. \A d \in Conns : (InQueue(d)' => InQueue(d)) /\ (HasOp(d)' <=> HasOp(d))
        BY <1>13, <1>a, AppendLast, NullIsNoConn DEF WorkerRelay, InQueue, HasOp
    <2>2. QED
        BY <1>13, <1>a, <1>b, <2>1 DEF WorkerRelay, OwnersOpen, WorkerSocketOpen, TypeOK
<1>14. ASSUME OnSignal \/ StopJoin PROVE OwnersOpen'
    BY <1>14, <1>b DEF OnSignal, StopJoin, IoFree, OwnersOpen, WorkerSocketOpen, HasOp,
                       InQueue, Stages, OwnerInv, StageInv
<1>15. ASSUME StopClear PROVE OwnersOpen'
    <2>1. \A d \in Conns : ~InQueue(d)' /\ (HasOp(d)' <=> HasOp(d))
        BY <1>15 DEF StopClear, InQueue, HasOp
    <2>2. QED
        BY <1>15, <1>b, <2>1 DEF StopClear, OwnersOpen, WorkerSocketOpen
<1>16. ASSUME StopPush PROVE OwnersOpen'
    <2>1. \A d \in Conns : (InQueue(d)' => InQueue(d)) /\ (HasOp(d)' <=> HasOp(d))
        BY <1>16, <1>a, AppendLast, NullIsNoConn DEF StopPush, InQueue, HasOp
    <2>2. QED
        BY <1>16, <1>b, <2>1 DEF StopPush, OwnersOpen, WorkerSocketOpen
<1>17. ASSUME CloseAll PROVE OwnersOpen'
    BY <1>17, <1>a DEF CloseAll, Stages, OwnersOpen, WorkerSocketOpen
<1>18. ASSUME \/ Construct \/ ConstructThrows \/ RunRefused \/ RaiseSignal \/ RunReturns
              \/ AcceptCompletes \/ OnAcceptStopped \/ OnAcceptError
              \/ \E c \in Conns : ParserThrows(c) \/ ParserSpins(c)
              \/ \E w \in Workers : WorkerThrows(w)
       PROVE  OwnersOpen'
    BY <1>18, <1>1 DEF Construct, ConstructThrows, RunRefused, RaiseSignal, RunReturns, AcceptCompletes,
           OnAcceptStopped, OnAcceptError, ParserThrows, ParserSpins, WorkerThrows
<1>19. QED
    BY <1>2, <1>3, <1>4, <1>5, <1>6, <1>8, <1>9, <1>10, <1>11, <1>12, <1>13, <1>14,
       <1>15, <1>16, <1>17, <1>18
       DEF Next, ServerStep, ConnectionStep, WorkerStep, StopStep, Ended, OnReadOk, OnWriteOk,
           OnFailure

\* The invariant of owners and sockets holds at first and is kept.
LEMMA OwnerInvariant == (Init => OwnerInv) /\ (OwnerInv /\ [Next]_vars => OwnerInv')
<1>1. Init => OwnersOpen
    BY DEF Init, OwnersOpen, WorkerSocketOpen, HasOp, InQueue
<1>2. QED
    BY <1>1, StageInvInit, StageInvariant, OneOwnerStep, OwnersOpenStep
       DEF OwnerInv, StageInv

\* No worker is ever left with a connection whose socket was closed under it.
THEOREM SocketsSafe == Spec => []WorkerSocketOpen
<1>1. OwnerInv => WorkerSocketOpen
    BY DEF OwnerInv, OwnersOpen
<1>2. QED
    BY <1>1, OwnerInvariant, PTL DEF Spec

-----------------------------------------------------------------------------
\* The header a worker put into a response still holds when it starts the
\* write.
Announced ==
    /\ AnnouncedKept
    /\ \A w \in Workers : wpc[w] = "write" =>
           response[wconn[w]] = HeaderFor(keep[wconn[w]])

KeepInv == TypeInv /\ OneOwner /\ Announced

\* No step changes the request or the header of a response under way.
LEMMA AnnouncedStep == KeepInv /\ [Next]_vars => Announced'
<1> SUFFICES ASSUME KeepInv, [Next]_vars PROVE Announced'
    OBVIOUS
<1> USE DEF serverVars, poolVars, msgVars, workerVars
<1>a. /\ ops \in SUBSET Ops /\ TypeInv /\ TypeOK /\ OneOwner
      /\ keep \in [Conns -> BOOLEAN] /\ response \in [Conns -> Headers]
    BY DEF KeepInv, TypeInv, TypeOK
<1>b. /\ \A c \in Conns : Writing(c) => response[c] = HeaderFor(keep[c])
      /\ \A w \in Workers : wpc[w] = "write" =>
             response[wconn[w]] = HeaderFor(keep[wconn[w]])
    BY DEF KeepInv, Announced, AnnouncedKept
<1>1. ASSUME UNCHANGED <<keep, response, wpc, wconn>>,
             \A p \in ops' : \E o \in ops : p[1] = o[1] /\ p[2] = o[2]
      PROVE  Announced'
    BY <1>1, <1>b DEF Announced, AnnouncedKept, Writing
<1>2. CASE UNCHANGED vars
    BY <1>1, <1>2 DEF vars
<1>3. ASSUME Run PROVE Announced'
    BY <1>3, <1>b DEF Run, Announced, AnnouncedKept, Writing
\* A step on a connection no worker holds, whose only operation it renews.
<1>4. ASSUME NEW c \in Conns, Holders(c) = {}, UNCHANGED <<wpc, wconn>>,
             \A d \in Conns \ {c} : keep'[d] = keep[d] /\ response'[d] = response[d],
             \A d \in Conns \ {c} : Writing(d)' => Writing(d),
             Writing(c)' => response'[c] = HeaderFor(keep'[c])
      PROVE  Announced'
    <2>1. AnnouncedKept'
        BY <1>4, <1>b DEF AnnouncedKept
    <2>2. \A w \in Workers : wpc[w] = "write" => wconn[w] \in Conns \ {c}
        BY <1>4, <1>a DEF Holders, TypeInv, HandlesConn
    <2>3. QED
        BY <1>4, <1>b, <2>1, <2>2 DEF Announced
<1>5. ASSUME NEW c \in Conns, OnAccept(c) PROVE Announced'
    <2>1. Holders(c) = {} /\ ~HasOp(c)
        BY <1>5 DEF OnAccept, Free
    <2>2. ~Writing(c)'
        BY <1>5, <2>1 DEF OnAccept, Writing, HasOp
    <2>3. \A d \in Conns \ {c} : Writing(d)' => Writing(d)
        BY <1>5 DEF OnAccept, Writing
    <2>4. \A d \in Conns \ {c} : keep'[d] = keep[d] /\ response'[d] = response[d]
        BY <1>5, <1>a DEF OnAccept
    <2>5. QED
        BY <1>5, <1>4, <2>1, <2>2, <2>3, <2>4 DEF OnAccept
<1>6. ASSUME NEW c \in Conns, OnReadBad(c) \/ OnReadMore(c) \/ OnReadFinished(c)
      PROVE  Announced'
    <2>1. HasOp(c) /\ <<c, "read", "ok">> \in ops
        BY <1>6 DEF OnReadBad, OnReadMore, OnReadFinished, ReadData, HasOp
    <2>2. Holders(c) = {} /\ \A p \in ops : p[1] = c => p = <<c, "read", "ok">>
        BY <2>1, <1>a DEF OneOwner, AtMostOneOwner
    <2>3. \A d \in Conns \ {c} : keep'[d] = keep[d] /\ response'[d] = response[d]
        BY <1>6, <1>a DEF OnReadBad, OnReadMore, OnReadFinished, ReadData
    <2>4. \A d \in Conns \ {c} : Writing(d)' => Writing(d)
        BY <1>6, StartedOp DEF OnReadBad, OnReadMore, OnReadFinished, Writing
    <2>5. Writing(c)' => response'[c] = HeaderFor(keep'[c])
        <3>1. CASE OnReadBad(c)
            BY <3>1, <1>a DEF OnReadBad
        <3>2. CASE OnReadMore(c)
            BY <3>2, <2>2, StartedOp DEF OnReadMore, Writing
        <3>3. CASE OnReadFinished(c)
            BY <3>3, <2>2 DEF OnReadFinished, Writing
        <3>4. QED
            BY <1>6, <3>1, <3>2, <3>3
    <2>6. QED
        BY <1>6, <1>4, <2>2, <2>3, <2>4, <2>5 DEF OnReadBad, OnReadMore, OnReadFinished
<1>7. ASSUME NEW c \in Conns, OnWriteKeep(c) PROVE Announced'
    <2>1. HasOp(c) /\ <<c, "write", "ok">> \in ops
        BY <1>7 DEF OnWriteKeep, HasOp
    <2>2. Holders(c) = {} /\ \A p \in ops : p[1] = c => p = <<c, "write", "ok">>
        BY <2>1, <1>a DEF OneOwner, AtMostOneOwner
    <2>3. \A d \in Conns \ {c} : keep'[d] = keep[d] /\ response'[d] = response[d]
        BY <1>7, <1>a DEF OnWriteKeep
    <2>4. ~Writing(c)' /\ \A d \in Conns \ {c} : Writing(d)' => Writing(d)
        BY <1>7, <2>2, StartedOp DEF OnWriteKeep, Writing
    <2>5. QED
        BY <1>7, <1>4, <2>2, <2>3, <2>4 DEF OnWriteKeep
<1>8. ASSUME NEW c \in Conns, NEW kind \in {"read", "write"},
             OpCompletes(c, kind) \/ OnFailure(c, kind) \/ OnWriteClose(c)
      PROVE  Announced'
    <2>1. CASE OpCompletes(c, kind)
        BY <2>1, <1>1 DEF OpCompletes
    <2>2. CASE OnAborted(c, kind)
        BY <2>2, <1>1 DEF OnAborted
    <2>3. CASE OnError(c, kind) \/ OnWriteClose(c)
        <3>1. PICK o \in ops : ops' = Cancelled({c}, ops \ {o})
            BY <2>3 DEF OnError, OnWriteClose, PoolClose
        <3>2. \A p \in ops' : \E q \in ops : p[1] = q[1] /\ p[2] = q[2]
            BY <3>1, <1>a, CancelledOps
        <3>3. QED
            BY <2>3, <3>2, <1>1 DEF OnError, OnWriteClose
    <2>4. QED
        BY <1>8, <2>1, <2>2, <2>3 DEF OnFailure
<1>9. ASSUME NEW w \in Workers, WorkerPop(w) \/ WorkerRelay(w) PROVE Announced'
    BY <1>9, <1>a, <1>b DEF WorkerPop, WorkerRelay, Announced, AnnouncedKept, Writing, TypeOK
<1>10. ASSUME NEW w \in Workers, WorkerHandle(w) PROVE Announced'
    <2> DEFINE c == wconn[w]
    <2>1. c \in Conns /\ w \in Holders(c)
        BY <1>10, <1>a DEF WorkerHandle, Holders, TypeInv, HandlesConn
    <2>2. ~HasOp(c) /\ \A v \in Holders(c) : v = w
        BY <2>1, <1>a DEF OneOwner, AtMostOneOwner
    <2>3. /\ response'[c] = HeaderFor(keep'[c]) /\ keep' = keep
          /\ \A d \in Conns \ {c} : response'[d] = response[d]
        BY <1>10, <1>a, <2>1 DEF WorkerHandle
    <2>4. \A d \in Conns : Writing(d)' <=> Writing(d)
        BY <1>10 DEF WorkerHandle, Writing
    <2>5. AnnouncedKept'
        BY <1>b, <2>3, <2>4 DEF AnnouncedKept
    <2>6. \A v \in Workers \ {w} : wpc'[v] = wpc[v] /\ wconn' = wconn
        BY <1>10, <1>a DEF WorkerHandle, TypeOK
    <2>7. \A v \in Workers \ {w} : wpc[v] = "write" => wconn[v] \in Conns \ {c}
        BY <1>a, <2>2 DEF Holders, TypeInv, HandlesConn
    <2>8. wconn'[w] = c
        BY <1>10 DEF WorkerHandle
    <2> HIDE DEF c
    <2>9. QED
        BY <1>b, <2>3, <2>5, <2>6, <2>7, <2>8 DEF Announced
<1>11. ASSUME NEW w \in Workers, WorkerWrite(w) PROVE Announced'
    <2>1. wconn[w] \in Conns
        BY <1>11, <1>a DEF WorkerWrite, TypeInv, HandlesConn
    <2>2. \A d \in Conns : Writing(d)' => Writing(d) \/ d = wconn[w]
        BY <1>11, <2>1, StartedOp DEF WorkerWrite, Writing
    <2>3. AnnouncedKept'
        BY <1>11, <1>b, <2>2 DEF WorkerWrite, AnnouncedKept
    <2>4. QED
        BY <1>11, <1>a, <1>b, <2>3 DEF WorkerWrite, Announced, TypeOK
<1>12. ASSUME CloseAll PROVE Announced'
    BY <1>12, <1>1, <1>a, CloseAllOps DEF CloseAll
<1>13. ASSUME \/ Construct \/ ConstructThrows \/ RunRefused \/ RaiseSignal \/ RunReturns
              \/ AcceptCompletes \/ OnAcceptStopped \/ OnAcceptError
              \/ \E c \in Conns : ParserThrows(c) \/ ParserSpins(c)
              \/ \E w \in Workers : WorkerThrows(w)
              \/ OnSignal \/ StopClear \/ StopPush \/ StopJoin
       PROVE  Announced'
    BY <1>13, <1>1 DEF Construct, ConstructThrows, RunRefused, RaiseSignal, RunReturns, AcceptCompletes,
           OnAcceptStopped, OnAcceptError, ParserThrows, ParserSpins, WorkerThrows,
           OnSignal, StopClear, StopPush, StopJoin
<1>14. QED
    BY <1>2, <1>3, <1>5, <1>6, <1>7, <1>8, <1>9, <1>10, <1>11, <1>12, <1>13
       DEF Next, ServerStep, ConnectionStep, WorkerStep, StopStep, Ended, OnReadOk, OnWriteOk

\* What OnWrite does with the connection is what the response it wrote
\* announced.
THEOREM AnnouncedSafe == Spec => []AnnouncedKept
<1>1. Init => KeepInv
    <2>1. Init => Announced
        BY DEF Init, Announced, AnnouncedKept, Writing
    <2>2. QED
        BY <2>1, StageInvInit DEF KeepInv, StageInv
<1>2. KeepInv /\ [Next]_vars => KeepInv'
    BY TypeInvStep, OneOwnerStep, AnnouncedStep DEF KeepInv
<1>3. KeepInv => AnnouncedKept
    BY DEF KeepInv, Announced
<1>4. QED
    BY <1>1, <1>2, <1>3, PTL DEF Spec

-----------------------------------------------------------------------------
\* OnRead and OnWrite may leave an aborted operation alone: its connection is
\* no longer in the pool.
AbortedLeft == \A o \in ops : o[3] = "aborted" => o[1] \notin connections

AttendInv == OwnerInv /\ AbortedLeft /\ Attended

\* An operation is aborted by closing, which takes the connection out of the pool.
LEMMA AbortedLeftStep == OwnerInv /\ AbortedLeft /\ [Next]_vars => AbortedLeft'
<1> SUFFICES ASSUME OwnerInv, AbortedLeft, [Next]_vars PROVE AbortedLeft'
    OBVIOUS
<1> USE DEF serverVars, poolVars, msgVars, workerVars, AbortedLeft
<1>a. ops \in SUBSET Ops /\ TypeInv /\ OneOwner
    BY DEF OwnerInv, StageInv, TypeInv, TypeOK
\* Most steps start or complete operations, which aborts none.
<1>1. ASSUME connections' \subseteq connections,
             \A p \in ops' : p \in ops \/ p[3] # "aborted"
      PROVE  AbortedLeft'
    BY <1>1
<1>2. ASSUME NEW c \in Conns, OnAccept(c) PROVE AbortedLeft'
    BY <1>2 DEF OnAccept, Free, HasOp
<1>3. ASSUME NEW c \in Conns, OnReadBad(c) \/ OnReadMore(c) \/ OnReadFinished(c) \/ OnWriteKeep(c)
      PROVE  AbortedLeft'
    BY <1>1, <1>3 DEF OnReadBad, OnReadMore, OnReadFinished, OnWriteKeep, Started
<1>4. ASSUME NEW c \in Conns, NEW kind \in {"read", "write"},
             OpCompletes(c, kind) \/ OnAborted(c, kind)
      PROVE  AbortedLeft'
    BY <1>1, <1>4 DEF OpCompletes, OnAborted
\* A closed connection leaves the pool, and none of the others loses an operation.
<1>5. ASSUME NEW c \in Conns, NEW kind \in {"read", "write"}, OnError(c, kind) \/ OnWriteClose(c)
      PROVE  AbortedLeft'
    <2>1. PICK o \in ops : connections' = connections \ {c} /\ ops' = Cancelled({c}, ops \ {o})
        BY <1>5 DEF OnError, OnWriteClose, PoolClose
    <2>2. \A p \in ops' : p \in ops \/ p[1] = c
        BY <2>1 DEF Cancelled
    <2>3. QED
        BY <2>1, <2>2
<1>6. ASSUME NEW w \in Workers, WorkerWrite(w) PROVE AbortedLeft'
    BY <1>1, <1>6 DEF WorkerWrite, Started
<1>7. ASSUME CloseAll PROVE AbortedLeft'
    BY <1>7 DEF CloseAll
<1>8. ASSUME \/ Construct \/ ConstructThrows \/ RunRefused \/ Run \/ RaiseSignal \/ RunReturns
             \/ AcceptCompletes \/ OnAcceptStopped \/ OnAcceptError
             \/ \E c \in Conns : ParserThrows(c) \/ ParserSpins(c)
             \/ \E w \in Workers : WorkerPop(w) \/ WorkerHandle(w) \/ WorkerThrows(w) \/ WorkerRelay(w)
             \/ OnSignal \/ StopClear \/ StopPush \/ StopJoin \/ UNCHANGED vars
      PROVE  AbortedLeft'
    BY <1>8, <1>1 DEF Construct, ConstructThrows, RunRefused, Run, RaiseSignal, RunReturns,
           AcceptCompletes, OnAcceptStopped, OnAcceptError, ParserThrows, ParserSpins,
           WorkerPop, WorkerHandle, WorkerThrows, WorkerRelay, OnSignal, StopClear, StopPush,
           StopJoin, vars
<1>9. QED
    BY <1>2, <1>3, <1>4, <1>5, <1>6, <1>7, <1>8
       DEF Next, ServerStep, ConnectionStep, WorkerStep, StopStep, Ended, OnReadOk, OnWriteOk,
           OnFailure

\* Someone carries the connection on.
Carried(c) == HasOp(c) \/ InQueue(c) \/ Holders(c) # {}

\* No step drops a connection of the pool.
LEMMA AttendedStep == AttendInv /\ [Next]_vars => Attended'
<1> SUFFICES ASSUME AttendInv, [Next]_vars PROVE Attended'
    OBVIOUS
<1> USE DEF serverVars, poolVars, msgVars, workerVars
<1>a. /\ ops \in SUBSET Ops /\ queue \in Seq(Conns \cup {Null}) /\ connections \subseteq Conns
      /\ TypeInv /\ TypeOK /\ OneOwner /\ Stages /\ PoolOwnsLive /\ AbortedLeft
    BY DEF AttendInv, OwnerInv, StageInv, TypeInv, TypeOK
<1>b. \A c \in connections : Carried(c) \/ stopping \in {"push", "join", "closeall"}
    BY DEF AttendInv, Attended, Carried
<1>1. ASSUME connections' \subseteq connections, stopping' = stopping \/ stopping = "no",
             \A c \in connections' : Carried(c) => Carried(c)'
      PROVE  Attended'
    BY <1>1, <1>b DEF Attended, Carried
\* Steps that give up no operation, place in the queue or worker.
<1>2. ASSUME connections' \subseteq connections, stopping' = stopping \/ stopping = "no",
             UNCHANGED <<queue, wpc, wconn>>,
             \A o \in ops : o[1] \in connections' => \E p \in ops' : p[1] = o[1]
      PROVE  Attended'
    BY <1>2, <1>1 DEF Carried, HasOp, InQueue, Holders
<1>3. ASSUME Run PROVE Attended'
    BY <1>3, <1>a DEF Run, Stages, PoolOwnsLive, Attended
<1>4. ASSUME NEW c \in Conns, OnAccept(c) PROVE Attended'
    <2>1. <<c, "read", "pending">> \in ops' /\ <<c, "read", "pending">>[1] = c
        BY <1>4 DEF OnAccept
    <2>2. HasOp(c)' /\ \A d \in connections : HasOp(d) => HasOp(d)'
        BY <1>4, <2>1 DEF OnAccept, HasOp
    <2>3. \A d \in connections : (InQueue(d)' <=> InQueue(d)) /\ Holders(d)' = Holders(d)
        BY <1>4 DEF OnAccept, InQueue, Holders
    <2>4. QED
        BY <1>4, <1>b, <2>2, <2>3 DEF OnAccept, Attended, Carried
<1>5. ASSUME NEW c \in Conns, OnReadBad(c) \/ OnReadMore(c) \/ OnWriteKeep(c)
      PROVE  Attended'
    BY <1>5, <1>2, StartedOp DEF OnReadBad, OnReadMore, OnWriteKeep, ReadData
<1>6. ASSUME NEW c \in Conns, OnReadFinished(c) PROVE Attended'
    <2>1. InQueue(c)' /\ \A d \in Conns : InQueue(d) => InQueue(d)'
        BY <1>6, <1>a, AppendLast DEF OnReadFinished, InQueue
    <2>2. \A d \in Conns \ {c} : HasOp(d) => HasOp(d)'
        BY <1>6 DEF OnReadFinished, HasOp
    <2>3. \A d \in Conns : Holders(d)' = Holders(d)
        BY <1>6 DEF OnReadFinished, Holders
    <2>4. QED
        BY <1>6, <1>1, <1>a, <2>1, <2>2, <2>3 DEF OnReadFinished, Carried
<1>7. ASSUME NEW c \in Conns, NEW kind \in {"read", "write"}, OpCompletes(c, kind)
      PROVE  Attended'
    <2>1. PICK r \in {"ok", "error"} :
              ops' = (ops \ {<<c, kind, "pending">>}) \cup {<<c, kind, r>>}
        BY <1>7 DEF OpCompletes
    <2>2. \A o \in ops : \E p \in ops' : p[1] = o[1]
        <3> TAKE o \in ops
        <3>1. CASE o = <<c, kind, "pending">>
            <4>1. <<c, kind, r>> \in ops' /\ <<c, kind, r>>[1] = c /\ o[1] = c
                BY <2>1, <3>1
            <4>2. QED
                BY <4>1
        <3>2. CASE o # <<c, kind, "pending">>
            BY <2>1, <3>2
        <3>3. QED
            BY <3>1, <3>2
    <2>3. QED
        BY <1>7, <1>2, <2>2 DEF OpCompletes
\* The aborted operation is of a connection that left the pool.
<1>8. ASSUME NEW c \in Conns, NEW kind \in {"read", "write"}, OnAborted(c, kind)
      PROVE  Attended'
    <2>1. c \notin connections
        BY <1>8, <1>a DEF OnAborted, AbortedLeft
    <2>2. QED
        BY <1>8, <1>2, <2>1 DEF OnAborted
<1>9. ASSUME NEW c \in Conns, NEW kind \in {"read", "write"}, OnError(c, kind) \/ OnWriteClose(c)
      PROVE  Attended'
    <2>1. PICK o \in ops : /\ o[1] = c
                           /\ connections' = connections \ {c}
                           /\ ops' = Cancelled({c}, ops \ {o})
        BY <1>9 DEF OnError, OnWriteClose, PoolClose
    <2>2. \A q \in ops \ {o} : \E p \in ops' : p[1] = q[1]
        BY <2>1, <1>a, CancelledOps
    <2>3. QED
        BY <1>9, <1>2, <2>1, <2>2 DEF OnError, OnWriteClose
<1>10. ASSUME NEW w \in Workers, WorkerPop(w) PROVE Attended'
    <2>1. \A d \in Conns : InQueue(d) => InQueue(d)' \/ d = Head(queue)
        BY <1>10, <1>a, HeadTail DEF WorkerPop, InQueue
    <2>2. \A d \in Conns : d = Head(queue) => w \in Holders(d)'
        BY <1>10, <1>a, NullIsNoConn DEF WorkerPop, Holders, TypeOK
    <2>3. \A d \in Conns : Holders(d) \subseteq Holders(d)'
        BY <1>10, <1>a DEF WorkerPop, Holders, TypeOK
    <2>4. \A d \in Conns : HasOp(d)' <=> HasOp(d)
        BY <1>10 DEF WorkerPop, HasOp
    <2>5. QED
        BY <1>10, <1>1, <1>a, <2>1, <2>2, <2>3, <2>4 DEF WorkerPop, Carried
<1>11. ASSUME NEW w \in Workers, WorkerHandle(w) PROVE Attended'
    <2>1. \A d \in Conns : Holders(d) \subseteq Holders(d)'
        BY <1>11, <1>a DEF WorkerHandle, Holders, TypeOK
    <2>2. QED
        BY <1>11, <1>1, <1>a, <2>1 DEF WorkerHandle, Carried, HasOp, InQueue
<1>12. ASSUME NEW w \in Workers, WorkerWrite(w) PROVE Attended'
    <2>1. HasOp(wconn[w])' /\ \A d \in Conns : HasOp(d) => HasOp(d)'
        BY <1>12, <1>a, StartedOp DEF WorkerWrite, HasOp, TypeInv, HandlesConn
    <2>2. \A d \in Conns : Holders(d) # {} => Holders(d)' # {} \/ d = wconn[w]
        BY <1>12, <1>a DEF WorkerWrite, Holders, TypeOK
    <2>3. \A d \in Conns : InQueue(d)' <=> InQueue(d)
        BY <1>12 DEF WorkerWrite, InQueue
    <2>4. QED
        BY <1>12, <1>1, <1>a, <2>1, <2>2, <2>3 DEF WorkerWrite, Carried
<1>13. ASSUME NEW w \in Workers, WorkerRelay(w) PROVE Attended'
    <2>1. \A d \in Conns : InQueue(d) => InQueue(d)'
        BY <1>13, <1>a, AppendLast DEF WorkerRelay, InQueue
    <2>2. \A d \in Conns : Holders(d)' = Holders(d) /\ (HasOp(d)' <=> HasOp(d))
        BY <1>13, <1>a DEF WorkerRelay, Holders, HasOp, TypeOK
    <2>3. QED
        BY <1>13, <1>1, <1>a, <2>1, <2>2 DEF WorkerRelay, Carried
<1>14. ASSUME StopClear \/ StopPush \/ StopJoin \/ CloseAll PROVE Attended'
    BY <1>14 DEF StopClear, StopPush, StopJoin, CloseAll, Attended
<1>15. ASSUME OnSignal PROVE Attended'
    <2>1. stopping = "no"
        BY <1>15, <1>a DEF OnSignal, Stages
    <2>2. QED
        BY <1>15, <1>2, <2>1 DEF OnSignal
<1>16. ASSUME \/ Construct \/ ConstructThrows \/ RunRefused \/ RaiseSignal \/ RunReturns
              \/ AcceptCompletes \/ OnAcceptStopped \/ OnAcceptError
              \/ \E c \in Conns : ParserThrows(c) \/ ParserSpins(c)
              \/ \E w \in Workers : WorkerThrows(w)
              \/ UNCHANGED vars
       PROVE  Attended'
    BY <1>16, <1>2 DEF Construct, ConstructThrows, RunRefused, RaiseSignal, RunReturns,
           AcceptCompletes, OnAcceptStopped, OnAcceptError, ParserThrows, ParserSpins,
           WorkerThrows, vars
<1>17. QED
    BY <1>3, <1>4, <1>5, <1>6, <1>7, <1>8, <1>9, <1>10, <1>11, <1>12, <1>13, <1>14,
       <1>15, <1>16
       DEF Next, ServerStep, ConnectionStep, WorkerStep, StopStep, Ended, OnReadOk, OnWriteOk,
           OnFailure

\* No connection of the pool is ever forgotten: an operation, the queue or a
\* worker has it, or the running Stop is about to close it.
THEOREM AttendedSafe == Spec => []Attended
<1>1. Init => AttendInv
    <2>1. Init => AbortedLeft /\ Attended
        BY DEF Init, AbortedLeft, Attended
    <2>2. QED
        BY <2>1, OwnerInvariant DEF AttendInv
<1>2. AttendInv /\ [Next]_vars => AttendInv'
    BY OwnerInvariant, AbortedLeftStep, AttendedStep DEF AttendInv
<1>3. AttendInv => Attended
    BY DEF AttendInv
<1>4. QED
    BY <1>1, <1>2, <1>3, PTL DEF Spec

-----------------------------------------------------------------------------
\* The refinement of HttpConnection.  A connection's phase depends on these
\* four facts only.
LEMMA SamePhase ==
    ASSUME NEW c \in Conns, Writing(c)' <=> Writing(c), HasOp(c)' <=> HasOp(c),
           InQueue(c)' <=> InQueue(c), Holders(c)' = {} <=> Holders(c) = {}
    PROVE  Phase(c)' = Phase(c)
BY DEF Phase

\* A step that renews operations, each with one of its kind, is none of
\* HttpConnection's.
LEMMA SameKinds ==
    ASSUME UNCHANGED <<queue, wpc, wconn>>,
           \A p \in ops' : \E o \in ops : p[1] = o[1] /\ p[2] = o[2],
           \A o \in ops : \E p \in ops' : p[1] = o[1] /\ p[2] = o[2]
    PROVE  \A c \in Conns : Phase(c)' = Phase(c)
<1> TAKE c \in Conns
<1>1. (Writing(c)' <=> Writing(c)) /\ (HasOp(c)' <=> HasOp(c))
    BY DEF Writing, HasOp
<1>2. (InQueue(c)' <=> InQueue(c)) /\ Holders(c)' = Holders(c)
    BY DEF InQueue, Holders
<1>3. QED
    BY <1>1, <1>2, SamePhase

\* What the one owner of a connection says of its phase.
LEMMA PhaseOf ==
    ASSUME NEW c \in Conns, OneOwner
    PROVE  /\ \A o \in ops : o[1] = c /\ o[2] = "write" => Phase(c) = "writing"
           /\ \A o \in ops : o[1] = c /\ o[2] = "read" => Phase(c) = "reading"
           /\ InQueue(c) <=> Phase(c) = "queued"
           /\ Holders(c) # {} => Phase(c) = "handling"
           /\ ~HasOp(c) /\ ~InQueue(c) /\ Holders(c) = {} => Phase(c) = "idle"
<1>1. AtMostOneOwner(c)
    BY DEF OneOwner
<1>2. \A o \in ops : o[1] = c /\ o[2] = "write" => Writing(c)
    BY DEF Writing
<1>3. \A o \in ops : o[1] = c /\ o[2] = "read" => HasOp(c) /\ ~Writing(c)
    BY <1>1 DEF HasOp, Writing, AtMostOneOwner
<1>4. Writing(c) => HasOp(c)
    BY DEF Writing, HasOp
<1>5. (HasOp(c) => ~InQueue(c) /\ Holders(c) = {}) /\ (InQueue(c) => Holders(c) = {})
    BY <1>1 DEF AtMostOneOwner
<1>6. QED
    BY <1>2, <1>3, <1>4, <1>5 DEF Phase

\* A pop takes only the head of the queue from it.
LEMMA QueueTail ==
    ASSUME queue \in Seq(Conns \cup {Null}), queue # <<>>, queue' = Tail(queue),
           NEW c \in Conns, c # Head(queue)
    PROVE  InQueue(c)' <=> InQueue(c)
<1>1. /\ Len(queue) \in Nat /\ Len(queue') = Len(queue) - 1 /\ queue[1] # c
      /\ \A i \in 1..Len(queue') : queue'[i] = queue[i + 1]
    BY HeadTail
<1>2. ASSUME NEW i \in 1..Len(queue), queue[i] = c PROVE InQueue(c)'
    <2>1. i - 1 \in 1..Len(queue') /\ queue'[i - 1] = c
        BY <1>1, <1>2
    <2>2. QED
        BY <2>1 DEF InQueue
<1>3. InQueue(c)' => InQueue(c)
    BY <1>1 DEF InQueue
<1>4. QED
    BY <1>2, <1>3 DEF InQueue

\* When only c changes its phase, all phases together make one move.
LEMMA PhaseMove ==
    ASSUME NEW c \in Conns, NEW from, NEW to, Phase(c) = from, Phase(c)' = to,
           \A d \in Conns \ {c} : Phase(d)' = Phase(d)
    PROVE  Http!Moves(c, from, to)
BY DEF Http!Moves

\* A step of the server is a step of HttpConnection, or leaves every phase alone.
LEMMA PhaseStep == StageInv /\ OneOwner /\ OneOwner' /\ [Next]_vars => [Http!Next]_[c \in Conns |-> Phase(c)]
<1> SUFFICES ASSUME StageInv, OneOwner, OneOwner', [Next]_vars
             PROVE  [Http!Next]_[c \in Conns |-> Phase(c)]
    OBVIOUS
<1> USE DEF serverVars, poolVars, msgVars, workerVars
<1> DEFINE Stutters == \A c \in Conns : Phase(c)' = Phase(c)
<1>a. /\ ops \in SUBSET Ops /\ queue \in Seq(Conns \cup {Null})
      /\ TypeInv /\ TypeOK /\ Stages
    BY DEF StageInv, TypeInv, TypeOK
<1>b. \A o, p \in ops : o[1] = p[1] => o = p
    BY <1>a, OpsApart
\* A step on the one operation o of c, by what is left of it.
<1>1. ASSUME NEW c \in Conns, NEW o \in ops, o[1] = c, UNCHANGED <<queue, wpc, wconn>>,
             \A p \in ops' : p[1] # c => \E q \in ops : p[1] = q[1] /\ p[2] = q[2],
             \A q \in ops : q[1] # c => \E p \in ops' : p[1] = q[1] /\ p[2] = q[2]
      PROVE  /\ \A d \in Conns \ {c} : Phase(d)' = Phase(d)
             /\ ~HasOp(c)' => Phase(c)' = "idle"
    <2>1. ASSUME NEW d \in Conns \ {c} PROVE Phase(d)' = Phase(d)
        <3>1. (Writing(d)' <=> Writing(d)) /\ (HasOp(d)' <=> HasOp(d))
            BY <1>1 DEF Writing, HasOp
        <3>2. (InQueue(d)' <=> InQueue(d)) /\ Holders(d)' = Holders(d)
            BY <1>1 DEF InQueue, Holders
        <3>3. QED
            BY <3>1, <3>2, SamePhase
    <2>2. ~InQueue(c) /\ Holders(c) = {}
        BY <1>1 DEF OneOwner, AtMostOneOwner, HasOp
    <2>3. ~InQueue(c)' /\ Holders(c)' = {}
        BY <1>1, <2>2 DEF InQueue, Holders
    <2>4. (Writing(c) => HasOp(c))'
        BY DEF Writing, HasOp
    <2>5. QED
        BY <2>1, <2>3, <2>4 DEF Phase
\* The primed form of PhaseOf, for the operation that took its place.
<1>2. ASSUME NEW c \in Conns
      PROVE  /\ \A p \in ops' : p[1] = c /\ p[2] = "write" => Phase(c)' = "writing"
             /\ \A p \in ops' : p[1] = c /\ p[2] = "read" => Phase(c)' = "reading"
             /\ InQueue(c)' <=> Phase(c)' = "queued"
             /\ Holders(c)' # {} => Phase(c)' = "handling"
    <2>1. (AtMostOneOwner(c))'
        BY DEF OneOwner
    <2>2. \A p \in ops' : p[1] = c /\ p[2] = "write" => Writing(c)'
        BY DEF Writing
    <2>3. \A p \in ops' : p[1] = c /\ p[2] = "read" => HasOp(c)' /\ ~Writing(c)'
        BY <2>1 DEF HasOp, Writing, AtMostOneOwner
    <2>4. Writing(c)' => HasOp(c)'
        BY DEF Writing, HasOp
    <2>5. (HasOp(c)' => ~InQueue(c)' /\ Holders(c)' = {}) /\ (InQueue(c)' => Holders(c)' = {})
        BY <2>1 DEF AtMostOneOwner
    <2>6. QED
        BY <2>2, <2>3, <2>4, <2>5 DEF Phase
<1>3. ASSUME NEW c \in Conns, OnAccept(c) PROVE Http!Accept(c)
    <2>1. Phase(c) = "idle"
        BY <1>3, PhaseOf DEF OnAccept, Free
    <2>2. Phase(c)' = "reading"
        <3>1. <<c, "read", "pending">> \in ops'
            BY <1>3 DEF OnAccept
        <3>2. <<c, "read", "pending">>[1] = c /\ <<c, "read", "pending">>[2] = "read"
            OBVIOUS
        <3>3. QED
            BY <1>2, <3>1, <3>2
    <2>3. ASSUME NEW d \in Conns \ {c} PROVE Phase(d)' = Phase(d)
        <3>1. (Writing(d)' <=> Writing(d)) /\ (HasOp(d)' <=> HasOp(d))
            BY <1>3 DEF OnAccept, Writing, HasOp
        <3>2. (InQueue(d)' <=> InQueue(d)) /\ Holders(d)' = Holders(d)
            BY <1>3 DEF OnAccept, InQueue, Holders
        <3>3. QED
            BY <3>1, <3>2, SamePhase
    <2>4. QED
        BY <2>1, <2>2, <2>3, PhaseMove DEF Http!Accept
\* An operation o of c gives way to p.
<1>4. ASSUME NEW c \in Conns, NEW o \in ops, NEW p, o[1] = c, p[1] = c,
             ops' = (ops \ {o}) \cup {p}, UNCHANGED <<queue, wpc, wconn>>
      PROVE  \A d \in Conns \ {c} : Phase(d)' = Phase(d)
    BY <1>1, <1>4
<1>5. ASSUME NEW c \in Conns, OnReadBad(c) PROVE Http!Refuse(c)
    <2> DEFINE o == <<c, "read", "ok">>
               p == Started(c, "write")
    <2>1. o \in ops /\ o[1] = c /\ o[2] = "read" /\ p[1] = c /\ p[2] = "write"
        BY <1>5, StartedOp DEF OnReadBad, ReadData
    <2>2. ops' = (ops \ {o}) \cup {p} /\ UNCHANGED <<queue, wpc, wconn>>
        BY <1>5 DEF OnReadBad
    <2> HIDE DEF o, p
    <2>3. Phase(c) = "reading" /\ Phase(c)' = "writing"
        BY <1>2, <2>1, <2>2, PhaseOf
    <2>4. QED
        BY <1>4, <2>1, <2>2, <2>3, PhaseMove DEF Http!Refuse
<1>6. ASSUME NEW c \in Conns, OnReadMore(c) PROVE Stutters
    <2> DEFINE o == <<c, "read", "ok">>
               p == Started(c, "read")
    <2>1. o \in ops /\ o[1] = c /\ o[2] = "read" /\ p[1] = c /\ p[2] = "read"
        BY <1>6, StartedOp DEF OnReadMore, ReadData
    <2>2. ops' = (ops \ {o}) \cup {p} /\ UNCHANGED <<queue, wpc, wconn>>
        BY <1>6 DEF OnReadMore
    <2> HIDE DEF o, p
    <2>3. Phase(c) = "reading" /\ Phase(c)' = "reading"
        BY <1>2, <2>1, <2>2, PhaseOf
    <2>4. QED
        BY <1>4, <2>1, <2>2, <2>3
<1>7. ASSUME NEW c \in Conns, OnWriteKeep(c) PROVE Http!NextRequest(c)
    <2> DEFINE o == <<c, "write", "ok">>
               p == Started(c, "read")
    <2>1. o \in ops /\ o[1] = c /\ o[2] = "write" /\ p[1] = c /\ p[2] = "read"
        BY <1>7, StartedOp DEF OnWriteKeep
    <2>2. ops' = (ops \ {o}) \cup {p} /\ UNCHANGED <<queue, wpc, wconn>>
        BY <1>7 DEF OnWriteKeep
    <2> HIDE DEF o, p
    <2>3. Phase(c) = "writing" /\ Phase(c)' = "reading"
        BY <1>2, <2>1, <2>2, PhaseOf
    <2>4. QED
        BY <1>4, <2>1, <2>2, <2>3, PhaseMove DEF Http!NextRequest
<1>8. ASSUME NEW c \in Conns, OnReadFinished(c) PROVE Http!ReceiveRequest(c)
    <2> DEFINE o == <<c, "read", "ok">>
    <2>1. o \in ops /\ o[1] = c /\ o[2] = "read" /\ ops' = ops \ {o}
        BY <1>8 DEF OnReadFinished, ReadData
    <2> HIDE DEF o
    <2>2. /\ InQueue(c)'
          /\ \A d \in Conns \ {c} : InQueue(d)' <=> InQueue(d)
        BY <1>8, <1>a, AppendLast DEF OnReadFinished, InQueue
    <2>3. Phase(c) = "reading" /\ Phase(c)' = "queued"
        BY <1>2, <2>1, <2>2, PhaseOf
    <2>4. ASSUME NEW d \in Conns \ {c} PROVE Phase(d)' = Phase(d)
        <3>1. (Writing(d)' <=> Writing(d)) /\ (HasOp(d)' <=> HasOp(d))
            BY <2>1 DEF Writing, HasOp
        <3>2. Holders(d)' = Holders(d)
            BY <1>8 DEF OnReadFinished, Holders
        <3>3. QED
            BY <2>2, <3>1, <3>2, SamePhase
    <2>5. QED
        BY <2>3, <2>4, PhaseMove DEF Http!ReceiveRequest
<1>9. ASSUME NEW c \in Conns, NEW kind \in {"read", "write"}, OpCompletes(c, kind)
      PROVE  Stutters
    <2>1. PICK r \in {"ok", "error"} :
              ops' = (ops \ {<<c, kind, "pending">>}) \cup {<<c, kind, r>>}
        BY <1>9 DEF OpCompletes
    <2> DEFINE o == <<c, kind, "pending">>
               p == <<c, kind, r>>
    <2>2. o[1] = p[1] /\ o[2] = p[2] /\ o \in ops /\ UNCHANGED <<queue, wpc, wconn>>
        BY <1>9 DEF OpCompletes
    <2>3. ops' = (ops \ {o}) \cup {p}
        BY <2>1
    <2> HIDE DEF o, p
    <2>4. QED
        BY <2>2, <2>3, SameKinds
\* The last operation of a connection ends.
<1>10. ASSUME NEW c \in Conns, NEW kind \in {"read", "write"}, OnFailure(c, kind) \/ OnWriteClose(c)
       PROVE  Http!Hangup(c)
    <2>1. PICK o \in ops : /\ o[1] = c /\ o[2] \in {"read", "write"}
                           /\ ops' = ops \ {o} \/ ops' = Cancelled({c}, ops \ {o})
        <3>1. CASE OnAborted(c, kind)
            <4>1. <<c, kind, "aborted">>[1] = c /\ <<c, kind, "aborted">>[2] = kind
                OBVIOUS
            <4>2. QED
                BY <3>1, <4>1 DEF OnAborted
        <3>2. CASE OnError(c, kind)
            <4>1. <<c, kind, "error">>[1] = c /\ <<c, kind, "error">>[2] = kind
                OBVIOUS
            <4>2. QED
                BY <3>2, <4>1 DEF OnError, PoolClose
        <3>3. CASE OnWriteClose(c)
            <4>1. <<c, "write", "ok">>[1] = c /\ <<c, "write", "ok">>[2] = "write"
                OBVIOUS
            <4>2. QED
                BY <3>3, <4>1 DEF OnWriteClose, PoolClose
        <3>4. QED
            BY <1>10, <3>1, <3>2, <3>3 DEF OnFailure
    <2>2. UNCHANGED <<queue, wpc, wconn>>
        BY <1>10 DEF OnFailure, OnAborted, OnError, OnWriteClose
    <2>3. /\ \A p \in ops' : \E q \in ops \ {o} : p[1] = q[1] /\ p[2] = q[2]
          /\ \A q \in ops \ {o} : \E p \in ops' : p[1] = q[1] /\ p[2] = q[2]
        BY <2>1, <1>a, CancelledOps
    <2>4. ~HasOp(c)'
        BY <2>1, <2>3, <1>b DEF HasOp
    <2>5. Phase(c)' = "idle" /\ \A d \in Conns \ {c} : Phase(d)' = Phase(d)
        BY <1>1, <2>1, <2>2, <2>3, <2>4
    <2>6. Phase(c) \in {"reading", "writing"}
        BY <2>1, PhaseOf
    <2>7. QED
        BY <2>5, <2>6, PhaseMove DEF Http!Hangup
<1>11. ASSUME NEW w \in Workers, WorkerPop(w), NEW c \in Conns, c = Head(queue)
       PROVE  Http!Handle(c)
    <2>1. /\ InQueue(c)
          /\ \A d \in Conns \ {c} : InQueue(d)' <=> InQueue(d)
        BY <1>11, <1>a, HeadTail, QueueTail DEF WorkerPop, InQueue
    <2>2. w \in Holders(c)'
        BY <1>11, <1>a, NullIsNoConn DEF WorkerPop, Holders, TypeOK
    <2>3. Phase(c) = "queued" /\ Phase(c)' = "handling"
        BY <1>2, <1>11, <2>1, <2>2, PhaseOf
    <2>4. ASSUME NEW d \in Conns \ {c} PROVE Phase(d)' = Phase(d)
        <3>1. (Writing(d)' <=> Writing(d)) /\ (HasOp(d)' <=> HasOp(d))
            BY <1>11 DEF WorkerPop, Writing, HasOp
        <3>2. Holders(d)' = Holders(d)
            BY <1>11, <1>a DEF WorkerPop, Holders, TypeOK
        <3>3. QED
            BY <2>1, <3>1, <3>2, SamePhase
    <2>5. QED
        BY <1>11, <2>3, <2>4, PhaseMove DEF Http!Handle
\* Taking or passing on the stop message is no step of a connection.
<1>12. ASSUME UNCHANGED ops, \A d \in Conns : InQueue(d)' <=> InQueue(d),
              \A d \in Conns : Holders(d)' = Holders(d)
       PROVE  Stutters
    BY <1>12, SamePhase DEF Writing, HasOp
<1>13. ASSUME NEW w \in Workers, WorkerPop(w), Head(queue) \notin Conns PROVE Stutters
    <2>1. \A d \in Conns : InQueue(d)' <=> InQueue(d)
        BY <1>13, <1>a, QueueTail DEF WorkerPop
    <2>2. \A d \in Conns : Holders(d)' = Holders(d)
        BY <1>13, <1>a DEF WorkerPop, Holders, TypeOK
    <2>3. QED
        BY <1>12, <1>13, <2>1, <2>2 DEF WorkerPop
<1>14. ASSUME NEW w \in Workers, WorkerRelay(w) PROVE Stutters
    <2>1. \A d \in Conns : InQueue(d)' <=> InQueue(d)
        BY <1>14, <1>a, AppendLast, NullIsNoConn DEF WorkerRelay, InQueue
    <2>2. \A d \in Conns : Holders(d)' = Holders(d)
        BY <1>14, <1>a DEF WorkerRelay, Holders, TypeOK
    <2>3. QED
        BY <1>12, <1>14, <2>1, <2>2 DEF WorkerRelay
<1>15. ASSUME StopPush PROVE Stutters
    <2>1. \A d \in Conns : InQueue(d)' <=> InQueue(d)
        BY <1>15, <1>a, AppendLast, NullIsNoConn DEF StopPush, InQueue
    <2>2. QED
        BY <1>12, <1>15, <2>1 DEF StopPush, Holders
<1>16. ASSUME NEW w \in Workers, WorkerHandle(w) PROVE Stutters
    <2>1. \A d \in Conns : Holders(d)' = Holders(d)
        BY <1>16, <1>a DEF WorkerHandle, Holders, TypeOK
    <2>2. QED
        BY <1>12, <1>16, <2>1 DEF WorkerHandle, InQueue
<1>17. ASSUME NEW w \in Workers, WorkerWrite(w), NEW c \in Conns, c = wconn[w]
       PROVE  Http!Respond(c)
    <2> DEFINE p == Started(c, "write")
    <2>1. w \in Holders(c)
        BY <1>17, <1>a DEF WorkerWrite, Holders, TypeInv, HandlesConn
    <2>2. p[1] = c /\ p[2] = "write" /\ ops' = ops \cup {p}
        BY <1>17, StartedOp DEF WorkerWrite
    <2>3. \A d \in Conns \ {c} : Holders(d)' = Holders(d)
        BY <1>17, <1>a DEF WorkerWrite, Holders, TypeOK
    <2>4. \A d \in Conns : InQueue(d)' <=> InQueue(d)
        BY <1>17 DEF WorkerWrite, InQueue
    <2> HIDE DEF p
    <2>5. Phase(c) = "handling" /\ Phase(c)' = "writing"
        BY <1>2, <2>1, <2>2, PhaseOf
    <2>6. ASSUME NEW d \in Conns \ {c} PROVE Phase(d)' = Phase(d)
        <3>1. (Writing(d)' <=> Writing(d)) /\ (HasOp(d)' <=> HasOp(d))
            BY <2>2 DEF Writing, HasOp
        <3>2. QED
            BY <2>3, <2>4, <3>1, SamePhase
    <2>7. QED
        BY <2>5, <2>6, PhaseMove DEF Http!Respond
<1>18. ASSUME StopClear PROVE Http!DropQueued
    <2>1. \A d \in Conns : ~InQueue(d)'
        BY <1>18 DEF StopClear, InQueue
    <2>2. \A d \in Conns : /\ Writing(d)' <=> Writing(d)
                           /\ HasOp(d)' <=> HasOp(d)
                           /\ Holders(d)' = Holders(d)
        BY <1>18 DEF StopClear, Writing, HasOp, Holders
    <2>3. \A d \in Conns : Phase(d) # "queued" => Phase(d)' = Phase(d)
        BY <2>1, <2>2, PhaseOf, SamePhase
    <2>4. \A d \in Conns : Phase(d) = "queued" => Phase(d)' = "idle"
        <3>1. \A d \in Conns : InQueue(d) => ~HasOp(d) /\ Holders(d) = {}
            BY DEF OneOwner, AtMostOneOwner
        <3>2. \A d \in Conns : (Writing(d) => HasOp(d))'
            BY DEF Writing, HasOp
        <3>3. QED
            BY <2>1, <2>2, <3>1, <3>2, PhaseOf DEF Phase
    <2>5. QED
        BY <2>3, <2>4 DEF Http!DropQueued
<1>19. ASSUME CloseAll PROVE Stutters
    BY <1>19, <1>a, CloseAllOps, SameKinds DEF CloseAll
<1>20. ASSUME Run PROVE Stutters
    <2>1. \A d \in Conns : Holders(d) = {} /\ Holders(d)' = {}
        BY <1>20, <1>a DEF Run, Stages, Holders
    <2>2. QED
        BY <1>20, <1>12, <2>1 DEF Run, InQueue
<1>21. ASSUME \/ Construct \/ ConstructThrows \/ RunRefused \/ RaiseSignal \/ RunReturns
              \/ AcceptCompletes \/ OnAcceptStopped \/ OnAcceptError
              \/ \E c \in Conns : ParserThrows(c) \/ ParserSpins(c)
              \/ \E w \in Workers : WorkerThrows(w)
              \/ OnSignal \/ StopJoin \/ UNCHANGED vars
       PROVE  Stutters
    <2>1. UNCHANGED <<ops, queue, wpc, wconn>>
        BY <1>21 DEF Construct, ConstructThrows, RunRefused, RaiseSignal, RunReturns,
           AcceptCompletes, OnAcceptStopped, OnAcceptError, ParserThrows, ParserSpins,
           WorkerThrows, OnSignal, StopJoin, vars
    <2>2. QED
        BY <2>1, SameKinds
<1>22. Stutters => UNCHANGED [c \in Conns |-> Phase(c)]
    OBVIOUS
<1> HIDE DEF Stutters
<1>23. ASSUME ServerStep PROVE Http!Next \/ Stutters
    BY <1>3, <1>20, <1>21, <1>23 DEF ServerStep, Http!Next
<1>24. ASSUME ConnectionStep PROVE Http!Next \/ Stutters
    <2>1. PICK c \in Conns :
              \/ OnReadOk(c) \/ OnWriteOk(c)
              \/ \E kind \in {"read", "write"} : OpCompletes(c, kind) \/ OnFailure(c, kind)
        BY <1>24 DEF ConnectionStep
    <2>2. \/ Http!Refuse(c) \/ Http!ReceiveRequest(c) \/ Http!NextRequest(c) \/ Http!Hangup(c)
          \/ Stutters
        BY <2>1, <1>5, <1>6, <1>7, <1>8, <1>9, <1>10, <1>21 DEF OnReadOk, OnWriteOk
    <2>3. QED
        BY <2>2 DEF Http!Next
<1>25. ASSUME WorkerStep PROVE Http!Next \/ Stutters
    <2>1. PICK w \in Workers :
              WorkerPop(w) \/ WorkerHandle(w) \/ WorkerThrows(w) \/ WorkerWrite(w) \/ WorkerRelay(w)
        BY <1>25 DEF WorkerStep
    <2>2. CASE WorkerPop(w)
        BY <2>2, <1>11, <1>13 DEF Http!Next
    <2>3. CASE WorkerWrite(w)
        <3>1. wconn[w] \in Conns
            BY <2>3, <1>a DEF WorkerWrite, TypeInv, HandlesConn
        <3>2. QED
            BY <2>3, <3>1, <1>17 DEF Http!Next
    <2>4. QED
        BY <2>1, <2>2, <2>3, <1>14, <1>16, <1>21
<1>26. ASSUME StopStep PROVE Http!Next \/ Stutters
    BY <1>15, <1>18, <1>19, <1>21, <1>26 DEF StopStep, Http!Next
<1>27. QED
    BY <1>21, <1>22, <1>23, <1>24, <1>25, <1>26 DEF Next, Ended

\* The server takes the requests of each connection strictly one after the
\* other: every step of its threads is one of HttpConnection or none.
THEOREM RequestsInTurn == Spec => OneRequestAtATime
<1>1. Init => Http!Init
    BY DEF Init, Http!Init, Phase, Writing, HasOp, InQueue, Holders
<1>2. StageInv /\ OneOwner /\ [Next]_vars => (StageInv /\ OneOwner)'
    BY StageInvariant, OneOwnerStep DEF StageInv
<1>3. QED
    BY <1>1, <1>2, StageInvInit, PhaseStep, PTL DEF Spec, OneRequestAtATime, Http!Spec
=============================================================================
