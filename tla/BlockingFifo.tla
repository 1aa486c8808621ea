---------------------------- MODULE BlockingFifo ----------------------------
(***************************************************************************)
(* What webcc's Queue<T> (webcc/queue.h) promises its users: a first-in    *)
(* first-out list whose PopOrWait blocks until there is a message, with    *)
(* every operation atomic and no mention of locks or condition variables.  *)
(* MessageQueue is shown to implement this specification, and WebServer    *)
(* uses the queue at this level.                                           *)
(***************************************************************************)
EXTENDS Naturals, Sequences

CONSTANTS Threads,     \* the threads that share the queue
          Messages,    \* what they put into it
          None         \* T(): what Pop returns on an empty queue

VARIABLES fifo,        \* the messages, oldest first
          popping,     \* the threads inside PopOrWait
          taken        \* the message each thread was given last

vars == <<fifo, popping, taken>>

Init ==
    /\ fifo = <<>>
    /\ popping = {}
    /\ taken = [t \in Threads |-> None]

Push(m) ==
    /\ fifo' = Append(fifo, m)
    /\ UNCHANGED <<popping, taken>>

BeginPopOrWait(t) ==
    /\ t \notin popping
    /\ popping' = popping \cup {t}
    /\ UNCHANGED <<fifo, taken>>

Take(t) ==
    /\ t \in popping
    /\ fifo # <<>>
    /\ taken' = [taken EXCEPT ![t] = Head(fifo)]
    /\ fifo' = Tail(fifo)
    /\ popping' = popping \ {t}

Pop(t) ==
    /\ t \notin popping
    /\ \/ /\ fifo = <<>>
          /\ taken' = [taken EXCEPT ![t] = None]
          /\ UNCHANGED fifo
       \/ /\ fifo # <<>>
          /\ taken' = [taken EXCEPT ![t] = Head(fifo)]
          /\ fifo' = Tail(fifo)
    /\ UNCHANGED popping

Clear ==
    /\ fifo' = <<>>
    /\ UNCHANGED <<popping, taken>>

Next ==
    \/ \E m \in Messages : Push(m)
    \/ \E t \in Threads : BeginPopOrWait(t) \/ Take(t) \/ Pop(t)
    \/ Clear

Spec == Init /\ [][Next]_vars

\* A message never stays in the queue while threads sleep waiting for one.
FairSpec == Spec /\ WF_vars(\E t \in Threads : Take(t))
=============================================================================
