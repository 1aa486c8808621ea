---------------------------- MODULE MessageQueue ----------------------------
(***************************************************************************)
(* webcc/queue.h: Queue<T>, the message queue between the io thread and    *)
(* the worker threads.  A std::list is guarded by a mutex, and PopOrWait   *)
(* sleeps on a condition variable.  The bodies that run under the mutex    *)
(* are atomic steps; the places where a thread runs without it (Push       *)
(* between its unlock and notify_one, PopOrWait while it sleeps) are       *)
(* where other threads come in.                                            *)
(***************************************************************************)
EXTENDS Naturals, Sequences, FiniteSets

CONSTANTS Threads,     \* the threads that share the queue
          Messages,    \* what they put into it
          None,        \* T(): what Pop returns on an empty queue
          QueueBound   \* the longest list explored

ASSUME ThreadsFinite == IsFiniteSet(Threads)
ASSUME NoneIsNoMessage == None \notin Messages

VARIABLES message_list,   \* std::list<T>, front first
          pc,             \* where each thread is in the queue's code
          taken           \* the message each thread was given last

vars == <<message_list, pc, taken>>

\* "idle": outside the queue; "pop": in PopOrWait, about to test the
\* predicate under the mutex (on entry or after a wake-up); "waiting": asleep
\* in not_empty_cv_.wait; "notify": in Push, after the unlock and before
\* notify_one.
ThreadStates == {"idle", "pop", "waiting", "notify"}

TypeOK ==
    /\ message_list \in Seq(Messages)
    /\ pc \in [Threads -> ThreadStates]
    /\ taken \in [Threads -> Messages \cup {None}]

At(state) == {t \in Threads : pc[t] = state}

Init ==
    /\ message_list = <<>>
    /\ pc = [t \in Threads |-> "idle"]
    /\ taken = [t \in Threads |-> None]

-----------------------------------------------------------------------------
CallPopOrWait(t) ==
    /\ pc[t] = "idle"
    /\ pc' = [pc EXCEPT ![t] = "pop"]
    /\ UNCHANGED <<message_list, taken>>

\* One evaluation of wait's predicate under the mutex: the thread takes the
\* front, or goes to sleep and gives the mutex up in the same step.
PopOrWait(t) ==
    /\ pc[t] = "pop"
    /\ \/ /\ message_list # <<>>
          /\ taken' = [taken EXCEPT ![t] = Head(message_list)]
          /\ message_list' = Tail(message_list)
          /\ pc' = [pc EXCEPT ![t] = "idle"]
       \/ /\ message_list = <<>>
          /\ pc' = [pc EXCEPT ![t] = "waiting"]
          /\ UNCHANGED <<message_list, taken>>

\* A condition variable may also wake a thread nobody notified.
SpuriousWakeup(t) ==
    /\ pc[t] = "waiting"
    /\ pc' = [pc EXCEPT ![t] = "pop"]
    /\ UNCHANGED <<message_list, taken>>

Pop(t) ==
    /\ pc[t] = "idle"
    /\ \/ /\ message_list = <<>>
          /\ taken' = [taken EXCEPT ![t] = None]
          /\ UNCHANGED message_list
       \/ /\ message_list # <<>>
          /\ taken' = [taken EXCEPT ![t] = Head(message_list)]
          /\ message_list' = Tail(message_list)
    /\ UNCHANGED pc

Clear(t) ==
    /\ pc[t] = "idle"
    /\ message_list' = <<>>
    /\ UNCHANGED <<pc, taken>>

\* The block of Push that holds the mutex.
Push_PutsFront(t, m) ==
    /\ pc[t] = "idle"
    /\ Len(message_list) < QueueBound
    /\ message_list' = <<m>> \o message_list
    /\ pc' = [pc EXCEPT ![t] = "notify"]
    /\ UNCHANGED taken

Push_NotifiesOnlyWhenEmpty(t, m) ==
    /\ pc[t] = "idle"
    /\ Len(message_list) < QueueBound
    /\ message_list' = Append(message_list, m)
    /\ pc' = [pc EXCEPT ![t] = IF message_list = <<>> THEN "notify" ELSE "idle"]
    /\ UNCHANGED taken

Push_MovedFrom(t, m) ==
    /\ pc[t] = "idle"
    /\ Len(message_list) < QueueBound
    /\ message_list' = Append(message_list, None)
    /\ pc' = [pc EXCEPT ![t] = "notify"]
    /\ UNCHANGED taken

Push(t, m) ==
    /\ pc[t] = "idle"
    /\ Len(message_list) < QueueBound
    /\ message_list' = Append(message_list, m)
    /\ pc' = [pc EXCEPT ![t] = "notify"]
    /\ UNCHANGED taken

\* not_empty_cv_.notify_one(), without the mutex: one sleeper wakes, or the
\* notification is lost because nobody sleeps.
NotifyOne(t) ==
    /\ pc[t] = "notify"
    /\ \/ \E s \in At("waiting") :
              pc' = [pc EXCEPT ![t] = "idle", ![s] = "pop"]
       \/ /\ At("waiting") = {}
          /\ pc' = [pc EXCEPT ![t] = "idle"]
    /\ UNCHANGED <<message_list, taken>>

Next ==
    \E t \in Threads :
        \/ CallPopOrWait(t) \/ PopOrWait(t) \/ SpuriousWakeup(t)
        \/ Pop(t) \/ Clear(t) \/ NotifyOne(t)
        \/ \E m \in Messages : Push(t, m)

Spec == Init /\ [][Next]_vars

\* A thread inside the queue's code keeps running: the mutex is never held
\* from one step to the next, so a thread that wants it gets it.
FairSpec ==
    /\ Spec
    /\ \A t \in Threads : WF_vars(PopOrWait(t)) /\ WF_vars(NotifyOne(t))

-----------------------------------------------------------------------------
\* While a thread sleeps in PopOrWait, every message in the list has a thread
\* on its way to it: a Push that has yet to notify, or a thread awake in
\* PopOrWait.  This is why notify_one after the unlock in Push is enough and
\* no sleeper is left beside a non-empty list.
NoLostWakeup ==
    At("waiting") # {} =>
        Len(message_list) <= Cardinality(At("notify")) + Cardinality(At("pop"))

Fifo == INSTANCE BlockingFifo WITH
            fifo <- message_list,
            popping <- At("pop") \cup At("waiting")

\* The queue with its mutex and condition variable behaves like the blocking
\* first-in first-out list, and always lets a waiting thread have a message
\* that is there: sleeping and waking are invisible steps.
ImplementsFifo == Fifo!FairSpec
=============================================================================
