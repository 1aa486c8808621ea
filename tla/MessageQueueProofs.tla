------------------------- MODULE MessageQueueProofs -------------------------
(***************************************************************************)
(* Proofs about MessageQueue for any finite set of threads, any messages   *)
(* and any bound on the list: the type invariant, that no wake-up is lost, *)
(* and that every step of the queue is a step of BlockingFifo.             *)
(***************************************************************************)
EXTENDS MessageQueue, FiniteSetTheorems, TLAPS

\* Every step of the queue keeps its variables in their types.
LEMMA TypeStep == TypeOK /\ [Next]_vars => TypeOK'
<1> SUFFICES ASSUME TypeOK, [Next]_vars PROVE TypeOK'
    OBVIOUS
<1> USE DEF TypeOK, ThreadStates
<1>1. CASE UNCHANGED vars
    BY <1>1 DEF vars
<1>2. ASSUME NEW t \in Threads, CallPopOrWait(t) \/ SpuriousWakeup(t)
      PROVE  TypeOK'
    BY <1>2 DEF CallPopOrWait, SpuriousWakeup
<1>3. ASSUME NEW t \in Threads, PopOrWait(t)
      PROVE  TypeOK'
    <2>1. CASE message_list = <<>>
        BY <1>3, <2>1 DEF PopOrWait
    <2>2. CASE message_list # <<>>
        <3>1. Head(message_list) \in Messages /\ Tail(message_list) \in Seq(Messages)
            BY <2>2
        <3>2. QED
            BY <1>3, <2>2, <3>1 DEF PopOrWait
    <2>3. QED
        BY <2>1, <2>2
<1>4. ASSUME NEW t \in Threads, Pop(t)
      PROVE  TypeOK'
    <2>1. CASE message_list = <<>>
        BY <1>4, <2>1 DEF Pop
    <2>2. CASE message_list # <<>>
        <3>1. Head(message_list) \in Messages /\ Tail(message_list) \in Seq(Messages)
            BY <2>2
        <3>2. QED
            BY <1>4, <2>2, <3>1 DEF Pop
    <2>3. QED
        BY <2>1, <2>2
<1>5. ASSUME NEW t \in Threads, Clear(t)
      PROVE  TypeOK'
    BY <1>5 DEF Clear
<1>6. ASSUME NEW t \in Threads, NotifyOne(t)
      PROVE  TypeOK'
    BY <1>6 DEF NotifyOne, At
<1>7. ASSUME NEW t \in Threads, NEW m \in Messages, Push(t, m)
      PROVE  TypeOK'
    BY <1>7 DEF Push
<1>8. QED
    BY <1>1, <1>2, <1>3, <1>4, <1>5, <1>6, <1>7 DEF Next

\* The variables of the queue always have their types.
THEOREM TypeCorrect == Spec => []TypeOK
<1>1. Init => TypeOK
    BY DEF Init, TypeOK, ThreadStates
<1>2. QED
    BY <1>1, TypeStep, PTL DEF Spec

-----------------------------------------------------------------------------
\* The sets of threads at a place in the code are finite.
LEMMA AtFinite ==
    ASSUME NEW s
    PROVE  /\ IsFiniteSet(At(s))
           /\ Cardinality(At(s)) \in Nat
<1>1. At(s) \subseteq Threads
    BY DEF At
<1>2. QED
    BY <1>1, ThreadsFinite, FS_Subset, FS_CardinalityType

\* Moving a thread to another place changes the two counts by one.
LEMMA MoveCounts ==
    ASSUME TypeOK, NEW t \in Threads, NEW from, NEW to,
           from # to, pc[t] = from, pc' = [pc EXCEPT ![t] = to]
    PROVE  /\ At(from)' = At(from) \ {t}
           /\ At(to)' = At(to) \cup {t}
           /\ Cardinality(At(from)') = Cardinality(At(from)) - 1
           /\ Cardinality(At(to)') = Cardinality(At(to)) + 1
<1>1. At(from)' = At(from) \ {t} /\ t \in At(from)
    BY DEF At, TypeOK
<1>2. At(to)' = At(to) \cup {t} /\ t \notin At(to)
    BY DEF At, TypeOK
<1>3. Cardinality(At(from)') = Cardinality(At(from)) - 1
    BY <1>1, AtFinite, FS_RemoveElement
<1>4. Cardinality(At(to)') = Cardinality(At(to)) + 1
    BY <1>2, AtFinite, FS_AddElement
<1>5. QED
    BY <1>1, <1>2, <1>3, <1>4

\* A thread never sleeps in PopOrWait beside a message that nobody is on the
\* way to: notify_one after the unlock of Push is enough, for any number of
\* threads.
THEOREM WakeupSafe == Spec => []NoLostWakeup
<1>1. Init => NoLostWakeup
    <2>1. Init => At("waiting") = {}
        BY DEF Init, At
    <2>2. QED
        BY <2>1 DEF NoLostWakeup
<1>2. TypeOK /\ NoLostWakeup /\ [Next]_vars => NoLostWakeup'
    <2> SUFFICES ASSUME TypeOK, NoLostWakeup, [Next]_vars, At("waiting")' # {}
                 PROVE  Len(message_list')
                          <= Cardinality(At("notify")') + Cardinality(At("pop")')
        BY DEF NoLostWakeup
    <2> DEFINE n == Cardinality(At("notify"))
               p == Cardinality(At("pop"))
    <2>a. n \in Nat /\ p \in Nat /\ Len(message_list) \in Nat
        BY AtFinite DEF TypeOK
    <2>b. TypeOK'
        BY TypeStep
    <2>1. CASE UNCHANGED vars
        BY <2>1 DEF vars, NoLostWakeup, At
    <2>2. ASSUME NEW t \in Threads, CallPopOrWait(t)
          PROVE  Len(message_list') <= Cardinality(At("notify")') + Cardinality(At("pop")')
        <3>1. At("waiting")' = At("waiting") /\ At("notify")' = At("notify")
            BY <2>2 DEF CallPopOrWait, At, TypeOK
        <3>2. Cardinality(At("pop")') = p + 1
            BY <2>2, MoveCounts DEF CallPopOrWait
        <3>3. QED
            BY <2>a, <2>2, <3>1, <3>2 DEF CallPopOrWait, NoLostWakeup
    <2>3. ASSUME NEW t \in Threads, PopOrWait(t), message_list # <<>>
          PROVE  Len(message_list') <= Cardinality(At("notify")') + Cardinality(At("pop")')
        <3>1. At("waiting")' = At("waiting") /\ At("notify")' = At("notify")
            BY <2>3 DEF PopOrWait, At, TypeOK
        <3>2. Cardinality(At("pop")') = p - 1
            BY <2>3, MoveCounts DEF PopOrWait
        <3>3. Len(message_list') = Len(message_list) - 1
            BY <2>3 DEF PopOrWait, TypeOK
        <3>4. QED
            BY <2>a, <3>1, <3>2, <3>3 DEF NoLostWakeup
    <2>4. ASSUME NEW t \in Threads, PopOrWait(t), message_list = <<>>
          PROVE  Len(message_list') <= Cardinality(At("notify")') + Cardinality(At("pop")')
        <3>1. Len(message_list') = 0
            BY <2>4 DEF PopOrWait
        <3>2. Cardinality(At("notify")') \in Nat
            <4>1. At("notify")' = At("notify")
                BY <2>4 DEF PopOrWait, At, TypeOK
            <4>2. QED
                BY <4>1, <2>a
        <3>3. Cardinality(At("pop")') = p - 1
            BY <2>4, MoveCounts DEF PopOrWait
        <3>4. p # 0
            <4>1. t \in At("pop")
                BY <2>4 DEF PopOrWait, At
            <4>2. QED
                BY <4>1, AtFinite, FS_EmptySet
        <3>5. QED
            BY <2>a, <3>1, <3>2, <3>3, <3>4
    <2>5. ASSUME NEW t \in Threads, SpuriousWakeup(t)
          PROVE  Len(message_list') <= Cardinality(At("notify")') + Cardinality(At("pop")')
        <3>1. At("notify")' = At("notify") /\ t \in At("waiting")
            BY <2>5 DEF SpuriousWakeup, At, TypeOK
        <3>2. Cardinality(At("pop")') = p + 1
            BY <2>5, MoveCounts DEF SpuriousWakeup
        <3>3. QED
            BY <2>a, <2>5, <3>1, <3>2 DEF SpuriousWakeup, NoLostWakeup
    <2>6. ASSUME NEW t \in Threads, Pop(t) \/ Clear(t)
          PROVE  Len(message_list') <= Cardinality(At("notify")') + Cardinality(At("pop")')
        <3>1. At("waiting")' = At("waiting") /\ At("notify")' = At("notify")
              /\ At("pop")' = At("pop")
            BY <2>6 DEF Pop, Clear, At
        <3>2. Len(message_list') <= Len(message_list)
            BY <2>6 DEF Pop, Clear, TypeOK
        <3>3. Len(message_list') \in Nat
            BY <2>b DEF TypeOK
        <3>4. QED
            BY <2>a, <3>1, <3>2, <3>3 DEF NoLostWakeup
    <2>7. ASSUME NEW t \in Threads, NEW m \in Messages, Push(t, m)
          PROVE  Len(message_list') <= Cardinality(At("notify")') + Cardinality(At("pop")')
        <3>1. At("waiting")' = At("waiting") /\ At("pop")' = At("pop")
            BY <2>7 DEF Push, At, TypeOK
        <3>2. Cardinality(At("notify")') = n + 1
            BY <2>7, MoveCounts DEF Push
        <3>3. Len(message_list') = Len(message_list) + 1
            BY <2>7 DEF Push, TypeOK
        <3>4. QED
            BY <2>a, <3>1, <3>2, <3>3 DEF NoLostWakeup
    <2>8. ASSUME NEW t \in Threads, NotifyOne(t)
          PROVE  Len(message_list') <= Cardinality(At("notify")') + Cardinality(At("pop")')
        <3>1. ASSUME NEW s \in At("waiting"), pc' = [pc EXCEPT ![t] = "idle", ![s] = "pop"]
              PROVE  Len(message_list') <= Cardinality(At("notify")') + Cardinality(At("pop")')
            <4>1. At("notify")' = At("notify") \ {t} /\ t \in At("notify")
                BY <2>8, <3>1 DEF NotifyOne, At, TypeOK
            <4>2. At("pop")' = At("pop") \cup {s} /\ s \notin At("pop")
                BY <2>8, <3>1 DEF NotifyOne, At, TypeOK
            <4>3. Cardinality(At("notify")') = n - 1
                BY <4>1, AtFinite, FS_RemoveElement
            <4>4. Cardinality(At("pop")') = p + 1
                BY <4>2, AtFinite, FS_AddElement
            <4>5. QED
                BY <2>a, <2>8, <4>3, <4>4 DEF NotifyOne, NoLostWakeup
        <3>2. ASSUME At("waiting") = {}, pc' = [pc EXCEPT ![t] = "idle"]
              PROVE  FALSE
            BY <3>2 DEF At, TypeOK
        <3>3. QED
            BY <2>8, <3>1, <3>2 DEF NotifyOne
    <2>9. QED
        BY <2>1, <2>2, <2>3, <2>4, <2>5, <2>6, <2>7, <2>8 DEF Next
<1>3. QED
    BY <1>1, <1>2, TypeCorrect, PTL DEF Spec

-----------------------------------------------------------------------------
\* The safety part of ImplementsFifo: with its lock and condition variable
\* the queue takes only steps of the blocking first-in first-out list.
THEOREM FifoSafe == Spec => Fifo!Spec
<1>1. Init => Fifo!Init
    BY DEF Init, Fifo!Init, At
<1>2. TypeOK /\ [Next]_vars => [Fifo!Next]_(Fifo!vars)
    <2> SUFFICES ASSUME TypeOK, [Next]_vars PROVE [Fifo!Next]_(Fifo!vars)
        OBVIOUS
    <2> USE DEF TypeOK, ThreadStates, At
    <2>1. CASE UNCHANGED vars
        BY <2>1 DEF vars, Fifo!vars
    <2>2. ASSUME NEW t \in Threads, CallPopOrWait(t)
          PROVE  Fifo!BeginPopOrWait(t)
        BY <2>2 DEF CallPopOrWait, Fifo!BeginPopOrWait
    <2>3. ASSUME NEW t \in Threads, PopOrWait(t), message_list # <<>>
          PROVE  Fifo!Take(t)
        BY <2>3 DEF PopOrWait, Fifo!Take
    <2>4. ASSUME NEW t \in Threads, PopOrWait(t), message_list = <<>>
          PROVE  UNCHANGED Fifo!vars
        BY <2>4 DEF PopOrWait, Fifo!vars
    <2>5. ASSUME NEW t \in Threads, SpuriousWakeup(t)
          PROVE  UNCHANGED Fifo!vars
        BY <2>5 DEF SpuriousWakeup, Fifo!vars
    <2>6. ASSUME NEW t \in Threads, Pop(t)
          PROVE  Fifo!Pop(t)
        BY <2>6 DEF Pop, Fifo!Pop
    <2>7. ASSUME NEW t \in Threads, Clear(t)
          PROVE  Fifo!Clear
        BY <2>7 DEF Clear, Fifo!Clear
    <2>8. ASSUME NEW t \in Threads, NEW m \in Messages, Push(t, m)
          PROVE  Fifo!Push(m)
        BY <2>8 DEF Push, Fifo!Push
    <2>9. ASSUME NEW t \in Threads, NotifyOne(t)
          PROVE  UNCHANGED Fifo!vars
        BY <2>9 DEF NotifyOne, Fifo!vars
    <2>10. QED
        BY <2>1, <2>2, <2>3, <2>4, <2>5, <2>6, <2>7, <2>8, <2>9 DEF Next, Fifo!Next
<1>3. QED
    BY <1>1, <1>2, TypeCorrect, PTL DEF Spec, Fifo!Spec
=============================================================================
