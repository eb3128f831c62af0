---------------------------- MODULE StoreProofs -----------------------------
(***************************************************************************)
(* For every bound and every set of answers: the store is type correct,    *)
(* keeps the promise of the feed, loses no change that it keeps in memory  *)
(* and leaves no transaction open.                                         *)
(***************************************************************************)
EXTENDS Store, SequenceTheorems, TLAPS

USE AnswersAssumption, BoundAssumption

Below(S, T) == \A b \in S, c \in T : b < c

\* The batch being written is the newest one.
NewestInv ==
    /\ committed \subseteq 1 .. issued
    /\ pc = "exec" => batch = issued /\ batch \in Batches
    /\ pc = "exec" /\ conn = "up" => \A c \in committed : c < batch
    /\ pc = "queue" => batch \in committed

\* A process that is not running holds no connection and no changes.
RestInv ==
    /\ pc \in {"join", "off", "stopped"} => conn = "none" /\ memory = {}
    /\ pc \in {"off", "stopped"} => producer = <<>>

\* Messages on the topic come before those in the producer, these before the
\* batches in memory, and these before the batch that is about to be queued.
OrderInv ==
    /\ \A i \in DOMAIN topic : topic[i] \subseteq committed
    /\ \A j \in DOMAIN producer : producer[j] \subseteq committed /\ producer[j] # {}
    /\ memory \subseteq committed
    /\ \A i \in DOMAIN topic, j \in DOMAIN producer : Below(topic[i], producer[j])
    /\ \A i \in DOMAIN topic : Below(topic[i], memory)
    /\ \A i, j \in DOMAIN producer : i < j => Below(producer[i], producer[j])
    /\ \A j \in DOMAIN producer : Below(producer[j], memory)
    /\ pc = "queue" => /\ \A i \in DOMAIN topic : Below(topic[i], {batch})
                       /\ \A j \in DOMAIN producer : Below(producer[j], {batch})
                       /\ Below(memory, {batch})

IInv == TypeOK /\ NewestInv /\ RestInv /\ OrderInv

-----------------------------------------------------------------------------
(* What appending a message and taking the first one do to a sequence.     *)

\* The messages after an append: those from before, and the new one at the end.
LEMMA AppendMessage ==
    ASSUME NEW s \in Seq(SUBSET Batches), NEW m \in SUBSET Batches
    PROVE  /\ Append(s, m) \in Seq(SUBSET Batches)
           /\ DOMAIN Append(s, m) = 1 .. Len(s) + 1
           /\ DOMAIN s = 1 .. Len(s)
           /\ Len(s) \in Nat
           /\ \A i \in DOMAIN s : Append(s, m)[i] = s[i]
           /\ Append(s, m)[Len(s) + 1] = m
<1>1. Append(s, m) \in Seq(SUBSET Batches) /\ Len(Append(s, m)) = Len(s) + 1
  BY AppendProperties
<1>2. DOMAIN Append(s, m) = 1 .. Len(Append(s, m))  BY <1>1
<1>3. Len(s) \in Nat /\ DOMAIN s = 1 .. Len(s)  OBVIOUS
<1>4. QED  BY <1>1, <1>2, <1>3, AppendProperties

\* The messages after the first one was taken: the others, one place earlier.
LEMMA TakeMessage ==
    ASSUME NEW s \in Seq(SUBSET Batches), s # <<>>
    PROVE  /\ Head(s) = s[1] /\ 1 \in DOMAIN s
           /\ Head(s) \in SUBSET Batches
           /\ Tail(s) \in Seq(SUBSET Batches)
           /\ \A i \in DOMAIN Tail(s) :
                  i \in Nat \ {0} /\ i + 1 \in DOMAIN s /\ Tail(s)[i] = s[i + 1]
           /\ \A i \in DOMAIN s : i = 1 \/ i - 1 \in DOMAIN Tail(s)
<1>1. Len(s) \in Nat \ {0}  BY EmptySeq
<1>2. DOMAIN s = 1 .. Len(s) /\ 1 \in DOMAIN s  BY <1>1
<1>3. /\ Head(s) \in SUBSET Batches /\ Tail(s) \in Seq(SUBSET Batches)
      /\ Len(Tail(s)) = Len(s) - 1
      /\ \A i \in 1 .. Len(Tail(s)) : Tail(s)[i] = s[i + 1]
  BY HeadTailProperties
<1>4. DOMAIN Tail(s) = 1 .. Len(s) - 1  BY <1>3
<1>5. Head(s) = s[1]  OBVIOUS
<1>6. \A i \in 1 .. Len(s) - 1 : i \in Nat \ {0} /\ i + 1 \in 1 .. Len(s)
  BY <1>1
<1>7. \A i \in 1 .. Len(s) : i = 1 \/ i - 1 \in 1 .. Len(s) - 1
  BY <1>1
<1>8. \A i \in DOMAIN Tail(s) : i \in Nat \ {0} /\ i + 1 \in DOMAIN s /\ Tail(s)[i] = s[i + 1]
  BY <1>2, <1>3, <1>4, <1>6
<1>9. \A i \in DOMAIN s : i = 1 \/ i - 1 \in DOMAIN Tail(s)
  BY <1>2, <1>4, <1>7
<1>10. QED  BY <1>2, <1>3, <1>5, <1>8, <1>9

\* An append adds the batches of the new message.
LEMMA AppendBatches ==
    ASSUME NEW s \in Seq(SUBSET Batches), NEW m \in SUBSET Batches
    PROVE  UNION {Append(s, m)[i] : i \in DOMAIN Append(s, m)}
             = (UNION {s[i] : i \in DOMAIN s}) \union m
<1> DEFINE t == Append(s, m)
           n == Len(s) + 1
<1>1. DOMAIN t = DOMAIN s \union {n}  BY AppendMessage
<1>2. (\A i \in DOMAIN s : t[i] = s[i]) /\ t[n] = m  BY AppendMessage
<1> HIDE DEF t, n
<1>3. UNION {t[i] : i \in DOMAIN t} = (UNION {s[i] : i \in DOMAIN s}) \union m
  BY <1>1, <1>2
<1>4. QED  BY <1>3 DEF t

\* Taking the first message leaves the batches of the others.
LEMMA TakeBatches ==
    ASSUME NEW s \in Seq(SUBSET Batches), s # <<>>
    PROVE  UNION {s[i] : i \in DOMAIN s}
             = Head(s) \union UNION {Tail(s)[i] : i \in DOMAIN Tail(s)}
<1> DEFINE t == Tail(s)
<1>1. /\ Head(s) = s[1] /\ 1 \in DOMAIN s
      /\ \A i \in DOMAIN t : i + 1 \in DOMAIN s /\ t[i] = s[i + 1]
      /\ \A i \in DOMAIN s : i = 1 \/ (i - 1 \in DOMAIN t /\ s[i] = t[i - 1])
  BY TakeMessage
<1> HIDE DEF t
<1>2. UNION {s[i] : i \in DOMAIN s} = Head(s) \union UNION {t[i] : i \in DOMAIN t}
  BY <1>1
<1>3. QED  BY <1>2 DEF t
\* The producer holds batches.
LEMMA InProducerType == producer \in Seq(SUBSET Batches) => InProducer \subseteq Batches
<1>1. ASSUME producer \in Seq(SUBSET Batches), NEW i \in DOMAIN producer
      PROVE  producer[i] \subseteq Batches
  BY <1>1
<1>2. QED  BY <1>1 DEF InProducer

-----------------------------------------------------------------------------
(* The inductive invariant.                                                *)

\* It holds initially.
LEMMA InitIInv == Init => IInv
<1> SUFFICES ASSUME Init PROVE IInv
  OBVIOUS
<1> USE DEF Init
<1>1. (server \in BOOLEAN /\ sigTerm \in BOOLEAN) /\ multi \in BOOLEAN  OBVIOUS
<1>2. <<>> \in Seq(SUBSET Batches)  BY EmptySeq
<1>3. TypeOK  BY <1>1, <1>2 DEF TypeOK, Batches
<1>4. NewestInv /\ RestInv /\ OrderInv  BY DEF NewestInv, RestInv, OrderInv
<1>5. QED  BY <1>3, <1>4 DEF IInv

\* Every step keeps the types.
LEMMA TypeStep == IInv /\ [Next]_vars => TypeOK'
<1> SUFFICES ASSUME IInv, [Next]_vars PROVE TypeOK'
  OBVIOUS
<1> USE DEF IInv, TypeOK, threadVars, outerVars, feedVars, Goto
<1>1. CASE Connected  BY <1>1 DEF Connected, ThreadStates
<1>2. CASE GiveUp  BY <1>2 DEF GiveUp, ThreadStates
<1>3. CASE Scan  BY <1>3 DEF Scan, ThreadStates
<1>4. CASE BeginRun  BY <1>4 DEF BeginRun, ThreadStates
<1>5. CASE Read  BY <1>5 DEF Read, ThreadStates
<1>6. CASE ReadFails  BY <1>6 DEF ReadFails, ThreadStates
<1>7. CASE ReadMore  BY <1>7 DEF ReadMore, ThreadStates
<1>8. CASE Return  BY <1>8 DEF Return, ThreadStates
<1>9. CASE Store  BY <1>9 DEF Store, ThreadStates
<1>10. CASE StoreNothing  BY <1>10 DEF StoreNothing, ThreadStates
<1>11. CASE ExecOk  BY <1>11 DEF ExecOk, ThreadStates, NewestInv
<1>12. CASE ExecRefused  BY <1>12 DEF ExecRefused, ThreadStates
<1>13. CASE ExecUnanswered  BY <1>13 DEF ExecUnanswered, ThreadStates
<1>14. CASE Handler  BY <1>14 DEF Handler, ThreadStates
<1>15. CASE Queue
  <2>1. batch \in Batches  BY <1>15 DEF Queue, NewestInv
  <2>2. QED  BY <1>15, <2>1 DEF Queue, ThreadStates
<1>16. CASE SendNothing  BY <1>16 DEF SendNothing, ThreadStates
<1>17. CASE Sent  BY <1>17 DEF Sent, ThreadStates
<1>18. CASE Refused  BY <1>18 DEF Refused, ThreadStates
<1>19. CASE Busy  BY <1>19 DEF Busy, ThreadStates
<1>20. CASE Leave  BY <1>20 DEF Leave, ThreadStates
<1>21. CASE Unwind  BY <1>21 DEF Unwind, ThreadStates
<1>22. CASE Join
  <2>1. producer' \in Seq(SUBSET Batches)  BY <1>22, EmptySeq DEF Join
  <2>2. forgotten' \subseteq Batches  BY <1>22, InProducerType DEF Join
  <2>3. QED  BY <1>22, <2>1, <2>2 DEF Join
<1>23. CASE Start
  <2>1. (server' \in BOOLEAN /\ sigTerm' \in BOOLEAN) /\ multi' \in BOOLEAN
    BY <1>23 DEF Start
  <2>2. conn' = "none"  BY <1>23 DEF Start, Alive, RestInv
  <2>3. QED  BY <1>23, <2>1, <2>2 DEF Start, ThreadStates
<1>24. CASE Deliver  BY <1>24 DEF Deliver, ThreadStates
<1>25. CASE Drop  BY <1>25 DEF Drop, ThreadStates
<1>26. CASE ServerDown
  <2>1. committed' \subseteq Batches /\ forgotten' \subseteq Batches
    BY <1>26 DEF ServerDown, CutOff, NewestInv
  <2>2. (server' \in BOOLEAN /\ sigTerm' \in BOOLEAN) /\ multi' \in BOOLEAN
    BY <1>26 DEF ServerDown
  <2>3. /\ pc' = pc /\ conn' \in {"none", "broken"} /\ (conn = "none" => conn' = "none")
        /\ UNCHANGED <<jobs, tries, batch, issued, memory, producer, topic, drops, lives>>
    BY <1>26 DEF ServerDown
  <2>4. outages' \in Nat
    BY <1>26 DEF ServerDown
  <2>5. QED  BY <2>1, <2>2, <2>3, <2>4
<1>27. CASE ServerUp  BY <1>27 DEF ServerUp, ThreadStates
<1>28. CASE Signal  BY <1>28 DEF Signal, ThreadStates
<1>29. CASE Crash
  <2>1. (server' \in BOOLEAN /\ sigTerm' \in BOOLEAN) /\ multi' \in BOOLEAN
    BY <1>29 DEF Crash
  <2>2. producer' \in Seq(SUBSET Batches)  BY <1>29, EmptySeq DEF Crash
  <2>3. pc = "queue" \/ pc = "exec" => batch \in Batches  BY DEF NewestInv
  <2>4. committed' \subseteq Batches /\ forgotten' \subseteq Batches
    BY <1>29, <2>3, InProducerType DEF Crash
  <2>5. QED  BY <1>29, <2>1, <2>2, <2>4 DEF Crash
<1>30. CASE UNCHANGED vars  BY <1>30 DEF vars
<1>31. QED
  BY <1>1, <1>2, <1>3, <1>4, <1>5, <1>6, <1>7, <1>8, <1>9, <1>10, <1>11, <1>12, <1>13, <1>14,
     <1>15, <1>16, <1>17, <1>18, <1>19, <1>20, <1>21, <1>22, <1>23, <1>24, <1>25, <1>26,
     <1>27, <1>28, <1>29, <1>30 DEF Next, Thread

\* Every step leaves nothing behind in a process that is not running.
LEMMA RestStep == IInv /\ [Next]_vars => RestInv'
<1> SUFFICES ASSUME IInv, [Next]_vars PROVE RestInv'
  OBVIOUS
<1> USE DEF IInv, RestInv, threadVars, outerVars, feedVars, Goto
<1>1. CASE Connected  BY <1>1 DEF Connected, ThreadStates, Alive
<1>2. CASE GiveUp  BY <1>2 DEF GiveUp, ThreadStates, Alive
<1>3. CASE Scan  BY <1>3 DEF Scan, ThreadStates, Alive
<1>4. CASE BeginRun  BY <1>4 DEF BeginRun, ThreadStates, Alive
<1>5. CASE Read  BY <1>5 DEF Read, ThreadStates, Alive
<1>6. CASE ReadFails  BY <1>6 DEF ReadFails, ThreadStates, Alive
<1>7. CASE ReadMore  BY <1>7 DEF ReadMore, ThreadStates, Alive
<1>8. CASE Return  BY <1>8 DEF Return, ThreadStates, Alive
<1>9. CASE Store  BY <1>9 DEF Store, ThreadStates, Alive
<1>10. CASE StoreNothing  BY <1>10 DEF StoreNothing, ThreadStates, Alive
<1>11. CASE ExecOk  BY <1>11 DEF ExecOk, ThreadStates, Alive
<1>12. CASE ExecRefused  BY <1>12 DEF ExecRefused, ThreadStates, Alive
<1>13. CASE ExecUnanswered  BY <1>13 DEF ExecUnanswered, ThreadStates, Alive
<1>14. CASE Handler  BY <1>14 DEF Handler, ThreadStates, Alive
<1>15. CASE Queue  BY <1>15 DEF Queue, ThreadStates, Alive
<1>16. CASE SendNothing  BY <1>16 DEF SendNothing, ThreadStates, Alive
<1>17. CASE Sent  BY <1>17 DEF Sent, ThreadStates, Alive
<1>18. CASE Refused  BY <1>18 DEF Refused, ThreadStates, Alive
<1>19. CASE Busy  BY <1>19 DEF Busy, ThreadStates, Alive
<1>20. CASE Leave  BY <1>20 DEF Leave, ThreadStates, Alive
<1>21. CASE Unwind  BY <1>21 DEF Unwind, ThreadStates, Alive
<1>22. CASE Join  BY <1>22 DEF Join, ThreadStates, Alive
<1>23. CASE Start  BY <1>23 DEF Start, ThreadStates, Alive
<1>24. CASE Deliver  BY <1>24 DEF Deliver, ThreadStates, Alive
<1>25. CASE Drop  BY <1>25 DEF Drop, ThreadStates, Alive
<1>26. CASE ServerDown  BY <1>26 DEF ServerDown, ThreadStates, Alive
<1>27. CASE ServerUp  BY <1>27 DEF ServerUp, ThreadStates, Alive
<1>28. CASE Signal  BY <1>28 DEF Signal, ThreadStates, Alive
<1>29. CASE Crash  BY <1>29 DEF Crash, ThreadStates, Alive
<1>30. CASE UNCHANGED vars  BY <1>30 DEF vars
<1>31. QED
  BY <1>1, <1>2, <1>3, <1>4, <1>5, <1>6, <1>7, <1>8, <1>9, <1>10, <1>11, <1>12, <1>13, <1>14,
     <1>15, <1>16, <1>17, <1>18, <1>19, <1>20, <1>21, <1>22, <1>23, <1>24, <1>25, <1>26,
     <1>27, <1>28, <1>29, <1>30 DEF Next, Thread

\* Every step keeps the batch being written the newest one.
LEMMA NewestStep == IInv /\ [Next]_vars => NewestInv'
<1> SUFFICES ASSUME IInv, [Next]_vars PROVE NewestInv'
  OBVIOUS
<1> USE DEF IInv, TypeOK, NewestInv, Batches, threadVars, outerVars, feedVars, Goto
<1>1. CASE Connected  BY <1>1 DEF Connected
<1>2. CASE GiveUp  BY <1>2 DEF GiveUp
<1>3. CASE Scan  BY <1>3 DEF Scan
<1>4. CASE BeginRun  BY <1>4 DEF BeginRun
<1>5. CASE Read  BY <1>5 DEF Read
<1>6. CASE ReadFails  BY <1>6 DEF ReadFails
<1>7. CASE ReadMore  BY <1>7 DEF ReadMore
<1>8. CASE Return  BY <1>8 DEF Return
<1>9. CASE Store  BY <1>9 DEF Store
<1>10. CASE StoreNothing  BY <1>10 DEF StoreNothing
<1>11. CASE ExecOk  BY <1>11 DEF ExecOk
<1>12. CASE ExecRefused  BY <1>12 DEF ExecRefused
<1>13. CASE ExecUnanswered  BY <1>13 DEF ExecUnanswered
<1>14. CASE Handler  BY <1>14 DEF Handler
<1>15. CASE Queue  BY <1>15 DEF Queue
<1>16. CASE SendNothing  BY <1>16 DEF SendNothing
<1>17. CASE Sent  BY <1>17 DEF Sent
<1>18. CASE Refused  BY <1>18 DEF Refused
<1>19. CASE Busy  BY <1>19 DEF Busy
<1>20. CASE Leave  BY <1>20 DEF Leave
<1>21. CASE Unwind  BY <1>21 DEF Unwind
<1>22. CASE Join  BY <1>22 DEF Join
<1>23. CASE Start  BY <1>23 DEF Start
<1>24. CASE Deliver  BY <1>24 DEF Deliver
<1>25. CASE Drop  BY <1>25 DEF Drop
<1>26. CASE ServerDown
  <2>1. /\ pc' = pc /\ conn' # "up" /\ batch' = batch /\ issued' = issued
        /\ \/ committed' = committed
           \/ pc = "exec" /\ committed' = committed \union {batch}
    BY <1>26 DEF ServerDown, CutOff
  <2>2. pc = "exec" => batch \in 1 .. issued
    <3>1. pc = "exec" => batch = issued /\ batch \in Int /\ 1 <= batch /\ batch <= issued
      OBVIOUS
    <3> HIDE DEF IInv, TypeOK, NewestInv
    <3>2. QED  BY <3>1
  <2>3. committed' \subseteq 1 .. issued  BY <2>1, <2>2
  <2>4. QED  BY <2>1, <2>3
<1>27. CASE ServerUp  BY <1>27 DEF ServerUp
<1>28. CASE Signal  BY <1>28 DEF Signal
<1>29. CASE Crash
  <2>1. /\ pc' = "off" /\ issued' = issued
        /\ \/ committed' = committed
           \/ pc = "exec" /\ committed' = committed \union {batch}
    BY <1>29 DEF Crash
  <2>2. pc = "exec" => batch \in 1 .. issued
    <3>1. pc = "exec" => batch = issued /\ batch \in Int /\ 1 <= batch /\ batch <= issued
      OBVIOUS
    <3> HIDE DEF IInv, TypeOK, NewestInv
    <3>2. QED  BY <3>1
  <2>3. committed' \subseteq 1 .. issued  BY <2>1, <2>2
  <2>4. QED  BY <2>1, <2>3
<1>30. CASE UNCHANGED vars  BY <1>30 DEF vars
<1>31. QED
  BY <1>1, <1>2, <1>3, <1>4, <1>5, <1>6, <1>7, <1>8, <1>9, <1>10, <1>11, <1>12, <1>13, <1>14,
     <1>15, <1>16, <1>17, <1>18, <1>19, <1>20, <1>21, <1>22, <1>23, <1>24, <1>25, <1>26,
     <1>27, <1>28, <1>29, <1>30 DEF Next, Thread

\* Every step keeps the order of the batches on their way to the topic.
LEMMA OrderStep == IInv /\ [Next]_vars => OrderInv'
<1> SUFFICES ASSUME IInv, [Next]_vars PROVE OrderInv'
  OBVIOUS
<1>0. /\ producer \in Seq(SUBSET Batches) /\ topic \in Seq(SUBSET Batches)
      /\ memory \in SUBSET Batches
      /\ NewestInv /\ OrderInv
  BY DEF IInv, TypeOK
<1> USE <1>0 DEF OrderInv, threadVars, outerVars, feedVars, Goto, Below
<1>1. CASE Connected  BY <1>1 DEF Connected
<1>2. CASE GiveUp  BY <1>2 DEF GiveUp
<1>3. CASE Scan  BY <1>3 DEF Scan
<1>4. CASE BeginRun  BY <1>4 DEF BeginRun
<1>5. CASE Read  BY <1>5 DEF Read
<1>6. CASE ReadFails  BY <1>6 DEF ReadFails
<1>7. CASE ReadMore  BY <1>7 DEF ReadMore
<1>8. CASE Return  BY <1>8 DEF Return
<1>9. CASE Store  BY <1>9 DEF Store
<1>10. CASE StoreNothing  BY <1>10 DEF StoreNothing
<1>11. CASE ExecRefused  BY <1>11 DEF ExecRefused
<1>12. CASE ExecUnanswered  BY <1>12 DEF ExecUnanswered
<1>13. CASE Handler  BY <1>13 DEF Handler
<1>14. CASE SendNothing  BY <1>14 DEF SendNothing
<1>15. CASE Refused  BY <1>15 DEF Refused
<1>16. CASE Busy  BY <1>16 DEF Busy
<1>17. CASE Leave  BY <1>17 DEF Leave
<1>18. CASE Start  BY <1>18 DEF Start
<1>19. CASE ServerUp  BY <1>19 DEF ServerUp
<1>20. CASE Signal  BY <1>20 DEF Signal
<1>21. CASE UNCHANGED vars  BY <1>21 DEF vars
<1>22. CASE ExecOk
  <2>1. /\ pc' = "queue" /\ batch' = batch /\ committed' = committed \union {batch}
        /\ UNCHANGED <<topic, producer, memory>>
    BY <1>22 DEF ExecOk
  <2>2. \A c \in committed : c < batch  BY <1>22 DEF ExecOk, NewestInv
  <2>3. QED  BY <2>1, <2>2
<1>23. CASE Queue
  <2>1. /\ pc' = "send" /\ memory' = memory \union {batch}
        /\ UNCHANGED <<topic, producer, committed>>
    BY <1>23 DEF Queue
  <2>2. pc = "queue" /\ batch \in committed  BY <1>23 DEF Queue, NewestInv
  <2>3. QED  BY <2>1, <2>2
<1>24. CASE Sent
  <2>1. /\ pc' = "work" /\ memory' = {} /\ memory # {}
        /\ producer' = Append(producer, memory)
        /\ UNCHANGED <<topic, committed>>
    BY <1>24 DEF Sent
  <2>2. /\ DOMAIN producer' = 1 .. Len(producer) + 1
        /\ DOMAIN producer = 1 .. Len(producer) /\ Len(producer) \in Nat
        /\ \A i \in DOMAIN producer : producer'[i] = producer[i]
        /\ producer'[Len(producer) + 1] = memory
    BY <2>1, AppendMessage
  <2>3. \A j \in DOMAIN producer' :
            \/ j \in DOMAIN producer /\ producer'[j] = producer[j]
            \/ j = Len(producer) + 1 /\ producer'[j] = memory
    BY <2>2
  <2>4. /\ \A j \in DOMAIN producer' : producer'[j] \subseteq committed /\ producer'[j] # {}
        /\ \A i \in DOMAIN topic, j \in DOMAIN producer' : Below(topic[i], producer'[j])
    BY <2>1, <2>3
  <2>5. ASSUME NEW i \in DOMAIN producer', NEW j \in DOMAIN producer', i < j
        PROVE  Below(producer'[i], producer'[j])
    <3>1. i \in DOMAIN producer /\ producer'[i] = producer[i]  BY <2>2, <2>5
    <3>2. CASE j \in DOMAIN producer  BY <2>3, <2>5, <3>1, <3>2, <2>2
    <3>3. CASE j = Len(producer) + 1  BY <2>2, <3>1, <3>3
    <3>4. QED  BY <2>3, <3>2, <3>3
  <2>6. QED  BY <2>1, <2>4, <2>5
<1>25. CASE Unwind  BY <1>25 DEF Unwind
<1>26. CASE Join  BY <1>26 DEF Join
<1>27. CASE Deliver
  <2>1. /\ producer # <<>> /\ producer' = Tail(producer)
        /\ topic' = Append(topic, Head(producer))
        /\ UNCHANGED <<pc, batch, memory, committed>>
    BY <1>27 DEF Deliver
  <2>2. /\ Head(producer) = producer[1] /\ 1 \in DOMAIN producer
        /\ \A j \in DOMAIN producer' :
               j \in Nat \ {0} /\ j + 1 \in DOMAIN producer /\ producer'[j] = producer[j + 1]
    BY <2>1, TakeMessage
  <2>3. Head(producer) \in SUBSET Batches  BY <2>1, TakeMessage
  <2>4. \A i \in DOMAIN topic' :
            \/ i \in DOMAIN topic /\ topic'[i] = topic[i]
            \/ topic'[i] = producer[1]
    BY <2>1, <2>2, <2>3, AppendMessage
  <2>5. \A i, j \in DOMAIN producer' : i < j => Below(producer'[i], producer'[j])
    <3>1. ASSUME NEW i \in DOMAIN producer', NEW j \in DOMAIN producer', i < j
          PROVE  Below(producer'[i], producer'[j])
      <4>1. i + 1 \in DOMAIN producer /\ j + 1 \in DOMAIN producer /\ i + 1 < j + 1
        BY <2>2, <3>1
      <4>2. Below(producer[i + 1], producer[j + 1])  BY <4>1
      <4>3. QED  BY <2>2, <4>2
    <3>2. QED  BY <3>1
  <2>6. \A j \in DOMAIN producer' : Below(producer[1], producer'[j])
    BY <2>2
  <2>7. /\ \A j \in DOMAIN producer' : producer'[j] \subseteq committed /\ producer'[j] # {}
        /\ \A j \in DOMAIN producer' : Below(producer'[j], memory)
        /\ pc = "queue" => \A j \in DOMAIN producer' : Below(producer'[j], {batch})
    BY <2>2
  <2>8. /\ \A i \in DOMAIN topic' : topic'[i] \subseteq committed /\ Below(topic'[i], memory)
        /\ \A i \in DOMAIN topic', j \in DOMAIN producer' : Below(topic'[i], producer'[j])
        /\ pc = "queue" => \A i \in DOMAIN topic' : Below(topic'[i], {batch})
    BY <2>2, <2>4, <2>6
  <2>9. QED  BY <2>1, <2>5, <2>7, <2>8
<1>28. CASE Drop
  <2>1. /\ producer # <<>> /\ producer' = Tail(producer)
        /\ UNCHANGED <<pc, batch, memory, committed, topic>>
    BY <1>28 DEF Drop
  <2>2. /\ Head(producer) = producer[1] /\ 1 \in DOMAIN producer
        /\ \A j \in DOMAIN producer' :
               j \in Nat \ {0} /\ j + 1 \in DOMAIN producer /\ producer'[j] = producer[j + 1]
    BY <2>1, TakeMessage
  <2>3. \A i, j \in DOMAIN producer' : i < j => Below(producer'[i], producer'[j])
    <3>1. ASSUME NEW i \in DOMAIN producer', NEW j \in DOMAIN producer', i < j
          PROVE  Below(producer'[i], producer'[j])
      <4>1. i + 1 \in DOMAIN producer /\ j + 1 \in DOMAIN producer /\ i + 1 < j + 1
        BY <2>2, <3>1
      <4>2. Below(producer[i + 1], producer[j + 1])  BY <4>1
      <4>3. QED  BY <2>2, <4>2
    <3>2. QED  BY <3>1
  <2>4. QED  BY <2>1, <2>2, <2>3
<1>29. CASE ServerDown
  <2>1. /\ committed \subseteq committed' /\ UNCHANGED <<pc, batch, memory, producer, topic>>
    BY <1>29 DEF ServerDown, CutOff
  <2>2. QED  BY <2>1
<1>30. CASE Crash
  <2>1. /\ committed \subseteq committed' /\ memory' = {} /\ producer' = <<>>
        /\ pc' = "off" /\ topic' = topic
    BY <1>30 DEF Crash
  <2>2. QED  BY <2>1
<1>31. QED
  BY <1>1, <1>2, <1>3, <1>4, <1>5, <1>6, <1>7, <1>8, <1>9, <1>10, <1>11, <1>12, <1>13, <1>14,
     <1>15, <1>16, <1>17, <1>18, <1>19, <1>20, <1>21, <1>22, <1>23, <1>24, <1>25, <1>26,
     <1>27, <1>28, <1>29, <1>30 DEF Next, Thread

\* IInv is an invariant.
THEOREM StoreInvariant == Spec => []IInv
<1>1. IInv /\ [Next]_vars => IInv'
  BY TypeStep, RestStep, NewestStep, OrderStep DEF IInv
<1>2. QED  BY InitIInv, <1>1, PTL DEF Spec

\* The store never leaves its types, and connects only when it holds no connection.
THEOREM StoreTypeCorrect == Spec => []TypeOK
<1>1. IInv => TypeOK  BY DEF IInv
<1>2. QED  BY StoreInvariant, <1>1, PTL

-----------------------------------------------------------------------------
(* Refinement of the feed.                                                 *)

\* Every step of the store is a commit, a publication or a stutter of the feed.
LEMMA FeedStep == IInv /\ [Next]_vars => [Feed!Commit \/ Feed!Publish]_(Feed!feedVars)
<1> SUFFICES ASSUME IInv, [Next]_vars
             PROVE  Feed!Commit \/ Feed!Publish \/ UNCHANGED <<committed, topic>>
  BY DEF Feed!feedVars
<1>0. /\ producer \in Seq(SUBSET Batches) /\ topic \in Seq(SUBSET Batches)
      /\ NewestInv /\ OrderInv
  BY DEF IInv, TypeOK
<1>1. ASSUME pc = "exec", conn = "up", committed' = committed \union {batch}, topic' = topic
      PROVE  Feed!Commit
  <2>1. \A c \in committed : c < batch  BY <1>0, <1>1 DEF NewestInv
  <2>2. QED  BY <1>1, <2>1 DEF Feed!Commit
<1>2. CASE ExecOk  BY <1>1, <1>2 DEF ExecOk
<1>3. CASE ServerDown  BY <1>1, <1>3 DEF ServerDown, CutOff
<1>4. CASE Crash  BY <1>1, <1>4 DEF Crash
<1>5. CASE Deliver
  <2>1. /\ producer # <<>> /\ topic' = Append(topic, Head(producer)) /\ committed' = committed
    BY <1>5 DEF Deliver
  <2>2. Head(producer) = producer[1] /\ 1 \in DOMAIN producer
    BY <1>0, <2>1, TakeMessage
  <2>3. Head(producer) \in (SUBSET committed) \ {{}}
    BY <1>0, <2>2 DEF OrderInv
  <2>4. \A i \in DOMAIN topic : \A b \in topic[i], c \in Head(producer) : b < c
    BY <1>0, <2>2 DEF OrderInv, Below
  <2>5. QED  BY <2>1, <2>3, <2>4 DEF Feed!Publish
<1> USE DEF threadVars, outerVars, feedVars, Goto
<1>6. CASE Connected  BY <1>6 DEF Connected
<1>7. CASE GiveUp  BY <1>7 DEF GiveUp
<1>8. CASE Scan  BY <1>8 DEF Scan
<1>9. CASE BeginRun  BY <1>9 DEF BeginRun
<1>10. CASE Read  BY <1>10 DEF Read
<1>11. CASE ReadFails  BY <1>11 DEF ReadFails
<1>12. CASE ReadMore  BY <1>12 DEF ReadMore
<1>13. CASE Return  BY <1>13 DEF Return
<1>14. CASE Store  BY <1>14 DEF Store
<1>15. CASE StoreNothing  BY <1>15 DEF StoreNothing
<1>16. CASE ExecRefused  BY <1>16 DEF ExecRefused
<1>17. CASE ExecUnanswered  BY <1>17 DEF ExecUnanswered
<1>18. CASE Handler  BY <1>18 DEF Handler
<1>19. CASE Queue  BY <1>19 DEF Queue
<1>20. CASE SendNothing  BY <1>20 DEF SendNothing
<1>21. CASE Sent  BY <1>21 DEF Sent
<1>22. CASE Refused  BY <1>22 DEF Refused
<1>23. CASE Busy  BY <1>23 DEF Busy
<1>24. CASE Leave  BY <1>24 DEF Leave
<1>25. CASE Unwind  BY <1>25 DEF Unwind
<1>26. CASE Join  BY <1>26 DEF Join
<1>27. CASE Start  BY <1>27 DEF Start
<1>28. CASE Drop  BY <1>28 DEF Drop
<1>29. CASE ServerUp  BY <1>29 DEF ServerUp
<1>30. CASE Signal  BY <1>30 DEF Signal
<1>31. CASE UNCHANGED vars  BY <1>31 DEF vars
<1>32. QED
  BY <1>2, <1>3, <1>4, <1>5, <1>6, <1>7, <1>8, <1>9, <1>10, <1>11, <1>12, <1>13, <1>14,
     <1>15, <1>16, <1>17, <1>18, <1>19, <1>20, <1>21, <1>22, <1>23, <1>24, <1>25, <1>26,
     <1>27, <1>28, <1>29, <1>30, <1>31 DEF Next, Thread

\* The store implements the feed.
THEOREM StoreKeepsFeed == Spec => FeedKept
<1>1. Init => Feed!FeedInit  BY DEF Init, Feed!FeedInit
<1>2. QED  BY StoreInvariant, FeedStep, <1>1, PTL DEF Spec, FeedKept, Feed!FeedSpec

-----------------------------------------------------------------------------
(* What the failure handler leaves behind.                                 *)

\* Algorithms never work inside an aborted transaction.
THEOREM StoreLeavesNoTransaction == Spec => []NoOpenTransaction
<1>1. Init => NoOpenTransaction  BY DEF Init, NoOpenTransaction
<1>2. NoOpenTransaction /\ [Next]_vars => NoOpenTransaction'
  <2> SUFFICES ASSUME NoOpenTransaction, [Next]_vars PROVE NoOpenTransaction'
    OBVIOUS
  <2> USE DEF NoOpenTransaction, threadVars, outerVars, feedVars, Goto
  <2>1. CASE Connected  BY <2>1 DEF Connected
  <2>2. CASE GiveUp  BY <2>2 DEF GiveUp
  <2>3. CASE Scan  BY <2>3 DEF Scan
  <2>4. CASE BeginRun  BY <2>4 DEF BeginRun
  <2>5. CASE Read  BY <2>5 DEF Read
  <2>6. CASE ReadFails  BY <2>6 DEF ReadFails
  <2>7. CASE ReadMore  BY <2>7 DEF ReadMore
  <2>8. CASE Return  BY <2>8 DEF Return
  <2>9. CASE Store  BY <2>9 DEF Store
  <2>10. CASE StoreNothing  BY <2>10 DEF StoreNothing
  <2>11. CASE ExecOk  BY <2>11 DEF ExecOk
  <2>12. CASE ExecRefused  BY <2>12 DEF ExecRefused
  <2>13. CASE ExecUnanswered  BY <2>13 DEF ExecUnanswered
  <2>14. CASE Handler  BY <2>14 DEF Handler
  <2>15. CASE Queue  BY <2>15 DEF Queue
  <2>16. CASE SendNothing  BY <2>16 DEF SendNothing
  <2>17. CASE Sent  BY <2>17 DEF Sent
  <2>18. CASE Refused  BY <2>18 DEF Refused
  <2>19. CASE Busy  BY <2>19 DEF Busy
  <2>20. CASE Leave  BY <2>20 DEF Leave
  <2>21. CASE Unwind  BY <2>21 DEF Unwind
  <2>22. CASE Join  BY <2>22 DEF Join
  <2>23. CASE Start  BY <2>23 DEF Start, Alive, ThreadStates
  <2>24. CASE Deliver  BY <2>24 DEF Deliver
  <2>25. CASE Drop  BY <2>25 DEF Drop
  <2>26. CASE ServerDown  BY <2>26 DEF ServerDown
  <2>27. CASE ServerUp  BY <2>27 DEF ServerUp
  <2>28. CASE Signal  BY <2>28 DEF Signal
  <2>29. CASE Crash  BY <2>29 DEF Crash
  <2>30. CASE UNCHANGED vars  BY <2>30 DEF vars
  <2>31. QED
    BY <2>1, <2>2, <2>3, <2>4, <2>5, <2>6, <2>7, <2>8, <2>9, <2>10, <2>11, <2>12, <2>13,
       <2>14, <2>15, <2>16, <2>17, <2>18, <2>19, <2>20, <2>21, <2>22, <2>23, <2>24, <2>25,
       <2>26, <2>27, <2>28, <2>29, <2>30 DEF Next, Thread
<1>3. QED  BY <1>1, <1>2, PTL DEF Spec

-----------------------------------------------------------------------------
(* Every committed batch is somewhere, and in one place.                   *)

\* The order of the batches keeps the places apart.
LEMMA PlacesApart ==
    IInv => /\ OnTopic \cap Pipeline = {}
            /\ memory \cap InProducer = {}
            /\ pc = "queue" => batch \notin memory \union InProducer
<1> SUFFICES ASSUME IInv
             PROVE  /\ OnTopic \cap Pipeline = {}
                    /\ memory \cap InProducer = {}
                    /\ pc = "queue" => batch \notin memory \union InProducer
  OBVIOUS
<1>1. OrderInv /\ committed \subseteq Int  BY DEF IInv, TypeOK, Batches
<1>2. ASSUME NEW b \in OnTopic, NEW c \in Pipeline PROVE b < c
  <2>1. PICK i \in DOMAIN topic : b \in topic[i]  BY DEF OnTopic
  <2>2. CASE c \in InProducer
    <3>1. PICK j \in DOMAIN producer : c \in producer[j]  BY <2>2 DEF InProducer
    <3>2. QED  BY <1>1, <2>1, <3>1 DEF OrderInv, Below
  <2>3. CASE c \in memory  BY <1>1, <2>1, <2>3 DEF OrderInv, Below
  <2>4. CASE pc = "queue" /\ c = batch  BY <1>1, <2>1, <2>4 DEF OrderInv, Below
  <2>5. QED  BY <2>2, <2>3, <2>4 DEF Pipeline
<1>3. ASSUME NEW b \in InProducer, NEW c \in memory PROVE b < c
  <2>1. PICK j \in DOMAIN producer : b \in producer[j]  BY DEF InProducer
  <2>2. QED  BY <1>1, <2>1 DEF OrderInv, Below
<1>4. ASSUME pc = "queue", NEW b \in memory \union InProducer PROVE b < batch
  <2>1. CASE b \in memory  BY <1>1, <1>4, <2>1 DEF OrderInv, Below
  <2>2. CASE b \in InProducer
    <3>1. PICK j \in DOMAIN producer : b \in producer[j]  BY <2>2 DEF InProducer
    <3>2. QED  BY <1>1, <1>4, <3>1 DEF OrderInv, Below
  <2>3. QED  BY <2>1, <2>2
<1>5. OnTopic \subseteq Int /\ memory \subseteq Int /\ batch \in Int
  <2>1. OnTopic \subseteq committed  BY <1>1 DEF OnTopic, OrderInv
  <2>2. memory \subseteq committed  BY <1>1 DEF OrderInv
  <2>3. batch \in Int  BY DEF IInv, TypeOK
  <2>4. QED  BY <1>1, <2>1, <2>2, <2>3
<1>6. OnTopic \cap Pipeline = {}
  <2>1. \A b \in OnTopic : b \notin Pipeline
    <3> SUFFICES ASSUME NEW b \in OnTopic, b \in Pipeline PROVE FALSE
      OBVIOUS
    <3>1. b < b /\ b \in Int  BY <1>2, <1>5
    <3>2. QED  BY <3>1
  <2>2. QED  BY <2>1
<1>7. memory \cap InProducer = {}
  <2>1. \A b \in InProducer : b \notin memory
    <3> SUFFICES ASSUME NEW b \in InProducer, b \in memory PROVE FALSE
      OBVIOUS
    <3>1. b < b /\ b \in Int  BY <1>3, <1>5
    <3>2. QED  BY <3>1
  <2>2. QED  BY <2>1
<1>8. pc = "queue" => batch \notin memory \union InProducer  BY <1>4, <1>5
<1>9. QED  BY <1>6, <1>7, <1>8

\* Every committed batch is on the topic, on its way or lost.
LostInv ==
    /\ committed = OnTopic \union Pipeline \union forgotten
    /\ OnTopic \cap forgotten = {} /\ Pipeline \cap forgotten = {}

\* No step loses a batch that it does not count as lost.
LEMMA LostStep == IInv /\ IInv' /\ LostInv /\ [Next]_vars => LostInv'
<1> SUFFICES ASSUME IInv, IInv', LostInv, [Next]_vars PROVE LostInv'
  OBVIOUS
<1>0. /\ producer \in Seq(SUBSET Batches) /\ topic \in Seq(SUBSET Batches)
      /\ memory \in SUBSET Batches
      /\ NewestInv
      /\ OnTopic \cap Pipeline = {} /\ memory \cap InProducer = {}
      /\ pc = "queue" => batch \notin memory \union InProducer
  BY PlacesApart DEF IInv, TypeOK
<1> USE DEF LostInv
\* Steps that move no batch.
<1>1. ASSUME UNCHANGED <<memory, producer, committed, topic, forgotten>>,
             pc # "queue", pc' # "queue"
      PROVE  LostInv'
  BY <1>1 DEF OnTopic, InProducer, Pipeline
<1>2. ASSUME UNCHANGED <<memory, producer, committed, topic, forgotten, pc, batch>>
      PROVE  LostInv'
  BY <1>2 DEF OnTopic, InProducer, Pipeline
\* A commit whose client is gone: the batch is lost at once.
<1>3. ASSUME pc = "exec", conn = "up", OnTopic' = OnTopic, Pipeline' = Pipeline,
             committed' = committed \union {batch}, forgotten' = forgotten \union {batch}
      PROVE  LostInv'
  <2>1. batch \notin committed
    <3>1. \A c \in committed : c < batch /\ c \in Int  BY <1>0, <1>3 DEF NewestInv, IInv, TypeOK
    <3>2. QED  BY <3>1
  <2>2. QED  BY <1>3, <2>1
<1> USE DEF threadVars, outerVars, feedVars, Goto
<1>4. CASE Connected  BY <1>1, <1>4 DEF Connected
<1>5. CASE GiveUp  BY <1>1, <1>5 DEF GiveUp
<1>6. CASE Scan  BY <1>1, <1>6 DEF Scan
<1>7. CASE BeginRun  BY <1>1, <1>7 DEF BeginRun
<1>8. CASE Read  BY <1>1, <1>8 DEF Read
<1>9. CASE ReadFails  BY <1>1, <1>9 DEF ReadFails
<1>10. CASE ReadMore  BY <1>1, <1>10 DEF ReadMore
<1>11. CASE Return  BY <1>1, <1>11 DEF Return
<1>12. CASE Store  BY <1>1, <1>12 DEF Store
<1>13. CASE StoreNothing  BY <1>1, <1>13 DEF StoreNothing
<1>14. CASE ExecRefused  BY <1>1, <1>14 DEF ExecRefused
<1>15. CASE ExecUnanswered  BY <1>1, <1>15 DEF ExecUnanswered
<1>16. CASE Handler  BY <1>1, <1>16 DEF Handler
<1>17. CASE SendNothing  BY <1>1, <1>17 DEF SendNothing
<1>18. CASE Refused  BY <1>1, <1>18 DEF Refused
<1>19. CASE Busy  BY <1>1, <1>19 DEF Busy
<1>20. CASE Leave  BY <1>1, <1>20 DEF Leave
<1>21. CASE ServerUp  BY <1>2, <1>21 DEF ServerUp
<1>22. CASE Signal  BY <1>2, <1>22 DEF Signal
<1>23. CASE Start  BY <1>1, <1>23 DEF Start, Alive, ThreadStates
<1>24. CASE UNCHANGED vars  BY <1>2, <1>24 DEF vars
<1>25. CASE ExecOk
  <2>1. /\ pc = "exec" /\ conn = "up" /\ pc' = "queue" /\ batch' = batch
        /\ committed' = committed \union {batch}
        /\ UNCHANGED <<topic, producer, memory, forgotten>>
    BY <1>25 DEF ExecOk
  <2>2. \A c \in committed : c < batch /\ c \in Int
    BY <1>0, <2>1 DEF NewestInv, IInv, TypeOK
  <2>3. batch \notin committed  BY <2>2
  <2>4. OnTopic' = OnTopic /\ Pipeline' = Pipeline \union {batch}
    BY <2>1 DEF OnTopic, Pipeline, InProducer
  <2>5. QED  BY <2>1, <2>3, <2>4
<1>26. CASE Queue
  <2>1. OnTopic' = OnTopic /\ Pipeline' = Pipeline
    BY <1>26 DEF Queue, OnTopic, Pipeline, InProducer
  <2>2. QED  BY <1>26, <2>1 DEF Queue
<1>27. CASE Sent
  <2>1. InProducer' = InProducer \union memory
    BY <1>0, <1>27, AppendBatches DEF Sent, InProducer
  <2>2. OnTopic' = OnTopic /\ Pipeline' = Pipeline
    BY <1>27, <2>1 DEF Sent, OnTopic, Pipeline
  <2>3. QED  BY <1>27, <2>2 DEF Sent
<1>28. CASE Unwind
  <2>1. OnTopic' = OnTopic /\ Pipeline' = InProducer /\ Pipeline = memory \union InProducer
    BY <1>28 DEF Unwind, OnTopic, Pipeline, InProducer
  <2>2. QED  BY <1>0, <1>28, <2>1 DEF Unwind
<1>29. CASE Join
  <2>1. OnTopic' = OnTopic /\ InProducer' = {}
    BY <1>29 DEF Join, OnTopic, InProducer
  <2>2. Pipeline' = memory /\ Pipeline = memory \union InProducer
    BY <1>29, <2>1 DEF Join, Pipeline
  <2>3. QED  BY <1>0, <1>29, <2>1, <2>2 DEF Join
<1>30. CASE Deliver
  <2>1. /\ producer # <<>> /\ topic' = Append(topic, Head(producer)) /\ producer' = Tail(producer)
        /\ UNCHANGED <<pc, batch, memory, committed, forgotten>>
    BY <1>30 DEF Deliver
  <2>2. InProducer = Head(producer) \union InProducer'
    <3>1. producer # <<>> /\ producer' = Tail(producer)  BY <2>1
    <3>2. QED  BY <1>0, <3>1, TakeBatches DEF InProducer
  <2>3. Head(producer) \in SUBSET Batches  BY <1>0, <2>1, TakeMessage
  <2>4. OnTopic' = OnTopic \union Head(producer)
    <3> DEFINE m == Head(producer)
    <3>1. topic' = Append(topic, m) /\ m \in SUBSET Batches  BY <2>1, <2>3
    <3> HIDE DEF m
    <3>2. UNION {Append(topic, m)[i] : i \in DOMAIN Append(topic, m)} = OnTopic \union m
      BY <1>0, <3>1, AppendBatches DEF OnTopic
    <3>3. OnTopic' = OnTopic \union m  BY <3>1, <3>2 DEF OnTopic
    <3>4. QED  BY <3>3 DEF m
  <2>5. Pipeline = Head(producer) \union Pipeline'
    BY <2>1, <2>2 DEF Pipeline
  <2>6. QED  BY <2>1, <2>4, <2>5
<1>31. CASE Drop
  <2>1. /\ producer # <<>> /\ forgotten' = forgotten \union Head(producer)
        /\ producer' = Tail(producer)
        /\ UNCHANGED <<pc, batch, memory, committed, topic>>
    BY <1>31 DEF Drop
  <2>2. InProducer = Head(producer) \union InProducer'
    BY <1>0, <2>1, TakeBatches DEF InProducer
  <2>3. Pipeline = Head(producer) \union Pipeline' /\ OnTopic' = OnTopic
    BY <2>1, <2>2 DEF Pipeline, OnTopic
  <2>4. Head(producer) \cap Pipeline' = {}
    <3>1. Head(producer) = producer[1] /\ 1 \in DOMAIN producer /\ producer[1] \subseteq Int
      BY <1>0, <2>1, TakeMessage DEF Batches
    <3>2. ASSUME NEW b \in Head(producer), b \in Pipeline' PROVE FALSE
      <4>1. CASE b \in memory  BY <1>0, <3>1, <3>2, <4>1 DEF InProducer
      <4>2. CASE pc = "queue" /\ b = batch  BY <1>0, <3>1, <3>2, <4>2 DEF InProducer
      <4>3. CASE b \in InProducer'
        <5>1. PICK j \in DOMAIN Tail(producer) : b \in Tail(producer)[j]
          BY <2>1, <4>3 DEF InProducer
        <5>2. j + 1 \in DOMAIN producer /\ b \in producer[j + 1] /\ 1 < j + 1
          BY <1>0, <2>1, <5>1, TakeMessage
        <5>3. b < b /\ b \in Int
          BY <3>1, <3>2, <5>2 DEF IInv, OrderInv, Below
        <5>4. QED  BY <5>3
      <4>4. QED  BY <2>1, <3>2, <4>1, <4>2, <4>3 DEF Pipeline
    <3>3. QED  BY <3>2
  <2>5. QED  BY <1>0, <2>1, <2>3, <2>4
<1>32. CASE ServerDown
  <2>1. OnTopic' = OnTopic /\ Pipeline' = Pipeline
    BY <1>32 DEF ServerDown, OnTopic, Pipeline, InProducer
  <2>2. CASE UNCHANGED <<committed, forgotten>>  BY <2>1, <2>2
  <2>3. QED  BY <1>3, <1>32, <2>1, <2>2 DEF ServerDown, CutOff
<1>33. CASE Crash
  <2> DEFINE lost == memory \union InProducer \union (IF pc = "queue" THEN {batch} ELSE {})
  <2>1. OnTopic' = OnTopic /\ InProducer' = {}
    BY <1>33 DEF Crash, OnTopic, InProducer
  <2>2. Pipeline' = {} /\ Pipeline = lost
    BY <1>33, <2>1 DEF Crash, Pipeline
  <2>3. CASE forgotten' = forgotten \union lost /\ UNCHANGED committed
    BY <1>0, <2>1, <2>2, <2>3
  <2>4. CASE /\ pc = "exec" /\ conn = "up"
             /\ committed' = committed \union {batch}
             /\ forgotten' = forgotten \union lost \union {batch}
    <3>1. \A c \in committed : c < batch /\ c \in Int
      BY <1>0, <2>4 DEF NewestInv, IInv, TypeOK
    <3>2. batch \notin committed  BY <3>1
    <3>3. QED  BY <1>0, <2>1, <2>2, <2>4, <3>2
  <2>5. QED  BY <1>33, <2>3, <2>4 DEF Crash
<1>34. QED
  BY <1>4, <1>5, <1>6, <1>7, <1>8, <1>9, <1>10, <1>11, <1>12, <1>13, <1>14, <1>15, <1>16,
     <1>17, <1>18, <1>19, <1>20, <1>21, <1>22, <1>23, <1>24, <1>25, <1>26, <1>27, <1>28,
     <1>29, <1>30, <1>31, <1>32, <1>33 DEF Next, Thread

\* No committed batch vanishes unseen, none is in two places.
THEOREM StoreAccounts == Spec => []Accounted
<1>1. Init => LostInv
  BY DEF Init, LostInv, OnTopic, Pipeline, InProducer
<1>2. Spec => []LostInv
  BY <1>1, StoreInvariant, LostStep, PTL DEF Spec
<1>3. IInv /\ LostInv => Accounted
  BY PlacesApart DEF LostInv, Accounted
<1>4. QED  BY <1>2, <1>3, StoreInvariant, PTL
=============================================================================
