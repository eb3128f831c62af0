-------------------------- MODULE SchedulerProofs ---------------------------
(***************************************************************************)
(* For every set of files and configurations, every calendar and every     *)
(* bound: the scheduler is type correct and keeps the ledger.              *)
(***************************************************************************)
EXTENDS Scheduler, TLAPS

USE FilesAssumption, ConfigsAssumption, SentinelAssumption, CalendarAssumption,
    BoundAssumption

\* Between scans all slots taken up lie at or before lastEnd; a window lies after
\* lastEnd; while the queue is run, what was taken up precedes what is left.
WindowInv ==
    /\ pc \in {"loop", "parse", "sleep"} => \A x \in settled : x.slot <= lastEnd
    /\ pc \in {"parse", "run", "busy"} =>
            \A e \in queue : lastEnd < e.slot /\ e.slot <= now
    /\ pc \in {"run", "busy"} => \A x \in settled, e \in queue : Before(x, e)

IInv == TypeOK /\ WindowInv

-----------------------------------------------------------------------------
\* The length of a day is positive.
LEMMA DayLength == HourLen * DayHours \in Nat \ {0}
<1> DEFINE P(h) == h * DayHours
<1>1. HourLen \in Int /\ HourLen >= 1 /\ DayHours \in Int /\ DayHours >= 1  OBVIOUS
<1>2. HourLen * DayHours \in Int /\ HourLen * DayHours >= 1
  BY <1>1, Z3
<1>3. QED  BY <1>2

\* Quotient and remainder are unique.
LEMMA DivisionUnique ==
    ASSUME NEW d \in Nat \ {0}, NEW q \in Int, NEW r \in 0 .. d - 1
    PROVE  (d * q + r) \div d = q /\ (d * q + r) % d = r
<1>1. d \in Int /\ d > 0 /\ r >= 0 /\ r < d /\ r \in Int OBVIOUS
<1>2. QED BY <1>1, Z3

LEMMA Division ==
    ASSUME NEW d \in Nat \ {0}, NEW t \in Int
    PROVE  /\ t \div d \in Int /\ t % d \in 0 .. d - 1
           /\ t = d * (t \div d) + (t % d)
<1>0. d \in Int /\ d > 0 OBVIOUS
<1>1. t \div d \in Int BY <1>0, SMT
<1>2. t % d \in 0 .. d - 1 BY <1>0, SMT
<1>3. t = d * (t \div d) + (t % d)  BY <1>0, Z3
<1>4. QED BY <1>1, <1>2, <1>3

LEMMA Days ==
    ASSUME NEW h \in Nat \ {0}, NEW n \in Nat \ {0}, NEW k \in Int, NEW m \in 0 .. h - 1
    PROVE  /\ (h * k + m) % (h * n) = h * (k % n) + m
           /\ (h * k + m) - ((h * k + m) % (h * n)) = (h * n) * (k \div n)
<1> DEFINE t == h * k + m
           d == k \div n
           r == k % n
<1>1. /\ d \in Int /\ r \in 0 .. n - 1 /\ k = n * d + r
  BY Division
<1>2. h * n \in Nat \ {0}
  <2>1. h \in Int /\ h >= 1 /\ n \in Int /\ n >= 1  OBVIOUS
  <2>2. h * n \in Int /\ h * n >= 1  BY <2>1, Z3
  <2>3. QED  BY <2>2
<1>3. t = (h * n) * d + (h * r + m) /\ h * r + m \in Int /\ t \in Int
  <2>1. h \in Int /\ n \in Int /\ m \in Int /\ r \in Int OBVIOUS
  <2> HIDE DEF d, r
  <2>2. QED BY <1>1, <2>1, Z3
<1>4. h * r + m \in 0 .. h * n - 1
  <2>1. h \in Int /\ n \in Int /\ m \in Int /\ r \in Int /\ h > 0 /\ n > 0 /\ 0 <= m /\ m < h /\ 0 <= r /\ r <= n - 1 BY <1>1
  <2> HIDE DEF d, r
  <2>2. h * r <= h * (n - 1) /\ h * r >= 0 /\ h * (n - 1) = h * n - h BY <2>1, Z3
  <2>3. QED BY <2>1, <2>2, <1>2, <1>3
<1> HIDE DEF t, d, r
<1>5. t \div (h * n) = d /\ t % (h * n) = h * r + m
  BY <1>1, <1>2, <1>3, <1>4, DivisionUnique
<1>6. t - (t % (h * n)) = (h * n) * d
  <2>1. (h * n) * d \in Int BY <1>1, <1>2, Z3
  <2>2. QED BY <1>3, <1>5, <2>1
<1>7. QED BY <1>1, <1>3, <1>5, <1>6 DEF t, d, r

\* The slot of a configuration, seen from any time of the hour or day for which it is
\* scheduled, is the minute for which it is scheduled.
LEMMA RunAtScheduled ==
    ASSUME NEW cfg \in ConfigType, NEW s \in Nat, NEW t \in Nat,
           Scheduled(cfg, s), SamePeriod(cfg, s, t)
    PROVE  RunAt(cfg, t) = s
<1> DEFINE day == HourLen * DayHours
<1>1. HourLen \in Nat \ {0} /\ DayHours \in Nat \ {0} /\ day \in Nat \ {0}
  BY DayLength
<1>2. cfg.hour \in Int /\ cfg.minute \in Int
  BY DEF ConfigType
<1>3. CASE cfg.hour < 0
  <2> DEFINE k == s \div HourLen
             d == k \div DayHours
             r == k % DayHours
             m == s % HourLen
             n == t % HourLen
  <2>1. /\ k \in Int /\ m \in 0 .. HourLen - 1 /\ n \in 0 .. HourLen - 1
        /\ s = HourLen * k + m /\ t \div HourLen = k /\ t = HourLen * k + n
    <3>1. s \div HourLen = t \div HourLen
      BY <1>3 DEF SamePeriod
    <3>2. ASSUME NEW x \in Nat
          PROVE  /\ x \div HourLen \in Int /\ x % HourLen \in 0 .. HourLen - 1
                 /\ x = HourLen * (x \div HourLen) + (x % HourLen)
      <4>1. x \in Int  OBVIOUS
      <4>2. QED  BY <1>1, <4>1, Division
    <3>3. QED  BY <3>1, <3>2
  <2> HIDE DEF k, m, n
  <2>2. r \in 0 .. DayHours - 1 /\ d \in Int
    BY <1>1, <2>1, Division
  <2>3. /\ s - (s % day) = day * d /\ s % day = HourLen * r + m
        /\ t - (t % day) = day * d /\ t % day = HourLen * r + n
        /\ day * d \in Int /\ HourLen * r \in Int
    <3>1. /\ s - (s % day) = day * d /\ s % day = HourLen * r + m
          /\ t - (t % day) = day * d /\ t % day = HourLen * r + n
      <4>1. s = HourLen * k + m /\ t = HourLen * k + n
        BY <2>1
      <4>2. ASSUME NEW x \in 0 .. HourLen - 1
            PROVE  /\ (HourLen * k + x) - ((HourLen * k + x) % day) = day * d
                   /\ (HourLen * k + x) % day = HourLen * r + x
        <5>1. k \in Int /\ HourLen \in Nat \ {0} /\ DayHours \in Nat \ {0}
          BY <1>1, <2>1
        <5>2. QED  BY ONLY <5>1, x \in 0 .. HourLen - 1, Days DEF day, d, r
      <4>3. QED  BY <4>1, <4>2, <2>1
    <3> HIDE DEF d, r, day
    <3>2. day * d \in Int /\ HourLen * r \in Int
      BY <1>1, <2>2, Z3
    <3>3. QED  BY <3>1, <3>2
  <2> HIDE DEF d, r, day
  <2>4. s - (s - (s % day)) = HourLen * r + m /\ t - (t - (t % day)) = HourLen * r + n
    <3>1. /\ s \in Int /\ t \in Int /\ s % day \in Int /\ t % day \in Int
      BY <2>1, <2>3
    <3>2. QED  BY <3>1, <2>3
  <2>5. (HourLen * r + m) % HourLen = m /\ (HourLen * r + n) \div HourLen = r
    BY <1>1, <2>1, <2>2, DivisionUnique
  <2>6. m = cfg.minute
    BY <1>3, <2>4, <2>5 DEF Scheduled, DayStart, day
  <2>7. HourOf(t) = r
    BY <2>4, <2>5 DEF HourOf, DayStart, day
  <2>8. RunAt(cfg, t) = day * d + r * HourLen + cfg.minute
    BY <1>3, <2>3, <2>7 DEF RunAt, DayStart, day
  <2>9. r * HourLen = HourLen * r
    BY <1>1, <2>2, Z3
  <2>10. s = day * d + (HourLen * r + m)
    BY <2>1, <2>3
  <2>11. QED  BY <2>1, <2>3, <2>6, <2>8, <2>9, <2>10
<1>4. CASE ~(cfg.hour < 0)
  <2>1. /\ s \div day = t \div day
        /\ s % day \in Int /\ t % day \in Int /\ s \div day \in Int
        /\ s = day * (s \div day) + (s % day) /\ t = day * (t \div day) + (t % day)
    <3>1. s \div day = t \div day
      BY <1>4 DEF SamePeriod
    <3> HIDE DEF day
    <3>2. ASSUME NEW x \in Int
          PROVE  x \div day \in Int /\ x % day \in Int /\ x = day * (x \div day) + (x % day)
      BY <1>1, Division
    <3>3. s \in Int /\ t \in Int  OBVIOUS
    <3>4. QED  BY <3>1, <3>2, <3>3
  <2> DEFINE d == s \div day
  <2>2. day * d \in Int
    BY <1>1, <2>1, Z3
  <2> HIDE DEF day, d
  <2>3. DayStart(s) = day * d /\ DayStart(t) = day * d
    BY <2>1, <2>2 DEF DayStart, day, d
  <2>4. s - (day * d) = cfg.hour * HourLen + cfg.minute
    BY <1>4, <2>3 DEF Scheduled
  <2>5. RunAt(cfg, t) = day * d + cfg.hour * HourLen + cfg.minute
    BY <1>4, <2>3 DEF RunAt
  <2> DEFINE a == day * d
             b == cfg.hour * HourLen
  <2>6. b \in Int
    BY <1>1, <1>2, Z3
  <2>7. a \in Int /\ s - a = b + cfg.minute /\ RunAt(cfg, t) = a + b + cfg.minute
    BY <2>2, <2>4, <2>5
  <2> HIDE DEF a, b
  <2>8. QED  BY <1>2, <2>6, <2>7
<1>5. QED  BY <1>3, <1>4

\* A configuration's slot is a minute, whatever its hour and minute are.
LEMMA RunAtType ==
    ASSUME NEW cfg \in ConfigType, NEW t \in Int
    PROVE  RunAt(cfg, t) \in Int
<1> USE DEF ConfigType
<1> DEFINE day == HourLen * DayHours
<1>1. day \in Nat \ {0}  BY DayLength
<1>2. ASSUME NEW d \in Nat \ {0} PROVE t % d \in Int /\ t - (t % d) \in Int
  BY <1>2
<1>3. DayStart(t) \in Int  BY <1>1, <1>2 DEF DayStart
<1>4. HourOf(t) \in Int  BY <1>3, SMT DEF HourOf
<1> DEFINE hour == IF cfg.hour < 0 THEN HourOf(t) ELSE cfg.hour
<1>5. hour \in Int  BY <1>4
<1>6. DayStart(t) + hour * HourLen + cfg.minute \in Int
  <2> HIDE DEF hour
  <2> QED  BY <1>3, <1>5, SMT
<1>7. QED  BY <1>6 DEF RunAt

\* What Parse yields for a file that is not broken is a configuration.
LEMMA ParsedType ==
    ASSUME TypeOK, NEW f \in Files, dir[f] # Broken
    PROVE  Parsed(f) \in ConfigType
<1>1. CASE dir[f] = Absent  BY <1>1 DEF Parsed, Defaults, ConfigType
<1>2. CASE dir[f] # Absent
  <2>1. dir[f] \in Configs  BY <1>2 DEF TypeOK, Contents
  <2>2. QED  BY <1>2, <2>1 DEF Parsed
<1>3. QED  BY <1>1, <1>2

\* The slots of the ledger.
LEMMA SlotsDef == Slots = [slot : Int, file : Files]
  BY DEF Slots, Ledger!Slots

-----------------------------------------------------------------------------
\* The inductive invariant holds initially.
LEMMA InitIInv == Init => IInv
<1> SUFFICES ASSUME Init PROVE IInv
  OBVIOUS
<1> USE DEF Init
<1>1. /\ clock \in Int /\ lastEnd \in Int /\ now \in Int /\ dir \in [Files -> Contents]
      /\ slept \in Nat /\ pc = "off"
      /\ edits \in Nat /\ lives \in Nat /\ backs \in Nat
  OBVIOUS
<1>2. /\ todo = {} /\ queue = {} /\ settled = {} /\ current = NoSlot
      /\ ends = {} /\ touched = {}
  OBVIOUS
<1>3. sigTerm \in BOOLEAN  OBVIOUS
<1> HIDE DEF Init
<1>4. TypeOK  BY <1>1, <1>2, <1>3 DEF TypeOK
<1>5. WindowInv  BY <1>1 DEF WindowInv
<1>6. QED  BY <1>4, <1>5 DEF IInv

\* Every step keeps the types.
LEMMA TypeStep == IInv /\ [Next]_vars => TypeOK'
<1> SUFFICES ASSUME IInv, [Next]_vars PROVE TypeOK'
  OBVIOUS
<1> USE SlotsDef DEF IInv, TypeOK, Contents, daemonVars, historyVars, countVars
<1>1. CASE Start
  <2>1. /\ clock' \in Int /\ lastEnd' \in Int /\ now' \in Int /\ dir' \in [Files -> Contents]
        /\ slept' \in Nat /\ pc' = "loop"
    BY <1>1 DEF Start
  <2>3. sigTerm' \in BOOLEAN  BY <1>1 DEF Start
  <2>2. /\ todo' = {} /\ queue' = {} /\ settled' \subseteq Slots /\ current' = NoSlot
        /\ ends' \subseteq Int /\ touched' = {}
        /\ edits' \in Nat /\ lives' \in Nat /\ backs' \in Nat
    BY <1>1 DEF Start
  <2>4. QED  BY <2>1, <2>2, <2>3
<1>2. CASE BeginScan  BY <1>2 DEF BeginScan
<1>3. CASE LoopExit  BY <1>3 DEF LoopExit
<1>4. CASE ParseFile
  <2>1. PICK f \in todo : ScanFile(f)  BY <1>4 DEF ParseFile
  <2>2. dir[f] # Broken => RunAt(Parsed(f), now) \in Int
    BY ParsedType, RunAtType
  <2>3. queue' \subseteq Slots  BY <2>1, <2>2 DEF ScanFile
  <2>4. QED  BY <1>4, <2>1, <2>3 DEF ParseFile, ScanFile
<1>5. CASE ScanDone  BY <1>5 DEF ScanDone
<1>6. ASSUME NEW e \in queue, RunSlot(e) PROVE TypeOK'
  BY <1>6 DEF RunSlot, Dequeue, FirstSlot
<1>7. ASSUME NEW e \in queue, SkipSlot(e) PROVE TypeOK'
  BY <1>7 DEF SkipSlot, Dequeue, FirstSlot
<1>8. ASSUME NEW e \in queue, FatalSlot(e) PROVE TypeOK'
  BY <1>8 DEF FatalSlot, Dequeue, FirstSlot
<1>9. CASE Finish  BY <1>9 DEF Finish
<1>10. CASE EndQueue  BY <1>10 DEF EndQueue, NextLastEnd, QueueEmpty
<1>11. CASE Wake  BY <1>11 DEF Wake
<1>12. CASE Tick  BY <1>12 DEF Tick
<1>13. CASE SetBack  BY <1>13 DEF SetBack
<1>14. CASE Signal  BY <1>14 DEF Signal, Alive
<1>15. CASE Crash
  <2>1. /\ clock' \in Int /\ lastEnd' \in Int /\ now' \in Int /\ dir' \in [Files -> Contents]
        /\ slept' \in Nat /\ pc' = "off"
    BY <1>15 DEF Crash
  <2>3. sigTerm' \in BOOLEAN  BY <1>15 DEF Crash
  <2>2. /\ todo' = {} /\ queue' = {} /\ settled' \subseteq Slots /\ current' = NoSlot
        /\ ends' = {} /\ touched' \subseteq Files
        /\ edits' \in Nat /\ lives' \in Nat /\ backs' \in Nat
    BY <1>15 DEF Crash
  <2>4. QED  BY <2>1, <2>2, <2>3
<1>16. ASSUME NEW f \in Files, NEW c \in Contents, Edit(f, c) PROVE TypeOK'
  BY <1>16 DEF Edit
<1>17. CASE UNCHANGED vars  BY <1>17 DEF vars
<1>18. QED
  BY <1>1, <1>2, <1>3, <1>4, <1>5, <1>6, <1>7, <1>8, <1>9, <1>10, <1>11, <1>12,
     <1>13, <1>14, <1>15, <1>16, <1>17 DEF Next, Daemon, Surroundings

\* Every step keeps what was taken up before the window or before the queue.
LEMMA WindowStep == IInv /\ [Next]_vars => WindowInv'
<1> SUFFICES ASSUME IInv, [Next]_vars PROVE WindowInv'
  OBVIOUS
<1> USE SlotsDef DEF IInv, WindowInv, TypeOK, Before, Ledger!Before, daemonVars, historyVars
<1>1. CASE Start  BY <1>1 DEF Start, Alive
<1>2. CASE BeginScan  BY <1>2 DEF BeginScan
<1>3. CASE LoopExit  BY <1>3 DEF LoopExit
<1>4. CASE ParseFile
  <2>1. PICK f \in todo : ScanFile(f)  BY <1>4 DEF ParseFile
  <2>2. pc' = "parse" /\ UNCHANGED <<settled, lastEnd, now>>
    BY <1>4, <2>1 DEF ParseFile, ScanFile
  <2>3. ASSUME NEW e \in queue' PROVE lastEnd < e.slot /\ e.slot <= now
    <3>1. CASE e \in queue  BY <3>1, <1>4 DEF ParseFile
    <3>2. CASE e \notin queue
      <4>1. /\ e = [slot |-> RunAt(Parsed(f), now), file |-> f]
            /\ IsDue(RunAt(Parsed(f), now))
        BY <2>1, <2>3, <3>2 DEF ScanFile
      <4>2. QED  BY <4>1 DEF IsDue
    <3>3. QED  BY <3>1, <3>2
  <2>4. QED  BY <2>2, <2>3, <1>4 DEF ParseFile
<1>5. CASE ScanDone  BY <1>5 DEF ScanDone
<1>6. ASSUME NEW e \in queue, Dequeue(e), pc' \in {"run", "busy", "failed"},
             settled' \in {settled, settled \union {e}}
      PROVE  WindowInv'
  <2>1. /\ pc = "run" /\ queue' = queue \ {e}
        /\ UNCHANGED <<lastEnd, now>>
        /\ \A x \in queue' : Before(e, x)
    BY <1>6 DEF Dequeue, FirstSlot
  <2>2. \A x \in settled', y \in queue' : Before(x, y)
    BY <1>6, <2>1
  <2>3. QED  BY <1>6, <2>1, <2>2
<1>7. ASSUME NEW e \in queue, RunSlot(e) \/ SkipSlot(e) \/ FatalSlot(e) PROVE WindowInv'
  <2>1. Dequeue(e) /\ pc = "run"  BY <1>7 DEF RunSlot, SkipSlot, FatalSlot, Dequeue
  <2>2. pc' \in {"run", "busy", "failed"} /\ settled' \in {settled, settled \union {e}}
    BY <1>7, <2>1 DEF RunSlot, SkipSlot, FatalSlot
  <2>3. QED  BY <1>6, <2>1, <2>2
<1>8. CASE Finish  BY <1>8 DEF Finish
<1>9. CASE EndQueue  BY <1>9 DEF EndQueue, NextLastEnd, QueueEmpty
<1>10. CASE Wake  BY <1>10 DEF Wake
<1>11. CASE Tick  BY <1>11 DEF Tick
<1>12. CASE SetBack  BY <1>12 DEF SetBack
<1>13. CASE Signal  BY <1>13 DEF Signal
<1>14. CASE Crash  BY <1>14 DEF Crash
<1>15. ASSUME NEW f \in Files, NEW c \in Contents, Edit(f, c) PROVE WindowInv'
  BY <1>15 DEF Edit
<1>16. CASE UNCHANGED vars  BY <1>16 DEF vars
<1>17. QED
  BY <1>1, <1>2, <1>3, <1>4, <1>5, <1>7, <1>8, <1>9, <1>10, <1>11, <1>12,
     <1>13, <1>14, <1>15, <1>16 DEF Next, Daemon, Surroundings

\* Every reachable state satisfies the inductive invariant.
THEOREM SchedulerInvariant == Spec => []IInv
<1>1. IInv /\ [Next]_vars => IInv'  BY TypeStep, WindowStep DEF IInv
<1>2. QED  BY InitIInv, <1>1, PTL DEF Spec

\* The scheduler is type correct, and an algorithm is running exactly while the
\* daemon is busy (TypeOK of Scheduler).
THEOREM SchedulerTypeCorrect == Spec => []TypeOK
<1>1. IInv => TypeOK  BY DEF IInv
<1>2. QED  BY SchedulerInvariant, <1>1, PTL

\* A daemon that has stopped has run everything it had queued (AlgorithmRunner.cc:69-114).
THEOREM SchedulerDrains == Spec => []StopDrainsQueue
<1>1. TypeOK => StopDrainsQueue
  BY DEF TypeOK, StopDrainsQueue
<1>2. QED  BY SchedulerTypeCorrect, <1>1, PTL

-----------------------------------------------------------------------------
\* Every step of the scheduler is a step of the ledger or leaves it alone.
LEMMA LedgerStep == IInv /\ [Next]_vars => [Ledger!LedgerNext]_(Ledger!ledgerVars)
<1> SUFFICES ASSUME IInv, [Next]_vars, ~UNCHANGED Ledger!ledgerVars
             PROVE  Ledger!LedgerNext
  OBVIOUS
<1> USE SlotsDef DEF IInv, WindowInv, TypeOK, Before, Ledger!Before, Ledger!ledgerVars,
            daemonVars, historyVars
<1>1. CASE Start  BY <1>1 DEF Start, Ledger!LedgerNext, Ledger!Rewind
<1>2. ASSUME NEW e \in queue, RunSlot(e) PROVE Ledger!Execute
  <2>1. pc = "run" /\ settled' = settled \union {e} /\ current' = e
    BY <1>2 DEF RunSlot, Dequeue
  <2>2. \A x \in settled : Ledger!Before(x, e)  BY <2>1 DEF Before
  <2>3. Ledger!TakeUp(e)  BY <2>1, <2>2 DEF Ledger!TakeUp
  <2>4. QED  BY <2>1, <2>3 DEF Ledger!Execute
<1>3. ASSUME NEW e \in queue, SkipSlot(e) PROVE Ledger!PassOver
  <2>1. pc = "run" /\ settled' = settled \union {e} /\ UNCHANGED current
    BY <1>3 DEF SkipSlot, Dequeue
  <2>2. \A x \in settled : Ledger!Before(x, e)  BY <2>1 DEF Before
  <2>3. Ledger!TakeUp(e)  BY <2>1, <2>2 DEF Ledger!TakeUp
  <2>4. QED  BY <2>1, <2>3 DEF Ledger!PassOver
<1>4. CASE Finish  BY <1>4 DEF Finish, Ledger!LedgerNext, Ledger!Complete
<1>5. CASE EndQueue
  BY <1>5 DEF EndQueue, NextLastEnd, Ledger!LedgerNext, Ledger!Rewind
<1>6. CASE Crash  BY <1>6 DEF Crash, Ledger!LedgerNext, Ledger!Rewind
<1>7. BeginScan \/ LoopExit \/ ParseFile \/ ScanDone => UNCHANGED Ledger!ledgerVars
  BY DEF BeginScan, LoopExit, ParseFile, ScanDone
<1>8. Wake \/ Tick \/ SetBack \/ Signal => UNCHANGED Ledger!ledgerVars
  BY DEF Wake, Tick, SetBack, Signal
<1>9. \A e \in queue : FatalSlot(e) => UNCHANGED Ledger!ledgerVars
  BY DEF FatalSlot
<1>10. \A f \in Files, c \in Contents : Edit(f, c) => UNCHANGED Ledger!ledgerVars
  BY DEF Edit
<1>11. UNCHANGED vars => UNCHANGED Ledger!ledgerVars  BY DEF vars
<1>12. QED
  BY <1>1, <1>2, <1>3, <1>4, <1>5, <1>6, <1>7, <1>8, <1>9, <1>10, <1>11
  DEF Next, Daemon, Surroundings, Ledger!LedgerNext

\* The scheduler implements SlotLedger (LedgerKept): no slot is run twice and
\* slots run in order, for every set of files, calendar and interleaving.
THEOREM SchedulerKeepsLedger == Spec => LedgerKept
<1>1. Init => Ledger!LedgerInit  BY DEF Init, Ledger!LedgerInit
<1>2. QED
  BY <1>1, LedgerStep, SchedulerInvariant, PTL DEF Spec, LedgerKept, Ledger!LedgerSpec

-----------------------------------------------------------------------------
(* What can end the daemon.                                                *)

\* A queued file that does not parse any more was edited since the scan parsed it.
EditInv ==
    /\ pc \in {"parse", "run", "busy"} =>
            \A e \in queue : dir[e.file] = Broken => e.file \in touched
    /\ pc = "failed" => touched # {}

\* Every step keeps EditInv.
LEMMA EditStep == IInv /\ EditInv /\ [Next]_vars => EditInv'
<1> SUFFICES ASSUME IInv, EditInv, [Next]_vars PROVE EditInv'
  OBVIOUS
<1>0. /\ queue \subseteq Slots /\ dir \in [Files -> Contents]
      /\ queue # {} => pc \in {"parse", "run", "busy", "failed"}
  BY DEF IInv, TypeOK
<1> USE <1>0 DEF EditInv, daemonVars, historyVars
<1>1. CASE Start  BY <1>1 DEF Start
<1>2. CASE BeginScan  BY <1>2 DEF BeginScan
<1>3. CASE LoopExit  BY <1>3 DEF LoopExit
<1>4. CASE ParseFile
  <2>1. PICK f \in todo : ScanFile(f)  BY <1>4 DEF ParseFile
  <2>2. pc = "parse" /\ pc' = "parse" /\ UNCHANGED <<dir, touched>>
    BY <1>4, <2>1 DEF ParseFile, ScanFile
  <2>3. ASSUME NEW e \in queue', e \notin queue PROVE dir[e.file] # Broken
    BY <2>1, <2>3 DEF ScanFile
  <2>4. QED  BY <2>2, <2>3
<1>5. CASE ScanDone  BY <1>5 DEF ScanDone
<1>6. ASSUME NEW e \in queue, RunSlot(e) \/ SkipSlot(e) \/ FatalSlot(e) PROVE EditInv'
  <2>1. pc = "run" /\ queue' \subseteq queue /\ UNCHANGED <<dir, touched>>
    BY <1>6 DEF RunSlot, SkipSlot, FatalSlot, Dequeue
  <2>2. \/ pc' \in {"run", "busy"}
        \/ pc' = "failed" /\ dir[e.file] = Broken
    BY <1>6, <2>1 DEF RunSlot, SkipSlot, FatalSlot
  <2>3. QED  BY <2>1, <2>2
<1>7. CASE Finish  BY <1>7 DEF Finish
<1>8. CASE EndQueue  BY <1>8 DEF EndQueue
<1>9. CASE Wake  BY <1>9 DEF Wake
<1>10. CASE Tick  BY <1>10 DEF Tick
<1>11. CASE SetBack  BY <1>11 DEF SetBack
<1>12. CASE Signal  BY <1>12 DEF Signal
<1>13. CASE Crash  BY <1>13 DEF Crash
<1>14. ASSUME NEW f \in Files, NEW c \in Contents, Edit(f, c) PROVE EditInv'
  <2>1. /\ UNCHANGED <<pc, queue>> /\ touched' = touched \union {f}
        /\ dir' = [dir EXCEPT ![f] = c]
    BY <1>14 DEF Edit
  <2>2. \A e \in queue : e.file \in Files /\ (e.file # f => dir'[e.file] = dir[e.file])
    BY <2>1, SlotsDef
  <2>3. QED  BY <2>1, <2>2
<1>15. CASE UNCHANGED vars  BY <1>15 DEF vars
<1>16. QED
  BY <1>1, <1>2, <1>3, <1>4, <1>5, <1>6, <1>7, <1>8, <1>9, <1>10, <1>11, <1>12,
     <1>13, <1>14, <1>15 DEF Next, Daemon, Surroundings

\* A file that does not parse ends the daemon only if it was edited while the
\* daemon ran (FatalOnlyAfterEdit).
THEOREM SchedulerSurvivesScan == Spec => []FatalOnlyAfterEdit
<1>1. Init => EditInv  BY DEF Init, EditInv
<1>2. EditInv => FatalOnlyAfterEdit  BY DEF EditInv, FatalOnlyAfterEdit
<1>3. QED  BY <1>1, <1>2, EditStep, SchedulerInvariant, PTL DEF Spec
-----------------------------------------------------------------------------
(* Nothing comes back.                                                     *)

\* While the clock has not been set back it is not behind the scans, and in a scan nothing
\* that was taken up is later than the scan.
GrowInv ==
    backs = 0 =>
        /\ pc \in {"loop", "parse", "run", "busy", "sleep"} => lastEnd <= clock
        /\ pc \in {"parse", "run", "busy"} => now <= clock /\ \A x \in settled : x.slot <= now

\* Every step keeps GrowInv.
LEMMA GrowStep == IInv /\ GrowInv /\ [Next]_vars => GrowInv'
<1> SUFFICES ASSUME IInv, GrowInv, [Next]_vars PROVE GrowInv'
  OBVIOUS
<1> USE SlotsDef DEF IInv, GrowInv, WindowInv, TypeOK, daemonVars, historyVars, countVars
<1>1. CASE Start  BY <1>1 DEF Start
<1>2. CASE BeginScan  BY <1>2 DEF BeginScan
<1>3. CASE LoopExit  BY <1>3 DEF LoopExit
<1>4. CASE ParseFile
  <2>1. pc = "parse" /\ pc' = "parse" /\ UNCHANGED <<clock, lastEnd, now, settled, backs>>
    BY <1>4 DEF ParseFile, ScanFile
  <2>2. QED  BY <2>1
<1>5. CASE ScanDone  BY <1>5 DEF ScanDone
<1>6. ASSUME NEW e \in queue, RunSlot(e) \/ SkipSlot(e) \/ FatalSlot(e) PROVE GrowInv'
  <2>1. pc = "run" /\ UNCHANGED <<clock, lastEnd, now, backs>>
    BY <1>6 DEF RunSlot, SkipSlot, FatalSlot, Dequeue
  <2>2. settled' \in {settled, settled \union {e}} /\ e.slot <= now
    BY <1>6, <2>1 DEF RunSlot, SkipSlot, FatalSlot
  <2>3. QED  BY <2>1, <2>2
<1>7. CASE Finish  BY <1>7 DEF Finish
<1>8. CASE EndQueue  BY <1>8 DEF EndQueue, NextLastEnd, QueueEmpty
<1>9. CASE Wake  BY <1>9 DEF Wake
<1>10. CASE Tick  BY <1>10 DEF Tick
<1>11. CASE SetBack
  <2>1. backs' # 0  BY <1>11 DEF SetBack
  <2>2. QED  BY <2>1
<1>12. CASE Signal  BY <1>12 DEF Signal
<1>13. CASE Crash  BY <1>13 DEF Crash
<1>14. ASSUME NEW f \in Files, NEW c \in Contents, Edit(f, c) PROVE GrowInv'
  BY <1>14 DEF Edit
<1>15. CASE UNCHANGED vars  BY <1>15 DEF vars
<1>16. QED
  BY <1>1, <1>2, <1>3, <1>4, <1>5, <1>6, <1>7, <1>8, <1>9, <1>10, <1>11, <1>12,
     <1>13, <1>14, <1>15 DEF Next, Daemon, Surroundings

\* No step takes anything out of the ledger, but a start or one behind a clock set back.
LEMMA LedgerGrowsStep ==
    IInv /\ GrowInv /\ [Next]_vars => [lives' = lives /\ backs = 0 => settled \subseteq settled']_vars
<1> SUFFICES ASSUME IInv, GrowInv, [Next]_vars, lives' = lives, backs = 0
             PROVE  settled \subseteq settled'
  OBVIOUS
<1>1. CASE EndQueue
  BY <1>1, SlotsDef DEF EndQueue, NextLastEnd, GrowInv, IInv, TypeOK
<1>2. CASE Start
  BY <1>2 DEF Start, IInv, TypeOK
<1>3. CASE UNCHANGED settled
  BY <1>3
<1>4. CASE \E e \in queue : RunSlot(e) \/ SkipSlot(e) \/ FatalSlot(e)
  BY <1>4 DEF RunSlot, SkipSlot, FatalSlot
<1>5. QED
  BY <1>1, <1>2, <1>3, <1>4 DEF Next, Daemon, Surroundings, vars, daemonVars, historyVars, BeginScan,
     LoopExit, ParseFile, ScanDone, Finish, Wake, Tick, SetBack, Signal, Crash, Edit

\* While time only goes forward and the process lives, no slot that was run comes back into
\* a window (AlgorithmRunner.cc:63-114).
THEOREM SchedulerLedgerGrows == Spec => LedgerGrows
<1>1. Init => GrowInv
  BY DEF Init, GrowInv
<1>2. QED
  BY <1>1, GrowStep, LedgerGrowsStep, SchedulerInvariant, PTL DEF Spec, LedgerGrows

-----------------------------------------------------------------------------
(* Nothing is lost.                                                        *)

\* What a scan at "now" must find of a file that was not edited: its slot is queued or taken
\* up if it lies in the window.
Covered(f) ==
    LET s == RunAt(dir[f], now)
    IN  f \notin touched /\ dir[f] \in Configs /\ IsDue(s) => [slot |-> s, file |-> f] \in queue \union settled

\* While the clock has not been set back: lastEnd is the last scan, the window of a scan is
\* covered by the queue, the files still to parse and the ledger, and no slot was lost so far.
LossInv ==
    backs = 0 =>
        /\ \A e \in ends : e <= lastEnd
        /\ Alive => lastEnd \in ends
        /\ pc \in {"parse", "run", "busy"} => lastEnd <= now
        /\ pc = "parse" => \A f \in Files \ todo : Covered(f)
        /\ pc \in {"run", "busy"} => \A f \in Files : Covered(f)
        /\ NoSlotLost

\* The scan that covers a minute is not changed by a later one, which covers what follows.
LEMMA NextScan ==
    ASSUME NEW s \in Int, ends \subseteq Int, lastEnd \in ends, \A e \in ends : e <= lastEnd,
           now \in Int, lastEnd <= now, ends' = ends \union {now}
    PROVE  /\ s <= lastEnd => ScanCovering(s)' = ScanCovering(s)
           /\ lastEnd < s /\ s <= now => ScanCovering(s)' = now
<1> DEFINE P(e) == e >= s /\ \A d \in ends : d >= s => e <= d
           Q(e) == e >= s /\ \A d \in ends' : d >= s => e <= d
<1>1. ScanCovering(s) = (CHOOSE e \in ends : P(e)) /\ ScanCovering(s)' = (CHOOSE e \in ends' : Q(e))
  BY Zenon DEF ScanCovering
<1>2. ASSUME s <= lastEnd PROVE ScanCovering(s)' = ScanCovering(s)
  <2>1. ASSUME NEW e PROVE (e \in ends /\ P(e)) <=> (e \in ends' /\ Q(e))
    <3>1. CASE e \in ends
      <4>1. P(e) => e <= lastEnd  BY <1>2, <3>1
      <4>2. QED  BY <4>1, <3>1
    <3>2. CASE e \notin ends
      <4>1. ~(e = now /\ Q(e))  BY <1>2, <3>2
      <4>2. QED  BY <4>1, <3>2
    <3>3. QED  BY <3>1, <3>2
  <2> HIDE DEF P, Q
  <2>2. (CHOOSE e \in ends : P(e)) = (CHOOSE e \in ends' : Q(e))
    BY <2>1, Zenon
  <2>3. QED  BY <1>1, <2>2
<1>3. ASSUME lastEnd < s, s <= now PROVE ScanCovering(s)' = now
  <2>1. now \in ends' /\ Q(now)
    BY <1>3
  <2>2. \A e \in ends' : Q(e) => e = now
    BY <1>3
  <2> HIDE DEF P, Q
  <2>3. QED  BY <1>1, <2>1, <2>2, Zenon
<1>4. QED  BY <1>2, <1>3

\* Every step keeps LossInv.
LEMMA LossStep == IInv /\ GrowInv /\ LossInv /\ [Next]_vars => LossInv'
<1> SUFFICES ASSUME IInv, GrowInv, LossInv, [Next]_vars, backs' = 0 PROVE LossInv'
  BY DEF LossInv
<1>0. /\ backs = 0 /\ backs \in Nat /\ clock \in Int /\ lastEnd \in Int /\ now \in Int
      /\ dir \in [Files -> Contents] /\ ends \subseteq Int /\ settled \subseteq Slots
      /\ touched \subseteq Files
  <2>1. IInv => /\ backs \in Nat /\ clock \in Int /\ lastEnd \in Int /\ now \in Int
                /\ dir \in [Files -> Contents] /\ ends \subseteq Int /\ settled \subseteq Slots
                /\ touched \subseteq Files
    BY DEF IInv, TypeOK
  <2>2. backs = 0 \/ backs' = backs + 1 \/ backs' = backs
    BY DEF Next, Daemon, Surroundings, vars, daemonVars, historyVars, countVars, BeginScan, LoopExit,
       ParseFile, ScanDone, RunSlot, SkipSlot, FatalSlot, Dequeue, Finish, EndQueue, Wake, Start, Tick,
       SetBack, Signal, Crash, Edit
  <2>3. QED  BY <2>1, <2>2
\* NoSlotLost depends on few variables; the ledger may grow and files may become touched.
<1>a. ASSUME UNCHANGED <<ends, lastEnd>>, settled \subseteq settled', touched \subseteq touched',
             \A f \in Files \ touched' : dir'[f] = dir[f]
      PROVE  NoSlotLost'
  <2> SUFFICES ASSUME NEW f \in Files \ touched', dir'[f] \in Configs, NEW s \in 0 .. lastEnd',
                      \E e \in ends' : e < s, Scheduled(dir'[f], s),
                      SamePeriod(dir'[f], s, ScanCovering(s)')
               PROVE  [slot |-> s, file |-> f] \in settled'
    BY DEF NoSlotLost
  <2>1. ScanCovering(s)' = ScanCovering(s)
    BY <1>a DEF ScanCovering
  <2>2. [slot |-> s, file |-> f] \in settled
    BY <1>0, <1>a, <2>1 DEF LossInv, NoSlotLost
  <2>3. QED  BY <1>a, <2>2
<1>b. ASSUME UNCHANGED <<ends, lastEnd, settled, touched, dir, now, queue, todo>>,
             Alive' => Alive,
             pc' \in {"parse", "run", "busy"} => pc \in {"parse", "run", "busy"},
             pc' = "parse" => pc = "parse",
             pc' \in {"run", "busy"} => pc \in {"run", "busy"} \/ (pc = "parse" /\ todo = {})
      PROVE  LossInv'
  <2>1. NoSlotLost'  BY <1>a, <1>b
  <2>2. \A f \in Files : Covered(f)' = Covered(f)
    BY <1>b DEF Covered, IsDue
  <2>3. QED  BY <1>0, <1>b, <2>1, <2>2 DEF LossInv
<1>1. CASE Start
  <2>1. /\ ends' = {clock - 1} /\ lastEnd' = clock - 1 /\ pc' = "loop"
    BY <1>1 DEF Start
  <2>2. \A s \in 0 .. lastEnd' : ~ \E e \in ends' : e < s
    BY <1>0, <2>1
  <2>3. NoSlotLost'
    BY <2>2 DEF NoSlotLost
  <2>4. QED  BY <1>0, <2>1, <2>3 DEF LossInv
<1>2. CASE BeginScan
  <2>1. /\ pc = "loop" /\ pc' = "parse" /\ now' = clock /\ todo' = {f \in Files : dir[f] # Absent}
        /\ UNCHANGED <<clock, dir, ends, lastEnd, settled, touched>>
    BY <1>2 DEF BeginScan, historyVars
  <2>2. NoSlotLost'  BY <1>a, <2>1
  <2>3. lastEnd <= clock
    BY <1>0, <2>1 DEF GrowInv
  <2>4. \A f \in Files \ todo' : Covered(f)'
    BY <2>1 DEF Covered
  <2>5. QED  BY <1>0, <2>1, <2>2, <2>3, <2>4 DEF LossInv, Alive
<1>3. CASE LoopExit
  <2>1. QED  BY <1>3, <1>b DEF LoopExit, historyVars, Alive
<1>4. CASE ParseFile
  <2>1. PICK f \in todo : ScanFile(f)  BY <1>4 DEF ParseFile
  <2>2. /\ pc = "parse" /\ pc' = "parse" /\ todo' = todo \ {f} /\ queue \subseteq queue'
        /\ UNCHANGED <<clock, dir, ends, lastEnd, now, settled, touched>>
    BY <1>4, <2>1 DEF ParseFile, ScanFile, historyVars
  <2>3. NoSlotLost'  BY <1>a, <2>2
  <2>4. ASSUME NEW g \in Files \ todo' PROVE Covered(g)'
    <3>1. CASE g \in Files \ todo
      <4>1. Covered(g)  BY <1>0, <2>2, <3>1 DEF LossInv
      <4>2. QED  BY <2>2, <4>1 DEF Covered, IsDue
    <3>2. CASE g = f
      <4>1. dir[f] \in Configs => dir[f] # Broken /\ Parsed(f) = dir[f]
        BY DEF Parsed
      <4>2. QED  BY <2>1, <2>2, <3>2, <4>1 DEF ScanFile, Covered, IsDue
    <3>3. QED  BY <2>2, <3>1, <3>2
  <2>5. QED  BY <1>0, <2>2, <2>3, <2>4 DEF LossInv, Alive
<1>5. CASE ScanDone
  <2>1. QED  BY <1>5, <1>b DEF ScanDone, historyVars, Alive
<1>6. ASSUME NEW e \in queue, RunSlot(e) \/ SkipSlot(e) PROVE LossInv'
  <2>1. /\ pc = "run" /\ pc' \in {"run", "busy"} /\ queue' = queue \ {e} /\ settled' = settled \union {e}
        /\ UNCHANGED <<clock, dir, ends, lastEnd, now, touched>>
    BY <1>6 DEF RunSlot, SkipSlot, Dequeue
  <2>2. NoSlotLost'  BY <1>a, <2>1
  <2>3. ASSUME NEW g \in Files PROVE Covered(g)'
    <3>1. Covered(g)  BY <1>0, <2>1 DEF LossInv
    <3>2. QED  BY <2>1, <3>1 DEF Covered, IsDue
  <2>4. QED  BY <1>0, <2>1, <2>2, <2>3 DEF LossInv, Alive
<1>7. ASSUME NEW e \in queue, FatalSlot(e) PROVE LossInv'
  <2>1. /\ pc' = "failed" /\ UNCHANGED <<clock, dir, ends, lastEnd, now, touched, settled>>
    BY <1>7 DEF FatalSlot, Dequeue
  <2>2. NoSlotLost'  BY <1>a, <2>1
  <2>3. QED  BY <1>0, <2>1, <2>2 DEF LossInv, Alive
<1>8. CASE Finish
  <2>1. QED  BY <1>8, <1>b DEF Finish, historyVars, Alive
<1>9. CASE EndQueue
  <2>1. /\ pc = "run" /\ queue = {} /\ lastEnd' = now /\ pc' \in {"stopped", "sleep"}
        /\ settled' = {x \in settled : x.slot <= now} /\ ends' = ends \union {now}
        /\ UNCHANGED <<dir, touched>>
    BY <1>9 DEF EndQueue, QueueEmpty, NextLastEnd
  <2>2. /\ \A e \in ends : e <= lastEnd /\ lastEnd <= now
        /\ lastEnd \in ends /\ lastEnd <= now
    BY <1>0, <2>1 DEF LossInv, Alive
  <2>3. NoSlotLost'
    <3> SUFFICES ASSUME NEW f \in Files \ touched, dir[f] \in Configs, NEW s \in 0 .. now,
                        \E e \in ends' : e < s, Scheduled(dir[f], s),
                        SamePeriod(dir[f], s, ScanCovering(s)')
                 PROVE  [slot |-> s, file |-> f] \in settled'
      BY <2>1 DEF NoSlotLost
    <3>0. s \in Int /\ s \in Nat /\ s <= now  BY <1>0
    <3>1. CASE s <= lastEnd
      <4>1. ScanCovering(s)' = ScanCovering(s)
        BY <1>0, <2>1, <2>2, <3>0, <3>1, NextScan
      <4>2. \E e \in ends : e < s
        BY <1>0, <2>1, <2>2, <3>0, <3>1
      <4>3. [slot |-> s, file |-> f] \in settled
        <5>1. NoSlotLost /\ s \in 0 .. lastEnd
          BY <1>0, <3>0, <3>1 DEF LossInv
        <5>2. SamePeriod(dir[f], s, ScanCovering(s))
          BY <4>1
        <5>3. QED  BY <1>0, <4>2, <5>1, <5>2 DEF NoSlotLost
      <4>4. QED  BY <2>1, <3>0, <4>3
    <3>2. CASE lastEnd < s
      <4>1. ScanCovering(s)' = now
        BY <1>0, <2>1, <2>2, <3>0, <3>2, NextScan
      <4>2. dir[f] \in ConfigType /\ now \in Nat
        BY <1>0, <3>0
      <4>3. RunAt(dir[f], now) = s
        BY <3>0, <4>1, <4>2, RunAtScheduled
      <4>4. [slot |-> s, file |-> f] \in queue \union settled
        BY <1>0, <2>1, <3>0, <3>2, <4>3 DEF LossInv, Covered, IsDue
      <4>5. QED  BY <2>1, <3>0, <4>4
    <3>3. QED  BY <1>0, <3>0, <3>1, <3>2
  <2>4. QED  BY <1>0, <2>1, <2>2, <2>3 DEF LossInv
<1>10. CASE Wake
  <2>1. QED  BY <1>10, <1>b DEF Wake, historyVars, Alive
<1>11. CASE Tick
  <2>1. QED  BY <1>11, <1>b DEF Tick, daemonVars, historyVars, Alive
<1>12. CASE SetBack
  <2>1. QED  BY <1>0, <1>12 DEF SetBack
<1>13. CASE Signal
  <2>1. QED  BY <1>13, <1>b DEF Signal, daemonVars, historyVars, Alive
<1>14. CASE Crash
  <2>1. ends' = {} /\ pc' = "off"  BY <1>14 DEF Crash
  <2>2. NoSlotLost'  BY <2>1 DEF NoSlotLost
  <2>3. QED  BY <2>1, <2>2 DEF LossInv, Alive
<1>15. ASSUME NEW f \in Files, NEW c \in Contents, Edit(f, c) PROVE LossInv'
  <2>1. /\ touched' = touched \union {f} /\ dir' = [dir EXCEPT ![f] = c]
        /\ UNCHANGED <<clock, pc, lastEnd, now, todo, queue, settled, ends>>
    BY <1>15 DEF Edit, daemonVars
  <2>2. \A g \in Files \ touched' : dir'[g] = dir[g]
    BY <1>0, <2>1
  <2>3. NoSlotLost'  BY <1>a, <2>1, <2>2
  <2>4. ASSUME NEW g \in Files, Covered(g) PROVE Covered(g)'
    BY <2>1, <2>2, <2>4 DEF Covered, IsDue
  <2>5. QED  BY <1>0, <2>1, <2>3, <2>4 DEF LossInv, Alive
<1>16. CASE UNCHANGED vars
  <2>1. QED  BY <1>16, <1>b DEF vars, daemonVars, historyVars, Alive
<1>17. QED
  BY <1>1, <1>2, <1>3, <1>4, <1>5, <1>6, <1>7, <1>8, <1>9, <1>10, <1>11, <1>12,
     <1>13, <1>14, <1>15, <1>16 DEF Next, Daemon, Surroundings

\* While the clock is not set back, every slot of a file that was not edited is taken up, if the
\* scan that covers it comes in its hour or day (NoSlotLost).
THEOREM SchedulerLosesNoSlot == Spec => []NoSlotLost
<1>1. Init => GrowInv /\ LossInv
  <2>1. Init => pc = "off" /\ ends = {}
    BY DEF Init
  <2>2. ends = {} => NoSlotLost
    BY DEF NoSlotLost
  <2>3. QED  BY <2>1, <2>2 DEF GrowInv, LossInv, Alive
<1>2. LossInv => NoSlotLost
  BY DEF LossInv, NoSlotLost
<1>3. QED
  BY <1>1, <1>2, GrowStep, LossStep, SchedulerInvariant, PTL DEF Spec
=============================================================================
