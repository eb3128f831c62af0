----------------------------- MODULE Scheduler ------------------------------
(***************************************************************************)
(* The main loop of kvqc2d (AlgorithmRunner::runAlgorithms): once a minute *)
(* it scans the configuration directory, queues the algorithms that became *)
(* due since the previous scan and runs the queue, then sleeps.  Around it *)
(* act the system clock, the operator who edits configuration files, the   *)
(* signal handler and crashes.                                             *)
(*                                                                         *)
(* Time is counted in minutes, as in the code, which sets seconds to 0.    *)
(* The length of an hour and of a day are parameters.                      *)
(***************************************************************************)
EXTENDS Integers, FiniteSets

CONSTANTS
    Files,      \* paths of *.cfg2 files, numbered in the order of their names
    Configs,    \* contents that parse: [hour, minute, algorithm]
    Names,      \* algorithm names found in configuration files
    Known,      \* those for which the dispatcher holds an algorithm object
    Absent,     \* directory entry: no such file
    Broken,     \* directory entry: contents on which Parse throws
    NoSlot,     \* no algorithm is running
    HourLen,    \* minutes of an hour (60)
    DayHours,   \* hours of a day (24)
    MaxTime,    \* bound: the clock stops here
    MaxEdits,   \* bound: edits of the configuration directory
    MaxLives,   \* bound: starts of the daemon
    MaxBack,    \* bound: backward steps of the system clock
    MaxNap      \* ends of minutes the clock may pass while the daemon sleeps for one

ASSUME FilesAssumption == Files \subseteq Nat
ConfigType == [hour : Int, minute : Int, algorithm : Names \union {"NotSet"}]

ASSUME ConfigsAssumption == Configs \subseteq ConfigType
ASSUME SentinelAssumption ==
    /\ Absent \notin Configs /\ Broken \notin Configs /\ Absent # Broken
    /\ NoSlot \notin [slot : Int, file : Files]
ASSUME CalendarAssumption == HourLen \in Nat \ {0} /\ DayHours \in Nat \ {0}
ASSUME BoundAssumption ==
    MaxTime \in Nat /\ MaxEdits \in Nat /\ MaxLives \in Nat /\ MaxBack \in Nat
    /\ MaxNap \in Nat \ {0}

VARIABLES
    clock,      \* the system clock
    dir,        \* the configuration directory: file -> contents
    sigTerm,    \* the flag set by the signal handler
    pc,         \* where the daemon is
    lastEnd,    \* the time of the previous scan
    now,        \* the time of this scan
    todo,       \* the files this scan has still to parse
    queue,      \* the slots that became due, not yet taken up
    current,    \* the slot whose algorithm is running
    slept,      \* ends of minutes since the daemon went to sleep
    \* history, for the properties and the bounds
    settled,    \* slots taken up, see SlotLedger
    ends,       \* the times of all scans of this life
    touched,    \* files edited in this life
    edits, lives, backs     \* counted events

daemonVars  == <<pc, lastEnd, now, todo, queue, current>>
historyVars == <<settled, ends, touched>>
countVars   == <<edits, lives, backs>>
vars == <<clock, dir, sigTerm, slept, daemonVars, historyVars, countVars>>

\* The ledger is the history of slots taken up, and the slot that is running.
Ledger == INSTANCE SlotLedger WITH settled <- settled, current <- current
Slots == Ledger!Slots
Before(a, b) == Ledger!Before(a, b)

Contents == Configs \union {Absent, Broken}
Alive == pc \in {"loop", "parse", "run", "busy", "sleep"}

TypeOK ==
    /\ clock \in Int /\ lastEnd \in Int /\ now \in Int
    /\ dir \in [Files -> Contents]
    /\ sigTerm \in BOOLEAN /\ slept \in Nat
    /\ pc \in {"off", "loop", "parse", "run", "busy", "sleep", "stopped", "failed"}
    /\ todo \subseteq Files
    /\ queue \subseteq Slots /\ settled \subseteq Slots
    /\ current \in Slots \union {NoSlot}
    /\ ends \subseteq Int /\ touched \subseteq Files
    /\ edits \in Nat /\ lives \in Nat /\ backs \in Nat
    /\ todo # {} => pc \in {"parse", "failed"}
    /\ queue # {} => pc \in {"parse", "run", "busy", "failed"}
    /\ current # NoSlot <=> pc = "busy"

-----------------------------------------------------------------------------
(* The operators of the code.                                              *)

\* Qc2App::isShuttingDown; nothing ever sets mShouldShutdown.
NeverShuttingDown == FALSE                      \* mutant
ShuttingDown == sigTerm

\* A file that is gone is an empty stream, which parses to the defaults.
Defaults == [hour |-> 2, minute |-> 0, algorithm |-> "NotSet"]
Parsed(f) == IF dir[f] = Absent THEN Defaults ELSE dir[f]

\* The minute of today at which a configuration is to run, seen at time t; a
\* negative RunAtHour stands for the current hour.
DayStart(t) == t - (t % (HourLen * DayHours))
HourOf(t) == (t - DayStart(t)) \div HourLen
RunAt(cfg, t) ==
    LET hour == IF cfg.hour < 0 THEN HourOf(t) ELSE cfg.hour
    IN  DayStart(t) + hour * HourLen + cfg.minute

\* The window of a scan.
IsDueClosed(s) == s >= lastEnd /\ s <= now     \* mutant
IsDue(s) == s > lastEnd /\ s <= now

First(f, S) == f \in S /\ \A g \in S : f <= g
FirstSlot(e, S) == e \in S /\ \A x \in S \ {e} : Before(e, x)

-----------------------------------------------------------------------------
(* The daemon.                                                             *)

Init ==
    /\ clock = 0 /\ lastEnd = 0 /\ now = 0
    /\ dir \in [Files -> Contents]
    /\ sigTerm = FALSE /\ slept = 0
    /\ pc = "off"
    /\ todo = {} /\ queue = {} /\ settled = {} /\ touched = {} /\ ends = {}
    /\ current = NoSlot
    /\ edits = 0 /\ lives = 0 /\ backs = 0

\* A new process: lastEnd is the minute before the start.
Start ==
    /\ ~Alive /\ lives < MaxLives
    /\ pc' = "loop"
    /\ lastEnd' = clock - 1
    /\ sigTerm' = FALSE
    /\ todo' = {} /\ queue' = {} /\ current' = NoSlot
    /\ settled' = {x \in settled : x.slot <= clock - 1}
    /\ ends' = {clock - 1} /\ touched' = {}
    /\ lives' = lives + 1
    /\ slept' = 0
    /\ UNCHANGED <<clock, dir, now, edits, backs>>

\* The head of the loop: SelectConfigFiles and the reading of the clock.
BeginScan ==
    /\ pc = "loop" /\ ~ShuttingDown
    /\ todo' = {f \in Files : dir[f] # Absent}
    /\ now' = clock
    /\ queue' = {}
    /\ pc' = "parse"
    /\ UNCHANGED <<clock, dir, sigTerm, slept, lastEnd, current, historyVars, countVars>>

LoopExit ==
    /\ pc = "loop" /\ ShuttingDown
    /\ pc' = "stopped"
    /\ UNCHANGED <<clock, dir, sigTerm, slept, lastEnd, now, todo, queue, current,
                   historyVars, countVars>>

\* Mutant: nothing catches what Parse throws in the scan.
ScanFileFatal(f) ==
    /\ todo' = todo \ {f}
    /\ queue' = IF dir[f] # Broken /\ IsDue(RunAt(Parsed(f), now))
                THEN queue \union {[slot |-> RunAt(Parsed(f), now), file |-> f]}
                ELSE queue
    /\ pc' = IF dir[f] = Broken THEN "failed" ELSE pc

\* Parse the next file and queue it if it became due.  A file that does not
\* parse is logged and left out.
ScanFile(f) ==
    /\ todo' = todo \ {f}
    /\ queue' = IF dir[f] # Broken /\ IsDue(RunAt(Parsed(f), now))
                THEN queue \union {[slot |-> RunAt(Parsed(f), now), file |-> f]}
                ELSE queue
    /\ UNCHANGED pc

ParseFile ==
    /\ pc = "parse"
    /\ \E f \in todo : First(f, todo) /\ ScanFile(f)
    /\ UNCHANGED <<clock, dir, sigTerm, slept, lastEnd, now, current, historyVars, countVars>>

ScanDone ==
    /\ pc = "parse" /\ todo = {}
    /\ pc' = "run"
    /\ UNCHANGED <<clock, dir, sigTerm, slept, lastEnd, now, todo, queue, current,
                   historyVars, countVars>>

\* Take the earliest slot off the queue and parse its file again.
Dequeue(e) ==
    /\ pc = "run"
    /\ FirstSlot(e, queue)
    /\ queue' = queue \ {e}
    /\ UNCHANGED <<clock, dir, sigTerm, slept, lastEnd, now, todo, ends, touched, countVars>>

\* The dispatcher has the algorithm: it runs.
RunSlot(e) ==
    /\ Dequeue(e)
    /\ dir[e.file] # Broken /\ Parsed(e.file).algorithm \in Known
    /\ current' = e
    /\ settled' = settled \union {e}
    /\ pc' = "busy"

\* The dispatcher does not know the name: logged.
SkipSlot(e) ==
    /\ Dequeue(e)
    /\ dir[e.file] # Broken /\ Parsed(e.file).algorithm \notin Known
    /\ settled' = settled \union {e}
    /\ UNCHANGED <<pc, current>>

\* The second Parse throws; nothing catches it before main, which exits.
FatalSlot(e) ==
    /\ Dequeue(e)
    /\ dir[e.file] = Broken
    /\ pc' = "failed"
    /\ UNCHANGED <<settled, current>>

\* The algorithm returned or threw: the dispatcher and the runner catch all.
Finish ==
    /\ pc = "busy"
    /\ pc' = "run"
    /\ current' = NoSlot
    /\ UNCHANGED <<clock, dir, sigTerm, slept, lastEnd, now, todo, queue, historyVars, countVars>>

\* The queue is empty: remember the time of this scan; leave on shutdown, else
\* sleep.  "ends" and "settled" follow lastEnd.
NextLastEndLate == clock                        \* mutant: the end of the loop
NextLastEndEarly == now - 1                     \* mutant: off by one
NextLastEnd == now
QueueEmptyEager == queue = {} \/ ShuttingDown   \* mutant: shutdown skips the queue
QueueEmpty == queue = {}
EndQueue ==
    /\ pc = "run" /\ QueueEmpty
    /\ lastEnd' = NextLastEnd
    /\ settled' = {x \in settled : x.slot <= NextLastEnd}
    /\ ends' = ends \union {NextLastEnd}
    /\ pc' = IF ShuttingDown THEN "stopped" ELSE "sleep"
    /\ slept' = 0
    /\ UNCHANGED <<clock, dir, sigTerm, now, todo, queue, current, touched, countVars>>

\* Sixty sleeps of a second, ended early by a shutdown.
Wake ==
    /\ pc = "sleep" /\ (slept > 0 \/ ShuttingDown)
    /\ pc' = "loop"
    /\ slept' = 0
    /\ UNCHANGED <<clock, dir, sigTerm, lastEnd, now, todo, queue, current,
                   historyVars, countVars>>

-----------------------------------------------------------------------------
(* The surroundings.                                                       *)

\* The clock moves where the daemon spends time: in an algorithm, asleep or not
\* running.  A scan is short; a minute that ends in it has the effect of one
\* that ends just before or after it, because only BeginScan reads the clock.
TimePasses == pc \notin {"loop", "parse", "run"}

Tick ==
    /\ TimePasses /\ clock < MaxTime
    /\ pc = "sleep" => slept < MaxNap
    /\ clock' = clock + 1
    /\ slept' = IF pc = "sleep" THEN slept + 1 ELSE slept
    /\ UNCHANGED <<dir, sigTerm, daemonVars, historyVars, countVars>>

\* kvtime::now() is the wall clock, which an administrator or NTP may set back.
SetBack ==
    /\ TimePasses /\ backs < MaxBack
    /\ \E t \in 0 .. clock - 1 : clock' = t
    /\ backs' = backs + 1
    /\ UNCHANGED <<dir, sigTerm, slept, daemonVars, historyVars, edits, lives>>

Edit(f, c) ==
    /\ edits < MaxEdits
    /\ c # dir[f]
    /\ dir' = [dir EXCEPT ![f] = c]
    /\ touched' = touched \union {f}
    /\ edits' = edits + 1
    /\ UNCHANGED <<clock, sigTerm, slept, daemonVars, settled, ends, lives, backs>>

\* SIGTERM or SIGINT.
Signal ==
    /\ Alive /\ ~sigTerm
    /\ sigTerm' = TRUE
    /\ UNCHANGED <<clock, dir, slept, daemonVars, historyVars, countVars>>

\* SIGKILL, a crash of the process or of the machine: its memory is gone.
Crash ==
    /\ Alive
    /\ pc' = "off"
    /\ lastEnd' = 0 /\ now' = 0 /\ sigTerm' = FALSE /\ slept' = 0
    /\ todo' = {} /\ queue' = {} /\ current' = NoSlot
    /\ ends' = {}
    /\ UNCHANGED <<clock, dir, settled, touched, countVars>>

Daemon ==
    \/ BeginScan \/ LoopExit \/ ParseFile \/ ScanDone
    \/ \E e \in queue : RunSlot(e) \/ SkipSlot(e) \/ FatalSlot(e)
    \/ Finish \/ EndQueue \/ Wake

Surroundings ==
    \/ Start \/ Tick \/ SetBack \/ Signal \/ Crash
    \/ \E f \in Files, c \in Contents : Edit(f, c)

Next == Daemon \/ Surroundings

Spec == Init /\ [][Next]_vars

\* A live process keeps executing and algorithms terminate.
FairSpec == Spec /\ WF_vars(Daemon)
-----------------------------------------------------------------------------
(* Properties.                                                             *)

\* The loop of AlgorithmRunner.cc:69-114 keeps the promise of the ledger: slots
\* are run one at a time, in the order of time and file name, and none twice
\* unless the daemon was restarted or the clock set back.
LedgerKept == Ledger!LedgerSpec

\* While time only goes forward and the process lives, lastEnd never lets a slot
\* that was run come back into a window.
LedgerGrows == [][lives' = lives /\ backs = 0 => settled \subseteq settled']_vars

\* Whether s is a minute for which the configuration asks for a run.
Scheduled(cfg, s) ==
    LET minuteOfDay == s - DayStart(s)
    IN  IF cfg.hour < 0 THEN minuteOfDay % HourLen = cfg.minute
                        ELSE minuteOfDay = cfg.hour * HourLen + cfg.minute

\* s and t are in the same hour (of an hourly schedule) or day (of a daily one).
SamePeriod(cfg, s, t) ==
    LET length == IF cfg.hour < 0 THEN HourLen ELSE HourLen * DayHours
    IN  s \div length = t \div length

\* The time of the first scan at or after s.
ScanCovering(s) == CHOOSE e \in ends : e >= s /\ \A d \in ends : d >= s => e <= d

\* Since the start every slot of a file that was not edited was taken up, however
\* long earlier algorithms held the loop, except where the scan that covers the
\* slot came in a later hour (hourly schedule) or day (daily schedule).
NoSlotLost ==
    backs = 0 =>
        \A f \in Files \ touched : dir[f] \in Configs =>
            \A s \in 0 .. lastEnd :
                /\ \E e \in ends : e < s
                /\ Scheduled(dir[f], s)
                /\ SamePeriod(dir[f], s, ScanCovering(s))
                => [slot |-> s, file |-> f] \in settled

\* The comment at AlgorithmRunner.cc:79 says that an algorithm scheduled hourly
\* and held up for two hours by the previous algorithm "will be run only once": one run
\* makes up for the slots of the window.
HeldUpHourlyRunsOnce ==
    [][pc = "run" /\ pc' = "sleep" =>
        \A f \in Files \ touched :
            /\ dir[f] \in Configs /\ dir[f].hour < 0
            /\ \E x \in settled : x.slot = lastEnd
            /\ now - lastEnd >= 2 * HourLen + MaxNap
            /\ \E s \in lastEnd + 1 .. now : Scheduled(dir[f], s)
            => \E x \in settled' : x.file = f /\ x.slot > lastEnd]_vars

\* A configuration file that does not parse ends the daemon only if it was
\* edited while the daemon ran: the scan survives it, the second Parse does not.
FatalOnlyAfterEdit == pc = "failed" => touched # {}

\* A clean stop leaves nothing queued: lastEnd is not saved, so a slot dropped
\* at shutdown would never be run.
StopDrainsQueue == pc = "stopped" => queue = {}

\* SIGTERM ends the daemon, whatever it was doing.
SignalStops == sigTerm ~> ~Alive
=============================================================================
