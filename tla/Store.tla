------------------------------- MODULE Store --------------------------------
(***************************************************************************)
(* How an algorithm's changes reach the kvalobs database and the Kafka     *)
(* topic: Qc2Algorithm::storeData, the transaction and its error handling  *)
(* (SQLDataAccess, KvalobsDB, KvalobsDbGate), the broadcaster and the hand *)
(* over to the producer thread (KvServicedBroadcaster, Qc2App), the start  *)
(* and the end of the process.                                             *)
(*                                                                         *)
(* The thread of the daemon, the producer thread, the database server, the *)
(* signal handler and crashes interleave.  What a batch contains is left   *)
(* out; batches are numbered as they are written.                          *)
(***************************************************************************)
EXTENDS Integers, Sequences

CONSTANTS
    Answers,    \* what the service may answer: "sent", and "refused", "busy" by the
                \* Broadcaster's contract; Qc2App always answers "sent"
    WaitMax,    \* seconds sendChanges waits for a busy service (120)
    MaxBatches, \* bound: batches ever written
    MaxJobs,    \* bound: algorithms queued in one scan
    MaxOutages, \* bound: times the database server goes away
    MaxDrops,   \* bound: messages the producer fails to deliver
    MaxLives    \* bound: starts of the daemon

ASSUME AnswersAssumption == Answers \subseteq {"sent", "refused", "busy"}
ASSUME BoundAssumption ==
    /\ WaitMax \in Nat \ {0} /\ MaxBatches \in Nat /\ MaxJobs \in Nat
    /\ MaxOutages \in Nat /\ MaxDrops \in Nat /\ MaxLives \in Nat

VARIABLES
    pc,         \* where the daemon's thread is
    conn,       \* the connection in mDbGate, seen from its client and the server
    server,     \* the database server accepts connections
    sigTerm,    \* the flag set by the signal handler
    jobs,       \* algorithms of this scan that have not been started
    batch,      \* the batch being written
    multi,      \* it has more than one statement, hence BEGIN and COMMIT
    memory,     \* mDataList: batches queued for sending; a list in the order of numbers
    tries,      \* times the service was busy in this sendChanges
    producer,   \* messages given to the producer thread, each a set of batches
    committed, topic,   \* see ChangeFeed
    forgotten,  \* history: committed batches that can no longer reach the topic
    issued, outages, drops, lives   \* counted events

threadVars == <<pc, jobs, batch, multi, tries>>
outerVars  == <<server, sigTerm, outages, drops, lives>>
feedVars   == <<committed, topic, forgotten>>
vars == <<threadVars, outerVars, feedVars, conn, memory, producer, issued>>

\* What the feed promises: the mapping to its two variables.
Feed == INSTANCE ChangeFeed WITH committed <- committed, topic <- topic

Batches == 1 .. MaxBatches

ThreadStates == {"connect", "idle", "read", "work", "exec", "handler", "queue", "send",
                 "unwind", "join"}
Alive == pc \in ThreadStates

InProducer == UNION {producer[i] : i \in DOMAIN producer}
OnTopic == UNION {topic[i] : i \in DOMAIN topic}

TypeOK ==
    /\ pc \in ThreadStates \union {"off", "stopped"}
    /\ conn \in {"none", "up", "aborted", "broken"}
    /\ server \in BOOLEAN /\ sigTerm \in BOOLEAN /\ multi \in BOOLEAN
    /\ jobs \in Nat /\ tries \in Nat
    /\ issued \in 0 .. MaxBatches /\ batch \in 0 .. issued
    /\ memory \subseteq Batches
    /\ producer \in Seq(SUBSET Batches)
    /\ committed \subseteq Batches /\ topic \in Seq(SUBSET Batches) /\ forgotten \subseteq Batches
    /\ outages \in Nat /\ drops \in Nat /\ lives \in Nat
    /\ pc = "connect" => conn = "none"

-----------------------------------------------------------------------------
\* Qc2App::isShuttingDown
NeverShuttingDown == FALSE                      \* mutant
ShuttingDown == sigTerm

Init ==
    /\ pc = "off" /\ conn = "none" /\ server = TRUE /\ sigTerm = FALSE
    /\ jobs = 0 /\ batch = 0 /\ multi = FALSE /\ tries = 0
    /\ memory = {} /\ producer = <<>>
    /\ committed = {} /\ topic = <<>> /\ forgotten = {}
    /\ issued = 0 /\ outages = 0 /\ drops = 0 /\ lives = 0

\* The thread goes to p and changes nothing else of its own.
Goto(p) == pc' = p /\ UNCHANGED <<jobs, batch, multi, tries>>

(* Connecting. *)

\* main, Qc2App and AlgorithmRunner are constructed; KvalobsDB connects.
Start ==
    /\ ~Alive /\ lives < MaxLives
    /\ pc' = "connect"
    /\ sigTerm' = FALSE /\ lives' = lives + 1
    /\ jobs' = 0 /\ batch' = 0 /\ multi' = FALSE /\ tries' = 0
    /\ UNCHANGED <<conn, server, memory, producer, feedVars, issued, outages, drops>>

\* KvalobsDB::connect asks for a connection until it gets one ...
Connected ==
    /\ pc = "connect" /\ ~ShuttingDown /\ server
    /\ conn' = "up"
    /\ Goto("idle")
    /\ UNCHANGED <<outerVars, memory, producer, feedVars, issued>>

\* ... or the daemon is to shut down; then it goes on without one.
GiveUp ==
    /\ pc = "connect" /\ ShuttingDown
    /\ Goto("idle")
    /\ UNCHANGED <<outerVars, conn, memory, producer, feedVars, issued>>

(* Algorithms, as the scheduler and the dispatcher start them. *)

\* A scan queues some algorithms.
Scan ==
    /\ pc = "idle" /\ jobs = 0 /\ ~ShuttingDown
    /\ jobs' \in 1 .. MaxJobs
    /\ UNCHANGED <<pc, batch, multi, tries, outerVars, conn, memory, producer, feedVars, issued>>

\* The next one starts; each begins by reading.
BeginRun ==
    /\ pc = "idle" /\ jobs > 0
    /\ jobs' = jobs - 1
    /\ pc' = "read"
    /\ UNCHANGED <<batch, multi, tries, outerVars, conn, memory, producer, feedVars, issued>>

Read ==
    /\ pc = "read" /\ conn = "up"
    /\ Goto("work")
    /\ UNCHANGED <<outerVars, conn, memory, producer, feedVars, issued>>

\* extractData and its like turn every failure into a DBException, which ends
\* the algorithm; they do not connect again.
ReadFails ==
    /\ pc = "read" /\ conn # "up"
    /\ Goto("idle")
    /\ UNCHANGED <<outerVars, conn, memory, producer, feedVars, issued>>

\* The algorithm reads more, or is done.
ReadMore ==
    /\ pc = "work"
    /\ Goto("read")
    /\ UNCHANGED <<outerVars, conn, memory, producer, feedVars, issued>>

Return ==
    /\ pc = "work"
    /\ Goto("idle")
    /\ UNCHANGED <<outerVars, conn, memory, producer, feedVars, issued>>

(* Storing. *)

\* Mutant: changes are queued for broadcast before they are stored.
StoreQueuedFirst ==
    /\ pc = "work" /\ issued < MaxBatches
    /\ issued' = issued + 1
    /\ batch' = issued + 1
    /\ multi' \in BOOLEAN
    /\ memory' = memory \union {issued + 1}
    /\ pc' = "exec"
    /\ UNCHANGED <<jobs, tries, outerVars, conn, producer, feedVars>>

\* storeData with a non-empty batch: one string of statements is sent.
Store ==
    /\ pc = "work" /\ issued < MaxBatches
    /\ issued' = issued + 1
    /\ batch' = issued + 1
    /\ multi' \in BOOLEAN
    /\ pc' = "exec"
    /\ UNCHANGED <<jobs, tries, outerVars, conn, memory, producer, feedVars>>

\* storeData with nothing to write still calls sendChanges.
StoreNothing ==
    /\ pc = "work"
    /\ pc' = "send" /\ tries' = 0
    /\ UNCHANGED <<jobs, batch, multi, outerVars, conn, memory, producer, feedVars, issued>>

\* The server has committed and answered.
ExecOk ==
    /\ pc = "exec" /\ conn = "up"
    /\ committed' = committed \union {batch}
    /\ Goto("queue")
    /\ UNCHANGED <<outerVars, conn, memory, producer, topic, forgotten, issued>>

\* The server refuses a statement, for instance an INSERT of a row that another
\* process inserted since it was read.  After BEGIN the transaction stays open.
ExecRefused ==
    /\ pc = "exec" /\ conn = "up"
    /\ conn' = IF multi THEN "aborted" ELSE "up"
    /\ Goto("handler")
    /\ UNCHANGED <<outerVars, memory, producer, feedVars, issued>>

\* The connection was lost: no answer.
ExecUnanswered ==
    /\ pc = "exec" /\ conn = "broken"
    /\ Goto("handler")
    /\ UNCHANGED <<outerVars, conn, memory, producer, feedVars, issued>>

\* Mutant: the handler throws at once.
HandlerThrows ==
    /\ pc = "handler"
    /\ Goto("idle")
    /\ UNCHANGED <<outerVars, conn, memory, producer, feedVars, issued>>

\* The handler in execSQLUpdate: ROLLBACK, whose failure is logged, then connect,
\* which first gives up the old connection.  The DBException ends the algorithm.
Handler ==
    /\ pc = "handler"
    /\ conn' = "none"
    /\ Goto("connect")
    /\ UNCHANGED <<outerVars, memory, producer, feedVars, issued>>

(* Broadcasting. *)

\* Mutant: what was kept in memory is replaced.
QueueReplaces ==
    /\ pc = "queue"
    /\ memory' = {batch}
    /\ pc' = "send" /\ tries' = 0
    /\ UNCHANGED <<jobs, batch, multi, outerVars, conn, producer, feedVars, issued>>

\* Mutant: the changes are not queued.
QueueNothing ==
    /\ pc = "queue"
    /\ pc' = "send" /\ tries' = 0
    /\ UNCHANGED <<jobs, batch, multi, outerVars, conn, memory, producer, feedVars, issued>>

\* queueChanged for every insert and update of the batch.
Queue ==
    /\ pc = "queue"
    /\ memory' = memory \union {batch}
    /\ pc' = "send" /\ tries' = 0
    /\ UNCHANGED <<jobs, batch, multi, outerVars, conn, producer, feedVars, issued>>

SendNothing ==
    /\ pc = "send" /\ memory = {}
    /\ Goto("work")
    /\ UNCHANGED <<outerVars, conn, memory, producer, feedVars, issued>>

\* The whole list goes to the producer thread as one message.
Sent ==
    /\ pc = "send" /\ memory # {} /\ "sent" \in Answers
    /\ producer' = Append(producer, memory)
    /\ memory' = {}
    /\ Goto("work")
    /\ UNCHANGED <<outerVars, conn, feedVars, issued>>

\* The service is not ok: the list stays in memory.
Refused ==
    /\ pc = "send" /\ memory # {} /\ "refused" \in Answers
    /\ Goto("work")
    /\ UNCHANGED <<outerVars, conn, memory, producer, feedVars, issued>>

\* The service is busy: wait a second, and after WaitMax of them go on.
Busy ==
    /\ pc = "send" /\ memory # {} /\ "busy" \in Answers
    /\ tries' = tries + 1
    /\ pc' = IF tries + 1 = WaitMax THEN "work" ELSE "send"
    /\ UNCHANGED <<jobs, batch, multi, outerVars, conn, memory, producer, feedVars, issued>>

(* The end of the process. *)

\* The main loop is left on shutdown when the scan's queue is empty, and at any
\* queued algorithm whose configuration file no longer parses.
Leave ==
    /\ pc = "idle" /\ (jobs > 0 \/ ShuttingDown)
    /\ Goto("unwind")
    /\ UNCHANGED <<outerVars, conn, memory, producer, feedVars, issued>>

\* ~AlgorithmRunner: the connection is released, the broadcaster's list is gone.
Unwind ==
    /\ pc = "unwind"
    /\ conn' = "none"
    /\ memory' = {} /\ forgotten' = forgotten \union memory
    /\ Goto("join")
    /\ UNCHANGED <<outerVars, producer, committed, topic, issued>>

\* ~Qc2App waits for the producer thread, but not longer than 15 seconds.
Join ==
    /\ pc = "join"
    /\ producer' = <<>> /\ forgotten' = forgotten \union InProducer
    /\ Goto("stopped")
    /\ UNCHANGED <<outerVars, conn, memory, committed, topic, issued>>

-----------------------------------------------------------------------------
(* The producer thread and the surroundings.                               *)

Deliver ==
    /\ Alive /\ producer # <<>>
    /\ topic' = Append(topic, Head(producer))
    /\ producer' = Tail(producer)
    /\ UNCHANGED <<threadVars, outerVars, conn, memory, committed, forgotten, issued>>

\* "hope that the message arrives": nothing looks at the outcome.
Drop ==
    /\ Alive /\ producer # <<>> /\ drops < MaxDrops
    /\ forgotten' = forgotten \union Head(producer)
    /\ producer' = Tail(producer)
    /\ drops' = drops + 1
    /\ UNCHANGED <<threadVars, server, sigTerm, outages, lives, conn, memory, committed, topic,
                   issued>>

\* What is in the server's hands when its client is cut off may be committed or not.
CutOff ==
    \/ UNCHANGED <<committed, forgotten>>
    \/ /\ pc = "exec" /\ conn = "up"
       /\ committed' = committed \union {batch}
       /\ forgotten' = forgotten \union {batch}

ServerDown ==
    /\ server /\ outages < MaxOutages
    /\ server' = FALSE /\ outages' = outages + 1
    /\ conn' = IF conn = "none" THEN "none" ELSE "broken"
    /\ CutOff
    /\ UNCHANGED <<threadVars, sigTerm, drops, lives, memory, producer, topic, issued>>

ServerUp ==
    /\ ~server
    /\ server' = TRUE
    /\ UNCHANGED <<threadVars, sigTerm, outages, drops, lives, conn, memory, producer, feedVars,
                   issued>>

Signal ==
    /\ Alive /\ ~sigTerm
    /\ sigTerm' = TRUE
    /\ UNCHANGED <<threadVars, server, outages, drops, lives, conn, memory, producer, feedVars,
                   issued>>

\* The process is killed: what it had in memory is gone.
Crash ==
    /\ Alive
    /\ pc' = "off" /\ conn' = "none"
    /\ jobs' = 0 /\ batch' = 0 /\ multi' = FALSE /\ tries' = 0
    /\ memory' = {} /\ producer' = <<>>
    /\ LET lost == memory \union InProducer \union (IF pc = "queue" THEN {batch} ELSE {})
       IN  \/ forgotten' = forgotten \union lost /\ UNCHANGED committed
           \/ /\ pc = "exec" /\ conn = "up"
              /\ committed' = committed \union {batch}
              /\ forgotten' = forgotten \union lost \union {batch}
    /\ UNCHANGED <<outerVars, topic, issued>>

Thread ==
    \/ Connected \/ GiveUp \/ Scan \/ BeginRun \/ Read \/ ReadFails \/ ReadMore \/ Return
    \/ Store \/ StoreNothing \/ ExecOk \/ ExecRefused \/ ExecUnanswered \/ Handler
    \/ Queue \/ SendNothing \/ Sent \/ Refused \/ Busy \/ Leave \/ Unwind \/ Join

Next ==
    \/ Thread \/ Start \/ Deliver \/ Drop
    \/ ServerDown \/ ServerUp \/ Signal \/ Crash

Spec == Init /\ [][Next]_vars

\* The thread runs on; an algorithm, a finite loop over stations and times,
\* returns; the producer thread sends what it is given.
FairSpec == Spec /\ WF_vars(Thread) /\ SF_vars(Return) /\ WF_vars(Deliver)
-----------------------------------------------------------------------------
(* Properties.                                                             *)

\* The two halves of Qc2Algorithm::storeData, the transaction and the broadcast,
\* keep the promise of the feed: subscribers only see committed changes, in the
\* order of the commits and once, whatever fails, crashes or is kept for later.
FeedKept == Feed!FeedSpec

\* The batches that are committed and on their way to the topic.
Pipeline == (IF pc = "queue" THEN {batch} ELSE {}) \union memory \union InProducer

\* A committed batch is in exactly one place: on the topic, on its way there, or
\* lost with the process or a message.  A batch that was not committed is in none.
\* Changes kept in memory by sendChanges are neither lost nor sent twice.
Accounted ==
    /\ committed = OnTopic \union Pipeline \union forgotten
    /\ OnTopic \cap Pipeline = {} /\ OnTopic \cap forgotten = {} /\ Pipeline \cap forgotten = {}
    /\ memory \cap InProducer = {}
    /\ pc = "queue" => batch \notin memory \union InProducer

\* After a refused statement no algorithm works inside the transaction that the
\* failed one left open, where all of its statements would be refused too.
NoOpenTransaction == conn = "aborted" => pc = "handler"

\* A committed batch reaches the topic, unless it is lost with the process or a
\* message, or the service does not take it (Qc2App's always does): then it stays in
\* the list until the next sendChanges, which may never come.
Published ==
    \A b \in Batches :
        b \in committed ~> b \in OnTopic \union forgotten
                               \union (IF pc \in {"queue", "send"} THEN {} ELSE memory)

\* An update that fails leads to a working connection, unless there is no server to
\* connect to or the daemon comes to its end.
FailedUpdateReconnects == pc = "handler" ~> conn = "up" \/ ~server \/ sigTerm \/ ~Alive

\* SIGTERM ends the daemon, also while it waits for a database server that never
\* comes back or for a service that stays busy.
SignalStops == sigTerm ~> ~Alive
=============================================================================
