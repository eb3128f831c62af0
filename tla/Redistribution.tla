--------------------------- MODULE Redistribution ---------------------------
(***************************************************************************)
(* RedistributionAlgorithm: a precipitation gauge that was not read for    *)
(* some days gives one accumulated value at the end of them, the endpoint; *)
(* the algorithm distributes it over the days in proportion to what the    *)
(* neighbour stations measured, and checks earlier redistributions again.  *)
(*                                                                         *)
(* One station, one row a day at the measurement hour.  Stations do not    *)
(* share rows; a new station starts with earliest = UT0, as the run does.  *)
(* Values are tenths of a millimetre.  The run reads its endpoints once,   *)
(* then, for each, the rows before it and the neighbours, and writes them  *)
(* in one transaction; kvalobs' other processes and the operators of its   *)
(* quality control change the table at any moment in between.              *)
(***************************************************************************)
EXTENDS Integers, Sequences

CONSTANTS
    N,              \* days 1 .. N
    UT0, UT1,       \* the days from which endpoints are taken
    Series,         \* tables the program may start from
    Profiles,       \* what the neighbours may have measured
    HqcValues,      \* values an operator may put in
    MaxOutside      \* bound: changes from outside and failed runs

Days == 1 .. N

\* Values of original and corrected that are no amounts.
BoneDry  == -10         \* no precipitation at all (-1 mm)
Missing  == -327670
Rejected == -327660

Row == [original : Int, corrected : Int, fmis : Nat, fd : Nat, fhqc : Nat]
NoRow == [original |-> Missing, corrected |-> Missing, fmis |-> 15, fd |-> 15, fhqc |-> 15]

\* The neighbours of a day: how many of them are used is enough, the weighted mean
\* of their values, one of them had more than 0.15 mm, all of them were bone dry.
Neighbours == [enough : BOOLEAN, mean : Nat, precip : BOOLEAN, boneDry : BOOLEAN]

ASSUME DaysAssumption == N \in Nat /\ UT0 \in 2 .. N /\ UT1 \in UT0 .. N
ASSUME DataAssumption ==
    /\ Series \subseteq [Days -> Row \union {NoRow}]
    /\ Profiles \subseteq [Days -> Neighbours]
    /\ \A n \in Profiles : \A d \in Days : n[d].boneDry => n[d].mean = 0 /\ ~n[d].precip
    /\ HqcValues \subseteq Nat /\ MaxOutside \in Nat

VARIABLES
    rows,       \* the table: day -> row or NoRow
    nbr,        \* the neighbours: day -> what they measured
    pc,         \* where the run is
    todo,       \* edata: endpoints not yet looked at, as read at the start of the run
    earliest,   \* lastObstime
    acc,        \* the accumulation: updates from the endpoint back in time
    \* history
    calm,       \* nothing came from outside since the start of this run
    settled,    \* a whole run has passed since anything came from outside
    outside     \* counted events

tableVars == <<rows, nbr>>
runVars == <<pc, todo, earliest, acc>>
historyVars == <<calm, settled, outside>>
vars == <<tableVars, runVars, historyVars>>

-----------------------------------------------------------------------------
(* Flags and values.                                                       *)

Dry2Real(v) == IF v = BoneDry THEN 0 ELSE v
EndBeforeRedist(fd) == fd \in {2, 4}
EndAfterRedist(fd) == fd \in {7, 8, 10}
Hqc04(r) == r.fhqc \in {0, 4}
IsMissingOrRejected(r) == {r.original, r.corrected} \cap {Missing, Rejected} # {}

\* The defaults of configure.
EndpointFlags(r) == r.fmis \in {0, 4} /\ r.fd \in {2, 4, 6, 7, 8, 10}
MissingpointFlags(r) == (r.fmis = 3 /\ r.fd = 2) \/ (r.fmis = 1 /\ r.fd \in {6, 7, 9})
FlagChange(r, fd) == [r EXCEPT !.fd = fd, !.fmis = IF r.fmis = 3 THEN 1 ELSE r.fmis]

\* DataUpdate: a row as it was read or made up, and as it is to be written.
Update(d, isNew, r) == [day |-> d, isNew |-> isNew, old |-> r, new |-> r]
Updates == [day : Days, isNew : BOOLEAN, old : Row, new : Row]
NeedsWrite(u) == u.isNew \/ u.new # u.old
MissingRow == [original |-> Missing, corrected |-> Missing, fmis |-> 3, fd |-> 2, fhqc |-> 0]

Total(s) ==
    LET upTo[n \in 0 .. Len(s)] == IF n = 0 THEN 0 ELSE upTo[n - 1] + s[n] IN upTo[Len(s)]
CorrectedSum(rs) == Total([i \in DOMAIN rs |-> Dry2Real(rs[i].corrected)])
News(a) == [i \in DOMAIN a |-> a[i].new]

-----------------------------------------------------------------------------
(* Finding and checking an accumulation.                                   *)

CheckEndpoint(r) ==
    /\ ~IsMissingOrRejected(r)
    /\ r.fmis = 0 => r.original = BoneDry
    /\ EndBeforeRedist(r.fd) \/ EndAfterRedist(r.fd)
    /\ EndBeforeRedist(r.fd) => r.original = r.corrected

\* The first day that is read for an endpoint: one step before "earliest".
FirstReadUT0(from) == from                      \* mutant
FirstRead(from) == from - 1

\* The last row before the endpoint that is not a missing point, if any.
Boundaries(e, from) ==
    {b \in FirstRead(from) .. e.day - 1 :
        /\ rows[b] # NoRow /\ ~MissingpointFlags(rows[b])
        /\ \A d \in b + 1 .. e.day - 1 : rows[d] = NoRow \/ MissingpointFlags(rows[d])}

\* The point of day d, with a row made up for a hole.
Point(e, d) ==
    IF d = e.day THEN Update(d, FALSE, e.row)
    ELSE Update(d, rows[d] = NoRow, IF rows[d] = NoRow THEN MissingRow ELSE rows[d])

\* findMissing: the accumulations back to the boundary, one at most.
FindMissing(e, from) ==
    {[i \in 1 .. e.day - b |-> Point(e, e.day + 1 - i)]
     : b \in {b \in Boundaries(e, from) : ~IsMissingOrRejected(rows[b])}}

\* What checkAccumulationPeriod finds wrong with a missing point.
BadPoint(e, r) ==
    \/ r.original # Missing
    \/ e.fd = 2 /\ r.fd # 2
    \/ EndBeforeRedist(e.fd) /\ r.fmis # 3
    \/ EndAfterRedist(e.fd) /\ r.fmis # 1

\* How many rows must have a corrected value.
WithValue(a) == {i \in DOMAIN a : a[i].old.corrected \notin {Missing, Rejected}}
BadCount(a) ==
    \/ EndBeforeRedist(a[1].old.fd) /\ WithValue(a) # {1}
    \/ EndAfterRedist(a[1].old.fd) /\ WithValue(a) # DOMAIN a

AllHqc04(a) == \A i \in DOMAIN a : Hqc04(a[i].old)
KnownSum(a) == Total([i \in DOMAIN a |-> IF i \in WithValue(a) THEN Dry2Real(a[i].old.corrected) ELSE 0])

\* A wrong sum overrides what was found before: "stop = !fix".
CheckAccumulationPeriodNoHqc(a) ==              \* mutant: fhqc is not looked at
    /\ Len(a) > 1
    /\ IF KnownSum(a) # Dry2Real(a[1].old.original)
       THEN a[1].old.fd \in {7, 8}
       ELSE ~BadCount(a) /\ \A i \in 2 .. Len(a) : ~BadPoint(a[1].old, a[i].old)
CheckAccumulationPeriod(a) ==
    /\ Len(a) > 1
    /\ IF KnownSum(a) # Dry2Real(a[1].old.original)
       THEN a[1].old.fd \in {7, 8}
       ELSE ~BadCount(a) /\ \A i \in 2 .. Len(a) : ~BadPoint(a[1].old, a[i].old)
    /\ AllHqc04(a)

-----------------------------------------------------------------------------
(* Distributing it.                                                        *)

\* Corrected values c for the updates, with the flags of a redistribution.
Redistributed(a, c) ==
    [i \in DOMAIN a |->
        [a[i] EXCEPT !.new = FlagChange([a[i].old EXCEPT !.corrected = c[i]], IF i = 1 THEN 8 ELSE 7)]]

RedistributeBoneDry(a) == Redistributed(a, [i \in DOMAIN a |-> BoneDry])

AccumulatedCorrected(a) == a[1].old.corrected   \* mutant
Accumulated(a) == a[1].old.original
Means(a) == [i \in DOMAIN a |-> nbr[a[i].day].mean]

CanRedistribute(a) ==
    Accumulated(a) = 0 \/ /\ \A i \in DOMAIN a : nbr[a[i].day].enough
                          /\ Total(Means(a)) > 0 /\ 1000 * Accumulated(a) >= Total(Means(a))

\* round1(scale * b.corrected())
Share(a, i) ==
    LET total == Total(Means(a))
    IN  IF total = 0 THEN 0 ELSE (2 * Accumulated(a) * Means(a)[i] + total) \div (2 * total)

\* One turn of the loop that makes the sum right: st holds the values and delta.
FixUpForgets(a, st, i) ==                       \* mutant: delta is not reduced
    LET c == st.values[i]
        threshold == IF nbr[a[i].day].precip THEN st.delta + 1 ELSE 1
        newC == IF c > st.delta THEN c - st.delta ELSE 0
    IN  IF st.delta = 0 \/ c < threshold THEN st
        ELSE [values |-> [st.values EXCEPT ![i] = newC], delta |-> st.delta]
FixUp(a, st, i) ==
    LET c == st.values[i]
        threshold == IF nbr[a[i].day].precip THEN st.delta + 1 ELSE 1
        newC == IF c > st.delta THEN c - st.delta ELSE 0
    IN  IF st.delta = 0 \/ c < threshold THEN st
        ELSE [values |-> [st.values EXCEPT ![i] = newC], delta |-> st.delta - (c - newC)]

\* The rounded values, and what their sum is too much; then the loop.
Rounded(a) ==
    [values |-> [i \in DOMAIN a |-> IF nbr[a[i].day].boneDry THEN BoneDry ELSE Share(a, i)],
     delta |-> Total([i \in DOMAIN a |-> Share(a, i)]) - Accumulated(a)]
FixedUp(a) ==
    LET upTo[i \in 0 .. Len(a)] == IF i = 0 THEN Rounded(a) ELSE FixUp(a, upTo[i - 1], i)
    IN  upTo[Len(a)]

RedistributePrecipitation(a) ==
    Redistributed(a, IF Accumulated(a) = 0 THEN Rounded(a).values ELSE FixedUp(a).values)

-----------------------------------------------------------------------------
(* The run.                                                                *)

Init ==
    /\ rows \in Series /\ nbr \in Profiles
    /\ pc = "idle" /\ todo = <<>> /\ earliest = UT0 /\ acc = <<>>
    /\ calm = FALSE /\ settled = FALSE /\ outside = 0

\* The endpoints from UT0 to UT1, in the order of their days.
Endpoints ==
    LET upTo[n \in 0 .. UT1 - UT0 + 1] ==
            IF n = 0 THEN <<>>
            ELSE LET d == UT0 - 1 + n
                 IN  IF rows[d] # NoRow /\ EndpointFlags(rows[d])
                     THEN Append(upTo[n - 1], [day |-> d, row |-> rows[d]]) ELSE upTo[n - 1]
    IN  upTo[UT1 - UT0 + 1]

\* Read the endpoints.
StartRun ==
    /\ pc = "idle"
    /\ todo' = Endpoints
    /\ pc' = "next" /\ earliest' = UT0 /\ acc' = <<>>
    /\ calm' = TRUE
    /\ UNCHANGED <<tableVars, settled, outside>>

\* An endpoint that does not pass checkEndpoint; lastObstime stays.
SkipEndpoint ==
    /\ pc = "next" /\ todo # <<>>
    /\ ~CheckEndpoint(Head(todo).row)
    /\ todo' = Tail(todo)
    /\ UNCHANGED <<tableVars, pc, earliest, acc, historyVars>>

\* An endpoint that passes: the rows before it are read and checked.
LookBackUnchecked ==                            \* mutant: any endpoint
    /\ pc = "next" /\ todo # <<>>
    /\ LET e == Head(todo)
           usable == {a \in FindMissing(e, earliest) : CheckAccumulationPeriod(a)}
       IN  /\ earliest' = e.day
           /\ IF usable = {} THEN UNCHANGED <<pc, acc>>
              ELSE \E a \in usable : acc' = a /\ pc' = "distribute"
    /\ todo' = Tail(todo)
    /\ UNCHANGED <<tableVars, historyVars>>
LookBack ==
    /\ pc = "next" /\ todo # <<>>
    /\ LET e == Head(todo)
           usable == {a \in FindMissing(e, earliest) : CheckAccumulationPeriod(a)}
       IN  /\ CheckEndpoint(e.row)
           /\ earliest' = e.day
           /\ IF usable = {} THEN UNCHANGED <<pc, acc>>
              ELSE \E a \in usable : acc' = a /\ pc' = "distribute"
    /\ todo' = Tail(todo)
    /\ UNCHANGED <<tableVars, historyVars>>

\* The neighbours are read and the updates computed.
DistributeBoneDry ==
    /\ pc = "distribute" /\ Accumulated(acc) = BoneDry
    /\ acc' = RedistributeBoneDry(acc)
    /\ pc' = "store"
    /\ UNCHANGED <<tableVars, todo, earliest, historyVars>>

DistributePrecipitation ==
    /\ pc = "distribute" /\ Accumulated(acc) # BoneDry
    /\ CanRedistribute(acc)
    /\ acc' = RedistributePrecipitation(acc)
    /\ pc' = "store"
    /\ UNCHANGED <<tableVars, todo, earliest, historyVars>>

\* Neighbours are missing, or all of them were dry.
CannotDistribute ==
    /\ pc = "distribute" /\ Accumulated(acc) # BoneDry
    /\ ~CanRedistribute(acc)
    /\ pc' = "next" /\ acc' = <<>>
    /\ UNCHANGED <<tableVars, todo, earliest, historyVars>>

\* updateOrInsertData: one transaction.  An UPDATE looks neither at what is in the
\* row now nor writes the original; without a row it does nothing.
Writes == {i \in DOMAIN acc : NeedsWrite(acc[i])}
Conflict == \E i \in Writes : acc[i].isNew /\ rows[acc[i].day] # NoRow
Written(d) ==
    LET is == {i \in Writes : acc[i].day = d}
    IN  IF is = {} THEN rows[d]
        ELSE LET u == acc[CHOOSE i \in is : TRUE]
             IN  IF u.isNew THEN u.new
                 ELSE IF rows[d] = NoRow THEN NoRow
                 ELSE [u.new EXCEPT !.original = rows[d].original]

UpdateOrInsertData ==
    /\ pc = "store" /\ ~Conflict
    /\ rows' = [d \in Days |-> Written(d)]
    /\ pc' = "next" /\ acc' = <<>>
    /\ UNCHANGED <<nbr, todo, earliest, calm, settled, outside>>

\* The transaction is refused; the DBException ends the run.
InsertRefused ==
    /\ pc = "store" /\ Conflict
    /\ pc' = "idle" /\ todo' = <<>> /\ acc' = <<>> /\ earliest' = UT0
    /\ UNCHANGED <<tableVars, calm, settled, outside>>

EndRun ==
    /\ pc = "next" /\ todo = <<>>
    /\ pc' = "idle" /\ earliest' = UT0
    /\ settled' = (settled \/ calm)
    /\ UNCHANGED <<tableVars, todo, acc, calm, outside>>

-----------------------------------------------------------------------------
(* What comes from outside.                                                *)

FromOutside ==
    /\ outside < MaxOutside
    /\ outside' = outside + 1
    /\ calm' = FALSE /\ settled' = FALSE

\* The cleanup job deletes a row.
Cleanup(d) ==
    /\ FromOutside
    /\ rows[d] # NoRow
    /\ rows' = [rows EXCEPT ![d] = NoRow]
    /\ UNCHANGED <<nbr, runVars>>

\* The row of a day arrives, perhaps once more, and passes the checks of QC1: a
\* missing value, or what the gauge measured.
AsObserved(r) ==
    CASE r = NoRow \/ r.original = Missing -> MissingRow
      [] r.fd = 1 -> [r EXCEPT !.corrected = r.original, !.fhqc = 0]
      [] OTHER -> [r EXCEPT !.corrected = r.original, !.fd = 2, !.fhqc = 0]

Observe(d) ==
    /\ FromOutside
    /\ rows' = [rows EXCEPT ![d] = AsObserved(rows[d])]
    /\ UNCHANGED <<nbr, runVars>>

\* An operator puts in a value; fhqc tells so.
Hqc(d, v) ==
    /\ FromOutside
    /\ rows[d] # NoRow
    /\ rows' = [rows EXCEPT ![d].corrected = v, ![d].fhqc = 6,
                            ![d].fmis = IF rows[d].fmis = 3 THEN 1 ELSE rows[d].fmis]
    /\ UNCHANGED <<nbr, runVars>>

\* Neighbours report late, or are corrected.
NeighboursReport ==
    /\ FromOutside
    /\ nbr' \in Profiles
    /\ UNCHANGED <<rows, runVars>>

\* The database fails or the daemon is killed.
Abort ==
    /\ FromOutside
    /\ pc # "idle"
    /\ pc' = "idle" /\ todo' = <<>> /\ acc' = <<>> /\ earliest' = UT0
    /\ UNCHANGED tableVars

Run ==
    \/ StartRun \/ SkipEndpoint \/ LookBack
    \/ DistributeBoneDry \/ DistributePrecipitation \/ CannotDistribute
    \/ UpdateOrInsertData \/ InsertRefused \/ EndRun

Outside ==
    \/ \E d \in Days : Cleanup(d) \/ Observe(d) \/ \E v \in HqcValues : Hqc(d, v)
    \/ NeighboursReport \/ Abort

Next == Run \/ Outside

Spec == Init /\ [][Next]_vars

-----------------------------------------------------------------------------
(* Properties.                                                             *)

\* An accumulation ends in an endpoint that passed the checks, has a missing point,
\* and its days follow each other back in time.
TypeOK ==
    /\ rows \in [Days -> Row \union {NoRow}] /\ nbr \in [Days -> Neighbours]
    /\ pc \in {"idle", "next", "distribute", "store"}
    /\ todo \in Seq([day : UT0 .. UT1, row : Row])
    /\ earliest \in UT0 .. UT1
    /\ acc \in Seq(Updates)
    /\ calm \in BOOLEAN /\ settled \in BOOLEAN /\ outside \in Nat
    /\ pc \in {"distribute", "store"} =>
        /\ Len(acc) > 1 /\ CheckEndpoint(acc[1].old) /\ acc[1].day = earliest
        /\ \A i \in DOMAIN acc : acc[i].day = earliest + 1 - i

\* What is about to be written adds up to the accumulated value but for rounding,
\* half a tenth for each day: the loop at RedistributionAlgorithm.cc:591-600 never
\* makes the sum worse, and it makes no value negative.
DriftBounded ==
    pc = "store" =>
        LET drift == CorrectedSum(News(acc)) - Dry2Real(acc[1].old.original)
        IN  /\ -Len(acc) <= 2 * drift /\ 2 * drift <= Len(acc)
            /\ \A i \in DOMAIN acc : acc[i].new.corrected \in Nat \union {BoneDry}

\* A run over a table that an undisturbed run has left finds nothing to write, as
\* the tests expect of each second run ("run again without modifications").
RerunQuiet == settled /\ pc = "store" => Writes = {}

\* A row an operator has dealt with is overwritten only if he did so between its
\* being read and being written.
HqcKept ==
    [][outside' = outside =>
        \A d \in Days :
            rows[d] # NoRow /\ ~Hqc04(rows[d]) /\ rows'[d] # rows[d] =>
                \E i \in DOMAIN acc : acc[i].day = d /\ acc[i].old # rows[d]]_vars

\* An accumulation that nothing is wrong with: QC1's rows, a hole or missing rows
\* since an observation not before the day before UT0, enough neighbours that measured
\* something, and not more than a thousand times what was accumulated.
Ready(d) ==
    \E b \in UT0 - 1 .. d - 2 :
        /\ rows[b].fmis \in {0, 4} /\ ~IsMissingOrRejected(rows[b])
        /\ \A m \in b + 1 .. d - 1 : rows[m] \in {NoRow, MissingRow}
        /\ rows[d] # NoRow /\ rows[d].fd \in {2, 4} /\ rows[d].fmis = 4
        /\ rows[d].fhqc = 0 /\ rows[d].corrected = rows[d].original
        /\ \/ rows[d].original \in {0, BoneDry}
           \/ /\ \A m \in b + 1 .. d : nbr[m].enough
              /\ Total([i \in 1 .. d - b |-> nbr[d + 1 - i].mean]) \in 1 .. 1000 * rows[d].original

\* Such an accumulation does not stay: a run that nothing disturbs leaves none, whatever is
\* wrong with other accumulations, and whatever an earlier run that was cut short has left.
NothingReadyStays == settled => \A d \in UT0 .. UT1 : ~Ready(d)

\* RedistributionAlgorithm.cc:239-260: a period with missing points that do not go
\* with the endpoint, or with too few values, is reported to HQC as "accumulation
\* with errors" and the redistribution is to stop.
ErrorsStop ==
    pc \in {"distribute", "store"} =>
        /\ ~BadCount(acc)
        /\ \A i \in 2 .. Len(acc) : ~BadPoint(acc[1].old, acc[i].old)
=============================================================================
