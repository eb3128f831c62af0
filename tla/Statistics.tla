----------------------------- MODULE Statistics ------------------------------
(***************************************************************************)
(* StatisticalMean: the means, sums or quartiles of the last days at each  *)
(* station are held against reference values of the day of the year, and a *)
(* station that deviates while its neighbours do not is warned about.      *)
(*                                                                         *)
(* A run reads all rows once, makes values of days from them, slides a     *)
(* window over the days of each instrument, and then checks each station   *)
(* and day.  References and the list of stations are read from the database*)
(* when they are asked for, and kept; a query that throws ends the run.    *)
(*                                                                         *)
(* Values are whole numbers of a fine unit, so that a quotient is rounded  *)
(* down where the code has a float.  Days are numbered; what a number means*)
(* in a year is in Calendar.  The values that a run warns about are left   *)
(* out, and so are the warnings about days with too few values.            *)
(***************************************************************************)
EXTENDS Integers, FiniteSets, Sequences, SequencesExt

CONSTANTS
    Settings,       \* what may be configured: name of a setting -> value
    Tables,         \* what the table may hold: sets of rows
    ReferenceRows,  \* table qc2_statistical_reference_values
    FixedStations,  \* station numbers
    Distance,       \* two stations -> their distance in km
    Calendar,       \* number of a day -> its month and day of the month
    MonthDays,      \* number of days in the months of a year that is no leap year
    MaxAborts       \* bound: runs that are cut short

Missing == -32767

\* The members of a set in an order: as many are before each of them as it is far from the front.
Ordered(S, Lt(_, _)) ==
    [n \in 1 .. Cardinality(S) |-> CHOOSE e \in S : Cardinality({o \in S : Lt(o, e)}) = n - 1]
Earlier(a, b) == a < b

\* A row of table data, as far as the days are made of it.
Row == [station : Nat, type : Nat, pid : STRING, time : Int, original : Int, ok : BOOLEAN, missing : BOOLEAN]

ASSUME TablesAssumption == \A t \in Tables : IsFiniteSet(t) /\ t \subseteq Row
ASSUME StationsAssumption == IsFiniteSet(FixedStations) /\ FixedStations \subseteq Nat
ASSUME SettingsAssumption ==
    \A s \in Settings : /\ s.UT0 \in Int /\ s.UT1 \in Int
                        /\ "days" \in DOMAIN s => s.days \in Nat

VARIABLES
    table,          \* the rows of this run
    config,         \* the members that configure sets
    stations,       \* the stations known to NeighborsDistance2
    references,     \* mReferenceKeys: key -> station -> day of the year -> value
    pc,
    daily,          \* instrument -> its days with a value, in order
    todo,           \* instruments whose days, or <<instrument, day>> whose value is to be looked at
    day, head, tail,        \* the window over the days of the first instrument: tail .. head - 1
    accumulator,
    means,          \* <<instrument, day>> -> value of the window that ends there
    around,         \* the neighbours still to be looked at
    count,          \* those of them that count
    warned,         \* <<instrument, day>> warned about in this run
    \* history
    interrupted,    \* references were read in a run that was cut short, and have not been forgotten
    aborts          \* counted runs that were cut short

windowVars == <<day, head, tail, accumulator>>
checkVars == <<around, count>>
historyVars == <<interrupted, aborts>>
vars == <<table, config, stations, references, pc, daily, todo, windowVars, means, checkVars, warned, historyVars>>

-----------------------------------------------------------------------------
(* configure, with the defaults of StatisticalMean and of NeighborsDistance2*)

GetParameterOr(settings, key, dflt) == IF key \in DOMAIN settings THEN settings[key] ELSE dflt

\* Also that of the factories, by their default for the days that a value must be made of.
DaysRequired(s, days) == GetParameterOr(s, "days_required", (9 * days + 5) \div 10)
Configured(s) ==
    LET days == GetParameterOr(s, "days", 30)
    IN  [pid |-> s.ParamId, types |-> s.TypeIds, UT0 |-> s.UT0, UT1 |-> s.UT1,
         days |-> days,
         required |-> DaysRequired(s, days),
         tolerance |-> GetParameterOr(s, "tolerance", 10),
         badPercent |-> GetParameterOr(s, "max_bad_rate_per_day", 15),
         limit |-> GetParameterOr(s, "InterpolationDistance", 100)]

UT0extended == config.UT0 - 24 * config.days
d0 == config.UT0 \div 24
d1 == config.UT1 \div 24

\* run(): the factory that applies to the parameter; PR is 178, TA 211, the sums are 106, 108,
\* 109 and 110, and the quartiles 262, 15, 55, 273, 200 and 2070.
MeanAppliesTo(pid) == pid \in {"PR", "TA"}
SumAppliesTo(pid) == pid \in {"RR_1", "RR_6", "RR_12", "RR_24"}
QuartilesAppliesTo(pid) == pid \in {"UU", "NN", "HL", "VV", "QO", "QSI"}
FactoryOf(pid) ==
    IF MeanAppliesTo(pid) THEN "mean"
    ELSE IF SumAppliesTo(pid) THEN "sum"
    ELSE IF QuartilesAppliesTo(pid) THEN "quartiles"
    ELSE "none"
factory == FactoryOf(config.pid)
Keys(f) == IF f = "quartiles" THEN <<"ref_q1", "ref_q2", "ref_q3">> ELSE <<"ref_value">>

-----------------------------------------------------------------------------
(* The values of a day: rows at hours that the parameter is not reported at*)
(* are bad, and a day with too many of them has no value.                  *)

FetchData ==
    {o \in table : /\ o.pid = config.pid /\ o.type \in config.types
                   /\ UT0extended <= o.time /\ o.time <= config.UT1
                   /\ o.ok /\ ~o.missing}
InstrumentOf(o) == [station |-> o.station, type |-> o.type]

HourPattern(pid) ==
    CASE pid = "RR_6" -> {0, 6, 12, 18} [] pid = "RR_12" -> {6, 18} [] pid = "RR_24" -> {6}
      [] OTHER -> 0 .. 23

Sum(rows) ==
    LET sum[n \in 0 .. Len(rows)] == IF n = 0 THEN 0 ELSE sum[n - 1] + rows[n].original
    IN  sum[Len(rows)]
DayValues(rows) ==
    LET good == {o \in rows : o.time % 24 \in HourPattern(config.pid)}
        sum == Sum(SetToSeq(good))
        bad == Cardinality(rows \ good)
        complete == factory = "sum" \/ good # {}
    IN  IF rows = {} \/ 100 * bad >= config.badPercent * Cardinality(rows) \/ ~complete THEN {}
        ELSE {IF factory = "sum" THEN sum ELSE sum \div Cardinality(good)}

StationDailyMeans ==
    LET rows == FetchData
        Days(i) == {o.time \div 24 : o \in {r \in rows : InstrumentOf(r) = i}}
        On(i, d) == DayValues({o \in rows : InstrumentOf(o) = i /\ o.time \div 24 = d})
        Valued(i) == {d \in Days(i) : On(i, d) # {}}
        Series(i) == [n \in 1 .. Cardinality(Valued(i)) |->
                        LET d == Ordered(Valued(i), Earlier)[n]
                        IN  [day |-> d, value |-> CHOOSE v \in On(i, d) : TRUE]]
        all == {i \in {InstrumentOf(o) : o \in rows} : Valued(i) # {}}
    IN  [i \in all |-> Series(i)]

\* lt_Instrument, as all have the same parameter.
Before(i, j) == i.station < j.station \/ (i.station = j.station /\ i.type < j.type)
BeforeOrEarlier(a, b) == Before(a[1], b[1]) \/ (a[1] = b[1] /\ a[2] < b[2])

-----------------------------------------------------------------------------
(* The accumulators.  A value is a sequence: of three for quartiles, of one*)
(* otherwise, of none if there is no value.                                *)

Empty(f) == IF f = "quartiles" THEN <<>> ELSE [sum |-> 0, count |-> 0]
Push(f, a, v) == IF f = "quartiles" THEN Append(a, v) ELSE [sum |-> a.sum + v, count |-> a.count + 1]
\* The values for quartiles are looked for; their order, which value() changes, does not matter.
Pop(f, a, v) == IF f = "quartiles" THEN RemoveFirst(a, v) ELSE [sum |-> a.sum - v, count |-> a.count - 1]
PushAll(f, a, series) ==
    LET pushed[n \in 0 .. Len(series)] == IF n = 0 THEN a ELSE Push(f, pushed[n - 1], series[n].value)
    IN  pushed[Len(series)]
PopAll(f, a, series) ==
    LET popped[n \in 0 .. Len(series)] == IF n = 0 THEN a ELSE Pop(f, popped[n - 1], series[n].value)
    IN  popped[Len(series)]

Median(s) ==
    LET n == Len(s)
    IN  IF n = 0 THEN 0
        ELSE IF n % 2 = 1 THEN s[n \div 2 + 1]
        ELSE (s[n \div 2] + s[n \div 2 + 1]) \div 2
\* Each half without the median itself.
Quartiles(values) ==
    LET s == SortSeq(values, <)
        half == Len(s) \div 2
    IN  <<Median(SubSeq(s, 1, half)), Median(s), Median(SubSeq(s, Len(s) - half + 1, Len(s)))>>

AccumulatedValue(f, a, days, required) ==
    LET n == IF f = "quartiles" THEN Len(a) ELSE a.count
    IN  CASE n <= 0 \/ n < required -> <<>>
          [] f = "quartiles" -> Quartiles(a)
          [] f = "mean" -> <<a.sum \div n>>
          [] OTHER -> <<(a.sum * days) \div n>>

-----------------------------------------------------------------------------
(* The references.                                                         *)

DaysOfYear == FoldLeft(LAMBDA n, m : n + m, 0, MonthDays)
NormalisedDayOfYear(d) ==
    LET date == Calendar[d]
        leap == date.month = 2 /\ date.day = MonthDays[2] + 1
    IN  FoldLeft(LAMBDA n, m : n + m, 0, SubSeq(MonthDays, 1, date.month - 1))
            + (IF leap THEN MonthDays[2] ELSE date.day)

\* findStatisticalReferenceValues: a day that is not in the table is missing.
StatisticalReferenceValues(pid, key) ==
    LET rows == {r \in ReferenceRows : r.pid = pid /\ r.key = key}
        Of(s, d) == {r \in rows : r.station = s /\ r.day_of_year = d}
    IN  [s \in {r.station : r \in rows} |->
            [d \in 1 .. DaysOfYear |-> IF Of(s, d) = {} THEN Missing ELSE (CHOOSE r \in Of(s, d) : TRUE).value]]

\* For TA the reference values of days are made means of mDays days, beginning with those of
\* the last days of the year.
ReferenceMeans(values, days, required) ==
    LET PushDay(a, d) == IF values[d] = Missing THEN a ELSE Push("mean", a, values[d])
        PopDay(a, d) == IF values[d] = Missing THEN a ELSE Pop("mean", a, values[d])
        Leaving(d) == ((DaysOfYear + d - days - 1) % DaysOfYear) + 1
        start == FoldLeft(PushDay, Empty("mean"), [n \in 1 .. days - 1 |-> DaysOfYear - days + n])
        Mean[d \in 1 .. DaysOfYear] ==
            PushDay(IF d = 1 THEN start ELSE PopDay(Mean[d - 1], Leaving(d - 1)), d)
        Value(d) == AccumulatedValue("mean", Mean[d], days, required)
    IN  [d \in 1 .. DaysOfYear |-> IF Value(d) = <<>> THEN Missing ELSE Value(d)[1]]

Loaded(key) ==
    LET values == StatisticalReferenceValues(config.pid, key)
    IN  IF config.pid # "TA" \/ key # "ref_value" THEN values
        ELSE [s \in DOMAIN values |-> ReferenceMeans(values[s], config.days, config.required)]

\* getReferenceValue, once what it needs has been loaded.
Reference(loaded, station, d, key) ==
    IF config.pid = "PR" THEN 1014
    ELSE IF station \in DOMAIN loaded[key] THEN loaded[key][station][NormalisedDayOfYear(d)]
    ELSE Missing
\* The keys that are loaded when values are first compared.
Wanted == IF config.pid = "PR" THEN {} ELSE ToSet(Keys(factory)) \ DOMAIN references
WithKeys(keys) == [k \in DOMAIN references \union keys |-> IF k \in keys THEN Loaded(k) ELSE references[k]]
-----------------------------------------------------------------------------
(* The checkers.                                                           *)

Abs(n) == IF n < 0 THEN -n ELSE n
Diffs(loaded, station, d, value) ==
    [k \in DOMAIN value |->
        LET ref == Reference(loaded, station, d, Keys(factory)[k])
        IN  [valid |-> ref # Missing, diff |-> IF ref = Missing THEN 0 ELSE Abs(value[k] - ref)]]
AnyValid(diffs) == \E k \in DOMAIN diffs : diffs[k].valid
Exceeds(diffs, k) == diffs[k].diff > config.tolerance

\* newCenter: nothing is to be said of this station and day.
CenterFits(diffs) ==
    IF factory = "quartiles" THEN \A k \in DOMAIN diffs : ~AnyValid(diffs) \/ ~Exceeds(diffs, k)
    ELSE \A k \in DOMAIN diffs : ~diffs[k].valid \/ diffs[k].diff < config.tolerance

\* checkNeighbor: the neighbour counts.  A quartile without a reference does not deviate.
Counts(center, diffs) ==
    IF factory = "quartiles"
    THEN AnyValid(diffs) /\ \E k \in DOMAIN diffs :
            Exceeds(center, k) /\ center[k].diff - diffs[k].diff > config.tolerance
    ELSE \A k \in DOMAIN diffs : diffs[k].valid /\ diffs[k].diff < config.tolerance

Pass(n) == n < 3
GoOnLess(n) == n <= 1   \* mutant: stops before the neighbours are enough
GoOn(n) == n <= 3

IsNorwegianStationId(s) == 60 <= s /\ s < 100000

\* findNeighbors of NeighborsDistance2, of the stations it knows.
FindNeighbors(known, s) ==
    IF s \notin known THEN <<>>
    ELSE Ordered({n \in known \ {s} : 0 < Distance[s, n] /\ Distance[s, n] < config.limit}, Earlier)

-----------------------------------------------------------------------------
(* The run.                                                                *)

None == [e \in {} |-> <<>>]

\* What the runs begin and end with: the locals are gone.
Idle ==
    /\ pc' = "idle" /\ daily' = None /\ todo' = <<>> /\ means' = None
    /\ day' = 0 /\ head' = 1 /\ tail' = 1 /\ accumulator' = <<>>
    /\ around' = <<>> /\ count' = 0 /\ warned' = {}

\* configure() of the algorithm and of what it is made of, and the start of run(), which
\* returns at once if no factory applies to the parameter.
Configure(s, t) ==
    /\ pc = "idle"
    /\ config' = Configured(s) /\ table' = t /\ stations' = {}
    /\ pc' = IF FactoryOf(s.ParamId) = "none" THEN "idle" ELSE "read"
    /\ UNCHANGED <<references, daily, todo, windowVars, means, checkVars, warned, historyVars>>

\* fetchData and findStationDailyMeans.
ReadRows ==
    /\ pc = "read"
    /\ daily' = StationDailyMeans
    /\ todo' = Ordered(DOMAIN daily', Before)
    /\ pc' = "station"
    /\ UNCHANGED <<table, config, stations, references, windowVars, means, checkVars, warned, historyVars>>

NewStationKept ==   \* mutant: the accumulator keeps what it has of the instrument before
    /\ pc = "station" /\ todo # <<>>
    /\ head' = 1 /\ tail' = 1 /\ day' = d0
    /\ accumulator' = IF accumulator = <<>> THEN Empty(factory) ELSE accumulator
    /\ pc' = "window"
    /\ UNCHANGED <<table, config, stations, references, daily, todo, means, checkVars, warned, historyVars>>

\* findStationMeansPerDay: the next instrument,
NewStation ==
    /\ pc = "station" /\ todo # <<>>
    /\ head' = 1 /\ tail' = 1 /\ accumulator' = Empty(factory) /\ day' = d0
    /\ pc' = "window"
    /\ UNCHANGED <<table, config, stations, references, daily, todo, means, checkVars, warned, historyVars>>

InRun(d) == d <= d1

\* and its next day: days up to it are pushed, and those before the window popped.
SlideDay ==
    /\ pc = "window" /\ InRun(day)
    /\ LET series == daily[Head(todo)]
           After(d) == Cardinality({n \in DOMAIN series : series[n].day <= d}) + 1
           pushed == PushAll(factory, accumulator, SubSeq(series, head, head' - 1))
           value == AccumulatedValue(factory, accumulator', config.days, config.required)
           enough == head' - tail' >= config.required /\ value # <<>>
       IN  /\ head' = After(day) /\ tail' = After(day - config.days)
           /\ accumulator' = PopAll(factory, pushed, SubSeq(series, tail, tail' - 1))
           /\ means' = [e \in DOMAIN means \union (IF enough THEN {<<Head(todo), day>>} ELSE {}) |->
                            IF e \in DOMAIN means THEN means[e] ELSE value]
    /\ day' = day + 1
    /\ UNCHANGED <<table, config, stations, references, pc, daily, todo, checkVars, warned, historyVars>>

EndStation ==
    /\ pc = "window" /\ ~InRun(day)
    /\ todo' = Tail(todo) /\ pc' = "station"
    /\ UNCHANGED <<table, config, stations, references, daily, windowVars, means, checkVars, warned, historyVars>>

\* checkAllMeanValues: Norwegian stations by instrument and day.
StartChecks ==
    /\ pc = "station" /\ todo = <<>>
    /\ todo' = Ordered({e \in DOMAIN means : IsNorwegianStationId(e[1].station)}, BeforeOrEarlier)
    /\ pc' = "check"
    /\ UNCHANGED <<table, config, stations, references, daily, windowVars, means, checkVars, warned, historyVars>>

Center == Head(todo)
CenterDiffs(loaded) == Diffs(loaded, Center[1].station, Center[2], means[Center])

\* newCenter
NewCenter ==
    /\ pc = "check" /\ todo # <<>>
    /\ references' = WithKeys(Wanted)
    /\ IF CenterFits(CenterDiffs(references')) THEN todo' = Tail(todo) /\ UNCHANGED pc
       ELSE pc' = "find" /\ UNCHANGED todo
    /\ UNCHANGED <<table, config, stations, daily, windowVars, means, checkVars, warned, historyVars>>

\* findNeighbors of StatisticalMean
FindStations ==
    /\ pc = "find"
    /\ stations' = IF stations = {} THEN FixedStations ELSE stations
    /\ around' = FindNeighbors(stations', Center[1].station)
    /\ count' = 0
    /\ pc' = "around"
    /\ UNCHANGED <<table, config, references, daily, todo, windowVars, means, warned, historyVars>>

\* The first instrument of a station; only its value of the day is looked at.
FirstOf(s) == {i \in {e[1] : e \in DOMAIN means} :
                i.station = s /\ \A e \in DOMAIN means : e[1].station = s => ~Before(e[1], i)}
NeighborCounts(loaded, center, n, d) ==
    \E i \in FirstOf(n) : /\ <<i, d>> \in DOMAIN means
                          /\ Counts(center, Diffs(loaded, n, d, means[i, d]))

CheckNeighbor ==
    /\ pc = "around" /\ around # <<>>
    /\ count' = count + (IF NeighborCounts(references, CenterDiffs(references), Head(around), Center[2]) THEN 1 ELSE 0)
    /\ around' = IF GoOn(count') THEN Tail(around) ELSE <<>>
    /\ UNCHANGED <<table, config, stations, references, pc, daily, todo, windowVars, means, warned, historyVars>>

EndNeighbors ==
    /\ pc = "around" /\ around = <<>>
    /\ warned' = IF Pass(count) THEN warned ELSE warned \union {Center}
    /\ todo' = Tail(todo) /\ pc' = "check"
    /\ UNCHANGED <<table, config, stations, references, daily, windowVars, means, checkVars, historyVars>>

EndRunKept ==   \* mutant: mReferenceKeys.clear() is missing
    /\ pc = "check" /\ todo = <<>>
    /\ interrupted' = FALSE
    /\ Idle
    /\ UNCHANGED <<table, config, stations, references, aborts>>

EndRun ==
    /\ pc = "check" /\ todo = <<>>
    /\ references' = None /\ interrupted' = FALSE
    /\ Idle
    /\ UNCHANGED <<table, config, stations, aborts>>

\* A query fails: for the rows, for one of the keys, or for the stations.  The references that
\* have been loaded stay.
Abort ==
    /\ aborts < MaxAborts
    /\ \/ pc = "read" /\ UNCHANGED references
       \/ /\ pc = "check" /\ todo # <<>> /\ Wanted # {}
          /\ \E n \in 0 .. Len(Keys(factory)) - 1 :
                references' = WithKeys(Wanted \intersect ToSet(SubSeq(Keys(factory), 1, n)))
       \/ pc = "find" /\ stations = {} /\ UNCHANGED references
    /\ interrupted' = (DOMAIN references' # {})
    /\ Idle
    /\ aborts' = aborts + 1
    /\ UNCHANGED <<table, config, stations>>

Init ==
    /\ table = {} /\ config \in {Configured(s) : s \in Settings} /\ stations = {} /\ references = None
    /\ pc = "idle" /\ daily = None /\ todo = <<>> /\ means = None
    /\ day = 0 /\ head = 1 /\ tail = 1 /\ accumulator = <<>>
    /\ around = <<>> /\ count = 0 /\ warned = {}
    /\ interrupted = FALSE /\ aborts = 0

Run ==
    \/ ReadRows
    \/ NewStation
    \/ SlideDay
    \/ EndStation
    \/ StartChecks
    \/ NewCenter
    \/ FindStations
    \/ CheckNeighbor
    \/ EndNeighbors
    \/ EndRun

Next ==
    \/ \E s \in Settings, t \in Tables : Configure(s, t)
    \/ Run
    \/ Abort

Spec == Init /\ [][Next]_vars

-----------------------------------------------------------------------------
(* Properties.                                                             *)

\* The value of an instrument at a day is that of the days of its last mDays days, whatever the
\* window has been over before (StatisticalMean.cc:177-189): nothing is pushed or popped twice,
\* nothing of another instrument or before the first whole day is left in it.
Window(i, d) ==
    LET places == Ordered({n \in DOMAIN daily[i] : d - config.days < daily[i][n].day /\ daily[i][n].day <= d}, Earlier)
    IN  [k \in DOMAIN places |-> daily[i][places[k]]]
WindowValue(i, d) ==
    AccumulatedValue(factory, PushAll(factory, Empty(factory), Window(i, d)), config.days, config.required)
MeansAreWindows ==
    pc = "check" =>
        LET valued == {e \in (DOMAIN daily) \X (d0 .. d1) :
                        Len(Window(e[1], e[2])) >= config.required /\ WindowValue(e[1], e[2]) # <<>>}
        IN  means = [e \in valued |-> WindowValue(e[1], e[2])]

\* References that are in use belong to the parameter and the days of this run, unless a run
\* that was cut short has left its own behind (StatisticalMean.cc:283: they are forgotten only
\* at the end of a run, and have no other mark than their key).
OwnReferences ==
    pc # "idle" /\ ~interrupted => \A k \in DOMAIN references : references[k] = Loaded(k)

\* A run warns about those Norwegian stations and days that deviate from their references while
\* at least three neighbours that are close enough do not, and about no others: what has been
\* read before, in which order, and where the loop over neighbours stops makes no difference
\* (StatisticalMean.cc:227-256, CheckerMeanOrSum.cc:33-64, CheckerQuartiles.cc:67-97).
Around(s) == {n \in FixedStations \ {s} : 0 < Distance[s, n] /\ Distance[s, n] < config.limit}
OwnKeys == [k \in (IF config.pid = "PR" THEN {} ELSE ToSet(Keys(factory))) |-> Loaded(k)]
Suspicious ==
    {e \in DOMAIN means :
        LET diffs == Diffs(OwnKeys, e[1].station, e[2], means[e])
        IN  /\ IsNorwegianStationId(e[1].station) /\ e[1].station \in FixedStations
            /\ ~CenterFits(diffs)
            /\ Cardinality({n \in Around(e[1].station) : NeighborCounts(OwnKeys, diffs, n, e[2])}) >= 3}
WarnedAboutSuspicious ==
    pc = "check" /\ todo = <<>> /\ ~interrupted => warned = Suspicious
=============================================================================
