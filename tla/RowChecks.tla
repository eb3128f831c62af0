------------------------------ MODULE RowChecks -----------------------------
(***************************************************************************)
(* The algorithms that look at a row and what is next to it: DipTest,      *)
(* SingleLinear and AggregatorLimits, as AlgorithmDispatcher runs them.    *)
(* Of the three that have modules of their own it is modelled here what a  *)
(* configuration makes of their objects, and that they run.                *)
(*                                                                         *)
(* The objects of the algorithms live as long as the daemon; a run begins  *)
(* with configure(), which changes the members of such an object one after *)
(* the other and may throw in between.  Then rows are read (in DipTest and *)
(* SingleLinear all candidates of a parameter at once), and each is held   *)
(* against its surroundings, which are read when its turn comes.  What is  *)
(* made of that is written in a transaction of its own, from what was read,*)
(* whatever the rows are by then; AggregatorLimits writes all it has found *)
(* together.                                                               *)
(*                                                                         *)
(* One station, one type for observations and one for aggregated values.   *)
(* Times are minutes, values tenths.  A value knows what it was made from: *)
(* that is a history variable.  cfailed is left out (no condition of these *)
(* algorithms uses it), and so are the messages.                            *)
(***************************************************************************)
EXTENDS Integers, FiniteSets, Sequences, Configs

CONSTANTS
    Files,                  \* name of a configuration file -> its lines
    Now,                    \* the full hour in which the runs take place
    Starts,                 \* tables to begin with and the files in the directory with each
    Late,                   \* <<key, row>> that may arrive later
    HqcKeys,                \* rows that an operator may correct
    CurveValues, MinimumOf, \* what AkimaSpline may yield, and the least value of a parameter
    MaxOutside,             \* bound: changes from outside and failed runs
    MaxInfos                \* bound: parameters in the list of GapInterpolation

ASSUME FilesAssumption == \A f \in DOMAIN Files : IsFiniteSet(DOMAIN Files[f])
ASSUME FlagsAssumption ==
    /\ {"fs", "fmis", "ftime", "fhqc", "fr"} \subseteq ControlFlags
    /\ UseFlags = {"U0", "U2"} /\ 0 .. 15 \subseteq FlagValue
ASSUME BoundsAssumption == Now \in Int /\ MaxOutside \in Nat

Missing == -327670
Rejected == -327660

\* A key of the table: parameter, sensor and level as one, aggregated or not, time.
Key == [pid : {"TA", "RR"}, sensor : {0, 1}, aggregated : BOOLEAN, time : Nat]
\* A row.  corrected: by whom, the value, and the keys it is made from.
Corrected(by, value, from) == [by |-> by, value |-> value, from |-> from]
IsRow(r) ==
    /\ DOMAIN r = {"original", "corrected", "control", "use"} /\ r.original \in Int
    /\ r.control \in [ControlFlags -> FlagValue] /\ r.use \in [UseFlags -> FlagValue]

ASSUME OutsideAssumption ==
    /\ \A s \in Starts : /\ s[1] = [k \in DOMAIN s[1] |-> s[1][k]]
                         /\ DOMAIN s[1] \subseteq Key /\ \A k \in DOMAIN s[1] : IsRow(s[1][k])
                         /\ s[2] # {} /\ s[2] \subseteq DOMAIN Files
    /\ \A l \in Late : l[1] \in Key /\ IsRow(l[2])

VARIABLES
    table,          \* key -> row, where there is one
    files,          \* the files in the directory
    objects,        \* algorithm -> the members of its object
    pc,             \* where the run is
    file,           \* the file that the run belongs to
    pids,           \* the parameters whose turn is still to come
    list,           \* the rows read for one of them whose turn is not over: <<key, row>>
    work,           \* the row whose turn it is, and what has been read and is to be written for it
    \* history
    meanwhile,      \* keys of rows that have come or were corrected since the rows were read
    calm,           \* nothing came from outside since the start of this run
    settled,        \* files that were run to the end as they say, undisturbed, and nothing
                    \* has changed since
    outside         \* counted events

runVars == <<pc, file, pids, list, work>>
historyVars == <<meanwhile, calm, settled, outside>>
vars == <<table, files, objects, runVars, historyVars>>

Elsewhere == {"GapInterpolation", "Redistribute", "Plumatic"}
Algorithms == {"DipTest", "SingleLinear", "AggregatorLimits"} \union Elsewhere

Parsed == [f \in DOMAIN Files |-> Load(Files[f])]
Items(f) == Parsed[f]
AlgorithmNames == [f \in DOMAIN Files |-> Converted(Items(f), "Algorithm", "NotSet").value]
AlgorithmOf(f) == AlgorithmNames[f]
algorithm == AlgorithmOf(file)
object == objects[algorithm]

-----------------------------------------------------------------------------
(* configure: what each algorithm asks for, in the order in which it does. *)

Text(terms) == [form |-> "names", terms |-> terms, tail |-> FALSE]
Is(flag, values) == [flag |-> flag, how |-> "in", values |-> values]
IsNot(flag, values) == [flag |-> flag, how |-> "not", values |-> values]
To(terms) == [form |-> "names", terms |-> terms, tail |-> ""]
Set(flag, value) == [flag |-> flag, value |-> value]
Change(when, then) == [pattern |-> Text(when), update |-> To(then)]

FlagSet(member, name, dfltC, dfltU) ==
    [kind |-> "flags", member |-> member, name |-> name, control |-> dfltC, use |-> dfltU]
FlagChange(member, name, dflt) == [kind |-> "change", member |-> member, name |-> name, dflt |-> dflt]
Simple(kind, member, name) == [kind |-> kind, member |-> member, name |-> name]
Default(member, name, dflt) == [kind |-> "default", member |-> member, name |-> name, dflt |-> dflt]

NeverText == [form |-> "none", terms |-> <<>>, tail |-> FALSE]
NotCorrected == Is("fhqc", {0, 4})
Discarded == <<Change(<<NotCorrected>>, <<Set("fs", 8), Set("fmis", 2)>>)>>
Neighbors ==
    <<Default("mInterpolationLimit", "InterpolationDistance", 100),
      Default("mWarnClosest", "warning_distance_closest_neighbor", 50)>>

DipTestCalls ==
    <<Simple("window", "window", "Start"),
      Simple("delta", "PidValMap", "ParValFilename"),
      FlagSet("akima_flags", "akima", <<>>, <<Text(<<Is("U2", {0})>>)>>),
      FlagSet("candidate_flags", "candidate", <<Text(<<Is("fs", {2}), Is("fhqc", {0})>>)>>, <<>>),
      FlagSet("dip_before_flags", "dip_before", <<Text(<<Is("fs", {1})>>)>>, <<>>),
      FlagSet("dip_after_flags", "dip_after", <<Text(<<Is("fs", {2}), Is("fhqc", {0})>>)>>, <<>>),
      FlagSet("message_before_flags", "message_before", <<Text(<<IsNot("fs", {0, 1, 2, 9})>>)>>, <<>>),
      FlagSet("message_after_flags", "message_after",
              <<Text(<<IsNot("fs", {0, 1})>>), Text(<<IsNot("fhqc", {0})>>)>>, <<>>),
      FlagChange("dip_flagchange", "dip_flagchange", <<Change(<<>>, <<Set("fs", 9)>>)>>),
      FlagChange("afterdip_flagchange", "afterdip_flagchange", <<Change(<<>>, <<Set("fs", 4)>>)>>)>>

SingleLinearCalls ==
    <<Simple("window", "window", "Start"),
      FlagSet("missing_flags", "missing",
              <<Text(<<Is("ftime", {0}), Is("fmis", {1, 2, 3, 4}), Is("fhqc", {0})>>),
                Text(<<Is("ftime", {1}), Is("fmis", {1, 4}), Is("fhqc", {0})>>)>>, <<>>),
      FlagSet("neighbor_flags", "neighbor", <<Text(<<Is("fmis", {0})>>)>>,
              <<Text(<<Is("U0", {3, 7}), Is("U2", {0})>>)>>),
      FlagChange("ftime0_flagchange", "ftime0_flagchange",
                 <<Change(<<>>, <<Set("ftime", 1)>>), Change(<<Is("fmis", {3})>>, <<Set("fmis", 1)>>),
                   Change(<<Is("fmis", {2})>>, <<Set("fmis", 4)>>)>>),
      FlagChange("ftime1_flagchange", "ftime1_flagchange",
                 <<Change(<<Is("fmis", {1})>>, <<Set("fmis", 3)>>),
                   Change(<<Is("fmis", {4})>>, <<Set("fmis", 2)>>)>>),
      Simple("multi", "pids", "ParamId")>>

AggregatorLimitsCalls ==
    <<FlagSet("mFlags", "aggregation", <<Text(<<IsNot("fr", {6}), Is("fmis", {0, 1, 4})>>)>>, <<>>),
      FlagChange("mFlagChangeMin", "aggregation_flagchange_min", <<Change(<<>>, <<Set("fr", 6)>>)>>),
      FlagChange("mFlagChangeMax", "aggregation_flagchange_max", <<Change(<<>>, <<Set("fr", 6)>>)>>),
      Simple("limits", "mLimits", "param_limits"),
      Simple("window", "window", "Start")>>

GapInterpolationCalls ==
    <<Simple("window", "window", "Start"),
      Simple("multi", "tids", "TypeId"),
      Default("mRAThreshold", "RA_threshold", 500),
      FlagSet("missing_flags", "missing",
              <<Text(<<Is("ftime", {0}), Is("fmis", {1, 2, 3}), Is("fhqc", {0})>>)>>, <<>>),
      FlagSet("mNeighborFlags", "neighbors", <<>>, <<Text(<<Is("U2", {0})>>)>>),
      FlagSet("mDataFlagsUUTA", "data_UU_TA",
              <<Text(<<Is("ftime", {0, 1, 2}), Is("fmis", {0, 2, 4})>>)>>, <<>>),
      FlagChange("missing_flagchange_good", "missing_flagchange_good", <<Change(<<>>, <<Set("ftime", 1)>>)>>),
      FlagChange("missing_flagchange_bad", "missing_flagchange_bad", <<Change(<<>>, <<Set("ftime", 2)>>)>>),
      FlagChange("missing_flagchange_failed", "missing_flagchange_failed", <<Change(<<>>, <<Set("ftime", 3)>>)>>),
      FlagChange("missing_flagchange_common", "missing_flagchange_common",
                 <<Change(<<Is("fmis", {3})>>, <<Set("fmis", 1)>>),
                   Change(<<Is("fmis", {0, 2})>>, <<Set("fmis", 4)>>)>>),
      Simple("infos", "mParameterInfos", "Parameter")>>

RedistributeCalls ==
    <<Simple("window", "window", "Start"),
      FlagSet("endpoint_flags", "endpoint", <<Text(<<Is("fmis", {0, 4}), Is("fd", {2, 6, 7})>>)>>, <<>>),
      FlagSet("missingpoint_flags", "missingpoint",
              <<Text(<<Is("fmis", {3}), Is("fd", {2})>>), Text(<<Is("fmis", {1}), Is("fd", {6, 7})>>)>>, <<>>),
      FlagSet("neighbor_flags", "neighbor", <<Text(<<Is("fd", {1})>>)>>, <<Text(<<Is("U2", {0})>>)>>),
      FlagSet("warn_and_stop_flags", "warn_and_stop", <<NeverText>>, <<>>),
      FlagChange("update_flagchange", "update_flagchange",
                 <<Change(<<>>, <<Set("fd", 7)>>), Change(<<Is("fmis", {3})>>, <<Set("fmis", 1)>>)>>),
      FlagChange("endpoint_flagchange", "endpoint_flagchange",
                 <<Change(<<>>, <<Set("fd", 7)>>), Change(<<Is("fmis", {3})>>, <<Set("fmis", 1)>>)>>),
      Default("mMinNeighbors", "min_neighbors", 1),
      Default("mMaxNeighbors", "max_neighbors", 5),
      Default("mDaysBeforeNoNeighborWarning", "days_before_no_neighbor_warning", 14),
      Default("mDaysBeforeRedistributingZeroesWarning", "days_before_redistributing_zeroes_warning", 14),
      Simple("multi", "pids", "ParamId"),
      Simple("multi", "tids", "TypeIds"),
      Default("mMeasurementHour", "measurement_hour", 6)>> \o Neighbors

PlumaticCalls ==
    <<Simple("window", "window", "Start"),
      Simple("one", "pid", "ParamId"),
      Simple("types", "mTypeIds", "TypeId"),
      Default("mThresholdDry", "threshold_dry", 5),
      Default("mThresholdWet", "threshold_wet", 30),
      FlagSet("discarded_flags", "discarded",
              <<Text(<<Is("fr", {9}), IsNot("fhqc", {1})>>), Text(<<Is("fs", {8}), IsNot("fhqc", {1})>>),
                Text(<<Is("fmis", {2}), IsNot("fhqc", {1})>>), Text(<<Is("fhqc", {10})>>)>>, <<>>),
      FlagSet("neighbor_flags", "neighbor", <<>>, <<Text(<<Is("U2", {0})>>)>>),
      FlagChange("highstart_flagchange", "highstart_flagchange", Discarded),
      FlagChange("highsingle_flagchange", "highsingle_flagchange", Discarded),
      FlagChange("interruptedrain_flagchange", "interruptedrain_flagchange", Discarded),
      FlagChange("fc_no_neighbors", "no_neighbors_flagchange", <<Change(<<NotCorrected>>, <<Set("fw", 0)>>)>>),
      FlagChange("fc_neighbors_ok", "neighbors_ok_flagchange", <<Change(<<NotCorrected>>, <<Set("fw", 1)>>)>>),
      FlagChange("fc_neighbors_suspicious", "neighbors_suspicious_flagchange",
                 <<Change(<<NotCorrected>>, <<Set("fw", 3)>>)>>),
      Default("mVippsUnlikelySingle", "vipps_unlikely_single", 3),
      Default("mVippsUnlikelyStart", "vipps_unlikely_start", 3),
      Default("mVippsRainInterrupt", "vipps_rain_interrupt", 3),
      Default("mMaxRainInterrupt", "rain_interrupt_max", 4),
      Default("mMinRainBeforeAndAfter", "rain_interrupt_before_after", 2)>>
    \o Neighbors \o
    <<Simple("stations", "mStationlist", "stations"),
      Simple("alarms", "mSlidingAlarms", "sliding_alarms"),
      Simple("extended", "UT0extended", "Start")>>

AllCalls ==
    [DipTest |-> DipTestCalls,
     SingleLinear |-> SingleLinearCalls,
     AggregatorLimits |-> AggregatorLimitsCalls,
     GapInterpolation |-> GapInterpolationCalls,
     Redistribute |-> RedistributeCalls,
     Plumatic |-> PlumaticCalls]
Calls(a) == AllCalls[a]

\* What files can say: a number for a time, texts for patterns and changes, and lists.
DateKeys(prefix) == {prefix \o "_DD", prefix \o "_hh", prefix \o "_mm"}
TimeKeys == DateKeys("Start") \union DateKeys("End") \union {"Last_NDays"}
CallsOf(kind) == {c \in UNION {ToSet(Calls(a)) : a \in Algorithms} : c.kind = kind}
FlagKeys == UNION {{c.name \o "_cflags", c.name \o "_uflags"} : c \in CallsOf("flags")}
ChangeKeys == {c.name : c \in CallsOf("change")}
ListKeys == {c.name : c \in CallsOf("limits") \union CallsOf("stations") \union CallsOf("alarms")}
DeltaKeys == {c.name : c \in CallsOf("delta")}
ASSUME TextAssumption ==
    \A f \in DOMAIN Files : \A key \in DOMAIN Items(f) : \A n \in DOMAIN Items(f)[key] :
        LET is == Items(f)[key][n].is
        IN  /\ key \in TimeKeys => is \in Int
            /\ key \in FlagKeys => FlagTexts(is)
            /\ key \in ChangeKeys => ChangeTexts(is)
            /\ key \in ListKeys => List(is)
            /\ key \in DeltaKeys /\ is.form # "NotSet" /\ ~is.error => List(is.deltas)

\* What the object of an algorithm is before its first run.
Empty(kind) ==
    CASE kind = "flags" -> NoFlagSet
      [] kind = "window" -> <<0, 0>>
      [] kind \in {"one", "default", "extended"} -> 0
      [] OTHER -> <<>>
Fresh(a) ==
    LET calls == ToSet(Calls(a))
    IN  [m \in {c.member : c \in calls} |-> Empty((CHOOSE c \in calls : c.member = m).kind)]

\* fillParameterDeltaMap: a list in the setting itself, which leaves nothing if it has an error;
\* a file; or NotSet, which leaves the map of the run before.  The map is in the order of
\* parameters.  run() takes the deltas as whole numbers.
DeltaMap(map, items, key) ==
    LET par == GetParameter(items, key)
    IN  IF ~par.ok \/ par.value.form = "NotSet" THEN [ok |-> par.ok, value |-> map]
        ELSE [ok |-> TRUE, value |-> IF par.value.error THEN <<>> ELSE par.value.deltas]

\* Lists in one setting: pairs of a parameter and its maximum (param_limits), stations for each
\* resolution (stations), lengths and sums (sliding_alarms, in the order of lengths).  The list
\* is emptied first; what is there before an element with an error stays.
ElementOk(kind, l, i) ==
    CASE kind = "limits" -> l[i].max > 0
      [] kind = "stations" -> l[i].mmpv > 0 /\ \A id \in l[i].stationids : id > 0
      [] kind = "alarms" -> l[i].length > (IF i = 1 THEN 1 ELSE l[i - 1].length) /\ l[i].max > 0
Listed(kind, items, key) ==
    LET par == GetParameter(items, key)
        end == FirstFailed([i \in DOMAIN par.value |-> ElementOk(kind, par.value, i)])
    IN  IF ~par.ok THEN [ok |-> FALSE, value |-> <<>>]
        ELSE [ok |-> end > Len(par.value), value |-> SubSeq(par.value, 1, end - 1)]

\* The parameters of GapInterpolation are put behind those that are there, until one has an
\* unknown key.
PushInfos(infos, items, key) ==
    LET par == GetMultiParameter(items, key)
        end == FirstFailed([i \in DOMAIN par.value |-> par.value[i].known])
    IN  IF ~par.ok THEN [ok |-> FALSE, value |-> infos]
        ELSE [ok |-> end > Len(par.value), value |-> infos \o SubSeq(par.value, 1, end - 1)]

\* TypeId of Plumatic, with a default.
TypeIds(items, key) ==
    LET par == GetMultiParameter(items, key)
    IN  [par EXCEPT !.value = IF @ = <<>> THEN <<4, 504>> ELSE @]

\* The rows that Plumatic reads begin before the window, by the longest time it looks back.
Lookback(o) ==
    Max({o.mMaxRainInterrupt + o.mMinRainBeforeAndAfter}
            \union {o.mSlidingAlarms[i].length : i \in DOMAIN o.mSlidingAlarms})

Called(o, items, c) ==
    CASE c.kind = "flags" -> GetFlagSetCU(o[c.member], items, c.name, c.control, c.use)
      [] c.kind = "change" -> GetFlagChange(items, c.name, c.dflt)
      [] c.kind = "multi" -> GetMultiParameter(items, c.name)
      [] c.kind = "delta" -> DeltaMap(o[c.member], items, c.name)
      [] c.kind = "one" -> GetParameter(items, c.name)
      [] c.kind = "default" -> GetParameterOr(items, c.name, c.dflt)
      [] c.kind = "types" -> TypeIds(items, c.name)
      [] c.kind = "infos" -> PushInfos(o[c.member], items, c.name)
      [] c.kind \in {"limits", "stations", "alarms"} -> Listed(c.kind, items, c.name)
      [] c.kind = "extended" -> [ok |-> TRUE, value |-> o.window[1] - Lookback(o)]
      [] c.kind = "window" -> [ok |-> TRUE, value |-> Window(items, Now)]

\* A call that throws may have changed its member; those behind it are not reached.  What is
\* assigned is assigned only if it could be read.
Assigned == {"multi", "one", "default", "types"}
Got(o, c, got) ==
    [ok |-> got.ok,
     object |-> IF got.ok \/ c.kind \notin Assigned THEN [o EXCEPT ![c.member] = got.value] ELSE o]
Turn(s, items, c) == IF s.ok THEN Got(s.object, c, Called(s.object, items, c)) ELSE s
Configure(o, items, a) ==
    LET upTo[n \in 0 .. Len(Calls(a))] ==
            IF n = 0 THEN [ok |-> TRUE, object |-> o] ELSE Turn(upTo[n - 1], items, Calls(a)[n])
    IN  upTo[Len(Calls(a))]

\* Files that can be parsed and name an algorithm; nothing happens for others.
Runnable == {f \in DOMAIN Files : ~ParseFails(Files[f]) /\ AlgorithmOf(f) \in Algorithms}

\* What a file makes of a new object.
AllAsNew == [f \in Runnable |-> Configure(Fresh(AlgorithmOf(f)), Items(f), AlgorithmOf(f)).object]
AsNew(f) == AllAsNew[f]

\* The settings that configure() asks for.
Requests(a) ==
    UNION {IF c.kind = "flags" THEN {c.name \o "_cflags", c.name \o "_uflags"}
           ELSE IF c.kind \in {"window", "extended"} THEN {} ELSE {c.name} : c \in ToSet(Calls(a))}

Requested(f) == ParseReads(Items(f)) \union Requests(AlgorithmOf(f))

-----------------------------------------------------------------------------
(* Reading and writing rows.                                               *)

ut0 == object.window[1]
ut1 == object.window[2]

\* findData and findDataAggregations
Between(pid, aggregated, t0, t1) ==
    {k \in DOMAIN table : k.pid = pid /\ k.aggregated = aggregated /\ t0 <= k.time /\ k.time <= t1}
RowAt(k) == [key |-> k, row |-> table[k]]
Rows(keys) == {RowAt(k) : k \in keys}
FindDataAll(pid, aggregated, s) == Rows(Between(pid, aggregated, ut0, ut1))   \* mutant: no flags
FindData(pid, aggregated, s) ==
    LET sql == SetSql(s)
    IN  Rows({k \in Between(pid, aggregated, ut0, ut1) : SqlSelects(sql, table[k])})

\* In the order of times, and of sensors.
Earlier(j, k) == j.time < k.time \/ (j.time = k.time /\ j.sensor < k.sensor)
InOrder(keys) ==
    [n \in 1 .. Cardinality(keys) |-> CHOOSE k \in keys : Cardinality({j \in keys : Earlier(j, k)}) = n - 1]

\* The rows of one series.
SeriesOf(key, t0, t1) ==
    InOrder({k \in Between(key.pid, key.aggregated, t0, t1) : k.sensor = key.sensor})
\* And without a look at sensor and level.
AllSeriesOf(key, t0, t1) == InOrder(Between(key.pid, key.aggregated, t0, t1))

\* setUseFlags of kvalobs, as far as these flags go: U2 tells errors.
UseInfo(control) ==
    [U0 |-> 7, U2 |-> IF control.fs = 9 \/ control.fmis \in {2, 3} THEN 3
                      ELSE IF control.fmis \in {1, 4} \/ control.fr = 6 THEN 1 ELSE 0]

WithControl(row, control) == [row EXCEPT !.control = control, !.use = UseInfo(control)]
Changed(row, change) == WithControl(row, Apply(change, row.control))

\* An UPDATE sets all columns but the original value, of a row that is there.
Stored(updates) ==
    [k \in DOMAIN table |->
        IF \E u \in updates : u.key = k
        THEN [(CHOOSE u \in updates : u.key = k).row EXCEPT !.original = table[k].original] ELSE table[k]]

\* round1: half a tenth goes away from zero.
AverageUp(a, b) == (a + b + 1) \div 2   \* mutant: and up for values below zero
Average(a, b) == IF a + b < 0 THEN -((1 - a - b) \div 2) ELSE (a + b + 1) \div 2

-----------------------------------------------------------------------------
(* AlgorithmDispatcher::select                                             *)

Nothing == [stage |-> "none"]
Idle(o) == /\ pc' = "idle" /\ pids' = <<>> /\ list' = {} /\ work' = Nothing
           /\ objects' = [objects EXCEPT ![algorithm] = o]

PidsToRun(a, o) ==
    CASE a = "DipTest" -> [i \in DOMAIN o.PidValMap |-> o.PidValMap[i].pid]
      [] a = "SingleLinear" -> o.pids
      [] a = "AggregatorLimits" -> <<"all">>
      [] a \in Elsewhere -> <<>>
Configured(a, o, runs) ==
    /\ objects' = [objects EXCEPT ![a] = o]
    /\ pc' = IF runs THEN "run" ELSE "idle"
    /\ pids' = IF runs THEN PidsToRun(a, o) ELSE <<>>
Select(f) ==
    /\ pc = "idle" /\ f \in files /\ f \in Runnable
    /\ Len(objects.GapInterpolation.mParameterInfos) <= MaxInfos \/ AlgorithmOf(f) # "GapInterpolation"
    /\ file' = f
    /\ \E configured \in {Configure(objects[AlgorithmOf(f)], Items(f), AlgorithmOf(f))} :
           Configured(AlgorithmOf(f), configured.object,
                      configured.ok /\ Unrequested(Items(f), Requested(f)) = {})
    /\ list' = {}
    /\ calm' = TRUE
    /\ UNCHANGED <<table, files, work, meanwhile, settled, outside>>

\* run: one parameter after the other, or all of them in one statement.
FlagsToRead ==
    CASE algorithm = "DipTest" -> object.candidate_flags
      [] algorithm = "SingleLinear" -> object.missing_flags
      [] algorithm = "AggregatorLimits" -> object.mFlags
Limited == {object.mLimits[i].pid : i \in DOMAIN object.mLimits}
ReadRows ==
    /\ pc = "run" /\ pids # <<>> /\ ~SetRefused(FlagsToRead)
    /\ list' = CASE algorithm = "DipTest" ->
                        {e \in FindData(Head(pids), FALSE, FlagsToRead) : e.row.original > Missing}
                 [] algorithm = "SingleLinear" -> FindData(Head(pids), FALSE, FlagsToRead)
                 [] algorithm = "AggregatorLimits" -> UNION {FindData(p, TRUE, FlagsToRead) : p \in Limited}
    /\ pids' = Tail(pids)
    /\ pc' = "rows"
    /\ meanwhile' = {}
    /\ UNCHANGED <<table, files, objects, file, work, calm, settled, outside>>

\* The database refuses the condition: a DBException ends the run.
ReadRefused ==
    /\ pc = "run" /\ pids # <<>> /\ SetRefused(FlagsToRead)
    /\ Idle(object)
    /\ settled' = {}
    /\ UNCHANGED <<table, files, file, meanwhile, calm, outside>>

\* The rows are looked at in the order of time, one after the other.
Due(e) == pc = "rows" /\ work = Nothing /\ e \in list /\ \A other \in list : e.key.time <= other.key.time
NothingToDo(e) == list' = list \ {e} /\ work' = work
Planned(plan) == list' = list /\ work' = plan

Write(updates) ==
    /\ table' = Stored(updates)
    /\ settled' = IF updates = {} THEN settled ELSE {}
    /\ UNCHANGED <<meanwhile, calm, outside>>

\* storeData, updateSingle: what was read and worked out, in one transaction.
ToWrite(e, updates) == [stage |-> "write", e |-> e, updates |-> updates]
StoreChanges ==
    /\ work.stage = "write"
    /\ Write(work.updates)
    /\ list' = list \ {work.e} /\ work' = Nothing
    /\ UNCHANGED <<files, objects, pc, file, pids>>

EndRows ==
    /\ pc = "rows" /\ list = {}
    /\ pc' = "run"
    /\ UNCHANGED <<table, files, objects, file, pids, list, work, historyVars>>

EndRun ==
    /\ pc = "run" /\ pids = <<>>
    /\ pc' = "idle"
    /\ settled' = IF calm /\ algorithm \notin Elsewhere /\ object = AsNew(file)
                  THEN settled \union {file} ELSE settled \ {file}
    /\ UNCHANGED <<table, files, objects, file, pids, list, work, meanwhile, calm, outside>>

-----------------------------------------------------------------------------
(* DipTest: a candidate that differs much from the row before it, from     *)
(* which the row after it differs little.                                  *)

Difference(a, b) == IF a.original > b.original THEN a.original - b.original ELSE b.original - a.original

\* The delta is read as a float and passed on as an int.
DeltaOf(pid) == 10 * ((CHOOSE d \in ToSet(object.PidValMap) : d.pid = pid).delta \div 10)

\* The rows before and after a candidate that may be a dip; none if there is something wrong.
DipSeries(e) ==
    IF e.key.time - 60 < ut0 \/ e.key.time + 60 > ut1 THEN <<>>
    ELSE SeriesOf(e.key, e.key.time - 60, e.key.time + 60)
Surroundings(e) ==
    LET series == DipSeries(e)
    IN  {<<series[i - 1], series[i + 1]>> : i \in {j \in 2 .. Len(series) - 1 : series[j] = e.key}}

IsDip(e, before, after) ==
    /\ e.key.time - before.time = after.time - e.key.time
    /\ SetMatches(object.dip_before_flags, table[before])
    /\ SetMatches(object.dip_after_flags, table[after])
    /\ table[before].original > Missing /\ table[after].original > Missing
    /\ Difference(table[after], table[before]) < Difference(e.row, table[before])
    /\ Difference(table[after], table[before]) < DeltaOf(e.key.pid)

\* tryAkima: the curve needs six full hours, the candidate being the fourth.
AkimaPoints(e) == AllSeriesOf(e.key, e.key.time - 180, e.key.time + 120)
AkimaSupport(e) ==
    LET s == AkimaPoints(e)
    IN  /\ Len(s) = 6
        /\ \A i \in DOMAIN s \ {4} :
               /\ table[s[i]].original > Missing
               /\ s[i].time = e.key.time + 60 * (i - 4)
               /\ SetMatches(object.akima_flags, table[s[i]]) \/ i \in {3, 5}
\* before and after are rows as they were read for the linear correction.
DipValue(e, before, after, curve) ==
    IF /\ e.key.time - before.key.time = 60 /\ AkimaSupport(e)
       /\ e.key.pid \in DOMAIN MinimumOf /\ curve >= MinimumOf[e.key.pid]
    THEN Corrected("akima", curve, {AkimaPoints(e)[i] : i \in 1 .. 6} \ {AkimaPoints(e)[4]})
    ELSE Corrected("linear", Average(before.row.original, after.row.original), {before.key, after.key})

DipsAround(e) == {around \in Surroundings(e) : IsDip(e, around[1], around[2])}

\* checkDipAndInterpolate: the rows around a candidate are read,
CompareRows(e) ==
    /\ algorithm = "DipTest" /\ Due(e)
    /\ \/ DipsAround(e) = {} /\ NothingToDo(e)
       \/ \E around \in DipsAround(e) :
              Planned([stage |-> "dip", e |-> e, before |-> RowAt(around[1]), after |-> RowAt(around[2])])
    /\ UNCHANGED <<table, files, objects, pc, file, pids, historyVars>>

\* then those for the curve (writeChanges makes rows of what is known by then),
Dip(e, before, after, curve) ==
    Changed([e.row EXCEPT !.corrected = DipValue(e, before, after, curve)], object.dip_flagchange)
DipUpdatesAlone(e, before, after, curve) ==   \* mutant: the row behind is not marked
    {[key |-> e.key, row |-> Dip(e, before, after, curve)]}
DipUpdates(e, before, after, curve) ==
    {[key |-> e.key, row |-> Dip(e, before, after, curve)],
     [key |-> after.key, row |-> Changed(after.row, object.afterdip_flagchange)]}
TryAkima(curve) ==
    /\ work.stage = "dip"
    /\ Planned(ToWrite(work.e, DipUpdates(work.e, work.before, work.after, curve)))
    /\ UNCHANGED <<table, files, objects, pc, file, pids, historyVars>>

-----------------------------------------------------------------------------
(* SingleLinear: a missing row between two good ones.                      *)

IsNeighborOk(row) ==
    SetMatches(object.neighbor_flags, row) /\ row.original # Missing /\ row.original # Rejected

\* calculateCorrected; before and after are the first and the last of the three rows.
Mean(before, after) ==
    Corrected("linear", Average(table[before].original, table[after].original), {before, after})
CalculatedAgain(row, before, after) ==   \* mutant: the flags of the other branch
    IF IsNeighborOk(table[before]) /\ IsNeighborOk(table[after])
    THEN Changed([row EXCEPT !.corrected = Mean(before, after)],
                 IF row.control.ftime = 0 THEN object.ftime0_flagchange ELSE object.ftime1_flagchange)
    ELSE row
CalculatedKept(row, before, after) ==    \* mutant: what was put in is never taken back
    IF IsNeighborOk(table[before]) /\ IsNeighborOk(table[after])
    THEN Changed([row EXCEPT !.corrected = Mean(before, after)],
                 IF row.control.ftime = 0 THEN object.ftime0_flagchange ELSE <<>>)
    ELSE row
Calculated(row, before, after) ==
    IF IsNeighborOk(table[before]) /\ IsNeighborOk(table[after])
    THEN IF row.control.ftime = 0
         THEN Changed([row EXCEPT !.corrected = Mean(before, after)], object.ftime0_flagchange)
         ELSE IF row.control.ftime = 1 THEN [row EXCEPT !.corrected = Mean(before, after)] ELSE row
    ELSE IF row.control.ftime = 1
         THEN Changed([row EXCEPT !.corrected =
                          CASE row.control.fmis \in {1, 3} -> Corrected("missing", Missing, {})
                            [] row.control.fmis \in {2, 4} -> Corrected("rejected", Rejected, {})
                            [] OTHER -> Mean(before, after)],
                      object.ftime1_flagchange)
         ELSE row

\* DataUpdate::needsWrite
NeedsWrite(old, new) == new.corrected.value # old.corrected.value \/ new.control # old.control

FillUpdates(e) ==
    LET series == SeriesOf(e.key, e.key.time - 60, e.key.time + 60)
        new == Calculated(e.row, series[1], series[3])
    IN  IF Len(series) # 3 \/ ~NeedsWrite(e.row, new) THEN {} ELSE {[key |-> e.key, row |-> new]}

\* The rows around a missing one are read.
CompareNeighbours(e) ==
    /\ algorithm = "SingleLinear" /\ Due(e)
    /\ \/ FillUpdates(e) = {} /\ NothingToDo(e)
       \/ FillUpdates(e) # {} /\ Planned(ToWrite(e, FillUpdates(e)))
    /\ UNCHANGED <<table, files, objects, pc, file, pids, historyVars>>

-----------------------------------------------------------------------------
(* AggregatorLimits                                                        *)

\* LimitValues::find: on the first day of the year the interval that begins there is the one
\* added last, on every other day the last in the list is, which was added first.
DayOfYear(t) == t \div 1440 + 1
MaximumFor(key) ==
    LET own == {i \in DOMAIN object.mLimits : object.mLimits[i].pid = key.pid}
        last == CHOOSE i \in own : \A j \in own : j <= i
        first == CHOOSE i \in own : \A j \in own : i <= j
    IN  object.mLimits[IF DayOfYear(key.time) = 1 THEN last ELSE first].max
LowLimit == -10     \* -1: the lower limit that param_limits implies

LimitUpdatesMax(rows) ==   \* mutant: the minimum is forgotten
    {[key |-> e.key, row |-> Changed(e.row, object.mFlagChangeMax)] :
        e \in {r \in rows : r.row.corrected.value > MaximumFor(r.key)}}
LimitUpdates(rows) ==
    {[key |-> e.key,
      row |-> Changed(e.row, IF e.row.corrected.value < LowLimit THEN object.mFlagChangeMin ELSE object.mFlagChangeMax)] :
        e \in {r \in rows : /\ r.row.corrected.value > -327650
                            /\ r.row.corrected.value < LowLimit \/ r.row.corrected.value > MaximumFor(r.key)}}

CheckLimits ==
    /\ algorithm = "AggregatorLimits" /\ pc = "rows" /\ list # {}
    /\ Write(LimitUpdates(list))
    /\ list' = {}
    /\ UNCHANGED <<files, objects, pc, file, pids, work>>

-----------------------------------------------------------------------------
(* What comes from outside.                                                *)

FromOutside ==
    /\ outside < MaxOutside
    /\ outside' = outside + 1
    /\ calm' = FALSE /\ settled' = {}

\* A row arrives, or the controls of the rows around it are repeated with it.
Observe(k, row) ==
    /\ FromOutside
    /\ k \notin DOMAIN table
    /\ table' = [j \in DOMAIN table \union {k} |-> IF j = k THEN row ELSE table[j]]
    /\ meanwhile' = meanwhile \union {k}
    /\ UNCHANGED <<files, objects, runVars>>

\* An operator corrects a row.
Hqc(k) ==
    /\ FromOutside
    /\ k \in DOMAIN table /\ table[k].control.fhqc = 0
    /\ table' = [table EXCEPT ![k] =
                    WithControl([@ EXCEPT !.corrected = Corrected("operator", 0, {})], [@.control EXCEPT !.fhqc = 7])]
    /\ meanwhile' = meanwhile \union {k}
    /\ UNCHANGED <<files, objects, runVars>>

\* A DBException from a query or an update ends the run.
Abort ==
    /\ FromOutside
    /\ pc # "idle"
    /\ Idle(object)
    /\ UNCHANGED <<table, files, file, meanwhile>>

-----------------------------------------------------------------------------
Init ==
    /\ \E s \in Starts : table = s[1] /\ files = s[2]
    /\ objects = [a \in Algorithms |-> Fresh(a)]
    /\ pc = "idle" /\ file = (CHOOSE f \in files : TRUE) /\ pids = <<>> /\ list = {} /\ work = Nothing
    /\ meanwhile = {} /\ calm = FALSE /\ settled = {} /\ outside = 0

Next ==
    \/ \E f \in files : Select(f)
    \/ ReadRows \/ ReadRefused
    \/ \E e \in list : CompareRows(e) \/ CompareNeighbours(e)
    \/ \E curve \in CurveValues : TryAkima(curve)
    \/ StoreChanges
    \/ CheckLimits
    \/ EndRows \/ EndRun
    \/ \E l \in Late : Observe(l[1], l[2])
    \/ \E k \in HqcKeys : Hqc(k)
    \/ Abort

Spec == Init /\ [][Next]_vars

-----------------------------------------------------------------------------
(* Properties.                                                             *)

FlagSetMembers(a) == {c.member : c \in {d \in ToSet(Calls(a)) : d.kind = "flags"}}
FlagChangeMembers(a) == {c.member : c \in {d \in ToSet(Calls(a)) : d.kind = "change"}}

\* A row of the table, as it was once or is to be.
RowRead(e) == e.key \in DOMAIN table /\ IsRow(e.row)

\* Types of the variables.
TypeOK ==
    /\ DOMAIN table \subseteq Key /\ \A k \in DOMAIN table : IsRow(table[k])
    /\ \A a \in Algorithms : /\ DOMAIN objects[a] = DOMAIN Fresh(a)
                             /\ objects[a].window \in Int \X Int
                             /\ \A m \in FlagSetMembers(a) : objects[a][m] \in FlagSetCU
                             /\ \A m \in FlagChangeMembers(a) : IsFlagChange(objects[a][m])
    /\ pc \in {"idle", "run", "rows"} /\ files \subseteq DOMAIN Files /\ file \in files
    /\ \A e \in list : RowRead(e)
    /\ work = Nothing \/ (pc = "rows" /\ work.e \in list /\ work.stage \in {"dip", "write"})
    /\ work.stage = "dip" => RowRead(work.before) /\ RowRead(work.after)
    /\ work.stage = "write" => \A u \in work.updates : RowRead(u)
    /\ meanwhile \subseteq DOMAIN table
    /\ calm \in BOOLEAN /\ settled \subseteq files /\ outside \in 0 .. MaxOutside

\* Rows are selected by the text of a flag set (FlagPattern::sql, FlagSetCU::sql) and held
\* against flag sets in memory (matches): whatever configurations an object has seen, the two
\* agree about every row there is, where the database accepts the text.
SqlAgrees ==
    \A a \in Algorithms : \A m \in FlagSetMembers(a) :
        LET s == objects[a][m]
            sql == SetSql(s)
        IN  SqlRefused(sql) \/ \A k \in DOMAIN table : SqlSelects(sql, table[k]) <=> SetMatches(s, table[k])

\* A file or the defaults determine this half of a flag set.
SetsHalf(f, c, half, other, dflt) ==
    Has(Items(f), c.name \o half) \/ (~Has(Items(f), c.name \o other) /\ dflt # <<>>)
LikeNew(f, c, now, fresh) ==
    CASE c.kind = "flags" -> /\ SetsHalf(f, c, "_cflags", "_uflags", c.control) => now.control = fresh.control
                             /\ SetsHalf(f, c, "_uflags", "_cflags", c.use) => now.use = fresh.use
      [] c.kind = "delta" -> GetParameter(Items(f), c.name).value.form # "NotSet" => now = fresh
      [] c.kind = "infos" -> IsSuffix(fresh, now)
      [] OTHER -> now = fresh

\* An object that goes into a run has the members that a new object would have been given by
\* the same file: nothing of an earlier file, or of a configure() that threw half way, is left.
\* It holds of all that configure() sets, which is not all there is: getFlagSetCU leaves
\* one half of a flag set as it was if that half is not in the file and its default is not
\* used, a file that says NotSet keeps the deltas, and the parameters of GapInterpolation are
\* put behind those of all files before (GapInterpolationAlgorithm.cc:131).
NothingLeftOver ==
    pc # "idle" => \A c \in ToSet(Calls(algorithm)) : LikeNew(file, c, object[c.member], AsNew(file)[c.member])

\* DipTest corrects a dip together with the row behind it, and only a row whose neighbours in
\* time, of its own sensor, were both known and equally far away: no run leaves one without
\* the other, and a linear correction comes from those two.  The rows are read before and
\* nothing is looked at again: a row may have come in between since then, and an operator may
\* have corrected the row behind, but no other way leads to one of these.
ByDip(k) == table'[k].control.fs = 9 /\ table[k].control.fs # 9
SameSeries(k, j) == k.sensor = j.sensor /\ k.pid = j.pid /\ k.aggregated = j.aggregated
Within(i, j) == {o \in DOMAIN table : SameSeries(i, o) /\ i.time < o.time /\ o.time < j.time}
DipsInPairs ==
    [][algorithm = "DipTest" =>
        \A k \in DOMAIN table : ByDip(k) =>
            \E j, i \in DOMAIN table :
                /\ SameSeries(k, i) /\ SameSeries(k, j)
                /\ i.time < k.time /\ k.time - i.time = j.time - k.time
                /\ Within(i, j) \subseteq {k} \union meanwhile
                /\ table[i].control.fs # 9 /\ table'[j].control.fs = 4
                /\ table[j].control.fhqc = 0 \/ j \in meanwhile
                /\ table'[k].corrected.by = "linear" => table'[k].corrected.from = {i, j}]_vars

\* A value that an operator has put in (fhqc is not 0) stays, unless it was put in after the
\* rows were read for which the run is about to write: an algorithm writes whole rows, as it
\* has read them, and does not look at them again.
HqcKept ==
    [][\A k \in DOMAIN table :
        table[k].control.fhqc # 0 /\ k \notin meanwhile => table'[k].corrected = table[k].corrected]_vars

\* A file that has been run to its end, undisturbed, finds nothing to change when it is run
\* again, whatever other files are run between, as long as those change nothing and the object
\* is in both runs what the file says.
RerunQuiet ==
    [][pc # "idle" /\ calm' /\ object = AsNew(file) /\ file \in settled => table' = table]_vars

\* A tenth that is the mean of two, half a tenth going away from zero.
IsMean(v, a, b) ==
    \/ a + b >= 0 /\ 2 * v \in {a + b, a + b + 1}
    \/ a + b <= 0 /\ 2 * v \in {a + b, a + b - 1}

MeansHoldFor(o) ==
    LET Good(k) == SetMatches(o.neighbor_flags, table[k]) /\ table[k].original \notin {Missing, Rejected}
        Filled(k) == /\ k.pid \in ToSet(o.pids) /\ ~k.aggregated
                     /\ o.window[1] <= k.time /\ k.time <= o.window[2]
                     /\ table[k].control.ftime = 1 /\ table[k].control.fmis \in {1, 4}
                     /\ table[k].control.fhqc = 0
        Around(k) == {j \in DOMAIN table : /\ j.pid = k.pid /\ j.sensor = k.sensor /\ ~j.aggregated
                                           /\ j.time - k.time \in -60 .. 60 /\ j # k}
    IN  \A k \in DOMAIN table : Filled(k) =>
            \A i, j \in Around(k) :
                i.time < k.time /\ k.time < j.time /\ Around(k) = {i, j} =>
                    /\ Good(i) /\ Good(j)
                    /\ IsMean(table[k].corrected.value, table[i].original, table[j].original)

\* After an undisturbed run of SingleLinear no value it has put in stands between neighbours
\* that are not good: each row of the window with ftime=1 and fmis 1 or 4 whose hour before and
\* hour after are the only rows around it has their mean, and they are good.
MeansHold ==
    \A f \in settled : AlgorithmOf(f) = "SingleLinear" => MeansHoldFor(AsNew(f))

LimitsMarkedFor(o) ==
    LET Maxima(pid) == {l.max : l \in {m \in ToSet(o.mLimits) : m.pid = pid}}
    IN  \A k \in DOMAIN table :
            /\ k.aggregated /\ Maxima(k.pid) # {} /\ o.window[1] <= k.time /\ k.time <= o.window[2]
            /\ SetMatches(o.mFlags, table[k]) /\ table[k].corrected.value > -327650
            => /\ ~(table[k].corrected.value < LowLimit)
               /\ \E max \in Maxima(k.pid) : ~(table[k].corrected.value > max)

\* After an undisturbed run of AggregatorLimits every aggregated value that exceeds all the
\* maxima given for its parameter, or is below the least value, is marked, if its flags allow
\* it; with one maximum for a parameter nothing else can be asked.
LimitsMarked ==
    \A f \in settled : AlgorithmOf(f) = "AggregatorLimits" => LimitsMarkedFor(AsNew(f))

\* debian/changelog:98, version 1.5.10, says of DipTest that it does not mix sensors and levels.
\* The series for the linear correction is read with sensor and level, that for the Akima
\* spline without: the curve may go through values of another sensor.
SensorsNotMixed ==
    \A k \in DOMAIN table : \A j \in table[k].corrected.from : j.sensor = k.sensor
=============================================================================
