-------------------------------- MODULE Gap --------------------------------
(***************************************************************************)
(* GapInterpolationAlgorithm: hours of a series without a value are filled *)
(* in from the minima and maxima, from the neighbour stations, or with a   *)
(* curve through the hours around; afterwards missing minima and maxima are*)
(* reconstructed.  A value carries a quality, and a row is only changed for*)
(* a better one.                                                           *)
(*                                                                         *)
(* One station and one type.  A group is a parameter with its minimum and  *)
(* maximum.  "TA" (temperature) comes first, because "UU" (humidity) is    *)
(* interpolated as a dew point, which is computed with the temperature; one*)
(* that is not known is taken as 0 degrees.  Time is in hours.  Instead of *)
(* numbers a value says what it was computed from: `by' names the method,  *)
(* `from' the hours whose values went into it, and `zeroed' those among    *)
(* them whose temperature was taken as 0.  "RA" is what has fallen into a   *)
(* bucket, which is emptied now and then.  Left out: humidities of 0 or 100*)
(* and, but for the temperature of a humidity, values outside the limits of*)
(* a parameter.                                                            *)
(***************************************************************************)
EXTENDS Integers, FiniteSets, FiniteSetsExt

CONSTANTS
    LastHour,           \* the table holds hours 0 .. LastHour
    Groups, HasMinMax,  \* "TA" and others; those with minimum and maximum
    Bounded,            \* those with a configured minVal: a missing value lies outside
    Emptied,            \* hours whose RA lies far (mRAThreshold) below that of the hour before
    Frost,              \* hours whose temperature lies outside the limits of "UU"
    Starts, Span,       \* UT0 of the runs, and the length of their window
    MergeHours,         \* missing hours that far apart belong to one range
    ExtraData,          \* hours read before and after a range
    EdgeHours,          \* ranges that near to the ends of the window are skipped
    LongGap,            \* hours of a gap that only its ends are interpolated in
    AkimaPoints,        \* points that a curve needs
    Tables, Nearby,     \* what the table and the neighbours may hold at first
    OtherTypes,         \* <<group, kind, hour>> with a good observation of another type
    Late, HqcHours, LateNearby, \* what may come from outside
    MaxOutside          \* bound: changes from outside and failed runs

Hours == 0 .. LastHour
Kinds == {"par", "min", "max"}
Cells == Groups \X Kinds \X Hours

\* Interpolation::Quality.  OBSERVATION and GOOD are values to keep, MISSING_ROW is NO_ROW.
OBSERVATION == 0
GOOD == 1
BAD == 2
FAILED == 3
MISSING == 4
UNUSABLE == 5
DISCARDED == 6
NO_ROW == 7

\* A row: what useinfo(2) says of the original, three flags, and the corrected value.
Methods == {"none", "observed", "hqc", "other", "minmax", "neighbours", "akima", "around"}
Values == [by : Methods, from : SUBSET (Kinds \X Hours), zeroed : SUBSET Hours]
Row == [level : {"ok", "bad", "unchecked"}, ftime : 0 .. 3, fmis : 0 .. 4, fhqc : Nat, corrected : Values]
NoRow == [level |-> "none"]

ASSUME TimeAssumption ==
    /\ {LastHour, Span, MergeHours, ExtraData, EdgeHours, LongGap} \subseteq Nat
    /\ AkimaPoints \in Nat \ {0} /\ MaxOutside \in Nat
    /\ Starts \subseteq Hours /\ Starts # {} /\ \A start \in Starts : start + Span <= LastHour
ASSUME GroupAssumption ==
    /\ "TA" \in Groups /\ Frost \subseteq Hours /\ Emptied \subseteq Hours /\ HasMinMax \subseteq Groups /\ Bounded \subseteq Groups
    /\ OtherTypes \subseteq Cells /\ Late \subseteq Cells /\ HqcHours \subseteq Cells
    /\ LateNearby \subseteq Groups \X Hours

\* A group without minimum and maximum has no rows of them; what is ok is not missing; and what
\* has not been interpolated was computed from nothing.
HasRows(c) == c[2] = "par" \/ c[1] \in HasMinMax
ASSUME TablesAssumption ==
    /\ \A t \in Tables : /\ t \in [Cells -> Row \union {NoRow}]
                         /\ \A c \in Cells : t[c] # NoRow =>
                                /\ HasRows(c)
                                /\ t[c].level = "ok" => t[c].fmis \notin 1 .. 3
                                /\ t[c].ftime = 0 => t[c].corrected.zeroed = {}
    /\ \A c \in Late : HasRows(c)

VARIABLES
    table,      \* Cells -> rows, or NoRow
    near,       \* the hours for which the neighbours give a value within the limits
    pc, ut0,    \* where the run is, and UT0 of the run
    ranges,     \* the missing ranges that are left
    series,     \* the series of the range at hand
    \* history
    found,      \* the cells this run began with
    calm,       \* nothing came from outside since the start of this run
    outside     \* counted events

tableVars == <<table, near>>
runVars == <<pc, ut0, ranges, series>>
historyVars == <<found, calm, outside>>
vars == <<tableVars, runVars, historyVars>>

ut1 == ut0 + Span

Value(by, from) == [by |-> by, from |-> from, zeroed |-> {}]
None == Value("none", {})

-----------------------------------------------------------------------------
(* Finding what is missing.                                                *)

MissingFlags(r) == r # NoRow /\ r.ftime = 0 /\ r.fmis \in 1 .. 3 /\ r.fhqc = 0

Missing(start) == {c \in Cells : c[3] >= start /\ c[3] <= start + Span /\ MissingFlags(table[c])}

\* Hours in which something of a group is missing (getMasterInstrument) that are not far from
\* each other are one range.
TryExtend(s, t) == s < t /\ t <= s + MergeHours
RangesOf(g, cells) ==
    LET missing == {c[3] : c \in {d \in cells : d[1] = g}}
        firsts == {t \in missing : ~\E s \in missing : TryExtend(s, t)}
        End(f) == Max({t \in missing : t >= f /\ \A h \in missing : h > f /\ h <= t => h \notin firsts})
    IN  {[group |-> g, t0 |-> f, t1 |-> End(f)] : f \in firsts}

FindMissing(cells) == UNION {RangesOf(g, cells) : g \in Groups}

\* run: temperatures first, each group in the order of time; the others do not depend on each
\* other, and their order is left open.
PrecedesOthersFirst(a, b) ==   \* mutant
    (a.group # "TA" /\ b.group = "TA") \/ (a.group = b.group /\ a.t0 < b.t0)
Precedes(a, b) == (a.group = "TA" /\ b.group # "TA") \/ (a.group = b.group /\ a.t0 < b.t0)
Foremost(rs) == {r \in rs : \A q \in rs : ~Precedes(q, r)}

\* checkTimeRangeLimits
WithinLimits(r) == r.t0 >= ut0 + EdgeHours /\ r.t1 <= ut1 - EdgeHours
Window(r) == Max({r.t0 - ExtraData, ut0}) .. Min({r.t1 + ExtraData, ut1})

-----------------------------------------------------------------------------
(* Reading a series: findSeriesData.                                       *)

RowQuality(r) ==
    CASE r = NoRow                              -> NO_ROW
      [] r # NoRow /\ r.level = "ok"            -> OBSERVATION
      [] r # NoRow /\ r.level # "ok" /\ r.ftime > 0 -> r.ftime    \* GOOD, BAD, FAILED
      [] r # NoRow /\ r.level # "ok" /\ r.ftime = 0 /\ r.fmis \in 1 .. 3 -> MISSING
      [] r # NoRow /\ r.level = "unchecked" /\ r.ftime = 0 /\ r.fmis \notin 1 .. 3 -> UNUSABLE
      [] OTHER                                  -> NO_ROW
\* A value that is missing lies outside the limits of a parameter that has them.
Quality(g, r) ==
    LET q == RowQuality(r)
    IN  IF q \in GOOD .. FAILED /\ g \in Bounded /\ r.corrected = None THEN UNUSABLE ELSE q

\* GapUpdate
Entry(g, r) ==
    LET q == Quality(g, r)
    IN  [row |-> r, isNew |-> q = NO_ROW, q |-> q, usable |-> q = OBSERVATION, updated |-> FALSE,
         value |-> CASE q = OBSERVATION -> Value("observed", {})
                     [] q \in GOOD .. FAILED -> r.corrected
                     [] OTHER -> None]

\* A temperature outside the limits of the humidity is not taken either.
TAKnown(t) == RowQuality(table[<<"TA", "par", t>>]) < FAILED /\ t \notin Frost

FindSeriesData(r) ==
    [group |-> r.group, hours |-> Window(r),
     known |-> IF r.group = "UU" THEN {t \in Window(r) : TAKnown(t)} ELSE Window(r),
     data |-> [c \in Kinds \X Window(r) |->
                IF c[1] # "par" /\ r.group \notin HasMinMax THEN Entry(r.group, NoRow)
                ELSE Entry(r.group, table[<<r.group, c[1], c[2]>>])]]
NoSeries == [group |-> "none"]

SeenQuality(s, k, t) == s.data[<<k, t>>].q
Usable(s, k, t) == s.data[<<k, t>>].usable
NeedsInterpolation(s, k, t) == SeenQuality(s, k, t) \in {BAD, FAILED, DISCARDED, MISSING}
Points(s, k) == {t \in s.hours : Usable(s, k, t)}

SeriesHasMissingRows(s) == \E t \in s.hours : SeenQuality(s, "par", t) = NO_ROW
\* The bucket was emptied somewhere between the first and the last value that can be used.
HasRADownStep(s) ==
    /\ s.group = "RA"
    /\ \E a, b \in Points(s, "par") : \E t \in Emptied : a < t /\ t <= b

-----------------------------------------------------------------------------
(* Changing the series.                                                    *)

\* GapUpdate::update: only for the better.
UpdateAlways(e, q, v) == [e EXCEPT !.q = q, !.value = v, !.updated = TRUE, !.usable = q < FAILED]  \* mutant
Update(e, q, v) ==
    IF (e.q = NO_ROW /\ q >= FAILED) \/ q >= e.q THEN e
    ELSE [e EXCEPT !.q = q, !.value = v, !.updated = TRUE, !.usable = q < FAILED]

\* Several cells are given a quality and a value.  asValue and toValue: a humidity is
\* computed with the temperatures of its own hour and of those it comes from.
Set(s, news) ==
    LET Zeroed(t, v) == IF v = None THEN v ELSE [v EXCEPT !.zeroed = ({t} \union {p[2] : p \in v.from}) \ s.known]
    IN  [s EXCEPT !.data = [c \in DOMAIN s.data |->
            IF c \in DOMAIN news THEN Update(s.data[c], news[c].q, Zeroed(c[2], news[c].value)) ELSE s.data[c]]]
Fail(cells) == [c \in cells |-> [q |-> FAILED, value |-> None]]

\* Minimum and maximum of an hour are doubtful if those of the hour before are not known.
Discard(e) ==
    IF e.isNew \/ e.q \in {MISSING, NO_ROW} THEN e
    ELSE [e EXCEPT !.q = DISCARDED, !.updated = TRUE, !.usable = FALSE]
DiscardUnreliableMinMax(s) ==
    LET Reliable(t) == SeenQuality(s, "min", t) < FAILED /\ SeenQuality(s, "max", t) < FAILED
        Doubtful(t) == t # Min(s.hours) /\ ~Reliable(t - 1)
    IN  [s EXCEPT !.data = [c \in DOMAIN s.data |->
            IF c[1] # "par" /\ Doubtful(c[2]) THEN Discard(s.data[c]) ELSE s.data[c]]]

\* A good observation of another type.
ReplaceFromOtherTypeid(s) ==
    [s EXCEPT !.data = [c \in DOMAIN s.data |->
        IF /\ NeedsInterpolation(s, c[1], c[2])
           /\ <<s.group, c[1], c[2]>> \in OtherTypes
        THEN Update(s.data[c], GOOD, Value("other", {}))
        ELSE s.data[c]]]

\* A value lies between the minimum and the maximum around it.
InterpolateFromMinMax(s) ==
    LET last == Max(s.hours)
        Around(k, t) == {<<k, h>> : h \in {t, t + 1} \cap Points(s, k)}
        Needs(t) == NeedsInterpolation(s, "par", t)
        between == {t \in s.hours \ {last} : Needs(t) /\ Around("min", t) # {} /\ Around("max", t) # {}}
        filled == Set(s, [c \in {"par"} \X between |->
                            [q |-> BAD, value |-> Value("minmax", Around("min", c[2]) \union Around("max", c[2]))]])
    IN  IF Needs(last) THEN Set(filled, Fail({<<"par", last>>})) ELSE filled

\* A curve through points; it needs enough of them, on both sides and one of them close.
Before(points, t) == {p \in points : p < t}
Behind(points, t) == {p \in points : p > t}
CanUseAkima(points, t) ==
    /\ Cardinality(points) >= AkimaPoints
    /\ Before(points, t) # {} /\ Behind(points, t) # {}
    /\ t - 1 \in points \/ t + 1 \in points
Nearest(points, t) ==
    LET below == Before(points, t)
        above == points \ below
    IN  {p \in points : IF p < t THEN Cardinality(Behind(below, p)) < 3 ELSE Cardinality(Before(above, p)) < 3}

\* interpolateSimple: the hours that the neighbours give a value for.
SimpleInterpolations(s) == near[s.group]

\* interpolateGaps: the hours between two usable ones that are not usable themselves.
GapHoursAll(s) ==   \* mutant: what is usable, but not good, is computed again
    {t \in s.hours : /\ Before(Points(s, "par"), t) # {} /\ Behind(Points(s, "par"), t) # {}
                     /\ NeedsInterpolation(s, "par", t)}
GapHours(s) ==
    {t \in s.hours \ Points(s, "par") : /\ Before(Points(s, "par"), t) # {} /\ Behind(Points(s, "par"), t) # {}
                                         /\ NeedsInterpolation(s, "par", t)}

\* interpolateSinglePoint, for a gap between two usable hours.
InterpolateFromNeighbors(s) ==
    LET points == Points(s, "par")
        BeforeGap(t) == Max(Before(points, t))
        AfterGap(t) == Min(Behind(points, t))
        AtStartOrEnd(t) == t = BeforeGap(t) + 1 \/ t = AfterGap(t) - 1
        Long(t) == AfterGap(t) - BeforeGap(t) - 1 > LongGap
        Method(t) ==
            CASE Long(t) /\ AtStartOrEnd(t) /\ CanUseAkima(points, t) -> "akima"
              [] ~Long(t) /\ t \in SimpleInterpolations(s) -> "neighbours"
              [] ~Long(t) /\ t \notin SimpleInterpolations(s) /\ CanUseAkima(points, t) -> "akima"
              [] OTHER -> "none"
        NewQuality(t) ==
            CASE Method(t) = "none" -> FAILED
              [] Method(t) # "none" /\ AtStartOrEnd(t) /\ ~Long(t) -> GOOD
              [] OTHER -> BAD
        From(t) ==
            CASE Method(t) = "none" -> {}
              [] Method(t) = "neighbours" -> {BeforeGap(t), AfterGap(t)}
              [] OTHER -> Nearest(points, t)
    IN  Set(s, [c \in {"par"} \X GapHours(s) |->
                [q |-> NewQuality(c[2]), value |-> Value(Method(c[2]), {"par"} \X From(c[2]))]])

\* Minimum and maximum of an hour follow from the values before and after it, all the
\* minima, or maxima, and, by the condition in the code, the hours without a value.
ReconstructNone(s) == s   \* mutant
ReconstructMinMax(s) ==
    LET points == {t \in s.hours : SeenQuality(s, "par", t) < FAILED}
        Possible(t) ==
            /\ {t - 1, t} \subseteq points /\ Behind(points, t) # {}
            /\ Cardinality(points) >= AkimaPoints
        Spread(k) == {t \in s.hours \ points : ~NeedsInterpolation(s, k, t)}
        Own(k, t) == IF s.data[<<k, t>>].q = DISCARDED THEN {t} ELSE {}
        From(k, t) == ({"par"} \X Nearest(points, t))
                        \union ({k} \X ((Spread(k) \ {t}) \union Own(k, t)))
                        \union (IF CanUseAkima(Points(s, k), t) THEN {k} \X Nearest(Points(s, k), t) ELSE {})
        needed == {c \in DOMAIN s.data : c[1] # "par" /\ NeedsInterpolation(s, c[1], c[2])}
        possible == {c \in needed : Possible(c[2])}
        rebuilt == Set(s, [c \in possible |-> [q |-> BAD, value |-> Value("around", From(c[1], c[2]))]])
    IN  Set(rebuilt, Fail(needed \ possible))

Interpolated(s) ==
    ReconstructMinMax(InterpolateFromNeighbors(InterpolateFromMinMax(
        ReplaceFromOtherTypeid(DiscardUnreliableMinMax(s)))))

\* makeUpdates.  What is given a value counts as bad from now on.
NewRow(e) ==
    CASE e.q = FAILED -> [e.row EXCEPT !.ftime = 3]
      [] OTHER -> [e.row EXCEPT !.ftime = e.q, !.corrected = e.value, !.level = "bad",
                                !.fmis = CASE @ = 3 -> 1 [] @ \in {0, 2} -> 4 [] OTHER -> @]
Updates(s) ==
    LET changed == {c \in DOMAIN s.data : /\ s.data[c].updated /\ ~s.data[c].isNew
                                          /\ s.data[c].q \in GOOD .. FAILED}
    IN  {c \in changed : NewRow(s.data[c]) # s.data[c].row}

-----------------------------------------------------------------------------
(* A run.                                                                  *)

Init ==
    /\ table \in Tables /\ near \in Nearby
    /\ pc = "idle" /\ ut0 = Min(Starts)
    /\ ranges = {} /\ series = NoSeries
    /\ found = {} /\ calm = FALSE /\ outside = 0

StartRun(start) ==
    /\ pc = "idle"
    /\ ut0' = start /\ found' = Missing(start)
    /\ ranges' = FindMissing(found')
    /\ pc' = "ranges"
    /\ calm' = TRUE
    /\ UNCHANGED <<tableVars, series, outside>>

\* A range at the start or the end of the window is left for another run.
SkipRange ==
    /\ pc = "ranges"
    /\ \E r \in Foremost(ranges) : ~WithinLimits(r) /\ ranges' = ranges \ {r}
    /\ UNCHANGED <<tableVars, pc, ut0, series, historyVars>>

ReadSeries ==
    /\ pc = "ranges"
    /\ \E r \in Foremost(ranges) :
        WithinLimits(r) /\ series' = FindSeriesData(r) /\ ranges' = ranges \ {r}
    /\ pc' = "series"
    /\ UNCHANGED <<tableVars, ut0, historyVars>>

SkipSeries ==
    /\ pc = "series" /\ (SeriesHasMissingRows(series) \/ HasRADownStep(series))
    /\ pc' = "ranges" /\ series' = NoSeries
    /\ UNCHANGED <<tableVars, ut0, ranges, historyVars>>

Interpolate ==
    /\ pc = "series" /\ ~SeriesHasMissingRows(series) /\ ~HasRADownStep(series)
    /\ LET s == Interpolated(series)
           updates == Updates(s)
       IN  table' = [c \in Cells |->
                        IF c[1] = s.group /\ <<c[2], c[3]>> \in updates
                        THEN NewRow(s.data[<<c[2], c[3]>>]) ELSE table[c]]
    /\ pc' = "ranges" /\ series' = NoSeries
    /\ UNCHANGED <<near, ut0, ranges, historyVars>>

EndRun ==
    /\ pc = "ranges" /\ ranges = {}
    /\ pc' = "idle"
    /\ UNCHANGED <<tableVars, ut0, ranges, series, historyVars>>

-----------------------------------------------------------------------------
(* What comes from outside.                                                *)

FromOutside ==
    /\ outside < MaxOutside
    /\ outside' = outside + 1
    /\ calm' = FALSE
    /\ UNCHANGED found

Observed == [level |-> "ok", ftime |-> 0, fmis |-> 0, fhqc |-> 0, corrected |-> Value("observed", {})]
Missed == [level |-> "bad", ftime |-> 0, fmis |-> 3, fhqc |-> 0, corrected |-> None]
Rejected == [Missed EXCEPT !.fmis = 2]
Unchecked == [Observed EXCEPT !.level = "unchecked"]

\* An observation arrives late.
Observe(c) ==
    /\ FromOutside
    /\ table[c] = NoRow \/ table[c].fmis \in {1, 3}
    /\ table' = [table EXCEPT ![c] = Observed]
    /\ UNCHANGED <<near, runVars>>

\* An operator gives a row a value of his own.
HqcRow(r) ==
    LET missing == r.fmis \in {1, 3}
    IN  [r EXCEPT !.level = "bad", !.corrected = Value("hqc", {}),
                  !.fmis = IF missing THEN 1 ELSE 4, !.fhqc = IF missing THEN 5 ELSE 7]
Hqc(c) ==
    /\ FromOutside
    /\ table[c] # NoRow
    /\ table' = [table EXCEPT ![c] = HqcRow(@)]
    /\ UNCHANGED <<near, runVars>>

NeighboursReport(g, t) ==
    /\ FromOutside
    /\ near' = [near EXCEPT ![g] = @ \union {t}]
    /\ UNCHANGED <<table, runVars>>

\* The database fails or the daemon is killed.
Abort ==
    /\ FromOutside
    /\ pc # "idle"
    /\ pc' = "idle" /\ ranges' = {} /\ series' = NoSeries
    /\ UNCHANGED <<tableVars, ut0>>

Step == SkipRange \/ ReadSeries \/ SkipSeries \/ Interpolate \/ EndRun

Outside ==
    \/ \E c \in Late : Observe(c)
    \/ \E c \in HqcHours : Hqc(c)
    \/ \E p \in LateNearby : NeighboursReport(p[1], p[2])
    \/ Abort

Next == (\E start \in Starts : StartRun(start)) \/ Step \/ Outside

Spec == Init /\ [][Next]_vars

-----------------------------------------------------------------------------
(* Properties.                                                             *)

\* The row of a cell as the run at hand has read it.
Read(c) == c[1] = series.group /\ c[3] \in series.hours /\ series.data[<<c[2], c[3]>>].row = table[c]

EndOfCalmRun == pc = "ranges" /\ ranges = {} /\ calm

\* What a run that nothing disturbed leaves for another time: hours at the ends of the
\* window or next to a row that is not there, a bucket that was emptied, and hours before
\* the first or behind the last observation of the range.
IsPoint(g, t) == RowQuality(table[<<g, "par", t>>]) = OBSERVATION
IsThere(g, t) == RowQuality(table[<<g, "par", t>>]) # NO_ROW
Enclosed(g, t, w) == \E b, a \in w : b < t /\ t < a /\ IsPoint(g, b) /\ IsPoint(g, a)
NothingForgotten ==
    EndOfCalmRun =>
        \A g \in Groups : \A r \in RangesOf(g, found) :
            /\ WithinLimits(r)
            /\ \A t \in Window(r) : IsThere(g, t)
            /\ g # "RA" \/ Window(r) \intersect Emptied = {}
            =>
                \A k \in Kinds, t \in r.t0 .. r.t1 :
                    MissingFlags(table[<<g, k, t>>]) => k = "par" /\ ~Enclosed(g, t, Window(r))

\* A humidity is computed with every temperature that is known when the run ends, also
\* with those that the same run has interpolated.
Zeroed == UNION {table[c].corrected.zeroed : c \in {d \in found : d[1] = "UU"}}
TemperatureFirst == EndOfCalmRun => \A t \in Zeroed : ~TAKnown(t)

\* debian/changelog: "uses interpolated TA for UU interpolation".  No temperature that has
\* been interpolated was taken as 0 by a humidity of this run.
InterpolatedTAUsed == EndOfCalmRun => \A t \in Zeroed : table[<<"TA", "par", t>>].ftime \notin {GOOD, BAD}

\* A run changes a row that is still as it has read it only for a better one, so that no row
\* changes with every run; minima and maxima also if those of the hour before were not known
\* when they were read.
WereKnown(t) == t - 1 \in series.hours => \A k \in {"min", "max"} : SeenQuality(series, k, t - 1) < FAILED
OnlyForBetter ==
    [][outside' = outside =>
        \A c \in Cells :
            Read(c) /\ table'[c] # table[c] =>
                RowQuality(table'[c]) < RowQuality(table[c]) \/ (c[2] # "par" /\ ~WereKnown(c[3]))]_vars

\* Hours are interpolated from hours that other methods, ranges and runs have interpolated.  No
\* two rest on each other in the end, however many lie between them.
RestsOn(g, t) ==
    LET r == table[<<g, "par", t>>] IN IF r = NoRow THEN {} ELSE {p[2] : p \in {q \in r.corrected.from : q[1] = "par"}}
NoCircle ==
    \A g \in Groups :
        LET resting == {t \in Hours : RestsOn(g, t) # {}}
        IN  \A circle \in SUBSET resting \ {{}} : \E t \in circle : RestsOn(g, t) \intersect circle = {}
=============================================================================
