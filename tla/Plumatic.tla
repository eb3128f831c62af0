------------------------------ MODULE Plumatic ------------------------------
(***************************************************************************)
(* PlumaticAlgorithm: a pluviometer reports each minute in which its bucket*)
(* tips, and a zero at each full hour.  The algorithm marks minutes that do*)
(* not look like rain (a single high value, a shower that starts high, an  *)
(* interruption of a shower), watches sums over sliding windows, and       *)
(* compares whole days with the neighbour stations.                        *)
(*                                                                         *)
(* One station and one type: the run repeats this for each.  Time is in    *)
(* minutes, values are tenths of a millimetre; the length of hour and day  *)
(* are parameters.  The rows are read once; the list made of them is       *)
(* changed step by step, as the code does, and what changed is written in  *)
(* one transaction at the end.  Flag changes and discarded flags are the   *)
(* defaults; fr=9, which discards as fs=8 does but is never set here, is   *)
(* left out.                                                               *)
(***************************************************************************)
EXTENDS Integers, FiniteSets, Sequences, SequencesExt, FiniteSetsExt

CONSTANTS
    LastMinute,             \* the table holds minutes 0 .. LastMinute
    Hour, Day, Morning,     \* lengths, and the daily measurement's minute of the day
    Starts, Span,           \* UT0 of the runs, and the length of their window
    Resolution,             \* mm per vipp
    VippsUnlikelySingle, VippsUnlikelyStart, VippsRainInterrupt,
    MaxRainInterrupt, MinRainBeforeAndAfter,
    SlidingAlarms,          \* sequence of [length, max], longer ones later
    ThresholdDry, ThresholdWet,
    Tables,                 \* what the table may hold at first
    Late,                   \* <<minute, value>> that may arrive later
    HqcMinutes, HqcValues,  \* what an operator may do
    MaxOutside              \* bound: changes from outside and failed runs

Minutes == 0 .. LastMinute

Missing == -327670
StartBad == -50             \* -5: switched off from here
EndBad == -60               \* -6: switched on again

Row == [original : Int, corrected : Int, fmis : Nat, fs : Nat, fhqc : Nat, fw : Nat]

\* The minutes at which a whole day ends, and what the neighbours say of that day:
\* fewer than three of them reported, all that count are wet, or anything else.
Mornings == {m \in Minutes : m % Day = Morning /\ m >= Day}
Reports == {"few", "wet", "other"}

ASSUME TimeAssumption ==
    /\ {LastMinute, Morning, Span} \subseteq Nat /\ {Hour, Day} \subseteq Nat \ {0}
    /\ Day % Hour = 0 /\ Morning % Hour = 0 /\ Morning < Day
    /\ Starts \subseteq {m \in Minutes : m % Hour = 0}
ASSUME ParameterAssumption ==
    /\ {Resolution, VippsUnlikelySingle, VippsUnlikelyStart, VippsRainInterrupt} \subseteq Nat \ {0}
    /\ {MaxRainInterrupt, MaxOutside, ThresholdDry, ThresholdWet} \subseteq Nat
    /\ MinRainBeforeAndAfter \in Nat \ {0, 1} /\ ThresholdDry < ThresholdWet
    /\ SlidingAlarms \in Seq([length : Nat \ {0, 1}, max : Nat \ {0}])
ASSUME OutsideAssumption ==
    /\ \A f \in Tables : f \in [DOMAIN f -> Row] /\ DOMAIN f \subseteq Minutes
    /\ Late \subseteq Minutes \X Int /\ HqcMinutes \subseteq Minutes /\ HqcValues \subseteq Int

\* UT0extended is that much before UT0; the windows of all runs lie in the table.
Lookback == Max({MaxRainInterrupt + MinRainBeforeAndAfter}
                \union {SlidingAlarms[i].length : i \in DOMAIN SlidingAlarms})

ASSUME WindowAssumption == \A s \in Starts : s - Lookback \in Minutes /\ s + Span \in Minutes

VARIABLES
    table,          \* the rows in the database: minute -> row, where there is one
    neighbours,     \* Mornings -> Reports
    pc,             \* where the run is
    ut0,            \* UT0 of the run
    data,           \* the list of updates
    previous,       \* previousShower
    alarm,          \* the sliding alarm that is next
    nextXX06,       \* the morning that the comparison of days has reached
    mark,           \* the position it has reached
    operational,    \* the station is switched on there
    \* history
    calm,           \* nothing came from outside since the start of this run
    settled,        \* UT0 of the whole run since which nothing came from outside, or -1
    outside         \* counted events

tableVars == <<table, neighbours>>
loopVars == <<previous, alarm, nextXX06, mark, operational>>
runVars == <<pc, ut0, data, loopVars>>
historyVars == <<calm, settled, outside>>
vars == <<tableVars, runVars, historyVars>>

ut1 == ut0 + Span

-----------------------------------------------------------------------------
(* Rows and updates.                                                       *)

Hqc04(r) == r.fhqc \in {0, 4}
Discarded(r) == r.fhqc = 10 \/ (r.fhqc # 1 /\ (r.fs = 8 \/ r.fmis = 2))

\* The flag changes of showers, and of the comparison with the neighbours.
FlagShowerAlways(r) == [r EXCEPT !.fs = 8, !.fmis = 2]          \* mutant: fhqc is not looked at
FlagShower(r) == IF Hqc04(r) THEN [r EXCEPT !.fs = 8, !.fmis = 2] ELSE r
FlagNeighbours(r, fw) == IF Hqc04(r) THEN [r EXCEPT !.fw = fw] ELSE r

\* PlumaticUpdate, made from a row as it was read.
Update(t, r) == [t |-> t, row |-> r, was |-> r, isNew |-> FALSE, noWrite |-> FALSE,
                 start |-> FALSE, end |-> FALSE, agg |-> FALSE]
\* The row for a minute of an interruption, "0008003000000000".
InsertedRow == [original |-> Missing, corrected |-> Missing, fmis |-> 3, fs |-> 8, fhqc |-> 0, fw |-> 0]
Insert(t) == [Update(t, InsertedRow) EXCEPT !.isNew = TRUE]
\* A made-up row that ends or starts a silent time; it is never written.
SilenceRow == [original |-> 0, corrected |-> Missing, fmis |-> 15, fs |-> 15, fhqc |-> 15, fw |-> 15]
SilenceMark(t) == [Update(t, SilenceRow) EXCEPT !.isNew = TRUE, !.noWrite = TRUE]

\* A set of minutes in the order of time.
InTime(S) ==
    LET upTo[n \in 0 .. LastMinute + 1] ==
            IF n = 0 THEN <<>>
            ELSE IF n - 1 \in S THEN Append(upTo[n - 1], n - 1) ELSE upTo[n - 1]
    IN  upTo[LastMinute + 1]

NeedsWrite(u) == ~u.noWrite /\ (u.isNew \/ u.row # u.was)
IsBadData(u) == u.row.original # u.row.corrected \/ u.start \/ u.end \/ Discarded(u.row)
Rainy(u) == u.row.original > 0

\* Sum of the positive values at some positions of a list.
Rain(list, S) == MapThenSumSet(LAMBDA i : list[i].row.original, {i \in S : Rainy(list[i])})

-----------------------------------------------------------------------------
(* Times in which the station was switched off or silent.                  *)

\* One row of the list: out is the list up to it, bad the position of the row that
\* starts a non-operational time, or 0.  Rows inside such a time are erased.
DiscardStep(st, u) ==
    LET n == Len(st.out) + 1
        from == IF st.bad # 0 THEN st.bad ELSE 1
    IN  CASE ~Discarded(u.row) /\ u.row.original = StartBad ->
                [out |-> Append(st.out, u), bad |-> IF st.bad # 0 THEN st.bad ELSE n]
          [] ~Discarded(u.row) /\ u.row.original = EndBad ->
                [out |-> IF from = n THEN Append(st.out, [u EXCEPT !.start = TRUE, !.end = TRUE])
                         ELSE SubSeq(st.out, 1, from - 1)
                              \o <<[st.out[from] EXCEPT !.start = TRUE], [u EXCEPT !.end = TRUE]>>,
                 bad |-> 0]
          [] OTHER -> [out |-> Append(st.out, u), bad |-> st.bad]

DiscardMarked(list) ==
    LET upTo[n \in 0 .. Len(list)] ==
            IF n = 0 THEN [out |-> <<>>, bad |-> 0] ELSE DiscardStep(upTo[n - 1], list[n])
        st == upTo[Len(list)]
    IN  IF st.bad = 0 THEN st.out
        ELSE SubSeq(st.out, 1, st.bad - 1) \o <<[st.out[st.bad] EXCEPT !.start = TRUE]>>

\* checkNonOperationalTime: the rows that mark a silent time between t1 and t2.
FullHour(t) == t - (t % Hour)
Silence(t1, t2) ==
    LET begin == FullHour(t1) + Hour
        end == FullHour(t2) - 1
    IN  IF \/ t2 - t1 < Hour \/ begin >= end
           \/ t2 - t1 = Hour /\ t1 = FullHour(t1) /\ t2 = FullHour(t2)
        THEN <<>>
        ELSE <<[SilenceMark(begin) EXCEPT !.start = TRUE], [SilenceMark(end) EXCEPT !.end = TRUE]>>

UT0extended == ut0 - Lookback

\* The marks go right before the row that ends the silence, behind discarded rows.
DiscardSilent(list) ==
    LET good == {i \in DOMAIN list : ~Discarded(list[i].row)}
        Since(i) == LET before == {j \in good : j < i}
                    IN  IF before = {} THEN UT0extended ELSE list[Max(before)].t
        Before(i) == IF i \in good THEN Silence(Since(i), list[i].t) ELSE <<>>
        upTo[n \in 0 .. Len(list)] == IF n = 0 THEN <<>> ELSE upTo[n - 1] \o Append(Before(n), list[n])
    IN  IF good = {} THEN list
        ELSE upTo[Len(list)] \o Silence(list[Max(good)].t, ut1)

-----------------------------------------------------------------------------
(* Showers: minutes of rain in a row.                                      *)

NoShower == [first |-> 0, last |-> 0, duration |-> 0]

\* findShowerForward: rain before UT0 does not belong to a shower.
ShowerFrom(begin) ==
    LET firsts == {i \in begin .. Len(data) : data[i].t >= ut0 /\ Rainy(data[i])}
        first == Min(firsts)
        last == Max({i \in first .. Len(data) :
                        \A j \in first + 1 .. i : Rainy(data[j]) /\ data[j].t = data[first].t + j - first})
    IN  IF firsts = {} THEN NoShower
        ELSE [first |-> first, last |-> last, duration |-> 1 + data[last].t - data[first].t]
FindNextShowerAgain == ShowerFrom(Max({1, previous.last}))  \* mutant: no step on
FindNextShowerInside == ShowerFrom(previous.first + 1)      \* mutant: behind the first minute
FindNextShower == ShowerFrom(previous.last + 1)

Value(i) == data[i].row.original

CheckRainInterruption(s, p) ==
    /\ p.duration >= MinRainBeforeAndAfter /\ s.duration >= MinRainBeforeAndAfter
    /\ Value(s.first) >= Resolution * VippsRainInterrupt /\ Value(p.last) >= Resolution * VippsRainInterrupt
    /\ data[s.first].t - data[p.last].t <= MaxRainInterrupt
    /\ \A i \in {s.first, s.first + 1, p.last - 1, p.last} : ~IsBadData(data[i])

CheckHighSingle(s) ==
    s.duration = 1 /\ ~IsBadData(data[s.first]) /\ Value(s.first) >= Resolution * VippsUnlikelySingle

\* checkHighStartLength > 0
CheckHighStart(s) ==
    s.duration > 1 /\ ~IsBadData(data[s.first]) /\ Value(s.first) >= Resolution * VippsUnlikelyStart

\* The minutes between two showers are marked; those without a row get one, right
\* before the second shower.
GapRowShort(s, p, t) == {i \in p.last .. s.first - 2 : data[i].t = t}   \* mutant
GapRow(s, p, t) == {i \in p.last .. s.first - 1 : data[i].t = t}
Gap(s, p) == data[p.last].t + 1 .. data[s.first].t - 1
MissingInGap(s, p) == InTime({t \in Gap(s, p) : GapRow(s, p, t) = {}})
FlagRainInterruption(s, p) ==
    LET found == {Min(GapRow(s, p, t)) : t \in {t \in Gap(s, p) : GapRow(s, p, t) # {}}}
        marked == [i \in 1 .. s.first - 1 |->
                    IF i \in found THEN [data[i] EXCEPT !.row = FlagShower(@)] ELSE data[i]]
        missing == MissingInGap(s, p)
        new == [k \in DOMAIN missing |-> [Insert(missing[k]) EXCEPT !.row = FlagShower(@)]]
    IN  marked \o new \o SubSeq(data, s.first, Len(data))

FlagFirst(s) == [data EXCEPT ![s.first].row = FlagShower(@)]

-----------------------------------------------------------------------------
(* Sums over sliding windows.                                              *)

\* One turn of checkSlidingSum: the window is tail .. head.  Windows with too much
\* rain and no bad data are joined with the stretch from .. to before them if they
\* overlap or touch; otherwise that stretch is flagged and a new one begins.
SlideStepLonger(list, slal, st, head) ==    \* mutant
    LET tail == Min({i \in st.tail .. head : list[head].t - list[i].t <= slal.length})
        triggered == /\ Rain(list, tail .. head) >= slal.max
                     /\ \A i \in tail .. head : ~IsBadData(list[i])
        joins == /\ st.from # 0
                 /\ list[tail].t >= list[st.from].t /\ list[tail].t <= list[st.to].t + 1
    IN  CASE ~triggered -> [st EXCEPT !.tail = tail]
          [] triggered /\ joins -> [st EXCEPT !.tail = tail, !.to = head]
          [] OTHER -> [tail |-> tail, from |-> tail, to |-> head,
                       flagged |-> st.flagged \union (st.from .. st.to)]
SlideStep(list, slal, st, head) ==
    LET tail == Min({i \in st.tail .. head : list[head].t - list[i].t < slal.length})
        triggered == /\ Rain(list, tail .. head) >= slal.max
                     /\ \A i \in tail .. head : ~IsBadData(list[i])
        joins == /\ st.from # 0
                 /\ list[tail].t >= list[st.from].t /\ list[tail].t <= list[st.to].t + 1
    IN  CASE ~triggered -> [st EXCEPT !.tail = tail]
          [] triggered /\ joins -> [st EXCEPT !.tail = tail, !.to = head]
          [] OTHER -> [tail |-> tail, from |-> tail, to |-> head,
                       flagged |-> st.flagged \union (st.from .. st.to)]

CheckSlidingSum(list, slal) ==
    LET upTo[n \in 0 .. Len(list)] ==
            IF n = 0 THEN [tail |-> 1, from |-> 0, to |-> 0, flagged |-> {}]
            ELSE SlideStep(list, slal, upTo[n - 1], n)
        st == upTo[Len(list)]
        flagged == st.flagged \union (st.from .. st.to)
    IN  [i \in DOMAIN list |-> [list[i] EXCEPT !.agg = @ \/ i \in flagged]]

-----------------------------------------------------------------------------
(* Comparing days with the neighbour stations.                             *)

\* The first daily measurement, from UT0extended on or earlier the same day.
FirstMorning ==
    LET midnight == UT0extended - (UT0extended % Day)
    IN  IF FullHour(UT0extended) > midnight + Morning THEN midnight + Day + Morning ELSE midnight + Morning

\* The first position from i on whose time is after t.
After(i, t) == Min({k \in i .. Len(data) : data[k].t > t} \union {Len(data) + 1})

\* Whether the station is switched on after some positions, if it was before them.
OperationalAfter(before, S) ==
    LET marks == {i \in S : data[i].start \/ data[i].end}
    IN  IF marks = {} THEN before ELSE data[Max(marks)].end

\* The positions of the day after nextXX06.
ThisDayShort == mark .. After(mark, nextXX06 + Day) - 2     \* mutant: without the last measurement
ThisDay == mark .. After(mark, nextXX06 + Day) - 1
Readings(S) == {i \in S : data[i].row.original >= 0}

\* The flag the day has already; rows of HQC that differ from it do not matter.
FoundFW(S) == data[Min(Readings(S))].row.fw
MixedFW(S) == \E i \in Readings(S) : data[i].row.fw # FoundFW(S) /\ Hqc04(data[i].row)

\* compareWithNeighborStations; a wet day among dry neighbours is accepted.
CompareWithNeighborStations(t, sum) ==
    IF sum > ThresholdDry /\ sum < ThresholdWet THEN 1
    ELSE IF neighbours[t] = "few" THEN 0
    ELSE IF sum <= ThresholdDry /\ neighbours[t] = "wet" THEN 3 ELSE 1

\* The day can be compared: it is over, and nothing is wrong with it.
Comparable(S) ==
    /\ After(mark, nextXX06 + Day) <= Len(data)
    /\ operational /\ \A i \in S : ~data[i].start
    /\ \A i \in S : ~IsBadData(data[i]) /\ ~data[i].agg
    /\ Readings(S) # {} /\ ~MixedFW(S)

-----------------------------------------------------------------------------
(* The run.                                                                *)

Init ==
    /\ table \in Tables /\ neighbours = [m \in Mornings |-> "few"]
    /\ pc = "idle" /\ ut0 \in Starts /\ data = <<>> /\ previous = NoShower
    /\ alarm = 1 /\ nextXX06 = 0 /\ mark = 1 /\ operational = TRUE
    /\ calm = FALSE /\ settled = -1 /\ outside = 0

\* The end of a run, whatever it came to.
BackToIdle ==
    /\ pc' = "idle" /\ data' = <<>> /\ previous' = NoShower
    /\ alarm' = 1 /\ nextXX06' = 0 /\ mark' = 1 /\ operational' = TRUE

\* checkStation: the rows are read.
ReadMinutes(start) == {t \in DOMAIN table : t >= start - Lookback /\ t <= start + Span}
CheckStation(start) ==
    /\ pc = "idle"
    /\ ReadMinutes(start) # {}
    /\ ut0' = start
    /\ LET read == InTime(ReadMinutes(start))
       IN  data' = [i \in DOMAIN read |-> Update(read[i], table[read[i]])]
    /\ pc' = "discard" /\ calm' = TRUE
    /\ settled' = IF settled = start THEN settled ELSE -1
    /\ UNCHANGED <<tableVars, loopVars, outside>>

DiscardAllNonOperationalTimes ==
    /\ pc = "discard"
    /\ data' = DiscardSilent(DiscardMarked(data))
    /\ pc' = "showers"
    /\ UNCHANGED <<tableVars, ut0, loopVars, historyVars>>

\* checkShowers: one shower after the other, seen against the one before it.
NextShower(s) ==
    /\ pc = "showers"
    /\ s = FindNextShower /\ s # NoShower

RainInterruptionUnshifted ==    \* mutant: the position of the shower is not kept
    \E s \in {FindNextShower} :
        /\ NextShower(s)
        /\ CheckRainInterruption(s, previous)
        /\ data' = FlagRainInterruption(s, previous)
        /\ previous' = s
        /\ UNCHANGED <<tableVars, pc, ut0, alarm, nextXX06, mark, operational, historyVars>>
RainInterruption ==
    \E s \in {FindNextShower} :
        /\ NextShower(s)
        /\ CheckRainInterruption(s, previous)
        /\ data' = FlagRainInterruption(s, previous)
        /\ LET n == Len(MissingInGap(s, previous))
           IN  previous' = [s EXCEPT !.first = @ + n, !.last = @ + n]
        /\ UNCHANGED <<tableVars, pc, ut0, alarm, nextXX06, mark, operational, historyVars>>

OtherShower ==
    \E s \in {FindNextShower} :
        /\ NextShower(s)
        /\ ~CheckRainInterruption(s, previous)
        /\ data' = IF CheckHighSingle(s) \/ CheckHighStart(s) THEN FlagFirst(s) ELSE data
        /\ previous' = s
        /\ UNCHANGED <<tableVars, pc, ut0, alarm, nextXX06, mark, operational, historyVars>>

NoMoreShowers ==
    /\ pc = "showers" /\ FindNextShower = NoShower
    /\ pc' = "sums"
    /\ UNCHANGED <<tableVars, ut0, data, loopVars, historyVars>>

CheckSlidingSums ==
    /\ pc = "sums" /\ alarm <= Len(SlidingAlarms)
    /\ data' = CheckSlidingSum(data, SlidingAlarms[alarm])
    /\ alarm' = alarm + 1
    /\ UNCHANGED <<tableVars, pc, ut0, previous, nextXX06, mark, operational, historyVars>>

\* checkNeighborStations begins after the first daily measurement.
SkipFirstDay ==
    /\ pc = "sums" /\ alarm > Len(SlidingAlarms)
    /\ nextXX06' = FirstMorning
    /\ mark' = After(1, FirstMorning)
    /\ operational' = OperationalAfter(TRUE, 1 .. mark' - 1)
    /\ pc' = "days"
    /\ UNCHANGED <<tableVars, ut0, data, previous, alarm, historyVars>>

\* One day: its rows get the flag that the neighbours give, if it is another one.
CheckDay ==
    /\ pc = "days" /\ mark <= Len(data)
    /\ nextXX06' = nextXX06 + Day
    /\ mark' = After(mark, nextXX06')
    /\ operational' = OperationalAfter(operational, ThisDay)
    /\ UNCHANGED <<tableVars, pc, ut0, previous, alarm, historyVars>>

LeaveDay ==
    /\ CheckDay
    /\ ~Comparable(ThisDay)
    /\ UNCHANGED data

CompareDay ==
    /\ CheckDay
    /\ Comparable(ThisDay)
    /\ LET newFW == CompareWithNeighborStations(nextXX06', Rain(data, Readings(ThisDay)))
       IN  data' = IF newFW = FoundFW(ThisDay) THEN data
                   ELSE [i \in DOMAIN data |->
                            IF i \in ThisDay THEN [data[i] EXCEPT !.row = FlagNeighbours(@, newFW)]
                            ELSE data[i]]

\* storeUpdates: one transaction.  An UPDATE writes the flags of the row there is, and
\* the corrected value as it was read; without a row it does nothing.
Writes == {i \in DOMAIN data : NeedsWrite(data[i])}
NewRows == {i \in Writes : data[i].isNew}
Conflict == \E i \in NewRows : data[i].t \in DOMAIN table \/ \E j \in NewRows \ {i} : data[j].t = data[i].t
Written(t) ==
    LET is == {i \in Writes : data[i].t = t}
    IN  IF is = {} THEN table[t]
        ELSE LET u == data[Max(is)]
             IN  IF u.isNew THEN u.row ELSE [u.row EXCEPT !.original = table[t].original]

StoreUpdates ==
    /\ pc = "days" /\ mark > Len(data) /\ ~Conflict
    /\ table' = [t \in DOMAIN table \union {data[i].t : i \in NewRows} |-> Written(t)]
    /\ BackToIdle
    /\ settled' = IF settled = ut0 \/ calm THEN ut0 ELSE -1
    /\ UNCHANGED <<neighbours, ut0, calm, outside>>

\* A row is there already; the transaction fails, and the exception ends the run.
StoreRefused ==
    /\ pc = "days" /\ mark > Len(data) /\ Conflict
    /\ BackToIdle
    /\ UNCHANGED <<tableVars, ut0, historyVars>>

-----------------------------------------------------------------------------
(* What comes from outside.                                                *)

FromOutside ==
    /\ outside < MaxOutside
    /\ outside' = outside + 1
    /\ calm' = FALSE /\ settled' = -1

\* A row as it comes from the station, past QC1.
Observed(v) == [original |-> v, corrected |-> v, fmis |-> 0, fs |-> 1, fhqc |-> 0, fw |-> 0]

\* A row arrives late.
Observe(t, v) ==
    /\ FromOutside
    /\ t \notin DOMAIN table
    /\ table' = [m \in DOMAIN table \union {t} |-> IF m = t THEN Observed(v) ELSE table[m]]
    /\ UNCHANGED <<neighbours, runVars>>

\* An operator approves a value (fhqc=1) or corrects it.
Hqc(t, v) ==
    /\ FromOutside
    /\ t \in DOMAIN table
    /\ table' = [table EXCEPT ![t].corrected = v, ![t].fhqc = IF v = table[t].original THEN 1 ELSE 7]
    /\ UNCHANGED <<neighbours, runVars>>

\* The neighbours of a day report, or are corrected.
NeighboursReport(m, r) ==
    /\ FromOutside
    /\ neighbours' = [neighbours EXCEPT ![m] = r]
    /\ UNCHANGED <<table, runVars>>

\* The database fails or the daemon is killed.
Abort ==
    /\ FromOutside
    /\ pc # "idle"
    /\ BackToIdle
    /\ UNCHANGED <<tableVars, ut0>>

Step ==
    \/ DiscardAllNonOperationalTimes
    \/ RainInterruption \/ OtherShower \/ NoMoreShowers
    \/ CheckSlidingSums \/ SkipFirstDay \/ LeaveDay \/ CompareDay
    \/ StoreUpdates \/ StoreRefused

Outside ==
    \/ \E l \in Late : Observe(l[1], l[2])
    \/ \E t \in HqcMinutes, v \in HqcValues : Hqc(t, v)
    \/ \E m \in Mornings, r \in Reports : NeighboursReport(m, r)
    \/ Abort

Next == (\E start \in Starts : CheckStation(start)) \/ Step \/ Outside

Spec == Init /\ [][Next]_vars

-----------------------------------------------------------------------------
(* Properties.                                                             *)

Updates == [t : Minutes, row : Row, was : Row, isNew : BOOLEAN, noWrite : BOOLEAN,
            start : BOOLEAN, end : BOOLEAN, agg : BOOLEAN]

\* Rows are rows, the loops keep to the list, and the shower before is minutes of rain
\* in a row, although rows were inserted in front of it.
TypeOK ==
    /\ DOMAIN table \subseteq Minutes /\ \A t \in DOMAIN table : table[t] \in Row
    /\ neighbours \in [Mornings -> Reports]
    /\ pc \in {"idle", "discard", "showers", "sums", "days"}
    /\ ut0 \in Starts /\ data \in Seq(Updates)
    /\ previous.last <= Len(data) /\ (previous = NoShower \/ 1 <= previous.first)
    /\ pc = "showers" /\ previous # NoShower =>
        \A i \in previous.first .. previous.last :
            Rainy(data[i]) /\ data[i].t = data[previous.first].t + i - previous.first
    /\ alarm \in 1 .. Len(SlidingAlarms) + 1 /\ mark \in 1 .. Len(data) + 1
    /\ operational \in BOOLEAN /\ calm \in BOOLEAN /\ settled \in Starts \union {-1} /\ outside \in Nat

\* The list is in the order of time, as the loops take it to be.  It is not if marks
\* of silence or inserted rows came behind later rows.
InOrder == \A i, j \in DOMAIN data : i < j => data[i].t <= data[j].t

Ready == pc = "days" /\ mark > Len(data)

\* The incremental sums of PlumaticAlgorithm.cc:207-248 flag exactly the rows inside a
\* window of some alarm's length that has too much rain and no bad data; the windows
\* are stretches of the list, and those of time only while it is in order.
Window(slal, head) == {i \in DOMAIN data : i <= head /\ data[head].t - data[i].t < slal.length}
SumsAreWindows ==
    pc = "days" /\ InOrder =>
        \A i \in DOMAIN data :
            data[i].agg <=>
                \E a \in DOMAIN SlidingAlarms, head \in DOMAIN data :
                    LET w == Window(SlidingAlarms[a], head)
                    IN  /\ i \in w /\ Rain(data, w) >= SlidingAlarms[a].max
                        /\ \A k \in w : ~IsBadData(data[k])

\* A row that the run marks: changed flags, not a row it made up.
Marks(u) == ~u.isNew /\ u.row.fs # u.was.fs
RainyAt(t) == \E i \in DOMAIN data : data[i].t = t /\ Rainy(data[i])

\* A minute of rain is marked only if it was good before and no rain came in the
\* minute before; except at UT0, where showers are cut.
MarksStartShowers ==
    Ready /\ InOrder =>
        \A i \in DOMAIN data :
            Marks(data[i]) /\ Rainy(data[i]) =>
                /\ ~Discarded(data[i].was) /\ data[i].row.original = data[i].row.corrected
                /\ data[i].t = ut0 \/ ~RainyAt(data[i].t - 1)

\* A run over what a whole run of the same window left writes nothing, as all tests
\* expect of their second run; unless its list got out of order.
RerunQuiet == Ready /\ settled = ut0 /\ InOrder => Writes = {}

\* The markers say that the station was switched off at t: the last one before t
\* begins such a time, or the first one after t ends one.
Marker(t) == t \in DOMAIN table /\ ~Discarded(table[t]) /\ table[t].original \in {StartBad, EndBad}
SwitchedOff(t) ==
    LET before == {m \in ReadMinutes(ut0) : m < t /\ Marker(m)}
        after == {m \in ReadMinutes(ut0) : m > t /\ Marker(m)}
    IN  \/ before # {} /\ table[Max(before)].original = StartBad
        \/ after # {} /\ table[Min(after)].original = EndBad

\* The row for a minute of an interruption is refused only if another one came in
\* after the rows were read, or the station was switched off in the interruption:
\* then the list has forgotten a row that the table still has.
RefusedForReason ==
    Ready /\ calm =>
        \A i \in NewRows : data[i].t \in DOMAIN table => SwitchedOff(data[i].t)

\* A row an operator has dealt with is overwritten only if he did so between its
\* being read and being written.
HqcKept ==
    [][outside' = outside =>
        \A t \in DOMAIN table :
            ~Hqc04(table[t]) /\ table'[t] # table[t] =>
                \E i \in DOMAIN data : data[i].t = t /\ data[i].was # table[t]]_vars

\* The neighbours' flag of a day after a run that nothing disturbed: if the day is
\* over, its rows were good and stay so, they had one flag among them and the station
\* was on, they have the flag that their sum and the neighbours ask for.
DayRows(m) == {t \in DOMAIN table : t > m - Day /\ t <= m}
GoodDay(m) ==
    LET rows == {t \in DayRows(m) : table[t].original >= 0}
    IN  /\ m - Day >= UT0extended /\ \E t \in DOMAIN table : t > m /\ t <= ut1
        /\ \A t \in DayRows(m) : ~Discarded(table[t]) /\ table[t].original = table[t].corrected
        /\ DayRows(m)' = DayRows(m) /\ \A t \in DayRows(m) : ~Discarded(table'[t])
        /\ \A t \in ReadMinutes(ut0) : ~Marker(t)
        /\ \A h \in 1 .. Day \div Hour : m - Day + h * Hour \in rows
        /\ \A t, s \in rows : table[t].fw = table[s].fw
ExpectedFW(m) ==
    LET sum == MapThenSumSet(LAMBDA t : table[t].original, {t \in DayRows(m) : table[t].original > 0})
    IN  CompareWithNeighborStations(m, sum)
NoAlarm(m) == \A i \in DOMAIN data : data[i].t \in DayRows(m) => ~data[i].agg
DayFollowsNeighbours ==
    [][Ready /\ calm /\ ~Conflict /\ outside' = outside =>
        \A m \in Mornings :
            GoodDay(m) /\ NoAlarm(m) =>
                \A t \in DayRows(m) : Hqc04(table[t]) => table'[t].fw = ExpectedFW(m)]_vars

\* A run that has begun comes to its end, although flagRainInterruption lengthens the
\* list its loops run over: each step leaves less to do.
Remaining ==
    CASE pc = "discard" -> <<4, 0>>
      [] pc = "showers" -> <<3, Len(data) - previous.last>>
      [] pc = "sums" -> <<2, Len(SlidingAlarms) + 1 - alarm>>
      [] pc = "days" -> <<1, ut1 + Day - nextXX06>>
      [] OTHER -> <<0, 0>>
RunEnds ==
    [][pc # "idle" /\ outside' = outside =>
        LET r == Remaining
        IN  \/ Remaining'[1] < r[1]
            \/ Remaining'[1] = r[1] /\ 0 <= Remaining'[2] /\ Remaining'[2] < r[2]]_vars
=============================================================================
