---------------------------- MODULE MCStatistics ----------------------------
(***************************************************************************)
(* An instance of Statistics: a year of eight days in three months, whose  *)
(* second is February with a leap day; six stations, of which one is not   *)
(* Norwegian and one is far away; windows of two days.                     *)
(***************************************************************************)
EXTENDS Statistics

MCMonthDays == <<3, 2, 3>>
Date(m, d) == [month |-> m, day |-> d]
MCCalendar == [n \in 0 .. 8 |-> <<Date(1, 1), Date(1, 2), Date(1, 3), Date(2, 1), Date(2, 2), Date(2, 3),
                                  Date(3, 1), Date(3, 2), Date(3, 3)>>[n + 1]]

MCFixedStations == {50, 100, 200, 300, 400, 500}
\* Places on a line; the last one is far away, and so is the limit of some configurations.
Place == [s \in MCFixedStations |-> CASE s = 500 -> 1000 [] s = 400 -> 90 [] OTHER -> s \div 10]
MCDistance == [p \in MCFixedStations \X MCFixedStations |->
                IF Place[p[1]] < Place[p[2]] THEN Place[p[2]] - Place[p[1]] ELSE Place[p[1]] - Place[p[2]]]

\* Rows at 6 and 18 hours of the days 0 to 5; a station that deviates by what is given.
RowAt(s, type, pid, d, h, v) ==
    [station |-> s, type |-> type, pid |-> pid, time |-> 24 * d + h, original |-> v, ok |-> TRUE, missing |-> FALSE]
Observed(pid, at, days, normal, Deviation(_, _)) ==
    {RowAt(s, 1, pid, d, h, normal + d + Deviation(s, d)) : s \in at, d \in days, h \in {6, 18}}

\* One station deviates, more and more or only for a day.
OneOff(pid, normal) ==
    Observed(pid, MCFixedStations, 0 .. 5, normal, LAMBDA s, d : IF s = 100 THEN 20 ELSE IF s = 200 /\ d = 3 THEN 30 ELSE 0)
\* A second type at the station that deviates, days and rows that are missing or not ok.
Holes(pid, normal) ==
    LET rows == Observed(pid, MCFixedStations, {0, 1, 2, 4, 5}, normal,
                         LAMBDA s, d : IF s \in {100, 300} THEN 15 * d ELSE 0)
        Gone(o) == o.station = 200 /\ o.time \in 24 .. 71
        Bad(o) == o.station = 400 /\ o.time \in 96 .. 119
    IN  {[o EXCEPT !.missing = Gone(o), !.ok = ~Bad(o)] : o \in rows}
            \union {RowAt(100, 2, pid, d, 6, normal) : d \in 0 .. 5}

MCTables == {OneOff("TA", 50) \union OneOff("PR", 1014) \union OneOff("RR_24", 50) \union OneOff("VV", 50),
             Holes("TA", 50) \union Holes("PR", 1014) \union Holes("RR_24", 50) \union Holes("VV", 50)}

\* References: for TA of every day, increasing, for the others of one value.
MCReferenceRows ==
    {[pid |-> "TA", key |-> "ref_value", station |-> s, day_of_year |-> d, value |-> 46 + d] :
        s \in MCFixedStations, d \in 1 .. 8}
    \union {[pid |-> "RR_24", key |-> "ref_value", station |-> s, day_of_year |-> d, value |-> 104] :
        s \in MCFixedStations \ {50}, d \in 0 .. 8}
    \union {[pid |-> "VV", key |-> k, station |-> s, day_of_year |-> d, value |-> 52] :
        s \in MCFixedStations, d \in 1 .. 7, k \in {"ref_q1", "ref_q2"}}
    \union {[pid |-> "VV", key |-> "ref_q3", station |-> s, day_of_year |-> d, value |-> 60] :
        s \in {100, 200}, d \in 1 .. 7}

For(pid, more) == more @@ [ParamId |-> pid, TypeIds |-> {1, 2}, UT0 |-> 24 * 3 + 6, UT1 |-> 24 * 5 + 12, days |-> 2]
MCSettings ==
    {For("PR", [tolerance |-> 10]), For("TA", [tolerance |-> 5]), For("TA", [days |-> 3, days_required |-> 2]),
     For("RR_24", [tolerance |-> 10, max_bad_rate_per_day |-> 60]), For("VV", [tolerance |-> 4]),
     For("VV", [days |-> 3, tolerance |-> 6, InterpolationDistance |-> 30]), For("CI", [days |-> 2])}
=============================================================================
