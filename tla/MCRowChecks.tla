---------------------------- MODULE MCRowChecks -----------------------------
(***************************************************************************)
(* An instance of RowChecks: the first two days of a year, with rows in six*)
(* hours of the second, and files with defaults, with alternatives, and    *)
(* with errors.                                                            *)
(***************************************************************************)
EXTENDS RowChecks

MCControlFlags == {"fs", "fmis", "ftime", "fhqc", "fr", "fd", "fw"}
MCUseFlags == {"U0", "U2"}
MCFlagValue == 0 .. 15
MCNow == 1440 + 360

\* Rows.
TA(sensor, hour) == [pid |-> "TA", sensor |-> sensor, aggregated |-> FALSE, time |-> 1440 + hour]
RR(time) == [pid |-> "RR", sensor |-> 0, aggregated |-> TRUE, time |-> time]
Flagged(fs, fmis, ftime) == [fs |-> fs, fmis |-> fmis, ftime |-> ftime, fhqc |-> 0, fr |-> 0, fd |-> 1, fw |-> 1]
RowOf(original, corrected, control) ==
    [original |-> original, corrected |-> corrected, control |-> control, use |-> UseInfo(control)]
Seen(value, fs) == RowOf(value, Corrected("observed", value, {}), Flagged(fs, 0, 0))
Gone(ftime, fmis) == RowOf(Missing, Corrected("missing", Missing, {}), Flagged(0, fmis, ftime))
Filled(value, fmis) == RowOf(Missing, Corrected("linear", value, {}), Flagged(0, fmis, 1))

\* A dip in the fourth of six hours, for the spline.
SixHours == [i \in 0 .. 5 |-> Seen(IF i = 3 THEN 20 ELSE 100 + 2 * i, IF i \in {3, 4} THEN 2 ELSE 1)]
Hours(rows, hours) == [k \in {TA(0, 60 * i) : i \in hours} |-> rows[(k.time - 1440) \div 60]]
Curve == Hours(SixHours, 0 .. 5)
TwoSensors == [k \in {TA(0, 60 * i) : i \in 1 .. 5} \union {TA(1, 0)} |-> SixHours[(k.time - 1440) \div 60]]
\* Three rows half an hour apart, two dips that share a row, one of them at the end.
HalfHours ==
    [k \in {TA(0, 90), TA(0, 120), TA(0, 150)} |->
        CASE k.time = 1530 -> Seen(100, 1) [] k.time = 1560 -> Seen(10, 2) [] k.time = 1590 -> Seen(103, 2)]
TwoDips == Hours([i \in 1 .. 5 |-> Seen(IF i \in {2, 4} THEN 20 ELSE 100, IF i = 1 THEN 1 ELSE 2)], 1 .. 5)
\* Missing rows: one alone, two together, one that was filled in and has lost a neighbour, one
\* with two rows before it, one between -1.0 and -1.1.
OneGone == Hours([i \in 1 .. 3 |-> IF i = 2 THEN Gone(0, 3) ELSE Seen(100 + i, 1)], 1 .. 3)
TwoGone == Hours([i \in 1 .. 4 |-> IF i \in {2, 3} THEN Gone(0, i) ELSE Seen(100, 1)], 1 .. 4)
LostNeighbour ==
    Hours([i \in 1 .. 5 |-> CASE i \in {2, 4} -> Filled(80, IF i = 2 THEN 1 ELSE 4)
                              [] i = 3 -> Gone(0, 2) [] OTHER -> Seen(100, 1)], 1 .. 5)
Frost == Hours([i \in 1 .. 3 |-> IF i = 2 THEN Gone(0, 2) ELSE Seen(-10 - i \div 3, 1)], 1 .. 3)
LastOfThree == [k \in {TA(0, 60), TA(0, 90), TA(0, 120)} |-> IF k = TA(0, 120) THEN Gone(0, 3) ELSE Seen(100, 1)]
\* Aggregated values on the first day of the year and on the second.
Sums ==
    [k \in {RR(1080), RR(1560), RR(1620)} |->
        LET v == CASE k.time = 1080 -> 700 [] k.time = 1560 -> 1200 [] k.time = 1620 -> -20
        IN  RowOf(v, Corrected("observed", v, {}), Flagged(0, 0, 0))]

Dips == {Curve, TwoSensors, HalfHours, TwoDips}
Gaps == {OneGone, Frost, TwoGone, LostNeighbour, LastOfThree}
MCLate == {<<TA(0, 0), Seen(98, 1)>>, <<TA(0, 150), Seen(100, 2)>>}
MCHqcKeys == {TA(0, 180), TA(0, 240), TA(0, 120), RR(1560)}

\* Lines of the files.
Setting(key, value) == [kind |-> "setting", key |-> key, value |-> [ok |-> TRUE, is |-> value]]
Bad(key) == [kind |-> "setting", key |-> key, value |-> [ok |-> FALSE, is |-> 0]]
Lines(a, more) == <<Setting("Algorithm", a), [kind |-> "blank"], Setting("Last_NDays", 1)>> \o more
Deltas(n) == Setting("ParValFilename", [form |-> "list", error |-> FALSE, deltas |-> <<[pid |-> "TA", delta |-> n]>>])
Maximum(pid, max) == [pid |-> pid, max |-> max]
UnreadText == [form |-> "names", terms |-> <<[flag |-> "fx", how |-> "in", values |-> {1}]>>, tail |-> FALSE]
AnyText == [form |-> "all", terms |-> <<>>, tail |-> FALSE]

OnlyFs(v) == [form |-> "places", tail |-> "",
              terms |-> <<Set("fs", v), Set("fmis", NO_CHANGE), Set("ftime", NO_CHANGE), Set("fhqc", NO_CHANGE), Set("fr", NO_CHANGE),
                        Set("fd", NO_CHANGE), Set("fw", NO_CHANGE)>>]

Info(pid, min) == [known |-> TRUE, parameter |-> pid, minValue |-> min]
Resolution(mmpv, ids) == [mmpv |-> mmpv, stationids |-> ids]
Plumatic(alarms, more) ==
    Lines("Plumatic", <<Setting("ParamId", "RR"), Setting("stations", <<Resolution(1, {27270})>>),
                        Setting("sliding_alarms", alarms)>> \o more)

MCFiles ==
    [dip |-> Lines("DipTest", <<Deltas(55)>>),
     dipNotSet |-> Lines("DipTest", <<Setting("ParValFilename", [form |-> "NotSet"])>>),
     dipShort |-> <<Setting("Algorithm", "DipTest"), Deltas(29), Setting("Start_DD", 1), Setting("Start_hh", 1),
                    Setting("End_hh", 4), Setting("End_mm", 30), Setting("akima_uflags", <<AnyText>>)>>,
     dipOther |-> Lines("DipTest",
        <<Deltas(125), Setting("dip_before_cflags", <<Text(<<Is("fs", {1}), Is("fhqc", {0})>>), Text(<<Is("fs", {4})>>)>>),
          Setting("dip_before_uflags", <<Text(<<Is("U0", {7})>>)>>),
          Setting("afterdip_flagchange", <<[pattern |-> AnyText, update |-> OnlyFs(4)]>>)>>),
     dipThrows |-> Lines("DipTest", <<Deltas(125), Setting("candidate_cflags", <<AnyText, UnreadText>>)>>),
     dipRefused |-> Lines("DipTest", <<Deltas(55), Setting("candidate_cflags", <<AnyText, Text(<<Is("fs", {2})>>)>>),
                                       Setting("candidate_uflags", <<AnyText>>)>>),
     linear |-> Lines("SingleLinear", <<Setting("ParamId", "TA")>>),
     linearUse |-> Lines("SingleLinear", <<Setting("ParamId", "TA"), Setting("neighbor_uflags", <<Text(<<Is("U2", {0})>>)>>)>>),
     linearBoth |-> Lines("SingleLinear",
        <<Setting("ParamId", "TA"), Setting("missing_cflags", <<Text(<<Is("fmis", {1, 3, 4}), Is("fhqc", {0})>>)>>),
          Setting("missing_cflags", <<Text(<<Is("fmis", {2}), Is("fhqc", {0})>>)>>),
          Setting("missing_uflags", <<AnyText>>)>>),
     linearBad |-> Lines("SingleLinear", <<Bad("ParamId")>>),
     linearUnused |-> Lines("SingleLinear", <<Setting("ParamId", "TA"), Setting("neighbour_cflags", <<AnyText>>)>>),
     limits |-> Lines("AggregatorLimits", <<Setting("param_limits", <<Maximum("RR", 1000)>>)>>),
     limitsTwice |-> Lines("AggregatorLimits", <<Setting("param_limits", <<Maximum("RR", 1000), Maximum("RR", 600)>>)>>),
     limitsThrows |-> Lines("AggregatorLimits", <<Setting("param_limits", <<Maximum("RR", 600), Maximum("TA", 0)>>)>>),
     gap |-> Lines("GapInterpolation", <<Setting("TypeId", 330), Setting("Parameter", Info("TA", -80)), Setting("Parameter", Info("UU", 0))>>),
     gapOther |-> Lines("GapInterpolation", <<Setting("Parameter", Info("TA", -60)), Setting("RA_threshold", 300),
                                              Setting("neighbors_cflags", <<Text(<<Is("fmis", {0})>>)>>)>>),
     gapBad |-> Lines("GapInterpolation", <<Setting("missing_flagchange_good", <<Change(<<>>, <<Set("fs", 5)>>)>>),
                                            Setting("Parameter", Info("RA", 0)), Setting("Parameter", [known |-> FALSE])>>),
     redist |-> Lines("Redistribute", <<Setting("ParamId", "RR"), Setting("neighbor_cflags", <<Text(<<Is("fd", {1, 2})>>)>>)>>),
     redistOther |-> Lines("Redistribute", <<Setting("ParamId", "RR"), Setting("TypeIds", 302), Setting("warn_and_stop_cflags", <<Text(<<Is("fd", {8})>>)>>),
                                             Setting("neighbor_uflags", <<Text(<<Is("U2", {0, 1})>>)>>), Setting("InterpolationDistance", 80)>>),
     redistTwice |-> Lines("Redistribute", <<Setting("min_neighbors", 2), Setting("max_neighbors", 3), Setting("max_neighbors", 4)>>),
     plumatic |-> Plumatic(<<[length |-> 2, max |-> 84], [length |-> 30, max |-> 102]>>, <<Setting("TypeId", 4)>>),
     plumaticOrder |-> Plumatic(<<[length |-> 3, max |-> 102], [length |-> 2, max |-> 84]>>, <<Setting("threshold_dry", 3)>>),
     plumaticNone |-> Plumatic(<<>>, <<Setting("rain_interrupt_max", 7), Setting("discarded_cflags", <<Text(<<Is("fs", {8})>>)>>)>>),
     plumaticStation |-> Lines("Plumatic", <<Setting("ParamId", "RR"), Setting("sliding_alarms", <<>>), Setting("stations", <<Resolution(1, {27270}), Resolution(1, {0})>>)>>),
     broken |-> <<[kind |-> "bad"]>>]

MCStarts ==
    ((Dips \union Gaps) \X {{"dip", "linear", "broken"}})
        \union (Dips \X {{"dip", "dipNotSet", "dipThrows"}, {"dipShort", "dipOther"}, {"dipThrows", "dipRefused"}})
        \union (Gaps \X {{"linear", "linearUse", "linearBad"}, {"linearBoth", "linear", "linearUnused"}})
        \union ({Sums} \X {{"limits", "limitsTwice"}, {"limits", "limitsThrows"}})
        \union ({Sums, LostNeighbour} \X
                   {{"gap", "gapOther", "redist"}, {"gap", "gapBad", "redistOther"}, {"redist", "redistOther", "redistTwice"},
                    {"plumatic", "plumaticOrder", "plumaticNone"}, {"plumatic", "plumaticStation", "limits"}})

MCCurveValues == {50, 101}
MCMinimumOf == [TA |-> 60]
=============================================================================
