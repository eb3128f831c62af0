------------------------------ MODULE Configs -------------------------------
(***************************************************************************)
(* A configuration file of an algorithm: ConfigParser reads its lines,     *)
(* AlgorithmConfig takes the time window from them and hands out what the  *)
(* algorithms ask for.  Every get either yields a value or throws a        *)
(* ConfigException: it is modelled as a record with ok and value.  A value *)
(* of a setting is [ok, is], where ok says that it can be converted.       *)
(***************************************************************************)
EXTENDS Flags

-----------------------------------------------------------------------------
(* ConfigParser.  A line is blank (or a comment), bad (no =, nothing before*)
(* it, or # in the key) or a setting; several settings of one key are its  *)
(* values in turn.                                                         *)

LoadErrors(lines) == {i \in DOMAIN lines : lines[i].kind = "bad"}

LinesOf(lines, key) == {i \in DOMAIN lines : lines[i].kind = "setting" /\ lines[i].key = key}
LineOf(lines, key, n) == CHOOSE i \in LinesOf(lines, key) : Cardinality({j \in LinesOf(lines, key) : j <= i}) = n
Load(lines) ==
    LET keys == {lines[i].key : i \in {j \in DOMAIN lines : lines[j].kind = "setting"}}
    IN  [key \in keys |-> [n \in 1 .. Cardinality(LinesOf(lines, key)) |-> lines[LineOf(lines, key, n)].value]]

Has(items, key) == key \in DOMAIN items
Values(items, key) == IF Has(items, key) THEN items[key] ELSE <<>>

\* Item::convert of the first value, with a default.
Converted(items, key, dflt) ==
    LET values == Values(items, key)
    IN  IF values = <<>> THEN [ok |-> TRUE, value |-> dflt]
        ELSE IF ~values[1].ok THEN [ok |-> FALSE, value |-> dflt]
        ELSE [ok |-> TRUE, value |-> values[1].is]

-----------------------------------------------------------------------------
(* ParseStreamThrow: the time window, in minutes; now is a full hour.  A   *)
(* date that does not exist, which throws, is left out.                    *)

MinutesOf(prefix) == {prefix \o "_hh", prefix \o "_mm"}
HourOfDay(t) == (t \div 60) % 24
MinuteOfHour(t) == t % 60

\* extractHHMMSS: hour and minute are replaced in the time that is there.
ExtractHHMM(items, prefix, t) ==
    LET hour == Converted(items, prefix \o "_hh", HourOfDay(t)).value
        minute == Converted(items, prefix \o "_mm", MinuteOfHour(t)).value
    IN  t + 60 * (hour - HourOfDay(t)) + (minute - MinuteOfHour(t))
\* extractTime: year, month and day are one number here; the minute is 0 if it is not given.
ExtractTime(items, prefix, t) ==
    1440 * Converted(items, prefix \o "_DD", t \div 1440).value
      + 60 * Converted(items, prefix \o "_hh", HourOfDay(t)).value
      + Converted(items, prefix \o "_mm", 0).value

Window(items, now) ==
    IF Has(items, "Last_NDays")
    THEN LET start == ExtractHHMM(items, "Start", now)
         IN  <<start - 1440 * Converted(items, "Last_NDays", 0).value, ExtractHHMM(items, "End", start)>>
    ELSE <<ExtractTime(items, "Start", now), ExtractTime(items, "End", now)>>

\* What is asked for while parsing, the name of the algorithm among it.
ParseReads(items) ==
    {"RunAtMinute", "RunAtHour", "Algorithm", "CfailedString", "MissingValue", "RejectedValue"}
        \union MinutesOf("Start") \union MinutesOf("End")
        \union (IF Has(items, "Last_NDays") THEN {"Last_NDays"} ELSE {"Start_DD", "End_DD"})
ParseFails(lines) ==
    \/ LoadErrors(lines) # {}
    \/ \E key \in ParseReads(Load(lines)) : ~Converted(Load(lines), key, 0).ok

-----------------------------------------------------------------------------
(* What an algorithm asks for.                                             *)

\* Item::convert of one value, without a default, and of all.
ConvertedOne(value) == [ok |-> value.ok, value |-> value.is]
ConvertedAll(values) ==
    [ok |-> \A i \in DOMAIN values : values[i].ok, value |-> [i \in DOMAIN values |-> values[i].is]]

\* getParameter without a default: there must be exactly one value.
GetParameter(items, key) ==
    IF Len(Values(items, key)) = 1 THEN ConvertedOne(items[key][1]) ELSE [ok |-> FALSE, value |-> "none"]
\* With a default: not more than one.
GetParameterOr(items, key, dflt) ==
    IF Has(items, key) THEN GetParameter(items, key) ELSE [ok |-> TRUE, value |-> dflt]
GetMultiParameter(items, key) == ConvertedAll(Values(items, key))

\* getFlagSet: the patterns of all values; what comes behind one that cannot be read is not.
ParseMore(m, F, texts) == IF m.error THEN m ELSE ParsePatterns(m, F, texts)
ParseEach(m, F, values) ==
    LET upTo[n \in 0 .. Len(values)] == IF n = 0 THEN m ELSE ParseMore(upTo[n - 1], F, values[n].is)
    IN  upTo[Len(values)]
GetFlagSetKept(m, items, key, F) ==   \* mutant: flags.reset() is missing
    ParseEach([m EXCEPT !.error = FALSE], F, Values(items, key))
GetFlagSet(m, items, key, F) == ParseEach(NoPatterns, F, Values(items, key))

\* getFlagSetCU changes a set that the algorithm keeps.  The default of one half is used
\* only if the other half is not set either; otherwise that half stays what it was.
Half(m, items, key, other, F, dflt) ==
    IF Has(items, key) THEN [read |-> TRUE, set |-> GetFlagSet(m, items, key, F)]
    ELSE IF dflt # <<>> /\ ~Has(items, other) THEN [read |-> TRUE, set |-> ParsePatterns(NoPatterns, F, dflt)]
    ELSE [read |-> FALSE, set |-> m]
Failed(half) == half.read /\ half.set.error
Halves(s, control, use) ==
    [ok |-> ~Failed(control) /\ ~Failed(use),
     value |-> [control |-> control.set, use |-> IF Failed(control) THEN s.use ELSE use.set]]
GetFlagSetCU(s, items, name, dfltC, dfltU) ==
    LET control == name \o "_cflags"
        use == name \o "_uflags"
    IN  IF ~Has(items, control) /\ ~Has(items, use) /\ dfltC = <<>> /\ dfltU = <<>> THEN [ok |-> FALSE, value |-> s]
        ELSE Halves(s, Half(s.control, items, control, use, ControlFlags, dfltC),
                       Half(s.use, items, use, control, UseFlags, dfltU))

\* getFlagChange
GetFlagChange(items, key, dflt) ==
    LET texts == IF Has(items, key) THEN [i \in DOMAIN items[key] |-> items[key][i].is] ELSE <<dflt>>
        end == FirstFailed([i \in DOMAIN texts |-> ChangeParsed(texts[i])])
        upTo[n \in 0 .. Len(texts)] == IF n = 0 THEN <<>> ELSE ParseChange(upTo[n - 1], texts[n])
    IN  [ok |-> (Has(items, key) \/ dflt # <<>>) /\ end > Len(texts),
         value |-> upTo[IF end > Len(texts) THEN Len(texts) ELSE end]]

\* checkUnrequested: a setting that nobody has asked for.
Unrequested(items, requested) == DOMAIN items \ requested
=============================================================================
