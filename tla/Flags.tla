------------------------------- MODULE Flags --------------------------------
(***************************************************************************)
(* Control flags and use flags: patterns that select rows (FlagPattern,    *)
(* FlagPatterns, FlagSetCU), and the changes that are made to control flags*)
(* (FlagUpdate, FlagChange), as values and operators on them.              *)
(*                                                                         *)
(* A pattern is used in two ways: as the text of an SQL condition, by which*)
(* the database selects rows, and by matches(), in memory.  The text is    *)
(* modelled as the tests it is made of, and the database by what it does   *)
(* with them.  The text that is parsed is modelled as its parts, so that   *)
(* all that is left out is the order of characters in a list of values.    *)
(***************************************************************************)
EXTENDS Integers, FiniteSets, Sequences, SequencesExt

CONSTANTS ControlFlags, UseFlags, FlagValue

ASSUME FlagAssumption == FlagValue # {} /\ IsFiniteSet(FlagValue)

-----------------------------------------------------------------------------
(* FlagPattern: for each flag the values that are permitted, all if none is*)
(* named, without those that are forbidden.                                *)

FlagPattern(F) == [permitted : [F -> SUBSET FlagValue], forbidden : [F -> SUBSET FlagValue]]

AllowedBits(p, f) == (IF p.permitted[f] = {} THEN FlagValue ELSE p.permitted[f]) \ p.forbidden[f]

Matches(p, flags) == \A f \in DOMAIN p.permitted : flags[f] \in AllowedBits(p, f)

\* The condition: no row at all (0=1), or one test for each flag that is constrained, against
\* the shorter of the lists of values.
Never == [never |-> TRUE, tests |-> << >>]
Negate(p, f) == 2 * Cardinality(AllowedBits(p, f)) > Cardinality(FlagValue)
TestSame(p, f) ==    \* mutant: the list is not turned round
    [not |-> Negate(p, f), values |-> AllowedBits(p, f)]
Test(p, f) ==
    [not |-> Negate(p, f),
     values |-> IF Negate(p, f) THEN FlagValue \ AllowedBits(p, f) ELSE AllowedBits(p, f)]
Sql(p) ==
    IF \E f \in DOMAIN p.permitted : AllowedBits(p, f) = {} THEN Never
    ELSE [never |-> FALSE,
          tests |-> [f \in {g \in DOMAIN p.permitted : AllowedBits(p, g) # FlagValue} |-> Test(p, f)]]
NoText(sql) == ~sql.never /\ DOMAIN sql.tests = {}

\* What the database does with it.
Passes(test, v) == IF test.not THEN v \notin test.values ELSE v \in test.values
Selects(sql, flags) == ~sql.never /\ \A f \in DOMAIN sql.tests : Passes(sql.tests[f], flags[f])

-----------------------------------------------------------------------------
(* FlagPatterns: alternatives.                                             *)

Patterns(ps) == [patterns |-> ps, error |-> FALSE]
NoPatterns == Patterns(<<>>)
FlagPatterns(F) == [patterns : Seq(FlagPattern(F)), error : BOOLEAN]

\* mDefaultIfEmpty is true wherever patterns are made from a configuration.
PatternsMatch(m, flags) ==
    /\ ~m.error
    /\ m.patterns = <<>> \/ \E i \in DOMAIN m.patterns : Matches(m.patterns[i], flags)

PatternsSql(m) == IF m.error THEN <<Never>> ELSE [i \in DOMAIN m.patterns |-> Sql(m.patterns[i])]
\* The text of an alternative without constraints is empty: alone it leaves the condition
\* empty, next to others it makes a statement that the database refuses.
Refused(sqls) == Len(sqls) > 1 /\ \E i \in DOMAIN sqls : NoText(sqls[i])
AnySelects(sqls, flags) == sqls = <<>> \/ \E i \in DOMAIN sqls : Selects(sqls[i], flags)

(* FlagSetCU                                                               *)
FlagSetCU == [control : FlagPatterns(ControlFlags), use : FlagPatterns(UseFlags)]
NoFlagSet == [control |-> NoPatterns, use |-> NoPatterns]
SetMatches(s, row) == PatternsMatch(s.control, row.control) /\ PatternsMatch(s.use, row.use)
SetSql(s) == [control |-> PatternsSql(s.control), use |-> PatternsSql(s.use)]
SqlRefused(sql) == Refused(sql.control) \/ Refused(sql.use)
SqlSelects(sql, row) == AnySelects(sql.control, row.control) /\ AnySelects(sql.use, row.use)
SetRefused(s) == SqlRefused(SetSql(s))

-----------------------------------------------------------------------------
(* The text of a pattern: all, none, a list of terms flag=values (tail: a  *)
(* separator with nothing behind it), or the values of each flag in turn   *)
(* (places: a function, its domain smaller or larger than the flags if the *)
(* text is too short or too long).  A term permits or forbids values, or   *)
(* is none that can be read (bad).                                         *)

Constrained(F, terms) ==
    LET Of(f, how) == UNION {t.values : t \in {u \in terms : u.flag = f /\ u.how = how}}
    IN  [permitted |-> [f \in F |-> Of(f, "in")], forbidden |-> [f \in F |-> Of(f, "not")]]

\* Values are hexadecimal digits.
List(s) == s \in Seq({s[i] : i \in DOMAIN s})
FlagText(text) == \A i \in DOMAIN text.terms : text.terms[i].values \subseteq FlagValue
FlagTexts(texts) == List(texts) /\ \A i \in DOMAIN texts : FlagText(texts[i])
ChangeTexts(texts) == List(texts) /\ \A i \in DOMAIN texts : FlagText(texts[i].pattern)

Readable(F, terms) == \A t \in terms : t.flag \in F /\ t.how # "bad"

\* parseNames
NamesParsed(F, text) ==
    \/ text.form \in {"all", "none"}
    \/ /\ text.form = "names" /\ ~text.tail /\ Readable(F, ToSet(text.terms))
       /\ \A i, j \in DOMAIN text.terms : i # j => text.terms[i].flag # text.terms[j].flag
\* parsePattern
PlacesParsed(F, text) ==
    /\ text.form = "places" /\ Readable(F, ToSet(text.terms))
    /\ {t.flag : t \in ToSet(text.terms)} = F
\* parse
PatternParsed(F, text) == NamesParsed(F, text) \/ PlacesParsed(F, text)
ParsePattern(F, text) ==
    IF text.form \in {"all", "none"}
    THEN LET every == [f \in F |-> FlagValue]
             nothing == [f \in F |-> {}]
         IN  IF text.form = "all" THEN [permitted |-> every, forbidden |-> nothing]
             ELSE [permitted |-> nothing, forbidden |-> every]
    ELSE Constrained(F, ToSet(text.terms))

\* FlagPatterns::parse adds alternatives to those that are there, until one cannot be read.
FirstFailed(parsed) ==
    CHOOSE i \in 1 .. Len(parsed) + 1 : /\ i <= Len(parsed) => ~parsed[i]
                                        /\ \A j \in 1 .. i - 1 : parsed[j]
ParsePatterns(m, F, texts) ==
    LET end == FirstFailed([i \in DOMAIN texts |-> PatternParsed(F, texts[i])])
    IN  [patterns |-> m.patterns \o [i \in 1 .. end - 1 |-> ParsePattern(F, texts[i])],
         error |-> m.error \/ end <= Len(texts)]

-----------------------------------------------------------------------------
(* FlagUpdate: new values of some flags.  Its text is a list of terms again*)
(* with a value each; one wrong character behind the last one is not       *)
(* noticed (tail is "other").                                              *)

NO_CHANGE == -1

UpdateParsed(text) ==
    /\ text.form \in {"names", "places"} /\ text.tail # "comma"
    /\ \A i \in DOMAIN text.terms :
           /\ text.terms[i].flag \in ControlFlags /\ text.terms[i].value \in FlagValue \union {NO_CHANGE}
           /\ text.form = "names" => text.terms[i].value # NO_CHANGE
           /\ \A j \in DOMAIN text.terms : i # j => text.terms[i].flag # text.terms[j].flag
    /\ text.form = "places" => Len(text.terms) = Cardinality(ControlFlags) /\ text.tail = ""
ParseUpdateAll(text) ==   \* mutant: a place without a value is not left out
    LET set == ToSet(text.terms)
    IN  [f \in {t.flag : t \in set} |-> (CHOOSE t \in set : t.flag = f).value]
ParseUpdate(text) ==
    LET set == {t \in ToSet(text.terms) : t.value # NO_CHANGE}
    IN  [f \in {t.flag : t \in set} |-> (CHOOSE t \in set : t.flag = f).value]

IsFlagUpdate(update) == DOMAIN update \subseteq ControlFlags /\ \A f \in DOMAIN update : update[f] \in FlagValue
ApplyUpdate(update, flags) == [f \in DOMAIN flags |-> IF f \in DOMAIN update THEN update[f] ELSE flags[f]]

(* FlagChange: pairs of a pattern and an update, each applied to what the  *)
(* one before has left.  Its text is a list of pairs; a pair may have no   *)
(* pattern, and then changes every row.                                    *)

IsFlagChange(change) ==
    List(change) /\ \A i \in DOMAIN change : /\ change[i].pattern \in FlagPattern(ControlFlags)
                                            /\ IsFlagUpdate(change[i].update)
Every == [form |-> "names", terms |-> <<>>, tail |-> FALSE]

ApplyPair(c, flags) == IF Matches(c.pattern, flags) THEN ApplyUpdate(c.update, flags) ELSE flags
Apply(change, flags) ==
    LET upTo[n \in 0 .. Len(change)] == IF n = 0 THEN flags ELSE ApplyPair(change[n], upTo[n - 1])
    IN  upTo[Len(change)]

ChangeEnd(texts) ==
    FirstFailed([i \in DOMAIN texts |->
        PatternParsed(ControlFlags, texts[i].pattern) /\ UpdateParsed(texts[i].update)])
ChangeParsed(texts) == ChangeEnd(texts) > Len(texts)
ParseChange(change, texts) ==
    change \o [i \in 1 .. ChangeEnd(texts) - 1 |->
                  [pattern |-> ParsePattern(ControlFlags, texts[i].pattern), update |-> ParseUpdate(texts[i].update)]]
=============================================================================
