--------------------------- MODULE RowChecksProofs ---------------------------
(***************************************************************************)
(* What configure() makes of the objects that live as long as the daemon.  *)
(*                                                                         *)
(* configure() is a loop over the calls of an algorithm, each of which may *)
(* throw; in the model it is a recursive function.  ConfigureSteps turns it*)
(* into a function of its steps, and induction over them carries what holds*)
(* of the object: that it is like the one that a new object would be       *)
(* (Alike), and that its members are of their types (Typed).  Two inductive*)
(* invariants then hold for all files, tables and histories of runs:       *)
(* LeftInv, from which NothingLeftOver follows, and TypeInv, from which    *)
(* TypeOK follows and, with FlagSetAgrees, that the database selects the   *)
(* rows that match in memory.                                              *)
(***************************************************************************)
EXTENDS RowChecks, FiniteInduction, FiniteSetTheorems

-----------------------------------------------------------------------------
(* Patterns of flags.                                                      *)

\* A value passes the test for a flag if and only if its bit is set, also when the test names
\* the values that are not allowed (FlagPattern.cc:69-100).
LEMMA TestAgrees ==
    ASSUME NEW p, NEW f, NEW v \in FlagValue
    PROVE  Passes(Test(p, f), v) <=> v \in AllowedBits(p, f)
<1> DEFINE allowed == AllowedBits(p, f)
           negate == Negate(p, f)
<1>1. Test(p, f) = [not |-> negate, values |-> IF negate THEN FlagValue \ allowed ELSE allowed]
  BY DEF Test
<1>2. negate \in BOOLEAN
  BY DEF Negate
<1> HIDE DEF allowed, negate
<1>3. CASE negate
  <2>1. Test(p, f).not
    BY <1>1, <1>2, <1>3
  <2>2. Test(p, f).values = FlagValue \ allowed
    BY <1>1, <1>3
  <2>3. Passes(Test(p, f), v) <=> v \notin FlagValue \ allowed
    BY <2>1, <2>2, Zenon DEF Passes
  <2> QED BY <2>3 DEF allowed
<1>4. CASE ~negate
  <2>1. ~Test(p, f).not
    BY <1>1, <1>2, <1>4
  <2>2. Test(p, f).values = allowed
    BY <1>1, <1>4
  <2>3. Passes(Test(p, f), v) <=> v \in allowed
    BY <2>1, <2>2, Zenon DEF Passes
  <2> QED BY <2>3 DEF allowed
<1> QED BY <1>3, <1>4

\* The text of one pattern and matches() agree (FlagPattern.cc:50-121).
THEOREM PatternAgrees ==
    ASSUME NEW p, NEW flags, \A f \in DOMAIN p.permitted : flags[f] \in FlagValue
    PROVE  Selects(Sql(p), flags) <=> Matches(p, flags)
<1> DEFINE F == DOMAIN p.permitted
           tested == {f \in F : AllowedBits(p, f) # FlagValue}
<1>1. CASE \E f \in F : AllowedBits(p, f) = {}
  <2>1. Sql(p).never
    BY <1>1 DEF Sql, Never
  <2>2. ~Matches(p, flags)
    BY <1>1 DEF Matches
  <2> QED BY <2>1, <2>2 DEF Selects
<1>2. CASE ~\E f \in F : AllowedBits(p, f) = {}
  <2>1. Sql(p) = [never |-> FALSE, tests |-> [f \in tested |-> Test(p, f)]]
    BY <1>2 DEF Sql
  <2>2. ~Sql(p).never
    BY <2>1
  <2>3. Sql(p).tests = [f \in tested |-> Test(p, f)]
    BY <2>1
  <2>4. Selects(Sql(p), flags) <=> \A f \in tested : Passes(Test(p, f), flags[f])
    <3>1. Selects(Sql(p), flags) <=> \A f \in DOMAIN Sql(p).tests : Passes(Sql(p).tests[f], flags[f])
      BY <2>2, Zenon DEF Selects
    <3>2. DOMAIN Sql(p).tests = tested /\ \A f \in tested : Sql(p).tests[f] = Test(p, f)
      BY <2>3
    <3> QED BY <3>1, <3>2, Zenon
  <2>5. ASSUME NEW f \in F
        PROVE  (f \in tested => Passes(Test(p, f), flags[f])) <=> flags[f] \in AllowedBits(p, f)
    <3>1. flags[f] \in FlagValue
      OBVIOUS
    <3>2. Passes(Test(p, f), flags[f]) <=> flags[f] \in AllowedBits(p, f)
      BY <3>1, TestAgrees
    <3> QED BY <3>1, <3>2
  <2> QED BY <2>4, <2>5 DEF Matches
<1> QED BY <1>1, <1>2

\* So do those of alternatives: a list with an error selects nothing, an empty one everything
\* (FlagPatterns.cc:32-81).
LEMMA PatternsAgree ==
    ASSUME NEW F, NEW m \in FlagPatterns(F), NEW flags \in [F -> FlagValue]
    PROVE  AnySelects(PatternsSql(m), flags) <=> PatternsMatch(m, flags)
<1>1. m.patterns \in Seq(FlagPattern(F)) /\ m.error \in BOOLEAN
  BY DEF FlagPatterns
<1>2. CASE m.error
  <2>1. PatternsSql(m) = <<Never>>
    BY <1>2 DEF PatternsSql
  <2>2. DOMAIN <<Never>> = {1} /\ <<Never>>[1] = Never /\ <<Never>> # <<>>
    OBVIOUS
  <2>3. ~Selects(Never, flags)
    BY DEF Selects, Never
  <2> QED BY <1>2, <2>1, <2>2, <2>3 DEF AnySelects, PatternsMatch
<1>3. CASE ~m.error
  <2>1. PatternsSql(m) = [i \in DOMAIN m.patterns |-> Sql(m.patterns[i])]
    BY <1>3 DEF PatternsSql
  <2>2. DOMAIN PatternsSql(m) = DOMAIN m.patterns
    BY <2>1
  <2>3. ASSUME NEW i \in DOMAIN m.patterns
        PROVE  Selects(PatternsSql(m)[i], flags) <=> Matches(m.patterns[i], flags)
    <3>1. m.patterns[i] \in FlagPattern(F)
      BY <1>1
    <3>2. DOMAIN m.patterns[i].permitted = F
      BY <3>1 DEF FlagPattern
    <3>3. PatternsSql(m)[i] = Sql(m.patterns[i])
      BY <2>1
    <3> QED BY <3>2, <3>3, PatternAgrees
  <2>4. PatternsSql(m) = <<>> <=> m.patterns = <<>>
    BY <1>1, <2>1, <2>2
  <2> QED BY <1>3, <2>2, <2>3, <2>4 DEF AnySelects, PatternsMatch
<1> QED BY <1>1, <1>2, <1>3

\* A set of flags for rows: what the database selects are the rows that match
\* (FlagSetCU::sql and matches, FlagPatterns.cc:83-94, FlagPatterns.h:120-127).
THEOREM FlagSetAgrees ==
    ASSUME NEW s \in FlagSetCU, NEW row,
           row.control \in [ControlFlags -> FlagValue], row.use \in [UseFlags -> FlagValue]
    PROVE  SqlSelects(SetSql(s), row) <=> SetMatches(s, row)
<1>1. s.control \in FlagPatterns(ControlFlags) /\ s.use \in FlagPatterns(UseFlags)
  BY DEF FlagSetCU
<1>2. AnySelects(PatternsSql(s.control), row.control) <=> PatternsMatch(s.control, row.control)
  BY <1>1, PatternsAgree
<1>3. AnySelects(PatternsSql(s.use), row.use) <=> PatternsMatch(s.use, row.use)
  BY <1>1, PatternsAgree
<1> QED BY <1>2, <1>3 DEF SqlSelects, SetSql, SetMatches

-----------------------------------------------------------------------------
(* Lists.                                                                  *)

\* A function from 1 .. k is a list.
LEMMA SomeList ==
  ASSUME NEW k \in Nat, NEW s, DOMAIN s = 1 .. k, s = [i \in 1 .. k |-> s[i]]
  PROVE  List(s) /\ Len(s) = k
<1> DEFINE S == {s[i] : i \in 1 .. k}
<1>1. s \in [1 .. k -> S]
  OBVIOUS
<1> HIDE DEF S
<1>2. s \in Seq(S) /\ Len(s) = k
  BY <1>1
<1> QED
  BY <1>2 DEF List, S

\* And a list is one.
LEMMA ListIs ==
  ASSUME NEW s, List(s)
  PROVE  Len(s) \in Nat /\ DOMAIN s = 1 .. Len(s) /\ s = [i \in 1 .. Len(s) |-> s[i]]
<1> DEFINE S == {s[i] : i \in DOMAIN s}
<1>1. s \in Seq(S)
  BY DEF List
<1> HIDE DEF S
<1> QED
  BY <1>1

\* A list with another one behind it is a list that ends with it.
LEMMA JoinedLists ==
  ASSUME NEW s, NEW t, List(s), List(t)
  PROVE  List(s \o t) /\ IsSuffix(<<>> \o t, s \o t)
<1> DEFINE S == {s[i] : i \in 1 .. Len(s)} \union {t[i] : i \in 1 .. Len(t)}
<1>1. /\ Len(s) \in Nat /\ DOMAIN s = 1 .. Len(s) /\ s = [i \in 1 .. Len(s) |-> s[i]]
      /\ Len(t) \in Nat /\ DOMAIN t = 1 .. Len(t) /\ t = [i \in 1 .. Len(t) |-> t[i]]
  BY ListIs
<1>2. s \in [1 .. Len(s) -> S] /\ t \in [1 .. Len(t) -> S]
  BY <1>1
<1> HIDE DEF S
<1>3. s \in Seq(S) /\ t \in Seq(S)
  BY <1>1, <1>2
<1>4. s \o t \in Seq(S) /\ Len(s \o t) = Len(s) + Len(t) /\ <<>> \o t = t
  BY <1>3
<1>5. List(s \o t)
  <2> DEFINE u == s \o t
  <2>1. u \in Seq(S)
    BY <1>4
  <2> HIDE DEF u
  <2>2. Len(u) \in Nat /\ DOMAIN u = 1 .. Len(u) /\ u = [i \in 1 .. Len(u) |-> u[i]]
    BY <2>1
  <2>3. List(u)
    BY <2>2, SomeList
  <2> QED  BY <2>3 DEF u
<1>6. \A i \in 1 .. Len(t) : (s \o t)[Len(s) + i] = t[i]
  BY <1>1, <1>3
<1>7. IsSuffix(t, s \o t)
  <2> DEFINE u == s \o t
  <2>1. Len(u) = Len(s) + Len(t) /\ Len(u) \in Nat
    BY <1>1, <1>4
  <2> DEFINE rt == Reverse(t)
             ru == Reverse(u)
  <2>2. rt = [i \in 1 .. Len(t) |-> t[(Len(t) - i) + 1]] /\ ru = [i \in 1 .. Len(u) |-> u[(Len(u) - i) + 1]]
    BY DEF Reverse
  <2>3. \A i \in 1 .. Len(t) : rt[i] = ru[i]
    <3>1. ASSUME NEW i \in 1 .. Len(t)  PROVE rt[i] = ru[i]
      <4>1. (Len(t) - i) + 1 \in 1 .. Len(t) /\ (Len(u) - i) + 1 = Len(s) + ((Len(t) - i) + 1) /\ i \in 1 .. Len(u)
        BY <1>1, <2>1
      <4>2. u[(Len(u) - i) + 1] = t[(Len(t) - i) + 1]
        BY <1>6, <4>1
      <4> HIDE DEF u, rt, ru
      <4> QED  BY <2>2, <4>1, <4>2
    <3> QED  BY <3>1
  <2>4. rt \in Seq(S) /\ ru \in Seq(S) /\ Len(rt) = Len(t) /\ Len(ru) = Len(u)
    <3>1. u \in Seq(S)  BY <1>4
    <3>2. rt \in [1 .. Len(t) -> S]
      <4>1. ASSUME NEW i \in 1 .. Len(t)  PROVE t[(Len(t) - i) + 1] \in S
        BY <1>1, <1>3
      <4> HIDE DEF rt
      <4> QED  BY <2>2, <4>1
    <3>3. ru \in [1 .. Len(u) -> S]
      <4> HIDE DEF u
      <4>1. ASSUME NEW i \in 1 .. Len(u)  PROVE u[(Len(u) - i) + 1] \in S
        BY <2>1, <3>1
      <4> HIDE DEF ru
      <4> QED  BY <2>2, <4>1
    <3> HIDE DEF u, rt, ru
    <3>4. rt \in Seq(S) /\ Len(rt) = Len(t)
      BY ONLY <1>1, <3>2
    <3>5. ru \in Seq(S) /\ Len(ru) = Len(u)
      BY ONLY <2>1, <3>3
    <3> QED  BY <3>4, <3>5
  <2> HIDE DEF u, rt, ru
  <2>5. SubSeq(rt, 1, Len(rt)) = SubSeq(ru, 1, Len(rt)) /\ Len(rt) <= Len(ru)
    BY <1>1, <2>1, <2>3, <2>4
  <2> QED  BY <2>5 DEF IsSuffix, IsPrefix, u, rt, ru
<1> QED
  BY <1>4, <1>5, <1>7

\* Where the first failure is: one place behind the end if there is none.
LEMMA FirstFailedAt ==
  ASSUME NEW k \in Nat, NEW p, DOMAIN p = 1 .. k, p = [i \in 1 .. k |-> p[i]]
  PROVE  FirstFailed(p) \in 1 .. k + 1 /\ \A j \in 1 .. FirstFailed(p) - 1 : p[j]
<1>1. Len(p) = k
  BY SomeList
<1> DEFINE Ends(i) == /\ i <= Len(p) => ~p[i]
                    /\ \A j \in 1 .. i - 1 : p[j]
           S == {i \in 1 .. k : ~p[i]}
<1>2. \E i \in 1 .. Len(p) + 1 : Ends(i)
  <2>1. CASE S = {}
    <3>0. \A j \in 1 .. k : p[j]
      BY <2>1
    <3>2. (k + 1) - 1 = k /\ ~(k + 1 <= Len(p)) /\ k + 1 \in 1 .. Len(p) + 1
      BY <1>1
    <3>1. Ends(k + 1) /\ k + 1 \in 1 .. Len(p) + 1
      BY ONLY <3>0, <3>2, Zenon
    <3> QED  BY <3>1
  <2>2. CASE S # {}
    <3>1. S \subseteq Nat
      OBVIOUS
    <3>2. PICK m \in S : \A i \in S : m <= i
      <4> HIDE DEF S
      <4> QED  BY <2>2, <3>1, LeastNatural
    <3>3. ASSUME NEW j \in 1 .. m - 1  PROVE p[j]
      <4>1. j \in 1 .. k /\ ~ (m <= j)
        BY <3>2
      <4> QED  BY <3>2, <4>1
    <3>4. Ends(m) /\ m \in 1 .. Len(p) + 1
      BY <1>1, <3>2, <3>3
    <3> QED  BY <3>4
  <2> QED  BY <2>1, <2>2
<1>3. FirstFailed(p) \in 1 .. Len(p) + 1 /\ \A j \in 1 .. FirstFailed(p) - 1 : p[j]
  BY <1>2 DEF FirstFailed
<1> QED
  BY <1>1, <1>3

-----------------------------------------------------------------------------
(* What is parsed has the types of patterns and changes.                   *)

\* A text with values that flags can have becomes a pattern (FlagPattern.cc, parse).
LEMMA PatternTyped ==
  ASSUME NEW F, NEW text, FlagText(text)
  PROVE  ParsePattern(F, text) \in FlagPattern(F)
<1> DEFINE terms == ToSet(text.terms)
           Of(f, how) == UNION {t.values : t \in {u \in terms : u.flag = f /\ u.how = how}}
           every == [f \in F |-> FlagValue]
           nothing == [f \in F |-> {}]
<1>1. every \in [F -> SUBSET FlagValue] /\ nothing \in [F -> SUBSET FlagValue]
  OBVIOUS
<1>2. \A f, how : Of(f, how) \subseteq FlagValue
  <2>1. \A t \in terms : t.values \subseteq FlagValue
    BY DEF FlagText, ToSet
  <2> HIDE DEF terms
  <2> QED  BY <2>1
<1>3. Constrained(F, terms) \in FlagPattern(F)
  <2>1. Constrained(F, terms) = [permitted |-> [f \in F |-> Of(f, "in")], forbidden |-> [f \in F |-> Of(f, "not")]]
    BY DEF Constrained
  <2> HIDE DEF Of
  <2>2. [f \in F |-> Of(f, "in")] \in [F -> SUBSET FlagValue] /\ [f \in F |-> Of(f, "not")] \in [F -> SUBSET FlagValue]
    BY <1>2
  <2> QED  BY <2>1, <2>2 DEF FlagPattern
<1>4. CASE text.form = "all"
  <2>1. ParsePattern(F, text) = [permitted |-> every, forbidden |-> nothing]
    BY <1>4 DEF ParsePattern
  <2> HIDE DEF every, nothing
  <2> QED  BY <1>1, <2>1 DEF FlagPattern
<1>5. CASE text.form = "none"
  <2>1. ParsePattern(F, text) = [permitted |-> nothing, forbidden |-> every]
    BY <1>5 DEF ParsePattern
  <2> HIDE DEF every, nothing
  <2> QED  BY <1>1, <2>1 DEF FlagPattern
<1>6. CASE text.form \notin {"all", "none"}
  <2>1. ParsePattern(F, text) = Constrained(F, terms)
    BY <1>6 DEF ParsePattern
  <2> QED  BY <1>3, <2>1
<1> QED
  BY <1>4, <1>5, <1>6

\* Alternatives that are read go behind those that are there (FlagPatterns.cc, parse).
LEMMA PatternsTyped ==
  ASSUME NEW F, NEW m \in FlagPatterns(F), NEW texts, FlagTexts(texts)
  PROVE  ParsePatterns(m, F, texts) \in FlagPatterns(F)
<1> DEFINE parsed == [i \in DOMAIN texts |-> PatternParsed(F, texts[i])]
           end == FirstFailed(parsed)
           k == Len(texts)
           more == [i \in 1 .. end - 1 |-> ParsePattern(F, texts[i])]
<1>1. k \in Nat /\ DOMAIN texts = 1 .. k
  BY ListIs DEF FlagTexts
<1>2. DOMAIN parsed = 1 .. k /\ parsed = [i \in 1 .. k |-> parsed[i]]
  BY <1>1
<1> HIDE DEF parsed, k
<1>3. end \in 1 .. k + 1
  BY <1>1, <1>2, FirstFailedAt
<1> HIDE DEF end
<1>4. \A i \in 1 .. end - 1 : i \in DOMAIN texts
  BY <1>1, <1>3
<1>5. \A i \in 1 .. end - 1 : ParsePattern(F, texts[i]) \in FlagPattern(F)
  BY <1>4, PatternTyped DEF FlagTexts
<1>6. more \in [1 .. end - 1 -> FlagPattern(F)] /\ end - 1 \in Nat
  BY <1>1, <1>3, <1>5
<1> HIDE DEF more
<1>7. more \in Seq(FlagPattern(F))
  BY <1>6
<1>8. m.patterns \in Seq(FlagPattern(F)) /\ m.error \in BOOLEAN
  BY DEF FlagPatterns
<1>9. m.patterns \o more \in Seq(FlagPattern(F))
  BY <1>7, <1>8
<1>10. ParsePatterns(m, F, texts) = [patterns |-> m.patterns \o more, error |-> m.error \/ end <= Len(texts)]
  BY DEF ParsePatterns, more, end, parsed
<1> QED
  BY <1>8, <1>9, <1>10 DEF FlagPatterns

\* An update that can be read gives flags values (FlagUpdate.cc, parse).
LEMMA UpdateTyped ==
  ASSUME NEW text, UpdateParsed(text)
  PROVE  IsFlagUpdate(ParseUpdate(text))
<1> DEFINE set == {t \in ToSet(text.terms) : t.value # NO_CHANGE}
           update == ParseUpdate(text)
<1>1. ASSUME NEW t \in set  PROVE t.flag \in ControlFlags /\ t.value \in FlagValue
  <2>1. PICK i \in DOMAIN text.terms : t = text.terms[i]
    BY DEF ToSet
  <2>2. text.terms[i].flag \in ControlFlags /\ text.terms[i].value \in FlagValue \union {NO_CHANGE}
    BY DEF UpdateParsed
  <2> QED  BY <2>1, <2>2
<1>2. update = [f \in {t.flag : t \in set} |-> (CHOOSE t \in set : t.flag = f).value]
  BY DEF ParseUpdate
<1> HIDE DEF set, update
<1>3. DOMAIN update = {t.flag : t \in set}
  BY <1>2
<1>4. ASSUME NEW f \in DOMAIN update  PROVE f \in ControlFlags /\ update[f] \in FlagValue
  <2>1. \E t \in set : t.flag = f
    BY <1>3
  <2> DEFINE u == CHOOSE t \in set : t.flag = f
  <2>2. u \in set /\ u.flag = f
    BY <2>1
  <2>3. update[f] = u.value
    BY <1>2, <1>3
  <2> HIDE DEF u
  <2> QED  BY <1>1, <2>2, <2>3
<1> QED
  BY <1>4 DEF IsFlagUpdate, update

\* A change of one pair behind another is a change (FlagChange.cc, parse).
LEMMA ChangeTyped ==
  ASSUME NEW change, IsFlagChange(change), NEW texts, ChangeTexts(texts)
  PROVE  IsFlagChange(ParseChange(change, texts))
<1> DEFINE parsed == [i \in DOMAIN texts |-> PatternParsed(ControlFlags, texts[i].pattern) /\ UpdateParsed(texts[i].update)]
           end == FirstFailed(parsed)
           k == Len(texts)
           Pair(i) == [pattern |-> ParsePattern(ControlFlags, texts[i].pattern), update |-> ParseUpdate(texts[i].update)]
           more == [i \in 1 .. end - 1 |-> Pair(i)]
           S == {change[i] : i \in DOMAIN change} \union {Pair(i) : i \in 1 .. end - 1}
           Good(c) == c.pattern \in FlagPattern(ControlFlags) /\ IsFlagUpdate(c.update)
<1>1. k \in Nat /\ DOMAIN texts = 1 .. k
  BY ListIs DEF ChangeTexts
<1>2. DOMAIN parsed = 1 .. k /\ parsed = [i \in 1 .. k |-> parsed[i]]
  BY <1>1
<1>3. end \in 1 .. k + 1 /\ \A i \in 1 .. end - 1 : parsed[i]
  <2> HIDE DEF parsed, k
  <2> QED  BY <1>1, <1>2, FirstFailedAt
<1> HIDE DEF k
<1>4. ASSUME NEW i \in 1 .. end - 1
      PROVE  Good(Pair(i))
  <2> HIDE DEF end
  <2>1. i \in DOMAIN texts
    BY <1>1, <1>3
  <2>2. FlagText(texts[i].pattern)
    BY <2>1 DEF ChangeTexts
  <2>3. parsed[i]
    BY <1>3
  <2>4. UpdateParsed(texts[i].update)
    BY <2>1, <2>3
  <2> DEFINE p == ParsePattern(ControlFlags, texts[i].pattern)
             u == ParseUpdate(texts[i].update)
  <2>5. p \in FlagPattern(ControlFlags) /\ IsFlagUpdate(u)
    BY <2>2, <2>4, PatternTyped, UpdateTyped
  <2>6. Pair(i).pattern = p /\ Pair(i).update = u
    OBVIOUS
  <2> HIDE DEF p, u, Pair
  <2> QED  BY <2>5, <2>6
<1> HIDE DEF end, parsed, Pair
<1>5. end - 1 \in Nat
  BY <1>1, <1>3
<1>6. more \in Seq(S)
  <2>1. more \in [1 .. end - 1 -> S]
    OBVIOUS
  <2> HIDE DEF more, S
  <2> QED  BY <1>5, <2>1
<1>7. change \in Seq(S)
  <2>1. List(change)
    BY DEF IsFlagChange
  <2>2. Len(change) \in Nat /\ DOMAIN change = 1 .. Len(change) /\ change = [i \in 1 .. Len(change) |-> change[i]]
    BY <2>1, ListIs
  <2>3. change \in [1 .. Len(change) -> S]
    BY <2>2
  <2> HIDE DEF S
  <2> QED  BY <2>2, <2>3
<1>8. \A c \in S : Good(c)
  <2>1. \A i \in DOMAIN change : Good(change[i])
    BY DEF IsFlagChange
  <2> HIDE DEF Good
  <2> QED  BY <1>4, <2>1
<1> DEFINE all == change \o more
<1>9. all \in Seq(S)
  <2> HIDE DEF more, S
  <2> QED  BY <1>6, <1>7
<1>10. ParseChange(change, texts) = all
  BY DEF ParseChange, ChangeEnd, end, parsed, Pair
<1> HIDE DEF all, S, Good
<1>11. Len(all) \in Nat /\ DOMAIN all = 1 .. Len(all) /\ all = [i \in 1 .. Len(all) |-> all[i]]
  BY <1>9
<1>12. List(all)
  BY <1>11, SomeList
<1>13. \A i \in DOMAIN all : Good(all[i])
  BY <1>8, <1>9
<1> QED
  BY <1>10, <1>12, <1>13 DEF IsFlagChange, Good

\* A change is applied pair after pair, and leaves values that flags can have (FlagChange.cc, apply; the
\* recursive function has a value).
LEMMA ApplySteps ==
  ASSUME NEW change, IsFlagChange(change), NEW flags \in [ControlFlags -> FlagValue]
  PROVE  \E g : /\ g[0] = flags /\ \A n \in 1 .. Len(change) : g[n] = ApplyPair(change[n], g[n - 1])
                /\ \A n \in 0 .. Len(change) : g[n] \in [ControlFlags -> FlagValue]
                /\ Apply(change, flags) = g[Len(change)]
<1> DEFINE N == Len(change)
           D == [ControlFlags -> FlagValue]
           step == [p \in D \X (1 .. N) |-> ApplyPair(change[p[2]], p[1])]
           Applies(f) == f = [n \in 0 .. N |-> IF n = 0 THEN flags ELSE ApplyPair(change[n], f[n - 1])]
<1>1. N \in Nat /\ DOMAIN change = 1 .. N
  BY ListIs DEF IsFlagChange
<1> HIDE DEF N
<1>2. ASSUME NEW i \in 1 .. N, NEW now \in D  PROVE ApplyPair(change[i], now) \in D
  <2>1. IsFlagUpdate(change[i].update)
    BY <1>1 DEF IsFlagChange
  <2>2. ApplyUpdate(change[i].update, now) \in D
    <3> DEFINE u == change[i].update
    <3> HIDE DEF u
    <3>1. \A f \in ControlFlags : f \in DOMAIN u => u[f] \in FlagValue
      BY <2>1 DEF IsFlagUpdate, u
    <3>2. ApplyUpdate(u, now) \in D
      BY <3>1 DEF ApplyUpdate
    <3> QED  BY <3>2 DEF u
  <2> HIDE DEF D
  <2> QED  BY <2>2 DEF ApplyPair
<1> HIDE DEF D
<1>3. flags \in D
  BY DEF D
<1>4. step \in [D \X (1 .. N) -> D]
  BY <1>2
<1>5. \A d \in D, n \in 1 .. N : step[<<d, n>>] = ApplyPair(change[n], d)
  OBVIOUS
<1> HIDE DEF step
<1>6. PICK h \in [0 .. N -> D] : RecursiveOver(h, N, flags, step)
  BY <1>1, <1>3, <1>4, Recursion
<1>7. Applies(h)
  <2>1. ASSUME NEW n \in 0 .. N  PROVE h[n] = IF n = 0 THEN flags ELSE ApplyPair(change[n], h[n - 1])
    <3>1. CASE n = 0
      BY <1>6, <3>1 DEF RecursiveOver
    <3>2. CASE n # 0
      <4>1. n \in 1 .. N /\ n - 1 \in 0 .. N
        BY <1>1, <3>2
      <4>2. h[n] = step[<<h[n - 1], n>>] /\ h[n - 1] \in D
        BY <1>6, <4>1 DEF RecursiveOver
      <4> QED  BY <1>5, <3>2, <4>1, <4>2
    <3> QED  BY <3>1, <3>2
  <2> QED  BY <2>1
<1> DEFINE g == CHOOSE f : Applies(f)
<1>8. Applies(g)
  <2> HIDE DEF Applies
  <2> QED  BY <1>7
<1>9. Apply(change, flags) = g[N]
  BY DEF Apply, N
<1> HIDE DEF g
<1>10. g[0] = flags /\ \A n \in 1 .. N : g[n] = ApplyPair(change[n], g[n - 1])
  BY <1>1, <1>8
<1> HIDE DEF Applies
<1>11. \A n \in 1 .. N : g[n - 1] \in D => g[n] \in D
  BY <1>2, <1>10
<1>12. \A n \in 0 .. N : g[n] \in D
  BY <1>1, <1>3, <1>10, <1>11, StepsStay
<1> QED
  BY <1>9, <1>10, <1>12 DEF D, N

\* A change of flags leaves values that flags can have.
LEMMA ApplyTyped ==
  ASSUME NEW change, IsFlagChange(change), NEW flags \in [ControlFlags -> FlagValue]
  PROVE  Apply(change, flags) \in [ControlFlags -> FlagValue]
<1>1. Len(change) \in Nat
  BY ListIs DEF IsFlagChange
<1>2. PICK g : /\ \A n \in 0 .. Len(change) : g[n] \in [ControlFlags -> FlagValue]
               /\ Apply(change, flags) = g[Len(change)]
  BY ApplySteps
<1> QED
  BY <1>1, <1>2

-----------------------------------------------------------------------------
(* The calls of the algorithms, and configure() as their steps.           *)

Kinds == {"flags", "change", "multi", "delta", "one", "default", "types", "infos", "limits", "stations",
          "alarms", "extended", "window"}

\* What is asked for once has a member of its own.
Distinct(calls, n) ==
    /\ Len(calls) = n /\ DOMAIN calls = 1 .. n
    /\ \A i \in 1 .. n : calls[i].kind \in Kinds
    /\ \A i, j \in 1 .. n : calls[i].member = calls[j].member => i = j

Plain(calls, n) ==
    /\ Distinct(calls, n)
    /\ \A i \in 1 .. n : calls[i].kind # "extended"
    /\ \A i \in 1 .. n : calls[i].kind # "infos"

\* The calls of each algorithm, in configure(): no member is asked for twice.
LEMMA DipTestDistinct == Plain(DipTestCalls, 10)
BY SMTT(60) DEF Plain, Distinct, Kinds, DipTestCalls, Simple, FlagSet, FlagChange, Default

\* SingleLinearAlgorithm::configure.
LEMMA SingleLinearDistinct == Plain(SingleLinearCalls, 6)
BY SMTT(60) DEF Plain, Distinct, Kinds, SingleLinearCalls, Simple, FlagSet, FlagChange, Default

\* AggregatorLimits::configure.
LEMMA AggregatorLimitsDistinct == Plain(AggregatorLimitsCalls, 5)
BY SMTT(60) DEF Plain, Distinct, Kinds, AggregatorLimitsCalls, Simple, FlagSet, FlagChange, Default

\* GapInterpolationAlgorithm::configure; only the list of parameters is of the kind that grows.
LEMMA GapInterpolationDistinct ==
    /\ Distinct(GapInterpolationCalls, 11)
    /\ \A i \in 1 .. 11 : GapInterpolationCalls[i].kind # "extended"
    /\ \A i \in 1 .. 11 : GapInterpolationCalls[i].kind = "infos" <=> GapInterpolationCalls[i].member = "mParameterInfos"
<1>1. Distinct(GapInterpolationCalls, 11)
  BY SMTT(60) DEF Distinct, Kinds, GapInterpolationCalls, Simple, FlagSet, FlagChange, Default
<1>2. \A i \in 1 .. 11 : GapInterpolationCalls[i].kind # "extended"
  BY SMTT(60) DEF GapInterpolationCalls, Simple, FlagSet, FlagChange, Default
<1>3. \A i \in 1 .. 11 : GapInterpolationCalls[i].kind = "infos" <=> GapInterpolationCalls[i].member = "mParameterInfos"
  BY SMTT(60) DEF GapInterpolationCalls, Simple, FlagSet, FlagChange, Default
<1> QED
  BY <1>1, <1>2, <1>3

RedistributeMembers ==
    <<"window", "endpoint_flags", "missingpoint_flags", "neighbor_flags", "warn_and_stop_flags", "update_flagchange",
      "endpoint_flagchange", "mMinNeighbors", "mMaxNeighbors", "mDaysBeforeNoNeighborWarning",
      "mDaysBeforeRedistributingZeroesWarning", "pids", "tids", "mMeasurementHour", "mInterpolationLimit",
      "mWarnClosest">>

\* RedistributionAlgorithm::configure, with what NeighborsDistance2 asks for.
LEMMA RedistributeDistinct == Plain(RedistributeCalls, 16)
<1>1. Len(RedistributeCalls) = 16 /\ DOMAIN RedistributeCalls = 1 .. 16
  BY SMTT(60) DEF RedistributeCalls, Simple, FlagSet, FlagChange, Default, Neighbors
<1>a. \A i \in 1 .. 16 : RedistributeCalls[i].member = RedistributeMembers[i]
  BY SMTT(60) DEF RedistributeCalls, Simple, FlagSet, FlagChange, Default, Neighbors, RedistributeMembers
<1>b. \A i, j \in 1 .. 16 : RedistributeMembers[i] = RedistributeMembers[j] => i = j
  BY SMTT(60) DEF RedistributeMembers
<1>2. \A i, j \in 1 .. 16 : RedistributeCalls[i].member = RedistributeCalls[j].member => i = j
  BY <1>a, <1>b
<1>3. \A i \in 1 .. 16 : RedistributeCalls[i].kind \in {"window", "flags", "change", "default", "multi"}
  BY SMTT(60) DEF RedistributeCalls, Simple, FlagSet, FlagChange, Default, Neighbors
<1> QED
  BY <1>1, <1>2, <1>3 DEF Plain, Distinct, Kinds

PlumaticMembers ==
    <<"window", "pid", "mTypeIds", "mThresholdDry", "mThresholdWet", "discarded_flags", "neighbor_flags",
      "highstart_flagchange", "highsingle_flagchange", "interruptedrain_flagchange", "fc_no_neighbors",
      "fc_neighbors_ok", "fc_neighbors_suspicious", "mVippsUnlikelySingle", "mVippsUnlikelyStart",
      "mVippsRainInterrupt", "mMaxRainInterrupt", "mMinRainBeforeAndAfter", "mInterpolationLimit",
      "mWarnClosest", "mStationlist", "mSlidingAlarms", "UT0extended">>
PlumaticKinds ==
    <<"window", "one", "types", "default", "default", "flags", "flags", "change", "change", "change", "change",
      "change", "change", "default", "default", "default", "default", "default", "default", "default", "stations",
      "alarms", "extended">>

\* PlumaticAlgorithm::configure, with what NeighborsDistance2 asks for.
LEMMA PlumaticDistinct ==
    /\ Distinct(PlumaticCalls, 23)
    /\ \A i \in 1 .. 23 : PlumaticCalls[i].member = PlumaticMembers[i] /\ PlumaticCalls[i].kind = PlumaticKinds[i]
<1>1. Len(PlumaticCalls) = 23 /\ DOMAIN PlumaticCalls = 1 .. 23
  BY SMTT(60) DEF PlumaticCalls, Simple, FlagSet, FlagChange, Default, Neighbors
<1>2. \A i \in 1 .. 23 : PlumaticCalls[i].member = PlumaticMembers[i]
  BY SMTT(60) DEF PlumaticCalls, Simple, FlagSet, FlagChange, Default, Neighbors, PlumaticMembers
<1>3. \A i, j \in 1 .. 23 : PlumaticMembers[i] = PlumaticMembers[j] => i = j
  BY SMTT(60) DEF PlumaticMembers
<1>4. \A i \in 1 .. 23 : PlumaticCalls[i].kind = PlumaticKinds[i]
  BY SMTT(60) DEF PlumaticCalls, Simple, FlagSet, FlagChange, Default, Neighbors, PlumaticKinds
<1>5. \A i \in 1 .. 23 : PlumaticKinds[i] \in Kinds
  BY SMTT(60) DEF PlumaticKinds, Kinds
<1>6. \A i \in 1 .. 23 : PlumaticCalls[i].kind \in Kinds
  BY <1>4, <1>5
<1>7. \A i, j \in 1 .. 23 : PlumaticCalls[i].member = PlumaticCalls[j].member => i = j
  BY <1>2, <1>3
<1> QED
  BY <1>1, <1>2, <1>4, <1>6, <1>7 DEF Distinct

\* What is used of the calls of an algorithm.
Shaped(calls, a) ==
    /\ Len(calls) \in Nat /\ Len(calls) >= 1 /\ DOMAIN calls = 1 .. Len(calls)
    /\ \A i \in DOMAIN calls : calls[i].kind \in Kinds
    /\ \A i, j \in DOMAIN calls : calls[i].member = calls[j].member => i = j
    /\ \A i \in DOMAIN calls : calls[i].kind = "extended" => a = "Plumatic" /\ i = 23
    /\ \A i \in DOMAIN calls :
            calls[i].kind = "infos" <=> a = "GapInterpolation" /\ calls[i].member = "mParameterInfos"

\* Calls without a kind that depends on other members are of that shape.
LEMMA PlainShaped ==
  ASSUME NEW calls, NEW a, NEW n \in Nat, n >= 1, Plain(calls, n), a # "GapInterpolation"
  PROVE  Shaped(calls, a)
BY DEF Plain, Distinct, Shaped

\* All calls are.
LEMMA CallsShaped ==
  ASSUME NEW a \in Algorithms
  PROVE  Shaped(Calls(a), a)
<1>1. CASE a = "DipTest"
  <2>1. Plain(Calls(a), 10) /\ a # "GapInterpolation"
    BY <1>1, DipTestDistinct DEF Calls, AllCalls
  <2> QED  BY <2>1, PlainShaped
<1>2. CASE a = "SingleLinear"
  <2>1. Plain(Calls(a), 6) /\ a # "GapInterpolation"
    BY <1>2, SingleLinearDistinct DEF Calls, AllCalls
  <2> QED  BY <2>1, PlainShaped
<1>3. CASE a = "AggregatorLimits"
  <2>1. Plain(Calls(a), 5) /\ a # "GapInterpolation"
    BY <1>3, AggregatorLimitsDistinct DEF Calls, AllCalls
  <2> QED  BY <2>1, PlainShaped
<1>4. CASE a = "Redistribute"
  <2>1. Plain(Calls(a), 16) /\ a # "GapInterpolation"
    BY <1>4, RedistributeDistinct DEF Calls, AllCalls
  <2> QED  BY <2>1, PlainShaped
<1>5. CASE a = "GapInterpolation"
  <2>1. Calls(a) = GapInterpolationCalls
    BY <1>5 DEF Calls, AllCalls
  <2>2. Len(GapInterpolationCalls) = 11 /\ DOMAIN GapInterpolationCalls = 1 .. 11
    BY GapInterpolationDistinct DEF Distinct
  <2>3. /\ \A i \in 1 .. 11 : GapInterpolationCalls[i].kind \in Kinds
        /\ \A i, j \in 1 .. 11 : GapInterpolationCalls[i].member = GapInterpolationCalls[j].member => i = j
        /\ \A i \in 1 .. 11 : GapInterpolationCalls[i].kind # "extended"
        /\ \A i \in 1 .. 11 :
              GapInterpolationCalls[i].kind = "infos" <=> GapInterpolationCalls[i].member = "mParameterInfos"
    BY GapInterpolationDistinct, Zenon DEF Distinct
  <2>4. Shaped(GapInterpolationCalls, "GapInterpolation")
    BY ONLY <2>2, <2>3 DEF Shaped
  <2> QED  BY ONLY <1>5, <2>1, <2>4
<1>6. CASE a = "Plumatic"
  <2>1. Calls(a) = PlumaticCalls
    BY <1>6 DEF Calls, AllCalls
  <2>2. Len(PlumaticCalls) = 23 /\ DOMAIN PlumaticCalls = 1 .. 23
    BY PlumaticDistinct DEF Distinct
  <2>3. /\ \A i \in 1 .. 23 : PlumaticCalls[i].kind \in Kinds
        /\ \A i, j \in 1 .. 23 : PlumaticCalls[i].member = PlumaticCalls[j].member => i = j
    BY PlumaticDistinct, Zenon DEF Distinct
  <2>4. \A i \in 1 .. 23 : PlumaticKinds[i] # "infos" /\ (PlumaticKinds[i] = "extended" => i = 23)
    BY DEF PlumaticKinds
  <2>5. \A i \in 1 .. 23 : PlumaticCalls[i].kind # "infos" /\ (PlumaticCalls[i].kind = "extended" => i = 23)
    BY <2>4, PlumaticDistinct
  <2>6. Shaped(PlumaticCalls, "Plumatic")
    BY ONLY <2>2, <2>3, <2>5 DEF Shaped
  <2> QED  BY ONLY <1>6, <2>1, <2>6
<1> QED
  BY <1>1, <1>2, <1>3, <1>4, <1>5, <1>6 DEF Algorithms, Elsewhere

\* Steps(g, ...) are those of configure() from the object o.
Steps(g, o, items, a) ==
    /\ g[0] = [ok |-> TRUE, object |-> o]
    /\ \A n \in 1 .. Len(Calls(a)) : g[n] = Turn(g[n - 1], items, Calls(a)[n])

\* configure() is what the last of its steps leaves (the recursive definition has a value).
LEMMA ConfigureSteps ==
  ASSUME NEW o, NEW items, NEW a \in Algorithms
  PROVE  \E g : Steps(g, o, items, a) /\ Configure(o, items, a) = g[Len(Calls(a))]
<1> DEFINE L == Len(Calls(a))
           base == [ok |-> TRUE, object |-> o]
           Taken(s, k) == Turn(s, items, Calls(a)[k])
           Unrolls(f, m) == f = [k \in 0 .. m |-> IF k = 0 THEN base ELSE Taken(f[k - 1], k)]
           T == {m \in 0 .. L : \E f : Unrolls(f, m)}
<1>0. L \in Nat
  BY CallsShaped DEF Shaped
<1> HIDE DEF L, base, Taken
<1>1. 0 \in T
  <2> DEFINE f == [k \in 0 .. 0 |-> base]
  <2>1. Unrolls(f, 0)
    OBVIOUS
  <2> HIDE DEF f, Unrolls
  <2> QED
    BY <1>0, <2>1
<1>2. ASSUME NEW m \in 1 .. L, m - 1 \in T  PROVE m \in T
  <2>1. PICK f : Unrolls(f, m - 1)
    BY <1>2
  <2> DEFINE g == [k \in 0 .. m |-> IF k = m THEN Taken(f[m - 1], m) ELSE f[k]]
  <2>2. ASSUME NEW k \in 0 .. m
        PROVE  g[k] = IF k = 0 THEN base ELSE Taken(g[k - 1], k)
    <3>1. CASE k = m
      <4>1. k # 0 /\ k - 1 \in 0 .. m /\ k - 1 # m
        BY <3>1, <1>0
      <4>2. g[k - 1] = f[m - 1]
        BY <3>1, <4>1
      <4> QED  BY <3>1, <4>1, <4>2
    <3>2. CASE k # m
      <4>1. k \in 0 .. m - 1 /\ g[k] = f[k]
        BY <3>2, <1>0
      <4>2. f[k] = IF k = 0 THEN base ELSE Taken(f[k - 1], k)
        BY <2>1, <4>1
      <4>3. k # 0 => k - 1 \in 0 .. m /\ k - 1 # m
        BY <1>0, <4>1
      <4>4. k # 0 => g[k - 1] = f[k - 1]
        BY <4>3
      <4> QED  BY <4>1, <4>2, <4>4
    <3> QED  BY <3>1, <3>2
  <2>3. g = [k \in 0 .. m |-> g[k]]
    OBVIOUS
  <2> HIDE DEF g
  <2>4. Unrolls(g, m)
    BY <2>2, <2>3
  <2> HIDE DEF Unrolls
  <2> QED
    BY <1>0, <2>4
<1>3. L \in T
  <2> HIDE DEF T
  <2>1. 0 .. L \subseteq T  BY <1>0, <1>1, <1>2, IntervalInduction
  <2> QED  BY <1>0, <2>1
<1>4. PICK h : Unrolls(h, L)
  BY <1>3
<1> DEFINE g == CHOOSE f : Unrolls(f, L)
<1>5. Unrolls(g, L)
  <2> HIDE DEF Unrolls
  <2> QED  BY <1>4
<1>6. Configure(o, items, a) = g[L]
  BY DEF Configure, L, base, Taken
<1>7. g[0] = base /\ \A n \in 1 .. L : g[n] = Taken(g[n - 1], n)
  <2> HIDE DEF g
  <2> QED  BY <1>0, <1>5
<1> HIDE DEF g
<1>8. Steps(g, o, items, a)
  BY <1>7 DEF Steps, L, base, Taken
<1> QED
  BY <1>6, <1>8 DEF L

-----------------------------------------------------------------------------
(* What a call yields.                                                    *)

\* The values of a setting are a list, also if there is none.
LEMMA ValuesAreList ==
  ASSUME NEW f \in DOMAIN Files, NEW key
  PROVE  List(Values(Items(f), key))
<1> DEFINE v == Values(Items(f), key)
           own == LinesOf(Files[f], key)
<1>1. CASE Has(Items(f), key)
  <2>1. v = [n \in 1 .. Cardinality(own) |-> Files[f][LineOf(Files[f], key, n)].value]
    BY <1>1 DEF Values, Has, Items, Parsed, Load
  <2>2. IsFiniteSet(DOMAIN Files[f]) /\ own \subseteq DOMAIN Files[f]
    BY FilesAssumption DEF LinesOf
  <2>3. Cardinality(own) \in Nat
    BY <2>2, FS_Subset, FS_CardinalityType
  <2> HIDE DEF v, own
  <2>4. DOMAIN v = 1 .. Cardinality(own) /\ v = [n \in 1 .. Cardinality(own) |-> v[n]]
    BY <2>1
  <2> QED  BY <2>3, <2>4, SomeList DEF v
<1>2. CASE ~Has(Items(f), key)
  <2>1. v = <<>>
    BY <1>2 DEF Values
  <2>2. DOMAIN v = 1 .. 0 /\ v = [n \in 1 .. 0 |-> v[n]]
    BY <2>1
  <2> QED  BY <2>2, SomeList
<1> QED
  BY <1>1, <1>2

\* What a call yields does not depend on the object, but for the kinds that CalledLike names.
LEMMA FlagSetLike ==
  ASSUME NEW items, NEW name, NEW s, NEW t, NEW dfltC, NEW dfltU,
         GetFlagSetCU(s, items, name, dfltC, dfltU).ok
  PROVE  LET now == GetFlagSetCU(s, items, name, dfltC, dfltU)
             new == GetFlagSetCU(t, items, name, dfltC, dfltU)
         IN  /\ new.ok
             /\ Has(items, name \o "_cflags") \/ (~Has(items, name \o "_uflags") /\ dfltC # <<>>)
                    => now.value.control = new.value.control
             /\ Has(items, name \o "_uflags") \/ (~Has(items, name \o "_cflags") /\ dfltU # <<>>)
                    => now.value.use = new.value.use
<1> DEFINE control == name \o "_cflags"
           use == name \o "_uflags"
           C(m) == Half(m, items, control, use, ControlFlags, dfltC)
           U(m) == Half(m, items, use, control, UseFlags, dfltU)
           H(x) == Halves(x, C(x.control), U(x.use))
           none == ~Has(items, control) /\ ~Has(items, use) /\ dfltC = <<>> /\ dfltU = <<>>
<1>1. GetFlagSetCU(s, items, name, dfltC, dfltU) = IF none THEN [ok |-> FALSE, value |-> s] ELSE H(s)
  BY DEF GetFlagSetCU
<1>2. GetFlagSetCU(t, items, name, dfltC, dfltU) = IF none THEN [ok |-> FALSE, value |-> t] ELSE H(t)
  BY DEF GetFlagSetCU
<1>3. ~none
  <2> HIDE DEF none, H
  <2> QED  BY <1>1
<1>4. ASSUME NEW m, NEW n
      PROVE  /\ Failed(C(m)) <=> Failed(C(n))
             /\ Has(items, control) \/ (~Has(items, use) /\ dfltC # <<>>) => C(m) = C(n)
             /\ Failed(U(m)) <=> Failed(U(n))
             /\ Has(items, use) \/ (~Has(items, control) /\ dfltU # <<>>) => U(m) = U(n)
  <2> HIDE DEF control, use
  <2>1. /\ Failed(C(m)) <=> Failed(C(n))
        /\ Has(items, control) \/ (~Has(items, use) /\ dfltC # <<>>) => C(m) = C(n)
    <3>1. CASE Has(items, control)
      <4>1. C(m) = [read |-> TRUE, set |-> GetFlagSet(m, items, control, ControlFlags)] /\ C(n) = C(m)
        BY <3>1, Zenon DEF Half, GetFlagSet
      <4> QED  BY <4>1, Zenon
    <3>2. CASE ~Has(items, control) /\ dfltC # <<>> /\ ~Has(items, use)
      <4>1. C(m) = C(n)
        BY <3>2, Zenon DEF Half
      <4> QED  BY <4>1, Zenon
    <3>3. CASE ~Has(items, control) /\ (dfltC = <<>> \/ Has(items, use))
      <4>1. C(m) = [read |-> FALSE, set |-> m] /\ C(n) = [read |-> FALSE, set |-> n]
        BY <3>3, Zenon DEF Half
      <4>2. C(m).read = FALSE /\ C(n).read = FALSE
        BY ONLY <4>1
      <4>3. ~Failed(C(m)) /\ ~Failed(C(n))
        BY ONLY <4>2, Zenon DEF Failed
      <4> QED  BY <3>3, <4>3, Zenon
    <3> QED  BY <3>1, <3>2, <3>3, Zenon
  <2>2. /\ Failed(U(m)) <=> Failed(U(n))
        /\ Has(items, use) \/ (~Has(items, control) /\ dfltU # <<>>) => U(m) = U(n)
    <3>1. CASE Has(items, use)
      <4>1. U(m) = [read |-> TRUE, set |-> GetFlagSet(m, items, use, UseFlags)] /\ U(n) = U(m)
        BY <3>1, Zenon DEF Half, GetFlagSet
      <4> QED  BY <4>1, Zenon
    <3>2. CASE ~Has(items, use) /\ dfltU # <<>> /\ ~Has(items, control)
      <4>1. U(m) = U(n)
        BY <3>2, Zenon DEF Half
      <4> QED  BY <4>1, Zenon
    <3>3. CASE ~Has(items, use) /\ (dfltU = <<>> \/ Has(items, control))
      <4>1. U(m) = [read |-> FALSE, set |-> m] /\ U(n) = [read |-> FALSE, set |-> n]
        BY <3>3, Zenon DEF Half
      <4>2. U(m).read = FALSE /\ U(n).read = FALSE
        BY ONLY <4>1
      <4>3. ~Failed(U(m)) /\ ~Failed(U(n))
        BY ONLY <4>2, Zenon DEF Failed
      <4> QED  BY <3>3, <4>3, Zenon
    <3> QED  BY <3>1, <3>2, <3>3, Zenon
  <2> QED  BY <2>1, <2>2
<1> HIDE DEF control, use, C, U, none
<1>5. /\ H(s).ok = (~Failed(C(s.control)) /\ ~Failed(U(s.use)))
      /\ H(t).ok = (~Failed(C(t.control)) /\ ~Failed(U(t.use)))
      /\ H(s).value.control = C(s.control).set /\ H(t).value.control = C(t.control).set
      /\ ~Failed(C(s.control)) => H(s).value.use = U(s.use).set
      /\ ~Failed(C(t.control)) => H(t).value.use = U(t.use).set
  BY DEF Halves
<1>6. H(s).ok
  BY <1>1, <1>3
<1> HIDE DEF H
<1>7. /\ Failed(C(s.control)) <=> Failed(C(t.control))
      /\ Has(items, control) \/ (~Has(items, use) /\ dfltC # <<>>) => C(s.control) = C(t.control)
  BY <1>4
<1>8. /\ Failed(U(s.use)) <=> Failed(U(t.use))
      /\ Has(items, use) \/ (~Has(items, control) /\ dfltU # <<>>) => U(s.use) = U(t.use)
  BY <1>4
<1>9. ~Failed(C(s.control)) /\ ~Failed(U(s.use)) /\ ~Failed(C(t.control)) /\ ~Failed(U(t.use))
  BY <1>5, <1>6, <1>7, <1>8
<1>10. H(t).ok
  BY <1>5, <1>9
<1> QED
  BY <1>1, <1>2, <1>3, <1>5, <1>7, <1>8, <1>9, <1>10, Zenon DEF control, use

\* The parameters of a file are put behind those that are there.
LEMMA InfosPushed ==
  ASSUME NEW f \in DOMAIN Files, NEW key
  PROVE  \E pushed :
            /\ List(pushed)
            /\ \A s : PushInfos(s, Items(f), key).value \in {s, s \o pushed}
            /\ \A s, t : PushInfos(s, Items(f), key).ok =>
                    /\ PushInfos(t, Items(f), key).ok
                    /\ PushInfos(s, Items(f), key).value = s \o pushed
                    /\ PushInfos(t, Items(f), key).value = t \o pushed
<1> DEFINE items == Items(f)
<1> HIDE DEF items
  <1> DEFINE par == GetMultiParameter(items, key)
             known == [i \in DOMAIN par.value |-> par.value[i].known]
             end == FirstFailed(known)
             pushed == SubSeq(par.value, 1, end - 1)
  <1>2. ASSUME NEW infos
        PROVE  PushInfos(infos, items, key) = IF ~par.ok THEN [ok |-> FALSE, value |-> infos]
                   ELSE [ok |-> end > Len(par.value), value |-> infos \o pushed]
    BY DEF PushInfos
  <1>3. List(pushed)
    <2> DEFINE v == Values(items, key)
    <2>1. List(v)
      BY ValuesAreList DEF items
    <2>2. par.value = [i \in DOMAIN v |-> v[i].is]
      BY DEF GetMultiParameter, ConvertedAll
    <2> DEFINE w == par.value
               k == Len(v)
    <2> HIDE DEF v
    <2>3. k \in Nat /\ DOMAIN v = 1 .. k
      BY <2>1, ListIs
    <2>4. DOMAIN w = 1 .. k /\ w = [i \in 1 .. k |-> w[i]]
      BY <2>2, <2>3
    <2> HIDE DEF k, par
    <2>5. List(w) /\ Len(w) = k
      BY <2>3, <2>4, SomeList
    <2>6. DOMAIN known = 1 .. k /\ known = [i \in 1 .. k |-> known[i]]
      BY <2>4
    <2> HIDE DEF known
    <2>7. end \in 1 .. k + 1
      BY <2>3, <2>6, FirstFailedAt
    <2> HIDE DEF end, w
    <2>8. end - 1 \in 0 .. k
      BY <2>3, <2>7
    <2> DEFINE S == {w[i] : i \in DOMAIN w}
    <2>9. w \in Seq(S)
      BY <2>5 DEF List
    <2> HIDE DEF S
    <2>10. SubSeq(w, 1, end - 1) \in Seq(S)
      BY <2>3, <2>5, <2>8, <2>9
    <2> DEFINE u == SubSeq(w, 1, end - 1)
    <2> HIDE DEF u
    <2>11. u \in Seq(S)
      BY <2>10 DEF u
    <2>12. Len(u) \in Nat /\ DOMAIN u = 1 .. Len(u) /\ u = [i \in 1 .. Len(u) |-> u[i]]
      BY <2>11
    <2>13. List(u)
      BY <2>12, SomeList
    <2> QED  BY <2>13 DEF u, w
<1> HIDE DEF par, known, end, pushed
<1>4. ASSUME NEW s  PROVE PushInfos(s, items, key).value \in {s, s \o pushed}
  <2>1. CASE ~par.ok
    <3>1. PushInfos(s, items, key) = [ok |-> FALSE, value |-> s]
      BY <1>2, <2>1, Zenon
    <3> QED  BY ONLY <3>1
  <2>2. CASE par.ok
    <3>1. PushInfos(s, items, key) = [ok |-> end > Len(par.value), value |-> s \o pushed]
      BY <1>2, <2>2, Zenon
    <3> QED  BY ONLY <3>1
  <2> QED  BY <2>1, <2>2
<1>5. ASSUME NEW s, NEW t, PushInfos(s, items, key).ok
      PROVE  /\ PushInfos(t, items, key).ok
             /\ PushInfos(s, items, key).value = s \o pushed
             /\ PushInfos(t, items, key).value = t \o pushed
  <2>1. par.ok
    <3> SUFFICES ASSUME ~par.ok PROVE FALSE
      OBVIOUS
    <3>1. PushInfos(s, items, key) = [ok |-> FALSE, value |-> s]
      BY <1>2, Zenon
    <3> QED  BY ONLY <1>5, <3>1
  <2>2. /\ PushInfos(s, items, key) = [ok |-> end > Len(par.value), value |-> s \o pushed]
        /\ PushInfos(t, items, key) = [ok |-> end > Len(par.value), value |-> t \o pushed]
    BY <1>2, <2>1, Zenon
  <2> QED  BY ONLY <1>5, <2>2
<1> QED
  BY <1>3, <1>4, <1>5, Zenon DEF items

\* A call to a used object and to a new one: if the first does not throw, neither does the second,
\* and what they yield is alike (AlgorithmConfig.cc, getParameter, getFlagSetCU, getFlagChange).
LEMMA CalledLike ==
  ASSUME NEW f \in DOMAIN Files, NEW c, c.kind \in Kinds, NEW g, NEW h,
         Called(g, Items(f), c).ok,
         c.kind = "infos" => List(g[c.member]) /\ h[c.member] = <<>>,
         c.kind = "extended" => g.window = h.window /\ Lookback(g) = Lookback(h)
  PROVE  /\ Called(h, Items(f), c).ok
         /\ LikeNew(f, c, Called(g, Items(f), c).value, Called(h, Items(f), c).value)
         /\ c.kind = "infos" => List(Called(g, Items(f), c).value)
<1> DEFINE items == Items(f)
<1> HIDE DEF items
<1>0. Called(g, items, c).ok
  BY DEF items
<1> SUFFICES /\ Called(h, items, c).ok
             /\ LikeNew(f, c, Called(g, items, c).value, Called(h, items, c).value)
             /\ c.kind = "infos" => List(Called(g, items, c).value)
  BY DEF items
<1>1. CASE c.kind = "flags"
  <2>1. /\ Called(g, items, c) = GetFlagSetCU(g[c.member], items, c.name, c.control, c.use)
        /\ Called(h, items, c) = GetFlagSetCU(h[c.member], items, c.name, c.control, c.use)
    BY <1>1 DEF Called
  <2>2. /\ Called(h, items, c).ok
        /\ Has(items, c.name \o "_cflags") \/ (~Has(items, c.name \o "_uflags") /\ c.control # <<>>)
                    => Called(g, items, c).value.control = Called(h, items, c).value.control
        /\ Has(items, c.name \o "_uflags") \/ (~Has(items, c.name \o "_cflags") /\ c.use # <<>>)
                    => Called(g, items, c).value.use = Called(h, items, c).value.use
    BY ONLY <1>0, <2>1, FlagSetLike
  <2>3. LikeNew(f, c, Called(g, items, c).value, Called(h, items, c).value)
    <3> HIDE DEF Called
    <3> QED  BY ONLY <1>1, <2>2 DEF LikeNew, SetsHalf, items
  <2> QED  BY <1>1, <2>2, <2>3
<1>2. CASE c.kind = "delta"
  <2>1. /\ Called(g, items, c) = DeltaMap(g[c.member], items, c.name)
        /\ Called(h, items, c) = DeltaMap(h[c.member], items, c.name)
    BY <1>2 DEF Called
  <2> DEFINE par == GetParameter(items, c.name)
  <2> HIDE DEF par
  <2>2. par.ok
    BY <1>0, <2>1 DEF DeltaMap, par
  <2>3. Called(h, items, c).ok
    BY <2>1, <2>2 DEF DeltaMap, par
  <2>4. par.value.form # "NotSet" => Called(g, items, c).value = Called(h, items, c).value
    BY <2>1, <2>2 DEF DeltaMap, par
  <2>5. LikeNew(f, c, Called(g, items, c).value, Called(h, items, c).value)
    BY <1>2, <2>4 DEF LikeNew, par, items
  <2> QED  BY <1>2, <2>3, <2>5
<1>3. CASE c.kind = "infos"
  <2>1. /\ Called(g, items, c) = PushInfos(g[c.member], items, c.name)
        /\ Called(h, items, c) = PushInfos(h[c.member], items, c.name)
    BY <1>3 DEF Called
  <2>2. PICK pushed :
            /\ List(pushed)
            /\ \A r, t : PushInfos(r, items, c.name).ok =>
                    /\ PushInfos(t, items, c.name).ok
                    /\ PushInfos(r, items, c.name).value = r \o pushed
                    /\ PushInfos(t, items, c.name).value = t \o pushed
    BY InfosPushed, Zenon DEF items
  <2>3. List(pushed)
    BY <2>2
  <2>6. Called(h, items, c).ok
    BY ONLY <1>0, <2>1, <2>2
  <2>7. Called(g, items, c).value = g[c.member] \o pushed /\ Called(h, items, c).value = <<>> \o pushed
    <3>1. Called(g, items, c).value = g[c.member] \o pushed /\ Called(h, items, c).value = h[c.member] \o pushed
      BY ONLY <1>0, <2>1, <2>2
    <3>2. h[c.member] = <<>>
      BY <1>3
    <3> QED  BY ONLY <3>1, <3>2
  <2>8. List(g[c.member])
    BY <1>3
  <2>9. List(g[c.member] \o pushed) /\ IsSuffix(<<>> \o pushed, g[c.member] \o pushed)
    BY ONLY <2>3, <2>8, JoinedLists
  <2>10. LikeNew(f, c, Called(g, items, c).value, Called(h, items, c).value)
    <3>1. IsSuffix(Called(h, items, c).value, Called(g, items, c).value)
      BY ONLY <2>7, <2>9
    <3> HIDE DEF Called
    <3> QED  BY <1>3, <3>1 DEF LikeNew
  <2> QED  BY <2>6, <2>7, <2>9, <2>10
<1>4. CASE c.kind = "extended"
  <2>1. Called(g, items, c) = Called(h, items, c)
    BY <1>4 DEF Called
  <2>2. LikeNew(f, c, Called(g, items, c).value, Called(h, items, c).value)
    <3> HIDE DEF Called
    <3> QED  BY <1>4, <2>1 DEF LikeNew
  <2> QED  BY <1>0, <1>4, <2>1, <2>2
<1>5. CASE c.kind \notin {"flags", "delta", "infos", "extended"}
  <2>1. Called(g, items, c) = Called(h, items, c)
    BY <1>5 DEF Called, Kinds
  <2>2. LikeNew(f, c, Called(g, items, c).value, Called(h, items, c).value)
    <3> HIDE DEF Called
    <3> QED  BY <1>5, <2>1 DEF LikeNew
  <2> QED  BY <1>0, <1>5, <2>1, <2>2
<1> QED
  BY <1>1, <1>2, <1>3, <1>4, <1>5

-----------------------------------------------------------------------------
(* Objects.                                                               *)

\* An object of an algorithm: its members, and the list of parameters.
Object(o, a) ==
    /\ DOMAIN o = DOMAIN Fresh(a)
    /\ a = "GapInterpolation" => List(o.mParameterInfos)

\* A new object has all members, and no parameters yet.
LEMMA FreshObject ==
  ASSUME NEW a \in Algorithms
  PROVE  /\ DOMAIN Fresh(a) = {Calls(a)[i].member : i \in DOMAIN Calls(a)}
         /\ Object(Fresh(a), a)
         /\ \A i \in DOMAIN Calls(a) : Calls(a)[i].kind = "infos" => Fresh(a)[Calls(a)[i].member] = <<>>
<1> DEFINE calls == ToSet(Calls(a))
           owner(m) == CHOOSE c \in calls : c.member = m
<1>0. calls = {Calls(a)[i] : i \in DOMAIN Calls(a)}
  BY DEF ToSet
<1>1. Fresh(a) = [m \in {c.member : c \in calls} |-> Empty(owner(m).kind)]
  BY DEF Fresh
<1> HIDE DEF calls
<1>2. {c.member : c \in calls} = {Calls(a)[i].member : i \in DOMAIN Calls(a)}
  BY <1>0
<1>3. DOMAIN Fresh(a) = {Calls(a)[i].member : i \in DOMAIN Calls(a)}
  BY <1>1, <1>2
<1>4. ASSUME NEW i \in DOMAIN Calls(a), Calls(a)[i].kind = "infos"
      PROVE  Fresh(a)[Calls(a)[i].member] = <<>>
  <2> DEFINE m == Calls(a)[i].member
  <2>1. \E c \in calls : c.member = m
    BY <1>0
  <2>2. owner(m) \in calls /\ owner(m).member = m
    BY <2>1
  <2>3. PICK j \in DOMAIN Calls(a) : owner(m) = Calls(a)[j]
    BY <1>0, <2>2
  <2>4. Calls(a)[j].member = Calls(a)[i].member
    BY <2>2, <2>3
  <2>5. j = i
    BY <2>4, CallsShaped DEF Shaped
  <2>6. owner(m).kind = "infos"
    BY <1>4, <2>3, <2>5
  <2>7. Fresh(a)[m] = Empty(owner(m).kind)
    BY <1>1, <1>2
  <2> QED
    BY <2>6, <2>7 DEF Empty
<1>5. Object(Fresh(a), a)
  <2> SUFFICES ASSUME a = "GapInterpolation"  PROVE List(Fresh(a).mParameterInfos)
    BY DEF Object
  <2>1. \E i \in DOMAIN Calls(a) : Calls(a)[i].member = "mParameterInfos"
    <3>1. Calls(a)[11].member = "mParameterInfos" /\ 11 \in DOMAIN Calls(a)
      BY DEF Calls, AllCalls, GapInterpolationCalls, Simple, FlagSet, FlagChange, Default
    <3> QED  BY <3>1
  <2>2. PICK i \in DOMAIN Calls(a) : Calls(a)[i].member = "mParameterInfos"
    BY <2>1
  <2>3. Calls(a)[i].kind = "infos"
    BY <2>2, CallsShaped DEF Shaped
  <2>4. Fresh(a).mParameterInfos = <<>>
    BY <1>4, <2>2, <2>3
  <2>5. List(<<>>)
    BY DEF List
  <2> QED
    BY <2>4, <2>5
<1> QED
  BY <1>3, <1>4, <1>5

\* Whether a call throws or not, what it leaves is an object again.
LEMMA TurnObject ==
  ASSUME NEW a \in Algorithms, NEW f \in DOMAIN Files, NEW i \in DOMAIN Calls(a), NEW s, Object(s.object, a)
  PROVE  Object(Turn(s, Items(f), Calls(a)[i]).object, a)
<1> DEFINE c == Calls(a)[i]
           o == s.object
           got == Called(o, Items(f), c)
<1>1. CASE ~s.ok
  BY <1>1 DEF Turn
<1>2. CASE s.ok
  <2>1. Turn(s, Items(f), c) = Got(o, c, got)
    BY <1>2 DEF Turn
  <2>2. Got(o, c, got).object = IF got.ok \/ c.kind \notin Assigned THEN [o EXCEPT ![c.member] = got.value] ELSE o
    BY DEF Got
  <2> DEFINE p == Turn(s, Items(f), c).object
  <2> HIDE DEF o, got, c
  <2>3. p \in {o, [o EXCEPT ![c.member] = got.value]}
    BY <2>1, <2>2
  <2>4. DOMAIN p = DOMAIN Fresh(a) /\ DOMAIN o = DOMAIN Fresh(a)
    <3>1. DOMAIN o = DOMAIN Fresh(a)
      BY DEF Object, o
    <3> HIDE DEF p
    <3> QED  BY <2>3, <3>1
  <2>5. ASSUME a = "GapInterpolation"  PROVE List(p.mParameterInfos)
    <3>1. List(o.mParameterInfos)
      BY <2>5 DEF Object, o
    <3>2. CASE p = o
      BY <3>1, <3>2
    <3>3. CASE p = [o EXCEPT ![c.member] = got.value] /\ c.member # "mParameterInfos"
      <4>1. p.mParameterInfos = o.mParameterInfos
        <5>1. DOMAIN p = DOMAIN o
          BY <2>4
        <5> HIDE DEF p
        <5> QED  BY <3>3, <5>1
      <4> QED  BY <3>1, <4>1
    <3>4. CASE p = [o EXCEPT ![c.member] = got.value] /\ c.member = "mParameterInfos"
      <4>1. c.kind = "infos"
        BY <2>5, <3>4, CallsShaped DEF Shaped, c
      <4>2. got = PushInfos(o[c.member], Items(f), c.name)
        BY <4>1 DEF Called, got
      <4>3. PICK pushed : List(pushed) /\ got.value \in {o[c.member], o[c.member] \o pushed}
        BY <4>2, InfosPushed
      <4>4. o[c.member] = o.mParameterInfos
        BY <3>4
      <4>5. List(got.value)
        BY <3>1, <4>3, <4>4, JoinedLists
      <4>6. "mParameterInfos" \in DOMAIN o
        <5>1. c.member \in DOMAIN Fresh(a)
          BY ONLY FreshObject, a \in Algorithms, i \in DOMAIN Calls(a) DEF c
        <5> QED  BY ONLY <2>4, <3>4, <5>1
      <4>7. p.mParameterInfos = got.value
        <5> HIDE DEF p
        <5> QED  BY <3>4, <4>6
      <4> QED  BY <4>5, <4>7
    <3> HIDE DEF p
    <3> QED  BY <2>3, <3>2, <3>3, <3>4
  <2> QED
    BY <2>4, <2>5 DEF Object, c
<1> QED
  BY <1>1, <1>2

\* A call that does not throw changes its member.
LEMMA TurnTaken ==
  ASSUME NEW s, NEW items, NEW c, Turn(s, items, c).ok
  PROVE  /\ s.ok /\ Called(s.object, items, c).ok
         /\ Turn(s, items, c).object = [s.object EXCEPT ![c.member] = Called(s.object, items, c).value]
<1> DEFINE got == Called(s.object, items, c)
<1> HIDE DEF got
<1>1. s.ok
  BY DEF Turn
<1>2. Turn(s, items, c) = Got(s.object, c, got)
  BY <1>1 DEF Turn, got
<1>3. got.ok
  BY <1>2 DEF Got
<1>4. Turn(s, items, c).object = [s.object EXCEPT ![c.member] = got.value]
  BY <1>2, <1>3 DEF Got
<1> QED
  BY <1>1, <1>3, <1>4 DEF got

\* After n calls that have not thrown, the object of s is like that of t, a new one.
Alike(f, a, n, s, t) ==
    s.ok =>
        /\ t.ok
        /\ \A i \in 1 .. n : LikeNew(f, Calls(a)[i], s.object[Calls(a)[i].member], t.object[Calls(a)[i].member])
        /\ \A i \in n + 1 .. Len(Calls(a)) : t.object[Calls(a)[i].member] = Fresh(a)[Calls(a)[i].member]

\* One call of configure() for an object that has been used and for a new one.
LEMMA TurnLike ==
  ASSUME NEW a \in Algorithms, NEW f \in DOMAIN Files, NEW n \in DOMAIN Calls(a), NEW s, NEW t,
         Object(s.object, a), Object(t.object, a), Alike(f, a, n - 1, s, t)
  PROVE  Alike(f, a, n, Turn(s, Items(f), Calls(a)[n]), Turn(t, Items(f), Calls(a)[n]))
<1> DEFINE items == Items(f)
           c == Calls(a)[n]
           g == s.object
           h == t.object
           L == Len(Calls(a))
           m(i) == Calls(a)[i].member
           now == Turn(s, items, c)
           new == Turn(t, items, c)
<1> SUFFICES ASSUME now.ok
             PROVE  /\ new.ok
                    /\ \A i \in 1 .. n : LikeNew(f, Calls(a)[i], now.object[m(i)], new.object[m(i)])
                    /\ \A i \in n + 1 .. L : new.object[m(i)] = Fresh(a)[m(i)]
  BY DEF Alike
<1>1. /\ L \in Nat /\ DOMAIN Calls(a) = 1 .. L /\ c.kind \in Kinds /\ n \in 1 .. L
      /\ \A i, j \in 1 .. L : m(i) = m(j) => i = j
      /\ c.kind = "extended" => a = "Plumatic" /\ n = 23
      /\ c.kind = "infos" => a = "GapInterpolation" /\ c.member = "mParameterInfos"
  BY CallsShaped DEF Shaped
<1>2. s.ok /\ Called(g, items, c).ok /\ now.object = [g EXCEPT ![c.member] = Called(g, items, c).value]
  BY TurnTaken
<1>a. /\ t.ok
      /\ \A i \in 1 .. n - 1 : LikeNew(f, Calls(a)[i], g[m(i)], h[m(i)])
      /\ \A i \in n .. L : h[m(i)] = Fresh(a)[m(i)]
  <2>1. (n - 1) + 1 = n
    BY <1>1
  <2> QED  BY <1>2, <2>1 DEF Alike
<1>3. c.kind = "infos" => List(g[c.member]) /\ h[c.member] = <<>>
  <2> SUFFICES ASSUME c.kind = "infos"  PROVE List(g[c.member]) /\ h[c.member] = <<>>
    OBVIOUS
  <2>1. a = "GapInterpolation" /\ c.member = "mParameterInfos"
    BY <1>1
  <2>2. List(g.mParameterInfos)
    BY <2>1 DEF Object
  <2>3. h[c.member] = Fresh(a)[c.member]
    BY <1>1, <1>a
  <2>4. Fresh(a)[c.member] = <<>>
    BY FreshObject
  <2> QED  BY <2>1, <2>2, <2>3, <2>4
<1>4. c.kind = "extended" => g.window = h.window /\ Lookback(g) = Lookback(h)
  <2> SUFFICES ASSUME c.kind = "extended"  PROVE g.window = h.window /\ Lookback(g) = Lookback(h)
    OBVIOUS
  <2>1. a = "Plumatic" /\ n = 23
    BY <1>1
  <2>2. Calls(a) = PlumaticCalls
    BY <2>1 DEF Calls, AllCalls
  <2>3. ASSUME NEW i \in {1, 17, 18, 22}
        PROVE  g[PlumaticMembers[i]] = h[PlumaticMembers[i]]
    <3>1. i \in 1 .. 22 /\ i \in 1 .. 23
      OBVIOUS
    <3>2. PlumaticCalls[i].kind = PlumaticKinds[i] /\ PlumaticCalls[i].member = PlumaticMembers[i]
      BY <3>1, PlumaticDistinct
    <3>3. PlumaticKinds[i] \in {"window", "default", "alarms"}
      BY DEF PlumaticKinds
    <3>4. LikeNew(f, PlumaticCalls[i], g[PlumaticMembers[i]], h[PlumaticMembers[i]])
      <4>1. LikeNew(f, Calls(a)[i], g[Calls(a)[i].member], h[Calls(a)[i].member])
        <5>1. i \in 1 .. n - 1
          BY ONLY <2>1, <3>1
        <5> QED  BY ONLY <1>a, <5>1 DEF m
      <4> HIDE DEF g, h
      <4> QED  BY ONLY <2>2, <3>2, <4>1
    <3>5. PlumaticCalls[i].kind \in {"window", "default", "alarms"}
      BY <3>2, <3>3
    <3> QED  BY ONLY <3>4, <3>5 DEF LikeNew
  <2>4. /\ PlumaticMembers[1] = "window" /\ PlumaticMembers[17] = "mMaxRainInterrupt"
        /\ PlumaticMembers[18] = "mMinRainBeforeAndAfter" /\ PlumaticMembers[22] = "mSlidingAlarms"
    BY DEF PlumaticMembers
  <2>5. /\ g["window"] = h["window"] /\ g["mMaxRainInterrupt"] = h["mMaxRainInterrupt"]
        /\ g["mMinRainBeforeAndAfter"] = h["mMinRainBeforeAndAfter"] /\ g["mSlidingAlarms"] = h["mSlidingAlarms"]
    <3> HIDE DEF g, h
    <3> QED  BY <2>3, <2>4
  <2> QED
    BY <2>5 DEF Lookback
<1>5. /\ Called(h, items, c).ok
      /\ LikeNew(f, c, Called(g, items, c).value, Called(h, items, c).value)
  <2> HIDE DEF g, h, c
  <2> QED  BY <1>1, <1>2, <1>3, <1>4, CalledLike
<1>6. new.ok /\ new.object = [h EXCEPT ![c.member] = Called(h, items, c).value]
  <2>1. t.ok
    BY <1>a
  <2>2. new = Got(h, c, Called(h, items, c))
    BY <2>1 DEF Turn
  <2> HIDE DEF new, h, c
  <2> QED  BY <1>5, <2>2 DEF Got
<1>7. c.member \in DOMAIN g /\ c.member \in DOMAIN h
  <2>1. DOMAIN g = DOMAIN Fresh(a) /\ DOMAIN h = DOMAIN Fresh(a)
    BY DEF Object
  <2>2. c.member \in DOMAIN Fresh(a)
    BY ONLY FreshObject, a \in Algorithms, n \in DOMAIN Calls(a) DEF c
  <2> HIDE DEF g, h, c
  <2> QED  BY ONLY <2>1, <2>2
<1> DEFINE og == now.object
           oh == new.object
<1>8. /\ og[c.member] = Called(g, items, c).value /\ oh[c.member] = Called(h, items, c).value
      /\ \A i \in 1 .. L : i # n => og[m(i)] = g[m(i)] /\ oh[m(i)] = h[m(i)]
  <2>1. ASSUME NEW i \in 1 .. L, i # n  PROVE m(i) # c.member /\ m(i) \in DOMAIN g /\ m(i) \in DOMAIN h
    <3>1. m(i) # c.member
      BY <1>1, <2>1
    <3>2. DOMAIN g = DOMAIN Fresh(a) /\ DOMAIN h = DOMAIN Fresh(a)
      BY DEF Object
    <3>3. i \in DOMAIN Calls(a)
      BY <1>1
    <3>4. m(i) \in DOMAIN Fresh(a)
      BY ONLY FreshObject, a \in Algorithms, <3>3 DEF m
    <3> HIDE DEF g, h, c, m
    <3> QED  BY ONLY <3>1, <3>2, <3>4
  <2> HIDE DEF g, h, c, m, og, oh
  <2>2. og = [g EXCEPT ![c.member] = Called(g, items, c).value] /\ oh = [h EXCEPT ![c.member] = Called(h, items, c).value]
    BY <1>2, <1>6 DEF og, oh
  <2> QED  BY <1>7, <2>1, <2>2
<1>9. ASSUME NEW i \in 1 .. n  PROVE LikeNew(f, Calls(a)[i], og[m(i)], oh[m(i)])
  <2>1. CASE i = n
    <3> HIDE DEF og, oh
    <3> QED  BY <1>5, <1>8, <2>1
  <2>2. CASE i # n
    <3>1. i \in 1 .. n - 1 /\ i \in 1 .. L
      BY <1>1, <2>2
    <3>2. LikeNew(f, Calls(a)[i], g[m(i)], h[m(i)])
      BY <1>a, <3>1
    <3>3. og[m(i)] = g[m(i)] /\ oh[m(i)] = h[m(i)]
      BY <1>8, <2>2, <3>1
    <3> HIDE DEF og, oh, g, h, m
    <3> QED  BY <3>2, <3>3
  <2> QED  BY <2>1, <2>2
<1>10. ASSUME NEW i \in n + 1 .. L  PROVE oh[m(i)] = Fresh(a)[m(i)]
  <2>1. i \in n .. L /\ i \in 1 .. L /\ i # n
    BY <1>1
  <2>2. h[m(i)] = Fresh(a)[m(i)]
    BY <1>a, <2>1
  <2>3. oh[m(i)] = h[m(i)]
    BY <1>8, <2>1
  <2> HIDE DEF oh, h
  <2> QED  BY <2>2, <2>3
<1> QED
  BY <1>6, <1>9, <1>10, Zenon

\* Whatever has been made of an object, configure() leaves of it what a new one would be, if it
\* does not throw.
LEMMA ConfiguredLikeNew ==
  ASSUME NEW f \in Runnable, NEW o, Object(o, AlgorithmOf(f))
  PROVE  LET a == AlgorithmOf(f)
             configured == Configure(o, Items(f), a)
         IN  /\ Object(configured.object, a)
             /\ configured.ok => \A c \in ToSet(Calls(a)) : LikeNew(f, c, configured.object[c.member], AsNew(f)[c.member])
             /\ configured.ok => Configure(Fresh(a), Items(f), a).ok
<1> DEFINE a == AlgorithmOf(f)
           L == Len(Calls(a))
           items == Items(f)
           m(i) == Calls(a)[i].member
<1>1. a \in Algorithms /\ f \in DOMAIN Files
  BY DEF Runnable
<1>2. AsNew(f) = Configure(Fresh(a), items, a).object
  BY DEF AsNew, AllAsNew
<1> HIDE DEF a, items
<1>3. PICK g : Steps(g, o, items, a) /\ Configure(o, items, a) = g[L]
  BY <1>1, ConfigureSteps
<1>4. PICK h : Steps(h, Fresh(a), items, a) /\ Configure(Fresh(a), items, a) = h[L]
  BY <1>1, ConfigureSteps
<1>5. L \in Nat /\ DOMAIN Calls(a) = 1 .. L
  BY <1>1, CallsShaped DEF Shaped
<1> HIDE DEF L
<1>6. /\ g[0] = [ok |-> TRUE, object |-> o] /\ h[0] = [ok |-> TRUE, object |-> Fresh(a)]
      /\ \A n \in 1 .. L : g[n] = Turn(g[n - 1], items, Calls(a)[n]) /\ h[n] = Turn(h[n - 1], items, Calls(a)[n])
  BY <1>3, <1>4 DEF Steps, L
<1> DEFINE P(n) == /\ Object(g[n].object, a) /\ Object(h[n].object, a)
                   /\ Alike(f, a, n, g[n], h[n])
           T == {n \in 0 .. L : P(n)}
<1>7. 0 \in T
  <2>1. g[0].object = o /\ h[0].object = Fresh(a) /\ h[0].ok
    BY <1>6
  <2>2. Object(g[0].object, a) /\ Object(h[0].object, a)
    BY <1>1, <2>1, FreshObject DEF a
  <2>3. Alike(f, a, 0, g[0], h[0])
    BY <2>1 DEF Alike
  <2>4. P(0)
    BY <2>2, <2>3
  <2> HIDE DEF P
  <2> QED  BY <1>5, <2>4
<1>8. ASSUME NEW n \in 1 .. L, n - 1 \in T  PROVE n \in T
  <2>1. P(n - 1) /\ n - 1 \in 0 .. L
    BY <1>8, Zenon
  <2>2. n \in DOMAIN Calls(a) /\ n \in 0 .. L /\ (n - 1) + 1 = n
    BY <1>5
  <2>3. g[n] = Turn(g[n - 1], items, Calls(a)[n]) /\ h[n] = Turn(h[n - 1], items, Calls(a)[n])
    BY <1>6
  <2>4. Object(g[n].object, a) /\ Object(h[n].object, a)
    BY <1>1, <2>1, <2>2, <2>3, TurnObject DEF items
  <2>5. Alike(f, a, n, g[n], h[n])
    <3>1. Alike(f, a, n - 1, g[n - 1], h[n - 1]) /\ Object(g[n - 1].object, a) /\ Object(h[n - 1].object, a)
      BY <2>1
    <3>2. Alike(f, a, n, Turn(g[n - 1], Items(f), Calls(a)[n]), Turn(h[n - 1], Items(f), Calls(a)[n]))
      BY ONLY <1>1, <2>2, <3>1, TurnLike
    <3> QED  BY ONLY <2>3, <3>2 DEF items
  <2>6. P(n)
    BY <2>4, <2>5
  <2> HIDE DEF P
  <2> QED  BY <2>2, <2>6
<1>9. P(L)
  <2> HIDE DEF T
  <2>1. 0 .. L \subseteq T
    BY <1>5, <1>7, <1>8, IntervalInduction
  <2>2. L \in T
    BY <1>5, <2>1
  <2> QED  BY <2>2 DEF T
<1>10. ASSUME g[L].ok, NEW c \in ToSet(Calls(a))
       PROVE  LikeNew(f, c, g[L].object[c.member], h[L].object[c.member])
  <2>1. PICK i \in 1 .. L : c = Calls(a)[i]
    BY <1>5 DEF ToSet
  <2>2. Alike(f, a, L, g[L], h[L])
    BY <1>9
  <2>3. LikeNew(f, Calls(a)[i], g[L].object[Calls(a)[i].member], h[L].object[Calls(a)[i].member])
    BY ONLY <1>10, <2>1, <2>2 DEF Alike
  <2> QED  BY ONLY <2>1, <2>3
<1>11. g[L].ok => h[L].ok
  BY <1>9 DEF Alike
<1> QED
  BY <1>2, <1>3, <1>4, <1>9, <1>10, <1>11 DEF a, items

-----------------------------------------------------------------------------
(* NothingLeftOver.                                                       *)

\* The inductive invariant: objects keep their members, and a run is of a file that can be run.
LeftInv ==
    /\ objects = [a \in Algorithms |-> objects[a]]
    /\ \A a \in Algorithms : Object(objects[a], a)
    /\ pc # "idle" => file \in Runnable
    /\ NothingLeftOver

\* It holds of new objects, before any run.
LEMMA LeftInit == Init => LeftInv
<1> SUFFICES ASSUME Init PROVE LeftInv
  OBVIOUS
<1>1. objects = [a \in Algorithms |-> Fresh(a)] /\ pc = "idle"
  BY DEF Init
<1>2. objects = [a \in Algorithms |-> objects[a]]
  BY <1>1
<1>3. ASSUME NEW a \in Algorithms  PROVE Object(objects[a], a)
  <2>1. objects[a] = Fresh(a)
    BY <1>1
  <2> QED  BY <2>1, FreshObject
<1> QED
  BY <1>1, <1>2, <1>3 DEF LeftInv, NothingLeftOver

\* As long as no file is selected nothing is configured.
LEMMA Unconfigured ==
  ASSUME LeftInv, objects' = objects, pc' = "idle" \/ (pc # "idle" /\ file' = file)  PROVE LeftInv'
<1>1. \A a \in Algorithms : Object(objects'[a], a)
  BY DEF LeftInv
<1>2. objects' = [a \in Algorithms |-> objects'[a]]
  BY DEF LeftInv
<1>3. CASE pc' = "idle"
  BY <1>1, <1>2, <1>3 DEF LeftInv, NothingLeftOver
<1>4. CASE pc # "idle" /\ file' = file
  <2>1. file' \in Runnable
    BY <1>4 DEF LeftInv
  <2>2. NothingLeftOver'
    BY <1>4 DEF LeftInv, NothingLeftOver, object, algorithm
  <2> QED
    BY <1>1, <1>2, <2>1, <2>2 DEF LeftInv
<1> QED
  BY <1>3, <1>4

\* A run that ends early leaves the objects as they are.
LEMMA Idles ==
  ASSUME objects = [a \in Algorithms |-> objects[a]], Idle(object)
  PROVE  objects' = objects /\ pc' = "idle" /\ pids' = <<>> /\ list' = {} /\ work' = Nothing
<1>1. /\ objects' = [objects EXCEPT ![algorithm] = objects[algorithm]]
      /\ pc' = "idle" /\ pids' = <<>> /\ list' = {} /\ work' = Nothing
  BY DEF Idle, object
<1> QED
  BY ONLY <1>1, objects = [a \in Algorithms |-> objects[a]]

\* AlgorithmDispatcher::select configures the object of the algorithm that the file names.
LEMMA SelectLeft ==
  ASSUME LeftInv, NEW f \in files, Select(f)  PROVE LeftInv'
<1> DEFINE a == AlgorithmOf(f)
           configured == Configure(objects[a], Items(f), a)
<1>1. f \in Runnable /\ file' = f
  BY DEF Select
<1>2. a \in Algorithms
  BY <1>1 DEF Runnable
<1>3. objects' = [objects EXCEPT ![a] = configured.object] /\ (pc' # "idle" => configured.ok)
  BY DEF Select, Configured
<1>4. /\ Object(configured.object, a)
      /\ configured.ok => \A c \in ToSet(Calls(a)) : LikeNew(f, c, configured.object[c.member], AsNew(f)[c.member])
  <2>1. Object(objects[a], a)
    BY <1>2 DEF LeftInv
  <2> QED  BY <1>1, <2>1, ConfiguredLikeNew
<1> HIDE DEF configured, a
<1>5. objects' = [b \in Algorithms |-> objects'[b]] /\ objects'[a] = configured.object
      /\ \A b \in Algorithms : b # a => objects'[b] = objects[b]
  BY <1>2, <1>3 DEF LeftInv
<1>6. \A b \in Algorithms : Object(objects'[b], b)
  <2>1. ASSUME NEW b \in Algorithms  PROVE Object(objects'[b], b)
    BY <1>4, <1>5 DEF LeftInv
  <2> QED  BY <2>1
<1>7. ASSUME pc' # "idle"
      PROVE  \A c \in ToSet(Calls(algorithm')) : LikeNew(file', c, object'[c.member], AsNew(file')[c.member])
  <2>1. algorithm' = a /\ object' = configured.object
    BY <1>1, <1>5 DEF algorithm, object, a
  <2>2. configured.ok
    BY <1>3, <1>7
  <2> QED
    BY <1>1, <1>4, <2>1, <2>2
<1> QED
  BY <1>1, <1>5, <1>6, <1>7 DEF LeftInv, NothingLeftOver

\* Every step keeps the invariant.
LEMMA LeftStep == LeftInv /\ [Next]_vars => LeftInv'
<1> SUFFICES ASSUME LeftInv, [Next]_vars PROVE LeftInv'
  OBVIOUS
<1>1. ASSUME NEW f \in files, Select(f)  PROVE LeftInv'
  BY <1>1, SelectLeft
<1>2. CASE ReadRows
  BY <1>2, Unconfigured DEF ReadRows
<1>3. CASE ReadRefused
  BY <1>3, Idles, Unconfigured DEF ReadRefused, LeftInv
<1>4. ASSUME NEW e \in list, CompareRows(e) \/ CompareNeighbours(e)  PROVE LeftInv'
  <2>1. pc # "idle" /\ UNCHANGED <<objects, file>>
    BY <1>4 DEF CompareRows, CompareNeighbours, Due
  <2> QED  BY <2>1, Unconfigured
<1>5. ASSUME \/ \E curve \in CurveValues : TryAkima(curve)
             \/ StoreChanges
      PROVE  LeftInv'
  <2>1. UNCHANGED <<objects, pc, file>>
    BY <1>5 DEF TryAkima, StoreChanges
  <2> QED  BY <2>1, Unconfigured
<1>6. CASE CheckLimits
  BY <1>6, Unconfigured DEF CheckLimits
<1>7. CASE EndRows
  BY <1>7, Unconfigured DEF EndRows
<1>8. CASE EndRun
  BY <1>8, Unconfigured DEF EndRun
<1>9. ASSUME NEW l \in Late, Observe(l[1], l[2])  PROVE LeftInv'
  <2>1. UNCHANGED <<files, objects, runVars>>
    BY <1>9 DEF Observe
  <2> QED  BY <2>1, Unconfigured DEF runVars
<1>10. ASSUME NEW k \in HqcKeys, Hqc(k)  PROVE LeftInv'
  <2>1. UNCHANGED <<files, objects, runVars>>
    BY <1>10 DEF Hqc
  <2> QED  BY <2>1, Unconfigured DEF runVars
<1>11. CASE Abort
  BY <1>11, Idles, Unconfigured DEF Abort, LeftInv
<1>12. CASE UNCHANGED vars
  BY <1>12, Unconfigured DEF vars, runVars
<1> QED
  BY <1>1, <1>2, <1>3, <1>4, <1>5, <1>6, <1>7, <1>8, <1>9, <1>10, <1>11, <1>12 DEF Next

\* Whatever files have been run before, and wherever a configure() has thrown, an object that goes
\* into a run has the members that a new one would have been given by the same file, but for the
\* halves of flag sets, deltas and parameters that NothingLeftOver excepts
\* (AlgorithmDispatcher::select, the configure() of all algorithms, AlgorithmConfig.cc).
THEOREM ConfiguredAsNew == Spec => []NothingLeftOver
<1>1. LeftInv => NothingLeftOver
  BY DEF LeftInv
<1> QED
  BY LeftInit, LeftStep, <1>1, PTL DEF Spec

-----------------------------------------------------------------------------
(* The texts that are used for flags that a file does not set.             *)

Digits(t) == t.values \subseteq FlagValue

\* A term names digits.
LEMMA TermDigits ==
  ASSUME NEW f, NEW v \in SUBSET (0 .. 15)
  PROVE  Digits(Is(f, v)) /\ Digits(IsNot(f, v))
BY FlagsAssumption DEF Is, IsNot, Digits

\* Texts without terms.
LEMMA NoTermText == FlagText(Text(<<>>)) /\ FlagText(NeverText)
BY DEF FlagText, Text, NeverText

\* Texts with a term.
LEMMA OneTermText == ASSUME NEW x, Digits(x) PROVE FlagText(Text(<<x>>))
BY DEF FlagText, Text, Digits

\* With two.
LEMMA TwoTermText == ASSUME NEW x, Digits(x), NEW y, Digits(y) PROVE FlagText(Text(<<x, y>>))
BY DEF FlagText, Text, Digits

\* With three.
LEMMA ThreeTermText ==
  ASSUME NEW x, Digits(x), NEW y, Digits(y), NEW z, Digits(z)
  PROVE  FlagText(Text(<<x, y, z>>))
BY DEF FlagText, Text, Digits

\* A call whose defaults can be read.
Texts(c) ==
    /\ c.kind = "flags" => FlagTexts(c.control) /\ FlagTexts(c.use)
    /\ c.kind = "change" => ChangeTexts(c.dflt)

\* Calls for numbers and lists have no default text.
LEMMA OtherTexts ==
  ASSUME NEW member, NEW name, NEW dflt
  PROVE  /\ Texts(Default(member, name, dflt))
         /\ \A kind \in Kinds \ {"flags", "change"} : Texts(Simple(kind, member, name))
BY DEF Texts, Default, Simple

\* A flag set with defaults that can be read.
LEMMA FlagSetTexts ==
  ASSUME NEW member, NEW name, NEW control, FlagTexts(control), NEW use, FlagTexts(use)
  PROVE  Texts(FlagSet(member, name, control, use))
BY DEF Texts, FlagSet

\* No default.
LEMMA NoTexts == FlagTexts(<<>>)
BY DEF FlagTexts, List

\* One alternative.
LEMMA OneText == ASSUME NEW x, FlagText(x) PROVE FlagTexts(<<x>>)
BY DEF FlagTexts, List

\* Two alternatives.
LEMMA TwoTexts == ASSUME NEW x, FlagText(x), NEW y, FlagText(y) PROVE FlagTexts(<<x, y>>)
BY DEF FlagTexts, List

\* Four alternatives.
LEMMA FourTexts ==
  ASSUME NEW x, FlagText(x), NEW y, FlagText(y), NEW z, FlagText(z), NEW w, FlagText(w)
  PROVE  FlagTexts(<<x, y, z, w>>)
BY DEF FlagTexts, List

\* A flag change with a default of one, two or three pairs.
LEMMA FlagChangeTexts ==
  ASSUME NEW member, NEW name, NEW x, NEW u, FlagText(Text(x)), NEW y, NEW v, FlagText(Text(y)),
         NEW z, NEW w, FlagText(Text(z))
  PROVE  /\ Texts(FlagChange(member, name, <<Change(x, u)>>))
         /\ Texts(FlagChange(member, name, <<Change(x, u), Change(y, v)>>))
         /\ Texts(FlagChange(member, name, <<Change(x, u), Change(y, v), Change(z, w)>>))
<1>1. ChangeTexts(<<Change(x, u)>>)
  BY DEF ChangeTexts, List, Change
<1>2. ChangeTexts(<<Change(x, u), Change(y, v)>>)
  BY DEF ChangeTexts, List, Change
<1>3. ChangeTexts(<<Change(x, u), Change(y, v), Change(z, w)>>)
  BY DEF ChangeTexts, List, Change
<1> QED
  BY <1>1, <1>2, <1>3 DEF Texts, FlagChange

\* The defaults of DipTest can be read,
LEMMA DipTestTexts == \A i \in 1 .. 10 : Texts(DipTestCalls[i])
<1>1. /\ FlagText(Text(<<Is("U2", {0})>>)) /\ FlagText(Text(<<Is("fs", {1})>>))
      /\ FlagText(Text(<<IsNot("fs", {0, 1, 2, 9})>>)) /\ FlagText(Text(<<IsNot("fs", {0, 1})>>))
      /\ FlagText(Text(<<IsNot("fhqc", {0})>>))
  BY TermDigits, OneTermText
<1>2. FlagText(Text(<<Is("fs", {2}), Is("fhqc", {0})>>))
  <2>1. Digits(Is("fs", {2})) /\ Digits(Is("fhqc", {0}))
    BY TermDigits
  <2> QED  BY <2>1, TwoTermText
<1>3. /\ FlagTexts(<<Text(<<Is("U2", {0})>>)>>) /\ FlagTexts(<<Text(<<Is("fs", {1})>>)>>)
      /\ FlagTexts(<<Text(<<IsNot("fs", {0, 1, 2, 9})>>)>>) /\ FlagTexts(<<Text(<<Is("fs", {2}), Is("fhqc", {0})>>)>>)
  BY <1>1, <1>2, OneText
<1>4. FlagTexts(<<Text(<<IsNot("fs", {0, 1})>>), Text(<<IsNot("fhqc", {0})>>)>>)
  BY <1>1, TwoTexts
<1>5. /\ Texts(Simple("window", "window", "Start")) /\ Texts(Simple("delta", "PidValMap", "ParValFilename"))
  BY OtherTexts DEF Kinds
<1>6. /\ Texts(FlagSet("akima_flags", "akima", <<>>, <<Text(<<Is("U2", {0})>>)>>))
      /\ Texts(FlagSet("candidate_flags", "candidate", <<Text(<<Is("fs", {2}), Is("fhqc", {0})>>)>>, <<>>))
      /\ Texts(FlagSet("dip_before_flags", "dip_before", <<Text(<<Is("fs", {1})>>)>>, <<>>))
      /\ Texts(FlagSet("dip_after_flags", "dip_after", <<Text(<<Is("fs", {2}), Is("fhqc", {0})>>)>>, <<>>))
      /\ Texts(FlagSet("message_before_flags", "message_before", <<Text(<<IsNot("fs", {0, 1, 2, 9})>>)>>, <<>>))
      /\ Texts(FlagSet("message_after_flags", "message_after",
                       <<Text(<<IsNot("fs", {0, 1})>>), Text(<<IsNot("fhqc", {0})>>)>>, <<>>))
  BY <1>3, <1>4, NoTexts, FlagSetTexts
<1>7. /\ Texts(FlagChange("dip_flagchange", "dip_flagchange", <<Change(<<>>, <<Set("fs", 9)>>)>>))
      /\ Texts(FlagChange("afterdip_flagchange", "afterdip_flagchange", <<Change(<<>>, <<Set("fs", 4)>>)>>))
  BY NoTermText, FlagChangeTexts
<1> QED
  BY <1>5, <1>6, <1>7 DEF DipTestCalls

\* those of SingleLinear,
LEMMA SingleLinearTexts == \A i \in 1 .. 6 : Texts(SingleLinearCalls[i])
<1>1. /\ Digits(Is("ftime", {0})) /\ Digits(Is("fmis", {1, 2, 3, 4})) /\ Digits(Is("fhqc", {0}))
      /\ Digits(Is("ftime", {1})) /\ Digits(Is("fmis", {1, 4})) /\ Digits(Is("U0", {3, 7})) /\ Digits(Is("U2", {0}))
  BY TermDigits
<1>2. /\ FlagText(Text(<<Is("ftime", {0}), Is("fmis", {1, 2, 3, 4}), Is("fhqc", {0})>>))
      /\ FlagText(Text(<<Is("ftime", {1}), Is("fmis", {1, 4}), Is("fhqc", {0})>>))
      /\ FlagText(Text(<<Is("U0", {3, 7}), Is("U2", {0})>>))
  BY <1>1, TwoTermText, ThreeTermText
<1>3. /\ FlagText(Text(<<Is("fmis", {0})>>)) /\ FlagText(Text(<<Is("fmis", {1})>>))
      /\ FlagText(Text(<<Is("fmis", {2})>>)) /\ FlagText(Text(<<Is("fmis", {3})>>))
      /\ FlagText(Text(<<Is("fmis", {4})>>))
  BY TermDigits, OneTermText
<1>4. /\ FlagTexts(<<Text(<<Is("ftime", {0}), Is("fmis", {1, 2, 3, 4}), Is("fhqc", {0})>>),
                     Text(<<Is("ftime", {1}), Is("fmis", {1, 4}), Is("fhqc", {0})>>)>>)
      /\ FlagTexts(<<Text(<<Is("fmis", {0})>>)>>) /\ FlagTexts(<<Text(<<Is("U0", {3, 7}), Is("U2", {0})>>)>>)
  BY <1>2, <1>3, OneText, TwoTexts
<1>5. Texts(Simple("window", "window", "Start")) /\ Texts(Simple("multi", "pids", "ParamId"))
  BY OtherTexts DEF Kinds
<1>6. /\ Texts(FlagSet("missing_flags", "missing",
              <<Text(<<Is("ftime", {0}), Is("fmis", {1, 2, 3, 4}), Is("fhqc", {0})>>),
                Text(<<Is("ftime", {1}), Is("fmis", {1, 4}), Is("fhqc", {0})>>)>>, <<>>))
      /\ Texts(FlagSet("neighbor_flags", "neighbor", <<Text(<<Is("fmis", {0})>>)>>,
              <<Text(<<Is("U0", {3, 7}), Is("U2", {0})>>)>>))
  BY <1>4, NoTexts, FlagSetTexts
<1>7. /\ Texts(FlagChange("ftime0_flagchange", "ftime0_flagchange",
                 <<Change(<<>>, <<Set("ftime", 1)>>), Change(<<Is("fmis", {3})>>, <<Set("fmis", 1)>>),
                   Change(<<Is("fmis", {2})>>, <<Set("fmis", 4)>>)>>))
      /\ Texts(FlagChange("ftime1_flagchange", "ftime1_flagchange",
                 <<Change(<<Is("fmis", {1})>>, <<Set("fmis", 3)>>),
                   Change(<<Is("fmis", {4})>>, <<Set("fmis", 2)>>)>>))
  BY <1>3, NoTermText, FlagChangeTexts
<1> QED
  BY <1>5, <1>6, <1>7 DEF SingleLinearCalls

\* of AggregatorLimits,
LEMMA AggregatorLimitsTexts == \A i \in 1 .. 5 : Texts(AggregatorLimitsCalls[i])
<1>1. Digits(IsNot("fr", {6})) /\ Digits(Is("fmis", {0, 1, 4}))
  BY TermDigits
<1>2. FlagTexts(<<Text(<<IsNot("fr", {6}), Is("fmis", {0, 1, 4})>>)>>)
  BY <1>1, TwoTermText, OneText
<1>3. /\ Texts(Simple("limits", "mLimits", "param_limits")) /\ Texts(Simple("window", "window", "Start"))
  BY OtherTexts DEF Kinds
<1>4. Texts(FlagSet("mFlags", "aggregation", <<Text(<<IsNot("fr", {6}), Is("fmis", {0, 1, 4})>>)>>, <<>>))
  BY <1>2, NoTexts, FlagSetTexts
<1>5. /\ Texts(FlagChange("mFlagChangeMin", "aggregation_flagchange_min", <<Change(<<>>, <<Set("fr", 6)>>)>>))
      /\ Texts(FlagChange("mFlagChangeMax", "aggregation_flagchange_max", <<Change(<<>>, <<Set("fr", 6)>>)>>))
  BY NoTermText, FlagChangeTexts
<1> QED
  BY <1>3, <1>4, <1>5 DEF AggregatorLimitsCalls

\* of GapInterpolation,
LEMMA GapInterpolationTexts == \A i \in 1 .. 11 : Texts(GapInterpolationCalls[i])
<1>1. /\ Digits(Is("ftime", {0})) /\ Digits(Is("fmis", {1, 2, 3})) /\ Digits(Is("fhqc", {0}))
      /\ Digits(Is("ftime", {0, 1, 2})) /\ Digits(Is("fmis", {0, 2, 4})) /\ Digits(Is("U2", {0}))
      /\ Digits(Is("fmis", {3})) /\ Digits(Is("fmis", {0, 2}))
  BY TermDigits
<1>2. /\ FlagText(Text(<<Is("ftime", {0}), Is("fmis", {1, 2, 3}), Is("fhqc", {0})>>))
      /\ FlagText(Text(<<Is("ftime", {0, 1, 2}), Is("fmis", {0, 2, 4})>>))
      /\ FlagText(Text(<<Is("U2", {0})>>)) /\ FlagText(Text(<<Is("fmis", {3})>>)) /\ FlagText(Text(<<Is("fmis", {0, 2})>>))
  BY <1>1, OneTermText, TwoTermText, ThreeTermText
<1>3. /\ FlagTexts(<<Text(<<Is("ftime", {0}), Is("fmis", {1, 2, 3}), Is("fhqc", {0})>>)>>)
      /\ FlagTexts(<<Text(<<Is("ftime", {0, 1, 2}), Is("fmis", {0, 2, 4})>>)>>)
      /\ FlagTexts(<<Text(<<Is("U2", {0})>>)>>)
  BY <1>2, OneText
<1>4. /\ Texts(Simple("window", "window", "Start")) /\ Texts(Simple("multi", "tids", "TypeId"))
      /\ Texts(Default("mRAThreshold", "RA_threshold", 500)) /\ Texts(Simple("infos", "mParameterInfos", "Parameter"))
  BY OtherTexts DEF Kinds
<1>5. /\ Texts(FlagSet("missing_flags", "missing",
              <<Text(<<Is("ftime", {0}), Is("fmis", {1, 2, 3}), Is("fhqc", {0})>>)>>, <<>>))
      /\ Texts(FlagSet("mNeighborFlags", "neighbors", <<>>, <<Text(<<Is("U2", {0})>>)>>))
      /\ Texts(FlagSet("mDataFlagsUUTA", "data_UU_TA",
              <<Text(<<Is("ftime", {0, 1, 2}), Is("fmis", {0, 2, 4})>>)>>, <<>>))
  BY <1>3, NoTexts, FlagSetTexts
<1>6. /\ Texts(FlagChange("missing_flagchange_good", "missing_flagchange_good", <<Change(<<>>, <<Set("ftime", 1)>>)>>))
      /\ Texts(FlagChange("missing_flagchange_bad", "missing_flagchange_bad", <<Change(<<>>, <<Set("ftime", 2)>>)>>))
      /\ Texts(FlagChange("missing_flagchange_failed", "missing_flagchange_failed", <<Change(<<>>, <<Set("ftime", 3)>>)>>))
      /\ Texts(FlagChange("missing_flagchange_common", "missing_flagchange_common",
                 <<Change(<<Is("fmis", {3})>>, <<Set("fmis", 1)>>),
                   Change(<<Is("fmis", {0, 2})>>, <<Set("fmis", 4)>>)>>))
  BY <1>2, NoTermText, FlagChangeTexts
<1> QED
  BY <1>4, <1>5, <1>6 DEF GapInterpolationCalls

\* of Redistribute,
LEMMA RedistributeTexts == \A i \in 1 .. 16 : Texts(RedistributeCalls[i])
<1>1. /\ Digits(Is("fmis", {0, 4})) /\ Digits(Is("fd", {2, 6, 7})) /\ Digits(Is("fmis", {3})) /\ Digits(Is("fd", {2}))
      /\ Digits(Is("fmis", {1})) /\ Digits(Is("fd", {6, 7})) /\ Digits(Is("fd", {1})) /\ Digits(Is("U2", {0}))
  BY TermDigits
<1>2. /\ FlagText(Text(<<Is("fmis", {0, 4}), Is("fd", {2, 6, 7})>>)) /\ FlagText(Text(<<Is("fmis", {3}), Is("fd", {2})>>))
      /\ FlagText(Text(<<Is("fmis", {1}), Is("fd", {6, 7})>>)) /\ FlagText(Text(<<Is("fd", {1})>>))
      /\ FlagText(Text(<<Is("U2", {0})>>)) /\ FlagText(Text(<<Is("fmis", {3})>>))
  BY <1>1, OneTermText, TwoTermText
<1>3. /\ FlagTexts(<<Text(<<Is("fmis", {0, 4}), Is("fd", {2, 6, 7})>>)>>)
      /\ FlagTexts(<<Text(<<Is("fmis", {3}), Is("fd", {2})>>), Text(<<Is("fmis", {1}), Is("fd", {6, 7})>>)>>)
      /\ FlagTexts(<<Text(<<Is("fd", {1})>>)>>) /\ FlagTexts(<<Text(<<Is("U2", {0})>>)>>) /\ FlagTexts(<<NeverText>>)
  BY <1>2, NoTermText, OneText, TwoTexts
<1>4. /\ Texts(Simple("window", "window", "Start")) /\ Texts(Simple("multi", "pids", "ParamId"))
      /\ Texts(Simple("multi", "tids", "TypeIds"))
  BY OtherTexts DEF Kinds
<1>5. /\ Texts(Default("mMinNeighbors", "min_neighbors", 1)) /\ Texts(Default("mMaxNeighbors", "max_neighbors", 5))
      /\ Texts(Default("mDaysBeforeNoNeighborWarning", "days_before_no_neighbor_warning", 14))
      /\ Texts(Default("mDaysBeforeRedistributingZeroesWarning", "days_before_redistributing_zeroes_warning", 14))
      /\ Texts(Default("mMeasurementHour", "measurement_hour", 6))
      /\ Texts(Default("mInterpolationLimit", "InterpolationDistance", 100))
      /\ Texts(Default("mWarnClosest", "warning_distance_closest_neighbor", 50))
  BY OtherTexts
<1>6. /\ Texts(FlagSet("endpoint_flags", "endpoint", <<Text(<<Is("fmis", {0, 4}), Is("fd", {2, 6, 7})>>)>>, <<>>))
      /\ Texts(FlagSet("missingpoint_flags", "missingpoint",
              <<Text(<<Is("fmis", {3}), Is("fd", {2})>>), Text(<<Is("fmis", {1}), Is("fd", {6, 7})>>)>>, <<>>))
      /\ Texts(FlagSet("neighbor_flags", "neighbor", <<Text(<<Is("fd", {1})>>)>>, <<Text(<<Is("U2", {0})>>)>>))
      /\ Texts(FlagSet("warn_and_stop_flags", "warn_and_stop", <<NeverText>>, <<>>))
  BY <1>3, NoTexts, FlagSetTexts
<1>7. /\ Texts(FlagChange("update_flagchange", "update_flagchange",
                 <<Change(<<>>, <<Set("fd", 7)>>), Change(<<Is("fmis", {3})>>, <<Set("fmis", 1)>>)>>))
      /\ Texts(FlagChange("endpoint_flagchange", "endpoint_flagchange",
                 <<Change(<<>>, <<Set("fd", 7)>>), Change(<<Is("fmis", {3})>>, <<Set("fmis", 1)>>)>>))
  BY <1>2, NoTermText, FlagChangeTexts
<1> QED
  BY <1>4, <1>5, <1>6, <1>7 DEF RedistributeCalls, Neighbors

\* and of Plumatic.
LEMMA PlumaticTexts == \A i \in 1 .. 23 : Texts(PlumaticCalls[i])
<1>1. /\ Digits(Is("fr", {9})) /\ Digits(IsNot("fhqc", {1})) /\ Digits(Is("fs", {8})) /\ Digits(Is("fmis", {2}))
      /\ Digits(Is("fhqc", {10})) /\ Digits(Is("U2", {0})) /\ Digits(NotCorrected)
  BY TermDigits DEF NotCorrected
<1>2. /\ FlagText(Text(<<Is("fr", {9}), IsNot("fhqc", {1})>>)) /\ FlagText(Text(<<Is("fs", {8}), IsNot("fhqc", {1})>>))
      /\ FlagText(Text(<<Is("fmis", {2}), IsNot("fhqc", {1})>>)) /\ FlagText(Text(<<Is("fhqc", {10})>>))
      /\ FlagText(Text(<<Is("U2", {0})>>)) /\ FlagText(Text(<<NotCorrected>>))
  BY <1>1, OneTermText, TwoTermText
<1>3. /\ FlagTexts(<<Text(<<Is("fr", {9}), IsNot("fhqc", {1})>>), Text(<<Is("fs", {8}), IsNot("fhqc", {1})>>),
                     Text(<<Is("fmis", {2}), IsNot("fhqc", {1})>>), Text(<<Is("fhqc", {10})>>)>>)
      /\ FlagTexts(<<Text(<<Is("U2", {0})>>)>>)
  BY <1>2, OneText, FourTexts
<1>4. /\ Texts(Simple("window", "window", "Start")) /\ Texts(Simple("one", "pid", "ParamId"))
      /\ Texts(Simple("types", "mTypeIds", "TypeId")) /\ Texts(Simple("stations", "mStationlist", "stations"))
      /\ Texts(Simple("alarms", "mSlidingAlarms", "sliding_alarms")) /\ Texts(Simple("extended", "UT0extended", "Start"))
  BY OtherTexts DEF Kinds
<1>5. /\ Texts(Default("mThresholdDry", "threshold_dry", 5)) /\ Texts(Default("mThresholdWet", "threshold_wet", 30))
      /\ Texts(Default("mVippsUnlikelySingle", "vipps_unlikely_single", 3))
      /\ Texts(Default("mVippsUnlikelyStart", "vipps_unlikely_start", 3))
      /\ Texts(Default("mVippsRainInterrupt", "vipps_rain_interrupt", 3))
      /\ Texts(Default("mMaxRainInterrupt", "rain_interrupt_max", 4))
      /\ Texts(Default("mMinRainBeforeAndAfter", "rain_interrupt_before_after", 2))
      /\ Texts(Default("mInterpolationLimit", "InterpolationDistance", 100))
      /\ Texts(Default("mWarnClosest", "warning_distance_closest_neighbor", 50))
  BY OtherTexts
<1>6. /\ Texts(FlagSet("discarded_flags", "discarded",
              <<Text(<<Is("fr", {9}), IsNot("fhqc", {1})>>), Text(<<Is("fs", {8}), IsNot("fhqc", {1})>>),
                Text(<<Is("fmis", {2}), IsNot("fhqc", {1})>>), Text(<<Is("fhqc", {10})>>)>>, <<>>))
      /\ Texts(FlagSet("neighbor_flags", "neighbor", <<>>, <<Text(<<Is("U2", {0})>>)>>))
  BY <1>3, NoTexts, FlagSetTexts
<1>7. /\ Texts(FlagChange("highstart_flagchange", "highstart_flagchange", Discarded))
      /\ Texts(FlagChange("highsingle_flagchange", "highsingle_flagchange", Discarded))
      /\ Texts(FlagChange("interruptedrain_flagchange", "interruptedrain_flagchange", Discarded))
      /\ Texts(FlagChange("fc_no_neighbors", "no_neighbors_flagchange", <<Change(<<NotCorrected>>, <<Set("fw", 0)>>)>>))
      /\ Texts(FlagChange("fc_neighbors_ok", "neighbors_ok_flagchange", <<Change(<<NotCorrected>>, <<Set("fw", 1)>>)>>))
      /\ Texts(FlagChange("fc_neighbors_suspicious", "neighbors_suspicious_flagchange",
                 <<Change(<<NotCorrected>>, <<Set("fw", 3)>>)>>))
  BY <1>2, FlagChangeTexts DEF Discarded
<1> QED
  BY <1>4, <1>5, <1>6, <1>7 DEF PlumaticCalls, Neighbors

\* In all that the algorithms ask for.
LEMMA CallsTexts ==
  ASSUME NEW a \in Algorithms, NEW i \in DOMAIN Calls(a)
  PROVE  Texts(Calls(a)[i])
<1>1. CASE a = "DipTest"
  <2>1. Calls(a) = DipTestCalls /\ DOMAIN DipTestCalls = 1 .. 10
    BY <1>1, DipTestDistinct DEF Calls, AllCalls, Plain, Distinct
  <2> QED  BY <2>1, DipTestTexts
<1>2. CASE a = "SingleLinear"
  <2>1. Calls(a) = SingleLinearCalls /\ DOMAIN SingleLinearCalls = 1 .. 6
    BY <1>2, SingleLinearDistinct DEF Calls, AllCalls, Plain, Distinct
  <2> QED  BY <2>1, SingleLinearTexts
<1>3. CASE a = "AggregatorLimits"
  <2>1. Calls(a) = AggregatorLimitsCalls /\ DOMAIN AggregatorLimitsCalls = 1 .. 5
    BY <1>3, AggregatorLimitsDistinct DEF Calls, AllCalls, Plain, Distinct
  <2> QED  BY <2>1, AggregatorLimitsTexts
<1>4. CASE a = "GapInterpolation"
  <2>1. Calls(a) = GapInterpolationCalls /\ DOMAIN GapInterpolationCalls = 1 .. 11
    BY <1>4, GapInterpolationDistinct DEF Calls, AllCalls, Distinct
  <2> QED  BY <2>1, GapInterpolationTexts
<1>5. CASE a = "Redistribute"
  <2>1. Calls(a) = RedistributeCalls /\ DOMAIN RedistributeCalls = 1 .. 16
    BY <1>5, RedistributeDistinct DEF Calls, AllCalls, Plain, Distinct
  <2> QED  BY <2>1, RedistributeTexts
<1>6. CASE a = "Plumatic"
  <2>1. Calls(a) = PlumaticCalls /\ DOMAIN PlumaticCalls = 1 .. 23
    BY <1>6, PlumaticDistinct DEF Calls, AllCalls, Distinct
  <2> QED  BY <2>1, PlumaticTexts
<1> QED
  BY <1>1, <1>2, <1>3, <1>4, <1>5, <1>6 DEF Algorithms, Elsewhere

-----------------------------------------------------------------------------
(* What the calls yield.                                                   *)

\* The texts of all values of a setting (AlgorithmConfig::getFlagSet).
LEMMA FlagSetRead ==
  ASSUME NEW F, NEW values, List(values), \A i \in DOMAIN values : FlagTexts(values[i].is)
  PROVE  ParseEach(NoPatterns, F, values) \in FlagPatterns(F)
<1> DEFINE L == Len(values)
           D == FlagPatterns(F)
           step == [p \in D \X (1 .. L) |-> ParseMore(p[1], F, values[p[2]].is)]
           Unrolls(f) == f = [n \in 0 .. L |-> IF n = 0 THEN NoPatterns ELSE ParseMore(f[n - 1], F, values[n].is)]
<1>1. L \in Nat /\ DOMAIN values = 1 .. L
  BY ListIs
<1>2. NoPatterns \in D
  BY DEF NoPatterns, Patterns, FlagPatterns
<1>3. ASSUME NEW m \in D, NEW n \in 1 .. L  PROVE ParseMore(m, F, values[n].is) \in D
  <2>1. FlagTexts(values[n].is)
    BY <1>1
  <2>2. ParsePatterns(m, F, values[n].is) \in D
    BY <2>1, PatternsTyped
  <2> QED  BY <2>2 DEF ParseMore
<1> HIDE DEF D, L
<1>4. step \in [D \X (1 .. L) -> D]
  BY <1>3
<1>5. \A d \in D, n \in 1 .. L : step[<<d, n>>] = ParseMore(d, F, values[n].is)
  OBVIOUS
<1> HIDE DEF step
<1>6. PICK h \in [0 .. L -> D] : RecursiveOver(h, L, NoPatterns, step)
  BY <1>1, <1>2, <1>4, Recursion
<1>7. Unrolls(h)
  <2>1. ASSUME NEW n \in 0 .. L
        PROVE  h[n] = IF n = 0 THEN NoPatterns ELSE ParseMore(h[n - 1], F, values[n].is)
    <3>1. CASE n = 0
      BY <1>6, <3>1 DEF RecursiveOver
    <3>2. CASE n # 0
      <4>1. n \in 1 .. L /\ n - 1 \in 0 .. L
        BY <1>1, <3>2
      <4>2. h[n] = step[<<h[n - 1], n>>] /\ h[n - 1] \in D
        BY <1>6, <4>1 DEF RecursiveOver
      <4> QED  BY <1>5, <3>2, <4>1, <4>2
    <3> QED  BY <3>1, <3>2
  <2> QED  BY <2>1
<1> DEFINE g == CHOOSE f : Unrolls(f)
<1>8. Unrolls(g)
  <2> HIDE DEF Unrolls
  <2> QED  BY <1>7, Zenon
<1>9. ParseEach(NoPatterns, F, values) = g[L]
  BY DEF ParseEach, L
<1> HIDE DEF g
<1>10. g[0] = NoPatterns /\ \A n \in 1 .. L : g[n] = ParseMore(g[n - 1], F, values[n].is)
  BY <1>1, <1>8
<1> HIDE DEF Unrolls
<1>11. \A n \in 1 .. L : g[n - 1] \in D => g[n] \in D
  BY <1>3, <1>10
<1>12. \A n \in 0 .. L : g[n] \in D
  BY <1>1, <1>2, <1>10, <1>11, StepsStay
<1>13. g[L] \in D
  BY <1>1, <1>12
<1> QED
  BY <1>9, <1>13 DEF D

\* A half of a flag set, from the file, from the default or as it was.
LEMMA HalfTyped ==
  ASSUME NEW F, NEW m \in FlagPatterns(F), NEW items, NEW key, NEW other, NEW dflt, FlagTexts(dflt),
         List(Values(items, key)), \A i \in DOMAIN Values(items, key) : FlagTexts(Values(items, key)[i].is)
  PROVE  Half(m, items, key, other, F, dflt).set \in FlagPatterns(F)
<1>1. GetFlagSet(m, items, key, F) \in FlagPatterns(F)
  <2> DEFINE v == Values(items, key)
  <2>1. ParseEach(NoPatterns, F, v) \in FlagPatterns(F)
    <3> HIDE DEF v
    <3>1. List(v) /\ \A i \in DOMAIN v : FlagTexts(v[i].is)
      BY DEF v
    <3> QED  BY <3>1, FlagSetRead
  <2> QED  BY <2>1 DEF GetFlagSet
<1>2. ParsePatterns(NoPatterns, F, dflt) \in FlagPatterns(F)
  <2>1. NoPatterns \in FlagPatterns(F)
    BY DEF NoPatterns, Patterns, FlagPatterns
  <2> QED  BY <2>1, PatternsTyped
<1> QED
  BY <1>1, <1>2 DEF Half

\* Both halves, whether one fails or not (AlgorithmConfig::getFlagSetCU).
LEMMA FlagSetCUTyped ==
  ASSUME NEW s \in FlagSetCU, NEW items, NEW name, NEW dfltC, FlagTexts(dfltC), NEW dfltU, FlagTexts(dfltU),
         \A key \in {name \o "_cflags", name \o "_uflags"} :
            List(Values(items, key)) /\ \A i \in DOMAIN Values(items, key) : FlagTexts(Values(items, key)[i].is)
  PROVE  GetFlagSetCU(s, items, name, dfltC, dfltU).value \in FlagSetCU
<1> DEFINE control == name \o "_cflags"
           use == name \o "_uflags"
           C == Half(s.control, items, control, use, ControlFlags, dfltC)
           U == Half(s.use, items, use, control, UseFlags, dfltU)
           none == ~Has(items, control) /\ ~Has(items, use) /\ dfltC = <<>> /\ dfltU = <<>>
<1>1. GetFlagSetCU(s, items, name, dfltC, dfltU) = IF none THEN [ok |-> FALSE, value |-> s] ELSE Halves(s, C, U)
  BY DEF GetFlagSetCU
<1>2. s.control \in FlagPatterns(ControlFlags) /\ s.use \in FlagPatterns(UseFlags)
  BY DEF FlagSetCU
<1>3. C.set \in FlagPatterns(ControlFlags)
  BY <1>2, HalfTyped
<1>4. U.set \in FlagPatterns(UseFlags)
  BY <1>2, HalfTyped
<1> HIDE DEF C, U, none
<1>5. Halves(s, C, U).value = [control |-> C.set, use |-> IF Failed(C) THEN s.use ELSE U.set]
  BY DEF Halves
<1>6. Halves(s, C, U).value \in FlagSetCU
  BY <1>2, <1>3, <1>4, <1>5 DEF FlagSetCU
<1> QED
  BY <1>1, <1>6

\* AlgorithmConfig::getFlagChange: one text after the other.
LEMMA ChangesRead ==
  ASSUME NEW k \in Nat, NEW texts, \A n \in 1 .. k : ChangeTexts(texts[n]), NEW g,
         g = [n \in 0 .. k |-> IF n = 0 THEN <<>> ELSE ParseChange(g[n - 1], texts[n])]
  PROVE  \A n \in 0 .. k : IsFlagChange(g[n])
<1> DEFINE T == {n \in 0 .. k : IsFlagChange(g[n])}
<1>1. 0 \in T
  <2>1. g[0] = <<>>
    OBVIOUS
  <2>2. IsFlagChange(<<>>)
    BY DEF IsFlagChange, List
  <2> QED  BY <2>1, <2>2
<1>2. ASSUME NEW n \in 1 .. k, n - 1 \in T  PROVE n \in T
  <2>1. g[n] = ParseChange(g[n - 1], texts[n]) /\ n \in 0 .. k
    OBVIOUS
  <2>2. IsFlagChange(g[n - 1])
    BY <1>2
  <2>3. IsFlagChange(g[n])
    BY <2>1, <2>2, ChangeTyped
  <2> QED  BY <2>1, <2>3
<1> HIDE DEF T
<1>3. 0 .. k \subseteq T
  BY <1>1, <1>2, IntervalInduction
<1> QED
  BY <1>3 DEF T

\* The recursive function of getFlagChange has a value.
ChangeSteps(g, k, texts) == g = [n \in 0 .. k |-> IF n = 0 THEN <<>> ELSE ParseChange(g[n - 1], texts[n])]

\* One text more is parsed.
LEMMA ChangesStep ==
  ASSUME NEW k \in Nat, NEW texts
  PROVE  ChangeSteps(CHOOSE f : ChangeSteps(f, k, texts), k, texts)
<1> DEFINE Taken(c, n) == ParseChange(c, texts[n])
           Unrolls(f, m) == f = [n \in 0 .. m |-> IF n = 0 THEN <<>> ELSE Taken(f[n - 1], n)]
           T == {m \in 0 .. k : \E f : Unrolls(f, m)}
<1> HIDE DEF Taken
<1>1. 0 \in T
  <2> DEFINE f == [n \in 0 .. 0 |-> <<>>]
  <2>1. Unrolls(f, 0)
    OBVIOUS
  <2> HIDE DEF f, Unrolls
  <2> QED  BY <2>1
<1>2. ASSUME NEW m \in 1 .. k, m - 1 \in T  PROVE m \in T
  <2>1. PICK f : Unrolls(f, m - 1)
    BY <1>2
  <2> DEFINE g == [n \in 0 .. m |-> IF n = m THEN Taken(f[m - 1], m) ELSE f[n]]
  <2>2. ASSUME NEW n \in 0 .. m
        PROVE  g[n] = IF n = 0 THEN <<>> ELSE Taken(g[n - 1], n)
    <3>1. CASE n = m
      <4>1. n # 0 /\ n - 1 \in 0 .. m /\ n - 1 # m
        BY <3>1
      <4>2. g[n - 1] = f[m - 1]
        BY <3>1, <4>1
      <4> QED  BY <3>1, <4>1, <4>2
    <3>2. CASE n # m
      <4>1. n \in 0 .. m - 1 /\ g[n] = f[n]
        BY <3>2
      <4>2. f[n] = IF n = 0 THEN <<>> ELSE Taken(f[n - 1], n)
        BY <2>1, <4>1
      <4>3. n # 0 => n - 1 \in 0 .. m /\ n - 1 # m
        BY <4>1
      <4>4. n # 0 => g[n - 1] = f[n - 1]
        BY <4>3
      <4> QED  BY <4>1, <4>2, <4>4
    <3> QED  BY <3>1, <3>2
  <2>3. g = [n \in 0 .. m |-> g[n]]
    OBVIOUS
  <2> HIDE DEF g
  <2>4. Unrolls(g, m)
    BY <2>2, <2>3
  <2> HIDE DEF Unrolls
  <2> QED  BY <2>4
<1>3. k \in T
  <2> HIDE DEF T
  <2>1. 0 .. k \subseteq T
    BY <1>1, <1>2, IntervalInduction
  <2> QED  BY <2>1
<1>4. \E f : Unrolls(f, k)
  BY <1>3
<1>5. \E f : ChangeSteps(f, k, texts)
  BY <1>4 DEF ChangeSteps, Taken
<1> QED
  BY <1>5, Zenon

\* What getFlagChange leaves can be applied to flags, also when it throws.
LEMMA FlagChangeTyped ==
  ASSUME NEW items, NEW key, NEW dflt, ChangeTexts(dflt),
         List(Values(items, key)), \A i \in DOMAIN Values(items, key) : ChangeTexts(Values(items, key)[i].is)
  PROVE  IsFlagChange(GetFlagChange(items, key, dflt).value)
<1> DEFINE texts == IF Has(items, key) THEN [i \in DOMAIN items[key] |-> items[key][i].is] ELSE <<dflt>>
           parsed == [i \in DOMAIN texts |-> ChangeParsed(texts[i])]
           end == FirstFailed(parsed)
           k == Len(texts)
           g == CHOOSE f : ChangeSteps(f, k, texts)
<1>1. k \in Nat /\ DOMAIN texts = 1 .. k /\ \A n \in 1 .. k : ChangeTexts(texts[n])
  <2>1. CASE Has(items, key)
    <3> DEFINE v == items[key]
    <3>1. List(v) /\ \A i \in DOMAIN v : ChangeTexts(v[i].is)
      BY <2>1 DEF Values
    <3>2. texts = [i \in DOMAIN v |-> v[i].is]
      BY <2>1
    <3> HIDE DEF texts, v
    <3>3. Len(v) \in Nat /\ DOMAIN v = 1 .. Len(v)
      BY <3>1, ListIs
    <3>4. DOMAIN texts = 1 .. Len(v) /\ texts = [i \in 1 .. Len(v) |-> texts[i]]
      BY <3>2, <3>3
    <3>5. Len(texts) = Len(v)
      BY <3>3, <3>4, SomeList
    <3>6. \A n \in 1 .. Len(v) : ChangeTexts(texts[n])
      BY <3>1, <3>2, <3>3
    <3> QED  BY <3>3, <3>4, <3>5, <3>6
  <2>2. CASE ~Has(items, key)
    <3>1. texts = <<dflt>>
      BY <2>2
    <3> HIDE DEF texts
    <3>2. Len(texts) = 1 /\ DOMAIN texts = 1 .. 1 /\ texts[1] = dflt
      BY <3>1
    <3> QED  BY <3>2
  <2> QED  BY <2>1, <2>2
<1>2. GetFlagChange(items, key, dflt).value = g[IF end > k THEN k ELSE end]
  BY DEF GetFlagChange, ChangeSteps
<1> HIDE DEF texts
<1>3. DOMAIN parsed = 1 .. k /\ parsed = [i \in 1 .. k |-> parsed[i]]
  BY <1>1
<1> HIDE DEF parsed
<1>4. end \in 1 .. k + 1
  <2> HIDE DEF k
  <2> QED  BY <1>1, <1>3, FirstFailedAt
<1>5. ChangeSteps(g, k, texts)
  <2> HIDE DEF k
  <2> QED  BY <1>1, ChangesStep
<1> HIDE DEF g, k, end
<1>6. \A n \in 0 .. k : IsFlagChange(g[n])
  BY <1>1, <1>5, ChangesRead DEF ChangeSteps
<1>7. (IF end > k THEN k ELSE end) \in 0 .. k
  BY <1>1, <1>4
<1> QED
  BY <1>2, <1>6, <1>7

\* Numbers are read for times (ParseStreamThrow).
LEMMA NumberRead ==
  ASSUME NEW f \in DOMAIN Files, NEW key \in TimeKeys, NEW dflt \in Int
  PROVE  Converted(Items(f), key, dflt).value \in Int
<1> DEFINE items == Items(f)
           v == Values(items, key)
<1>1. ASSUME v # <<>>  PROVE v[1].is \in Int
  <2>1. Has(items, key) /\ v = items[key]
    BY <1>1 DEF Values
  <2>2. List(v)
    BY ValuesAreList
  <2>3. 1 \in DOMAIN v
    <3> HIDE DEF v
    <3> QED  BY <1>1, <2>2, ListIs
  <2>4. key \in DOMAIN Items(f) /\ 1 \in DOMAIN Items(f)[key] /\ v[1] = Items(f)[key][1]
    BY <2>1, <2>3 DEF Has
  <2>5. Items(f)[key][1].is \in Int
    BY ONLY <2>4, TextAssumption, f \in DOMAIN Files, key \in TimeKeys
  <2> QED  BY ONLY <2>4, <2>5
<1>2. Converted(items, key, dflt).value = IF v = <<>> \/ ~v[1].ok THEN dflt ELSE v[1].is
  BY DEF Converted
<1> HIDE DEF v, items
<1>3. Converted(items, key, dflt).value \in Int
  BY <1>1, <1>2
<1> QED
  BY <1>3 DEF items

\* extractHHMMSS and extractTime yield times.
LEMMA TimeTyped ==
  ASSUME NEW f \in DOMAIN Files, NEW p \in {"Start", "End"}, NEW t \in Int
  PROVE  ExtractHHMM(Items(f), p, t) \in Int /\ ExtractTime(Items(f), p, t) \in Int
<1> DEFINE items == Items(f)
<1>1. p \o "_DD" \in TimeKeys /\ p \o "_hh" \in TimeKeys /\ p \o "_mm" \in TimeKeys
  <2>1. DateKeys(p) \subseteq TimeKeys
    BY DEF TimeKeys
  <2>2. p \o "_DD" \in DateKeys(p) /\ p \o "_hh" \in DateKeys(p) /\ p \o "_mm" \in DateKeys(p)
    BY DEF DateKeys
  <2> QED  BY <2>1, <2>2
<1>2. HourOfDay(t) \in Int /\ MinuteOfHour(t) \in Int /\ t \div 1440 \in Int
  BY DEF HourOfDay, MinuteOfHour
<1> DEFINE day == Converted(items, p \o "_DD", t \div 1440).value
           hour == Converted(items, p \o "_hh", HourOfDay(t)).value
           minute == Converted(items, p \o "_mm", MinuteOfHour(t)).value
           sharp == Converted(items, p \o "_mm", 0).value
<1>3. day \in Int /\ hour \in Int /\ minute \in Int /\ sharp \in Int
  BY <1>1, <1>2, NumberRead
<1>4. /\ ExtractHHMM(items, p, t) = t + 60 * (hour - HourOfDay(t)) + (minute - MinuteOfHour(t))
      /\ ExtractTime(items, p, t) = 1440 * day + 60 * hour + sharp
  BY DEF ExtractHHMM, ExtractTime
<1> HIDE DEF items, day, hour, minute, sharp
<1>5. ExtractHHMM(items, p, t) \in Int /\ ExtractTime(items, p, t) \in Int
  BY <1>2, <1>3, <1>4
<1> QED
  BY <1>5 DEF items

\* The window has two ends.
LEMMA WindowTyped ==
  ASSUME NEW f \in DOMAIN Files
  PROVE  Window(Items(f), Now) \in Int \X Int
<1> DEFINE items == Items(f)
<1>1. Now \in Int /\ "Last_NDays" \in TimeKeys
  BY BoundsAssumption DEF TimeKeys
<1>2. Converted(items, "Last_NDays", 0).value \in Int
  BY <1>1, NumberRead
<1> DEFINE start == ExtractHHMM(items, "Start", Now)
           from == start - 1440 * Converted(items, "Last_NDays", 0).value
           end == ExtractHHMM(items, "End", start)
           first == ExtractTime(items, "Start", Now)
           last == ExtractTime(items, "End", Now)
<1>3. start \in Int /\ first \in Int /\ last \in Int
  BY <1>1, TimeTyped
<1>4. end \in Int
  <2> HIDE DEF start
  <2> QED  BY <1>3, TimeTyped
<1>5. from \in Int
  <2> HIDE DEF start, items
  <2> QED  BY <1>2, <1>3
<1>6. Window(items, Now) = IF Has(items, "Last_NDays") THEN <<from, end>> ELSE <<first, last>>
  BY DEF Window
<1> HIDE DEF from, end, first, last, items
<1>7. Window(items, Now) \in Int \X Int
  BY <1>3, <1>4, <1>5, <1>6
<1> QED
  BY <1>7 DEF items

\* A setting that has one value has it in one line.
LEMMA ParameterIs ==
  ASSUME NEW f \in DOMAIN Files, NEW key, GetParameter(Items(f), key).ok
  PROVE  /\ key \in DOMAIN Items(f) /\ 1 \in DOMAIN Items(f)[key]
         /\ GetParameter(Items(f), key).value = Items(f)[key][1].is
<1> DEFINE items == Items(f)
           v == Values(items, key)
<1>1. List(v)
  BY ValuesAreList
<1>2. GetParameter(items, key) = IF Len(v) = 1 THEN ConvertedOne(items[key][1]) ELSE [ok |-> FALSE, value |-> "none"]
  BY DEF GetParameter
<1>3. v = IF key \in DOMAIN items THEN items[key] ELSE <<>>
  BY DEF Values, Has
<1> HIDE DEF v, items
<1>4. Len(v) = 1
  BY <1>2 DEF items
<1>5. DOMAIN v = 1 .. 1
  BY <1>1, <1>4, ListIs
<1>6. key \in DOMAIN items /\ v = items[key]
  BY <1>3, <1>5
<1> QED
  BY <1>2, <1>4, <1>5, <1>6 DEF ConvertedOne, items

\* What the members of an object are, as far as rows and times are read by them.
MemberOk(kind, v) ==
    /\ kind = "flags" => v \in FlagSetCU
    /\ kind = "change" => IsFlagChange(v)
    /\ kind = "window" => v \in Int \X Int
    /\ kind \in {"multi", "delta", "limits"} => List(v)

\* What a call yields is of the type of its member, for all that a file can say.
LEMMA CalledTyped ==
  ASSUME NEW a \in Algorithms, NEW f \in DOMAIN Files, NEW i \in DOMAIN Calls(a), NEW o,
         MemberOk(Calls(a)[i].kind, o[Calls(a)[i].member])
  PROVE  MemberOk(Calls(a)[i].kind, Called(o, Items(f), Calls(a)[i]).value)
<1> DEFINE c == Calls(a)[i]
           items == Items(f)
<1>0. c \in ToSet(Calls(a)) /\ Texts(c)
  BY CallsTexts DEF ToSet
<1>a. \A d \in ToSet(Calls(a)) : d \in UNION {ToSet(Calls(b)) : b \in Algorithms}
  OBVIOUS
<1>b. c \in UNION {ToSet(Calls(b)) : b \in Algorithms}
  BY <1>0, <1>a
<1> HIDE DEF c
<1>1. CASE c.kind = "flags"
  <2>1. o[c.member] \in FlagSetCU /\ FlagTexts(c.control) /\ FlagTexts(c.use)
    BY <1>0, <1>1 DEF MemberOk, Texts, c
  <2>2. ASSUME NEW key \in {c.name \o "_cflags", c.name \o "_uflags"}
        PROVE  List(Values(items, key)) /\ \A n \in DOMAIN Values(items, key) : FlagTexts(Values(items, key)[n].is)
    <3>1. c \in CallsOf("flags")
      BY <1>b, <1>1 DEF CallsOf
    <3>2. key \in FlagKeys
      <4> DEFINE S(d) == {d.name \o "_cflags", d.name \o "_uflags"}
      <4>1. FlagKeys = UNION {S(d) : d \in CallsOf("flags")}
        BY DEF FlagKeys
      <4>2. key \in S(c)
        OBVIOUS
      <4> HIDE DEF S
      <4> QED  BY <3>1, <4>1, <4>2
    <3>3. List(Values(items, key))
      BY ValuesAreList
    <3>4. ASSUME NEW n \in DOMAIN Values(items, key)  PROVE FlagTexts(Values(items, key)[n].is)
      <4>1. CASE Has(items, key)
        <5>1. key \in DOMAIN Items(f) /\ Values(items, key) = Items(f)[key]
          BY <4>1 DEF Has, Values
        <5>2. n \in DOMAIN Items(f)[key]
          BY <5>1
        <5>3. FlagTexts(Items(f)[key][n].is)
          BY ONLY <3>2, <5>1, <5>2, TextAssumption, f \in DOMAIN Files
        <5> QED  BY <5>1, <5>3
      <4>2. CASE ~Has(items, key)
        BY <4>2 DEF Values
      <4> QED  BY <4>1, <4>2
    <3> QED  BY <3>3, <3>4
  <2>3. GetFlagSetCU(o[c.member], items, c.name, c.control, c.use).value \in FlagSetCU
    <3> HIDE DEF items
    <3> QED  BY <2>1, <2>2, FlagSetCUTyped
  <2>4. Called(o, items, c) = GetFlagSetCU(o[c.member], items, c.name, c.control, c.use)
    BY <1>1 DEF Called
  <2> QED  BY <1>1, <2>3, <2>4 DEF MemberOk, c
<1>2. CASE c.kind = "change"
  <2>1. ChangeTexts(c.dflt)
    BY <1>0, <1>2 DEF Texts
  <2>2. List(Values(items, c.name))
    BY ValuesAreList
  <2>3. ASSUME NEW n \in DOMAIN Values(items, c.name)  PROVE ChangeTexts(Values(items, c.name)[n].is)
    <3>1. c.name \in ChangeKeys
      BY <1>b, <1>2 DEF CallsOf, ChangeKeys
    <3>2. CASE Has(items, c.name)
      <4>1. c.name \in DOMAIN Items(f) /\ Values(items, c.name) = Items(f)[c.name]
        BY <3>2 DEF Has, Values
      <4>2. n \in DOMAIN Items(f)[c.name]
        BY <4>1
      <4>3. ChangeTexts(Items(f)[c.name][n].is)
        BY ONLY <3>1, <4>1, <4>2, TextAssumption, f \in DOMAIN Files
      <4> QED  BY <4>1, <4>3
    <3>3. CASE ~Has(items, c.name)
      BY <3>3 DEF Values
    <3> QED  BY <3>2, <3>3
  <2>4. IsFlagChange(GetFlagChange(items, c.name, c.dflt).value)
    <3> HIDE DEF items
    <3> QED  BY <2>1, <2>2, <2>3, FlagChangeTyped
  <2>5. Called(o, items, c) = GetFlagChange(items, c.name, c.dflt)
    BY <1>2 DEF Called
  <2> QED  BY <1>2, <2>4, <2>5 DEF MemberOk, c
<1>3. CASE c.kind = "window"
  <2>1. Called(o, items, c).value = Window(items, Now)
    BY <1>3 DEF Called
  <2> QED  BY <1>3, <2>1, WindowTyped DEF MemberOk, c
<1>4. CASE c.kind = "multi"
  <2>1. Called(o, items, c).value = ConvertedAll(Values(items, c.name)).value
    BY <1>4 DEF Called, GetMultiParameter
  <2> DEFINE v == Values(items, c.name)
             w == [n \in DOMAIN v |-> v[n].is]
  <2>2. List(v)
    BY ValuesAreList
  <2>3. Called(o, items, c).value = w
    BY <2>1 DEF ConvertedAll
  <2> HIDE DEF v
  <2>4. Len(v) \in Nat /\ DOMAIN v = 1 .. Len(v)
    BY <2>2, ListIs
  <2>5. DOMAIN w = 1 .. Len(v) /\ w = [n \in 1 .. Len(v) |-> w[n]]
    BY <2>4
  <2> HIDE DEF w
  <2>6. List(w)
    BY <2>4, <2>5, SomeList
  <2> QED  BY <1>4, <2>3, <2>6 DEF MemberOk, c
<1>5. CASE c.kind = "limits"
  <2>1. c.name \in ListKeys
    BY <1>b, <1>5 DEF CallsOf, ListKeys
  <2>2. GetParameter(items, c.name).ok => List(GetParameter(items, c.name).value)
    BY <2>1, ParameterIs, TextAssumption
  <2> DEFINE v == GetParameter(items, c.name).value
             parsed == [n \in DOMAIN v |-> ElementOk("limits", v, n)]
             end == FirstFailed(parsed)
             w == SubSeq(v, 1, end - 1)
  <2>3. Called(o, items, c).value = IF GetParameter(items, c.name).ok THEN w ELSE <<>>
    <3>1. Called(o, items, c) = Listed("limits", items, c.name)
      BY <1>5 DEF Called
    <3> QED  BY <3>1 DEF Listed
  <2>4. GetParameter(items, c.name).ok => List(w)
    <3> SUFFICES ASSUME GetParameter(items, c.name).ok PROVE List(w)
      OBVIOUS
    <3> HIDE DEF v
    <3>1. Len(v) \in Nat /\ DOMAIN v = 1 .. Len(v) /\ v = [n \in 1 .. Len(v) |-> v[n]]
      BY <2>2, ListIs DEF v
    <3>2. DOMAIN parsed = 1 .. Len(v) /\ parsed = [n \in 1 .. Len(v) |-> parsed[n]]
      BY <3>1
    <3> HIDE DEF parsed
    <3>3. end \in 1 .. Len(v) + 1
      BY <3>1, <3>2, FirstFailedAt
    <3> HIDE DEF end
    <3> DEFINE S == {v[n] : n \in DOMAIN v}
    <3>4. v \in Seq(S)
      BY <2>2 DEF List, v
    <3> HIDE DEF S
    <3>5. w = [n \in 1 .. end - 1 |-> v[n]] /\ end - 1 \in Nat
      BY <3>1, <3>3, <3>4
    <3>6. DOMAIN w = 1 .. end - 1 /\ w = [n \in 1 .. end - 1 |-> w[n]]
      BY <3>5
    <3> HIDE DEF w
    <3> QED  BY <3>5, <3>6, SomeList
  <2>5. List(<<>>)
    BY DEF List
  <2> HIDE DEF w
  <2> QED  BY <1>5, <2>3, <2>4, <2>5 DEF MemberOk, c
<1>6. CASE c.kind = "delta"
  <2>1. c.name \in DeltaKeys
    BY <1>b, <1>6 DEF CallsOf, DeltaKeys
  <2> DEFINE par == GetParameter(items, c.name)
  <2>2. par.ok => (par.value.form # "NotSet" /\ ~par.value.error => List(par.value.deltas))
    BY <2>1, ParameterIs, TextAssumption
  <2>3. Called(o, items, c) = DeltaMap(o[c.member], items, c.name)
    BY <1>6 DEF Called
  <2>4. Called(o, items, c).value = IF ~par.ok \/ par.value.form = "NotSet" THEN o[c.member]
                                    ELSE IF par.value.error THEN <<>> ELSE par.value.deltas
    BY <2>3 DEF DeltaMap
  <2>5. List(<<>>)
    BY DEF List
  <2>6. List(o[c.member])
    BY <1>6 DEF MemberOk, c
  <2> HIDE DEF par
  <2> QED  BY <1>6, <2>2, <2>4, <2>5, <2>6 DEF MemberOk, c
<1>7. CASE c.kind \notin {"flags", "change", "window", "multi", "limits", "delta"}
  BY <1>7 DEF MemberOk, c
<1> QED
  BY <1>1, <1>2, <1>3, <1>4, <1>5, <1>6, <1>7

\* An object whose members can be used.
Typed(o, a) ==
    /\ Object(o, a)
    /\ \A i \in DOMAIN Calls(a) : MemberOk(Calls(a)[i].kind, o[Calls(a)[i].member])

\* The members of a new object.
LEMMA FreshTyped ==
  ASSUME NEW a \in Algorithms
  PROVE  Typed(Fresh(a), a)
<1> DEFINE calls == ToSet(Calls(a))
           owner(m) == CHOOSE c \in calls : c.member = m
<1>1. calls = {Calls(a)[i] : i \in DOMAIN Calls(a)}
  BY DEF ToSet
<1>2. Fresh(a) = [m \in {c.member : c \in calls} |-> Empty(owner(m).kind)]
  BY DEF Fresh
<1> HIDE DEF calls
<1>3. {c.member : c \in calls} = {Calls(a)[i].member : i \in DOMAIN Calls(a)}
  BY <1>1
<1>4. ASSUME NEW i \in DOMAIN Calls(a)
      PROVE  Fresh(a)[Calls(a)[i].member] = Empty(Calls(a)[i].kind)
  <2> DEFINE m == Calls(a)[i].member
  <2>1. \E c \in calls : c.member = m
    BY <1>1
  <2>2. owner(m) \in calls /\ owner(m).member = m
    BY <2>1
  <2>3. PICK j \in DOMAIN Calls(a) : owner(m) = Calls(a)[j]
    BY <1>1, <2>2
  <2>4. Calls(a)[j].member = Calls(a)[i].member
    BY <2>2, <2>3
  <2>5. j = i
    BY <2>4, CallsShaped DEF Shaped
  <2>6. Fresh(a)[m] = Empty(owner(m).kind)
    BY <1>2, <1>3
  <2> QED  BY <2>3, <2>5, <2>6
<1>5. NoFlagSet \in FlagSetCU
  <2>1. NoPatterns \in FlagPatterns(ControlFlags) /\ NoPatterns \in FlagPatterns(UseFlags)
    BY DEF NoPatterns, Patterns, FlagPatterns
  <2> QED  BY <2>1 DEF NoFlagSet, FlagSetCU
<1>6. IsFlagChange(<<>>) /\ List(<<>>)
  BY DEF IsFlagChange, List
<1>7. \A kind : MemberOk(kind, Empty(kind))
  BY <1>5, <1>6 DEF MemberOk, Empty
<1> QED
  BY <1>4, <1>7, FreshObject DEF Typed

\* One call keeps them.
LEMMA TurnTyped ==
  ASSUME NEW a \in Algorithms, NEW f \in DOMAIN Files, NEW i \in DOMAIN Calls(a), NEW s, Typed(s.object, a)
  PROVE  Typed(Turn(s, Items(f), Calls(a)[i]).object, a)
<1> DEFINE c == Calls(a)[i]
           o == s.object
           got == Called(o, Items(f), c)
           p == Turn(s, Items(f), c).object
<1>1. Object(p, a)
  BY TurnObject DEF Typed
<1>2. p = o \/ p = [o EXCEPT ![c.member] = got.value]
  BY DEF Turn, Got
<1>3. MemberOk(c.kind, got.value)
  <2>1. MemberOk(c.kind, o[c.member])
    BY DEF Typed
  <2> QED  BY <2>1, CalledTyped
<1>4. ASSUME NEW j \in DOMAIN Calls(a)  PROVE MemberOk(Calls(a)[j].kind, p[Calls(a)[j].member])
  <2>1. MemberOk(Calls(a)[j].kind, o[Calls(a)[j].member])
    BY DEF Typed
  <2>2. Calls(a)[j].member \in DOMAIN o
    <3>1. DOMAIN o = DOMAIN Fresh(a)
      BY DEF Typed, Object
    <3>2. DOMAIN Fresh(a) = {Calls(a)[k].member : k \in DOMAIN Calls(a)}
      BY FreshObject
    <3> HIDE DEF o
    <3> QED  BY <3>1, <3>2
  <2>3. CASE j = i
    <3> HIDE DEF o, p, got
    <3> QED  BY <1>2, <1>3, <2>1, <2>2, <2>3
  <2>4. CASE j # i
    <3>1. Calls(a)[j].member # c.member
      BY <2>4, CallsShaped DEF Shaped
    <3> HIDE DEF o, p, got, c
    <3>2. p[Calls(a)[j].member] = o[Calls(a)[j].member]
      BY <1>2, <2>2, <3>1
    <3> QED  BY <2>1, <3>2
  <2> QED  BY <2>3, <2>4
<1> HIDE DEF p
<1>5. Typed(p, a)
  BY <1>1, <1>4 DEF Typed
<1> QED
  BY <1>5 DEF p

\* And so does configure().
LEMMA ConfiguredTyped ==
  ASSUME NEW a \in Algorithms, NEW f \in DOMAIN Files, NEW o, Typed(o, a)
  PROVE  Typed(Configure(o, Items(f), a).object, a)
<1> DEFINE L == Len(Calls(a))
<1>1. L \in Nat /\ DOMAIN Calls(a) = 1 .. L
  BY CallsShaped DEF Shaped
<1>2. PICK g : Steps(g, o, Items(f), a) /\ Configure(o, Items(f), a) = g[L]
  BY ConfigureSteps
<1>3. g[0] = [ok |-> TRUE, object |-> o] /\ \A n \in 1 .. L : g[n] = Turn(g[n - 1], Items(f), Calls(a)[n])
  BY <1>2 DEF Steps
<1> HIDE DEF L
<1> DEFINE T == {n \in 0 .. L : Typed(g[n].object, a)}
<1>4. 0 \in T
  <2>1. g[0].object = o
    BY <1>3
  <2> QED  BY <1>1, <2>1
<1>5. ASSUME NEW n \in 1 .. L, n - 1 \in T  PROVE n \in T
  <2>1. Typed(g[n - 1].object, a)
    BY <1>5
  <2>2. Typed(Turn(g[n - 1], Items(f), Calls(a)[n]).object, a)
    BY <1>1, <2>1, TurnTyped
  <2>3. n \in 0 .. L
    BY <1>1
  <2> QED  BY <1>3, <2>2, <2>3
<1>6. L \in T
  <2> HIDE DEF T
  <2>1. 0 .. L \subseteq T
    BY <1>1, <1>4, <1>5, IntervalInduction
  <2> QED  BY <1>1, <2>1
<1> QED
  BY <1>2, <1>6

\* The members that TypeOK speaks of.
LEMMA TypedMembers ==
  ASSUME NEW a \in Algorithms, NEW o, Typed(o, a)
  PROVE  /\ o.window \in Int \X Int
         /\ \A m \in FlagSetMembers(a) : o[m] \in FlagSetCU
         /\ \A m \in FlagChangeMembers(a) : IsFlagChange(o[m])
<1>1. ASSUME NEW c \in ToSet(Calls(a))  PROVE MemberOk(c.kind, o[c.member])
  <2>1. PICK i \in DOMAIN Calls(a) : c = Calls(a)[i]
    BY DEF ToSet
  <2> QED  BY <2>1 DEF Typed
<1>2. \A m \in FlagSetMembers(a) : o[m] \in FlagSetCU
  BY <1>1 DEF FlagSetMembers, MemberOk
<1>3. \A m \in FlagChangeMembers(a) : IsFlagChange(o[m])
  BY <1>1 DEF FlagChangeMembers, MemberOk
<1>4. \E i \in DOMAIN Calls(a) : Calls(a)[i].kind = "window" /\ Calls(a)[i].member = "window"
  <2> DEFINE W(calls, i) == i \in DOMAIN calls /\ calls[i].kind = "window" /\ calls[i].member = "window"
  <2>1. W(DipTestCalls, 1)
    BY DEF DipTestCalls, Simple, FlagSet, FlagChange, Default
  <2>2. W(SingleLinearCalls, 1)
    BY DEF SingleLinearCalls, Simple, FlagSet, FlagChange, Default
  <2>3. W(AggregatorLimitsCalls, 5)
    BY DEF AggregatorLimitsCalls, Simple, FlagSet, FlagChange, Default
  <2>4. W(GapInterpolationCalls, 1)
    BY DEF GapInterpolationCalls, Simple, FlagSet, FlagChange, Default
  <2>5. W(RedistributeCalls, 1)
    BY DEF RedistributeCalls, Simple, FlagSet, FlagChange, Default, Neighbors
  <2>6. W(PlumaticCalls, 1)
    BY DEF PlumaticCalls, Simple, FlagSet, FlagChange, Default, Neighbors
  <2>7. Calls(a) \in {DipTestCalls, SingleLinearCalls, AggregatorLimitsCalls, GapInterpolationCalls, RedistributeCalls, PlumaticCalls}
    BY DEF Calls, AllCalls, Algorithms, Elsewhere
  <2>8. W(Calls(a), 1) \/ W(Calls(a), 5)
    <3> HIDE DEF W
    <3> QED  BY <2>1, <2>2, <2>3, <2>4, <2>5, <2>6, <2>7
  <2> QED  BY <2>8
<1>5. o.window \in Int \X Int
  <2>1. PICK i \in DOMAIN Calls(a) : Calls(a)[i].kind = "window" /\ Calls(a)[i].member = "window"
    BY <1>4
  <2>2. MemberOk("window", o["window"])
    BY <2>1 DEF Typed
  <2> QED  BY <2>2 DEF MemberOk
<1> QED
  BY <1>2, <1>3, <1>5

-----------------------------------------------------------------------------
(* Rows.                                                                   *)

\* A row with other control flags is a row; the use flags follow them (setUseFlags).
LEMMA RowChanged ==
  ASSUME NEW r, IsRow(r), NEW control \in [ControlFlags -> FlagValue]
  PROVE  IsRow(WithControl(r, control))
<1>1. UseInfo(control) \in [UseFlags -> FlagValue]
  <2>1. {0, 1, 3, 7} \subseteq FlagValue
    BY FlagsAssumption
  <2> DEFINE u == IF control.fs = 9 \/ control.fmis \in {2, 3} THEN 3
                  ELSE IF control.fmis \in {1, 4} \/ control.fr = 6 THEN 1 ELSE 0
  <2>2. u \in FlagValue /\ 7 \in FlagValue
    BY <2>1
  <2>3. UseInfo(control) = [U0 |-> 7, U2 |-> u]
    BY DEF UseInfo
  <2> HIDE DEF u
  <2>4. UseInfo(control) \in [{"U0", "U2"} -> FlagValue]
    BY <2>2, <2>3
  <2> QED  BY <2>4, FlagsAssumption
<1> DEFINE u == UseInfo(control)
           n == WithControl(r, control)
<1>2. n = [r EXCEPT !.control = control, !.use = u]
  BY DEF WithControl
<1>3. DOMAIN r = {"original", "corrected", "control", "use"}
  BY DEF IsRow
<1> HIDE DEF u, n
<1>4. DOMAIN n = {"original", "corrected", "control", "use"} /\ n.original = r.original /\ n.control = control /\ n.use = u
  BY <1>2, <1>3
<1>5. IsRow(n)
  BY <1>1, <1>4 DEF IsRow, u
<1> QED
  BY <1>5 DEF n

\* So it is with another value.
LEMMA RowCorrected ==
  ASSUME NEW r, IsRow(r), NEW v
  PROVE  IsRow([r EXCEPT !.corrected = v]) /\ (v \in Int => IsRow([r EXCEPT !.original = v]))
<1>1. DOMAIN r = {"original", "corrected", "control", "use"}
  BY DEF IsRow
<1> DEFINE n == [r EXCEPT !.corrected = v]
           o == [r EXCEPT !.original = v]
<1>2. DOMAIN n = DOMAIN r /\ n.original = r.original /\ n.control = r.control /\ n.use = r.use
  BY <1>1
<1>3. DOMAIN o = DOMAIN r /\ o.original = v /\ o.control = r.control /\ o.use = r.use
  BY <1>1
<1> HIDE DEF n, o
<1>4. IsRow(n) /\ (v \in Int => IsRow(o))
  BY <1>2, <1>3 DEF IsRow
<1> QED
  BY <1>4 DEF n, o

\* A flag change makes a row of a row.
LEMMA ChangedTyped ==
  ASSUME NEW r, IsRow(r), NEW change, IsFlagChange(change)
  PROVE  IsRow(Changed(r, change))
<1>1. r.control \in [ControlFlags -> FlagValue]
  BY DEF IsRow
<1>2. Apply(change, r.control) \in [ControlFlags -> FlagValue]
  BY <1>1, ApplyTyped
<1> QED
  BY <1>2, RowChanged DEF Changed

\* Rows of the table.
RowsTyped == DOMAIN table \subseteq Key /\ \A k \in DOMAIN table : IsRow(table[k])
\* Updates that are for a row that is there, as an UPDATE is.
UpdatesTyped(updates) == \A u \in updates : u.key \in DOMAIN table => IsRow(u.row)

\* Writing rows keeps the table (SQLDataAccess, UPDATE).
LEMMA StoredTyped ==
  ASSUME RowsTyped, NEW updates, UpdatesTyped(updates)
  PROVE  DOMAIN Stored(updates) = DOMAIN table /\ \A k \in DOMAIN table : IsRow(Stored(updates)[k])
<1>1. DOMAIN Stored(updates) = DOMAIN table
  BY DEF Stored
<1>2. ASSUME NEW k \in DOMAIN table  PROVE IsRow(Stored(updates)[k])
  <2>1. CASE \E u \in updates : u.key = k
    <3> DEFINE w == CHOOSE u \in updates : u.key = k
    <3>1. w \in updates /\ w.key = k
      BY <2>1
    <3>2. Stored(updates)[k] = [w.row EXCEPT !.original = table[k].original]
      BY <2>1 DEF Stored
    <3> HIDE DEF w
    <3>3. IsRow(w.row)
      BY <3>1 DEF UpdatesTyped
    <3>4. table[k].original \in Int
      BY DEF RowsTyped, IsRow
    <3>5. IsRow([w.row EXCEPT !.original = table[k].original])
      BY ONLY <3>3, <3>4, RowCorrected
    <3> QED  BY ONLY <3>2, <3>5
  <2>2. CASE ~\E u \in updates : u.key = k
    <3>1. Stored(updates)[k] = table[k]
      BY <2>2 DEF Stored
    <3> QED  BY <3>1 DEF RowsTyped
  <2> QED  BY <2>1, <2>2
<1> QED
  BY <1>1, <1>2

-----------------------------------------------------------------------------
(* Series of rows.                                                         *)

\* Rows of one sensor, each at a time of its own.
OneSeries(S) ==
    /\ IsFiniteSet(S)
    /\ \A k \in S : k.time \in Int /\ k.sensor \in Int
    /\ \A j, k \in S : j.sensor = k.sensor /\ (j.time = k.time => j = k)
Rank(S, k) == Cardinality({j \in S : Earlier(j, k)})

\* Each row of a series has a rank of its own, and all ranks are there.
LEMMA Ranks ==
  ASSUME NEW S, OneSeries(S)
  PROVE  /\ \A k \in S : Rank(S, k) \in 0 .. Cardinality(S) - 1
         /\ \A j, k \in S : j.time < k.time => Rank(S, j) < Rank(S, k)
         /\ \A n \in 1 .. Cardinality(S) : \E k \in S : Rank(S, k) = n - 1
<1> DEFINE B(k) == {j \in S : Earlier(j, k)}
           N == Cardinality(S)
           T == 0 .. N - 1
           f == [k \in S |-> Cardinality(B(k))]
<1>0. IsFiniteSet(S) /\ N \in Nat /\ \A k \in S : k.time \in Int
  BY FS_CardinalityType DEF OneSeries
<1>1. \A j, k \in S : Earlier(j, k) <=> j.time < k.time
  <2>1. ASSUME NEW j \in S, NEW k \in S  PROVE Earlier(j, k) <=> j.time < k.time
    <3>1. CASE j.time = k.time
      <4>1. j.sensor = k.sensor /\ k.sensor \in Int
        BY DEF OneSeries
      <4> QED  BY <1>0, <3>1, <4>1 DEF Earlier
    <3>2. CASE j.time # k.time
      BY <3>2 DEF Earlier
    <3> QED  BY <3>1, <3>2
  <2> QED  BY <2>1
<1>2. \A k \in S : IsFiniteSet(B(k)) /\ Cardinality(B(k)) \in Nat /\ Cardinality(B(k)) < N
  <2>1. ASSUME NEW k \in S  PROVE IsFiniteSet(B(k)) /\ Cardinality(B(k)) \in Nat /\ Cardinality(B(k)) < N
    <3> DEFINE C == B(k)
    <3>1. C \in SUBSET S /\ C # S
      BY <1>0, <1>1
    <3> HIDE DEF C
    <3>2. IsFiniteSet(C) /\ Cardinality(C) <= N /\ (N = Cardinality(C) => S = C)
      BY <1>0, <3>1, FS_Subset
    <3>3. Cardinality(C) \in Nat
      BY <3>2, FS_CardinalityType
    <3>4. Cardinality(C) < N
      BY <1>0, <3>1, <3>2, <3>3
    <3> QED  BY <3>2, <3>3, <3>4 DEF C
  <2> QED  BY <2>1
<1>3. \A j, k \in S : j.time < k.time => Cardinality(B(j)) < Cardinality(B(k))
  <2>1. ASSUME NEW j \in S, NEW k \in S, j.time < k.time  PROVE Cardinality(B(j)) < Cardinality(B(k))
    <3> DEFINE C == B(j)
               D == B(k)
    <3>1. C \in SUBSET D /\ j \in D /\ j \notin C
      BY <1>0, <1>1, <2>1
    <3>2. IsFiniteSet(D) /\ Cardinality(C) \in Nat /\ Cardinality(D) \in Nat
      BY <1>2
    <3> HIDE DEF C, D
    <3>3. Cardinality(C) <= Cardinality(D) /\ (Cardinality(D) = Cardinality(C) => D = C)
      BY <3>1, <3>2, FS_Subset
    <3>4. Cardinality(C) < Cardinality(D)
      BY <3>1, <3>2, <3>3
    <3> QED  BY <3>4 DEF C, D
  <2> QED  BY <2>1
<1>4. f \in [S -> T]
  <2> HIDE DEF B
  <2> QED  BY <1>0, <1>2
<1>5. \A j, k \in S : f[j] = f[k] => j = k
  <2>1. ASSUME NEW j \in S, NEW k \in S, j # k  PROVE f[j] # f[k]
    <3>1. j.time # k.time
      BY <2>1 DEF OneSeries
    <3>2. j.time < k.time \/ k.time < j.time
      BY <1>0, <3>1
    <3>3. f[j] < f[k] \/ f[k] < f[j]
      BY <1>3, <3>2
    <3>4. f[j] \in Int /\ f[k] \in Int
      BY <1>4
    <3> HIDE DEF f
    <3> QED  BY <3>3, <3>4
  <2> QED  BY <2>1
<1> HIDE DEF f
<1>6. f \in Injection(S, T)
  BY <1>4, <1>5 DEF Injection, IsInjective
<1>7. IsFiniteSet(T) /\ Cardinality(T) = N
  <2>1. 0 \in Int /\ N - 1 \in Int
    BY <1>0
  <2>2. IsFiniteSet(T) /\ Cardinality(T) = IF 0 > N - 1 THEN 0 ELSE (N - 1) - 0 + 1
    BY <2>1, FS_Interval
  <2> HIDE DEF T
  <2> QED  BY <1>0, <2>2
<1>8. f \in Surjection(S, T)
  <2> HIDE DEF T
  <2> QED  BY <1>6, <1>7, FS_Injection
<1>9. \A n \in T : \E k \in S : f[k] = n
  BY <1>8 DEF Surjection
<1>10. \A k \in S : f[k] = Rank(S, k)
  BY DEF f, Rank
<1>11. ASSUME NEW n \in 1 .. N  PROVE \E k \in S : Rank(S, k) = n - 1
  <2>1. n - 1 \in T
    BY <1>0
  <2>2. PICK k \in S : f[k] = n - 1
    BY <1>9, <2>1
  <2> QED  BY <1>10, <2>2
<1>12. \A k \in S : Rank(S, k) \in T
  BY <1>4, <1>10
<1>13. \A j, k \in S : j.time < k.time => Rank(S, j) < Rank(S, k)
  BY <1>3 DEF Rank
<1> QED  BY <1>11, <1>12, <1>13

\* InOrder has the rows of a series in the order of their times.
LEMMA Ordered ==
  ASSUME NEW S, OneSeries(S)
  PROVE  /\ InOrder(S) \in Seq(S) /\ Len(InOrder(S)) = Cardinality(S) /\ Cardinality(S) \in Nat
         /\ \A k \in S : \E n \in 1 .. Cardinality(S) : InOrder(S)[n] = k
         /\ \A m, n \in 1 .. Cardinality(S) : m < n => InOrder(S)[m].time < InOrder(S)[n].time
<1> DEFINE N == Cardinality(S)
           s == InOrder(S)
<1>0. N \in Nat /\ \A k \in S : k.time \in Int
  BY FS_CardinalityType DEF OneSeries
<1>1. /\ \A k \in S : Rank(S, k) \in 0 .. N - 1
      /\ \A j, k \in S : j.time < k.time => Rank(S, j) < Rank(S, k)
      /\ \A n \in 1 .. N : \E k \in S : Rank(S, k) = n - 1
  BY Ranks
<1>2. s = [n \in 1 .. N |-> CHOOSE k \in S : Rank(S, k) = n - 1]
  BY DEF InOrder, Rank
<1> HIDE DEF s
<1>3. \A n \in 1 .. N : s[n] \in S /\ Rank(S, s[n]) = n - 1
  BY <1>1, <1>2
<1>4. s \in [1 .. N -> S]
  BY <1>2, <1>3
<1>5. s \in Seq(S) /\ Len(s) = N
  BY <1>0, <1>4
<1>6. ASSUME NEW k \in S  PROVE \E n \in 1 .. N : s[n] = k
  <2> DEFINE n == Rank(S, k) + 1
  <2>1. n \in 1 .. N /\ Rank(S, k) = n - 1 /\ Rank(S, k) \in Int
    BY <1>0, <1>1
  <2> HIDE DEF n
  <2>2. s[n] \in S /\ Rank(S, s[n]) = Rank(S, k)
    BY <1>3, <2>1
  <2>3. ~(s[n].time < k.time) /\ ~(k.time < s[n].time)
    <3>1. ~(Rank(S, k) < Rank(S, k))
      BY <2>1
    <3> QED  BY <1>1, <2>2, <3>1
  <2>4. s[n].time = k.time
    BY <1>0, <2>2, <2>3
  <2> QED  BY <2>1, <2>2, <2>4 DEF OneSeries
<1>7. ASSUME NEW m \in 1 .. N, NEW n \in 1 .. N, m < n  PROVE s[m].time < s[n].time
  <2>1. s[m] \in S /\ s[n] \in S /\ Rank(S, s[m]) = m - 1 /\ Rank(S, s[n]) = n - 1
    BY <1>3
  <2>2. ~(n - 1 < m - 1) /\ m - 1 # n - 1
    BY <1>7
  <2>3. ~(s[n].time < s[m].time)
    BY <1>1, <2>1, <2>2
  <2>4. s[n].time # s[m].time
    <3>1. s[n] # s[m]
      BY <2>1, <2>2
    <3> QED  BY <2>1, <3>1 DEF OneSeries
  <2> QED  BY <1>0, <2>1, <2>3, <2>4
<1> QED
  BY <1>0, <1>5, <1>6, <1>7 DEF s

\* The rows of the sensor of a row.
Beside(key, t0, t1) == {k \in Between(key.pid, key.aggregated, t0, t1) : k.sensor = key.sensor}

\* They are one series.
LEMMA RowsBeside ==
  ASSUME RowsTyped, NEW key \in DOMAIN table, NEW t0 \in Int, NEW t1 \in Int
  PROVE  OneSeries(Beside(key, t0, t1)) /\ SeriesOf(key, t0, t1) = InOrder(Beside(key, t0, t1))
<1> DEFINE S == Beside(key, t0, t1)
           T == t0 .. t1
           f == [k \in S |-> k.time]
<1>1. \A k \in DOMAIN table : /\ k.time \in Int /\ k.sensor \in Int
                              /\ k = [pid |-> k.pid, sensor |-> k.sensor, aggregated |-> k.aggregated, time |-> k.time]
  BY DEF RowsTyped, Key
<1>2. \A k \in S : k \in DOMAIN table /\ k.pid = key.pid /\ k.aggregated = key.aggregated /\ k.sensor = key.sensor /\ k.time \in T
  BY <1>1 DEF Beside, Between
<1>3. \A j, k \in S : j.time = k.time => j = k
  BY <1>1, <1>2
<1>4. f \in [S -> T] /\ \A j, k \in S : f[j] = f[k] => j = k
  BY <1>2, <1>3
<1>5. f \in Injection(S, T)
  <2> HIDE DEF f
  <2> QED  BY <1>4 DEF Injection, IsInjective
<1>6. IsFiniteSet(T)
  BY FS_Interval
<1> HIDE DEF f, T
<1>7. IsFiniteSet(S)
  BY <1>5, <1>6, FS_Injection
<1> QED
  BY <1>1, <1>2, <1>3, <1>7 DEF OneSeries, SeriesOf, Beside

\* What is next to a row in its series is next to it in time.
LEMMA NextInSeries ==
  ASSUME RowsTyped, NEW key \in DOMAIN table, NEW t0 \in Int, NEW t1 \in Int, NEW s, s = SeriesOf(key, t0, t1),
         NEW n \in 2 .. Len(s) - 1, s[n] = key
  PROVE  /\ s[n - 1] \in Beside(key, t0, t1) /\ s[n + 1] \in Beside(key, t0, t1)
         /\ s[n - 1].time < key.time /\ key.time < s[n + 1].time
         /\ {o \in DOMAIN table : /\ o.sensor = key.sensor /\ o.pid = key.pid /\ o.aggregated = key.aggregated
                                  /\ s[n - 1].time < o.time /\ o.time < s[n + 1].time} = {key}
<1> DEFINE S == Beside(key, t0, t1)
           N == Cardinality(S)
<1>1. OneSeries(S) /\ s = InOrder(S)
  BY RowsBeside
<1>0. \A k \in DOMAIN table : k.time \in Int
  BY DEF RowsTyped, Key
<1>2. S = {k \in DOMAIN table : k.sensor = key.sensor /\ k.pid = key.pid /\ k.aggregated = key.aggregated /\ t0 <= k.time /\ k.time <= t1}
  BY DEF Beside, Between
<1> HIDE DEF S
<1>3. /\ s \in Seq(S) /\ Len(s) = N /\ N \in Nat
      /\ \A k \in S : \E m \in 1 .. N : s[m] = k
      /\ \A m, l \in 1 .. N : m < l => s[m].time < s[l].time
  BY <1>1, Ordered
<1> HIDE DEF N
<1>4. n - 1 \in 1 .. N /\ n \in 1 .. N /\ n + 1 \in 1 .. N /\ n - 1 < n /\ n < n + 1
  BY <1>3
<1>5. s[n - 1] \in S /\ s[n] \in S /\ s[n + 1] \in S
  BY <1>3, <1>4
<1>6. s[n - 1].time < key.time /\ key.time < s[n + 1].time
  BY <1>3, <1>4
<1>7. ASSUME NEW o \in DOMAIN table, o.sensor = key.sensor, o.pid = key.pid, o.aggregated = key.aggregated,
             s[n - 1].time < o.time, o.time < s[n + 1].time
      PROVE  o = key
  <2>1. o \in S
    <3>1. t0 <= s[n - 1].time /\ s[n + 1].time <= t1 /\ s[n - 1].time \in Int /\ s[n + 1].time \in Int /\ o.time \in Int
      BY <1>0, <1>2, <1>5
    <3>2. t0 <= o.time /\ o.time <= t1
      BY <1>7, <3>1
    <3> QED  BY <1>2, <1>7, <3>2
  <2>2. PICK m \in 1 .. N : s[m] = o
    BY <1>3, <2>1
  <2>3. m = n \/ m = n - 1 \/ m = n + 1 \/ m < n - 1 \/ n + 1 < m
    BY <1>3
  <2>4. ~(o.time < o.time) /\ ~(o.time < s[n - 1].time) /\ ~(s[n + 1].time < o.time)
    BY <1>0, <1>2, <1>5, <1>7
  <2>5. m # n - 1 /\ m # n + 1
    BY <1>7, <2>2, <2>4
  <2>6. ~(m < n - 1) /\ ~(n + 1 < m)
    BY <1>3, <1>4, <2>2, <2>4
  <2> QED  BY <2>2, <2>3, <2>5, <2>6
<1> QED
  BY <1>5, <1>6, <1>7 DEF S

\* A series of three rows.
LEMMA ThreeInSeries ==
  ASSUME RowsTyped, NEW key \in DOMAIN table, NEW t0 \in Int, NEW t1 \in Int, NEW i, NEW j,
         Beside(key, t0, t1) = {i, key, j}, i.time < key.time, key.time < j.time
  PROVE  LET s == SeriesOf(key, t0, t1) IN Len(s) = 3 /\ s[1] = i /\ s[3] = j
<1> DEFINE S == Beside(key, t0, t1)
           N == Cardinality(S)
           s == SeriesOf(key, t0, t1)
<1>1. OneSeries(S) /\ s = InOrder(S)
  BY RowsBeside
<1>2. S = {i, key, j} /\ i.time \in Int /\ key.time \in Int /\ j.time \in Int
  <2>1. \A k \in S : k.time \in Int
    BY <1>1 DEF OneSeries
  <2> QED  BY <2>1
<1> HIDE DEF S
<1>3. /\ s \in Seq(S) /\ Len(s) = N /\ N \in Nat
      /\ \A k \in S : \E m \in 1 .. N : s[m] = k
      /\ \A m, l \in 1 .. N : m < l => s[m].time < s[l].time
  BY <1>1, Ordered
<1> HIDE DEF s
<1>4. N = 3
  <2>0. i # key /\ i # j /\ key # j
    BY <1>2
  <2>1. IsFiniteSet({i}) /\ Cardinality({i}) = 1
    BY FS_Singleton
  <2>2. IsFiniteSet({i} \union {key}) /\ Cardinality({i} \union {key}) = 2
    <3>1. key \notin {i}
      BY <2>0
    <3>2. /\ IsFiniteSet({i} \union {key})
          /\ Cardinality({i} \union {key}) = IF key \in {i} THEN Cardinality({i}) ELSE Cardinality({i}) + 1
      BY <2>1, FS_AddElement
    <3> QED  BY <2>1, <3>1, <3>2
  <2>3. Cardinality(({i} \union {key}) \union {j}) = 3
    <3> DEFINE two == {i} \union {key}
    <3>1. j \notin two
      BY <2>0
    <3> HIDE DEF two
    <3>2. Cardinality(two \union {j}) = IF j \in two THEN Cardinality(two) ELSE Cardinality(two) + 1
      BY <2>2, FS_AddElement DEF two
    <3>3. Cardinality(two) = 2
      BY <2>2 DEF two
    <3>4. Cardinality(two \union {j}) = 3
      BY <3>1, <3>2, <3>3
    <3> QED  BY <3>4 DEF two
  <2>4. S = ({i} \union {key}) \union {j}
    BY <1>2
  <2> QED  BY <2>3, <2>4
<1>5. PICK a \in 1 .. 3, b \in 1 .. 3, c \in 1 .. 3 : s[a] = i /\ s[b] = key /\ s[c] = j
  <2> HIDE DEF N
  <2> QED  BY <1>2, <1>3, <1>4
<1>6. \A m, l \in 1 .. 3 : m < l => s[m].time < s[l].time
  <2> HIDE DEF N
  <2> QED  BY <1>3, <1>4
<1>7. ~(b < a) /\ ~(c < b) /\ a # b /\ b # c
  BY <1>2, <1>5, <1>6
<1>8. a = 1 /\ c = 3
  BY <1>7
<1> QED
  BY <1>3, <1>4, <1>5, <1>8 DEF s

\* The rows around a candidate are its neighbours in time, of its own sensor, and there is one pair of them at most
\* (DipTestAlgorithm.cc, checkDipAndInterpolate).
LEMMA DipNeighbours ==
  ASSUME RowsTyped, NEW e, e.key \in DOMAIN table, NEW around \in Surroundings(e)
  PROVE  /\ around[1] \in DOMAIN table /\ around[2] \in DOMAIN table
         /\ SameSeries(e.key, around[1]) /\ SameSeries(e.key, around[2])
         /\ around[1].time < e.key.time /\ e.key.time < around[2].time
         /\ Within(around[1], around[2]) = {e.key}
         /\ \A other \in Surroundings(e) : other = around
<1> DEFINE k == e.key
           t0 == k.time - 60
           t1 == k.time + 60
           s == SeriesOf(k, t0, t1)
<1>1. k \in DOMAIN table /\ t0 \in Int /\ t1 \in Int
  BY DEF RowsTyped, Key
<1>2. \A a \in Surroundings(e) : \E n \in 2 .. Len(DipSeries(e)) - 1 :
         DipSeries(e)[n] = k /\ a = <<DipSeries(e)[n - 1], DipSeries(e)[n + 1]>>
  BY DEF Surroundings
<1>3. DipSeries(e) = s
  <2>1. DipSeries(e) = <<>> \/ DipSeries(e) = s
    BY DEF DipSeries
  <2>2. DipSeries(e) # <<>>
    BY <1>2
  <2> QED  BY <2>1, <2>2
<1> HIDE DEF s, t0, t1, k
<1>4. PICK n \in 2 .. Len(s) - 1 : s[n] = k /\ around = <<s[n - 1], s[n + 1]>>
  BY <1>2, <1>3
<1>5. s = SeriesOf(k, t0, t1)
  BY DEF s
<1>6. /\ s[n - 1] \in Beside(k, t0, t1) /\ s[n + 1] \in Beside(k, t0, t1)
      /\ s[n - 1].time < k.time /\ k.time < s[n + 1].time
      /\ {o \in DOMAIN table : /\ o.sensor = k.sensor /\ o.pid = k.pid /\ o.aggregated = k.aggregated
                               /\ s[n - 1].time < o.time /\ o.time < s[n + 1].time} = {k}
  BY ONLY RowsTyped, <1>1, <1>4, <1>5, NextInSeries
<1>7. \A o \in Beside(k, t0, t1) : o \in DOMAIN table /\ o.sensor = k.sensor /\ o.pid = k.pid /\ o.aggregated = k.aggregated
  BY DEF Beside, Between
<1>8. ASSUME NEW other \in Surroundings(e)  PROVE other = around
  <2>1. PICK m \in 2 .. Len(s) - 1 : s[m] = k /\ other = <<s[m - 1], s[m + 1]>>
    BY <1>2, <1>3
  <2> DEFINE S == Beside(k, t0, t1)
             N == Cardinality(S)
  <2>2. OneSeries(S) /\ s = InOrder(S)
    BY <1>1, <1>5, RowsBeside
  <2> HIDE DEF S
  <2>3. Len(s) = N /\ N \in Nat /\ \A l, o \in 1 .. N : l < o => s[l].time < s[o].time
    BY <2>2, Ordered
  <2> HIDE DEF N
  <2>4. k.time \in Int
    BY <1>1 DEF RowsTyped, Key
  <2>5. ~(m < n) /\ ~(n < m)
    BY <1>4, <2>1, <2>3, <2>4
  <2>6. m = n
    BY <2>5
  <2> QED  BY <1>4, <2>1, <2>6
<1>9. around[1] = s[n - 1] /\ around[2] = s[n + 1]
  BY <1>4
<1> QED
  BY ONLY <1>6, <1>7, <1>8, <1>9 DEF k, SameSeries, Within

-----------------------------------------------------------------------------
(* TypeOK is kept.                                                         *)

\* The inductive invariant: what objects are, and what a run is of.
WorkTyped ==
    /\ work = Nothing \/ (pc = "rows" /\ work.e \in list /\ work.stage \in {"dip", "write"})
    /\ work.stage = "dip" => algorithm = "DipTest" /\ RowRead(work.before) /\ RowRead(work.after)
    /\ work.stage = "write" => algorithm \in {"DipTest", "SingleLinear"} /\ \A u \in work.updates : RowRead(u)
TypeInv ==
    /\ objects = [a \in Algorithms |-> objects[a]]
    /\ \A a \in Algorithms : Typed(objects[a], a)
    /\ RowsTyped
    /\ pc \in {"idle", "run", "rows"} /\ files \subseteq DOMAIN Files /\ file \in files
    /\ pc # "idle" => file \in Runnable /\ (algorithm \in Elsewhere => pids = <<>>)
    /\ \A e \in list : e.key \in DOMAIN table /\ IsRow(e.row)
    /\ WorkTyped /\ meanwhile \subseteq DOMAIN table
    /\ calm \in BOOLEAN /\ settled \subseteq files /\ outside \in 0 .. MaxOutside

\* The invariant says what TypeOK says.
LEMMA TypeInvImplies == TypeInv => TypeOK
<1> SUFFICES ASSUME TypeInv PROVE TypeOK
  OBVIOUS
<1>1. ASSUME NEW a \in Algorithms
      PROVE  /\ DOMAIN objects[a] = DOMAIN Fresh(a)
             /\ objects[a].window \in Int \X Int
             /\ \A m \in FlagSetMembers(a) : objects[a][m] \in FlagSetCU
             /\ \A m \in FlagChangeMembers(a) : IsFlagChange(objects[a][m])
  <2>1. Typed(objects[a], a)
    BY DEF TypeInv
  <2> QED  BY <2>1, TypedMembers, Zenon DEF Typed, Object
<1>2. /\ \A e \in list : RowRead(e)
      /\ work = Nothing \/ (pc = "rows" /\ work.e \in list /\ work.stage \in {"dip", "write"})
      /\ work.stage = "dip" => RowRead(work.before) /\ RowRead(work.after)
      /\ work.stage = "write" => \A u \in work.updates : RowRead(u)
  BY Zenon DEF TypeInv, WorkTyped, RowRead
<1> QED
  BY <1>1, <1>2, Zenon DEF TypeInv, TypeOK, RowsTyped

\* A step that leaves the rows in hand alone leaves them typed.
LEMMA WorkKept ==
  ASSUME WorkTyped, DOMAIN table \subseteq DOMAIN table', UNCHANGED <<work, pc, list, file>>
  PROVE  WorkTyped'
<1>1. algorithm' = algorithm
  BY DEF algorithm
<1>2. \A d : RowRead(d) => d.key \in DOMAIN table' /\ IsRow(d.row)
  BY DEF RowRead
<1> QED
  BY <1>1, <1>2 DEF WorkTyped, RowRead

\* Nothing is in hand when a row's turn is over.
LEMMA WorkDone == work' = Nothing => WorkTyped'
<1>1. Nothing.stage = "none"
  BY DEF Nothing
<1> QED
  BY <1>1 DEF WorkTyped

\* It holds before any run.
LEMMA TypeInit == Init => TypeInv
<1> SUFFICES ASSUME Init PROVE TypeInv
  OBVIOUS
<1>1. PICK s \in Starts : table = s[1] /\ files = s[2]
  BY DEF Init
<1>2. RowsTyped /\ files # {} /\ files \subseteq DOMAIN Files
  BY <1>1, OutsideAssumption DEF RowsTyped
<1>3. file \in files
  BY <1>2 DEF Init
<1>4. objects = [a \in Algorithms |-> Fresh(a)] /\ pc = "idle" /\ list = {}
      /\ calm = FALSE /\ settled = {} /\ outside = 0 /\ meanwhile = {} /\ work = Nothing
  BY DEF Init
<1>5. ASSUME NEW a \in Algorithms  PROVE Typed(objects[a], a)
  <2>1. objects[a] = Fresh(a)
    BY <1>4
  <2> QED  BY <2>1, FreshTyped
<1>6. objects = [a \in Algorithms |-> objects[a]]
  BY <1>4
<1>7. outside \in 0 .. MaxOutside
  BY <1>4, BoundsAssumption
<1>8. WorkTyped
  BY <1>4 DEF WorkTyped, Nothing
<1> QED
  BY <1>2, <1>3, <1>4, <1>5, <1>6, <1>7, <1>8 DEF TypeInv

\* A step of a run writes rows, and with that the turn of others is over.
LEMMA WrittenTyped ==
  ASSUME TypeInv, NEW updates, UpdatesTyped(updates), Write(updates), work' = Nothing,
         UNCHANGED <<files, objects, pc, file, pids>>, list' \subseteq list
  PROVE  TypeInv'
<1>1. table' = Stored(updates) /\ settled' \subseteq settled /\ UNCHANGED <<meanwhile, calm, outside>>
  BY DEF Write
<1>2. DOMAIN Stored(updates) = DOMAIN table /\ \A k \in DOMAIN table : IsRow(Stored(updates)[k])
  BY StoredTyped DEF TypeInv
<1>3. DOMAIN table' = DOMAIN table /\ \A k \in DOMAIN table : IsRow(table'[k])
  BY <1>1, <1>2
<1>4. RowsTyped'
  BY <1>3 DEF TypeInv, RowsTyped
<1>5. \A e \in list' : e.key \in DOMAIN table' /\ IsRow(e.row)
  BY <1>3 DEF TypeInv
<1>6. algorithm' = algorithm
  BY DEF algorithm
<1>7. meanwhile' \subseteq DOMAIN table'
  BY <1>1, <1>3 DEF TypeInv
<1> QED
  BY <1>1, <1>4, <1>5, <1>6, <1>7, WorkDone DEF TypeInv

\* A step of a run that only reads rows has something in hand, or is done with one.
LEMMA ReadTyped ==
  ASSUME TypeInv, UNCHANGED <<table, files, objects, pc, file, pids, historyVars>>, list' \subseteq list, WorkTyped'
  PROVE  TypeInv'
<1>1. algorithm' = algorithm /\ UNCHANGED <<meanwhile, calm, settled, outside>>
  BY DEF algorithm, historyVars
<1>2. RowsTyped'
  BY DEF TypeInv, RowsTyped
<1> QED
  BY <1>1, <1>2 DEF TypeInv

\* What an object of an algorithm may do to a row.
LEMMA ObjectChange ==
  ASSUME TypeInv, pc # "idle", NEW m \in FlagChangeMembers(algorithm)
  PROVE  IsFlagChange(object[m])
<1>1. algorithm \in Algorithms
  BY DEF TypeInv, Runnable, algorithm
<1>2. Typed(object, algorithm)
  BY <1>1 DEF TypeInv, object
<1> QED
  BY <1>1, <1>2, TypedMembers

\* The flag changes of the algorithms that write rows.
LEMMA ChangeMembers ==
  /\ {"dip_flagchange", "afterdip_flagchange"} \subseteq FlagChangeMembers("DipTest")
  /\ {"ftime0_flagchange", "ftime1_flagchange"} \subseteq FlagChangeMembers("SingleLinear")
  /\ {"mFlagChangeMin", "mFlagChangeMax"} \subseteq FlagChangeMembers("AggregatorLimits")
<1>1. ASSUME NEW a \in Algorithms, NEW i \in DOMAIN Calls(a), Calls(a)[i].kind = "change"
      PROVE  Calls(a)[i].member \in FlagChangeMembers(a)
  BY <1>1 DEF FlagChangeMembers, ToSet
<1>2. /\ Calls("DipTest") = DipTestCalls /\ Calls("SingleLinear") = SingleLinearCalls
      /\ Calls("AggregatorLimits") = AggregatorLimitsCalls
  BY DEF Calls, AllCalls
<1>3. /\ 9 \in DOMAIN DipTestCalls /\ DipTestCalls[9].kind = "change" /\ DipTestCalls[9].member = "dip_flagchange"
      /\ 10 \in DOMAIN DipTestCalls /\ DipTestCalls[10].kind = "change" /\ DipTestCalls[10].member = "afterdip_flagchange"
  BY DEF DipTestCalls, Simple, FlagSet, FlagChange, Default
<1>4. /\ 4 \in DOMAIN SingleLinearCalls /\ SingleLinearCalls[4].kind = "change"
      /\ SingleLinearCalls[4].member = "ftime0_flagchange"
      /\ 5 \in DOMAIN SingleLinearCalls /\ SingleLinearCalls[5].kind = "change"
      /\ SingleLinearCalls[5].member = "ftime1_flagchange"
  BY DEF SingleLinearCalls, Simple, FlagSet, FlagChange, Default
<1>5. /\ 2 \in DOMAIN AggregatorLimitsCalls /\ AggregatorLimitsCalls[2].kind = "change"
      /\ AggregatorLimitsCalls[2].member = "mFlagChangeMin"
      /\ 3 \in DOMAIN AggregatorLimitsCalls /\ AggregatorLimitsCalls[3].kind = "change"
      /\ AggregatorLimitsCalls[3].member = "mFlagChangeMax"
  BY DEF AggregatorLimitsCalls, Simple, FlagSet, FlagChange, Default
<1>6. {"DipTest", "SingleLinear", "AggregatorLimits"} \subseteq Algorithms
  BY DEF Algorithms
<1>7. "dip_flagchange" \in FlagChangeMembers("DipTest") /\ "afterdip_flagchange" \in FlagChangeMembers("DipTest")
  BY <1>1, <1>2, <1>3, <1>6
<1>8. "ftime0_flagchange" \in FlagChangeMembers("SingleLinear") /\ "ftime1_flagchange" \in FlagChangeMembers("SingleLinear")
  BY <1>1, <1>2, <1>4, <1>6
<1>9. "mFlagChangeMin" \in FlagChangeMembers("AggregatorLimits") /\ "mFlagChangeMax" \in FlagChangeMembers("AggregatorLimits")
  BY <1>1, <1>2, <1>5, <1>6
<1> QED
  BY <1>7, <1>8, <1>9

\* DipTestAlgorithm::checkDipAndInterpolate: the rows around a candidate are rows of the table.
LEMMA CompareRowsTyped ==
  ASSUME TypeInv, NEW e \in list, CompareRows(e)
  PROVE  TypeInv'
<1>1. /\ algorithm = "DipTest" /\ pc = "rows" /\ work = Nothing
      /\ UNCHANGED <<table, files, objects, pc, file, pids, historyVars>>
  BY DEF CompareRows, Due
<1>2. CASE NothingToDo(e)
  <2>1. list' \subseteq list /\ work' = Nothing
    BY <1>1, <1>2 DEF NothingToDo
  <2> QED  BY <1>1, <2>1, WorkDone, ReadTyped
<1>3. ASSUME NEW around \in DipsAround(e),
             Planned([stage |-> "dip", e |-> e, before |-> RowAt(around[1]), after |-> RowAt(around[2])])
      PROVE  TypeInv'
  <2> DEFINE i == around[1]
             j == around[2]
  <2>1. i \in DOMAIN table /\ j \in DOMAIN table
    <3>1. around \in Surroundings(e)
      BY DEF DipsAround
    <3>2. RowsTyped /\ e.key \in DOMAIN table
      BY DEF TypeInv
    <3> QED  BY <3>1, <3>2, DipNeighbours
  <2>2. /\ list' = list /\ work' = [stage |-> "dip", e |-> e, before |-> RowAt(i), after |-> RowAt(j)]
    BY <1>3 DEF Planned
  <2> HIDE DEF i, j
  <2>3. /\ work'.stage = "dip" /\ work'.e = e
        /\ work'.before = [key |-> i, row |-> table[i]] /\ work'.after = [key |-> j, row |-> table[j]]
    BY <2>2 DEF RowAt
  <2>4. work'.before.key = i /\ work'.before.row = table[i] /\ work'.after.key = j /\ work'.after.row = table[j]
    BY <2>3
  <2>5. IsRow(table[i]) /\ IsRow(table[j])
    BY <2>1 DEF TypeInv, RowsTyped
  <2>6. RowRead(work.before)' /\ RowRead(work.after)' /\ algorithm' = "DipTest"
    BY <1>1, <2>1, <2>4, <2>5 DEF RowRead, algorithm
  <2>7. WorkTyped'
    BY <1>1, <2>2, <2>3, <2>6 DEF WorkTyped
  <2> QED  BY <1>1, <2>2, <2>7, ReadTyped
<1> QED
  BY <1>2, <1>3 DEF CompareRows

\* The flag changes that an object of DipTest, or of SingleLinear, has.
LEMMA ChangesHad ==
  ASSUME TypeInv, pc # "idle"
  PROVE  /\ algorithm = "DipTest" => IsFlagChange(object.dip_flagchange) /\ IsFlagChange(object.afterdip_flagchange)
         /\ algorithm = "SingleLinear" => IsFlagChange(object.ftime0_flagchange) /\ IsFlagChange(object.ftime1_flagchange)
<1>1. CASE algorithm = "DipTest"
  <2>1. "dip_flagchange" \in FlagChangeMembers(algorithm) /\ "afterdip_flagchange" \in FlagChangeMembers(algorithm)
    BY <1>1, ChangeMembers
  <2> QED  BY <1>1, <2>1, ObjectChange
<1>2. CASE algorithm = "SingleLinear"
  <2>1. "ftime0_flagchange" \in FlagChangeMembers(algorithm) /\ "ftime1_flagchange" \in FlagChangeMembers(algorithm)
    BY <1>2, ChangeMembers
  <2> QED  BY <1>2, <2>1, ObjectChange
<1> QED
  BY <1>1, <1>2

\* tryAkima and writeChanges: what is to be written are rows.
LEMMA TryAkimaTyped ==
  ASSUME TypeInv, NEW curve, TryAkima(curve)
  PROVE  TypeInv'
<1> DEFINE e == work.e
           before == work.before
           after == work.after
           own == [key |-> e.key, row |-> Dip(e, before, after, curve)]
           behind == [key |-> after.key, row |-> Changed(after.row, object.afterdip_flagchange)]
<1>1. /\ work.stage = "dip" /\ work # Nothing
      /\ UNCHANGED <<table, files, objects, pc, file, pids, historyVars>>
  BY DEF TryAkima, Nothing
<1>2. list' = list /\ work' = ToWrite(e, DipUpdates(e, before, after, curve))
  BY DEF TryAkima, Planned
<1>3. algorithm = "DipTest" /\ pc = "rows" /\ e \in list /\ RowRead(after)
  BY <1>1 DEF TypeInv, WorkTyped
<1>4. IsRow(e.row) /\ e.key \in DOMAIN table /\ IsRow(after.row) /\ after.key \in DOMAIN table
  BY <1>3 DEF TypeInv, RowRead
<1>5. IsFlagChange(object.dip_flagchange) /\ IsFlagChange(object.afterdip_flagchange)
  BY <1>3, ChangesHad
<1>6. DipUpdates(e, before, after, curve) = {own, behind}
  BY DEF DipUpdates
<1> HIDE DEF e, before, after
<1>7. IsRow(own.row) /\ own.key = e.key
  <2>1. IsRow([e.row EXCEPT !.corrected = DipValue(e, before, after, curve)])
    BY <1>4, RowCorrected
  <2>2. IsRow(Dip(e, before, after, curve))
    BY <1>5, <2>1, ChangedTyped DEF Dip
  <2> QED  BY <2>2
<1>8. IsRow(behind.row) /\ behind.key = after.key
  <2>1. IsRow(Changed(after.row, object.afterdip_flagchange))
    BY <1>4, <1>5, ChangedTyped
  <2> QED  BY <2>1
<1> HIDE DEF own, behind
<1>9. work'.stage = "write" /\ work'.e = e /\ work'.updates = {own, behind}
  BY <1>2, <1>6 DEF ToWrite
<1>10. \A u \in work'.updates : RowRead(u)'
  BY <1>1, <1>4, <1>7, <1>8, <1>9 DEF RowRead
<1>11. algorithm' = "DipTest"
  BY <1>1, <1>3 DEF algorithm
<1>12. WorkTyped'
  BY <1>1, <1>2, <1>3, <1>9, <1>10, <1>11 DEF WorkTyped
<1> QED
  BY <1>1, <1>2, <1>12, ReadTyped

\* SingleLinear: a row that is worked out is a row.
LEMMA CalculatedTyped ==
  ASSUME TypeInv, NEW e \in list, algorithm = "SingleLinear", pc # "idle", NEW before, NEW after
  PROVE  IsRow(Calculated(e.row, before, after))
<1>1. IsFlagChange(object.ftime0_flagchange) /\ IsFlagChange(object.ftime1_flagchange)
  BY ChangesHad
<1>2. IsRow(e.row)
  BY DEF TypeInv
<1>3. ASSUME NEW v
      PROVE  /\ IsRow([e.row EXCEPT !.corrected = v])
             /\ IsRow(Changed([e.row EXCEPT !.corrected = v], object.ftime0_flagchange))
             /\ IsRow(Changed([e.row EXCEPT !.corrected = v], object.ftime1_flagchange))
  <2>1. IsRow([e.row EXCEPT !.corrected = v])
    BY <1>2, RowCorrected
  <2> QED  BY <1>1, <2>1, ChangedTyped
<1> DEFINE mean == Mean(before, after)
           gone == CASE e.row.control.fmis \in {1, 3} -> Corrected("missing", Missing, {})
                     [] e.row.control.fmis \in {2, 4} -> Corrected("rejected", Rejected, {})
                     [] OTHER -> mean
           good == IsNeighborOk(table[before]) /\ IsNeighborOk(table[after])
<1>4. Calculated(e.row, before, after) =
        IF good
        THEN IF e.row.control.ftime = 0
             THEN Changed([e.row EXCEPT !.corrected = mean], object.ftime0_flagchange)
             ELSE IF e.row.control.ftime = 1 THEN [e.row EXCEPT !.corrected = mean] ELSE e.row
        ELSE IF e.row.control.ftime = 1
             THEN Changed([e.row EXCEPT !.corrected = gone], object.ftime1_flagchange)
             ELSE e.row
  BY DEF Calculated
<1> HIDE DEF mean, gone, good
<1>5. /\ IsRow([e.row EXCEPT !.corrected = mean])
      /\ IsRow(Changed([e.row EXCEPT !.corrected = mean], object.ftime0_flagchange))
      /\ IsRow(Changed([e.row EXCEPT !.corrected = gone], object.ftime1_flagchange))
  BY <1>3
<1> QED
  BY ONLY <1>2, <1>4, <1>5

\* The rows around a missing one are read.
LEMMA CompareNeighboursTyped ==
  ASSUME TypeInv, NEW e \in list, CompareNeighbours(e)
  PROVE  TypeInv'
<1>1. /\ algorithm = "SingleLinear" /\ pc = "rows" /\ work = Nothing
      /\ UNCHANGED <<table, files, objects, pc, file, pids, historyVars>>
  BY DEF CompareNeighbours, Due
<1>2. CASE NothingToDo(e)
  <2>1. list' \subseteq list /\ work' = Nothing
    BY <1>1, <1>2 DEF NothingToDo
  <2> QED  BY <1>1, <2>1, WorkDone, ReadTyped
<1>3. CASE Planned(ToWrite(e, FillUpdates(e)))
  <2> DEFINE series == SeriesOf(e.key, e.key.time - 60, e.key.time + 60)
             new == Calculated(e.row, series[1], series[3])
             u == [key |-> e.key, row |-> new]
  <2>1. IsRow(new)
    BY <1>1, CalculatedTyped
  <2>2. FillUpdates(e) \subseteq {u}
    BY DEF FillUpdates
  <2>3. e.key \in DOMAIN table
    BY DEF TypeInv
  <2> HIDE DEF new
  <2>4. u.key = e.key /\ u.row = new
    OBVIOUS
  <2> HIDE DEF u
  <2>5. list' = list /\ work' = ToWrite(e, FillUpdates(e))
    BY <1>3 DEF Planned
  <2>6. work'.stage = "write" /\ work'.e = e /\ work'.updates = FillUpdates(e)
    BY <2>5 DEF ToWrite
  <2>7. \A v \in work'.updates : RowRead(v)'
    BY <1>1, <2>1, <2>2, <2>3, <2>4, <2>6 DEF RowRead
  <2>8. algorithm' = "SingleLinear"
    BY <1>1 DEF algorithm
  <2>9. WorkTyped'
    BY <1>1, <2>5, <2>6, <2>7, <2>8 DEF WorkTyped
  <2> QED  BY <1>1, <2>5, <2>9, ReadTyped
<1> QED
  BY <1>2, <1>3 DEF CompareNeighbours

\* What has been worked out is written.
LEMMA StoreChangesTyped ==
  ASSUME TypeInv, StoreChanges
  PROVE  TypeInv'
<1> DEFINE updates == work.updates
<1>1. /\ work.stage = "write" /\ Write(updates) /\ list' \subseteq list /\ work' = Nothing
      /\ UNCHANGED <<files, objects, pc, file, pids>>
  BY DEF StoreChanges
<1>2. UpdatesTyped(updates)
  BY <1>1 DEF TypeInv, WorkTyped, RowRead, UpdatesTyped
<1> HIDE DEF updates
<1> QED
  BY <1>1, <1>2, WrittenTyped

\* AggregatorLimits, all rows at once.
LEMMA CheckLimitsTyped ==
  ASSUME TypeInv, CheckLimits
  PROVE  TypeInv'
<1>1. /\ algorithm = "AggregatorLimits" /\ pc # "idle" /\ Write(LimitUpdates(list))
      /\ UNCHANGED <<files, objects, pc, file, pids>> /\ list' \subseteq list /\ work' = work
  BY DEF CheckLimits
<1>0. work = Nothing
  BY <1>1 DEF TypeInv, WorkTyped
<1>2. IsFlagChange(object.mFlagChangeMin) /\ IsFlagChange(object.mFlagChangeMax)
  <2>1. "mFlagChangeMin" \in FlagChangeMembers(algorithm) /\ "mFlagChangeMax" \in FlagChangeMembers(algorithm)
    BY <1>1, ChangeMembers
  <2> QED  BY <1>1, <2>1, ObjectChange
<1>3. UpdatesTyped(LimitUpdates(list))
  <2>1. ASSUME NEW u \in LimitUpdates(list)  PROVE IsRow(u.row)
    <3>1. PICK e \in list :
            u = [key |-> e.key,
                 row |-> Changed(e.row, IF e.row.corrected.value < LowLimit THEN object.mFlagChangeMin ELSE object.mFlagChangeMax)]
      BY DEF LimitUpdates
    <3>2. IsRow(e.row)
      BY DEF TypeInv
    <3> DEFINE change == IF e.row.corrected.value < LowLimit THEN object.mFlagChangeMin ELSE object.mFlagChangeMax
    <3>3. IsFlagChange(change)
      BY <1>2
    <3>4. u.row = Changed(e.row, change)
      BY <3>1
    <3> HIDE DEF change
    <3> QED  BY <3>2, <3>3, <3>4, ChangedTyped
  <2> QED  BY <2>1 DEF UpdatesTyped
<1> QED
  BY <1>0, <1>1, <1>3, WrittenTyped

\* AlgorithmDispatcher::select.
LEMMA SelectTyped ==
  ASSUME TypeInv, NEW f \in files, Select(f)
  PROVE  TypeInv'
<1> DEFINE a == AlgorithmOf(f)
           configured == Configure(objects[a], Items(f), a)
<1>1. /\ f \in Runnable /\ file' = f /\ list' = {} /\ calm' = TRUE /\ pc = "idle"
      /\ UNCHANGED <<table, files, work, meanwhile, settled, outside>>
  BY DEF Select
<1>2. a \in Algorithms /\ f \in DOMAIN Files
  BY <1>1 DEF Runnable
<1>3. /\ objects' = [objects EXCEPT ![a] = configured.object] /\ pc' \in {"idle", "run"}
      /\ pids' = <<>> \/ pids' = PidsToRun(a, configured.object)
  BY DEF Select, Configured
<1>4. Typed(configured.object, a)
  BY <1>2, ConfiguredTyped DEF TypeInv
<1>5. a \in Elsewhere => pids' = <<>>
  <2>1. a \in Elsewhere => PidsToRun(a, configured.object) = <<>>
    BY DEF PidsToRun, Elsewhere
  <2> QED  BY <1>3, <2>1
<1> HIDE DEF configured, a
<1>6. objects' = [b \in Algorithms |-> objects'[b]] /\ objects'[a] = configured.object
      /\ \A b \in Algorithms : b # a => objects'[b] = objects[b]
  BY <1>2, <1>3 DEF TypeInv
<1>7. \A b \in Algorithms : Typed(objects'[b], b)
  <2>1. ASSUME NEW b \in Algorithms  PROVE Typed(objects'[b], b)
    BY <1>4, <1>6 DEF TypeInv
  <2> QED  BY <2>1
<1>8. algorithm' = a
  BY <1>1 DEF algorithm, a
<1>9. RowsTyped'
  BY <1>1 DEF TypeInv, RowsTyped
<1>10. WorkTyped'
  BY <1>1, WorkDone DEF TypeInv, WorkTyped
<1> QED
  BY <1>1, <1>3, <1>5, <1>6, <1>7, <1>8, <1>9, <1>10 DEF TypeInv

\* Rows that are read are rows of the table.
LEMMA ReadRowsTyped ==
  ASSUME TypeInv, ReadRows
  PROVE  TypeInv'
<1>1. /\ pc = "run" /\ pids # <<>> /\ pc' = "rows" /\ meanwhile' = {}
      /\ UNCHANGED <<table, files, objects, file, work, calm, settled, outside>>
  BY DEF ReadRows
<1>2. algorithm \in {"DipTest", "SingleLinear", "AggregatorLimits"}
  <2>1. algorithm \notin Elsewhere /\ algorithm \in Algorithms
    BY <1>1 DEF TypeInv, Runnable, algorithm
  <2> QED  BY <2>1 DEF Algorithms
<1>3. ASSUME NEW pid, NEW aggregated, NEW e \in FindData(pid, aggregated, FlagsToRead)
      PROVE  e.key \in DOMAIN table /\ IsRow(e.row)
  <2>1. PICK k \in Between(pid, aggregated, ut0, ut1) : e = [key |-> k, row |-> table[k]]
    BY DEF FindData, Rows, RowAt
  <2>2. k \in DOMAIN table
    BY DEF Between
  <2> QED  BY <2>1, <2>2 DEF TypeInv, RowsTyped
<1>4. \A e \in list' : e.key \in DOMAIN table /\ IsRow(e.row)
  <2>1. CASE algorithm = "DipTest"
    <3>1. list' \subseteq FindData(Head(pids), FALSE, FlagsToRead)
      BY <2>1 DEF ReadRows
    <3> QED  BY <1>3, <3>1
  <2>2. CASE algorithm = "SingleLinear"
    <3>1. list' = FindData(Head(pids), FALSE, FlagsToRead)
      BY <2>2 DEF ReadRows
    <3> QED  BY <1>3, <3>1
  <2>3. CASE algorithm = "AggregatorLimits"
    <3>1. list' = UNION {FindData(p, TRUE, FlagsToRead) : p \in Limited}
      BY <2>3 DEF ReadRows
    <3> QED  BY <1>3, <3>1
  <2> QED  BY <1>2, <2>1, <2>2, <2>3
<1>5. algorithm' = algorithm /\ algorithm \notin Elsewhere
  BY <1>1, <1>2 DEF algorithm, Elsewhere
<1>6. RowsTyped'
  BY <1>1 DEF TypeInv, RowsTyped
<1>7. WorkTyped'
  BY <1>1, WorkDone DEF TypeInv, WorkTyped
<1> QED
  BY <1>1, <1>4, <1>5, <1>6, <1>7 DEF TypeInv

\* A row arrives.
LEMMA ObserveTyped ==
  ASSUME TypeInv, NEW l \in Late, Observe(l[1], l[2])
  PROVE  TypeInv'
<1> DEFINE k == l[1]
           row == l[2]
<1>1. k \in Key /\ IsRow(row)
  BY OutsideAssumption
<1>2. /\ outside < MaxOutside /\ outside' = outside + 1 /\ calm' = FALSE /\ settled' = {}
      /\ table' = [j \in DOMAIN table \union {k} |-> IF j = k THEN row ELSE table[j]]
      /\ UNCHANGED <<files, objects, pc, file, pids, list, work>> /\ meanwhile' = meanwhile \union {k}
  BY DEF Observe, FromOutside, runVars
<1> HIDE DEF k, row
<1>3. DOMAIN table' = DOMAIN table \union {k} /\ \A j \in DOMAIN table' : IsRow(table'[j])
  <2>1. ASSUME NEW j \in DOMAIN table'  PROVE IsRow(table'[j])
    <3>1. table'[j] = IF j = k THEN row ELSE table[j]
      BY <1>2
    <3>2. j # k => j \in DOMAIN table
      BY <1>2
    <3> QED  BY <1>1, <3>1, <3>2 DEF TypeInv, RowsTyped
  <2>2. DOMAIN table' = DOMAIN table \union {k}
    BY <1>2
  <2> QED  BY <2>1, <2>2
<1>4. RowsTyped'
  BY <1>1, <1>3 DEF TypeInv, RowsTyped
<1>5. outside' \in 0 .. MaxOutside
  BY <1>2, BoundsAssumption DEF TypeInv
<1>6. algorithm' = algorithm
  BY <1>2 DEF algorithm
<1>7. WorkTyped'
  BY <1>2, <1>3, WorkKept DEF TypeInv
<1>8. meanwhile' \subseteq DOMAIN table'
  BY <1>2, <1>3 DEF TypeInv
<1> QED
  BY <1>2, <1>3, <1>4, <1>5, <1>6, <1>7, <1>8 DEF TypeInv

\* An operator corrects one.
LEMMA HqcTyped ==
  ASSUME TypeInv, NEW k \in HqcKeys, Hqc(k)
  PROVE  TypeInv'
<1> DEFINE r == table[k]
           c == [r EXCEPT !.corrected = Corrected("operator", 0, {})]
           control == [r.control EXCEPT !.fhqc = 7]
<1>1. /\ outside < MaxOutside /\ outside' = outside + 1 /\ calm' = FALSE /\ settled' = {}
      /\ k \in DOMAIN table /\ table' = [table EXCEPT ![k] = WithControl(c, control)]
      /\ UNCHANGED <<files, objects, pc, file, pids, list, work>> /\ meanwhile' = meanwhile \union {k}
  BY DEF Hqc, FromOutside, runVars
<1>2. IsRow(r)
  BY <1>1 DEF TypeInv, RowsTyped
<1> HIDE DEF r
<1>3. IsRow(c)
  BY <1>2, RowCorrected
<1>4. control \in [ControlFlags -> FlagValue]
  <2>1. r.control \in [ControlFlags -> FlagValue] /\ 7 \in FlagValue
    BY <1>2, FlagsAssumption DEF IsRow
  <2> QED  BY <2>1
<1> HIDE DEF c, control
<1>5. IsRow(WithControl(c, control))
  BY <1>3, <1>4, RowChanged
<1>6. DOMAIN table' = DOMAIN table /\ \A j \in DOMAIN table : IsRow(table'[j])
  <2>1. ASSUME NEW j \in DOMAIN table  PROVE IsRow(table'[j])
    <3>1. table'[j] = IF j = k THEN WithControl(c, control) ELSE table[j]
      BY <1>1
    <3> QED  BY <1>5, <3>1 DEF TypeInv, RowsTyped
  <2>2. DOMAIN table' = DOMAIN table
    BY <1>1
  <2> QED  BY <2>1, <2>2
<1>7. RowsTyped'
  BY <1>6 DEF TypeInv, RowsTyped
<1>8. outside' \in 0 .. MaxOutside
  BY <1>1, BoundsAssumption DEF TypeInv
<1>9. algorithm' = algorithm
  BY <1>1 DEF algorithm
<1>10. WorkTyped'
  BY <1>1, <1>6, WorkKept DEF TypeInv
<1>11. meanwhile' \subseteq DOMAIN table'
  BY <1>1, <1>6 DEF TypeInv
<1> QED
  BY <1>1, <1>6, <1>7, <1>8, <1>9, <1>10, <1>11 DEF TypeInv

\* Steps that end a run, and those between the parameters of one.
LEMMA EndTyped ==
  ASSUME TypeInv, UNCHANGED <<table, files, objects, file, meanwhile>>, calm' \in BOOLEAN,
         settled' \subseteq files, outside' \in 0 .. MaxOutside, work' = Nothing,
         \/ pc' = "idle" /\ list' \subseteq list
         \/ pc # "idle" /\ pc' = "run" /\ pids' = pids /\ list' = list
  PROVE  TypeInv'
<1>1. RowsTyped' /\ \A e \in list' : e.key \in DOMAIN table' /\ IsRow(e.row)
  BY DEF TypeInv, RowsTyped
<1>2. algorithm' = algorithm
  BY DEF algorithm
<1>3. pc' \in {"idle", "run", "rows"}
  OBVIOUS
<1>4. pc' # "idle" => file' \in Runnable /\ (algorithm' \in Elsewhere => pids' = <<>>)
  BY <1>2 DEF TypeInv
<1> QED
  BY <1>1, <1>3, <1>4, WorkDone DEF TypeInv

\* Every step keeps the invariant.
LEMMA TypeStep == TypeInv /\ [Next]_vars => TypeInv'
<1> SUFFICES ASSUME TypeInv, [Next]_vars PROVE TypeInv'
  OBVIOUS
<1>0. objects = [a \in Algorithms |-> objects[a]]
  BY DEF TypeInv
<1>1. ASSUME NEW f \in files, Select(f)  PROVE TypeInv'
  BY <1>1, SelectTyped
<1>2. CASE ReadRows
  BY <1>2, ReadRowsTyped
<1>3. CASE ReadRefused
  <2>1. Idle(object) /\ settled' = {} /\ UNCHANGED <<table, files, file, meanwhile, calm, outside>>
    BY <1>3 DEF ReadRefused
  <2>2. objects' = objects /\ pc' = "idle" /\ list' = {} /\ work' = Nothing
    BY <1>0, <2>1, Idles
  <2> QED  BY <2>1, <2>2, EndTyped DEF TypeInv
<1>4. ASSUME NEW e \in list, CompareRows(e) \/ CompareNeighbours(e)  PROVE TypeInv'
  BY <1>4, CompareRowsTyped, CompareNeighboursTyped
<1>5. ASSUME \/ \E curve \in CurveValues : TryAkima(curve)
             \/ StoreChanges
      PROVE  TypeInv'
  BY <1>5, TryAkimaTyped, StoreChangesTyped
<1>6. CASE CheckLimits
  BY <1>6, CheckLimitsTyped
<1>7. CASE EndRows
  <2>1. /\ pc = "rows" /\ list = {} /\ pc' = "run"
        /\ UNCHANGED <<table, files, objects, file, pids, list, work, meanwhile, calm, settled, outside>>
    BY <1>7 DEF EndRows, historyVars
  <2>2. work = Nothing
    BY <2>1 DEF TypeInv, WorkTyped
  <2> QED  BY <2>1, <2>2, EndTyped DEF TypeInv
<1>8. CASE EndRun
  <2>1. settled' \subseteq files
    BY <1>8 DEF EndRun, TypeInv
  <2>2. pc = "run" /\ pc' = "idle" /\ UNCHANGED <<table, files, objects, file, pids, list, work, meanwhile, calm, outside>>
    BY <1>8 DEF EndRun
  <2>3. work = Nothing
    BY <2>2 DEF TypeInv, WorkTyped
  <2> QED  BY <2>1, <2>2, <2>3, EndTyped DEF TypeInv
<1>9. ASSUME NEW l \in Late, Observe(l[1], l[2])  PROVE TypeInv'
  BY <1>9, ObserveTyped
<1>10. ASSUME NEW k \in HqcKeys, Hqc(k)  PROVE TypeInv'
  BY <1>10, HqcTyped
<1>11. CASE Abort
  <2>1. /\ Idle(object) /\ settled' = {} /\ calm' = FALSE /\ UNCHANGED <<table, files, file, meanwhile>>
        /\ outside < MaxOutside /\ outside' = outside + 1
    BY <1>11 DEF Abort, FromOutside
  <2>2. objects' = objects /\ pc' = "idle" /\ list' = {} /\ work' = Nothing
    BY <1>0, <2>1, Idles
  <2>3. outside' \in 0 .. MaxOutside
    BY <2>1, BoundsAssumption DEF TypeInv
  <2> QED  BY <2>1, <2>2, <2>3, EndTyped
<1>12. CASE UNCHANGED vars
  <2>1. UNCHANGED <<table, files, objects, pc, file, pids, historyVars, list, work>>
    BY <1>12 DEF vars, runVars, historyVars
  <2>2. WorkTyped'
    BY <2>1, WorkKept DEF TypeInv
  <2> QED  BY <2>1, <2>2, ReadTyped
<1> QED
  BY <1>1, <1>2, <1>3, <1>4, <1>5, <1>6, <1>7, <1>8, <1>9, <1>10, <1>11, <1>12 DEF Next

\* For all files, tables and histories of runs: objects keep their members, each of its type, whatever
\* a configure() that throws has left; rows keep flags that flags can have; and what a run has read
\* is in the table (AlgorithmDispatcher::select, DipTestAlgorithm.cc,
\* SingleLinearAlgorithm.cc, AggregatorLimits.cc).
THEOREM RowChecksTypes == Spec => []TypeOK
<1> QED
  BY TypeInit, TypeStep, TypeInvImplies, PTL DEF Spec

-----------------------------------------------------------------------------
(* SqlAgrees.                                                             *)

\* Rows are selected by the text of a flag set as matches() would select them, for all sets of
\* flags and values, all tables and all flag sets (FlagPatterns.cc:32-94, FlagPattern.cc:50-121).
THEOREM SelectedRowsMatch == TypeOK => SqlAgrees
<1> SUFFICES ASSUME TypeOK, NEW a \in Algorithms, NEW m \in FlagSetMembers(a), NEW k \in DOMAIN table
             PROVE  SqlSelects(SetSql(objects[a][m]), table[k]) <=> SetMatches(objects[a][m], table[k])
  BY Zenon DEF SqlAgrees
<1>1. objects[a][m] \in FlagSetCU
  BY Zenon DEF TypeOK
<1>2. table[k].control \in [ControlFlags -> FlagValue] /\ table[k].use \in [UseFlags -> FlagValue]
  BY Zenon DEF TypeOK, IsRow
<1> QED BY <1>1, <1>2, FlagSetAgrees, Zenon

\* In all states, for the flag sets that the objects have then, the database selects the rows that
\* matches() would (FlagPatterns.cc:32-94, FlagPattern.cc:50-121).
THEOREM RowsSelectedAsMatched == Spec => []SqlAgrees
<1> QED
  BY TypeInit, TypeStep, TypeInvImplies, SelectedRowsMatch, PTL DEF Spec

-----------------------------------------------------------------------------
(* What the texts mean that are used for flags a file does not set.        *)

\* All alternatives of a text that leaves no error are read, in turn (FlagPatterns.cc, parse).
LEMMA AllRead ==
  ASSUME NEW F, NEW texts, List(texts), ~ParsePatterns(NoPatterns, F, texts).error
  PROVE  /\ \A i \in DOMAIN texts : PatternParsed(F, texts[i])
         /\ ParsePatterns(NoPatterns, F, texts).patterns = [i \in DOMAIN texts |-> ParsePattern(F, texts[i])]
<1> DEFINE parsed == [i \in DOMAIN texts |-> PatternParsed(F, texts[i])]
           end == FirstFailed(parsed)
           k == Len(texts)
           more == [i \in 1 .. end - 1 |-> ParsePattern(F, texts[i])]
<1>1. k \in Nat /\ DOMAIN texts = 1 .. k
  BY ListIs
<1>2. DOMAIN parsed = 1 .. k /\ parsed = [i \in 1 .. k |-> parsed[i]]
  BY <1>1
<1>3. end \in 1 .. k + 1 /\ \A j \in 1 .. end - 1 : parsed[j]
  <2> HIDE DEF parsed, k
  <2> QED  BY <1>1, <1>2, FirstFailedAt
<1>4. ParsePatterns(NoPatterns, F, texts).patterns = <<>> \o more /\ ~(end <= k)
  <2> DEFINE late == NoPatterns.error \/ end <= Len(texts)
  <2>1. ParsePatterns(NoPatterns, F, texts) = [patterns |-> <<>> \o more, error |-> late]
    BY DEF ParsePatterns, NoPatterns, Patterns
  <2> DEFINE p == <<>> \o more
             r == ParsePatterns(NoPatterns, F, texts)
  <2>a. ~r.error /\ r = [patterns |-> p, error |-> late]
    BY <2>1
  <2>b. late \in BOOLEAN
    BY DEF NoPatterns, Patterns
  <2> HIDE DEF late, p, r
  <2>2. r.patterns = p
    BY ONLY <2>a
  <2>3. ~late
    <3>1. CASE late = TRUE
      <4>1. r = [patterns |-> p, error |-> TRUE]
        BY ONLY <2>a, <3>1
      <4> QED  BY ONLY <2>a, <4>1
    <3> QED  BY ONLY <2>b, <3>1
  <2> QED  BY <2>2, <2>3 DEF late, p, r
<1> HIDE DEF end
<1>5. end - 1 = k
  <2>1. ~(end <= k)
    BY <1>4
  <2> QED  BY <1>1, <1>3, <2>1
<1>6. \A i \in 1 .. k : PatternParsed(F, texts[i])
  BY <1>1, <1>3, <1>5
<1>7. more = [i \in 1 .. k |-> ParsePattern(F, texts[i])]
  BY <1>5
<1>8. <<>> \o more = more
  <2> DEFINE S == {ParsePattern(F, texts[i]) : i \in 1 .. k}
  <2>1. more \in [1 .. k -> S]
    BY <1>7
  <2> HIDE DEF more, S, k
  <2>2. more \in Seq(S)
    BY <1>1, <2>1
  <2> QED  BY <2>2
<1> QED
  BY <1>1, <1>4, <1>6, <1>7, <1>8

\* A flag that one term names is constrained by that term alone.
LEMMA SoleTerm ==
  ASSUME NEW F, NEW terms, NEW t \in terms, t.flag \in F, \A u \in terms : u.flag = t.flag => u = t
  PROVE  /\ Constrained(F, terms).permitted[t.flag] = IF t.how = "in" THEN t.values ELSE {}
         /\ Constrained(F, terms).forbidden[t.flag] = IF t.how = "not" THEN t.values ELSE {}
<1> DEFINE Of(f, how) == UNION {u.values : u \in {w \in terms : w.flag = f /\ w.how = how}}
<1>1. \A how : {w \in terms : w.flag = t.flag /\ w.how = how} = IF t.how = how THEN {t} ELSE {}
  OBVIOUS
<1>2. \A how : Of(t.flag, how) = IF t.how = how THEN t.values ELSE {}
  BY <1>1
<1>3. /\ Constrained(F, terms).permitted = [f \in F |-> Of(f, "in")]
      /\ Constrained(F, terms).forbidden = [f \in F |-> Of(f, "not")]
  BY DEF Constrained
<1> HIDE DEF Of
<1>4. /\ Constrained(F, terms).permitted[t.flag] = Of(t.flag, "in")
      /\ Constrained(F, terms).forbidden[t.flag] = Of(t.flag, "not")
  BY <1>3
<1> QED
  BY <1>2, <1>4

\* And a flag that none names is not.
LEMMA NoTerm ==
  ASSUME NEW F, NEW terms, NEW f \in F, \A u \in terms : u.flag # f
  PROVE  Constrained(F, terms).permitted[f] = {} /\ Constrained(F, terms).forbidden[f] = {}
BY DEF Constrained

\* What a term asks of a value.
Asks(t, v) == (t.how = "in" => v \in t.values) /\ (t.how = "not" => v \notin t.values)
Usual(terms) == \A i \in DOMAIN terms : terms[i].how \in {"in", "not"} /\ terms[i].values # {}

\* A row that such a pattern matches has for each flag that is named a value that is asked for, and
\* the other way round (FlagPattern.cc, matches).
LEMMA TextMeans ==
  ASSUME NEW F, NEW terms, PatternParsed(F, Text(terms)), Usual(terms), NEW flags \in [F -> FlagValue]
  PROVE  Matches(ParsePattern(F, Text(terms)), flags) <=> \A i \in DOMAIN terms : Asks(terms[i], flags[terms[i].flag])
<1> DEFINE set == ToSet(terms)
           p == ParsePattern(F, Text(terms))
<1>1. Text(terms).form = "names" /\ Text(terms).terms = terms
  BY DEF Text
<1>2. NamesParsed(F, Text(terms))
  BY <1>1 DEF PatternParsed, PlacesParsed
<1>3. /\ \A t \in set : t.flag \in F
      /\ \A i, j \in DOMAIN terms : i # j => terms[i].flag # terms[j].flag
  BY <1>1, <1>2 DEF NamesParsed, Readable
<1>4. p = Constrained(F, set)
  BY <1>1 DEF ParsePattern
<1>5. set = {terms[i] : i \in DOMAIN terms}
  BY DEF ToSet
<1> HIDE DEF p, set
<1>6. DOMAIN p.permitted = F
  BY <1>4 DEF Constrained
<1>7. ASSUME NEW i \in DOMAIN terms
      PROVE  flags[terms[i].flag] \in AllowedBits(p, terms[i].flag) <=> Asks(terms[i], flags[terms[i].flag])
  <2> DEFINE t == terms[i]
  <2>1. t \in set /\ t.flag \in F
    BY <1>3, <1>5
  <2>2. \A u \in set : u.flag = t.flag => u = t
    BY <1>3, <1>5
  <2>3. t.how \in {"in", "not"} /\ t.values # {}
    BY DEF Usual
  <2> HIDE DEF t
  <2>4. /\ p.permitted[t.flag] = IF t.how = "in" THEN t.values ELSE {}
        /\ p.forbidden[t.flag] = IF t.how = "not" THEN t.values ELSE {}
    BY ONLY <1>4, <2>1, <2>2, SoleTerm
  <2>5. flags[t.flag] \in FlagValue
    BY <2>1
  <2>6. flags[t.flag] \in AllowedBits(p, t.flag) <=> Asks(t, flags[t.flag])
    BY ONLY <2>3, <2>4, <2>5 DEF AllowedBits, Asks
  <2> QED  BY <2>6 DEF t
<1>8. ASSUME NEW f \in F, \A i \in DOMAIN terms : terms[i].flag # f  PROVE flags[f] \in AllowedBits(p, f)
  <2>1. \A u \in set : u.flag # f
    BY <1>5, <1>8
  <2>2. p.permitted[f] = {} /\ p.forbidden[f] = {}
    BY <1>4, <2>1, NoTerm
  <2> QED  BY <2>2 DEF AllowedBits
<1>9. \A i \in DOMAIN terms : terms[i].flag \in F
  BY <1>3, <1>5
<1>10. Matches(p, flags) <=> \A f \in F : flags[f] \in AllowedBits(p, f)
  BY <1>6 DEF Matches
<1>11. ASSUME \A i \in DOMAIN terms : Asks(terms[i], flags[terms[i].flag]), NEW f \in F
       PROVE  flags[f] \in AllowedBits(p, f)
  <2>1. CASE \E i \in DOMAIN terms : terms[i].flag = f
    BY <1>7, <1>11, <2>1
  <2>2. CASE ~\E i \in DOMAIN terms : terms[i].flag = f
    BY <1>8, <2>2
  <2> QED  BY <2>1, <2>2
<1>12. ASSUME \A f \in F : flags[f] \in AllowedBits(p, f), NEW i \in DOMAIN terms
       PROVE  Asks(terms[i], flags[terms[i].flag])
  BY <1>7, <1>9, <1>12
<1>13. Matches(p, flags) <=> \A i \in DOMAIN terms : Asks(terms[i], flags[terms[i].flag])
  BY <1>10, <1>11, <1>12
<1> QED
  BY <1>13 DEF p

-----------------------------------------------------------------------------
(* Changes of flags.                                                       *)

\* A change whose text can be read is its pairs (FlagChange.cc, parse).
LEMMA PairsRead ==
  ASSUME NEW texts, List(texts), ChangeParsed(texts)
  PROVE  /\ \A i \in DOMAIN texts : PatternParsed(ControlFlags, texts[i].pattern) /\ UpdateParsed(texts[i].update)
         /\ ParseChange(<<>>, texts) =
               [i \in DOMAIN texts |-> [pattern |-> ParsePattern(ControlFlags, texts[i].pattern),
                                        update |-> ParseUpdate(texts[i].update)]]
<1> DEFINE parsed == [i \in DOMAIN texts |-> PatternParsed(ControlFlags, texts[i].pattern) /\ UpdateParsed(texts[i].update)]
           end == FirstFailed(parsed)
           k == Len(texts)
           Pair(i) == [pattern |-> ParsePattern(ControlFlags, texts[i].pattern), update |-> ParseUpdate(texts[i].update)]
           more == [i \in 1 .. end - 1 |-> Pair(i)]
<1>1. k \in Nat /\ DOMAIN texts = 1 .. k
  BY ListIs
<1>2. DOMAIN parsed = 1 .. k /\ parsed = [i \in 1 .. k |-> parsed[i]]
  BY <1>1
<1>3. end \in 1 .. k + 1 /\ \A j \in 1 .. end - 1 : parsed[j]
  <2> HIDE DEF parsed, k
  <2> QED  BY <1>1, <1>2, FirstFailedAt
<1>4. ParseChange(<<>>, texts) = <<>> \o more /\ end > k
  BY DEF ParseChange, ChangeEnd, ChangeParsed
<1> HIDE DEF end
<1>5. end - 1 = k
  BY <1>1, <1>3, <1>4
<1>6. \A i \in 1 .. k : PatternParsed(ControlFlags, texts[i].pattern) /\ UpdateParsed(texts[i].update)
  BY <1>1, <1>3, <1>5
<1>7. more = [i \in 1 .. k |-> Pair(i)]
  BY <1>5
<1>8. <<>> \o more = more
  <2> DEFINE S == {Pair(i) : i \in 1 .. k}
  <2>1. more \in [1 .. k -> S]
    BY <1>7
  <2> HIDE DEF more, S, k
  <2>2. more \in Seq(S)
    BY <1>1, <2>1
  <2> QED  BY <2>2
<1> QED
  BY <1>1, <1>4, <1>6, <1>7, <1>8

\* One pair of a pattern and a new value of one flag (FlagChange.cc, apply).
Puts(flags, flag, value) == [flags EXCEPT ![flag] = value]
PairOf(terms, flag, value) ==
    [pattern |-> ParsePattern(ControlFlags, Text(terms)), update |-> ParseUpdate(To(<<Set(flag, value)>>))]

\* Such a pair sets the flag where its pattern matches.
LEMMA PairSets ==
  ASSUME NEW terms, Usual(terms), NEW flag \in ControlFlags, NEW value \in FlagValue, value # NO_CHANGE,
         PatternParsed(ControlFlags, Text(terms)), NEW flags \in [ControlFlags -> FlagValue]
  PROVE  /\ ApplyPair(PairOf(terms, flag, value), flags) \in [ControlFlags -> FlagValue]
         /\ ApplyPair(PairOf(terms, flag, value), flags) =
              IF \A i \in DOMAIN terms : Asks(terms[i], flags[terms[i].flag]) THEN Puts(flags, flag, value) ELSE flags
<1> DEFINE s == Set(flag, value)
           set == {t \in ToSet(<<s>>) : t.value # NO_CHANGE}
           update == ParseUpdate(To(<<s>>))
<1>1. set = {s} /\ s.flag = flag /\ s.value = value
  BY DEF ToSet, Set
<1>2. update = [f \in {t.flag : t \in set} |-> (CHOOSE t \in set : t.flag = f).value]
  BY DEF ParseUpdate, To
<1> HIDE DEF set, s, update
<1>3. DOMAIN update = {flag} /\ update[flag] = value
  <2>1. {t.flag : t \in set} = {flag}
    BY <1>1
  <2>2. (CHOOSE t \in set : t.flag = flag) = s
    BY <1>1
  <2> QED  BY <1>1, <1>2, <2>1, <2>2
<1>4. ApplyUpdate(update, flags) = Puts(flags, flag, value)
  BY <1>3 DEF ApplyUpdate, Puts
<1>5. Puts(flags, flag, value) \in [ControlFlags -> FlagValue]
  BY DEF Puts
<1>6. Matches(ParsePattern(ControlFlags, Text(terms)), flags) <=> \A i \in DOMAIN terms : Asks(terms[i], flags[terms[i].flag])
  BY TextMeans
<1> DEFINE p == ParsePattern(ControlFlags, Text(terms))
<1> HIDE DEF p
<1>7. PairOf(terms, flag, value).pattern = p /\ PairOf(terms, flag, value).update = update
  BY DEF PairOf, update, s, p
<1>8. ApplyPair(PairOf(terms, flag, value), flags) = IF Matches(p, flags) THEN ApplyUpdate(update, flags) ELSE flags
  BY <1>7 DEF ApplyPair
<1> QED
  BY <1>4, <1>5, <1>6, <1>8 DEF p

\* A change of N such pairs, step by step.
PairSteps(g, N, T, F, V, flags) ==
    /\ g[0] = flags
    /\ \A n \in 1 .. N : g[n] = ApplyPair(PairOf(T[n], F[n], V[n]), g[n - 1])
    /\ \A n \in 0 .. N : g[n] \in [ControlFlags -> FlagValue]
\* Texts of pairs that each set one flag.
SetTexts(texts, T, F, V) ==
    \A n \in DOMAIN texts : texts[n].pattern = Text(T[n]) /\ texts[n].update = To(<<Set(F[n], V[n])>>)
\* What a change does whose pairs each set one flag.
LEMMA PairsApply ==
  ASSUME NEW texts, ChangeTexts(texts), ChangeParsed(texts), NEW T, NEW F, NEW V,
         SetTexts(texts, T, F, V),
         NEW flags \in [ControlFlags -> FlagValue]
  PROVE  /\ IsFlagChange(ParseChange(<<>>, texts))
         /\ \A n \in DOMAIN texts : PatternParsed(ControlFlags, Text(T[n]))
         /\ \E g : PairSteps(g, Len(texts), T, F, V, flags) /\ Apply(ParseChange(<<>>, texts), flags) = g[Len(texts)]
<1> DEFINE change == ParseChange(<<>>, texts)
           k == Len(texts)
<1>1. List(texts) /\ k \in Nat /\ DOMAIN texts = 1 .. k
  BY ListIs DEF ChangeTexts
<1> HIDE DEF k
<1>2. /\ \A n \in DOMAIN texts : PatternParsed(ControlFlags, texts[n].pattern)
      /\ change = [n \in DOMAIN texts |-> [pattern |-> ParsePattern(ControlFlags, texts[n].pattern),
                                       update |-> ParseUpdate(texts[n].update)]]
  BY <1>1, PairsRead
<1>3. \A n \in DOMAIN texts : PatternParsed(ControlFlags, Text(T[n]))
  BY <1>2 DEF SetTexts
<1>4. ASSUME NEW n \in 1 .. k  PROVE change[n] = PairOf(T[n], F[n], V[n])
  <2>1. change[n] = [pattern |-> ParsePattern(ControlFlags, texts[n].pattern), update |-> ParseUpdate(texts[n].update)]
    BY <1>1, <1>2
  <2>2. texts[n].pattern = Text(T[n]) /\ texts[n].update = To(<<Set(F[n], V[n])>>)
    BY <1>1 DEF SetTexts
  <2> QED  BY <2>1, <2>2 DEF PairOf
<1>5. IsFlagChange(change)
  <2>1. IsFlagChange(<<>>)
    BY DEF IsFlagChange, List
  <2> QED  BY <2>1, ChangeTyped
<1>6. DOMAIN change = 1 .. k /\ change = [n \in 1 .. k |-> change[n]]
  BY <1>1, <1>2
<1> HIDE DEF change
<1>7. Len(change) = k
  BY <1>1, <1>6, SomeList
<1>8. PICK g : /\ g[0] = flags /\ \A n \in 1 .. k : g[n] = ApplyPair(change[n], g[n - 1])
               /\ \A n \in 0 .. k : g[n] \in [ControlFlags -> FlagValue]
               /\ Apply(change, flags) = g[k]
  BY <1>5, <1>7, ApplySteps
<1>9. \A n \in 1 .. k : g[n] = ApplyPair(PairOf(T[n], F[n], V[n]), g[n - 1])
  BY <1>4, <1>8
<1>10. PairSteps(g, k, T, F, V, flags)
  BY ONLY <1>8, <1>9 DEF PairSteps
<1> QED
  BY ONLY <1>3, <1>5, <1>8, <1>10 DEF change, k

\* A change of one pair without a pattern sets its flag in every row.
LEMMA OneSet ==
  ASSUME NEW flag \in ControlFlags, NEW value \in FlagValue, value # NO_CHANGE,
         NEW texts, texts = <<Change(<<>>, <<Set(flag, value)>>)>>, ChangeTexts(texts), ChangeParsed(texts),
         NEW flags \in [ControlFlags -> FlagValue]
  PROVE  Apply(ParseChange(<<>>, texts), flags) = Puts(flags, flag, value)
<1>1. /\ Len(texts) = 1 /\ DOMAIN texts = {1}
      /\ texts[1].pattern = Text(<<>>) /\ texts[1].update = To(<<Set(flag, value)>>)
  BY DEF Change
<1> DEFINE T == [n \in {1} |-> <<>>]
           F == [n \in {1} |-> flag]
           V == [n \in {1} |-> value]
<1>3. T[1] = <<>> /\ F[1] = flag /\ V[1] = value
  OBVIOUS
<1> HIDE DEF T, F, V
<1>2. SetTexts(texts, T, F, V)
  BY <1>1, <1>3 DEF SetTexts
<1>4. /\ \A n \in DOMAIN texts : PatternParsed(ControlFlags, Text(T[n]))
      /\ \E g : PairSteps(g, Len(texts), T, F, V, flags) /\ Apply(ParseChange(<<>>, texts), flags) = g[Len(texts)]
  BY ONLY <1>2, PairsApply, ChangeTexts(texts), ChangeParsed(texts), flags \in [ControlFlags -> FlagValue]
<1>5. Apply(ParseChange(<<>>, texts), flags) = ApplyPair(PairOf(<<>>, flag, value), flags)
  <2>1. PICK g : PairSteps(g, 1, T, F, V, flags) /\ Apply(ParseChange(<<>>, texts), flags) = g[1]
    BY ONLY <1>1, <1>4
  <2>2. g[0] = flags /\ g[1] = ApplyPair(PairOf(T[1], F[1], V[1]), g[0])
    BY ONLY <2>1 DEF PairSteps
  <2> QED  BY ONLY <1>3, <2>1, <2>2
<1>6. Usual(<<>>)
  BY DEF Usual
<1>7. PatternParsed(ControlFlags, Text(<<>>))
  BY <1>1, <1>3, <1>4
<1> QED
  BY ONLY <1>5, <1>6, <1>7, PairSets, flag \in ControlFlags, value \in FlagValue, value # NO_CHANGE,
          flags \in [ControlFlags -> FlagValue]

\* A flag with one value gets another.
Swap(flags, flag, old, new) == IF flags[flag] = old THEN Puts(flags, flag, new) ELSE flags

\* A pair whose pattern asks for that one value does this.
LEMMA SwapSets ==
  ASSUME NEW flag \in ControlFlags, NEW old \in FlagValue, NEW new \in FlagValue, new # NO_CHANGE,
         PatternParsed(ControlFlags, Text(<<Is(flag, {old})>>)), NEW flags \in [ControlFlags -> FlagValue]
  PROVE  ApplyPair(PairOf(<<Is(flag, {old})>>, flag, new), flags) = Swap(flags, flag, old, new)
<1> DEFINE terms == <<Is(flag, {old})>>
<1>1. DOMAIN terms = {1} /\ terms[1] = [flag |-> flag, how |-> "in", values |-> {old}]
  BY DEF Is
<1> HIDE DEF terms
<1>2. Usual(terms)
  BY <1>1 DEF Usual
<1>3. (\A i \in DOMAIN terms : Asks(terms[i], flags[terms[i].flag])) <=> flags[flag] = old
  BY <1>1 DEF Asks
<1>4. PatternParsed(ControlFlags, Text(terms))
  BY DEF terms
<1>5. ApplyPair(PairOf(terms, flag, new), flags) =
          IF \A i \in DOMAIN terms : Asks(terms[i], flags[terms[i].flag]) THEN Puts(flags, flag, new) ELSE flags
  BY <1>2, <1>4, PairSets
<1> QED
  BY <1>3, <1>5 DEF Swap, terms

\* A row without a value that gets one is marked as interpolated; 3 and 2 become 1 and 4, and if the
\* value is taken away again, 1 and 4 become 3 and 2 (SingleLinearAlgorithm.cc, configure).
LEMMA ValuePut ==
  ASSUME NEW texts, ChangeTexts(texts), ChangeParsed(texts),
         texts = <<Change(<<>>, <<Set("ftime", 1)>>), Change(<<Is("fmis", {3})>>, <<Set("fmis", 1)>>),
                   Change(<<Is("fmis", {2})>>, <<Set("fmis", 4)>>)>>,
         NEW flags \in [ControlFlags -> FlagValue]
  PROVE  Apply(ParseChange(<<>>, texts), flags) = Swap(Swap(Puts(flags, "ftime", 1), "fmis", 3, 1), "fmis", 2, 4)
<1>1. /\ Len(texts) = 3 /\ DOMAIN texts = {1, 2, 3}
      /\ texts[1].pattern = Text(<<>>) /\ texts[1].update = To(<<Set("ftime", 1)>>)
      /\ texts[2].pattern = Text(<<Is("fmis", {3})>>) /\ texts[2].update = To(<<Set("fmis", 1)>>)
      /\ texts[3].pattern = Text(<<Is("fmis", {2})>>) /\ texts[3].update = To(<<Set("fmis", 4)>>)
  BY DEF Change
<1> DEFINE T == <<<<>>, <<Is("fmis", {3})>>, <<Is("fmis", {2})>>>>
           F == <<"ftime", "fmis", "fmis">>
           V == <<1, 1, 4>>
<1>2. /\ T[1] = <<>> /\ F[1] = "ftime" /\ V[1] = 1
      /\ T[2] = <<Is("fmis", {3})>> /\ F[2] = "fmis" /\ V[2] = 1
      /\ T[3] = <<Is("fmis", {2})>> /\ F[3] = "fmis" /\ V[3] = 4
  OBVIOUS
<1> HIDE DEF T, F, V
<1>3. SetTexts(texts, T, F, V)
  BY <1>1, <1>2 DEF SetTexts
<1>4. /\ \A n \in DOMAIN texts : PatternParsed(ControlFlags, Text(T[n]))
      /\ \E g : PairSteps(g, Len(texts), T, F, V, flags) /\ Apply(ParseChange(<<>>, texts), flags) = g[Len(texts)]
  BY ONLY <1>3, PairsApply, ChangeTexts(texts), ChangeParsed(texts), flags \in [ControlFlags -> FlagValue]
<1>a. PICK g : PairSteps(g, 3, T, F, V, flags) /\ Apply(ParseChange(<<>>, texts), flags) = g[3]
  BY ONLY <1>1, <1>4
<1>5. /\ g[0] = flags /\ Apply(ParseChange(<<>>, texts), flags) = g[3]
      /\ \A n \in 1 .. 3 : g[n] = ApplyPair(PairOf(T[n], F[n], V[n]), g[n - 1])
      /\ \A n \in 0 .. 3 : g[n] \in [ControlFlags -> FlagValue]
  BY ONLY <1>a DEF PairSteps
<1>6. /\ g[1] = ApplyPair(PairOf(<<>>, "ftime", 1), flags)
      /\ g[2] = ApplyPair(PairOf(<<Is("fmis", {3})>>, "fmis", 1), g[1])
      /\ g[3] = ApplyPair(PairOf(<<Is("fmis", {2})>>, "fmis", 4), g[2])
      /\ g[1] \in [ControlFlags -> FlagValue] /\ g[2] \in [ControlFlags -> FlagValue]
  BY <1>2, <1>5
<1>7. /\ PatternParsed(ControlFlags, Text(<<>>)) /\ PatternParsed(ControlFlags, Text(<<Is("fmis", {3})>>))
      /\ PatternParsed(ControlFlags, Text(<<Is("fmis", {2})>>))
  BY <1>1, <1>2, <1>4
<1>8. /\ "ftime" \in ControlFlags /\ "fmis" \in ControlFlags /\ 1 \in FlagValue /\ 2 \in FlagValue /\ 3 \in FlagValue
      /\ 4 \in FlagValue /\ 1 # NO_CHANGE /\ 4 # NO_CHANGE
  BY FlagsAssumption DEF NO_CHANGE
<1>9. g[1] = Puts(flags, "ftime", 1)
  <2>1. Usual(<<>>)
    BY DEF Usual
  <2>2. \A i \in DOMAIN <<>> : Asks(<<>>[i], flags[<<>>[i].flag])
    OBVIOUS
  <2> QED  BY ONLY <1>6, <1>7, <1>8, <2>1, <2>2, PairSets, flags \in [ControlFlags -> FlagValue]
<1>10. g[2] = Swap(g[1], "fmis", 3, 1) /\ g[3] = Swap(g[2], "fmis", 2, 4)
  BY ONLY <1>6, <1>7, <1>8, SwapSets
<1> QED
  BY <1>5, <1>9, <1>10

\* And the other way round, when a value is taken away again.
LEMMA ValueTaken ==
  ASSUME NEW texts, ChangeTexts(texts), ChangeParsed(texts),
         texts = <<Change(<<Is("fmis", {1})>>, <<Set("fmis", 3)>>), Change(<<Is("fmis", {4})>>, <<Set("fmis", 2)>>)>>,
         NEW flags \in [ControlFlags -> FlagValue]
  PROVE  Apply(ParseChange(<<>>, texts), flags) = Swap(Swap(flags, "fmis", 1, 3), "fmis", 4, 2)
<1>1. /\ Len(texts) = 2 /\ DOMAIN texts = {1, 2}
      /\ texts[1].pattern = Text(<<Is("fmis", {1})>>) /\ texts[1].update = To(<<Set("fmis", 3)>>)
      /\ texts[2].pattern = Text(<<Is("fmis", {4})>>) /\ texts[2].update = To(<<Set("fmis", 2)>>)
  BY DEF Change
<1> DEFINE T == <<<<Is("fmis", {1})>>, <<Is("fmis", {4})>>>>
           F == <<"fmis", "fmis">>
           V == <<3, 2>>
<1>2. /\ T[1] = <<Is("fmis", {1})>> /\ F[1] = "fmis" /\ V[1] = 3
      /\ T[2] = <<Is("fmis", {4})>> /\ F[2] = "fmis" /\ V[2] = 2
  OBVIOUS
<1> HIDE DEF T, F, V
<1>3. SetTexts(texts, T, F, V)
  BY <1>1, <1>2 DEF SetTexts
<1>4. /\ \A n \in DOMAIN texts : PatternParsed(ControlFlags, Text(T[n]))
      /\ \E g : PairSteps(g, Len(texts), T, F, V, flags) /\ Apply(ParseChange(<<>>, texts), flags) = g[Len(texts)]
  BY ONLY <1>3, PairsApply, ChangeTexts(texts), ChangeParsed(texts), flags \in [ControlFlags -> FlagValue]
<1>a. PICK g : PairSteps(g, 2, T, F, V, flags) /\ Apply(ParseChange(<<>>, texts), flags) = g[2]
  BY ONLY <1>1, <1>4
<1>5. /\ g[0] = flags /\ Apply(ParseChange(<<>>, texts), flags) = g[2]
      /\ \A n \in 1 .. 2 : g[n] = ApplyPair(PairOf(T[n], F[n], V[n]), g[n - 1])
      /\ \A n \in 0 .. 2 : g[n] \in [ControlFlags -> FlagValue]
  BY ONLY <1>a DEF PairSteps
<1>6. /\ g[1] = ApplyPair(PairOf(<<Is("fmis", {1})>>, "fmis", 3), flags)
      /\ g[2] = ApplyPair(PairOf(<<Is("fmis", {4})>>, "fmis", 2), g[1])
      /\ g[1] \in [ControlFlags -> FlagValue]
  BY <1>2, <1>5
<1>7. PatternParsed(ControlFlags, Text(<<Is("fmis", {1})>>)) /\ PatternParsed(ControlFlags, Text(<<Is("fmis", {4})>>))
  BY <1>1, <1>2, <1>4
<1>8. /\ "fmis" \in ControlFlags /\ 1 \in FlagValue /\ 2 \in FlagValue /\ 3 \in FlagValue
      /\ 4 \in FlagValue /\ 3 # NO_CHANGE /\ 2 # NO_CHANGE
  BY FlagsAssumption DEF NO_CHANGE
<1>9. g[1] = Swap(flags, "fmis", 1, 3) /\ g[2] = Swap(g[1], "fmis", 4, 2)
  BY ONLY <1>6, <1>7, <1>8, SwapSets, flags \in [ControlFlags -> FlagValue]
<1> QED
  BY <1>5, <1>9

-----------------------------------------------------------------------------
(* What configure() makes of an object when it does not throw.             *)

\* Each call has been made of the member as it was, and has not thrown.
LEMMA ConfiguredMember ==
  ASSUME NEW a \in Algorithms, NEW f \in DOMAIN Files, NEW o, Typed(o, a), Configure(o, Items(f), a).ok,
         NEW i \in DOMAIN Calls(a)
  PROVE  \E p : /\ Typed(p, a) /\ p[Calls(a)[i].member] = o[Calls(a)[i].member]
                /\ Called(p, Items(f), Calls(a)[i]).ok
                /\ Configure(o, Items(f), a).object[Calls(a)[i].member] = Called(p, Items(f), Calls(a)[i]).value
<1> DEFINE L == Len(Calls(a))
           m(n) == Calls(a)[n].member
           items == Items(f)
<1>1. L \in Nat /\ DOMAIN Calls(a) = 1 .. L /\ \A j, n \in 1 .. L : m(j) = m(n) => j = n
  BY CallsShaped DEF Shaped
<1>2. PICK g : Steps(g, o, items, a) /\ Configure(o, items, a) = g[L]
  BY ConfigureSteps
<1>3. g[0] = [ok |-> TRUE, object |-> o] /\ \A n \in 1 .. L : g[n] = Turn(g[n - 1], items, Calls(a)[n])
  BY <1>2 DEF Steps
<1>4. g[L].ok
  BY <1>2
<1> HIDE DEF L, items
<1>5. \A n \in 1 .. L : g[n].ok => /\ g[n - 1].ok /\ Called(g[n - 1].object, items, Calls(a)[n]).ok
                                  /\ g[n].object = [g[n - 1].object EXCEPT ![m(n)] = Called(g[n - 1].object, items, Calls(a)[n]).value]
  BY <1>3, TurnTaken
<1>6. \A n \in 0 .. L : g[n].ok
  <2> DEFINE T == {n \in 0 .. L : g[L - n].ok}
  <2>1. 0 \in T
    BY <1>1, <1>4
  <2>2. ASSUME NEW n \in 1 .. L, n - 1 \in T  PROVE n \in T
    <3>1. L - n + 1 \in 1 .. L /\ (L - n + 1) - 1 = L - n /\ L - (n - 1) = L - n + 1
      BY <1>1
    <3>2. g[L - n + 1].ok
      BY <2>2, <3>1
    <3>3. g[L - n].ok
      BY <1>5, <3>1, <3>2
    <3> QED  BY <3>3
  <2> HIDE DEF T
  <2>3. 0 .. L \subseteq T
    BY <1>1, <2>1, <2>2, IntervalInduction
  <2>4. ASSUME NEW n \in 0 .. L  PROVE g[n].ok
    <3>1. L - n \in 0 .. L /\ L - (L - n) = n
      BY <1>1
    <3> QED  BY <2>3, <3>1 DEF T
  <2> QED  BY <2>4
<1> DEFINE value == Called(g[i - 1].object, items, Calls(a)[i]).value
           P(n) == /\ Typed(g[n].object, a)
                   /\ n < i => g[n].object[m(i)] = o[m(i)]
                   /\ n >= i => g[n].object[m(i)] = value
           T == {n \in 0 .. L : P(n)}
<1> HIDE DEF value
<1>7. 0 \in T
  <2>1. g[0].object = o /\ 0 < i /\ ~(0 >= i)
    BY <1>1, <1>3
  <2> QED  BY <1>1, <2>1
<1>8. ASSUME NEW n \in 1 .. L, n - 1 \in T  PROVE n \in T
  <2>1. Typed(g[n - 1].object, a)
    BY <1>8
  <2>2. Typed(g[n].object, a)
    BY <1>1, <1>3, <2>1, TurnTyped DEF items
  <2> DEFINE h == g[n - 1].object
             v == Called(h, items, Calls(a)[n]).value
  <2>3. g[n].object = [h EXCEPT ![m(n)] = v]
    BY <1>5, <1>6
  <2>4. m(i) \in DOMAIN h
    <3>1. m(i) \in DOMAIN Fresh(a)
      BY FreshObject
    <3>2. DOMAIN h = DOMAIN Fresh(a)
      BY ONLY <2>1 DEF Typed, Object
    <3> QED  BY <3>1, <3>2
  <2>5. n = i => v = value
    BY DEF value
  <2>6. (n - 1 < i => h[m(i)] = o[m(i)]) /\ (n - 1 >= i => h[m(i)] = value)
    BY <1>8
  <2> HIDE DEF h, v
  <2>7. CASE n = i
    <3>1. g[n].object[m(i)] = value
      BY <2>3, <2>4, <2>5, <2>7
    <3>2. n >= i /\ ~(n < i) /\ n \in 0 .. L
      BY <1>1, <2>7
    <3> QED  BY <2>2, <3>1, <3>2
  <2>8. CASE n # i
    <3>1. m(n) # m(i)
      BY <1>1, <2>8
    <3>2. g[n].object[m(i)] = h[m(i)]
      <4> HIDE DEF m
      <4> QED  BY <2>3, <2>4, <3>1
    <3>3. (n < i => n - 1 < i) /\ (n >= i => n - 1 >= i) /\ n \in 0 .. L
      BY <1>1, <2>8
    <3> QED  BY <2>2, <2>6, <3>2, <3>3
  <2> QED  BY <2>7, <2>8
<1> HIDE DEF T
<1>9. 0 .. L \subseteq T
  BY <1>1, <1>7, <1>8, IntervalInduction
<1>10. P(i - 1) /\ P(L) /\ i \in 1 .. L /\ i - 1 < i /\ L >= i
  BY <1>1, <1>9 DEF T
<1>11. Called(g[i - 1].object, items, Calls(a)[i]).ok
  <2>1. g[i].ok
    BY <1>1, <1>6, <1>10
  <2> QED  BY ONLY <1>5, <1>10, <2>1
<1> QED
  BY <1>2, <1>10, <1>11 DEF value, items

\* A flag set that a file does not mention is made of the defaults; a half without one stays (AlgorithmConfig.cc,
\* getFlagSetCU).
LEMMA FlagsNotSet ==
  ASSUME NEW items, NEW c, c.kind = "flags", NEW p, Called(p, items, c).ok,
         c.name \o "_cflags" \notin DOMAIN items, c.name \o "_uflags" \notin DOMAIN items
  PROVE  /\ c.control # <<>> => /\ Called(p, items, c).value.control = ParsePatterns(NoPatterns, ControlFlags, c.control)
                                /\ ~ParsePatterns(NoPatterns, ControlFlags, c.control).error
         /\ c.use # <<>> => /\ Called(p, items, c).value.use = ParsePatterns(NoPatterns, UseFlags, c.use)
                            /\ ~ParsePatterns(NoPatterns, UseFlags, c.use).error
         /\ c.use = <<>> => Called(p, items, c).value.use = p[c.member].use
<1> DEFINE s == p[c.member]
           control == c.name \o "_cflags"
           use == c.name \o "_uflags"
           C == Half(s.control, items, control, use, ControlFlags, c.control)
           U == Half(s.use, items, use, control, UseFlags, c.use)
           PC == ParsePatterns(NoPatterns, ControlFlags, c.control)
           PU == ParsePatterns(NoPatterns, UseFlags, c.use)
           got == GetFlagSetCU(s, items, c.name, c.control, c.use)
<1>1. Called(p, items, c) = got
  BY DEF Called
<1>2. /\ c.control # <<>> => C = [read |-> TRUE, set |-> PC]
      /\ c.use # <<>> => U = [read |-> TRUE, set |-> PU]
      /\ c.use = <<>> => U = [read |-> FALSE, set |-> s.use]
  BY DEF Half, Has
<1>3. got = Halves(s, C, U)
  <2>1. c.control # <<>> \/ c.use # <<>>
    <3> SUFFICES ASSUME c.control = <<>>, c.use = <<>>  PROVE FALSE
      OBVIOUS
    <3>1. got = [ok |-> FALSE, value |-> s]
      BY DEF GetFlagSetCU, Has
    <3> QED  BY <1>1, <3>1
  <2>2. got = IF ~Has(items, control) /\ ~Has(items, use) /\ c.control = <<>> /\ c.use = <<>> THEN [ok |-> FALSE, value |-> s]
              ELSE Halves(s, C, U)
    BY DEF GetFlagSetCU
  <2> HIDE DEF got, C, U
  <2> QED  BY ONLY <2>1, <2>2
<1> HIDE DEF C, U, PC, PU, got
<1>4. /\ got = [ok |-> ~Failed(C) /\ ~Failed(U),
                value |-> [control |-> C.set, use |-> IF Failed(C) THEN s.use ELSE U.set]]
  BY <1>3 DEF Halves
<1>5. ~Failed(C) /\ ~Failed(U)
  <2>1. Failed(C) \in BOOLEAN /\ Failed(U) \in BOOLEAN
    BY DEF Failed
  <2>2. got.ok = (~Failed(C) /\ ~Failed(U))
    BY <1>4
  <2>3. got.ok
    BY <1>1
  <2> HIDE DEF Failed
  <2> QED  BY ONLY <2>2, <2>3
<1>6. got.value.control = C.set /\ got.value.use = U.set
  BY <1>4, <1>5
<1>7. ASSUME c.control # <<>>  PROVE C.set = PC /\ ~PC.error
  <2>1. C = [read |-> TRUE, set |-> PC]
    BY <1>2, <1>7
  <2> QED  BY <1>5, <2>1 DEF Failed
<1>8. ASSUME c.use # <<>>  PROVE U.set = PU /\ ~PU.error
  <2>1. U = [read |-> TRUE, set |-> PU]
    BY <1>2, <1>8
  <2> QED  BY <1>5, <2>1 DEF Failed
<1>9. ASSUME c.use = <<>>  PROVE U.set = s.use
  BY <1>2, <1>9
<1> QED
  BY <1>1, <1>6, <1>7, <1>8, <1>9 DEF PC, PU

\* So is a change of flags that a file does not mention (getFlagChange).
LEMMA ChangeNotSet ==
  ASSUME NEW items, NEW c, c.kind = "change", NEW p, Called(p, items, c).ok, c.name \notin DOMAIN items
  PROVE  Called(p, items, c).value = ParseChange(<<>>, c.dflt) /\ ChangeParsed(c.dflt)
<1> DEFINE texts == IF Has(items, c.name) THEN [i \in DOMAIN items[c.name] |-> items[c.name][i].is] ELSE <<c.dflt>>
           parsed == [i \in DOMAIN texts |-> ChangeParsed(texts[i])]
           end == FirstFailed(parsed)
           k == Len(texts)
           g == CHOOSE f : ChangeSteps(f, k, texts)
           got == GetFlagChange(items, c.name, c.dflt)
<1>1. Called(p, items, c) = got
  BY DEF Called
<1>2. texts = <<c.dflt>>
  BY DEF Has
<1>3. got.value = g[IF end > k THEN k ELSE end]
  BY DEF GetFlagChange, ChangeSteps
<1>4. got.ok => end > k
  <2> DEFINE b == Has(items, c.name) \/ c.dflt # <<>>
             d == end > k
             v == got.value
  <2>1. got = [ok |-> b /\ d, value |-> v]
    BY DEF GetFlagChange
  <2> HIDE DEF v, got
  <2>a. b \in BOOLEAN /\ d \in BOOLEAN
    OBVIOUS
  <2> HIDE DEF b, d
  <2>2. got.ok = (b /\ d)
    BY ONLY <2>1
  <2>3. got.ok => d
    BY ONLY <2>a, <2>2
  <2> QED  BY <2>3 DEF d
<1>5. k = 1 /\ texts[1] = c.dflt /\ DOMAIN texts = {1}
  BY <1>2
<1>6. ChangeSteps(g, 1, texts)
  BY ONLY <1>5, ChangesStep DEF k
<1> HIDE DEF g
<1>7. g[1] = ParseChange(<<>>, c.dflt)
  <2>1. g = [n \in 0 .. 1 |-> IF n = 0 THEN <<>> ELSE ParseChange(g[n - 1], texts[n])]
    BY ONLY <1>6 DEF ChangeSteps
  <2>2. 0 \in 0 .. 1 /\ 1 \in 0 .. 1 /\ 1 - 1 = 0 /\ 1 # 0
    OBVIOUS
  <2>3. g[0] = <<>>
    BY ONLY <2>1, <2>2
  <2>4. g[1] = ParseChange(g[1 - 1], texts[1])
    BY ONLY <2>1, <2>2
  <2> QED  BY ONLY <1>5, <2>2, <2>3, <2>4
<1>8. end > k
  BY <1>1, <1>4
<1>9. DOMAIN parsed = 1 .. 1 /\ parsed = [i \in 1 .. 1 |-> parsed[i]] /\ parsed[1] = ChangeParsed(c.dflt)
  <2>1. DOMAIN texts = 1 .. 1
    BY <1>5
  <2> HIDE DEF texts
  <2> QED  BY <1>5, <2>1
<1> HIDE DEF parsed, got, texts
<1>10. end \in 1 .. 2 /\ \A j \in 1 .. end - 1 : parsed[j]
  <2>1. 1 \in Nat /\ 1 + 1 = 2
    OBVIOUS
  <2> QED  BY ONLY <1>9, <2>1, FirstFailedAt DEF end
<1> HIDE DEF end
<1>11. parsed[1]
  BY <1>5, <1>8, <1>10
<1> QED
  BY <1>1, <1>3, <1>5, <1>7, <1>8, <1>9, <1>11

-----------------------------------------------------------------------------
(* Flags that no file of an algorithm sets.                                *)

\* No file of the algorithm sets the flags of these names: what is used for them is built into the program.
BuiltIn(a, names) ==
    \A f \in Runnable : AlgorithmOf(f) = a =>
        \A name \in names : {name, name \o "_cflags", name \o "_uflags"} \cap DOMAIN Items(f) = {}

\* An object that configure() has made of another one, without an exception.
Ready(f, o) ==
    \E p : /\ Typed(p, AlgorithmOf(f)) /\ Configure(p, Items(f), AlgorithmOf(f)).ok
           /\ o = Configure(p, Items(f), AlgorithmOf(f)).object

IsReady(f, a, o) == f \in Runnable /\ AlgorithmOf(f) = a /\ Ready(f, o)

\* Its flag sets.
LEMMA ReadyFlags ==
  ASSUME NEW f, NEW a, NEW o, IsReady(f, a, o), NEW names, BuiltIn(a, names),
         NEW i \in DOMAIN Calls(a), NEW c, c = Calls(a)[i], c.kind = "flags", c.name \in names
  PROVE  /\ c.control # <<>> => /\ o[c.member].control = ParsePatterns(NoPatterns, ControlFlags, c.control)
                                /\ ~ParsePatterns(NoPatterns, ControlFlags, c.control).error
         /\ c.use # <<>> => /\ o[c.member].use = ParsePatterns(NoPatterns, UseFlags, c.use)
                            /\ ~ParsePatterns(NoPatterns, UseFlags, c.use).error
<1>1. a \in Algorithms /\ f \in DOMAIN Files
  BY DEF IsReady, Runnable
<1>2. PICK q : /\ Typed(q, a) /\ Configure(q, Items(f), a).ok
               /\ o = Configure(q, Items(f), a).object
  BY DEF IsReady, Ready
<1>3. PICK p : Called(p, Items(f), c).ok /\ o[c.member] = Called(p, Items(f), c).value
  BY <1>1, <1>2, ConfiguredMember
<1>4. /\ c.name \o "_cflags" \notin DOMAIN Items(f)
      /\ c.name \o "_uflags" \notin DOMAIN Items(f)
  BY DEF BuiltIn, IsReady
<1> QED
  BY ONLY <1>3, <1>4, FlagsNotSet, c.kind = "flags"

\* And its changes of flags.
LEMMA ReadyChange ==
  ASSUME NEW f, NEW a, NEW o, IsReady(f, a, o), NEW names, BuiltIn(a, names),
         NEW i \in DOMAIN Calls(a), NEW c, c = Calls(a)[i], c.kind = "change", c.name \in names
  PROVE  o[c.member] = ParseChange(<<>>, c.dflt) /\ ChangeParsed(c.dflt) /\ ChangeTexts(c.dflt)
<1>1. a \in Algorithms /\ f \in DOMAIN Files
  BY DEF IsReady, Runnable
<1>2. PICK q : /\ Typed(q, a) /\ Configure(q, Items(f), a).ok
               /\ o = Configure(q, Items(f), a).object
  BY DEF IsReady, Ready
<1>3. PICK p : Called(p, Items(f), c).ok /\ o[c.member] = Called(p, Items(f), c).value
  BY <1>1, <1>2, ConfiguredMember
<1>5. ChangeTexts(c.dflt)
  BY <1>1, CallsTexts DEF Texts
<1>6. c.name \notin DOMAIN Items(f)
  BY DEF BuiltIn, IsReady
<1> QED
  BY ONLY <1>3, <1>5, <1>6, ChangeNotSet, c.kind = "change"

\* A new object has no patterns where neither the file nor a default gives any.
LEMMA NewUse ==
  ASSUME NEW f \in Runnable, Configure(Fresh(AlgorithmOf(f)), Items(f), AlgorithmOf(f)).ok, NEW names,
         BuiltIn(AlgorithmOf(f), names), NEW i \in DOMAIN Calls(AlgorithmOf(f)), NEW c, c = Calls(AlgorithmOf(f))[i],
         c.kind = "flags", c.use = <<>>, c.name \in names
  PROVE  AsNew(f)[c.member].use = NoPatterns
<1> DEFINE a == AlgorithmOf(f)
<1>1. a \in Algorithms /\ f \in DOMAIN Files
  BY DEF Runnable
<1>2. AsNew(f) = Configure(Fresh(a), Items(f), a).object
  BY DEF AsNew, AllAsNew
<1>3. Typed(Fresh(a), a)
  BY <1>1, FreshTyped
<1>4. PICK p : /\ p[c.member] = Fresh(a)[c.member] /\ Called(p, Items(f), c).ok
               /\ AsNew(f)[c.member] = Called(p, Items(f), c).value
  BY <1>1, <1>2, <1>3, ConfiguredMember
<1>5. c.name \o "_cflags" \notin DOMAIN Items(f) /\ c.name \o "_uflags" \notin DOMAIN Items(f)
  BY DEF BuiltIn
<1>6. Called(p, Items(f), c).value.use = p[c.member].use
  BY ONLY <1>4, <1>5, FlagsNotSet, c.kind = "flags", c.use = <<>>
<1>7. Fresh(a)[c.member] = NoFlagSet
  <2> DEFINE calls == ToSet(Calls(a))
             owner(m) == CHOOSE d \in calls : d.member = m
  <2>0. calls = {Calls(a)[j] : j \in DOMAIN Calls(a)}
    BY DEF ToSet
  <2>1. \A m \in {d.member : d \in calls} : Fresh(a)[m] = Empty(owner(m).kind)
    BY DEF Fresh
  <2> HIDE DEF calls
  <2>2. c \in calls
    BY <2>0
  <2>3. owner(c.member) \in calls /\ owner(c.member).member = c.member
    BY <2>2
  <2>4. PICK j \in DOMAIN Calls(a) : owner(c.member) = Calls(a)[j]
    BY <2>0, <2>3
  <2>5. j = i
    BY <1>1, <2>3, <2>4, CallsShaped DEF Shaped
  <2>6. owner(c.member).kind = "flags"
    BY <2>4, <2>5
  <2>7. Fresh(a)[c.member] = Empty(owner(c.member).kind)
    <3> HIDE DEF owner
    <3> QED  BY <2>1, <2>2
  <2> QED  BY <2>6, <2>7 DEF Empty
<1>8. NoFlagSet.use = NoPatterns
  BY DEF NoFlagSet
<1> QED
  BY <1>4, <1>6, <1>7, <1>8

-----------------------------------------------------------------------------
(* What flag sets ask for whose texts are built in.                        *)

\* What alternatives ask of a row.
All(terms, flags) == \A i \in DOMAIN terms : Asks(terms[i], flags[terms[i].flag])

\* One text.
LEMMA OneMeans ==
  ASSUME NEW F, NEW terms, Usual(terms), NEW texts, texts = <<Text(terms)>>,
         ~ParsePatterns(NoPatterns, F, texts).error, NEW flags \in [F -> FlagValue]
  PROVE  PatternsMatch(ParsePatterns(NoPatterns, F, texts), flags) <=> All(terms, flags)
<1> DEFINE m == ParsePatterns(NoPatterns, F, texts)
<1>1. List(texts) /\ DOMAIN texts = {1} /\ texts[1] = Text(terms)
  BY DEF List
<1>2. PatternParsed(F, texts[1]) /\ m.patterns = [i \in DOMAIN texts |-> ParsePattern(F, texts[i])]
  BY <1>1, AllRead
<1> HIDE DEF m
<1>3. DOMAIN m.patterns = {1} /\ m.patterns[1] = ParsePattern(F, Text(terms))
  BY <1>1, <1>2
<1>4. PatternParsed(F, Text(terms))
  BY <1>1, <1>2
<1>5. Matches(ParsePattern(F, Text(terms)), flags) <=> All(terms, flags)
  BY <1>4, TextMeans DEF All
<1>6. m.patterns # <<>>
  BY <1>3
<1>7. PatternsMatch(m, flags) <=> ~m.error /\ Matches(m.patterns[1], flags)
  BY <1>3, <1>6 DEF PatternsMatch
<1>8. ~m.error
  BY DEF m
<1> QED
  BY <1>3, <1>5, <1>7, <1>8 DEF m

\* Two texts.
LEMMA TwoMeans ==
  ASSUME NEW F, NEW terms, Usual(terms), NEW others, Usual(others), NEW texts, texts = <<Text(terms), Text(others)>>,
         ~ParsePatterns(NoPatterns, F, texts).error, NEW flags \in [F -> FlagValue]
  PROVE  PatternsMatch(ParsePatterns(NoPatterns, F, texts), flags) <=> All(terms, flags) \/ All(others, flags)
<1> DEFINE m == ParsePatterns(NoPatterns, F, texts)
<1>1. List(texts) /\ DOMAIN texts = {1, 2} /\ texts[1] = Text(terms) /\ texts[2] = Text(others)
  BY DEF List
<1>2. /\ PatternParsed(F, texts[1]) /\ PatternParsed(F, texts[2])
      /\ m.patterns = [i \in DOMAIN texts |-> ParsePattern(F, texts[i])]
  BY <1>1, AllRead
<1> HIDE DEF m
<1>3. /\ DOMAIN m.patterns = {1, 2} /\ m.patterns[1] = ParsePattern(F, Text(terms))
      /\ m.patterns[2] = ParsePattern(F, Text(others))
  BY <1>1, <1>2
<1>4. PatternParsed(F, Text(terms)) /\ PatternParsed(F, Text(others))
  BY <1>1, <1>2
<1>5. /\ Matches(ParsePattern(F, Text(terms)), flags) <=> All(terms, flags)
      /\ Matches(ParsePattern(F, Text(others)), flags) <=> All(others, flags)
  BY <1>4, TextMeans DEF All
<1>6. m.patterns # <<>>
  BY <1>3
<1>7. PatternsMatch(m, flags) <=> ~m.error /\ (Matches(m.patterns[1], flags) \/ Matches(m.patterns[2], flags))
  BY <1>3, <1>6 DEF PatternsMatch
<1>8. ~m.error
  BY DEF m
<1> QED
  BY <1>3, <1>5, <1>7, <1>8 DEF m

-----------------------------------------------------------------------------
(* The built-in flags of the algorithms.                                   *)

CFlags == [ControlFlags -> FlagValue]

\* AggregatorLimits reads values that are not marked yet (AggregatorLimits.cc, configure).
LEMMA LimitFlags ==
  ASSUME NEW f, NEW o, IsReady(f, "AggregatorLimits", o), NEW names, BuiltIn("AggregatorLimits", names), "aggregation" \in names,
         NEW flags \in CFlags
  PROVE  PatternsMatch(o.mFlags.control, flags) <=> flags.fr # 6 /\ flags.fmis \in {0, 1, 4}
<1> DEFINE c == AggregatorLimitsCalls[1]
           terms == <<IsNot("fr", {6}), Is("fmis", {0, 1, 4})>>
<1>1. /\ 1 \in DOMAIN AggregatorLimitsCalls /\ c.kind = "flags" /\ c.member = "mFlags" /\ c.name = "aggregation"
      /\ c.control = <<Text(terms)>>
  BY DEF AggregatorLimitsCalls, FlagSet, FlagChange, Simple
<1>2. Calls("AggregatorLimits") = AggregatorLimitsCalls
  BY DEF Calls, AllCalls
<1>3. /\ DOMAIN terms = {1, 2}
      /\ terms[1] = [flag |-> "fr", how |-> "not", values |-> {6}]
      /\ terms[2] = [flag |-> "fmis", how |-> "in", values |-> {0, 1, 4}]
  BY DEF Is, IsNot
<1> HIDE DEF terms, c
<1>4. Usual(terms)
  BY <1>3 DEF Usual
<1>5. c.control # <<>>
  BY <1>1
<1>6. /\ o.mFlags.control = ParsePatterns(NoPatterns, ControlFlags, c.control)
      /\ ~ParsePatterns(NoPatterns, ControlFlags, c.control).error
  <2>1. c = Calls("AggregatorLimits")[1] /\ 1 \in DOMAIN Calls("AggregatorLimits") /\ c.name \in names
    BY <1>1, <1>2 DEF c
  <2>2. o[c.member].control = ParsePatterns(NoPatterns, ControlFlags, c.control)
        /\ ~ParsePatterns(NoPatterns, ControlFlags, c.control).error
    <3>1. c.kind = "flags"
      BY <1>1
    <3> QED
      BY ONLY <1>5, <2>1, <3>1, ReadyFlags, BuiltIn("AggregatorLimits", names), IsReady(f, "AggregatorLimits", o)
  <2> QED  BY <1>1, <2>2
<1>7. PatternsMatch(o.mFlags.control, flags) <=> All(terms, flags)
  BY ONLY <1>1, <1>4, <1>6, OneMeans, flags \in CFlags DEF CFlags
<1>8. All(terms, flags) <=> flags.fr # 6 /\ flags.fmis \in {0, 1, 4}
  BY <1>3 DEF All, Asks
<1> QED
  BY <1>7, <1>8

\* SingleLinear reads missing rows, and those it has filled (SingleLinearAlgorithm.cc, configure).
LEMMA MissingFlags ==
  ASSUME NEW f, NEW o, IsReady(f, "SingleLinear", o), NEW names, BuiltIn("SingleLinear", names), "missing" \in names,
         NEW flags \in CFlags
  PROVE  PatternsMatch(o.missing_flags.control, flags) <=> 
           flags.fhqc = 0 /\ ((flags.ftime = 0 /\ flags.fmis \in {1, 2, 3, 4}) \/ (flags.ftime = 1 /\ flags.fmis \in {1, 4}))
<1> DEFINE c == SingleLinearCalls[2]
           terms == <<Is("ftime", {0}), Is("fmis", {1, 2, 3, 4}), Is("fhqc", {0})>>
           others == <<Is("ftime", {1}), Is("fmis", {1, 4}), Is("fhqc", {0})>>
<1>1. /\ 2 \in DOMAIN SingleLinearCalls /\ c.kind = "flags" /\ c.member = "missing_flags" /\ c.name = "missing"
      /\ c.control = <<Text(terms), Text(others)>>
  BY DEF SingleLinearCalls, FlagSet, FlagChange, Simple
<1>2. Calls("SingleLinear") = SingleLinearCalls
  BY DEF Calls, AllCalls
<1>3. /\ DOMAIN terms = {1, 2, 3}
      /\ terms[1] = [flag |-> "ftime", how |-> "in", values |-> {0}]
      /\ terms[2] = [flag |-> "fmis", how |-> "in", values |-> {1, 2, 3, 4}]
      /\ terms[3] = [flag |-> "fhqc", how |-> "in", values |-> {0}]
      /\ DOMAIN others = {1, 2, 3}
      /\ others[1] = [flag |-> "ftime", how |-> "in", values |-> {1}]
      /\ others[2] = [flag |-> "fmis", how |-> "in", values |-> {1, 4}]
      /\ others[3] = [flag |-> "fhqc", how |-> "in", values |-> {0}]
  BY DEF Is, IsNot
<1> HIDE DEF terms, others, c
<1>4. Usual(terms) /\ Usual(others)
  BY <1>3 DEF Usual
<1>5. c.control # <<>>
  BY <1>1
<1>6. /\ o.missing_flags.control = ParsePatterns(NoPatterns, ControlFlags, c.control)
      /\ ~ParsePatterns(NoPatterns, ControlFlags, c.control).error
  <2>1. c = Calls("SingleLinear")[2] /\ 2 \in DOMAIN Calls("SingleLinear") /\ c.name \in names
    BY <1>1, <1>2 DEF c
  <2>2. o[c.member].control = ParsePatterns(NoPatterns, ControlFlags, c.control)
        /\ ~ParsePatterns(NoPatterns, ControlFlags, c.control).error
    <3>1. c.kind = "flags"
      BY <1>1
    <3> QED
      BY ONLY <1>5, <2>1, <3>1, ReadyFlags, BuiltIn("SingleLinear", names), IsReady(f, "SingleLinear", o)
  <2> QED  BY <1>1, <2>2
<1>7. PatternsMatch(o.missing_flags.control, flags) <=> All(terms, flags) \/ All(others, flags)
  BY ONLY <1>1, <1>4, <1>6, TwoMeans, flags \in CFlags DEF CFlags
<1>8. /\ All(terms, flags) <=> \A i \in DOMAIN terms : Asks(terms[i], flags[terms[i].flag])
      /\ All(others, flags) <=> \A i \in DOMAIN others : Asks(others[i], flags[others[i].flag])
  BY DEF All
<1>9. All(terms, flags) <=> flags.ftime \in {0} /\ flags.fmis \in {1, 2, 3, 4} /\ flags.fhqc \in {0}
  BY ONLY <1>3, <1>8 DEF Asks
<1>10. All(others, flags) <=> flags.ftime \in {1} /\ flags.fmis \in {1, 4} /\ flags.fhqc \in {0}
  BY ONLY <1>3, <1>8 DEF Asks
<1> QED
  BY ONLY <1>7, <1>9, <1>10

\* and wants neighbours that are there.
LEMMA NeighborFlags ==
  ASSUME NEW f, NEW o, IsReady(f, "SingleLinear", o), NEW names, BuiltIn("SingleLinear", names), "neighbor" \in names,
         NEW flags \in CFlags
  PROVE  PatternsMatch(o.neighbor_flags.control, flags) <=> flags.fmis = 0
<1> DEFINE c == SingleLinearCalls[3]
           terms == <<Is("fmis", {0})>>
<1>1. /\ 3 \in DOMAIN SingleLinearCalls /\ c.kind = "flags" /\ c.member = "neighbor_flags" /\ c.name = "neighbor"
      /\ c.control = <<Text(terms)>>
  BY DEF SingleLinearCalls, FlagSet, FlagChange, Simple
<1>2. Calls("SingleLinear") = SingleLinearCalls
  BY DEF Calls, AllCalls
<1>3. /\ DOMAIN terms = {1}
      /\ terms[1] = [flag |-> "fmis", how |-> "in", values |-> {0}]
  BY DEF Is, IsNot
<1> HIDE DEF terms, c
<1>4. Usual(terms)
  BY <1>3 DEF Usual
<1>5. c.control # <<>>
  BY <1>1
<1>6. /\ o.neighbor_flags.control = ParsePatterns(NoPatterns, ControlFlags, c.control)
      /\ ~ParsePatterns(NoPatterns, ControlFlags, c.control).error
  <2>1. c = Calls("SingleLinear")[3] /\ 3 \in DOMAIN Calls("SingleLinear") /\ c.name \in names
    BY <1>1, <1>2 DEF c
  <2>2. o[c.member].control = ParsePatterns(NoPatterns, ControlFlags, c.control)
        /\ ~ParsePatterns(NoPatterns, ControlFlags, c.control).error
    <3>1. c.kind = "flags"
      BY <1>1
    <3> QED
      BY ONLY <1>5, <2>1, <3>1, ReadyFlags, BuiltIn("SingleLinear", names), IsReady(f, "SingleLinear", o)
  <2> QED  BY <1>1, <2>2
<1>7. PatternsMatch(o.neighbor_flags.control, flags) <=> All(terms, flags)
  BY ONLY <1>1, <1>4, <1>6, OneMeans, flags \in CFlags DEF CFlags
<1>8. All(terms, flags) <=> flags.fmis = 0
  BY <1>3 DEF All, Asks
<1> QED
  BY <1>7, <1>8

\* DipTest reads suspicious rows that nobody has corrected (DipTestAlgorithm.cc, configure),
LEMMA CandidateFlags ==
  ASSUME NEW f, NEW o, IsReady(f, "DipTest", o), NEW names, BuiltIn("DipTest", names), "candidate" \in names,
         NEW flags \in CFlags
  PROVE  PatternsMatch(o.candidate_flags.control, flags) <=> flags.fs = 2 /\ flags.fhqc = 0
<1> DEFINE c == DipTestCalls[4]
           terms == <<Is("fs", {2}), Is("fhqc", {0})>>
<1>1. /\ 4 \in DOMAIN DipTestCalls /\ c.kind = "flags" /\ c.member = "candidate_flags" /\ c.name = "candidate"
      /\ c.control = <<Text(terms)>>
  BY DEF DipTestCalls, FlagSet, FlagChange, Simple
<1>2. Calls("DipTest") = DipTestCalls
  BY DEF Calls, AllCalls
<1>3. /\ DOMAIN terms = {1, 2}
      /\ terms[1] = [flag |-> "fs", how |-> "in", values |-> {2}]
      /\ terms[2] = [flag |-> "fhqc", how |-> "in", values |-> {0}]
  BY DEF Is, IsNot
<1> HIDE DEF terms, c
<1>4. Usual(terms)
  BY <1>3 DEF Usual
<1>5. c.control # <<>>
  BY <1>1
<1>6. /\ o.candidate_flags.control = ParsePatterns(NoPatterns, ControlFlags, c.control)
      /\ ~ParsePatterns(NoPatterns, ControlFlags, c.control).error
  <2>1. c = Calls("DipTest")[4] /\ 4 \in DOMAIN Calls("DipTest") /\ c.name \in names
    BY <1>1, <1>2 DEF c
  <2>2. o[c.member].control = ParsePatterns(NoPatterns, ControlFlags, c.control)
        /\ ~ParsePatterns(NoPatterns, ControlFlags, c.control).error
    <3>1. c.kind = "flags"
      BY <1>1
    <3> QED
      BY ONLY <1>5, <2>1, <3>1, ReadyFlags, BuiltIn("DipTest", names), IsReady(f, "DipTest", o)
  <2> QED  BY <1>1, <2>2
<1>7. PatternsMatch(o.candidate_flags.control, flags) <=> All(terms, flags)
  BY ONLY <1>1, <1>4, <1>6, OneMeans, flags \in CFlags DEF CFlags
<1>8. All(terms, flags) <=> flags.fs = 2 /\ flags.fhqc = 0
  BY <1>3 DEF All, Asks
<1> QED
  BY <1>7, <1>8

\* behind one that is good
LEMMA BeforeFlags ==
  ASSUME NEW f, NEW o, IsReady(f, "DipTest", o), NEW names, BuiltIn("DipTest", names), "dip_before" \in names,
         NEW flags \in CFlags
  PROVE  PatternsMatch(o.dip_before_flags.control, flags) <=> flags.fs = 1
<1> DEFINE c == DipTestCalls[5]
           terms == <<Is("fs", {1})>>
<1>1. /\ 5 \in DOMAIN DipTestCalls /\ c.kind = "flags" /\ c.member = "dip_before_flags" /\ c.name = "dip_before"
      /\ c.control = <<Text(terms)>>
  BY DEF DipTestCalls, FlagSet, FlagChange, Simple
<1>2. Calls("DipTest") = DipTestCalls
  BY DEF Calls, AllCalls
<1>3. /\ DOMAIN terms = {1}
      /\ terms[1] = [flag |-> "fs", how |-> "in", values |-> {1}]
  BY DEF Is, IsNot
<1> HIDE DEF terms, c
<1>4. Usual(terms)
  BY <1>3 DEF Usual
<1>5. c.control # <<>>
  BY <1>1
<1>6. /\ o.dip_before_flags.control = ParsePatterns(NoPatterns, ControlFlags, c.control)
      /\ ~ParsePatterns(NoPatterns, ControlFlags, c.control).error
  <2>1. c = Calls("DipTest")[5] /\ 5 \in DOMAIN Calls("DipTest") /\ c.name \in names
    BY <1>1, <1>2 DEF c
  <2>2. o[c.member].control = ParsePatterns(NoPatterns, ControlFlags, c.control)
        /\ ~ParsePatterns(NoPatterns, ControlFlags, c.control).error
    <3>1. c.kind = "flags"
      BY <1>1
    <3> QED
      BY ONLY <1>5, <2>1, <3>1, ReadyFlags, BuiltIn("DipTest", names), IsReady(f, "DipTest", o)
  <2> QED  BY <1>1, <2>2
<1>7. PatternsMatch(o.dip_before_flags.control, flags) <=> All(terms, flags)
  BY ONLY <1>1, <1>4, <1>6, OneMeans, flags \in CFlags DEF CFlags
<1>8. All(terms, flags) <=> flags.fs = 1
  BY <1>3 DEF All, Asks
<1> QED
  BY <1>7, <1>8

\* and before one that is as suspicious.
LEMMA AfterFlags ==
  ASSUME NEW f, NEW o, IsReady(f, "DipTest", o), NEW names, BuiltIn("DipTest", names), "dip_after" \in names,
         NEW flags \in CFlags
  PROVE  PatternsMatch(o.dip_after_flags.control, flags) <=> flags.fs = 2 /\ flags.fhqc = 0
<1> DEFINE c == DipTestCalls[6]
           terms == <<Is("fs", {2}), Is("fhqc", {0})>>
<1>1. /\ 6 \in DOMAIN DipTestCalls /\ c.kind = "flags" /\ c.member = "dip_after_flags" /\ c.name = "dip_after"
      /\ c.control = <<Text(terms)>>
  BY DEF DipTestCalls, FlagSet, FlagChange, Simple
<1>2. Calls("DipTest") = DipTestCalls
  BY DEF Calls, AllCalls
<1>3. /\ DOMAIN terms = {1, 2}
      /\ terms[1] = [flag |-> "fs", how |-> "in", values |-> {2}]
      /\ terms[2] = [flag |-> "fhqc", how |-> "in", values |-> {0}]
  BY DEF Is, IsNot
<1> HIDE DEF terms, c
<1>4. Usual(terms)
  BY <1>3 DEF Usual
<1>5. c.control # <<>>
  BY <1>1
<1>6. /\ o.dip_after_flags.control = ParsePatterns(NoPatterns, ControlFlags, c.control)
      /\ ~ParsePatterns(NoPatterns, ControlFlags, c.control).error
  <2>1. c = Calls("DipTest")[6] /\ 6 \in DOMAIN Calls("DipTest") /\ c.name \in names
    BY <1>1, <1>2 DEF c
  <2>2. o[c.member].control = ParsePatterns(NoPatterns, ControlFlags, c.control)
        /\ ~ParsePatterns(NoPatterns, ControlFlags, c.control).error
    <3>1. c.kind = "flags"
      BY <1>1
    <3> QED
      BY ONLY <1>5, <2>1, <3>1, ReadyFlags, BuiltIn("DipTest", names), IsReady(f, "DipTest", o)
  <2> QED  BY <1>1, <2>2
<1>7. PatternsMatch(o.dip_after_flags.control, flags) <=> All(terms, flags)
  BY ONLY <1>1, <1>4, <1>6, OneMeans, flags \in CFlags DEF CFlags
<1>8. All(terms, flags) <=> flags.fs = 2 /\ flags.fhqc = 0
  BY <1>3 DEF All, Asks
<1> QED
  BY <1>7, <1>8

\* What AggregatorLimits marks.
LEMMA LimitMarks ==
  ASSUME NEW f, NEW o, IsReady(f, "AggregatorLimits", o), NEW names, BuiltIn("AggregatorLimits", names),
         {"aggregation_flagchange_min", "aggregation_flagchange_max"} \subseteq names,
         NEW flags \in CFlags
  PROVE  /\ Apply(o.mFlagChangeMin, flags) = Puts(flags, "fr", 6)
         /\ Apply(o.mFlagChangeMax, flags) = Puts(flags, "fr", 6)
<1>1. Apply(o.mFlagChangeMin, flags) = Puts(flags, "fr", 6)
  <2> DEFINE c == AggregatorLimitsCalls[2]
  <2>1. /\ 2 \in DOMAIN AggregatorLimitsCalls /\ c.kind = "change" /\ c.member = "mFlagChangeMin"
        /\ c.name = "aggregation_flagchange_min"
        /\ c.dflt = <<Change(<<>>, <<Set("fr", 6)>>)>>
    BY DEF AggregatorLimitsCalls, FlagSet, FlagChange, Simple
  <2>2. Calls("AggregatorLimits") = AggregatorLimitsCalls
    BY DEF Calls, AllCalls
  <2> HIDE DEF c
  <2>3. o[c.member] = ParseChange(<<>>, c.dflt) /\ ChangeParsed(c.dflt) /\ ChangeTexts(c.dflt)
    <3>1. c = Calls("AggregatorLimits")[2] /\ 2 \in DOMAIN Calls("AggregatorLimits") /\ c.name \in names
      BY <2>1, <2>2 DEF c
    <3> QED  BY ONLY <2>1, <3>1, ReadyChange, BuiltIn("AggregatorLimits", names), IsReady(f, "AggregatorLimits", o)
  <2>4. Apply(ParseChange(<<>>, c.dflt), flags) = Puts(flags, "fr", 6)
    <3>1. "fr" \in ControlFlags /\ 6 \in FlagValue /\ 6 # NO_CHANGE
      BY FlagsAssumption DEF NO_CHANGE
    <3> QED  BY ONLY <2>1, <2>3, <3>1, OneSet, flags \in CFlags DEF CFlags
  <2> QED  BY <2>1, <2>3, <2>4
<1>2. Apply(o.mFlagChangeMax, flags) = Puts(flags, "fr", 6)
  <2> DEFINE c == AggregatorLimitsCalls[3]
  <2>1. /\ 3 \in DOMAIN AggregatorLimitsCalls /\ c.kind = "change" /\ c.member = "mFlagChangeMax"
        /\ c.name = "aggregation_flagchange_max"
        /\ c.dflt = <<Change(<<>>, <<Set("fr", 6)>>)>>
    BY DEF AggregatorLimitsCalls, FlagSet, FlagChange, Simple
  <2>2. Calls("AggregatorLimits") = AggregatorLimitsCalls
    BY DEF Calls, AllCalls
  <2> HIDE DEF c
  <2>3. o[c.member] = ParseChange(<<>>, c.dflt) /\ ChangeParsed(c.dflt) /\ ChangeTexts(c.dflt)
    <3>1. c = Calls("AggregatorLimits")[3] /\ 3 \in DOMAIN Calls("AggregatorLimits") /\ c.name \in names
      BY <2>1, <2>2 DEF c
    <3> QED  BY ONLY <2>1, <3>1, ReadyChange, BuiltIn("AggregatorLimits", names), IsReady(f, "AggregatorLimits", o)
  <2>4. Apply(ParseChange(<<>>, c.dflt), flags) = Puts(flags, "fr", 6)
    <3>1. "fr" \in ControlFlags /\ 6 \in FlagValue /\ 6 # NO_CHANGE
      BY FlagsAssumption DEF NO_CHANGE
    <3> QED  BY ONLY <2>1, <2>3, <3>1, OneSet, flags \in CFlags DEF CFlags
  <2> QED  BY <2>1, <2>3, <2>4
<1> QED
  BY <1>1, <1>2

\* What DipTest marks in the dip
LEMMA DipMarks ==
  ASSUME NEW f, NEW o, IsReady(f, "DipTest", o), NEW names, BuiltIn("DipTest", names), {"dip_flagchange"} \subseteq names,
         NEW flags \in CFlags
  PROVE  Apply(o.dip_flagchange, flags) = Puts(flags, "fs", 9)
<1>1. Apply(o.dip_flagchange, flags) = Puts(flags, "fs", 9)
  <2> DEFINE c == DipTestCalls[9]
  <2>1. /\ 9 \in DOMAIN DipTestCalls /\ c.kind = "change" /\ c.member = "dip_flagchange" /\ c.name = "dip_flagchange"
        /\ c.dflt = <<Change(<<>>, <<Set("fs", 9)>>)>>
    BY DEF DipTestCalls, FlagSet, FlagChange, Simple
  <2>2. Calls("DipTest") = DipTestCalls
    BY DEF Calls, AllCalls
  <2> HIDE DEF c
  <2>3. o[c.member] = ParseChange(<<>>, c.dflt) /\ ChangeParsed(c.dflt) /\ ChangeTexts(c.dflt)
    <3>1. c = Calls("DipTest")[9] /\ 9 \in DOMAIN Calls("DipTest") /\ c.name \in names
      BY <2>1, <2>2 DEF c
    <3> QED  BY ONLY <2>1, <3>1, ReadyChange, BuiltIn("DipTest", names), IsReady(f, "DipTest", o)
  <2>4. Apply(ParseChange(<<>>, c.dflt), flags) = Puts(flags, "fs", 9)
    <3>1. "fs" \in ControlFlags /\ 9 \in FlagValue /\ 9 # NO_CHANGE
      BY FlagsAssumption DEF NO_CHANGE
    <3> QED  BY ONLY <2>1, <2>3, <3>1, OneSet, flags \in CFlags DEF CFlags
  <2> QED  BY <2>1, <2>3, <2>4
<1> QED
  BY <1>1

\* and in the row behind it.
LEMMA AfterDipMarks ==
  ASSUME NEW f, NEW o, IsReady(f, "DipTest", o), NEW names, BuiltIn("DipTest", names), {"afterdip_flagchange"} \subseteq names,
         NEW flags \in CFlags
  PROVE  Apply(o.afterdip_flagchange, flags) = Puts(flags, "fs", 4)
<1>1. Apply(o.afterdip_flagchange, flags) = Puts(flags, "fs", 4)
  <2> DEFINE c == DipTestCalls[10]
  <2>1. /\ 10 \in DOMAIN DipTestCalls /\ c.kind = "change" /\ c.member = "afterdip_flagchange" /\ c.name = "afterdip_flagchange"
        /\ c.dflt = <<Change(<<>>, <<Set("fs", 4)>>)>>
    BY DEF DipTestCalls, FlagSet, FlagChange, Simple
  <2>2. Calls("DipTest") = DipTestCalls
    BY DEF Calls, AllCalls
  <2> HIDE DEF c
  <2>3. o[c.member] = ParseChange(<<>>, c.dflt) /\ ChangeParsed(c.dflt) /\ ChangeTexts(c.dflt)
    <3>1. c = Calls("DipTest")[10] /\ 10 \in DOMAIN Calls("DipTest") /\ c.name \in names
      BY <2>1, <2>2 DEF c
    <3> QED  BY ONLY <2>1, <3>1, ReadyChange, BuiltIn("DipTest", names), IsReady(f, "DipTest", o)
  <2>4. Apply(ParseChange(<<>>, c.dflt), flags) = Puts(flags, "fs", 4)
    <3>1. "fs" \in ControlFlags /\ 4 \in FlagValue /\ 4 # NO_CHANGE
      BY FlagsAssumption DEF NO_CHANGE
    <3> QED  BY ONLY <2>1, <2>3, <3>1, OneSet, flags \in CFlags DEF CFlags
  <2> QED  BY <2>1, <2>3, <2>4
<1> QED
  BY <1>1

\* What SingleLinear marks in a row that it fills
LEMMA FillMarks ==
  ASSUME NEW f, NEW o, IsReady(f, "SingleLinear", o), NEW names, BuiltIn("SingleLinear", names),
         {"ftime0_flagchange"} \subseteq names,
         NEW flags \in CFlags
  PROVE  Apply(o.ftime0_flagchange, flags) = Swap(Swap(Puts(flags, "ftime", 1), "fmis", 3, 1), "fmis", 2, 4)
<1>1. Apply(o.ftime0_flagchange, flags) = Swap(Swap(Puts(flags, "ftime", 1), "fmis", 3, 1), "fmis", 2, 4)
  <2> DEFINE c == SingleLinearCalls[4]
  <2>1. /\ 4 \in DOMAIN SingleLinearCalls /\ c.kind = "change" /\ c.member = "ftime0_flagchange" /\ c.name = "ftime0_flagchange"
        /\ c.dflt = <<Change(<<>>, <<Set("ftime", 1)>>), Change(<<Is("fmis", {3})>>, <<Set("fmis", 1)>>),
                     Change(<<Is("fmis", {2})>>, <<Set("fmis", 4)>>)>>
    BY DEF SingleLinearCalls, FlagSet, FlagChange, Simple
  <2>2. Calls("SingleLinear") = SingleLinearCalls
    BY DEF Calls, AllCalls
  <2> HIDE DEF c
  <2>3. o[c.member] = ParseChange(<<>>, c.dflt) /\ ChangeParsed(c.dflt) /\ ChangeTexts(c.dflt)
    <3>1. c = Calls("SingleLinear")[4] /\ 4 \in DOMAIN Calls("SingleLinear") /\ c.name \in names
      BY <2>1, <2>2 DEF c
    <3> QED  BY ONLY <2>1, <3>1, ReadyChange, BuiltIn("SingleLinear", names), IsReady(f, "SingleLinear", o)
  <2>4. Apply(ParseChange(<<>>, c.dflt), flags) = Swap(Swap(Puts(flags, "ftime", 1), "fmis", 3, 1), "fmis", 2, 4)
    BY ONLY <2>1, <2>3, ValuePut, flags \in CFlags DEF CFlags
  <2> QED  BY <2>1, <2>3, <2>4
<1> QED
  BY <1>1

\* and in one that it empties again.
LEMMA EmptyMarks ==
  ASSUME NEW f, NEW o, IsReady(f, "SingleLinear", o), NEW names, BuiltIn("SingleLinear", names),
         {"ftime1_flagchange"} \subseteq names,
         NEW flags \in CFlags
  PROVE  Apply(o.ftime1_flagchange, flags) = Swap(Swap(flags, "fmis", 1, 3), "fmis", 4, 2)
<1>1. Apply(o.ftime1_flagchange, flags) = Swap(Swap(flags, "fmis", 1, 3), "fmis", 4, 2)
  <2> DEFINE c == SingleLinearCalls[5]
  <2>1. /\ 5 \in DOMAIN SingleLinearCalls /\ c.kind = "change" /\ c.member = "ftime1_flagchange" /\ c.name = "ftime1_flagchange"
        /\ c.dflt = <<Change(<<Is("fmis", {1})>>, <<Set("fmis", 3)>>), Change(<<Is("fmis", {4})>>, <<Set("fmis", 2)>>)>>
    BY DEF SingleLinearCalls, FlagSet, FlagChange, Simple
  <2>2. Calls("SingleLinear") = SingleLinearCalls
    BY DEF Calls, AllCalls
  <2> HIDE DEF c
  <2>3. o[c.member] = ParseChange(<<>>, c.dflt) /\ ChangeParsed(c.dflt) /\ ChangeTexts(c.dflt)
    <3>1. c = Calls("SingleLinear")[5] /\ 5 \in DOMAIN Calls("SingleLinear") /\ c.name \in names
      BY <2>1, <2>2 DEF c
    <3> QED  BY ONLY <2>1, <3>1, ReadyChange, BuiltIn("SingleLinear", names), IsReady(f, "SingleLinear", o)
  <2>4. Apply(ParseChange(<<>>, c.dflt), flags) = Swap(Swap(flags, "fmis", 1, 3), "fmis", 4, 2)
    BY ONLY <2>1, <2>3, ValueTaken, flags \in CFlags DEF CFlags
  <2> QED  BY <2>1, <2>3, <2>4
<1> QED
  BY <1>1

-----------------------------------------------------------------------------
(* Runs of files that configure() has read without an exception.           *)

\* The inductive invariant.
ReadyInv ==
    /\ TypeInv
    /\ pc # "idle" => IsReady(file, algorithm, object)
    /\ \A f \in settled : /\ f \in Runnable /\ AlgorithmOf(f) \notin Elsewhere
                          /\ Configure(Fresh(AlgorithmOf(f)), Items(f), AlgorithmOf(f)).ok

\* No file has been run before the first one is.
LEMMA ReadyInit == Init => ReadyInv
<1>1. Init => pc = "idle" /\ settled = {}
  BY DEF Init
<1> QED
  BY <1>1, TypeInit DEF ReadyInv

\* As long as no file is selected nothing is configured.
LEMMA ReadyKept ==
  ASSUME ReadyInv, TypeInv', objects' = objects, pc' = "idle" \/ (pc # "idle" /\ file' = file), settled' \subseteq settled
  PROVE  ReadyInv'
<1>1. pc' # "idle" => algorithm' = algorithm /\ object' = object /\ file' = file /\ pc # "idle"
  BY DEF algorithm, object
<1>2. pc' # "idle" => IsReady(file', algorithm', object')
  BY <1>1 DEF ReadyInv
<1> QED
  BY <1>2 DEF ReadyInv

\* AlgorithmDispatcher::select runs a file only if configure() has not thrown.
LEMMA SelectReady ==
  ASSUME ReadyInv, TypeInv', NEW f \in files, Select(f)
  PROVE  ReadyInv'
<1> DEFINE a == AlgorithmOf(f)
           configured == Configure(objects[a], Items(f), a)
<1>1. f \in Runnable /\ file' = f /\ settled' = settled
  BY DEF Select
<1>2. objects' = [objects EXCEPT ![a] = configured.object] /\ (pc' # "idle" => configured.ok)
  BY DEF Select, Configured
<1>3. a \in Algorithms /\ Typed(objects[a], a) /\ objects = [b \in Algorithms |-> objects[b]]
  BY <1>1 DEF Runnable, ReadyInv, TypeInv
<1>4. configured.ok => Ready(f, configured.object)
  BY <1>3 DEF Ready
<1> HIDE DEF configured
<1>5. algorithm' = a /\ object' = configured.object
  BY <1>1, <1>2, <1>3 DEF algorithm, object
<1>6. pc' # "idle" => IsReady(file', algorithm', object')
  BY <1>1, <1>2, <1>4, <1>5 DEF IsReady
<1> QED
  BY <1>1, <1>6 DEF ReadyInv

\* A run that ends has been configured as a new object would have been.
LEMMA EndRunReady ==
  ASSUME ReadyInv, TypeInv', EndRun
  PROVE  ReadyInv'
<1>1. pc = "run" /\ pc' = "idle" /\ (settled' \subseteq settled \/ (settled' = settled \union {file} /\ algorithm \notin Elsewhere))
  BY DEF EndRun
<1>2. IsReady(file, algorithm, object)
  BY <1>1 DEF ReadyInv
<1>3. file \in Runnable /\ AlgorithmOf(file) = algorithm
  BY <1>2 DEF IsReady
<1>4. PICK p : Typed(p, algorithm) /\ Configure(p, Items(file), algorithm).ok
  BY <1>2 DEF IsReady, Ready
<1>5. Configure(Fresh(algorithm), Items(file), algorithm).ok
  <2>1. Object(p, AlgorithmOf(file)) /\ Configure(p, Items(file), AlgorithmOf(file)).ok
    BY <1>3, <1>4 DEF Typed
  <2>2. Configure(Fresh(AlgorithmOf(file)), Items(file), AlgorithmOf(file)).ok
    BY <1>3, <2>1, ConfiguredLikeNew
  <2> QED  BY <1>3, <2>2
<1>6. \A f \in settled' : /\ f \in Runnable /\ AlgorithmOf(f) \notin Elsewhere
                          /\ Configure(Fresh(AlgorithmOf(f)), Items(f), AlgorithmOf(f)).ok
  BY <1>1, <1>3, <1>5 DEF ReadyInv
<1> QED
  BY <1>1, <1>6 DEF ReadyInv

\* Every step keeps the invariant.
LEMMA ReadyStep == ReadyInv /\ [Next]_vars => ReadyInv'
<1> SUFFICES ASSUME ReadyInv, [Next]_vars PROVE ReadyInv'
  OBVIOUS
<1>0. TypeInv' /\ objects = [a \in Algorithms |-> objects[a]]
  BY TypeStep DEF ReadyInv, TypeInv
<1>1. ASSUME NEW f \in files, Select(f)  PROVE ReadyInv'
  BY <1>0, <1>1, SelectReady
<1>2. CASE ReadRows
  BY <1>0, <1>2, ReadyKept DEF ReadRows
<1>3. CASE ReadRefused
  <2>1. objects' = objects /\ pc' = "idle"
    BY <1>0, <1>3, Idles DEF ReadRefused
  <2> QED  BY <1>0, <1>3, <2>1, ReadyKept DEF ReadRefused
<1>4. ASSUME NEW e \in list, CompareRows(e) \/ CompareNeighbours(e)  PROVE ReadyInv'
  <2>1. pc # "idle" /\ UNCHANGED <<objects, file, settled>>
    BY <1>4 DEF CompareRows, CompareNeighbours, Due, historyVars
  <2> QED  BY <1>0, <2>1, ReadyKept
<1>5. ASSUME \/ \E curve \in CurveValues : TryAkima(curve)
             \/ StoreChanges
      PROVE  ReadyInv'
  <2>1. UNCHANGED <<objects, pc, file>> /\ settled' \subseteq settled
    BY <1>5 DEF TryAkima, StoreChanges, historyVars, Write
  <2> QED  BY <1>0, <2>1, ReadyKept
<1>6. CASE CheckLimits
  BY <1>0, <1>6, ReadyKept DEF CheckLimits, Write
<1>7. CASE EndRows
  BY <1>0, <1>7, ReadyKept DEF EndRows, historyVars
<1>8. CASE EndRun
  BY <1>0, <1>8, EndRunReady
<1>9. ASSUME NEW l \in Late, Observe(l[1], l[2])  PROVE ReadyInv'
  <2>1. UNCHANGED <<files, objects, runVars>> /\ settled' = {}
    BY <1>9 DEF Observe, FromOutside
  <2> QED  BY <1>0, <2>1, ReadyKept DEF runVars
<1>10. ASSUME NEW k \in HqcKeys, Hqc(k)  PROVE ReadyInv'
  <2>1. UNCHANGED <<files, objects, runVars>> /\ settled' = {}
    BY <1>10 DEF Hqc, FromOutside
  <2> QED  BY <1>0, <2>1, ReadyKept DEF runVars
<1>11. CASE Abort
  <2>1. objects' = objects /\ pc' = "idle" /\ settled' = {}
    BY <1>0, <1>11, Idles DEF Abort, FromOutside
  <2> QED  BY <1>0, <2>1, ReadyKept
<1>12. CASE UNCHANGED vars
  BY <1>0, <1>12, ReadyKept DEF vars, runVars, historyVars
<1> QED
  BY <1>1, <1>2, <1>3, <1>4, <1>5, <1>6, <1>7, <1>8, <1>9, <1>10, <1>11, <1>12 DEF Next

-----------------------------------------------------------------------------
(* What the steps do with the table.                                       *)

\* Each row is written once, if at all.
LEMMA StoredRow ==
  ASSUME NEW updates, NEW k \in DOMAIN table
  PROVE  \/ \E u \in updates : u.key = k /\ Stored(updates)[k] = [u.row EXCEPT !.original = table[k].original]
         \/ (\A u \in updates : u.key # k) /\ Stored(updates)[k] = table[k]
<1>1. CASE \E u \in updates : u.key = k
  <2> DEFINE w == CHOOSE u \in updates : u.key = k
  <2>1. w \in updates /\ w.key = k
    BY <1>1
  <2>2. Stored(updates)[k] = [w.row EXCEPT !.original = table[k].original]
    BY <1>1 DEF Stored
  <2> HIDE DEF w
  <2> QED  BY <2>1, <2>2
<1>2. CASE ~\E u \in updates : u.key = k
  BY <1>2 DEF Stored
<1> QED
  BY <1>1, <1>2

\* The parts of a row that is written.
LEMMA RowWritten ==
  ASSUME NEW r, IsRow(r), NEW change, NEW v
  PROVE  LET w == [Changed(r, change) EXCEPT !.original = v]
         IN  w.original = v /\ w.corrected = r.corrected /\ w.control = Apply(change, r.control)
<1> DEFINE control == Apply(change, r.control)
           use == UseInfo(control)
           n == Changed(r, change)
           w == [n EXCEPT !.original = v]
<1>1. DOMAIN r = {"original", "corrected", "control", "use"}
  BY DEF IsRow
<1>2. n = [r EXCEPT !.control = control, !.use = use]
  BY DEF Changed, WithControl
<1> HIDE DEF control, use, n
<1>3. DOMAIN n = DOMAIN r /\ n.corrected = r.corrected /\ n.control = control
  BY <1>1, <1>2
<1>4. w.original = v /\ w.corrected = r.corrected /\ w.control = control
  BY <1>1, <1>3
<1> QED
  BY <1>4 DEF control, n

\* And with another value.
LEMMA RowRewritten ==
  ASSUME NEW r, IsRow(r), NEW c, NEW change, NEW v
  PROVE  LET w == [Changed([r EXCEPT !.corrected = c], change) EXCEPT !.original = v]
         IN  w.original = v /\ w.corrected = c /\ w.control = Apply(change, r.control)
<1> DEFINE q == [r EXCEPT !.corrected = c]
           w == [Changed(q, change) EXCEPT !.original = v]
<1>1. DOMAIN r = {"original", "corrected", "control", "use"}
  BY DEF IsRow
<1>2. q.corrected = c /\ q.control = r.control
  BY <1>1
<1>3. IsRow(q)
  BY RowCorrected
<1> HIDE DEF q
<1>4. w.original = v /\ w.corrected = q.corrected /\ w.control = Apply(change, q.control)
  BY <1>3, RowWritten
<1> QED
  BY <1>2, <1>4 DEF q

\* What the steps of one row come to when nothing comes between them: in DipTest
Looked(e) ==
    /\ pc = "rows" /\ e \in list /\ \A other \in list : e.key.time <= other.key.time
    /\ list' = list \ {e}
    /\ UNCHANGED <<files, objects, pc, file, pids>>
DipUpdatesNow(e, curve) ==
    UNION {DipUpdates(e, RowAt(around[1]), RowAt(around[2]), curve) : around \in DipsAround(e)}
CheckDip(e, curve) ==
    algorithm = "DipTest" /\ Looked(e) /\ Write(DipUpdatesNow(e, curve))
\* and in SingleLinear.
FillMissing(e) ==
    algorithm = "SingleLinear" /\ Looked(e) /\ Write(FillUpdates(e))

\* DipTest writes a dip
DipOwn(e, k) ==
    /\ k = e.key
    /\ table'[k].original = table[k].original /\ table'[k].control = Apply(object.dip_flagchange, e.row.control)
\* and the row behind it.
DipBehind(e, k) ==
    /\ \E around \in DipsAround(e) : around[2] = k
    /\ table'[k].original = table[k].original /\ table'[k].corrected = table[k].corrected
    /\ table'[k].control = Apply(object.afterdip_flagchange, table[k].control)
DipNone(e, k) ==
    /\ table'[k] = table[k]
    /\ \A around \in DipsAround(e) : k # e.key /\ k # around[2]
\* All rows after one candidate (DipTestAlgorithm.cc, writeChanges).
LEMMA DipTable ==
  ASSUME TypeInv, NEW e \in list, NEW curve, CheckDip(e, curve)
  PROVE  DOMAIN table' = DOMAIN table /\ \A k \in DOMAIN table : DipNone(e, k) \/ DipOwn(e, k) \/ DipBehind(e, k)
<1> DEFINE Own(around) == [key |-> e.key, row |-> Dip(e, RowAt(around[1]), RowAt(around[2]), curve)]
           Behind(around) == [key |-> around[2], row |-> Changed(table[around[2]], object.afterdip_flagchange)]
           updates == DipUpdatesNow(e, curve)
<1>1. \A u : u \in updates <=> \E around \in DipsAround(e) : u = Own(around) \/ u = Behind(around)
  <2>1. ASSUME NEW around
        PROVE  DipUpdates(e, RowAt(around[1]), RowAt(around[2]), curve) = {Own(around), Behind(around)}
    <3>1. RowAt(around[2]).key = around[2] /\ RowAt(around[2]).row = table[around[2]]
      BY DEF RowAt
    <3> QED  BY <3>1 DEF DipUpdates
  <2> HIDE DEF Own, Behind
  <2> QED  BY <2>1 DEF DipUpdatesNow
<1>2. table' = Stored(updates)
  BY DEF CheckDip, Write
<1>3. IsRow(e.row) /\ \A k \in DOMAIN table : IsRow(table[k])
  BY DEF TypeInv, RowsTyped
<1> HIDE DEF updates
<1>4. ASSUME NEW k \in DOMAIN table  PROVE DipNone(e, k) \/ DipOwn(e, k) \/ DipBehind(e, k)
  <2>1. CASE (\A u \in updates : u.key # k) /\ Stored(updates)[k] = table[k]
    <3>1. ASSUME NEW around \in DipsAround(e)  PROVE k # e.key /\ k # around[2]
      <4>1. Own(around) \in updates /\ Behind(around) \in updates
        BY <1>1
      <4>2. Own(around).key = e.key /\ Behind(around).key = around[2]
        OBVIOUS
      <4> HIDE DEF Own, Behind
      <4> QED  BY <2>1, <4>1, <4>2
    <3>2. DipNone(e, k)
      BY <1>2, <2>1, <3>1 DEF DipNone
    <3> QED  BY <3>2
  <2>2. ASSUME NEW u \in updates, u.key = k, Stored(updates)[k] = [u.row EXCEPT !.original = table[k].original]
        PROVE  DipOwn(e, k) \/ DipBehind(e, k)
    <3>1. PICK around \in DipsAround(e) : u = Own(around) \/ u = Behind(around)
      <4> HIDE DEF Own, Behind
      <4> QED  BY <1>1
    <3>2. CASE u = Own(around)
      <4> DEFINE c == DipValue(e, RowAt(around[1]), RowAt(around[2]), curve)
      <4>1. u.key = e.key /\ u.row = Changed([e.row EXCEPT !.corrected = c], object.dip_flagchange)
        BY <3>2 DEF Dip
      <4> HIDE DEF c
      <4>2. table'[k] = [Changed([e.row EXCEPT !.corrected = c], object.dip_flagchange) EXCEPT !.original = table[k].original]
        BY <1>2, <2>2, <4>1
      <4>3. /\ table'[k].original = table[k].original /\ table'[k].corrected = c
            /\ table'[k].control = Apply(object.dip_flagchange, e.row.control)
        <5>1. IsRow(e.row)
          BY <1>3
        <5> DEFINE r == e.row
        <5> HIDE DEF r
        <5> DEFINE change == object.dip_flagchange
                   v == table[k].original
                   w == [Changed([r EXCEPT !.corrected = c], change) EXCEPT !.original = v]
        <5>2. table'[k] = w
          BY <4>2 DEF r
        <5> HIDE DEF change, v
        <5>3. w.original = v /\ w.corrected = c /\ w.control = Apply(change, r.control)
          BY <5>1, RowRewritten DEF r
        <5> HIDE DEF w
        <5>4. table'[k].original = v /\ table'[k].corrected = c /\ table'[k].control = Apply(change, r.control)
          BY <5>2, <5>3
        <5> QED  BY <5>4 DEF r, v, change
      <4>4. k = e.key
        BY <2>2, <4>1
      <4> QED  BY ONLY <4>3, <4>4 DEF c, DipOwn
    <3>3. CASE u = Behind(around)
      <4>1. u.key = around[2] /\ u.row = Changed(table[around[2]], object.afterdip_flagchange)
        BY <3>3
      <4>2. table'[k] = [Changed(table[k], object.afterdip_flagchange) EXCEPT !.original = table[k].original]
        BY <1>2, <2>2, <4>1
      <4>3. IsRow(table[k])
        BY <1>3
      <4>4. /\ table'[k].original = table[k].original /\ table'[k].corrected = table[k].corrected
            /\ table'[k].control = Apply(object.afterdip_flagchange, table[k].control)
        BY ONLY <4>2, <4>3, RowWritten
      <4>5. around[2] = k
        BY <2>2, <4>1
      <4> QED  BY ONLY <4>4, <4>5 DEF DipBehind
    <3> QED  BY <3>1, <3>2, <3>3
  <2>3. \/ \E u \in updates : u.key = k /\ Stored(updates)[k] = [u.row EXCEPT !.original = table[k].original]
        \/ (\A u \in updates : u.key # k) /\ Stored(updates)[k] = table[k]
    BY StoredRow
  <2> HIDE DEF Own, Behind
  <2> QED  BY <2>1, <2>2, <2>3
<1>5. DOMAIN table' = DOMAIN table
  BY <1>2 DEF Stored
<1> QED
  BY <1>4, <1>5

\* SingleLinear writes one row, if any (SingleLinearAlgorithm.cc, checkMissing).
FillRow(e) == LET series == SeriesOf(e.key, e.key.time - 60, e.key.time + 60) IN Calculated(e.row, series[1], series[3])

\* The row is stored with its original value, and no other one is changed.
LEMMA FillTable ==
  ASSUME TypeInv, NEW e \in list, FillMissing(e)
  PROVE  /\ DOMAIN table' = DOMAIN table /\ \A k \in DOMAIN table : k # e.key => table'[k] = table[k]
         /\ \/ FillUpdates(e) = {} /\ table'[e.key] = table[e.key]
            \/ /\ FillUpdates(e) # {}
               /\ Len(SeriesOf(e.key, e.key.time - 60, e.key.time + 60)) = 3 /\ NeedsWrite(e.row, FillRow(e))
               /\ e.key \in DOMAIN table
               /\ table'[e.key] = [FillRow(e) EXCEPT !.original = table[e.key].original]
<1> DEFINE series == SeriesOf(e.key, e.key.time - 60, e.key.time + 60)
           updates == FillUpdates(e)
           new == FillRow(e)
           u == [key |-> e.key, row |-> new]
           wanted == Len(series) = 3 /\ NeedsWrite(e.row, new)
<1>1. updates = IF Len(series) # 3 \/ ~NeedsWrite(e.row, new) THEN {} ELSE {u}
  BY DEF FillUpdates, FillRow
<1>2. table' = Stored(updates) /\ e.key \in DOMAIN table
  BY DEF FillMissing, Write, TypeInv
<1>3. DOMAIN table' = DOMAIN table
  BY <1>2 DEF Stored
<1>5. u.key = e.key /\ u.row = new
  OBVIOUS
<1> HIDE DEF u, series, new, updates
<1>6. ASSUME NEW k \in DOMAIN table, k # e.key  PROVE table'[k] = table[k]
  <2>1. \A w \in updates : w.key # k
    BY <1>1, <1>5, <1>6
  <2>2. \/ \E w \in updates : w.key = k /\ Stored(updates)[k] = [w.row EXCEPT !.original = table[k].original]
        \/ (\A w \in updates : w.key # k) /\ Stored(updates)[k] = table[k]
    BY StoredRow
  <2> QED  BY <1>2, <2>1, <2>2
<1>7. CASE wanted
  <2>1. updates = {u}
    BY <1>1, <1>7
  <2>2. \/ \E w \in updates : w.key = e.key /\ Stored(updates)[e.key] = [w.row EXCEPT !.original = table[e.key].original]
        \/ (\A w \in updates : w.key # e.key) /\ Stored(updates)[e.key] = table[e.key]
    BY <1>2, StoredRow
  <2>3. table'[e.key] = [new EXCEPT !.original = table[e.key].original]
    BY <1>2, <1>5, <2>1, <2>2
  <2>4. updates # {}
    BY <2>1
  <2> QED  BY <1>2, <1>3, <1>6, <1>7, <2>3, <2>4 DEF series, new, updates
<1>8. CASE ~wanted
  <2>1. updates = {}
    BY <1>1, <1>8
  <2>2. table'[e.key] = table[e.key]
    BY <1>2, <2>1 DEF Stored
  <2> QED  BY <1>3, <1>6, <2>1, <2>2 DEF updates
<1> QED
  BY <1>7, <1>8

\* AggregatorLimits writes all rows that are out of range together (AggregatorLimits.cc, run).
OutOfRange(r, key) ==
    r.corrected.value > -327650 /\ (r.corrected.value < LowLimit \/ r.corrected.value > MaximumFor(key))
LimitChange(r) == IF r.corrected.value < LowLimit THEN object.mFlagChangeMin ELSE object.mFlagChangeMax
LimitRow(k) ==
    \E e \in list : /\ e.key = k /\ OutOfRange(e.row, k)
                    /\ table'[k].original = table[k].original /\ table'[k].corrected = e.row.corrected
                    /\ table'[k].control = Apply(LimitChange(e.row), e.row.control)

\* They are stored with their original values, and no other row is changed.
LEMMA LimitTable ==
  ASSUME TypeInv, CheckLimits
  PROVE  /\ DOMAIN table' = DOMAIN table
         /\ \A k \in DOMAIN table : LimitRow(k) \/ (table'[k] = table[k] /\ \A e \in list : e.key = k => ~OutOfRange(e.row, k))
         /\ LimitUpdates(list) = {} => \A e \in list : ~OutOfRange(e.row, e.key)
<1> DEFINE updates == LimitUpdates(list)
           U(e) == [key |-> e.key, row |-> Changed(e.row, LimitChange(e.row))]
           out == {r \in list : OutOfRange(r.row, r.key)}
<1>1. updates = {U(e) : e \in out}
  BY DEF LimitUpdates, OutOfRange, LimitChange
<1>2. table' = Stored(updates)
  BY DEF CheckLimits, Write
<1>3. \A e \in out : U(e).key = e.key /\ U(e).row = Changed(e.row, LimitChange(e.row))
  OBVIOUS
<1>a. \A e \in list : IsRow(e.row)
  BY DEF TypeInv
<1> HIDE DEF updates, U
<1>4. ASSUME NEW k \in DOMAIN table
      PROVE  LimitRow(k) \/ (table'[k] = table[k] /\ \A e \in list : e.key = k => ~OutOfRange(e.row, k))
  <2>1. CASE (\A u \in updates : u.key # k) /\ Stored(updates)[k] = table[k]
    BY <1>1, <1>2, <1>3, <2>1
  <2>2. ASSUME NEW u \in updates, u.key = k, Stored(updates)[k] = [u.row EXCEPT !.original = table[k].original]
        PROVE  LimitRow(k)
    <3>1. PICK e \in out : u = U(e)
      BY <1>1
    <3> DEFINE r == e.row
               change == LimitChange(e.row)
               v == table[k].original
               w == [Changed(r, change) EXCEPT !.original = v]
    <3>2. IsRow(r)
      BY <1>a
    <3>3. table'[k] = w
      BY <1>2, <1>3, <2>2, <3>1
    <3> HIDE DEF r, change, v
    <3>4. w.original = v /\ w.corrected = r.corrected /\ w.control = Apply(change, r.control)
      BY <3>2, RowWritten
    <3> HIDE DEF w
    <3>5. table'[k].original = v /\ table'[k].corrected = r.corrected /\ table'[k].control = Apply(change, r.control)
      BY <3>3, <3>4
    <3>6. e \in list /\ e.key = k /\ OutOfRange(e.row, k)
      BY <1>3, <2>2, <3>1
    <3> QED  BY <3>5, <3>6 DEF LimitRow, r, v, change
  <2>3. \/ \E u \in updates : u.key = k /\ Stored(updates)[k] = [u.row EXCEPT !.original = table[k].original]
        \/ (\A u \in updates : u.key # k) /\ Stored(updates)[k] = table[k]
    BY StoredRow
  <2> QED  BY <2>1, <2>2, <2>3
<1>5. DOMAIN table' = DOMAIN table
  BY <1>2 DEF Stored
<1>6. updates = {} => \A e \in list : ~OutOfRange(e.row, e.key)
  BY <1>1
<1> QED
  BY <1>4, <1>5, <1>6 DEF updates

-----------------------------------------------------------------------------
(* HqcKept.                                                                *)

\* Rows are read as matches() would select them.
LEMMA RowsRead ==
  ASSUME TypeInv, NEW s \in FlagSetCU, ~SetRefused(s), NEW pid, NEW aggregated, NEW e
  PROVE  e \in FindData(pid, aggregated, s) <=>
           \E k \in DOMAIN table : /\ k.pid = pid /\ k.aggregated = aggregated /\ ut0 <= k.time /\ k.time <= ut1
                                   /\ SetMatches(s, table[k]) /\ e = [key |-> k, row |-> table[k]]
<1>1. \A k \in DOMAIN table : SqlSelects(SetSql(s), table[k]) <=> SetMatches(s, table[k])
  <2>1. ASSUME NEW k \in DOMAIN table  PROVE SqlSelects(SetSql(s), table[k]) <=> SetMatches(s, table[k])
    <3>1. table[k].control \in [ControlFlags -> FlagValue] /\ table[k].use \in [UseFlags -> FlagValue]
      BY DEF TypeInv, RowsTyped, IsRow
    <3>2. ~SqlRefused(SetSql(s))
      BY DEF SetRefused
    <3> QED  BY <3>1, <3>2, FlagSetAgrees, Zenon
  <2> QED  BY <2>1
<1> DEFINE W(k) == k.pid = pid /\ k.aggregated = aggregated /\ ut0 <= k.time /\ k.time <= ut1
           S == {k \in Between(pid, aggregated, ut0, ut1) : SqlSelects(SetSql(s), table[k])}
<1>2. Between(pid, aggregated, ut0, ut1) = {k \in DOMAIN table : W(k)}
  BY DEF Between
<1>3. FindData(pid, aggregated, s) = {[key |-> k, row |-> table[k]] : k \in S}
  BY DEF FindData, Rows, RowAt
<1> HIDE DEF W
<1>4. S = {k \in DOMAIN table : W(k) /\ SetMatches(s, table[k])}
  BY <1>1, <1>2
<1> HIDE DEF S
<1>5. e \in FindData(pid, aggregated, s) <=> \E k \in S : e = [key |-> k, row |-> table[k]]
  BY <1>3
<1> QED
  BY ONLY <1>4, <1>5 DEF W

\* The flags to read of the algorithms of this module.
LEMMA FlagsTyped ==
  ASSUME TypeInv, pc # "idle", algorithm \in {"DipTest", "SingleLinear", "AggregatorLimits"}
  PROVE  FlagsToRead \in FlagSetCU
<1>1. algorithm \in Algorithms /\ Typed(object, algorithm)
  BY DEF TypeInv, Algorithms, object
<1>2. \A i \in DOMAIN Calls(algorithm) : Calls(algorithm)[i].kind = "flags" => object[Calls(algorithm)[i].member] \in FlagSetCU
  BY <1>1 DEF Typed, MemberOk
<1>3. CASE algorithm = "DipTest"
  <2>1. Calls(algorithm) = DipTestCalls
    BY <1>3 DEF Calls, AllCalls
  <2>2. 4 \in DOMAIN DipTestCalls /\ DipTestCalls[4].kind = "flags" /\ DipTestCalls[4].member = "candidate_flags"
    BY DEF DipTestCalls, Simple, FlagSet, FlagChange, Default
  <2> QED  BY <1>2, <1>3, <2>1, <2>2 DEF FlagsToRead
<1>4. CASE algorithm = "SingleLinear"
  <2>1. Calls(algorithm) = SingleLinearCalls
    BY <1>4 DEF Calls, AllCalls
  <2>2. 2 \in DOMAIN SingleLinearCalls /\ SingleLinearCalls[2].kind = "flags" /\ SingleLinearCalls[2].member = "missing_flags"
    BY DEF SingleLinearCalls, Simple, FlagSet, FlagChange, Default
  <2> QED  BY <1>2, <1>4, <2>1, <2>2 DEF FlagsToRead
<1>5. CASE algorithm = "AggregatorLimits"
  <2>1. Calls(algorithm) = AggregatorLimitsCalls
    BY <1>5 DEF Calls, AllCalls
  <2>2. 1 \in DOMAIN AggregatorLimitsCalls /\ AggregatorLimitsCalls[1].kind = "flags" /\ AggregatorLimitsCalls[1].member = "mFlags"
    BY DEF AggregatorLimitsCalls, Simple, FlagSet, FlagChange, Default
  <2> QED  BY <1>2, <1>5, <2>1, <2>2 DEF FlagsToRead
<1> QED
  BY <1>3, <1>4, <1>5

Looks == {"DipTest", "SingleLinear", "AggregatorLimits"}
\* The rows that are read for a parameter.
Reads(k, pid) ==
    /\ ut0 <= k.time /\ k.time <= ut1 /\ SetMatches(FlagsToRead, table[k])
    /\ IF algorithm = "AggregatorLimits" THEN k.aggregated /\ k.pid \in Limited ELSE ~k.aggregated /\ k.pid = pid
    /\ algorithm = "DipTest" => table[k].original > Missing

\* The list is made of these rows (findData, with the text of the flag set, selects what matches() would).
LEMMA ReadList ==
  ASSUME TypeInv, ReadRows
  PROVE  /\ algorithm \in Looks
         /\ \A e : e \in list' <=> \E k \in DOMAIN table : Reads(k, Head(pids)) /\ e = [key |-> k, row |-> table[k]]
<1>1. pc = "run" /\ pids # <<>> /\ ~SetRefused(FlagsToRead)
  BY DEF ReadRows
<1>2. algorithm \in Looks
  <2>1. algorithm \notin Elsewhere /\ algorithm \in Algorithms
    BY <1>1 DEF TypeInv, Runnable, algorithm
  <2> QED  BY <2>1 DEF Algorithms, Looks
<1>3. FlagsToRead \in FlagSetCU
  BY <1>1, <1>2, FlagsTyped DEF Looks
<1> DEFINE W(k) == ut0 <= k.time /\ k.time <= ut1 /\ SetMatches(FlagsToRead, table[k])
           R(k) == [key |-> k, row |-> table[k]]
<1>4. \A pid, aggregated, e : e \in FindData(pid, aggregated, FlagsToRead) <=>
          \E k \in DOMAIN table : k.pid = pid /\ k.aggregated = aggregated /\ W(k) /\ e = R(k)
  <2>1. ASSUME NEW pid, NEW aggregated, NEW e
        PROVE  e \in FindData(pid, aggregated, FlagsToRead) <=>
          \E k \in DOMAIN table : k.pid = pid /\ k.aggregated = aggregated /\ W(k) /\ e = R(k)
    <3> DEFINE s == FlagsToRead
    <3> HIDE DEF s
    <3>1. s \in FlagSetCU /\ ~SetRefused(s)
      BY <1>1, <1>3 DEF s
    <3>2. e \in FindData(pid, aggregated, s) <=>
           \E k \in DOMAIN table : /\ k.pid = pid /\ k.aggregated = aggregated /\ ut0 <= k.time /\ k.time <= ut1
                                   /\ SetMatches(s, table[k]) /\ e = [key |-> k, row |-> table[k]]
      BY <3>1, RowsRead
    <3> QED  BY <3>2 DEF s
  <2> QED  BY <2>1
<1>5. \A k \in DOMAIN table : k.aggregated \in BOOLEAN
  BY DEF TypeInv, RowsTyped, Key
<1>6. \A k \in DOMAIN table : R(k).row = table[k]
  OBVIOUS
<1> HIDE DEF W, R
<1> DEFINE pid == Head(pids)
           Found(p, aggregated, e) == e \in FindData(p, aggregated, FlagsToRead)
           no == FALSE
           yes == TRUE
<1>9. \A k \in DOMAIN table : (k.aggregated = yes <=> k.aggregated) /\ (k.aggregated = no <=> ~k.aggregated)
  BY <1>5
<1>a. no = FALSE /\ yes = TRUE
  OBVIOUS
<1> HIDE DEF no, yes
<1>7. \A p, e : Found(p, no, e) <=> \E k \in DOMAIN table : k.pid = p /\ k.aggregated = no /\ W(k) /\ e = R(k)
  <2>1. ASSUME NEW p, NEW e
        PROVE  e \in FindData(p, no, FlagsToRead) <=> \E k \in DOMAIN table : k.pid = p /\ k.aggregated = no /\ W(k) /\ e = R(k)
    BY <1>4
  <2> QED  BY <2>1 DEF Found
<1>8. \A p, e : Found(p, yes, e) <=> \E k \in DOMAIN table : k.pid = p /\ k.aggregated = yes /\ W(k) /\ e = R(k)
  <2>1. ASSUME NEW p, NEW e
        PROVE  e \in FindData(p, yes, FlagsToRead) <=> \E k \in DOMAIN table : k.pid = p /\ k.aggregated = yes /\ W(k) /\ e = R(k)
    BY <1>4
  <2> QED  BY <2>1 DEF Found
<1>10. ASSUME NEW e
       PROVE  e \in list' <=> \E k \in DOMAIN table : Reads(k, pid) /\ e = R(k)
  <2>1. CASE algorithm = "DipTest"
    <3>1. e \in list' <=> Found(pid, no, e) /\ e.row.original > Missing
      BY <1>a, <2>1 DEF ReadRows
    <3>2. \A k \in DOMAIN table : Reads(k, pid) <=> W(k) /\ ~k.aggregated /\ k.pid = pid /\ table[k].original > Missing
      BY <2>1 DEF Reads, W
    <3> HIDE DEF Found, pid
    <3>3. Found(pid, no, e) <=> \E k \in DOMAIN table : k.pid = pid /\ k.aggregated = no /\ W(k) /\ e = R(k)
      BY <1>7, Zenon
    <3> DEFINE Known(v) == v > Missing
    <3>4. (e \in list' <=> Found(pid, no, e) /\ Known(e.row.original))
          /\ \A k \in DOMAIN table : Reads(k, pid) <=> W(k) /\ ~k.aggregated /\ k.pid = pid /\ Known(table[k].original)
      BY <3>1, <3>2
    <3> HIDE DEF Known
    <3>5. \A k \in DOMAIN table : e = R(k) => (Known(e.row.original) <=> Known(table[k].original))
      BY <1>6
    <3> QED  BY ONLY <1>9, <3>3, <3>4, <3>5, Zenon
  <2>2. CASE algorithm = "SingleLinear"
    <3>1. e \in list' <=> Found(pid, no, e)
      BY <1>a, <2>2 DEF ReadRows
    <3>2. \A k \in DOMAIN table : Reads(k, pid) <=> W(k) /\ ~k.aggregated /\ k.pid = pid
      BY <2>2 DEF Reads, W
    <3> HIDE DEF Found, pid
    <3>3. Found(pid, no, e) <=> \E k \in DOMAIN table : k.pid = pid /\ k.aggregated = no /\ W(k) /\ e = R(k)
      BY <1>7, Zenon
    <3> QED  BY ONLY <1>9, <3>1, <3>2, <3>3, Zenon
  <2>3. CASE algorithm = "AggregatorLimits"
    <3>1. e \in list' <=> \E p \in Limited : Found(p, yes, e)
      <4>1. list' = UNION {FindData(p, yes, FlagsToRead) : p \in Limited}
        BY <1>a, <2>3 DEF ReadRows
      <4> QED  BY <4>1
    <3>2. \A k \in DOMAIN table : Reads(k, pid) <=> W(k) /\ k.aggregated /\ k.pid \in Limited
      BY <2>3 DEF Reads, W
    <3> HIDE DEF Found, pid
    <3>3. ASSUME NEW k \in DOMAIN table, Reads(k, pid), e = R(k)  PROVE e \in list'
      BY ONLY <1>8, <1>9, <3>1, <3>2, <3>3, Zenon
    <3>4. ASSUME e \in list'  PROVE \E k \in DOMAIN table : Reads(k, pid) /\ e = R(k)
      <4>1. PICK p \in Limited : Found(p, yes, e)
        BY <3>1, <3>4
      <4>2. PICK k \in DOMAIN table : k.pid = p /\ k.aggregated = yes /\ W(k) /\ e = R(k)
        BY <1>8, <4>1, Zenon
      <4>3. Reads(k, pid)
        BY <1>9, <3>2, <4>1, <4>2
      <4> QED  BY <4>2, <4>3
    <3> QED  BY <3>3, <3>4
  <2> QED  BY <1>2, <2>1, <2>2, <2>3 DEF Looks
<1> QED
  BY <1>2, <1>10 DEF R

\* What a change of one flag does to another one.
LEMMA PutsOther ==
  ASSUME NEW flags \in CFlags, NEW flag \in ControlFlags, NEW value, NEW other \in ControlFlags
  PROVE  Puts(flags, flag, value)[other] = IF other = flag THEN value ELSE flags[other]
BY DEF Puts, CFlags

\* A row as it was read and the row in the table: the same value and the same mark of an operator, unless it has
\* changed from outside since the rows were read.
AsRead(d) ==
    d.key \notin meanwhile =>
        d.row.corrected = table[d.key].corrected /\ d.row.control.fhqc = table[d.key].control.fhqc

\* The inductive invariant: so it is with the rows that are still to be looked at, which nobody had corrected when they
\* were read, with the row behind a dip, and with what is to be written for it.
HqcInv ==
    /\ ReadyInv
    /\ pc # "idle" => /\ \A d, e \in list : d.key = e.key => d = e
                     /\ \A e \in list : /\ AsRead(e)
                                        /\ algorithm \in {"DipTest", "SingleLinear"} => e.row.control.fhqc = 0
    /\ work.stage = "dip" => AsRead(work.after)
    /\ work.stage = "write" => \A u \in work.updates : u.key = work.e.key \/ AsRead(u)

\* The built-in flags that it needs.
DipCandidates == BuiltIn("DipTest", {"candidate", "afterdip_flagchange"})
LinearCandidates == BuiltIn("SingleLinear", {"missing"})

\* Rows that are read have not been corrected.
LEMMA ReadHqc ==
  ASSUME DipCandidates, LinearCandidates, ReadyInv, ReadyInv', ReadRows
  PROVE  HqcInv'
<1>1. pc = "run" /\ UNCHANGED <<table, files, objects, file, work>>
  BY DEF ReadRows
<1>2. IsReady(file, algorithm, object) /\ TypeInv
  BY <1>1 DEF ReadyInv
<1>3. \A e \in list' : \E k \in DOMAIN table : Reads(k, Head(pids)) /\ e = [key |-> k, row |-> table[k]]
  BY <1>2, ReadList
<1>4. \A d, e \in list' : d.key = e.key => d = e
  BY <1>3
<1>5. ASSUME NEW e \in list'
      PROVE  /\ e.row = table[e.key]
             /\ algorithm \in {"DipTest", "SingleLinear"} => e.row.control.fhqc = 0
  <2>1. PICK k \in DOMAIN table : Reads(k, Head(pids)) /\ e = [key |-> k, row |-> table[k]]
    BY <1>3
  <2>2. e.row = table[k] /\ e.key = k
    BY <2>1
  <2>3. PatternsMatch(FlagsToRead.control, table[k].control)
    BY <2>1 DEF Reads, SetMatches
  <2>4. table[k].control \in CFlags
    BY <1>2 DEF TypeInv, RowsTyped, IsRow, CFlags
  <2> DEFINE c == table[k].control
  <2> HIDE DEF c
  <2>5. CASE algorithm = "DipTest"
    <3>1. IsReady(file, "DipTest", object) /\ BuiltIn("DipTest", {"candidate", "afterdip_flagchange"})
      BY <1>2, <2>5 DEF DipCandidates
    <3>2. PatternsMatch(object.candidate_flags.control, c)
      BY <2>3, <2>5 DEF FlagsToRead, c
    <3>3. c.fhqc = 0
      BY ONLY <2>4, <3>1, <3>2, CandidateFlags DEF c
    <3> QED  BY <2>2, <3>3 DEF c
  <2>6. CASE algorithm = "SingleLinear"
    <3>1. IsReady(file, "SingleLinear", object) /\ BuiltIn("SingleLinear", {"missing"})
      BY <1>2, <2>6 DEF LinearCandidates
    <3>2. PatternsMatch(object.missing_flags.control, c)
      BY <2>3, <2>6 DEF FlagsToRead, c
    <3>3. c.fhqc = 0
      BY ONLY <2>4, <3>1, <3>2, MissingFlags DEF c
    <3> QED  BY <2>2, <3>3 DEF c
  <2> QED  BY <2>2, <2>5, <2>6
<1>6. algorithm' = algorithm /\ table' = table
  BY <1>1 DEF algorithm
<1>7. work'.stage = "none"
  BY <1>1, <1>2 DEF TypeInv, WorkTyped, Nothing
<1> QED
  BY ONLY <1>4, <1>5, <1>6, <1>7, ReadyInv' DEF HqcInv, AsRead

\* What DipTest makes of the row behind a dip.
LEMMA BehindMarked ==
  ASSUME NEW d, IsRow(d), IsReady(file, "DipTest", object), BuiltIn("DipTest", {"afterdip_flagchange"})
  PROVE  LET n == Changed(d, object.afterdip_flagchange)
         IN  n.corrected = d.corrected /\ n.control = Puts(d.control, "fs", 4)
<1> DEFINE change == object.afterdip_flagchange
           control == Apply(change, d.control)
           use == UseInfo(control)
           n == Changed(d, change)
<1>1. DOMAIN d = {"original", "corrected", "control", "use"} /\ d.control \in CFlags
  BY DEF IsRow, CFlags
<1>2. control = Puts(d.control, "fs", 4)
  BY <1>1, AfterDipMarks
<1>3. n = [d EXCEPT !.control = control, !.use = use]
  BY DEF Changed, WithControl
<1> HIDE DEF control, use, n
<1>4. n.corrected = d.corrected /\ n.control = control
  BY <1>1, <1>3
<1> QED
  BY <1>2, <1>4 DEF n

\* The mark of an operator is left alone by that.
LEMMA BehindAsRead ==
  ASSUME NEW d, IsRow(d.row), IsReady(file, "DipTest", object), DipCandidates, AsRead(d)
  PROVE  AsRead([key |-> d.key, row |-> Changed(d.row, object.afterdip_flagchange)])
<1> DEFINE r == d.row
           n == Changed(r, object.afterdip_flagchange)
           u == [key |-> d.key, row |-> n]
<1>1. BuiltIn("DipTest", {"afterdip_flagchange"})
  BY DEF DipCandidates, BuiltIn
<1>2. IsRow(r)
  OBVIOUS
<1>3. u.key = d.key /\ u.row = n
  OBVIOUS
<1> HIDE DEF r
<1>4. n.corrected = r.corrected /\ n.control = Puts(r.control, "fs", 4)
  BY <1>1, <1>2, BehindMarked
<1>5. r.control \in CFlags /\ "fs" \in ControlFlags /\ "fhqc" \in ControlFlags
  BY <1>2, FlagsAssumption DEF IsRow, CFlags
<1>6. Puts(r.control, "fs", 4)["fhqc"] = r.control["fhqc"]
  BY <1>5, PutsOther
<1> HIDE DEF n, u
<1>7. n.corrected = d.row.corrected /\ n.control.fhqc = d.row.control.fhqc
  BY <1>4, <1>6 DEF r
<1>8. AsRead(u)
  BY <1>3, <1>7 DEF AsRead
<1> QED
  BY <1>8 DEF u, n, r

\* What a step that writes does to a row that has not changed since the rows were read, and is not the one whose turn
\* it is.
LEMMA WrittenAsRead ==
  ASSUME HqcInv, StoreChanges, NEW k \in DOMAIN table, k # work.e.key, k \notin meanwhile
  PROVE  table'[k].corrected = table[k].corrected /\ table'[k].control.fhqc = table[k].control.fhqc
<1> DEFINE updates == work.updates
<1>1. table' = Stored(updates) /\ work.stage = "write"
  BY DEF StoreChanges, Write
<1>2. \A u \in updates : IsRow(u.row) /\ (u.key = work.e.key \/ AsRead(u))
  BY <1>1 DEF HqcInv, ReadyInv, TypeInv, WorkTyped, RowRead
<1> HIDE DEF updates
<1>3. \/ \E u \in updates : u.key = k /\ Stored(updates)[k] = [u.row EXCEPT !.original = table[k].original]
      \/ (\A u \in updates : u.key # k) /\ Stored(updates)[k] = table[k]
  BY StoredRow
<1>4. ASSUME NEW u \in updates, u.key = k, Stored(updates)[k] = [u.row EXCEPT !.original = table[k].original]
      PROVE  table'[k].corrected = table[k].corrected /\ table'[k].control.fhqc = table[k].control.fhqc
  <2> DEFINE r == u.row
  <2>1. IsRow(r) /\ AsRead(u)
    BY <1>2, <1>4
  <2>2. r.corrected = table[k].corrected /\ r.control.fhqc = table[k].control.fhqc
    BY <1>4, <2>1 DEF AsRead
  <2>3. table'[k] = [r EXCEPT !.original = table[k].original]
    BY <1>1, <1>4
  <2> HIDE DEF r
  <2>4. table'[k].corrected = r.corrected /\ table'[k].control = r.control
    BY <2>1, <2>3 DEF IsRow
  <2> QED  BY <2>2, <2>4
<1>5. CASE Stored(updates)[k] = table[k]
  BY <1>1, <1>5
<1> QED
  BY <1>3, <1>4, <1>5

\* What an operator does to a row.
LEMMA HqcRow ==
  ASSUME NEW j \in HqcKeys, Hqc(j), NEW k \in DOMAIN table
  PROVE  k = j \/ table'[k] = table[k]
<1>1. \E r : table' = [table EXCEPT ![j] = r]
  BY DEF Hqc
<1> QED
  BY <1>1

\* Every step keeps the invariant.
LEMMA HqcStep ==
  ASSUME DipCandidates, LinearCandidates
  PROVE  HqcInv /\ [Next]_vars => HqcInv'
<1> SUFFICES ASSUME HqcInv, [Next]_vars PROVE HqcInv'
  OBVIOUS
<1>0. /\ ReadyInv /\ ReadyInv' /\ objects = [a \in Algorithms |-> objects[a]] /\ WorkTyped /\ TypeInv
      /\ \A e \in list : e.key \in DOMAIN table
  BY ReadyStep DEF HqcInv, ReadyInv, TypeInv
<1>n. Nothing.stage = "none"
  BY DEF Nothing
<1>a. ASSUME work' = Nothing, pc' = "idle" \/ list' = {}  PROVE HqcInv'
  BY <1>0, <1>n, <1>a DEF HqcInv
<1>b. ASSUME pc' = pc, UNCHANGED <<list, work, file>>, meanwhile \subseteq meanwhile',
             \A k \in DOMAIN table : k \in meanwhile' \/ table'[k] = table[k]
      PROVE  HqcInv'
  <2>1. algorithm' = algorithm
    BY <1>b DEF algorithm
  <2>2. \A d : d.key \in DOMAIN table /\ AsRead(d) => AsRead(d)'
    BY <1>b DEF AsRead
  <2>3. \A e \in list : AsRead(e) => AsRead(e)'
    BY <1>0, <2>2
  <2>4. work.stage = "dip" => AsRead(work.after)'
    BY <1>0, <1>b, <2>2 DEF HqcInv, WorkTyped, RowRead
  <2>5. work.stage = "write" => \A u \in work.updates : u.key = work.e.key \/ AsRead(u)'
    BY <1>0, <2>2 DEF HqcInv, WorkTyped, RowRead
  <2>6. /\ work'.stage = "dip" => AsRead(work.after)'
        /\ work'.stage = "write" => \A u \in work'.updates : u.key = work'.e.key \/ AsRead(u)'
    BY <1>b, <2>4, <2>5
  <2>7. pc' # "idle" => /\ \A d, e \in list' : d.key = e.key => d = e
                        /\ \A e \in list' : /\ AsRead(e)'
                                            /\ algorithm' \in {"DipTest", "SingleLinear"} => e.row.control.fhqc = 0
    BY <1>b, <2>1, <2>3 DEF HqcInv
  <2> QED  BY <1>0, <2>6, <2>7 DEF HqcInv
<1>c. ASSUME pc # "idle", UNCHANGED <<pc, table, meanwhile, file>>, list' \subseteq list,
             \/ work' = Nothing
             \/ work'.stage = "dip" /\ AsRead(work.after)'
             \/ work'.stage = "write" /\ \A u \in work'.updates : u.key = work'.e.key \/ AsRead(u)'
      PROVE  HqcInv'
  <2>1. algorithm' = algorithm
    BY <1>c DEF algorithm
  <2>2. \A d : AsRead(d) <=> AsRead(d)'
    BY <1>c DEF AsRead
  <2>3. pc' # "idle" => /\ \A d, e \in list' : d.key = e.key => d = e
                        /\ \A e \in list' : /\ AsRead(e)'
                                            /\ algorithm' \in {"DipTest", "SingleLinear"} => e.row.control.fhqc = 0
    BY <1>c, <2>1, <2>2 DEF HqcInv
  <2>4. /\ work'.stage = "dip" => AsRead(work.after)'
        /\ work'.stage = "write" => \A u \in work'.updates : u.key = work'.e.key \/ AsRead(u)'
    BY <1>c, <1>n
  <2> QED  BY <1>0, <2>3, <2>4 DEF HqcInv
<1>1. ASSUME NEW f \in files, Select(f)  PROVE HqcInv'
  <2>1. list' = {} /\ work' = work /\ pc = "idle"
    BY <1>1 DEF Select
  <2> QED  BY <1>0, <1>a, <2>1 DEF WorkTyped
<1>2. CASE ReadRows
  BY <1>0, <1>2, ReadHqc
<1>3. CASE ReadRefused
  BY <1>0, <1>3, <1>a, Idles DEF ReadRefused
<1>4. ASSUME NEW e \in list, CompareRows(e)  PROVE HqcInv'
  <2>1. pc # "idle" /\ work = Nothing /\ UNCHANGED <<pc, table, meanwhile, file>>
    BY <1>4 DEF CompareRows, Due, historyVars
  <2>2. CASE NothingToDo(e)
    BY <1>c, <2>1, <2>2 DEF NothingToDo
  <2>3. ASSUME NEW around, Planned([stage |-> "dip", e |-> e, before |-> RowAt(around[1]), after |-> RowAt(around[2])])
        PROVE  HqcInv'
    <3> DEFINE j == around[2]
    <3>1. list' = list /\ work'.stage = "dip" /\ work'.after = RowAt(j)
      BY <2>3 DEF Planned
    <3> HIDE DEF j
    <3>2. work'.after.key = j /\ work'.after.row = table[j]
      BY <3>1 DEF RowAt
    <3>3. AsRead(work.after)'
      BY <2>1, <3>2 DEF AsRead
    <3> QED  BY <1>c, <2>1, <3>1, <3>3
  <2> QED  BY <1>4, <2>2, <2>3 DEF CompareRows
<1>5. ASSUME NEW e \in list, CompareNeighbours(e)  PROVE HqcInv'
  <2>1. pc # "idle" /\ work = Nothing /\ UNCHANGED <<pc, table, meanwhile, file>>
    BY <1>5 DEF CompareNeighbours, Due, historyVars
  <2>2. CASE NothingToDo(e)
    BY <1>c, <2>1, <2>2 DEF NothingToDo
  <2>3. CASE Planned(ToWrite(e, FillUpdates(e)))
    <3>1. list' = list /\ work'.stage = "write" /\ work'.e = e /\ work'.updates = FillUpdates(e)
      BY <2>3 DEF Planned, ToWrite
    <3>2. \A u \in FillUpdates(e) : u.key = e.key
      BY DEF FillUpdates
    <3> QED  BY <1>c, <2>1, <3>1, <3>2
  <2> QED  BY <1>5, <2>2, <2>3 DEF CompareNeighbours
<1>6. ASSUME NEW curve \in CurveValues, TryAkima(curve)  PROVE HqcInv'
  <2> DEFINE e == work.e
             before == work.before
             after == work.after
             own == [key |-> e.key, row |-> Dip(e, before, after, curve)]
             behind == [key |-> after.key, row |-> Changed(after.row, object.afterdip_flagchange)]
  <2>1. /\ work.stage = "dip" /\ UNCHANGED <<pc, table, meanwhile, file, objects>> /\ list' = list
        /\ work' = ToWrite(e, DipUpdates(e, before, after, curve))
    BY <1>6 DEF TryAkima, Planned, historyVars
  <2>2. pc # "idle" /\ algorithm = "DipTest" /\ IsRow(after.row)
    BY <1>0, <1>n, <2>1 DEF WorkTyped, RowRead
  <2>3. IsReady(file, "DipTest", object) /\ AsRead(after)
    BY <1>0, <2>1, <2>2 DEF HqcInv, ReadyInv
  <2>4. DipUpdates(e, before, after, curve) = {own, behind}
    BY DEF DipUpdates
  <2>5. own.key = e.key
    OBVIOUS
  <2>6. AsRead(behind)
    BY <2>2, <2>3, BehindAsRead
  <2> HIDE DEF own, behind, e, before, after
  <2>7. work'.stage = "write" /\ work'.e = e /\ work'.updates = {own, behind}
    BY <2>1, <2>4 DEF ToWrite
  <2>8. \A u \in work'.updates : u = own \/ AsRead(u)'
    <3>1. \A d : AsRead(d) => AsRead(d)'
      BY <2>1 DEF AsRead
    <3> QED  BY <2>6, <2>7, <3>1
  <2>9. \A u \in work'.updates : u.key = work'.e.key \/ AsRead(u)'
    BY <2>5, <2>7, <2>8
  <2> QED  BY <1>c, <2>1, <2>2, <2>7, <2>9
<1>7. CASE StoreChanges
  <2>1. /\ list' = list \ {work.e} /\ work' = Nothing /\ UNCHANGED <<pc, file, meanwhile>> /\ work.stage = "write"
    BY <1>7 DEF StoreChanges, Write
  <2>2. pc # "idle" /\ work.e \in list /\ algorithm' = algorithm
    BY <1>0, <1>n, <2>1 DEF WorkTyped, algorithm
  <2>3. ASSUME NEW d \in list'  PROVE AsRead(d)'
    <3>1. d \in list /\ d.key # work.e.key /\ d.key \in DOMAIN table /\ AsRead(d)
      BY <1>0, <2>1, <2>2, <2>3 DEF HqcInv
    <3>2. d.key \notin meanwhile =>
             table'[d.key].corrected = table[d.key].corrected /\ table'[d.key].control.fhqc = table[d.key].control.fhqc
      BY <1>7, <3>1, WrittenAsRead
    <3> QED  BY <2>1, <3>1, <3>2 DEF AsRead
  <2> QED  BY <1>0, <1>n, <2>1, <2>2, <2>3 DEF HqcInv
<1>8. CASE CheckLimits
  <2>1. list' = {} /\ work' = work /\ algorithm = "AggregatorLimits"
    BY <1>8 DEF CheckLimits
  <2> QED  BY <1>0, <1>a, <2>1 DEF WorkTyped
<1>9. CASE EndRows
  <2>1. list' = {} /\ work' = work /\ list = {}
    BY <1>9 DEF EndRows
  <2> QED  BY <1>0, <1>a, <2>1 DEF WorkTyped
<1>10. CASE EndRun
  <2>1. pc' = "idle" /\ work' = work /\ pc = "run"
    BY <1>10 DEF EndRun
  <2> QED  BY <1>0, <1>a, <2>1 DEF WorkTyped
<1>11. ASSUME NEW l \in Late, Observe(l[1], l[2])  PROVE HqcInv'
  <2>1. /\ UNCHANGED <<pc, list, work, file>> /\ meanwhile \subseteq meanwhile'
        /\ l[1] \notin DOMAIN table
        /\ table' = [j \in DOMAIN table \union {l[1]} |-> IF j = l[1] THEN l[2] ELSE table[j]]
    BY <1>11 DEF Observe, runVars
  <2>2. \A k \in DOMAIN table : table'[k] = table[k]
    BY <2>1
  <2> QED  BY <1>b, <2>1, <2>2
<1>12. ASSUME NEW j \in HqcKeys, Hqc(j)  PROVE HqcInv'
  <2>1. UNCHANGED <<pc, list, work, file>> /\ meanwhile' = meanwhile \union {j}
    BY <1>12 DEF Hqc, runVars
  <2>2. \A k \in DOMAIN table : k = j \/ table'[k] = table[k]
    BY <1>12, HqcRow
  <2> QED  BY <1>b, <2>1, <2>2
<1>13. CASE Abort
  BY <1>0, <1>13, <1>a, Idles DEF Abort
<1>14. CASE UNCHANGED vars
  BY <1>14, <1>b DEF vars, runVars, historyVars
<1> QED
  BY <1>1, <1>2, <1>3, <1>4, <1>5, <1>6, <1>7, <1>8, <1>9, <1>10, <1>11, <1>12, <1>13, <1>14 DEF Next

\* No step of a run changes a value that an operator had put in when the rows were read.
LEMMA HqcAction ==
  ASSUME HqcInv, [Next]_vars, NEW k \in DOMAIN table, table[k].control.fhqc # 0, k \notin meanwhile
  PROVE  table'[k].corrected = table[k].corrected
<1>0. ReadyInv /\ TypeInv /\ WorkTyped
  BY DEF HqcInv, ReadyInv, TypeInv
<1>a. CASE table' = table
  BY <1>a
<1>1. CASE StoreChanges
  <2>1. work.stage = "write"
    BY <1>1 DEF StoreChanges
  <2>2. pc # "idle" /\ work.e \in list /\ algorithm \in {"DipTest", "SingleLinear"}
    BY <1>0, <2>1 DEF WorkTyped, Nothing
  <2>3. work.e.row.control.fhqc = 0 /\ AsRead(work.e)
    BY <2>2 DEF HqcInv
  <2>4. k # work.e.key
    BY <2>3 DEF AsRead
  <2> QED  BY <1>1, <2>4, WrittenAsRead
<1>3. CASE CheckLimits
  <2>1. pc # "idle"
    BY <1>3 DEF CheckLimits
  <2>2. LimitRow(k) \/ table'[k] = table[k]
    BY <1>0, <1>3, LimitTable
  <2>3. CASE LimitRow(k)
    BY <2>1, <2>3 DEF LimitRow, HqcInv, AsRead
  <2> QED  BY <2>2, <2>3
<1>4. ASSUME NEW l \in Late, Observe(l[1], l[2])  PROVE table'[k].corrected = table[k].corrected
  <2>1. /\ l[1] \notin DOMAIN table
        /\ table' = [j \in DOMAIN table \union {l[1]} |-> IF j = l[1] THEN l[2] ELSE table[j]]
    BY <1>4 DEF Observe
  <2> QED  BY <2>1
<1>5. ASSUME NEW j \in HqcKeys, Hqc(j)  PROVE table'[k].corrected = table[k].corrected
  <2>1. table[j].control.fhqc = 0
    BY <1>5 DEF Hqc
  <2> QED  BY <1>5, <2>1, HqcRow
<1>6. ASSUME NEW e \in list, CompareRows(e) \/ CompareNeighbours(e)  PROVE table' = table
  BY <1>6 DEF CompareRows, CompareNeighbours
<1>7. ASSUME NEW curve \in CurveValues, TryAkima(curve)  PROVE table' = table
  BY <1>7 DEF TryAkima
<1> QED
  BY <1>a, <1>1, <1>3, <1>4, <1>5, <1>6, <1>7
     DEF Next, Select, ReadRows, ReadRefused, EndRows, EndRun, Abort, vars

\* As long as no file sets the flags by which DipTest and SingleLinear choose their rows, nor what DipTest does to the
\* row behind a dip, no run changes a value that an operator had put in when the run read its rows, whatever comes from
\* outside meanwhile (DipTestAlgorithm.cc: writeChanges, SingleLinearAlgorithm.cc: run, AggregatorLimits.cc: run).
THEOREM OperatorValuesKept ==
  ASSUME BuiltIn("DipTest", {"candidate", "afterdip_flagchange"}), BuiltIn("SingleLinear", {"missing"})
  PROVE  Spec => HqcKept
<1>1. Init => HqcInv
  BY ReadyInit DEF HqcInv, Init, Nothing
<1>2. DipCandidates /\ LinearCandidates
  BY DEF DipCandidates, LinearCandidates
<1>3. HqcInv /\ [Next]_vars => HqcInv'
  BY <1>2, HqcStep
<1>4. HqcInv /\ [Next]_vars =>
        [\A k \in DOMAIN table :
            table[k].control.fhqc # 0 /\ k \notin meanwhile => table'[k].corrected = table[k].corrected]_vars
  BY HqcAction
<1> QED
  BY <1>1, <1>3, <1>4, PTL DEF Spec, HqcKept

-----------------------------------------------------------------------------
(* DipsInPairs.                                                            *)

\* The flags of a row that an operator corrects.
LEMMA HqcFlags ==
  ASSUME TypeInv, NEW j \in HqcKeys, Hqc(j), NEW k \in DOMAIN table
  PROVE  table'[k].control.fs = table[k].control.fs
<1> DEFINE r == table[j]
           c == [r EXCEPT !.corrected = Corrected("operator", 0, {})]
           control == [r.control EXCEPT !.fhqc = 7]
           u == UseInfo(control)
           w == WithControl(c, control)
<1>1. j \in DOMAIN table /\ table' = [table EXCEPT ![j] = w]
  BY DEF Hqc
<1>2. IsRow(r)
  BY <1>1 DEF TypeInv, RowsTyped
<1>3. IsRow(c)
  <2> HIDE DEF r
  <2> QED  BY <1>2, RowCorrected
<1>4. control.fs = r.control.fs
  <2> DEFINE flags == r.control
  <2>1. flags \in [ControlFlags -> FlagValue] /\ "fs" \in ControlFlags
    BY <1>2, FlagsAssumption DEF IsRow
  <2> HIDE DEF flags
  <2>2. [flags EXCEPT !.fhqc = 7].fs = flags.fs
    BY <2>1
  <2> QED  BY <2>2 DEF flags
<1>5. w = [c EXCEPT !.control = control, !.use = u]
  BY DEF WithControl
<1> HIDE DEF c, control, u, w
<1>6. w.control = control
  BY <1>3, <1>5 DEF IsRow
<1>7. table'[k] = IF k = j THEN w ELSE table[k]
  BY <1>1
<1> QED
  BY <1>4, <1>6, <1>7

\* The built-in flags that it needs.
DipPairFlags == BuiltIn("DipTest", {"dip_before", "dip_after", "afterdip_flagchange"})

\* The rows around a candidate, since they were read.
PairAround(k, i, j) ==
    /\ i \in DOMAIN table /\ j \in DOMAIN table
    /\ SameSeries(k, i) /\ SameSeries(k, j)
    /\ i.time < k.time /\ k.time < j.time /\ k.time - i.time = j.time - k.time
    /\ Within(i, j) \subseteq {k} \union meanwhile
    /\ table[i].control.fs # 9 /\ (table[j].control.fhqc = 0 \/ j \in meanwhile)
\* What is to be written is the candidate and the row behind it.
PairWritten(k, i, j, updates) ==
    /\ \E u \in updates : u.key = j
    /\ \A u \in updates : \/ u.key = j /\ u.row.control.fs = 4
                          \/ u.key = k /\ (u.row.corrected.by = "linear" => u.row.corrected.from = {i, j})

\* The inductive invariant: so it is from the time when the rows are read until the dip is written.
PairInv ==
    /\ ReadyInv
    /\ work.stage = "dip" => PairAround(work.e.key, work.before.key, work.after.key)
    /\ work.stage = "write" /\ algorithm = "DipTest" =>
          \E i, j : PairAround(work.e.key, i, j) /\ PairWritten(work.e.key, i, j, work.updates)

\* The rows around a dip when they are read (DipTestAlgorithm.cc, checkDip).
LEMMA PairFound ==
  ASSUME DipPairFlags, ReadyInv, algorithm = "DipTest", pc # "idle", NEW e \in list, NEW around \in DipsAround(e)
  PROVE  PairAround(e.key, around[1], around[2])
<1>0. TypeInv /\ IsReady(file, "DipTest", object) /\ e.key \in DOMAIN table
  BY DEF ReadyInv, TypeInv
<1>1. \A d \in DOMAIN table : table[d].control \in CFlags
  BY <1>0 DEF TypeInv, RowsTyped, IsRow, CFlags
<1>2. around \in Surroundings(e) /\ IsDip(e, around[1], around[2])
  BY DEF DipsAround
<1> DEFINE i == around[1]
           j == around[2]
<1>3. /\ i \in DOMAIN table /\ j \in DOMAIN table
      /\ SameSeries(e.key, i) /\ SameSeries(e.key, j)
      /\ i.time < e.key.time /\ e.key.time < j.time /\ Within(i, j) = {e.key}
  BY <1>0, <1>2, DipNeighbours DEF TypeInv
<1>4. /\ e.key.time - i.time = j.time - e.key.time
      /\ SetMatches(object.dip_before_flags, table[i]) /\ SetMatches(object.dip_after_flags, table[j])
  BY <1>2 DEF IsDip
<1> HIDE DEF i, j
<1>5. table[i].control.fs = 1
  <2> DEFINE c == table[i].control
  <2>1. c \in CFlags /\ PatternsMatch(object.dip_before_flags.control, c)
    BY <1>1, <1>3, <1>4 DEF SetMatches
  <2> HIDE DEF c
  <2>2. "dip_before" \in {"dip_before", "dip_after", "afterdip_flagchange"}
    OBVIOUS
  <2>3. c.fs = 1
    BY ONLY <1>0, <2>1, <2>2, BeforeFlags, DipPairFlags DEF DipPairFlags
  <2> QED  BY <2>3 DEF c
<1>6. table[j].control.fhqc = 0
  <2> DEFINE c == table[j].control
  <2>1. c \in CFlags /\ PatternsMatch(object.dip_after_flags.control, c)
    BY <1>1, <1>3, <1>4 DEF SetMatches
  <2> HIDE DEF c
  <2>2. "dip_after" \in {"dip_before", "dip_after", "afterdip_flagchange"}
    OBVIOUS
  <2>3. c.fhqc = 0
    BY ONLY <1>0, <2>1, <2>2, AfterFlags, DipPairFlags DEF DipPairFlags
  <2> QED  BY <2>3 DEF c
<1>7. table[i].control.fs # 9
  BY <1>5
<1> QED
  BY ONLY <1>3, <1>4, <1>6, <1>7 DEF PairAround, i, j

\* What is made of them (DipTestAlgorithm.cc, tryAkima and writeChanges).
LEMMA PairPlanned ==
  ASSUME DipPairFlags, ReadyInv, work.stage = "dip", NEW curve
  PROVE  PairWritten(work.e.key, work.before.key, work.after.key, DipUpdates(work.e, work.before, work.after, curve))
<1> DEFINE e == work.e
           before == work.before
           after == work.after
           c == DipValue(e, before, after, curve)
           own == [key |-> e.key, row |-> Dip(e, before, after, curve)]
           behind == [key |-> after.key, row |-> Changed(after.row, object.afterdip_flagchange)]
<1>1. work # Nothing /\ TypeInv /\ WorkTyped
  BY DEF Nothing, ReadyInv, TypeInv
<1>2. algorithm = "DipTest" /\ pc # "idle" /\ e \in list /\ IsRow(after.row) /\ IsRow(e.row)
  BY <1>1 DEF WorkTyped, RowRead, TypeInv
<1>3. IsReady(file, "DipTest", object)
  BY <1>2 DEF ReadyInv
<1>4. BuiltIn("DipTest", {"afterdip_flagchange"})
  BY DEF DipPairFlags, BuiltIn
<1>5. DipUpdates(e, before, after, curve) = {own, behind}
  BY DEF DipUpdates
<1> HIDE DEF e, before, after, c
<1>6. behind.key = after.key /\ behind.row.control.fs = 4
  <2> DEFINE r == after.row
             n == Changed(r, object.afterdip_flagchange)
  <2>1. IsRow(r)
    BY <1>2
  <2>2. behind.key = after.key /\ behind.row = n
    OBVIOUS
  <2> HIDE DEF r
  <2>3. n.control = Puts(r.control, "fs", 4)
    BY <1>3, <1>4, <2>1, BehindMarked
  <2>4. r.control \in CFlags /\ "fs" \in ControlFlags
    BY <2>1, FlagsAssumption DEF IsRow, CFlags
  <2>5. Puts(r.control, "fs", 4)["fs"] = 4
    BY <2>4, PutsOther
  <2> HIDE DEF n
  <2> QED  BY <2>2, <2>3, <2>5
<1>7. own.key = e.key /\ own.row.corrected = c
  <2> DEFINE r == [e.row EXCEPT !.corrected = c]
             control == Apply(object.dip_flagchange, r.control)
             use == UseInfo(control)
  <2>1. IsRow(r) /\ r.corrected = c
    <3>1. IsRow(r)
      BY <1>2, RowCorrected
    <3>2. DOMAIN e.row = {"original", "corrected", "control", "use"}
      BY <1>2 DEF IsRow
    <3> QED  BY <3>1, <3>2
  <2>2. own.key = e.key /\ own.row = [r EXCEPT !.control = control, !.use = use]
    BY DEF Dip, Changed, WithControl, c
  <2> HIDE DEF r, control, use, own
  <2>3. own.row.corrected = r.corrected
    BY <2>1, <2>2 DEF IsRow
  <2> QED  BY <2>1, <2>2, <2>3
<1>8. c.by = "linear" => c.from = {before.key, after.key}
  <2> DEFINE points == {AkimaPoints(e)[m] : m \in 1 .. 6} \ {AkimaPoints(e)[4]}
             mean == Average(before.row.original, after.row.original)
  <2>1. c = Corrected("akima", curve, points) \/ c = Corrected("linear", mean, {before.key, after.key})
    BY DEF DipValue, c
  <2> HIDE DEF points, mean
  <2> QED  BY <2>1 DEF Corrected
<1> HIDE DEF own, behind
<1>9. PairWritten(e.key, before.key, after.key, {own, behind})
  BY <1>6, <1>7, <1>8 DEF PairWritten
<1> QED
  BY <1>5, <1>9 DEF e, before, after

\* Every step keeps the invariant.
LEMMA PairStep ==
  ASSUME DipPairFlags
  PROVE  PairInv /\ [Next]_vars => PairInv'
<1> SUFFICES ASSUME PairInv, [Next]_vars PROVE PairInv'
  OBVIOUS
<1>0. ReadyInv /\ ReadyInv' /\ objects = [a \in Algorithms |-> objects[a]] /\ WorkTyped /\ TypeInv
  BY ReadyStep DEF PairInv, ReadyInv, TypeInv
<1>n. Nothing.stage = "none"
  BY DEF Nothing
<1>a. ASSUME work' = Nothing  PROVE PairInv'
  BY <1>0, <1>n, <1>a DEF PairInv
<1>b. ASSUME UNCHANGED <<work, file>>, meanwhile \subseteq meanwhile',
             DOMAIN table \subseteq DOMAIN table', DOMAIN table' \subseteq DOMAIN table \union meanwhile',
             \A k \in DOMAIN table : /\ table'[k].control.fs = table[k].control.fs
                                     /\ k \in meanwhile' \/ table'[k] = table[k]
      PROVE  PairInv'
  <2>1. algorithm' = algorithm
    BY <1>b DEF algorithm
  <2>2. \A k, i, j : PairAround(k, i, j) => PairAround(k, i, j)'
    <3>1. ASSUME NEW k, NEW i, NEW j, PairAround(k, i, j)  PROVE PairAround(k, i, j)'
      <4>1. Within(i, j)' \subseteq Within(i, j) \union meanwhile'
        BY <1>b DEF Within
      <4>2. Within(i, j)' \subseteq {k} \union meanwhile'
        BY <1>b, <3>1, <4>1 DEF PairAround
      <4> QED  BY <1>b, <3>1, <4>2 DEF PairAround
    <3> QED  BY <3>1
  <2>3. work'.stage = "dip" => PairAround(work.e.key, work.before.key, work.after.key)'
    BY <1>b, <2>2 DEF PairInv
  <2>4. work'.stage = "write" /\ algorithm' = "DipTest" =>
           \E i, j : PairAround(work.e.key, i, j)' /\ PairWritten(work.e.key, i, j, work.updates)'
    BY <1>b, <2>1, <2>2 DEF PairInv, PairWritten
  <2> QED  BY <1>0, <2>3, <2>4 DEF PairInv
<1>c. ASSUME UNCHANGED <<table, meanwhile>>
      PROVE  \A k, i, j : PairAround(k, i, j) => PairAround(k, i, j)'
  BY <1>c DEF PairAround, Within
<1>1. ASSUME NEW f \in files, Select(f)  PROVE PairInv'
  <2>1. work' = work /\ pc = "idle"
    BY <1>1 DEF Select
  <2> QED  BY <1>0, <1>a, <2>1 DEF WorkTyped
<1>2. CASE ReadRows
  <2>1. work' = work /\ pc = "run"
    BY <1>2 DEF ReadRows
  <2> QED  BY <1>0, <1>a, <2>1 DEF WorkTyped
<1>3. CASE ReadRefused
  BY <1>0, <1>3, <1>a, Idles DEF ReadRefused
<1>4. ASSUME NEW e \in list, CompareRows(e)  PROVE PairInv'
  <2>1. pc # "idle" /\ work = Nothing /\ algorithm = "DipTest" /\ UNCHANGED <<pc, table, meanwhile, file>>
    BY <1>4 DEF CompareRows, Due, historyVars
  <2>2. CASE NothingToDo(e)
    BY <1>a, <2>1, <2>2 DEF NothingToDo
  <2>3. ASSUME NEW around \in DipsAround(e),
               Planned([stage |-> "dip", e |-> e, before |-> RowAt(around[1]), after |-> RowAt(around[2])])
        PROVE  PairInv'
    <3> DEFINE i == around[1]
               j == around[2]
               k == e.key
    <3>1. PairAround(k, i, j)
      BY <1>0, <2>1, PairFound
    <3>2. work' = [stage |-> "dip", e |-> e, before |-> RowAt(i), after |-> RowAt(j)]
      BY <2>3 DEF Planned
    <3>3. PICK x, y, z : x = k /\ y = i /\ z = j /\ PairAround(x, y, z)
      BY <3>1
    <3> HIDE DEF i, j, k
    <3>4. work'.stage = "dip" /\ work'.e.key = x /\ work'.before.key = y /\ work'.after.key = z
      BY <3>2, <3>3 DEF RowAt, k
    <3>5. PairAround(x, y, z)'
      BY <1>c, <2>1, <3>3
    <3>6. PairAround(work.e.key, work.before.key, work.after.key)'
      BY <3>4, <3>5
    <3> QED  BY <1>0, <3>4, <3>6 DEF PairInv
  <2> QED  BY <1>4, <2>2, <2>3 DEF CompareRows
<1>5. ASSUME NEW e \in list, CompareNeighbours(e)  PROVE PairInv'
  <2>1. work = Nothing /\ algorithm = "SingleLinear" /\ algorithm' = algorithm
    BY <1>5 DEF CompareNeighbours, Due, algorithm
  <2>2. CASE NothingToDo(e)
    BY <1>a, <2>1, <2>2 DEF NothingToDo
  <2>3. CASE Planned(ToWrite(e, FillUpdates(e)))
    <3>1. work'.stage = "write"
      BY <2>3 DEF Planned, ToWrite
    <3> QED  BY <1>0, <2>1, <3>1 DEF PairInv
  <2> QED  BY <1>5, <2>2, <2>3 DEF CompareNeighbours
<1>6. ASSUME NEW curve \in CurveValues, TryAkima(curve)  PROVE PairInv'
  <2> DEFINE updates == DipUpdates(work.e, work.before, work.after, curve)
  <2>1. /\ work.stage = "dip" /\ UNCHANGED <<table, meanwhile, file>> /\ work' = ToWrite(work.e, updates)
    BY <1>6 DEF TryAkima, Planned, historyVars
  <2>2. PICK k, i, j : k = work.e.key /\ PairAround(k, i, j) /\ PairWritten(k, i, j, updates)
    <3>1. PairAround(work.e.key, work.before.key, work.after.key)
      BY <2>1 DEF PairInv
    <3>2. PairWritten(work.e.key, work.before.key, work.after.key, updates)
      BY <1>0, <2>1, PairPlanned
    <3> QED  BY <3>1, <3>2
  <2> HIDE DEF updates
  <2>3. work'.stage = "write" /\ work'.e.key = k /\ work'.updates = updates
    BY <2>1, <2>2 DEF ToWrite
  <2>4. PairAround(k, i, j)'
    BY <1>c, <2>1, <2>2
  <2>5. PairWritten(k, i, j, work'.updates)
    BY <2>2, <2>3
  <2>6. PairAround(work.e.key, i, j)' /\ PairWritten(work.e.key, i, j, work.updates)'
    BY <2>3, <2>4, <2>5 DEF PairWritten
  <2> QED  BY <1>0, <2>3, <2>6 DEF PairInv
<1>7. CASE StoreChanges
  BY <1>7, <1>a DEF StoreChanges
<1>8. CASE CheckLimits
  <2>1. work' = work /\ algorithm = "AggregatorLimits"
    BY <1>8 DEF CheckLimits
  <2> QED  BY <1>0, <1>a, <2>1 DEF WorkTyped
<1>9. CASE EndRows
  <2>1. work' = work /\ list = {}
    BY <1>9 DEF EndRows
  <2> QED  BY <1>0, <1>a, <2>1 DEF WorkTyped
<1>10. CASE EndRun
  <2>1. work' = work /\ pc = "run"
    BY <1>10 DEF EndRun
  <2> QED  BY <1>0, <1>a, <2>1 DEF WorkTyped
<1>11. ASSUME NEW l \in Late, Observe(l[1], l[2])  PROVE PairInv'
  <2>1. /\ UNCHANGED <<work, file>> /\ meanwhile' = meanwhile \union {l[1]}
        /\ l[1] \notin DOMAIN table
        /\ table' = [j \in DOMAIN table \union {l[1]} |-> IF j = l[1] THEN l[2] ELSE table[j]]
    BY <1>11 DEF Observe, runVars
  <2>2. (\A k \in DOMAIN table : table'[k] = table[k]) /\ DOMAIN table' = DOMAIN table \union {l[1]}
    BY <2>1
  <2> QED  BY <1>b, <2>1, <2>2
<1>12. ASSUME NEW j \in HqcKeys, Hqc(j)  PROVE PairInv'
  <2>1. UNCHANGED <<work, file>> /\ meanwhile' = meanwhile \union {j} /\ DOMAIN table' = DOMAIN table
    BY <1>12 DEF Hqc, runVars
  <2>2. \A k \in DOMAIN table : k = j \/ table'[k] = table[k]
    BY <1>12, HqcRow
  <2>3. \A k \in DOMAIN table : table'[k].control.fs = table[k].control.fs
    BY <1>0, <1>12, HqcFlags
  <2> QED  BY <1>b, <2>1, <2>2, <2>3
<1>13. CASE Abort
  BY <1>0, <1>13, <1>a, Idles DEF Abort
<1>14. CASE UNCHANGED vars
  BY <1>14, <1>b DEF vars, runVars, historyVars
<1> QED
  BY <1>1, <1>2, <1>3, <1>4, <1>5, <1>6, <1>7, <1>8, <1>9, <1>10, <1>11, <1>12, <1>13, <1>14 DEF Next

\* No other step marks a dip.
LEMMA NoOtherDips ==
  ASSUME TypeInv, [Next]_vars, algorithm = "DipTest", NEW k \in DOMAIN table, ByDip(k)
  PROVE  StoreChanges
<1>1. table'[k].control.fs # table[k].control.fs
  BY DEF ByDip
<1>2. table' # table
  BY <1>1
<1>3. ASSUME NEW l \in Late, Observe(l[1], l[2])  PROVE FALSE
  <2>1. /\ l[1] \notin DOMAIN table
        /\ table' = [j \in DOMAIN table \union {l[1]} |-> IF j = l[1] THEN l[2] ELSE table[j]]
    BY <1>3 DEF Observe
  <2> QED  BY <1>1, <2>1
<1>4. ASSUME NEW j \in HqcKeys, Hqc(j)  PROVE FALSE
  BY <1>1, <1>4, HqcFlags
<1> QED
  BY <1>2, <1>3, <1>4
     DEF Next, Select, ReadRows, ReadRefused, CompareRows, CompareNeighbours, TryAkima, CheckLimits, EndRows, EndRun,
         Abort, vars

\* A dip is written together with the row behind it.
LEMMA DipPair ==
  ASSUME PairInv, algorithm = "DipTest", StoreChanges, NEW k \in DOMAIN table, ByDip(k)
  PROVE  \E j, i \in DOMAIN table :
                /\ SameSeries(k, i) /\ SameSeries(k, j)
                /\ i.time < k.time /\ k.time - i.time = j.time - k.time
                /\ Within(i, j) \subseteq {k} \union meanwhile
                /\ table[i].control.fs # 9 /\ table'[j].control.fs = 4
                /\ table[j].control.fhqc = 0 \/ j \in meanwhile
                /\ table'[k].corrected.by = "linear" => table'[k].corrected.from = {i, j}
<1> DEFINE updates == work.updates
<1>0. WorkTyped /\ RowsTyped
  BY DEF PairInv, ReadyInv, TypeInv
<1>1. work.stage = "write" /\ table' = Stored(updates)
  BY DEF StoreChanges, Write
<1>2. PICK i, j : PairAround(work.e.key, i, j) /\ PairWritten(work.e.key, i, j, updates)
  BY <1>1 DEF PairInv
<1>3. \A u \in updates : IsRow(u.row)
  BY <1>0, <1>1 DEF WorkTyped, RowRead
<1> HIDE DEF updates
<1>4. ASSUME NEW d \in DOMAIN table
      PROVE  \/ \E u \in updates : u.key = d /\ table'[d].corrected = u.row.corrected /\ table'[d].control = u.row.control
             \/ (\A u \in updates : u.key # d) /\ table'[d] = table[d]
  <2>1. CASE (\A u \in updates : u.key # d) /\ Stored(updates)[d] = table[d]
    BY <1>1, <2>1
  <2>2. ASSUME NEW u \in updates, u.key = d, Stored(updates)[d] = [u.row EXCEPT !.original = table[d].original]
        PROVE  table'[d].corrected = u.row.corrected /\ table'[d].control = u.row.control
    <3> DEFINE r == u.row
    <3>1. IsRow(r) /\ table'[d] = [r EXCEPT !.original = table[d].original]
      BY <1>1, <1>3, <2>2
    <3> HIDE DEF r
    <3>2. table'[d].corrected = r.corrected /\ table'[d].control = r.control
      BY <3>1 DEF IsRow
    <3> QED  BY <3>2 DEF r
  <2>3. \/ \E u \in updates : u.key = d /\ Stored(updates)[d] = [u.row EXCEPT !.original = table[d].original]
        \/ (\A u \in updates : u.key # d) /\ Stored(updates)[d] = table[d]
    BY StoredRow
  <2> QED  BY <2>1, <2>2, <2>3
<1>5. PICK u \in updates : u.key = k /\ table'[k].corrected = u.row.corrected /\ table'[k].control = u.row.control
  <2>1. table'[k] # table[k]
    BY DEF ByDip
  <2> QED  BY <1>4, <2>1
<1>6. k = work.e.key /\ (u.row.corrected.by = "linear" => u.row.corrected.from = {i, j})
  <2>1. u.row.control.fs # 4
    BY <1>5 DEF ByDip
  <2> QED  BY <1>2, <1>5, <2>1 DEF PairWritten
<1>7. j \in DOMAIN table /\ j # k
  <2>1. j \in DOMAIN table /\ k.time < j.time /\ k.time \in Int
    BY <1>0, <1>2, <1>6 DEF PairAround, RowsTyped, Key
  <2> QED  BY <2>1
<1>8. table'[j].control.fs = 4
  <2>1. PICK w \in updates : w.key = j /\ table'[j].control = w.row.control
    BY <1>2, <1>4, <1>7 DEF PairWritten
  <2>2. w.row.control.fs = 4
    BY <1>2, <1>6, <1>7, <2>1 DEF PairWritten
  <2> QED  BY <2>1, <2>2
<1> HIDE DEF ByDip
<1> QED
  BY ONLY <1>2, <1>5, <1>6, <1>8 DEF PairAround

\* As long as no file sets the flags that DipTest wants of the rows around a candidate, nor what it does to the row behind
\* a dip, it corrects a dip together with the row behind it, and only a row whose neighbours in time, of its own sensor,
\* were both known and equally far away when they were read (DipTestAlgorithm.cc: checkDip, writeChanges).
THEOREM DipsMarkedInPairs ==
  ASSUME BuiltIn("DipTest", {"dip_before", "dip_after", "afterdip_flagchange"})
  PROVE  Spec => DipsInPairs
<1>0. DipPairFlags
  BY DEF DipPairFlags
<1>1. Init => PairInv
  BY ReadyInit DEF PairInv, Init, Nothing
<1>2. PairInv /\ [Next]_vars => PairInv'
  BY <1>0, PairStep
<1>3. PairInv /\ [Next]_vars =>
      [algorithm = "DipTest" =>
        \A k \in DOMAIN table : ByDip(k) =>
            \E j, i \in DOMAIN table :
                /\ SameSeries(k, i) /\ SameSeries(k, j)
                /\ i.time < k.time /\ k.time - i.time = j.time - k.time
                /\ Within(i, j) \subseteq {k} \union meanwhile
                /\ table[i].control.fs # 9 /\ table'[j].control.fs = 4
                /\ table[j].control.fhqc = 0 \/ j \in meanwhile
                /\ table'[k].corrected.by = "linear" => table'[k].corrected.from = {i, j}]_vars
  <2> SUFFICES ASSUME PairInv, [Next]_vars, algorithm = "DipTest", NEW k \in DOMAIN table, ByDip(k)
               PROVE \E j, i \in DOMAIN table :
                /\ SameSeries(k, i) /\ SameSeries(k, j)
                /\ i.time < k.time /\ k.time - i.time = j.time - k.time
                /\ Within(i, j) \subseteq {k} \union meanwhile
                /\ table[i].control.fs # 9 /\ table'[j].control.fs = 4
                /\ table[j].control.fhqc = 0 \/ j \in meanwhile
                /\ table'[k].corrected.by = "linear" => table'[k].corrected.from = {i, j}
    OBVIOUS
  <2>1. StoreChanges
    BY NoOtherDips DEF PairInv, ReadyInv
  <2> QED  BY <2>1, DipPair
<1> QED
  BY <1>1, <1>2, <1>3, PTL DEF Spec, DipsInPairs

-----------------------------------------------------------------------------
(* What a run has still to do in a table t, for an object o of the         *)
(* algorithm a.                                                            *)

SeriesIn(keys, key, t0, t1) ==
    InOrder({k \in keys : /\ k.pid = key.pid /\ k.aggregated = key.aggregated /\ k.sensor = key.sensor
                          /\ t0 <= k.time /\ k.time <= t1})
PidsOf(o, a) ==
    CASE a = "DipTest" -> {d.pid : d \in ToSet(o.PidValMap)}
      [] a = "SingleLinear" -> ToSet(o.pids)
      [] a = "AggregatorLimits" -> {o.mLimits[i].pid : i \in DOMAIN o.mLimits}
FlagsOf(o, a) ==
    CASE a = "DipTest" -> o.candidate_flags
      [] a = "SingleLinear" -> o.missing_flags
      [] a = "AggregatorLimits" -> o.mFlags

\* Rows that a run reads,
Selected(t, o, a, k) ==
    /\ k.pid \in PidsOf(o, a) /\ (k.aggregated <=> a = "AggregatorLimits")
    /\ o.window[1] <= k.time /\ k.time <= o.window[2]
    /\ SetMatches(FlagsOf(o, a), t[k])
    /\ a = "DipTest" => t[k].original > Missing

\* and those that it would change: a dip,
DipBetween(t, o, k, i, j) ==
    /\ k.time - i.time = j.time - k.time
    /\ SetMatches(o.dip_before_flags, t[i]) /\ SetMatches(o.dip_after_flags, t[j])
    /\ t[i].original > Missing /\ t[j].original > Missing
    /\ Difference(t[j], t[i]) < Difference(t[k], t[i])
    /\ Difference(t[j], t[i]) < 10 * ((CHOOSE d \in ToSet(o.PidValMap) : d.pid = k.pid).delta \div 10)
DipsAt(t, o, k) ==
    /\ ~(k.time - 60 < o.window[1] \/ k.time + 60 > o.window[2])
    /\ LET series == SeriesIn(DOMAIN t, k, k.time - 60, k.time + 60)
       IN  \E n \in 2 .. Len(series) - 1 : series[n] = k /\ DipBetween(t, o, k, series[n - 1], series[n + 1])
\* a row that is not what its neighbours make of it,
IsGood(t, o, k) == SetMatches(o.neighbor_flags, t[k]) /\ t[k].original # Missing /\ t[k].original # Rejected
FillsBetween(t, o, k, i, j) ==
    IF IsGood(t, o, i) /\ IsGood(t, o, j)
    THEN \/ t[k].control.ftime = 0
         \/ t[k].control.ftime = 1 /\ t[k].corrected.value # Average(t[i].original, t[j].original)
    ELSE t[k].control.ftime = 1
FillsAt(t, o, k) ==
    LET series == SeriesIn(DOMAIN t, k, k.time - 60, k.time + 60)
    IN  Len(series) = 3 /\ FillsBetween(t, o, k, series[1], series[3])
\* or one that is out of range.
MaxFor(o, key) ==
    LET own == {i \in DOMAIN o.mLimits : o.mLimits[i].pid = key.pid}
        last == CHOOSE i \in own : \A j \in own : j <= i
        first == CHOOSE i \in own : \A j \in own : i <= j
    IN  o.mLimits[IF DayOfYear(key.time) = 1 THEN last ELSE first].max
OutAt(t, o, k) ==
    /\ t[k].corrected.value > -327650
    /\ t[k].corrected.value < LowLimit \/ t[k].corrected.value > MaxFor(o, k)

ToDo(t, o, a, k) ==
    CASE a = "DipTest" -> DipsAt(t, o, k)
      [] a = "SingleLinear" -> FillsAt(t, o, k)
      [] a = "AggregatorLimits" -> OutAt(t, o, k)
Done(t, o, a) == \A k \in DOMAIN t : Selected(t, o, a, k) => ~ToDo(t, o, a, k)

\* Rows whose turn is still to come.
Pending(rows, turns, a, k) ==
    \/ IF a = "AggregatorLimits" THEN turns # <<>> ELSE k.pid \in ToSet(turns)
    \/ \E e \in rows : e.key = k

\* A run of the algorithm a that nothing has disturbed: the rows that are read are still what they were, and what
\* would be changed is still to come.
Undone(t, o, a, turns, rows) ==
    \A k \in DOMAIN t : Selected(t, o, a, k) /\ ToDo(t, o, a, k) => Pending(rows, turns, a, k)
RunInv(t, o, a, turns, rows) ==
    /\ List(turns) /\ (a # "AggregatorLimits" => ToSet(turns) \subseteq PidsOf(o, a))
    /\ \A d, e \in rows : d.key = e.key => d = e
    /\ \A e \in rows : /\ e.row.original = t[e.key].original
                       /\ a # "DipTest" => e.row = t[e.key] /\ Selected(t, o, a, e.key)
    /\ Undone(t, o, a, turns, rows)

\* The inductive invariant: files that have been run have left nothing to do.
QuietInv(a) ==
    /\ ReadyInv /\ table = [k \in DOMAIN table |-> table[k]]
    /\ list # {} => pc = "rows"
    /\ \A f \in settled : AlgorithmOf(f) = a => Done(table, AsNew(f), a)
    /\ pc # "idle" /\ calm /\ algorithm = a =>
           /\ RunInv(table, object, a, pids, list)
           /\ file \in settled => \A e \in list : Selected(table, object, a, e.key)

\* The flags that must be built in for an algorithm.
OwnFlags(a) ==
    CASE a = "DipTest" -> {"candidate", "dip_before", "dip_after", "dip_flagchange", "afterdip_flagchange"}
      [] a = "SingleLinear" -> {"missing", "neighbor", "ftime0_flagchange", "ftime1_flagchange"}
      [] a = "AggregatorLimits" -> {"aggregation", "aggregation_flagchange_min", "aggregation_flagchange_max"}
FlagsBuiltIn(a) == BuiltIn(a, OwnFlags(a))

\* The lists that an algorithm works through.
LEMMA ListMembers ==
  ASSUME NEW a, NEW o, Typed(o, a)
  PROVE  /\ a = "DipTest" => List(o.PidValMap)
         /\ a = "SingleLinear" => List(o.pids)
         /\ a = "AggregatorLimits" => List(o.mLimits)
<1>1. CASE a = "DipTest"
  <2>1. 2 \in DOMAIN DipTestCalls /\ DipTestCalls[2].kind = "delta" /\ DipTestCalls[2].member = "PidValMap"
    BY DEF DipTestCalls, Simple, FlagSet, FlagChange
  <2>2. Calls(a) = DipTestCalls
    BY <1>1 DEF Calls, AllCalls
  <2> QED  BY <1>1, <2>1, <2>2 DEF Typed, MemberOk
<1>2. CASE a = "SingleLinear"
  <2>1. 6 \in DOMAIN SingleLinearCalls /\ SingleLinearCalls[6].kind = "multi" /\ SingleLinearCalls[6].member = "pids"
    BY DEF SingleLinearCalls, Simple, FlagSet, FlagChange
  <2>2. Calls(a) = SingleLinearCalls
    BY <1>2 DEF Calls, AllCalls
  <2> QED  BY <1>2, <2>1, <2>2 DEF Typed, MemberOk
<1>3. CASE a = "AggregatorLimits"
  <2>1. /\ 4 \in DOMAIN AggregatorLimitsCalls /\ AggregatorLimitsCalls[4].kind = "limits"
        /\ AggregatorLimitsCalls[4].member = "mLimits"
    BY DEF AggregatorLimitsCalls, Simple, FlagSet, FlagChange
  <2>2. Calls(a) = AggregatorLimitsCalls
    BY <1>3 DEF Calls, AllCalls
  <2> QED  BY <1>3, <2>1, <2>2 DEF Typed, MemberOk
<1> QED
  BY <1>1, <1>2, <1>3

\* The parameters of a run.
LEMMA TurnsOf ==
  ASSUME NEW a \in Looks, NEW o, Typed(o, a)
  PROVE  /\ List(PidsToRun(a, o))
         /\ a # "AggregatorLimits" => ToSet(PidsToRun(a, o)) = PidsOf(o, a)
         /\ a = "AggregatorLimits" => PidsToRun(a, o) # <<>>
<1>1. CASE a = "DipTest"
  <2> DEFINE m == o.PidValMap
             s == [i \in DOMAIN m |-> m[i].pid]
  <2>1. List(m)
    BY <1>1, ListMembers
  <2>2. PidsToRun(a, o) = s /\ PidsOf(o, a) = {d.pid : d \in ToSet(m)}
    BY <1>1 DEF PidsToRun, PidsOf, Elsewhere
  <2> HIDE DEF m
  <2>3. Len(m) \in Nat /\ DOMAIN m = 1 .. Len(m)
    BY <2>1, ListIs
  <2>4. DOMAIN s = 1 .. Len(m) /\ s = [i \in 1 .. Len(m) |-> s[i]]
    BY <2>3
  <2>5. ToSet(s) = {d.pid : d \in ToSet(m)}
    BY DEF ToSet
  <2> HIDE DEF s
  <2>6. List(s)
    BY <2>3, <2>4, SomeList
  <2> QED  BY <1>1, <2>2, <2>5, <2>6
<1>2. CASE a = "SingleLinear"
  <2>1. List(o.pids)
    BY <1>2, ListMembers
  <2> QED  BY <1>2, <2>1 DEF PidsToRun, PidsOf, Elsewhere
<1>3. CASE a = "AggregatorLimits"
  <2>1. List(<<"all">>) /\ <<"all">> # <<>>
    BY DEF List
  <2> QED  BY <1>3, <2>1 DEF PidsToRun, Elsewhere
<1> QED
  BY <1>1, <1>2, <1>3 DEF Looks

\* A list without its first element.
LEMMA ListTail ==
  ASSUME NEW s, List(s), s # <<>>
  PROVE  /\ List(Tail(s)) /\ Head(s) \in ToSet(s) /\ ToSet(Tail(s)) \subseteq ToSet(s)
         /\ \A x \in ToSet(s) : x = Head(s) \/ x \in ToSet(Tail(s))
<1> DEFINE S == {s[i] : i \in DOMAIN s}
           t == Tail(s)
<1>1. s \in Seq(S) /\ Len(s) \in Nat /\ DOMAIN s = 1 .. Len(s)
  BY ListIs DEF List
<1> HIDE DEF S
<1>2. Len(s) > 0 /\ Head(s) = s[1]
  BY <1>1
<1>3. t \in Seq(S) /\ Len(t) = Len(s) - 1 /\ \A i \in 1 .. Len(s) - 1 : t[i] = s[i + 1]
  BY <1>1, <1>2
<1> HIDE DEF t
<1>4. DOMAIN t = 1 .. Len(s) - 1 /\ Len(s) - 1 \in Nat /\ \A i \in 1 .. Len(s) - 1 : t[i] = s[i + 1]
  BY <1>1, <1>2, <1>3
<1>5. List(t)
  <2>1. t = [i \in 1 .. Len(s) - 1 |-> t[i]]
    BY <1>3, <1>4
  <2> QED  BY <1>4, <2>1, SomeList
<1>6. ToSet(s) = {s[i] : i \in 1 .. Len(s)} /\ ToSet(t) = {t[i] : i \in 1 .. Len(s) - 1}
  BY <1>1, <1>4 DEF ToSet
<1>7. Head(s) \in ToSet(s)
  BY <1>1, <1>2, <1>6
<1>8. ToSet(t) \subseteq ToSet(s)
  BY <1>1, <1>4, <1>6
<1>9. ASSUME NEW x \in ToSet(s)  PROVE x = Head(s) \/ x \in ToSet(t)
  <2>1. PICK i \in 1 .. Len(s) : x = s[i]
    BY <1>6
  <2>2. CASE i = 1
    BY <1>2, <2>1, <2>2
  <2>3. CASE i # 1
    <3>1. i - 1 \in 1 .. Len(s) - 1 /\ s[i] = s[(i - 1) + 1]
      BY <1>1, <2>3
    <3>2. t[i - 1] = x
      BY <1>4, <2>1, <3>1
    <3> QED  BY <1>6, <3>1, <3>2
  <2> QED  BY <2>2, <2>3
<1> QED
  BY <1>5, <1>7, <1>8, <1>9 DEF t

\* The rows that are read are those that the object selects.
LEMMA ReadSelected ==
  ASSUME NEW k, algorithm \in Looks,
         NEW pid, algorithm # "AggregatorLimits" => pid \in PidsOf(object, algorithm)
  PROVE  /\ Reads(k, pid) => Selected(table, object, algorithm, k)
         /\ Selected(table, object, algorithm, k) /\ (algorithm = "AggregatorLimits" \/ k.pid = pid) => Reads(k, pid)
<1> DEFINE a == algorithm
           W == ut0 <= k.time /\ k.time <= ut1
           M == SetMatches(FlagsToRead, table[k])
           V == table[k].original > Missing
<1>1. FlagsOf(object, a) = FlagsToRead
  BY DEF FlagsOf, FlagsToRead, Looks
<1>2. Selected(table, object, a, k) <=> /\ k.pid \in PidsOf(object, a) /\ (k.aggregated <=> a = "AggregatorLimits")
                                        /\ W /\ M /\ (a = "DipTest" => V)
  BY <1>1 DEF Selected, ut0, ut1
<1>3. Reads(k, pid) <=> /\ W /\ M /\ (a = "DipTest" => V)
                        /\ IF a = "AggregatorLimits" THEN k.aggregated /\ k.pid \in Limited
                           ELSE ~k.aggregated /\ k.pid = pid
  BY DEF Reads
<1>4. a = "AggregatorLimits" => PidsOf(object, a) = Limited
  BY DEF PidsOf, Limited
<1> HIDE DEF W, M, V, a
<1> QED
  <2>1. a # "AggregatorLimits" => pid \in PidsOf(object, a)
    BY DEF a
  <2>2. /\ Reads(k, pid) => Selected(table, object, a, k)
        /\ Selected(table, object, a, k) /\ (a = "AggregatorLimits" \/ k.pid = pid) => Reads(k, pid)
    BY ONLY <1>2, <1>3, <1>4, <2>1
  <2> QED  BY <2>2 DEF a

\* Steps that leave the table alone.
LEMMA QuietKept ==
  ASSUME NEW a, QuietInv(a), ReadyInv', table' = table, settled' \subseteq settled, list' # {} => pc' = "rows",
         \/ pc' = "idle" \/ calm' = FALSE
         \/ pc # "idle" /\ calm' = calm /\ list' = list /\ pids' = pids /\ file' = file /\ objects' = objects
  PROVE  QuietInv(a)'
<1>1. \A f \in settled' : AlgorithmOf(f) = a => Done(table', AsNew(f), a)
  BY DEF QuietInv
<1>2. ASSUME pc' # "idle", calm' = TRUE, algorithm' = a
      PROVE  /\ RunInv(table', object', a, pids', list')
             /\ file' \in settled' => \A e \in list' : Selected(table', object', a, e.key)
  <2>1. algorithm' = algorithm /\ object' = object
    BY <1>2 DEF algorithm, object
  <2> QED  BY <1>2, <2>1 DEF QuietInv
<1>3. calm' \in BOOLEAN
  BY DEF ReadyInv, TypeInv
<1> QED
  BY <1>1, <1>2, <1>3 DEF QuietInv

\* AlgorithmDispatcher::select: all is still to come.
LEMMA SelectQuiet ==
  ASSUME NEW a \in Looks, QuietInv(a), ReadyInv', NEW f \in files, Select(f)
  PROVE  QuietInv(a)'
<1> DEFINE b == AlgorithmOf(f)
           configured == Configure(objects[b], Items(f), b)
<1>1. f \in Runnable /\ file' = f /\ list' = {} /\ settled' = settled /\ table' = table
  BY DEF Select
<1>2. objects' = [objects EXCEPT ![b] = configured.object] /\ (pc' # "idle" => pids' = PidsToRun(b, configured.object))
  BY DEF Select, Configured
<1>3. b \in Algorithms /\ objects = [c \in Algorithms |-> objects[c]]
  BY <1>1 DEF Runnable, QuietInv, ReadyInv, TypeInv
<1> HIDE DEF configured
<1>4. algorithm' = b /\ object' = configured.object
  BY <1>1, <1>2, <1>3 DEF algorithm, object
<1>5. \A g \in settled' : AlgorithmOf(g) = a => Done(table', AsNew(g), a)
  BY <1>1 DEF QuietInv
<1>6. ASSUME pc' # "idle", algorithm' = a
      PROVE  RunInv(table', object', a, pids', list')
  <2>1. Typed(object', a)
    <3>1. \A c \in Algorithms : Typed(objects'[c], c)
      BY DEF ReadyInv, TypeInv
    <3> QED  BY <1>3, <1>4, <1>6, <3>1 DEF object
  <2>2. pids' = PidsToRun(a, object')
    BY <1>2, <1>4, <1>6
  <2>3. /\ List(pids') /\ (a # "AggregatorLimits" => ToSet(pids') = PidsOf(object', a))
        /\ (a = "AggregatorLimits" => pids' # <<>>)
    BY <2>1, <2>2, TurnsOf
  <2>4. Undone(table', object', a, pids', list')
    BY <2>3 DEF Undone, Pending, Selected
  <2> QED  BY <1>1, <2>3, <2>4 DEF RunInv
<1> QED
  BY <1>1, <1>5, <1>6 DEF QuietInv

\* Rows are read as they are.
LEMMA ReadQuiet ==
  ASSUME NEW a \in Looks, QuietInv(a), ReadyInv', ReadRows
  PROVE  QuietInv(a)'
<1>1. /\ pc = "run" /\ pids # <<>> /\ pids' = Tail(pids) /\ pc' = "rows"
      /\ UNCHANGED <<table, files, objects, file, calm, settled>>
  BY DEF ReadRows
<1>2. algorithm' = algorithm /\ object' = object /\ calm' = calm /\ settled' = settled /\ table' = table
  BY <1>1 DEF algorithm, object
<1>3. \A f \in settled' : AlgorithmOf(f) = a => Done(table', AsNew(f), a)
  BY <1>2 DEF QuietInv
<1>4. ASSUME calm, algorithm = a
      PROVE  RunInv(table, object, a, pids', list') /\ \A e \in list' : Selected(table, object, a, e.key)
  <2>0. TypeInv /\ RunInv(table, object, a, pids, list) /\ list = {}
    BY <1>1, <1>4 DEF QuietInv, ReadyInv
  <2> DEFINE pid == Head(pids)
  <2>1. \A e : e \in list' <=> \E k \in DOMAIN table : Reads(k, pid) /\ e = [key |-> k, row |-> table[k]]
    BY <2>0, ReadList
  <2>2. /\ List(pids') /\ pid \in ToSet(pids) /\ ToSet(pids') \subseteq ToSet(pids)
        /\ \A x \in ToSet(pids) : x = pid \/ x \in ToSet(pids')
    BY <1>1, <2>0, ListTail DEF RunInv
  <2>3. a # "AggregatorLimits" => ToSet(pids') \subseteq PidsOf(object, a) /\ pid \in PidsOf(object, a)
    BY <2>0, <2>2 DEF RunInv
  <2> HIDE DEF pid
  <2>4. \A k : /\ Reads(k, pid) => Selected(table, object, a, k)
               /\ Selected(table, object, a, k) /\ (a = "AggregatorLimits" \/ k.pid = pid) => Reads(k, pid)
    BY <1>4, <2>3, ReadSelected
  <2>5. \A e \in list' : e.row = table[e.key] /\ Selected(table, object, a, e.key)
    <3>1. ASSUME NEW e \in list'  PROVE e.row = table[e.key] /\ Selected(table, object, a, e.key)
      <4>1. PICK k \in DOMAIN table : Reads(k, pid) /\ e = [key |-> k, row |-> table[k]]
        BY <2>1
      <4>2. e.key = k /\ e.row = table[k]
        BY <4>1
      <4> QED  BY <2>4, <4>1, <4>2
    <3> QED  BY <3>1
  <2>6. \A d, e \in list' : d.key = e.key => d = e
    BY <2>1
  <2>7. Undone(table, object, a, pids', list')
    <3> SUFFICES ASSUME NEW k \in DOMAIN table, Selected(table, object, a, k), ToDo(table, object, a, k)
                 PROVE  Pending(list', pids', a, k)
      BY DEF Undone
    <3>1. Pending(list, pids, a, k)
      BY <2>0 DEF RunInv, Undone
    <3>2. CASE a = "AggregatorLimits" \/ k.pid = pid
      <4> DEFINE e == [key |-> k, row |-> table[k]]
      <4>1. e \in list'
        BY <2>1, <2>4, <3>2
      <4>2. e.key = k
        OBVIOUS
      <4> HIDE DEF e
      <4> QED  BY <4>1, <4>2 DEF Pending
    <3>3. CASE a # "AggregatorLimits" /\ k.pid # pid
      BY <2>0, <2>2, <3>1, <3>3 DEF Pending
    <3> QED  BY <3>2, <3>3
  <2> QED  BY <2>2, <2>3, <2>5, <2>6, <2>7 DEF RunInv
<1> QED
  BY <1>1, <1>2, <1>3, <1>4 DEF QuietInv

\* A run that ends has left nothing to do.
LEMMA EndRunQuiet ==
  ASSUME NEW a \in Looks, QuietInv(a), ReadyInv', EndRun
  PROVE  QuietInv(a)'
<1>1. /\ pc = "run" /\ pids = <<>> /\ pc' = "idle" /\ list' = list /\ table' = table
      /\ settled' = IF calm /\ algorithm \notin Elsewhere /\ object = AsNew(file) THEN settled \union {file} ELSE settled \ {file}
  BY DEF EndRun
<1>2. list = {}
  BY <1>1 DEF QuietInv
<1>3. ASSUME NEW f \in settled', AlgorithmOf(f) = a  PROVE Done(table', AsNew(f), a)
  <2>1. CASE f \in settled
    BY <1>1, <1>3, <2>1 DEF QuietInv
  <2>2. CASE f \notin settled
    <3>1. calm /\ object = AsNew(file) /\ f = file
      BY <1>1, <1>3, <2>2
    <3>2. algorithm = a
      BY <1>3, <3>1 DEF algorithm
    <3>3. Undone(table, object, a, pids, list)
      BY <1>1, <3>1, <3>2 DEF QuietInv, RunInv
    <3>4. \A k : ~Pending(list, pids, a, k)
      BY <1>1, <1>2 DEF Pending, ToSet
    <3> QED  BY <1>1, <3>1, <3>3, <3>4 DEF Undone, Done
  <2> QED  BY <2>1, <2>2
<1> QED
  BY <1>1, <1>2, <1>3 DEF QuietInv

\* What there is to do and what is built in, algorithm by algorithm.
LEMMA LimitMeans ==
  ASSUME NEW a, a = "AggregatorLimits"
  PROVE  /\ \A t, o, k : ToDo(t, o, a, k) <=> OutAt(t, o, k)
         /\ \A o : FlagsOf(o, a) = o.mFlags
         /\ OwnFlags(a) = {"aggregation", "aggregation_flagchange_min", "aggregation_flagchange_max"}
<1>1. a # "DipTest" /\ a # "SingleLinear"
  OBVIOUS
<1>2. ASSUME NEW t, NEW o, NEW k  PROVE ToDo(t, o, a, k) <=> OutAt(t, o, k)
  BY <1>1 DEF ToDo
<1>3. \A o : FlagsOf(o, a) = o.mFlags
  BY <1>1 DEF FlagsOf
<1>4. OwnFlags(a) = {"aggregation", "aggregation_flagchange_min", "aggregation_flagchange_max"}
  BY <1>1 DEF OwnFlags
<1> QED
  BY <1>2, <1>3, <1>4

\* For SingleLinear,
LEMMA FillMeans ==
  ASSUME NEW a, a = "SingleLinear"
  PROVE  /\ \A t, o, k : ToDo(t, o, a, k) <=> FillsAt(t, o, k)
         /\ \A o : FlagsOf(o, a) = o.missing_flags
         /\ OwnFlags(a) = {"missing", "neighbor", "ftime0_flagchange", "ftime1_flagchange"}
<1>1. a # "DipTest" /\ a # "AggregatorLimits"
  OBVIOUS
<1>2. ASSUME NEW t, NEW o, NEW k  PROVE ToDo(t, o, a, k) <=> FillsAt(t, o, k)
  BY <1>1 DEF ToDo
<1>3. \A o : FlagsOf(o, a) = o.missing_flags
  BY <1>1 DEF FlagsOf
<1>4. OwnFlags(a) = {"missing", "neighbor", "ftime0_flagchange", "ftime1_flagchange"}
  BY <1>1 DEF OwnFlags
<1> QED
  BY <1>2, <1>3, <1>4

\* for DipTest.
LEMMA DipMeans ==
  ASSUME NEW a, a = "DipTest"
  PROVE  /\ \A t, o, k : ToDo(t, o, a, k) <=> DipsAt(t, o, k)
         /\ \A o : FlagsOf(o, a) = o.candidate_flags
         /\ OwnFlags(a) = {"candidate", "dip_before", "dip_after", "dip_flagchange", "afterdip_flagchange"}
<1>1. a # "SingleLinear" /\ a # "AggregatorLimits"
  OBVIOUS
<1>2. ASSUME NEW t, NEW o, NEW k  PROVE ToDo(t, o, a, k) <=> DipsAt(t, o, k)
  BY <1>1 DEF ToDo
<1>3. \A o : FlagsOf(o, a) = o.candidate_flags
  BY <1>1 DEF FlagsOf
<1>4. OwnFlags(a) = {"candidate", "dip_before", "dip_after", "dip_flagchange", "afterdip_flagchange"}
  BY <1>1 DEF OwnFlags
<1> QED
  BY <1>2, <1>3, <1>4

\* Steps that write: either nothing is written, or no file is settled any more.
LEMMA WrittenQuiet ==
  ASSUME NEW a, QuietInv(a), ReadyInv', NEW updates, Write(updates), list' \subseteq list,
         UNCHANGED <<pc, pids, file, objects>>, pc = "rows",
         calm /\ algorithm = a => RunInv(table', object, a, pids, list')
  PROVE  QuietInv(a)'
<1>1. algorithm' = algorithm /\ object' = object /\ calm' = calm
  BY DEF algorithm, object, Write
<1>2. table' = Stored(updates) /\ settled' = IF updates = {} THEN settled ELSE {}
  BY DEF Write
<1>3. table' = [k \in DOMAIN table' |-> table'[k]]
  BY <1>2 DEF Stored
<1>4. CASE updates = {}
  <2>1. Stored({}) = [k \in DOMAIN table |-> table[k]]
    BY DEF Stored
  <2>2. table' = table /\ settled' = settled
    BY <1>2, <1>4, <2>1 DEF QuietInv
  <2> QED  BY <1>1, <1>3, <2>2 DEF QuietInv
<1>5. CASE updates # {}
  <2>1. settled' = {}
    BY <1>2, <1>5
  <2> QED  BY <1>1, <1>3, <2>1 DEF QuietInv
<1> QED
  BY <1>4, <1>5

\* Out of range in memory, and in a table.
LEMMA OutMeans ==
  ASSUME NEW k
  PROVE  OutOfRange(table[k], k) <=> OutAt(table, object, k)
<1>1. MaxFor(object, k) = MaximumFor(k)
  BY DEF MaxFor, MaximumFor
<1> QED
  BY <1>1 DEF OutOfRange, OutAt

\* AggregatorLimits marks all that is out of range.
LEMMA LimitKept ==
  ASSUME FlagsBuiltIn("AggregatorLimits"), ReadyInv, CheckLimits,
         RunInv(table, object, "AggregatorLimits", pids, list)
  PROVE  RunInv(table', object, "AggregatorLimits", pids, {})
<1> DEFINE a == "AggregatorLimits"
           t == table
           u == table'
<1>0. /\ \A p, o, k : ToDo(p, o, a, k) <=> OutAt(p, o, k)
      /\ \A o : FlagsOf(o, a) = o.mFlags
      /\ OwnFlags(a) = {"aggregation", "aggregation_flagchange_min", "aggregation_flagchange_max"}
  BY LimitMeans
<1>a. RunInv(t, object, a, pids, list) /\ FlagsBuiltIn(a) /\ a = "AggregatorLimits"
  OBVIOUS
<1>1. TypeInv /\ IsReady(file, "AggregatorLimits", object)
  BY DEF ReadyInv, CheckLimits
<1>2. DOMAIN u = DOMAIN t /\ \A k \in DOMAIN t : LimitRow(k) \/ (u[k] = t[k] /\ \A e \in list : e.key = k => ~OutOfRange(e.row, k))
  BY <1>1, LimitTable
<1>3. ASSUME NEW k \in DOMAIN u, Selected(u, object, a, k), ToDo(u, object, a, k)  PROVE Pending({}, pids, a, k)
  <2>1. CASE LimitRow(k)
    <3>1. PICK e \in list : u[k].control = Apply(LimitChange(e.row), e.row.control)
      BY <2>1 DEF LimitRow
    <3> DEFINE c == e.row.control
    <3>2. c \in CFlags
      BY <1>1 DEF TypeInv, IsRow, CFlags
    <3>3. LimitChange(e.row) \in {object.mFlagChangeMin, object.mFlagChangeMax}
      BY DEF LimitChange
    <3> HIDE DEF c
    <3>4. /\ {"aggregation_flagchange_min", "aggregation_flagchange_max"} \subseteq OwnFlags("AggregatorLimits")
          /\ "aggregation" \in OwnFlags("AggregatorLimits")
          /\ BuiltIn("AggregatorLimits", OwnFlags("AggregatorLimits"))
      BY <1>0 DEF FlagsBuiltIn
    <3>5. Apply(object.mFlagChangeMin, c) = Puts(c, "fr", 6) /\ Apply(object.mFlagChangeMax, c) = Puts(c, "fr", 6)
      BY ONLY <1>1, <3>2, <3>4, LimitMarks
    <3>6. u[k].control = Puts(c, "fr", 6)
      BY <3>1, <3>3, <3>5 DEF c
    <3> DEFINE d == Puts(c, "fr", 6)
    <3>7. "fr" \in ControlFlags /\ 6 \in FlagValue
      BY FlagsAssumption
    <3>8. d \in CFlags /\ d.fr = 6
      BY <3>2, <3>7 DEF CFlags, Puts
    <3>9. PatternsMatch(object.mFlags.control, d)
      <4> HIDE DEF a, d
      <4> QED  BY <1>0, <1>3, <3>6 DEF Selected, SetMatches, d
    <3> HIDE DEF d
    <3>10. d.fr # 6
      BY ONLY <1>1, <3>4, <3>8, <3>9, LimitFlags
    <3> QED  BY <3>8, <3>10
  <2>2. CASE u[k] = t[k] /\ \A e \in list : e.key = k => ~OutOfRange(e.row, k)
    <3> HIDE DEF a
    <3>1. k \in DOMAIN t /\ Selected(t, object, a, k) /\ OutAt(t, object, k)
      BY <1>0, <1>2, <1>3, <2>2 DEF Selected, OutAt
    <3>2. Pending(list, pids, a, k)
      BY <1>0, <1>a, <3>1 DEF RunInv, Undone
    <3>3. \A e \in list : e.key = k => e.row = t[k]
      BY <1>a DEF RunInv
    <3>4. OutOfRange(t[k], k)
      BY <3>1, OutMeans
    <3> QED  BY <2>2, <3>2, <3>3, <3>4 DEF Pending
  <2> QED  BY <1>2, <2>1, <2>2
<1> HIDE DEF a
<1> QED
  BY <1>3, <1>a DEF RunInv, Undone

\* and finds nothing that is out of range if nothing is left to do.
LEMMA LimitQuiet ==
  ASSUME ReadyInv, CheckLimits, RunInv(table, object, "AggregatorLimits", pids, list),
         Done(table, object, "AggregatorLimits")
  PROVE  LimitUpdates(list) = {}
<1> DEFINE updates == LimitUpdates(list)
           a == "AggregatorLimits"
<1>0. \A p, o, k : ToDo(p, o, a, k) <=> OutAt(p, o, k)
  BY LimitMeans
<1>a. RunInv(table, object, a, pids, list) /\ Done(table, object, a) /\ a # "DipTest"
  OBVIOUS
<1> HIDE DEF a
<1>1. \A e \in list : e.key \in DOMAIN table /\ e.row = table[e.key] /\ Selected(table, object, a, e.key)
  BY <1>a DEF ReadyInv, TypeInv, RunInv
<1>2. \A e \in list : ~OutAt(table, object, e.key)
  BY <1>0, <1>1, <1>a DEF Done
<1>3. \A e \in list : ~OutOfRange(e.row, e.key)
  BY <1>1, <1>2, OutMeans
<1>4. updates = {[key |-> e.key, row |-> Changed(e.row, LimitChange(e.row))] : e \in {r \in list : OutOfRange(r.row, r.key)}}
  BY DEF LimitUpdates, OutOfRange, LimitChange
<1> HIDE DEF updates
<1>5. {r \in list : OutOfRange(r.row, r.key)} = {}
  BY <1>3
<1>6. updates = {}
  BY <1>4, <1>5
<1> QED
  BY <1>6 DEF updates

\* The flags of a missing row once it is filled
LEMMA FilledFlags ==
  ASSUME NEW c \in CFlags, c.fmis \in {1, 2, 3, 4}
  PROVE  LET d == Swap(Swap(Puts(c, "ftime", 1), "fmis", 3, 1), "fmis", 2, 4)
         IN  d \in CFlags /\ d.ftime = 1 /\ d.fmis \in {1, 4}
<1> DEFINE p == Puts(c, "ftime", 1)
           q == Swap(p, "fmis", 3, 1)
           d == Swap(q, "fmis", 2, 4)
<1>1. "ftime" \in ControlFlags /\ "fmis" \in ControlFlags /\ {1, 4} \subseteq FlagValue
  BY FlagsAssumption
<1>2. p \in CFlags /\ p.ftime = 1 /\ p.fmis = c.fmis
  BY <1>1 DEF Puts, CFlags
<1> HIDE DEF p
<1>3. q \in CFlags /\ q.ftime = 1 /\ q.fmis \in {1, 2, 4}
  BY <1>1, <1>2 DEF Swap, Puts, CFlags
<1> HIDE DEF q
<1>4. d \in CFlags /\ d.ftime = 1 /\ d.fmis \in {1, 4}
  BY <1>1, <1>3 DEF Swap, Puts, CFlags
<1> QED
  BY <1>4 DEF q, p

\* and once it is emptied again.
LEMMA EmptiedFlags ==
  ASSUME NEW c \in CFlags, c.fmis \in {1, 4}
  PROVE  LET d == Swap(Swap(c, "fmis", 1, 3), "fmis", 4, 2) IN d \in CFlags /\ d.fmis \in {2, 3}
<1> DEFINE q == Swap(c, "fmis", 1, 3)
           d == Swap(q, "fmis", 4, 2)
<1>1. "fmis" \in ControlFlags /\ {2, 3} \subseteq FlagValue
  BY FlagsAssumption
<1>2. q \in CFlags /\ q.fmis \in {3, 4}
  BY <1>1 DEF Swap, Puts, CFlags
<1> HIDE DEF q
<1>3. d \in CFlags /\ d.fmis \in {2, 3}
  BY <1>1, <1>2 DEF Swap, Puts, CFlags
<1> QED
  BY <1>3 DEF q

\* What becomes of a row with the flags c and this value, between rows that are good or not and have this mean.
FillsAs(w, c, value, good, mean) ==
    IF good THEN IF c.ftime = 0 THEN w.control.ftime = 1 /\ w.control.fmis \in {1, 4} /\ w.corrected.value = mean
                 ELSE w.control = c /\ w.corrected.value = mean
    ELSE IF c.ftime = 1 THEN w.control.fmis \in {2, 3}
         ELSE w.control = c /\ w.corrected.value = value

\* A row that is read is filled, emptied or left as it is (SingleLinearAlgorithm.cc, calculateCorrected).
LEMMA RowFills ==
  ASSUME FlagsBuiltIn("SingleLinear"), IsReady(file, "SingleLinear", object), NEW r, IsRow(r),
         PatternsMatch(object.missing_flags.control, r.control), NEW i, NEW j, NEW good \in BOOLEAN,
         good <=> IsNeighborOk(table[i]) /\ IsNeighborOk(table[j])
  PROVE  LET w == Calculated(r, i, j)
         IN  /\ DOMAIN w = DOMAIN r
             /\ FillsAs(w, r.control, r.corrected.value, good, Average(table[i].original, table[j].original))
<1> DEFINE c == r.control
           mean == Average(table[i].original, table[j].original)
           m == Mean(i, j)
           w == Calculated(r, i, j)
           filled == Changed([r EXCEPT !.corrected = m], object.ftime0_flagchange)
           kept == [r EXCEPT !.corrected = m]
           back == CASE c.fmis \in {1, 3} -> Corrected("missing", Missing, {})
                     [] c.fmis \in {2, 4} -> Corrected("rejected", Rejected, {})
                     [] OTHER -> Mean(i, j)
           emptied == Changed([r EXCEPT !.corrected = back], object.ftime1_flagchange)
<1>1. DOMAIN r = {"original", "corrected", "control", "use"} /\ c \in CFlags
  BY DEF IsRow, CFlags
<1>2. m.value = mean
  BY DEF Mean, Corrected
<1>3. w = IF good THEN IF c.ftime = 0 THEN filled ELSE IF c.ftime = 1 THEN kept ELSE r
          ELSE IF c.ftime = 1 THEN emptied ELSE r
  BY DEF Calculated
<1> HIDE DEF w, m, back, mean
<1>0. /\ "missing" \in OwnFlags("SingleLinear") /\ {"ftime0_flagchange"} \subseteq OwnFlags("SingleLinear")
      /\ {"ftime1_flagchange"} \subseteq OwnFlags("SingleLinear")
      /\ BuiltIn("SingleLinear", OwnFlags("SingleLinear"))
  BY FillMeans DEF FlagsBuiltIn
<1>4. (c.ftime = 0 /\ c.fmis \in {1, 2, 3, 4}) \/ (c.ftime = 1 /\ c.fmis \in {1, 4})
  <2> HIDE DEF c
  <2>1. PatternsMatch(object.missing_flags.control, c)
    BY DEF c
  <2> QED
    BY ONLY <1>0, <1>1, <2>1, MissingFlags, IsReady(file, "SingleLinear", object)
<1>5. DOMAIN filled = DOMAIN r /\ filled.corrected = m /\ filled.control = Apply(object.ftime0_flagchange, c)
  <2> DEFINE p == [r EXCEPT !.corrected = m]
             d == Apply(object.ftime0_flagchange, c)
             use == UseInfo(d)
  <2>1. DOMAIN p = DOMAIN r /\ p.corrected = m /\ p.control = c
    BY <1>1
  <2>2. filled = [p EXCEPT !.control = Apply(object.ftime0_flagchange, p.control),
                            !.use = UseInfo(Apply(object.ftime0_flagchange, p.control))]
    BY DEF Changed, WithControl
  <2> HIDE DEF p, filled, c
  <2>3. filled = [p EXCEPT !.control = d, !.use = use]
    BY <2>1, <2>2
  <2> HIDE DEF d, use
  <2>4. DOMAIN filled = DOMAIN p /\ filled.corrected = p.corrected /\ filled.control = d
    BY <1>1, <2>1, <2>3
  <2> QED  BY <2>1, <2>4 DEF d
<1>6. DOMAIN emptied = DOMAIN r /\ emptied.control = Apply(object.ftime1_flagchange, c)
  <2> DEFINE p == [r EXCEPT !.corrected = back]
             d == Apply(object.ftime1_flagchange, c)
             use == UseInfo(d)
  <2>1. DOMAIN p = DOMAIN r /\ p.control = c
    BY <1>1
  <2>2. emptied = [p EXCEPT !.control = Apply(object.ftime1_flagchange, p.control),
                             !.use = UseInfo(Apply(object.ftime1_flagchange, p.control))]
    BY DEF Changed, WithControl
  <2> HIDE DEF p, emptied, c
  <2>3. emptied = [p EXCEPT !.control = d, !.use = use]
    BY <2>1, <2>2
  <2> HIDE DEF d, use
  <2>4. DOMAIN emptied = DOMAIN p /\ emptied.control = d
    BY <1>1, <2>1, <2>3
  <2> QED  BY <2>1, <2>4 DEF d
<1>7. DOMAIN kept = DOMAIN r /\ kept.corrected = m /\ kept.control = c
  BY <1>1
<1> HIDE DEF filled, emptied, kept, c
<1>8. ASSUME c.ftime = 0  PROVE filled.control.ftime = 1 /\ filled.control.fmis \in {1, 4}
  <2>1. filled.control = Swap(Swap(Puts(c, "ftime", 1), "fmis", 3, 1), "fmis", 2, 4)
    BY ONLY <1>0, <1>1, <1>5, FillMarks, IsReady(file, "SingleLinear", object)
  <2>2. c.fmis \in {1, 2, 3, 4}
    BY <1>4
  <2> QED  BY ONLY <1>1, <2>1, <2>2, FilledFlags
<1>9. ASSUME c.ftime = 1  PROVE emptied.control.fmis \in {2, 3}
  <2>1. emptied.control = Swap(Swap(c, "fmis", 1, 3), "fmis", 4, 2)
    BY ONLY <1>0, <1>1, <1>6, EmptyMarks, IsReady(file, "SingleLinear", object)
  <2>2. c.fmis \in {1, 4}
    BY <1>4, <1>9
  <2> QED  BY ONLY <1>1, <2>1, <2>2, EmptiedFlags
<1>10. DOMAIN w = DOMAIN r
  BY <1>3, <1>5, <1>6, <1>7
<1>11. FillsAs(w, c, r.corrected.value, good, mean)
  <2>1. CASE good /\ c.ftime = 0
    BY <1>2, <1>3, <1>5, <1>8, <2>1 DEF FillsAs
  <2>2. CASE good /\ c.ftime = 1
    BY <1>2, <1>3, <1>7, <2>2 DEF FillsAs
  <2>3. CASE ~good /\ c.ftime = 1
    BY <1>3, <1>9, <2>3 DEF FillsAs
  <2>4. CASE ~good /\ c.ftime = 0
    BY <1>3, <2>4 DEF FillsAs, c
  <2> QED  BY <1>4, <2>1, <2>2, <2>3, <2>4
<1> QED
  BY <1>10, <1>11 DEF w, c, mean

\* The rows within an hour of one.
Hours(k) == SeriesOf(k, k.time - 60, k.time + 60)

\* They are in the table, and the same for every table that has rows at these times.
LEMMA HoursAround ==
  ASSUME TypeInv, NEW k \in DOMAIN table
  PROVE  /\ Hours(k) = SeriesIn(DOMAIN table, k, k.time - 60, k.time + 60)
         /\ Len(Hours(k)) \in Nat /\ \A n \in 1 .. Len(Hours(k)) : Hours(k)[n] \in DOMAIN table
<1> DEFINE t0 == k.time - 60
           t1 == k.time + 60
           S == Beside(k, t0, t1)
           s == Hours(k)
<1>1. t0 \in Int /\ t1 \in Int
  BY DEF TypeInv, RowsTyped, Key
<1>2. s = SeriesOf(k, t0, t1)
  BY DEF Hours
<1>3. S = {j \in DOMAIN table : /\ j.pid = k.pid /\ j.aggregated = k.aggregated /\ j.sensor = k.sensor
                                /\ t0 <= j.time /\ j.time <= t1}
  BY DEF Beside, Between
<1>4. SeriesIn(DOMAIN table, k, t0, t1) = InOrder(S)
  BY <1>3 DEF SeriesIn
<1> HIDE DEF t0, t1
<1>5. OneSeries(S) /\ s = InOrder(S)
  <2>1. RowsTyped
    BY DEF TypeInv
  <2> QED  BY <1>1, <1>2, <2>1, RowsBeside
<1> HIDE DEF S, s
<1>6. s \in Seq(S) /\ S \subseteq DOMAIN table
  BY <1>3, <1>5, Ordered
<1>7. Len(s) \in Nat /\ \A n \in 1 .. Len(s) : s[n] \in DOMAIN table
  BY <1>6
<1> QED
  BY <1>4, <1>5, <1>7 DEF s, t0, t1

\* Which rows are to be filled.
LEMMA FillsIs ==
  ASSUME TypeInv, NEW k \in DOMAIN table, NEW u, NEW o, DOMAIN u = DOMAIN table
  PROVE  FillsAt(u, o, k) <=> Len(Hours(k)) = 3 /\ FillsBetween(u, o, k, Hours(k)[1], Hours(k)[3])
<1>1. Hours(k) = SeriesIn(DOMAIN u, k, k.time - 60, k.time + 60)
  BY HoursAround
<1> QED
  BY <1>1 DEF FillsAt

\* It depends on the flags of the row and on its value, and on which rows around it are good.
LEMMA FillsSame ==
  ASSUME TypeInv, NEW k \in DOMAIN table, NEW u, NEW o, DOMAIN u = DOMAIN table,
         \A i \in DOMAIN table : u[i].original = table[i].original /\ (IsGood(u, o, i) <=> IsGood(table, o, i)),
         u[k] = table[k]
  PROVE  FillsAt(u, o, k) <=> FillsAt(table, o, k)
<1> DEFINE s == Hours(k)
           i == s[1]
           j == s[3]
<1>1. /\ FillsAt(u, o, k) <=> Len(s) = 3 /\ FillsBetween(u, o, k, i, j)
      /\ FillsAt(table, o, k) <=> Len(s) = 3 /\ FillsBetween(table, o, k, i, j)
  BY FillsIs
<1>2. Len(s) = 3 => i \in DOMAIN table /\ j \in DOMAIN table
  <2>1. \A n \in 1 .. Len(s) : s[n] \in DOMAIN table
    BY HoursAround
  <2> HIDE DEF s
  <2>2. Len(s) = 3 => 1 \in 1 .. Len(s) /\ 3 \in 1 .. Len(s)
    OBVIOUS
  <2> QED  BY <2>1, <2>2
<1> HIDE DEF i, j, s
<1>3. ASSUME i \in DOMAIN table, j \in DOMAIN table
      PROVE  FillsBetween(u, o, k, i, j) <=> FillsBetween(table, o, k, i, j)
  BY <1>3 DEF FillsBetween
<1> QED
  BY <1>1, <1>2, <1>3

\* A row that is read is no good neighbour.
LEMMA MissingNotGood ==
  ASSUME FlagsBuiltIn("SingleLinear"), IsReady(file, "SingleLinear", object), NEW u, NEW k,
         u[k].control \in CFlags, u[k].control.fmis # 0
  PROVE  ~IsGood(u, object, k)
<1> DEFINE c == u[k].control
<1>1. "neighbor" \in OwnFlags("SingleLinear") /\ BuiltIn("SingleLinear", OwnFlags("SingleLinear"))
  BY FillMeans DEF FlagsBuiltIn
<1>2. IsGood(u, object, k) => PatternsMatch(object.neighbor_flags.control, c)
  BY DEF IsGood, SetMatches
<1>3. c \in CFlags /\ c.fmis # 0
  OBVIOUS
<1> HIDE DEF c
<1>4. PatternsMatch(object.neighbor_flags.control, c) <=> c.fmis = 0
  BY ONLY <1>1, <1>3, NeighborFlags, IsReady(file, "SingleLinear", object)
<1> QED
  BY <1>2, <1>3, <1>4

\* What a row that is selected looks like.
LEMMA SelectedMissing ==
  ASSUME FlagsBuiltIn("SingleLinear"), IsReady(file, "SingleLinear", object), NEW u, NEW k,
         u[k].control \in CFlags, Selected(u, object, "SingleLinear", k)
  PROVE  /\ PatternsMatch(object.missing_flags.control, u[k].control)
         /\ \/ u[k].control.ftime = 0 /\ u[k].control.fmis \in {1, 2, 3, 4}
            \/ u[k].control.ftime = 1 /\ u[k].control.fmis \in {1, 4}
<1> DEFINE c == u[k].control
<1>1. /\ "missing" \in OwnFlags("SingleLinear") /\ BuiltIn("SingleLinear", OwnFlags("SingleLinear"))
      /\ \A o : FlagsOf(o, "SingleLinear") = o.missing_flags
  BY FillMeans DEF FlagsBuiltIn
<1>2. PatternsMatch(object.missing_flags.control, c)
  BY <1>1 DEF Selected, SetMatches
<1>3. c \in CFlags
  OBVIOUS
<1> HIDE DEF c
<1>4. (c.ftime = 0 /\ c.fmis \in {1, 2, 3, 4}) \/ (c.ftime = 1 /\ c.fmis \in {1, 4})
  BY ONLY <1>1, <1>2, <1>3, MissingFlags, IsReady(file, "SingleLinear", object)
<1> QED
  BY <1>2, <1>4 DEF c

\* A row that is as it would be filled is not written; one that is not is, and not again.
LEMMA FillDone ==
  ASSUME NEW c, NEW r, NEW w, c = r.control, NEW good \in BOOLEAN, NEW mean, FillsAs(w, c, r.corrected.value, good, mean),
         (c.ftime = 0 /\ c.fmis \in {1, 2, 3, 4}) \/ (c.ftime = 1 /\ c.fmis \in {1, 4})
  PROVE  /\ NeedsWrite(r, w) <=> IF good THEN c.ftime = 0 \/ (c.ftime = 1 /\ r.corrected.value # mean) ELSE c.ftime = 1
         /\ NeedsWrite(r, w) => /\ w.control.fmis # 0
                                /\ good => w.control.ftime = 1 /\ w.corrected.value = mean
                                /\ ~good => w.control.fmis \in {2, 3}
<1>1. CASE good /\ c.ftime = 0
  BY <1>1 DEF FillsAs, NeedsWrite
<1>2. CASE good /\ c.ftime = 1
  BY <1>2 DEF FillsAs, NeedsWrite
<1>3. CASE ~good /\ c.ftime = 1
  BY <1>3 DEF FillsAs, NeedsWrite
<1>4. CASE ~good /\ c.ftime = 0
  BY <1>4 DEF FillsAs, NeedsWrite
<1> QED
  BY <1>1, <1>2, <1>3, <1>4

\* A row is written if it is to be filled, and has then nothing left to do.
LEMMA FillNow ==
  ASSUME FlagsBuiltIn("SingleLinear"), TypeInv, TypeInv', IsReady(file, "SingleLinear", object),
         NEW e \in list, FillMissing(e), e.row = table[e.key], Selected(table, object, "SingleLinear", e.key)
  PROVE  /\ FillUpdates(e) # {} <=> FillsAt(table, object, e.key)
         /\ FillUpdates(e) # {} =>
               /\ table'[e.key].original = table[e.key].original
               /\ ~IsGood(table', object, e.key)
               /\ Selected(table', object, "SingleLinear", e.key) => ~FillsAt(table', object, e.key)
<1> DEFINE k == e.key
           r == table[k]
           c == r.control
           s == Hours(k)
           i == s[1]
           j == s[3]
           w == FillRow(e)
           mean == Average(table[i].original, table[j].original)
           good == IsNeighborOk(table[i]) /\ IsNeighborOk(table[j])
<1>1. k \in DOMAIN table /\ IsRow(r) /\ c \in CFlags
  BY DEF TypeInv, RowsTyped, IsRow, CFlags
<1>2. /\ PatternsMatch(object.missing_flags.control, c)
      /\ (c.ftime = 0 /\ c.fmis \in {1, 2, 3, 4}) \/ (c.ftime = 1 /\ c.fmis \in {1, 4})
  BY <1>1, SelectedMissing
<1>3. w = Calculated(r, i, j)
  BY DEF FillRow, Hours
<1>g. good \in BOOLEAN
  OBVIOUS
<1>4. DOMAIN w = DOMAIN r /\ FillsAs(w, c, r.corrected.value, good, mean)
  <2> DEFINE x == r
             l == i
             n == j
             yes == good
  <2>1. IsRow(x) /\ PatternsMatch(object.missing_flags.control, x.control)
    BY <1>1, <1>2
  <2>2. yes \in BOOLEAN /\ (yes <=> IsNeighborOk(table[l]) /\ IsNeighborOk(table[n]))
    OBVIOUS
  <2> HIDE DEF x, l, n, yes
  <2>3. /\ DOMAIN Calculated(x, l, n) = DOMAIN x
        /\ FillsAs(Calculated(x, l, n), x.control, x.corrected.value, yes, Average(table[l].original, table[n].original))
    BY ONLY <2>1, <2>2, RowFills, FlagsBuiltIn("SingleLinear"), IsReady(file, "SingleLinear", object)
  <2> QED  BY <1>3, <2>3 DEF x, l, n, yes
<1>5. /\ FillsAt(table, object, k) <=> Len(s) = 3 /\ FillsBetween(table, object, k, i, j)
      /\ DOMAIN table' = DOMAIN table =>
            (FillsAt(table', object, k) <=> Len(s) = 3 /\ FillsBetween(table', object, k, i, j))
  BY <1>1, FillsIs
<1>6. Len(s) = 3 => i \in DOMAIN table /\ j \in DOMAIN table
  <2>1. \A n \in 1 .. Len(s) : s[n] \in DOMAIN table
    BY <1>1, HoursAround
  <2> HIDE DEF s
  <2>2. Len(s) = 3 => 1 \in 1 .. Len(s) /\ 3 \in 1 .. Len(s)
    OBVIOUS
  <2> QED  BY <2>1, <2>2
<1>7. good <=> IsGood(table, object, i) /\ IsGood(table, object, j)
  BY DEF IsNeighborOk, IsGood
<1>8. FillUpdates(e) # {} <=> Len(s) = 3 /\ NeedsWrite(r, w)
  BY DEF FillUpdates, FillRow, Hours
<1>t. /\ DOMAIN table' = DOMAIN table /\ \A d \in DOMAIN table : d # k => table'[d] = table[d]
      /\ FillUpdates(e) # {} => table'[k] = [w EXCEPT !.original = table[k].original]
  BY FillTable
<1>9. FillsBetween(table, object, k, i, j) <=>
         IF IsGood(table, object, i) /\ IsGood(table, object, j)
         THEN c.ftime = 0 \/ (c.ftime = 1 /\ r.corrected.value # mean)
         ELSE c.ftime = 1
  BY DEF FillsBetween
<1> DEFINE v == r.corrected.value
<1>10. /\ NeedsWrite(r, w) <=> IF good THEN c.ftime = 0 \/ (c.ftime = 1 /\ v # mean) ELSE c.ftime = 1
       /\ NeedsWrite(r, w) => /\ w.control.fmis # 0
                              /\ good => w.control.ftime = 1 /\ w.corrected.value = mean
                              /\ ~good => w.control.fmis \in {2, 3}
  <2> DEFINE yes == good
  <2>1. yes \in BOOLEAN /\ c = r.control /\ v = r.corrected.value /\ FillsAs(w, c, r.corrected.value, yes, mean)
    BY <1>4
  <2> HIDE DEF yes, c, r, w, mean, v
  <2>2. /\ NeedsWrite(r, w) <=> IF yes THEN c.ftime = 0 \/ (c.ftime = 1 /\ r.corrected.value # mean) ELSE c.ftime = 1
        /\ NeedsWrite(r, w) => /\ w.control.fmis # 0
                               /\ yes => w.control.ftime = 1 /\ w.corrected.value = mean
                               /\ ~yes => w.control.fmis \in {2, 3}
    BY ONLY <1>2, <2>1, FillDone
  <2> QED  BY <2>1, <2>2 DEF yes
<1>11. FillUpdates(e) # {} <=> FillsAt(table, object, k)
  <2> HIDE DEF good, s, i, j, w, mean, c, v, r, k
  <2> QED  BY <1>5, <1>7, <1>8, <1>9, <1>10 DEF v
<1>12. ASSUME FillUpdates(e) # {}
       PROVE  /\ table'[k].original = table[k].original
              /\ ~IsGood(table', object, k)
              /\ Selected(table', object, "SingleLinear", k) => ~FillsAt(table', object, k)
  <2>1. NeedsWrite(r, w) /\ Len(s) = 3
    BY <1>8, <1>12
  <2>2. /\ table'[k].original = table[k].original /\ table'[k].control = w.control
        /\ table'[k].corrected = w.corrected
    <3> DEFINE x == table[k].original
               d == [w EXCEPT !.original = x]
    <3>1. DOMAIN w = {"original", "corrected", "control", "use"}
      BY <1>1, <1>4 DEF IsRow
    <3>2. table'[k] = d
      BY <1>12, <1>t
    <3> HIDE DEF w, x
    <3>3. d.original = x /\ d.control = w.control /\ d.corrected = w.corrected
      BY <3>1
    <3> QED  BY <3>2, <3>3 DEF x
  <2>3. table'[k].control \in CFlags
    BY <1>1, <1>t DEF TypeInv, RowsTyped, IsRow, CFlags
  <2> DEFINE u == table'
  <2>4. u[k].control = w.control /\ u[k].corrected = w.corrected /\ u[k].control \in CFlags
    BY <2>2, <2>3
  <2> HIDE DEF u, k, w, good, s, i, j, mean, c, v, r
  <2>5. u[k].control.fmis # 0
    BY <1>10, <2>1, <2>4
  <2>6. ~IsGood(u, object, k)
    BY ONLY <2>4, <2>5, MissingNotGood, FlagsBuiltIn("SingleLinear"), IsReady(file, "SingleLinear", object)
  <2>7. ASSUME Selected(u, object, "SingleLinear", k), FillsAt(u, object, k)  PROVE FALSE
    <3>1. FillsBetween(u, object, k, i, j) /\ i \in DOMAIN table /\ j \in DOMAIN table
      BY <1>5, <1>6, <1>t, <2>1, <2>7 DEF u
    <3>2. \/ u[k].control.ftime = 0 /\ u[k].control.fmis \in {1, 2, 3, 4}
          \/ u[k].control.ftime = 1 /\ u[k].control.fmis \in {1, 4}
      BY ONLY <2>4, <2>7, SelectedMissing, FlagsBuiltIn("SingleLinear"), IsReady(file, "SingleLinear", object)
    <3>3. ~IsGood(table, object, k)
      <4>1. table[k].control \in CFlags /\ table[k].control.fmis # 0
        BY <1>1, <1>2 DEF c, r
      <4> QED  BY ONLY <4>1, MissingNotGood, FlagsBuiltIn("SingleLinear"), IsReady(file, "SingleLinear", object)
    <3>4. \A n \in DOMAIN table : n # k => u[n] = table[n]
      BY <1>t DEF u
    <3>5. \A n \in DOMAIN table : IsGood(u, object, n) <=> IsGood(table, object, n)
      <4>1. ASSUME NEW n \in DOMAIN table  PROVE IsGood(u, object, n) <=> IsGood(table, object, n)
        <5>1. CASE n = k
          BY <2>6, <3>3, <5>1
        <5>2. CASE n # k
          BY <3>4, <5>2 DEF IsGood
        <5> QED  BY <5>1, <5>2
      <4> QED  BY <4>1
    <3>6. \A n \in DOMAIN table : u[n].original = table[n].original
      BY <2>2, <3>4 DEF u
    <3>7. CASE good
      <4>1. u[k].control.ftime = 1 /\ u[k].corrected.value = mean
        BY <1>10, <2>1, <2>4, <3>7
      <4>2. IsGood(u, object, i) /\ IsGood(u, object, j)
        BY <1>7, <3>1, <3>5, <3>7
      <4>3. mean = Average(u[i].original, u[j].original)
        BY <3>1, <3>6 DEF mean
      <4> QED  BY <3>1, <4>1, <4>2, <4>3 DEF FillsBetween
    <3>8. CASE ~good
      <4>1. u[k].control.fmis \in {2, 3}
        BY <1>10, <2>1, <2>4, <3>8
      <4>2. u[k].control.ftime # 1
        BY <3>2, <4>1
      <4>3. ~(IsGood(u, object, i) /\ IsGood(u, object, j))
        BY <1>7, <3>1, <3>5, <3>8
      <4> QED  BY <3>1, <4>2, <4>3 DEF FillsBetween
    <3> QED  BY <3>7, <3>8
  <2> QED  BY <2>2, <2>6, <2>7 DEF u
<1> QED
  BY <1>11, <1>12

\* Filling one row leaves nothing else to do than there was.
LEMMA FillKept ==
  ASSUME FlagsBuiltIn("SingleLinear"), ReadyInv, TypeInv', NEW e \in list, FillMissing(e),
         RunInv(table, object, "SingleLinear", pids, list)
  PROVE  RunInv(table', object, "SingleLinear", pids, list \ {e})
<1> DEFINE a == "SingleLinear"
           k == e.key
           u == table'
           rest == list \ {e}
<1>0. /\ \A p, o, d : ToDo(p, o, a, d) <=> FillsAt(p, o, d)
      /\ a # "DipTest"
  BY FillMeans
<1>1. TypeInv /\ IsReady(file, "SingleLinear", object)
  BY DEF ReadyInv, FillMissing, Looked
<1>2. e.row = table[k] /\ Selected(table, object, a, k) /\ k \in DOMAIN table
  BY <1>1 DEF RunInv, TypeInv
<1>3. /\ FillUpdates(e) # {} <=> FillsAt(table, object, k)
      /\ FillUpdates(e) # {} => /\ u[k].original = table[k].original /\ ~IsGood(u, object, k)
                                /\ Selected(u, object, a, k) => ~FillsAt(u, object, k)
  BY <1>1, <1>2, FillNow
<1>4. /\ DOMAIN u = DOMAIN table /\ \A d \in DOMAIN table : d # k => u[d] = table[d]
      /\ FillUpdates(e) = {} => u[k] = table[k]
  BY <1>1, FillTable
<1>5. ~IsGood(table, object, k)
  <2>1. table[k].control \in CFlags
    BY <1>1, <1>2 DEF TypeInv, RowsTyped, IsRow, CFlags
  <2>2. table[k].control.fmis # 0
    BY <1>1, <1>2, <2>1, SelectedMissing
  <2> QED  BY <1>1, <2>1, <2>2, MissingNotGood
<1>a. RunInv(table, object, a, pids, list)
  OBVIOUS
<1> HIDE DEF a, k, u
<1>6. \A d \in DOMAIN table : u[d].original = table[d].original /\ (IsGood(u, object, d) <=> IsGood(table, object, d))
  <2>1. ASSUME NEW d \in DOMAIN table  PROVE u[d].original = table[d].original /\ (IsGood(u, object, d) <=> IsGood(table, object, d))
    <3>1. CASE u[d] = table[d]
      BY <3>1 DEF IsGood
    <3>2. CASE u[d] # table[d]
      BY <1>3, <1>4, <1>5, <3>2
    <3> QED  BY <3>1, <3>2
  <2> QED  BY <2>1
<1>7. ASSUME NEW d \in DOMAIN u, Selected(u, object, a, d), ToDo(u, object, a, d)  PROVE Pending(rest, pids, a, d)
  <2>1. d \in DOMAIN table /\ FillsAt(u, object, d)
    BY <1>0, <1>4, <1>7
  <2>2. u[d] = table[d]
    BY <1>3, <1>4, <1>7, <2>1 DEF a
  <2>3. FillsAt(table, object, d)
    BY <1>1, <1>4, <1>6, <2>1, <2>2, FillsSame
  <2>4. Selected(table, object, a, d)
    BY <1>7, <2>2 DEF Selected
  <2>5. d # k
    BY <1>3, <1>7, <2>1, <2>3 DEF a
  <2>6. Pending(list, pids, a, d)
    BY <1>0, <1>a, <2>1, <2>3, <2>4 DEF RunInv, Undone
  <2>7. \A x \in list : x.key = d => x \in rest
    BY <2>5 DEF k
  <2> HIDE DEF rest
  <2> QED  BY <2>6, <2>7 DEF Pending
<1>8. ASSUME NEW x \in rest  PROVE x.row.original = u[x.key].original /\ x.row = u[x.key] /\ Selected(u, object, a, x.key)
  <2>1. x.row = table[x.key] /\ Selected(table, object, a, x.key) /\ x.key \in DOMAIN table
    BY <1>0, <1>1, <1>a DEF RunInv, TypeInv
  <2>2. x.key # k
    BY <1>a DEF RunInv, k
  <2>3. u[x.key] = table[x.key]
    BY <1>4, <2>1, <2>2
  <2> QED  BY <2>1, <2>3 DEF Selected
<1>9. Undone(u, object, a, pids, rest)
  BY <1>7 DEF Undone
<1>10. /\ List(pids) /\ (a # "AggregatorLimits" => ToSet(pids) \subseteq PidsOf(object, a))
       /\ \A d, x \in rest : d.key = x.key => d = x
  BY <1>a DEF RunInv
<1>11. RunInv(u, object, a, pids, rest)
  <2> HIDE DEF rest
  <2> QED  BY <1>8, <1>9, <1>10 DEF RunInv
<1> QED
  BY <1>11 DEF a, u

\* and nothing is written if nothing was left to do.
LEMMA FillQuiet ==
  ASSUME FlagsBuiltIn("SingleLinear"), ReadyInv, TypeInv', NEW e \in list, FillMissing(e),
         RunInv(table, object, "SingleLinear", pids, list), Done(table, object, "SingleLinear")
  PROVE  FillUpdates(e) = {}
<1> DEFINE a == "SingleLinear"
<1>0. (\A p, o, d : ToDo(p, o, a, d) <=> FillsAt(p, o, d)) /\ a # "DipTest"
  BY FillMeans
<1>1. TypeInv /\ IsReady(file, "SingleLinear", object)
  BY DEF ReadyInv, FillMissing, Looked
<1>2. e.row = table[e.key] /\ Selected(table, object, a, e.key) /\ e.key \in DOMAIN table
  BY <1>1 DEF RunInv, TypeInv
<1>3. ~FillsAt(table, object, e.key)
  BY <1>0, <1>2 DEF Done
<1> QED
  BY <1>1, <1>2, <1>3, FillNow

\* What DipTest writes it marks, and it leaves the original values alone.
LEMMA DipMarked ==
  ASSUME FlagsBuiltIn("DipTest"), ReadyInv, NEW e \in list, NEW curve, CheckDip(e, curve)
  PROVE  /\ DOMAIN table' = DOMAIN table
         /\ \A d \in DOMAIN table : /\ table'[d].original = table[d].original
                                    /\ table'[d] = table[d] \/ table'[d].control.fs \in {4, 9}
         /\ DipsAround(e) # {} => table'[e.key].control.fs \in {4, 9}
<1>0. /\ {"dip_flagchange"} \subseteq OwnFlags("DipTest") /\ {"afterdip_flagchange"} \subseteq OwnFlags("DipTest")
      /\ BuiltIn("DipTest", OwnFlags("DipTest"))
  BY DipMeans DEF FlagsBuiltIn
<1>1. TypeInv /\ IsReady(file, "DipTest", object) /\ e.key \in DOMAIN table
  BY DEF ReadyInv, CheckDip, Looked, TypeInv
<1>2. /\ DOMAIN table' = DOMAIN table
      /\ \A d \in DOMAIN table : DipNone(e, d) \/ DipOwn(e, d) \/ DipBehind(e, d)
  BY <1>1, DipTable
<1>f. "fs" \in ControlFlags
  BY FlagsAssumption
<1>3. ASSUME NEW d \in DOMAIN table, DipOwn(e, d)
      PROVE  table'[d].original = table[d].original /\ table'[d].control.fs = 9
  <2> DEFINE c == e.row.control
  <2>1. c \in CFlags
    BY <1>1 DEF TypeInv, IsRow, CFlags
  <2>2. table'[d].control = Apply(object.dip_flagchange, c) /\ table'[d].original = table[d].original
    BY <1>3 DEF DipOwn
  <2> HIDE DEF c
  <2>3. Apply(object.dip_flagchange, c) = Puts(c, "fs", 9)
    BY ONLY <1>0, <1>1, <2>1, DipMarks
  <2>4. Puts(c, "fs", 9)["fs"] = 9
    BY <1>f, <2>1, PutsOther
  <2> QED  BY <2>2, <2>3, <2>4
<1>4. ASSUME NEW d \in DOMAIN table, DipBehind(e, d)
      PROVE  table'[d].original = table[d].original /\ table'[d].control.fs = 4
  <2> DEFINE c == table[d].control
  <2>1. c \in CFlags
    BY <1>1 DEF TypeInv, RowsTyped, IsRow, CFlags
  <2>2. table'[d].control = Apply(object.afterdip_flagchange, c) /\ table'[d].original = table[d].original
    BY <1>4 DEF DipBehind
  <2> HIDE DEF c
  <2>3. Apply(object.afterdip_flagchange, c) = Puts(c, "fs", 4)
    BY ONLY <1>0, <1>1, <2>1, AfterDipMarks
  <2>4. Puts(c, "fs", 4)["fs"] = 4
    BY <1>f, <2>1, PutsOther
  <2> QED  BY <2>2, <2>3, <2>4
<1>5. ASSUME NEW d \in DOMAIN table
      PROVE  /\ table'[d].original = table[d].original
             /\ table'[d] = table[d] \/ table'[d].control.fs \in {4, 9}
  BY <1>2, <1>3, <1>4 DEF DipNone
<1>6. ASSUME DipsAround(e) # {}  PROVE table'[e.key].control.fs \in {4, 9}
  <2>1. ~DipNone(e, e.key)
    BY <1>6 DEF DipNone
  <2> QED  BY <1>1, <1>2, <1>3, <1>4, <2>1
<1> QED
  BY <1>2, <1>5, <1>6

\* Which rows are dips.
LEMMA DipsIs ==
  ASSUME TypeInv, NEW k \in DOMAIN table, NEW u, NEW o, DOMAIN u = DOMAIN table
  PROVE  DipsAt(u, o, k) <=>
           /\ ~(k.time - 60 < o.window[1] \/ k.time + 60 > o.window[2])
           /\ \E n \in 2 .. Len(Hours(k)) - 1 : Hours(k)[n] = k /\ DipBetween(u, o, k, Hours(k)[n - 1], Hours(k)[n + 1])
<1>1. Hours(k) = SeriesIn(DOMAIN u, k, k.time - 60, k.time + 60)
  BY HoursAround
<1> QED
  BY <1>1 DEF DipsAt

\* DipTest finds them (DipTestAlgorithm.cc, checkNeighbours).
LEMMA DipsFound ==
  ASSUME TypeInv, NEW e, e.key \in DOMAIN table, e.row.original = table[e.key].original
  PROVE  DipsAround(e) # {} <=> DipsAt(table, object, e.key)
<1> DEFINE k == e.key
           s == Hours(k)
           outside0 == k.time - 60 < ut0 \/ k.time + 60 > ut1
           D(i, j) == DipBetween(table, object, k, i, j)
<1>1. \A i, j : IsDip(e, i, j) <=> D(i, j)
  <2>1. \A i : Difference(e.row, table[i]) = Difference(table[k], table[i])
    BY DEF Difference
  <2>2. DeltaOf(k.pid) = 10 * ((CHOOSE d \in ToSet(object.PidValMap) : d.pid = k.pid).delta \div 10)
    BY DEF DeltaOf
  <2> QED  BY <2>1, <2>2 DEF IsDip, DipBetween
<1>2. DipsAt(table, object, k) <=> ~outside0 /\ \E n \in 2 .. Len(s) - 1 : s[n] = k /\ D(s[n - 1], s[n + 1])
  BY DipsIs DEF ut0, ut1
<1>3. DipSeries(e) = IF outside0 THEN <<>> ELSE s
  BY DEF DipSeries, Hours
<1>4. Surroundings(e) = {<<DipSeries(e)[i - 1], DipSeries(e)[i + 1]>> : i \in {j \in 2 .. Len(DipSeries(e)) - 1 : DipSeries(e)[j] = k}}
  BY DEF Surroundings
<1>5. DipsAround(e) = {around \in Surroundings(e) : D(around[1], around[2])}
  BY <1>1 DEF DipsAround
<1> HIDE DEF k, s, outside0, D
<1>6. CASE outside0
  <2>1. DipSeries(e) = <<>> /\ 2 .. Len(<<>>) - 1 = {}
    BY <1>3, <1>6
  <2>2. Surroundings(e) = {}
    BY <1>4, <2>1
  <2> QED  BY <1>2, <1>5, <1>6, <2>2 DEF k
<1>7. CASE ~outside0
  <2>1. Surroundings(e) = {<<s[i - 1], s[i + 1]>> : i \in {j \in 2 .. Len(s) - 1 : s[j] = k}}
    BY <1>3, <1>4, <1>7
  <2>2. ASSUME DipsAround(e) # {}  PROVE DipsAt(table, object, k)
    <3>1. PICK around \in Surroundings(e) : D(around[1], around[2])
      BY <1>5, <2>2
    <3>2. PICK n \in 2 .. Len(s) - 1 : s[n] = k /\ around = <<s[n - 1], s[n + 1]>>
      BY <2>1
    <3>3. around[1] = s[n - 1] /\ around[2] = s[n + 1]
      BY <3>2
    <3> QED  BY <1>2, <1>7, <3>1, <3>2, <3>3
  <2>3. ASSUME DipsAt(table, object, k)  PROVE DipsAround(e) # {}
    <3>1. PICK n \in 2 .. Len(s) - 1 : s[n] = k /\ D(s[n - 1], s[n + 1])
      BY <1>2, <2>3
    <3> DEFINE around == <<s[n - 1], s[n + 1]>>
    <3>2. around \in Surroundings(e)
      BY <2>1, <3>1
    <3>3. around[1] = s[n - 1] /\ around[2] = s[n + 1]
      OBVIOUS
    <3> HIDE DEF around
    <3> QED  BY <1>5, <3>1, <3>2, <3>3
  <2> QED  BY <2>2, <2>3 DEF k
<1> QED
  BY <1>6, <1>7

\* What is marked is neither a candidate nor next to one.
LEMMA DipFlags ==
  ASSUME FlagsBuiltIn("DipTest"), IsReady(file, "DipTest", object), NEW row, row.control \in CFlags, row.control.fs \in {4, 9}
  PROVE  /\ ~SetMatches(object.candidate_flags, row) /\ ~SetMatches(object.dip_before_flags, row)
         /\ ~SetMatches(object.dip_after_flags, row)
<1> DEFINE c == row.control
<1>0. /\ "candidate" \in OwnFlags("DipTest") /\ "dip_before" \in OwnFlags("DipTest") /\ "dip_after" \in OwnFlags("DipTest")
      /\ BuiltIn("DipTest", OwnFlags("DipTest"))
  BY DipMeans DEF FlagsBuiltIn
<1>1. c \in CFlags /\ c.fs # 2 /\ c.fs # 1
  OBVIOUS
<1>2. \A s : SetMatches(s, row) => PatternsMatch(s.control, c)
  BY DEF SetMatches
<1> HIDE DEF c
<1>3. PatternsMatch(object.candidate_flags.control, c) <=> c.fs = 2 /\ c.fhqc = 0
  BY ONLY <1>0, <1>1, CandidateFlags, IsReady(file, "DipTest", object)
<1>4. PatternsMatch(object.dip_before_flags.control, c) <=> c.fs = 1
  BY ONLY <1>0, <1>1, BeforeFlags, IsReady(file, "DipTest", object)
<1>5. PatternsMatch(object.dip_after_flags.control, c) <=> c.fs = 2 /\ c.fhqc = 0
  BY ONLY <1>0, <1>1, AfterFlags, IsReady(file, "DipTest", object)
<1> QED
  BY <1>1, <1>2, <1>3, <1>4, <1>5

\* Correcting one dip leaves nothing else to do than there was.
LEMMA DipKept ==
  ASSUME FlagsBuiltIn("DipTest"), ReadyInv, TypeInv', NEW e \in list, NEW curve, CheckDip(e, curve),
         RunInv(table, object, "DipTest", pids, list)
  PROVE  RunInv(table', object, "DipTest", pids, list \ {e})
<1> DEFINE a == "DipTest"
           k == e.key
           u == table'
           o == object
           rest == list \ {e}
<1>0. (\A p, q, d : ToDo(p, q, a, d) <=> DipsAt(p, q, d)) /\ (\A q : FlagsOf(q, a) = q.candidate_flags) /\ a = "DipTest"
  BY DipMeans
<1>1. TypeInv /\ IsReady(file, "DipTest", o) /\ k \in DOMAIN table
  BY DEF ReadyInv, CheckDip, Looked, TypeInv
<1>2. /\ DOMAIN u = DOMAIN table
      /\ \A d \in DOMAIN table : /\ u[d].original = table[d].original
                                 /\ u[d] = table[d] \/ u[d].control.fs \in {4, 9}
      /\ DipsAround(e) # {} => u[k].control.fs \in {4, 9}
  BY DipMarked
<1>3. \A d \in DOMAIN table : u[d].control \in CFlags
  BY <1>2 DEF TypeInv, RowsTyped, IsRow, CFlags
<1>a. RunInv(table, o, a, pids, list)
  OBVIOUS
<1>u. \A d \in DOMAIN table : u[d].control.fs \in {4, 9} =>
         /\ ~SetMatches(o.candidate_flags, u[d]) /\ ~SetMatches(o.dip_before_flags, u[d])
         /\ ~SetMatches(o.dip_after_flags, u[d])
  <2> HIDE DEF u
  <2> QED  BY <1>1, <1>3, DipFlags
<1> HIDE DEF a, k, u, o
<1>4. ASSUME NEW d \in DOMAIN u, Selected(u, o, a, d), ToDo(u, o, a, d)  PROVE Pending(rest, pids, a, d)
  <2>1. d \in DOMAIN table /\ DipsAt(u, o, d) /\ SetMatches(o.candidate_flags, u[d])
    BY <1>0, <1>2, <1>4 DEF Selected
  <2>2. u[d] = table[d]
    BY <1>2, <1>u, <2>1
  <2> DEFINE s == Hours(d)
  <2>3. /\ ~(d.time - 60 < o.window[1] \/ d.time + 60 > o.window[2])
        /\ \E n \in 2 .. Len(s) - 1 : s[n] = d /\ DipBetween(u, o, d, s[n - 1], s[n + 1])
    BY <1>1, <1>2, <2>1, DipsIs
  <2>4. PICK n \in 2 .. Len(s) - 1 : s[n] = d /\ DipBetween(u, o, d, s[n - 1], s[n + 1])
    BY <2>3
  <2>5. s[n - 1] \in DOMAIN table /\ s[n + 1] \in DOMAIN table
    <3>1. Len(s) \in Nat /\ \A m \in 1 .. Len(s) : s[m] \in DOMAIN table
      BY <1>1, <2>1, HoursAround
    <3> HIDE DEF s
    <3>2. n - 1 \in 1 .. Len(s) /\ n + 1 \in 1 .. Len(s)
      BY <3>1
    <3> QED  BY <3>1, <3>2
  <2> DEFINE i == s[n - 1]
             j == s[n + 1]
  <2>6. i \in DOMAIN table /\ j \in DOMAIN table /\ DipBetween(u, o, d, i, j)
    BY <2>4, <2>5
  <2> HIDE DEF i, j
  <2>7. u[i] = table[i] /\ u[j] = table[j]
    BY <1>2, <1>u, <2>6 DEF DipBetween
  <2>8. DipBetween(table, o, d, i, j)
    BY <2>2, <2>6, <2>7 DEF DipBetween
  <2>9. DipsAt(table, o, d)
    <3>1. s[n] = d /\ DipBetween(table, o, d, s[n - 1], s[n + 1])
      BY <2>4, <2>8 DEF i, j
    <3> QED  BY <1>1, <2>1, <2>3, <3>1, DipsIs
  <2>10. Selected(table, o, a, d)
    BY <1>4, <2>2 DEF Selected
  <2>11. Pending(list, pids, a, d)
    BY <1>0, <1>a, <2>1, <2>9, <2>10 DEF RunInv, Undone
  <2>12. d # k
    <3>1. e.row.original = table[k].original
      BY <1>a DEF RunInv, k
    <3>2. DipsAround(e) # {} <=> DipsAt(table, o, k)
      BY <1>1, <3>1, DipsFound DEF k, o
    <3> QED  BY <1>2, <1>u, <2>1, <2>9, <3>2
  <2>13. \A x \in list : x.key = d => x \in rest
    BY <2>12 DEF k
  <2> HIDE DEF rest
  <2> QED  BY <2>11, <2>13 DEF Pending
<1>5. ASSUME NEW x \in rest  PROVE x.row.original = u[x.key].original
  <2>1. x.row.original = table[x.key].original /\ x.key \in DOMAIN table
    BY <1>1, <1>a DEF RunInv, TypeInv
  <2> QED  BY <1>2, <2>1
<1>6. Undone(u, o, a, pids, rest)
  BY <1>4 DEF Undone
<1>7. /\ List(pids) /\ (a # "AggregatorLimits" => ToSet(pids) \subseteq PidsOf(o, a))
      /\ \A d, x \in rest : d.key = x.key => d = x
  BY <1>a DEF RunInv
<1>8. RunInv(u, o, a, pids, rest)
  <2> HIDE DEF rest
  <2> QED  BY <1>0, <1>5, <1>6, <1>7 DEF RunInv
<1> QED
  BY <1>8 DEF a, u, o

\* and nothing is written if nothing was left to do.
LEMMA DipQuiet ==
  ASSUME ReadyInv, NEW e \in list, NEW curve, CheckDip(e, curve), RunInv(table, object, "DipTest", pids, list),
         Done(table, object, "DipTest"), Selected(table, object, "DipTest", e.key)
  PROVE  DipUpdatesNow(e, curve) = {}
<1> DEFINE a == "DipTest"
<1>0. (\A p, q, d : ToDo(p, q, a, d) <=> DipsAt(p, q, d)) /\ a = "DipTest"
  BY DipMeans
<1>1. TypeInv /\ e.key \in DOMAIN table
  BY DEF ReadyInv, TypeInv
<1>2. e.row.original = table[e.key].original
  BY DEF RunInv
<1>3. ~DipsAt(table, object, e.key)
  BY <1>0, <1>1 DEF Done
<1>4. DipsAround(e) = {}
  BY <1>1, <1>2, <1>3, DipsFound
<1> QED
  BY <1>4 DEF DipUpdatesNow

-----------------------------------------------------------------------------
(* RerunQuiet, MeansHold, LimitsMarked.                                    *)

\* Nothing has been run before the first file is.
LEMMA QuietInit ==
  ASSUME NEW a
  PROVE  Init => QuietInv(a)
<1> SUFFICES ASSUME Init  PROVE QuietInv(a)
  OBVIOUS
<1>1. ReadyInv
  BY ReadyInit
<1>2. table = [k \in DOMAIN table |-> table[k]]
  <2>1. PICK s \in Starts : table = s[1]
    BY DEF Init
  <2>2. s[1] = [k \in DOMAIN s[1] |-> s[1][k]]
    BY OutsideAssumption
  <2> QED  BY <2>1, <2>2
<1>3. pc = "idle" /\ settled = {} /\ list = {}
  BY DEF Init
<1> QED
  BY <1>1, <1>2, <1>3 DEF QuietInv

\* One missing row is filled.
LEMMA FillStep ==
  ASSUME NEW a, a = "SingleLinear" => FlagsBuiltIn(a), QuietInv(a), ReadyInv', NEW e \in list, FillMissing(e)
  PROVE  QuietInv(a)'
<1>1. /\ Write(FillUpdates(e)) /\ list' \subseteq list /\ UNCHANGED <<pc, pids, file, objects>> /\ pc = "rows"
      /\ algorithm = "SingleLinear" /\ list' = list \ {e}
  BY DEF FillMissing, Looked
<1>2. ASSUME calm, algorithm = a  PROVE RunInv(table', object, a, pids, list')
  <2>1. FlagsBuiltIn("SingleLinear") /\ ReadyInv /\ TypeInv' /\ RunInv(table, object, "SingleLinear", pids, list)
    BY <1>1, <1>2 DEF QuietInv, ReadyInv
  <2>2. RunInv(table', object, "SingleLinear", pids, list \ {e})
    BY <2>1, FillKept
  <2> QED  BY <1>1, <1>2, <2>2
<1> DEFINE updates == FillUpdates(e)
<1>3. Write(updates)
  BY <1>1
<1> HIDE DEF updates
<1> QED
  BY <1>1, <1>2, <1>3, WrittenQuiet

\* One candidate for a dip is looked at.
LEMMA DipStep ==
  ASSUME NEW a, a = "DipTest" => FlagsBuiltIn(a), QuietInv(a), ReadyInv', NEW e \in list, NEW curve, CheckDip(e, curve)
  PROVE  QuietInv(a)'
<1>1. /\ Write(DipUpdatesNow(e, curve)) /\ list' \subseteq list /\ UNCHANGED <<pc, pids, file, objects>> /\ pc = "rows"
      /\ algorithm = "DipTest" /\ list' = list \ {e}
  BY DEF CheckDip, Looked
<1>2. ASSUME calm, algorithm = a  PROVE RunInv(table', object, a, pids, list')
  <2>1. FlagsBuiltIn("DipTest") /\ ReadyInv /\ TypeInv' /\ RunInv(table, object, "DipTest", pids, list)
    BY <1>1, <1>2 DEF QuietInv, ReadyInv
  <2>2. RunInv(table', object, "DipTest", pids, list \ {e})
    BY <2>1, DipKept
  <2> QED  BY <1>1, <1>2, <2>2
<1> DEFINE updates == DipUpdatesNow(e, curve)
<1>3. Write(updates)
  BY <1>1
<1> HIDE DEF updates
<1> QED
  BY <1>1, <1>2, <1>3, WrittenQuiet

\* All rows are held against their limits.
LEMMA LimitStep ==
  ASSUME NEW a, a = "AggregatorLimits" => FlagsBuiltIn(a), QuietInv(a), ReadyInv', CheckLimits
  PROVE  QuietInv(a)'
<1>1. /\ Write(LimitUpdates(list)) /\ list' \subseteq list /\ UNCHANGED <<pc, pids, file, objects>> /\ pc = "rows"
      /\ algorithm = "AggregatorLimits" /\ list' = {}
  BY DEF CheckLimits
<1>2. ASSUME calm, algorithm = a  PROVE RunInv(table', object, a, pids, list')
  <2>1. FlagsBuiltIn("AggregatorLimits") /\ ReadyInv /\ RunInv(table, object, "AggregatorLimits", pids, list)
    BY <1>1, <1>2 DEF QuietInv
  <2>2. RunInv(table', object, "AggregatorLimits", pids, {})
    BY <2>1, LimitKept
  <2> QED  BY <1>1, <1>2, <2>2
<1> DEFINE updates == LimitUpdates(list)
<1>3. Write(updates)
  BY <1>1
<1> HIDE DEF updates
<1> QED
  BY <1>1, <1>2, <1>3, WrittenQuiet

\* Something comes from outside.
LEMMA OutsideQuiet ==
  ASSUME NEW a, QuietInv(a), ReadyInv', FromOutside, list' = list, pc' = pc, table' = [k \in DOMAIN table' |-> table'[k]]
  PROVE  QuietInv(a)'
<1>1. settled' = {} /\ calm' = FALSE
  BY DEF FromOutside
<1> QED
  BY <1>1 DEF QuietInv

\* The inductive invariant: in an undisturbed run what has been read and worked out for a row is what would be now.
FreshInv ==
    /\ ReadyInv
    /\ work # Nothing => \A other \in list : work.e.key.time <= other.key.time
    /\ calm /\ work.stage = "dip" =>
          \E around \in DipsAround(work.e) : work.before = RowAt(around[1]) /\ work.after = RowAt(around[2])
    /\ calm /\ work.stage = "write" =>
          /\ algorithm = "DipTest" => \E curve : work.updates = DipUpdatesNow(work.e, curve)
          /\ algorithm = "SingleLinear" => work.updates = FillUpdates(work.e)

\* Nothing is in hand at the beginning.
LEMMA FreshInit == Init => FreshInv
<1>1. Nothing.stage = "none"
  BY DEF Nothing
<1> QED
  BY <1>1, ReadyInit DEF FreshInv, Init

\* There is one pair of rows around a dip at most, and so one way to correct it with a curve.
LEMMA DipUpdatesOnce ==
  ASSUME TypeInv, NEW e \in list, NEW curve, NEW around \in DipsAround(e)
  PROVE  DipUpdatesNow(e, curve) = DipUpdates(e, RowAt(around[1]), RowAt(around[2]), curve)
<1>1. RowsTyped /\ e.key \in DOMAIN table /\ around \in Surroundings(e)
  BY DEF TypeInv, DipsAround
<1>2. \A other \in Surroundings(e) : other = around
  BY <1>1, DipNeighbours
<1>3. DipsAround(e) = {around}
  BY <1>2 DEF DipsAround
<1> QED
  BY <1>3 DEF DipUpdatesNow

\* What is made of the rows around one depends on the table and on the object only.
LEMMA SameUpdates ==
  ASSUME UNCHANGED <<table, file, objects>>
  PROVE  /\ \A k : RowAt(k)' = RowAt(k)
         /\ \A e : DipsAround(e)' = DipsAround(e) /\ FillUpdates(e)' = FillUpdates(e)
         /\ \A e, curve : DipUpdatesNow(e, curve)' = DipUpdatesNow(e, curve)
<1>1. algorithm' = algorithm /\ object' = object /\ ut0' = ut0 /\ ut1' = ut1
  BY DEF algorithm, object, ut0, ut1
<1>2. \A k : RowAt(k)' = RowAt(k)
  BY DEF RowAt
<1>3. \A key, t0, t1 : SeriesOf(key, t0, t1)' = SeriesOf(key, t0, t1) /\ AllSeriesOf(key, t0, t1)' = AllSeriesOf(key, t0, t1)
  BY DEF SeriesOf, AllSeriesOf, Between
<1>4. \A e, i, j : IsDip(e, i, j)' <=> IsDip(e, i, j)
  BY <1>1 DEF IsDip, DeltaOf
<1>5. \A e : Surroundings(e)' = Surroundings(e)
  <2>1. \A e : DipSeries(e)' = DipSeries(e)
    BY <1>1, <1>3 DEF DipSeries
  <2>2. ASSUME NEW e  PROVE Surroundings(e)' = Surroundings(e)
    <3> DEFINE series == DipSeries(e)
    <3>1. series' = series
      BY <2>1
    <3>2. Surroundings(e) = {<<series[i - 1], series[i + 1]>> : i \in {j \in 2 .. Len(series) - 1 : series[j] = e.key}}
      BY DEF Surroundings
    <3>3. Surroundings(e)' = {<<series'[i - 1], series'[i + 1]>> : i \in {j \in 2 .. Len(series') - 1 : series'[j] = e.key}}
      BY DEF Surroundings
    <3> QED  BY <3>1, <3>2, <3>3
  <2> QED  BY <2>2
<1>6. \A e : DipsAround(e)' = DipsAround(e)
  BY <1>4, <1>5 DEF DipsAround
<1>7. \A e : FillUpdates(e)' = FillUpdates(e)
  <2>1. \A row : IsNeighborOk(row)' <=> IsNeighborOk(row)
    BY <1>1 DEF IsNeighborOk
  <2>2. \A row, i, j : Calculated(row, i, j)' = Calculated(row, i, j)
    BY <1>1, <2>1 DEF Calculated, Mean
  <2>3. ASSUME NEW e  PROVE FillUpdates(e)' = FillUpdates(e)
    <3> DEFINE series == SeriesOf(e.key, e.key.time - 60, e.key.time + 60)
               new == Calculated(e.row, series[1], series[3])
    <3>1. series' = series
      BY <1>3
    <3>2. new' = new
      BY <2>2, <3>1
    <3> QED  BY <3>1, <3>2 DEF FillUpdates
  <2> QED  BY <2>3
<1>8. \A e : AkimaPoints(e)' = AkimaPoints(e) /\ (AkimaSupport(e)' <=> AkimaSupport(e))
  BY <1>1, <1>3 DEF AkimaPoints, AkimaSupport
<1>9. \A e, before, after, curve : DipValue(e, before, after, curve)' = DipValue(e, before, after, curve)
  BY <1>8 DEF DipValue
<1>10. \A e, before, after, curve : DipUpdates(e, before, after, curve)' = DipUpdates(e, before, after, curve)
  BY <1>1, <1>9 DEF DipUpdates, Dip
<1>11. \A e, curve : DipUpdatesNow(e, curve)' = DipUpdatesNow(e, curve)
  BY <1>2, <1>6, <1>10 DEF DipUpdatesNow
<1> QED
  BY <1>2, <1>6, <1>7, <1>11

\* Every step keeps the invariant.
LEMMA FreshStep == FreshInv /\ [Next]_vars => FreshInv'
<1> SUFFICES ASSUME FreshInv, [Next]_vars PROVE FreshInv'
  OBVIOUS
<1>0. ReadyInv /\ ReadyInv' /\ objects = [a \in Algorithms |-> objects[a]] /\ WorkTyped /\ TypeInv
  BY ReadyStep DEF FreshInv, ReadyInv, TypeInv
<1>n. Nothing.stage = "none"
  BY DEF Nothing
<1>a. ASSUME work' = Nothing  PROVE FreshInv'
  BY <1>0, <1>n, <1>a DEF FreshInv
<1>b. ASSUME work' = work, list' = list, calm' = FALSE  PROVE FreshInv'
  BY <1>0, <1>b DEF FreshInv
<1>1. ASSUME NEW f \in files, Select(f)  PROVE FreshInv'
  <2>1. work' = work /\ pc = "idle"
    BY <1>1 DEF Select
  <2> QED  BY <1>0, <1>a, <2>1 DEF WorkTyped
<1>2. CASE ReadRows
  <2>1. work' = work /\ pc = "run"
    BY <1>2 DEF ReadRows
  <2> QED  BY <1>0, <1>a, <2>1 DEF WorkTyped
<1>3. CASE ReadRefused
  BY <1>0, <1>3, <1>a, Idles DEF ReadRefused
<1>4. ASSUME NEW e \in list, CompareRows(e)  PROVE FreshInv'
  <2>1. /\ work = Nothing /\ UNCHANGED <<table, file, objects, calm>>
        /\ \A other \in list : e.key.time <= other.key.time
    BY <1>4 DEF CompareRows, Due, historyVars
  <2>2. CASE NothingToDo(e)
    BY <1>a, <2>1, <2>2 DEF NothingToDo
  <2>3. ASSUME NEW around \in DipsAround(e),
               Planned([stage |-> "dip", e |-> e, before |-> RowAt(around[1]), after |-> RowAt(around[2])])
        PROVE  FreshInv'
    <3>1. list' = list /\ work' = [stage |-> "dip", e |-> e, before |-> RowAt(around[1]), after |-> RowAt(around[2])]
      BY <2>3 DEF Planned
    <3>2. work'.stage = "dip" /\ work'.e = e /\ work'.before = RowAt(around[1]) /\ work'.after = RowAt(around[2])
      BY <3>1
    <3>3. DipsAround(e)' = DipsAround(e)
      BY <2>1, SameUpdates
    <3>4. \A k : RowAt(k)' = RowAt(k)
      BY <2>1, SameUpdates
    <3>5. \A other \in list' : work'.e.key.time <= other.key.time
      BY <2>1, <3>1, <3>2
    <3>6. \E x \in DipsAround(work.e)' : work'.before = RowAt(x[1])' /\ work'.after = RowAt(x[2])'
      <4>1. DipsAround(work.e)' = DipsAround(e)'
        BY <3>2
      <4> QED  BY <3>2, <3>3, <3>4, <4>1
    <3> QED  BY <1>0, <3>2, <3>5, <3>6 DEF FreshInv
  <2> QED  BY <1>4, <2>2, <2>3 DEF CompareRows
<1>5. ASSUME NEW e \in list, CompareNeighbours(e)  PROVE FreshInv'
  <2>1. /\ work = Nothing /\ algorithm = "SingleLinear" /\ UNCHANGED <<table, file, objects>>
        /\ \A other \in list : e.key.time <= other.key.time
    BY <1>5 DEF CompareNeighbours, Due
  <2>2. CASE NothingToDo(e)
    BY <1>a, <2>1, <2>2 DEF NothingToDo
  <2>3. CASE Planned(ToWrite(e, FillUpdates(e)))
    <3>1. list' = list /\ work'.stage = "write" /\ work'.e = e /\ work'.updates = FillUpdates(e)
      BY <2>3 DEF Planned, ToWrite
    <3>2. \A other \in list' : work'.e.key.time <= other.key.time
      BY <2>1, <3>1
    <3>3. FillUpdates(e)' = FillUpdates(e)
      BY <2>1, SameUpdates
    <3>4. work'.updates = FillUpdates(work.e)'
      BY <3>1, <3>3
    <3>5. algorithm' = "SingleLinear"
      BY <2>1 DEF algorithm
    <3> QED  BY <1>0, <3>1, <3>2, <3>4, <3>5 DEF FreshInv
  <2> QED  BY <1>5, <2>2, <2>3 DEF CompareNeighbours
<1>6. ASSUME NEW curve \in CurveValues, TryAkima(curve)  PROVE FreshInv'
  <2>1. /\ work.stage = "dip" /\ UNCHANGED <<table, file, objects, calm>> /\ list' = list
        /\ work' = ToWrite(work.e, DipUpdates(work.e, work.before, work.after, curve))
    BY <1>6 DEF TryAkima, Planned, historyVars
  <2>2. PICK e : e = work.e
    OBVIOUS
  <2>3. work'.stage = "write" /\ work'.e = e /\ work'.updates = DipUpdates(e, work.before, work.after, curve)
    BY <2>1, <2>2 DEF ToWrite
  <2>4. e \in list /\ algorithm = "DipTest" /\ \A other \in list : e.key.time <= other.key.time
    BY <1>0, <1>n, <2>1, <2>2 DEF WorkTyped, FreshInv
  <2>5. algorithm' = "DipTest"
    BY <2>1, <2>4 DEF algorithm
  <2>6. ASSUME calm'  PROVE work'.updates = DipUpdatesNow(e, curve)'
    <3>1. PICK around \in DipsAround(e) : work.before = RowAt(around[1]) /\ work.after = RowAt(around[2])
      BY <2>1, <2>2, <2>6 DEF FreshInv
    <3>2. DipUpdatesNow(e, curve) = DipUpdates(e, work.before, work.after, curve)
      BY <1>0, <2>4, <3>1, DipUpdatesOnce
    <3>3. DipUpdatesNow(e, curve)' = DipUpdatesNow(e, curve)
      BY <2>1, SameUpdates
    <3> QED  BY <2>3, <3>2, <3>3
  <2>7. \A other \in list' : work'.e.key.time <= other.key.time
    BY <2>1, <2>3, <2>4
  <2>8. calm' => \E c : work'.updates = DipUpdatesNow(work.e, c)'
    BY <2>3, <2>6
  <2> QED  BY <1>0, <2>3, <2>5, <2>7, <2>8 DEF FreshInv
<1>7. CASE StoreChanges
  BY <1>7, <1>a DEF StoreChanges
<1>8. CASE CheckLimits
  <2>1. work' = work /\ algorithm = "AggregatorLimits"
    BY <1>8 DEF CheckLimits
  <2> QED  BY <1>0, <1>a, <2>1 DEF WorkTyped
<1>9. CASE EndRows
  <2>1. work' = work /\ list = {}
    BY <1>9 DEF EndRows
  <2> QED  BY <1>0, <1>a, <2>1 DEF WorkTyped
<1>10. CASE EndRun
  <2>1. work' = work /\ pc = "run"
    BY <1>10 DEF EndRun
  <2> QED  BY <1>0, <1>a, <2>1 DEF WorkTyped
<1>11. ASSUME NEW l \in Late, Observe(l[1], l[2])  PROVE FreshInv'
  BY <1>11, <1>b DEF Observe, FromOutside, runVars
<1>12. ASSUME NEW j \in HqcKeys, Hqc(j)  PROVE FreshInv'
  BY <1>12, <1>b DEF Hqc, FromOutside, runVars
<1>13. CASE Abort
  BY <1>0, <1>13, <1>a, Idles DEF Abort
<1>14. CASE UNCHANGED vars
  <2>1. UNCHANGED <<table, files, objects, pc, file, pids, list, work, meanwhile, calm, settled, outside>>
    BY <1>14 DEF vars, runVars, historyVars
  <2>2. \A e : DipsAround(e)' = DipsAround(e)
    BY <2>1, SameUpdates
  <2>3. \A e, curve : DipUpdatesNow(e, curve)' = DipUpdatesNow(e, curve)
    BY <2>1, SameUpdates
  <2>4. \A e : FillUpdates(e)' = FillUpdates(e)
    BY <2>1, SameUpdates
  <2>5. (\A k : RowAt(k)' = RowAt(k)) /\ algorithm' = algorithm
    BY <2>1, SameUpdates DEF algorithm
  <2>6. PICK e : e = work.e
    OBVIOUS
  <2>7. work'.e = e /\ work' = work
    BY <2>1, <2>6
  <2>8. /\ DipsAround(work.e)' = DipsAround(work.e) /\ FillUpdates(work.e)' = FillUpdates(work.e)
        /\ \A curve : DipUpdatesNow(work.e, curve)' = DipUpdatesNow(work.e, curve)
    BY <2>2, <2>3, <2>4, <2>6, <2>7
  <2> QED  BY <1>0, <2>1, <2>5, <2>8 DEF FreshInv
<1> QED
  BY <1>1, <1>2, <1>3, <1>4, <1>5, <1>6, <1>7, <1>8, <1>9, <1>10, <1>11, <1>12, <1>13, <1>14 DEF Next

\* When nothing comes between them, the steps for a row do what one step would: those that write,
LEMMA StoredAtOnce ==
  ASSUME FreshInv, StoreChanges, calm
  PROVE  work.e \in list /\ (FillMissing(work.e) \/ \E curve : CheckDip(work.e, curve))
<1>1. /\ work.stage = "write" /\ Write(work.updates) /\ list' = list \ {work.e}
      /\ UNCHANGED <<files, objects, pc, file, pids>>
  BY DEF StoreChanges
<1>2. WorkTyped /\ work # Nothing
  BY <1>1 DEF FreshInv, ReadyInv, TypeInv, Nothing
<1>3. pc = "rows" /\ work.e \in list /\ algorithm \in {"DipTest", "SingleLinear"}
  BY <1>1, <1>2 DEF WorkTyped
<1>4. Looked(work.e)
  BY <1>1, <1>2, <1>3 DEF Looked, FreshInv
<1>5. CASE algorithm = "DipTest"
  <2>1. PICK curve : work.updates = DipUpdatesNow(work.e, curve)
    BY <1>1, <1>5 DEF FreshInv
  <2>2. CheckDip(work.e, curve)
    BY <1>1, <1>4, <1>5, <2>1 DEF CheckDip
  <2> QED  BY <1>3, <2>2
<1>6. CASE algorithm = "SingleLinear"
  <2>1. work.updates = FillUpdates(work.e)
    BY <1>1, <1>6 DEF FreshInv
  <2>2. FillMissing(work.e)
    BY <1>1, <1>4, <1>6, <2>1 DEF FillMissing
  <2> QED  BY <1>3, <2>2
<1> QED
  BY <1>3, <1>5, <1>6

\* and those that find nothing to write.
LEMMA LookedAtOnce ==
  ASSUME table = [k \in DOMAIN table |-> table[k]], NEW e \in list, CompareRows(e) \/ CompareNeighbours(e)
  PROVE  \/ FillMissing(e) \/ CheckDip(e, 0)
         \/ pc = "rows" /\ list' = list
<1>1. Stored({}) = table
  BY DEF Stored
<1>2. UNCHANGED <<table, files, objects, pc, file, pids, meanwhile, calm, settled, outside>> /\ pc = "rows"
  BY DEF CompareRows, CompareNeighbours, Due, historyVars
<1>3. Write({})
  BY <1>1, <1>2 DEF Write
<1>4. CASE CompareRows(e)
  <2>1. CASE DipsAround(e) = {} /\ NothingToDo(e)
    <3>1. DipUpdatesNow(e, 0) = {}
      BY <2>1 DEF DipUpdatesNow
    <3>2. Looked(e) /\ algorithm = "DipTest"
      BY <1>2, <1>4, <2>1 DEF Looked, CompareRows, Due, NothingToDo
    <3> QED  BY <1>3, <3>1, <3>2 DEF CheckDip
  <2>2. CASE ~(DipsAround(e) = {} /\ NothingToDo(e))
    BY <1>2, <1>4, <2>2 DEF CompareRows, Planned
  <2> QED  BY <2>1, <2>2
<1>5. CASE CompareNeighbours(e)
  <2>1. CASE FillUpdates(e) = {} /\ NothingToDo(e)
    <3>1. Looked(e) /\ algorithm = "SingleLinear"
      BY <1>2, <1>5, <2>1 DEF Looked, CompareNeighbours, Due, NothingToDo
    <3> QED  BY <1>3, <2>1, <3>1 DEF FillMissing
  <2>2. CASE ~(FillUpdates(e) = {} /\ NothingToDo(e))
    BY <1>2, <1>5, <2>2 DEF CompareNeighbours, Planned
  <2> QED  BY <2>1, <2>2
<1> QED
  BY <1>4, <1>5

\* What has been worked out is written.
LEMMA StoreStep ==
  ASSUME NEW a, FlagsBuiltIn(a), QuietInv(a), ReadyInv', FreshInv, StoreChanges
  PROVE  QuietInv(a)'
<1>1. CASE calm
  <2>1. PICK e : e \in list /\ (FillMissing(e) \/ \E curve : CheckDip(e, curve))
    BY <1>1, StoredAtOnce
  <2>2. CASE FillMissing(e)
    BY <2>1, <2>2, FillStep
  <2>3. ASSUME NEW curve, CheckDip(e, curve)  PROVE QuietInv(a)'
    BY <2>1, <2>3, DipStep
  <2> QED  BY <2>1, <2>2, <2>3
<1>2. CASE ~calm
  <2> DEFINE updates == work.updates
  <2>1. /\ Write(updates) /\ list' \subseteq list /\ UNCHANGED <<pc, pids, file, objects>> /\ work.stage = "write"
    BY DEF StoreChanges
  <2>2. pc = "rows"
    BY <2>1 DEF FreshInv, ReadyInv, TypeInv, WorkTyped, Nothing
  <2>3. calm /\ algorithm = a => RunInv(table', object, a, pids, list')
    BY <1>2
  <2> HIDE DEF updates
  <2> QED  BY <2>1, <2>2, <2>3, WrittenQuiet
<1> QED
  BY <1>1, <1>2

\* Every step keeps the invariant.
LEMMA QuietStep ==
  ASSUME NEW a \in Looks, FlagsBuiltIn(a), QuietInv(a), FreshInv, [Next]_vars
  PROVE  QuietInv(a)'
<1>1. ReadyInv /\ ReadyInv'
  BY ReadyStep DEF QuietInv
<1>2. CASE \E f \in files : Select(f)
  BY <1>1, <1>2, SelectQuiet
<1>3. CASE ReadRows
  BY <1>1, <1>3, ReadQuiet
<1>4. CASE ReadRefused
  <2>1. pc' = "idle" /\ list' = {} /\ table' = table /\ settled' = {}
    BY <1>4 DEF ReadRefused, Idle
  <2> QED  BY <1>1, <2>1, QuietKept
<1>5. ASSUME NEW e \in list, CompareRows(e) \/ CompareNeighbours(e)  PROVE QuietInv(a)'
  <2>1. table = [k \in DOMAIN table |-> table[k]]
    BY DEF QuietInv
  <2>2. CASE FillMissing(e)
    BY <1>1, <2>2, FillStep
  <2>3. CASE CheckDip(e, 0)
    BY <1>1, <2>3, DipStep
  <2>4. CASE pc = "rows" /\ list' = list
    <3>1. UNCHANGED <<table, files, objects, pc, file, pids, calm, settled>>
      BY <1>5 DEF CompareRows, CompareNeighbours, historyVars
    <3> QED  BY <1>1, <2>4, <3>1, QuietKept
  <2>5. FillMissing(e) \/ CheckDip(e, 0) \/ (pc = "rows" /\ list' = list)
    BY <1>5, <2>1, LookedAtOnce
  <2> QED  BY <2>2, <2>3, <2>4, <2>5
<1>6. ASSUME NEW curve \in CurveValues, TryAkima(curve)  PROVE QuietInv(a)'
  <2>1. /\ work.stage = "dip" /\ list' = list
        /\ UNCHANGED <<table, files, objects, pc, file, pids, calm, settled>>
    BY <1>6 DEF TryAkima, Planned, historyVars
  <2>2. pc = "rows"
    BY <2>1 DEF FreshInv, ReadyInv, TypeInv, WorkTyped, Nothing
  <2> QED  BY <1>1, <2>1, <2>2, QuietKept
<1>14. CASE StoreChanges
  BY <1>1, <1>14, StoreStep
<1>7. CASE CheckLimits
  BY <1>1, <1>7, LimitStep
<1>8. CASE EndRows
  <2>1. /\ pc = "rows" /\ list' = list /\ list = {} /\ table' = table /\ settled' = settled /\ calm' = calm
        /\ pids' = pids /\ file' = file /\ objects' = objects
    BY <1>8 DEF EndRows, historyVars
  <2> QED  BY <1>1, <2>1, QuietKept
<1>9. CASE EndRun
  BY <1>1, <1>9, EndRunQuiet
<1>10. CASE \E l \in Late : Observe(l[1], l[2])
  <2>1. FromOutside /\ list' = list /\ pc' = pc /\ table' = [k \in DOMAIN table' |-> table'[k]]
    BY <1>10 DEF Observe, runVars
  <2> QED  BY <1>1, <2>1, OutsideQuiet
<1>11. CASE \E k \in HqcKeys : Hqc(k)
  <2>1. PICK k \in HqcKeys : Hqc(k)
    BY <1>11
  <2> DEFINE row == WithControl([table[k] EXCEPT !.corrected = Corrected("operator", 0, {})], [table[k].control EXCEPT !.fhqc = 7])
  <2>2. FromOutside /\ list' = list /\ pc' = pc /\ table' = [table EXCEPT ![k] = row]
    BY <2>1 DEF Hqc, runVars
  <2> HIDE DEF row
  <2>3. table' = [j \in DOMAIN table' |-> table'[j]]
    BY <2>2
  <2> QED  BY <1>1, <2>2, <2>3, OutsideQuiet
<1>12. CASE Abort
  <2>1. pc' = "idle" /\ list' = {} /\ table' = table /\ settled' = {}
    BY <1>12 DEF Abort, Idle, FromOutside
  <2> QED  BY <1>1, <2>1, QuietKept
<1>13. CASE UNCHANGED vars
  <2>1. /\ pc' = pc /\ list' = list /\ table' = table /\ settled' = settled /\ calm' = calm
        /\ pids' = pids /\ file' = file /\ objects' = objects
    BY <1>13 DEF vars, runVars, historyVars
  <2>2. list' # {} => pc' = "rows"
    BY <2>1 DEF QuietInv
  <2> QED  BY <1>1, <2>1, <2>2, QuietKept
<1> QED
  BY <1>2, <1>3, <1>4, <1>5, <1>6, <1>7, <1>8, <1>9, <1>10, <1>11, <1>12, <1>13, <1>14 DEF Next

\* Nothing is written by a run that has nothing left to do.
LEMMA NothingStored ==
  ASSUME NEW updates, updates = {}, Write(updates), table = [k \in DOMAIN table |-> table[k]]
  PROVE  table' = table
<1>1. table' = [k \in DOMAIN table |-> table[k]]
  BY DEF Write, Stored
<1> QED
  BY <1>1

\* What a run of a settled file does to the table.
LEMMA SettledStep ==
  ASSUME \A a \in Looks : FlagsBuiltIn(a) /\ QuietInv(a), FreshInv, [Next]_vars, TypeInv',
         pc # "idle", calm' = TRUE, object = AsNew(file), file \in settled
  PROVE  table' = table
<1>1. table = [k \in DOMAIN table |-> table[k]] /\ ReadyInv
  BY DEF QuietInv, Looks
<1>2. ASSUME NEW a \in Looks, algorithm = a, calm
      PROVE  /\ RunInv(table, object, a, pids, list) /\ Done(table, object, a)
             /\ \A e \in list : Selected(table, object, a, e.key)
  <2>1. AlgorithmOf(file) = a
    BY <1>2 DEF algorithm
  <2> QED  BY <1>2, <2>1 DEF QuietInv
<1>3. ASSUME NEW e \in list, FillMissing(e)  PROVE table' = table
  <2>1. algorithm = "SingleLinear" /\ Write(FillUpdates(e)) /\ calm' = calm
    BY <1>3 DEF FillMissing, Write
  <2>2. "SingleLinear" \in Looks
    BY DEF Looks
  <2>3. RunInv(table, object, "SingleLinear", pids, list) /\ Done(table, object, "SingleLinear") /\ FlagsBuiltIn("SingleLinear")
    BY <1>2, <2>1, <2>2
  <2>4. FillUpdates(e) = {}
    BY <1>1, <1>3, <2>3, FillQuiet
  <2> QED  BY <1>1, <2>1, <2>4, NothingStored
<1>4. ASSUME NEW e \in list, NEW curve, CheckDip(e, curve)  PROVE table' = table
  <2>1. algorithm = "DipTest" /\ Write(DipUpdatesNow(e, curve)) /\ calm' = calm
    BY <1>4 DEF CheckDip, Write
  <2>2. "DipTest" \in Looks
    BY DEF Looks
  <2>3. RunInv(table, object, "DipTest", pids, list) /\ Done(table, object, "DipTest") /\ Selected(table, object, "DipTest", e.key)
    BY <1>2, <2>1, <2>2
  <2>4. DipUpdatesNow(e, curve) = {}
    BY <1>1, <1>4, <2>3, DipQuiet
  <2> QED  BY <1>1, <2>1, <2>4, NothingStored
<1>5. ASSUME CheckLimits  PROVE table' = table
  <2>1. algorithm = "AggregatorLimits" /\ Write(LimitUpdates(list)) /\ calm' = calm
    BY <1>5 DEF CheckLimits, Write
  <2>2. "AggregatorLimits" \in Looks
    BY DEF Looks
  <2>3. RunInv(table, object, "AggregatorLimits", pids, list) /\ Done(table, object, "AggregatorLimits")
    BY <1>2, <2>1, <2>2
  <2>4. LimitUpdates(list) = {}
    BY <1>1, <1>5, <2>3, LimitQuiet
  <2> QED  BY <1>1, <2>1, <2>4, NothingStored
<1>6. \A l \in Late : ~Observe(l[1], l[2])
  BY DEF Observe, FromOutside
<1>7. \A k \in HqcKeys : ~Hqc(k)
  BY DEF Hqc, FromOutside
<1>8. ReadRows \/ ReadRefused \/ EndRows \/ EndRun \/ Abort \/ UNCHANGED vars => table' = table
  BY DEF ReadRows, ReadRefused, EndRows, EndRun, Abort, vars
<1>9. (\E f \in files : Select(f)) => table' = table
  BY DEF Select
<1>10. \A e \in list : CompareRows(e) \/ CompareNeighbours(e) => table' = table
  BY DEF CompareRows, CompareNeighbours
<1>11. \A curve \in CurveValues : TryAkima(curve) => table' = table
  BY DEF TryAkima
<1>12. ASSUME StoreChanges  PROVE table' = table
  <2>1. calm
    BY <1>12 DEF StoreChanges, Write
  <2>2. PICK e : e \in list /\ (FillMissing(e) \/ \E curve : CheckDip(e, curve))
    BY <1>12, <2>1, StoredAtOnce
  <2> QED  BY <1>3, <1>4, <2>2
<1> QED
  BY <1>3, <1>4, <1>5, <1>6, <1>7, <1>8, <1>9, <1>10, <1>11, <1>12 DEF Next

\* As long as the flags by which these algorithms choose and mark their rows are the built-in ones, a file that has been
\* run to its end, undisturbed, writes nothing when it is run again (DipTestAlgorithm.cc, SingleLinearAlgorithm.cc,
\* AggregatorLimits.cc: run): a dip is marked so that it is no candidate any more, a value that is filled in is what its
\* neighbours make of it, and what is out of range is marked so that it is not read again.
THEOREM RerunsQuiet ==
  ASSUME FlagsBuiltIn("DipTest"), FlagsBuiltIn("SingleLinear"), FlagsBuiltIn("AggregatorLimits")
  PROVE  Spec => RerunQuiet
<1> DEFINE Inv == FreshInv /\ QuietInv("DipTest") /\ QuietInv("SingleLinear") /\ QuietInv("AggregatorLimits")
<1>0. "DipTest" \in Looks /\ "SingleLinear" \in Looks /\ "AggregatorLimits" \in Looks
  BY DEF Looks
<1>1. Init => Inv
  BY QuietInit, FreshInit
<1>2. Inv /\ [Next]_vars => Inv'
  BY <1>0, QuietStep, FreshStep
<1>3. Inv /\ [Next]_vars => [pc # "idle" /\ calm' /\ object = AsNew(file) /\ file \in settled => table' = table]_vars
  <2> SUFFICES ASSUME Inv, [Next]_vars, pc # "idle", calm', object = AsNew(file), file \in settled
               PROVE  table' = table
    OBVIOUS
  <2>1. \A a \in Looks : FlagsBuiltIn(a) /\ QuietInv(a)
    BY DEF Looks
  <2>2. TypeInv'
    BY ReadyStep DEF QuietInv, ReadyInv
  <2>3. calm' = TRUE
    BY <2>2 DEF TypeInv
  <2> QED  BY <2>1, <2>2, <2>3, SettledStep
<1> QED
  BY <1>1, <1>2, <1>3, PTL DEF Spec, RerunQuiet

\* The members of an object that a settled file has been run with.
LEMMA SettledObject ==
  ASSUME ReadyInv, NEW f \in settled, NEW a, AlgorithmOf(f) = a
  PROVE  /\ f \in Runnable /\ a \in Algorithms /\ Configure(Fresh(a), Items(f), a).ok
         /\ Typed(AsNew(f), a) /\ IsReady(f, a, AsNew(f))
<1>1. f \in Runnable /\ Configure(Fresh(a), Items(f), a).ok
  BY DEF ReadyInv
<1>2. f \in DOMAIN Files /\ a \in Algorithms
  BY <1>1 DEF Runnable
<1>3. AsNew(f) = Configure(Fresh(a), Items(f), a).object
  BY <1>1 DEF AsNew, AllAsNew
<1>4. Typed(Fresh(a), a)
  BY <1>2, FreshTyped
<1>5. Typed(AsNew(f), a)
  BY <1>2, <1>3, <1>4, ConfiguredTyped
<1>6. Ready(f, AsNew(f))
  BY <1>1, <1>3, <1>4 DEF Ready
<1> QED
  BY <1>1, <1>2, <1>5, <1>6 DEF IsReady

\* The maximum that LimitValues::find takes is one of those for the parameter.
LEMMA MaximumGiven ==
  ASSUME NEW o, List(o.mLimits), NEW k, {l \in ToSet(o.mLimits) : l.pid = k.pid} # {}
  PROVE  MaxFor(o, k) \in {l.max : l \in {m \in ToSet(o.mLimits) : m.pid = k.pid}}
<1> DEFINE s == o.mLimits
           own == {i \in DOMAIN s : s[i].pid = k.pid}
           last == CHOOSE i \in own : \A j \in own : j <= i
           first == CHOOSE i \in own : \A j \in own : i <= j
           day == DayOfYear(k.time) = 1
           n == IF day THEN last ELSE first
<1>1. Len(s) \in Nat /\ DOMAIN s = 1 .. Len(s) /\ ToSet(s) = {s[i] : i \in DOMAIN s}
  BY ListIs DEF ToSet
<1>2. MaxFor(o, k) = s[n].max
  BY DEF MaxFor
<1>3. own # {} /\ own \subseteq 1 .. Len(s)
  BY <1>1
<1> HIDE DEF s, day
<1>4. last \in own
  <2> DEFINE up == {Len(s) - i : i \in own}
  <2>1. up # {} /\ up \subseteq Nat
    BY <1>1, <1>3
  <2> HIDE DEF up
  <2>2. PICK m \in up : \A x \in up : m <= x
    BY <2>1, LeastNatural
  <2>3. PICK i \in own : m = Len(s) - i
    BY <2>2 DEF up
  <2>4. \A j \in own : Len(s) - j \in up
    BY DEF up
  <2>5. \A j \in own : j <= i
    <3> HIDE DEF own
    <3>1. ASSUME NEW j \in own  PROVE j <= i
      <4>1. m <= Len(s) - j /\ j \in 1 .. Len(s) /\ i \in 1 .. Len(s)
        BY <1>3, <2>2, <2>4
      <4> QED  BY <1>1, <2>3, <4>1
    <3> QED  BY <3>1
  <2> HIDE DEF own
  <2> QED  BY <2>5
<1>5. first \in own
  <2>1. own # {} /\ own \subseteq Nat
    BY <1>1, <1>3
  <2> HIDE DEF own
  <2>2. PICK i \in own : \A j \in own : i <= j
    BY <2>1, LeastNatural
  <2> QED  BY <2>2
<1> HIDE DEF last, first
<1>6. n \in own
  BY <1>4, <1>5
<1> HIDE DEF n
<1>7. s[n] \in ToSet(s) /\ s[n].pid = k.pid
  BY <1>1, <1>6
<1> QED
  BY <1>2, <1>7 DEF s

\* As long as the flags by which AggregatorLimits chooses and marks its rows are the built-in ones, no value that is out
\* of range is left unmarked after an undisturbed run (AggregatorLimits.cc, run).
THEOREM LimitsAreMarked ==
  ASSUME FlagsBuiltIn("AggregatorLimits")
  PROVE  Spec => []LimitsMarked
<1> DEFINE a == "AggregatorLimits"
<1>1. a \in Looks
  BY DEF Looks
<1>2. Init => QuietInv(a) /\ FreshInv
  BY QuietInit, FreshInit
<1>3. QuietInv(a) /\ FreshInv /\ [Next]_vars => QuietInv(a)' /\ FreshInv'
  BY <1>1, QuietStep, FreshStep
<1>4. QuietInv(a) => LimitsMarked
  <2> SUFFICES ASSUME QuietInv(a), NEW f \in settled, AlgorithmOf(f) = a  PROVE LimitsMarkedFor(AsNew(f))
    BY DEF LimitsMarked
  <2> DEFINE o == AsNew(f)
             Maxima(pid) == {l.max : l \in {m \in ToSet(o.mLimits) : m.pid = pid}}
  <2>1. Typed(o, a) /\ Done(table, o, a) /\ TypeInv
    BY SettledObject DEF QuietInv, ReadyInv
  <2>2. List(o.mLimits)
    BY <2>1, ListMembers
  <2>3. /\ \A t, p, k : ToDo(t, p, a, k) <=> OutAt(t, p, k)
        /\ \A p : FlagsOf(p, a) = p.mFlags
    BY LimitMeans
  <2> HIDE DEF o
  <2>4. ASSUME NEW k \in DOMAIN table, k.aggregated, Maxima(k.pid) # {}, o.window[1] <= k.time, k.time <= o.window[2],
               SetMatches(o.mFlags, table[k]), table[k].corrected.value > -327650
        PROVE  /\ ~(table[k].corrected.value < LowLimit)
               /\ \E max \in Maxima(k.pid) : ~(table[k].corrected.value > max)
    <3>1. {l \in ToSet(o.mLimits) : l.pid = k.pid} # {}
      BY <2>4
    <3>2. k.pid \in PidsOf(o, a)
      <4>1. PidsOf(o, a) = {o.mLimits[i].pid : i \in DOMAIN o.mLimits}
        BY DEF PidsOf
      <4> QED  BY <3>1, <4>1 DEF ToSet
    <3>3. k.aggregated \in BOOLEAN
      BY <2>1 DEF TypeInv, RowsTyped, Key
    <3>4. Selected(table, o, a, k)
      BY <2>3, <2>4, <3>2, <3>3 DEF Selected
    <3>5. ~OutAt(table, o, k)
      BY <2>1, <2>3, <3>4 DEF Done
    <3>6. ~(table[k].corrected.value < LowLimit) /\ ~(table[k].corrected.value > MaxFor(o, k))
      BY <2>4, <3>5 DEF OutAt
    <3>7. MaxFor(o, k) \in Maxima(k.pid)
      BY <2>2, <3>1, MaximumGiven
    <3> HIDE DEF Maxima
    <3> QED  BY <3>6, <3>7
  <2> QED  BY <2>4 DEF LimitsMarkedFor, o
<1> QED
  BY <1>2, <1>3, <1>4, PTL DEF Spec

\* A row that has been filled is selected again.
LEMMA FilledSelected ==
  ASSUME FlagsBuiltIn("SingleLinear"), ReadyInv, NEW f \in settled, AlgorithmOf(f) = "SingleLinear", NEW k \in DOMAIN table,
         k.pid \in ToSet(AsNew(f).pids), ~k.aggregated, AsNew(f).window[1] <= k.time, k.time <= AsNew(f).window[2],
         table[k].control.ftime = 1, table[k].control.fmis \in {1, 4}, table[k].control.fhqc = 0
  PROVE  Selected(table, AsNew(f), "SingleLinear", k)
<1> DEFINE a == "SingleLinear"
           o == AsNew(f)
           c == table[k].control
<1>0. /\ "missing" \in OwnFlags(a) /\ BuiltIn(a, OwnFlags(a)) /\ a # "DipTest" /\ a # "AggregatorLimits"
      /\ \A p : FlagsOf(p, a) = p.missing_flags
  BY FillMeans DEF FlagsBuiltIn
<1>1. f \in Runnable /\ Configure(Fresh(a), Items(f), a).ok /\ IsReady(f, a, o)
  BY SettledObject
<1>2. c \in CFlags
  BY DEF ReadyInv, TypeInv, RowsTyped, IsRow, CFlags
<1>c. c.ftime = 1 /\ c.fmis \in {1, 4} /\ c.fhqc = 0
  OBVIOUS
<1>o. o = AsNew(f)
  OBVIOUS
<1> HIDE DEF c, o
<1>3. PatternsMatch(o.missing_flags.control, c)
  <2>1. PatternsMatch(o.missing_flags.control, c) <=>
          c.fhqc = 0 /\ ((c.ftime = 0 /\ c.fmis \in {1, 2, 3, 4}) \/ (c.ftime = 1 /\ c.fmis \in {1, 4}))
    BY ONLY <1>0, <1>1, <1>2, MissingFlags
  <2> QED  BY <1>c, <2>1
<1>4. o.missing_flags.use = NoPatterns
  <2> DEFINE call == SingleLinearCalls[2]
  <2>1. /\ 2 \in DOMAIN SingleLinearCalls /\ call.kind = "flags" /\ call.member = "missing_flags" /\ call.name = "missing"
        /\ call.use = <<>>
    BY DEF SingleLinearCalls, FlagSet, FlagChange, Simple
  <2>2. Calls(a) = SingleLinearCalls
    BY DEF Calls, AllCalls
  <2>3. call = Calls(a)[2] /\ 2 \in DOMAIN Calls(a)
    BY <2>1, <2>2
  <2> HIDE DEF call, a
  <2>4. call.name \in OwnFlags(a)
    BY <1>0, <2>1
  <2>a. AlgorithmOf(f) = a
    BY DEF a
  <2>5. AsNew(f)[call.member].use = NoPatterns
    BY ONLY <1>0, <1>1, <2>1, <2>3, <2>4, <2>a, NewUse
  <2> QED  BY <1>o, <2>1, <2>5
<1>5. PatternsMatch(NoPatterns, table[k].use)
  <2>1. NoPatterns.patterns = <<>> /\ ~NoPatterns.error
    BY DEF NoPatterns, Patterns
  <2> QED  BY <2>1 DEF PatternsMatch
<1>6. SetMatches(o.missing_flags, table[k])
  BY <1>3, <1>4, <1>5 DEF SetMatches, c
<1>7. PidsOf(o, a) = ToSet(o.pids)
  BY DEF PidsOf
<1>8. k.aggregated \in BOOLEAN
  BY DEF ReadyInv, TypeInv, RowsTyped, Key
<1> QED
  BY <1>0, <1>6, <1>7, <1>8, <1>o DEF Selected

\* Half a tenth goes away from zero (mathutil.cc, round1).
LEMMA AverageMeans ==
  ASSUME NEW x \in Int, NEW y \in Int
  PROVE  IsMean(Average(x, y), x, y)
<1>1. CASE x + y < 0
  <2>1. Average(x, y) = -((1 - x - y) \div 2)
    BY <1>1 DEF Average
  <2> QED  BY <1>1, <2>1 DEF IsMean
<1>2. CASE ~(x + y < 0)
  <2>1. Average(x, y) = (x + y + 1) \div 2
    BY <1>2 DEF Average
  <2> QED  BY <1>2, <2>1 DEF IsMean
<1> QED
  BY <1>1, <1>2

\* A row that needs no filling has the mean of the only rows around it.
LEMMA MeanOf ==
  ASSUME TypeInv, NEW o, NEW k \in DOMAIN table, ~k.aggregated, table[k].control.ftime = 1, ~FillsAt(table, o, k),
         NEW Around, Around = {j \in DOMAIN table : /\ j.pid = k.pid /\ j.sensor = k.sensor /\ ~j.aggregated
                                                    /\ j.time - k.time \in -60 .. 60 /\ j # k},
         NEW i \in Around, NEW j \in Around, i.time < k.time, k.time < j.time, Around = {i, j}
  PROVE  /\ IsGood(table, o, i) /\ IsGood(table, o, j)
         /\ IsMean(table[k].corrected.value, table[i].original, table[j].original)
<1> DEFINE t0 == k.time - 60
           t1 == k.time + 60
           S == Beside(k, t0, t1)
           s == Hours(k)
<1>1. \A n \in DOMAIN table : n.time \in Int /\ n.aggregated \in BOOLEAN
  BY DEF TypeInv, RowsTyped, Key
<1>2. t0 \in Int /\ t1 \in Int
  BY <1>1
<1>3. S = {n \in DOMAIN table : /\ n.pid = k.pid /\ n.aggregated = k.aggregated /\ n.sensor = k.sensor
                                /\ t0 <= n.time /\ n.time <= t1}
  BY DEF Beside, Between
<1>4. ASSUME NEW n \in DOMAIN table  PROVE n \in S <=> n \in Around \/ n = k
  <2>1. n.aggregated = k.aggregated <=> ~n.aggregated
    BY <1>1
  <2>2. t0 <= n.time /\ n.time <= t1 <=> n.time - k.time \in -60 .. 60
    BY <1>1
  <2>3. t0 <= k.time /\ k.time <= t1
    BY <1>1
  <2> HIDE DEF t0, t1, S
  <2> QED  BY <1>3, <2>1, <2>2, <2>3
<1>5. S = {i, k, j}
  <2>1. S \subseteq DOMAIN table /\ Around \subseteq DOMAIN table
    BY <1>3
  <2> HIDE DEF S
  <2> QED  BY <1>4, <2>1
<1> HIDE DEF t0, t1, S
<1>6. LET h == SeriesOf(k, t0, t1) IN Len(h) = 3 /\ h[1] = i /\ h[3] = j
  <2>1. RowsTyped
    BY DEF TypeInv
  <2> QED  BY <1>2, <1>5, <2>1, ThreeInSeries DEF S
<1>7. Len(s) = 3 /\ s[1] = i /\ s[3] = j
  BY <1>6 DEF Hours, t0, t1
<1>8. FillsAt(table, o, k) <=> Len(s) = 3 /\ FillsBetween(table, o, k, s[1], s[3])
  BY FillsIs
<1> HIDE DEF s
<1>9. ~FillsBetween(table, o, k, i, j)
  BY <1>7, <1>8
<1>10. table[i].original \in Int /\ table[j].original \in Int
  BY DEF TypeInv, RowsTyped, IsRow
<1>11. IsMean(Average(table[i].original, table[j].original), table[i].original, table[j].original)
  BY <1>10, AverageMeans
<1> QED
  BY <1>9, <1>11 DEF FillsBetween

\* As long as the flags by which SingleLinear chooses and marks its rows are the built-in ones, what it has put in is the
\* mean of two good neighbours after every undisturbed run (SingleLinearAlgorithm.cc, run).
THEOREM MeansAreKept ==
  ASSUME FlagsBuiltIn("SingleLinear")
  PROVE  Spec => []MeansHold
<1> DEFINE a == "SingleLinear"
<1>1. a \in Looks
  BY DEF Looks
<1>2. Init => QuietInv(a) /\ FreshInv
  BY QuietInit, FreshInit
<1>3. QuietInv(a) /\ FreshInv /\ [Next]_vars => QuietInv(a)' /\ FreshInv'
  BY <1>1, QuietStep, FreshStep
<1>4. QuietInv(a) => MeansHold
  <2> SUFFICES ASSUME QuietInv(a), NEW f \in settled, AlgorithmOf(f) = a  PROVE MeansHoldFor(AsNew(f))
    BY DEF MeansHold
  <2> DEFINE o == AsNew(f)
             Around(k) == {j \in DOMAIN table : /\ j.pid = k.pid /\ j.sensor = k.sensor /\ ~j.aggregated
                                                /\ j.time - k.time \in -60 .. 60 /\ j # k}
             Good(k) == SetMatches(o.neighbor_flags, table[k]) /\ table[k].original \notin {Missing, Rejected}
  <2>1. Done(table, o, a) /\ ReadyInv /\ TypeInv
    BY DEF QuietInv, ReadyInv
  <2>2. \A t, p, k : ToDo(t, p, a, k) <=> FillsAt(t, p, k)
    BY FillMeans
  <2>3. ASSUME NEW k \in DOMAIN table, k.pid \in ToSet(o.pids), ~k.aggregated, o.window[1] <= k.time, k.time <= o.window[2],
               table[k].control.ftime = 1, table[k].control.fmis \in {1, 4}, table[k].control.fhqc = 0,
               NEW i \in Around(k), NEW j \in Around(k), i.time < k.time, k.time < j.time, Around(k) = {i, j}
        PROVE  Good(i) /\ Good(j) /\ IsMean(table[k].corrected.value, table[i].original, table[j].original)
    <3>1. Selected(table, o, a, k)
      BY <2>1, <2>3, FilledSelected
    <3>2. ~FillsAt(table, o, k)
      BY <2>1, <2>2, <3>1 DEF Done
    <3> DEFINE around == Around(k)
    <3>3. around = {n \in DOMAIN table : /\ n.pid = k.pid /\ n.sensor = k.sensor /\ ~n.aggregated
                                         /\ n.time - k.time \in -60 .. 60 /\ n # k}
      OBVIOUS
    <3>4. i \in around /\ j \in around /\ around = {i, j}
      BY <2>3
    <3> HIDE DEF around, Around, o
    <3>5. /\ IsGood(table, o, i) /\ IsGood(table, o, j)
          /\ IsMean(table[k].corrected.value, table[i].original, table[j].original)
      BY <2>1, <2>3, <3>2, <3>3, <3>4, MeanOf
    <3> QED  BY <3>5 DEF IsGood
  <2>4. MeansHoldFor(o)
    <3> HIDE DEF o
    <3> QED  BY ONLY <2>3 DEF MeansHoldFor
  <2> QED  BY ONLY <2>4
<1> QED
  BY <1>2, <1>3, <1>4, PTL DEF Spec
=============================================================================
