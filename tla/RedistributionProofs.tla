------------------------ MODULE RedistributionProofs ------------------------
(***************************************************************************)
(* For every length of the table, every table to start from, whatever the  *)
(* neighbours measure and the operators put in: a run overwrites a row an  *)
(* operator has dealt with only if it had read it before he did so; an     *)
(* accumulation has the shape its checks assume; what is written adds up   *)
(* to what was accumulated; a second run has nothing to write; and nothing *)
(* that could be distributed is left.                                      *)
(*                                                                         *)
(* The amounts are sums over lists and results of a loop, recursive        *)
(* functions in the model; Recursion and IntervalInduction tell what holds *)
(* of them.  The rounding error is bounded over the products with twice    *)
(* the total of the means: 2A m - T <= 2T share <= 2A m + T for each day,  *)
(* summed up over the days, is divided by T in the end.                    *)
(***************************************************************************)
EXTENDS Redistribution, FiniteInduction, SequenceTheorems, TLAPS

\* An update has its four fields.
IsUpdate(u) == u = [day |-> u.day, isNew |-> u.isNew, old |-> u.old, new |-> u.new]

\* The accumulation at hand was read from rows no operator has dealt with.
AccInv == pc \in {"distribute", "store"} =>
            \A i \in DOMAIN acc : IsUpdate(acc[i]) /\ Hqc04(acc[i].old)

-----------------------------------------------------------------------------
\* What findMissing finds are updates.
LEMMA FindMissingUpdates ==
    ASSUME NEW e, NEW from, NEW a \in FindMissing(e, from), NEW i \in DOMAIN a
    PROVE  IsUpdate(a[i])
<1>1. PICK b \in Boundaries(e, from) : a = [k \in 1 .. e.day - b |-> Point(e, e.day + 1 - k)]
  BY DEF FindMissing
<1> DEFINE d == e.day + 1 - i
<1>2. a[i] = Point(e, d)  BY <1>1
<1> HIDE DEF d
<1>3. ASSUME NEW x, NEW n, NEW r PROVE IsUpdate(Update(x, n, r))
  BY DEF Update, IsUpdate
<1>4. CASE d = e.day
  <2>1. a[i] = Update(d, FALSE, e.row)  BY <1>2, <1>4 DEF Point
  <2>2. QED  BY <1>3, <2>1
<1>5. CASE d # e.day
  <2> DEFINE n == rows[d] = NoRow
             r == IF rows[d] = NoRow THEN MissingRow ELSE rows[d]
  <2>1. a[i] = Update(d, n, r)  BY <1>2, <1>5, Zenon DEF Point
  <2> HIDE DEF n, r
  <2>2. QED  BY <1>3, <2>1
<1>6. QED  BY <1>4, <1>5

\* An accumulation that passes its check has only rows with fhqc 0 or 4.
LEMMA CheckedHqc04 ==
    ASSUME NEW a, CheckAccumulationPeriod(a), NEW i \in DOMAIN a
    PROVE  Hqc04(a[i].old)
  BY DEF CheckAccumulationPeriod, AllHqc04

\* Distributing changes neither which rows are updated nor what was read of them.
LEMMA RedistributedOld ==
    ASSUME NEW a, NEW c, NEW i \in DOMAIN Redistributed(a, c), \A k \in DOMAIN a : IsUpdate(a[k])
    PROVE  /\ i \in DOMAIN a
           /\ IsUpdate(Redistributed(a, c)[i])
           /\ Redistributed(a, c)[i].old = a[i].old
<1>1. i \in DOMAIN a  BY DEF Redistributed
<1> DEFINE n == FlagChange([a[i].old EXCEPT !.corrected = c[i]], IF i = 1 THEN 8 ELSE 7)
<1>2. Redistributed(a, c)[i] = [a[i] EXCEPT !.new = n]  BY <1>1 DEF Redistributed
<1> HIDE DEF n
<1>3. a[i] = [day |-> a[i].day, isNew |-> a[i].isNew, old |-> a[i].old, new |-> a[i].new]
  BY <1>1 DEF IsUpdate
<1>4. [a[i] EXCEPT !.new = n] =
        [day |-> a[i].day, isNew |-> a[i].isNew, old |-> a[i].old, new |-> n]
  BY <1>3
<1>5. QED  BY <1>1, <1>2, <1>4 DEF IsUpdate

\* Both ways of distributing set corrected values and flags.
LEMMA DistributedOld ==
    ASSUME AccInv, pc = "distribute", NEW i \in DOMAIN acc',
           acc' = RedistributeBoneDry(acc) \/ acc' = RedistributePrecipitation(acc)
    PROVE  IsUpdate(acc'[i]) /\ Hqc04(acc'[i].old)
<1>1. \E c : acc' = Redistributed(acc, c)
  BY DEF RedistributeBoneDry, RedistributePrecipitation
<1>2. PICK c : acc' = Redistributed(acc, c)  BY <1>1
<1>3. \A k \in DOMAIN acc : IsUpdate(acc[k]) /\ Hqc04(acc[k].old)  BY DEF AccInv
<1>4. QED  BY <1>2, <1>3, RedistributedOld

-----------------------------------------------------------------------------
LEMMA AccStep == AccInv /\ [Next]_vars => AccInv'
<1> SUFFICES ASSUME AccInv, [Next]_vars PROVE AccInv'  OBVIOUS
<1>1. CASE LookBack
  <2> DEFINE e == Head(todo)
             usable == {a \in FindMissing(e, earliest) : CheckAccumulationPeriod(a)}
  <2>1. CASE usable = {}  BY <1>1, <2>1 DEF LookBack, AccInv
  <2>2. CASE usable # {}
    <3>1. acc' \in usable  BY <1>1, <2>2 DEF LookBack
    <3>2. acc' \in FindMissing(e, earliest) /\ CheckAccumulationPeriod(acc')  BY <3>1
    <3>3. \A i \in DOMAIN acc' : IsUpdate(acc'[i])  BY <3>2, FindMissingUpdates
    <3>4. \A i \in DOMAIN acc' : Hqc04(acc'[i].old)  BY <3>2, CheckedHqc04
    <3>5. QED  BY <3>3, <3>4 DEF AccInv
  <2>3. QED  BY <2>1, <2>2
<1>2. CASE DistributeBoneDry
  BY <1>2, DistributedOld DEF DistributeBoneDry, AccInv
<1>3. CASE DistributePrecipitation
  BY <1>3, DistributedOld DEF DistributePrecipitation, AccInv
<1>4. CASE StartRun \/ CannotDistribute \/ UpdateOrInsertData \/ InsertRefused \/ EndRun \/ Abort
  BY <1>4, Zenon DEF StartRun, CannotDistribute, UpdateOrInsertData, InsertRefused, EndRun, Abort, AccInv
<1>5. CASE SkipEndpoint \/ NeighboursReport \/ UNCHANGED vars
  BY <1>5 DEF SkipEndpoint, NeighboursReport, AccInv, vars, runVars
<1>6. CASE \E d \in Days : Cleanup(d) \/ Observe(d) \/ \E v \in HqcValues : Hqc(d, v)
  BY <1>6, Zenon DEF Cleanup, Observe, Hqc, AccInv, runVars
<1>7. QED
  BY <1>1, <1>2, <1>3, <1>4, <1>5, <1>6 DEF Next, Run, Outside

\* The only step of the program that touches the table is that of the transaction.
LEMMA OnlyStoreWrites ==
    ASSUME [Next]_vars, outside' = outside, outside \in Nat, rows' # rows
    PROVE  UpdateOrInsertData
<1>1. ~FromOutside  BY DEF FromOutside
<1>2. ~Outside
  BY <1>1, Zenon DEF Outside, Cleanup, Observe, Hqc, NeighboursReport, Abort
<1>3. CASE UNCHANGED vars  BY <1>3 DEF vars, tableVars
<1>4. CASE Run
  BY <1>4 DEF Run, StartRun, SkipEndpoint, LookBack, DistributeBoneDry, DistributePrecipitation,
              CannotDistribute, InsertRefused, EndRun, tableVars
<1>5. QED  BY <1>2, <1>3, <1>4 DEF Next

\* A row that the transaction changes was read, and as a row without fhqc.
LEMMA WrittenWasRead ==
    ASSUME AccInv, UpdateOrInsertData, NEW d \in Days, rows[d] # NoRow, rows'[d] # rows[d]
    PROVE  \E i \in DOMAIN acc : acc[i].day = d /\ Hqc04(acc[i].old)
<1> DEFINE is == {i \in Writes : acc[i].day = d}
<1>1. rows'[d] = Written(d)  BY DEF UpdateOrInsertData
<1>2. is # {}  BY <1>1, Zenon DEF Written
<1>3. PICK i \in is : TRUE  BY <1>2
<1>4. i \in DOMAIN acc /\ acc[i].day = d  BY <1>3 DEF Writes
<1>5. Hqc04(acc[i].old)  BY <1>4 DEF AccInv, UpdateOrInsertData
<1>6. QED  BY <1>4, <1>5

-----------------------------------------------------------------------------
\* RedistributionAlgorithm.cc:277-287 and 611-623: a row of which fhqc tells that
\* an operator has dealt with it is overwritten by a run only if the run had read
\* something else there, because he did so after it was read.
THEOREM RedistributionKeepsHqc == Spec => HqcKept
<1> DEFINE Inv == AccInv /\ outside \in Nat
<1>1. Init => Inv  BY DEF Init, AccInv
<1>2. Inv /\ [Next]_vars => outside' \in Nat
  <2>1. Run => outside' = outside
    BY Zenon DEF Run, StartRun, SkipEndpoint, LookBack, DistributeBoneDry, DistributePrecipitation,
                 CannotDistribute, UpdateOrInsertData, InsertRefused, EndRun, historyVars
  <2>2. Outside => FromOutside
    BY Zenon DEF Outside, Cleanup, Observe, Hqc, NeighboursReport, Abort
  <2>3. FromOutside => outside' = outside + 1  BY DEF FromOutside
  <2>4. UNCHANGED vars => outside' = outside  BY DEF vars, historyVars
  <2>5. QED  BY <2>1, <2>2, <2>3, <2>4 DEF Next
<1>3. Inv /\ [Next]_vars => Inv'  BY <1>2, AccStep
<1>4. ASSUME Inv, [Next]_vars, outside' = outside,
             NEW d \in Days, rows[d] # NoRow, ~Hqc04(rows[d]), rows'[d] # rows[d]
      PROVE  \E i \in DOMAIN acc : acc[i].day = d /\ acc[i].old # rows[d]
  <2>1. UpdateOrInsertData  BY <1>4, OnlyStoreWrites
  <2>2. QED  BY <1>4, <2>1, WrittenWasRead
<1>5. Inv /\ [Next]_vars =>
        [outside' = outside =>
            \A d \in Days :
                rows[d] # NoRow /\ ~Hqc04(rows[d]) /\ rows'[d] # rows[d] =>
                    \E i \in DOMAIN acc : acc[i].day = d /\ acc[i].old # rows[d]]_vars
  BY <1>4
<1> HIDE DEF Inv
<1>6. QED  BY <1>1, <1>3, <1>5, PTL DEF Spec, HqcKept

-----------------------------------------------------------------------------
(* Totals.                                                                 *)

\* f has the sums of the beginnings of s.
IsSum(f, s) ==
    /\ f \in [0 .. Len(s) -> Int] /\ f[0] = 0
    /\ \A n \in 1 .. Len(s) : f[n] = f[n - 1] + s[n]

\* A function over 1 .. n is a list.
LEMMA ListOf ==
  ASSUME NEW S, NEW n \in Nat, NEW f, f = [i \in 1 .. n |-> f[i]], \A i \in 1 .. n : f[i] \in S
  PROVE  f \in Seq(S) /\ Len(f) = n /\ DOMAIN f = 1 .. n
<1>1. DOMAIN f = 1 .. n
  OBVIOUS
<1>2. f \in [1 .. n -> S]
  OBVIOUS
<1>3. f \in Seq(S)
  BY <1>2, SeqDef
<1> QED
  BY <1>1, <1>3, LenProperties

\* Total is the last of the sums of the beginnings of a list.
LEMMA TotalIsSum ==
  ASSUME NEW s \in Seq(Int)
  PROVE  \E f : IsSum(f, s) /\ Total(s) = f[Len(s)]
<1> DEFINE last == Len(s)
           IsUpTo(f) == f = [n \in 0 .. last |-> IF n = 0 THEN 0 ELSE f[n - 1] + s[n]]
           upTo == CHOOSE f : IsUpTo(f)
           step == [p \in Int \X (1 .. last) |-> p[1] + s[p[2]]]
<1>1. last \in Nat /\ \A n \in 1 .. last : s[n] \in Int
  BY LenProperties, ElementOfSeq
<1>0. Total(s) = upTo[last]
  BY DEF Total
<1>2. step \in [Int \X (1 .. last) -> Int]
  BY <1>1
<1>3. PICK f \in [0 .. last -> Int] : RecursiveOver(f, last, 0, step)
  <2> DEFINE D == Int
  <2>1. last \in Nat /\ 0 \in D /\ step \in [D \X (1 .. last) -> D]
    BY <1>1, <1>2
  <2> HIDE DEF step, D
  <2>2. \E f \in [0 .. last -> D] : RecursiveOver(f, last, 0, step)
    BY <2>1, Recursion
  <2> QED  BY <2>2 DEF D
<1> HIDE DEF last, upTo
<1>4. f[0] = 0 /\ \A n \in 1 .. last : f[n] = f[n - 1] + s[n]
  <2>1. f[0] = 0 /\ \A n \in 1 .. last : f[n] = step[<<f[n - 1], n>>]
    <3> HIDE DEF step
    <3> QED  BY <1>3 DEF RecursiveOver
  <2>2. \A n \in 1 .. last : f[n - 1] \in Int
    BY <1>1
  <2> QED  BY <1>1, <2>1, <2>2
<1>5. IsUpTo(f)
  BY <1>1, <1>4
<1>6. IsUpTo(upTo)
  <2> HIDE DEF IsUpTo
  <2> QED  BY <1>5 DEF upTo
<1>7. upTo[0] = 0 /\ \A n \in 1 .. last : upTo[n] = upTo[n - 1] + s[n]
  BY <1>1, <1>6
<1> DEFINE T == {n \in 0 .. last : upTo[n] = f[n]}
<1>8. 0 .. last \subseteq T
  <2>1. 0 \in T
    BY <1>1, <1>4, <1>7
  <2>2. ASSUME NEW n \in 1 .. last, n - 1 \in T  PROVE n \in T
    BY <1>1, <1>4, <1>7, <2>2
  <2> HIDE DEF T
  <2> QED  BY <1>1, <2>1, <2>2, IntervalInduction
<1>9. upTo[last] = f[last]
  BY <1>1, <1>8
<1> QED
  BY <1>0, <1>3, <1>4, <1>9 DEF IsSum, last

\* Totals are numbers ...
LEMMA TotalInt ==
  ASSUME NEW s \in Seq(Int)
  PROVE  Total(s) \in Int
<1>1. PICK f : IsSum(f, s) /\ Total(s) = f[Len(s)]
  BY TotalIsSum
<1> QED
  BY <1>1, LenProperties DEF IsSum

\* ... not negative if nothing in them is ...
LEMMA TotalNat ==
  ASSUME NEW s \in Seq(Nat)
  PROVE  Total(s) \in Nat
<1>0. s \in Seq(Int) /\ Len(s) \in Nat /\ \A n \in 1 .. Len(s) : s[n] \in Nat
  BY LenProperties, ElementOfSeq, SeqMonotonic
<1>1. PICK f : IsSum(f, s) /\ Total(s) = f[Len(s)]
  BY <1>0, TotalIsSum
<1> DEFINE T == {n \in 0 .. Len(s) : f[n] \in Nat}
<1>2. 0 \in T
  BY <1>0, <1>1 DEF IsSum
<1>3. ASSUME NEW n \in 1 .. Len(s), n - 1 \in T  PROVE n \in T
  BY <1>0, <1>1, <1>3 DEF IsSum
<1>4. 0 .. Len(s) \subseteq T
  <2> HIDE DEF T
  <2> QED  BY <1>0, <1>2, <1>3, IntervalInduction
<1> QED
  BY <1>0, <1>1, <1>4

\* ... and zero if all in them is.
LEMMA TotalZero ==
  ASSUME NEW s \in Seq(Int), \A n \in 1 .. Len(s) : s[n] = 0
  PROVE  Total(s) = 0
<1>0. Len(s) \in Nat
  BY LenProperties
<1>1. PICK f : IsSum(f, s) /\ Total(s) = f[Len(s)]
  BY <1>0, TotalIsSum
<1> DEFINE T == {n \in 0 .. Len(s) : f[n] = 0}
<1>2. 0 \in T
  BY <1>0, <1>1 DEF IsSum
<1>3. ASSUME NEW n \in 1 .. Len(s), n - 1 \in T  PROVE n \in T
  BY <1>0, <1>1, <1>3 DEF IsSum
<1>4. 0 .. Len(s) \subseteq T
  <2> HIDE DEF T
  <2> QED  BY <1>0, <1>2, <1>3, IntervalInduction
<1> QED
  BY <1>0, <1>1, <1>4

\* One member changed changes the total by as much.
LEMMA TotalChanged ==
  ASSUME NEW s \in Seq(Int), NEW t \in Seq(Int), Len(t) = Len(s), NEW i \in 1 .. Len(s),
         \A k \in 1 .. Len(s) : k # i => t[k] = s[k]
  PROVE  Total(t) = Total(s) - s[i] + t[i]
<1>0. Len(s) \in Nat /\ s[i] \in Int /\ t[i] \in Int /\ i \in Nat
      /\ \A k \in 1 .. Len(s) : s[k] \in Int /\ t[k] \in Int
  BY LenProperties, ElementOfSeq
<1>1. PICK f : IsSum(f, s) /\ Total(s) = f[Len(s)]
  BY TotalIsSum
<1>2. PICK g : IsSum(g, t) /\ Total(t) = g[Len(s)]
  BY TotalIsSum
<1>a. /\ f[0] = 0 /\ \A n \in 1 .. Len(s) : f[n] = f[n - 1] + s[n]
      /\ g[0] = 0 /\ \A n \in 1 .. Len(s) : g[n] = g[n - 1] + t[n]
      /\ \A n \in 0 .. Len(s) : f[n] \in Int /\ g[n] \in Int
  BY <1>1, <1>2 DEF IsSum
<1> DEFINE T == {n \in 0 .. Len(s) : g[n] = IF n < i THEN f[n] ELSE f[n] - s[i] + t[i]}
<1>3. 0 \in T
  BY <1>0, <1>a
<1>4. ASSUME NEW n \in 1 .. Len(s), n - 1 \in T  PROVE n \in T
  <2>0. /\ f[n] = f[n - 1] + s[n] /\ g[n] = g[n - 1] + t[n] /\ n - 1 \in 0 .. Len(s)
        /\ f[n - 1] \in Int /\ g[n - 1] \in Int /\ s[n] \in Int /\ t[n] \in Int /\ n \in Nat
    BY <1>0, <1>a
  <2>1. g[n - 1] = IF n - 1 < i THEN f[n - 1] ELSE f[n - 1] - s[i] + t[i]
    BY <1>4
  <2>2. CASE n < i
    <3>1. t[n] = s[n] /\ n - 1 < i
      BY <1>0, <2>0, <2>2
    <3> QED  BY <1>0, <2>0, <2>1, <2>2, <3>1
  <2>3. CASE n = i
    BY <1>0, <2>0, <2>1, <2>3
  <2>4. CASE n > i
    <3>1. t[n] = s[n] /\ ~ (n - 1 < i) /\ ~ (n < i)
      BY <1>0, <2>0, <2>4
    <3>2. g[n - 1] = f[n - 1] - s[i] + t[i]
      BY <2>1, <3>1
    <3>5. g[n] = f[n] - s[i] + t[i]
      <4>1. g[n] = g[n - 1] + s[n]
        BY <2>0, <3>1
      <4>2. f[n - 1] \in Int /\ s[i] \in Int /\ t[i] \in Int /\ s[n] \in Int
        BY <1>0, <2>0
      <4>3. f[n] = f[n - 1] + s[n]
        BY <2>0
      <4> QED
        BY ONLY <3>2, <4>1, <4>2, <4>3
    <3> QED  BY <3>1, <3>5
  <2> QED  BY <1>0, <2>0, <2>2, <2>3, <2>4
<1>5. 0 .. Len(s) \subseteq T
  <2> HIDE DEF T
  <2> QED  BY <1>0, <1>3, <1>4, IntervalInduction
<1> QED
  BY <1>0, <1>1, <1>2, <1>5

\* What div promises.
LEMMA Division ==
  ASSUME NEW x \in Nat, NEW d \in Nat \ {0}
  PROVE  (x \div d) \in Nat /\ d * (x \div d) <= x /\ x < d * (x \div d) + d
  OBVIOUS

\* Multiplication distributes over sums; the provers are not to look for it.
LEMMA Distributes ==
  ASSUME NEW c \in Int, NEW x \in Int, NEW y \in Int
  PROVE  c * (x + y) = c * x + c * y /\ c * (x - y) = c * x - c * y /\ c * x \in Int /\ c * y \in Int
  OBVIOUS

\* A positive factor on both sides can be left out.
LEMMA Cancels ==
  ASSUME NEW c \in Int, c > 0, NEW x \in Int, NEW y \in Int, c * x <= c * y
  PROVE  x <= y
<1>1. CASE x > y
  <2>1. x - y \in Nat /\ x - y >= 1
    BY <1>1
  <2>2. c * (x - y) >= c
    BY <2>1
  <2>3. c * x = c * (x - y) + c * y
    OBVIOUS
  <2> QED  BY <2>2, <2>3
<1> QED  BY <1>1

\* Shares of A in proportion to m, each rounded by half a unit at most, miss A by half a unit
\* for each of them at most.
LEMMA RoundedShares ==
  ASSUME NEW A \in Nat, NEW m \in Seq(Nat), NEW s \in Seq(Int), Len(s) = Len(m), Total(m) > 0,
         \A i \in 1 .. Len(m) :
            /\ (2 * Total(m)) * s[i] <= (2 * A) * m[i] + Total(m)
            /\ (2 * A) * m[i] - Total(m) <= (2 * Total(m)) * s[i]
  PROVE  -Len(m) <= 2 * (Total(s) - A) /\ 2 * (Total(s) - A) <= Len(m)
<1> DEFINE total == Total(m)
           last == Len(m)
           c == 2 * total
           d == 2 * A
<1>1. m \in Seq(Int) /\ last \in Nat /\ total \in Nat /\ total > 0 /\ c \in Nat /\ d \in Nat /\ Total(s) \in Int
      /\ \A i \in 1 .. last : m[i] \in Nat /\ s[i] \in Int
  BY LenProperties, ElementOfSeq, SeqMonotonic, TotalNat, TotalInt
<1>2. PICK f : IsSum(f, m) /\ total = f[last]
  BY <1>1, TotalIsSum
<1>3. PICK g : IsSum(g, s) /\ Total(s) = g[last]
  BY <1>1, TotalIsSum
<1>4. /\ f[0] = 0 /\ \A n \in 1 .. last : f[n] = f[n - 1] + m[n]
      /\ g[0] = 0 /\ \A n \in 1 .. last : g[n] = g[n - 1] + s[n]
      /\ \A n \in 0 .. last : f[n] \in Int /\ g[n] \in Int
  BY <1>1, <1>2, <1>3 DEF IsSum
<1>5. \A i \in 1 .. last : c * s[i] <= d * m[i] + total /\ d * m[i] - total <= c * s[i]
  OBVIOUS
<1> DEFINE T == {n \in 0 .. last : c * g[n] <= d * f[n] + total * n /\ d * f[n] - total * n <= c * g[n]}
<1> HIDE DEF c, d, total, last
<1>6. 0 \in T
  BY <1>1, <1>4
<1>7. ASSUME NEW n \in 1 .. last, n - 1 \in T  PROVE n \in T
  <2>1. /\ f[n] = f[n - 1] + m[n] /\ g[n] = g[n - 1] + s[n] /\ n - 1 \in 0 .. last
        /\ f[n - 1] \in Int /\ g[n - 1] \in Int /\ s[n] \in Int /\ m[n] \in Int /\ n \in Int
    BY <1>1, <1>4
  <2>2. c * g[n - 1] <= d * f[n - 1] + total * (n - 1) /\ d * f[n - 1] - total * (n - 1) <= c * g[n - 1]
    BY <1>7
  <2>3. c * s[n] <= d * m[n] + total /\ d * m[n] - total <= c * s[n]
    BY <1>5
  <2> DEFINE G == c * g[n - 1]
             S == c * s[n]
             F == d * f[n - 1]
             M == d * m[n]
             U == total * n
  <2>4. c * (g[n - 1] + s[n]) = G + S /\ G \in Int /\ S \in Int
    <3>1. c \in Int /\ g[n - 1] \in Int /\ s[n] \in Int
      BY <1>1, <2>1
    <3> QED  BY ONLY <3>1, Distributes
  <2>5. d * (f[n - 1] + m[n]) = F + M /\ F \in Int /\ M \in Int
    <3>1. d \in Int /\ f[n - 1] \in Int /\ m[n] \in Int
      BY <1>1, <2>1
    <3> QED  BY ONLY <3>1, Distributes
  <2>6. total * (n - 1) = U - total /\ U \in Int /\ total \in Int
    BY <1>1, <2>1
  <2>a. G <= F + (U - total) /\ F - (U - total) <= G /\ S <= M + total /\ M - total <= S
    BY <2>2, <2>3, <2>6
  <2>b. c * g[n] = G + S /\ d * f[n] = F + M
    BY <2>1, <2>4, <2>5
  <2> HIDE DEF G, S, F, M, U
  <2>c. G + S <= (F + M) + U /\ (F + M) - U <= G + S
    BY ONLY <2>a, <2>4, <2>5, <2>6
  <2>7. c * g[n] <= d * f[n] + total * n /\ d * f[n] - total * n <= c * g[n]
    BY <2>b, <2>c DEF U
  <2> QED  BY <2>7
<1>8. 0 .. last \subseteq T
  <2> HIDE DEF T
  <2> QED  BY <1>1, <1>6, <1>7, IntervalInduction
<1>9. c * Total(s) <= d * total + total * last /\ d * total - total * last <= c * Total(s)
  <2>1. last \in T
    BY <1>1, <1>8
  <2> QED  BY <1>2, <1>3, <2>1
<1>10. c * Total(s) = total * (2 * Total(s)) /\ d * total = total * (2 * A)
  BY <1>1 DEF c, d
<1>11. total * (2 * Total(s)) <= total * (2 * A + last) /\ total * (2 * A - last) <= total * (2 * Total(s))
  <2>1. total * (2 * A + last) = total * (2 * A) + total * last
        /\ total * (2 * A - last) = total * (2 * A) - total * last
    BY <1>1, Distributes
  <2> QED  BY <1>9, <1>10, <2>1
<1>12. 2 * Total(s) <= 2 * A + last
  BY <1>1, <1>11, Cancels
<1>13. 2 * A - last <= 2 * Total(s)
  <2>1. 2 * A - last \in Int /\ 2 * Total(s) \in Int /\ total \in Int /\ total > 0
    BY <1>1
  <2> QED  BY ONLY <2>1, <1>11, Cancels
<1> QED
  BY <1>1, <1>12, <1>13 DEF last

-----------------------------------------------------------------------------
(* Rows, endpoints and accumulations.                                      *)

\* The values that are no amounts are numbers all the same.
LEMMA SpecialValues == Missing \in Int /\ BoneDry \in Int /\ BoneDry < 0
  BY DEF Missing, BoneDry

\* The row of a hole and the one made up for it have the fields of a row.
LEMMA RowValues == NoRow \in Row /\ MissingRow \in Row
  BY SpecialValues DEF NoRow, MissingRow, Row

\* An endpoint as read at the start of a run.
Queued == [day : UT0 .. UT1, row : Row]

\* What a run reads at its start are days from UT0 to UT1 with their rows.
LEMMA EndpointsList ==
  ASSUME rows \in [Days -> Row]
  PROVE  Endpoints \in Seq(Queued)
<1> DEFINE last == UT1 - UT0 + 1
           Step1(s, n) == IF rows[UT0 - 1 + n] # NoRow /\ EndpointFlags(rows[UT0 - 1 + n])
                          THEN Append(s, [day |-> UT0 - 1 + n, row |-> rows[UT0 - 1 + n]]) ELSE s
           IsUpTo(f) == f = [n \in 0 .. last |-> IF n = 0 THEN <<>> ELSE Step1(f[n - 1], n)]
           upTo == CHOOSE f : IsUpTo(f)
           D == Seq(Queued)
           step == [p \in D \X (1 .. last) |-> Step1(p[1], p[2])]
<1>1. last \in Nat /\ \A n \in 1 .. last : UT0 - 1 + n \in UT0 .. UT1 /\ UT0 - 1 + n \in Days
  BY DaysAssumption DEF Days
<1>0. Endpoints = upTo[last]
  BY DEF Endpoints
<1> HIDE DEF last, upTo
<1>2. step \in [D \X (1 .. last) -> D] /\ <<>> \in D
  <2>1. ASSUME NEW s \in D, NEW n \in 1 .. last  PROVE Step1(s, n) \in D
    <3>1. [day |-> UT0 - 1 + n, row |-> rows[UT0 - 1 + n]] \in Queued
      BY <1>1 DEF Queued
    <3> QED  BY <3>1, AppendProperties
  <2> QED  BY <2>1
<1>3. PICK f \in [0 .. last -> D] : RecursiveOver(f, last, <<>>, step)
  <2> HIDE DEF step, D
  <2> QED  BY <1>1, <1>2, Recursion
<1>4. IsUpTo(f)
  <2> HIDE DEF Step1
  <2>1. f[0] = <<>> /\ \A n \in 1 .. last : f[n] = step[<<f[n - 1], n>>]
    BY <1>3 DEF RecursiveOver
  <2>2. \A n \in 1 .. last : f[n - 1] \in D
    BY <1>1
  <2>3. \A n \in 1 .. last : f[n] = Step1(f[n - 1], n)
    BY <1>1, <2>1, <2>2
  <2> QED  BY <1>1, <2>1, <2>3
<1>5. IsUpTo(upTo)
  <2> HIDE DEF IsUpTo
  <2> QED  BY <1>4 DEF upTo
<1>6. upTo[0] = <<>> /\ \A n \in 1 .. last : upTo[n] = Step1(upTo[n - 1], n)
  <2> HIDE DEF Step1
  <2> QED BY <1>1, <1>5
<1> DEFINE T == {n \in 0 .. last : upTo[n] = f[n]}
<1>7. 0 .. last \subseteq T
  <2>0. f[0] = <<>> /\ \A n \in 1 .. last : f[n] = Step1(f[n - 1], n)
    <3> HIDE DEF Step1
    <3> QED BY <1>1, <1>4
  <2> HIDE DEF Step1
  <2>1. 0 \in T
    BY <1>1, <1>6, <2>0
  <2>2. ASSUME NEW n \in 1 .. last, n - 1 \in T  PROVE n \in T
    BY <1>1, <1>6, <2>0, <2>2
  <2> HIDE DEF T
  <2> QED  BY <1>1, <2>1, <2>2, IntervalInduction
<1> QED
  BY <1>0, <1>1, <1>3, <1>7

\* The days before endpoint e, back in time.
IsAccumulation(a, e) ==
    /\ a \in Seq(Updates) /\ Len(a) > 0
    /\ a[1].old = e.row
    /\ \A i \in DOMAIN a : a[i].day = e.day + 1 - i

\* What findMissing finds are the days before an endpoint, back in time.
LEMMA FindMissingList ==
  ASSUME rows \in [Days -> Row], NEW e \in Queued, NEW from \in UT0 .. UT1, NEW a \in FindMissing(e, from)
  PROVE  IsAccumulation(a, e)
<1>1. PICK b \in Boundaries(e, from) : a = [i \in 1 .. e.day - b |-> Point(e, e.day + 1 - i)]
  BY DEF FindMissing
<1>2. e.day \in UT0 .. UT1 /\ e.row \in Row
  BY DEF Queued
<1>3. b \in Nat /\ b >= 1 /\ b < e.day
  BY <1>2, DaysAssumption DEF Boundaries, FirstRead
<1>4. e.day - b \in Nat /\ e.day - b >= 1 /\ e.day \in Int /\ DOMAIN a = 1 .. e.day - b
  BY <1>1, <1>2, <1>3, DaysAssumption
<1>5. ASSUME NEW d \in Days
      PROVE  /\ Point(e, d) \in Updates /\ Point(e, d).day = d
             /\ d = e.day => Point(e, d).old = e.row
  <2>1. rows[d] \in Row
    OBVIOUS
  <2>2. ASSUME NEW x \in BOOLEAN, NEW r \in Row
        PROVE  Update(d, x, r) \in Updates /\ Update(d, x, r).day = d /\ Update(d, x, r).old = r
    BY DEF Update, Updates
  <2>3. CASE d = e.day
    BY <1>2, <2>2, <2>3 DEF Point
  <2>4. CASE d # e.day
    <3> DEFINE r == IF rows[d] = NoRow THEN MissingRow ELSE rows[d]
               x == rows[d] = NoRow
    <3>1. Point(e, d) = Update(d, x, r)
      BY <2>4, Zenon DEF Point
    <3>2. r \in Row /\ x \in BOOLEAN
      BY <2>1, RowValues
    <3> HIDE DEF r, x
    <3> QED  BY <2>2, <2>4, <3>1, <3>2
  <2> QED  BY <2>3, <2>4
<1>6. ASSUME NEW i \in 1 .. e.day - b
      PROVE  a[i] \in Updates /\ a[i].day = e.day + 1 - i /\ (i = 1 => a[i].old = e.row)
  <2>1. e.day + 1 - i \in Days /\ (i = 1 => e.day + 1 - i = e.day)
    BY <1>2, <1>3, DaysAssumption DEF Days
  <2>2. a[i] = Point(e, e.day + 1 - i)
    BY <1>1
  <2> DEFINE d == e.day + 1 - i
  <2> HIDE DEF d
  <2>3. d \in Days /\ a[i] = Point(e, d) /\ (i = 1 => d = e.day)
    BY <2>1, <2>2 DEF d
  <2>4. a[i] \in Updates /\ a[i].day = d /\ (i = 1 => a[i].old = e.row)
    BY <1>5, <2>3
  <2> QED  BY <2>4 DEF d
<1>7. a = [i \in 1 .. e.day - b |-> a[i]]
  BY <1>1
<1>8. a \in Seq(Updates) /\ Len(a) = e.day - b
  <2> DEFINE n == e.day - b
  <2>1. n \in Nat /\ a = [i \in 1 .. n |-> a[i]] /\ \A i \in 1 .. n : a[i] \in Updates
    BY <1>4, <1>6, <1>7
  <2> HIDE DEF n
  <2>2. a \in Seq(Updates) /\ Len(a) = n
    BY <2>1, ListOf
  <2> QED  BY <2>2 DEF n
<1>9. 1 \in 1 .. e.day - b
  BY <1>4
<1> QED
  BY <1>4, <1>6, <1>8, <1>9 DEF IsAccumulation

\* Distributing sets the corrected values, and changes neither the days nor what was read.
LEMMA RedistributedList ==
  ASSUME NEW a \in Seq(Updates), NEW c, \A i \in DOMAIN a : c[i] \in Int
  PROVE  /\ Redistributed(a, c) \in Seq(Updates) /\ Len(Redistributed(a, c)) = Len(a)
         /\ DOMAIN Redistributed(a, c) = DOMAIN a
         /\ \A i \in DOMAIN a : /\ Redistributed(a, c)[i].day = a[i].day
                                /\ Redistributed(a, c)[i].old = a[i].old
                                /\ Redistributed(a, c)[i].new.corrected = c[i]
<1> DEFINE r == Redistributed(a, c)
<1>1. Len(a) \in Nat /\ DOMAIN a = 1 .. Len(a)
  BY LenProperties
<1>2. ASSUME NEW i \in 1 .. Len(a)
      PROVE  /\ r[i] \in Updates /\ r[i].day = a[i].day
             /\ r[i].old = a[i].old /\ r[i].new.corrected = c[i]
  <2>1. a[i] \in Updates /\ c[i] \in Int
    BY <1>1, ElementOfSeq
  <2> DEFINE o == [a[i].old EXCEPT !.corrected = c[i]]
             fd == IF i = 1 THEN 8 ELSE 7
             n == FlagChange(o, fd)
  <2>2. r[i] = [a[i] EXCEPT !.new = n]
    BY <1>1 DEF Redistributed
  <2>3. o \in Row /\ o.corrected = c[i] /\ fd \in Nat
    BY <2>1 DEF Updates, Row
  <2> HIDE DEF o, fd
  <2>4. n \in Row /\ n.corrected = c[i]
    BY <2>3 DEF FlagChange, Row
  <2> HIDE DEF n, r
  <2> QED  BY <2>1, <2>2, <2>4 DEF Updates
<1>3. r = [i \in 1 .. Len(a) |-> r[i]]
  BY <1>1 DEF Redistributed
<1> HIDE DEF r
<1>4. r \in Seq(Updates) /\ Len(r) = Len(a) /\ DOMAIN r = 1 .. Len(a)
  <2>1. \A i \in 1 .. Len(a) : r[i] \in Updates
    BY <1>2
  <2> QED  BY <1>1, <1>3, <2>1, ListOf
<1>5. QED
  BY <1>1, <1>2, <1>4 DEF r

-----------------------------------------------------------------------------
(* Distributing.                                                           *)

\* What values amount to.
Amounts(v) == [i \in DOMAIN v |-> Dry2Real(v[i])]

\* What the profiles promise of the neighbours of a day.
Near(n) == n \in Neighbours /\ (n.boneDry => n.mean = 0 /\ ~n.precip)

\* The states of the loop: delta is what the values are too much, half a unit each at most, and
\* only days with bone dry neighbours are bone dry.
FixStates(a) ==
    {st \in [values : Seq(Nat \union {BoneDry}), delta : Int] :
        /\ Len(st.values) = Len(a)
        /\ \A i \in 1 .. Len(a) : st.values[i] = BoneDry => nbr[a[i].day].boneDry
        /\ st.delta = Total(Amounts(st.values)) - Accumulated(a)
        /\ -Len(a) <= 2 * st.delta /\ 2 * st.delta <= Len(a)}

\* Amounts are not negative.
LEMMA AmountsList ==
  ASSUME NEW v \in Seq(Nat \union {BoneDry})
  PROVE  /\ Amounts(v) \in Seq(Nat) /\ Amounts(v) \in Seq(Int) /\ Len(Amounts(v)) = Len(v)
         /\ \A i \in 1 .. Len(v) : Amounts(v)[i] = Dry2Real(v[i])
<1>1. Len(v) \in Nat /\ DOMAIN v = 1 .. Len(v) /\ \A i \in 1 .. Len(v) : v[i] \in Nat \union {BoneDry}
  BY LenProperties, ElementOfSeq
<1>2. \A i \in 1 .. Len(v) : Amounts(v)[i] = Dry2Real(v[i]) /\ Dry2Real(v[i]) \in Nat
  BY <1>1 DEF Amounts, Dry2Real
<1>3. Amounts(v) = [i \in 1 .. Len(v) |-> Amounts(v)[i]]
  BY <1>1 DEF Amounts
<1>4. Amounts(v) \in Seq(Nat) /\ Len(Amounts(v)) = Len(v)
  BY <1>1, <1>2, <1>3, ListOf
<1> QED
  BY <1>2, <1>4, SeqMonotonic

\* The neighbours of the days of an accumulation are as the profiles have them.
LEMMA NearOf ==
  ASSUME nbr \in Profiles, NEW a \in Seq(Updates), NEW i \in 1 .. Len(a)
  PROVE  Near(nbr[a[i].day])
<1>1. a[i].day \in Days
  <2>1. a[i] \in Updates
    BY ElementOfSeq
  <2> QED  BY <2>1 DEF Updates
<1> DEFINE d == a[i].day
<1> HIDE DEF d
<1>2. d \in Days
  BY <1>1 DEF d
<1>3. nbr[d] \in Neighbours /\ (nbr[d].boneDry => nbr[d].mean = 0 /\ ~nbr[d].precip)
  BY <1>2, DataAssumption
<1> QED
  BY <1>3 DEF Near, d

\* One turn of the loop: what is too much gets less and never changes its sign, no value gets negative.
LEMMA FixUpFits ==
  ASSUME nbr \in Profiles, NEW a \in Seq(Updates), NEW st \in FixStates(a), NEW i \in 1 .. Len(a)
  PROVE  FixUp(a, st, i) \in FixStates(a)
<1> DEFINE v == st.values
           c == v[i]
           n == nbr[a[i].day]
           threshold == IF n.precip THEN st.delta + 1 ELSE 1
           newC == IF c > st.delta THEN c - st.delta ELSE 0
           w == [v EXCEPT ![i] = newC]
           new == [values |-> w, delta |-> st.delta - (c - newC)]
<1>1. FixUp(a, st, i) = IF st.delta = 0 \/ c < threshold THEN st ELSE new
  BY DEF FixUp
<1>2. SUFFICES ASSUME st.delta # 0, ~ (c < threshold)  PROVE new \in FixStates(a)
  <2> HIDE DEF c, threshold, new
  <2> QED  BY <1>1, <1>2
<1>3. /\ v \in Seq(Nat \union {BoneDry}) /\ st.delta \in Int /\ Len(v) = Len(a)
      /\ \A k \in 1 .. Len(a) : v[k] = BoneDry => nbr[a[k].day].boneDry
      /\ st.delta = Total(Amounts(v)) - Accumulated(a)
      /\ -Len(a) <= 2 * st.delta /\ 2 * st.delta <= Len(a)
  BY DEF FixStates
<1>4. Len(a) \in Nat /\ DOMAIN v = 1 .. Len(a) /\ \A k \in 1 .. Len(a) : v[k] \in Nat \union {BoneDry}
  BY <1>3, LenProperties, ElementOfSeq
<1>5. Near(n)
  BY NearOf
<1>6. c \in Nat
  <2>1. CASE c = BoneDry
    <3>1. n.boneDry
      BY <1>3, <2>1
    <3>2. threshold = 1
      BY <1>5, <3>1 DEF Near
    <3>3. c < 1
      BY <2>1 DEF BoneDry
    <3> QED  BY <1>2, <3>2, <3>3
  <2> QED  BY <1>4, <2>1
<1>7. newC \in Nat
  BY <1>3, <1>6
<1>8. c # BoneDry /\ newC # BoneDry
  BY <1>6, <1>7 DEF BoneDry
<1>9. w \in Seq(Nat \union {BoneDry}) /\ Len(w) = Len(a)
      /\ w[i] = newC /\ \A k \in 1 .. Len(a) : k # i => w[k] = v[k]
  <2> HIDE DEF newC, v
  <2>1. \A k \in 1 .. Len(a) : w[k] = (IF k = i THEN newC ELSE v[k]) /\ w[k] \in Nat \union {BoneDry}
    BY <1>4, <1>7
  <2>2. w = [k \in 1 .. Len(a) |-> w[k]]
    BY <1>4
  <2>3. w \in Seq(Nat \union {BoneDry}) /\ Len(w) = Len(a)
    <3> HIDE DEF w
    <3> QED  BY <1>4, <2>1, <2>2, ListOf
  <2> QED  BY <2>1, <2>3
<1> HIDE DEF w, v, newC, threshold, n
<1>10. Total(Amounts(w)) = Total(Amounts(v)) - c + newC
  <2>1. /\ Amounts(v) \in Seq(Int) /\ Len(Amounts(v)) = Len(a)
        /\ \A k \in 1 .. Len(a) : Amounts(v)[k] = Dry2Real(v[k])
    BY <1>3, AmountsList
  <2>2. /\ Amounts(w) \in Seq(Int) /\ Len(Amounts(w)) = Len(a)
        /\ \A k \in 1 .. Len(a) : Amounts(w)[k] = Dry2Real(w[k])
    BY <1>9, AmountsList
  <2>3. Amounts(v)[i] = c /\ Amounts(w)[i] = newC
    BY <1>8, <1>9, <2>1, <2>2 DEF Dry2Real
  <2>4. \A k \in 1 .. Len(a) : k # i => Amounts(w)[k] = Amounts(v)[k]
    BY <1>9, <2>1, <2>2
  <2>5. Total(Amounts(w)) = Total(Amounts(v)) - Amounts(v)[i] + Amounts(w)[i]
    BY <2>1, <2>2, <2>4, TotalChanged
  <2> QED  BY <2>3, <2>5
<1>11. Total(Amounts(v)) \in Int
  BY <1>3, AmountsList, TotalInt
<1>12. Accumulated(a) \in Int
  <2>1. a[1] \in Updates
    BY <1>4, ElementOfSeq
  <2> QED  BY <2>1 DEF Accumulated, Updates, Row
<1>13. /\ st.delta - (c - newC) \in Int
       /\ st.delta - (c - newC) = Total(Amounts(w)) - Accumulated(a)
  BY <1>3, <1>6, <1>7, <1>10, <1>11, <1>12
<1>14. /\ -Len(a) <= 2 * (st.delta - (c - newC)) /\ 2 * (st.delta - (c - newC)) <= Len(a)
  <2>1. CASE c > st.delta
    <3>1. newC = c - st.delta
      BY <2>1 DEF newC
    <3>2. st.delta - (c - newC) = 0
      BY <1>3, <1>6, <3>1
    <3> QED  BY <1>4, <3>2
  <2>2. CASE ~ (c > st.delta)
    <3>1. newC = 0
      BY <2>2 DEF newC
    <3>2. st.delta - (c - newC) >= 0 /\ st.delta - (c - newC) <= st.delta
      BY <1>3, <1>6, <2>2, <3>1
    <3> QED  BY <1>3, <1>4, <1>13, <3>2
  <2> QED  BY <2>1, <2>2
<1>15. \A k \in 1 .. Len(a) : w[k] = BoneDry => nbr[a[k].day].boneDry
  BY <1>3, <1>8, <1>9
<1> QED
  BY <1>9, <1>13, <1>14, <1>15 DEF FixStates

\* So does the whole loop.
LEMMA FixedUpFits ==
  ASSUME nbr \in Profiles, NEW a \in Seq(Updates), Rounded(a) \in FixStates(a)
  PROVE  FixedUp(a) \in FixStates(a)
<1> DEFINE last == Len(a)
           IsUpTo(f) == f = [i \in 0 .. last |-> IF i = 0 THEN Rounded(a) ELSE FixUp(a, f[i - 1], i)]
           upTo == CHOOSE f : IsUpTo(f)
           D == FixStates(a)
           step == [p \in D \X (1 .. last) |-> FixUp(a, p[1], p[2])]
<1>1. last \in Nat /\ Rounded(a) \in D
  BY LenProperties
<1>0. FixedUp(a) = upTo[last]
  BY DEF FixedUp
<1>2. step \in [D \X (1 .. last) -> D]
  <2>1. \A s \in D, n \in 1 .. last : FixUp(a, s, n) \in D
    BY FixUpFits
  <2> HIDE DEF D, last
  <2> QED  BY <2>1
<1> HIDE DEF last, upTo, D
<1>3. PICK f \in [0 .. last -> D] : RecursiveOver(f, last, Rounded(a), step)
  <2> HIDE DEF step
  <2> QED  BY <1>1, <1>2, Recursion
<1>4. f[0] = Rounded(a) /\ \A n \in 1 .. last : f[n] = FixUp(a, f[n - 1], n)
  <2>1. f[0] = Rounded(a) /\ \A n \in 1 .. last : f[n] = step[<<f[n - 1], n>>]
    <3> HIDE DEF step
    <3> QED  BY <1>3 DEF RecursiveOver
  <2>2. \A n \in 1 .. last : f[n - 1] \in D
    BY <1>1
  <2> QED  BY <1>1, <2>1, <2>2
<1>5. IsUpTo(f)
  BY <1>1, <1>4
<1>6. IsUpTo(upTo)
  <2> HIDE DEF IsUpTo
  <2> QED  BY <1>5 DEF upTo
<1>7. upTo[0] = Rounded(a) /\ \A n \in 1 .. last : upTo[n] = FixUp(a, upTo[n - 1], n)
  BY <1>1, <1>6
<1> DEFINE T == {n \in 0 .. last : upTo[n] = f[n]}
<1>8. 0 .. last \subseteq T
  <2>1. 0 \in T
    BY <1>1, <1>4, <1>7
  <2>2. ASSUME NEW n \in 1 .. last, n - 1 \in T  PROVE n \in T
    BY <1>1, <1>4, <1>7, <2>2
  <2> HIDE DEF T
  <2> QED  BY <1>1, <2>1, <2>2, IntervalInduction
<1>9. upTo[last] \in D
  BY <1>1, <1>3, <1>8
<1> QED
  BY <1>0, <1>9 DEF D

\* What each day gets before bone dry days are told apart.
Shares(a) == [i \in DOMAIN a |-> Share(a, i)]

\* The means of the days of an accumulation.
LEMMA MeansList ==
  ASSUME nbr \in Profiles, NEW a \in Seq(Updates)
  PROVE  /\ Means(a) \in Seq(Nat) /\ Len(Means(a)) = Len(a) /\ DOMAIN Means(a) = 1 .. Len(a)
         /\ \A i \in 1 .. Len(a) : Means(a)[i] = nbr[a[i].day].mean
         /\ Total(Means(a)) \in Nat
<1>1. Len(a) \in Nat /\ DOMAIN a = 1 .. Len(a)
  BY LenProperties
<1>2. \A i \in 1 .. Len(a) : Means(a)[i] = nbr[a[i].day].mean /\ nbr[a[i].day].mean \in Nat
  BY <1>1, NearOf DEF Means, Near, Neighbours
<1>3. Means(a) = [i \in 1 .. Len(a) |-> Means(a)[i]]
  BY <1>1 DEF Means
<1> QED
  BY <1>1, <1>2, <1>3, ListOf, TotalNat

\* A share is rounded by half a tenth at most; without rain, or without anything to share, it is zero.
LEMMA ShareRounds ==
  ASSUME nbr \in Profiles, NEW a \in Seq(Updates), NEW i \in 1 .. Len(a), Accumulated(a) \in Nat
  PROVE  /\ Share(a, i) \in Nat
         /\ Accumulated(a) = 0 \/ Means(a)[i] = 0 => Share(a, i) = 0
         /\ Total(Means(a)) > 0 =>
              /\ (2 * Total(Means(a))) * Share(a, i) <= (2 * Accumulated(a)) * Means(a)[i] + Total(Means(a))
              /\ (2 * Accumulated(a)) * Means(a)[i] - Total(Means(a)) <= (2 * Total(Means(a))) * Share(a, i)
<1> DEFINE total == Total(Means(a))
           d == 2 * Accumulated(a)
           m == Means(a)[i]
           x == d * m + total
           c == 2 * total
<1>1. total \in Nat /\ m \in Nat /\ d \in Nat
  BY MeansList, ElementOfSeq
<1>2. Share(a, i) = IF total = 0 THEN 0 ELSE x \div c
  BY DEF Share
<1>3. x \in Nat /\ c \in Nat /\ d * m \in Nat
  <2> HIDE DEF total, m, d
  <2> QED BY <1>1
<1>4. CASE total = 0
  BY <1>2, <1>4
<1>5. CASE total # 0
  <2> HIDE DEF total, m, d
  <2>1. c \in Nat \ {0} /\ total > 0
    BY <1>1, <1>5
  <2> HIDE DEF x, c
  <2>2. (x \div c) \in Nat /\ c * (x \div c) <= x /\ x < c * (x \div c) + c
    BY <1>3, <2>1, Division
  <2> DEFINE q == x \div c
  <2>3. Share(a, i) = q
    BY <1>2, <1>5
  <2> HIDE DEF q
  <2>4. q \in Nat /\ c * q <= x /\ x < c * q + c /\ c * q \in Nat
    BY <2>2, <1>3 DEF q
  <2>5. c * q <= d * m + total /\ d * m - total <= c * q
    <3> DEFINE y == d * m
               z == c * q
    <3>1. x = y + total /\ c = 2 * total /\ y \in Nat /\ z \in Nat /\ z <= x /\ x < z + c
      BY <1>3, <2>4 DEF x, c
    <3> HIDE DEF y, z
    <3>2. z <= y + total /\ y - total <= z
      BY ONLY <3>1, <1>1
    <3> QED  BY <3>2 DEF y, z
  <2>6. ASSUME Accumulated(a) = 0 \/ m = 0  PROVE q = 0
    <3>1. d * m = 0
      <4>1. d = 0 \/ m = 0
        BY <2>6 DEF d
      <4> QED  BY <1>1, <4>1
    <3>2. c * q <= total
      BY <1>1, <2>5, <3>1
    <3>3. CASE q >= 1
      <4>1. c * q >= c * 1
        BY <1>3, <2>4, <3>3
      <4> QED  BY <1>1, <2>1, <2>4, <3>2, <4>1 DEF c
    <3> QED  BY <2>4, <3>3
  <2>7. /\ q \in Nat /\ (Accumulated(a) = 0 \/ m = 0 => q = 0)
        /\ c * q <= d * m + total /\ d * m - total <= c * q
    BY <2>4, <2>5, <2>6
  <2> QED  BY <2>3, <2>7, Zenon DEF c, d, m, total
<1> QED
  BY <1>4, <1>5

\* What the loop starts from: each value is off by half a tenth at most.
LEMMA RoundedFits ==
  ASSUME nbr \in Profiles, NEW a \in Seq(Updates), Len(a) > 0, CanRedistribute(a)
  PROVE  Rounded(a) \in FixStates(a)
<1> DEFINE A == Accumulated(a)
           total == Total(Means(a))
           S == Shares(a)
           v == Rounded(a).values
<1>1. Len(a) \in Nat /\ DOMAIN a = 1 .. Len(a)
  BY LenProperties
<1>2. A \in Nat /\ total \in Nat /\ (A = 0 \/ total > 0)
  <2>1. a[1] \in Updates
    BY <1>1, ElementOfSeq
  <2>2. A \in Int
    BY <2>1 DEF Accumulated, Updates, Row
  <2>3. total \in Nat
    BY MeansList
  <2>4. CASE A = 0
    BY <2>3, <2>4
  <2>5. CASE A # 0
    <3>1. total > 0 /\ 1000 * A >= total
      BY <2>5 DEF CanRedistribute
    <3> QED  BY <2>2, <2>3, <3>1
  <2> QED  BY <2>4, <2>5
<1>3. \A i \in 1 .. Len(a) : S[i] = Share(a, i) /\ Share(a, i) \in Nat
  BY <1>1, <1>2, ShareRounds DEF Shares
<1>4. S \in Seq(Nat) /\ Len(S) = Len(a) /\ S \in Seq(Int)
  <2>1. S = [i \in 1 .. Len(a) |-> S[i]]
    BY <1>1 DEF Shares
  <2>2. \A i \in 1 .. Len(a) : S[i] \in Nat
    BY <1>3
  <2> HIDE DEF S
  <2>3. S \in Seq(Nat) /\ Len(S) = Len(a)
    BY <1>1, <2>1, <2>2, ListOf
  <2> QED  BY <2>3, SeqMonotonic
<1>5. v = [i \in 1 .. Len(a) |-> IF nbr[a[i].day].boneDry THEN BoneDry ELSE Share(a, i)]
      /\ Rounded(a) = [values |-> v, delta |-> Total(S) - A]
  BY <1>1 DEF Rounded, Shares
<1> HIDE DEF v
<1>6. \A i \in 1 .. Len(a) : /\ v[i] = (IF nbr[a[i].day].boneDry THEN BoneDry ELSE Share(a, i))
                            /\ v[i] \in Nat \union {BoneDry}
  BY <1>3, <1>5
<1>7. v \in Seq(Nat \union {BoneDry}) /\ Len(v) = Len(a) /\ DOMAIN v = 1 .. Len(a)
  <2>1. v = [i \in 1 .. Len(a) |-> v[i]]
    BY <1>5
  <2> QED  BY <1>1, <1>6, <2>1, ListOf
<1>8. ASSUME NEW i \in 1 .. Len(a)  PROVE Dry2Real(v[i]) = S[i]
  <2>1. CASE nbr[a[i].day].boneDry
    <3>1. Means(a)[i] = 0
      BY <2>1, NearOf, MeansList DEF Near
    <3>2. Share(a, i) = 0
      BY <1>2, <3>1, ShareRounds
    <3> QED  BY <1>3, <1>6, <2>1, <3>2 DEF Dry2Real
  <2>2. CASE ~nbr[a[i].day].boneDry
    <3>1. v[i] = Share(a, i) /\ v[i] \in Nat
      BY <1>3, <1>6, <2>2
    <3>2. v[i] # BoneDry
      BY <3>1 DEF BoneDry
    <3> QED  BY <1>3, <3>1, <3>2 DEF Dry2Real
  <2> QED  BY <2>1, <2>2
<1>9. Amounts(v) = S
  BY <1>1, <1>7, <1>8 DEF Amounts, Shares
<1>10. Total(S) \in Int
  BY <1>4, TotalInt
<1>11. -Len(a) <= 2 * (Total(S) - A) /\ 2 * (Total(S) - A) <= Len(a)
  <2>1. CASE A = 0
    <3>1. \A i \in 1 .. Len(S) : S[i] = 0
      BY <1>2, <1>3, <1>4, <2>1, ShareRounds
    <3>2. Total(S) = 0
      <4> HIDE DEF S
      <4> QED  BY <1>4, <3>1, TotalZero
    <3> QED  BY <1>1, <2>1, <3>2
  <2>2. CASE total > 0
    <3> DEFINE m == Means(a)
    <3>1. m \in Seq(Nat) /\ Len(m) = Len(a) /\ Len(S) = Len(m) /\ Total(m) > 0
      BY <1>4, <2>2, MeansList
    <3>2. \A i \in 1 .. Len(m) :
            /\ (2 * Total(m)) * S[i] <= (2 * A) * m[i] + Total(m)
            /\ (2 * A) * m[i] - Total(m) <= (2 * Total(m)) * S[i]
      <4>1. ASSUME NEW i \in 1 .. Len(m)
            PROVE  /\ (2 * Total(m)) * S[i] <= (2 * A) * m[i] + Total(m)
                   /\ (2 * A) * m[i] - Total(m) <= (2 * Total(m)) * S[i]
        <5>1. i \in 1 .. Len(a) /\ S[i] = Share(a, i)
          BY <1>3, <3>1
        <5>2. /\ (2 * Total(m)) * Share(a, i) <= (2 * A) * m[i] + Total(m)
              /\ (2 * A) * m[i] - Total(m) <= (2 * Total(m)) * Share(a, i)
          BY <5>1, <1>2, <2>2, ShareRounds
        <5> QED  BY <5>1, <5>2, Zenon
      <4> QED  BY <4>1
    <3> HIDE DEF m, S, A, total
    <3>3. -Len(m) <= 2 * (Total(S) - A) /\ 2 * (Total(S) - A) <= Len(m)
      BY <1>2, <1>4, <3>1, <3>2, RoundedShares
    <3> QED  BY <3>1, <3>3
  <2> QED  BY <1>2, <2>1, <2>2
<1> HIDE DEF S, A, total
<1>12. \A i \in 1 .. Len(a) : v[i] = BoneDry => nbr[a[i].day].boneDry
  <2>1. ASSUME NEW i \in 1 .. Len(a), ~nbr[a[i].day].boneDry  PROVE v[i] # BoneDry
    <3>1. v[i] \in Nat
      BY <1>3, <1>6, <2>1
    <3> QED  BY <3>1 DEF BoneDry
  <2> QED  BY <2>1
<1> DEFINE delta == Total(S) - A
<1>13. Rounded(a) = [values |-> v, delta |-> delta] /\ delta \in Int
  BY <1>2, <1>5, <1>10
<1>14. delta = Total(Amounts(v)) - Accumulated(a)
  BY <1>9 DEF A
<1>15. -Len(a) <= 2 * delta /\ 2 * delta <= Len(a)
  BY <1>11
<1> HIDE DEF delta
<1> QED
  BY <1>7, <1>12, <1>13, <1>14, <1>15 DEF FixStates

\* What redistributePrecipitation sets comes out of the loop, or is what it would have started from.
LEMMA PrecipitationAdds ==
  ASSUME nbr \in Profiles, NEW a \in Seq(Updates), Len(a) > 0, CanRedistribute(a)
  PROVE  \E st \in FixStates(a) : RedistributePrecipitation(a) = Redistributed(a, st.values)
<1>1. Rounded(a) \in FixStates(a)
  BY RoundedFits
<1>2. FixedUp(a) \in FixStates(a)
  BY <1>1, FixedUpFits
<1>3. CASE Accumulated(a) = 0
  BY <1>1, <1>3 DEF RedistributePrecipitation
<1>4. CASE Accumulated(a) # 0
  BY <1>2, <1>4 DEF RedistributePrecipitation
<1> QED
  BY <1>3, <1>4

\* The sum of what is to be written is that of the amounts.
LEMMA SumOfNews ==
  ASSUME NEW a \in Seq(Updates), NEW v \in Seq(Nat \union {BoneDry}), Len(v) = Len(a)
  PROVE  CorrectedSum(News(Redistributed(a, v))) = Total(Amounts(v))
<1> DEFINE r == Redistributed(a, v)
           ns == News(r)
<1>1. DOMAIN a = 1 .. Len(a) /\ DOMAIN v = 1 .. Len(a)
  BY LenProperties
<1>2. \A i \in DOMAIN a : v[i] \in Int
  BY <1>1, ElementOfSeq, SpecialValues
<1>3. DOMAIN r = DOMAIN a /\ \A i \in DOMAIN a : r[i].new.corrected = v[i]
  BY <1>2, RedistributedList
<1> HIDE DEF r
<1>4. DOMAIN ns = DOMAIN a /\ \A i \in DOMAIN a : ns[i].corrected = v[i]
  BY <1>3 DEF News
<1> HIDE DEF ns
<1>5. [i \in DOMAIN ns |-> Dry2Real(ns[i].corrected)] = Amounts(v)
  BY <1>1, <1>4 DEF Amounts
<1>6. CorrectedSum(ns) = Total(Amounts(v))
  BY <1>5 DEF CorrectedSum
<1> QED
  BY <1>6 DEF ns, r

-----------------------------------------------------------------------------
(* The invariant.                                                          *)

\* The neighbours are always one of the profiles; only of those is it said that bone
\* dry neighbours have nothing to give.
TypeInv == TypeOK /\ nbr \in Profiles
IInv == TypeInv /\ DriftBounded

\* An accumulation at hand, as TypeOK has it.
Accumulation ==
    /\ Len(acc) > 1 /\ CheckEndpoint(acc[1].old) /\ acc[1].day = earliest
    /\ \A i \in DOMAIN acc : acc[i].day = earliest + 1 - i

\* The row of a hole is a row; tables and neighbours as they start.
LEMMA Tables ==
  /\ Row \union {NoRow} = Row
  /\ Profiles \subseteq [Days -> Neighbours] /\ Series \subseteq [Days -> Row]
  BY RowValues, DataAssumption

\* What is left when an accumulation, or a run, is done with.
LEMMA NoAccumulation == <<>> \in Seq(Updates) /\ <<>> \in Seq([day : UT0 .. UT1, row : Row]) /\ UT0 \in UT0 .. UT1
  BY DaysAssumption

\* The invariant holds at the start.
LEMMA InitTypeInv == Init => IInv
<1> SUFFICES ASSUME Init PROVE IInv
  OBVIOUS
<1>1. rows \in [Days -> Row \union {NoRow}] /\ nbr \in Profiles /\ nbr \in [Days -> Neighbours]
  BY Tables DEF Init
<1>2. earliest \in UT0 .. UT1
  BY DaysAssumption DEF Init
<1>3. pc = "idle" /\ todo = <<>> /\ acc = <<>> /\ calm = FALSE /\ settled = FALSE /\ outside = 0
  BY DEF Init
<1>4. TypeOK
  <2>1. pc \in {"idle", "next", "distribute", "store"} /\ ~ (pc \in {"distribute", "store"})
    BY <1>3
  <2>2. todo \in Seq([day : UT0 .. UT1, row : Row]) /\ acc \in Seq(Updates)
    BY <1>3, NoAccumulation
  <2>3. calm \in BOOLEAN /\ settled \in BOOLEAN /\ outside \in Nat
    BY <1>3
  <2> QED  BY <1>1, <1>2, <2>1, <2>2, <2>3, Zenon DEF TypeOK
<1>5. DriftBounded
  BY <1>3 DEF DriftBounded
<1> QED
  BY <1>1, <1>4, <1>5 DEF IInv, TypeInv

\* A transaction leaves a table.
LEMMA WrittenRows ==
  ASSUME TypeInv
  PROVE  [d \in Days |-> Written(d)] \in [Days -> Row \union {NoRow}]
<1>1. ASSUME NEW d \in Days  PROVE Written(d) \in Row \union {NoRow}
  <2> DEFINE is == {i \in Writes : acc[i].day = d}
             i0 == CHOOSE i \in is : TRUE
             u == acc[i0]
  <2>1. rows[d] \in Row \union {NoRow}
    BY DEF TypeInv, TypeOK
  <2>2. CASE is = {}
    BY <2>1, <2>2 DEF Written
  <2>3. CASE is # {}
    <3>1. Written(d) = IF u.isNew THEN u.new
                       ELSE IF rows[d] = NoRow THEN NoRow ELSE [u.new EXCEPT !.original = rows[d].original]
      BY <2>3, Zenon DEF Written
    <3>2. i0 \in is
      BY <2>3
    <3>3. u \in Updates
      <4>1. i0 \in DOMAIN acc
        BY <3>2 DEF Writes
      <4>2. acc \in Seq(Updates)
        BY DEF TypeInv, TypeOK
      <4> HIDE DEF i0
      <4>3. i0 \in 1 .. Len(acc)
        BY <4>1, <4>2, LenProperties
      <4> QED  BY <4>2, <4>3, ElementOfSeq
    <3> HIDE DEF u
    <3>4. u.new \in Row
      BY <3>3 DEF Updates
    <3>5. rows[d] \in Row
      BY <2>1, Tables
    <3>6. [u.new EXCEPT !.original = rows[d].original] \in Row
      BY <3>4, <3>5 DEF Row
    <3> QED  BY <3>1, <3>4, <3>6
  <2> QED  BY <2>2, <2>3
<1> QED
  BY <1>1

\* The next endpoint, and those after it.
LEMMA HeadTail ==
  ASSUME TypeInv, todo # <<>>
  PROVE  Head(todo) \in Queued /\ Tail(todo) \in Seq([day : UT0 .. UT1, row : Row])
  BY HeadTailProperties DEF TypeInv, TypeOK, Queued

\* Looking back from an endpoint finds an accumulation that ends in it.
LEMMA LookBackTypes ==
  ASSUME TypeInv, LookBack
  PROVE  TypeInv'
<1> DEFINE e == Head(todo)
           usable == {a \in FindMissing(e, earliest) : CheckAccumulationPeriod(a)}
<1>1. e \in Queued /\ Tail(todo) \in Seq([day : UT0 .. UT1, row : Row])
  BY HeadTail DEF LookBack
<1>2. rows \in [Days -> Row] /\ earliest \in UT0 .. UT1
  BY Tables DEF TypeInv, TypeOK
<1>3. CheckEndpoint(e.row) /\ earliest' = e.day /\ todo' = Tail(todo)
  BY DEF LookBack
<1>4. earliest' \in UT0 .. UT1
  BY <1>1, <1>3 DEF Queued
<1>5. UNCHANGED <<tableVars, historyVars>>
  BY DEF LookBack
<1> HIDE DEF e
<1>6. acc' \in Seq(Updates) /\ (pc' \in {"distribute", "store"} => Accumulation') /\ pc' \in {"next", "distribute"}
  <2>1. CASE usable = {}
    <3>1. pc' = "next" /\ acc' = acc
      BY <2>1 DEF LookBack, e
    <3> QED  BY <3>1 DEF TypeInv, TypeOK
  <2>2. CASE usable # {}
    <3>1. acc' \in usable /\ pc' = "distribute"
      BY <2>2 DEF LookBack, e
    <3>2. acc' \in FindMissing(e, earliest) /\ CheckAccumulationPeriod(acc')
      BY <3>1
    <3>3. IsAccumulation(acc', e)
      <4>1. ASSUME NEW a \in FindMissing(e, earliest)  PROVE IsAccumulation(a, e)
        BY <1>1, <1>2, FindMissingList
      <4> QED  BY <3>2, <4>1
    <3>4. Len(acc') > 1
      BY <3>2 DEF CheckAccumulationPeriod
    <3>5. acc' \in Seq(Updates) /\ acc'[1].old = e.row /\ \A i \in DOMAIN acc' : acc'[i].day = e.day + 1 - i
      BY <3>3 DEF IsAccumulation
    <3>6. acc'[1].day = e.day
      <4>1. 1 \in DOMAIN acc'
        BY <3>4, <3>5, LenProperties
      <4>2. e.day \in Int
        BY <1>1, DaysAssumption DEF Queued
      <4> QED  BY <3>5, <4>1, <4>2
    <3> QED  BY <1>3, <3>1, <3>4, <3>5, <3>6 DEF Accumulation
  <2> QED  BY <2>1, <2>2
<1> QED
  BY <1>1, <1>3, <1>4, <1>5, <1>6, Zenon DEF TypeInv, TypeOK, Accumulation, tableVars, historyVars

\* Setting corrected values leaves an accumulation one.
LEMMA DistributedTypes ==
  ASSUME TypeInv, pc = "distribute", NEW c, \A i \in DOMAIN acc : c[i] \in Int,
         acc' = Redistributed(acc, c), pc' = "store",
         UNCHANGED <<tableVars, todo, earliest, historyVars>>
  PROVE  TypeInv'
<1>1. acc \in Seq(Updates) /\ Accumulation
  BY DEF TypeInv, TypeOK, Accumulation
<1>2. /\ acc' \in Seq(Updates) /\ Len(acc') = Len(acc) /\ DOMAIN acc' = DOMAIN acc
      /\ \A i \in DOMAIN acc : acc'[i].day = acc[i].day /\ acc'[i].old = acc[i].old
  BY <1>1, RedistributedList
<1>3. 1 \in DOMAIN acc
  BY <1>1, LenProperties DEF Accumulation
<1>4. earliest' = earliest
  OBVIOUS
<1>5. Accumulation'
  BY <1>1, <1>2, <1>3, <1>4 DEF Accumulation
<1> QED
  BY <1>2, <1>5, Zenon DEF TypeInv, TypeOK, Accumulation, tableVars, historyVars

\* What is distributed adds up: bone dry days to nothing, precipitation by the loop.
LEMMA DistributionKeeps ==
  ASSUME TypeInv, DistributeBoneDry \/ DistributePrecipitation
  PROVE  TypeInv' /\ DriftBounded'
<1>1. acc \in Seq(Updates) /\ Accumulation /\ nbr \in Profiles /\ Len(acc) \in Nat /\ DOMAIN acc = 1 .. Len(acc)
  BY LenProperties DEF TypeInv, TypeOK, Accumulation, DistributeBoneDry, DistributePrecipitation
<1>2. /\ pc = "distribute" /\ pc' = "store" /\ UNCHANGED <<tableVars, todo, earliest, historyVars>>
  BY DEF DistributeBoneDry, DistributePrecipitation
<1>3. PICK v \in Seq(Nat \union {BoneDry}) :
        /\ acc' = Redistributed(acc, v) /\ Len(v) = Len(acc)
        /\ -Len(acc) <= 2 * (Total(Amounts(v)) - Dry2Real(Accumulated(acc)))
        /\ 2 * (Total(Amounts(v)) - Dry2Real(Accumulated(acc))) <= Len(acc)
  <2>1. CASE DistributeBoneDry
    <3> DEFINE v == [i \in DOMAIN acc |-> BoneDry]
    <3>1. acc' = Redistributed(acc, v) /\ Accumulated(acc) = BoneDry
      BY <2>1 DEF DistributeBoneDry, RedistributeBoneDry
    <3>2. v = [i \in 1 .. Len(acc) |-> v[i]] /\ \A i \in 1 .. Len(acc) : v[i] = BoneDry
      BY <1>1
    <3> HIDE DEF v
    <3>3. v \in Seq(Nat \union {BoneDry}) /\ Len(v) = Len(acc)
      BY <1>1, <3>2, ListOf
    <3>4. Total(Amounts(v)) = 0
      <4>1. Amounts(v) \in Seq(Int) /\ \A n \in 1 .. Len(Amounts(v)) : Amounts(v)[n] = 0
        BY <3>2, <3>3, AmountsList DEF Dry2Real
      <4> QED  BY <4>1, TotalZero
    <3>5. Dry2Real(Accumulated(acc)) = 0
      BY <3>1 DEF Dry2Real
    <3>6. /\ -Len(acc) <= 2 * (Total(Amounts(v)) - Dry2Real(Accumulated(acc)))
          /\ 2 * (Total(Amounts(v)) - Dry2Real(Accumulated(acc))) <= Len(acc)
      BY <1>1, <3>4, <3>5
    <3> QED  BY <3>1, <3>3, <3>6
  <2>2. CASE DistributePrecipitation
    <3>1. acc' = RedistributePrecipitation(acc) /\ CanRedistribute(acc) /\ Accumulated(acc) # BoneDry
      BY <2>2 DEF DistributePrecipitation
    <3>2. Len(acc) > 0
      BY <1>1 DEF Accumulation
    <3>3. PICK st \in FixStates(acc) : RedistributePrecipitation(acc) = Redistributed(acc, st.values)
      BY <1>1, <3>1, <3>2, PrecipitationAdds
    <3>4. Dry2Real(Accumulated(acc)) = Accumulated(acc)
      BY <3>1 DEF Dry2Real
    <3>5. /\ st.values \in Seq(Nat \union {BoneDry}) /\ Len(st.values) = Len(acc)
          /\ st.delta = Total(Amounts(st.values)) - Accumulated(acc)
          /\ -Len(acc) <= 2 * st.delta /\ 2 * st.delta <= Len(acc)
      BY <3>3 DEF FixStates
    <3>6. /\ -Len(acc) <= 2 * (Total(Amounts(st.values)) - Dry2Real(Accumulated(acc)))
          /\ 2 * (Total(Amounts(st.values)) - Dry2Real(Accumulated(acc))) <= Len(acc)
      BY <3>4, <3>5, Zenon
    <3> QED  BY <3>1, <3>3, <3>5, <3>6
  <2> QED  BY <2>1, <2>2
<1>4. \A i \in DOMAIN acc : v[i] \in Nat \union {BoneDry} /\ v[i] \in Int
  BY <1>1, <1>3, ElementOfSeq, SpecialValues
<1>5. TypeInv'
  BY <1>2, <1>3, <1>4, DistributedTypes
<1>6. DriftBounded'
  <2> DEFINE r == Redistributed(acc, v)
  <2>1. /\ Len(r) = Len(acc) /\ DOMAIN r = DOMAIN acc
        /\ \A i \in DOMAIN acc : r[i].old = acc[i].old /\ r[i].new.corrected = v[i]
    BY <1>1, <1>4, RedistributedList
  <2>2. CorrectedSum(News(r)) = Total(Amounts(v))
    BY <1>1, <1>3, SumOfNews
  <2> HIDE DEF r
  <2>3. acc' = r
    BY <1>3 DEF r
  <2>4. 1 \in DOMAIN acc
    BY <1>1 DEF Accumulation
  <2>5. r[1].old.original = Accumulated(acc)
    BY <2>1, <2>4 DEF Accumulated
  <2>6. /\ -Len(r) <= 2 * (CorrectedSum(News(r)) - Dry2Real(r[1].old.original))
        /\ 2 * (CorrectedSum(News(r)) - Dry2Real(r[1].old.original)) <= Len(r)
    BY <1>3, <2>1, <2>2, <2>5, Zenon
  <2>7. \A i \in DOMAIN r : r[i].new.corrected \in Nat \union {BoneDry}
    BY <1>4, <2>1
  <2> QED  BY <2>3, <2>6, <2>7, Zenon DEF DriftBounded
<1> QED
  BY <1>5, <1>6

\* A step after which there is no accumulation at hand.
LEMMA WithoutAccumulation ==
  ASSUME pc' \notin {"distribute", "store"}, rows' \in [Days -> Row \union {NoRow}], nbr' \in Profiles,
         pc' \in {"idle", "next"}, todo' \in Seq([day : UT0 .. UT1, row : Row]),
         earliest' \in UT0 .. UT1, acc' \in Seq(Updates),
         calm' \in BOOLEAN, settled' \in BOOLEAN, outside' \in Nat
  PROVE  IInv'
<1>1. nbr' \in [Days -> Neighbours]
  BY Tables
<1>2. TypeOK'
  BY <1>1, Zenon DEF TypeOK
<1>3. DriftBounded'
  BY DEF DriftBounded
<1> QED
  BY <1>2, <1>3 DEF IInv, TypeInv

\* What the invariant says of each variable.
LEMMA InvFacts ==
  ASSUME IInv
  PROVE  /\ rows \in [Days -> Row \union {NoRow}] /\ rows \in [Days -> Row] /\ nbr \in Profiles
         /\ pc \in {"idle", "next", "distribute", "store"}
         /\ todo \in Seq([day : UT0 .. UT1, row : Row])
         /\ earliest \in UT0 .. UT1 /\ acc \in Seq(Updates)
         /\ calm \in BOOLEAN /\ settled \in BOOLEAN /\ outside \in Nat
  BY Tables DEF IInv, TypeInv, TypeOK

\* The steps of a run.
LEMMA RunInv ==
  ASSUME IInv, Run
  PROVE  IInv'
<1>1. CASE StartRun
  <2>1. Endpoints \in Seq([day : UT0 .. UT1, row : Row])
    BY InvFacts, EndpointsList DEF Queued
  <2> QED  BY <1>1, <2>1, InvFacts, NoAccumulation, WithoutAccumulation DEF StartRun, tableVars
<1>2. CASE SkipEndpoint
  <2>1. Tail(todo) \in Seq([day : UT0 .. UT1, row : Row])
    BY <1>2, HeadTail DEF SkipEndpoint, IInv
  <2> QED  BY <1>2, <2>1, InvFacts, WithoutAccumulation DEF SkipEndpoint, tableVars, historyVars
<1>3. CASE LookBack
  <2>1. TypeInv'
    BY <1>3, LookBackTypes DEF IInv
  <2>2. pc' # "store"
    BY <1>3 DEF LookBack
  <2> QED  BY <2>1, <2>2 DEF IInv, DriftBounded
<1>4. CASE DistributeBoneDry \/ DistributePrecipitation
  BY <1>4, DistributionKeeps DEF IInv
<1>5. CASE CannotDistribute
  BY <1>5, InvFacts, NoAccumulation, WithoutAccumulation DEF CannotDistribute, tableVars, historyVars
<1>6. CASE UpdateOrInsertData
  <2>1. rows' \in [Days -> Row \union {NoRow}]
    BY <1>6, WrittenRows DEF UpdateOrInsertData, IInv
  <2> QED  BY <1>6, <2>1, InvFacts, NoAccumulation, WithoutAccumulation DEF UpdateOrInsertData
<1>7. CASE InsertRefused
  BY <1>7, InvFacts, NoAccumulation, WithoutAccumulation DEF InsertRefused, tableVars
<1>8. CASE EndRun
  BY <1>8, InvFacts, NoAccumulation, WithoutAccumulation DEF EndRun, tableVars
<1> QED
  BY <1>1, <1>2, <1>3, <1>4, <1>5, <1>6, <1>7, <1>8 DEF Run

\* What does not touch the accumulation at hand.
LEMMA OutsideInv ==
  ASSUME IInv, rows' \in [Days -> Row \union {NoRow}], nbr' \in Profiles, UNCHANGED runVars,
         calm' \in BOOLEAN, settled' \in BOOLEAN, outside' \in Nat
  PROVE  IInv'
<1>1. nbr' \in [Days -> Neighbours]
  BY Tables
<1>2. TypeOK'
  BY <1>1 DEF TypeOK, IInv, TypeInv, runVars
<1>3. DriftBounded'
  BY Zenon DEF DriftBounded, IInv, runVars
<1> QED
  BY <1>2, <1>3 DEF IInv, TypeInv

\* A row that arrives is a row ...
LEMMA AsObservedRow ==
  ASSUME NEW r \in Row
  PROVE  AsObserved(r) \in Row
<1> DEFINE mis == r = NoRow \/ r.original = Missing
           one == [r EXCEPT !.corrected = r.original, !.fhqc = 0]
           two == [r EXCEPT !.corrected = r.original, !.fd = 2, !.fhqc = 0]
<1>1. one \in Row /\ two \in Row
  BY DEF Row
<1>2. AsObserved(r) = CASE mis -> MissingRow [] r.fd = 1 -> one [] OTHER -> two
  BY Zenon DEF AsObserved
<1> HIDE DEF mis, one, two
<1>3. CASE mis /\ r.fd # 1
  <2>1. AsObserved(r) = MissingRow
    BY <1>2, <1>3
  <2> QED  BY <2>1, RowValues
<1>4. CASE ~mis /\ r.fd = 1
  <2>1. AsObserved(r) = one
    BY <1>2, <1>4
  <2> QED  BY <1>1, <2>1
<1>5. CASE ~mis /\ r.fd # 1
  <2>1. AsObserved(r) = two
    BY <1>2, <1>5
  <2> QED  BY <1>1, <2>1
<1>6. CASE mis /\ r.fd = 1
  <2>1. AsObserved(r) \in {MissingRow, one}
    BY <1>2, <1>6
  <2> QED  BY <1>1, <2>1, RowValues
<1> QED
  BY <1>3, <1>4, <1>5, <1>6

\* ... and one an operator has put a value in.
LEMMA HqcRow ==
  ASSUME NEW r \in Row, NEW v \in HqcValues
  PROVE  [r EXCEPT !.corrected = v, !.fhqc = 6, !.fmis = IF r.fmis = 3 THEN 1 ELSE r.fmis] \in Row
<1>1. v \in Int /\ r.fmis \in Nat
  BY DataAssumption DEF Row
<1> DEFINE f == IF r.fmis = 3 THEN 1 ELSE r.fmis
<1>2. f \in Nat
  BY <1>1
<1> HIDE DEF f
<1>3. [r EXCEPT !.corrected = v, !.fhqc = 6, !.fmis = f] \in Row
  BY <1>1, <1>2 DEF Row
<1> QED
  BY <1>3 DEF f

\* The steps of the others.
LEMMA FromOutsideInv ==
  ASSUME IInv, Outside
  PROVE  IInv'
<1>1. ASSUME FromOutside  PROVE calm' \in BOOLEAN /\ settled' \in BOOLEAN /\ outside' \in Nat
  <2>1. outside \in Nat
    BY InvFacts
  <2>2. calm' = FALSE /\ settled' = FALSE /\ outside' = outside + 1
    BY <1>1, Zenon DEF FromOutside
  <2>3. outside' \in Nat
    BY <2>1, <2>2
  <2> QED  BY <2>2, <2>3
<1>2. CASE \E d \in Days : Cleanup(d) \/ Observe(d) \/ \E v \in HqcValues : Hqc(d, v)
  <2>1. PICK d \in Days : Cleanup(d) \/ Observe(d) \/ \E v \in HqcValues : Hqc(d, v)
    BY <1>2
  <2>2. FromOutside /\ UNCHANGED <<nbr, runVars>>
    BY <2>1 DEF Cleanup, Observe, Hqc
  <2>3. rows[d] \in Row /\ rows \in [Days -> Row]
    BY InvFacts
  <2>4. \E r \in Row : rows' = [rows EXCEPT ![d] = r]
    <3>1. CASE Cleanup(d)
      BY <3>1, RowValues DEF Cleanup
    <3>2. CASE Observe(d)
      <4>1. AsObserved(rows[d]) \in Row
        BY <2>3, AsObservedRow
      <4> QED  BY <3>2, <4>1 DEF Observe
    <3>3. CASE \E v \in HqcValues : Hqc(d, v)
      <4>1. PICK v \in HqcValues : Hqc(d, v)
        BY <3>3
      <4> DEFINE r == [rows[d] EXCEPT !.corrected = v, !.fhqc = 6,
                                      !.fmis = IF rows[d].fmis = 3 THEN 1 ELSE rows[d].fmis]
      <4>2. r \in Row
        BY <2>3, HqcRow
      <4>3. rows' = [rows EXCEPT ![d] = r]
        BY <4>1, <2>3 DEF Hqc, Row
      <4> QED  BY <4>2, <4>3
    <3> QED  BY <2>1, <3>1, <3>2, <3>3
  <2>5. rows' \in [Days -> Row \union {NoRow}]
    BY <2>3, <2>4, Tables
  <2> QED  BY <1>1, <2>2, <2>5, InvFacts, OutsideInv
<1>3. CASE NeighboursReport
  <2>1. FromOutside /\ nbr' \in Profiles /\ UNCHANGED <<rows, runVars>>
    BY <1>3 DEF NeighboursReport
  <2> QED  BY <1>1, <2>1, InvFacts, OutsideInv
<1>4. CASE Abort
  <2>1. FromOutside
    BY <1>4 DEF Abort
  <2> QED  BY <1>1, <1>4, <2>1, InvFacts, NoAccumulation, WithoutAccumulation DEF Abort, tableVars
<1> QED
  BY <1>2, <1>3, <1>4 DEF Outside

\* All steps.
LEMMA StepInv == IInv /\ [Next]_vars => IInv'
<1> SUFFICES ASSUME IInv, [Next]_vars PROVE IInv'
  OBVIOUS
<1>1. CASE UNCHANGED vars
  BY <1>1, InvFacts, OutsideInv DEF vars, tableVars, historyVars
<1> QED
  BY <1>1, RunInv, FromOutsideInv DEF Next

\* RedistributionAlgorithm.cc:114-154, 300-346: an accumulation at hand ends in an endpoint that passed the
\* checks, holds another row at least, and its days follow each other back in time.
THEOREM RedistributionTypes == Spec => []TypeOK
<1>1. IInv => TypeOK
  BY DEF IInv, TypeInv
<1> QED
  BY <1>1, InitTypeInv, StepInv, PTL DEF Spec

\* RedistributionAlgorithm.cc:574-600: what is about to be written adds up to the accumulated value
\* but for half a tenth of a millimetre for each day, and no value is negative (but for the -1
\* of a bone dry day), for every accumulation, whatever the neighbours measured.
THEOREM RedistributionDriftBounded == Spec => []DriftBounded
<1>1. IInv => DriftBounded
  BY DEF IInv
<1> QED
  BY <1>1, InitTypeInv, StepInv, PTL DEF Spec

-----------------------------------------------------------------------------
(* A second run.                                                           *)

\* What is distributed, as a function of the neighbours: the definitions of the model for any neighbours n.
MeansOf(n, a) == [i \in DOMAIN a |-> n[a[i].day].mean]
CanOf(n, a) ==
    Accumulated(a) = 0 \/ /\ \A i \in DOMAIN a : n[a[i].day].enough
                          /\ Total(MeansOf(n, a)) > 0 /\ 1000 * Accumulated(a) >= Total(MeansOf(n, a))
ShareOf(n, a, i) ==
    LET total == Total(MeansOf(n, a))
    IN  IF total = 0 THEN 0 ELSE (2 * Accumulated(a) * MeansOf(n, a)[i] + total) \div (2 * total)
TurnOf(n, a, st, i) ==
    LET c == st.values[i]
        threshold == IF n[a[i].day].precip THEN st.delta + 1 ELSE 1
        newC == IF c > st.delta THEN c - st.delta ELSE 0
    IN  IF st.delta = 0 \/ c < threshold THEN st
        ELSE [values |-> [st.values EXCEPT ![i] = newC], delta |-> st.delta - (c - newC)]
RoundedOf(n, a) ==
    [values |-> [i \in DOMAIN a |-> IF n[a[i].day].boneDry THEN BoneDry ELSE ShareOf(n, a, i)],
     delta |-> Total([i \in DOMAIN a |-> ShareOf(n, a, i)]) - Accumulated(a)]
\* f has the states of the loop.
LoopOf(n, a, f) == f[0] = RoundedOf(n, a) /\ \A i \in 1 .. Len(a) : f[i] = TurnOf(n, a, f[i - 1], i)
ValuesOf(n, a, v) ==
    IF Accumulated(a) = 0 THEN v = RoundedOf(n, a).values
    ELSE \E f : LoopOf(n, a, f) /\ v = f[Len(a)].values

\* x is what a run makes of the accumulation a.
Makes(n, a, x) ==
    \/ Accumulated(a) = BoneDry /\ x = RedistributeBoneDry(a)
    \/ /\ Accumulated(a) # BoneDry /\ CanOf(n, a)
       /\ \E v : ValuesOf(n, a, v) /\ x = Redistributed(a, v)

\* The loop of the model is this one.
LEMMA LoopIs ==
  ASSUME nbr \in Profiles, NEW a \in Seq(Updates), Len(a) > 0, CanRedistribute(a)
  PROVE  \E f : LoopOf(nbr, a, f) /\ FixedUp(a) = f[Len(a)]
<1> DEFINE last == Len(a)
           IsUpTo(f) == f = [i \in 0 .. last |-> IF i = 0 THEN Rounded(a) ELSE FixUp(a, f[i - 1], i)]
           upTo == CHOOSE f : IsUpTo(f)
           D == FixStates(a)
           step == [p \in D \X (1 .. last) |-> FixUp(a, p[1], p[2])]
<1>1. last \in Nat /\ Rounded(a) \in D
  BY LenProperties, RoundedFits
<1>0. FixedUp(a) = upTo[last]
  BY DEF FixedUp
<1>2. step \in [D \X (1 .. last) -> D]
  <2>1. \A s \in D, n \in 1 .. last : FixUp(a, s, n) \in D
    BY FixUpFits
  <2> HIDE DEF D, last
  <2> QED  BY <2>1
<1> HIDE DEF last, upTo, D
<1>3. PICK f \in [0 .. last -> D] : RecursiveOver(f, last, Rounded(a), step)
  <2> HIDE DEF step
  <2> QED  BY <1>1, <1>2, Recursion
<1>4. f[0] = Rounded(a) /\ \A n \in 1 .. last : f[n] = FixUp(a, f[n - 1], n)
  <2>1. f[0] = Rounded(a) /\ \A n \in 1 .. last : f[n] = step[<<f[n - 1], n>>]
    <3> HIDE DEF step
    <3> QED  BY <1>3 DEF RecursiveOver
  <2>2. \A n \in 1 .. last : f[n - 1] \in D
    BY <1>1
  <2> QED  BY <1>1, <2>1, <2>2
<1>5. IsUpTo(f)
  BY <1>1, <1>4
<1>6. IsUpTo(upTo)
  <2> HIDE DEF IsUpTo
  <2> QED  BY <1>5 DEF upTo
<1>7. upTo[0] = Rounded(a) /\ \A n \in 1 .. last : upTo[n] = FixUp(a, upTo[n - 1], n)
  BY <1>1, <1>6
<1>8. Rounded(a) = RoundedOf(nbr, a)
  BY DEF Rounded, RoundedOf, Share, ShareOf, Means, MeansOf
<1>9. \A st, i : FixUp(a, st, i) = TurnOf(nbr, a, st, i)
  BY DEF FixUp, TurnOf
<1>10. LoopOf(nbr, a, upTo)
  BY <1>7, <1>8, <1>9 DEF LoopOf, last
<1> QED
  BY <1>0, <1>10 DEF last

\* Distributing makes what Makes says.
LEMMA DistributionMakes ==
  ASSUME TypeInv, DistributeBoneDry \/ DistributePrecipitation
  PROVE  Makes(nbr, acc, acc')
<1>1. CASE DistributeBoneDry
  BY <1>1 DEF DistributeBoneDry, Makes
<1>2. CASE DistributePrecipitation
  <2>1. acc' = RedistributePrecipitation(acc) /\ CanRedistribute(acc) /\ Accumulated(acc) # BoneDry /\ pc = "distribute"
    BY <1>2 DEF DistributePrecipitation
  <2>2. acc \in Seq(Updates) /\ Len(acc) > 0 /\ nbr \in Profiles
    BY <2>1 DEF TypeInv, TypeOK
  <2>3. CanOf(nbr, acc)
    BY <2>1 DEF CanRedistribute, CanOf, Means, MeansOf
  <2>4. PICK f : LoopOf(nbr, acc, f) /\ FixedUp(acc) = f[Len(acc)]
    BY <2>1, <2>2, LoopIs
  <2>5. Rounded(acc) = RoundedOf(nbr, acc)
    BY DEF Rounded, RoundedOf, Share, ShareOf, Means, MeansOf
  <2> DEFINE v == IF Accumulated(acc) = 0 THEN Rounded(acc).values ELSE FixedUp(acc).values
  <2>6. ValuesOf(nbr, acc, v)
    BY <2>4, <2>5 DEF ValuesOf
  <2>7. acc' = Redistributed(acc, v)
    BY <2>1 DEF RedistributePrecipitation
  <2> HIDE DEF v
  <2> QED  BY <2>1, <2>3, <2>6, <2>7 DEF Makes
<1> QED
  BY <1>1, <1>2

\* A run that cannot distribute makes nothing.
LEMMA NothingMade ==
  ASSUME NEW a, Accumulated(a) # BoneDry, ~CanRedistribute(a), NEW x
  PROVE  ~Makes(nbr, a, x)
<1>1. ~CanOf(nbr, a)
  BY DEF CanRedistribute, CanOf, Means, MeansOf
<1> QED
  BY <1>1 DEF Makes

\* Two accumulations of the same days and the same amount.
Alike(a, b) ==
    /\ DOMAIN a = DOMAIN b /\ Len(a) = Len(b)
    /\ \A i \in DOMAIN a : a[i].day = b[i].day
    /\ Accumulated(a) = Accumulated(b)

\* They are distributed alike.
LEMMA AlikeValues ==
  ASSUME NEW n, NEW a, NEW b, Alike(a, b), DOMAIN a = 1 .. Len(a), NEW v, ValuesOf(n, a, v)
  PROVE  ValuesOf(n, b, v)
<1>1. MeansOf(n, a) = MeansOf(n, b)
  BY DEF MeansOf, Alike
<1>2. \A i : ShareOf(n, a, i) = ShareOf(n, b, i)
  BY <1>1 DEF ShareOf, Alike
<1>3. RoundedOf(n, a) = RoundedOf(n, b)
  <2>1. [i \in DOMAIN a |-> ShareOf(n, a, i)] = [i \in DOMAIN b |-> ShareOf(n, b, i)]
    BY <1>2 DEF Alike
  <2>2. [i \in DOMAIN a |-> IF n[a[i].day].boneDry THEN BoneDry ELSE ShareOf(n, a, i)] =
        [i \in DOMAIN b |-> IF n[b[i].day].boneDry THEN BoneDry ELSE ShareOf(n, b, i)]
    BY <1>2 DEF Alike
  <2>3. Accumulated(a) = Accumulated(b)
    BY DEF Alike
  <2> QED  BY <2>1, <2>2, <2>3, Zenon DEF RoundedOf
<1>4. \A st : \A i \in 1 .. Len(a) : TurnOf(n, a, st, i) = TurnOf(n, b, st, i)
  BY DEF TurnOf, Alike
<1>5. \A f : LoopOf(n, a, f) => LoopOf(n, b, f)
  BY <1>3, <1>4 DEF LoopOf, Alike
<1>6. Len(a) = Len(b) /\ Accumulated(a) = Accumulated(b)
  BY DEF Alike
<1> QED
  BY <1>3, <1>5, <1>6 DEF ValuesOf

\* The loop comes to one result.
LEMMA OneResult ==
  ASSUME NEW n, NEW a \in Seq(Updates), NEW v, NEW w, ValuesOf(n, a, v), ValuesOf(n, a, w)
  PROVE  v = w
<1>1. CASE Accumulated(a) = 0
  BY <1>1 DEF ValuesOf
<1>2. CASE Accumulated(a) # 0
  <2>1. PICK f : LoopOf(n, a, f) /\ v = f[Len(a)].values
    BY <1>2 DEF ValuesOf
  <2>2. PICK g : LoopOf(n, a, g) /\ w = g[Len(a)].values
    BY <1>2 DEF ValuesOf
  <2> DEFINE T == {i \in 0 .. Len(a) : f[i] = g[i]}
  <2>3. Len(a) \in Nat
    BY LenProperties
  <2>4. 0 \in T
    BY <2>1, <2>2, <2>3 DEF LoopOf
  <2>5. ASSUME NEW i \in 1 .. Len(a), i - 1 \in T  PROVE i \in T
    <3>1. f[i - 1] = g[i - 1] /\ i \in 0 .. Len(a)
      BY <2>3, <2>5
    <3>2. f[i] = TurnOf(n, a, f[i - 1], i) /\ g[i] = TurnOf(n, a, g[i - 1], i)
      BY <2>1, <2>2 DEF LoopOf
    <3> QED  BY <3>1, <3>2
  <2>6. 0 .. Len(a) \subseteq T
    <3> HIDE DEF T
    <3> QED  BY <2>3, <2>4, <2>5, IntervalInduction
  <2> QED  BY <2>1, <2>2, <2>3, <2>6
<1> QED
  BY <1>1, <1>2

\* What a run looks at, in a table t: the endpoints, those that pass their check, and, for one of them, where
\* reading begins, which days are open, the row that bounds them, and the accumulation.
EndpointAt(t, d) == t[d] # NoRow /\ EndpointFlags(t[d])
Checked(t, d) == EndpointAt(t, d) /\ CheckEndpoint(t[d])
IsFrom(t, d, f) ==
    /\ f \in UT0 .. UT1 /\ (f = UT0 \/ (Checked(t, f) /\ f < d))
    /\ \A c \in UT0 .. UT1 : c < d /\ Checked(t, c) => c <= f
Open(t, d) == t[d] = NoRow \/ MissingpointFlags(t[d])
IsBoundary(t, d, from, b) ==
    /\ b \in from - 1 .. d - 1 /\ ~Open(t, b) /\ ~IsMissingOrRejected(t[b])
    /\ \A m \in b + 1 .. d - 1 : Open(t, m)
PointOf(t, e, d) ==
    IF d = e THEN Update(d, FALSE, t[d])
    ELSE Update(d, t[d] = NoRow, IF t[d] = NoRow THEN MissingRow ELSE t[d])
AccOf(t, d, b) == [i \in 1 .. d - b |-> PointOf(t, d, d + 1 - i)]
\* a is the accumulation that a run finds for day d, and is to distribute.
Finds(t, d, b, a) ==
    /\ Checked(t, d) /\ a = AccOf(t, d, b) /\ CheckAccumulationPeriod(a)
    /\ \E f : IsFrom(t, d, f) /\ IsBoundary(t, d, f, b)

\* Whatever a run makes of an accumulation, there is nothing to write; a day of which this is so.
Quiet(n, a) == \A x : Makes(n, a, x) => \A i \in DOMAIN x : ~NeedsWrite(x[i])
Done(n, t, d) == \A b, a : Finds(t, d, b, a) => Quiet(n, a)

\* findMissing finds these.
LEMMA FoundIs ==
  ASSUME NEW e \in Queued, rows[e.day] = e.row, NEW from \in UT0 .. UT1, NEW a
  PROVE  a \in FindMissing(e, from) <=> \E b : IsBoundary(rows, e.day, from, b) /\ a = AccOf(rows, e.day, b)
<1>1. \A b : b \in Boundaries(e, from) /\ ~IsMissingOrRejected(rows[b]) <=> IsBoundary(rows, e.day, from, b)
  BY DEF Boundaries, FirstRead, IsBoundary, Open
<1>2. \A d : Point(e, d) = PointOf(rows, e.day, d)
  <2> TAKE d
  <2>1. CASE d = e.day
    BY <2>1 DEF Point, PointOf
  <2>2. CASE d # e.day
    BY <2>2, Zenon DEF Point, PointOf
  <2> QED  BY <2>1, <2>2
<1>3. \A b : [i \in 1 .. e.day - b |-> Point(e, e.day + 1 - i)] = AccOf(rows, e.day, b)
  BY <1>2 DEF AccOf
<1> QED
  BY <1>1, <1>3 DEF FindMissing

\* Reading begins at one day.
LEMMA OneFrom ==
  ASSUME NEW t, NEW d, NEW f, NEW g, IsFrom(t, d, f), IsFrom(t, d, g)
  PROVE  f = g
<1>1. f \in Int /\ g \in Int
  BY DaysAssumption DEF IsFrom
<1>2. f <= g /\ g <= f
  BY DaysAssumption DEF IsFrom
<1> QED
  BY <1>1, <1>2

\* One row bounds the days.
LEMMA OneBoundary ==
  ASSUME NEW t, NEW d \in UT0 .. UT1, NEW f \in UT0 .. UT1, NEW b, NEW c, IsBoundary(t, d, f, b), IsBoundary(t, d, f, c)
  PROVE  b = c
<1>1. b \in Int /\ c \in Int /\ d \in Int /\ b < d /\ c < d
  BY DaysAssumption DEF IsBoundary
<1>2. ~Open(t, b) /\ ~Open(t, c)
  BY DEF IsBoundary
<1>3. (\A m \in b + 1 .. d - 1 : Open(t, m)) /\ (\A m \in c + 1 .. d - 1 : Open(t, m))
  BY DEF IsBoundary
<1>4. CASE b < c
  BY <1>1, <1>2, <1>3, <1>4
<1>5. CASE c < b
  BY <1>1, <1>2, <1>3, <1>5
<1> QED
  BY <1>1, <1>4, <1>5

\* So a run finds one accumulation.
LEMMA OneFound ==
  ASSUME NEW t, NEW d \in UT0 .. UT1, NEW b, NEW a, NEW c, NEW x, Finds(t, d, b, a), Finds(t, d, c, x)
  PROVE  b = c /\ a = x
<1>1. PICK f : IsFrom(t, d, f) /\ IsBoundary(t, d, f, b)
  BY DEF Finds
<1>2. PICK g : IsFrom(t, d, g) /\ IsBoundary(t, d, g, c)
  BY DEF Finds
<1>3. f = g /\ f \in UT0 .. UT1
  BY <1>1, <1>2, OneFrom DEF IsFrom
<1>4. b = c
  BY <1>1, <1>2, <1>3, OneBoundary
<1> QED
  BY <1>4 DEF Finds

\* q holds the endpoints of the days behind c, in their order, as they are in the table t.
Holds(q, t, c, last) ==
    /\ q \in Seq(Queued)
    /\ \A i \in 1 .. Len(q) : c < q[i].day /\ q[i].day <= last /\ EndpointAt(t, q[i].day) /\ q[i].row = t[q[i].day]
    /\ \A i, j \in 1 .. Len(q) : i < j => q[i].day < q[j].day
    /\ \A d \in c + 1 .. last : EndpointAt(t, d) => \E i \in 1 .. Len(q) : q[i].day = d

\* What StartRun reads.
LEMMA EndpointsAre ==
  ASSUME rows \in [Days -> Row]
  PROVE  Holds(Endpoints, rows, UT0 - 1, UT1)
<1> DEFINE last == UT1 - UT0 + 1
           Step1(s, n) == IF rows[UT0 - 1 + n] # NoRow /\ EndpointFlags(rows[UT0 - 1 + n])
                          THEN Append(s, [day |-> UT0 - 1 + n, row |-> rows[UT0 - 1 + n]]) ELSE s
           IsUpTo(f) == f = [n \in 0 .. last |-> IF n = 0 THEN <<>> ELSE Step1(f[n - 1], n)]
           upTo == CHOOSE f : IsUpTo(f)
           D == Seq(Queued)
           step == [p \in D \X (1 .. last) |-> Step1(p[1], p[2])]
<1>1. last \in Nat /\ \A n \in 1 .. last : UT0 - 1 + n \in UT0 .. UT1 /\ UT0 - 1 + n \in Days
  BY DaysAssumption DEF Days
<1>0. Endpoints = upTo[last]
  BY DEF Endpoints
<1>a. UT0 - 1 + last = UT1 /\ UT0 \in Int
  BY DaysAssumption
<1> HIDE DEF last, upTo
<1>2. step \in [D \X (1 .. last) -> D] /\ <<>> \in D
  <2>1. ASSUME NEW s \in D, NEW n \in 1 .. last  PROVE Step1(s, n) \in D
    <3>1. [day |-> UT0 - 1 + n, row |-> rows[UT0 - 1 + n]] \in Queued
      BY <1>1 DEF Queued
    <3> QED  BY <3>1, AppendProperties
  <2> QED  BY <2>1
<1>3. PICK f \in [0 .. last -> D] : RecursiveOver(f, last, <<>>, step)
  <2> HIDE DEF step, D
  <2> QED  BY <1>1, <1>2, Recursion
<1>4. IsUpTo(f)
  <2> HIDE DEF Step1
  <2>1. f[0] = <<>> /\ \A n \in 1 .. last : f[n] = step[<<f[n - 1], n>>]
    BY <1>3 DEF RecursiveOver
  <2>2. \A n \in 1 .. last : f[n - 1] \in D
    BY <1>1
  <2>3. \A n \in 1 .. last : f[n] = Step1(f[n - 1], n)
    BY <1>1, <2>1, <2>2
  <2> QED  BY <1>1, <2>1, <2>3
<1>5. IsUpTo(upTo)
  <2> HIDE DEF IsUpTo
  <2> QED  BY <1>4 DEF upTo
<1>6. upTo[0] = <<>> /\ \A n \in 1 .. last : upTo[n] = Step1(upTo[n - 1], n)
  <2> HIDE DEF Step1
  <2> QED BY <1>1, <1>5
<1> DEFINE T == {n \in 0 .. last : Holds(upTo[n], rows, UT0 - 1, UT0 - 1 + n)}
<1>7. 0 \in T
  <2> DEFINE q == upTo[0]
  <2>1. q = <<>> /\ q \in Seq(Queued) /\ Len(q) = 0 /\ UT0 - 1 + 0 = UT0 - 1
    BY <1>2, <1>6, <1>a
  <2> HIDE DEF q
  <2>2. 1 .. Len(q) = {} /\ UT0 - 1 + 1 .. UT0 - 1 = {}
    BY <2>1, <1>a
  <2>3. Holds(q, rows, UT0 - 1, UT0 - 1)
    BY <2>1, <2>2 DEF Holds
  <2> QED  BY <1>1, <2>1, <2>3 DEF q
<1>8. ASSUME NEW n \in 1 .. last, n - 1 \in T  PROVE n \in T
  <2> DEFINE s == upTo[n - 1]
             d == UT0 - 1 + n
             x == [day |-> d, row |-> rows[d]]
  <2>1. /\ Holds(s, rows, UT0 - 1, d - 1) /\ n \in 0 .. last /\ d \in UT0 .. UT1 /\ d \in Days
    BY <1>1, <1>8, <1>a
  <2>2. upTo[n] = IF EndpointAt(rows, d) THEN Append(s, x) ELSE s
    BY <1>6 DEF EndpointAt
  <2>3. x \in Queued /\ x.day = d /\ x.row = rows[d] /\ d \in Int
    BY <2>1, <1>a DEF Queued
  <2>4. s \in Seq(Queued) /\ Len(s) \in Nat
    BY <2>1, LenProperties DEF Holds
  <2>a. \A i \in 1 .. Len(s) : s[i].day \in Int
    <3>1. \A i \in 1 .. Len(s) : s[i] \in Queued
      BY <2>4, ElementOfSeq
    <3> QED  BY <3>1, DaysAssumption DEF Queued
  <2> HIDE DEF s, d, x, T
  <2>b. /\ \A i \in 1 .. Len(s) : UT0 - 1 < s[i].day /\ s[i].day <= d - 1 /\ EndpointAt(rows, s[i].day) /\ s[i].row = rows[s[i].day]
        /\ \A i, j \in 1 .. Len(s) : i < j => s[i].day < s[j].day
        /\ \A k \in UT0 - 1 + 1 .. d - 1 : EndpointAt(rows, k) => \E i \in 1 .. Len(s) : s[i].day = k
    BY <2>1 DEF Holds
  <2>5. CASE ~EndpointAt(rows, d)
    <3>0. \A k \in UT0 - 1 + 1 .. d : k # d => k \in UT0 - 1 + 1 .. d - 1
      BY <2>3, <1>a
    <3>2. \A k \in UT0 - 1 + 1 .. d : EndpointAt(rows, k) => \E i \in 1 .. Len(s) : s[i].day = k
      BY <2>b, <2>5, <3>0
    <3>3. \A i \in 1 .. Len(s) : s[i].day <= d
      BY <2>a, <2>b, <2>3
    <3>1. Holds(s, rows, UT0 - 1, d)
      BY <2>4, <2>b, <3>2, <3>3 DEF Holds
    <3> QED  BY <2>1, <2>2, <2>5, <3>1 DEF T, d
  <2>6. CASE EndpointAt(rows, d)
    <3> DEFINE q == Append(s, x)
    <3>1. /\ q \in Seq(Queued) /\ Len(q) = Len(s) + 1
          /\ \A i \in 1 .. Len(s) : q[i] = s[i]
          /\ q[Len(s) + 1] = x
      BY <2>3, <2>4, AppendProperties
    <3> HIDE DEF q
    <3>2. \A i \in 1 .. Len(s) : UT0 - 1 < s[i].day /\ s[i].day <= d - 1 /\ EndpointAt(rows, s[i].day)
                                 /\ s[i].row = rows[s[i].day] /\ s[i].day \in Int
      BY <2>a, <2>b
    <3>3. ASSUME NEW i \in 1 .. Len(q)
          PROVE  UT0 - 1 < q[i].day /\ q[i].day <= d /\ EndpointAt(rows, q[i].day) /\ q[i].row = rows[q[i].day]
      <4>1. CASE i = Len(s) + 1
        BY <2>1, <2>3, <2>6, <3>1, <4>1, <1>a
      <4>2. CASE i # Len(s) + 1
        <5>1. i \in 1 .. Len(s) /\ q[i] = s[i]
          BY <2>4, <3>1, <4>2
        <5> QED  BY <2>3, <3>2, <5>1
      <4> QED  BY <4>1, <4>2
    <3>4. ASSUME NEW i \in 1 .. Len(q), NEW j \in 1 .. Len(q), i < j  PROVE q[i].day < q[j].day
      <4>1. i \in 1 .. Len(s) /\ q[i] = s[i]
        BY <2>4, <3>1, <3>4
      <4>2. CASE j = Len(s) + 1
        BY <2>3, <3>1, <3>2, <4>1, <4>2
      <4>3. CASE j # Len(s) + 1
        <5>1. j \in 1 .. Len(s) /\ q[j] = s[j]
          BY <2>4, <3>1, <4>3
        <5> QED  BY <2>1, <3>4, <4>1, <5>1 DEF Holds
      <4> QED  BY <4>2, <4>3
    <3>5. ASSUME NEW k \in UT0 - 1 + 1 .. d, EndpointAt(rows, k)  PROVE \E i \in 1 .. Len(q) : q[i].day = k
      <4>1. CASE k = d
        BY <2>3, <2>4, <3>1, <4>1
      <4>2. CASE k # d
        <5>1. k \in UT0 - 1 + 1 .. d - 1
          BY <2>3, <4>2, <1>a
        <5>2. PICK i \in 1 .. Len(s) : s[i].day = k
          BY <2>1, <3>5, <5>1 DEF Holds
        <5>3. i \in 1 .. Len(q) /\ q[i] = s[i]
          BY <2>4, <3>1
        <5> QED  BY <5>2, <5>3
      <4> QED  BY <4>1, <4>2
    <3>6. Holds(q, rows, UT0 - 1, d)
      BY <3>1, <3>3, <3>4, <3>5 DEF Holds
    <3> QED  BY <2>1, <2>2, <2>6, <3>6 DEF T, d, q
  <2> QED  BY <2>5, <2>6
<1>9. 0 .. last \subseteq T
  <2> HIDE DEF T
  <2> QED  BY <1>1, <1>7, <1>8, IntervalInduction
<1> QED
  BY <1>0, <1>1, <1>9, <1>a

\* The row of a day before the endpoint, as it goes into an accumulation.
RowOf(t, e, d) == IF d # e /\ t[d] = NoRow THEN MissingRow ELSE t[d]

\* Its update, as it was read.
Part(t, e, d) == [day |-> d, isNew |-> d # e /\ t[d] = NoRow, old |-> RowOf(t, e, d), new |-> RowOf(t, e, d)]

\* The days of an accumulation.
IsDay(e, b, i) == e + 1 - i \in b + 1 .. e /\ e + 1 - i \in Days /\ (i = 1 <=> e + 1 - i = e)

\* The updates of an accumulation.
LEMMA AccIs ==
  ASSUME NEW t \in [Days -> Row], NEW e \in UT0 .. UT1, NEW b \in Days, b < e
  PROVE  LET a == AccOf(t, e, b)
         IN  /\ a \in Seq(Updates) /\ Len(a) = e - b /\ DOMAIN a = 1 .. e - b /\ e - b \in Nat \ {0}
             /\ \A i \in 1 .. e - b : IsDay(e, b, i) /\ a[i] = Part(t, e, e + 1 - i) /\ a[i] \in Updates
<1> DEFINE a == AccOf(t, e, b)
           n == e - b
<1>1. n \in Nat \ {0} /\ e \in Nat /\ b \in Nat /\ \A i \in 1 .. n : IsDay(e, b, i)
  BY DaysAssumption DEF Days, IsDay
<1>2. ASSUME NEW d \in Days
      PROVE  PointOf(t, e, d) = Part(t, e, d) /\ Part(t, e, d) \in Updates
  <2> DEFINE r == RowOf(t, e, d)
             x == d # e /\ t[d] = NoRow
  <2>1. r \in Row /\ x \in BOOLEAN
    BY RowValues DEF RowOf
  <2>2. PointOf(t, e, d) = Update(d, x, r)
    <3>1. CASE d = e
      <4>1. x = FALSE /\ r = t[d]
        BY <3>1 DEF RowOf
      <4> QED  BY <3>1, <4>1, Zenon DEF PointOf
    <3>2. CASE d # e
      <4>1. x = (t[d] = NoRow) /\ r = IF t[d] = NoRow THEN MissingRow ELSE t[d]
        BY <3>2 DEF RowOf
      <4> HIDE DEF x, r
      <4>2. PointOf(t, e, d) = Update(d, t[d] = NoRow, IF t[d] = NoRow THEN MissingRow ELSE t[d])
        BY <3>2, Zenon DEF PointOf
      <4> QED  BY <4>1, <4>2, Zenon
    <3> QED  BY <3>1, <3>2
  <2> HIDE DEF x, r
  <2>3. Update(d, x, r) = [day |-> d, isNew |-> x, old |-> r, new |-> r]
    BY DEF Update
  <2>4. [day |-> d, isNew |-> x, old |-> r, new |-> r] \in Updates
    BY <2>1 DEF Updates
  <2> QED  BY <2>2, <2>3, <2>4 DEF x, r, Part
<1>3. \A i \in 1 .. n : a[i] = PointOf(t, e, e + 1 - i)
  BY DEF AccOf
<1>4. a = [i \in 1 .. n |-> a[i]]
  BY DEF AccOf
<1> HIDE DEF a
<1>5. ASSUME NEW i \in 1 .. n
      PROVE  a[i] = Part(t, e, e + 1 - i) /\ a[i] \in Updates
  <2> DEFINE d == e + 1 - i
  <2>1. d \in Days /\ a[i] = PointOf(t, e, d)
    BY <1>1, <1>3 DEF IsDay
  <2> HIDE DEF d
  <2>2. a[i] = Part(t, e, d) /\ a[i] \in Updates
    BY <1>2, <2>1
  <2> QED  BY <2>2 DEF d
<1> HIDE DEF n
<1>6. a \in Seq(Updates) /\ Len(a) = n /\ DOMAIN a = 1 .. n
  BY <1>1, <1>4, <1>5, ListOf
<1> QED
  BY <1>1, <1>5, <1>6 DEF a, n

\* What a run finds, with its types.
LEMMA FoundList ==
  ASSUME NEW t \in [Days -> Row], NEW e \in UT0 .. UT1, NEW b, NEW a, Finds(t, e, b, a)
  PROVE  /\ b \in Days /\ b < e /\ a = AccOf(t, e, b) /\ \A d \in b + 1 .. e - 1 : Open(t, d)
         /\ Checked(t, e)
<1>1. PICK f : IsFrom(t, e, f) /\ IsBoundary(t, e, f, b)
  BY DEF Finds
<1> QED
  BY <1>1, DaysAssumption DEF Finds, IsFrom, IsBoundary, Days

\* A row with a value and the flags of a redistribution.
Marked(r, v, fd) == FlagChange([r EXCEPT !.corrected = v], fd)
\* What that is.
LEMMA MarkedRow ==
  ASSUME NEW r \in Row, NEW v \in Int, NEW fd \in Nat
  PROVE  /\ Marked(r, v, fd) \in Row
         /\ Marked(r, v, fd).original = r.original /\ Marked(r, v, fd).corrected = v /\ Marked(r, v, fd).fhqc = r.fhqc
         /\ Marked(r, v, fd).fd = fd /\ Marked(r, v, fd).fmis = IF r.fmis = 3 THEN 1 ELSE r.fmis
<1> DEFINE o == [r EXCEPT !.corrected = v]
           m == IF o.fmis = 3 THEN 1 ELSE o.fmis
<1>1. /\ o \in Row /\ o.original = r.original /\ o.corrected = v /\ o.fhqc = r.fhqc /\ o.fmis = r.fmis
  BY DEF Row
<1>2. Marked(r, v, fd) = [o EXCEPT !.fd = fd, !.fmis = m]
  BY DEF Marked, FlagChange
<1>3. m \in Nat
  BY <1>1 DEF Row
<1>4. m = IF r.fmis = 3 THEN 1 ELSE r.fmis
  BY <1>1
<1> HIDE DEF o, m
<1>5. /\ [o EXCEPT !.fd = fd, !.fmis = m] \in Row
      /\ [o EXCEPT !.fd = fd, !.fmis = m].original = o.original /\ [o EXCEPT !.fd = fd, !.fmis = m].corrected = o.corrected
      /\ [o EXCEPT !.fd = fd, !.fmis = m].fhqc = o.fhqc
      /\ [o EXCEPT !.fd = fd, !.fmis = m].fd = fd /\ [o EXCEPT !.fd = fd, !.fmis = m].fmis = m
  BY <1>1, <1>3 DEF Row
<1> QED
  BY <1>1, <1>2, <1>4, <1>5

\* Marked once more it stays as it is.
LEMMA MarkedAgain ==
  ASSUME NEW r \in Row, NEW v \in Int, NEW fd \in Nat
  PROVE  Marked(Marked(r, v, fd), v, fd) = Marked(r, v, fd)
<1> DEFINE m == Marked(r, v, fd)
           x == Marked(m, v, fd)
<1>1. m \in Row /\ m.corrected = v /\ m.fd = fd /\ m.fmis # 3
  BY MarkedRow
<1> HIDE DEF m
<1>2. /\ x \in Row /\ x.original = m.original /\ x.corrected = v /\ x.fhqc = m.fhqc /\ x.fd = fd
      /\ x.fmis = m.fmis
  BY <1>1, MarkedRow
<1> HIDE DEF x
<1>3. x = m
  BY <1>1, <1>2 DEF Row
<1> QED
  BY <1>3 DEF x, m

\* The flags of the update at place i.
FlagAt(i) == IF i = 1 THEN 8 ELSE 7

\* A distribution, update by update.
LEMMA RedistributedAt ==
  ASSUME NEW a \in Seq(Updates), NEW v, NEW i \in DOMAIN a
  PROVE  /\ DOMAIN Redistributed(a, v) = DOMAIN a
         /\ Redistributed(a, v)[i] = [day |-> a[i].day, isNew |-> a[i].isNew, old |-> a[i].old,
                                      new |-> Marked(a[i].old, v[i], FlagAt(i))]
<1> DEFINE n == Marked(a[i].old, v[i], FlagAt(i))
<1>1. a[i] \in Updates
  BY LenProperties, ElementOfSeq
<1>2. DOMAIN Redistributed(a, v) = DOMAIN a /\ Redistributed(a, v)[i] = [a[i] EXCEPT !.new = n]
  BY Zenon DEF Redistributed, Marked, FlagAt
<1> HIDE DEF n
<1>3. [a[i] EXCEPT !.new = n] = [day |-> a[i].day, isNew |-> a[i].isNew, old |-> a[i].old, new |-> n]
  BY <1>1 DEF Updates
<1> QED
  BY <1>2, <1>3 DEF n

\* What is made of accumulations that are alike has the same values.
LEMMA MadeAlike ==
  ASSUME NEW n, NEW a \in Seq(Updates), NEW x, Makes(n, a, x)
  PROVE  \E v : /\ x = Redistributed(a, v)
                /\ \A b \in Seq(Updates) : \A y : Alike(b, a) /\ Makes(n, b, y) => y = Redistributed(b, v)
<1>1. CASE Accumulated(a) = BoneDry
  <2> DEFINE v == [i \in DOMAIN a |-> BoneDry]
  <2>1. x = Redistributed(a, v)
    BY <1>1 DEF Makes, RedistributeBoneDry
  <2>2. ASSUME NEW b \in Seq(Updates), NEW y, Alike(b, a), Makes(n, b, y)  PROVE y = Redistributed(b, v)
    <3>1. Accumulated(b) = BoneDry /\ DOMAIN b = DOMAIN a
      BY <1>1, <2>2 DEF Alike
    <3>2. y = RedistributeBoneDry(b)
      BY <2>2, <3>1 DEF Makes
    <3> QED  BY <3>1, <3>2 DEF RedistributeBoneDry
  <2> HIDE DEF v
  <2> QED  BY <2>1, <2>2
<1>2. CASE Accumulated(a) # BoneDry
  <2>1. PICK v : ValuesOf(n, a, v) /\ x = Redistributed(a, v)
    BY <1>2 DEF Makes
  <2>2. ASSUME NEW b \in Seq(Updates), NEW y, Alike(b, a), Makes(n, b, y)  PROVE y = Redistributed(b, v)
    <3>1. Accumulated(b) # BoneDry
      BY <1>2, <2>2 DEF Alike
    <3>2. PICK w : ValuesOf(n, b, w) /\ y = Redistributed(b, w)
      BY <2>2, <3>1 DEF Makes
    <3>3. DOMAIN b = 1 .. Len(b)
      BY LenProperties
    <3>4. ValuesOf(n, a, w)
      BY <2>2, <3>2, <3>3, AlikeValues
    <3>5. v = w
      BY <2>1, <3>4, OneResult
    <3> QED  BY <3>2, <3>5
  <2> QED  BY <2>1, <2>2
<1> QED
  BY <1>1, <1>2

\* A transaction at hand: the rows were found and distributed, and are in the table as they were read.
Storing(c, b, a) ==
    /\ IInv /\ c \in UT0 .. UT1 /\ Finds(rows, c, b, a) /\ Makes(nbr, a, acc) /\ pc = "store"
    /\ UpdateOrInsertData

\* The update of a day, marked with the value v.
MarkedPart(t, e, d, v, fd) ==
    [day |-> d, isNew |-> d # e /\ t[d] = NoRow, old |-> RowOf(t, e, d), new |-> Marked(RowOf(t, e, d), v, fd)]
\* Two of its fields.
LEMMA MarkedFields ==
  ASSUME NEW t, NEW e, NEW d, NEW v, NEW fd
  PROVE  MarkedPart(t, e, d, v, fd).day = d /\ MarkedPart(t, e, d, v, fd).new = Marked(RowOf(t, e, d), v, fd)
<1> DEFINE x == d # e /\ t[d] = NoRow
           r == RowOf(t, e, d)
           m == Marked(r, v, fd)
<1>1. MarkedPart(t, e, d, v, fd) = [day |-> d, isNew |-> x, old |-> r, new |-> m]
  BY DEF MarkedPart
<1> HIDE DEF x, r, m
<1>2. MarkedPart(t, e, d, v, fd).day = d /\ MarkedPart(t, e, d, v, fd).new = m
  BY <1>1
<1> QED
  BY <1>2 DEF m, r

\* The updates at hand are marked with the values v.
MarkedWith(c, b, v) ==
    \A i \in 1 .. c - b :
        /\ IsDay(c, b, i) /\ RowOf(rows, c, c + 1 - i) \in Row /\ v[i] \in Nat \union {BoneDry} /\ v[i] \in Int
        /\ acc[i] = MarkedPart(rows, c, c + 1 - i, v[i], FlagAt(i))

\* The updates.
LEMMA StoredUpdates ==
  ASSUME NEW c, NEW b, NEW a, Storing(c, b, a)
  PROVE  /\ b \in Days /\ c \in Days /\ b < c /\ a \in Seq(Updates) /\ a = AccOf(rows, c, b)
         /\ DOMAIN acc = 1 .. c - b /\ DOMAIN a = 1 .. c - b /\ Len(a) = c - b
         /\ \E v : /\ acc = Redistributed(a, v)
                   /\ \A e \in Seq(Updates) : \A y : Alike(e, a) /\ Makes(nbr, e, y) => y = Redistributed(e, v)
                   /\ MarkedWith(c, b, v)
<1>1. c \in UT0 .. UT1 /\ rows \in [Days -> Row] /\ acc \in Seq(Updates) /\ pc = "store"
  BY InvFacts DEF Storing
<1>2. b \in Days /\ b < c /\ a = AccOf(rows, c, b)
  BY <1>1, FoundList DEF Storing
<1>3. c \in Days
  BY <1>1, DaysAssumption DEF Days
<1>4. /\ a \in Seq(Updates) /\ Len(a) = c - b /\ DOMAIN a = 1 .. c - b
      /\ \A i \in 1 .. c - b : IsDay(c, b, i) /\ a[i] = Part(rows, c, c + 1 - i)
  BY <1>1, <1>2, AccIs
<1>5. PICK v : /\ acc = Redistributed(a, v)
               /\ \A e \in Seq(Updates) : \A y : Alike(e, a) /\ Makes(nbr, e, y) => y = Redistributed(e, v)
  BY <1>4, MadeAlike DEF Storing
<1>6. DOMAIN acc = 1 .. c - b
  <2>1. DOMAIN Redistributed(a, v) = DOMAIN a
    BY DEF Redistributed
  <2> QED  BY <1>4, <1>5, <2>1
<1>7. ASSUME NEW i \in 1 .. c - b
      PROVE  /\ RowOf(rows, c, c + 1 - i) \in Row /\ v[i] \in Nat \union {BoneDry} /\ v[i] \in Int
             /\ acc[i] = MarkedPart(rows, c, c + 1 - i, v[i], FlagAt(i))
  <2> DEFINE d == c + 1 - i
             r == RowOf(rows, c, d)
             x == d # c /\ rows[d] = NoRow
  <2>1. d \in Days
    BY <1>4 DEF IsDay
  <2>2. r \in Row
    <3> HIDE DEF d
    <3> QED  BY <1>1, <2>1, RowValues DEF RowOf
  <2>3. a[i] = [day |-> d, isNew |-> x, old |-> r, new |-> r]
    BY <1>4 DEF Part
  <2>4. acc[i] = [day |-> a[i].day, isNew |-> a[i].isNew, old |-> a[i].old, new |-> Marked(a[i].old, v[i], FlagAt(i))]
    <3>1. i \in DOMAIN a
      BY <1>4
    <3> QED  BY <1>4, <1>5, <3>1, RedistributedAt
  <2> HIDE DEF d, r, x
  <2>5. acc[i] = [day |-> d, isNew |-> x, old |-> r, new |-> Marked(r, v[i], FlagAt(i))]
    BY <2>3, <2>4
  <2>6. acc[i].new.corrected \in Nat \union {BoneDry}
    BY <1>1, <1>6, Zenon DEF Storing, IInv, DriftBounded
  <2>7. acc[i].new.corrected = v[i]
    <3> DEFINE o == [r EXCEPT !.corrected = v[i]]
    <3>1. o.corrected = v[i]
      BY <2>2 DEF Row
    <3>2. DOMAIN o = {"original", "corrected", "fmis", "fd", "fhqc"}
      BY <2>2 DEF Row
    <3> HIDE DEF o
    <3>3. FlagChange(o, FlagAt(i)).corrected = o.corrected
      BY <3>2 DEF FlagChange
    <3> QED  BY <2>5, <3>1, <3>3 DEF Marked, o
  <2> QED  BY <2>2, <2>5, <2>6, <2>7, SpecialValues DEF d, r, x, MarkedPart
<1>8. MarkedWith(c, b, v)
  BY <1>4, <1>7 DEF MarkedWith
<1> QED
  BY <1>2, <1>3, <1>4, <1>5, <1>6, <1>8

\* What is in the table afterwards.
LEMMA StoredRows ==
  ASSUME NEW c, NEW b, NEW a, Storing(c, b, a)
  PROVE  /\ rows' \in [Days -> Row]
         /\ \A d \in Days : d \notin b + 1 .. c => rows'[d] = rows[d]
         /\ \A i \in 1 .. c - b : rows'[c + 1 - i] = acc[i].new
<1>1. rows \in [Days -> Row] /\ rows' = [d \in Days |-> Written(d)] /\ rows' \in [Days -> Row]
  BY InvFacts, WrittenRows, Tables DEF Storing, UpdateOrInsertData, IInv
<1>2. b \in Days /\ c \in Days /\ b < c /\ DOMAIN acc = 1 .. c - b
  BY StoredUpdates
<1>3. PICK v : MarkedWith(c, b, v)
  BY StoredUpdates
<1>4. \A i \in 1 .. c - b : acc[i].day = c + 1 - i /\ c + 1 - i \in b + 1 .. c
  BY <1>3, MarkedFields DEF MarkedWith, IsDay
<1>5. c \in Nat /\ b \in Nat
  BY <1>2 DEF Days
<1>6. ASSUME NEW d \in Days, d \notin b + 1 .. c  PROVE rows'[d] = rows[d]
  <2>1. {i \in Writes : acc[i].day = d} = {}
    BY <1>2, <1>4, <1>6 DEF Writes
  <2>2. Written(d) = rows[d]
    BY <2>1, Zenon DEF Written
  <2> QED  BY <1>1, <2>2
<1>7. ASSUME NEW i \in 1 .. c - b  PROVE rows'[c + 1 - i] = acc[i].new
  <2> DEFINE d == c + 1 - i
             r == RowOf(rows, c, d)
             x == d # c /\ rows[d] = NoRow
             m == Marked(r, v[i], FlagAt(i))
             is == {j \in Writes : acc[j].day = d}
  <2>1. d \in Days /\ r \in Row /\ v[i] \in Int
    BY <1>3 DEF MarkedWith, IsDay
  <2>2. acc[i] = [day |-> d, isNew |-> x, old |-> r, new |-> m]
    BY <1>3 DEF MarkedWith, MarkedPart
  <2>3. rows[c] # NoRow
    BY DEF Storing, Finds, Checked, EndpointAt
  <2>4. \A j \in 1 .. c - b : acc[j].day = d => j = i
    BY <1>4, <1>5
  <2>5. m.original = r.original /\ m \in Row
    <3>1. FlagAt(i) \in Nat
      BY DEF FlagAt
    <3> QED  BY <2>1, <3>1, MarkedRow
  <2>6. ~x => r = rows[d] /\ rows[d] # NoRow
    <3> HIDE DEF d
    <3> QED  BY <2>3 DEF RowOf
  <2>7. rows'[d] = Written(d)
    BY <1>1, <2>1
  <2> HIDE DEF d, r, x, m
  <2>8. CASE NeedsWrite(acc[i])
    <3>1. is = {i}
      BY <1>2, <2>2, <2>4, <2>8 DEF Writes
    <3>2. (CHOOSE j \in is : TRUE) = i
      BY <3>1
    <3> HIDE DEF is
    <3>3. Written(d) = IF acc[i].isNew THEN acc[i].new
                       ELSE IF rows[d] = NoRow THEN NoRow ELSE [acc[i].new EXCEPT !.original = rows[d].original]
      <4>1. is # {}
        BY <3>1
      <4> QED  BY <3>2, <4>1, Zenon DEF Written, is
    <3>4. CASE x
      BY <2>2, <2>7, <3>3, <3>4 DEF d
    <3>5. CASE ~x
      <4>1. Written(d) = [m EXCEPT !.original = m.original]
        BY <2>2, <2>5, <2>6, <3>3, <3>5
      <4>2. [m EXCEPT !.original = m.original] = m
        BY <2>5 DEF Row
      <4> QED  BY <2>2, <2>7, <4>1, <4>2 DEF d
    <3> QED  BY <3>4, <3>5
  <2>9. CASE ~NeedsWrite(acc[i])
    <3>1. ~x /\ m = r
      BY <2>2, <2>9 DEF NeedsWrite
    <3>2. is = {}
      BY <1>2, <2>4, <2>9 DEF Writes
    <3>3. Written(d) = rows[d]
      BY <3>2, Zenon DEF Written
    <3> QED  BY <2>2, <2>6, <2>7, <3>1, <3>3 DEF d
  <2> QED  BY <2>8, <2>9
<1> QED
  BY <1>1, <1>6, <1>7

\* A value that is distributed is an amount.
LEMMA Amounted ==
  ASSUME NEW v, v \in Nat \union {BoneDry}
  PROVE  v # Missing /\ v # Rejected
  BY DEF Missing, Rejected, BoneDry

\* A transaction leaves endpoints what they were, and open days open, whether there was a row or not.
LEMMA StoredKeeps ==
  ASSUME NEW c, NEW b, NEW a, Storing(c, b, a), NEW d \in Days
  PROVE  /\ EndpointAt(rows', d) <=> EndpointAt(rows, d)
         /\ Checked(rows', d) <=> Checked(rows, d)
         /\ Open(rows', d) <=> Open(rows, d)
         /\ ~Open(rows, d) => (IsMissingOrRejected(rows'[d]) <=> IsMissingOrRejected(rows[d]))
         /\ d \in b + 1 .. c - 1 => ~EndpointAt(rows, d)
         /\ d \in b + 1 .. c => rows'[d] # NoRow
<1>1. /\ rows \in [Days -> Row] /\ rows' \in [Days -> Row]
      /\ \A k \in Days : k \notin b + 1 .. c => rows'[k] = rows[k]
      /\ \A i \in 1 .. c - b : rows'[c + 1 - i] = acc[i].new
      /\ b \in Days /\ c \in Days /\ b < c
  BY StoredRows, StoredUpdates, InvFacts DEF Storing
<1>2. CASE d \notin b + 1 .. c
  <2>1. rows'[d] = rows[d] /\ d \notin b + 1 .. c - 1
    BY <1>1, <1>2 DEF Days
  <2> QED  BY <1>2, <2>1, Zenon DEF EndpointAt, Checked, Open
<1>3. CASE d \in b + 1 .. c
  <2> DEFINE i == c + 1 - d
             o == RowOf(rows, c, d)
             r == rows'[d]
  <2>1. i \in 1 .. c - b /\ c + 1 - i = d /\ (i = 1 <=> d = c)
    BY <1>1, <1>3 DEF Days
  <2>2. PICK v : /\ v \in Nat \union {BoneDry} /\ v \in Int /\ o \in Row
                 /\ acc[i].new = Marked(o, v, FlagAt(i))
    <3>1. PICK v : MarkedWith(c, b, v)
      BY StoredUpdates
    <3> HIDE DEF i
    <3>2. acc[i].new = Marked(RowOf(rows, c, c + 1 - i), v[i], FlagAt(i))
      BY <2>1, <3>1, MarkedFields DEF MarkedWith
    <3>3. v[i] \in Nat \union {BoneDry} /\ v[i] \in Int /\ RowOf(rows, c, c + 1 - i) \in Row
      BY <2>1, <3>1 DEF MarkedWith
    <3> QED  BY <2>1, <3>2, <3>3
  <2>3. /\ r = Marked(o, v, FlagAt(i)) /\ r \in Row /\ r.original = o.original /\ r.corrected = v
        /\ r.fd = FlagAt(i) /\ r.fmis = IF o.fmis = 3 THEN 1 ELSE o.fmis
    <3>1. r = acc[i].new
      BY <1>1, <2>1
    <3>2. FlagAt(i) \in Nat
      BY DEF FlagAt
    <3> HIDE DEF i, r, o
    <3> QED  BY <2>2, <3>1, <3>2, MarkedRow
  <2>4. r # NoRow
    <3>1. r.fd # 15
      BY <2>3 DEF FlagAt
    <3> QED  BY <3>1 DEF NoRow
  <2>5. CASE d = c
    <3>1. Checked(rows, d) /\ o = rows[d]
      BY <2>5 DEF Storing, Finds, RowOf
    <3>2. FlagAt(i) = 8
      BY <2>1, <2>5 DEF FlagAt
    <3> HIDE DEF i, r, o
    <3>3. rows[d] # NoRow /\ o.fmis \in {0, 4} /\ ~IsMissingOrRejected(o) /\ (o.fmis = 0 => o.original = BoneDry)
      BY <3>1 DEF Checked, EndpointAt, EndpointFlags, CheckEndpoint
    <3>4. r.fmis = o.fmis /\ r.fd = 8 /\ r.original = o.original /\ r.corrected \notin {Missing, Rejected}
      BY <2>2, <2>3, <3>2, <3>3, Amounted
    <3>5. ~IsMissingOrRejected(r)
      BY <3>3, <3>4 DEF IsMissingOrRejected
    <3>6. EndpointFlags(r) /\ CheckEndpoint(r) /\ ~MissingpointFlags(r) /\ ~MissingpointFlags(o)
      BY <3>3, <3>4, <3>5 DEF EndpointFlags, CheckEndpoint, MissingpointFlags, EndBeforeRedist, EndAfterRedist
    <3>7. Checked(rows', d) /\ EndpointAt(rows', d) /\ ~Open(rows', d)
      BY <2>4, <3>6 DEF Checked, EndpointAt, Open, r
    <3>8. EndpointAt(rows, d) /\ ~Open(rows, d) /\ ~IsMissingOrRejected(rows[d])
      BY <3>1, <3>3, <3>6 DEF Checked, Open
    <3>9. d \notin b + 1 .. c - 1
      BY <1>1, <2>5 DEF Days
    <3> QED  BY <2>4, <3>1, <3>5, <3>7, <3>8, <3>9 DEF r
  <2>6. CASE d # c
    <3>1. d \in b + 1 .. c - 1 /\ c \in UT0 .. UT1
      BY <1>1, <1>3, <2>6 DEF Days, Storing
    <3>2. Open(rows, d)
      BY <1>1, <3>1, FoundList DEF Storing
    <3>3. FlagAt(i) = 7
      BY <2>1, <2>6 DEF FlagAt
    <3> HIDE DEF i, r
    <3>4. o.fmis \in {1, 3}
      BY <2>6, <3>2 DEF Open, RowOf, MissingRow, MissingpointFlags
    <3> HIDE DEF o
    <3>5. r.fmis = 1 /\ r.fd = 7
      BY <2>3, <3>3, <3>4
    <3>6. MissingpointFlags(r) /\ ~EndpointFlags(r)
      BY <3>5 DEF MissingpointFlags, EndpointFlags
    <3>7. ~EndpointAt(rows, d)
      BY <3>2 DEF Open, EndpointAt, EndpointFlags, MissingpointFlags
    <3> QED  BY <2>4, <3>1, <3>2, <3>6, <3>7 DEF EndpointAt, Checked, Open, r
  <2> QED  BY <2>5, <2>6
<1> QED
  BY <1>2, <1>3

\* So the next run reads from the same days.
LEMMA StoredFrom ==
  ASSUME NEW c, NEW b, NEW a, Storing(c, b, a), NEW d, NEW f
  PROVE  IsFrom(rows', d, f) <=> IsFrom(rows, d, f)
<1>1. \A k \in UT0 .. UT1 : Checked(rows', k) <=> Checked(rows, k)
  <2>1. \A k \in UT0 .. UT1 : k \in Days
    BY DaysAssumption DEF Days
  <2> QED  BY <2>1, StoredKeeps
<1> QED
  BY <1>1 DEF IsFrom

\* The rows to which it reads.
LEMMA StoredBoundary ==
  ASSUME NEW c, NEW b, NEW a, Storing(c, b, a), NEW d \in UT0 .. UT1, NEW f \in UT0 .. UT1, NEW k
  PROVE  IsBoundary(rows', d, f, k) <=> IsBoundary(rows, d, f, k)
<1>1. \A m \in f - 1 .. d - 1 : m \in Days
  BY DaysAssumption DEF Days
<1>2. \A m \in f - 1 .. d - 1 :
        /\ Open(rows', m) <=> Open(rows, m)
        /\ ~Open(rows, m) => (IsMissingOrRejected(rows'[m]) <=> IsMissingOrRejected(rows[m]))
  BY <1>1, StoredKeeps
<1>3. ASSUME k \in f - 1 .. d - 1  PROVE \A m \in k + 1 .. d - 1 : m \in f - 1 .. d - 1
  BY <1>3, DaysAssumption
<1> QED
  BY <1>2, <1>3 DEF IsBoundary

\* The accumulations of other endpoints share no day with this one.
LEMMA StoredOthers ==
  ASSUME NEW c, NEW b, NEW a, Storing(c, b, a), NEW d \in UT0 .. UT1, d # c, EndpointAt(rows, d),
         NEW k \in Days, k < d, \A m \in k + 1 .. d - 1 : Open(rows, m)
  PROVE  AccOf(rows', d, k) = AccOf(rows, d, k) /\ rows'[d] = rows[d]
<1>1. /\ c \in UT0 .. UT1 /\ b \in Days /\ b < c /\ c \in Days /\ d \in Days
      /\ \A x \in Days : x \notin b + 1 .. c => rows'[x] = rows[x]
  BY StoredRows, StoredUpdates, DaysAssumption DEF Storing, Days
<1>2. Checked(rows, c)
  BY DEF Storing, Finds
<1>3. ~Open(rows, c)
  BY <1>2 DEF Checked, EndpointAt, Open, EndpointFlags, MissingpointFlags
<1>4. \A x \in Days : x \in b + 1 .. c - 1 => ~EndpointAt(rows, x)
  BY StoredKeeps
<1>5. ASSUME NEW x \in Days, x \in k + 1 .. d  PROVE x \notin b + 1 .. c
  <2> SUFFICES ASSUME x \in b + 1 .. c  PROVE FALSE
    OBVIOUS
  <2>1. CASE d < c
    <3>1. d \in b + 1 .. c - 1
      BY <1>1, <1>5, <2>1 DEF Days
    <3> QED  BY <1>1, <1>4, <3>1
  <2>2. CASE c < d
    <3>1. c \in k + 1 .. d - 1
      BY <1>1, <1>5, <2>2 DEF Days
    <3> QED  BY <1>3, <3>1
  <2> QED  BY <1>1, <2>1, <2>2 DEF Days
<1>6. \A x \in Days : x \in k + 1 .. d => rows'[x] = rows[x]
  BY <1>1, <1>5
<1>7. \A x \in Days : x \in k + 1 .. d => PointOf(rows', d, x) = PointOf(rows, d, x)
  <2>1. d \in k + 1 .. d
    BY <1>1 DEF Days
  <2> QED  BY <1>1, <1>6, <2>1, Zenon DEF PointOf
<1>8. \A i \in 1 .. d - k : d + 1 - i \in Days /\ d + 1 - i \in k + 1 .. d
  <2>1. d \in Int /\ k \in Int /\ N \in Int /\ d <= N /\ 1 <= k
    BY <1>1, DaysAssumption DEF Days
  <2> QED  BY <2>1 DEF Days
<1>9. \A i \in 1 .. d - k : PointOf(rows', d, d + 1 - i) = PointOf(rows, d, d + 1 - i)
  BY <1>7, <1>8
<1>10. d \in k + 1 .. d
  BY <1>1 DEF Days
<1> QED
  BY <1>1, <1>6, <1>9, <1>10 DEF AccOf

\* What was done stays done.
LEMMA StoredDone ==
  ASSUME NEW c, NEW b, NEW a, Storing(c, b, a), NEW d \in UT0 .. UT1, d # c, Done(nbr, rows, d)
  PROVE  Done(nbr, rows', d)
<1> SUFFICES ASSUME NEW k, NEW x, Finds(rows', d, k, x)  PROVE Quiet(nbr, x)
  BY DEF Done
<1>1. PICK f : IsFrom(rows', d, f) /\ IsBoundary(rows', d, f, k)
  BY DEF Finds
<1>2. f \in UT0 .. UT1 /\ IsFrom(rows, d, f) /\ d \in Days
  <2>1. f \in UT0 .. UT1 /\ d \in Days
    BY <1>1, DaysAssumption DEF IsFrom, Days
  <2>2. IsFrom(rows, d, f)
    BY <1>1, StoredFrom
  <2> QED  BY <2>1, <2>2
<1>3. IsBoundary(rows, d, f, k)
  BY <1>1, <1>2, StoredBoundary
<1>4. Checked(rows, d)
  BY <1>2, StoredKeeps DEF Finds
<1>5. k \in Days /\ k < d /\ \A m \in k + 1 .. d - 1 : Open(rows, m)
  BY <1>2, <1>3, DaysAssumption DEF IsBoundary, Days
<1>6. AccOf(rows', d, k) = AccOf(rows, d, k)
  BY <1>4, <1>5, StoredOthers DEF Checked
<1>7. Finds(rows, d, k, x)
  BY <1>2, <1>3, <1>4, <1>6 DEF Finds
<1> QED
  BY <1>7 DEF Done

\* What has just been written is what a second run would write.
LEMMA StoredQuiet ==
  ASSUME NEW c, NEW b, NEW a, Storing(c, b, a)
  PROVE  Done(nbr, rows', c)
<1> SUFFICES ASSUME NEW k, NEW e, Finds(rows', c, k, e)  PROVE Quiet(nbr, e)
  BY DEF Done
<1> SUFFICES ASSUME NEW y, Makes(nbr, e, y)  PROVE \A i \in DOMAIN y : ~NeedsWrite(y[i])
  BY DEF Quiet
<1>1. /\ c \in UT0 .. UT1 /\ c \in Days /\ b \in Days /\ b < c /\ rows \in [Days -> Row] /\ rows' \in [Days -> Row]
      /\ a \in Seq(Updates) /\ a = AccOf(rows, c, b) /\ DOMAIN a = 1 .. c - b /\ Len(a) = c - b
  BY StoredUpdates, StoredRows, InvFacts DEF Storing
<1>2. k = b /\ e = AccOf(rows', c, b)
  <2>1. PICK f : IsFrom(rows', c, f) /\ IsBoundary(rows', c, f, k)
    BY DEF Finds
  <2>2. PICK g : IsFrom(rows, c, g) /\ IsBoundary(rows, c, g, b)
    BY DEF Storing, Finds
  <2>3. f = g /\ f \in UT0 .. UT1
    BY <2>1, <2>2, StoredFrom, OneFrom DEF IsFrom
  <2>4. IsBoundary(rows, c, f, k)
    BY <1>1, <2>1, <2>3, StoredBoundary
  <2>5. k = b
    BY <1>1, <2>2, <2>3, <2>4, OneBoundary
  <2> QED  BY <2>5 DEF Finds
<1>3. PICK v : /\ MarkedWith(c, b, v)
               /\ \A x \in Seq(Updates) : \A z : Alike(x, a) /\ Makes(nbr, x, z) => z = Redistributed(x, v)
  BY StoredUpdates
<1>4. /\ e \in Seq(Updates) /\ Len(e) = c - b /\ DOMAIN e = 1 .. c - b /\ c - b \in Nat \ {0}
      /\ \A i \in 1 .. c - b : e[i] = Part(rows', c, c + 1 - i)
  <2> DEFINE t == rows'
  <2>1. t \in [Days -> Row] /\ c \in UT0 .. UT1 /\ b \in Days /\ b < c
    BY <1>1
  <2> HIDE DEF t
  <2>2. e = AccOf(t, c, b)
    BY <1>2 DEF t
  <2>3. /\ e \in Seq(Updates) /\ Len(e) = c - b /\ DOMAIN e = 1 .. c - b /\ c - b \in Nat \ {0}
        /\ \A i \in 1 .. c - b : e[i] = Part(t, c, c + 1 - i)
    BY ONLY <2>1, <2>2, AccIs
  <2> QED  BY <2>3 DEF t
<1>5. \A i \in 1 .. c - b : a[i] = Part(rows, c, c + 1 - i) /\ IsDay(c, b, i)
  <2>1. rows \in [Days -> Row] /\ c \in UT0 .. UT1 /\ b \in Days /\ b < c /\ a = AccOf(rows, c, b)
    BY <1>1
  <2> QED  BY ONLY <2>1, AccIs
<1>6. \A t, d : Part(t, c, d).day = d /\ Part(t, c, d).old = RowOf(t, c, d)
  <2> TAKE t, d
  <2> DEFINE x == d # c /\ t[d] = NoRow
             r == RowOf(t, c, d)
  <2>1. Part(t, c, d) = [day |-> d, isNew |-> x, old |-> r, new |-> r]
    BY DEF Part
  <2> HIDE DEF x, r
  <2> QED  BY <2>1 DEF r
<1>7. ASSUME NEW i \in 1 .. c - b
      PROVE  LET r == Marked(RowOf(rows, c, c + 1 - i), v[i], FlagAt(i))
             IN  /\ e[i] = [day |-> c + 1 - i, isNew |-> FALSE, old |-> r, new |-> r]
                 /\ r \in Row /\ r.original = RowOf(rows, c, c + 1 - i).original /\ Marked(r, v[i], FlagAt(i)) = r
  <2> DEFINE d == c + 1 - i
             o == RowOf(rows, c, d)
             r == Marked(o, v[i], FlagAt(i))
  <2>1. /\ d \in b + 1 .. c /\ d \in Days /\ o \in Row /\ v[i] \in Int /\ FlagAt(i) \in Nat
        /\ acc[i].new = r
    BY <1>3, MarkedFields DEF MarkedWith, IsDay, FlagAt
  <2>2. rows'[d] = r
    BY <2>1, StoredRows
  <2>3. rows'[d] # NoRow
    BY <2>1, StoredKeeps
  <2> HIDE DEF d, o
  <2>4. r \in Row /\ r.original = o.original /\ Marked(r, v[i], FlagAt(i)) = r
    BY <2>1, MarkedRow, MarkedAgain
  <2> HIDE DEF r
  <2>5. Part(rows', c, d) = [day |-> d, isNew |-> FALSE, old |-> r, new |-> r]
    <3>1. RowOf(rows', c, d) = r /\ (d # c /\ rows'[d] = NoRow) = FALSE
      BY <2>2, <2>3 DEF RowOf
    <3> QED  BY <3>1, Zenon DEF Part
  <2>6. e[i] = Part(rows', c, d)
    BY <1>4 DEF d
  <2> QED  BY <2>4, <2>5, <2>6 DEF d, o, r
<1>8. Alike(e, a)
  <2>1. \A i \in 1 .. c - b : e[i].day = a[i].day
    BY <1>4, <1>5, <1>6
  <2>2. 1 \in 1 .. c - b
    BY <1>4
  <2>3. e[1].old.original = a[1].old.original
    <3>1. a[1].old = RowOf(rows, c, c + 1 - 1)
      BY <1>5, <1>6, <2>2
    <3> DEFINE r == Marked(RowOf(rows, c, c + 1 - 1), v[1], FlagAt(1))
    <3>2. e[1] = [day |-> c + 1 - 1, isNew |-> FALSE, old |-> r, new |-> r] /\ r.original = RowOf(rows, c, c + 1 - 1).original
      BY <1>7, <2>2
    <3> HIDE DEF r
    <3>3. e[1].old = r
      BY <3>2
    <3> QED  BY <3>1, <3>2, <3>3
  <2> QED  BY <1>1, <1>4, <2>1, <2>3 DEF Alike, Accumulated
<1>9. y = Redistributed(e, v)
  BY <1>3, <1>4, <1>8
<1>10. ASSUME NEW i \in 1 .. c - b  PROVE ~NeedsWrite(y[i])
  <2>1. y[i] = [day |-> e[i].day, isNew |-> e[i].isNew, old |-> e[i].old, new |-> Marked(e[i].old, v[i], FlagAt(i))]
    <3>1. i \in DOMAIN e
      BY <1>4
    <3> QED  BY <1>4, <1>9, <3>1, RedistributedAt
  <2> DEFINE r == Marked(RowOf(rows, c, c + 1 - i), v[i], FlagAt(i))
  <2>2. e[i] = [day |-> c + 1 - i, isNew |-> FALSE, old |-> r, new |-> r] /\ Marked(r, v[i], FlagAt(i)) = r
    BY <1>7
  <2> HIDE DEF r
  <2>3. y[i].isNew = FALSE /\ y[i].old = r /\ y[i].new = r
    BY <2>1, <2>2
  <2> QED  BY <2>3 DEF NeedsWrite
<1>11. DOMAIN y = 1 .. c - b
  <2>1. DOMAIN Redistributed(e, v) = DOMAIN e
    BY DEF Redistributed
  <2> QED  BY <1>4, <1>9, <2>1
<1> QED
  BY <1>10, <1>11

\* The accumulation of day c is at hand, or what is made of it.
AtHand(c) ==
    /\ earliest = c /\ c \in UT0 .. UT1
    /\ \E b, a : /\ Finds(rows, c, b, a)
                 /\ \/ pc = "distribute" /\ acc = a
                    \/ pc = "store" /\ Makes(nbr, a, acc)
\* The endpoints up to day c have been looked at, and all but the one at hand are done.
Upto(c) ==
    /\ Holds(todo, rows, c, UT1)
    /\ IsFrom(rows, c + 1, earliest)
    /\ \A d \in UT0 .. c : Done(nbr, rows, d) \/ (pc # "next" /\ d = c)
    /\ pc # "next" => AtHand(c)
AllDone == \A d \in UT0 .. UT1 : Done(nbr, rows, d)

\* During an undisturbed run the endpoints that have been looked at are done; after it, all are.
QuietInv ==
    /\ IInv
    /\ calm /\ pc # "idle" => \E c \in UT0 - 1 .. UT1 : Upto(c)
    /\ settled => calm /\ AllDone

\* The first of the endpoints, and the others.
LEMMA HoldsTail ==
  ASSUME NEW q, NEW t, NEW c \in UT0 - 1 .. UT1, Holds(q, t, c, UT1), q # <<>>
  PROVE  /\ Head(q) \in Queued /\ Head(q).day \in UT0 .. UT1 /\ c < Head(q).day
         /\ EndpointAt(t, Head(q).day) /\ Head(q).row = t[Head(q).day]
         /\ Holds(Tail(q), t, Head(q).day, UT1)
         /\ \A d \in c + 1 .. Head(q).day - 1 : ~EndpointAt(t, d)
<1> DEFINE e == Head(q)
           r == Tail(q)
<1>1. /\ q \in Seq(Queued) /\ Len(q) \in Nat /\ Len(q) > 0 /\ e = q[1] /\ r \in Seq(Queued) /\ Len(r) = Len(q) - 1
      /\ \A i \in 1 .. Len(r) : r[i] = q[i + 1]
  BY HeadTailProperties, LenProperties, EmptySeq DEF Holds
<1>2. /\ \A i \in 1 .. Len(q) : c < q[i].day /\ q[i].day <= UT1 /\ EndpointAt(t, q[i].day) /\ q[i].row = t[q[i].day]
      /\ \A i, j \in 1 .. Len(q) : i < j => q[i].day < q[j].day
      /\ \A d \in c + 1 .. UT1 : EndpointAt(t, d) => \E i \in 1 .. Len(q) : q[i].day = d
  BY DEF Holds
<1>3. \A i \in 1 .. Len(q) : q[i] \in Queued /\ q[i].day \in UT0 .. UT1 /\ q[i].day \in Int
  <2>1. \A i \in 1 .. Len(q) : q[i] \in Queued
    BY <1>1, ElementOfSeq
  <2> QED  BY <2>1, DaysAssumption DEF Queued
<1> HIDE DEF e, r
<1>4. 1 \in 1 .. Len(q) /\ \A i \in 1 .. Len(r) : i + 1 \in 1 .. Len(q) /\ 1 < i + 1
  BY <1>1
<1>5. /\ e \in Queued /\ e.day \in UT0 .. UT1 /\ c < e.day /\ EndpointAt(t, e.day) /\ e.row = t[e.day]
      /\ c \in Int /\ UT0 \in Int /\ UT1 \in Int /\ e.day \in Int
  BY <1>1, <1>2, <1>3, <1>4, DaysAssumption
<1>6. \A i \in 1 .. Len(q) : i # 1 => e.day < q[i].day
  BY <1>1, <1>2, <1>4
<1>7. ASSUME NEW d \in c + 1 .. e.day - 1  PROVE ~EndpointAt(t, d)
  <2>1. d \in c + 1 .. UT1 /\ d < e.day
    BY <1>5, <1>7
  <2>2. \A i \in 1 .. Len(q) : q[i].day # d
    BY <1>1, <1>3, <1>5, <1>6, <2>1
  <2> QED  BY <1>2, <2>1, <2>2
<1>8. Holds(r, t, e.day, UT1)
  <2>1. ASSUME NEW i \in 1 .. Len(r)
        PROVE  e.day < r[i].day /\ r[i].day <= UT1 /\ EndpointAt(t, r[i].day) /\ r[i].row = t[r[i].day]
    <3>1. r[i] = q[i + 1] /\ i + 1 \in 1 .. Len(q) /\ i + 1 # 1
      BY <1>1, <1>4
    <3> QED  BY <1>2, <1>6, <3>1
  <2>2. ASSUME NEW i \in 1 .. Len(r), NEW j \in 1 .. Len(r), i < j  PROVE r[i].day < r[j].day
    <3>1. r[i] = q[i + 1] /\ r[j] = q[j + 1] /\ i + 1 \in 1 .. Len(q) /\ j + 1 \in 1 .. Len(q) /\ i + 1 < j + 1
      BY <1>1, <1>4, <2>2
    <3> QED  BY <1>2, <3>1
  <2>3. ASSUME NEW d \in e.day + 1 .. UT1, EndpointAt(t, d)  PROVE \E i \in 1 .. Len(r) : r[i].day = d
    <3>1. d \in c + 1 .. UT1 /\ d # e.day
      BY <1>5
    <3>2. PICK i \in 1 .. Len(q) : q[i].day = d
      BY <1>2, <2>3, <3>1
    <3>3. i # 1
      BY <1>1, <3>1, <3>2
    <3>4. i - 1 \in 1 .. Len(r) /\ (i - 1) + 1 = i
      BY <1>1, <3>3
    <3> QED  BY <1>1, <3>2, <3>4
  <2> QED  BY <1>1, <2>1, <2>2, <2>3 DEF Holds
<1> QED
  BY <1>5, <1>7, <1>8 DEF e, r

\* Days that are no endpoints, or do not pass the check, are done.
LEMMA NotChecked ==
  ASSUME NEW n, NEW t, NEW d, ~Checked(t, d)
  PROVE  Done(n, t, d)
  BY DEF Done, Finds

\* Where reading begins, when endpoints have been passed over.
LEMMA FromSkips ==
  ASSUME NEW t, NEW c \in Int, NEW d \in Int, NEW f, IsFrom(t, c, f), c <= d, \A k \in c .. d - 1 : ~Checked(t, k)
  PROVE  IsFrom(t, d, f)
<1>1. f \in UT0 .. UT1 /\ (f = UT0 \/ (Checked(t, f) /\ f < c)) /\ \A k \in UT0 .. UT1 : k < c /\ Checked(t, k) => k <= f
  BY DEF IsFrom
<1>2. UT0 \in Int /\ UT1 \in Int
  BY DaysAssumption
<1>3. \A k \in UT0 .. UT1 : k < d /\ Checked(t, k) => k < c
  <2>1. \A k \in UT0 .. UT1 : k < d /\ ~ (k < c) => k \in c .. d - 1
    BY <1>2
  <2> QED  BY <2>1
<1>4. f = UT0 \/ (Checked(t, f) /\ f < d)
  BY <1>1, <1>2
<1> QED
  BY <1>1, <1>3, <1>4 DEF IsFrom

\* Behind an endpoint that passed its check.
LEMMA FromNext ==
  ASSUME NEW t, NEW d \in UT0 .. UT1, Checked(t, d)
  PROVE  IsFrom(t, d + 1, d)
<1>1. d < d + 1 /\ \A k \in UT0 .. UT1 : k < d + 1 => k <= d
  BY DaysAssumption
<1> QED
  BY <1>1 DEF IsFrom

\* A run begins.
LEMMA StartQuiet ==
  ASSUME QuietInv, StartRun
  PROVE  Upto(UT0 - 1)'
<1>1. rows \in [Days -> Row] /\ UNCHANGED <<rows, nbr>> /\ todo' = Endpoints /\ pc' = "next" /\ earliest' = UT0
  BY InvFacts DEF QuietInv, StartRun, tableVars
<1>2. Holds(todo', rows', UT0 - 1, UT1)
  BY <1>1, EndpointsAre
<1>3. IsFrom(rows', UT0 - 1 + 1, earliest')
  <2>1. UT0 \in UT0 .. UT1 /\ UT0 - 1 + 1 = UT0 /\ \A k \in UT0 .. UT1 : ~ (k < UT0)
    BY DaysAssumption
  <2> QED  BY <1>1, <2>1 DEF IsFrom
<1>4. UT0 .. UT0 - 1 = {}
  BY DaysAssumption
<1> QED
  BY <1>1, <1>2, <1>3, <1>4 DEF Upto

\* The next endpoint: what is before it.
LEMMA NextEndpoint ==
  ASSUME IInv, NEW c \in UT0 - 1 .. UT1, Upto(c), pc = "next", todo # <<>>
  PROVE  LET e == Head(todo)
         IN  /\ e \in Queued /\ e.day \in UT0 .. UT1 /\ e.row = rows[e.day] /\ EndpointAt(rows, e.day)
             /\ Holds(Tail(todo), rows, e.day, UT1)
             /\ IsFrom(rows, e.day, earliest)
             /\ \A d \in UT0 .. e.day : d # e.day => Done(nbr, rows, d)
<1> DEFINE e == Head(todo)
<1>1. /\ e \in Queued /\ e.day \in UT0 .. UT1 /\ c < e.day
      /\ EndpointAt(rows, e.day) /\ e.row = rows[e.day]
      /\ Holds(Tail(todo), rows, e.day, UT1)
      /\ \A d \in c + 1 .. e.day - 1 : ~EndpointAt(rows, d)
  BY HoldsTail DEF Upto
<1> HIDE DEF e
<1>2. \A d \in c + 1 .. e.day - 1 : ~Checked(rows, d)
  BY <1>1 DEF Checked
<1>3. c \in Int /\ UT0 \in Int /\ e.day \in Int /\ c + 1 <= e.day /\ c + 1 \in Int
  BY <1>1, DaysAssumption
<1>4. IsFrom(rows, e.day, earliest)
  BY <1>2, <1>3, FromSkips DEF Upto
<1>5. ASSUME NEW d \in UT0 .. e.day, d # e.day  PROVE Done(nbr, rows, d)
  <2>1. CASE d <= c
    <3>1. d \in UT0 .. c
      BY <1>3, <2>1
    <3> QED  BY <3>1 DEF Upto
  <2>2. CASE d > c
    <3>1. d \in c + 1 .. e.day - 1
      BY <1>3, <1>5, <2>2
    <3> QED  BY <1>2, <3>1, NotChecked
  <2> QED  BY <1>3, <2>1, <2>2
<1> QED
  BY <1>1, <1>4, <1>5 DEF e

\* An endpoint that does not pass its check.
LEMMA SkipQuiet ==
  ASSUME IInv, NEW c \in UT0 - 1 .. UT1, Upto(c), SkipEndpoint
  PROVE  \E k \in UT0 - 1 .. UT1 : Upto(k)'
<1> DEFINE e == Head(todo)
<1>1. /\ pc = "next" /\ pc' = "next" /\ todo # <<>> /\ ~CheckEndpoint(e.row) /\ todo' = Tail(todo)
      /\ UNCHANGED <<rows, nbr, earliest>>
  BY DEF SkipEndpoint, tableVars
<1>2. /\ e \in Queued /\ e.day \in UT0 .. UT1 /\ e.row = rows[e.day] /\ EndpointAt(rows, e.day)
      /\ Holds(Tail(todo), rows, e.day, UT1)
      /\ IsFrom(rows, e.day, earliest)
      /\ \A d \in UT0 .. e.day : d # e.day => Done(nbr, rows, d)
  BY <1>1, NextEndpoint
<1>0. PICK k \in UT0 .. UT1 : k = e.day
  BY <1>2
<1> HIDE DEF e
<1>3. ~Checked(rows, k)
  BY <1>1, <1>2, <1>0 DEF Checked
<1>4. Done(nbr, rows, k)
  BY <1>3, NotChecked
<1>5. k \in Int /\ k + 1 \in Int /\ k <= k + 1 /\ k .. k + 1 - 1 = {k} /\ k \in UT0 - 1 .. UT1
  BY <1>2, DaysAssumption
<1>6. IsFrom(rows, k + 1, earliest)
  BY <1>2, <1>3, <1>5, <1>0, FromSkips
<1>7. /\ Holds(todo', rows', k, UT1) /\ IsFrom(rows', k + 1, earliest')
      /\ \A d \in UT0 .. k : Done(nbr', rows', d)
  BY <1>1, <1>2, <1>4, <1>6, <1>0
<1>8. Upto(k)'
  BY <1>1, <1>7 DEF Upto
<1> QED
  BY <1>5, <1>8

\* An endpoint that passes it, and what is before it.
LEMMA LookBackQuiet ==
  ASSUME IInv, NEW c \in UT0 - 1 .. UT1, Upto(c), LookBack
  PROVE  \E k \in UT0 - 1 .. UT1 : Upto(k)'
<1> DEFINE e == Head(todo)
           usable == {a \in FindMissing(e, earliest) : CheckAccumulationPeriod(a)}
<1>1. /\ pc = "next" /\ todo # <<>> /\ CheckEndpoint(e.row) /\ earliest' = e.day /\ todo' = Tail(todo)
      /\ UNCHANGED <<rows, nbr>>
      /\ IF usable = {} THEN UNCHANGED <<pc, acc>> ELSE \E a \in usable : acc' = a /\ pc' = "distribute"
  BY DEF LookBack, tableVars
<1>2. /\ e \in Queued /\ e.day \in UT0 .. UT1 /\ e.row = rows[e.day] /\ EndpointAt(rows, e.day)
      /\ Holds(Tail(todo), rows, e.day, UT1)
      /\ IsFrom(rows, e.day, earliest)
      /\ \A d \in UT0 .. e.day : d # e.day => Done(nbr, rows, d)
  BY <1>1, NextEndpoint
<1>0. PICK k \in UT0 .. UT1 : k = e.day
  BY <1>2
<1>3. earliest \in UT0 .. UT1 /\ k \in UT0 - 1 .. UT1
  BY <1>2, <1>0, InvFacts, DaysAssumption
<1>4. \A a : a \in usable <=> \E b : /\ IsBoundary(rows, k, earliest, b) /\ a = AccOf(rows, k, b)
                                     /\ CheckAccumulationPeriod(a)
  BY <1>2, <1>3, <1>0, FoundIs
<1> HIDE DEF usable, e
<1>5. Checked(rows, k)
  BY <1>1, <1>2, <1>0 DEF Checked
<1>6. \A b, a : Finds(rows, k, b, a) => a \in usable
  <2> SUFFICES ASSUME NEW b, NEW a, Finds(rows, k, b, a)  PROVE a \in usable
    OBVIOUS
  <2>1. PICK f : IsFrom(rows, k, f) /\ IsBoundary(rows, k, f, b)
    BY DEF Finds
  <2>2. f = earliest
    BY <1>2, <2>1, <1>0, OneFrom
  <2> QED  BY <1>4, <2>1, <2>2 DEF Finds
<1>7. \A a \in usable : \E b : Finds(rows, k, b, a)
  BY <1>2, <1>4, <1>5, <1>0 DEF Finds
<1>8. Holds(todo', rows', k, UT1) /\ IsFrom(rows', k + 1, earliest')
  BY <1>1, <1>2, <1>5, <1>0, FromNext
<1>9. CASE usable = {}
  <2>1. Done(nbr, rows, k)
    BY <1>6, <1>9 DEF Done
  <2>2. pc' = "next"
    BY <1>1, <1>9
  <2>3. \A d \in UT0 .. k : Done(nbr', rows', d)
    BY <1>1, <1>2, <2>1, <1>0
  <2>4. Upto(k)'
    BY <1>8, <2>2, <2>3 DEF Upto
  <2> QED  BY <1>3, <2>4
<1>10. CASE usable # {}
  <2>1. PICK a \in usable : acc' = a /\ pc' = "distribute"
    BY <1>1, <1>10
  <2>2. PICK b : Finds(rows, k, b, a)
    BY <1>7, <2>1
  <2>3. Finds(rows', k, b, a)
    BY <1>1, <2>2
  <2>4. AtHand(k)'
    <3>1. earliest' = k /\ k \in UT0 .. UT1
      BY <1>1, <1>0
    <3>2. Finds(rows', k, b, a) /\ pc' = "distribute" /\ acc' = a
      BY <2>1, <2>3
    <3> QED  BY ONLY <3>1, <3>2 DEF AtHand
  <2>5. \A d \in UT0 .. k : d # k => Done(nbr', rows', d)
    BY <1>1, <1>2, <1>0
  <2>6. Upto(k)'
    BY <1>8, <2>1, <2>4, <2>5 DEF Upto
  <2> QED  BY <1>3, <2>6
<1> QED
  BY <1>9, <1>10

\* The accumulation at hand is distributed ...
LEMMA DistributionQuiet ==
  ASSUME IInv, NEW c \in UT0 - 1 .. UT1, Upto(c), DistributeBoneDry \/ DistributePrecipitation
  PROVE  Upto(c)'
<1>1. pc = "distribute" /\ pc' = "store" /\ UNCHANGED <<rows, nbr, todo, earliest>>
  BY DEF DistributeBoneDry, DistributePrecipitation, tableVars
<1>2. AtHand(c)
  BY <1>1 DEF Upto
<1>3. PICK b, a : Finds(rows, c, b, a) /\ acc = a
  BY <1>1, <1>2 DEF AtHand
<1>4. Makes(nbr, acc, acc')
  BY DistributionMakes DEF IInv
<1>5. AtHand(c)'
  <2>1. earliest' = c /\ c \in UT0 .. UT1
    BY <1>1, <1>2 DEF AtHand
  <2>2. Finds(rows', c, b, a) /\ pc' = "store" /\ Makes(nbr', a, acc')
    BY <1>1, <1>3, <1>4
  <2> QED  BY ONLY <2>1, <2>2 DEF AtHand
<1>6. Holds(todo', rows', c, UT1) /\ IsFrom(rows', c + 1, earliest')
  BY <1>1 DEF Upto
<1>7. \A d \in UT0 .. c : Done(nbr', rows', d) \/ d = c
  BY <1>1 DEF Upto
<1> QED
  BY <1>1, <1>5, <1>6, <1>7 DEF Upto

\* ... or cannot be: then it could not be in a second run either.
LEMMA CannotQuiet ==
  ASSUME IInv, NEW c \in UT0 - 1 .. UT1, Upto(c), CannotDistribute
  PROVE  Upto(c)'
<1>1. /\ pc = "distribute" /\ pc' = "next" /\ UNCHANGED <<rows, nbr, todo, earliest>>
      /\ Accumulated(acc) # BoneDry /\ ~CanRedistribute(acc)
  BY DEF CannotDistribute, tableVars
<1>2. AtHand(c)
  BY <1>1 DEF Upto
<1>3. c \in UT0 .. UT1
  BY <1>2 DEF AtHand
<1>4. PICK b, a : Finds(rows, c, b, a) /\ acc = a
  BY <1>1, <1>2 DEF AtHand
<1>5. Done(nbr, rows, c)
  <2> SUFFICES ASSUME NEW k, NEW x, Finds(rows, c, k, x)  PROVE Quiet(nbr, x)
    BY DEF Done
  <2>1. x = acc
    BY <1>3, <1>4, OneFound
  <2>2. \A y : ~Makes(nbr, x, y)
    BY <1>1, <2>1, NothingMade
  <2> QED  BY <2>2 DEF Quiet
<1>6. Holds(todo', rows', c, UT1) /\ IsFrom(rows', c + 1, earliest')
  BY <1>1 DEF Upto
<1>7. \A d \in UT0 .. c : Done(nbr', rows', d)
  BY <1>1, <1>5 DEF Upto
<1> QED
  BY <1>1, <1>6, <1>7 DEF Upto

\* What is made of it is written: it is done, and what was done stays done.
LEMMA StoreQuiet ==
  ASSUME IInv, NEW c \in UT0 - 1 .. UT1, Upto(c), UpdateOrInsertData
  PROVE  Upto(c)' /\ (AllDone => AllDone')
<1>1. pc = "store" /\ pc' = "next" /\ UNCHANGED <<nbr, todo, earliest>>
  BY DEF UpdateOrInsertData
<1>2. AtHand(c)
  BY <1>1 DEF Upto
<1>3. c \in UT0 .. UT1
  BY <1>2 DEF AtHand
<1>4. PICK b, a : Finds(rows, c, b, a) /\ Makes(nbr, a, acc)
  BY <1>1, <1>2 DEF AtHand
<1>5. Storing(c, b, a)
  BY <1>1, <1>3, <1>4 DEF Storing
<1>6. \A d \in UT0 .. UT1 : Done(nbr, rows, d) \/ d = c => Done(nbr', rows', d)
  BY <1>1, <1>5, StoredDone, StoredQuiet
<1>7. \A d \in UT0 .. c : d \in UT0 .. UT1 /\ Done(nbr', rows', d)
  <2>1. \A d \in UT0 .. c : d \in UT0 .. UT1
    BY <1>3, DaysAssumption
  <2>2. \A d \in UT0 .. c : Done(nbr, rows, d) \/ d = c
    BY DEF Upto
  <2> QED  BY <1>6, <2>1, <2>2
<1>8. IsFrom(rows', c + 1, earliest')
  <2>1. IsFrom(rows, c + 1, earliest)
    BY DEF Upto
  <2>2. IsFrom(rows', c + 1, earliest)
    BY <1>5, <2>1, StoredFrom
  <2> QED  BY <1>1, <2>2
<1>9. Holds(todo', rows', c, UT1)
  <2> DEFINE q == todo
  <2>1. Holds(q, rows, c, UT1)
    BY DEF Upto
  <2>2. \A i \in 1 .. Len(q) : q[i].day \in UT0 .. UT1
    <3>1. \A i \in 1 .. Len(q) : q[i] \in Queued
      BY <2>1, ElementOfSeq, LenProperties DEF Holds
    <3> QED  BY <3>1 DEF Queued
  <2>3. \A d \in UT0 .. UT1 : d \in Days
    BY DaysAssumption DEF Days
  <2>4. \A d \in UT0 .. UT1 : EndpointAt(rows', d) <=> EndpointAt(rows, d)
    BY <1>5, <2>3, StoredKeeps
  <2>5. \A d \in UT0 .. UT1 : c < d => rows'[d] = rows[d]
    <3>1. \A d \in UT0 .. UT1 : c < d => d \notin b + 1 .. c
      BY <1>3, DaysAssumption
    <3> QED  BY <1>5, <2>3, <3>1, StoredRows
  <2>6. \A d \in c + 1 .. UT1 : d \in UT0 .. UT1
    BY <1>3, DaysAssumption
  <2> HIDE DEF q
  <2>7. Holds(q, rows', c, UT1)
    BY <2>1, <2>2, <2>4, <2>5, <2>6 DEF Holds
  <2> QED  BY <1>1, <2>7 DEF q
<1>10. Upto(c)'
  BY <1>1, <1>7, <1>8, <1>9 DEF Upto
<1>11. ASSUME AllDone  PROVE AllDone'
  BY <1>6, <1>11 DEF AllDone
<1> QED
  BY <1>10, <1>11

\* When no endpoints are left, all are done.
LEMMA EndQuiet ==
  ASSUME IInv, NEW c \in UT0 - 1 .. UT1, Upto(c), EndRun
  PROVE  AllDone
<1>1. pc = "next" /\ todo = <<>>
  BY DEF EndRun
<1>2. \A d \in c + 1 .. UT1 : ~EndpointAt(rows, d)
  BY <1>1, EmptySeq DEF Upto, Holds
<1>3. ASSUME NEW d \in UT0 .. UT1  PROVE Done(nbr, rows, d)
  <2>1. CASE d <= c
    <3>1. d \in UT0 .. c
      BY <2>1, DaysAssumption
    <3> QED  BY <1>1, <3>1 DEF Upto
  <2>2. CASE ~ (d <= c)
    <3>1. d \in c + 1 .. UT1
      BY <2>2, DaysAssumption
    <3> QED  BY <1>2, <3>1, NotChecked DEF Checked
  <2> QED  BY <2>1, <2>2
<1> QED
  BY <1>3 DEF AllDone

\* The steps of a run that goes on.
LEMMA GoesOnQuiet ==
  ASSUME QuietInv, IInv',
         \/ SkipEndpoint \/ LookBack
         \/ DistributeBoneDry \/ DistributePrecipitation \/ CannotDistribute
         \/ UpdateOrInsertData
  PROVE  QuietInv'
<1>1. UNCHANGED <<calm, settled>> /\ pc # "idle"
  BY DEF SkipEndpoint, LookBack, DistributeBoneDry, DistributePrecipitation, CannotDistribute, UpdateOrInsertData,
         historyVars
<1>2. IInv /\ (settled => calm /\ AllDone)
  BY DEF QuietInv
<1>3. CASE ~calm
  BY <1>1, <1>2, <1>3 DEF QuietInv
<1>4. CASE calm
  <2>1. PICK c \in UT0 - 1 .. UT1 : Upto(c)
    BY <1>1, <1>4 DEF QuietInv
  <2>2. \E k \in UT0 - 1 .. UT1 : Upto(k)'
    <3>1. CASE SkipEndpoint
      BY <1>2, <2>1, <3>1, SkipQuiet
    <3>2. CASE LookBack
      BY <1>2, <2>1, <3>2, LookBackQuiet
    <3>3. CASE DistributeBoneDry \/ DistributePrecipitation
      BY <1>2, <2>1, <3>3, DistributionQuiet
    <3>4. CASE CannotDistribute
      BY <1>2, <2>1, <3>4, CannotQuiet
    <3>5. CASE UpdateOrInsertData
      BY <1>2, <2>1, <3>5, StoreQuiet
    <3> QED  BY <3>1, <3>2, <3>3, <3>4, <3>5
  <2>3. AllDone => AllDone'
    <3>1. CASE UpdateOrInsertData
      BY <1>2, <2>1, <3>1, StoreQuiet
    <3>2. CASE ~UpdateOrInsertData
      <4>1. UNCHANGED <<rows, nbr>>
        BY <3>2 DEF SkipEndpoint, LookBack, DistributeBoneDry, DistributePrecipitation, CannotDistribute, tableVars
      <4> QED  BY <4>1 DEF AllDone
    <3> QED  BY <3>1, <3>2
  <2> QED  BY <1>1, <1>2, <2>2, <2>3 DEF QuietInv
<1> QED
  BY <1>3, <1>4

\* The others.
LEMMA QuietStep ==
  ASSUME QuietInv, [Next]_vars
  PROVE  QuietInv'
<1>1. IInv /\ (settled => calm /\ AllDone)
  BY DEF QuietInv
<1>2. IInv'
  BY <1>1, StepInv
<1>3. CASE StartRun
  <2>1. UNCHANGED <<rows, nbr, settled>> /\ calm' = TRUE
    BY <1>3 DEF StartRun, tableVars
  <2>2. AllDone => AllDone'
    BY <2>1 DEF AllDone
  <2>3. UT0 - 1 \in UT0 - 1 .. UT1
    BY DaysAssumption
  <2>4. PICK k \in UT0 - 1 .. UT1 : k = UT0 - 1
    BY <2>3
  <2>5. Upto(k)'
    BY <1>3, <2>4, StartQuiet
  <2> QED  BY <1>1, <1>2, <2>1, <2>2, <2>5 DEF QuietInv
<1>4. CASE \/ SkipEndpoint \/ LookBack
           \/ DistributeBoneDry \/ DistributePrecipitation \/ CannotDistribute
           \/ UpdateOrInsertData
  BY <1>2, <1>4, GoesOnQuiet
<1>5. CASE InsertRefused
  <2>1. UNCHANGED <<rows, nbr, calm, settled>> /\ pc' = "idle"
    BY <1>5 DEF InsertRefused, tableVars
  <2>2. AllDone => AllDone'
    BY <2>1 DEF AllDone
  <2> QED  BY <1>1, <1>2, <2>1, <2>2 DEF QuietInv
<1>6. CASE EndRun
  <2>1. UNCHANGED <<rows, nbr, calm>> /\ pc' = "idle" /\ settled' = (settled \/ calm) /\ pc # "idle"
    BY <1>6 DEF EndRun, tableVars
  <2>2. calm => AllDone
    <3> SUFFICES ASSUME calm  PROVE AllDone
      OBVIOUS
    <3>1. PICK c \in UT0 - 1 .. UT1 : Upto(c)
      BY <2>1 DEF QuietInv
    <3> QED  BY <1>1, <1>6, <3>1, EndQuiet
  <2>3. AllDone => AllDone'
    BY <2>1 DEF AllDone
  <2> QED  BY <1>1, <1>2, <2>1, <2>2, <2>3 DEF QuietInv
<1>7. CASE Outside
  <2>1. calm' = FALSE /\ settled' = FALSE
    BY <1>7 DEF Outside, Cleanup, Observe, Hqc, NeighboursReport, Abort, FromOutside
  <2> QED  BY <1>2, <2>1 DEF QuietInv
<1>8. CASE UNCHANGED vars
  <2>1. UNCHANGED <<rows, nbr, pc, todo, earliest, acc, calm, settled>>
    BY <1>8 DEF vars, tableVars, runVars, historyVars
  <2>2. AllDone => AllDone'
    BY <2>1 DEF AllDone
  <2>3. ASSUME NEW c \in UT0 - 1 .. UT1, Upto(c)  PROVE Upto(c)'
    BY <2>1, <2>3 DEF Upto, AtHand
  <2> QED  BY <1>1, <1>2, <2>1, <2>2, <2>3 DEF QuietInv
<1> QED
  BY <1>3, <1>4, <1>5, <1>6, <1>7, <1>8 DEF Next, Run

\* A run over a table that an undisturbed run has left has nothing to write.
LEMMA QuietRerun ==
  ASSUME QuietInv
  PROVE  RerunQuiet
<1> SUFFICES ASSUME settled, pc = "store"  PROVE Writes = {}
  BY DEF RerunQuiet
<1>1. calm /\ AllDone
  BY DEF QuietInv
<1>2. PICK c \in UT0 - 1 .. UT1 : Upto(c)
  BY <1>1 DEF QuietInv
<1>3. AtHand(c)
  BY <1>2 DEF Upto
<1>4. PICK b, a : Finds(rows, c, b, a) /\ Makes(nbr, a, acc)
  BY <1>3 DEF AtHand
<1>5. Done(nbr, rows, c)
  BY <1>1, <1>3 DEF AtHand, AllDone
<1>6. \A i \in DOMAIN acc : ~NeedsWrite(acc[i])
  BY <1>4, <1>5 DEF Done, Quiet
<1> QED
  BY <1>6 DEF Writes

\* RedistributionAlgorithm.cc:413-447, 611-623: a run over what an undisturbed run has left finds the same
\* accumulations, makes the same of them and has nothing to write, as the tests of the redistribution
\* expect ("run again without modifications"); for every table, all neighbours, and however often a
\* run was refused or cut short before.
THEOREM RedistributionRerunQuiet == Spec => []RerunQuiet
<1>1. Init => QuietInv
  BY InitTypeInv DEF Init, QuietInv
<1>2. QuietInv /\ [Next]_vars => QuietInv'
  BY QuietStep
<1>3. QuietInv => RerunQuiet
  BY QuietRerun
<1> QED
  BY <1>1, <1>2, <1>3, PTL DEF Spec

-----------------------------------------------------------------------------
(* Nothing is forgotten.                                                   *)

\* A run reads from somewhere on.
LEMMA SomeFrom ==
  ASSUME NEW t, NEW d \in UT0 .. UT1
  PROVE  \E f : IsFrom(t, d, f)
<1> DEFINE S == {k \in UT0 .. UT1 : k < d /\ Checked(t, k)}
           M == {UT1 - k : k \in S}
<1>1. UT0 \in Int /\ UT1 \in Int /\ UT0 \in UT0 .. UT1 /\ \A k \in S : k \in Int /\ k <= UT1
  BY DaysAssumption
<1>2. CASE S = {}
  BY <1>1, <1>2 DEF IsFrom
<1>3. CASE S # {}
  <2>1. M \subseteq Nat /\ M # {}
    BY <1>1, <1>3
  <2>2. PICK m \in M : \A j \in M : m <= j
    <3> HIDE DEF M
    <3> QED  BY <2>1, LeastNatural
  <2>3. PICK f \in S : m = UT1 - f
    OBVIOUS
  <2>4. \A k \in S : UT1 - f <= UT1 - k
    BY <2>2, <2>3
  <2>5. \A k \in S : k <= f
    BY <1>1, <2>4
  <2> QED  BY <2>5 DEF IsFrom
<1> QED
  BY <1>2, <1>3

\* What is ready, with the row that bounds it.
ReadyFrom(d, b) ==
    /\ rows[b].fmis \in {0, 4} /\ ~IsMissingOrRejected(rows[b])
    /\ \A m \in b + 1 .. d - 1 : rows[m] \in {NoRow, MissingRow}
    /\ rows[d] # NoRow /\ rows[d].fd \in {2, 4} /\ rows[d].fmis = 4
    /\ rows[d].fhqc = 0 /\ rows[d].corrected = rows[d].original
    /\ \/ rows[d].original \in {0, BoneDry}
       \/ /\ \A m \in b + 1 .. d : nbr[m].enough
          /\ Total([i \in 1 .. d - b |-> nbr[d + 1 - i].mean]) \in 1 .. 1000 * rows[d].original

\* It has an endpoint, with an amount ...
LEMMA ReadyChecked ==
  ASSUME IInv, NEW d \in UT0 .. UT1, NEW b \in UT0 - 1 .. d - 2, ReadyFrom(d, b)
  PROVE  /\ Checked(rows, d) /\ b \in Days /\ d \in Days /\ d - b \in Nat /\ d - b > 1
         /\ rows[d] \in Row /\ rows[d].original \in Nat \union {BoneDry}
<1>1. b \in Days /\ d \in Days /\ d - b \in Nat /\ d - b > 1
  BY DaysAssumption DEF Days
<1>2. rows[d] \in Row /\ rows[d].original \in Int
  BY <1>1, InvFacts DEF Row
<1>3. rows[d].original \in Nat \union {BoneDry}
  <2>1. CASE rows[d].original \in {0, BoneDry}
    BY <2>1
  <2>2. CASE Total([i \in 1 .. d - b |-> nbr[d + 1 - i].mean]) \in 1 .. 1000 * rows[d].original
    BY <1>2, <2>2
  <2> QED  BY <2>1, <2>2 DEF ReadyFrom
<1>4. rows[d].original \notin {Missing, Rejected}
  BY <1>3 DEF Missing, Rejected, BoneDry
<1>5. EndpointAt(rows, d)
  BY DEF ReadyFrom, EndpointAt, EndpointFlags
<1>6. CheckEndpoint(rows[d])
  BY <1>4 DEF ReadyFrom, CheckEndpoint, IsMissingOrRejected, EndBeforeRedist
<1> QED
  BY <1>1, <1>2, <1>3, <1>5, <1>6 DEF Checked

\* ... and back to its boundary there are only open days, however far the reading goes.
LEMMA ReadyBoundary ==
  ASSUME IInv, NEW d \in UT0 .. UT1, NEW b \in UT0 - 1 .. d - 2, ReadyFrom(d, b), NEW f, IsFrom(rows, d, f)
  PROVE  IsBoundary(rows, d, f, b)
<1>1. \A m \in b + 1 .. d - 1 : Open(rows, m)
  BY DEF ReadyFrom, Open, MissingpointFlags, MissingRow
<1>2. ~Open(rows, b) /\ ~IsMissingOrRejected(rows[b])
  BY DEF ReadyFrom, Open, MissingpointFlags, NoRow
<1>3. b \in f - 1 .. d - 1
  <2>1. f \in UT0 .. UT1 /\ (f = UT0 \/ (Checked(rows, f) /\ f < d))
    BY DEF IsFrom
  <2>2. CASE f = UT0
    BY <2>2, DaysAssumption
  <2>3. CASE Checked(rows, f) /\ f < d
    <3>1. ~Open(rows, f)
      BY <2>3 DEF Checked, EndpointAt, Open, EndpointFlags, MissingpointFlags
    <3>2. f \notin b + 1 .. d - 1
      BY <1>1, <3>1
    <3> QED  BY <2>1, <2>3, <3>2, DaysAssumption
  <2> QED  BY <2>1, <2>2, <2>3
<1> QED
  BY <1>1, <1>2, <1>3 DEF IsBoundary

\* Its accumulation: the endpoint, and missing rows.
LEMMA ReadyRows ==
  ASSUME IInv, NEW d \in UT0 .. UT1, NEW b \in UT0 - 1 .. d - 2, ReadyFrom(d, b), NEW a, a = AccOf(rows, d, b)
  PROVE  /\ a \in Seq(Updates) /\ Len(a) = d - b /\ DOMAIN a = 1 .. d - b /\ d - b \in Nat /\ d - b > 1
         /\ a[1].old = rows[d]
         /\ \A i \in 1 .. d - b : a[i].day = d + 1 - i /\ (i # 1 => a[i].old = MissingRow)
<1>1. rows \in [Days -> Row] /\ b \in Days /\ d \in Days /\ b < d /\ d - b \in Nat /\ d - b > 1
  BY InvFacts, ReadyChecked DEF Days
<1>2. /\ a \in Seq(Updates) /\ Len(a) = d - b /\ DOMAIN a = 1 .. d - b
      /\ \A i \in 1 .. d - b : IsDay(d, b, i) /\ a[i] = Part(rows, d, d + 1 - i)
  <2>1. a = AccOf(rows, d, b) /\ rows \in [Days -> Row] /\ d \in UT0 .. UT1 /\ b \in Days /\ b < d
    BY <1>1
  <2> QED  BY ONLY <2>1, AccIs
<1>3. \A i \in 1 .. d - b : a[i].day = d + 1 - i /\ a[i].old = RowOf(rows, d, d + 1 - i)
  BY <1>2 DEF Part
<1>4. a[1].old = rows[d]
  <2>1. 1 \in 1 .. d - b /\ d + 1 - 1 = d
    BY <1>1 DEF Days
  <2> QED  BY <1>3, <2>1 DEF RowOf
<1>5. ASSUME NEW i \in 1 .. d - b, i # 1  PROVE a[i].old = MissingRow
  <2>1. d + 1 - i \in b + 1 .. d - 1 /\ d + 1 - i # d
    BY <1>1, <1>5 DEF Days
  <2>2. rows[d + 1 - i] \in {NoRow, MissingRow}
    BY <2>1 DEF ReadyFrom
  <2> QED  BY <1>3, <2>1, <2>2 DEF RowOf
<1> QED
  BY <1>1, <1>2, <1>3, <1>4, <1>5

\* The sum of its values is what the gauge measured.
LEMMA ReadySum ==
  ASSUME IInv, NEW d \in UT0 .. UT1, NEW b \in UT0 - 1 .. d - 2, ReadyFrom(d, b), NEW a, a = AccOf(rows, d, b)
  PROVE  WithValue(a) = {1} /\ KnownSum(a) = Dry2Real(a[1].old.original)
<1> DEFINE n == d - b
           v == Dry2Real(rows[d].corrected)
           s == [i \in 1 .. n |-> IF i = 1 THEN v ELSE 0]
           z == [i \in 1 .. n |-> 0]
<1>1. /\ a \in Seq(Updates) /\ DOMAIN a = 1 .. n /\ n \in Nat /\ n > 1 /\ a[1].old = rows[d]
      /\ \A i \in 1 .. n : i # 1 => a[i].old = MissingRow
  BY ReadyRows
<1>2. rows[d].corrected \in Nat \union {BoneDry} /\ rows[d].original = rows[d].corrected /\ v \in Int
  <2>1. rows[d].corrected \in Nat \union {BoneDry} /\ rows[d].original = rows[d].corrected
    BY ReadyChecked DEF ReadyFrom
  <2> QED  BY <2>1 DEF Dry2Real, BoneDry
<1>3. MissingRow.corrected = Missing /\ rows[d].corrected \notin {Missing, Rejected}
  BY <1>2 DEF MissingRow, Missing, Rejected, BoneDry
<1> HIDE DEF n, v
<1>4. 1 \in 1 .. n
  BY <1>1
<1>5. WithValue(a) = {1}
  BY <1>1, <1>3, <1>4 DEF WithValue
<1>6. KnownSum(a) = Total(s)
  <2>1. [i \in DOMAIN a |-> IF i \in WithValue(a) THEN Dry2Real(a[i].old.corrected) ELSE 0] = s
    BY <1>1, <1>5 DEF v
  <2> QED  BY <2>1 DEF KnownSum
<1>7. s \in Seq(Int) /\ z \in Seq(Int) /\ Len(s) = n /\ Len(z) = n
  BY <1>1, <1>2
<1>8. s[1] = v /\ z[1] = 0 /\ (\A k \in 1 .. n : k # 1 => s[k] = z[k]) /\ \A k \in 1 .. n : z[k] = 0
  BY <1>4
<1> HIDE DEF s, z
<1>9. Total(z) = 0
  BY <1>7, <1>8, TotalZero
<1>10. Total(s) = Total(z) - z[1] + s[1]
  BY <1>4, <1>7, <1>8, TotalChanged
<1>11. Total(s) = v
  BY <1>2, <1>8, <1>9, <1>10
<1> QED
  BY <1>1, <1>2, <1>5, <1>6, <1>11 DEF v

\* It passes the check.
LEMMA ReadyAccepted ==
  ASSUME IInv, NEW d \in UT0 .. UT1, NEW b \in UT0 - 1 .. d - 2, ReadyFrom(d, b)
  PROVE  CheckAccumulationPeriod(AccOf(rows, d, b))
<1> DEFINE a == AccOf(rows, d, b)
<1>1. /\ a \in Seq(Updates) /\ Len(a) = d - b /\ DOMAIN a = 1 .. d - b /\ d - b \in Nat /\ d - b > 1
      /\ a[1].old = rows[d]
      /\ \A i \in 1 .. d - b : a[i].day = d + 1 - i /\ (i # 1 => a[i].old = MissingRow)
  BY ReadyRows
<1>2. WithValue(a) = {1} /\ KnownSum(a) = Dry2Real(a[1].old.original)
  BY ReadySum
<1> HIDE DEF a
<1>3. rows[d].fd \in {2, 4} /\ rows[d].fhqc = 0
  BY DEF ReadyFrom
<1>4. ~BadCount(a)
  BY <1>1, <1>2, <1>3 DEF BadCount, EndAfterRedist
<1>5. \A i \in 2 .. Len(a) : ~BadPoint(a[1].old, a[i].old)
  <2>1. \A i \in 2 .. Len(a) : a[i].old = MissingRow
    BY <1>1
  <2>2. ~BadPoint(rows[d], MissingRow)
    BY <1>3 DEF BadPoint, MissingRow, EndAfterRedist
  <2> QED  BY <1>1, <2>1, <2>2
<1>6. AllHqc04(a)
  <2>1. Hqc04(MissingRow) /\ Hqc04(rows[d])
    BY <1>3 DEF Hqc04, MissingRow
  <2> QED  BY <1>1, <2>1 DEF AllHqc04
<1> QED
  <2>1. CheckAccumulationPeriod(a)
    BY <1>1, <1>2, <1>4, <1>5, <1>6 DEF CheckAccumulationPeriod
  <2> QED  BY <2>1 DEF a

\* It can be distributed.
LEMMA ReadyCan ==
  ASSUME IInv, NEW d \in UT0 .. UT1, NEW b \in UT0 - 1 .. d - 2, ReadyFrom(d, b), NEW a, a = AccOf(rows, d, b)
  PROVE  Accumulated(a) = BoneDry \/ CanRedistribute(a)
<1>1. /\ DOMAIN a = 1 .. d - b /\ d - b \in Nat /\ a[1].old = rows[d]
      /\ \A i \in 1 .. d - b : a[i].day = d + 1 - i
  BY ReadyRows
<1>2. Accumulated(a) = rows[d].original /\ rows[d].original \in Int
  BY <1>1, ReadyChecked DEF Accumulated, Row
<1>3. CASE rows[d].original \in {0, BoneDry}
  BY <1>2, <1>3 DEF CanRedistribute
<1>4. CASE rows[d].original \notin {0, BoneDry}
  <2>1. /\ \A m \in b + 1 .. d : nbr[m].enough
        /\ Total([i \in 1 .. d - b |-> nbr[d + 1 - i].mean]) \in 1 .. 1000 * rows[d].original
    BY <1>4 DEF ReadyFrom
  <2>2. Means(a) = [i \in 1 .. d - b |-> nbr[d + 1 - i].mean]
    BY <1>1 DEF Means
  <2>3. \A i \in 1 .. d - b : d + 1 - i \in b + 1 .. d
    BY DaysAssumption
  <2>4. \A i \in DOMAIN a : nbr[a[i].day].enough
    BY <1>1, <2>1, <2>3
  <2>5. Total(Means(a)) > 0 /\ 1000 * Accumulated(a) >= Total(Means(a))
    BY <1>2, <2>1, <2>2
  <2> QED  BY <2>4, <2>5 DEF CanRedistribute
<1> QED
  BY <1>3, <1>4

\* Something is made of an accumulation that can be distributed.
LEMMA SomethingMade ==
  ASSUME nbr \in Profiles, NEW a \in Seq(Updates), Len(a) > 0, Accumulated(a) = BoneDry \/ CanRedistribute(a)
  PROVE  \E v : Makes(nbr, a, Redistributed(a, v))
<1>1. CASE Accumulated(a) = BoneDry
  BY <1>1 DEF Makes, RedistributeBoneDry
<1>2. CASE Accumulated(a) # BoneDry
  <2>1. CanRedistribute(a) /\ CanOf(nbr, a)
    BY <1>2, Zenon DEF CanRedistribute, CanOf, Means, MeansOf
  <2>2. \E v : ValuesOf(nbr, a, v)
    <3>1. CASE Accumulated(a) = 0
      BY <3>1 DEF ValuesOf
    <3>2. CASE Accumulated(a) # 0
      <4>1. PICK f : LoopOf(nbr, a, f)
        BY <2>1, LoopIs
      <4> QED  BY <3>2, <4>1 DEF ValuesOf
    <3> QED  BY <3>1, <3>2
  <2> QED  BY <1>2, <2>1, <2>2 DEF Makes
<1> QED
  BY <1>1, <1>2

\* So an endpoint with such an accumulation is not done.
LEMMA ReadyNotDone ==
  ASSUME IInv, NEW d \in UT0 .. UT1, Ready(d)
  PROVE  ~Done(nbr, rows, d)
<1>1. PICK b \in UT0 - 1 .. d - 2 : ReadyFrom(d, b)
  BY DEF Ready, ReadyFrom
<1> DEFINE a == AccOf(rows, d, b)
<1>2. /\ a \in Seq(Updates) /\ Len(a) > 0 /\ 1 \in DOMAIN a /\ a[1].old = rows[d] /\ a[1].isNew \in BOOLEAN
  <2>1. a \in Seq(Updates) /\ Len(a) = d - b /\ DOMAIN a = 1 .. d - b /\ d - b \in Nat /\ d - b > 1 /\ a[1].old = rows[d]
    BY <1>1, ReadyRows
  <2>2. 1 \in 1 .. Len(a) /\ 1 \in DOMAIN a /\ Len(a) > 0
    BY <2>1
  <2>3. a[1] \in Updates
    BY <2>1, <2>2, ElementOfSeq
  <2> QED  BY <2>1, <2>2, <2>3 DEF Updates
<1>3. Finds(rows, d, b, a)
  <2>1. PICK f : IsFrom(rows, d, f)
    BY SomeFrom
  <2>2. IsBoundary(rows, d, f, b)
    BY <1>1, <2>1, ReadyBoundary
  <2>3. Checked(rows, d) /\ CheckAccumulationPeriod(a)
    BY <1>1, ReadyChecked, ReadyAccepted
  <2> QED  BY <2>1, <2>2, <2>3 DEF Finds
<1>4. Accumulated(a) = BoneDry \/ CanRedistribute(a)
  BY <1>1, ReadyCan
<1> HIDE DEF a
<1>5. PICK v : Makes(nbr, a, Redistributed(a, v))
  BY <1>2, <1>4, InvFacts, SomethingMade
<1> DEFINE x == Redistributed(a, v)
<1>6. 1 \in DOMAIN x /\ x[1] = [day |-> a[1].day, isNew |-> a[1].isNew, old |-> a[1].old,
                                new |-> Marked(a[1].old, v[1], FlagAt(1))]
  BY <1>2, RedistributedAt
<1> HIDE DEF x
<1>7. x[1].new.fd = 8
  <2>1. rows[d] \in Row
    BY <1>1, ReadyChecked
  <2>2. Marked(rows[d], v[1], 8).fd = 8
    BY <2>1 DEF Marked, FlagChange, Row
  <2> QED  BY <1>2, <1>6, <2>2 DEF FlagAt
<1>8. x[1].old = rows[d] /\ rows[d].fd # 8
  BY <1>1, <1>2, <1>6 DEF ReadyFrom
<1>9. NeedsWrite(x[1])
  BY <1>7, <1>8 DEF NeedsWrite
<1>10. Makes(nbr, a, x)
  BY <1>5 DEF x
<1> QED
  BY <1>3, <1>6, <1>9, <1>10 DEF Done, Quiet

\* RedistributionAlgorithm.cc:413-447: an undisturbed run leaves no accumulation that could be distributed,
\* wherever in the table it lies, whatever is wrong with other accumulations and however many
\* endpoints were passed over, and whatever an earlier run that was refused or cut short has left.
THEOREM RedistributionNothingReadyStays == Spec => []NothingReadyStays
<1>1. Init => QuietInv
  BY InitTypeInv DEF Init, QuietInv
<1>2. QuietInv /\ [Next]_vars => QuietInv'
  BY QuietStep
<1>3. QuietInv => NothingReadyStays
  <2> SUFFICES ASSUME QuietInv, settled, NEW d \in UT0 .. UT1  PROVE ~Ready(d)
    BY DEF NothingReadyStays
  <2>1. IInv /\ Done(nbr, rows, d)
    BY DEF QuietInv, AllDone
  <2> QED  BY <2>1, ReadyNotDone
<1> QED
  BY <1>1, <1>2, <1>3, PTL DEF Spec
=============================================================================
