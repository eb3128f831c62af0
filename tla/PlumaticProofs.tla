--------------------------- MODULE PlumaticProofs ---------------------------
(***************************************************************************)
(* Proofs about the pluviometer algorithm: types, rows of operators, the   *)
(* end of its loops, sliding sums, refused transactions and which minutes  *)
(* of rain are marked.                                                     *)
(*                                                                         *)
(* The invariant is TypeOK with what is known of the list of updates (it   *)
(* holds rows as they were read but for flags, in the order of time, and   *)
(* made-up rows that are bad data) and how far the loops have come.  Each  *)
(* recursive loop of the code is a lemma about the list it returns; each   *)
(* action is a lemma about the invariant.                                  *)
(***************************************************************************)
EXTENDS Plumatic, FiniteInduction, SequenceTheorems, TLAPS

\* The lengths and times of the model are natural numbers.
LEMMA Times ==
  /\ LastMinute \in Nat /\ Morning \in Nat /\ Span \in Nat
  /\ Hour \in Nat /\ Hour > 0 /\ Day \in Nat /\ Day > 0
  /\ Starts \subseteq Minutes /\ Minutes \subseteq Nat
BY TimeAssumption DEF Minutes

\* Minutes are numbers.
LEMMA MinuteNumbers == \A t \in Minutes : t \in Nat /\ t \in Int
BY Times

\* A sequence of numbers that grows.
Increasing(s) == \A i, j \in DOMAIN s : i < j => s[i] < s[j]

\* The rows come from the database in the order of time: each of the minutes once,
\* and no other.
LEMMA InTimeList ==
  ASSUME NEW S \in SUBSET Minutes
  PROVE  /\ InTime(S) \in Seq(S) /\ Increasing(InTime(S))
         /\ \A t \in S : \E i \in DOMAIN InTime(S) : InTime(S)[i] = t
<1> DEFINE N == LastMinute + 1
           Step1(s, n) == IF n - 1 \in S THEN Append(s, n - 1) ELSE s
           IsUpTo(f) == f = [n \in 0 .. N |-> IF n = 0 THEN <<>> ELSE Step1(f[n - 1], n)]
           upTo == CHOOSE f : IsUpTo(f)
           step == [p \in Seq(S) \X (1 .. N) |-> Step1(p[1], p[2])]
<1>1. N \in Nat /\ \A t \in S : t \in Nat /\ t < N
  BY Times DEF Minutes
<1>0. InTime(S) = upTo[N]
  BY DEF InTime
<1> HIDE DEF N, upTo
<1>2. step \in [Seq(S) \X (1 .. N) -> Seq(S)] /\ <<>> \in Seq(S)
  <2>1. ASSUME NEW s \in Seq(S), NEW n \in 1 .. N  PROVE Step1(s, n) \in Seq(S)
    OBVIOUS
  <2> QED  BY <2>1
<1>3. PICK f \in [0 .. N -> Seq(S)] : RecursiveOver(f, N, <<>>, step)
  <2> HIDE DEF step
  <2> QED  BY <1>1, <1>2, Recursion
<1>4. IsUpTo(f)
  <2> HIDE DEF Step1
  <2>1. f[0] = <<>> /\ \A n \in 1 .. N : f[n] = step[<<f[n - 1], n>>]
    BY <1>3 DEF RecursiveOver
  <2>2. \A n \in 1 .. N : f[n - 1] \in Seq(S)
    BY <1>1
  <2>3. \A n \in 1 .. N : f[n] = Step1(f[n - 1], n)
    BY <1>1, <2>1, <2>2
  <2> QED  BY <1>1, <2>1, <2>3
<1>5. IsUpTo(upTo)
  <2> HIDE DEF IsUpTo
  <2> QED  BY <1>4 DEF upTo
<1>6. upTo[0] = <<>> /\ \A n \in 1 .. N : upTo[n] = Step1(upTo[n - 1], n)
  <2> HIDE DEF Step1
  <2> QED BY <1>1, <1>5
<1> DEFINE Holds(s, n) ==
        /\ s \in Seq(S) /\ Increasing(s)
        /\ \A i \in DOMAIN s : s[i] < n
        /\ \A t \in S : t < n => \E i \in DOMAIN s : s[i] = t
           T == {n \in 0 .. N : Holds(upTo[n], n)}
<1>7. 0 \in T
  <2>1. Holds(<<>>, 0)
    BY <1>1 DEF Increasing
  <2> HIDE DEF Holds
  <2> QED  BY <1>1, <1>6, <2>1
<1>8. ASSUME NEW n \in 1 .. N, n - 1 \in T  PROVE n \in T
  <2> DEFINE s == upTo[n - 1]
  <2>1. Holds(s, n - 1) /\ n - 1 \in Nat /\ n \in 0 .. N
    BY <1>1, <1>8
  <2> HIDE DEF s
  <2>3. DOMAIN s = 1 .. Len(s) /\ Len(s) \in Nat /\ \A i \in DOMAIN s : s[i] \in S /\ s[i] \in Nat
    BY <2>1, <1>1, LenProperties, ElementOfSeq
  <2>2. Holds(Step1(s, n), n)
    <3>1. CASE n - 1 \in S
      <4> DEFINE r == Append(s, n - 1)
      <4>1. /\ r \in Seq(S) /\ Len(r) = Len(s) + 1
            /\ \A i \in 1 .. Len(s) : r[i] = s[i]
            /\ r[Len(s) + 1] = n - 1
        BY <2>1, <3>1, AppendProperties
      <4> HIDE DEF r
      <4>2. DOMAIN r = 1 .. Len(s) + 1
        BY <4>1, LenProperties
      <4>3. Increasing(r)
        BY <2>1, <2>3, <4>1, <4>2 DEF Increasing
      <4>4. \A i \in DOMAIN r : r[i] < n
        BY <2>1, <2>3, <4>1, <4>2
      <4>5. ASSUME NEW t \in S, t < n  PROVE \E i \in DOMAIN r : r[i] = t
        <5>1. CASE t = n - 1
          BY <2>3, <4>1, <4>2, <5>1
        <5>2. CASE t # n - 1
          <6>0. t \in Nat /\ n \in Nat
            BY <1>1
          <6>1. t < n - 1
            BY ONLY <6>0, <4>5, <5>2
          <6>2. PICK i \in DOMAIN s : s[i] = t
            BY <2>1, <6>1
          <6>3. i \in DOMAIN r /\ r[i] = t
            BY <2>3, <4>1, <4>2, <6>2
          <6> QED  BY <6>3
        <5> QED  BY <5>1, <5>2
      <4> QED  BY <3>1, <4>1, <4>3, <4>4, <4>5 DEF r
    <3>2. CASE n - 1 \notin S
      <4>1. ASSUME NEW t \in S, t < n  PROVE t < n - 1
        <5>1. t \in Nat /\ n \in Nat /\ t # n - 1
          BY <1>1, <3>2
        <5> QED  BY ONLY <5>1, <4>1
      <4>2. \A i \in DOMAIN s : s[i] < n
        BY <2>1, <2>3
      <4> QED  BY <2>1, <3>2, <4>1, <4>2
    <3> QED  BY <3>1, <3>2
  <2> QED  BY <1>6, <2>1, <2>2 DEF s
<1>9. Holds(upTo[N], N)
  <2> HIDE DEF T
  <2>1. 0 .. N \subseteq T
    BY <1>1, <1>7, <1>8, IntervalInduction
  <2> QED  BY <2>1, <1>1 DEF T
<1> QED
  BY <1>0, <1>1, <1>9

-----------------------------------------------------------------------------
\* An update as it was read; only its marks of switched-off times may differ.
Fresh(u) == ~u.isNew /\ ~u.noWrite /\ ~u.agg /\ u.row = u.was

\* Updates in the order of time, one for each.
Rising(list) == \A i, j \in DOMAIN list : i < j => list[i].t < list[j].t

\* A row that says that the station was switched off or on.
IsMarker(u) == ~Discarded(u.row) /\ u.row.original \in {StartBad, EndBad}

\* The marker before a position begins a switched-off time.
StartsBefore(list, k) ==
    \E s \in 1 .. k - 1 :
        /\ IsMarker(list[s]) /\ list[s].row.original = StartBad
        /\ \A x \in s + 1 .. k - 1 : ~IsMarker(list[x])

\* Behind the row the next marker ends such a time.
EndsAfter(list, k, n) ==
    \E e \in k + 1 .. n :
        /\ IsMarker(list[e]) /\ list[e].row.original = EndBad
        /\ \A x \in k + 1 .. e - 1 : ~IsMarker(list[x])

\* The markers say so one way or the other.
OffAt(list, k, n) == StartsBefore(list, k) \/ EndsAfter(list, k, n)

\* A list cut off behind a position, with two updates put behind it.
LEMMA CutAndMark ==
  ASSUME NEW S, NEW s \in Seq(S), NEW from \in 1 .. Len(s), NEW a \in S, NEW b \in S,
         NEW r, r = SubSeq(s, 1, from - 1) \o <<a, b>>
  PROVE  /\ r \in Seq(S) /\ Len(r) = from + 1
         /\ \A i \in 1 .. from - 1 : r[i] = s[i]
         /\ r[from] = a /\ r[from + 1] = b
<1> DEFINE q == SubSeq(s, 1, from - 1)
           p == <<a, b>>
<1>1. q \in Seq(S) /\ Len(q) = from - 1 /\ \A i \in 1 .. from - 1 : q[i] = s[i]
  <2>1. \A i \in 1 .. from - 1 : s[i] \in S
    BY ElementOfSeq
  <2>2. 1 \in Int /\ from - 1 \in Int
    OBVIOUS
  <2>3. /\ q \in Seq(S)
        /\ Len(q) = IF 1 <= from - 1 THEN from - 1 - 1 + 1 ELSE 0
        /\ \A i \in 1 .. from - 1 - 1 + 1 : q[i] = s[1 + i - 1]
    BY <2>1, <2>2, SubSeqProperties
  <2> QED  BY <2>3
<1>2. p \in Seq(S) /\ Len(p) = 2 /\ p[1] = a /\ p[2] = b
  OBVIOUS
<1> HIDE DEF q, p
<1>3. /\ q \o p \in Seq(S) /\ Len(q \o p) = Len(q) + Len(p)
      /\ \A i \in 1 .. Len(q) + Len(p) :
            (q \o p)[i] = IF i <= Len(q) THEN q[i] ELSE p[i - Len(q)]
  BY <1>1, <1>2, ConcatProperties
<1>4. r = q \o p
  BY DEF q, p
<1> HIDE DEF q, p
<1> QED
  BY <1>1, <1>2, <1>3, <1>4

\* A list cut off behind a position, with one update put behind it.
LEMMA CutAndMarkOne ==
  ASSUME NEW S, NEW s \in Seq(S), NEW from \in 1 .. Len(s), NEW a \in S,
         NEW r, r = SubSeq(s, 1, from - 1) \o <<a>>
  PROVE  /\ r \in Seq(S) /\ Len(r) = from
         /\ \A i \in 1 .. from - 1 : r[i] = s[i]
         /\ r[from] = a
<1> DEFINE q == SubSeq(s, 1, from - 1)
           p == <<a>>
<1>1. q \in Seq(S) /\ Len(q) = from - 1 /\ \A i \in 1 .. from - 1 : q[i] = s[i]
  <2>1. \A i \in 1 .. from - 1 : s[i] \in S
    BY ElementOfSeq
  <2>2. 1 \in Int /\ from - 1 \in Int
    OBVIOUS
  <2>3. /\ q \in Seq(S)
        /\ Len(q) = IF 1 <= from - 1 THEN from - 1 - 1 + 1 ELSE 0
        /\ \A i \in 1 .. from - 1 - 1 + 1 : q[i] = s[1 + i - 1]
    BY <2>1, <2>2, SubSeqProperties
  <2> QED  BY <2>3
<1>2. p \in Seq(S) /\ Len(p) = 1 /\ p[1] = a
  OBVIOUS
<1>4. r = q \o p
  OBVIOUS
<1> HIDE DEF q, p
<1>3. /\ q \o p \in Seq(S) /\ Len(q \o p) = Len(q) + Len(p)
      /\ \A i \in 1 .. Len(q) + Len(p) :
            (q \o p)[i] = IF i <= Len(q) THEN q[i] ELSE p[i - Len(q)]
  BY <1>1, <1>2, ConcatProperties
<1> QED
  BY <1>1, <1>2, <1>3, <1>4

\* An update with the mark of a switched-off time is an update.
LEMMA MarkedUpdates ==
  ASSUME NEW u \in Updates
  PROVE  /\ [u EXCEPT !.start = TRUE] \in Updates /\ [u EXCEPT !.end = TRUE] \in Updates
         /\ [u EXCEPT !.start = TRUE, !.end = TRUE] \in Updates
BY DEF Updates

\* Such a mark changes nothing else in the update.
LEMMA MarkedFields ==
  ASSUME NEW u \in Updates, NEW v,
         v \in {[u EXCEPT !.start = TRUE], [u EXCEPT !.end = TRUE], [u EXCEPT !.start = TRUE, !.end = TRUE]}
  PROVE  /\ v.t = u.t /\ v.row = u.row /\ v.was = u.was /\ v.isNew = u.isNew /\ v.noWrite = u.noWrite
         /\ v.agg = u.agg /\ (Fresh(u) => Fresh(v))
BY DEF Updates, Fresh

\* The states of the loop of DiscardMarked.
Discarding == {st \in [out : Seq(Updates), bad : Nat] : st.bad <= Len(st.out)}

\* What one turn of the loop makes of the list: the row is added, or all rows behind
\* the beginning of the switched-off time are cut off first.
RowAdded(st, u, r) ==
    /\ Len(r.out) = Len(st.out) + 1 /\ \A i \in 1 .. Len(st.out) : r.out[i] = st.out[i]
    /\ r.out[Len(st.out) + 1] = u
    /\ \/ /\ IsMarker(u) /\ u.row.original = StartBad
          /\ r.bad = IF st.bad # 0 THEN st.bad ELSE Len(st.out) + 1
       \/ ~IsMarker(u) /\ r.bad = st.bad

\* The rows of a switched-off time are erased, and its two ends are marked.
RowsCutOff(st, u, r) ==
    /\ IsMarker(u) /\ u.row.original = EndBad /\ r.bad = 0
    /\ \/ /\ Len(st.out) = 0 /\ Len(r.out) = 1
          /\ r.out[1] = [u EXCEPT !.start = TRUE, !.end = TRUE]
       \/ \E from \in 1 .. Len(st.out) :
            /\ from = IF st.bad # 0 THEN st.bad ELSE 1
            /\ Len(r.out) = from + 1
            /\ \A i \in 1 .. from - 1 : r.out[i] = st.out[i]
            /\ r.out[from] = [st.out[from] EXCEPT !.start = TRUE]
            /\ r.out[from + 1] = [u EXCEPT !.end = TRUE]

\* One turn of discardNonOperationalTime either adds the row or, at a row that ends
\* a switched-off time, erases the rows of that time from the list.
LEMMA DiscardStepResult ==
  ASSUME NEW st \in Discarding, NEW u \in Updates, NEW r, r = DiscardStep(st, u)
  PROVE  r \in Discarding /\ (RowAdded(st, u, r) \/ RowsCutOff(st, u, r))
<1> DEFINE n == Len(st.out) + 1
           from == IF st.bad # 0 THEN st.bad ELSE 1
           a == Append(st.out, u)
<1>1. st.out \in Seq(Updates) /\ Len(st.out) \in Nat /\ st.bad \in 0 .. Len(st.out)
  BY DEF Discarding
<1>2. /\ a \in Seq(Updates) /\ Len(a) = n
      /\ \A i \in 1 .. Len(st.out) : a[i] = st.out[i]
      /\ a[n] = u
  BY <1>1, AppendProperties
<1>3. CASE ~Discarded(u.row) /\ u.row.original = StartBad
  <2>1. r = [out |-> a, bad |-> IF st.bad # 0 THEN st.bad ELSE n]
    BY <1>3 DEF DiscardStep, StartBad, EndBad
  <2> HIDE DEF a
  <2> QED  BY <1>1, <1>2, <1>3, <2>1 DEF Discarding, IsMarker, RowAdded
<1>4. CASE ~Discarded(u.row) /\ u.row.original = EndBad
  <2>0. u.row.original # StartBad
    BY <1>4 DEF StartBad, EndBad
  <2>1. CASE from = n
    <3>1. Len(st.out) = 0
      BY <1>1, <2>1
    <3> DEFINE v == [u EXCEPT !.start = TRUE, !.end = TRUE]
               b == Append(st.out, v)
    <3>2. r = [out |-> b, bad |-> 0]
      BY <1>4, <2>0, <2>1 DEF DiscardStep
    <3>3. v \in Updates
      BY MarkedUpdates
    <3> HIDE DEF v
    <3>4. b \in Seq(Updates) /\ Len(b) = n /\ b[n] = v
      BY <1>1, <3>3, AppendProperties
    <3> HIDE DEF b
    <3> QED  BY <1>1, <1>4, <3>1, <3>2, <3>4 DEF v, Discarding, IsMarker, RowsCutOff
  <2>2. CASE from # n
    <3>1. from \in 1 .. Len(st.out)
      BY <1>1, <2>2
    <3> DEFINE x == [st.out[from] EXCEPT !.start = TRUE]
               y == [u EXCEPT !.end = TRUE]
               b == SubSeq(st.out, 1, from - 1) \o <<x, y>>
    <3>2. r = [out |-> b, bad |-> 0]
      BY <1>4, <2>0, <2>2 DEF DiscardStep
    <3>3. x \in Updates /\ y \in Updates
      BY <1>1, <3>1, MarkedUpdates, ElementOfSeq
    <3> HIDE DEF x, y, from
    <3>4. /\ b \in Seq(Updates) /\ Len(b) = from + 1
          /\ \A i \in 1 .. from - 1 : b[i] = st.out[i]
          /\ b[from] = x /\ b[from + 1] = y
      BY <1>1, <3>1, <3>3, CutAndMark
    <3> HIDE DEF b
    <3>5. r.out = b /\ r.bad = 0 /\ r \in Discarding
      BY <3>1, <3>2, <3>4 DEF Discarding
    <3>6. IsMarker(u) /\ u.row.original = EndBad
      BY <1>4 DEF IsMarker
    <3>7. from = IF st.bad # 0 THEN st.bad ELSE 1
      BY DEF from
    <3>8. r.out[from] = [st.out[from] EXCEPT !.start = TRUE] /\ r.out[from + 1] = [u EXCEPT !.end = TRUE]
      BY <3>4, <3>5 DEF x, y
    <3>9. \E g \in 1 .. Len(st.out) :
            /\ g = (IF st.bad # 0 THEN st.bad ELSE 1)
            /\ Len(r.out) = g + 1
            /\ \A i \in 1 .. g - 1 : r.out[i] = st.out[i]
            /\ r.out[g] = [st.out[g] EXCEPT !.start = TRUE]
            /\ r.out[g + 1] = [u EXCEPT !.end = TRUE]
      BY <3>1, <3>4, <3>5, <3>7, <3>8, Zenon
    <3> QED  BY <3>5, <3>6, <3>9 DEF RowsCutOff
  <2> QED  BY <2>1, <2>2
<1>5. CASE ~(~Discarded(u.row) /\ u.row.original = StartBad) /\ ~(~Discarded(u.row) /\ u.row.original = EndBad)
  <2>1. r = [out |-> a, bad |-> st.bad]
    BY <1>5 DEF DiscardStep
  <2> HIDE DEF a
  <2> QED  BY <1>1, <1>2, <1>5, <2>1 DEF Discarding, IsMarker, RowAdded
<1> QED
  BY <1>3, <1>4, <1>5

\* What the loop keeps: the list holds rows as they were read, in the order of time,
\* and a row that is no longer in it was cut off inside a switched-off time, or all
\* that is left before it is marked as such a time.
DiscardedSoFar(list, n, st) ==
    /\ \A i \in DOMAIN st.out :
            Fresh(st.out[i]) /\ \E k \in 1 .. n : st.out[i].t = list[k].t /\ st.out[i].row = list[k].row
    /\ Rising(st.out)
    /\ st.bad # 0 =>
            /\ IsMarker(st.out[st.bad]) /\ st.out[st.bad].row.original = StartBad
            /\ \A k \in 1 .. n : list[k].t >= st.out[st.bad].t /\ IsMarker(list[k]) =>
                    list[k].row.original = StartBad
    /\ \A k \in 1 .. n :
            \/ \E i \in DOMAIN st.out : st.out[i].t = list[k].t
            \/ OffAt(list, k, n)
            \/ \A i \in DOMAIN st.out : st.out[i].t < list[k].t => st.out[i].start

\* If all markers from some position on begin switched-off times, the last one
\* before a later position does.
LEMMA LastMarkerStarts ==
  ASSUME NEW list, NEW k \in Nat, NEW l \in 1 .. k - 1, IsMarker(list[l]),
         \A x \in l .. k - 1 : IsMarker(list[x]) => list[x].row.original = StartBad
  PROVE  StartsBefore(list, k)
<1> DEFINE M == {x \in l .. k - 1 : IsMarker(list[x])}
<1>1. M \in SUBSET (l .. k - 1) /\ l \in M /\ l \in Int /\ k - 1 \in Int
  OBVIOUS
<1>2. Max(M) \in M /\ \A x \in M : x <= Max(M)
  <2> HIDE DEF M
  <2> QED  BY <1>1, MaxOfSome
<1> DEFINE m == Max(M)
<1>3. m \in l .. k - 1 /\ IsMarker(list[m]) /\ m \in Int
  BY <1>2
<1>4. ASSUME NEW x \in m + 1 .. k - 1, IsMarker(list[x])  PROVE FALSE
  <2> HIDE DEF m
  <2>1. x \in l .. k - 1 /\ x \in Int /\ x >= m + 1
    BY <1>3
  <2>2. x <= m
    BY <1>2, <1>4, <2>1 DEF m
  <2> QED  BY <1>3, <2>1, <2>2
<1> HIDE DEF m, M
<1> QED
  BY <1>3, <1>4 DEF StartsBefore

\* One turn keeps what is known of the list: its rows are rows as they were read, in
\* the order of time, and a row that is missing was in a switched-off time.
LEMMA DiscardStepKeeps ==
  ASSUME NEW list \in Seq(Updates), \A i \in DOMAIN list : Fresh(list[i]), Rising(list),
         NEW n \in 1 .. Len(list), NEW st \in Discarding, DiscardedSoFar(list, n - 1, st)
  PROVE  DiscardedSoFar(list, n, DiscardStep(st, list[n]))
<1> DEFINE u == list[n]
           L == Len(st.out)
           r == DiscardStep(st, u)
<1>1. /\ u \in Updates /\ Fresh(u) /\ u.t \in Nat
      /\ \A k \in 1 .. Len(list) : list[k] \in Updates /\ Fresh(list[k]) /\ list[k].t \in Nat
      /\ \A k, l \in 1 .. Len(list) : k < l => list[k].t < list[l].t
      /\ n \in Nat /\ Len(list) \in Nat /\ 1 .. n - 1 \subseteq 1 .. n /\ 1 .. n \subseteq 1 .. Len(list)
  <2>1. DOMAIN list = 1 .. Len(list) /\ Len(list) \in Nat /\ \A k \in 1 .. Len(list) : list[k] \in Updates
    BY LenProperties, ElementOfSeq
  <2>2. \A v \in Updates : v.t \in Nat
    BY Times DEF Updates
  <2> QED  BY <2>1, <2>2 DEF Rising
<1>2. st.out \in Seq(Updates) /\ L \in Nat /\ DOMAIN st.out = 1 .. L /\ st.bad \in 0 .. L
  BY LenProperties DEF Discarding
<1>3. \A i \in 1 .. L : st.out[i] \in Updates /\ st.out[i].t \in Nat /\ st.out[i].t < u.t
  <2>1. ASSUME NEW i \in 1 .. L  PROVE st.out[i] \in Updates /\ st.out[i].t \in Nat /\ st.out[i].t < u.t
    <3>1. st.out[i] \in Updates
      BY <1>2, ElementOfSeq
    <3>2. PICK k \in 1 .. n - 1 : st.out[i].t = list[k].t
      BY <1>2 DEF DiscardedSoFar
    <3>3. k \in 1 .. Len(list) /\ k < n
      BY <1>1
    <3> QED  BY <1>1, <3>1, <3>2, <3>3
  <2> QED  BY <2>1
<1>4. \A k \in 1 .. n : OffAt(list, k, n - 1) => OffAt(list, k, n)
  BY <1>1 DEF OffAt, EndsAfter
<1> HIDE DEF u
<1>5. r \in Discarding /\ (RowAdded(st, u, r) \/ RowsCutOff(st, u, r))
  <2> HIDE DEF r
  <2> QED  BY <1>1, DiscardStepResult DEF r
<1> HIDE DEF r
<1>6. DOMAIN r.out = 1 .. Len(r.out)
  BY <1>5, LenProperties DEF Discarding
\* The row itself comes from the list.
<1>7. u.t = list[n].t /\ u.row = list[n].row /\ n \in 1 .. n
  BY <1>1 DEF u
\* What holds of the rows that were there before.
<1>8. /\ \A i \in 1 .. L : Fresh(st.out[i]) /\ \E k \in 1 .. n : st.out[i].t = list[k].t /\ st.out[i].row = list[k].row
      /\ \A i, j \in 1 .. L : i < j => st.out[i].t < st.out[j].t
  BY <1>1, <1>2 DEF DiscardedSoFar, Rising
<1>9. CASE RowAdded(st, u, r)
  <2>0. DOMAIN r.out = 1 .. L + 1
    BY <1>6, <1>9 DEF RowAdded
  <2>5. ASSUME NEW i \in DOMAIN r.out
        PROVE  \/ i \in 1 .. L /\ r.out[i] = st.out[i]
               \/ i = L + 1 /\ r.out[i] = u
    BY <1>2, <1>9, <2>0 DEF RowAdded
  <2>1. ASSUME NEW i \in DOMAIN r.out
        PROVE  Fresh(r.out[i]) /\ \E k \in 1 .. n : r.out[i].t = list[k].t /\ r.out[i].row = list[k].row
    <3>1. CASE i \in 1 .. L /\ r.out[i] = st.out[i]
      BY <1>8, <3>1
    <3>2. CASE r.out[i] = u
      BY <1>1, <1>7, <3>2
    <3> QED  BY <2>5, <3>1, <3>2
  <2>2. ASSUME NEW i \in DOMAIN r.out, NEW j \in DOMAIN r.out, i < j  PROVE r.out[i].t < r.out[j].t
    <3>1. i \in 1 .. L /\ r.out[i] = st.out[i]
      BY <1>2, <2>0, <2>2, <2>5
    <3>2. CASE j \in 1 .. L /\ r.out[j] = st.out[j]
      BY <1>8, <2>2, <3>1, <3>2
    <3>3. CASE r.out[j] = u
      BY <1>3, <3>1, <3>3
    <3> QED  BY <2>5, <3>2, <3>3
  <2>3. ASSUME r.bad # 0
        PROVE  /\ IsMarker(r.out[r.bad]) /\ r.out[r.bad].row.original = StartBad
               /\ \A k \in 1 .. n : list[k].t >= r.out[r.bad].t /\ IsMarker(list[k]) =>
                    list[k].row.original = StartBad
    <3>1. CASE st.bad # 0
      <4>1. r.bad = st.bad /\ r.out[r.bad] = st.out[st.bad]
        BY <1>2, <1>9, <3>1 DEF RowAdded
      <4>2. IsMarker(u) => u.row.original = StartBad
        BY <1>9 DEF RowAdded, IsMarker
      <4>3. \A k \in 1 .. n : k = n \/ k \in 1 .. n - 1
        BY <1>1
      <4> QED  BY <3>1, <4>1, <4>2, <4>3 DEF DiscardedSoFar, u
    <3>2. CASE st.bad = 0
      <4>1. r.bad = L + 1 /\ r.out[r.bad] = u /\ IsMarker(u) /\ u.row.original = StartBad
        BY <1>9, <2>3, <3>2 DEF RowAdded
      <4>2. ASSUME NEW k \in 1 .. n, list[k].t >= u.t  PROVE k = n
        <5>1. k \in 1 .. Len(list) /\ n \in 1 .. Len(list) /\ (k < n => list[k].t < list[n].t)
          BY <1>1
        <5>2. list[k].t \in Nat /\ list[n].t \in Nat /\ list[k].t >= list[n].t
          BY <1>1, <1>7, <4>2
        <5> QED  BY <5>1, <5>2
      <4> QED  BY <4>1, <4>2, <1>7 DEF u
    <3> QED  BY <3>1, <3>2
  <2>4. ASSUME NEW k \in 1 .. n
        PROVE  \/ \E i \in DOMAIN r.out : r.out[i].t = list[k].t
               \/ OffAt(list, k, n)
               \/ \A i \in DOMAIN r.out : r.out[i].t < list[k].t => r.out[i].start
    <3>1. CASE k = n
      <4>1. L + 1 \in DOMAIN r.out /\ r.out[L + 1].t = list[k].t
        BY <1>2, <1>7, <1>9, <2>0, <3>1 DEF RowAdded
      <4> QED  BY <4>1
    <3>2. CASE k # n
      <4>1. k \in 1 .. n - 1 /\ list[k].t < u.t
        BY <1>1, <3>2 DEF u
      <4>2. \/ \E i \in 1 .. L : st.out[i].t = list[k].t
            \/ OffAt(list, k, n)
            \/ \A i \in 1 .. L : st.out[i].t < list[k].t => st.out[i].start
        BY <1>2, <1>4, <4>1 DEF DiscardedSoFar
      <4>3. CASE \E i \in 1 .. L : st.out[i].t = list[k].t
        <5>1. PICK i \in 1 .. L : st.out[i].t = list[k].t
          BY <4>3
        <5>2. i \in DOMAIN r.out /\ r.out[i] = st.out[i]
          BY <1>2, <1>9, <2>0 DEF RowAdded
        <5> QED  BY <5>1, <5>2
      <4>4. CASE \A i \in 1 .. L : st.out[i].t < list[k].t => st.out[i].start
        <5>1. ~(u.t < list[k].t)
          BY <4>1, <1>1
        <5> QED  BY <2>5, <4>4, <5>1
      <4> QED  BY <4>2, <4>3, <4>4
    <3> QED  BY <3>1, <3>2
  <2>6. DiscardedSoFar(list, n, r)
    BY <2>1, <2>2, <2>3, <2>4 DEF DiscardedSoFar, Rising
  <2> QED  BY <2>6 DEF r, u
<1>10. ASSUME IsMarker(u), u.row.original = EndBad, r.bad = 0, Len(st.out) = 0, Len(r.out) = 1,
              r.out[1] = [u EXCEPT !.start = TRUE, !.end = TRUE]
       PROVE  DiscardedSoFar(list, n, r)
  <2>1. DOMAIN r.out = {1} /\ r.out[1].t = u.t /\ r.out[1].row = u.row /\ Fresh(r.out[1]) /\ r.out[1].start
    <3>1. [u EXCEPT !.start = TRUE, !.end = TRUE].start
      BY <1>1 DEF Updates
    <3>2. r.out[1].t = u.t /\ r.out[1].row = u.row /\ Fresh(r.out[1])
      BY <1>1, <1>10, MarkedFields
    <3> QED  BY <1>6, <1>10, <3>1, <3>2
  <2>2. Rising(r.out)
    BY <2>1 DEF Rising
  <2> QED
    BY <1>7, <1>10, <2>1, <2>2 DEF DiscardedSoFar
<1>11. ASSUME IsMarker(u), u.row.original = EndBad, r.bad = 0, NEW from \in 1 .. Len(st.out),
              from = (IF st.bad # 0 THEN st.bad ELSE 1),
              Len(r.out) = from + 1,
              \A i \in 1 .. from - 1 : r.out[i] = st.out[i],
              r.out[from] = [st.out[from] EXCEPT !.start = TRUE],
              r.out[from + 1] = [u EXCEPT !.end = TRUE]
       PROVE  DiscardedSoFar(list, n, r)
  <2>0. DOMAIN r.out = 1 .. from + 1 /\ from \in 1 .. L /\ from \in Nat
    BY <1>2, <1>6, <1>11
  <2>1. ASSUME NEW i \in DOMAIN r.out
        PROVE  \/ i \in 1 .. from - 1 /\ r.out[i] = st.out[i]
               \/ i = from /\ r.out[i].t = st.out[i].t /\ r.out[i].row = st.out[i].row
                  /\ Fresh(r.out[i]) /\ r.out[i].start
               \/ i = from + 1 /\ r.out[i].t = u.t /\ r.out[i].row = u.row /\ Fresh(r.out[i])
    <3>1. CASE i \in 1 .. from - 1
      BY <1>11, <3>1
    <3>2. CASE i = from
      <4>1. st.out[from] \in Updates /\ Fresh(st.out[from])
        BY <1>3, <1>8, <2>0
      <4> DEFINE x == st.out[from]
      <4>2. r.out[from] = [x EXCEPT !.start = TRUE]
        BY <1>11
      <4>3. x \in Updates /\ Fresh(x)
        BY <4>1
      <4>4. [x EXCEPT !.start = TRUE].start
        BY <4>3 DEF Updates
      <4> HIDE DEF x
      <4>5. r.out[from].t = x.t /\ r.out[from].row = x.row /\ Fresh(r.out[from])
        BY <4>2, <4>3, MarkedFields
      <4> QED  BY <3>2, <4>2, <4>4, <4>5 DEF x
    <3>3. CASE i = from + 1
      <4>1. r.out[i] = [u EXCEPT !.end = TRUE]
        BY <1>11, <3>3
      <4>2. r.out[i].t = u.t /\ r.out[i].row = u.row /\ Fresh(r.out[i])
        BY <1>1, <4>1, MarkedFields
      <4> QED  BY <3>3, <4>2
    <3> QED  BY <2>0, <3>1, <3>2, <3>3
  <2>2. ASSUME NEW i \in DOMAIN r.out
        PROVE  Fresh(r.out[i]) /\ \E k \in 1 .. n : r.out[i].t = list[k].t /\ r.out[i].row = list[k].row
    <3>1. CASE i \in 1 .. from /\ r.out[i].t = st.out[i].t /\ r.out[i].row = st.out[i].row /\ Fresh(r.out[i])
      BY <1>8, <2>0, <3>1
    <3>2. CASE r.out[i].t = u.t /\ r.out[i].row = u.row /\ Fresh(r.out[i])
      BY <1>7, <3>2
    <3> QED  BY <1>8, <2>0, <2>1, <3>1, <3>2
  <2>3. ASSUME NEW i \in DOMAIN r.out, NEW j \in DOMAIN r.out, i < j  PROVE r.out[i].t < r.out[j].t
    <3>1. i \in 1 .. from /\ i \in 1 .. L /\ r.out[i].t = st.out[i].t
      BY <2>0, <2>1, <2>3
    <3>2. CASE j \in 1 .. from /\ r.out[j].t = st.out[j].t
      <4>1. j \in 1 .. L
        BY <1>2, <2>0, <3>2
      <4>2. st.out[i].t < st.out[j].t
        BY <1>8, <2>3, <3>1, <4>1
      <4> QED  BY <3>1, <3>2, <4>2
    <3>3. CASE r.out[j].t = u.t
      BY <1>3, <3>1, <3>3
    <3> QED  BY <2>0, <2>1, <3>2, <3>3
  <2>4. ASSUME NEW k \in 1 .. n
        PROVE  \/ \E i \in DOMAIN r.out : r.out[i].t = list[k].t
               \/ OffAt(list, k, n)
               \/ \A i \in DOMAIN r.out : r.out[i].t < list[k].t => r.out[i].start
    <3>1. CASE k = n
      <4>1. from + 1 \in DOMAIN r.out /\ r.out[from + 1].t = list[k].t
        BY <1>7, <2>0, <2>1, <3>1
      <4> QED  BY <4>1
    <3>2. CASE k # n
      <4>1. k \in 1 .. n - 1 /\ list[k].t < u.t /\ list[k].t \in Nat
        BY <1>1, <3>2 DEF u
      <4>2. ASSUME NEW i \in DOMAIN r.out, r.out[i].t < list[k].t
            PROVE  i \in 1 .. from /\ i \in 1 .. L /\ r.out[i].t = st.out[i].t
        <5>1. ~(u.t < list[k].t)
          BY <4>1, <1>1
        <5> QED  BY <2>0, <2>1, <4>2, <5>1
      <4>3. \/ \E i \in 1 .. L : st.out[i].t = list[k].t
            \/ OffAt(list, k, n)
            \/ \A i \in 1 .. L : st.out[i].t < list[k].t => st.out[i].start
        BY <1>2, <1>4, <4>1 DEF DiscardedSoFar
      <4>4. CASE \A i \in 1 .. L : st.out[i].t < list[k].t => st.out[i].start
        <5>1. ASSUME NEW i \in DOMAIN r.out, r.out[i].t < list[k].t  PROVE r.out[i].start
          BY <2>0, <2>1, <4>2, <4>4, <5>1
        <5> QED  BY <5>1
      <4>5. ASSUME NEW i \in 1 .. L, st.out[i].t = list[k].t, i <= from
            PROVE  \E j \in DOMAIN r.out : r.out[j].t = list[k].t
        <5>1. i \in DOMAIN r.out
          BY <2>0, <4>5
        <5>2. r.out[i].t = st.out[i].t
          BY <2>0, <2>1, <4>5, <5>1
        <5> QED  BY <4>5, <5>1, <5>2
      <4>6. ASSUME NEW i \in 1 .. L, st.out[i].t = list[k].t, i > from, st.bad = 0
            PROVE  \A j \in DOMAIN r.out : r.out[j].t < list[k].t => r.out[j].start
        <5>1. from = 1
          BY <1>11, <4>6
        <5> QED  BY <2>0, <2>1, <4>2, <5>1
      <4>7. ASSUME NEW i \in 1 .. L, st.out[i].t = list[k].t, i > from, st.bad # 0
            PROVE  StartsBefore(list, k)
        <5>1. from = st.bad /\ st.out[from].t < list[k].t
          BY <1>8, <1>11, <2>0, <4>7
        <5>2. /\ IsMarker(st.out[from]) /\ st.out[from].row.original = StartBad
              /\ \A l \in 1 .. n - 1 : list[l].t >= st.out[from].t /\ IsMarker(list[l]) =>
                    list[l].row.original = StartBad
          BY <4>7, <5>1 DEF DiscardedSoFar
        <5>3. PICK l \in 1 .. n - 1 : st.out[from].t = list[l].t /\ st.out[from].row = list[l].row
          BY <1>2, <2>0 DEF DiscardedSoFar
        <5>4. l < k /\ IsMarker(list[l])
          BY <1>1, <4>1, <5>1, <5>2, <5>3 DEF IsMarker
        <5>5. ASSUME NEW m \in l .. k - 1, IsMarker(list[m])  PROVE list[m].row.original = StartBad
          <6>1. m \in 1 .. n - 1 /\ m \in 1 .. Len(list) /\ l \in 1 .. Len(list) /\ (m = l \/ l < m)
            BY <5>3, <4>1, <1>1
          <6>2. list[m].t >= list[l].t
            BY <6>1, <1>1
          <6> QED  BY <5>2, <5>3, <5>5, <6>1, <6>2
        <5> QED
          BY <4>1, <5>3, <5>4, <5>5, <1>1, LastMarkerStarts
      <4> QED  BY <4>3, <4>4, <4>5, <4>6, <4>7, <2>0, <1>2 DEF OffAt
    <3> QED  BY <3>1, <3>2
  <2> QED  BY <1>11, <2>2, <2>3, <2>4 DEF DiscardedSoFar, Rising
<1>12. CASE RowsCutOff(st, u, r)
  <2>1. DiscardedSoFar(list, n, r)
    BY <1>10, <1>11, <1>12 DEF RowsCutOff
  <2> QED  BY <2>1 DEF r, u
<1> QED
  BY <1>5, <1>9, <1>12

\* What discardNonOperationalTime leaves: rows as they were read, in the order of
\* time.  A row that it erased was in a time that a marker before it begins or a
\* marker after it ends, or behind a mark that begins such a time.
LEMMA DiscardMarkedList ==
  ASSUME NEW list \in Seq(Updates), \A i \in DOMAIN list : Fresh(list[i]), Rising(list),
         NEW out, out = DiscardMarked(list)
  PROVE  /\ out \in Seq(Updates) /\ Rising(out)
         /\ \A i \in DOMAIN out :
                Fresh(out[i]) /\ \E k \in DOMAIN list : out[i].t = list[k].t /\ out[i].row = list[k].row
         /\ \A k \in DOMAIN list :
                \/ \E i \in DOMAIN out : out[i].t = list[k].t
                \/ OffAt(list, k, Len(list))
                \/ \A i \in DOMAIN out : out[i].t < list[k].t => out[i].start
<1> DEFINE N == Len(list)
           none == [out |-> <<>>, bad |-> 0]
           IsUpTo(f) == f = [n \in 0 .. N |-> IF n = 0 THEN none ELSE DiscardStep(f[n - 1], list[n])]
           upTo == CHOOSE f : IsUpTo(f)
           step == [p \in Discarding \X (1 .. N) |-> DiscardStep(p[1], list[p[2]])]
           st == upTo[N]
<1>1. N \in Nat /\ DOMAIN list = 1 .. N /\ \A n \in 1 .. N : list[n] \in Updates
  BY LenProperties, ElementOfSeq
<1>2. out = IF st.bad = 0 THEN st.out
            ELSE SubSeq(st.out, 1, st.bad - 1) \o <<[st.out[st.bad] EXCEPT !.start = TRUE]>>
  BY DEF DiscardMarked
<1> HIDE DEF N, upTo
<1>3. step \in [Discarding \X (1 .. N) -> Discarding] /\ none \in Discarding
  <2>1. none \in Discarding
    BY DEF Discarding
  <2>2. ASSUME NEW x \in Discarding, NEW n \in 1 .. N  PROVE DiscardStep(x, list[n]) \in Discarding
    BY <1>1, DiscardStepResult
  <2> QED  BY <2>1, <2>2
<1>4. PICK f \in [0 .. N -> Discarding] : RecursiveOver(f, N, none, step)
  <2> HIDE DEF step, none
  <2> QED  BY <1>1, <1>3, Recursion
<1>5. IsUpTo(f)
  <2> HIDE DEF none
  <2>1. f[0] = none /\ \A n \in 1 .. N : f[n] = step[<<f[n - 1], n>>]
    BY <1>4 DEF RecursiveOver
  <2>2. \A n \in 1 .. N : f[n - 1] \in Discarding
    BY <1>1
  <2>3. \A n \in 1 .. N : f[n] = DiscardStep(f[n - 1], list[n])
    BY <1>1, <2>1, <2>2
  <2> QED  BY <1>1, <2>1, <2>3
<1>6. IsUpTo(upTo)
  <2> HIDE DEF IsUpTo
  <2> QED  BY <1>5 DEF upTo
<1>7. upTo[0] = none /\ \A n \in 1 .. N : upTo[n] = DiscardStep(upTo[n - 1], list[n])
  <2> HIDE DEF none
  <2> QED  BY <1>1, <1>6
<1> DEFINE T == {n \in 0 .. N : upTo[n] \in Discarding /\ DiscardedSoFar(list, n, upTo[n])}
<1>8. 0 \in T
  BY <1>1, <1>3, <1>7 DEF DiscardedSoFar, Rising
<1>9. ASSUME NEW n \in 1 .. N, n - 1 \in T  PROVE n \in T
  <2>1. upTo[n - 1] \in Discarding /\ DiscardedSoFar(list, n - 1, upTo[n - 1]) /\ n \in 1 .. Len(list) /\ n \in 0 .. N
    BY <1>1, <1>9 DEF N
  <2>2. DiscardedSoFar(list, n, upTo[n])
    BY <1>7, <2>1, DiscardStepKeeps
  <2>3. upTo[n] \in Discarding
    BY <1>1, <1>7, <2>1, DiscardStepResult
  <2> QED  BY <2>1, <2>2, <2>3
<1>10. st \in Discarding /\ DiscardedSoFar(list, N, st)
  <2> HIDE DEF T
  <2>1. 0 .. N \subseteq T
    BY <1>1, <1>8, <1>9, IntervalInduction
  <2> QED  BY <2>1, <1>1 DEF T
<1>11. CASE st.bad = 0
  <2> HIDE DEF st
  <2>1. out = st.out /\ st.out \in Seq(Updates) /\ 1 .. N = DOMAIN list
    BY <1>1, <1>2, <1>10, <1>11 DEF Discarding
  <2>2. DOMAIN list = 1 .. N /\ N = Len(list)
    BY <1>1 DEF N
  <2>3. DiscardedSoFar(list, N, st)
    BY <1>10
  <2> HIDE DEF st, N
  <2>4. /\ \A i \in DOMAIN out :
                Fresh(out[i]) /\ \E k \in DOMAIN list : out[i].t = list[k].t /\ out[i].row = list[k].row
        /\ Rising(out)
    BY <2>1, <2>2, <2>3 DEF DiscardedSoFar
  <2>5. \A k \in DOMAIN list :
                \/ \E i \in DOMAIN out : out[i].t = list[k].t
                \/ OffAt(list, k, N)
                \/ \A i \in DOMAIN out : out[i].t < list[k].t => out[i].start
    BY <2>1, <2>2, <2>3 DEF DiscardedSoFar
  <2> QED  BY <2>1, <2>2, <2>4, <2>5
<1>12. CASE st.bad # 0
  <2> DEFINE L == Len(st.out)
             b == st.bad
             x == [st.out[b] EXCEPT !.start = TRUE]
  <2> HIDE DEF st
  <2>1. st.out \in Seq(Updates) /\ L \in Nat /\ b \in 1 .. L /\ st.out[b] \in Updates /\ DOMAIN st.out = 1 .. L
    <3>1. st.out \in Seq(Updates) /\ L \in Nat /\ b \in 1 .. L /\ DOMAIN st.out = 1 .. L
      BY <1>10, <1>12, LenProperties DEF Discarding
    <3> QED  BY <3>1, ElementOfSeq
  <2>2. x \in Updates /\ x.t = st.out[b].t /\ x.row = st.out[b].row /\ (Fresh(st.out[b]) => Fresh(x)) /\ x.start
    <3> DEFINE y == st.out[b]
    <3> HIDE DEF y
    <3>1. y \in Updates /\ x = [y EXCEPT !.start = TRUE]
      BY <2>1 DEF y
    <3> HIDE DEF x
    <3>2. x \in Updates /\ x.start
      BY <3>1 DEF Updates
    <3>3. x.t = y.t /\ x.row = y.row /\ (Fresh(y) => Fresh(x))
      BY <3>1, MarkedFields
    <3> QED  BY <3>2, <3>3 DEF y
  <2>3. out = SubSeq(st.out, 1, b - 1) \o <<x>>
    BY <1>2, <1>12
  <2> HIDE DEF b, x
  <2>4. /\ out \in Seq(Updates) /\ Len(out) = b /\ \A i \in 1 .. b - 1 : out[i] = st.out[i]
        /\ out[b] = x
    BY <2>1, <2>2, <2>3, CutAndMarkOne
  <2>5. DOMAIN out = 1 .. b /\ b \in Nat /\ 1 .. b \subseteq 1 .. L
    BY <2>1, <2>4, LenProperties
  <2>6. \A i \in 1 .. b : out[i].t = st.out[i].t /\ out[i].row = st.out[i].row
    BY <2>1, <2>2, <2>4, <2>5
  <2>7. ASSUME NEW i \in DOMAIN out
        PROVE  Fresh(out[i]) /\ \E k \in DOMAIN list : out[i].t = list[k].t /\ out[i].row = list[k].row
    <3>1. Fresh(st.out[i]) /\ \E k \in 1 .. N : st.out[i].t = list[k].t /\ st.out[i].row = list[k].row
      BY <1>10, <2>1, <2>5 DEF DiscardedSoFar
    <3>2. Fresh(out[i])
      <4>1. CASE i = b
        BY <2>2, <2>4, <3>1, <4>1
      <4>2. CASE i # b
        <5>1. i \in 1 .. b - 1
          BY <2>5, <4>2
        <5> QED  BY <2>4, <3>1, <5>1
      <4> QED  BY <4>1, <4>2
    <3> QED  BY <1>1, <2>5, <2>6, <3>1, <3>2
  <2>8. Rising(out)
    BY <1>10, <2>1, <2>5, <2>6 DEF DiscardedSoFar, Rising
  <2>9. ASSUME NEW k \in DOMAIN list
        PROVE  \/ \E i \in DOMAIN out : out[i].t = list[k].t
               \/ OffAt(list, k, N)
               \/ \A i \in DOMAIN out : out[i].t < list[k].t => out[i].start
    <3>0. k \in 1 .. N /\ k \in Nat /\ list[k].t \in Nat /\ \A l \in 1 .. N : list[l].t \in Nat
      BY <1>1, Times DEF Updates
    <3>1. \/ \E i \in 1 .. L : st.out[i].t = list[k].t
          \/ OffAt(list, k, N)
          \/ \A i \in 1 .. L : st.out[i].t < list[k].t => st.out[i].start
      BY <1>10, <2>1, <3>0 DEF DiscardedSoFar
    <3>2. CASE \A i \in 1 .. L : st.out[i].t < list[k].t => st.out[i].start
      <4>1. ASSUME NEW i \in DOMAIN out, out[i].t < list[k].t  PROVE out[i].start
        <5>1. CASE i = b
          BY <2>2, <2>4, <5>1
        <5>2. CASE i # b
          <6>1. i \in 1 .. b - 1 /\ i \in 1 .. L
            BY <2>5, <5>2
          <6> QED  BY <2>4, <3>2, <4>1, <6>1
        <5> QED  BY <5>1, <5>2
      <4> QED  BY <4>1
    <3>3. ASSUME NEW i \in 1 .. L, st.out[i].t = list[k].t, i <= b
          PROVE  \E j \in DOMAIN out : out[j].t = list[k].t
      <4>1. i \in DOMAIN out
        BY <2>5, <3>3
      <4> QED  BY <2>5, <2>6, <3>3, <4>1
    <3>4. ASSUME NEW i \in 1 .. L, st.out[i].t = list[k].t, i > b
          PROVE  StartsBefore(list, k)
      <4>1. st.out[b].t < list[k].t
        BY <1>10, <2>1, <3>4 DEF DiscardedSoFar, Rising
      <4>2. /\ IsMarker(st.out[b]) /\ st.out[b].row.original = StartBad
            /\ \A l \in 1 .. N : list[l].t >= st.out[b].t /\ IsMarker(list[l]) =>
                    list[l].row.original = StartBad
        BY <1>10, <1>12 DEF DiscardedSoFar, b
      <4>3. PICK l \in 1 .. N : st.out[b].t = list[l].t /\ st.out[b].row = list[l].row
        BY <1>10, <2>1 DEF DiscardedSoFar
      <4>4. l < k /\ IsMarker(list[l])
        BY <1>1, <3>0, <4>1, <4>2, <4>3 DEF IsMarker, Rising
      <4>5. ASSUME NEW m \in l .. k - 1, IsMarker(list[m])  PROVE list[m].row.original = StartBad
        <5>1. m \in 1 .. N /\ m \in DOMAIN list /\ (m = l \/ l < m)
          BY <3>0, <4>3, <1>1
        <5>2. list[m].t >= list[l].t
          <6>1. list[m].t \in Nat /\ list[l].t \in Nat /\ l \in DOMAIN list
            BY <1>1, <3>0, <4>3, <5>1
          <6>2. l < m => list[l].t < list[m].t
            BY <5>1, <6>1 DEF Rising
          <6> QED  BY <5>1, <6>1, <6>2
        <5> QED  BY <4>2, <4>3, <4>5, <5>1, <5>2
      <4> QED
        BY <3>0, <4>3, <4>4, <4>5, LastMarkerStarts
    <3> QED  BY <3>1, <3>2, <3>3, <3>4, <2>1, <2>5 DEF OffAt
  <2> QED  BY <2>4, <2>7, <2>8, <2>9 DEF N
<1> QED
  BY <1>11, <1>12

\* A made-up row of a silent time.
IsSilence(u) ==
    /\ u.isNew /\ u.noWrite /\ ~u.agg /\ (u.start \/ u.end)
    /\ u.row = SilenceRow /\ u.was = SilenceRow

\* The beginning of the hour of a time is at most an hour before it.
LEMMA FullHours ==
  ASSUME NEW t \in Int
  PROVE  FullHour(t) \in Int /\ FullHour(t) <= t /\ t < FullHour(t) + Hour
<1>1. Hour \in Int /\ Hour > 0
  BY Times
<1>2. (t % Hour) \in 0 .. Hour - 1
  BY <1>1, SMT
<1> QED
  BY <1>1, <1>2 DEF FullHour

\* The value for "missing" is a negative number.
LEMMA MissingValue == Missing \in Int /\ Missing < 0
BY SMT DEF Missing

\* The rows that the algorithm makes up are rows.
LEMMA MadeUpRows == SilenceRow \in Row /\ InsertedRow \in Row
<1>1. SilenceRow \in Row
  BY MissingValue DEF SilenceRow, Row
<1>2. InsertedRow \in Row
  BY MissingValue DEF InsertedRow, Row
<1> QED
  BY <1>1, <1>2

\* The update made of a row that was read.
LEMMA UpdateFields ==
  ASSUME NEW t \in Minutes, NEW r \in Row, NEW u, u = Update(t, r)
  PROVE  /\ u \in Updates /\ u.t = t /\ u.row = r /\ u.was = r
         /\ ~u.isNew /\ ~u.noWrite /\ ~u.start /\ ~u.end /\ ~u.agg
BY DEF Update, Updates

\* A mark of silence is an update that is never written.
LEMMA SilenceFields ==
  ASSUME NEW t \in Minutes, NEW u,
         u \in {[SilenceMark(t) EXCEPT !.start = TRUE], [SilenceMark(t) EXCEPT !.end = TRUE]}
  PROVE  u \in Updates /\ u.t = t /\ IsSilence(u)
<1> DEFINE a == Update(t, SilenceRow)
           b == [a EXCEPT !.isNew = TRUE, !.noWrite = TRUE]
<1>1. /\ a \in Updates /\ a.t = t /\ a.row = SilenceRow /\ a.was = SilenceRow /\ ~a.agg
  BY MadeUpRows, UpdateFields
<1>2. SilenceMark(t) = b
  BY DEF SilenceMark
<1> HIDE DEF a
<1>3. /\ b \in Updates /\ b.t = t /\ b.row = SilenceRow /\ b.was = SilenceRow /\ ~b.agg
      /\ b.isNew /\ b.noWrite
  BY <1>1 DEF Updates
<1> HIDE DEF b
<1>4. u = [b EXCEPT !.start = TRUE] \/ u = [b EXCEPT !.end = TRUE]
  BY <1>2
<1> QED
  BY <1>3, <1>4 DEF Updates, IsSilence

\* A made-up row of a silence has its other end next to it.
Paired(list, i) ==
    \/ i + 1 \in DOMAIN list /\ list[i + 1].isNew /\ list[i].t < list[i + 1].t
    \/ i - 1 \in DOMAIN list /\ list[i - 1].isNew /\ list[i - 1].t < list[i].t

\* The marks that checkNonOperationalTime puts between two rows are later than the
\* one and earlier than the other.
LEMMA SilenceMarks ==
  ASSUME NEW t1 \in Minutes, NEW t2 \in Minutes, NEW q, q = Silence(t1, t2)
  PROVE  /\ q \in Seq(Updates) /\ DOMAIN q = 1 .. Len(q) /\ Len(q) \in Nat
         /\ \A i \in DOMAIN q : IsSilence(q[i]) /\ t1 < q[i].t /\ q[i].t < t2 /\ Paired(q, i)
<1> DEFINE begin == FullHour(t1) + Hour
           end == FullHour(t2) - 1
           u == [SilenceMark(begin) EXCEPT !.start = TRUE]
           v == [SilenceMark(end) EXCEPT !.end = TRUE]
<1>1. CASE q = <<>>
  BY <1>1
<1>2. CASE q # <<>>
  <2>1. q = <<u, v>> /\ ~(begin >= end)
    BY <1>2 DEF Silence
  <2>2. begin \in Int /\ end \in Int /\ begin < end /\ t1 < begin /\ end < t2 /\ t1 < end /\ begin < t2
    <3>1. t1 \in Nat /\ t2 \in Nat /\ Hour \in Nat
      BY Times
    <3>2. FullHour(t1) \in Int /\ t1 < FullHour(t1) + Hour /\ FullHour(t2) \in Int /\ FullHour(t2) <= t2
      BY <3>1, FullHours
    <3> QED  BY <2>1, <3>1, <3>2
  <2>3. begin \in Minutes /\ end \in Minutes
    BY <2>2, Times DEF Minutes
  <2> HIDE DEF begin, end
  <2>4. u \in Updates /\ u.t = begin /\ IsSilence(u)
    BY <2>3, SilenceFields
  <2>5. v \in Updates /\ v.t = end /\ IsSilence(v)
    BY <2>3, SilenceFields
  <2> HIDE DEF u, v
  <2>6. q \in Seq(Updates) /\ Len(q) = 2 /\ DOMAIN q = 1 .. 2 /\ q[1] = u /\ q[2] = v
    BY <2>1, <2>4, <2>5
  <2>7. ASSUME NEW i \in DOMAIN q  PROVE Paired(q, i)
    <3>1. q[1].t < q[2].t /\ q[1].isNew /\ q[2].isNew
      BY <2>2, <2>4, <2>5, <2>6 DEF IsSilence
    <3>2. CASE i = 1
      <4>1. i + 1 = 2
        BY <3>2
      <4> QED  BY <2>6, <3>1, <3>2, <4>1 DEF Paired
    <3>3. CASE i = 2
      <4>1. i - 1 = 1
        BY <3>3
      <4> QED  BY <2>6, <3>1, <3>3, <4>1 DEF Paired
    <3>4. i = 1 \/ i = 2
      BY <2>6
    <3> QED  BY <3>2, <3>3, <3>4
  <2> QED  BY <2>2, <2>4, <2>5, <2>6, <2>7
<1> QED
  BY <1>1, <1>2

\* A list with the rows of another one up to a position, and marks of silent times.
Silenced(list, n, low, high, s) ==
    /\ s \in Seq(Updates)
    /\ \A i \in DOMAIN s :
            \/ IsSilence(s[i]) /\ low <= s[i].t /\ s[i].t <= high
            \/ \E k \in 1 .. n : s[i] = list[k]
    /\ \A i, j \in DOMAIN s : i < j /\ ~s[i].isNew /\ ~s[j].isNew => s[i].t < s[j].t
    /\ \A k \in 1 .. n : \E i \in DOMAIN s : s[i] = list[k]
    /\ \A i \in DOMAIN s, k \in DOMAIN list :
            IsSilence(s[i]) /\ ~Discarded(list[k].row) => s[i].t # list[k].t
    /\ \A i \in DOMAIN s : IsSilence(s[i]) => Paired(s, i)

\* Marks of silence that are appended leave what is known of the list as it is.
LEMMA SilencedMarks ==
  ASSUME NEW list, NEW n \in Nat, NEW low \in Int, NEW high \in Int, NEW s, Silenced(list, n, low, high, s),
         NEW q \in Seq(Updates), \A i \in DOMAIN q : IsSilence(q[i]) /\ low <= q[i].t /\ q[i].t <= high,
         \A i \in DOMAIN q, k \in DOMAIN list : ~Discarded(list[k].row) => q[i].t # list[k].t,
         \A i \in DOMAIN q : Paired(q, i)
  PROVE  Silenced(list, n, low, high, s \o q)
<1> DEFINE r == s \o q
<1>1. /\ s \in Seq(Updates) /\ Len(s) \in Nat /\ DOMAIN s = 1 .. Len(s)
      /\ Len(q) \in Nat /\ DOMAIN q = 1 .. Len(q)
  BY LenProperties DEF Silenced
<1>2. /\ r \in Seq(Updates) /\ Len(r) = Len(s) + Len(q)
      /\ \A i \in 1 .. Len(s) + Len(q) : r[i] = IF i <= Len(s) THEN s[i] ELSE q[i - Len(s)]
  BY <1>1, ConcatProperties
<1> HIDE DEF r
<1>3. DOMAIN r = 1 .. Len(s) + Len(q)
  BY <1>2, LenProperties
<1>4. ASSUME NEW i \in DOMAIN r
      PROVE  \/ i \in DOMAIN s /\ r[i] = s[i]
             \/ /\ i > Len(s) /\ r[i].isNew /\ IsSilence(r[i]) /\ low <= r[i].t /\ r[i].t <= high
                /\ \A k \in DOMAIN list : ~Discarded(list[k].row) => r[i].t # list[k].t
  <2>1. CASE i <= Len(s)
    BY <1>1, <1>2, <1>3, <2>1
  <2>2. CASE i > Len(s)
    <3>1. i - Len(s) \in DOMAIN q /\ r[i] = q[i - Len(s)]
      BY <1>1, <1>2, <1>3, <2>2
    <3>2. /\ IsSilence(r[i]) /\ low <= r[i].t /\ r[i].t <= high
          /\ \A k \in DOMAIN list : ~Discarded(list[k].row) => r[i].t # list[k].t
      BY <3>1
    <3> QED  BY <2>2, <3>2 DEF IsSilence
  <2> QED  BY <1>1, <1>3, <2>1, <2>2
<1>5. \A i \in DOMAIN r :
            \/ IsSilence(r[i]) /\ low <= r[i].t /\ r[i].t <= high
            \/ \E k \in 1 .. n : r[i] = list[k]
  BY <1>4 DEF Silenced
<1>6. ASSUME NEW i \in DOMAIN r, NEW j \in DOMAIN r, i < j, ~r[i].isNew, ~r[j].isNew
      PROVE  r[i].t < r[j].t
  BY <1>4, <1>6 DEF Silenced
<1>7. ASSUME NEW k \in 1 .. n  PROVE \E i \in DOMAIN r : r[i] = list[k]
  <2>1. PICK i \in DOMAIN s : s[i] = list[k]
    BY DEF Silenced
  <2>2. i \in DOMAIN r /\ r[i] = s[i]
    BY <1>1, <1>2, <1>3
  <2> QED  BY <2>1, <2>2
<1>8. \A i \in DOMAIN r, k \in DOMAIN list :
            IsSilence(r[i]) /\ ~Discarded(list[k].row) => r[i].t # list[k].t
  BY <1>4 DEF Silenced
<1>9. ASSUME NEW i \in DOMAIN r, IsSilence(r[i])  PROVE Paired(r, i)
  <2> DEFINE A == Len(s)
             B == Len(q)
  <2>0. A \in Nat /\ B \in Nat /\ DOMAIN s = 1 .. A /\ DOMAIN q = 1 .. B /\ DOMAIN r = 1 .. A + B
        /\ \A k \in 1 .. A : r[k] = s[k]
    <3>1. A \in Nat /\ B \in Nat /\ DOMAIN s = 1 .. A /\ DOMAIN q = 1 .. B /\ DOMAIN r = 1 .. A + B
          /\ \A k \in 1 .. A + B : r[k] = IF k <= A THEN s[k] ELSE q[k - A]
      BY <1>1, <1>2, <1>3
    <3> HIDE DEF A, B
    <3>2. ASSUME NEW k \in 1 .. A  PROVE r[k] = s[k]
      <4>1. k \in 1 .. A + B /\ k <= A
        BY <3>1
      <4> QED  BY <3>1, <4>1
    <3> QED  BY <3>1, <3>2
  <2>3. \A k \in 1 .. B : r[A + k] = q[k]
    <3>1. A \in Nat /\ B \in Nat /\ \A k \in 1 .. A + B : r[k] = IF k <= A THEN s[k] ELSE q[k - A]
      BY <1>1, <1>2
    <3> HIDE DEF A, B
    <3>2. ASSUME NEW k \in 1 .. B  PROVE r[A + k] = q[k]
      <4>1. A + k \in 1 .. A + B /\ ~(A + k <= A) /\ (A + k) - A = k
        BY <3>1
      <4> QED  BY <3>1, <4>1
    <3> QED  BY <3>2
  <2> HIDE DEF A, B
  <2>1. CASE i \in 1 .. A
    <3>1. IsSilence(s[i])
      BY <1>9, <2>0, <2>1
    <3>2. Paired(s, i)
      BY <2>0, <2>1, <3>1 DEF Silenced
    <3>3. CASE i + 1 \in 1 .. A /\ s[i + 1].isNew /\ s[i].t < s[i + 1].t
      <4>1. i + 1 \in DOMAIN r
        BY <2>0, <3>3
      <4> QED  BY <2>0, <2>1, <3>3, <4>1 DEF Paired
    <3>4. CASE i - 1 \in 1 .. A /\ s[i - 1].isNew /\ s[i - 1].t < s[i].t
      <4>1. i - 1 \in DOMAIN r
        BY <2>0, <3>4
      <4> QED  BY <2>0, <2>1, <3>4, <4>1 DEF Paired
    <3> QED  BY <2>0, <3>2, <3>3, <3>4 DEF Paired
  <2>2. CASE i \notin 1 .. A
    <3>1. PICK k \in 1 .. B : i = A + k
      <4>1. i - A \in 1 .. B /\ i = A + (i - A)
        BY <2>0, <2>2
      <4> QED  BY <4>1
    <3>2. Paired(q, k)
      BY <2>0, <3>1
    <3>3. CASE k + 1 \in 1 .. B /\ q[k + 1].isNew /\ q[k].t < q[k + 1].t
      <4>1. i + 1 \in 1 .. A + B /\ i + 1 = A + (k + 1)
        <5>1. A \in Nat /\ B \in Nat /\ k \in 1 .. B /\ i = A + k /\ k + 1 \in 1 .. B
          BY <2>0, <3>1, <3>3
        <5> QED  BY ONLY <5>1
      <4>2. r[A + (k + 1)] = q[k + 1] /\ r[A + k] = q[k]
        <5>1. k \in 1 .. B /\ k + 1 \in 1 .. B
          BY <2>0, <3>1, <3>3
        <5> QED  BY ONLY <2>3, <5>1, Zenon
      <4> QED  BY <2>0, <3>1, <3>3, <4>1, <4>2 DEF Paired
    <3>4. CASE k - 1 \in 1 .. B /\ q[k - 1].isNew /\ q[k - 1].t < q[k].t
      <4>1. i - 1 \in 1 .. A + B /\ i - 1 = A + (k - 1)
        <5>1. A \in Nat /\ B \in Nat /\ k \in 1 .. B /\ i = A + k /\ k - 1 \in 1 .. B
          BY <2>0, <3>1, <3>4
        <5> QED  BY ONLY <5>1
      <4>2. r[A + (k - 1)] = q[k - 1] /\ r[A + k] = q[k]
        <5>1. k \in 1 .. B /\ k - 1 \in 1 .. B
          BY <2>0, <3>1, <3>4
        <5> QED  BY ONLY <2>3, <5>1, Zenon
      <4> QED  BY <2>0, <3>1, <3>4, <4>1, <4>2 DEF Paired
    <3> QED  BY <2>0, <3>2, <3>3, <3>4 DEF Paired
  <2> QED  BY <2>1, <2>2
<1> QED
  BY <1>2, <1>5, <1>6, <1>7, <1>8, <1>9 DEF Silenced, r

\* So does the next row of the list.
LEMMA SilencedRow ==
  ASSUME NEW list, NEW n \in Nat \ {0}, NEW low \in Int, NEW high \in Int, NEW s,
         Silenced(list, n - 1, low, high, s),
         list[n] \in Updates, ~list[n].isNew, \A k \in 1 .. n - 1 : list[k].t < list[n].t
  PROVE  Silenced(list, n, low, high, Append(s, list[n]))
<1> DEFINE r == Append(s, list[n])
<1>1. s \in Seq(Updates) /\ Len(s) \in Nat /\ DOMAIN s = 1 .. Len(s)
  BY LenProperties DEF Silenced
<1>2. /\ r \in Seq(Updates) /\ Len(r) = Len(s) + 1
      /\ \A i \in 1 .. Len(s) : r[i] = s[i]
      /\ r[Len(s) + 1] = list[n]
  BY <1>1, AppendProperties
<1> HIDE DEF r
<1>3. DOMAIN r = 1 .. Len(s) + 1 /\ 1 .. n - 1 \subseteq 1 .. n /\ n \in 1 .. n
  BY <1>2, LenProperties
<1>4. ASSUME NEW i \in DOMAIN r
      PROVE  \/ i \in DOMAIN s /\ r[i] = s[i]
             \/ i = Len(s) + 1 /\ r[i] = list[n]
  BY <1>1, <1>2, <1>3
<1>5. \A i \in DOMAIN r :
            \/ IsSilence(r[i]) /\ low <= r[i].t /\ r[i].t <= high
            \/ \E k \in 1 .. n : r[i] = list[k]
  BY <1>3, <1>4 DEF Silenced
<1>6. ASSUME NEW i \in DOMAIN r, NEW j \in DOMAIN r, i < j, ~r[i].isNew, ~r[j].isNew
      PROVE  r[i].t < r[j].t
  <2>1. i \in DOMAIN s /\ r[i] = s[i]
    BY <1>1, <1>3, <1>4, <1>6
  <2>2. CASE j \in DOMAIN s /\ r[j] = s[j]
    BY <1>6, <2>1, <2>2 DEF Silenced
  <2>3. CASE r[j] = list[n]
    <3>1. PICK k \in 1 .. n - 1 : s[i] = list[k]
      BY <1>6, <2>1 DEF Silenced, IsSilence
    <3> QED  BY <2>1, <2>3, <3>1
  <2> QED  BY <1>4, <2>2, <2>3
<1>7. ASSUME NEW k \in 1 .. n  PROVE \E i \in DOMAIN r : r[i] = list[k]
  <2>1. CASE k = n
    BY <1>1, <1>2, <1>3, <2>1
  <2>2. CASE k # n
    <3>1. k \in 1 .. n - 1
      BY <2>2
    <3>2. PICK i \in DOMAIN s : s[i] = list[k]
      BY <3>1 DEF Silenced
    <3>3. i \in DOMAIN r /\ r[i] = s[i]
      BY <1>1, <1>2, <1>3
    <3> QED  BY <3>2, <3>3
  <2> QED  BY <2>1, <2>2
<1>8. \A i \in DOMAIN r, k \in DOMAIN list :
            IsSilence(r[i]) /\ ~Discarded(list[k].row) => r[i].t # list[k].t
  BY <1>4 DEF Silenced, IsSilence
<1>9. ASSUME NEW i \in DOMAIN r, IsSilence(r[i])  PROVE Paired(r, i)
  <2>1. i \in DOMAIN s /\ r[i] = s[i]
    BY <1>2, <1>4, <1>9 DEF IsSilence
  <2>2. Paired(s, i)
    BY <1>9, <2>1 DEF Silenced
  <2>3. \A k \in DOMAIN s : k \in DOMAIN r /\ r[k] = s[k]
    BY <1>1, <1>2, <1>3
  <2> QED  BY <2>1, <2>2, <2>3 DEF Paired
<1> QED
  BY <1>2, <1>5, <1>6, <1>7, <1>8, <1>9 DEF Silenced, r

\* The window of a run lies in the table.
LEMMA RunWindow ==
  ASSUME ut0 \in Starts
  PROVE  /\ UT0extended \in Minutes /\ ut1 \in Minutes /\ ut0 \in Minutes
         /\ UT0extended \in Int /\ ut1 \in Int /\ ut0 \in Int
<1>1. UT0extended \in Minutes /\ ut1 \in Minutes
  BY WindowAssumption DEF UT0extended, ut1
<1>2. ut0 \in Minutes
  BY Times
<1>3. \A t \in Minutes : t \in Int
  BY Times
<1> QED
  BY <1>1, <1>2, <1>3

\* The second pass of discardAllNonOperationalTimes loses no row and leaves the rows
\* in order; it only adds marks of silence, at times at which no good row is.
LEMMA DiscardSilentList ==
  ASSUME ut0 \in Starts,
         NEW list \in Seq(Updates), Rising(list),
         \A i \in DOMAIN list : ~list[i].isNew /\ UT0extended <= list[i].t /\ list[i].t <= ut1
  PROVE  Silenced(list, Len(list), UT0extended, ut1, DiscardSilent(list))
<1> DEFINE N == Len(list)
           good == {i \in DOMAIN list : ~Discarded(list[i].row)}
           Since(i) == LET before == {j \in good : j < i}
                       IN  IF before = {} THEN UT0extended ELSE list[Max(before)].t
           Before(i) == IF i \in good THEN Silence(Since(i), list[i].t) ELSE <<>>
           Step1(r, n) == r \o Append(Before(n), list[n])
           IsUpTo(f) == f = [n \in 0 .. N |-> IF n = 0 THEN <<>> ELSE Step1(f[n - 1], n)]
           upTo == CHOOSE f : IsUpTo(f)
           D == Seq(Updates)
           step == [p \in D \X (1 .. N) |-> Step1(p[1], p[2])]
<1>1. N \in Nat /\ DOMAIN list = 1 .. N /\ \A n \in 1 .. N : list[n] \in Updates /\ list[n].t \in Minutes
  <2>1. N \in Nat /\ DOMAIN list = 1 .. N /\ \A n \in 1 .. N : list[n] \in Updates
    BY LenProperties, ElementOfSeq
  <2> QED  BY <2>1 DEF Updates
<1>2. UT0extended \in Minutes /\ ut1 \in Minutes /\ UT0extended \in Int /\ ut1 \in Int
  BY RunWindow
<1>3. DiscardSilent(list) = IF good = {} THEN list ELSE upTo[N] \o Silence(list[Max(good)].t, ut1)
  BY DEF DiscardSilent
<1>4. good \in SUBSET (1 .. N) /\ \A S \in SUBSET good : S # {} => Max(S) \in S
  <2>1. good \in SUBSET (1 .. N)
    BY <1>1
  <2> HIDE DEF good
  <2>2. ASSUME NEW S \in SUBSET good, S # {}  PROVE Max(S) \in S
    <3>1. S \in SUBSET (1 .. N) /\ 1 \in Int /\ N \in Int
      BY <1>1, <2>1
    <3> QED  BY <2>2, <3>1, MaxOfSome
  <2> QED  BY <2>1, <2>2
<1> HIDE DEF N, upTo, good
<1>5. ASSUME NEW n \in 1 .. N
      PROVE  /\ Before(n) \in D
             /\ \A i \in DOMAIN Before(n) :
                    /\ Paired(Before(n), i)
                    /\ IsSilence(Before(n)[i]) /\ UT0extended <= Before(n)[i].t /\ Before(n)[i].t <= ut1
                    /\ \A k \in DOMAIN list : ~Discarded(list[k].row) => Before(n)[i].t # list[k].t
  <2>1. CASE n \notin good
    BY <2>1
  <2>2. CASE n \in good
    <3> DEFINE S == {j \in good : j < n}
               q == Silence(Since(n), list[n].t)
    <3>1. /\ Since(n) \in Minutes /\ UT0extended <= Since(n)
          /\ \A k \in 1 .. n - 1 : ~Discarded(list[k].row) => list[k].t <= Since(n)
      <4>1. CASE S = {}
        <5>1. \A k \in 1 .. n - 1 : Discarded(list[k].row)
          BY <1>1, <4>1 DEF good
        <5> QED  BY <1>2, <4>1, <5>1
      <4>2. CASE S # {}
        <5>1. Max(S) \in 1 .. N
          BY <1>4, <4>2
        <5>3. S \in SUBSET good /\ \A k \in 1 .. n - 1 : ~Discarded(list[k].row) => k \in S
          BY <1>1 DEF good
        <5> HIDE DEF S
        <5>2. list[Max(S)].t \in Minutes /\ UT0extended <= list[Max(S)].t
          BY <1>1, <5>1
        <5>4. \A k \in S : k <= Max(S)
          <6>1. S \in SUBSET (1 .. N) /\ 1 \in Int /\ N \in Int
            BY <1>1, <1>4, <5>3
          <6> QED  BY <4>2, <6>1, MaxOfSome
        <5>5. ASSUME NEW k \in 1 .. n - 1, ~Discarded(list[k].row)  PROVE list[k].t <= list[Max(S)].t
          <6>1. k \in S /\ k <= Max(S) /\ k \in 1 .. N /\ k \in Int
            BY <1>1, <5>3, <5>4, <5>5
          <6>2. list[k].t \in Int /\ list[Max(S)].t \in Int
            BY <1>1, <5>1, <6>1, MinuteNumbers
          <6>3. CASE k = Max(S)
            BY <6>2, <6>3
          <6>4. CASE k < Max(S)
            BY <1>1, <5>1, <6>1, <6>2, <6>4 DEF Rising
          <6> QED  BY <5>1, <6>1, <6>3, <6>4
        <5> QED  BY <4>2, <5>2, <5>5 DEF S
      <4> QED  BY <4>1, <4>2
    <3>2. list[n].t \in Minutes /\ list[n].t <= ut1
      BY <1>1
    <3> HIDE DEF Since
    <3>3. /\ q \in D
          /\ \A i \in DOMAIN q :
                IsSilence(q[i]) /\ Since(n) < q[i].t /\ q[i].t < list[n].t /\ q[i].t \in Minutes /\ Paired(q, i)
      <4>1. /\ q \in D
            /\ \A i \in DOMAIN q : IsSilence(q[i]) /\ Since(n) < q[i].t /\ q[i].t < list[n].t /\ Paired(q, i)
        BY <3>1, <3>2, SilenceMarks
      <4> HIDE DEF q
      <4>2. \A i \in DOMAIN q : q[i] \in Updates
        BY <4>1, LenProperties, ElementOfSeq
      <4> QED  BY <4>1, <4>2 DEF Updates
    <3> HIDE DEF q
    <3>4. \A i \in DOMAIN q : IsSilence(q[i]) /\ UT0extended <= q[i].t /\ q[i].t <= ut1
      <4>1. UT0extended \in Int /\ ut1 \in Int /\ Since(n) \in Int /\ list[n].t \in Int
        BY <1>2, <3>1, <3>2, MinuteNumbers
      <4>2. ASSUME NEW i \in DOMAIN q
            PROVE  IsSilence(q[i]) /\ UT0extended <= q[i].t /\ q[i].t <= ut1
        <5>1. IsSilence(q[i]) /\ Since(n) < q[i].t /\ q[i].t < list[n].t /\ q[i].t \in Int
          BY <3>3, MinuteNumbers
        <5> QED  BY <3>1, <3>2, <4>1, <5>1
      <4> QED  BY <4>2
    <3>5. ASSUME NEW i \in DOMAIN q, NEW k \in DOMAIN list, ~Discarded(list[k].row)
          PROVE  q[i].t # list[k].t
      <4>1. q[i].t \in Int /\ list[k].t \in Int /\ Since(n) \in Int /\ list[n].t \in Int
        BY <1>1, <3>1, <3>3, MinuteNumbers
      <4>2. Since(n) < q[i].t /\ q[i].t < list[n].t
        BY <3>3
      <4>3. CASE k \in 1 .. n - 1
        <5>1. list[k].t <= Since(n)
          BY <3>1, <3>5, <4>3
        <5> QED  BY <4>1, <4>2, <5>1
      <4>4. CASE k \notin 1 .. n - 1
        <5>1. k = n \/ n < k
          BY <1>1, <4>4
        <5>2. list[n].t <= list[k].t
          BY <1>1, <4>1, <5>1 DEF Rising
        <5> QED  BY <4>1, <4>2, <5>2
      <4> QED  BY <4>3, <4>4
    <3> QED  BY <2>2, <3>3, <3>4, <3>5 DEF q
  <2> QED  BY <2>1, <2>2
<1> HIDE DEF Before
<1>6. step \in [D \X (1 .. N) -> D] /\ <<>> \in D
  <2>1. ASSUME NEW s \in D, NEW n \in 1 .. N  PROVE Step1(s, n) \in D
    BY <1>1, <1>5, AppendProperties, ConcatProperties
  <2> QED  BY <2>1
<1>7. PICK f \in [0 .. N -> D] : RecursiveOver(f, N, <<>>, step)
  <2> HIDE DEF step, D
  <2> QED  BY <1>1, <1>6, Recursion
<1>8. IsUpTo(f)
  <2> HIDE DEF Step1, D
  <2>1. f[0] = <<>> /\ \A n \in 1 .. N : f[n] = step[<<f[n - 1], n>>]
    BY <1>7 DEF RecursiveOver
  <2>2. \A n \in 1 .. N : f[n - 1] \in D
    BY <1>1
  <2>3. \A n \in 1 .. N : f[n] = Step1(f[n - 1], n)
    BY <1>1, <2>1, <2>2
  <2> QED  BY <1>1, <2>1, <2>3
<1>9. IsUpTo(upTo)
  <2> HIDE DEF IsUpTo
  <2> QED  BY <1>8 DEF upTo, Before
<1>10. upTo[0] = <<>> /\ \A n \in 1 .. N : upTo[n] = Step1(upTo[n - 1], n)
  <2> HIDE DEF Step1
  <2> QED  BY <1>1, <1>9
<1> DEFINE T == {n \in 0 .. N : Silenced(list, n, UT0extended, ut1, upTo[n])}
<1>11. 0 \in T
  <2>1. Silenced(list, 0, UT0extended, ut1, <<>>)
    BY DEF Silenced
  <2>2. upTo[0] = <<>> /\ 0 \in 0 .. N
    BY <1>1, <1>10
  <2> QED  BY <2>1, <2>2
<1>12. ASSUME NEW n \in 1 .. N, n - 1 \in T  PROVE n \in T
  <2> DEFINE s == upTo[n - 1]
             q == Before(n)
             a == s \o q
  <2>0. upTo[n] = s \o Append(q, list[n])
    BY <1>10
  <2>1. Silenced(list, n - 1, UT0extended, ut1, s) /\ n \in 0 .. N /\ n \in Nat \ {0} /\ n - 1 \in Nat
    BY <1>1, <1>12
  <2>2. s \in D /\ q \in D
    BY <1>5, <2>1 DEF Silenced
  <2>3. /\ \A i \in DOMAIN q : IsSilence(q[i]) /\ UT0extended <= q[i].t /\ q[i].t <= ut1
        /\ \A i \in DOMAIN q, k \in DOMAIN list : ~Discarded(list[k].row) => q[i].t # list[k].t
        /\ \A i \in DOMAIN q : Paired(q, i)
    BY <1>5
  <2>4. list[n] \in Updates /\ ~list[n].isNew /\ \A k \in 1 .. n - 1 : list[k].t < list[n].t
    <3>1. n \in DOMAIN list /\ \A k \in 1 .. n - 1 : k \in DOMAIN list /\ k < n
      BY <1>1, <2>1
    <3> QED  BY <1>1, <3>1 DEF Rising
  <2> HIDE DEF s, q, T
  <2>5. Silenced(list, n - 1, UT0extended, ut1, a)
    BY <1>2, <2>1, <2>2, <2>3, SilencedMarks
  <2>6. upTo[n] = Append(a, list[n])
    BY <2>0, <2>2, <2>4
  <2> HIDE DEF a
  <2>7. Silenced(list, n, UT0extended, ut1, Append(a, list[n]))
    BY <1>2, <2>1, <2>4, <2>5, SilencedRow
  <2> QED  BY <2>1, <2>6, <2>7 DEF T
<1>13. Silenced(list, N, UT0extended, ut1, upTo[N])
  <2> HIDE DEF T
  <2>1. 0 .. N \subseteq T
    BY <1>1, <1>11, <1>12, IntervalInduction
  <2> QED  BY <2>1, <1>1 DEF T
<1>14. CASE good = {}
  <2>1. Silenced(list, N, UT0extended, ut1, list)
    BY <1>1 DEF Silenced, Rising, IsSilence
  <2> QED  BY <1>3, <1>14, <2>1 DEF N
<1>15. CASE good # {}
  <2> DEFINE last == list[Max(good)].t
             q == Silence(last, ut1)
  <2>1. last \in Minutes /\ UT0extended <= last /\ last \in Int
    <3>1. Max(good) \in 1 .. N
      BY <1>4, <1>15
    <3>2. last \in Minutes /\ UT0extended <= last
      BY <1>1, <3>1
    <3>3. \A t \in Minutes : t \in Int
      BY Times
    <3> HIDE DEF last
    <3> QED  BY <3>2, <3>3
  <2> HIDE DEF last
  <2>2. /\ q \in D
        /\ \A i \in DOMAIN q : IsSilence(q[i]) /\ last < q[i].t /\ q[i].t < ut1 /\ q[i].t \in Minutes /\ Paired(q, i)
    <3>1. q \in D /\ \A i \in DOMAIN q : IsSilence(q[i]) /\ last < q[i].t /\ q[i].t < ut1 /\ Paired(q, i)
      BY <1>2, <2>1, SilenceMarks
    <3> HIDE DEF q
    <3>2. \A i \in DOMAIN q : q[i] \in Updates
      BY <3>1, LenProperties, ElementOfSeq
    <3> QED  BY <3>1, <3>2 DEF Updates
  <2> HIDE DEF q
  <2>3. \A i \in DOMAIN q : IsSilence(q[i]) /\ UT0extended <= q[i].t /\ q[i].t <= ut1
    <3>1. ASSUME NEW i \in DOMAIN q
          PROVE  IsSilence(q[i]) /\ UT0extended <= q[i].t /\ q[i].t <= ut1
      <4>1. IsSilence(q[i]) /\ last < q[i].t /\ q[i].t < ut1 /\ q[i].t \in Int
        BY <2>2, MinuteNumbers
      <4> QED  BY <1>2, <2>1, <4>1
    <3> QED  BY <3>1
  <2>5. ASSUME NEW i \in DOMAIN q, NEW k \in DOMAIN list, ~Discarded(list[k].row)
        PROVE  q[i].t # list[k].t
    <3>1. k \in good /\ k \in 1 .. N
      BY <1>1, <2>5 DEF good
    <3>2. k <= Max(good) /\ Max(good) \in 1 .. N
      <4>1. good \in SUBSET (1 .. N) /\ 1 \in Int /\ N \in Int
        BY <1>1, <1>4
      <4> QED  BY <1>15, <3>1, <4>1, MaxOfSome
    <3>3. list[k].t <= last /\ list[k].t \in Int
      <4>1. list[k].t \in Int /\ list[Max(good)].t \in Int
        BY <1>1, <3>1, <3>2, MinuteNumbers
      <4>2. CASE k = Max(good)
        BY <4>1, <4>2 DEF last
      <4>3. CASE k < Max(good)
        BY <1>1, <3>1, <3>2, <4>1, <4>3 DEF Rising, last
      <4> QED  BY <1>1, <3>1, <3>2, <4>1, <4>2, <4>3
    <3>4. last < q[i].t /\ q[i].t \in Int
      BY <2>2, MinuteNumbers
    <3> QED  BY <2>1, <3>3, <3>4
  <2>4. Silenced(list, N, UT0extended, ut1, upTo[N] \o q)
    BY <1>1, <1>2, <1>13, <2>2, <2>3, <2>5, SilencedMarks
  <2> QED  BY <1>3, <1>15, <2>4 DEF N, q, last
<1> QED
  BY <1>14, <1>15

-----------------------------------------------------------------------------
\* What flag changes leave alone.
Flagged(r, f) ==
    /\ f \in Row /\ f.original = r.original /\ f.corrected = r.corrected /\ f.fhqc = r.fhqc
    /\ (~Hqc04(r) => f = r) /\ (Discarded(r) => Discarded(f))

\* The flag changes leave values and fhqc alone, do nothing to a row that an operator
\* has dealt with, and do not take back that a row is discarded.
LEMMA FlagChanges ==
  ASSUME NEW r \in Row, NEW fw \in Nat
  PROVE  Flagged(r, FlagShower(r)) /\ Flagged(r, FlagNeighbours(r, fw))
         /\ FlagNeighbours(r, fw).fs = r.fs /\ (Discarded(FlagNeighbours(r, fw)) => Discarded(r))
<1>1. Flagged(r, FlagShower(r))
  <2>1. CASE Hqc04(r)
    BY <2>1 DEF Flagged, FlagShower, Row, Discarded, Hqc04
  <2>2. CASE ~Hqc04(r)
    BY <2>2 DEF Flagged, FlagShower
  <2> QED  BY <2>1, <2>2
<1>2. Flagged(r, FlagNeighbours(r, fw)) /\ FlagNeighbours(r, fw).fs = r.fs
      /\ (Discarded(FlagNeighbours(r, fw)) => Discarded(r))
  <2>1. CASE Hqc04(r)
    BY <2>1 DEF Flagged, FlagNeighbours, Row, Discarded, Hqc04
  <2>2. CASE ~Hqc04(r)
    BY <2>2 DEF Flagged, FlagNeighbours
  <2> QED  BY <2>1, <2>2
<1> QED
  BY <1>1, <1>2

\* An update as the run may have left it: what the operator did is kept, and made-up
\* rows are bad data without rain.
Kept(u) ==
    /\ u.row.original = u.was.original /\ u.row.corrected = u.was.corrected
    /\ u.row.fhqc = u.was.fhqc /\ (~Hqc04(u.was) => u.row = u.was)
    /\ u.isNew => ~Rainy(u) /\ IsBadData(u)
    /\ ~u.isNew => ~u.noWrite

\* v is u with other flags, or with the mark of a sliding sum.
Touched(u, v) ==
    /\ v \in Updates /\ Kept(v) /\ v.t = u.t /\ v.was = u.was /\ v.isNew = u.isNew /\ v.noWrite = u.noWrite
    /\ v.start = u.start /\ v.end = u.end
    /\ v.row.original = u.row.original /\ v.row.corrected = u.row.corrected
    /\ IsBadData(u) => IsBadData(v)

\* An update is like itself.
LEMMA TouchedSame ==
  ASSUME NEW u \in Updates, Kept(u)  PROVE Touched(u, u)
BY DEF Touched

\* An update whose row got other flags is like it.
LEMMA TouchedRow ==
  ASSUME NEW u \in Updates, Kept(u), NEW f, Flagged(u.row, f), NEW v, v = [u EXCEPT !.row = f]
  PROVE  Touched(u, v) /\ v.row = f /\ v.agg = u.agg
<1>1. f \in Row
  BY DEF Flagged
<1>2. /\ v \in Updates /\ v.t = u.t /\ v.was = u.was /\ v.isNew = u.isNew /\ v.noWrite = u.noWrite
      /\ v.start = u.start /\ v.end = u.end /\ v.agg = u.agg /\ v.row = f
  BY <1>1 DEF Updates
<1>3. Kept(v)
  <2>1. /\ f.original = u.row.original /\ f.corrected = u.row.corrected /\ f.fhqc = u.row.fhqc
        /\ (~Hqc04(u.row) => f = u.row) /\ (Discarded(u.row) => Discarded(f))
    BY DEF Flagged
  <2>2. Hqc04(u.row) <=> Hqc04(u.was)
    BY DEF Kept, Hqc04
  <2> QED  BY <1>2, <2>1, <2>2 DEF Kept, IsBadData, Rainy
<1>4. IsBadData(u) => IsBadData(v)
  BY <1>2 DEF Flagged, IsBadData
<1> QED
  BY <1>2, <1>3, <1>4 DEF Touched, Flagged

\* The update made for a minute of an interruption is one that inserts a bad row.
LEMMA InsertedFields ==
  ASSUME NEW t \in Minutes, NEW u, u = [Insert(t) EXCEPT !.row = FlagShower(@)]
  PROVE  u \in Updates /\ u.t = t /\ u.isNew /\ ~u.noWrite /\ ~u.agg /\ Kept(u)
<1> DEFINE a == Update(t, InsertedRow)
           b == [a EXCEPT !.isNew = TRUE]
<1>1. /\ a \in Updates /\ a.t = t /\ a.row = InsertedRow /\ a.was = InsertedRow /\ ~a.agg /\ ~a.noWrite
  BY MadeUpRows, UpdateFields
<1>2. Insert(t) = b
  BY DEF Insert
<1> HIDE DEF a
<1>3. /\ b \in Updates /\ b.t = t /\ b.row = InsertedRow /\ b.was = InsertedRow /\ ~b.agg
      /\ b.isNew /\ ~b.noWrite
  BY <1>1 DEF Updates
<1>4. b.row \in Row /\ b.row.original < 0 /\ b.row.fs = 8 /\ b.row.fhqc = 0 /\ b.row.original \in Int
  BY <1>3, MadeUpRows, MissingValue DEF InsertedRow
<1> HIDE DEF b
<1>5. Discarded(b.row) /\ ~(b.row.original > 0)
  BY <1>4 DEF Discarded
<1>6. Kept(b)
  BY <1>3, <1>5 DEF Kept, IsBadData, Rainy
<1>7. Flagged(b.row, FlagShower(b.row))
  <2>1. 0 \in Nat
    OBVIOUS
  <2> QED  BY <1>4, <2>1, FlagChanges
<1>8. u = [b EXCEPT !.row = FlagShower(b.row)]
  BY <1>2
<1>9. Touched(b, u) /\ u.agg = b.agg
  <2> DEFINE f == FlagShower(b.row)
  <2>1. Flagged(b.row, f) /\ u = [b EXCEPT !.row = f]
    BY <1>7, <1>8
  <2> HIDE DEF f
  <2>2. b \in Updates /\ Kept(b)
    BY <1>3, <1>6
  <2> QED  BY ONLY <2>1, <2>2, TouchedRow
<1> QED
  BY <1>3, <1>9 DEF Touched

\* A shower that begins at a position or behind it.
IsShower(s, begin) ==
    /\ s = [first |-> s.first, last |-> s.last, duration |-> 1 + data[s.last].t - data[s.first].t]
    /\ s.first \in begin .. Len(data) /\ s.last \in s.first .. Len(data)
    /\ data[s.first].t >= ut0
    /\ \A i \in s.first .. s.last : Rainy(data[i]) /\ data[i].t = data[s.first].t + i - s.first
    /\ \A i \in begin .. s.first - 1 : ~(data[i].t >= ut0 /\ Rainy(data[i]))
    /\ s.last < Len(data) => ~(Rainy(data[s.last + 1]) /\ data[s.last + 1].t = data[s.last].t + 1)

\* findShowerForward finds the first rain at or after UT0, and minutes of rain in a
\* row behind it.
LEMMA ShowerFound ==
  ASSUME data \in Seq(Updates), NEW begin \in Nat \ {0}, NEW s, s = ShowerFrom(begin), s # NoShower
  PROVE  IsShower(s, begin)
<1> DEFINE firsts == {i \in begin .. Len(data) : data[i].t >= ut0 /\ Rainy(data[i])}
           first == Min(firsts)
           lasts == {i \in first .. Len(data) :
                        \A j \in first + 1 .. i : Rainy(data[j]) /\ data[j].t = data[first].t + j - first}
           last == Max(lasts)
<1>1. firsts # {} /\ s = [first |-> first, last |-> last, duration |-> 1 + data[last].t - data[first].t]
  BY DEF ShowerFrom
<1>2. firsts \in SUBSET Int /\ \A i \in firsts : begin <= i /\ i \in Int
  OBVIOUS
<1>3. Len(data) \in Nat
  BY LenProperties
<1>4. first \in firsts /\ \A k \in firsts : first <= k
  <2> HIDE DEF firsts
  <2>1. begin \in Int /\ \A k \in firsts : begin <= k
    BY <1>2
  <2> QED  BY <1>1, <1>2, <2>1, MinOfSome
<1>5. first \in begin .. Len(data) /\ data[first].t >= ut0 /\ Rainy(data[first]) /\ first \in Int
  BY <1>4
<1>6. \A i \in begin .. first - 1 : ~(data[i].t >= ut0 /\ Rainy(data[i]))
  <2>1. ASSUME NEW i \in begin .. first - 1, data[i].t >= ut0, Rainy(data[i])  PROVE FALSE
    <3>1. i \in firsts
      BY <1>3, <1>5, <2>1
    <3>2. first <= i
      BY <1>4, <3>1
    <3> HIDE DEF first
    <3> QED  BY <1>5, <3>2
  <2> QED  BY <2>1
<1> HIDE DEF first, firsts
<1>7. lasts \in SUBSET (first .. Len(data)) /\ first \in lasts
  <2>1. first \in first .. Len(data) /\ first + 1 .. first = {}
    BY <1>3, <1>5
  <2> QED  BY <2>1
<1>8. last \in lasts /\ \A k \in lasts : k <= last
  <2> HIDE DEF lasts
  <2>1. first \in Int /\ Len(data) \in Int
    BY <1>3, <1>5
  <2> QED  BY <1>7, <2>1, MaxOfSome
<1>9. last \in first .. Len(data) /\ \A j \in first + 1 .. last : Rainy(data[j]) /\ data[j].t = data[first].t + j - first
  BY <1>8
<1>13. \A i \in first .. Len(data) :
            (\A j \in first + 1 .. i : Rainy(data[j]) /\ data[j].t = data[first].t + j - first) => i <= last
  BY <1>8
<1> HIDE DEF last, lasts
<1>10. data[first].t \in Int
  <2>1. first \in 1 .. Len(data)
    BY <1>3, <1>5
  <2>2. data[first] \in Updates
    BY <2>1, ElementOfSeq
  <2>3. data[first].t \in Minutes
    BY <2>2 DEF Updates
  <2> QED  BY <2>3, MinuteNumbers
<1>11. ASSUME NEW i \in first .. last
       PROVE  Rainy(data[i]) /\ data[i].t = data[first].t + i - first
  <2>1. i = first \/ i \in first + 1 .. last
    BY <1>5, <1>9
  <2>2. CASE i = first
    BY <1>5, <1>10, <2>2
  <2> QED  BY <1>9, <2>1, <2>2
<1>12. s.first = first /\ s.last = last
  BY <1>1
<1>14. ASSUME last < Len(data), Rainy(data[last + 1]), data[last + 1].t = data[last].t + 1
       PROVE  FALSE
  <2>1. last \in Int /\ last + 1 \in first .. Len(data) /\ ~(last + 1 <= last)
    BY <1>3, <1>5, <1>9, <1>14
  <2>2. ASSUME NEW j \in first + 1 .. last + 1
        PROVE  Rainy(data[j]) /\ data[j].t = data[first].t + j - first
    <3>1. CASE j = last + 1
      <4>1. last \in first .. last
        BY <1>5, <1>9
      <4>2. data[last].t = data[first].t + last - first
        BY <1>11, <4>1
      <4>3. data[j].t = (data[first].t + last - first) + 1
        BY <1>14, <3>1, <4>2
      <4> QED  BY <1>5, <1>10, <1>14, <2>1, <3>1, <4>3
    <3>2. CASE j # last + 1
      <4>1. j \in first + 1 .. last
        BY <1>5, <2>1, <3>2
      <4> QED  BY <1>9, <4>1
    <3> QED  BY <3>1, <3>2
  <2> QED  BY <1>13, <2>1, <2>2
<1> QED
  BY <1>1, <1>5, <1>6, <1>9, <1>11, <1>12, <1>14 DEF IsShower

\* What flagRainInterruption makes of the list: n rows are inserted before the shower,
\* for minutes of the gap that have no row, and rows in the gap are marked.
Interrupted(s, p, r, n) ==
    /\ n \in Nat /\ r \in Seq(Updates) /\ Len(r) = Len(data) + n
    /\ \A i \in 1 .. s.first - 1 :
            /\ Touched(data[i], r[i]) /\ r[i].agg = data[i].agg
            /\ r[i] # data[i] => i \in p.last .. s.first - 1 /\ data[i].t \in Gap(s, p)
    /\ \A i \in s.first .. s.first + n - 1 :
            /\ r[i].isNew /\ ~r[i].noWrite /\ ~r[i].agg /\ Kept(r[i])
            /\ r[i].t \in Gap(s, p) /\ GapRow(s, p, r[i].t) = {}
    /\ \A i \in s.first + n .. Len(data) + n : r[i] = data[i - n]

\* flagRainInterruption flags rows between the two showers, inserts rows for minutes
\* that have none right before the second one, and moves the rest of the list.
LEMMA InterruptionList ==
  ASSUME data \in Seq(Updates), \A i \in DOMAIN data : Kept(data[i]),
         NEW s, s.first \in 1 .. Len(data), NEW p, p.last \in 1 .. Len(data),
         NEW n, n = Len(MissingInGap(s, p))
  PROVE  Interrupted(s, p, FlagRainInterruption(s, p), n)
<1> DEFINE found == {Min(GapRow(s, p, t)) : t \in {t \in Gap(s, p) : GapRow(s, p, t) # {}}}
           marked == [i \in 1 .. s.first - 1 |->
                        IF i \in found THEN [data[i] EXCEPT !.row = FlagShower(@)] ELSE data[i]]
           missing == MissingInGap(s, p)
           new == [k \in DOMAIN missing |-> [Insert(missing[k]) EXCEPT !.row = FlagShower(@)]]
           tail == SubSeq(data, s.first, Len(data))
           first == s.first
           L == Len(data)
<1>1. FlagRainInterruption(s, p) = marked \o new \o tail
  BY DEF FlagRainInterruption
<1>2. L \in Nat /\ DOMAIN data = 1 .. L /\ \A i \in 1 .. L : data[i] \in Updates /\ data[i].t \in Minutes /\ Kept(data[i])
  <2>1. L \in Nat /\ DOMAIN data = 1 .. L /\ \A i \in 1 .. L : data[i] \in Updates
    BY LenProperties, ElementOfSeq
  <2> QED  BY <2>1 DEF Updates
<1>3. first \in 1 .. L /\ first \in Nat /\ first - 1 \in Nat
  BY <1>2
\* The minutes without a row.
<1>4. /\ missing \in Seq(Minutes) /\ n \in Nat /\ DOMAIN missing = 1 .. n
      /\ \A k \in 1 .. n : missing[k] \in Minutes /\ missing[k] \in Gap(s, p) /\ GapRow(s, p, missing[k]) = {}
  <2> DEFINE M == {t \in Gap(s, p) : GapRow(s, p, t) = {}}
  <2>1. Gap(s, p) \subseteq Minutes
    <3>1. data[p.last].t \in Minutes /\ data[s.first].t \in Minutes
      BY <1>2
    <3> DEFINE a == data[p.last].t
               b == data[s.first].t
    <3>2. a \in Minutes /\ b \in Minutes
      BY <3>1
    <3> HIDE DEF a, b
    <3>3. a + 1 .. b - 1 \subseteq Minutes
      BY <3>2, Times DEF Minutes
    <3> QED  BY <3>3 DEF a, b, Gap
  <2>2. M \in SUBSET Minutes /\ missing = InTime(M)
    BY <2>1 DEF MissingInGap
  <2>3. \A t \in M : t \in Minutes /\ t \in Gap(s, p) /\ GapRow(s, p, t) = {}
    BY <2>1
  <2> HIDE DEF M, missing
  <2>4. missing \in Seq(M)
    BY <2>2, InTimeList
  <2>5. n = Len(missing)
    BY DEF missing
  <2>6. n \in Nat /\ DOMAIN missing = 1 .. n /\ \A k \in 1 .. n : missing[k] \in M
    BY <2>4, <2>5, LenProperties, ElementOfSeq
  <2>7. missing \in Seq(Minutes)
    BY <2>2, <2>4
  <2> QED  BY <2>3, <2>6, <2>7
<1>5. \A i \in found : i \in p.last .. first - 1 /\ data[i].t \in Gap(s, p)
  <2>1. ASSUME NEW t \in Gap(s, p), GapRow(s, p, t) # {}
        PROVE  Min(GapRow(s, p, t)) \in p.last .. first - 1 /\ data[Min(GapRow(s, p, t))].t = t
    <3> DEFINE G == GapRow(s, p, t)
    <3>1. \A i \in G : i \in p.last .. first - 1 /\ data[i].t = t
      BY DEF GapRow
    <3>2. G \in SUBSET Int /\ p.last \in Int /\ \A i \in G : p.last <= i
      BY <1>2, <3>1
    <3>3. G # {}
      BY <2>1
    <3> HIDE DEF G
    <3>4. Min(G) \in G
      BY <3>2, <3>3, MinOfSome
    <3> QED  BY <3>1, <3>4 DEF G
  <2> QED  BY <2>1
<1> HIDE DEF found, missing
<1>6. /\ marked \in Seq(Updates) /\ Len(marked) = first - 1
      /\ \A i \in 1 .. first - 1 :
            /\ Touched(data[i], marked[i]) /\ marked[i].agg = data[i].agg
            /\ marked[i] # data[i] => i \in p.last .. first - 1 /\ data[i].t \in Gap(s, p)
  <2>1. ASSUME NEW i \in 1 .. first - 1
        PROVE  /\ Touched(data[i], marked[i]) /\ marked[i].agg = data[i].agg /\ marked[i] \in Updates
               /\ marked[i] # data[i] => i \in p.last .. first - 1 /\ data[i].t \in Gap(s, p)
    <3>1. data[i] \in Updates /\ Kept(data[i])
      BY <1>2, <1>3
    <3>2. CASE i \in found
      <4> DEFINE u == data[i]
                 f == FlagShower(u.row)
                 v == [u EXCEPT !.row = f]
      <4>1. marked[i] = v
        BY <3>2
      <4>2. u \in Updates /\ Kept(u)
        BY <3>1
      <4>3. u.row \in Row /\ 0 \in Nat
        BY <4>2 DEF Updates
      <4> HIDE DEF u
      <4>4. Flagged(u.row, f)
        BY <4>3, FlagChanges
      <4> HIDE DEF f
      <4>5. Touched(u, v) /\ v.agg = u.agg
        BY ONLY <4>2, <4>4, TouchedRow
      <4> HIDE DEF v
      <4>6. v \in Updates
        BY <4>5 DEF Touched
      <4> QED  BY <1>5, <3>2, <4>1, <4>5, <4>6 DEF u
    <3>3. CASE i \notin found
      <4>1. marked[i] = data[i]
        BY <3>3
      <4> QED  BY <3>1, <4>1, TouchedSame
    <3> QED  BY <3>2, <3>3
  <2>2. marked \in [1 .. first - 1 -> Updates]
    BY <2>1
  <2>3. marked \in Seq(Updates) /\ Len(marked) = first - 1
    <3> HIDE DEF marked
    <3> QED  BY <1>3, <2>2
  <2> QED  BY <2>1, <2>3
<1> HIDE DEF marked
<1>7. /\ new \in Seq(Updates) /\ Len(new) = n
      /\ \A k \in 1 .. n :
            /\ new[k].isNew /\ ~new[k].noWrite /\ ~new[k].agg /\ Kept(new[k])
            /\ new[k].t \in Gap(s, p) /\ GapRow(s, p, new[k].t) = {}
  <2>1. ASSUME NEW k \in 1 .. n
        PROVE  /\ new[k] \in Updates /\ new[k].t = missing[k]
               /\ new[k].isNew /\ ~new[k].noWrite /\ ~new[k].agg /\ Kept(new[k])
    <3> DEFINE t == missing[k]
    <3>1. new[k] = [Insert(t) EXCEPT !.row = FlagShower(@)]
      BY <1>4
    <3>2. t \in Minutes
      BY <1>4
    <3> HIDE DEF t, new
    <3> QED  BY <3>1, <3>2, InsertedFields DEF t
  <2>2. new \in [1 .. n -> Updates]
    BY <1>4, <2>1
  <2> HIDE DEF new
  <2>3. new \in Seq(Updates) /\ Len(new) = n
    BY <1>4, <2>2
  <2> QED  BY <1>4, <2>1, <2>3
<1> HIDE DEF new
<1>8. /\ tail \in Seq(Updates) /\ Len(tail) = L - first + 1
      /\ \A i \in 1 .. L - first + 1 : tail[i] = data[first + i - 1]
  <2>1. \A i \in first .. L : data[i] \in Updates
    BY <1>2, <1>3
  <2>2. first \in Int /\ L \in Int
    BY <1>2, <1>3
  <2>3. /\ tail \in Seq(Updates)
        /\ Len(tail) = IF first <= L THEN L - first + 1 ELSE 0
        /\ \A i \in 1 .. L - first + 1 : tail[i] = data[first + i - 1]
    BY <2>1, <2>2, SubSeqProperties
  <2> QED  BY <1>2, <1>3, <2>3
<1> HIDE DEF tail
<1> DEFINE c == marked \o new
           r == c \o tail
<1>9. /\ c \in Seq(Updates) /\ Len(c) = first - 1 + n
      /\ \A i \in 1 .. first - 1 + n : c[i] = IF i <= first - 1 THEN marked[i] ELSE new[i - (first - 1)]
  <2>1. /\ c \in Seq(Updates) /\ Len(c) = Len(marked) + Len(new)
        /\ \A i \in 1 .. Len(marked) + Len(new) :
                c[i] = IF i <= Len(marked) THEN marked[i] ELSE new[i - Len(marked)]
    <3>1. marked \in Seq(Updates) /\ new \in Seq(Updates)
      BY <1>6, <1>7
    <3> QED  BY ONLY <3>1, ConcatProperties
  <2>2. Len(marked) = first - 1 /\ Len(new) = n
    BY <1>6, <1>7
  <2> QED  BY <2>1, <2>2
<1> HIDE DEF c
<1>10. /\ r \in Seq(Updates) /\ Len(r) = L + n
       /\ \A i \in 1 .. L + n : r[i] = IF i <= first - 1 + n THEN c[i] ELSE tail[i - (first - 1 + n)]
  <2>1. /\ r \in Seq(Updates) /\ Len(r) = Len(c) + Len(tail)
        /\ \A i \in 1 .. Len(c) + Len(tail) : r[i] = IF i <= Len(c) THEN c[i] ELSE tail[i - Len(c)]
    BY <1>8, <1>9, ConcatProperties
  <2>2. Len(c) + Len(tail) = L + n
    <3>1. Len(c) = first - 1 + n /\ Len(tail) = L - first + 1 /\ first \in Nat /\ L \in Nat /\ n \in Nat
      BY <1>2, <1>3, <1>4, <1>8, <1>9
    <3> QED  BY ONLY <3>1
  <2> QED  BY <1>9, <2>1, <2>2
<1>11. FlagRainInterruption(s, p) = r
  BY <1>1 DEF c
<1> HIDE DEF r
<1> HIDE DEF first, L
<1>0. first \in Nat /\ L \in Nat /\ n \in Nat /\ 1 <= first /\ first <= L
  BY <1>2, <1>3, <1>4
<1>12. ASSUME NEW i \in 1 .. first - 1  PROVE r[i] = marked[i]
  <2>1. i \in 1 .. L + n /\ i <= first - 1 + n /\ i \in 1 .. first - 1 + n /\ i <= first - 1
    BY ONLY <1>0, i \in 1 .. first - 1
  <2> QED  BY <1>9, <1>10, <2>1
<1>13. ASSUME NEW i \in first .. first + n - 1
       PROVE  \E k \in 1 .. n : r[i] = new[k]
  <2>1. i \in 1 .. L + n /\ i <= first - 1 + n /\ i \in 1 .. first - 1 + n /\ ~(i <= first - 1)
    BY <1>2, <1>3, <1>4
  <2>2. r[i] = new[i - (first - 1)]
    BY <1>9, <1>10, <2>1
  <2>3. i - (first - 1) \in 1 .. n
    BY <1>3, <1>4
  <2> QED  BY <2>2, <2>3
<1>14. ASSUME NEW i \in first + n .. L + n  PROVE r[i] = data[i - n]
  <2>1. i \in 1 .. L + n /\ ~(i <= first - 1 + n)
    BY <1>0
  <2>2. r[i] = tail[i - (first - 1 + n)]
    BY <1>10, <2>1
  <2>3. i - (first - 1 + n) \in 1 .. L - first + 1 /\ first + (i - (first - 1 + n)) - 1 = i - n
    BY <1>0
  <2> QED  BY <1>8, <2>2, <2>3
<1> QED
  BY <1>4, <1>6, <1>7, <1>10, <1>11, <1>12, <1>13, <1>14 DEF Interrupted, first, L

-----------------------------------------------------------------------------
\* The list while the run goes on: rows of the table in the order of time, and made-up ones.
Listed ==
    /\ data \in Seq(Updates)
    /\ \A i \in DOMAIN data :
            /\ Kept(data[i]) /\ UT0extended <= data[i].t /\ data[i].t <= ut1
            /\ ~data[i].isNew => data[i].t \in DOMAIN table
    /\ \A i, j \in DOMAIN data : i < j /\ ~data[i].isNew /\ ~data[j].isNew => data[i].t < data[j].t

\* Where the loops are, and what the list is like before they begin.
Loops ==
    /\ pc = "idle" => data = <<>>
    /\ pc \in {"idle", "discard"} => previous = NoShower
    /\ pc \in {"idle", "discard", "showers"} => alarm = 1
    /\ pc # "days" => mark = 1
    /\ pc = "discard" => \A i \in DOMAIN data : Fresh(data[i])
    /\ pc \in {"discard", "showers"} => \A i \in DOMAIN data : ~data[i].agg
    /\ previous # NoShower =>
            /\ previous.first \in Nat /\ previous.last \in Nat
            /\ 1 <= previous.first /\ previous.first <= previous.last
    /\ nextXX06 \in Int
    /\ pc = "days" /\ mark <= Len(data) => nextXX06 < data[mark].t

\* The inductive invariant.
Inv == TypeOK /\ Listed /\ Loops

\* The window of a run does not move while UT0 stays.
LEMMA SameWindow ==
  ASSUME ut0' = ut0  PROVE UT0extended' = UT0extended /\ ut1' = ut1
BY DEF UT0extended, ut1

\* The members of the list.
LEMMA ListFacts ==
  ASSUME data \in Seq(Updates)
  PROVE  /\ Len(data) \in Nat /\ DOMAIN data = 1 .. Len(data)
         /\ \A i \in 1 .. Len(data) :
                /\ data[i] \in Updates /\ data[i].t \in Minutes /\ data[i].t \in Int
                /\ data[i].row \in Row /\ data[i].was \in Row
<1>1. Len(data) \in Nat /\ DOMAIN data = 1 .. Len(data) /\ \A i \in 1 .. Len(data) : data[i] \in Updates
  BY LenProperties, ElementOfSeq
<1>2. \A u \in Updates : u.t \in Minutes /\ u.row \in Row /\ u.was \in Row
  BY DEF Updates
<1> QED
  BY <1>1, <1>2, MinuteNumbers

\* The end of the shower before is a position, or 0.
LEMMA PreviousLast ==
  ASSUME Inv
  PROVE  previous.last \in Nat /\ previous.last <= Len(data)
         /\ previous.last + 1 \in Nat \ {0}
<1>1. previous.last <= Len(data)
  BY DEF Inv, TypeOK
<1>2. CASE previous = NoShower
  BY <1>1, <1>2 DEF NoShower
<1>3. CASE previous # NoShower
  BY <1>1, <1>3 DEF Inv, Loops
<1> QED
  BY <1>2, <1>3

\* A list with the same rows but for flags and the marks of sums is as good.
LEMMA ListTouched ==
  ASSUME Listed, ut0' = ut0, DOMAIN table \subseteq DOMAIN table',
         data' \in Seq(Updates), Len(data') = Len(data),
         \A i \in 1 .. Len(data) : Touched(data[i], data'[i])
  PROVE  Listed'
<1>1. DOMAIN data = 1 .. Len(data) /\ DOMAIN data' = 1 .. Len(data)
  BY LenProperties DEF Listed
<1>2. UT0extended' = UT0extended /\ ut1' = ut1
  BY SameWindow
<1>3. ASSUME NEW i \in 1 .. Len(data)
      PROVE  /\ Kept(data'[i]) /\ UT0extended' <= data'[i].t /\ data'[i].t <= ut1'
             /\ ~data'[i].isNew => data'[i].t \in DOMAIN table'
  BY <1>1, <1>2 DEF Listed, Touched
<1>4. ASSUME NEW i \in 1 .. Len(data), NEW j \in 1 .. Len(data), i < j, ~data'[i].isNew, ~data'[j].isNew
      PROVE  data'[i].t < data'[j].t
  <2>1. Touched(data[i], data'[i]) /\ Touched(data[j], data'[j])
    OBVIOUS
  <2> QED  BY <1>1, <1>4, <2>1 DEF Listed, Touched
<1> QED
  BY <1>1, <1>3, <1>4 DEF Listed

\* So is the same list.
LEMMA ListUntouched ==
  ASSUME Listed, ut0' = ut0, DOMAIN table \subseteq DOMAIN table', data' = data
  PROVE  Listed'
<1>1. UT0extended' = UT0extended /\ ut1' = ut1
  BY SameWindow
<1> QED
  BY <1>1 DEF Listed

\* The invariant holds at first.
LEMMA InitInv == Init => Inv
<1> SUFFICES ASSUME Init PROVE Inv
  OBVIOUS
<1>1. table \in [DOMAIN table -> Row] /\ DOMAIN table \subseteq Minutes
  BY OutsideAssumption DEF Init
<1>2. data = <<>> /\ Len(data) = 0 /\ data \in Seq(Updates) /\ DOMAIN data = {}
  BY DEF Init
<1>3. TypeOK
  <2>1. neighbours \in [Mornings -> Reports]
    BY DEF Init, Reports
  <2>2. previous.last = 0 /\ previous = NoShower
    BY DEF Init, NoShower
  <2>3. alarm \in 1 .. Len(SlidingAlarms) + 1
    BY ParameterAssumption DEF Init
  <2>4. \A t \in DOMAIN table : table[t] \in Row
    BY <1>1
  <2>5. mark \in 1 .. Len(data) + 1 /\ previous.last <= Len(data)
    BY <1>2, <2>2 DEF Init
  <2>6. pc = "idle" /\ ut0 \in Starts /\ operational \in BOOLEAN /\ calm \in BOOLEAN
        /\ settled \in Starts \union {-1} /\ outside \in Nat
    BY DEF Init
  <2> QED  BY <1>1, <1>2, <2>1, <2>2, <2>3, <2>4, <2>5, <2>6 DEF TypeOK
<1>4. Listed
  BY <1>2 DEF Listed
<1>5. Loops
  BY <1>2 DEF Init, Loops
<1> QED
  BY <1>3, <1>4, <1>5 DEF Inv

\* Reading the rows keeps the invariant: it makes a fresh list in the order of time.
LEMMA CheckStationInv ==
  ASSUME Inv, NEW start \in Starts, CheckStation(start)
  PROVE  Inv'
<1> DEFINE S == ReadMinutes(start)
           read == InTime(S)
           n == Len(read)
           low == start - Lookback
           high == start + Span
<1>1. /\ DOMAIN table \subseteq Minutes /\ \A t \in DOMAIN table : table[t] \in Row
      /\ pc = "idle" /\ data = <<>> /\ previous = NoShower /\ alarm = 1 /\ mark = 1
      /\ neighbours \in [Mornings -> Reports] /\ alarm \in 1 .. Len(SlidingAlarms) + 1
      /\ operational \in BOOLEAN /\ outside \in Nat /\ nextXX06 \in Int
  BY DEF Inv, TypeOK, Loops, CheckStation
<1>2. low \in Int /\ high \in Int
  BY WindowAssumption, MinuteNumbers
<1>3. ut0' = start /\ UT0extended' = low /\ ut1' = high /\ table' = table /\ neighbours' = neighbours
      /\ pc' = "discard" /\ previous' = NoShower /\ alarm' = 1 /\ mark' = 1 /\ nextXX06' = nextXX06
      /\ operational' = operational /\ outside' = outside /\ calm' = TRUE
      /\ settled' \in Starts \union {-1}
  BY <1>1 DEF CheckStation, UT0extended, ut1, tableVars, loopVars
<1>4. /\ S \in SUBSET Minutes /\ S \subseteq DOMAIN table
      /\ \A t \in S : low <= t /\ t <= high
  BY <1>1, <1>2, MinuteNumbers DEF ReadMinutes
<1> HIDE DEF S, low, high
<1>5. /\ read \in Seq(S) /\ Increasing(read) /\ n \in Nat /\ DOMAIN read = 1 .. n
      /\ \A i \in 1 .. n : read[i] \in S
  <2>1. read \in Seq(S) /\ Increasing(read)
    BY <1>4, InTimeList
  <2> QED  BY <2>1, LenProperties, ElementOfSeq
<1>6. data' = [i \in 1 .. n |-> Update(read[i], table[read[i]])]
  BY <1>5 DEF CheckStation, S
<1> HIDE DEF read, n
<1>7. ASSUME NEW i \in 1 .. n
      PROVE  /\ data'[i] \in Updates /\ data'[i].t = read[i] /\ read[i] \in S
             /\ Fresh(data'[i]) /\ ~data'[i].agg /\ Kept(data'[i]) /\ ~data'[i].isNew
  <2> DEFINE t == read[i]
             r == table[t]
  <2>1. t \in Minutes /\ r \in Row /\ t \in S
    BY <1>1, <1>4, <1>5
  <2>2. data'[i] = Update(t, r)
    BY <1>6
  <2> HIDE DEF t, r
  <2>3. /\ data'[i] \in Updates /\ data'[i].t = t /\ data'[i].row = r /\ data'[i].was = r
        /\ ~data'[i].isNew /\ ~data'[i].noWrite /\ ~data'[i].agg
    BY <2>1, <2>2, UpdateFields
  <2> QED  BY <2>1, <2>3 DEF Fresh, Kept, t
<1>8. data' \in Seq(Updates) /\ Len(data') = n /\ DOMAIN data' = 1 .. n
  <2>1. data' \in [1 .. n -> Updates]
    BY <1>6, <1>7
  <2> QED  BY <1>5, <2>1
<1>9. TypeOK'
  <2>1. NoShower.last = 0
    BY DEF NoShower
  <2> QED  BY <1>1, <1>3, <1>5, <1>8, <2>1 DEF TypeOK
<1>10. Listed'
  <2>1. ASSUME NEW i \in 1 .. n
        PROVE  /\ Kept(data'[i]) /\ UT0extended' <= data'[i].t /\ data'[i].t <= ut1'
               /\ ~data'[i].isNew => data'[i].t \in DOMAIN table'
    BY <1>3, <1>4, <1>7
  <2>2. ASSUME NEW i \in 1 .. n, NEW j \in 1 .. n, i < j  PROVE data'[i].t < data'[j].t
    BY <1>5, <1>7, <2>2 DEF Increasing
  <2> QED  BY <1>8, <2>1, <2>2 DEF Listed
<1>11. Loops'
  BY <1>1, <1>3, <1>7, <1>8 DEF Loops
<1> QED
  BY <1>9, <1>10, <1>11 DEF Inv

\* What discardAllNonOperationalTimes does to the list: first rows of switched-off times
\* are erased, then marks of silence are put between the rest.
LEMMA DiscardAllStep ==
  ASSUME Inv, DiscardAllNonOperationalTimes
  PROVE  \E m \in Seq(Updates) :
            /\ Rising(m) /\ Silenced(m, Len(m), UT0extended, ut1, data')
            /\ \A i \in DOMAIN m :
                    /\ Fresh(m[i]) /\ UT0extended <= m[i].t /\ m[i].t <= ut1
                    /\ \E k \in DOMAIN data : m[i].t = data[k].t /\ m[i].row = data[k].row
            /\ \A k \in DOMAIN data :
                    \/ \E i \in DOMAIN m : m[i].t = data[k].t
                    \/ OffAt(data, k, Len(data))
                    \/ \A i \in DOMAIN m : m[i].t < data[k].t => m[i].start
<1> DEFINE m == DiscardMarked(data)
           q == DiscardSilent(m)
<1>1. pc = "discard" /\ data' = q
  BY DEF DiscardAllNonOperationalTimes
<1>2. data \in Seq(Updates) /\ ut0 \in Starts /\ \A i \in DOMAIN data : Fresh(data[i])
  BY <1>1 DEF Inv, TypeOK, Loops
<1>3. Rising(data)
  BY <1>2 DEF Inv, Listed, Rising, Fresh
<1>4. /\ m \in Seq(Updates) /\ Rising(m)
      /\ \A i \in DOMAIN m :
            Fresh(m[i]) /\ \E k \in DOMAIN data : m[i].t = data[k].t /\ m[i].row = data[k].row
      /\ \A k \in DOMAIN data :
            \/ \E i \in DOMAIN m : m[i].t = data[k].t
            \/ OffAt(data, k, Len(data))
            \/ \A i \in DOMAIN m : m[i].t < data[k].t => m[i].start
  BY <1>2, <1>3, DiscardMarkedList
<1> HIDE DEF m
<1>5. \A i \in DOMAIN m : ~m[i].isNew /\ UT0extended <= m[i].t /\ m[i].t <= ut1
  BY <1>2, <1>4 DEF Fresh, Inv, Listed
<1>6. Silenced(m, Len(m), UT0extended, ut1, q)
  BY <1>2, <1>4, <1>5, DiscardSilentList
<1> HIDE DEF q
<1> QED
  BY <1>1, <1>4, <1>5, <1>6

\* Looking for switched-off and silent times keeps the invariant.
LEMMA DiscardAllInv ==
  ASSUME Inv, DiscardAllNonOperationalTimes
  PROVE  Inv'
<1> DEFINE q == data'
<1>1. /\ pc = "discard" /\ pc' = "showers" /\ previous = NoShower /\ previous' = NoShower
      /\ alarm = 1 /\ alarm' = 1 /\ mark = 1 /\ mark' = 1
      /\ UNCHANGED <<table, neighbours, ut0, nextXX06, operational, calm, settled, outside>>
  BY DEF DiscardAllNonOperationalTimes, Inv, Loops, tableVars, loopVars, historyVars
<1>2. \A i \in DOMAIN data : Fresh(data[i])
  BY <1>1 DEF Inv, Loops
<1>4. PICK m \in Seq(Updates) :
            /\ Silenced(m, Len(m), UT0extended, ut1, q)
            /\ \A i \in DOMAIN m :
                    /\ Fresh(m[i]) /\ UT0extended <= m[i].t /\ m[i].t <= ut1
                    /\ \E k \in DOMAIN data : m[i].t = data[k].t /\ m[i].row = data[k].row
  BY DiscardAllStep
<1>5. \A i \in DOMAIN m :
            /\ Fresh(m[i]) /\ ~m[i].isNew /\ UT0extended <= m[i].t /\ m[i].t <= ut1
            /\ m[i].t \in DOMAIN table
  BY <1>2, <1>4 DEF Fresh, Inv, Listed
<1>6. Silenced(m, Len(m), UT0extended, ut1, q)
  BY <1>4
<1>7. q \in Seq(Updates) /\ Len(q) \in Nat /\ DOMAIN m = 1 .. Len(m)
  BY <1>4, <1>6, LenProperties DEF Silenced
<1>8. ASSUME NEW i \in DOMAIN q
      PROVE  /\ Kept(q[i]) /\ UT0extended <= q[i].t /\ q[i].t <= ut1 /\ ~q[i].agg
             /\ ~q[i].isNew => q[i].t \in DOMAIN table
  <2>1. CASE IsSilence(q[i]) /\ UT0extended <= q[i].t /\ q[i].t <= ut1
    <3>1. /\ q[i].row = SilenceRow /\ q[i].was = SilenceRow /\ q[i].isNew /\ ~q[i].agg
          /\ (q[i].start \/ q[i].end) /\ ~(SilenceRow.original > 0)
      BY <2>1 DEF IsSilence, SilenceRow
    <3>2. Kept(q[i])
      BY <3>1 DEF Kept, Rainy, IsBadData
    <3> QED  BY <2>1, <3>1, <3>2
  <2>2. CASE \E k \in 1 .. Len(m) : q[i] = m[k]
    <3>1. PICK k \in DOMAIN m : q[i] = m[k]
      BY <1>7, <2>2
    <3>2. Kept(q[i]) /\ ~q[i].agg
      BY <1>5, <3>1 DEF Kept, Fresh
    <3> QED  BY <1>5, <3>1, <3>2
  <2> QED  BY <1>6, <2>1, <2>2 DEF Silenced
<1>9. TypeOK'
  <2>1. NoShower.last = 0
    BY DEF NoShower
  <2> QED  BY <1>1, <1>7, <2>1 DEF Inv, TypeOK
<1>10. Listed'
  <2>1. UT0extended' = UT0extended /\ ut1' = ut1
    BY <1>1, SameWindow
  <2>2. \A i, j \in DOMAIN q : i < j /\ ~q[i].isNew /\ ~q[j].isNew => q[i].t < q[j].t
    BY <1>6 DEF Silenced
  <2> QED  BY <1>1, <1>7, <1>8, <2>1, <2>2 DEF Listed
<1>11. Loops'
  BY <1>1, <1>8 DEF Inv, Loops
<1> QED
  BY <1>9, <1>10, <1>11 DEF Inv

\* The next shower begins behind the end of the one before.
LEMMA NextShowerFacts ==
  ASSUME Inv, NEW s, s = FindNextShower, s # NoShower
  PROVE  /\ IsShower(s, previous.last + 1)
         /\ s.first \in Nat /\ s.last \in Nat /\ 1 <= s.first /\ s.first <= s.last /\ s.last <= Len(data)
         /\ previous.last < s.first
<1>1. previous.last \in Nat /\ previous.last + 1 \in Nat \ {0} /\ data \in Seq(Updates) /\ Len(data) \in Nat
  BY PreviousLast, LenProperties DEF Inv, Listed
<1>2. IsShower(s, previous.last + 1)
  BY <1>1, ShowerFound DEF FindNextShower
<1>3. s.first \in previous.last + 1 .. Len(data) /\ s.last \in s.first .. Len(data)
  BY <1>2 DEF IsShower
<1> QED
  BY <1>1, <1>2, <1>3

\* The shower before consists of rows of the list.
LEMMA PreviousRows ==
  ASSUME Inv, previous # NoShower
  PROVE  previous.first \in 1 .. Len(data) /\ previous.last \in previous.first .. Len(data)
         /\ previous.last \in 1 .. Len(data)
<1>1. previous.last <= Len(data) /\ Len(data) \in Nat
  BY LenProperties DEF Inv, TypeOK, Listed
<1> QED
  BY <1>1 DEF Inv, Loops

\* What flagging an interruption does to the list and to the shower before.
LEMMA RainInterruptionStep ==
  ASSUME Inv, RainInterruption
  PROVE  \E s, n :
            /\ s = FindNextShower /\ s # NoShower /\ CheckRainInterruption(s, previous)
            /\ n = Len(MissingInGap(s, previous)) /\ data' = FlagRainInterruption(s, previous)
            /\ previous' = [s EXCEPT !.first = @ + n, !.last = @ + n]
            /\ IsShower(s, previous.last + 1) /\ previous # NoShower
            /\ Interrupted(s, previous, data', n)
<1>1. PICK s \in {FindNextShower} :
        /\ s = FindNextShower /\ s # NoShower /\ CheckRainInterruption(s, previous)
        /\ data' = FlagRainInterruption(s, previous)
        /\ previous' = [s EXCEPT !.first = @ + Len(MissingInGap(s, previous)),
                                 !.last = @ + Len(MissingInGap(s, previous))]
  BY DEF RainInterruption, NextShower
<1> DEFINE n == Len(MissingInGap(s, previous))
<1>2. previous # NoShower
  <2>1. previous.duration >= MinRainBeforeAndAfter
    BY <1>1 DEF CheckRainInterruption
  <2>2. MinRainBeforeAndAfter \in Nat /\ MinRainBeforeAndAfter > 1
    BY ParameterAssumption
  <2> QED  BY <2>1, <2>2 DEF NoShower
<1>3. /\ IsShower(s, previous.last + 1) /\ s.first \in 1 .. Len(data) /\ previous.last \in 1 .. Len(data)
  <2>1. Len(data) \in Nat
    BY LenProperties DEF Inv, Listed
  <2> QED  BY <1>1, <1>2, <2>1, NextShowerFacts, PreviousRows
<1>4. data \in Seq(Updates) /\ \A i \in DOMAIN data : Kept(data[i])
  BY DEF Inv, Listed
<1>5. Interrupted(s, previous, FlagRainInterruption(s, previous), n)
  BY <1>3, <1>4, InterruptionList
<1> QED
  BY <1>1, <1>2, <1>3, <1>5

\* Flagging an interruption keeps the invariant, although rows are inserted in front
\* of the shower that is remembered by its position.
LEMMA RainInterruptionInv ==
  ASSUME Inv, RainInterruption
  PROVE  Inv'
<1>1. PICK s, n :
            /\ s = FindNextShower /\ s # NoShower
            /\ n = Len(MissingInGap(s, previous)) /\ data' = FlagRainInterruption(s, previous)
            /\ previous' = [s EXCEPT !.first = @ + n, !.last = @ + n]
            /\ IsShower(s, previous.last + 1) /\ previous # NoShower
            /\ Interrupted(s, previous, data', n)
  BY RainInterruptionStep
<1>2. /\ pc = "showers" /\ pc' = "showers" /\ alarm = 1 /\ mark = 1
      /\ UNCHANGED <<table, neighbours, ut0, alarm, nextXX06, mark, operational, calm, settled, outside>>
  BY DEF RainInterruption, NextShower, Inv, Loops, tableVars, historyVars
<1> DEFINE L == Len(data)
           a == s.first
           b == s.last
<1>3. /\ L \in Nat /\ DOMAIN data = 1 .. L /\ data \in Seq(Updates)
      /\ \A i \in 1 .. L : data[i].t \in Int /\ data[i] \in Updates
  BY ListFacts DEF Inv, Listed
<1>4. a \in Nat /\ b \in Nat /\ 1 <= a /\ a <= b /\ b <= L /\ n \in Nat /\ previous.last < a
      /\ previous.last \in 1 .. L
  BY <1>1, <1>3, NextShowerFacts, PreviousRows DEF Interrupted
<1>5. data' \in Seq(Updates) /\ Len(data') = L + n /\ DOMAIN data' = 1 .. L + n
  BY <1>1, LenProperties DEF Interrupted
<1> HIDE DEF a, b, L
<1>6. previous'.first = a + n /\ previous'.last = b + n /\ previous' # NoShower
  <2>1. s = [first |-> a, last |-> b, duration |-> 1 + data[b].t - data[a].t]
    BY <1>1 DEF IsShower, a, b
  <2>2. previous'.first = a + n /\ previous'.last = b + n
    BY <1>1, <2>1
  <2> QED  BY <1>4, <2>2 DEF NoShower
\* Where the rows of the new list come from.
<1>7. ASSUME NEW i \in 1 .. L + n
      PROVE  \/ i \in 1 .. a - 1 /\ i \in 1 .. L /\ Touched(data[i], data'[i]) /\ data'[i].agg = data[i].agg
             \/ i \in a .. a + n - 1 /\ data'[i].isNew /\ ~data'[i].agg /\ Kept(data'[i]) /\ data'[i].t \in Gap(s, previous)
             \/ i \in a + n .. L + n /\ i - n \in 1 .. L /\ data'[i] = data[i - n]
  <2>1. \/ i \in 1 .. a - 1 /\ i \in 1 .. L
        \/ i \in a .. a + n - 1
        \/ i \in a + n .. L + n /\ i - n \in 1 .. L
    BY <1>3, <1>4
  <2> QED  BY <1>1, <2>1 DEF Interrupted, a, L
<1>8. Gap(s, previous) \subseteq UT0extended .. ut1
  <2>1. UT0extended <= data[previous.last].t /\ data[a].t <= ut1 /\ data[previous.last].t \in Int /\ data[a].t \in Int
    BY <1>3, <1>4 DEF Inv, Listed
  <2>2. UT0extended \in Int /\ ut1 \in Int
    BY RunWindow DEF Inv, TypeOK
  <2> QED  BY <2>1, <2>2 DEF Gap, a
<1>9. ASSUME NEW i \in 1 .. L + n
      PROVE  /\ Kept(data'[i]) /\ UT0extended <= data'[i].t /\ data'[i].t <= ut1 /\ ~data'[i].agg
             /\ ~data'[i].isNew => data'[i].t \in DOMAIN table
  <2>1. \A j \in 1 .. L : /\ Kept(data[j]) /\ UT0extended <= data[j].t /\ data[j].t <= ut1 /\ ~data[j].agg
                          /\ ~data[j].isNew => data[j].t \in DOMAIN table
    BY <1>2, <1>3 DEF Inv, Listed, Loops
  <2>2. CASE i \in 1 .. L /\ Touched(data[i], data'[i]) /\ data'[i].agg = data[i].agg
    BY <2>1, <2>2 DEF Touched
  <2>3. CASE data'[i].isNew /\ ~data'[i].agg /\ Kept(data'[i]) /\ data'[i].t \in Gap(s, previous)
    BY <1>8, <2>3
  <2>4. CASE i - n \in 1 .. L /\ data'[i] = data[i - n]
    BY <2>1, <2>4
  <2> QED  BY <1>7, <2>2, <2>3, <2>4
<1>10. ASSUME NEW i \in 1 .. L + n, NEW j \in 1 .. L + n, i < j, ~data'[i].isNew, ~data'[j].isNew
       PROVE  data'[i].t < data'[j].t
  <2>0. \A k, l \in 1 .. L : k < l /\ ~data[k].isNew /\ ~data[l].isNew => data[k].t < data[l].t
    BY <1>3 DEF Inv, Listed
  <2>1. \/ i \in 1 .. a - 1 /\ i \in 1 .. L /\ data'[i].t = data[i].t /\ ~data[i].isNew
        \/ i \in a + n .. L + n /\ i - n \in 1 .. L /\ data'[i].t = data[i - n].t /\ ~data[i - n].isNew
    BY <1>7, <1>10 DEF Touched
  <2>2. \/ j \in 1 .. a - 1 /\ j \in 1 .. L /\ data'[j].t = data[j].t /\ ~data[j].isNew
        \/ j \in a + n .. L + n /\ j - n \in 1 .. L /\ data'[j].t = data[j - n].t /\ ~data[j - n].isNew
    BY <1>7, <1>10 DEF Touched
  <2>3. CASE i \in 1 .. a - 1 /\ j \in 1 .. a - 1
    BY <1>3, <1>4, <1>10, <2>0, <2>1, <2>2, <2>3
  <2>4. CASE i \in 1 .. a - 1 /\ j \in a + n .. L + n
    <3>1. i < j - n
      BY <1>3, <1>4, <2>4
    <3> QED  BY <1>3, <1>4, <2>0, <2>1, <2>2, <2>4, <3>1
  <2>5. CASE i \in a + n .. L + n /\ j \in a + n .. L + n
    <3>1. i - n < j - n /\ ~(i \in 1 .. a - 1) /\ ~(j \in 1 .. a - 1)
      BY <1>3, <1>4, <1>10, <2>5
    <3> QED  BY <2>0, <2>1, <2>2, <3>1
  <2>6. ~(i \in a + n .. L + n /\ j \in 1 .. a - 1)
    BY <1>3, <1>4, <1>10
  <2> QED  BY <2>1, <2>2, <2>3, <2>4, <2>5, <2>6
<1>11. ASSUME NEW i \in a + n .. b + n
       PROVE  Rainy(data'[i]) /\ data'[i].t = data'[a + n].t + i - (a + n)
  <2>1. i - n \in a .. b /\ i \in a + n .. L + n /\ a + n \in a + n .. L + n /\ (a + n) - n = a /\ i \in Int
    BY <1>3, <1>4
  <2>2. data'[i] = data[i - n] /\ data'[a + n] = data[(a + n) - n]
    BY <1>1, <2>1 DEF Interrupted, a, L
  <2>3. Rainy(data[i - n]) /\ data[i - n].t = data[a].t + (i - n) - a
    BY <1>1, <2>1 DEF IsShower, a, b
  <2>4. data[a].t \in Int /\ data'[a + n] = data[a]
    BY <1>3, <1>4, <2>1, <2>2
  <2> QED  BY <1>4, <2>1, <2>2, <2>3, <2>4 DEF Rainy
<1>12. TypeOK'
  <2>1. previous'.last <= Len(data') /\ 1 <= previous'.first /\ mark' \in 1 .. Len(data') + 1
    BY <1>2, <1>3, <1>4, <1>5, <1>6
  <2>2. \A i \in previous'.first .. previous'.last :
            Rainy(data'[i]) /\ data'[i].t = data'[previous'.first].t + i - previous'.first
    BY <1>6, <1>11
  <2> QED  BY <1>2, <1>5, <2>1, <2>2 DEF Inv, TypeOK, Rainy
<1>13. Listed'
  <2>1. UT0extended' = UT0extended /\ ut1' = ut1 /\ table' = table
    BY <1>2, SameWindow
  <2> QED  BY <1>5, <1>9, <1>10, <2>1 DEF Listed
<1>14. Loops'
  <2>1. previous'.first \in Nat /\ previous'.last \in Nat /\ 1 <= previous'.first /\ previous'.first <= previous'.last
    BY <1>4, <1>6
  <2> QED  BY <1>2, <1>5, <1>9, <2>1 DEF Inv, Loops
<1> QED
  BY <1>12, <1>13, <1>14 DEF Inv

\* What checkHighSingle and checkHighStart do: at most the first row of the shower
\* gets other flags.
LEMMA OtherShowerStep ==
  ASSUME Inv, OtherShower
  PROVE  \E s :
            /\ s = FindNextShower /\ s # NoShower /\ previous' = s /\ IsShower(s, previous.last + 1)
            /\ \/ data' = data
               \/ /\ CheckHighSingle(s) \/ CheckHighStart(s)
                  /\ data' = FlagFirst(s)
            /\ data' \in Seq(Updates) /\ Len(data') = Len(data)
            /\ \A i \in 1 .. Len(data) :
                    /\ Touched(data[i], data'[i]) /\ data'[i].agg = data[i].agg
                    /\ data'[i] # data[i] => i = s.first /\ (CheckHighSingle(s) \/ CheckHighStart(s))
<1>1. PICK s \in {FindNextShower} :
        /\ s = FindNextShower /\ s # NoShower /\ previous' = s
        /\ data' = IF CheckHighSingle(s) \/ CheckHighStart(s) THEN FlagFirst(s) ELSE data
  BY DEF OtherShower, NextShower
<1>2. /\ Len(data) \in Nat /\ DOMAIN data = 1 .. Len(data) /\ data \in Seq(Updates)
      /\ \A i \in 1 .. Len(data) : data[i] \in Updates /\ data[i].row \in Row /\ Kept(data[i])
  BY ListFacts DEF Inv, Listed
<1>3. IsShower(s, previous.last + 1) /\ s.first \in 1 .. Len(data)
  BY <1>1, <1>2, NextShowerFacts
<1>4. CASE data' = data
  BY <1>1, <1>2, <1>3, <1>4, TouchedSame
<1>5. CASE (CheckHighSingle(s) \/ CheckHighStart(s)) /\ data' = FlagFirst(s)
  <2> DEFINE k == s.first
             u == data[k]
             f == FlagShower(u.row)
             v == [u EXCEPT !.row = f]
  <2>1. data' = [data EXCEPT ![k] = v]
    BY <1>5 DEF FlagFirst
  <2>2. u \in Updates /\ Kept(u) /\ u.row \in Row
    BY <1>2, <1>3
  <2> HIDE DEF u
  <2>3. Flagged(u.row, f)
    <3>1. 0 \in Nat
      OBVIOUS
    <3> QED  BY <2>2, <3>1, FlagChanges
  <2> HIDE DEF f
  <2>4. Touched(u, v) /\ v.agg = u.agg
    BY ONLY <2>2, <2>3, TouchedRow
  <2> HIDE DEF v
  <2>5. v \in Updates
    BY <2>4 DEF Touched
  <2>6. data' \in Seq(Updates) /\ Len(data') = Len(data)
    BY <1>2, <1>3, <2>1, <2>5
  <2>7. ASSUME NEW i \in 1 .. Len(data)
        PROVE  /\ Touched(data[i], data'[i]) /\ data'[i].agg = data[i].agg
               /\ data'[i] # data[i] => i = k
    <3>1. CASE i = k
      <4>1. data'[i] = v /\ data[i] = u
        BY <1>2, <2>1, <3>1 DEF u
      <4> QED  BY <2>4, <3>1, <4>1
    <3>2. CASE i # k
      <4>1. data'[i] = data[i]
        BY <1>2, <2>1, <3>2
      <4> QED  BY <1>2, <4>1, TouchedSame
    <3> QED  BY <3>1, <3>2
  <2> QED  BY <1>1, <1>3, <1>5, <2>6, <2>7
<1> QED
  BY <1>1, <1>4, <1>5

\* These checks keep the invariant.
LEMMA OtherShowerInv ==
  ASSUME Inv, OtherShower
  PROVE  Inv'
<1>1. PICK s :
            /\ s = FindNextShower /\ s # NoShower /\ previous' = s /\ IsShower(s, previous.last + 1)
            /\ data' \in Seq(Updates) /\ Len(data') = Len(data)
            /\ \A i \in 1 .. Len(data) : Touched(data[i], data'[i]) /\ data'[i].agg = data[i].agg
  BY OtherShowerStep
<1>2. /\ pc = "showers" /\ pc' = "showers" /\ alarm = 1 /\ mark = 1
      /\ UNCHANGED <<table, neighbours, ut0, alarm, nextXX06, mark, operational, calm, settled, outside>>
  BY DEF OtherShower, NextShower, Inv, Loops, tableVars, historyVars
<1>3. Len(data) \in Nat /\ DOMAIN data = 1 .. Len(data) /\ DOMAIN data' = 1 .. Len(data)
  BY <1>1, LenProperties DEF Inv, Listed
<1>4. s.first \in Nat /\ s.last \in Nat /\ 1 <= s.first /\ s.first <= s.last /\ s.last <= Len(data)
  BY <1>1, NextShowerFacts
<1>5. TypeOK'
  <2>1. ASSUME NEW i \in s.first .. s.last
        PROVE  Rainy(data'[i]) /\ data'[i].t = data'[s.first].t + i - s.first
    <3>1. i \in 1 .. Len(data) /\ s.first \in 1 .. Len(data)
      BY <1>3, <1>4
    <3>2. Rainy(data[i]) /\ data[i].t = data[s.first].t + i - s.first
      BY <1>1 DEF IsShower
    <3> QED  BY <1>1, <3>1, <3>2 DEF Touched, Rainy
  <2>2. mark' \in 1 .. Len(data') + 1
    BY <1>1, <1>2, <1>3
  <2> QED  BY <1>1, <1>2, <1>4, <2>1, <2>2 DEF Inv, TypeOK, Rainy
<1>6. Listed'
  BY <1>1, <1>2, ListTouched DEF Inv
<1>7. Loops'
  BY <1>1, <1>2, <1>3, <1>4 DEF Inv, Loops
<1> QED
  BY <1>5, <1>6, <1>7 DEF Inv

\* The end of the showers keeps the invariant.
LEMMA NoMoreShowersInv ==
  ASSUME Inv, NoMoreShowers
  PROVE  Inv'
<1>1. /\ pc = "showers" /\ pc' = "sums" /\ alarm = 1 /\ mark = 1 /\ alarm' = 1 /\ mark' = 1
      /\ UNCHANGED <<table, neighbours, ut0, data, previous, nextXX06, operational, calm, settled, outside>>
  BY DEF NoMoreShowers, Inv, Loops, tableVars, loopVars, historyVars
<1>2. TypeOK'
  BY <1>1 DEF Inv, TypeOK
<1>3. Listed'
  BY <1>1, ListUntouched DEF Inv
<1>4. Loops'
  BY <1>1 DEF Inv, Loops
<1> QED
  BY <1>2, <1>3, <1>4 DEF Inv

\* A sliding sum marks rows and changes nothing else.
LEMMA SumsTouched ==
  ASSUME data \in Seq(Updates), \A i \in DOMAIN data : Kept(data[i]), NEW slal,
         NEW r, r = CheckSlidingSum(data, slal)
  PROVE  /\ r \in Seq(Updates) /\ Len(r) = Len(data)
         /\ \A i \in 1 .. Len(data) : Touched(data[i], r[i]) /\ r[i].row = data[i].row
<1>1. /\ Len(data) \in Nat /\ DOMAIN data = 1 .. Len(data)
      /\ \A i \in 1 .. Len(data) : data[i] \in Updates /\ Kept(data[i])
  BY ListFacts
<1>2. PICK flagged : r = [i \in 1 .. Len(data) |-> [data[i] EXCEPT !.agg = @ \/ i \in flagged]]
  BY <1>1, Zenon DEF CheckSlidingSum
<1>3. ASSUME NEW i \in 1 .. Len(data)
      PROVE  Touched(data[i], r[i]) /\ r[i].row = data[i].row /\ r[i] \in Updates
  <2> DEFINE u == data[i]
             v == r[i]
  <2>1. u \in Updates /\ Kept(u) /\ v = [u EXCEPT !.agg = u.agg \/ i \in flagged]
    BY <1>1, <1>2
  <2> HIDE DEF u, v
  <2>2. /\ v \in Updates /\ v.t = u.t /\ v.was = u.was /\ v.isNew = u.isNew /\ v.noWrite = u.noWrite
        /\ v.start = u.start /\ v.end = u.end /\ v.row = u.row
    BY <2>1 DEF Updates
  <2>3. Kept(v)
    BY <2>1, <2>2 DEF Kept, Rainy, IsBadData
  <2>4. IsBadData(u) <=> IsBadData(v)
    BY <2>2 DEF IsBadData
  <2> QED  BY <2>2, <2>3, <2>4 DEF Touched, u, v
<1>4. r \in [1 .. Len(data) -> Updates]
  BY <1>2, <1>3
<1>5. r \in Seq(Updates) /\ Len(r) = Len(data)
  BY <1>1, <1>4
<1> QED
  BY <1>3, <1>5

\* A sliding sum keeps the invariant.
LEMMA CheckSlidingSumsInv ==
  ASSUME Inv, CheckSlidingSums
  PROVE  Inv'
<1>1. /\ pc = "sums" /\ pc' = "sums" /\ mark = 1 /\ alarm' = alarm + 1 /\ alarm <= Len(SlidingAlarms)
      /\ data' = CheckSlidingSum(data, SlidingAlarms[alarm])
      /\ UNCHANGED <<table, neighbours, ut0, previous, nextXX06, mark, operational, calm, settled, outside>>
  BY DEF CheckSlidingSums, Inv, Loops, tableVars, historyVars
<1>2. /\ data' \in Seq(Updates) /\ Len(data') = Len(data)
      /\ \A i \in 1 .. Len(data) : Touched(data[i], data'[i])
  BY <1>1, SumsTouched DEF Inv, Listed
<1>3. TypeOK'
  <2>1. alarm' \in 1 .. Len(SlidingAlarms) + 1
    <3>1. alarm \in 1 .. Len(SlidingAlarms) + 1 /\ Len(SlidingAlarms) \in Nat
      BY ParameterAssumption, LenProperties DEF Inv, TypeOK
    <3> QED  BY <1>1, <3>1
  <2> QED  BY <1>1, <1>2, <2>1 DEF Inv, TypeOK
<1>4. Listed'
  BY <1>1, <1>2, ListTouched DEF Inv
<1>5. Loops'
  BY <1>1, <1>2 DEF Inv, Loops
<1> QED
  BY <1>3, <1>4, <1>5 DEF Inv

\* The loops of the comparison of days stop at the first row behind a time, or behind
\* the list.
LEMMA AfterFound ==
  ASSUME data \in Seq(Updates), NEW i \in 1 .. Len(data) + 1, NEW t \in Int, NEW k, k = After(i, t)
  PROVE  /\ k \in i .. Len(data) + 1 /\ (k <= Len(data) => t < data[k].t)
         /\ \A j \in i .. k - 1 : data[j].t <= t
<1> DEFINE S == {j \in i .. Len(data) : data[j].t > t} \union {Len(data) + 1}
<1>1. Len(data) \in Nat /\ \A j \in 1 .. Len(data) : data[j].t \in Int
  BY ListFacts
<1>2. S \in SUBSET Int /\ S # {} /\ i \in Int /\ \A j \in S : i <= j
  BY <1>1
<1>3. k = Min(S)
  BY DEF After
<1>4. \A j \in i .. Len(data) : j \in S \/ data[j].t <= t
  BY <1>1
<1>5. \A j \in S : j \in i .. Len(data) + 1 /\ (j <= Len(data) => t < data[j].t)
  BY <1>1
<1> HIDE DEF S
<1>6. k \in S /\ \A j \in S : k <= j
  BY ONLY <1>2, <1>3, MinOfSome
<1>7. ASSUME NEW j \in i .. k - 1  PROVE data[j].t <= t
  <2>1. k \in Int /\ k <= Len(data) + 1
    BY <1>1, <1>5, <1>6
  <2>2. j \in i .. Len(data) /\ ~(k <= j)
    BY <1>1, <2>1
  <2> QED  BY <1>4, <1>6, <2>2
<1> QED
  BY <1>5, <1>6, <1>7

\* Whether the station is switched on is known.
LEMMA OperationalType ==
  ASSUME data \in Seq(Updates), NEW before \in BOOLEAN, NEW S \in SUBSET (1 .. Len(data))
  PROVE  OperationalAfter(before, S) \in BOOLEAN
<1> DEFINE marks == {i \in S : data[i].start \/ data[i].end}
<1>1. Len(data) \in Nat /\ \A i \in 1 .. Len(data) : data[i].end \in BOOLEAN
  <2>1. Len(data) \in Nat /\ \A i \in 1 .. Len(data) : data[i] \in Updates
    BY ListFacts
  <2> QED  BY <2>1 DEF Updates
<1>2. CASE marks = {}
  BY <1>2 DEF OperationalAfter
<1>3. CASE marks # {}
  <2>1. OperationalAfter(before, S) = data[Max(marks)].end
    BY <1>3 DEF OperationalAfter
  <2>2. marks \in SUBSET (1 .. Len(data)) /\ 1 \in Int /\ Len(data) \in Int
    <3>1. \A i \in marks : i \in 1 .. Len(data)
      OBVIOUS
    <3> HIDE DEF marks
    <3>2. marks \in SUBSET (1 .. Len(data))
      BY <3>1, Zenon
    <3> QED  BY <1>1, <3>2
  <2> HIDE DEF marks
  <2>3. Max(marks) \in 1 .. Len(data)
    <3>1. Max(marks) \in marks
      BY <1>3, <2>2, MaxOfSome
    <3> QED  BY <2>2, <3>1
  <2> QED  BY <1>1, <2>1, <2>3
<1> QED
  BY <1>2, <1>3

\* The first daily measurement is at a time.
LEMMA FirstMorningNumber ==
  ASSUME ut0 \in Starts  PROVE FirstMorning \in Int
<1> DEFINE midnight == UT0extended - (UT0extended % Day)
<1>1. midnight \in Int
  <2>1. UT0extended \in Int /\ Day \in Int /\ Day > 0
    BY RunWindow, Times
  <2>2. (UT0extended % Day) \in Int
    BY <2>1, SMT
  <2> QED  BY <2>1, <2>2
<1>2. FirstMorning \in {midnight + Day + Morning, midnight + Morning}
  BY DEF FirstMorning
<1> HIDE DEF midnight
<1>3. Day \in Int /\ Morning \in Int
  BY Times
<1> QED
  BY <1>1, <1>2, <1>3

\* The positions before another one are positions of the list.
LEMMA Positions ==
  ASSUME NEW n \in Nat, NEW a \in 1 .. n + 1, NEW b \in a .. n + 1
  PROVE  a .. b - 1 \in SUBSET (1 .. n)
OBVIOUS

\* Skipping the first day keeps the invariant.
LEMMA SkipFirstDayInv ==
  ASSUME Inv, SkipFirstDay
  PROVE  Inv'
<1>1. /\ pc = "sums" /\ pc' = "days" /\ nextXX06' = FirstMorning
      /\ mark' = After(1, FirstMorning) /\ operational' = OperationalAfter(TRUE, 1 .. mark' - 1)
      /\ UNCHANGED <<table, neighbours, ut0, data, previous, alarm, calm, settled, outside>>
  BY DEF SkipFirstDay, tableVars, historyVars
<1>2. data \in Seq(Updates) /\ Len(data) \in Nat /\ ut0 \in Starts
  BY ListFacts DEF Inv, Listed, TypeOK
<1>3. FirstMorning \in Int
  BY <1>2, FirstMorningNumber
<1>4. mark' \in 1 .. Len(data) + 1 /\ (mark' <= Len(data) => FirstMorning < data[mark'].t)
  <2>1. 1 \in 1 .. Len(data) + 1
    BY <1>2
  <2> QED  BY <1>1, <1>2, <1>3, <2>1, AfterFound
<1>5. operational' \in BOOLEAN
  <2> DEFINE S == 1 .. mark' - 1
  <2>1. S \in SUBSET (1 .. Len(data))
    <3>1. 1 \in 1 .. Len(data) + 1
      BY <1>2
    <3> QED  BY <1>2, <1>4, <3>1, Positions
  <2>2. operational' = OperationalAfter(TRUE, S)
    BY <1>1
  <2> HIDE DEF S
  <2>3. S \in SUBSET (1 .. Len(data)) /\ TRUE \in BOOLEAN
    BY <2>1, Zenon
  <2>4. OperationalAfter(TRUE, S) \in BOOLEAN
    BY <1>2, <2>3, OperationalType, Zenon
  <2> QED  BY <2>2, <2>4, Zenon
<1>6. TypeOK'
  BY <1>1, <1>2, <1>4, <1>5 DEF Inv, TypeOK
<1>7. Listed'
  BY <1>1, ListUntouched DEF Inv
<1>8. Loops'
  BY <1>1, <1>3, <1>4 DEF Inv, Loops
<1> QED
  BY <1>6, <1>7, <1>8 DEF Inv

\* What each turn of the comparison does to the position it has reached.
LEMMA CheckDayFacts ==
  ASSUME Inv, CheckDay
  PROVE  /\ pc = "days" /\ pc' = "days" /\ mark \in 1 .. Len(data) /\ nextXX06' = nextXX06 + Day
         /\ UNCHANGED <<table, neighbours, ut0, previous, alarm, calm, settled, outside>>
         /\ nextXX06' \in Int /\ operational' \in BOOLEAN
         /\ mark' \in mark .. Len(data) + 1 /\ (mark' <= Len(data) => nextXX06' < data[mark'].t)
         /\ ThisDay = mark .. mark' - 1
<1>1. /\ pc = "days" /\ pc' = "days" /\ mark <= Len(data)
      /\ nextXX06' = nextXX06 + Day /\ mark' = After(mark, nextXX06')
      /\ operational' = OperationalAfter(operational, ThisDay)
      /\ UNCHANGED <<table, neighbours, ut0, previous, alarm, calm, settled, outside>>
  BY DEF CheckDay, tableVars, historyVars
<1>2. data \in Seq(Updates) /\ Len(data) \in Nat /\ mark \in 1 .. Len(data) + 1 /\ operational \in BOOLEAN
  BY ListFacts DEF Inv, Listed, TypeOK
<1>3. nextXX06' \in Int
  BY <1>1, Times DEF Inv, Loops
<1>4. mark' \in mark .. Len(data) + 1 /\ (mark' <= Len(data) => nextXX06' < data[mark'].t)
  BY <1>1, <1>2, <1>3, AfterFound
<1>5. ThisDay = mark .. mark' - 1
  BY <1>1 DEF ThisDay
<1>6. operational' \in BOOLEAN
  <2> DEFINE S == ThisDay
  <2>2. S \in SUBSET (1 .. Len(data))
    BY <1>2, <1>4, <1>5, Positions
  <2> HIDE DEF S
  <2>3. OperationalAfter(operational, S) \in BOOLEAN
    BY <1>2, <2>2, OperationalType, Zenon
  <2> QED  BY <1>1, <2>3, Zenon DEF S
<1>7. mark \in 1 .. Len(data)
  BY <1>1, <1>2
<1> QED
  BY <1>1, <1>3, <1>4, <1>5, <1>6, <1>7

\* Leaving a day alone keeps the invariant.
LEMMA LeaveDayInv ==
  ASSUME Inv, LeaveDay
  PROVE  Inv'
<1>1. data' = data /\ CheckDay
  BY DEF LeaveDay
<1>2. /\ pc = "days" /\ pc' = "days" /\ mark \in 1 .. Len(data)
      /\ UNCHANGED <<table, neighbours, ut0, previous, alarm, calm, settled, outside>>
      /\ nextXX06' \in Int /\ operational' \in BOOLEAN
      /\ mark' \in mark .. Len(data) + 1 /\ (mark' <= Len(data) => nextXX06' < data[mark'].t)
  BY <1>1, CheckDayFacts
<1>3. mark' \in 1 .. Len(data) + 1
  BY <1>2
<1>4. TypeOK'
  BY <1>1, <1>2, <1>3 DEF Inv, TypeOK
<1>5. Listed'
  BY <1>1, <1>2, ListUntouched DEF Inv
<1>6. Loops'
  BY <1>1, <1>2 DEF Inv, Loops
<1> QED
  BY <1>4, <1>5, <1>6 DEF Inv

\* A compared day changes nothing but flags in its rows; what was good stays good.
LEMMA CompareDayStep ==
  ASSUME Inv, CompareDay
  PROVE  /\ data' \in Seq(Updates) /\ Len(data') = Len(data)
         /\ \A i \in 1 .. Len(data) :
                /\ Touched(data[i], data'[i]) /\ data'[i].agg = data[i].agg /\ data'[i].row.fs = data[i].row.fs
                /\ IsBadData(data'[i]) => IsBadData(data[i])
<1>1. PICK fw \in {0, 1, 3} :
        data' = IF fw = FoundFW(ThisDay) THEN data
                ELSE [i \in DOMAIN data |->
                        IF i \in ThisDay THEN [data[i] EXCEPT !.row = FlagNeighbours(@, fw)] ELSE data[i]]
  <2> DEFINE fw == CompareWithNeighborStations(nextXX06', Rain(data, Readings(ThisDay)))
  <2>1. data' = IF fw = FoundFW(ThisDay) THEN data
                ELSE [i \in DOMAIN data |->
                        IF i \in ThisDay THEN [data[i] EXCEPT !.row = FlagNeighbours(@, fw)] ELSE data[i]]
    BY DEF CompareDay
  <2>2. fw \in {0, 1, 3}
    BY DEF CompareWithNeighborStations
  <2> HIDE DEF fw
  <2> QED  BY <2>1, <2>2
<1>2. /\ Len(data) \in Nat /\ DOMAIN data = 1 .. Len(data) /\ data \in Seq(Updates)
      /\ \A i \in 1 .. Len(data) : data[i] \in Updates /\ data[i].row \in Row /\ Kept(data[i])
  BY ListFacts DEF Inv, Listed
<1>3. ASSUME NEW i \in 1 .. Len(data)
      PROVE  /\ Touched(data[i], data'[i]) /\ data'[i].agg = data[i].agg /\ data'[i].row.fs = data[i].row.fs
             /\ IsBadData(data'[i]) => IsBadData(data[i])
             /\ data'[i] \in Updates
  <2>1. CASE data'[i] = data[i]
    BY <1>2, <2>1, TouchedSame
  <2> DEFINE u == data[i]
             f == FlagNeighbours(u.row, fw)
             v == [u EXCEPT !.row = f]
  <2>2. CASE data'[i] = v
    <3>1. u \in Updates /\ Kept(u) /\ u.row \in Row
      BY <1>2
    <3> HIDE DEF u
    <3>2. Flagged(u.row, f) /\ f.fs = u.row.fs /\ (Discarded(f) => Discarded(u.row))
      <4>1. fw \in Nat
        OBVIOUS
      <4> QED  BY ONLY <3>1, <4>1, FlagChanges
    <3> HIDE DEF f
    <3>3. Touched(u, v) /\ v.agg = u.agg /\ v.row = f
      BY ONLY <3>1, <3>2, TouchedRow
    <3> HIDE DEF v
    <3>4. v \in Updates
      BY <3>3 DEF Touched
    <3>5. IsBadData(v) => IsBadData(u)
      BY <3>2, <3>3 DEF Touched, IsBadData
    <3> QED  BY <2>2, <3>2, <3>3, <3>4, <3>5 DEF u
  <2>3. data'[i] = data[i] \/ data'[i] = v
    BY <1>1, <1>2
  <2> QED  BY <2>1, <2>2, <2>3
<1>4. data' \in Seq(Updates) /\ Len(data') = Len(data)
  <2>1. CASE data' = data
    BY <1>2, <2>1
  <2>2. CASE data' # data
    <3>1. data' \in [1 .. Len(data) -> Updates]
      <4>1. data' = [i \in 1 .. Len(data) |-> data'[i]]
        BY <1>1, <1>2, <2>2
      <4> QED  BY <1>3, <4>1
    <3> QED  BY <1>2, <3>1
  <2> QED  BY <2>1, <2>2
<1> QED
  BY <1>3, <1>4

\* Comparing a day keeps the invariant.
LEMMA CompareDayInv ==
  ASSUME Inv, CompareDay
  PROVE  Inv'
<1>1. CheckDay
  BY DEF CompareDay
<1>2. /\ pc = "days" /\ pc' = "days" /\ mark \in 1 .. Len(data)
      /\ UNCHANGED <<table, neighbours, ut0, previous, alarm, calm, settled, outside>>
      /\ nextXX06' \in Int /\ operational' \in BOOLEAN
      /\ mark' \in mark .. Len(data) + 1 /\ (mark' <= Len(data) => nextXX06' < data[mark'].t)
  BY <1>1, CheckDayFacts
<1>3. /\ data' \in Seq(Updates) /\ Len(data') = Len(data)
      /\ \A i \in 1 .. Len(data) : Touched(data[i], data'[i])
  BY CompareDayStep
<1>4. mark' \in 1 .. Len(data) + 1
  BY <1>2
<1>5. TypeOK'
  BY <1>2, <1>3, <1>4 DEF Inv, TypeOK
<1>6. Listed'
  BY <1>2, <1>3, ListTouched DEF Inv
<1>7. Loops'
  <2>1. mark' <= Len(data') => nextXX06' < data'[mark'].t
    <3>1. ASSUME mark' <= Len(data')  PROVE nextXX06' < data'[mark'].t
      <4>1. mark' \in 1 .. Len(data)
        BY <1>3, <1>4, <3>1
      <4>2. data'[mark'].t = data[mark'].t
        BY <1>3, <4>1 DEF Touched
      <4> QED  BY <1>2, <1>3, <3>1, <4>2
    <3> QED  BY <3>1
  <2> QED  BY <1>2, <2>1 DEF Inv, Loops
<1> QED
  BY <1>5, <1>6, <1>7 DEF Inv

\* The end of a run, whatever it came to, keeps the invariant.
LEMMA IdleInv ==
  ASSUME Inv, BackToIdle, ut0' = ut0,
         DOMAIN table' \subseteq Minutes, \A t \in DOMAIN table' : table'[t] \in Row,
         neighbours' = neighbours, calm' \in BOOLEAN, settled' \in Starts \union {-1}, outside' \in Nat
  PROVE  Inv'
<1>1. /\ pc' = "idle" /\ data' = <<>> /\ previous' = NoShower
      /\ alarm' = 1 /\ nextXX06' = 0 /\ mark' = 1 /\ operational' = TRUE
  BY DEF BackToIdle
<1>2. Len(data') = 0 /\ DOMAIN data' = {} /\ data' \in Seq(Updates)
  BY <1>1
<1>3. TypeOK'
  <2>1. previous'.last = 0 /\ alarm' \in 1 .. Len(SlidingAlarms) + 1
    BY <1>1, ParameterAssumption, LenProperties DEF NoShower
  <2>2. ut0 \in Starts /\ neighbours \in [Mornings -> Reports]
    BY DEF Inv, TypeOK
  <2>3. mark' \in 1 .. Len(data') + 1 /\ previous'.last <= Len(data')
    BY <1>1, <1>2, <2>1
  <2> QED  BY <1>1, <1>2, <2>1, <2>2, <2>3 DEF TypeOK
<1>4. Listed'
  BY <1>2 DEF Listed
<1>5. Loops'
  BY <1>1, <1>2 DEF Loops
<1> QED
  BY <1>3, <1>4, <1>5 DEF Inv

\* So does what comes from outside in the middle of a run.
LEMMA OutsideInv ==
  ASSUME Inv, UNCHANGED runVars,
         DOMAIN table \subseteq DOMAIN table', DOMAIN table' \subseteq Minutes,
         \A t \in DOMAIN table' : table'[t] \in Row,
         neighbours' \in [Mornings -> Reports],
         calm' \in BOOLEAN, settled' \in Starts \union {-1}, outside' \in Nat
  PROVE  Inv'
<1>1. UNCHANGED <<pc, ut0, data, previous, alarm, nextXX06, mark, operational>>
  BY DEF runVars, loopVars
<1>2. TypeOK'
  BY <1>1 DEF Inv, TypeOK
<1>3. Listed'
  BY <1>1, ListUntouched DEF Inv
<1>4. Loops'
  BY <1>1 DEF Inv, Loops
<1> QED
  BY <1>2, <1>3, <1>4 DEF Inv

\* What is in the table at a time after a run: what was there before, or the row of an
\* update of that time, with the value as it was.
LEMMA WrittenRow ==
  ASSUME Inv, ~Conflict, NEW t \in DOMAIN table \union {data[i].t : i \in NewRows}
  PROVE  \/ t \in DOMAIN table /\ Written(t) = table[t]
         \/ \E i \in Writes :
                /\ data[i].t = t
                /\ \/ data[i].isNew /\ t \notin DOMAIN table /\ Written(t) = data[i].row
                   \/ /\ ~data[i].isNew /\ t \in DOMAIN table
                      /\ Written(t) = [data[i].row EXCEPT !.original = table[t].original]
<1> DEFINE is == {i \in Writes : data[i].t = t}
           i == Max(is)
<1>1. Len(data) \in Nat /\ DOMAIN data = 1 .. Len(data)
  BY ListFacts DEF Inv, Listed
<1>2. Written(t) = IF is = {} THEN table[t]
                   ELSE IF data[i].isNew THEN data[i].row ELSE [data[i].row EXCEPT !.original = table[t].original]
  BY DEF Written
<1>3. CASE is = {}
  <2>1. t \in DOMAIN table
    BY <1>3 DEF NewRows
  <2> QED  BY <1>2, <1>3, <2>1
<1>4. CASE is # {}
  <2>1. \A j \in is : j \in 1 .. Len(data) /\ j \in Writes /\ data[j].t = t
    BY <1>1 DEF Writes
  <2> HIDE DEF is
  <2>2. is \in SUBSET (1 .. Len(data)) /\ 1 \in Int /\ Len(data) \in Int
    BY <1>1, <2>1
  <2>3. i \in Writes /\ data[i].t = t /\ i \in DOMAIN data
    <3>1. i \in is
      BY <1>4, <2>2, MaxOfSome
    <3> QED  BY <1>1, <2>1, <3>1
  <2> HIDE DEF i
  <2>4. CASE data[i].isNew
    <3>1. i \in NewRows
      BY <2>3, <2>4 DEF NewRows
    <3>2. t \notin DOMAIN table
      BY <2>3, <3>1 DEF Conflict
    <3> QED  BY <1>2, <1>4, <2>3, <2>4, <3>2
  <2>5. CASE ~data[i].isNew
    <3>1. t \in DOMAIN table
      BY <2>3, <2>5 DEF Inv, Listed
    <3> QED  BY <1>2, <1>4, <2>3, <2>5, <3>1
  <2> QED  BY <2>4, <2>5
<1> QED
  BY <1>3, <1>4

\* Writing the changes keeps the invariant.
LEMMA StoreUpdatesInv ==
  ASSUME Inv, StoreUpdates
  PROVE  Inv'
<1>1. /\ ~Conflict /\ BackToIdle /\ ut0' = ut0 /\ neighbours' = neighbours
      /\ calm' = calm /\ outside' = outside
      /\ table' = [t \in DOMAIN table \union {data[i].t : i \in NewRows} |-> Written(t)]
      /\ settled' \in {ut0, -1}
  BY DEF StoreUpdates
<1>2. /\ DOMAIN table \subseteq Minutes /\ \A t \in DOMAIN table : table[t] \in Row
      /\ calm \in BOOLEAN /\ outside \in Nat /\ ut0 \in Starts
  BY DEF Inv, TypeOK
<1>3. \A i \in Writes : i \in 1 .. Len(data) /\ data[i].t \in Minutes /\ data[i].row \in Row
  BY ListFacts DEF Inv, Listed, Writes
<1>4. ASSUME NEW t \in DOMAIN table \union {data[i].t : i \in NewRows}
      PROVE  t \in Minutes /\ Written(t) \in Row
  <2>1. t \in Minutes
    BY <1>2, <1>3 DEF NewRows
  <2>2. CASE t \in DOMAIN table /\ Written(t) = table[t]
    BY <1>2, <2>1, <2>2
  <2>3. ASSUME NEW i \in Writes, Written(t) = data[i].row
        PROVE  Written(t) \in Row
    BY <1>3, <2>3
  <2>4. ASSUME NEW i \in Writes, t \in DOMAIN table,
               Written(t) = [data[i].row EXCEPT !.original = table[t].original]
        PROVE  Written(t) \in Row
    <3>1. data[i].row \in Row /\ table[t] \in Row
      BY <1>2, <1>3, <2>4
    <3> QED  BY <2>4, <3>1 DEF Row
  <2> QED  BY <1>1, <2>1, <2>2, <2>3, <2>4, WrittenRow
<1>5. DOMAIN table' \subseteq Minutes /\ \A t \in DOMAIN table' : table'[t] \in Row
  BY <1>1, <1>4
<1> QED
  BY <1>1, <1>2, <1>5, IdleInv

\* So does a transaction that is refused,
LEMMA StoreRefusedInv ==
  ASSUME Inv, StoreRefused
  PROVE  Inv'
BY IdleInv DEF StoreRefused, tableVars, historyVars, Inv, TypeOK

\* a row that arrives late,
LEMMA ObserveInv ==
  ASSUME Inv, NEW l \in Late, Observe(l[1], l[2])
  PROVE  Inv'
<1> DEFINE t == l[1]
           v == l[2]
<1>1. t \in Minutes /\ v \in Int
  BY OutsideAssumption
<1> HIDE DEF t, v
<1>2. Observe(t, v)
  BY DEF t, v
<1>3. Observed(v) \in Row
  BY <1>1 DEF Observed, Row
<1>4. /\ table' = [m \in DOMAIN table \union {t} |-> IF m = t THEN Observed(v) ELSE table[m]]
      /\ neighbours' = neighbours /\ UNCHANGED runVars
      /\ outside' = outside + 1 /\ calm' = FALSE /\ settled' = -1
  BY <1>2 DEF Observe, FromOutside
<1>5. /\ DOMAIN table \subseteq DOMAIN table' /\ DOMAIN table' \subseteq Minutes
      /\ \A m \in DOMAIN table' : table'[m] \in Row
  BY <1>1, <1>3, <1>4 DEF Inv, TypeOK
<1>6. neighbours' \in [Mornings -> Reports] /\ outside' \in Nat
  BY <1>4 DEF Inv, TypeOK
<1> QED
  BY <1>4, <1>5, <1>6, OutsideInv

\* an operator's change,
LEMMA HqcInv ==
  ASSUME Inv, NEW t \in HqcMinutes, NEW v \in HqcValues, Hqc(t, v)
  PROVE  Inv'
<1>1. v \in Int
  BY OutsideAssumption
<1>2. /\ t \in DOMAIN table
      /\ table' = [table EXCEPT ![t].corrected = v, ![t].fhqc = IF v = table[t].original THEN 1 ELSE 7]
      /\ neighbours' = neighbours /\ UNCHANGED runVars
      /\ outside' = outside + 1 /\ calm' = FALSE /\ settled' = -1
  BY DEF Hqc, FromOutside
<1>3. DOMAIN table \subseteq Minutes /\ \A m \in DOMAIN table : table[m] \in Row
  BY DEF Inv, TypeOK
<1>4. DOMAIN table' = DOMAIN table
  BY <1>2
<1>5. ASSUME NEW m \in DOMAIN table  PROVE table'[m] \in Row
  <2>1. CASE m # t
    BY <1>2, <1>3, <2>1
  <2>2. CASE m = t
    <3> DEFINE r == table[t]
               c == IF v = table[t].original THEN 1 ELSE 7
    <3>1. r \in Row /\ c \in Nat
      BY <1>2, <1>3
    <3>2. table'[t] = [r EXCEPT !.corrected = v, !.fhqc = c]
      BY <1>2, <1>4
    <3> HIDE DEF r, c
    <3> QED  BY <1>1, <2>2, <3>1, <3>2 DEF Row
  <2> QED  BY <2>1, <2>2
<1>6. neighbours' \in [Mornings -> Reports] /\ outside' \in Nat
  BY <1>2 DEF Inv, TypeOK
<1> QED
  BY <1>2, <1>3, <1>4, <1>5, <1>6, OutsideInv

\* a neighbour's report,
LEMMA NeighboursReportInv ==
  ASSUME Inv, NEW m \in Mornings, NEW r \in Reports, NeighboursReport(m, r)
  PROVE  Inv'
<1>1. /\ neighbours' = [neighbours EXCEPT ![m] = r] /\ table' = table /\ UNCHANGED runVars
      /\ outside' = outside + 1 /\ calm' = FALSE /\ settled' = -1
  BY DEF NeighboursReport, FromOutside
<1>2. neighbours' \in [Mornings -> Reports] /\ outside' \in Nat
  BY <1>1 DEF Inv, TypeOK
<1>3. /\ DOMAIN table \subseteq DOMAIN table' /\ DOMAIN table' \subseteq Minutes
      /\ \A t \in DOMAIN table' : table'[t] \in Row
  BY <1>1 DEF Inv, TypeOK
<1>4. calm' \in BOOLEAN /\ settled' \in Starts \union {-1}
  BY <1>1
<1> QED
  BY <1>1, <1>2, <1>3, <1>4, OutsideInv

\* a run that is cut short,
LEMMA AbortInv ==
  ASSUME Inv, Abort
  PROVE  Inv'
<1>1. /\ BackToIdle /\ ut0' = ut0 /\ table' = table /\ neighbours' = neighbours
      /\ outside' = outside + 1 /\ calm' = FALSE /\ settled' = -1
  BY DEF Abort, FromOutside, tableVars
<1>2. /\ DOMAIN table' \subseteq Minutes /\ \A t \in DOMAIN table' : table'[t] \in Row
  BY <1>1 DEF Inv, TypeOK
<1>3. calm' \in BOOLEAN /\ settled' \in Starts \union {-1}
  BY <1>1
<1>4. outside' \in Nat
  BY <1>1 DEF Inv, TypeOK
<1> QED
  BY <1>1, <1>2, <1>3, <1>4, IdleInv

\* and a step of something else.
LEMMA StutterInv ==
  ASSUME Inv, UNCHANGED vars
  PROVE  Inv'
<1>1. UNCHANGED <<runVars, table, neighbours, calm, settled, outside>>
  BY DEF vars, tableVars, historyVars
<1> QED
  BY <1>1, OutsideInv DEF Inv, TypeOK

\* Every step keeps the invariant.
LEMMA NextInv ==
  ASSUME Inv, [Next]_vars
  PROVE  Inv'
<1>1. CASE \E start \in Starts : CheckStation(start)
  BY <1>1, CheckStationInv
<1>2. CASE Step
  BY <1>2, DiscardAllInv, RainInterruptionInv, OtherShowerInv, NoMoreShowersInv, CheckSlidingSumsInv,
     SkipFirstDayInv, LeaveDayInv, CompareDayInv, StoreUpdatesInv, StoreRefusedInv DEF Step
<1>3. CASE Outside
  BY <1>3, ObserveInv, HqcInv, NeighboursReportInv, AbortInv DEF Outside
<1> QED
  BY <1>1, <1>2, <1>3, StutterInv DEF Next

\* The inductive invariant of a station's runs: types, what is known of the list, and
\* how far the loops have come.
LEMMA PlumaticInv == Spec => []Inv
<1>1. Inv /\ [Next]_vars => Inv'
  BY NextInv
<1> QED
  BY InitInv, <1>1, PTL DEF Spec

\* The rows stay rows and the loops keep to their list, for all tables, lengths of
\* time, thresholds and events: checkShowers's positions survive the rows that
\* flagRainInterruption inserts in front of them.
THEOREM PlumaticTypes == Spec => []TypeOK
<1>1. Inv => TypeOK
  BY DEF Inv
<1> QED
  BY PlumaticInv, <1>1, PTL

\* storeUpdates overwrites a row an operator has dealt with only if he did so between
\* its being read and being written.
THEOREM PlumaticHqcKept == Spec => HqcKept
<1> DEFINE Keeps ==
        outside' = outside =>
            \A t \in DOMAIN table :
                ~Hqc04(table[t]) /\ table'[t] # table[t] =>
                    \E i \in DOMAIN data : data[i].t = t /\ data[i].was # table[t]
<1>1. ASSUME Inv, [Next]_vars  PROVE [Keeps]_vars
  <2> SUFFICES ASSUME outside' = outside, NEW t \in DOMAIN table, ~Hqc04(table[t]), table'[t] # table[t]
               PROVE  \E i \in DOMAIN data : data[i].t = t /\ data[i].was # table[t]
    OBVIOUS
  <2>1. StoreUpdates
    <3>1. \A start \in Starts : CheckStation(start) => table' = table
      BY DEF CheckStation, tableVars
    <3>2. Step => table' = table \/ StoreUpdates
      BY DEF Step, DiscardAllNonOperationalTimes, RainInterruption, OtherShower, NoMoreShowers,
         CheckSlidingSums, SkipFirstDay, LeaveDay, CompareDay, CheckDay, StoreRefused, tableVars
    <3>3. ~Outside
      <4>1. outside \in Nat
        BY <1>1 DEF Inv, TypeOK
      <4>2. Outside => outside' = outside + 1
        BY DEF Outside, Observe, Hqc, NeighboursReport, Abort, FromOutside
      <4> QED  BY <4>1, <4>2
    <3>4. UNCHANGED vars => table' = table
      BY DEF vars, tableVars
    <3> QED  BY <1>1, <3>1, <3>2, <3>3, <3>4 DEF Next
  <2>2. ~Conflict /\ table'[t] = Written(t)
    BY <2>1 DEF StoreUpdates
  <2>3. PICK i \in Writes :
            /\ data[i].t = t /\ ~data[i].isNew
            /\ Written(t) = [data[i].row EXCEPT !.original = table[t].original]
    BY <1>1, <2>2, WrittenRow
  <2>4. i \in DOMAIN data /\ Kept(data[i])
    BY <1>1 DEF Writes, Inv, Listed
  <2>5. ASSUME data[i].was = table[t]  PROVE FALSE
    <3>1. data[i].row = table[t]
      BY <2>4, <2>5 DEF Kept
    <3>2. table[t] \in Row
      BY <1>1 DEF Inv, TypeOK
    <3>3. Written(t) = table[t]
      BY <2>3, <3>1, <3>2 DEF Row
    <3> QED  BY <2>2, <3>3
  <2> QED  BY <2>3, <2>4, <2>5
<1> QED
  BY PlumaticInv, <1>1, PTL DEF Spec, HqcKept

\* The steps of the run, with what each leaves of the work.
LEMMA StepRemains ==
  ASSUME Inv, Inv', Step
  PROVE  \/ pc = "discard" /\ pc' = "showers"
         \/ /\ pc = "showers" /\ pc' = "showers"
            /\ 0 <= Len(data') - previous'.last
            /\ Len(data') - previous'.last < Len(data) - previous.last
         \/ pc = "showers" /\ pc' = "sums"
         \/ pc = "sums" /\ pc' = "sums" /\ alarm' = alarm + 1 /\ alarm <= Len(SlidingAlarms)
         \/ pc = "sums" /\ pc' = "days"
         \/ pc = "days" /\ pc' = "days" /\ nextXX06' = nextXX06 + Day /\ nextXX06 < ut1 /\ ut0' = ut0
         \/ pc = "days" /\ pc' = "idle"
<1>1. Len(data) \in Nat /\ previous.last \in Nat /\ previous.last <= Len(data)
  BY PreviousLast, ListFacts DEF Inv, Listed
<1>2. CASE RainInterruption
  <2>1. PICK s, n :
            /\ s = FindNextShower /\ s # NoShower /\ IsShower(s, previous.last + 1)
            /\ previous' = [s EXCEPT !.first = @ + n, !.last = @ + n]
            /\ Interrupted(s, previous, data', n)
    BY <1>2, RainInterruptionStep
  <2>2. previous.last < s.last /\ s.last <= Len(data) /\ s.last \in Nat /\ s.first \in Nat
    BY <1>1, <2>1, NextShowerFacts
  <2>3. n \in Nat /\ Len(data') = Len(data) + n
    BY <2>1 DEF Interrupted
  <2>4. previous'.last = s.last + n
    <3>1. s = [first |-> s.first, last |-> s.last, duration |-> 1 + data[s.last].t - data[s.first].t]
      BY <2>1 DEF IsShower
    <3> QED  BY <2>1, <3>1
  <2>5. pc = "showers" /\ pc' = "showers"
    BY <1>2 DEF RainInterruption, NextShower
  <2> QED  BY <1>1, <2>2, <2>3, <2>4, <2>5
<1>3. CASE OtherShower
  <2>1. PICK s : /\ s = FindNextShower /\ s # NoShower /\ previous' = s /\ Len(data') = Len(data)
    BY <1>3, OtherShowerStep
  <2>2. previous.last < s.last /\ s.last <= Len(data) /\ s.last \in Nat
    BY <1>1, <2>1, NextShowerFacts
  <2>3. pc = "showers" /\ pc' = "showers"
    BY <1>3 DEF OtherShower, NextShower
  <2> QED  BY <1>1, <2>1, <2>2, <2>3
<1>4. CASE LeaveDay \/ CompareDay
  <2>1. CheckDay
    BY <1>4 DEF LeaveDay, CompareDay
  <2>2. pc = "days" /\ pc' = "days" /\ mark \in 1 .. Len(data) /\ nextXX06' = nextXX06 + Day /\ ut0' = ut0
    BY <2>1, CheckDayFacts
  <2>3. nextXX06 < data[mark].t /\ data[mark].t <= ut1 /\ data[mark].t \in Int /\ nextXX06 \in Int /\ ut1 \in Int
    <3>1. mark \in DOMAIN data /\ data[mark].t \in Int /\ mark <= Len(data)
      BY <1>1, <2>2, ListFacts DEF Inv, Listed
    <3> QED  BY <2>2, <3>1, RunWindow DEF Inv, Listed, Loops, TypeOK
  <2> QED  BY <2>2, <2>3
<1>5. CASE DiscardAllNonOperationalTimes
  BY <1>5 DEF DiscardAllNonOperationalTimes
<1>6. CASE NoMoreShowers
  BY <1>6 DEF NoMoreShowers
<1>7. CASE CheckSlidingSums
  BY <1>7 DEF CheckSlidingSums
<1>8. CASE SkipFirstDay
  BY <1>8 DEF SkipFirstDay
<1>9. CASE StoreUpdates \/ StoreRefused
  BY <1>9 DEF StoreUpdates, StoreRefused, BackToIdle
<1> QED
  BY <1>2, <1>3, <1>4, <1>5, <1>6, <1>7, <1>8, <1>9 DEF Step

\* Every step of a run leaves less to do, although flagRainInterruption lengthens the
\* list its loop runs over: checkShowers and the other loops come to their ends.
THEOREM PlumaticRunEnds == Spec => RunEnds
<1> DEFINE Less ==
        LET r == Remaining
        IN  \/ Remaining'[1] < r[1]
            \/ Remaining'[1] = r[1] /\ 0 <= Remaining'[2] /\ Remaining'[2] < r[2]
           Ends == pc # "idle" /\ outside' = outside => Less
<1>1. ASSUME Inv, Inv', [Next]_vars  PROVE [Ends]_vars
  <2> SUFFICES ASSUME pc # "idle", outside' = outside, Next  PROVE Less
    BY <1>1
  <2>1. Step
    <3>1. ~Outside
      <4>1. outside \in Nat
        BY <1>1 DEF Inv, TypeOK
      <4>2. Outside => outside' = outside + 1
        BY DEF Outside, Observe, Hqc, NeighboursReport, Abort, FromOutside
      <4> QED  BY <4>1, <4>2
    <3> QED  BY <3>1 DEF Next, CheckStation
  <2>2. CASE pc = "discard" /\ pc' = "showers"
    BY <2>2 DEF Remaining
  <2>3. CASE /\ pc = "showers" /\ pc' = "showers" /\ 0 <= Len(data') - previous'.last
             /\ Len(data') - previous'.last < Len(data) - previous.last
    BY <2>3 DEF Remaining
  <2>4. CASE pc = "showers" /\ pc' = "sums"
    BY <2>4 DEF Remaining
  <2>5. CASE pc = "sums" /\ pc' = "sums" /\ alarm' = alarm + 1 /\ alarm <= Len(SlidingAlarms)
    <3>1. alarm \in Nat /\ Len(SlidingAlarms) \in Nat
      BY <1>1, ParameterAssumption, LenProperties DEF Inv, TypeOK
    <3> QED  BY <2>5, <3>1 DEF Remaining
  <2>6. CASE pc = "sums" /\ pc' = "days"
    BY <2>6 DEF Remaining
  <2>7. CASE pc = "days" /\ pc' = "days" /\ nextXX06' = nextXX06 + Day /\ nextXX06 < ut1 /\ ut0' = ut0
    <3>1. ut1' = ut1 /\ ut1 \in Int /\ nextXX06 \in Int /\ Day \in Nat /\ Day > 0
      BY <1>1, <2>7, SameWindow, RunWindow, Times DEF Inv, TypeOK, Loops
    <3> QED  BY <2>7, <3>1 DEF Remaining
  <2>8. CASE pc = "days" /\ pc' = "idle"
    BY <2>8 DEF Remaining
  <2> QED  BY <1>1, <2>1, <2>2, <2>3, <2>4, <2>5, <2>6, <2>7, <2>8, StepRemains
<1> QED
  BY PlumaticInv, <1>1, PTL DEF Spec, RunEnds

\* The positions of a window that ends at a position.
InWindow(list, slal, head) == {i \in DOMAIN list : i <= head /\ list[head].t - list[i].t < slal.length}

\* The window that ends there has too much rain and no bad data.
Hot(list, slal, head) ==
    /\ Rain(list, InWindow(list, slal, head)) >= slal.max
    /\ \A k \in InWindow(list, slal, head) : ~IsBadData(list[k])

\* In the order of time, and a good row shares its time with no other one.
Sorted(list) == \A i, j \in DOMAIN list : i < j => list[i].t <= list[j].t

\* No other update has the time of a good one.
Alone(list) == \A i, j \in DOMAIN list : i # j /\ ~IsBadData(list[j]) => list[i].t # list[j].t

\* What checkSlidingSum has at each turn.
SlideStates == [tail : Nat, from : Nat, to : Nat, flagged : SUBSET Nat]

\* What is known at each turn: where the window begins, and that the flagged positions
\* and the stretch from .. to are those of the windows that have too much rain.
Slid(list, slal, n, st) ==
    /\ st \in SlideStates /\ st.tail \in 1 .. n + 1
    /\ \A i \in 1 .. st.tail - 1 : \E h \in 1 .. n : list[h].t - list[i].t >= slal.length
    /\ \/ st.from = 0 /\ st.to = 0
       \/ st.from \in 1 .. st.tail /\ st.to \in st.from .. n /\ ~IsBadData(list[st.to])
    /\ \A i \in 1 .. Len(list) :
            i \in st.flagged \/ i \in st.from .. st.to
                <=> \E h \in 1 .. n : Hot(list, slal, h) /\ i \in InWindow(list, slal, h)

\* What a turn may come to: nothing, a longer stretch, or a new one.
SlideResult(list, st, tail, hot, n, r) ==
    \/ ~hot /\ r = [st EXCEPT !.tail = tail]
    \/ hot /\ r = [st EXCEPT !.tail = tail, !.to = n] /\ st.from # 0 /\ list[tail].t <= list[st.to].t + 1
    \/ hot /\ r = [tail |-> tail, from |-> tail, to |-> n, flagged |-> st.flagged \union (st.from .. st.to)]

\* The members of a list of updates.
LEMMA Members ==
  ASSUME NEW list \in Seq(Updates)
  PROVE  /\ DOMAIN list = 1 .. Len(list) /\ Len(list) \in Nat
         /\ \A i \in 1 .. Len(list) : list[i] \in Updates /\ list[i].t \in Minutes /\ list[i].t \in Int
<1>1. DOMAIN list = 1 .. Len(list) /\ Len(list) \in Nat
  OBVIOUS
<1>2. ASSUME NEW i \in 1 .. Len(list)
      PROVE  list[i] \in Updates /\ list[i].t \in Minutes /\ list[i].t \in Int
  <2>1. list[i] \in Updates
    OBVIOUS
  <2>2. list[i].t \in Minutes
    BY <2>1 DEF Updates
  <2> QED
    BY <2>1, <2>2, MinuteNumbers
<1> QED
  BY <1>1, <1>2

\* The tail of checkSlidingSum's window, found from the one before, is the first row of
\* the window that ends at this row.
LEMMA SlideTail ==
  ASSUME NEW list \in Seq(Updates), Sorted(list), NEW slal, slal.length \in Nat \ {0},
         NEW n \in 1 .. Len(list), NEW st, Slid(list, slal, n - 1, st),
         NEW tail, tail = Min({i \in st.tail .. n : list[n].t - list[i].t < slal.length})
  PROVE  /\ tail \in st.tail .. n
         /\ \A i \in 1 .. tail - 1 : list[n].t - list[i].t >= slal.length
         /\ tail .. n = InWindow(list, slal, n)
<1>0. /\ DOMAIN list = 1 .. Len(list) /\ Len(list) \in Nat
      /\ \A i \in 1 .. Len(list) : list[i].t \in Int
  BY Members
<1>1. st.tail \in 1 .. n /\ n \in Nat
  BY <1>0 DEF Slid
<1> DEFINE S == {i \in st.tail .. n : list[n].t - list[i].t < slal.length}
<1>2. n \in S
  BY <1>0, <1>1
<1>3. S \in SUBSET Int /\ S # {} /\ 1 \in Int /\ \A k \in S : 1 <= k
  BY <1>1, <1>2
<1>4. tail \in S /\ \A k \in S : tail <= k
  <2> HIDE DEF S
  <2>1. Min(S) \in S /\ \A k \in S : Min(S) <= k
    BY <1>3, MinOfSome
  <2> QED
    BY <2>1 DEF S
<1>5. tail \in st.tail .. n /\ list[n].t - list[tail].t < slal.length
  BY <1>4
<1>6. ASSUME NEW i \in 1 .. tail - 1 PROVE list[n].t - list[i].t >= slal.length
  <2>0. i \in 1 .. Len(list)
    BY <1>0, <1>1, <1>5
  <2>1. CASE i < st.tail
    <3>1. PICK h \in 1 .. n - 1 : list[h].t - list[i].t >= slal.length
      <4>1. i \in 1 .. st.tail - 1
        BY <2>1, <1>1
      <4> QED
        BY <4>1 DEF Slid
    <3>2. h \in 1 .. Len(list) /\ h < n
      BY <1>0, <1>1
    <3>3. list[h].t <= list[n].t
      BY <3>2, <1>0 DEF Sorted
    <3> QED
      BY <3>1, <3>2, <3>3, <2>0, <1>0
  <2>2. CASE i >= st.tail
    <3>1. i \in st.tail .. n /\ i < tail
      BY <2>2, <1>1, <1>5
    <3>2. i \notin S
      BY <3>1, <1>4, <1>5, <1>1
    <3> QED
      BY <3>1, <3>2, <2>0, <1>0
  <2> QED
    BY <2>1, <2>2, <1>1
<1>7. ASSUME NEW i \in 1 .. Len(list)
      PROVE  i \in tail .. n <=> i <= n /\ list[n].t - list[i].t < slal.length
  <2>1. CASE i < tail
    <3>1. i \in 1 .. tail - 1
      BY <2>1, <1>5, <1>1
    <3> QED
      BY <3>1, <1>6, <1>5, <1>0, <1>1, <2>1
  <2>2. CASE i >= tail /\ i <= n
    <3>1. list[tail].t <= list[i].t
      <4>1. CASE i = tail  BY <4>1, <1>0
      <4>2. CASE i # tail
        <5>1. tail \in 1 .. Len(list) /\ tail < i
          BY <4>2, <2>2, <1>5, <1>1
        <5> QED
          BY <5>1, <1>0 DEF Sorted
      <4> QED
        BY <4>1, <4>2
    <3>2. tail \in 1 .. Len(list)
      BY <1>5, <1>1
    <3> QED
      BY <3>1, <3>2, <2>2, <1>5, <1>0, <1>1
  <2>3. CASE i > n
    BY <2>3, <1>1
  <2> QED
    BY <2>1, <2>2, <2>3, <1>1, <1>5
<1>8. tail .. n = InWindow(list, slal, n)
  <2>1. ASSUME NEW i \in tail .. n PROVE i \in 1 .. Len(list)
    BY <1>5, <1>1
  <2> QED
    BY <2>1, <1>7, <1>0 DEF InWindow
<1> QED
  BY <1>5, <1>6, <1>8

\* One turn of checkSlidingSum: nothing is found, the window is joined with the stretch
\* before it, or a new stretch begins.
LEMMA SlideStepResult ==
  ASSUME NEW list \in Seq(Updates), Sorted(list), NEW slal, slal.length \in Nat \ {0},
         NEW n \in 1 .. Len(list), NEW st, Slid(list, slal, n - 1, st)
  PROVE  \E tail \in st.tail .. n :
            /\ \A i \in 1 .. tail - 1 : list[n].t - list[i].t >= slal.length
            /\ tail .. n = InWindow(list, slal, n)
            /\ SlideResult(list, st, tail, Hot(list, slal, n), n, SlideStep(list, slal, st, n))
<1> DEFINE tail == Min({i \in st.tail .. n : list[n].t - list[i].t < slal.length})
           hot == Rain(list, tail .. n) >= slal.max /\ \A i \in tail .. n : ~IsBadData(list[i])
           joins == /\ st.from # 0
                    /\ list[tail].t >= list[st.from].t /\ list[tail].t <= list[st.to].t + 1
           r == SlideStep(list, slal, st, n)
<1>1. r = CASE ~hot -> [st EXCEPT !.tail = tail]
            [] hot /\ joins -> [st EXCEPT !.tail = tail, !.to = n]
            [] OTHER -> [tail |-> tail, from |-> tail, to |-> n,
                         flagged |-> st.flagged \union (st.from .. st.to)]
  BY DEF SlideStep
<1> HIDE DEF r
<1>2. /\ tail \in st.tail .. n
      /\ \A i \in 1 .. tail - 1 : list[n].t - list[i].t >= slal.length
      /\ tail .. n = InWindow(list, slal, n)
  BY SlideTail
<1> HIDE DEF tail
<1>3. hot = Hot(list, slal, n)
  BY <1>2 DEF Hot
<1>4. joins => st.from # 0 /\ list[tail].t <= list[st.to].t + 1
  OBVIOUS
<1> HIDE DEF hot, joins
<1>5. SlideResult(list, st, tail, hot, n, r)
  <2>1. CASE ~hot
    <3>1. r = [st EXCEPT !.tail = tail]
      BY <1>1, <2>1
    <3> QED
      BY <3>1, <2>1 DEF SlideResult
  <2>2. CASE hot /\ joins
    <3>1. r = [st EXCEPT !.tail = tail, !.to = n]
      BY <1>1, <2>2
    <3> QED
      BY <3>1, <2>2, <1>4 DEF SlideResult
  <2>3. CASE hot /\ ~joins
    <3>1. r = [tail |-> tail, from |-> tail, to |-> n,
               flagged |-> st.flagged \union (st.from .. st.to)]
      BY <1>1, <2>3
    <3> QED
      BY <3>1, <2>3 DEF SlideResult
  <2>4. hot \in BOOLEAN /\ joins \in BOOLEAN
    BY DEF hot, joins
  <2> QED
    BY <2>1, <2>2, <2>3, <2>4
<1>6. SlideResult(list, st, tail, Hot(list, slal, n), n, r)
  BY <1>5, <1>3
<1> QED
  BY <1>2, <1>6 DEF r

\* One turn keeps what is known of the loop: the rows flagged and those of the open
\* stretch are the rows inside windows with too much rain so far.  A window that joins
\* the stretch leaves no row out, as a good row shares its minute with no other.
LEMMA SlideStepKeeps ==
  ASSUME NEW list \in Seq(Updates), Sorted(list), Alone(list), NEW slal, slal.length \in Nat \ {0},
         NEW n \in 1 .. Len(list), NEW st, Slid(list, slal, n - 1, st)
  PROVE  Slid(list, slal, n, SlideStep(list, slal, st, n))
<1> DEFINE r == SlideStep(list, slal, st, n)
           hot == Hot(list, slal, n)
           w == InWindow(list, slal, n)
<1>0. /\ DOMAIN list = 1 .. Len(list) /\ Len(list) \in Nat
      /\ \A i \in 1 .. Len(list) : list[i].t \in Int
  BY Members
<1>1. /\ st \in SlideStates /\ st.tail \in 1 .. n /\ n \in Nat
      /\ st.tail \in Nat /\ st.from \in Nat /\ st.to \in Nat /\ st.flagged \in SUBSET Nat
      /\ \/ st.from = 0 /\ st.to = 0
         \/ st.from \in 1 .. st.tail /\ st.to \in st.from .. n - 1 /\ ~IsBadData(list[st.to])
  BY <1>0 DEF Slid, SlideStates
<1>2. PICK tail \in st.tail .. n :
            /\ \A i \in 1 .. tail - 1 : list[n].t - list[i].t >= slal.length
            /\ tail .. n = w
            /\ SlideResult(list, st, tail, hot, n, r)
  BY SlideStepResult
<1>3. tail \in Nat /\ tail \in 1 .. n /\ n \in 1 .. n
  BY <1>1
<1>4. \A i \in 1 .. tail - 1 : \E h \in 1 .. n : list[h].t - list[i].t >= slal.length
  BY <1>2, <1>3
<1>5. \A i \in 1 .. Len(list) :
        (\E h \in 1 .. n : Hot(list, slal, h) /\ i \in InWindow(list, slal, h))
            <=> i \in st.flagged \/ i \in st.from .. st.to \/ (hot /\ i \in w)
  <2>1. ASSUME NEW i \in 1 .. Len(list), NEW h \in 1 .. n,
               Hot(list, slal, h), i \in InWindow(list, slal, h)
        PROVE  i \in st.flagged \/ i \in st.from .. st.to \/ (hot /\ i \in w)
    <3>1. CASE h = n
      BY <2>1, <3>1
    <3>2. CASE h # n
      <4>1. h \in 1 .. n - 1
        BY <3>2, <1>1
      <4> QED
        BY <4>1, <2>1 DEF Slid
    <3> QED
      BY <3>1, <3>2
  <2>2. ASSUME NEW i \in 1 .. Len(list), i \in st.flagged \/ i \in st.from .. st.to
        PROVE  \E h \in 1 .. n : Hot(list, slal, h) /\ i \in InWindow(list, slal, h)
    <3>1. PICK h \in 1 .. n - 1 : Hot(list, slal, h) /\ i \in InWindow(list, slal, h)
      BY <2>2 DEF Slid
    <3>2. h \in 1 .. n
      BY <1>1
    <3> QED
      BY <3>1, <3>2
  <2>3. ASSUME NEW i \in 1 .. Len(list), hot, i \in w
        PROVE  \E h \in 1 .. n : Hot(list, slal, h) /\ i \in InWindow(list, slal, h)
    BY <2>3, <1>3
  <2> HIDE DEF hot, w
  <2> QED
    BY <2>1, <2>2, <2>3
<1>6. CASE ~hot /\ r = [st EXCEPT !.tail = tail]
  <2>1. r \in SlideStates /\ r.tail = tail /\ r.from = st.from /\ r.to = st.to /\ r.flagged = st.flagged
    BY <1>6, <1>1, <1>3 DEF SlideStates
  <2>2. \/ st.from = 0 /\ st.to = 0
        \/ st.from \in 1 .. tail /\ st.to \in st.from .. n /\ ~IsBadData(list[st.to])
    BY <1>1, <1>2
  <2> HIDE DEF r, hot, w
  <2>3. \A i \in 1 .. Len(list) :
            i \in r.flagged \/ i \in r.from .. r.to
                <=> \E h \in 1 .. n : Hot(list, slal, h) /\ i \in InWindow(list, slal, h)
    BY <1>5, <1>6, <2>1
  <2>4. r.tail \in 1 .. n + 1
    BY <2>1, <1>3
  <2> QED
    BY <2>1, <2>2, <2>3, <2>4, <1>4 DEF Slid, r
<1>7. ASSUME hot PROVE ~IsBadData(list[n]) /\ ~IsBadData(list[tail]) /\ tail \in 1 .. Len(list)
  <2>1. n \in w /\ tail \in w
    BY <1>2, <1>3
  <2> QED
    BY <2>1, <1>7, <1>3 DEF Hot
<1>8. CASE /\ hot /\ r = [st EXCEPT !.tail = tail, !.to = n]
           /\ st.from # 0 /\ list[tail].t <= list[st.to].t + 1
  <2>1. r \in SlideStates /\ r.tail = tail /\ r.from = st.from /\ r.to = n /\ r.flagged = st.flagged
    BY <1>8, <1>1, <1>3 DEF SlideStates
  <2>2. st.from \in 1 .. tail /\ n \in st.from .. n /\ st.to \in st.from .. n - 1 /\ ~IsBadData(list[st.to])
    BY <1>1, <1>2, <1>8
  <2>3. tail <= st.to + 1
    <3> SUFFICES ASSUME tail > st.to + 1 PROVE FALSE
      BY <1>3, <1>1
    <3> DEFINE k == st.to + 1
    <3>1. k \in 1 .. Len(list) /\ st.to \in 1 .. Len(list) /\ tail \in 1 .. Len(list)
          /\ st.to < k /\ k < tail
      BY <1>3, <1>1, <2>2
    <3> HIDE DEF k
    <3>2. list[st.to].t <= list[k].t /\ list[k].t <= list[tail].t
      BY <3>1, <1>0 DEF Sorted
    <3>3. k # st.to /\ k # tail
      BY <3>1, <1>1, <1>3
    <3>4. list[k].t # list[st.to].t /\ list[k].t # list[tail].t
      BY <3>1, <3>3, <1>0, <1>7, <1>8, <2>2 DEF Alone
    <3> QED
      BY <3>2, <3>4, <3>1, <1>0, <1>8
  <2>4. \A i \in 1 .. Len(list) : i \in st.from .. n <=> i \in st.from .. st.to \/ i \in tail .. n
    BY <2>2, <2>3, <1>3, <1>1
  <2> HIDE DEF r, hot
  <2>5. \A i \in 1 .. Len(list) :
            i \in r.flagged \/ i \in r.from .. r.to
                <=> \E h \in 1 .. n : Hot(list, slal, h) /\ i \in InWindow(list, slal, h)
    <3>1. tail .. n = w
      BY <1>2
    <3> HIDE DEF w
    <3> QED
      BY <1>5, <1>8, <2>1, <2>4, <3>1
  <2>6. r.tail \in 1 .. n + 1
    BY <2>1, <1>3
  <2>7. r.from \in 1 .. r.tail /\ r.to \in r.from .. n /\ ~IsBadData(list[r.to])
    BY <2>1, <2>2, <1>7, <1>8
  <2> HIDE DEF w
  <2> QED
    BY <2>1, <2>5, <2>6, <2>7, <1>4 DEF Slid, r
<1>9. CASE /\ hot
           /\ r = [tail |-> tail, from |-> tail, to |-> n, flagged |-> st.flagged \union (st.from .. st.to)]
  <2>0. st.from .. st.to \in SUBSET Nat
    BY <1>1
  <2>1. r \in SlideStates /\ r.tail = tail /\ r.from = tail /\ r.to = n
        /\ r.flagged = st.flagged \union (st.from .. st.to)
    BY <1>9, <1>1, <1>3, <2>0 DEF SlideStates
  <2> HIDE DEF r, hot
  <2>5. \A i \in 1 .. Len(list) :
            i \in r.flagged \/ i \in r.from .. r.to
                <=> \E h \in 1 .. n : Hot(list, slal, h) /\ i \in InWindow(list, slal, h)
    <3>1. tail .. n = w
      BY <1>2
    <3> HIDE DEF w
    <3> QED
      BY <1>5, <1>9, <2>1, <3>1
  <2>6. r.tail \in 1 .. n + 1
    BY <2>1, <1>3
  <2>7. r.from \in 1 .. r.tail /\ r.to \in r.from .. n /\ ~IsBadData(list[r.to])
    BY <2>1, <1>3, <1>7, <1>9
  <2> HIDE DEF w
  <2> QED
    BY <2>1, <2>5, <2>6, <2>7, <1>4 DEF Slid, r
<1> HIDE DEF r, hot
<1>10. QED
  BY <1>2, <1>6, <1>8, <1>9 DEF SlideResult, r

\* What it begins with.
SlideStart == [tail |-> 1, from |-> 0, to |-> 0, flagged |-> {}]

\* So do all turns.
LEMMA SlideLoop ==
  ASSUME NEW list \in Seq(Updates), Sorted(list), Alone(list), NEW slal, slal.length \in Nat \ {0},
         NEW g, g[0] = SlideStart,
         \A n \in 1 .. Len(list) : SlideStep(list, slal, g[n - 1], n) \in SlideStates =>
                                       g[n] = SlideStep(list, slal, g[n - 1], n)
  PROVE  \A n \in 0 .. Len(list) : Slid(list, slal, n, g[n])
<1> DEFINE T == {n \in 0 .. Len(list) : Slid(list, slal, n, g[n])}
<1>0. Len(list) \in Nat
  OBVIOUS
<1>1. 0 \in T
  <2>1. g[0] \in SlideStates /\ g[0].tail = 1 /\ g[0].from = 0 /\ g[0].to = 0 /\ g[0].flagged = {}
    BY DEF SlideStates, SlideStart
  <2>2. Slid(list, slal, 0, g[0])
    BY <2>1 DEF Slid
  <2> QED
    BY <2>2, <1>0
<1>2. ASSUME NEW n \in 1 .. Len(list), n - 1 \in T PROVE n \in T
  <2>1. Slid(list, slal, n - 1, g[n - 1])
    BY <1>2
  <2>2. Slid(list, slal, n, SlideStep(list, slal, g[n - 1], n))
    BY <2>1, SlideStepKeeps
  <2>3. SlideStep(list, slal, g[n - 1], n) \in SlideStates
    BY <2>2 DEF Slid
  <2>4. g[n] = SlideStep(list, slal, g[n - 1], n)
    BY <2>3
  <2>5. Slid(list, slal, n, g[n])
    BY <2>2, <2>4
  <2>6. n \in 0 .. Len(list)
    BY <1>0
  <2> QED
    BY <2>5, <2>6
<1> HIDE DEF T
<1>3. 0 .. Len(list) \subseteq T
  BY <1>0, <1>1, <1>2, IntervalInduction
<1> QED
  BY <1>3 DEF T

\* One sliding alarm marks exactly the rows inside a window of its length that has too
\* much rain and no bad data.
LEMMA SlidingSumFlags ==
  ASSUME NEW list \in Seq(Updates), Sorted(list), Alone(list), NEW slal, slal.length \in Nat \ {0},
         NEW i \in 1 .. Len(list)
  PROVE  CheckSlidingSum(list, slal)[i].agg <=>
            list[i].agg \/ \E h \in 1 .. Len(list) : Hot(list, slal, h) /\ i \in InWindow(list, slal, h)
<1> DEFINE N == Len(list)
           step == [p \in SlideStates \X (1 .. N) |->
                        IF SlideStep(list, slal, p[1], p[2]) \in SlideStates
                        THEN SlideStep(list, slal, p[1], p[2]) ELSE SlideStart]
           IsUpTo(f) == f = [n \in 0 .. N |-> IF n = 0 THEN [tail |-> 1, from |-> 0, to |-> 0, flagged |-> {}]
                                              ELSE SlideStep(list, slal, f[n - 1], n)]
           upTo == CHOOSE f : IsUpTo(f)
           flagged == upTo[N].flagged \union (upTo[N].from .. upTo[N].to)
<1>1. CheckSlidingSum(list, slal) = [k \in DOMAIN list |-> [list[k] EXCEPT !.agg = @ \/ k \in flagged]]
  BY DEF CheckSlidingSum
<1>2. N \in Nat
  OBVIOUS
<1>3. SlideStart \in SlideStates
  BY DEF SlideStart, SlideStates
<1>4. step \in [SlideStates \X (1 .. N) -> SlideStates]
  <2> HIDE DEF N
  <2> QED
    BY <1>3
<1>5. \E f \in [0 .. N -> SlideStates] : RecursiveOver(f, N, SlideStart, step)
  <2> HIDE DEF N, step
  <2> QED
    BY ONLY <1>2, <1>3, <1>4, Recursion
<1>6. PICK f \in [0 .. N -> SlideStates] : RecursiveOver(f, N, SlideStart, step)
  BY <1>5
<1>7. f[0] = SlideStart /\ \A n \in 1 .. N : f[n] = step[<<f[n - 1], n>>]
  <2> HIDE DEF N, step
  <2> QED
    BY <1>6 DEF RecursiveOver
<1>8. ASSUME NEW n \in 1 .. N
      PROVE  f[n] = IF SlideStep(list, slal, f[n - 1], n) \in SlideStates
                    THEN SlideStep(list, slal, f[n - 1], n) ELSE SlideStart
  <2>1. f[n - 1] \in SlideStates
    <3>1. n - 1 \in 0 .. N
      BY <1>2
    <3> HIDE DEF N
    <3> QED
      BY <3>1, <1>6
  <2>2. f[n] = step[<<f[n - 1], n>>]
    BY <1>7
  <2> HIDE DEF N
  <2> QED
    BY <2>1, <2>2
<1>9. \A n \in 0 .. N : Slid(list, slal, n, f[n])
  BY <1>7, <1>8, SlideLoop
<1>10. ASSUME NEW n \in 1 .. N PROVE f[n] = SlideStep(list, slal, f[n - 1], n)
  <2>1. n - 1 \in 0 .. N /\ n - 1 + 1 = n
    BY <1>2
  <2>2. Slid(list, slal, n - 1, f[n - 1])
    BY <2>1, <1>9
  <2>3. Slid(list, slal, n, SlideStep(list, slal, f[n - 1], n))
    BY <2>2, SlideStepKeeps
  <2>4. SlideStep(list, slal, f[n - 1], n) \in SlideStates
    BY <2>3 DEF Slid
  <2> QED
    BY <1>8, <2>4
<1>11. IsUpTo(f)
  <2>1. ASSUME NEW n \in 0 .. N
        PROVE  f[n] = IF n = 0 THEN [tail |-> 1, from |-> 0, to |-> 0, flagged |-> {}]
                      ELSE SlideStep(list, slal, f[n - 1], n)
    <3>1. CASE n = 0
      BY <3>1, <1>7 DEF SlideStart
    <3>2. CASE n # 0
      <4>1. n \in 1 .. N
        BY <3>2, <1>2
      <4> QED
        BY <4>1, <1>10, <3>2
    <3> QED
      BY <3>1, <3>2
  <2> HIDE DEF N
  <2> QED
    BY <2>1
<1>12. IsUpTo(upTo)
  <2> HIDE DEF IsUpTo
  <2> QED
    BY <1>11 DEF upTo
<1>13. upTo[0] = SlideStart /\ \A n \in 1 .. N : upTo[n] = SlideStep(list, slal, upTo[n - 1], n)
  <2> HIDE DEF upTo
  <2>1. upTo[0] = SlideStart
    <3>1. 0 \in 0 .. N
      BY <1>2
    <3> HIDE DEF N
    <3> QED
      BY <3>1, <1>12 DEF SlideStart
  <2>2. ASSUME NEW n \in 1 .. N PROVE upTo[n] = SlideStep(list, slal, upTo[n - 1], n)
    <3>1. n \in 0 .. N /\ n # 0
      BY <1>2
    <3> HIDE DEF N
    <3> QED
      BY <3>1, <1>12
  <2> QED
    BY <2>1, <2>2
<1>14. Slid(list, slal, N, upTo[N])
  <2> HIDE DEF upTo
  <2>1. \A n \in 0 .. N : Slid(list, slal, n, upTo[n])
    BY <1>13, SlideLoop
  <2> QED
    BY <2>1, <1>2
<1> HIDE DEF upTo
<1>15. CheckSlidingSum(list, slal)[i].agg <=> list[i].agg \/ i \in flagged
  <2>1. i \in DOMAIN list /\ list[i] \in Updates
    OBVIOUS
  <2>2. CheckSlidingSum(list, slal)[i] = [list[i] EXCEPT !.agg = @ \/ i \in flagged]
    BY <1>1, <2>1
  <2> HIDE DEF flagged
  <2> QED
    BY <2>1, <2>2 DEF Updates
<1>16. i \in flagged <=> i \in upTo[N].flagged \/ i \in upTo[N].from .. upTo[N].to
  OBVIOUS
<1> HIDE DEF flagged
<1> QED
  BY <1>14, <1>15, <1>16 DEF Slid

\* The rain at some positions depends on the values there only.
LEMMA RainSame ==
  ASSUME NEW a, NEW b, NEW S, \A i \in S : a[i].row.original = b[i].row.original
  PROVE  Rain(a, S) = Rain(b, S)
<1> DEFINE R == {i \in S : Rainy(a[i])}
           First(s) == CHOOSE x \in s : TRUE
           Body(c, f) == [s \in SUBSET R |-> IF s = {} THEN 0
                           ELSE c[First(s)].row.original + f[s \ {First(s)}]]
           Is(c, f) == f = Body(c, f)
           iter(c) == CHOOSE f : Is(c, f)
<1>1. R = {i \in S : Rainy(b[i])}
  BY DEF Rainy
<1>2. Rain(a, S) = iter(a)[R]
  BY DEF Rain, MapThenSumSet, MapThenFoldSet
<1>3. Rain(b, S) = iter(b)[R]
  BY <1>1 DEF Rain, MapThenSumSet, MapThenFoldSet
<1>4. ASSUME NEW f PROVE Body(a, f) = Body(b, f)
  <2>1. ASSUME NEW s \in SUBSET R, s # {} PROVE First(s) \in s /\ First(s) \in S
    <3>1. First(s) \in s BY <2>1
    <3>2. s \subseteq S OBVIOUS
    <3> QED BY <3>1, <3>2
  <2> HIDE DEF First
  <2>2. ASSUME NEW s \in SUBSET R
        PROVE  (IF s = {} THEN 0 ELSE a[First(s)].row.original + f[s \ {First(s)}])
               = (IF s = {} THEN 0 ELSE b[First(s)].row.original + f[s \ {First(s)}])
    BY <2>1
  <2> HIDE DEF R
  <2> QED BY <2>2
<1>5. \A f : Is(a, f) <=> Is(b, f)
  <2> HIDE DEF Body
  <2> QED  BY <1>4
<1>6. iter(a) = iter(b)
  <2> HIDE DEF Is
  <2> QED BY <1>5, Zenon
<1> QED
  <2> HIDE DEF iter
  <2> QED BY <1>2, <1>3, <1>6

\* Windows and what they hold depend on times, values and bad data only.
LEMMA WindowsSame ==
  ASSUME NEW a, NEW b, DOMAIN a = DOMAIN b,
         \A i \in DOMAIN a : /\ a[i].t = b[i].t /\ a[i].row.original = b[i].row.original
                             /\ IsBadData(a[i]) <=> IsBadData(b[i]),
         NEW slal, NEW h \in DOMAIN a
  PROVE  InWindow(a, slal, h) = InWindow(b, slal, h) /\ (Hot(a, slal, h) <=> Hot(b, slal, h))
<1> DEFINE w == InWindow(a, slal, h)
<1>1. w = InWindow(b, slal, h)
  BY DEF InWindow
<1>2. \A i \in w : i \in DOMAIN a
  BY DEF InWindow
<1> HIDE DEF w
<1>3. Rain(a, w) = Rain(b, w)
  BY <1>2, RainSame
<1>4. (\A k \in w : ~IsBadData(a[k])) <=> \A k \in w : ~IsBadData(b[k])
  BY <1>2
<1> QED
  BY <1>1, <1>3, <1>4 DEF Hot, w

\* No made-up row has the time of a good row.
Apart == \A i, j \in DOMAIN data : data[i].isNew /\ ~data[j].isNew /\ ~IsBadData(data[j]) => data[i].t # data[j].t

\* What SumsAreWindows says of the alarms that are done, while the list is in order.
Summed ==
    /\ pc = "days" => alarm = Len(SlidingAlarms) + 1
    /\ pc \in {"sums", "days"} /\ InOrder =>
        \A i \in DOMAIN data :
            data[i].agg <=>
                \E a \in 1 .. alarm - 1, h \in DOMAIN data :
                    Hot(data, SlidingAlarms[a], h) /\ i \in InWindow(data, SlidingAlarms[a], h)

\* A good row shares its minute with no other row of the list.
LEMMA GoodRowsAlone ==
  ASSUME Inv, Apart  PROVE Alone(data)
<1> SUFFICES ASSUME NEW i \in DOMAIN data, NEW j \in DOMAIN data, i # j, ~IsBadData(data[j])
             PROVE  data[i].t # data[j].t
  BY DEF Alone
<1>1. ~data[j].isNew
  BY DEF Inv, Listed, Kept
<1>2. CASE data[i].isNew
  BY <1>1, <1>2 DEF Apart
<1>3. CASE ~data[i].isNew
  <2>1. i \in Int /\ j \in Int /\ data[i].t \in Int /\ data[j].t \in Int
    BY ListFacts DEF Inv, Listed
  <2>2. CASE i < j
    <3>1. data[i].t < data[j].t
      BY <1>1, <1>3, <2>2 DEF Inv, Listed
    <3> QED
      BY <2>1, <3>1
  <2>3. CASE j < i
    <3>1. data[j].t < data[i].t
      BY <1>1, <1>3, <2>3 DEF Inv, Listed
    <3> QED
      BY <2>1, <3>1
  <2> QED
    BY <2>1, <2>2, <2>3
<1> QED
  BY <1>2, <1>3

\* Flags do not bring made-up rows and good ones to the same minute.
LEMMA ApartTouched ==
  ASSUME Apart, data \in Seq(Updates), data' \in Seq(Updates), Len(data') = Len(data),
         \A i \in 1 .. Len(data) : Touched(data[i], data'[i])
  PROVE  Apart'
<1>1. DOMAIN data = 1 .. Len(data) /\ DOMAIN data' = 1 .. Len(data)
  BY LenProperties
<1>2. \A i \in 1 .. Len(data) : /\ data'[i].isNew = data[i].isNew /\ data'[i].t = data[i].t
                                /\ IsBadData(data[i]) => IsBadData(data'[i])
  BY DEF Touched
<1> QED
  BY <1>1, <1>2 DEF Apart

\* A step that leaves times, values, bad data and marks alone leaves the sums as they are.
LEMMA SummedSame ==
  ASSUME Summed, pc \in {"sums", "days"}, alarm' = alarm, pc' = "days" => alarm = Len(SlidingAlarms) + 1,
         data \in Seq(Updates), data' \in Seq(Updates), Len(data') = Len(data),
         \A i \in 1 .. Len(data) : /\ data'[i].t = data[i].t /\ data'[i].agg = data[i].agg
                                   /\ data'[i].row.original = data[i].row.original
                                   /\ IsBadData(data'[i]) <=> IsBadData(data[i])
  PROVE  Summed'
<1>1. DOMAIN data = 1 .. Len(data) /\ DOMAIN data' = DOMAIN data
  BY LenProperties
<1>2. InOrder' => InOrder
  BY <1>1 DEF InOrder
<1>3. ASSUME NEW i \in DOMAIN data, NEW a, NEW h \in DOMAIN data
      PROVE  Hot(data, SlidingAlarms[a], h) /\ i \in InWindow(data, SlidingAlarms[a], h)
             <=> Hot(data', SlidingAlarms[a], h) /\ i \in InWindow(data', SlidingAlarms[a], h)
  BY <1>1, WindowsSame
<1> QED
  BY <1>1, <1>2, <1>3 DEF Summed

\* The next alarm adds the marks of its windows.
LEMMA SumStep ==
  ASSUME Inv, Apart, Summed, CheckSlidingSums
  PROVE  Summed'
<1> DEFINE slal == SlidingAlarms[alarm]
<1>1. /\ pc = "sums" /\ pc' = "sums" /\ alarm' = alarm + 1 /\ alarm <= Len(SlidingAlarms)
      /\ data' = CheckSlidingSum(data, slal)
  BY DEF CheckSlidingSums
<1>2. alarm \in 1 .. Len(SlidingAlarms) /\ alarm \in Nat
  BY <1>1, ParameterAssumption, LenProperties DEF Inv, TypeOK
<1>3. slal.length \in Nat \ {0}
  <2>1. slal \in [length : Nat \ {0, 1}, max : Nat \ {0}]
    <3> DEFINE S == [length : Nat \ {0, 1}, max : Nat \ {0}]
    <3>1. SlidingAlarms \in Seq(S)
      BY ParameterAssumption
    <3> HIDE DEF S
    <3>2. \A k \in 1 .. Len(SlidingAlarms) : SlidingAlarms[k] \in S
      BY <3>1
    <3> QED
      BY <1>2, <3>2 DEF S
  <2> QED
    BY <2>1
<1>4. /\ data \in Seq(Updates) /\ data' \in Seq(Updates) /\ Len(data') = Len(data)
      /\ \A i \in 1 .. Len(data) : Touched(data[i], data'[i]) /\ data'[i].row = data[i].row
  BY <1>1, SumsTouched DEF Inv, Listed
<1>5. DOMAIN data = 1 .. Len(data) /\ DOMAIN data' = DOMAIN data
  BY <1>4, LenProperties
<1>6. ASSUME NEW i \in DOMAIN data
      PROVE  /\ data'[i].t = data[i].t /\ data'[i].row.original = data[i].row.original
             /\ IsBadData(data'[i]) <=> IsBadData(data[i])
  BY <1>4, <1>5 DEF Touched, IsBadData
<1>7. ASSUME NEW i \in DOMAIN data, NEW a, NEW h \in DOMAIN data
      PROVE  Hot(data, SlidingAlarms[a], h) /\ i \in InWindow(data, SlidingAlarms[a], h)
             <=> Hot(data', SlidingAlarms[a], h) /\ i \in InWindow(data', SlidingAlarms[a], h)
  <2>1. InWindow(data, SlidingAlarms[a], h) = InWindow(data', SlidingAlarms[a], h)
        /\ (Hot(data, SlidingAlarms[a], h) <=> Hot(data', SlidingAlarms[a], h))
    <3> HIDE DEF slal
    <3> QED
      BY <1>5, <1>6, WindowsSame
  <2> QED
    BY <2>1
<1>8. Alone(data)
  BY GoodRowsAlone
<1>9. ASSUME InOrder', NEW i \in DOMAIN data
      PROVE  data'[i].agg <=>
                \E a \in 1 .. alarm, h \in DOMAIN data :
                    Hot(data, SlidingAlarms[a], h) /\ i \in InWindow(data, SlidingAlarms[a], h)
  <2>1. InOrder /\ Sorted(data)
    BY <1>5, <1>6, <1>9 DEF InOrder, Sorted
  <2>2. data'[i].agg <=> data[i].agg \/ \E h \in 1 .. Len(data) : Hot(data, slal, h) /\ i \in InWindow(data, slal, h)
    <3> HIDE DEF slal
    <3> QED
      BY <1>1, <1>3, <1>4, <1>5, <1>8, <2>1, SlidingSumFlags
  <2>3. data[i].agg <=> \E a \in 1 .. alarm - 1, h \in DOMAIN data :
                            Hot(data, SlidingAlarms[a], h) /\ i \in InWindow(data, SlidingAlarms[a], h)
    BY <1>1, <2>1 DEF Summed
  <2>4. \A a : a \in 1 .. alarm <=> a \in 1 .. alarm - 1 \/ a = alarm
    BY <1>2
  <2> QED
    BY <1>5, <2>2, <2>3, <2>4
<1>10. alarm' - 1 = alarm
  BY <1>1, <1>2
<1> QED
  BY <1>1, <1>5, <1>7, <1>9, <1>10 DEF Summed

\* No mark of silence is at the minute of a good row.
LEMMA DiscardAllApart ==
  ASSUME Inv, DiscardAllNonOperationalTimes
  PROVE  Apart'
<1>1. PICK m \in Seq(Updates) :
            /\ Silenced(m, Len(m), UT0extended, ut1, data')
            /\ \A i \in DOMAIN m : Fresh(m[i])
  BY DiscardAllStep
<1>2. ASSUME NEW i \in DOMAIN data', NEW j \in DOMAIN data', data'[i].isNew, ~data'[j].isNew, ~IsBadData(data'[j])
      PROVE  data'[i].t # data'[j].t
  <2>0. DOMAIN m = 1 .. Len(m)
    BY LenProperties
  <2>1. IsSilence(data'[i])
    BY <1>1, <1>2, <2>0 DEF Silenced, Fresh
  <2>2. PICK k \in DOMAIN m : data'[j] = m[k]
    BY <1>1, <1>2, <2>0 DEF Silenced, IsSilence
  <2>3. ~Discarded(m[k].row)
    BY <1>2, <2>2 DEF IsBadData
  <2> QED
    BY <1>1, <2>1, <2>2, <2>3 DEF Silenced
<1> QED
  BY <1>2 DEF Apart

\* Where the rows come from when an interruption is flagged: each is a row from before,
\* but for flags, or an inserted one, at a minute of the interruption without a row.
LEMMA InterruptionRows ==
  ASSUME Inv, RainInterruption
  PROVE  \E s, n :
            /\ n \in Nat /\ DOMAIN data' = 1 .. Len(data) + n
            /\ previous.last \in DOMAIN data
            /\ ~data[previous.last].isNew /\ ~IsBadData(data[previous.last])
            /\ \A t \in Gap(s, previous) : data[previous.last].t < t /\ UT0extended <= t /\ t <= ut1
            /\ \A k \in DOMAIN data : ~data[k].isNew /\ data[k].t \in Gap(s, previous) =>
                    k \in GapRow(s, previous, data[k].t)
            /\ \A k \in DOMAIN data : \E i \in DOMAIN data' : Touched(data[k], data'[i])
            /\ \A i \in DOMAIN data' :
                    \/ \E k \in DOMAIN data : Touched(data[k], data'[i])
                    \/ /\ data'[i].isNew /\ data'[i].t \in Gap(s, previous)
                       /\ GapRow(s, previous, data'[i].t) = {}
<1>1. PICK s, n :
            /\ s = FindNextShower /\ s # NoShower /\ CheckRainInterruption(s, previous)
            /\ IsShower(s, previous.last + 1) /\ previous # NoShower
            /\ Interrupted(s, previous, data', n)
  BY RainInterruptionStep
<1> DEFINE L == Len(data)
           a == s.first
           b == previous.last
<1>3. /\ L \in Nat /\ DOMAIN data = 1 .. L /\ data \in Seq(Updates)
      /\ \A i \in 1 .. L : data[i].t \in Int /\ data[i] \in Updates
  BY ListFacts DEF Inv, Listed
<1>4. a \in 1 .. L /\ b \in 1 .. L /\ n \in Nat /\ b < a
  BY <1>1, <1>3, NextShowerFacts, PreviousRows DEF Interrupted
<1>5. DOMAIN data' = 1 .. L + n
  BY <1>1, LenProperties DEF Interrupted
\* The two showers end and begin with rain, which no made-up row has.
<1>6. ~data[a].isNew /\ ~data[b].isNew /\ ~IsBadData(data[b])
  <2>1. Rainy(data[a])
    BY <1>1, <1>4 DEF IsShower
  <2>2. Rainy(data[b])
    <3>1. pc = "showers" /\ previous.first <= previous.last /\ previous.first \in Nat /\ previous.last \in Nat
      BY <1>1 DEF RainInterruption, NextShower, Inv, Loops
    <3>2. previous.last \in previous.first .. previous.last
      BY <3>1
    <3> QED
      BY <1>1, <3>1, <3>2 DEF Inv, TypeOK
  <2>3. ~IsBadData(data[b])
    BY <1>1 DEF CheckRainInterruption
  <2> QED
    BY <1>3, <1>4, <2>1, <2>2, <2>3 DEF Inv, Listed, Kept
<1>7. \A t \in Gap(s, previous) : data[b].t < t /\ t < data[a].t /\ UT0extended <= t /\ t <= ut1
  <2>1. UT0extended <= data[b].t /\ data[a].t <= ut1 /\ data[b].t \in Int /\ data[a].t \in Int
    BY <1>3, <1>4 DEF Inv, Listed
  <2>2. UT0extended \in Int /\ ut1 \in Int
    BY RunWindow DEF Inv, TypeOK
  <2>3. Gap(s, previous) = data[b].t + 1 .. data[a].t - 1
    BY DEF Gap
  <2> HIDE DEF a, b
  <2> QED
    BY <2>1, <2>2, <2>3
<1> HIDE DEF L, a, b
<1>8. ASSUME NEW i \in 1 .. L + n
      PROVE  \/ \E k \in 1 .. L : Touched(data[k], data'[i])
             \/ data'[i].isNew /\ data'[i].t \in Gap(s, previous) /\ GapRow(s, previous, data'[i].t) = {}
  <2>1. \/ i \in 1 .. a - 1 /\ i \in 1 .. L
        \/ i \in a .. a + n - 1
        \/ i \in a + n .. L + n /\ i - n \in 1 .. L
    BY <1>3, <1>4
  <2>2. CASE i \in a + n .. L + n /\ i - n \in 1 .. L
    <3>1. data'[i] = data[i - n] /\ Kept(data[i - n]) /\ data[i - n] \in Updates
      BY <1>1, <1>3, <2>2 DEF Interrupted, a, L, Inv, Listed
    <3> QED
      BY <2>2, <3>1, TouchedSame
  <2> QED
    BY <1>1, <2>1, <2>2 DEF Interrupted, a, L
<1>9. ASSUME NEW k \in 1 .. L
      PROVE  \E i \in 1 .. L + n : Touched(data[k], data'[i])
  <2>1. CASE k \in 1 .. a - 1
    <3>1. k \in 1 .. L + n
      BY <1>3, <1>4
    <3> QED
      BY <1>1, <2>1, <3>1 DEF Interrupted, a
  <2>2. CASE k \in a .. L
    <3>1. k + n \in 1 .. L + n /\ k + n \in a + n .. L + n /\ (k + n) - n = k
      BY <1>3, <1>4, <2>2
    <3>2. data'[k + n] = data[(k + n) - n]
      BY <1>1, <3>1 DEF Interrupted, a, L
    <3>3. Touched(data[k], data[k])
      BY <1>3, TouchedSame DEF Inv, Listed
    <3> QED
      BY <3>1, <3>2, <3>3
  <2>3. k \in 1 .. a - 1 \/ k \in a .. L
    BY <1>3, <1>4
  <2> QED
    BY <2>1, <2>2, <2>3
<1>10. ASSUME NEW k \in 1 .. L, ~data[k].isNew, data[k].t \in Gap(s, previous)
       PROVE  k \in GapRow(s, previous, data[k].t)
  <2>1. data[b].t < data[k].t /\ data[k].t < data[a].t
    BY <1>7, <1>10
  <2>2. \A x, y \in 1 .. L : x < y /\ ~data[x].isNew /\ ~data[y].isNew => data[x].t < data[y].t
    BY <1>3 DEF Inv, Listed
  <2>3. ~(k < b) /\ ~(a < k) /\ k # a
    BY <1>3, <1>4, <1>6, <1>10, <2>1, <2>2
  <2>4. k \in b .. a - 1
    BY <1>4, <2>3
  <2> QED
    BY <2>4 DEF GapRow, a, b
<1>11. /\ b \in DOMAIN data /\ ~data[b].isNew /\ ~IsBadData(data[b]) /\ n \in Nat
       /\ \A t \in Gap(s, previous) : data[b].t < t /\ UT0extended <= t /\ t <= ut1
  BY <1>3, <1>4, <1>6, <1>7
<1> QED
  BY <1>3, <1>5, <1>8, <1>9, <1>10, <1>11 DEF b, L

\* No row is inserted at the minute of a good row.
LEMMA RainInterruptionApart ==
  ASSUME Inv, Apart, RainInterruption
  PROVE  Apart'
<1>1. PICK s, n :
            /\ \A k \in DOMAIN data : ~data[k].isNew /\ data[k].t \in Gap(s, previous) =>
                    k \in GapRow(s, previous, data[k].t)
            /\ \A i \in DOMAIN data' :
                    \/ \E k \in DOMAIN data : Touched(data[k], data'[i])
                    \/ /\ data'[i].isNew /\ data'[i].t \in Gap(s, previous)
                       /\ GapRow(s, previous, data'[i].t) = {}
  BY InterruptionRows
<1>2. ASSUME NEW i \in DOMAIN data', NEW j \in DOMAIN data', data'[i].isNew, ~data'[j].isNew, ~IsBadData(data'[j])
      PROVE  data'[i].t # data'[j].t
  <2>1. PICK k \in DOMAIN data : Touched(data[k], data'[j])
    BY <1>1, <1>2
  <2>2. ~data[k].isNew /\ ~IsBadData(data[k]) /\ data'[j].t = data[k].t
    BY <1>2, <2>1 DEF Touched
  <2>3. CASE \E l \in DOMAIN data : Touched(data[l], data'[i])
    <3>1. PICK l \in DOMAIN data : Touched(data[l], data'[i])
      BY <2>3
    <3> QED
      BY <1>2, <2>2, <3>1 DEF Touched, Apart
  <2>4. CASE data'[i].t \in Gap(s, previous) /\ GapRow(s, previous, data'[i].t) = {}
    BY <1>1, <2>2, <2>4
  <2> QED
    BY <1>1, <1>2, <2>3, <2>4
<1> QED
  BY <1>2 DEF Apart

\* What is known of the sums holds at first,
LEMMA SumsInit == Init => Apart /\ Summed
<1> SUFFICES ASSUME Init PROVE Apart /\ Summed
  OBVIOUS
<1>1. DOMAIN data = {} /\ pc = "idle"
  BY DEF Init
<1> QED
  BY <1>1 DEF Apart, Summed

\* at the end of a run,
LEMMA IdleSums ==
  ASSUME BackToIdle  PROVE Apart' /\ Summed'
<1>1. DOMAIN data' = {} /\ pc' = "idle"
  BY DEF BackToIdle
<1> QED
  BY <1>1 DEF Apart, Summed

\* after each step of a run
LEMMA StepSums ==
  ASSUME Inv, Apart, Summed, Step
  PROVE  Apart' /\ Summed'
<1>0. data \in Seq(Updates) /\ DOMAIN data = 1 .. Len(data)
  BY ListFacts DEF Inv, Listed
<1>1. CASE DiscardAllNonOperationalTimes
  <2>1. pc' = "showers"
    BY <1>1 DEF DiscardAllNonOperationalTimes
  <2> QED
    BY <1>1, <2>1, DiscardAllApart DEF Summed
<1>2. CASE RainInterruption
  <2>1. pc' = "showers"
    BY <1>2 DEF RainInterruption, NextShower
  <2> QED
    BY <1>2, <2>1, RainInterruptionApart DEF Summed
<1>3. CASE OtherShower
  <2>1. pc' = "showers"
    BY <1>3 DEF OtherShower, NextShower
  <2>2. /\ data' \in Seq(Updates) /\ Len(data') = Len(data)
        /\ \A i \in 1 .. Len(data) : Touched(data[i], data'[i])
    BY <1>3, OtherShowerStep
  <2> QED
    BY <1>0, <2>1, <2>2, ApartTouched DEF Summed
<1>4. CASE NoMoreShowers
  <2>1. pc = "showers" /\ pc' = "sums" /\ data' = data /\ alarm' = alarm /\ alarm = 1
    BY <1>4 DEF NoMoreShowers, Inv, Loops, loopVars
  <2>2. \A i \in DOMAIN data : ~data[i].agg
    BY <2>1 DEF Inv, Loops
  <2>3. 1 .. alarm' - 1 = {}
    BY <2>1
  <2> QED
    BY <2>1, <2>2, <2>3 DEF Apart, Summed
<1>5. CASE CheckSlidingSums
  <2>1. /\ data' \in Seq(Updates) /\ Len(data') = Len(data)
        /\ \A i \in 1 .. Len(data) : Touched(data[i], data'[i])
    BY <1>5, SumsTouched DEF CheckSlidingSums, Inv, Listed
  <2> QED
    BY <1>0, <1>5, <2>1, ApartTouched, SumStep
<1>6. CASE SkipFirstDay
  <2>1. pc = "sums" /\ pc' = "days" /\ data' = data /\ alarm' = alarm /\ alarm = Len(SlidingAlarms) + 1
    <3>1. alarm \in 1 .. Len(SlidingAlarms) + 1 /\ alarm > Len(SlidingAlarms) /\ Len(SlidingAlarms) \in Nat
      BY <1>6, ParameterAssumption, LenProperties DEF SkipFirstDay, Inv, TypeOK
    <3> QED
      BY <1>6, <3>1 DEF SkipFirstDay
  <2>2. Summed'
    BY <1>0, <2>1, SummedSame
  <2> QED
    BY <2>1, <2>2 DEF Apart
<1>7. CASE LeaveDay
  <2>1. pc = "days" /\ pc' = "days" /\ data' = data /\ alarm' = alarm
    BY <1>7 DEF LeaveDay, CheckDay
  <2>2. Summed'
    BY <1>0, <2>1, SummedSame DEF Summed
  <2> QED
    BY <2>1, <2>2 DEF Apart
<1>8. CASE CompareDay
  <2>1. pc = "days" /\ pc' = "days" /\ alarm' = alarm
    BY <1>8 DEF CompareDay, CheckDay
  <2>2. /\ data' \in Seq(Updates) /\ Len(data') = Len(data)
        /\ \A i \in 1 .. Len(data) :
                /\ Touched(data[i], data'[i]) /\ data'[i].agg = data[i].agg
                /\ IsBadData(data'[i]) => IsBadData(data[i])
    BY <1>8, CompareDayStep
  <2>3. \A i \in 1 .. Len(data) : /\ data'[i].t = data[i].t /\ data'[i].agg = data[i].agg
                                  /\ data'[i].row.original = data[i].row.original
                                  /\ IsBadData(data'[i]) <=> IsBadData(data[i])
    BY <2>2 DEF Touched
  <2>4. Summed'
    BY <1>0, <2>1, <2>2, <2>3, SummedSame DEF Summed
  <2> QED
    BY <1>0, <2>2, <2>4, ApartTouched
<1>9. CASE StoreUpdates \/ StoreRefused
  BY <1>9, IdleSums DEF StoreUpdates, StoreRefused
<1> QED
  BY <1>1, <1>2, <1>3, <1>4, <1>5, <1>6, <1>7, <1>8, <1>9 DEF Step

\* and after every step.
LEMMA NextSums ==
  ASSUME Inv, Apart, Summed, [Next]_vars
  PROVE  Apart' /\ Summed'
<1>1. ASSUME NEW start \in Starts, CheckStation(start) PROVE Apart' /\ Summed'
  <2>1. pc' = "discard" /\ \A i \in DOMAIN data' : ~data'[i].isNew
    BY <1>1 DEF CheckStation, Update
  <2> QED
    BY <2>1 DEF Apart, Summed
<1>2. CASE UNCHANGED <<pc, data, alarm>>
  <2>1. pc' = pc /\ data' = data /\ alarm' = alarm
    BY <1>2
  <2> QED
    BY <2>1 DEF Apart, Summed, InOrder
<1>3. CASE Outside
  <2>1. CASE Abort
    BY <2>1, IdleSums DEF Abort
  <2>2. CASE UNCHANGED runVars
    BY <1>2, <2>2 DEF runVars, loopVars
  <2> QED
    BY <1>3, <2>1, <2>2 DEF Outside, Observe, Hqc, NeighboursReport
<1>4. CASE UNCHANGED vars
  BY <1>2, <1>4 DEF vars, runVars, loopVars
<1> QED
  BY <1>1, <1>3, <1>4, StepSums DEF Next

\* In all states made-up rows and good rows are at different minutes, and the marks are
\* those of the alarms that are done.
LEMMA PlumaticSums == Spec => [](Apart /\ Summed)
<1>1. Inv /\ Apart /\ Summed /\ [Next]_vars => (Apart /\ Summed)'
  BY NextSums
<1> QED
  BY PlumaticInv, SumsInit, <1>1, PTL DEF Spec

\* The incremental sums of checkSlidingSum flag exactly the rows inside a window of some
\* alarm's length that has too much rain and no bad data, for all lists in the order of
\* time, all alarms, and whatever showers and silences did to the list before.
THEOREM PlumaticSumsAreWindows == Spec => []SumsAreWindows
<1>1. Inv /\ Summed => SumsAreWindows
  <2> SUFFICES ASSUME Inv, Summed, pc = "days", InOrder, NEW i \in DOMAIN data
               PROVE  data[i].agg <=>
                        \E a \in DOMAIN SlidingAlarms, head \in DOMAIN data :
                            LET w == Window(SlidingAlarms[a], head)
                            IN  /\ i \in w /\ Rain(data, w) >= SlidingAlarms[a].max
                                /\ \A k \in w : ~IsBadData(data[k])
    BY DEF SumsAreWindows
  <2>1. DOMAIN SlidingAlarms = 1 .. alarm - 1
    <3>1. Len(SlidingAlarms) \in Nat /\ DOMAIN SlidingAlarms = 1 .. Len(SlidingAlarms)
      BY ParameterAssumption, LenProperties
    <3> QED
      BY <3>1 DEF Summed
  <2>2. data[i].agg <=> \E a \in 1 .. alarm - 1, h \in DOMAIN data :
                            Hot(data, SlidingAlarms[a], h) /\ i \in InWindow(data, SlidingAlarms[a], h)
    BY DEF Summed
  <2>3. \A a, h : Window(SlidingAlarms[a], h) = InWindow(data, SlidingAlarms[a], h)
    BY DEF Window, InWindow
  <2> QED
    BY <2>1, <2>2, <2>3 DEF Hot
<1> QED
  BY PlumaticInv, PlumaticSums, <1>1, PTL

\* What the list knows of the table while nothing comes from outside: its rows are
\* those of the table, and a row of the table that it does not have was switched off,
\* or lies behind rows that begin switched-off times.
Remembered ==
    calm /\ pc # "idle" =>
        /\ \A i \in DOMAIN data : ~data[i].isNew => data[i].was = table[data[i].t]
        /\ \A m \in ReadMinutes(ut0) :
                \/ \E i \in DOMAIN data : ~data[i].isNew /\ data[i].t = m
                \/ pc # "discard" /\ SwitchedOff(m)
                \/ pc # "discard" /\ \A i \in DOMAIN data : ~data[i].isNew /\ data[i].t < m => data[i].start
        /\ \A i \in DOMAIN data :
                data[i].isNew /\ ~data[i].noWrite /\ data[i].t \in DOMAIN table => SwitchedOff(data[i].t)

\* A row that discardNonOperationalTime erased lies in a switched-off time by the markers
\* of the table, if nothing came from outside since they were read.
LEMMA SwitchedOffRow ==
  ASSUME Inv, pc = "discard",
         \A i \in DOMAIN data : data[i].row = table[data[i].t],
         \A m \in ReadMinutes(ut0) : \E i \in DOMAIN data : data[i].t = m,
         NEW k \in DOMAIN data, OffAt(data, k, Len(data))
  PROVE  SwitchedOff(data[k].t)
<1> DEFINE N == Len(data)
           t == data[k].t
           before == {m \in ReadMinutes(ut0) : m < t /\ Marker(m)}
           after == {m \in ReadMinutes(ut0) : m > t /\ Marker(m)}
<1>1. /\ N \in Nat /\ DOMAIN data = 1 .. N
      /\ \A i \in 1 .. N : data[i].t \in Minutes /\ data[i].t \in Int
  BY ListFacts DEF Inv, Listed
<1>2. \A i, j \in 1 .. N : i < j => data[i].t < data[j].t
  BY <1>1 DEF Inv, Listed, Loops, Fresh
<1>3. \A i, j \in 1 .. N : data[i].t < data[j].t => i < j
  <2>1. ASSUME NEW i \in 1 .. N, NEW j \in 1 .. N, data[i].t < data[j].t PROVE i < j
    <3>1. i # j
      BY <1>1, <2>1
    <3>2. ~(j < i)
      BY <1>1, <1>2, <2>1
    <3> QED
      BY <1>1, <3>1, <3>2
  <2> QED
    BY <2>1
<1>4. \A i \in 1 .. N : data[i].t \in ReadMinutes(ut0)
  BY <1>1 DEF Inv, Listed, Loops, Fresh, ReadMinutes, UT0extended, ut1
<1>5. \A i \in 1 .. N : Marker(data[i].t) <=> IsMarker(data[i])
  BY <1>1, <1>4 DEF Marker, IsMarker, ReadMinutes
<1>6. /\ before \in SUBSET (0 .. LastMinute) /\ after \in SUBSET (0 .. LastMinute)
      /\ 0 \in Int /\ LastMinute \in Int
  BY Times DEF ReadMinutes, Inv, TypeOK, Minutes
<1>7. ASSUME StartsBefore(data, k)
      PROVE  before # {} /\ table[Max(before)].original = StartBad
  <2>1. PICK s \in 1 .. k - 1 :
            /\ IsMarker(data[s]) /\ data[s].row.original = StartBad
            /\ \A x \in s + 1 .. k - 1 : ~IsMarker(data[x])
    BY <1>7 DEF StartsBefore
  <2>2. s \in 1 .. N /\ s < k
    BY <1>1
  <2>3. data[s].t \in before
    BY <1>1, <1>2, <1>4, <1>5, <2>1, <2>2
  <2>4. Max(before) \in before /\ data[s].t <= Max(before)
    <3> HIDE DEF before
    <3> QED
      BY <1>6, <2>3, MaxOfSome
  <2>5. PICK x \in 1 .. N : data[x].t = Max(before)
    BY <1>1, <2>4
  <2>6. data[x].t < t /\ IsMarker(data[x]) /\ data[s].t <= data[x].t
    BY <1>5, <2>4, <2>5
  <2> HIDE DEF before
  <2>7. x < k /\ ~(x < s)
    BY <1>1, <1>2, <1>3, <2>2, <2>6
  <2>8. ~(x \in s + 1 .. k - 1)
    BY <2>1, <2>6
  <2>9. x = s
    BY <1>1, <2>2, <2>7, <2>8
  <2> QED
    BY <1>1, <2>1, <2>2, <2>3, <2>5, <2>9
<1>8. ASSUME EndsAfter(data, k, N)
      PROVE  after # {} /\ table[Min(after)].original = EndBad
  <2>1. PICK e \in k + 1 .. N :
            /\ IsMarker(data[e]) /\ data[e].row.original = EndBad
            /\ \A x \in k + 1 .. e - 1 : ~IsMarker(data[x])
    BY <1>8 DEF EndsAfter
  <2>2. e \in 1 .. N /\ k < e
    BY <1>1
  <2>3. data[e].t \in after
    BY <1>1, <1>2, <1>4, <1>5, <2>1, <2>2
  <2>4. Min(after) \in after /\ Min(after) <= data[e].t
    <3>1. after \in SUBSET Int /\ \A m \in after : 0 <= m
      BY <1>6
    <3> HIDE DEF after
    <3> QED
      BY <1>6, <2>3, <3>1, MinOfSome
  <2>5. PICK x \in 1 .. N : data[x].t = Min(after)
    BY <1>1, <2>4
  <2>6. t < data[x].t /\ IsMarker(data[x]) /\ data[x].t <= data[e].t
    BY <1>1, <1>5, <2>4, <2>5
  <2> HIDE DEF after
  <2>7. k < x /\ ~(e < x)
    BY <1>1, <1>2, <1>3, <2>2, <2>6
  <2>8. ~(x \in k + 1 .. e - 1)
    BY <2>1, <2>6
  <2>9. x = e
    BY <1>1, <2>2, <2>7, <2>8
  <2> QED
    BY <1>1, <2>1, <2>2, <2>3, <2>5, <2>9
<1> HIDE DEF before, after
<1>9. (before # {} /\ table[Max(before)].original = StartBad)
        \/ (after # {} /\ table[Min(after)].original = EndBad)
  BY <1>7, <1>8 DEF OffAt
<1> QED
  BY <1>9 DEF SwitchedOff, before, after

\* The list has all rows of the window when it is read.
LEMMA CheckStationRemembers ==
  ASSUME Inv, NEW start \in Starts, CheckStation(start)
  PROVE  Remembered'
<1> DEFINE S == ReadMinutes(start)
           read == InTime(S)
<1>1. ut0' = start /\ table' = table /\ pc' = "discard"
  BY DEF CheckStation, tableVars
<1>2. S \in SUBSET Minutes
  BY DEF ReadMinutes, Inv, TypeOK
<1>3. ReadMinutes(ut0)' = S
  BY <1>1 DEF ReadMinutes
<1> HIDE DEF S
<1>4. \A m \in S : \E i \in DOMAIN read : read[i] = m
  BY <1>2, InTimeList
<1>5. data' = [i \in DOMAIN read |-> Update(read[i], table[read[i]])]
  BY DEF CheckStation, S
<1> HIDE DEF read
<1>6. \A i \in DOMAIN data' : ~data'[i].isNew /\ data'[i].was = table[data'[i].t] /\ data'[i].t = read[i]
  BY <1>5 DEF Update
<1>7. DOMAIN data' = DOMAIN read
  BY <1>5
<1> QED
  BY <1>1, <1>3, <1>4, <1>6, <1>7 DEF Remembered

\* Rows are erased only where the station was switched off, or behind a row that is
\* marked as the beginning of such a time.
LEMMA DiscardAllRemembers ==
  ASSUME Inv, Remembered, DiscardAllNonOperationalTimes
  PROVE  Remembered'
<1> SUFFICES ASSUME calm PROVE Remembered'
  <2>1. calm' = calm
    BY DEF DiscardAllNonOperationalTimes, historyVars
  <2> QED
    BY <2>1 DEF Remembered
<1>1. pc = "discard" /\ pc' = "showers" /\ ut0' = ut0 /\ table' = table
  BY DEF DiscardAllNonOperationalTimes, tableVars
<1>2. \A i \in DOMAIN data : Fresh(data[i]) /\ data[i].row = table[data[i].t]
  BY <1>1 DEF Inv, Loops, Remembered, Fresh
<1>3. \A m \in ReadMinutes(ut0) : \E i \in DOMAIN data : data[i].t = m
  BY <1>1 DEF Remembered
<1>4. PICK m \in Seq(Updates) :
            /\ Silenced(m, Len(m), UT0extended, ut1, data')
            /\ \A i \in DOMAIN m :
                    /\ Fresh(m[i])
                    /\ \E k \in DOMAIN data : m[i].t = data[k].t /\ m[i].row = data[k].row
            /\ \A k \in DOMAIN data :
                    \/ \E i \in DOMAIN m : m[i].t = data[k].t
                    \/ OffAt(data, k, Len(data))
                    \/ \A i \in DOMAIN m : m[i].t < data[k].t => m[i].start
  BY DiscardAllStep
<1>5. DOMAIN m = 1 .. Len(m)
  BY LenProperties
<1>6. \A i \in DOMAIN m : \E j \in DOMAIN data' : data'[j] = m[i]
  BY <1>4, <1>5 DEF Silenced
<1>7. \A j \in DOMAIN data' : \/ data'[j].isNew /\ data'[j].noWrite
                              \/ \E i \in DOMAIN m : data'[j] = m[i]
  BY <1>4, <1>5 DEF Silenced, IsSilence
<1>8. \A i \in DOMAIN m : ~m[i].isNew /\ m[i].was = table[m[i].t]
  BY <1>2, <1>4 DEF Fresh
<1>9. ASSUME NEW x \in ReadMinutes(ut0)
      PROVE  \/ \E j \in DOMAIN data' : ~data'[j].isNew /\ data'[j].t = x
             \/ SwitchedOff(x)
             \/ \A j \in DOMAIN data' : ~data'[j].isNew /\ data'[j].t < x => data'[j].start
  <2>1. PICK k \in DOMAIN data : data[k].t = x
    BY <1>3
  <2>2. CASE \E i \in DOMAIN m : m[i].t = x
    BY <1>6, <1>8, <2>2
  <2>3. CASE OffAt(data, k, Len(data))
    BY <1>1, <1>2, <1>3, <2>1, <2>3, SwitchedOffRow
  <2>4. CASE \A i \in DOMAIN m : m[i].t < x => m[i].start
    BY <1>7, <2>4
  <2> QED
    BY <1>4, <2>1, <2>2, <2>3, <2>4
<1>10. ReadMinutes(ut0)' = ReadMinutes(ut0) /\ \A x : SwitchedOff(x)' <=> SwitchedOff(x)
  BY <1>1 DEF SwitchedOff, Marker, ReadMinutes
<1>11. \A j \in DOMAIN data' : ~data'[j].isNew => data'[j].was = table[data'[j].t]
  BY <1>7, <1>8
<1> QED
  BY <1>1, <1>7, <1>8, <1>9, <1>10, <1>11 DEF Remembered

\* A row is inserted at a minute at which the table has one only if the station was
\* switched off there: the shower before ends with a row that begins no such time.
LEMMA RainInterruptionRemembers ==
  ASSUME Inv, Remembered, RainInterruption
  PROVE  Remembered'
<1> SUFFICES ASSUME calm PROVE Remembered'
  <2>1. calm' = calm
    BY DEF RainInterruption, historyVars
  <2> QED
    BY <2>1 DEF Remembered
<1>1. pc = "showers" /\ pc' = "showers" /\ ut0' = ut0 /\ table' = table
  BY DEF RainInterruption, NextShower, tableVars
<1>2. PICK s, n :
            /\ previous.last \in DOMAIN data
            /\ ~data[previous.last].isNew /\ ~IsBadData(data[previous.last])
            /\ \A t \in Gap(s, previous) : data[previous.last].t < t /\ UT0extended <= t /\ t <= ut1
            /\ \A k \in DOMAIN data : ~data[k].isNew /\ data[k].t \in Gap(s, previous) =>
                    k \in GapRow(s, previous, data[k].t)
            /\ \A k \in DOMAIN data : \E i \in DOMAIN data' : Touched(data[k], data'[i])
            /\ \A i \in DOMAIN data' :
                    \/ \E k \in DOMAIN data : Touched(data[k], data'[i])
                    \/ /\ data'[i].isNew /\ data'[i].t \in Gap(s, previous)
                       /\ GapRow(s, previous, data'[i].t) = {}
  BY InterruptionRows
<1>3. /\ \A i \in DOMAIN data : ~data[i].isNew => data[i].was = table[data[i].t]
      /\ \A m \in ReadMinutes(ut0) :
            \/ \E i \in DOMAIN data : ~data[i].isNew /\ data[i].t = m
            \/ SwitchedOff(m)
            \/ \A i \in DOMAIN data : ~data[i].isNew /\ data[i].t < m => data[i].start
      /\ \A i \in DOMAIN data :
            data[i].isNew /\ ~data[i].noWrite /\ data[i].t \in DOMAIN table => SwitchedOff(data[i].t)
  BY <1>1 DEF Remembered
<1>4. ReadMinutes(ut0)' = ReadMinutes(ut0) /\ \A x : SwitchedOff(x)' <=> SwitchedOff(x)
  BY <1>1 DEF SwitchedOff, Marker, ReadMinutes
<1>5. ASSUME NEW i \in DOMAIN data', ~data'[i].isNew
      PROVE  \E k \in DOMAIN data : ~data[k].isNew /\ data'[i].t = data[k].t /\ data'[i].was = data[k].was
                                    /\ data'[i].start = data[k].start
  BY <1>2, <1>5 DEF Touched
<1>6. ASSUME NEW m \in ReadMinutes(ut0)
      PROVE  \/ \E i \in DOMAIN data' : ~data'[i].isNew /\ data'[i].t = m
             \/ SwitchedOff(m)
             \/ \A i \in DOMAIN data' : ~data'[i].isNew /\ data'[i].t < m => data'[i].start
  <2>1. CASE \E i \in DOMAIN data : ~data[i].isNew /\ data[i].t = m
    BY <1>2, <2>1 DEF Touched
  <2>2. CASE \A i \in DOMAIN data : ~data[i].isNew /\ data[i].t < m => data[i].start
    BY <1>5, <2>2
  <2> QED
    BY <1>3, <2>1, <2>2
<1>7. ASSUME NEW i \in DOMAIN data', data'[i].isNew, ~data'[i].noWrite, data'[i].t \in DOMAIN table
      PROVE  SwitchedOff(data'[i].t)
  <2> DEFINE t == data'[i].t
  <2>1. CASE \E k \in DOMAIN data : Touched(data[k], data'[i])
    BY <1>3, <1>7, <2>1 DEF Touched
  <2>2. CASE t \in Gap(s, previous) /\ GapRow(s, previous, t) = {}
    <3>1. t \in ReadMinutes(ut0)
      BY <1>2, <1>7, <2>2 DEF ReadMinutes, UT0extended, ut1
    <3>2. ~\E k \in DOMAIN data : ~data[k].isNew /\ data[k].t = t
      BY <1>2, <2>2
    <3>3. ~data[previous.last].start /\ data[previous.last].t < t
      BY <1>2, <2>2 DEF IsBadData
    <3> QED
      BY <1>2, <1>3, <3>1, <3>2, <3>3
  <2> QED
    BY <1>2, <2>1, <2>2
<1>8. ASSUME NEW i \in DOMAIN data', ~data'[i].isNew PROVE data'[i].was = table[data'[i].t]
  BY <1>3, <1>5, <1>8
<1> QED
  BY <1>1, <1>4, <1>6, <1>7, <1>8 DEF Remembered

\* Other flags and marks of sums do not matter.
LEMMA RememberedTouched ==
  ASSUME Remembered, calm' = calm, pc \notin {"idle", "discard"}, pc' \notin {"idle", "discard"}, UNCHANGED <<table, ut0>>,
         data \in Seq(Updates), data' \in Seq(Updates), Len(data') = Len(data),
         \A i \in 1 .. Len(data) : Touched(data[i], data'[i])
  PROVE  Remembered'
<1> SUFFICES ASSUME calm PROVE Remembered'
  BY DEF Remembered
<1>1. DOMAIN data = 1 .. Len(data) /\ DOMAIN data' = DOMAIN data
  BY LenProperties
<1>2. \A i \in DOMAIN data : /\ data'[i].t = data[i].t /\ data'[i].was = data[i].was /\ data'[i].start = data[i].start
                             /\ data'[i].isNew = data[i].isNew /\ data'[i].noWrite = data[i].noWrite
  BY <1>1 DEF Touched
<1>3. ReadMinutes(ut0)' = ReadMinutes(ut0) /\ \A x : SwitchedOff(x)' <=> SwitchedOff(x)
  BY DEF SwitchedOff, Marker, ReadMinutes
<1>4. /\ \A i \in DOMAIN data : ~data[i].isNew => data[i].was = table[data[i].t]
      /\ \A m \in ReadMinutes(ut0) :
            \/ \E i \in DOMAIN data : ~data[i].isNew /\ data[i].t = m
            \/ SwitchedOff(m)
            \/ \A i \in DOMAIN data : ~data[i].isNew /\ data[i].t < m => data[i].start
      /\ \A i \in DOMAIN data :
            data[i].isNew /\ ~data[i].noWrite /\ data[i].t \in DOMAIN table => SwitchedOff(data[i].t)
  BY DEF Remembered
<1>5. ASSUME NEW m \in ReadMinutes(ut0)
      PROVE  \/ \E i \in DOMAIN data' : ~data'[i].isNew /\ data'[i].t = m
             \/ SwitchedOff(m)
             \/ \A i \in DOMAIN data' : ~data'[i].isNew /\ data'[i].t < m => data'[i].start
  <2>1. CASE \E i \in DOMAIN data : ~data[i].isNew /\ data[i].t = m
    BY <1>1, <1>2, <2>1
  <2>2. CASE \A i \in DOMAIN data : ~data[i].isNew /\ data[i].t < m => data[i].start
    BY <1>1, <1>2, <2>2
  <2> QED
    BY <1>4, <2>1, <2>2
<1>6. \A i \in DOMAIN data' : ~data'[i].isNew => data'[i].was = table[data'[i].t]
  BY <1>1, <1>2, <1>4
<1>7. \A i \in DOMAIN data' :
            data'[i].isNew /\ ~data'[i].noWrite /\ data'[i].t \in DOMAIN table => SwitchedOff(data'[i].t)
  BY <1>1, <1>2, <1>4
<1> QED
  BY <1>3, <1>5, <1>6, <1>7 DEF Remembered

\* The steps of a run keep what the list knows of the table,
LEMMA StepRemembers ==
  ASSUME Inv, Remembered, Step
  PROVE  Remembered'
<1>0. data \in Seq(Updates) /\ DOMAIN data = 1 .. Len(data) /\ \A i \in 1 .. Len(data) : Touched(data[i], data[i])
  <2>1. data \in Seq(Updates) /\ DOMAIN data = 1 .. Len(data)
    BY ListFacts DEF Inv, Listed
  <2>2. \A i \in 1 .. Len(data) : data[i] \in Updates /\ Kept(data[i])
    BY <2>1 DEF Inv, Listed
  <2> QED
    BY <2>1, <2>2, TouchedSame
<1>1. CASE OtherShower
  <2>1. pc = "showers" /\ pc' = "showers" /\ calm' = calm /\ table' = table /\ ut0' = ut0
    BY <1>1 DEF OtherShower, NextShower, historyVars, tableVars
  <2>2. /\ data' \in Seq(Updates) /\ Len(data') = Len(data)
        /\ \A i \in 1 .. Len(data) : Touched(data[i], data'[i])
    BY <1>1, OtherShowerStep
  <2> QED
    BY <1>0, <2>1, <2>2, RememberedTouched
<1>2. CASE CheckSlidingSums
  <2>1. pc = "sums" /\ pc' = "sums" /\ calm' = calm /\ table' = table /\ ut0' = ut0
    BY <1>2 DEF CheckSlidingSums, historyVars, tableVars
  <2>2. /\ data' \in Seq(Updates) /\ Len(data') = Len(data)
        /\ \A i \in 1 .. Len(data) : Touched(data[i], data'[i])
    BY <1>2, SumsTouched DEF CheckSlidingSums, Inv, Listed
  <2> QED
    BY <1>0, <2>1, <2>2, RememberedTouched
<1>3. CASE CompareDay
  <2>1. pc = "days" /\ pc' = "days" /\ calm' = calm /\ table' = table /\ ut0' = ut0
    BY <1>3 DEF CompareDay, CheckDay, historyVars, tableVars
  <2>2. /\ data' \in Seq(Updates) /\ Len(data') = Len(data)
        /\ \A i \in 1 .. Len(data) : Touched(data[i], data'[i])
    BY <1>3, CompareDayStep
  <2> QED
    BY <1>0, <2>1, <2>2, RememberedTouched
<1>4. CASE NoMoreShowers \/ SkipFirstDay \/ LeaveDay
  <2>1. /\ pc \notin {"idle", "discard"} /\ pc' \notin {"idle", "discard"}
        /\ calm' = calm /\ table' = table /\ ut0' = ut0 /\ data' = data
    BY <1>4 DEF NoMoreShowers, SkipFirstDay, LeaveDay, CheckDay, historyVars, tableVars
  <2> QED
    BY <1>0, <2>1, RememberedTouched
<1>5. CASE StoreUpdates \/ StoreRefused
  BY <1>5 DEF StoreUpdates, StoreRefused, BackToIdle, Remembered
<1> QED
  BY <1>1, <1>2, <1>3, <1>4, <1>5, DiscardAllRemembers, RainInterruptionRemembers DEF Step

\* and so does every step.
LEMMA NextRemembers ==
  ASSUME Inv, Remembered, [Next]_vars
  PROVE  Remembered'
<1>1. CASE Outside
  BY <1>1 DEF Outside, Observe, Hqc, NeighboursReport, Abort, FromOutside, Remembered
<1>2. CASE UNCHANGED vars
  <2>1. pc' = pc /\ data' = data /\ ut0' = ut0 /\ table' = table /\ calm' = calm
    BY <1>2 DEF vars, runVars, tableVars, historyVars
  <2> QED
    BY <2>1 DEF Remembered, SwitchedOff, Marker, ReadMinutes
<1> QED
  BY <1>1, <1>2, CheckStationRemembers, StepRemembers DEF Next

\* In all states the list knows the table, while nothing comes from outside.
LEMMA PlumaticRemembers == Spec => []Remembered
<1>1. Init => Remembered
  BY DEF Init, Remembered
<1>2. Inv /\ Remembered /\ [Next]_vars => Remembered'
  BY NextRemembers
<1> QED
  BY PlumaticInv, <1>1, <1>2, PTL DEF Spec

\* The insert of flagRainInterruption meets a row in the table, and storeUpdates is
\* refused, only if a row came in after the rows were read or the station was switched
\* off in the interruption.
THEOREM PlumaticRefusedForReason == Spec => []RefusedForReason
<1>1. Remembered => RefusedForReason
  <2> SUFFICES ASSUME Remembered, Ready, calm, NEW i \in NewRows, data[i].t \in DOMAIN table
               PROVE  SwitchedOff(data[i].t)
    BY DEF RefusedForReason
  <2>1. i \in DOMAIN data /\ data[i].isNew /\ ~data[i].noWrite /\ pc = "days"
    BY DEF NewRows, Writes, NeedsWrite, Ready
  <2> QED
    BY <2>1 DEF Remembered
<1> QED
  BY PlumaticRemembers, <1>1, PTL

-----------------------------------------------------------------------------
\* Ahead of the loop of showers rows are as they were read, and made-up ones are pairs
\* of silences; the shower before is as long as it can be.
Behind ==
    pc = "showers" =>
        /\ previous # NoShower =>
                /\ data[previous.first].t >= ut0
                /\ previous.last < Len(data) =>
                    ~(Rainy(data[previous.last + 1]) /\ data[previous.last + 1].t = data[previous.last].t + 1)
        /\ \A i \in previous.last + 1 .. Len(data) :
                data[i].row = data[i].was /\ (data[i].isNew => Paired(data, i))

\* RainyAt, of any list.
RainIn(list, t) == \E i \in DOMAIN list : list[i].t = t /\ Rainy(list[i])

\* What MarksStartShowers says of the end, all the time.
Started ==
    pc \notin {"idle", "discard"} /\ InOrder =>
        \A i \in DOMAIN data :
            Marks(data[i]) /\ Rainy(data[i]) =>
                /\ ~Discarded(data[i].was) /\ data[i].row.original = data[i].row.corrected
                /\ data[i].t = ut0 \/ ~RainIn(data, data[i].t - 1)

\* Before the loop of showers no row is marked, and marks of silence come in pairs.
LEMMA DiscardAllBehind ==
  ASSUME Inv, DiscardAllNonOperationalTimes
  PROVE  Behind' /\ Started'
<1>1. PICK m \in Seq(Updates) :
            /\ Silenced(m, Len(m), UT0extended, ut1, data')
            /\ \A i \in DOMAIN m : Fresh(m[i])
  BY DiscardAllStep
<1>2. previous' = NoShower
  BY DEF DiscardAllNonOperationalTimes, Inv, Loops, loopVars
<1>3. DOMAIN m = 1 .. Len(m) /\ DOMAIN data' = 1 .. Len(data') /\ Len(data') \in Nat
  BY <1>1, LenProperties DEF Silenced
<1>4. ASSUME NEW i \in DOMAIN data'
      PROVE  data'[i].row = data'[i].was /\ (data'[i].isNew => Paired(data', i))
  <2>1. CASE IsSilence(data'[i])
    BY <1>1, <2>1 DEF Silenced, IsSilence
  <2>2. CASE \E k \in 1 .. Len(m) : data'[i] = m[k]
    BY <1>1, <1>3, <2>2 DEF Fresh
  <2> QED  BY <1>1, <2>1, <2>2 DEF Silenced
<1>5. previous'.last + 1 .. Len(data') = DOMAIN data'
  BY <1>2, <1>3 DEF NoShower
<1> QED
  BY <1>2, <1>4, <1>5 DEF Behind, Started, Marks

\* A shower that findShowerForward finds behind the one before has no rain right
\* before its first row, if that is good and the shower is not cut at UT0: such rain
\* would be the end of the shower before, which is as long as it can be, and between
\* the two there is no time for a pair of marks of silence.
LEMMA NoRainBefore ==
  ASSUME Inv, Apart, Behind, pc = "showers", InOrder,
         NEW s, s = FindNextShower, s # NoShower, ~IsBadData(data[s.first]), data[s.first].t # ut0
  PROVE  ~RainIn(data, data[s.first].t - 1)
<1> DEFINE L == Len(data)
           a == s.first
           b == previous.last
           t == data[a].t
<1>1. /\ L \in Nat /\ DOMAIN data = 1 .. L /\ data \in Seq(Updates)
      /\ \A i \in 1 .. L : data[i].t \in Int
  BY ListFacts DEF Inv, Listed
<1>2. b \in Nat /\ b <= L /\ IsShower(s, b + 1) /\ a \in Nat /\ 1 <= a /\ a <= L /\ b < a
  BY <1>1, NextShowerFacts, PreviousLast
<1>3. t >= ut0 /\ t \in Int /\ ut0 \in Int /\ t > ut0 /\ Rainy(data[a]) /\ ~data[a].isNew
  <2>1. a \in a .. s.last /\ a \in 1 .. L
    BY <1>1, <1>2, NextShowerFacts
  <2>2. Rainy(data[a]) /\ t >= ut0
    BY <1>2, <2>1 DEF IsShower
  <2>3. t \in Int /\ ut0 \in Int
    BY <1>1, <2>1, RunWindow DEF Inv, TypeOK
  <2>4. Kept(data[a])
    BY <1>1, <2>1 DEF Inv, Listed
  <2> QED  BY <2>2, <2>3, <2>4 DEF Kept
<1>4. \A i, j \in 1 .. L : i < j => data[i].t <= data[j].t
  BY <1>1 DEF InOrder
<1>5. \A i, j \in 1 .. L : i < j /\ ~data[i].isNew /\ ~data[j].isNew => data[i].t < data[j].t
  BY <1>1 DEF Inv, Listed
<1>6. \A i \in b + 1 .. a - 1 : ~(data[i].t >= ut0 /\ Rainy(data[i]))
  BY <1>2 DEF IsShower
<1>7. \A i \in 1 .. L : Rainy(data[i]) => ~data[i].isNew
  BY <1>1 DEF Inv, Listed, Kept
<1>8. \A i \in 1 .. L : data[i].isNew => data[i].t # t
  BY <1>1, <1>2, <1>3 DEF Apart
<1>9. /\ b # 0 => Rainy(data[b]) /\ (b < L => ~(Rainy(data[b + 1]) /\ data[b + 1].t = data[b].t + 1))
      /\ \A i \in b + 1 .. L : data[i].isNew => Paired(data, i)
  <2>1. previous = NoShower => b = 0
    BY DEF NoShower
  <2>2. previous # NoShower => b \in previous.first .. b
    <3>1. ASSUME previous # NoShower  PROVE b \in previous.first .. b
      <4>1. previous.first \in Nat /\ previous.last \in Nat /\ previous.first <= previous.last
        BY <3>1 DEF Inv, Loops
      <4> QED  BY <4>1
    <3> QED  BY <3>1
  <2>3. previous # NoShower => Rainy(data[b])
    BY <2>2 DEF Inv, TypeOK
  <2> QED  BY <2>1, <2>3 DEF Behind
<1> SUFFICES ASSUME NEW j \in 1 .. L, data[j].t = t - 1, Rainy(data[j])  PROVE FALSE
  BY <1>1 DEF RainIn
<1> HIDE DEF L, a, b, t
<1>10. j < a
  <2>1. CASE a < j
    BY <1>1, <1>2, <1>3, <1>4, <2>1 DEF t
  <2>2. j # a
    BY <1>3 DEF t
  <2> QED  BY <1>2, <2>1, <2>2
<1>11. j = b
  <2>1. ~(j \in b + 1 .. a - 1)
    BY <1>3, <1>6
  <2>2. CASE j < b
    <3>1. b \in 1 .. L /\ b # 0 /\ a \in 1 .. L
      BY <1>1, <1>2, <2>2
    <3>2. data[j].t < data[b].t /\ data[b].t < t
      BY <1>2, <1>3, <1>5, <1>7, <1>9, <2>2, <3>1 DEF t
    <3> QED  BY <1>1, <1>3, <3>1, <3>2
  <2> QED  BY <1>2, <1>10, <2>1, <2>2
<1>12. CASE a = b + 1
  <2>1. b # 0 /\ b < L /\ data[b + 1].t = data[b].t + 1 /\ Rainy(data[b + 1])
    BY <1>1, <1>2, <1>3, <1>11, <1>12 DEF t
  <2> QED  BY <1>9, <2>1
\* Rows between them have one of the two times, and so are made up.
<1>13. ASSUME NEW i \in b + 1 .. a - 1  PROVE data[i].isNew /\ data[i].t = t - 1
  <2>1. i \in 1 .. L /\ b \in 1 .. L /\ a \in 1 .. L /\ b < i /\ i < a
    BY <1>1, <1>2, <1>11
  <2>2. t - 1 <= data[i].t /\ data[i].t <= t /\ data[i].t \in Int
    BY <1>1, <1>4, <1>11, <2>1 DEF t
  <2>3. data[i].isNew
    <3>1. CASE ~data[i].isNew
      <4>1. data[b].t < data[i].t /\ data[i].t < t
        BY <1>3, <1>5, <1>7, <1>11, <2>1, <3>1 DEF t
      <4> QED  BY <1>3, <1>11, <2>2, <4>1
    <3> QED  BY <3>1
  <2>4. data[i].t # t
    BY <1>8, <2>1, <2>3
  <2> QED  BY <1>3, <2>2, <2>3, <2>4
<1>14. CASE a # b + 1
  <2> DEFINE i == b + 1
  <2>1. i \in b + 1 .. a - 1 /\ i \in b + 1 .. L /\ i - 1 = b /\ i + 1 \in Int
    BY <1>1, <1>2, <1>14
  <2>2. data[i].isNew /\ data[i].t = t - 1 /\ Paired(data, i)
    BY <1>9, <1>13, <2>1
  <2>3. ~(i - 1 \in DOMAIN data /\ data[i - 1].isNew)
    BY <1>7, <1>11, <2>1
  <2>4. data[i + 1].isNew /\ data[i].t < data[i + 1].t /\ i + 1 \in DOMAIN data
    BY <2>2, <2>3 DEF Paired
  <2>5. CASE i + 1 = a
    BY <1>3, <2>4, <2>5
  <2>6. CASE i + 1 # a
    <3>1. i + 1 \in b + 1 .. a - 1
      BY <1>2, <1>14, <2>6
    <3>2. data[i + 1].t = t - 1
      BY <1>13, <3>1
    <3> HIDE DEF i
    <3> QED  BY <1>3, <2>2, <2>4, <3>2
  <2> QED  BY <2>5, <2>6
<1> QED
  BY <1>12, <1>14

\* Rain in a list with the same times and values is the same.
LEMMA RainyTouched ==
  ASSUME data \in Seq(Updates), data' \in Seq(Updates), Len(data') = Len(data),
         \A i \in 1 .. Len(data) : Touched(data[i], data'[i])
  PROVE  /\ DOMAIN data = 1 .. Len(data) /\ DOMAIN data' = DOMAIN data
         /\ \A i \in DOMAIN data : Rainy(data'[i]) <=> Rainy(data[i])
         /\ InOrder' => InOrder
         /\ \A t : RainIn(data', t) <=> RainIn(data, t)
<1>1. DOMAIN data = 1 .. Len(data) /\ DOMAIN data' = DOMAIN data
  BY LenProperties
<1>2. \A i \in DOMAIN data : data'[i].t = data[i].t /\ (Rainy(data'[i]) <=> Rainy(data[i]))
  BY <1>1 DEF Touched, Rainy
<1>3. InOrder' => InOrder
  BY <1>1, <1>2 DEF InOrder
<1>4. ASSUME NEW t  PROVE RainIn(data', t) <=> RainIn(data, t)
  BY <1>1, <1>2 DEF RainIn
<1> QED  BY <1>1, <1>2, <1>3, <1>4

\* Marks of sums and flags of the neighbours do not matter.
LEMMA StartedSame ==
  ASSUME Started, pc \notin {"idle", "discard"}, ut0' = ut0,
         data \in Seq(Updates), data' \in Seq(Updates), Len(data') = Len(data),
         \A i \in 1 .. Len(data) : Touched(data[i], data'[i]) /\ data'[i].row.fs = data[i].row.fs
  PROVE  Started'
<1>1. /\ DOMAIN data = 1 .. Len(data) /\ DOMAIN data' = DOMAIN data
      /\ \A i \in DOMAIN data : Rainy(data'[i]) <=> Rainy(data[i])
      /\ InOrder' => InOrder
      /\ \A t : RainIn(data', t) <=> RainIn(data, t)
  BY RainyTouched
<1>2. ASSUME InOrder', NEW i \in DOMAIN data', Marks(data'[i]), Rainy(data'[i])
      PROVE  /\ ~Discarded(data'[i].was) /\ data'[i].row.original = data'[i].row.corrected
             /\ data'[i].t = ut0' \/ ~RainIn(data', data'[i].t - 1)
  <2>1. Touched(data[i], data'[i]) /\ Marks(data[i]) /\ Rainy(data[i])
    BY <1>1, <1>2 DEF Touched, Marks
  <2>2. /\ ~Discarded(data[i].was) /\ data[i].row.original = data[i].row.corrected
        /\ data[i].t = ut0 \/ ~RainIn(data, data[i].t - 1)
    BY <1>1, <1>2, <2>1 DEF Started
  <2>3. /\ data'[i].t = data[i].t /\ data'[i].was = data[i].was
        /\ data'[i].row.original = data[i].row.original /\ data'[i].row.corrected = data[i].row.corrected
    BY <2>1 DEF Touched
  <2> QED  BY <1>1, <2>2, <2>3
<1> QED  BY <1>2 DEF Started

\* checkHighSingle and checkHighStart mark only the good first row of a shower.
LEMMA OtherShowerStarted ==
  ASSUME Inv, Apart, Behind, Started, OtherShower
  PROVE  Behind' /\ Started'
<1>1. PICK s :
            /\ s = FindNextShower /\ s # NoShower /\ previous' = s /\ IsShower(s, previous.last + 1)
            /\ data' \in Seq(Updates) /\ Len(data') = Len(data)
            /\ \A i \in 1 .. Len(data) :
                    /\ Touched(data[i], data'[i])
                    /\ data'[i] # data[i] => i = s.first /\ (CheckHighSingle(s) \/ CheckHighStart(s))
  BY OtherShowerStep
<1>2. pc = "showers" /\ pc' = "showers" /\ ut0' = ut0
  BY DEF OtherShower, NextShower
<1> DEFINE L == Len(data)
           a == s.first
           b == s.last
<1>3. /\ L \in Nat /\ data \in Seq(Updates) /\ \A i \in 1 .. L : data[i].t \in Int
      /\ a \in Nat /\ b \in Nat /\ 1 <= a /\ a <= b /\ b <= L /\ previous.last < a /\ previous.last \in Nat
  BY <1>1, ListFacts, NextShowerFacts, PreviousLast DEF Inv, Listed
<1>4. /\ DOMAIN data = 1 .. L /\ DOMAIN data' = DOMAIN data
      /\ \A i \in DOMAIN data : Rainy(data'[i]) <=> Rainy(data[i])
      /\ InOrder' => InOrder
      /\ \A t : RainIn(data', t) <=> RainIn(data, t)
  BY <1>1, <1>3, RainyTouched
<1>5. \A i \in previous.last + 1 .. L : data[i].row = data[i].was /\ (data[i].isNew => Paired(data, i))
  BY <1>2 DEF Behind
<1>6. /\ data[a].t >= ut0
      /\ b < L => ~(Rainy(data[b + 1]) /\ data[b + 1].t = data[b].t + 1)
  BY <1>1 DEF IsShower
<1>7. \A i \in 1 .. L : data'[i].t = data[i].t /\ data'[i].isNew = data[i].isNew
  BY <1>1 DEF Touched
<1> HIDE DEF L, a, b
<1>8. ASSUME NEW i \in b + 1 .. L
      PROVE  data'[i].row = data'[i].was /\ (data'[i].isNew => Paired(data', i))
  <2>1. i \in 1 .. L /\ i # a /\ i \in previous.last + 1 .. L
    BY <1>3
  <2>2. data'[i] = data[i]
    BY <1>1, <2>1 DEF a, L
  <2> QED  BY <1>4, <1>5, <1>7, <2>1, <2>2 DEF Paired
<1>9. Behind'
  <2>1. data'[a].t >= ut0'
    BY <1>2, <1>3, <1>6, <1>7
  <2>2. ASSUME b < L  PROVE ~(Rainy(data'[b + 1]) /\ data'[b + 1].t = data'[b].t + 1)
    <3>1. b + 1 \in 1 .. L /\ b \in 1 .. L
      BY <1>3, <2>2
    <3> QED  BY <1>4, <1>6, <1>7, <2>2, <3>1
  <2> QED  BY <1>1, <1>8, <2>1, <2>2 DEF Behind, L, a, b
<1>10. Started'
  <2>1. ASSUME InOrder', NEW i \in DOMAIN data', Marks(data'[i]), Rainy(data'[i])
        PROVE  /\ ~Discarded(data'[i].was) /\ data'[i].row.original = data'[i].row.corrected
               /\ data'[i].t = ut0' \/ ~RainIn(data', data'[i].t - 1)
    <3>1. Touched(data[i], data'[i]) /\ i \in DOMAIN data /\ i \in 1 .. L
      BY <1>1, <1>4, <2>1 DEF L
    <3>2. /\ data'[i].t = data[i].t /\ data'[i].was = data[i].was
          /\ data'[i].row.original = data[i].row.original /\ data'[i].row.corrected = data[i].row.corrected
      BY <3>1 DEF Touched
    <3>3. CASE data'[i] = data[i]
      BY <1>2, <1>4, <2>1, <3>1, <3>2, <3>3 DEF Started
    <3>4. CASE data'[i] # data[i]
      <4>1. i = a /\ ~IsBadData(data[a])
        BY <1>1, <3>1, <3>4 DEF a, L, CheckHighSingle, CheckHighStart
      <4>2. ~Discarded(data[a].row) /\ data[a].row.original = data[a].row.corrected
        BY <4>1 DEF IsBadData
      <4>3. data[a].row = data[a].was
        BY <1>3, <1>5
      <4>4. data[a].t = ut0 \/ ~RainIn(data, data[a].t - 1)
        BY <1>1, <1>2, <1>4, <2>1, <4>1, NoRainBefore DEF a
      <4> QED  BY <1>2, <1>4, <3>2, <4>1, <4>2, <4>3, <4>4
    <3> QED  BY <3>3, <3>4
  <2> QED  BY <2>1 DEF Started
<1> QED
  BY <1>9, <1>10

\* flagRainInterruption marks no rain: between the two showers there is none.  The
\* rows that it moves stay next to each other.
LEMMA RainInterruptionStarted ==
  ASSUME Inv, Behind, Started, RainInterruption
  PROVE  Behind' /\ Started'
<1>1. PICK s, n :
            /\ s = FindNextShower /\ s # NoShower
            /\ previous' = [s EXCEPT !.first = @ + n, !.last = @ + n]
            /\ IsShower(s, previous.last + 1) /\ previous # NoShower
            /\ Interrupted(s, previous, data', n)
  BY RainInterruptionStep
<1>2. pc = "showers" /\ pc' = "showers" /\ ut0' = ut0
  BY DEF RainInterruption, NextShower
<1> DEFINE L == Len(data)
           a == s.first
           b == s.last
           p == previous.last
<1>3. /\ L \in Nat /\ DOMAIN data = 1 .. L /\ data \in Seq(Updates)
      /\ \A i \in 1 .. L : data[i].t \in Int /\ data[i] \in Updates
  BY ListFacts DEF Inv, Listed
<1>4. a \in Nat /\ b \in Nat /\ 1 <= a /\ a <= b /\ b <= L /\ n \in Nat /\ p < a /\ p \in 1 .. L
  BY <1>1, <1>3, NextShowerFacts, PreviousRows DEF Interrupted
<1>5. data' \in Seq(Updates) /\ Len(data') = L + n /\ DOMAIN data' = 1 .. L + n
  BY <1>1, LenProperties DEF Interrupted
<1>6. previous'.first = a + n /\ previous'.last = b + n
  <2>1. s = [first |-> a, last |-> b, duration |-> 1 + data[b].t - data[a].t]
    BY <1>1 DEF IsShower
  <2> HIDE DEF a, b
  <2> QED  BY <1>1, <2>1 DEF a, b
<1>7. /\ \A i \in 1 .. a - 1 :
            /\ Touched(data[i], data'[i])
            /\ data'[i] # data[i] => i \in p .. a - 1 /\ data[i].t \in data[p].t + 1 .. data[a].t - 1
      /\ \A i \in a .. a + n - 1 : data'[i].isNew /\ Kept(data'[i])
      /\ \A i \in a + n .. L + n : data'[i] = data[i - n]
  BY <1>1 DEF Interrupted, Gap
<1>8. /\ data[a].t >= ut0
      /\ b < L => ~(Rainy(data[b + 1]) /\ data[b + 1].t = data[b].t + 1)
      /\ \A i \in p + 1 .. a - 1 : ~(data[i].t >= ut0 /\ Rainy(data[i]))
  BY <1>1 DEF IsShower
<1>9. \A i \in p + 1 .. L : data[i].row = data[i].was /\ (data[i].isNew => Paired(data, i))
  BY <1>2 DEF Behind
\* The shower before does not begin before UT0, and so the gap does not.
<1>10. data[p].t >= ut0 /\ ut0 \in Int
  <2> DEFINE f == previous.first
  <2>1. f \in 1 .. L /\ p \in f .. p /\ f \in Nat
    BY <1>1, <1>3, <1>4, PreviousRows
  <2>2. data[f].t >= ut0 /\ data[p].t = data[f].t + p - f
    BY <1>1, <1>2, <2>1 DEF Behind, Inv, TypeOK
  <2>3. data[f].t \in Int /\ ut0 \in Int /\ f <= p
    BY <1>3, <1>4, <2>1, RunWindow DEF Inv, TypeOK
  <2> HIDE DEF f
  <2> QED  BY <1>4, <2>1, <2>2, <2>3
<1> HIDE DEF L, a, b, p
<1>11. ASSUME NEW i \in 1 .. L + n
       PROVE  \/ i \in 1 .. a - 1 /\ i \in 1 .. L
              \/ i \in a .. a + n - 1
              \/ i \in a + n .. L + n /\ i - n \in 1 .. L
  BY <1>3, <1>4
<1>12. ASSUME NEW i \in 1 .. L + n, Rainy(data'[i])
       PROVE  \E k \in 1 .. L : data'[i] = data[k]
  <2>1. CASE i \in 1 .. a - 1 /\ i \in 1 .. L
    <3>1. CASE data'[i] # data[i]
      <4>1. i \in p .. a - 1 /\ data[p].t < data[i].t /\ Rainy(data[i])
        <5>1. i \in p .. a - 1 /\ data[i].t \in data[p].t + 1 .. data[a].t - 1
          BY <1>7, <2>1, <3>1
        <5>2. Rainy(data[i])
          BY <1>7, <1>12, <2>1 DEF Touched, Rainy
        <5> QED  BY <1>3, <1>4, <2>1, <5>1, <5>2
      <4>2. i # p
        BY <1>3, <1>4, <4>1
      <4>3. i \in p + 1 .. a - 1
        BY <1>4, <4>1, <4>2
      <4>4. data[i].t >= ut0
        BY <1>3, <1>4, <1>10, <2>1, <4>1
      <4> QED  BY <1>8, <4>1, <4>3, <4>4
    <3> QED  BY <2>1, <3>1
  <2>2. CASE i \in a .. a + n - 1
    BY <1>7, <1>12, <2>2 DEF Kept
  <2>3. CASE i \in a + n .. L + n /\ i - n \in 1 .. L
    BY <1>7, <2>3
  <2> QED  BY <1>11, <2>1, <2>2, <2>3
<1>13. InOrder' => InOrder
  <2>1. ASSUME InOrder', NEW k \in 1 .. L, NEW l \in 1 .. L, k < l  PROVE data[k].t <= data[l].t
    <3>1. ASSUME NEW i \in 1 .. a - 1  PROVE i \in 1 .. L + n /\ data'[i].t = data[i].t
      <4>1. i \in 1 .. L + n
        BY <1>3, <1>4
      <4> QED  BY <1>7, <4>1 DEF Touched
    <3>2. ASSUME NEW i \in a .. L  PROVE i + n \in 1 .. L + n /\ data'[i + n].t = data[i].t
      <4>1. i + n \in 1 .. L + n /\ i + n \in a + n .. L + n /\ (i + n) - n = i
        BY <1>3, <1>4
      <4>2. data'[i + n] = data[(i + n) - n]
        BY <1>7, <4>1
      <4> QED  BY <4>1, <4>2
    <3>3. \A i, j \in 1 .. L + n : i < j => data'[i].t <= data'[j].t
      BY <1>5, <2>1 DEF InOrder
    <3>4. CASE k \in 1 .. a - 1 /\ l \in 1 .. a - 1
      BY <2>1, <3>1, <3>3, <3>4
    <3>5. CASE k \in 1 .. a - 1 /\ l \in a .. L
      <4>1. k < l + n
        BY <1>3, <1>4, <3>5
      <4> QED  BY <3>1, <3>2, <3>3, <3>5, <4>1
    <3>6. CASE k \in a .. L /\ l \in a .. L
      <4>1. k + n < l + n
        BY <1>3, <1>4, <2>1, <3>6
      <4> QED  BY <3>2, <3>3, <3>6, <4>1
    <3> QED  BY <1>3, <1>4, <2>1, <3>4, <3>5, <3>6
  <2> QED  BY <1>3, <2>1 DEF InOrder
<1>14. Started'
  <2>1. ASSUME InOrder', NEW i \in DOMAIN data', Marks(data'[i]), Rainy(data'[i])
        PROVE  /\ ~Discarded(data'[i].was) /\ data'[i].row.original = data'[i].row.corrected
               /\ data'[i].t = ut0' \/ ~RainIn(data', data'[i].t - 1)
    <3>1. PICK k \in 1 .. L : data'[i] = data[k]
      BY <1>5, <1>12, <2>1
    <3>2. /\ ~Discarded(data[k].was) /\ data[k].row.original = data[k].row.corrected
          /\ data[k].t = ut0 \/ ~RainIn(data, data[k].t - 1)
      BY <1>2, <1>3, <1>13, <2>1, <3>1 DEF Started
    <3>3. ASSUME NEW t, RainIn(data', t)  PROVE RainIn(data, t)
      <4>1. PICK j \in 1 .. L + n : data'[j].t = t /\ Rainy(data'[j])
        BY <1>5, <3>3 DEF RainIn
      <4>2. PICK l \in 1 .. L : data'[j] = data[l]
        BY <1>12, <4>1
      <4> QED  BY <1>3, <4>1, <4>2 DEF RainIn
    <3>4. RainIn(data', data'[i].t - 1) => RainIn(data, data[k].t - 1)
      <4> DEFINE t == data[k].t - 1
      <4>1. t = data'[i].t - 1
        BY <3>1
      <4>2. RainIn(data', t) => RainIn(data, t)
        BY <3>3
      <4> QED  BY <3>1, <4>2 DEF RainIn
    <3> QED  BY <1>2, <3>1, <3>2, <3>4
  <2> QED  BY <2>1 DEF Started
<1>15. Behind'
  <2>1. data'[a + n].t >= ut0'
    <3>1. a + n \in a + n .. L + n /\ (a + n) - n = a
      BY <1>3, <1>4
    <3>2. data'[a + n] = data[(a + n) - n]
      BY <1>7, <3>1
    <3> QED  BY <1>2, <1>8, <3>1, <3>2
  <2>2. ASSUME b + n < L + n  PROVE ~(Rainy(data'[b + n + 1]) /\ data'[b + n + 1].t = data'[b + n].t + 1)
    <3>1. /\ b + n \in a + n .. L + n /\ (b + n) - n = b
          /\ b + n + 1 \in a + n .. L + n /\ (b + n + 1) - n = b + 1 /\ b < L
      BY <1>3, <1>4, <2>2
    <3>2. data'[b + n] = data[(b + n) - n] /\ data'[b + n + 1] = data[(b + n + 1) - n]
      BY <1>7, <3>1
    <3> QED  BY <1>8, <3>1, <3>2
  <2>3. ASSUME NEW i \in b + n + 1 .. L + n
        PROVE  data'[i].row = data'[i].was /\ (data'[i].isNew => Paired(data', i))
    <3> DEFINE k == i - n
    <3>1. k \in p + 1 .. L /\ i \in a + n .. L + n /\ i - 1 \in a + n .. L + n /\ (i - 1) - n = k - 1
      BY <1>3, <1>4
    <3>2. data'[i] = data[k]
      BY <1>7, <3>1
    <3>3. data[k].row = data[k].was /\ (data[k].isNew => Paired(data, k))
      BY <1>9, <3>1
    <3>4. data'[i - 1] = data[(i - 1) - n] /\ i - 1 \in DOMAIN data'
      <4>1. i - 1 \in 1 .. L + n
        BY <1>3, <1>4
      <4> QED  BY <1>5, <1>7, <3>1, <4>1
    <3>5. ASSUME k + 1 \in 1 .. L  PROVE data'[i + 1] = data[k + 1] /\ i + 1 \in DOMAIN data'
      <4>1. i + 1 \in 1 .. L + n /\ i + 1 \in a + n .. L + n /\ (i + 1) - n = k + 1
        BY <1>3, <1>4, <3>1, <3>5
      <4>2. data'[i + 1] = data[(i + 1) - n]
        BY <1>7, <4>1
      <4> QED  BY <1>5, <4>1, <4>2
    <3>6. data'[i - 1] = data[k - 1]
      BY <3>1, <3>4
    <3> HIDE DEF k
    <3>7. ASSUME Paired(data, k)  PROVE Paired(data', i)
      BY <1>3, <3>2, <3>4, <3>5, <3>6, <3>7 DEF Paired
    <3> QED  BY <3>2, <3>3, <3>7
  <2> QED  BY <1>5, <1>6, <2>1, <2>2, <2>3 DEF Behind
<1> QED
  BY <1>14, <1>15

\* The steps of a run keep both,
LEMMA StepStarted ==
  ASSUME Inv, Apart, Behind, Started, Step
  PROVE  Behind' /\ Started'
<1>0. data \in Seq(Updates) /\ DOMAIN data = 1 .. Len(data) /\ \A i \in DOMAIN data : Kept(data[i]) /\ data[i] \in Updates
  BY ListFacts DEF Inv, Listed
<1>1. CASE DiscardAllNonOperationalTimes
  BY <1>1, DiscardAllBehind
<1>2. CASE RainInterruption
  BY <1>2, RainInterruptionStarted
<1>3. CASE OtherShower
  BY <1>3, OtherShowerStarted
<1>4. CASE NoMoreShowers \/ SkipFirstDay \/ LeaveDay
  <2>1. pc \notin {"idle", "discard"} /\ pc' # "showers" /\ data' = data /\ ut0' = ut0
    BY <1>4 DEF NoMoreShowers, SkipFirstDay, LeaveDay, CheckDay
  <2>2. \A i \in 1 .. Len(data) : Touched(data[i], data[i])
    BY <1>0, TouchedSame
  <2> QED  BY <1>0, <2>1, <2>2, StartedSame DEF Behind
<1>5. CASE CheckSlidingSums
  <2>1. pc \notin {"idle", "discard"} /\ pc' # "showers" /\ ut0' = ut0
        /\ data' = CheckSlidingSum(data, SlidingAlarms[alarm])
    BY <1>5 DEF CheckSlidingSums
  <2>2. /\ data' \in Seq(Updates) /\ Len(data') = Len(data)
        /\ \A i \in 1 .. Len(data) : Touched(data[i], data'[i]) /\ data'[i].row = data[i].row
    BY <1>0, <2>1, SumsTouched
  <2> QED  BY <1>0, <2>1, <2>2, StartedSame DEF Behind
<1>6. CASE CompareDay
  <2>1. pc \notin {"idle", "discard"} /\ pc' # "showers" /\ ut0' = ut0
    BY <1>6 DEF CompareDay, CheckDay
  <2>2. /\ data' \in Seq(Updates) /\ Len(data') = Len(data)
        /\ \A i \in 1 .. Len(data) : Touched(data[i], data'[i]) /\ data'[i].row.fs = data[i].row.fs
    BY <1>6, CompareDayStep
  <2> QED  BY <1>0, <2>1, <2>2, StartedSame DEF Behind
<1>7. CASE StoreUpdates \/ StoreRefused
  <2>1. pc' = "idle"
    BY <1>7 DEF StoreUpdates, StoreRefused, BackToIdle
  <2> QED  BY <2>1 DEF Behind, Started
<1> QED
  BY <1>1, <1>2, <1>3, <1>4, <1>5, <1>6, <1>7 DEF Step

\* and what comes from outside does not touch the list.
LEMMA NextStarted ==
  ASSUME Inv, Apart, Behind, Started, [Next]_vars
  PROVE  Behind' /\ Started'
<1>1. ASSUME NEW start \in Starts, CheckStation(start) PROVE Behind' /\ Started'
  <2>1. pc' = "discard"
    BY <1>1 DEF CheckStation
  <2> QED  BY <2>1 DEF Behind, Started
<1>2. CASE UNCHANGED runVars
  <2>1. pc' = pc /\ data' = data /\ ut0' = ut0 /\ previous' = previous
    BY <1>2 DEF runVars, loopVars
  <2>2. InOrder' = InOrder /\ \A t : RainIn(data', t) = RainIn(data, t)
    BY <2>1 DEF InOrder, RainIn
  <2>3. Started'
    BY <2>1, <2>2 DEF Started
  <2> QED  BY <2>1, <2>3 DEF Behind
<1>3. CASE Outside
  <2>1. CASE Abort
    <3>1. pc' = "idle"
      BY <2>1 DEF Abort, BackToIdle
    <3> QED  BY <3>1 DEF Behind, Started
  <2> QED  BY <1>2, <1>3, <2>1 DEF Outside, Observe, Hqc, NeighboursReport
<1>4. CASE UNCHANGED vars
  BY <1>2, <1>4 DEF vars
<1> QED
  BY <1>1, <1>3, <1>4, StepStarted DEF Next

\* So both hold all the time.
LEMMA PlumaticStarted == Spec => [](Behind /\ Started)
<1>1. Init => Behind /\ Started
  BY DEF Init, Behind, Started
<1>2. Inv /\ Apart /\ Behind /\ Started /\ [Next]_vars => (Behind /\ Started)'
  BY NextStarted
<1> QED
  BY PlumaticInv, PlumaticSums, <1>1, <1>2, PTL DEF Spec

\* Minutes of rain that the run marks began a shower with a good row: no interruption
\* of a shower and no sum marks rain in the middle of it.
THEOREM PlumaticMarksStartShowers == Spec => []MarksStartShowers
<1>1. Started => MarksStartShowers
  BY DEF Started, MarksStartShowers, Ready, RainyAt, RainIn
<1> QED
  BY PlumaticStarted, <1>1, PTL
====
