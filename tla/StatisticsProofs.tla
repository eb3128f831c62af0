-------------------------- MODULE StatisticsProofs ---------------------------
(***************************************************************************)
(* The references in use belong to the run, unless one was cut short; the  *)
(* values that are compared with them are those of their windows; and the  *)
(* run warns about exactly the suspicious ones.                            *)
(*                                                                         *)
(* The second takes most of the module.  The days of an instrument are in  *)
(* order (DailyTyped), so that those up to a day are its first ones and    *)
(* those of a window a part of them (WindowIs).  What an accumulator holds *)
(* of days tail to head - 1 is, for the quartiles, their values, for means *)
(* and sums the difference of two prefix sums (Held); pushing moves head   *)
(* and popping tail (PushedAll, PoppedAll).  The invariant MeansInv says   *)
(* where the window is when a day is next, and that the values up to now   *)
(* are those of their windows.                                             *)
(*                                                                         *)
(* A third invariant, WarnInv, follows the checks through the lists of     *)
(* values and of neighbours: what is not left in the list of values has    *)
(* been warned about if it is suspicious, and the count is that of the     *)
(* neighbours not left in theirs.                                          *)
(***************************************************************************)
EXTENDS Statistics, FiniteInduction, FiniteSetTheorems

-----------------------------------------------------------------------------
(* OwnReferences.                                                          *)

\* Until a run is cut short, references are there only during a run, and each is what the
\* database has for the parameter and the days of this run.
ReferencesInv ==
    ~interrupted => /\ pc = "idle" => DOMAIN references = {}
                    /\ \A k \in DOMAIN references : references[k] = Loaded(k)

\* Only configure() changes what references are loaded for.
LEMMA LoadedStable ==
    ASSUME config' = config, NEW k
    PROVE  Loaded(k)' = Loaded(k)
BY DEF Loaded

\* Loading the keys that are wanted keeps the references of this run.
LEMMA LoadingKeeps ==
    ASSUME NEW keys, \A k \in DOMAIN references : references[k] = Loaded(k)
    PROVE  \A k \in DOMAIN WithKeys(keys) : WithKeys(keys)[k] = Loaded(k)
BY DEF WithKeys

LEMMA ReferencesStep == ReferencesInv /\ [Next]_vars => ReferencesInv'
<1> SUFFICES ASSUME ReferencesInv, [Next]_vars, ~interrupted'
             PROVE  /\ pc' = "idle" => DOMAIN references' = {}
                    /\ \A k \in DOMAIN references' : references'[k] = Loaded(k)'
  BY DEF ReferencesInv
<1> USE DEF vars, windowVars, checkVars, historyVars
<1>1. ASSUME NEW s \in Settings, NEW t \in Tables, Configure(s, t)
      PROVE  /\ pc' = "idle" => DOMAIN references' = {}
             /\ \A k \in DOMAIN references' : references'[k] = Loaded(k)'
  BY <1>1 DEF Configure, ReferencesInv
<1>2. CASE ReadRows \/ NewStation \/ SlideDay \/ EndStation \/ StartChecks \/ FindStations
           \/ CheckNeighbor \/ EndNeighbors
  <2>1. UNCHANGED <<config, references, interrupted>> /\ pc # "idle" /\ pc' # "idle"
    BY <1>2, Zenon DEF ReadRows, NewStation, SlideDay, EndStation, StartChecks, FindStations, CheckNeighbor, EndNeighbors
  <2> QED BY <2>1, LoadedStable DEF ReferencesInv
<1>3. CASE NewCenter
  <2>1. UNCHANGED <<config, interrupted>> /\ references' = WithKeys(Wanted) /\ pc' # "idle"
    BY <1>3 DEF NewCenter
  <2> QED BY <2>1, LoadingKeeps, LoadedStable DEF ReferencesInv
<1>4. CASE EndRun
  BY <1>4 DEF EndRun, None
<1>5. CASE Abort
  BY <1>5 DEF Abort
<1>6. CASE UNCHANGED vars
  BY <1>6, LoadedStable DEF ReferencesInv
<1> QED BY <1>1, <1>2, <1>3, <1>4, <1>5, <1>6 DEF Next, Run

\* References that are in use belong to the parameter and the days of the run that uses them,
\* in every state that no run cut short has led to (StatisticalMean.cc:283-299).
THEOREM ReferencesAreOwn == Spec => []OwnReferences
<1>1. Init => ReferencesInv
  BY DEF Init, None, ReferencesInv
<1>2. ReferencesInv => OwnReferences
  BY DEF ReferencesInv, OwnReferences
<1>3. QED  BY <1>1, <1>2, ReferencesStep, PTL DEF Spec

-----------------------------------------------------------------------------
(* Lists in an order.                                                      *)

StrictOrder(R, S) ==
    /\ \A a, b \in S : a # b => <<a, b>> \in R \/ <<b, a>> \in R
    /\ \A a, b, c \in S : <<a, b>> \in R /\ <<b, c>> \in R => <<a, c>> \in R
    /\ \A a \in S : <<a, a>> \notin R
Rank(S, R, e) == Cardinality({o \in S : <<o, e>> \in R})
OrderedBy(q, S, R) ==
    /\ q \in [1 .. Cardinality(S) -> S]
    /\ \A n \in 1 .. Cardinality(S) : Rank(S, R, q[n]) = n - 1

\* Fewer are before a member than before one that follows it.
LEMMA RankGrows ==
  ASSUME NEW S, IsFiniteSet(S), NEW R, StrictOrder(R, S), NEW a \in S, NEW b \in S, <<a, b>> \in R
  PROVE  Rank(S, R, a) < Rank(S, R, b)
<1> DEFINE A == {o \in S : <<o, a>> \in R}
           B == {o \in S : <<o, b>> \in R}
<1>1. A \subseteq B /\ a \in B /\ a \notin A
  BY DEF StrictOrder
<1>2. IsFiniteSet(B) /\ IsFiniteSet(A)
  BY FS_Subset
<1> HIDE DEF A, B
<1>3. Cardinality(A) <= Cardinality(B) /\ (Cardinality(B) = Cardinality(A) => B = A)
  BY <1>1, <1>2, FS_Subset
<1>4. Cardinality(A) # Cardinality(B)
  BY <1>1, <1>3
<1>5. Cardinality(A) \in Nat /\ Cardinality(B) \in Nat
  BY <1>2, FS_CardinalityType
<1>6. Cardinality(A) < Cardinality(B)
  BY <1>3, <1>4, <1>5
<1> QED
  BY <1>6 DEF A, B, Rank

\* Each number is the rank of one member.
LEMMA RankTaken ==
  ASSUME NEW S, IsFiniteSet(S), NEW R, StrictOrder(R, S)
  PROVE  /\ Cardinality(S) \in Nat
         /\ \A e \in S : Rank(S, R, e) \in 0 .. Cardinality(S) - 1
         /\ \A n \in 0 .. Cardinality(S) - 1 : \E e \in S : Rank(S, R, e) = n
         /\ \A a, b \in S : Rank(S, R, a) = Rank(S, R, b) => a = b
<1> DEFINE N == Cardinality(S)
           I == 0 .. N - 1
           f == [e \in S |-> Rank(S, R, e)]
<1>1. N \in Nat
  BY FS_CardinalityType
<1>2. ASSUME NEW e \in S PROVE Rank(S, R, e) \in I
  <2> DEFINE A == {o \in S : <<o, e>> \in R}
  <2>1. A \in SUBSET S /\ A # S
    BY DEF StrictOrder
  <2> HIDE DEF A
  <2>2. IsFiniteSet(A) /\ Cardinality(A) <= N /\ Cardinality(A) # N
    BY <2>1, FS_Subset
  <2>3. Cardinality(A) \in Nat
    BY <2>2, FS_CardinalityType
  <2>4. Cardinality(A) \in I
    BY <1>1, <2>2, <2>3
  <2> QED  BY <2>4 DEF A, Rank
<1>3. ASSUME NEW a \in S, NEW b \in S, Rank(S, R, a) = Rank(S, R, b) PROVE a = b
  <2>1. SUFFICES ASSUME a # b PROVE FALSE
    OBVIOUS
  <2>2. <<a, b>> \in R \/ <<b, a>> \in R
    BY <2>1 DEF StrictOrder
  <2>3. Rank(S, R, a) < Rank(S, R, b) \/ Rank(S, R, b) < Rank(S, R, a)
    BY <2>2, RankGrows
  <2>4. Rank(S, R, a) \in Int /\ Rank(S, R, b) \in Int
    BY <1>2, <1>1
  <2> QED  BY <1>3, <2>3, <2>4
<1>4. f \in Injection(S, I)
  BY <1>2, <1>3 DEF Injection, IsInjective
<1>5. IsFiniteSet(I) /\ Cardinality(I) = N
  BY <1>1, FS_Interval
<1>6. f \in Surjection(S, I)
  <2> HIDE DEF f, I, N
  <2>1. Cardinality(S) = Cardinality(I)
    BY <1>5 DEF N
  <2> QED  BY <1>4, <1>5, <2>1, FS_Injection
<1>7. \A n \in I : \E e \in S : f[e] = n
  BY <1>6 DEF Surjection
<1> QED
  BY <1>1, <1>2, <1>3, <1>7

\* Such a list has each member once, in the order.
LEMMA OrderedByRank ==
  ASSUME NEW S, IsFiniteSet(S), NEW R, StrictOrder(R, S), NEW q, OrderedBy(q, S, R)
  PROVE  /\ q \in Seq(S) /\ Len(q) = Cardinality(S)
         /\ \A e \in S : \E n \in DOMAIN q : q[n] = e
         /\ \A n, m \in DOMAIN q : q[n] = q[m] => n = m
         /\ \A n, m \in DOMAIN q : n < m => <<q[n], q[m]>> \in R
<1> DEFINE N == Cardinality(S)
<1>1. N \in Nat
  BY RankTaken
<1>2. DOMAIN q = 1 .. N
  BY DEF OrderedBy
<1>3. \A n \in 1 .. N : q[n] \in S /\ Rank(S, R, q[n]) = n - 1
  BY DEF OrderedBy
<1>4. q \in [1 .. N -> S]
  BY DEF OrderedBy
<1>5. q \in Seq(S) /\ Len(q) = N
  BY <1>1, <1>4
<1>6. ASSUME NEW e \in S PROVE \E n \in DOMAIN q : q[n] = e
  <2>1. Rank(S, R, e) \in 0 .. N - 1
    BY RankTaken
  <2> DEFINE n == Rank(S, R, e) + 1
  <2>2. n \in 1 .. N /\ n - 1 = Rank(S, R, e)
    BY <1>1, <2>1
  <2>3. q[n] \in S /\ Rank(S, R, q[n]) = Rank(S, R, e)
    BY <1>3, <2>2
  <2>4. q[n] = e
    BY <2>3, RankTaken
  <2> QED  BY <1>2, <2>2, <2>4
<1>7. ASSUME NEW n \in 1 .. N, NEW m \in 1 .. N, q[n] = q[m] PROVE n = m
  <2>1. n - 1 = m - 1
    BY <1>3, <1>7
  <2> QED  BY <2>1
<1>8. ASSUME NEW n \in 1 .. N, NEW m \in 1 .. N, n < m PROVE <<q[n], q[m]>> \in R
  <2>1. q[n] \in S /\ q[m] \in S /\ q[n] # q[m]
    BY <1>3, <1>7, <1>8
  <2>2. SUFFICES ASSUME <<q[m], q[n]>> \in R PROVE FALSE
    BY <2>1 DEF StrictOrder
  <2>3. Rank(S, R, q[m]) < Rank(S, R, q[n])
    BY <2>1, <2>2, RankGrows
  <2> QED  BY <2>3, <1>3, <1>8
<1> QED
  BY <1>2, <1>5, <1>6, <1>7, <1>8

\* Once(q, S): a list of each member of S, once.
Once(q, S) ==
    /\ q \in Seq(S) /\ \A e \in S : \E n \in DOMAIN q : q[n] = e
    /\ \A n, m \in DOMAIN q : q[n] = q[m] => n = m

\* Numbers, as days or stations.
LEMMA OrderedNumbers ==
  ASSUME NEW S, IsFiniteSet(S), S \subseteq Int, NEW q, q = Ordered(S, Earlier)
  PROVE  Once(q, S) /\ Len(q) = Cardinality(S) /\ \A n, m \in DOMAIN q : n < m => q[n] < q[m]
<1> DEFINE R == {p \in S \X S : p[1] < p[2]}
<1>1. StrictOrder(R, S)
  BY DEF StrictOrder
<1>2. \A e \in S : {o \in S : Earlier(o, e)} = {o \in S : <<o, e>> \in R}
  BY DEF Earlier
<1>3. \A a, b \in S : <<a, b>> \in R => a < b
  OBVIOUS
<1> HIDE DEF R
<1>4. OrderedBy(q, S, R)
  <2> DEFINE N == Cardinality(S)
  <2>1. \A e \in S : Cardinality({o \in S : Earlier(o, e)}) = Rank(S, R, e)
    BY <1>2 DEF Rank
  <2>2. N \in Nat /\ \A n \in 0 .. N - 1 : \E e \in S : Rank(S, R, e) = n
    BY ONLY IsFiniteSet(S), <1>1, RankTaken
  <2>3. q = [n \in 1 .. N |-> CHOOSE e \in S : Cardinality({o \in S : Earlier(o, e)}) = n - 1]
    BY DEF Ordered
  <2>4. ASSUME NEW n \in 1 .. N PROVE q[n] \in S /\ Rank(S, R, q[n]) = n - 1
    <3>1. n - 1 \in 0 .. N - 1
      BY <2>2
    <3>2. \E e \in S : Cardinality({o \in S : Earlier(o, e)}) = n - 1
      BY <2>1, <2>2, <3>1
    <3>3. q[n] = CHOOSE e \in S : Cardinality({o \in S : Earlier(o, e)}) = n - 1
      BY <2>3
    <3>4. q[n] \in S /\ Cardinality({o \in S : Earlier(o, q[n])}) = n - 1
      BY <3>2, <3>3, Zenon
    <3> QED  BY <2>1, <3>4
  <2>5. DOMAIN q = 1 .. N /\ q = [n \in 1 .. N |-> q[n]]
    BY <2>3
  <2> QED  BY <2>4, <2>5 DEF OrderedBy
<1>5. /\ q \in Seq(S) /\ Len(q) = Cardinality(S)
      /\ \A e \in S : \E n \in DOMAIN q : q[n] = e
      /\ \A n, m \in DOMAIN q : q[n] = q[m] => n = m
      /\ \A n, m \in DOMAIN q : n < m => <<q[n], q[m]>> \in R
  BY ONLY IsFiniteSet(S), <1>1, <1>4, OrderedByRank
<1>6. \A n \in DOMAIN q : q[n] \in S
  BY <1>5
<1> QED
  BY <1>3, <1>5, <1>6 DEF Once

\* Instruments, as the code orders them.
LEMMA OrderedInstruments ==
  ASSUME NEW S, IsFiniteSet(S), S \subseteq [station : Nat, type : Nat], NEW q, q = Ordered(S, Before)
  PROVE  Once(q, S)
<1> DEFINE R == {p \in S \X S : Before(p[1], p[2])}
<1>0. /\ \A a \in S : a.station \in Nat /\ a.type \in Nat
      /\ \A a, b \in S : a.station = b.station /\ a.type = b.type => a = b
  OBVIOUS
<1>1. StrictOrder(R, S)
  <2>1. ASSUME NEW a \in S, NEW b \in S, a # b, ~Before(a, b) PROVE Before(b, a)
    <3>1. a.station # b.station \/ a.type # b.type
      BY <1>0, <2>1
    <3>2. a.station \in Nat /\ b.station \in Nat /\ a.type \in Nat /\ b.type \in Nat
      BY <1>0, Zenon
    <3> QED  BY ONLY <3>1, <3>2, <2>1 DEF Before
  <2>2. ASSUME NEW a \in S, NEW b \in S, NEW c \in S, Before(a, b), Before(b, c)
        PROVE  Before(a, c)
    <3>1. /\ a.station \in Nat /\ b.station \in Nat /\ c.station \in Nat
          /\ a.type \in Nat /\ b.type \in Nat /\ c.type \in Nat
      BY <1>0, Zenon
    <3> QED  BY ONLY <2>2, <3>1 DEF Before
  <2>3. ASSUME NEW a \in S PROVE ~Before(a, a)
    <3>1. a.station \in Nat /\ a.type \in Nat
      BY <1>0, Zenon
    <3> QED  BY ONLY <3>1 DEF Before
  <2> QED  BY <2>1, <2>2, <2>3 DEF StrictOrder
<1>2. \A e \in S : {o \in S : Before(o, e)} = {o \in S : <<o, e>> \in R}
  OBVIOUS
<1> HIDE DEF R
<1>3. OrderedBy(q, S, R)
  <2> DEFINE N == Cardinality(S)
  <2>1. \A e \in S : Cardinality({o \in S : Before(o, e)}) = Rank(S, R, e)
    BY <1>2 DEF Rank
  <2>2. N \in Nat /\ \A n \in 0 .. N - 1 : \E e \in S : Rank(S, R, e) = n
    BY ONLY IsFiniteSet(S), <1>1, RankTaken
  <2>3. q = [n \in 1 .. N |-> CHOOSE e \in S : Cardinality({o \in S : Before(o, e)}) = n - 1]
    BY DEF Ordered
  <2>4. ASSUME NEW n \in 1 .. N PROVE q[n] \in S /\ Rank(S, R, q[n]) = n - 1
    <3>1. n - 1 \in 0 .. N - 1
      BY <2>2
    <3>2. \E e \in S : Cardinality({o \in S : Before(o, e)}) = n - 1
      BY <2>1, <2>2, <3>1
    <3>3. q[n] = CHOOSE e \in S : Cardinality({o \in S : Before(o, e)}) = n - 1
      BY <2>3
    <3>4. q[n] \in S /\ Cardinality({o \in S : Before(o, q[n])}) = n - 1
      BY <3>2, <3>3, Zenon
    <3> QED  BY <2>1, <3>4
  <2>5. DOMAIN q = 1 .. N /\ q = [n \in 1 .. N |-> q[n]]
    BY <2>3
  <2> QED  BY <2>4, <2>5 DEF OrderedBy
<1> QED
  BY <1>1, <1>3, OrderedByRank DEF Once

\* Their values, by instrument and day.
LEMMA OrderedValues ==
  ASSUME NEW S, IsFiniteSet(S), S \subseteq [station : Nat, type : Nat] \X Int, NEW q, q = Ordered(S, BeforeOrEarlier)
  PROVE  Once(q, S)
<1> DEFINE R == {p \in S \X S : BeforeOrEarlier(p[1], p[2])}
<1>0. /\ \A a \in S : a[1].station \in Nat /\ a[1].type \in Nat /\ a[2] \in Int
      /\ \A a, b \in S : a[1].station = b[1].station /\ a[1].type = b[1].type => a[1] = b[1]
      /\ \A a, b \in S : a[1] = b[1] /\ a[2] = b[2] => a = b
  <2>1. \A a \in S : /\ a[1] \in [station : Nat, type : Nat] /\ a[2] \in Int /\ a = <<a[1], a[2]>>
    OBVIOUS
  <2>2. \A i, j \in [station : Nat, type : Nat] : i.station = j.station /\ i.type = j.type => i = j
    OBVIOUS
  <2>3. \A i \in [station : Nat, type : Nat] : i.station \in Nat /\ i.type \in Nat
    OBVIOUS
  <2> QED  BY <2>1, <2>2, <2>3, Zenon
<1>1. StrictOrder(R, S)
  <2>1. ASSUME NEW a \in S, NEW b \in S, a # b, ~BeforeOrEarlier(a, b) PROVE BeforeOrEarlier(b, a)
    <3>1. a[1].station # b[1].station \/ a[1].type # b[1].type \/ a[2] # b[2]
      BY <1>0, <2>1, Zenon
    <3> HIDE DEF R
    <3>2. a[1].station = b[1].station /\ a[1].type = b[1].type => a[1] = b[1]
      BY <1>0, Zenon
    <3>3. /\ a[1].station \in Nat /\ b[1].station \in Nat /\ a[1].type \in Nat /\ b[1].type \in Nat
          /\ a[2] \in Int /\ b[2] \in Int
      BY <1>0, Zenon
    <3> QED  BY ONLY <3>1, <3>2, <3>3, <2>1 DEF BeforeOrEarlier, Before
  <2>2. ASSUME NEW a \in S, NEW b \in S, NEW c \in S, BeforeOrEarlier(a, b), BeforeOrEarlier(b, c)
        PROVE  BeforeOrEarlier(a, c)
    <3>1. /\ a[1].station \in Nat /\ b[1].station \in Nat /\ c[1].station \in Nat
          /\ a[1].type \in Nat /\ b[1].type \in Nat /\ c[1].type \in Nat
          /\ a[2] \in Int /\ b[2] \in Int /\ c[2] \in Int
      BY <1>0, Zenon
    <3> QED  BY ONLY <2>2, <3>1 DEF BeforeOrEarlier, Before
  <2>3. ASSUME NEW a \in S PROVE ~BeforeOrEarlier(a, a)
    <3>1. a[1].station \in Nat /\ a[1].type \in Nat /\ a[2] \in Int
      BY <1>0, Zenon
    <3> QED  BY ONLY <3>1 DEF BeforeOrEarlier, Before
  <2> QED  BY <2>1, <2>2, <2>3 DEF StrictOrder
<1>2. \A e \in S : {o \in S : BeforeOrEarlier(o, e)} = {o \in S : <<o, e>> \in R}
  OBVIOUS
<1> HIDE DEF R
<1>3. OrderedBy(q, S, R)
  <2> DEFINE N == Cardinality(S)
  <2>1. \A e \in S : Cardinality({o \in S : BeforeOrEarlier(o, e)}) = Rank(S, R, e)
    BY <1>2 DEF Rank
  <2>2. N \in Nat /\ \A n \in 0 .. N - 1 : \E e \in S : Rank(S, R, e) = n
    BY ONLY IsFiniteSet(S), <1>1, RankTaken
  <2>3. q = [n \in 1 .. N |-> CHOOSE e \in S : Cardinality({o \in S : BeforeOrEarlier(o, e)}) = n - 1]
    BY DEF Ordered
  <2>4. ASSUME NEW n \in 1 .. N PROVE q[n] \in S /\ Rank(S, R, q[n]) = n - 1
    <3>1. n - 1 \in 0 .. N - 1
      BY <2>2
    <3>2. \E e \in S : Cardinality({o \in S : BeforeOrEarlier(o, e)}) = n - 1
      BY <2>1, <2>2, <3>1
    <3>3. q[n] = CHOOSE e \in S : Cardinality({o \in S : BeforeOrEarlier(o, e)}) = n - 1
      BY <2>3
    <3>4. q[n] \in S /\ Cardinality({o \in S : BeforeOrEarlier(o, q[n])}) = n - 1
      BY <3>2, <3>3, Zenon
    <3> QED  BY <2>1, <3>4
  <2>5. DOMAIN q = 1 .. N /\ q = [n \in 1 .. N |-> q[n]]
    BY <2>3
  <2> QED  BY <2>4, <2>5 DEF OrderedBy
<1> QED
  BY <1>1, <1>3, OrderedByRank DEF Once

-----------------------------------------------------------------------------
(* Days with a value, and what the accumulators hold of them.              *)

SeriesOk(s) ==
    /\ s \in Seq([day : Int, value : Int])
    /\ \A n, m \in DOMAIN s : n < m => s[n].day < s[m].day

\* The days and values are whole numbers.
LEMMA SeriesTyped ==
  ASSUME NEW s, SeriesOk(s)
  PROVE  /\ Len(s) \in Nat /\ DOMAIN s = 1 .. Len(s)
         /\ \A n \in 1 .. Len(s) : s[n].day \in Int /\ s[n].value \in Int
         /\ \A n, m \in 1 .. Len(s) : n < m => s[n].day < s[m].day
<1> DEFINE D == [day : Int, value : Int]
<1>1. \A x \in D : x.day \in Int /\ x.value \in Int
  OBVIOUS
<1>2. s \in Seq(D)
  BY DEF SeriesOk
<1> HIDE DEF D
<1>3. Len(s) \in Nat /\ DOMAIN s = 1 .. Len(s) /\ \A n \in 1 .. Len(s) : s[n] \in D
  BY <1>2
<1> QED
  BY <1>1, <1>3 DEF SeriesOk

\* How many days are not after d.
UpTo(s, d) == Cardinality({n \in DOMAIN s : s[n].day <= d})

\* These days are the first ones.
LEMMA FirstDays ==
  ASSUME NEW s, SeriesOk(s), NEW d \in Int
  PROVE  /\ UpTo(s, d) \in 0 .. Len(s)
         /\ \A n \in DOMAIN s : s[n].day <= d <=> n <= UpTo(s, d)
<1> DEFINE L == Len(s)
           S == {n \in DOMAIN s : s[n].day <= d}
<1>1. /\ L \in Nat /\ DOMAIN s = 1 .. L /\ \A n \in 1 .. L : s[n].day \in Int
      /\ \A n, m \in 1 .. L : n < m => s[n].day < s[m].day
  BY SeriesTyped
<1>2. ASSUME NEW m \in S, NEW n \in 1 .. L, n <= m PROVE n \in S
  <2>1. m \in 1 .. L /\ s[m].day <= d
    BY <1>1
  <2>2. n = m \/ s[n].day < s[m].day
    BY <1>1, <1>2, <2>1
  <2>3. s[n].day \in Int /\ s[m].day \in Int
    BY <1>1, <2>1
  <2>4. s[n].day <= d
    BY <2>1, <2>2, <2>3
  <2> QED  BY <1>1, <2>4
<1>3. \E k \in 0 .. L : S = 1 .. k
  <2>1. CASE S = {}
    <3>1. S = 1 .. 0
      BY <2>1
    <3> QED  BY <1>1, <3>1
  <2>2. CASE S # {}
    <3>1. S \in SUBSET (1 .. L)
      BY <1>1
    <3> HIDE DEF S
    <3>2. Max(S) \in S /\ \A k \in S : k <= Max(S)
      <4>1. 1 \in Int /\ L \in Int
        BY <1>1
      <4> HIDE DEF L
      <4> QED  BY ONLY <2>2, <3>1, <4>1, MaxOfSome
    <3>3. Max(S) \in 1 .. L /\ \A n \in 1 .. L : n <= Max(S) => n \in S
      BY <1>2, <3>1, <3>2
    <3>4. S = 1 .. Max(S)
      <4> DEFINE M == Max(S)
      <4>1. M \in 1 .. L
        BY <3>3
      <4>2. \A k \in S : k \in 1 .. L /\ k <= M
        BY <3>1, <3>2
      <4>3. \A n \in 1 .. L : n <= M => n \in S
        BY <3>3
      <4> HIDE DEF M, L
      <4>4. \A k \in S : k \in 1 .. M
        BY ONLY <1>1, <4>1, <4>2
      <4>5. \A k \in 1 .. M : k \in S
        BY ONLY <1>1, <4>1, <4>3
      <4>6. S = 1 .. M
        BY <4>4, <4>5, Zenon
      <4> QED  BY <4>6 DEF M
    <3> QED  BY <1>1, <3>3, <3>4
  <2> QED  BY <2>1, <2>2
<1>4. PICK k \in 0 .. L : S = 1 .. k
  BY <1>3
<1>5. UpTo(s, d) = k
  <2>1. UpTo(s, d) = Cardinality(S)
    BY DEF UpTo
  <2>2. Cardinality(1 .. k) = IF 1 > k THEN 0 ELSE k - 1 + 1
    BY <1>1, FS_Interval
  <2> HIDE DEF S
  <2>3. UpTo(s, d) = IF 1 > k THEN 0 ELSE k - 1 + 1
    BY <1>4, <2>1, <2>2
  <2> QED  BY <1>1, <2>3
<1>6. ASSUME NEW n \in 1 .. L PROVE s[n].day <= d <=> n <= k
  <2>1. s[n].day <= d <=> n \in S
    BY <1>1
  <2>2. n \in S <=> n \in 1 .. k
    BY <1>4
  <2> QED  BY <1>1, <2>1, <2>2
<1> QED
  BY <1>1, <1>5, <1>6

\* Not fewer are up to a later day.
LEMMA MoreDays ==
  ASSUME NEW s, SeriesOk(s), NEW d \in Int, NEW e \in Int, d <= e
  PROVE  UpTo(s, d) <= UpTo(s, e)
<1>1. /\ UpTo(s, d) \in 0 .. Len(s) /\ \A n \in DOMAIN s : s[n].day <= d <=> n <= UpTo(s, d)
      /\ UpTo(s, e) \in 0 .. Len(s) /\ \A n \in DOMAIN s : s[n].day <= e <=> n <= UpTo(s, e)
  BY FirstDays
<1>2. CASE UpTo(s, d) = 0
  BY <1>1, <1>2
<1>3. CASE UpTo(s, d) # 0
  <2> DEFINE n == UpTo(s, d)
  <2>1. Len(s) \in Nat /\ DOMAIN s = 1 .. Len(s) /\ \A k \in DOMAIN s : s[k].day \in Int
    BY SeriesTyped
  <2>2. n \in DOMAIN s
    BY <1>1, <1>3, <2>1
  <2>3. s[n].day <= d
    BY <1>1, <2>1, <2>2
  <2>4. s[n].day <= e
    BY <2>1, <2>2, <2>3
  <2> QED  BY <1>1, <2>2, <2>4
<1> QED
  BY <1>2, <1>3

\* The sums of the values up to each.
Sums(p, s) == p \in [0 .. Len(s) -> Int] /\ p[0] = 0 /\ \A n \in 1 .. Len(s) : p[n] = p[n - 1] + s[n].value

\* There are such sums.
LEMMA SumsThere ==
  ASSUME NEW s, SeriesOk(s)
  PROVE  \E p : Sums(p, s)
<1> DEFINE L == Len(s)
           step == [x \in Int \X (1 .. L) |-> x[1] + s[x[2]].value]
<1>1. L \in Nat /\ \A n \in 1 .. L : s[n].value \in Int
  BY SeriesTyped
<1> HIDE DEF L
<1>2. step \in [Int \X (1 .. L) -> Int]
  BY <1>1
<1>3. \A x \in Int, n \in 1 .. L : step[<<x, n>>] = x + s[n].value
  OBVIOUS
<1> HIDE DEF step
<1>4. PICK p \in [0 .. L -> Int] : RecursiveOver(p, L, 0, step)
  <2>1. 0 \in Int
    OBVIOUS
  <2> QED  BY ONLY <1>1, <1>2, <2>1, Recursion
<1>5. ASSUME NEW n \in 1 .. L PROVE p[n] = p[n - 1] + s[n].value
  <2>1. p[n] = step[<<p[n - 1], n>>] /\ p[n - 1] \in Int
    BY <1>1, <1>4 DEF RecursiveOver
  <2> QED  BY <1>3, <2>1
<1>6. p[0] = 0
  BY <1>4 DEF RecursiveOver
<1> QED
  BY <1>4, <1>5, <1>6 DEF Sums, L

\* What an accumulator holds of the days t .. h - 1.
Held(f, s, p, t, h) ==
    IF f = "quartiles" THEN [n \in 1 .. h - t |-> s[t + n - 1].value]
    ELSE [sum |-> p[h - 1] - p[t - 1], count |-> h - t]

\* Nothing of no days.
LEMMA HeldEmpty ==
  ASSUME NEW f, NEW s, SeriesOk(s), NEW p, Sums(p, s), NEW t \in 1 .. Len(s) + 1
  PROVE  Held(f, s, p, t, t) = Empty(f)
<1>1. Len(s) \in Nat
  BY DEF SeriesOk
<1>2. t - 1 \in 0 .. Len(s) /\ t - t = 0 /\ 1 .. 0 = {}
  BY <1>1
<1>3. p[t - 1] \in Int
  BY <1>2 DEF Sums
<1>4. p[t - 1] - p[t - 1] = 0
  BY <1>3
<1>5. [n \in 1 .. t - t |-> s[t + n - 1].value] = <<>>
  BY <1>2
<1> QED
  BY <1>2, <1>4, <1>5 DEF Held, Empty

\* push(): one more.
LEMMA PushOne ==
  ASSUME NEW f, NEW s, SeriesOk(s), NEW p, Sums(p, s), NEW h \in 1 .. Len(s), NEW t \in 1 .. h
  PROVE  Push(f, Held(f, s, p, t, h), s[h].value) = Held(f, s, p, t, h + 1)
<1>1. Len(s) \in Nat /\ \A n \in 1 .. Len(s) : s[n].value \in Int
  BY SeriesTyped
<1>2. CASE f = "quartiles"
  <2> DEFINE a == [n \in 1 .. h - t |-> s[t + n - 1].value]
             b == [n \in 1 .. h + 1 - t |-> s[t + n - 1].value]
  <2>1. a \in Seq(Int) /\ Len(a) = h - t
    <3>1. \A n \in 1 .. h - t : t + n - 1 \in 1 .. Len(s)
      BY <1>1
    <3>2. a \in [1 .. h - t -> Int] /\ h - t \in Nat /\ DOMAIN a = 1 .. h - t
      BY <1>1, <3>1
    <3> HIDE DEF a
    <3> QED  BY <3>2
  <2>2. ASSUME NEW n \in 1 .. h + 1 - t PROVE Append(a, s[h].value)[n] = b[n]
    <3>1. CASE n = h + 1 - t
      <4>1. t + n - 1 = h
        BY <1>1, <3>1
      <4> QED  BY <2>1, <3>1, <4>1, <1>1
    <3>2. CASE n # h + 1 - t
      <4>1. n \in 1 .. h - t
        BY <1>1, <3>2
      <4>2. Append(a, s[h].value)[n] = a[n]
        BY <2>1, <4>1, <1>1
      <4> QED  BY <4>1, <4>2
    <3> QED  BY <3>1, <3>2
  <2>3. DOMAIN Append(a, s[h].value) = 1 .. h + 1 - t /\ Append(a, s[h].value) \in Seq(Int)
    BY <2>1, <1>1
  <2> HIDE DEF a
  <2>4. Append(a, s[h].value) = [n \in 1 .. h + 1 - t |-> Append(a, s[h].value)[n]]
    BY <2>3
  <2>5. Append(a, s[h].value) = b
    BY <2>2, <2>4
  <2> QED  BY <1>2, <2>5 DEF Push, Held, a
<1>3. CASE f # "quartiles"
  <2>1. h - 1 \in 0 .. Len(s) /\ t - 1 \in 0 .. Len(s) /\ h + 1 - 1 = h /\ h \in 0 .. Len(s)
    BY <1>1
  <2>2. p[h - 1] \in Int /\ p[t - 1] \in Int /\ s[h].value \in Int /\ p[h] = p[h - 1] + s[h].value
    BY <1>1, <2>1 DEF Sums
  <2>3. /\ (p[h - 1] - p[t - 1]) + s[h].value = p[h + 1 - 1] - p[t - 1]
        /\ (h - t) + 1 = h + 1 - t
    BY <2>1, <2>2
  <2> QED  BY <1>3, <2>3 DEF Push, Held
<1> QED
  BY <1>2, <1>3

\* pop(): without the first.
LEMMA PopOne ==
  ASSUME NEW f, NEW s, SeriesOk(s), NEW p, Sums(p, s), NEW h \in 1 .. Len(s) + 1, NEW t \in 1 .. h - 1
  PROVE  Pop(f, Held(f, s, p, t, h), s[t].value) = Held(f, s, p, t + 1, h)
<1>1. Len(s) \in Nat /\ \A n \in 1 .. Len(s) : s[n].value \in Int
  BY SeriesTyped
<1>2. CASE f = "quartiles"
  <2> DEFINE a == [n \in 1 .. h - t |-> s[t + n - 1].value]
             b == [n \in 1 .. h - (t + 1) |-> s[t + 1 + n - 1].value]
             e == s[t].value
             I == {i \in 1 .. Len(a) : a[i] = e}
  <2>1. a \in Seq(Int) /\ Len(a) = h - t /\ h - t \in Nat /\ h - t >= 1
    <3>1. \A n \in 1 .. h - t : t + n - 1 \in 1 .. Len(s)
      BY <1>1
    <3>2. a \in [1 .. h - t -> Int] /\ h - t \in Nat /\ h - t >= 1 /\ DOMAIN a = 1 .. h - t
      BY <1>1, <3>1
    <3> HIDE DEF a
    <3> QED  BY <3>2
  <2>2. 1 \in 1 .. Len(a) /\ a[1] = e
    BY <2>1
  <2>3. SelectInSeq(a, LAMBDA v : v = e) = 1
    <3>1. SelectInSeq(a, LAMBDA v : v = e) = IF I # {} THEN Min(I) ELSE 0
      BY DEF SelectInSeq
    <3>2. 1 \in I /\ I \in SUBSET Int /\ \A k \in I : 1 <= k
      BY <2>1, <2>2
    <3> HIDE DEF I
    <3>3. Min(I) \in I /\ \A k \in I : Min(I) <= k
      <4>1. 1 \in Int /\ I # {}
        BY <3>2
      <4> QED  BY ONLY <3>2, <4>1, MinOfSome
    <3>4. Min(I) = 1
      <4> DEFINE M == Min(I)
      <4>1. M \in Int /\ 1 <= M /\ M <= 1
        BY <3>2, <3>3
      <4> HIDE DEF M
      <4>2. M = 1
        BY <4>1
      <4> QED  BY <4>2 DEF M
    <3> QED  BY <3>1, <3>2, <3>4
  <2>4. RemoveFirst(a, e) = SubSeq(a, 1, 1 - 1) \o SubSeq(a, 1 + 1, Len(a))
    <3>1. \E i \in 1 .. Len(a) : a[i] = e
      BY <2>2
    <3>2. RemoveFirst(a, e) = RemoveAt(a, SelectInSeq(a, LAMBDA v : v = e))
      BY <3>1 DEF RemoveFirst
    <3> QED  BY <2>3, <3>2 DEF RemoveAt
  <2> HIDE DEF a
  <2>5. SubSeq(a, 1, 1 - 1) = <<>> /\ SubSeq(a, 1 + 1, Len(a)) = [n \in 1 .. Len(a) - 1 |-> a[n + 1]]
    BY <2>1
  <2>6. [n \in 1 .. Len(a) - 1 |-> a[n + 1]] \in Seq(Int)
    BY <2>1
  <2>7. RemoveFirst(a, e) = [n \in 1 .. Len(a) - 1 |-> a[n + 1]]
    BY <2>4, <2>5, <2>6
  <2>8. \A n \in 1 .. Len(a) - 1 : a[n + 1] = s[t + 1 + n - 1].value
    BY <2>1, <1>1 DEF a
  <2>9. Len(a) - 1 = h - (t + 1)
    BY <2>1, <1>1
  <2>10. RemoveFirst(a, e) = b
    BY <2>7, <2>8, <2>9
  <2> QED  BY <1>2, <2>10 DEF Pop, Held, a
<1>3. CASE f # "quartiles"
  <2>1. h - 1 \in 0 .. Len(s) /\ t - 1 \in 0 .. Len(s) /\ t + 1 - 1 = t /\ t \in 1 .. Len(s)
    BY <1>1
  <2>2. p[h - 1] \in Int /\ p[t - 1] \in Int /\ s[t].value \in Int /\ p[t] = p[t - 1] + s[t].value
    BY <1>1, <2>1 DEF Sums
  <2>3. /\ (p[h - 1] - p[t - 1]) - s[t].value = p[h - 1] - p[t + 1 - 1]
        /\ (h - t) - 1 = h - (t + 1)
    BY <2>1, <2>2
  <2> QED  BY <1>3, <2>3 DEF Pop, Held
<1> QED
  BY <1>2, <1>3

\* A part of the days.
LEMMA PartOfDays ==
  ASSUME NEW s, SeriesOk(s), NEW a \in 1 .. Len(s) + 1, NEW b \in a .. Len(s) + 1
  PROVE  /\ Len(SubSeq(s, a, b - 1)) = b - a
         /\ \A n \in 1 .. b - a : SubSeq(s, a, b - 1)[n] = s[a + n - 1]
BY DEF SeriesOk

\* All of a part are pushed.
LEMMA PushedAll ==
  ASSUME NEW f, NEW s, SeriesOk(s), NEW p, Sums(p, s),
         NEW k \in 1 .. Len(s) + 1, NEW h \in 1 .. k, NEW t \in 1 .. h
  PROVE  PushAll(f, Held(f, s, p, t, h), SubSeq(s, h, k - 1)) = Held(f, s, p, t, k)
<1> DEFINE q == SubSeq(s, h, k - 1)
           L == Len(q)
           a == Held(f, s, p, t, h)
           Unrolls(g) == g = [n \in 0 .. L |-> IF n = 0 THEN a ELSE Push(f, g[n - 1], q[n].value)]
           w == [n \in 0 .. L |-> Held(f, s, p, t, h + n)]
<1>1. Len(s) \in Nat
  BY DEF SeriesOk
<1>2. L = k - h /\ L \in Nat /\ \A n \in 1 .. L : q[n] = s[h + n - 1]
  <2>1. k \in h .. Len(s) + 1 /\ h \in 1 .. Len(s) + 1
    BY <1>1
  <2>2. L = k - h /\ \A n \in 1 .. k - h : q[n] = s[h + n - 1]
    BY <2>1, PartOfDays
  <2> QED  BY <1>1, <2>2
<1> HIDE DEF q, L
<1>3. ASSUME NEW n \in 1 .. L PROVE Push(f, Held(f, s, p, t, h + (n - 1)), q[n].value) = Held(f, s, p, t, h + n)
  <2>1. h + n - 1 \in 1 .. Len(s) /\ t \in 1 .. h + n - 1 /\ h + (n - 1) = h + n - 1 /\ h + n - 1 + 1 = h + n
    BY <1>1, <1>2
  <2>2. Push(f, Held(f, s, p, t, h + n - 1), s[h + n - 1].value) = Held(f, s, p, t, h + n - 1 + 1)
    BY <2>1, PushOne
  <2> QED  BY <1>2, <2>1, <2>2
<1>4. Unrolls(w)
  <2>1. ASSUME NEW n \in 0 .. L PROVE w[n] = IF n = 0 THEN a ELSE Push(f, w[n - 1], q[n].value)
    <3>1. CASE n = 0
      <4>1. h + n = h
        BY <1>1, <3>1
      <4> QED  BY <3>1, <4>1
    <3>2. CASE n # 0
      <4>1. n \in 1 .. L /\ n - 1 \in 0 .. L
        BY <1>2, <3>2
      <4>2. w[n - 1] = Held(f, s, p, t, h + (n - 1)) /\ w[n] = Held(f, s, p, t, h + n)
        BY <4>1
      <4> QED  BY <1>3, <3>2, <4>1, <4>2
    <3> QED  BY <3>1, <3>2
  <2>2. w = [n \in 0 .. L |-> w[n]]
    OBVIOUS
  <2> HIDE DEF w
  <2> QED  BY <2>1, <2>2
<1> DEFINE g == CHOOSE c : Unrolls(c)
<1>5. Unrolls(g)
  <2> HIDE DEF Unrolls, w
  <2> QED  BY <1>4, Zenon
<1>6. PushAll(f, a, q) = g[L]
  BY DEF PushAll, L
<1> HIDE DEF g
<1>7. g[0] = a /\ \A n \in 1 .. L : g[n] = Push(f, g[n - 1], q[n].value)
  BY <1>2, <1>5
<1> HIDE DEF Unrolls
<1> DEFINE T == {n \in 0 .. L : g[n] = Held(f, s, p, t, h + n)}
<1>8. 0 \in T
  <2>1. h + 0 = h
    BY <1>1
  <2> QED  BY <1>2, <1>7, <2>1
<1>9. ASSUME NEW n \in 1 .. L, n - 1 \in T PROVE n \in T
  <2>1. g[n - 1] = Held(f, s, p, t, h + (n - 1))
    BY <1>9
  <2>2. g[n] = Held(f, s, p, t, h + n)
    BY <1>3, <1>7, <2>1
  <2> QED  BY <2>2
<1>10. L \in T
  <2> HIDE DEF T
  <2>1. 0 .. L \subseteq T
    BY <1>2, <1>8, <1>9, IntervalInduction
  <2> QED  BY <1>2, <2>1
<1>11. h + L = k
  BY <1>1, <1>2
<1> QED
  BY <1>6, <1>10, <1>11 DEF q, a

\* And the first days popped.
LEMMA PoppedAll ==
  ASSUME NEW f, NEW s, SeriesOk(s), NEW p, Sums(p, s),
         NEW h \in 1 .. Len(s) + 1, NEW k \in 1 .. h, NEW t \in 1 .. k
  PROVE  PopAll(f, Held(f, s, p, t, h), SubSeq(s, t, k - 1)) = Held(f, s, p, k, h)
<1> DEFINE q == SubSeq(s, t, k - 1)
           L == Len(q)
           a == Held(f, s, p, t, h)
           Unrolls(g) == g = [n \in 0 .. L |-> IF n = 0 THEN a ELSE Pop(f, g[n - 1], q[n].value)]
           w == [n \in 0 .. L |-> Held(f, s, p, t + n, h)]
<1>1. Len(s) \in Nat
  BY DEF SeriesOk
<1>2. L = k - t /\ L \in Nat /\ \A n \in 1 .. L : q[n] = s[t + n - 1]
  <2>1. k \in t .. Len(s) + 1 /\ t \in 1 .. Len(s) + 1
    BY <1>1
  <2>2. L = k - t /\ \A n \in 1 .. k - t : q[n] = s[t + n - 1]
    BY <2>1, PartOfDays
  <2> QED  BY <1>1, <2>2
<1> HIDE DEF q, L
<1>3. ASSUME NEW n \in 1 .. L PROVE Pop(f, Held(f, s, p, t + (n - 1), h), q[n].value) = Held(f, s, p, t + n, h)
  <2>1. t + n - 1 \in 1 .. h - 1 /\ t + (n - 1) = t + n - 1 /\ t + n - 1 + 1 = t + n
    BY <1>1, <1>2
  <2>2. Pop(f, Held(f, s, p, t + n - 1, h), s[t + n - 1].value) = Held(f, s, p, t + n - 1 + 1, h)
    BY <2>1, PopOne
  <2> QED  BY <1>2, <2>1, <2>2
<1>4. Unrolls(w)
  <2>1. ASSUME NEW n \in 0 .. L PROVE w[n] = IF n = 0 THEN a ELSE Pop(f, w[n - 1], q[n].value)
    <3>1. CASE n = 0
      <4>1. t + n = t
        BY <1>1, <3>1
      <4> QED  BY <3>1, <4>1
    <3>2. CASE n # 0
      <4>1. n \in 1 .. L /\ n - 1 \in 0 .. L
        BY <1>2, <3>2
      <4>2. w[n - 1] = Held(f, s, p, t + (n - 1), h) /\ w[n] = Held(f, s, p, t + n, h)
        BY <4>1
      <4> QED  BY <1>3, <3>2, <4>1, <4>2
    <3> QED  BY <3>1, <3>2
  <2>2. w = [n \in 0 .. L |-> w[n]]
    OBVIOUS
  <2> HIDE DEF w
  <2> QED  BY <2>1, <2>2
<1> DEFINE g == CHOOSE c : Unrolls(c)
<1>5. Unrolls(g)
  <2> HIDE DEF Unrolls, w
  <2> QED  BY <1>4, Zenon
<1>6. PopAll(f, a, q) = g[L]
  BY DEF PopAll, L
<1> HIDE DEF g
<1>7. g[0] = a /\ \A n \in 1 .. L : g[n] = Pop(f, g[n - 1], q[n].value)
  BY <1>2, <1>5
<1> HIDE DEF Unrolls
<1> DEFINE T == {n \in 0 .. L : g[n] = Held(f, s, p, t + n, h)}
<1>8. 0 \in T
  <2>1. t + 0 = t
    BY <1>1
  <2> QED  BY <1>2, <1>7, <2>1
<1>9. ASSUME NEW n \in 1 .. L, n - 1 \in T PROVE n \in T
  <2>1. g[n - 1] = Held(f, s, p, t + (n - 1), h)
    BY <1>9
  <2>2. g[n] = Held(f, s, p, t + n, h)
    BY <1>3, <1>7, <2>1
  <2> QED  BY <2>2
<1>10. L \in T
  <2> HIDE DEF T
  <2>1. 0 .. L \subseteq T
    BY <1>2, <1>8, <1>9, IntervalInduction
  <2> QED  BY <1>2, <2>1
<1>11. t + L = k
  BY <1>1, <1>2
<1> QED
  BY <1>6, <1>10, <1>11 DEF q, a

\* Functions on the first numbers are lists, and so are their parts.
LEMMA ListTyped ==
  ASSUME NEW D, NEW n \in Nat, NEW q \in [1 .. n -> D]
  PROVE  q \in Seq(D) /\ Len(q) = n
OBVIOUS

\* A part of a list is a list.
LEMMA PartTyped ==
  ASSUME NEW D, NEW s \in Seq(D), NEW a \in 1 .. Len(s) + 1, NEW b \in a - 1 .. Len(s)
  PROVE  SubSeq(s, a, b) \in Seq(D)
OBVIOUS

\* Numbers without a hole, in their order.
LEMMA OrderedInterval ==
  ASSUME NEW a \in Nat, NEW b \in Nat, a <= b + 1
  PROVE  Ordered(a .. b, Earlier) = [n \in 1 .. b + 1 - a |-> a + n - 1]
<1> DEFINE S == a .. b
           N == b + 1 - a
<1>1. Cardinality(S) = N /\ N \in Nat
  <2>1. Cardinality(a .. b) = IF a > b THEN 0 ELSE b - a + 1
    BY FS_Interval
  <2> QED  BY <2>1
<1>2. ASSUME NEW e \in S PROVE Cardinality({o \in S : Earlier(o, e)}) = e - a
  <2>1. {o \in S : Earlier(o, e)} = a .. e - 1
    <3>1. e \in Int /\ e <= b /\ a <= e
      OBVIOUS
    <3>2. \A o \in S : o < e => o \in a .. e - 1
      BY <3>1
    <3>3. \A o \in a .. e - 1 : o \in S /\ o < e
      BY <3>1
    <3> HIDE DEF S
    <3> QED  BY <3>2, <3>3 DEF Earlier
  <2> DEFINE c == e - 1
  <2>2. c \in Int /\ a <= e /\ e \in Int
    OBVIOUS
  <2> HIDE DEF c
  <2>3. Cardinality(a .. c) = IF a > c THEN 0 ELSE c - a + 1
    BY <2>2, FS_Interval
  <2>4. (IF a > c THEN 0 ELSE c - a + 1) = e - a
    BY <2>2 DEF c
  <2> HIDE DEF S
  <2> QED  BY <2>1, <2>3, <2>4 DEF c
<1>3. ASSUME NEW n \in 1 .. N PROVE (CHOOSE e \in S : Cardinality({o \in S : Earlier(o, e)}) = n - 1) = a + n - 1
  <2> DEFINE P(e) == Cardinality({o \in S : Earlier(o, e)}) = n - 1
             c == CHOOSE e \in S : P(e)
  <2>1. a + n - 1 \in S /\ (a + n - 1) - a = n - 1
    BY <1>1
  <2>2. P(a + n - 1)
    BY <1>2, <2>1
  <2>3. \A e \in S : P(e) => e - a = n - 1
    BY <1>2
  <2> HIDE DEF P
  <2>4. c \in S /\ P(c)
    BY <2>1, <2>2
  <2>5. c - a = n - 1 /\ c \in Int
    BY <2>3, <2>4
  <2> HIDE DEF c
  <2>6. c = a + n - 1
    BY <2>5
  <2> QED  BY <2>6 DEF c, P
<1>4. Ordered(S, Earlier) = [n \in 1 .. N |-> CHOOSE e \in S : Cardinality({o \in S : Earlier(o, e)}) = n - 1]
  BY <1>1 DEF Ordered
<1> QED
  BY <1>3, <1>4

\* The days of a window are a part of the days.
LEMMA WindowIs ==
  ASSUME NEW i, NEW s, s = daily[i], SeriesOk(s), NEW d \in Int, config.days \in Nat
  PROVE  Window(i, d) = SubSeq(s, UpTo(s, d - config.days) + 1, UpTo(s, d) + 1 - 1)
<1> DEFINE L == Len(s)
           t == UpTo(s, d - config.days)
           h == UpTo(s, d)
           P == {n \in DOMAIN s : d - config.days < s[n].day /\ s[n].day <= d}
<1>1. d - config.days \in Int /\ d - config.days <= d
  OBVIOUS
<1>2. /\ L \in Nat /\ DOMAIN s = 1 .. L /\ \A n \in 1 .. L : s[n].day \in Int
  BY SeriesTyped
<1>3. /\ t \in 0 .. L /\ \A n \in 1 .. L : s[n].day <= d - config.days <=> n <= t
      /\ h \in 0 .. L /\ \A n \in 1 .. L : s[n].day <= d <=> n <= h
  BY <1>1, <1>2, FirstDays
<1>4. t <= h
  BY <1>1, MoreDays
<1> HIDE DEF t, h, L
<1>5. P = t + 1 .. h
  <2>1. ASSUME NEW n \in 1 .. L PROVE n \in P <=> n \in t + 1 .. h
    <3>1. d - config.days < s[n].day <=> ~(s[n].day <= d - config.days)
      BY <1>1, <1>2
    <3>2. n \in P <=> ~(n <= t) /\ n <= h
      BY <1>2, <1>3, <3>1
    <3> QED  BY <1>2, <1>3, <3>2
  <2>2. P \subseteq 1 .. L /\ t + 1 .. h \subseteq 1 .. L
    BY <1>2, <1>3
  <2> HIDE DEF P
  <2> QED  BY <2>1, <2>2
<1> DEFINE places == Ordered(P, Earlier)
           N == h - t
<1>6. places = [k \in 1 .. N |-> t + k]
  <2>1. t + 1 \in Nat /\ h \in Nat /\ t + 1 <= h + 1 /\ h + 1 - (t + 1) = N
    BY <1>2, <1>3, <1>4
  <2> HIDE DEF P, N
  <2>2. Ordered(t + 1 .. h, Earlier) = [k \in 1 .. h + 1 - (t + 1) |-> t + 1 + k - 1]
    BY <2>1, OrderedInterval
  <2>3. \A k \in 1 .. N : t + 1 + k - 1 = t + k
    <3>1. t \in Int /\ N \in Int
      BY <1>2, <1>3 DEF N
    <3> QED  BY <3>1
  <2>4. places = Ordered(t + 1 .. h, Earlier)
    BY <1>5
  <2> QED  BY <2>1, <2>2, <2>3, <2>4
<1>7. Window(i, d) = [k \in DOMAIN places |-> s[places[k]]]
  BY DEF Window
<1> HIDE DEF places, P
<1>8. Window(i, d) = [k \in 1 .. N |-> s[t + k]]
  BY <1>6, <1>7
<1> DEFINE q == SubSeq(s, t + 1, h + 1 - 1)
<1>9. Len(q) = N /\ \A k \in 1 .. N : q[k] = s[t + k]
  <2>1. t + 1 \in 1 .. Len(s) + 1 /\ h + 1 \in t + 1 .. Len(s) + 1 /\ h + 1 - (t + 1) = N
    BY <1>2, <1>3, <1>4 DEF L
  <2> DEFINE a == t + 1
             b == h + 1
  <2>2. \A k \in 1 .. N : a + k - 1 = t + k
    BY <1>2, <1>3
  <2>3. a \in 1 .. Len(s) + 1 /\ b \in a .. Len(s) + 1 /\ b - a = N
    BY <2>1, <1>2, <1>3, <1>4 DEF L
  <2> HIDE DEF a, b
  <2>4. Len(SubSeq(s, a, b - 1)) = b - a /\ \A k \in 1 .. b - a : SubSeq(s, a, b - 1)[k] = s[a + k - 1]
    BY ONLY SeriesOk(s), <2>3, PartOfDays
  <2>5. q = SubSeq(s, a, b - 1)
    <3>1. h \in Int
      BY <1>2, <1>3
    <3> DEFINE c == h + 1 - 1
    <3>2. b - 1 = c
      BY <3>1 DEF b
    <3>3. q = SubSeq(s, t + 1, c)
      OBVIOUS
    <3> HIDE DEF c, q
    <3> QED  BY <3>2, <3>3 DEF a
  <2> HIDE DEF q, N
  <2> QED  BY <2>2, <2>3, <2>4, <2>5
<1>10. q = [k \in 1 .. N |-> q[k]]
  <2>1. s \in Seq([day : Int, value : Int])
    BY DEF SeriesOk
  <2>2. q \in Seq([day : Int, value : Int])
    <3> DEFINE a == t + 1
               b == h + 1 - 1
    <3>1. a \in 1 .. Len(s) + 1 /\ b \in a - 1 .. Len(s)
      BY <1>2, <1>3, <1>4 DEF L
    <3>2. q = SubSeq(s, a, b)
      OBVIOUS
    <3> HIDE DEF a, b, q
    <3>3. SubSeq(s, a, b) \in Seq([day : Int, value : Int])
      BY ONLY <2>1, <3>1, PartTyped
    <3> QED  BY <3>2, <3>3
  <2> HIDE DEF q
  <2>3. q = [k \in 1 .. Len(q) |-> q[k]]
    BY <2>2
  <2> QED  BY <1>9, <2>3
<1> HIDE DEF q
<1>11. q = [k \in 1 .. N |-> s[t + k]]
  BY <1>9, <1>10
<1> QED
  BY <1>8, <1>11 DEF q, t, h

-----------------------------------------------------------------------------
(* The values of days are whole numbers.                                   *)

\* Sums of rows.
LEMMA SumTyped ==
  ASSUME NEW S, IsFiniteSet(S), \A o \in S : o.original \in Int
  PROVE  Sum(SetToSeq(S)) \in Int
<1> DEFINE q == SetToSeq(S)
           L == Cardinality(S)
           step == [x \in Int \X (1 .. L) |-> x[1] + q[x[2]].original]
           Unrolls(f) == f = [n \in 0 .. L |-> IF n = 0 THEN 0 ELSE f[n - 1] + q[n].original]
<1>1. L \in Nat /\ \E f \in Bijection(1 .. L, S) : TRUE
  BY FS_CardinalityType DEF ExistsBijection
<1>2. q \in [1 .. L -> S]
  <2>1. \E f \in [1 .. L -> S] : IsInjective(f)
    BY <1>1 DEF Bijection, Injection
  <2> QED  BY <2>1 DEF SetToSeq
<1> HIDE DEF L, q
<1>3. Len(q) = L
  BY <1>1, <1>2
<1>4. \A n \in 1 .. L : q[n].original \in Int
  BY <1>2
<1>5. step \in [Int \X (1 .. L) -> Int]
  BY <1>4
<1>6. \A x \in Int, n \in 1 .. L : step[<<x, n>>] = x + q[n].original
  OBVIOUS
<1> HIDE DEF step
<1>7. PICK h \in [0 .. L -> Int] : RecursiveOver(h, L, 0, step)
  <2>1. 0 \in Int
    OBVIOUS
  <2> QED  BY ONLY <1>1, <1>5, <2>1, Recursion
<1>8. Unrolls(h)
  <2>1. ASSUME NEW n \in 0 .. L PROVE h[n] = IF n = 0 THEN 0 ELSE h[n - 1] + q[n].original
    <3>1. CASE n = 0
      BY <1>7, <3>1 DEF RecursiveOver
    <3>2. CASE n # 0
      <4>1. n \in 1 .. L /\ n - 1 \in 0 .. L
        BY <1>1, <3>2
      <4>2. h[n] = step[<<h[n - 1], n>>] /\ h[n - 1] \in Int
        BY <1>7, <4>1 DEF RecursiveOver
      <4> QED  BY <1>6, <3>2, <4>1, <4>2
    <3> QED  BY <3>1, <3>2
  <2>2. h = [n \in 0 .. L |-> h[n]]
    OBVIOUS
  <2> QED  BY <2>1, <2>2
<1> DEFINE g == CHOOSE f : Unrolls(f)
<1>9. Unrolls(g)
  <2> HIDE DEF Unrolls
  <2> QED  BY <1>8, Zenon
<1>10. Sum(q) = g[L]
  BY <1>3 DEF Sum
<1> HIDE DEF g
<1>11. g[0] = 0 /\ \A n \in 1 .. L : g[n] = g[n - 1] + q[n].original
  BY <1>1, <1>9
<1> HIDE DEF Unrolls
<1>12. \A n \in 1 .. L : g[n - 1] \in Int => g[n] \in Int
  BY <1>4, <1>11
<1>13. \A n \in 0 .. L : g[n] \in Int
  <2>1. g[0] \in Int
    BY <1>11
  <2> QED  BY ONLY <1>1, <1>12, <2>1, StepsStay
<1>14. g[L] \in Int
  BY <1>1, <1>13
<1> QED
  BY <1>10, <1>14 DEF q

\* Sums and means.
LEMMA DayValuesTyped ==
  ASSUME NEW rows, IsFiniteSet(rows), rows \subseteq Row
  PROVE  DayValues(rows) \subseteq Int
<1> DEFINE good == {o \in rows : o.time % 24 \in HourPattern(config.pid)}
           sum == Sum(SetToSeq(good))
           complete == factory = "sum" \/ good # {}
<1>1. IsFiniteSet(good)
  BY FS_Subset
<1>2. \A o \in good : o.original \in Int
  BY DEF Row
<1>3. good # {} => Cardinality(good) \in Nat /\ Cardinality(good) > 0
  <2> HIDE DEF good
  <2>1. Cardinality(good) \in Nat /\ (Cardinality(good) = 0 <=> good = {})
    BY <1>1, FS_CardinalityType, FS_EmptySet
  <2> QED  BY <2>1
<1>4. sum \in Int
  <2> HIDE DEF good
  <2> QED  BY <1>1, <1>2, SumTyped
<1>5. DayValues(rows) \subseteq (IF ~complete THEN {} ELSE {IF factory = "sum" THEN sum ELSE sum \div Cardinality(good)})
  BY DEF DayValues
<1> HIDE DEF good, sum
<1>6. good # {} => sum \div Cardinality(good) \in Int
  BY <1>3, <1>4
<1> QED
  BY <1>4, <1>5, <1>6

\* The image of a finite set.
LEMMA ImageFinite ==
  ASSUME NEW S, IsFiniteSet(S), NEW f, DOMAIN f = S
  PROVE  IsFiniteSet({f[x] : x \in S})
<1> DEFINE T == {f[x] : x \in S}
           g == [x \in S |-> f[x]]
<1>1. g \in Surjection(S, T)
  BY DEF Surjection
<1> QED
  BY <1>1, FS_Surjection

\* findStationDailyMeans makes lists of days in order.
LEMMA DailyTyped ==
  ASSUME NEW D, D = StationDailyMeans, IsFiniteSet(table), table \subseteq Row
  PROVE  /\ IsFiniteSet(DOMAIN D) /\ DOMAIN D \subseteq [station : Nat, type : Nat]
         /\ \A i \in DOMAIN D : SeriesOk(D[i])
<1> DEFINE rows == FetchData
           Days(i) == {o.time \div 24 : o \in {r \in rows : InstrumentOf(r) = i}}
           On(i, d) == DayValues({o \in rows : InstrumentOf(o) = i /\ o.time \div 24 = d})
           Valued(i) == {d \in Days(i) : On(i, d) # {}}
           Series(i) == [n \in 1 .. Cardinality(Valued(i)) |->
                           LET d == Ordered(Valued(i), Earlier)[n]
                           IN  [day |-> d, value |-> CHOOSE v \in On(i, d) : TRUE]]
           all == {i \in {InstrumentOf(o) : o \in rows} : Valued(i) # {}}
<1>1. D = [i \in all |-> Series(i)]
  BY DEF StationDailyMeans
<1>2. IsFiniteSet(rows) /\ rows \subseteq Row
  <2>1. FetchData \in SUBSET table
    BY DEF FetchData
  <2> QED  BY <2>1, FS_Subset
<1> HIDE DEF rows
<1>3. IsFiniteSet(all) /\ all \subseteq [station : Nat, type : Nat]
  <2> DEFINE f == [o \in rows |-> InstrumentOf(o)]
             T == {f[o] : o \in rows}
  <2>1. IsFiniteSet(T)
    BY <1>2, ImageFinite
  <2>2. all \in SUBSET T
    OBVIOUS
  <2>3. T \subseteq [station : Nat, type : Nat]
    BY <1>2 DEF InstrumentOf, Row
  <2> HIDE DEF T, all
  <2> QED  BY <2>1, <2>2, <2>3, FS_Subset
<1>4. ASSUME NEW i \in all PROVE SeriesOk(Series(i))
  <2> DEFINE mine == {r \in rows : InstrumentOf(r) = i}
             V == Valued(i)
             q == Ordered(V, Earlier)
  <2>1. IsFiniteSet(mine) /\ mine \subseteq Row
    BY <1>2, FS_Subset
  <2>2. IsFiniteSet(Days(i)) /\ Days(i) \subseteq Int
    <3> DEFINE f == [o \in mine |-> o.time \div 24]
    <3>1. IsFiniteSet({f[o] : o \in mine})
      <4> HIDE DEF mine
      <4>1. DOMAIN f = mine
        OBVIOUS
      <4> HIDE DEF f
      <4> QED  BY <2>1, <4>1, ImageFinite
    <3>2. Days(i) = {f[o] : o \in mine}
      OBVIOUS
    <3>3. \A o \in mine : o.time \in Int
      BY <2>1 DEF Row
    <3>4. \A o \in mine : o.time \div 24 \in Int
      BY <3>3
    <3> QED  BY <3>1, <3>2, <3>4
  <2>3. IsFiniteSet(V) /\ V \subseteq Int
    <3>1. V \in SUBSET Days(i)
      OBVIOUS
    <3> HIDE DEF V, Days
    <3> QED  BY <2>2, <3>1, FS_Subset
  <2>4. ASSUME NEW d \in V PROVE (CHOOSE v \in On(i, d) : TRUE) \in Int
    <3> DEFINE part == {o \in rows : InstrumentOf(o) = i /\ o.time \div 24 = d}
    <3>1. IsFiniteSet(part) /\ part \subseteq Row
      BY <1>2, FS_Subset
    <3>2. On(i, d) # {}
      BY <2>4
    <3>3. DayValues(part) \subseteq Int
      <4> HIDE DEF part
      <4> QED  BY <3>1, DayValuesTyped
    <3>4. On(i, d) = DayValues(part)
      OBVIOUS
    <3> HIDE DEF On, part
    <3> QED  BY <3>2, <3>3, <3>4
  <2>5. Once(q, V) /\ Len(q) = Cardinality(V) /\ \A n, m \in DOMAIN q : n < m => q[n] < q[m]
    <3> HIDE DEF V
    <3> QED  BY <2>3, OrderedNumbers
  <2>6. q \in Seq(V) /\ DOMAIN q = 1 .. Cardinality(V) /\ Cardinality(V) \in Nat
    BY <2>5 DEF Once
  <2> DEFINE s == Series(i)
             Val(d) == CHOOSE v \in On(i, d) : TRUE
  <2>7. s = [n \in 1 .. Cardinality(V) |-> [day |-> q[n], value |-> Val(q[n])]]
    OBVIOUS
  <2> HIDE DEF V, q, s, Val
  <2>8. \A n \in 1 .. Cardinality(V) : q[n] \in V
    BY <2>6
  <2>9. \A n \in 1 .. Cardinality(V) : q[n] \in Int /\ Val(q[n]) \in Int
    BY <2>3, <2>4, <2>8 DEF Val
  <2>10. s \in [1 .. Cardinality(V) -> [day : Int, value : Int]]
    BY <2>7, <2>9
  <2>11. s \in Seq([day : Int, value : Int])
    BY <2>6, <2>10, ListTyped
  <2>12. \A n, m \in 1 .. Cardinality(V) : n < m => s[n].day < s[m].day
    BY <2>5, <2>6, <2>7
  <2>13. SeriesOk(s)
    BY <2>7, <2>11, <2>12 DEF SeriesOk
  <2> QED  BY <2>13 DEF s
<1> HIDE DEF all, Series
<1> QED
  BY <1>1, <1>3, <1>4

-----------------------------------------------------------------------------
(* The sliding window.                                                     *)

Prefix(s) == CHOOSE p : Sums(p, s)

\* What a new window is made of is what the accumulator should hold.
LEMMA WindowHeld ==
  ASSUME NEW i, NEW s, s = daily[i], SeriesOk(s), NEW d \in Int, config.days \in Nat,
         NEW t, t = UpTo(s, d - config.days) + 1, NEW h, h = UpTo(s, d) + 1
  PROVE  /\ h \in 1 .. Len(s) + 1 /\ t \in 1 .. h
         /\ Len(Window(i, d)) = h - t
         /\ PushAll(factory, Empty(factory), Window(i, d)) = Held(factory, s, Prefix(s), t, h)
<1>1. d - config.days \in Int /\ d - config.days <= d
  OBVIOUS
<1>2. Len(s) \in Nat
  BY SeriesTyped
<1>3. UpTo(s, d) \in 0 .. Len(s) /\ UpTo(s, d - config.days) \in 0 .. Len(s) /\ UpTo(s, d - config.days) <= UpTo(s, d)
  BY <1>1, FirstDays, MoreDays
<1>4. h \in 1 .. Len(s) + 1 /\ t \in 1 .. h
  BY <1>2, <1>3
<1>5. Window(i, d) = SubSeq(s, t, h - 1)
  <2>1. Window(i, d) = SubSeq(s, UpTo(s, d - config.days) + 1, UpTo(s, d) + 1 - 1)
    BY WindowIs
  <2> DEFINE c == UpTo(s, d) + 1 - 1
  <2>2. c = h - 1
    BY <1>3
  <2>3. Window(i, d) = SubSeq(s, t, c)
    BY <2>1
  <2> HIDE DEF c
  <2> QED  BY <2>2, <2>3
<1>6. Sums(Prefix(s), s)
  BY SumsThere DEF Prefix
<1>7. t \in 1 .. Len(s) + 1 /\ h \in t .. Len(s) + 1 /\ t \in 1 .. t
  BY <1>2, <1>4
<1>8. Held(factory, s, Prefix(s), t, t) = Empty(factory)
  BY <1>6, <1>7, HeldEmpty
<1>9. PushAll(factory, Held(factory, s, Prefix(s), t, t), SubSeq(s, t, h - 1)) = Held(factory, s, Prefix(s), t, h)
  BY ONLY SeriesOk(s), <1>4, <1>6, <1>7, PushedAll
<1>10. Len(SubSeq(s, t, h - 1)) = h - t
  BY ONLY SeriesOk(s), <1>7, PartOfDays
<1> QED
  BY <1>4, <1>5, <1>8, <1>9, <1>10

\* Where the window is when a day is next.
SlideOk ==
    LET s == daily[Head(todo)]
    IN  /\ head \in 1 .. Len(s) + 1 /\ tail \in 1 .. head
        /\ head <= UpTo(s, day) + 1 /\ tail <= UpTo(s, day - config.days) + 1
        /\ accumulator = Held(factory, s, Prefix(s), tail, head)

\* Where it is when the next day is, of a series that stays.
LEMMA SlideOkNext ==
  ASSUME NEW s, SeriesOk(s), daily'[Head(todo')] = s, day \in Int, config.days \in Nat,
         day' = day + 1, config' = config, factory' = factory,
         head' = UpTo(s, day) + 1, tail' = UpTo(s, day - config.days) + 1,
         head' \in 1 .. Len(s) + 1, tail' \in 1 .. head',
         accumulator' = Held(factory, s, Prefix(s), tail', head')
  PROVE  SlideOk'
<1> DEFINE m == day + 1 - config.days
<1>1. day + 1 \in Int /\ m \in Int /\ day - config.days \in Int /\ day <= day + 1 /\ day - config.days <= m
  OBVIOUS
<1>2. day' - config'.days = m
  OBVIOUS
<1> HIDE DEF m
<1>3. /\ UpTo(s, day) \in 0 .. Len(s) /\ UpTo(s, day + 1) \in 0 .. Len(s)
      /\ UpTo(s, day - config.days) \in 0 .. Len(s) /\ UpTo(s, m) \in 0 .. Len(s)
  BY <1>1, FirstDays
<1>4. UpTo(s, day) <= UpTo(s, day + 1) /\ UpTo(s, day - config.days) <= UpTo(s, m)
  BY <1>1, MoreDays
<1>5. Len(s) \in Nat
  BY SeriesTyped
<1>6. head' <= UpTo(s, day + 1) + 1 /\ tail' <= UpTo(s, m) + 1
  BY <1>3, <1>4, <1>5
<1>7. UpTo(s, day') = UpTo(s, day + 1) /\ UpTo(s, day' - config'.days) = UpTo(s, m)
  BY <1>2
<1>8. head' <= UpTo(s, day') + 1 /\ tail' <= UpTo(s, day' - config'.days) + 1
  BY <1>6, <1>7
<1> QED
  BY <1>8 DEF SlideOk

\* The step of a day leaves in it the days of the window.
LEMMA Slid ==
  ASSUME NEW s, s = daily[Head(todo)], SeriesOk(s), day \in Int, config.days \in Nat, SlideOk,
         NEW t, t = UpTo(s, day - config.days) + 1, NEW h, h = UpTo(s, day) + 1
  PROVE  PopAll(factory, PushAll(factory, accumulator, SubSeq(s, head, h - 1)), SubSeq(s, tail, t - 1))
            = Held(factory, s, Prefix(s), t, h)
<1>1. Len(s) \in Nat /\ Sums(Prefix(s), s)
  BY SeriesTyped, SumsThere DEF Prefix
<1>2. h \in 1 .. Len(s) + 1 /\ t \in 1 .. h
  BY WindowHeld
<1>3. /\ head \in 1 .. h /\ tail \in 1 .. head /\ tail \in 1 .. t /\ tail \in 1 .. h
      /\ accumulator = Held(factory, s, Prefix(s), tail, head)
  BY <1>1, <1>2 DEF SlideOk
<1>4. PushAll(factory, Held(factory, s, Prefix(s), tail, head), SubSeq(s, head, h - 1)) = Held(factory, s, Prefix(s), tail, h)
  BY ONLY SeriesOk(s), <1>1, <1>2, <1>3, PushedAll
<1>5. PopAll(factory, Held(factory, s, Prefix(s), tail, h), SubSeq(s, tail, t - 1)) = Held(factory, s, Prefix(s), t, h)
  BY ONLY SeriesOk(s), <1>1, <1>2, <1>3, PoppedAll
<1> QED
  BY <1>3, <1>4, <1>5

-----------------------------------------------------------------------------
(* MeansAreWindows.                                                        *)

\* A configuration.
LEMMA ConfigTyped ==
  ASSUME NEW s \in Settings, NEW c, c = Configured(s)
  PROVE  c.days \in Nat /\ c.UT0 \in Int /\ c.UT1 \in Int
BY SettingsAssumption DEF Configured, GetParameterOr

Valued(i, d) == Len(Window(i, d)) >= config.required /\ WindowValue(i, d) # <<>>
MeansAre(S) == means = [e \in {x \in S : Valued(x[1], x[2])} |-> WindowValue(e[1], e[2])]

\* The instruments and days that are done with.
Seen ==
    {e \in (DOMAIN daily) \X (d0 .. d1) :
        \/ \A n \in DOMAIN todo : todo[n] # e[1]
        \/ pc = "window" /\ e[1] = Head(todo) /\ e[2] < day}

RunTyped ==
    /\ IsFiniteSet(table) /\ table \subseteq Row
    /\ config.days \in Nat /\ config.UT0 \in Int /\ config.UT1 \in Int
    /\ IsFiniteSet(DOMAIN daily) /\ DOMAIN daily \subseteq [station : Nat, type : Nat]
    /\ \A i \in DOMAIN daily : SeriesOk(daily[i])

MeansInv ==
    /\ RunTyped
    /\ pc \in {"idle", "read", "station", "window", "check", "find", "around"}
    /\ pc \in {"idle", "read"} => means = None
    /\ pc \in {"station", "window"} =>
            /\ todo \in Seq(DOMAIN daily)
            /\ \A n, m \in DOMAIN todo : todo[n] = todo[m] => n = m
            /\ MeansAre(Seen)
    /\ pc = "window" => todo # <<>> /\ day \in Int /\ d0 <= day /\ SlideOk
    /\ pc \in {"check", "find", "around"} => MeansAre((DOMAIN daily) \X (d0 .. d1))

\* What the definitions are made of stays as long as the days do.
LEMMA WindowStable ==
  ASSUME UNCHANGED <<config, daily>>
  PROVE  /\ d0' = d0 /\ d1' = d1 /\ factory' = factory
         /\ \A i, d : (Valued(i, d))' = Valued(i, d) /\ (WindowValue(i, d))' = WindowValue(i, d)
BY DEF d0, d1, factory, Valued, WindowValue, Window

\* At first.
LEMMA MeansInit == Init => MeansInv
<1> SUFFICES ASSUME Init PROVE MeansInv
  OBVIOUS
<1>1. /\ IsFiniteSet(table) /\ table \subseteq Row
  BY FS_EmptySet DEF Init
<1>2. config.days \in Nat /\ config.UT0 \in Int /\ config.UT1 \in Int
  BY ConfigTyped DEF Init
<1>3. DOMAIN daily = {} /\ IsFiniteSet({})
  BY FS_EmptySet DEF Init, None
<1>4. pc = "idle" /\ means = None
  BY DEF Init
<1> QED
  BY <1>1, <1>2, <1>3, <1>4 DEF MeansInv, RunTyped

\* Between runs.
LEMMA MeansIdle ==
  ASSUME MeansInv, Idle, UNCHANGED <<table, config>>
  PROVE  MeansInv'
<1>1. pc' = "idle" /\ means' = None /\ DOMAIN daily' = {}
  BY DEF Idle, None
<1>2. None' = None
  BY DEF None
<1>3. IsFiniteSet({})
  BY FS_EmptySet
<1> QED
  BY <1>1, <1>2, <1>3 DEF MeansInv, RunTyped

\* configure() and run().
LEMMA MeansConfigure ==
  ASSUME MeansInv, NEW s \in Settings, NEW t \in Tables, Configure(s, t)
  PROVE  MeansInv'
<1>1. /\ config'.days \in Nat /\ config'.UT0 \in Int /\ config'.UT1 \in Int
  BY ConfigTyped DEF Configure
<1>2. IsFiniteSet(table') /\ table' \subseteq Row
  BY TablesAssumption DEF Configure
<1>3. pc' \in {"idle", "read"} /\ means' = None /\ daily' = daily
  BY DEF Configure, MeansInv
<1>4. None' = None
  BY DEF None
<1> QED
  BY <1>1, <1>2, <1>3, <1>4 DEF MeansInv, RunTyped

\* The rows are read.
LEMMA MeansRead == ASSUME MeansInv, ReadRows PROVE MeansInv'
<1>1. /\ pc' = "station" /\ UNCHANGED <<table, config, means>> /\ means = None
      /\ daily' = StationDailyMeans /\ todo' = Ordered(DOMAIN daily', Before)
  BY DEF ReadRows, MeansInv
<1>2. /\ IsFiniteSet(DOMAIN daily') /\ DOMAIN daily' \subseteq [station : Nat, type : Nat]
      /\ \A i \in DOMAIN daily' : SeriesOk(daily'[i])
  BY <1>1, DailyTyped DEF MeansInv, RunTyped
<1>3. Once(todo', DOMAIN daily')
  BY <1>1, <1>2, OrderedInstruments
<1>4. RunTyped'
  BY <1>1, <1>2 DEF MeansInv, RunTyped
<1>5. Seen' = {}
  <2>1. \A e \in (DOMAIN daily') \X (d0' .. d1') : \E n \in DOMAIN todo' : todo'[n] = e[1]
    BY <1>3 DEF Once
  <2> QED  BY <1>1, <2>1 DEF Seen
<1>6. MeansAre(Seen)'
  BY <1>1, <1>5 DEF MeansAre, None
<1> QED
  BY <1>1, <1>3, <1>4, <1>6 DEF MeansInv, Once

\* The next instrument.
LEMMA MeansNewStation == ASSUME MeansInv, NewStation PROVE MeansInv'
<1>1. /\ pc = "station" /\ pc' = "window" /\ todo # <<>> /\ UNCHANGED <<table, config, daily, todo, means>>
      /\ head' = 1 /\ tail' = 1 /\ accumulator' = Empty(factory) /\ day' = d0
  BY DEF NewStation
<1>2. /\ RunTyped /\ todo \in Seq(DOMAIN daily) /\ MeansAre(Seen)
      /\ \A n, m \in DOMAIN todo : todo[n] = todo[m] => n = m
  BY <1>1 DEF MeansInv
<1>3. /\ d0' = d0 /\ d1' = d1 /\ factory' = factory
      /\ \A i, d : (Valued(i, d))' = Valued(i, d) /\ (WindowValue(i, d))' = WindowValue(i, d)
  BY <1>1, WindowStable
<1>4. d0 \in Int
  BY <1>2 DEF RunTyped, d0
<1>5. Seen' = Seen
  BY <1>1, <1>3, <1>4 DEF Seen
<1>6. MeansAre(Seen)'
  BY <1>1, <1>2, <1>3, <1>5 DEF MeansAre
<1> DEFINE s == daily[Head(todo)]
<1>7. SeriesOk(s)
  BY <1>1, <1>2 DEF RunTyped
<1>8. SlideOk'
  <2>1. Len(s) \in Nat /\ Sums(Prefix(s), s)
    BY <1>7, SeriesTyped, SumsThere DEF Prefix
  <2>2. Held(factory, s, Prefix(s), 1, 1) = Empty(factory)
    BY <1>7, <2>1, HeldEmpty
  <2>3. d0 - config.days \in Int
    BY <1>2, <1>4 DEF RunTyped
  <2>4. UpTo(s, d0) \in Nat /\ UpTo(s, d0 - config.days) \in Nat
    <3> HIDE DEF s
    <3>1. UpTo(s, d0) \in 0 .. Len(s) /\ UpTo(s, d0 - config.days) \in 0 .. Len(s)
      BY <1>4, <1>7, <2>3, FirstDays
    <3> QED  BY <2>1, <3>1
  <2> HIDE DEF s
  <2>5. 1 \in 1 .. Len(s) + 1 /\ 1 \in 1 .. 1 /\ 1 <= UpTo(s, d0) + 1 /\ 1 <= UpTo(s, d0 - config.days) + 1
    BY <2>1, <2>4
  <2>6. daily'[Head(todo')] = s
    BY <1>1 DEF s
  <2> QED  BY <1>1, <1>3, <2>2, <2>5, <2>6 DEF SlideOk
<1>9. RunTyped'
  BY <1>1, <1>2 DEF RunTyped
<1> QED
  BY <1>1, <1>2, <1>3, <1>4, <1>6, <1>8, <1>9 DEF MeansInv

\* The window is moved to the next day.
LEMMA MeansSlideDay == ASSUME MeansInv, SlideDay PROVE MeansInv'
<1> DEFINE s == daily[Head(todo)]
           t == UpTo(s, day - config.days) + 1
           h == UpTo(s, day) + 1
           v == AccumulatedValue(factory, accumulator', config.days, config.required)
           x == <<Head(todo), day>>
           enough == head' - tail' >= config.required /\ v # <<>>
<1>1. /\ pc = "window" /\ pc' = "window" /\ UNCHANGED <<table, config, daily, todo>>
      /\ day <= d1 /\ day' = day + 1
      /\ head' = h /\ tail' = t
      /\ accumulator' = PopAll(factory, PushAll(factory, accumulator, SubSeq(s, head, head' - 1)), SubSeq(s, tail, tail' - 1))
      /\ means' = [e \in DOMAIN means \union (IF enough THEN {x} ELSE {}) |-> IF e \in DOMAIN means THEN means[e] ELSE v]
  BY DEF SlideDay, InRun, UpTo
<1>2. /\ RunTyped /\ todo \in Seq(DOMAIN daily) /\ MeansAre(Seen) /\ todo # <<>> /\ day \in Int /\ d0 <= day /\ SlideOk
      /\ \A n, m \in DOMAIN todo : todo[n] = todo[m] => n = m
  BY <1>1 DEF MeansInv
<1>3. /\ d0' = d0 /\ d1' = d1 /\ factory' = factory
      /\ \A i, d : (Valued(i, d))' = Valued(i, d) /\ (WindowValue(i, d))' = WindowValue(i, d)
  BY <1>1, WindowStable
<1>4. d0 \in Int /\ d1 \in Int /\ config.days \in Nat
  BY <1>2 DEF RunTyped, d0, d1
<1>5. SeriesOk(s) /\ Head(todo) \in DOMAIN daily /\ Len(s) \in Nat
  <2>1. Head(todo) \in DOMAIN daily
    BY <1>2
  <2>2. SeriesOk(s)
    BY <1>2, <2>1 DEF RunTyped
  <2> HIDE DEF s
  <2> QED  BY <2>1, <2>2, SeriesTyped
<1>6. /\ h \in 1 .. Len(s) + 1 /\ t \in 1 .. h
      /\ Len(Window(Head(todo), day)) = h - t
      /\ PushAll(factory, Empty(factory), Window(Head(todo), day)) = Held(factory, s, Prefix(s), t, h)
  <2>1. t = UpTo(s, day - config.days) + 1 /\ h = UpTo(s, day) + 1 /\ s = daily[Head(todo)]
    OBVIOUS
  <2> HIDE DEF t, h, s
  <2> QED  BY <1>2, <1>4, <1>5, <2>1, WindowHeld
<1>7. accumulator' = Held(factory, s, Prefix(s), t, h)
  <2> HIDE DEF t, h
  <2>1. PopAll(factory, PushAll(factory, accumulator, SubSeq(s, head, h - 1)), SubSeq(s, tail, t - 1))
            = Held(factory, s, Prefix(s), t, h)
    BY <1>2, <1>4, <1>5, Slid DEF t, h
  <2> QED  BY <1>1, <2>1
<1> HIDE DEF v, enough, x
<1>8. v = WindowValue(Head(todo), day) /\ (enough <=> Valued(Head(todo), day))
  <2>1. v = WindowValue(Head(todo), day)
    BY <1>6, <1>7 DEF v, WindowValue
  <2>2. head' - tail' = Len(Window(Head(todo), day))
    BY <1>1, <1>6
  <2> HIDE DEF t, h, s
  <2> QED  BY <2>1, <2>2 DEF enough, Valued
<1>9. SlideOk'
  <2>1. daily'[Head(todo')] = s
    BY <1>1
  <2>2. h = UpTo(s, day) + 1 /\ t = UpTo(s, day - config.days) + 1
    OBVIOUS
  <2> HIDE DEF s, t, h
  <2>3. head' = UpTo(s, day) + 1 /\ tail' = UpTo(s, day - config.days) + 1
    BY <1>1, <2>2
  <2>4. head' \in 1 .. Len(s) + 1 /\ tail' \in 1 .. head' /\ accumulator' = Held(factory, s, Prefix(s), tail', head')
    BY <1>1, <1>6, <1>7
  <2> QED  BY <1>1, <1>2, <1>3, <1>4, <1>5, <2>1, <2>3, <2>4, SlideOkNext
<1> HIDE DEF s, t, h
<1>10. x \notin Seen /\ Seen' = Seen \union {x}
  <2>1. Head(todo) = todo[1] /\ 1 \in DOMAIN todo
    BY <1>2
  <2>2. x \notin Seen
    BY <1>2, <2>1 DEF Seen, x
  <2>3. x \in (DOMAIN daily) \X (d0 .. d1)
    BY <1>1, <1>2, <1>4, <1>5 DEF x
  <2>4. ASSUME NEW e \in (DOMAIN daily) \X (d0 .. d1)
        PROVE  e \in Seen' <=> e \in Seen \/ e = x
    <3>1. e[2] < day + 1 <=> e[2] < day \/ e[2] = day
      BY <1>2, <1>4
    <3>2. e = <<e[1], e[2]>>
      OBVIOUS
    <3>3. e = x <=> e[1] = Head(todo) /\ e[2] = day
      BY <3>2 DEF x
    <3> QED  BY <1>1, <1>3, <3>1, <3>3 DEF Seen
  <2>5. Seen' \subseteq (DOMAIN daily) \X (d0 .. d1) /\ Seen \subseteq (DOMAIN daily) \X (d0 .. d1)
    BY <1>1, <1>3 DEF Seen
  <2> QED  BY <2>2, <2>3, <2>4, <2>5
<1>11. MeansAre(Seen)'
  <2> DEFINE A == {y \in Seen : Valued(y[1], y[2])}
             B == {y \in Seen' : Valued(y[1], y[2])}
  <2>1. x[1] = Head(todo) /\ x[2] = day
    BY DEF x
  <2>2. means = [e \in A |-> WindowValue(e[1], e[2])] /\ DOMAIN means = A
    BY <1>2 DEF MeansAre
  <2>3. B = A \union (IF enough THEN {x} ELSE {})
    BY <1>8, <1>10, <2>1
  <2>4. x \notin A
    BY <1>10
  <2>5. ASSUME NEW e \in B
        PROVE  (IF e \in A THEN means[e] ELSE v) = WindowValue(e[1], e[2])
    <3>1. CASE e \in A
      BY <2>2, <3>1
    <3>2. CASE e \notin A
      <4>1. e = x
        BY <2>3, <3>2
      <4> QED  BY <1>8, <2>1, <3>2, <4>1
    <3> QED  BY <3>1, <3>2
  <2>6. means' = [e \in B |-> IF e \in A THEN means[e] ELSE v]
    BY <1>1, <2>2, <2>3
  <2>7. means' = [e \in B |-> WindowValue(e[1], e[2])]
    <3> HIDE DEF A, B
    <3> QED  BY <2>5, <2>6
  <2>8. B = {y \in Seen' : Valued(y[1], y[2])'}
    BY <1>3
  <2> HIDE DEF B
  <2> QED  BY <1>3, <2>7, <2>8 DEF MeansAre
<1>12. RunTyped'
  BY <1>1, <1>2 DEF RunTyped
<1>13. day' \in Int /\ d0' <= day'
  BY <1>1, <1>2, <1>3, <1>4
<1> QED
  BY <1>1, <1>2, <1>9, <1>11, <1>12, <1>13 DEF MeansInv

\* All days of an instrument are seen.
LEMMA MeansEndStation == ASSUME MeansInv, EndStation PROVE MeansInv'
<1>1. /\ pc = "window" /\ pc' = "station" /\ UNCHANGED <<table, config, daily, means>>
      /\ ~(day <= d1) /\ todo' = Tail(todo)
  BY DEF EndStation, InRun
<1>2. /\ RunTyped /\ todo \in Seq(DOMAIN daily) /\ MeansAre(Seen) /\ todo # <<>> /\ day \in Int
      /\ \A n, m \in DOMAIN todo : todo[n] = todo[m] => n = m
  BY <1>1 DEF MeansInv
<1>3. /\ d0' = d0 /\ d1' = d1
      /\ \A i, d : (Valued(i, d))' = Valued(i, d) /\ (WindowValue(i, d))' = WindowValue(i, d)
  BY <1>1, WindowStable
<1>4. d0 \in Int /\ d1 \in Int
  BY <1>2 DEF RunTyped, d0, d1
<1> DEFINE L == Len(todo)
<1>5. /\ L \in Nat /\ L >= 1 /\ DOMAIN todo = 1 .. L /\ Head(todo) = todo[1]
      /\ todo' \in Seq(DOMAIN daily) /\ DOMAIN todo' = 1 .. L - 1 /\ \A n \in 1 .. L - 1 : todo'[n] = todo[n + 1]
  BY <1>1, <1>2
<1>6. \A n, m \in DOMAIN todo' : todo'[n] = todo'[m] => n = m
  <2>1. ASSUME NEW n \in 1 .. L - 1, NEW m \in 1 .. L - 1, todo'[n] = todo'[m] PROVE n = m
    <3>1. n + 1 \in DOMAIN todo /\ m + 1 \in DOMAIN todo /\ todo[n + 1] = todo[m + 1]
      BY <1>5, <2>1
    <3>2. n + 1 = m + 1
      BY <1>2, <3>1
    <3> QED  BY <1>5, <3>2
  <2> QED  BY <1>5, <2>1
<1> HIDE DEF L
<1>7. Seen' = Seen
  <2>1. ASSUME NEW e \in (DOMAIN daily) \X (d0 .. d1)
        PROVE  (\A n \in DOMAIN todo' : todo'[n] # e[1]) <=> (\A n \in DOMAIN todo : todo[n] # e[1]) \/ e[1] = Head(todo)
    <3>1. ASSUME \A n \in 1 .. L - 1 : todo'[n] # e[1], e[1] # todo[1], NEW n \in 1 .. L PROVE todo[n] # e[1]
      <4>1. CASE n = 1
        BY <3>1, <4>1
      <4>2. CASE n # 1
        <5>1. n - 1 \in 1 .. L - 1 /\ n - 1 + 1 = n
          BY <1>5, <4>2
        <5>2. todo'[n - 1] = todo[n]
          BY <1>5, <5>1
        <5> QED  BY <3>1, <5>1, <5>2
      <4> QED  BY <4>1, <4>2
    <3>2. ASSUME \A n \in 1 .. L : todo[n] # e[1], NEW n \in 1 .. L - 1 PROVE todo'[n] # e[1]
      <4>1. n + 1 \in 1 .. L /\ todo'[n] = todo[n + 1]
        BY <1>5
      <4> QED  BY <3>2, <4>1
    <3>3. ASSUME e[1] = todo[1], NEW n \in 1 .. L - 1 PROVE todo'[n] # e[1]
      <4>1. n + 1 \in 1 .. L /\ todo'[n] = todo[n + 1] /\ n + 1 # 1 /\ 1 \in 1 .. L
        BY <1>5
      <4> QED  BY <1>2, <1>5, <3>3, <4>1
    <3> QED  BY <1>5, <3>1, <3>2, <3>3
  <2>2. \A e \in (DOMAIN daily) \X (d0 .. d1) : e[2] < day
    BY <1>1, <1>2, <1>4
  <2> QED  BY <1>1, <1>3, <2>1, <2>2 DEF Seen
<1>8. MeansAre(Seen)'
  BY <1>1, <1>2, <1>3, <1>7 DEF MeansAre
<1>9. RunTyped'
  BY <1>1, <1>2 DEF RunTyped
<1> QED
  BY <1>1, <1>5, <1>6, <1>8, <1>9 DEF MeansInv

\* All instruments are.
LEMMA MeansStartChecks == ASSUME MeansInv, StartChecks PROVE MeansInv'
<1>1. /\ pc = "station" /\ pc' = "check" /\ UNCHANGED <<table, config, daily, means>> /\ todo = <<>>
  BY DEF StartChecks
<1>2. RunTyped /\ MeansAre(Seen)
  BY <1>1 DEF MeansInv
<1>3. /\ d0' = d0 /\ d1' = d1
      /\ \A i, d : (Valued(i, d))' = Valued(i, d) /\ (WindowValue(i, d))' = WindowValue(i, d)
  BY <1>1, WindowStable
<1>4. Seen = (DOMAIN daily) \X (d0 .. d1)
  BY <1>1 DEF Seen
<1>5. MeansAre((DOMAIN daily) \X (d0 .. d1))'
  BY <1>1, <1>2, <1>3, <1>4 DEF MeansAre
<1>6. RunTyped'
  BY <1>1, <1>2 DEF RunTyped
<1> QED
  BY <1>1, <1>5, <1>6 DEF MeansInv

\* The checks do not change the means.
LEMMA MeansChecked ==
  ASSUME MeansInv, UNCHANGED <<table, config, daily, means>>, pc \in {"check", "find", "around"},
         pc' \in {"check", "find", "around"}
  PROVE  MeansInv'
<1>1. RunTyped /\ MeansAre((DOMAIN daily) \X (d0 .. d1))
  BY DEF MeansInv
<1>2. /\ d0' = d0 /\ d1' = d1
      /\ \A i, d : (Valued(i, d))' = Valued(i, d) /\ (WindowValue(i, d))' = WindowValue(i, d)
  BY WindowStable
<1>3. MeansAre((DOMAIN daily) \X (d0 .. d1))'
  BY <1>1, <1>2 DEF MeansAre
<1>4. RunTyped'
  BY <1>1 DEF RunTyped
<1> QED
  BY <1>3, <1>4 DEF MeansInv

\* Every step keeps the invariant.
LEMMA MeansStep == MeansInv /\ [Next]_vars => MeansInv'
<1> SUFFICES ASSUME MeansInv, [Next]_vars PROVE MeansInv'
  OBVIOUS
<1>1. ASSUME NEW s \in Settings, NEW t \in Tables, Configure(s, t) PROVE MeansInv'
  BY <1>1, MeansConfigure
<1>2. CASE NewCenter \/ FindStations \/ CheckNeighbor \/ EndNeighbors
  <2>1. UNCHANGED <<table, config, daily, means>> /\ pc \in {"check", "find", "around"} /\ pc' \in {"check", "find", "around"}
    BY <1>2, Zenon DEF NewCenter, FindStations, CheckNeighbor, EndNeighbors, windowVars
  <2> QED  BY <2>1, MeansChecked
<1>3. CASE EndRun
  BY <1>3, MeansIdle DEF EndRun
<1>4. CASE Abort
  BY <1>4, MeansIdle DEF Abort
<1>5. CASE UNCHANGED vars
  <2>1. UNCHANGED <<table, config, daily, todo, pc, day, head, tail, accumulator, means>>
    BY <1>5 DEF vars, windowVars
  <2>2. /\ d0' = d0 /\ d1' = d1 /\ factory' = factory
        /\ \A i, d : (Valued(i, d))' = Valued(i, d) /\ (WindowValue(i, d))' = WindowValue(i, d)
    BY <2>1, WindowStable
  <2>3. Seen' = Seen
    BY <2>1, <2>2 DEF Seen
  <2>4. SlideOk' <=> SlideOk
    BY <2>1, <2>2 DEF SlideOk
  <2>5. /\ MeansAre(Seen)' <=> MeansAre(Seen)
        /\ MeansAre((DOMAIN daily) \X (d0 .. d1))' <=> MeansAre((DOMAIN daily) \X (d0 .. d1))
    BY <2>1, <2>2, <2>3 DEF MeansAre
  <2>6. RunTyped' <=> RunTyped
    BY <2>1 DEF RunTyped
  <2>7. None' = None
    BY DEF None
  <2> QED  BY <2>1, <2>2, <2>4, <2>5, <2>6, <2>7 DEF MeansInv
<1> QED
  BY <1>1, <1>2, <1>3, <1>4, <1>5, MeansRead, MeansNewStation, MeansSlideDay, MeansEndStation, MeansStartChecks DEF Next, Run

\* The values that are held against references are those of the days of their windows, for all tables,
\* settings and lengths of a window: what is pushed is popped again, once, and the next instrument
\* begins with nothing (StatisticalMean.cc:171-202).
THEOREM MeansOfWindows == Spec => []MeansAreWindows
<1>1. MeansInv => MeansAreWindows
  BY DEF MeansInv, MeansAre, Valued, MeansAreWindows
<1> QED
  BY <1>1, MeansInit, MeansStep, PTL DEF Spec

-----------------------------------------------------------------------------
(* WarnedAboutSuspicious.                                                  *)

\* What is still in a list, and what is in the list without its first.
Left(q) == {q[n] : n \in DOMAIN q}
Distinct(q) == \A n, m \in DOMAIN q : q[n] = q[m] => n = m

LEMMA TailLeft ==
  ASSUME NEW D, NEW q \in Seq(D), q # <<>>, Distinct(q)
  PROVE  /\ Tail(q) \in Seq(D) /\ Distinct(Tail(q))
         /\ Head(q) \in D /\ Head(q) \in Left(q) /\ Left(Tail(q)) = Left(q) \ {Head(q)}
<1> DEFINE L == Len(q)
<1>1. /\ L \in Nat /\ L >= 1 /\ DOMAIN q = 1 .. L /\ Head(q) = q[1] /\ q[1] \in D
      /\ Tail(q) \in Seq(D) /\ DOMAIN Tail(q) = 1 .. L - 1 /\ \A n \in 1 .. L - 1 : Tail(q)[n] = q[n + 1]
  OBVIOUS
<1> HIDE DEF L
<1>2. Distinct(Tail(q))
  <2>1. ASSUME NEW n \in 1 .. L - 1, NEW m \in 1 .. L - 1, Tail(q)[n] = Tail(q)[m] PROVE n = m
    <3>1. n + 1 \in DOMAIN q /\ m + 1 \in DOMAIN q /\ q[n + 1] = q[m + 1]
      BY <1>1, <2>1
    <3>2. n + 1 = m + 1
      BY <3>1 DEF Distinct
    <3> QED  BY <1>1, <3>2
  <2> QED  BY <1>1, <2>1 DEF Distinct
<1>3. 1 \in DOMAIN q
  BY <1>1
<1>4. Head(q) \in Left(q)
  BY <1>1, <1>3 DEF Left
<1>5. ASSUME NEW e \in Left(Tail(q)) PROVE e \in Left(q) /\ e # Head(q)
  <2>1. PICK n \in 1 .. L - 1 : e = q[n + 1]
    BY <1>1, <1>5 DEF Left
  <2>2. n + 1 \in DOMAIN q /\ n + 1 # 1
    BY <1>1
  <2> QED  BY <1>1, <1>3, <2>1, <2>2 DEF Left, Distinct
<1>6. ASSUME NEW e \in Left(q), e # Head(q) PROVE e \in Left(Tail(q))
  <2>1. PICK n \in 1 .. L : e = q[n]
    BY <1>1, <1>6 DEF Left
  <2>2. n - 1 \in 1 .. L - 1 /\ n - 1 + 1 = n
    BY <1>1, <1>6, <2>1
  <2>3. Tail(q)[n - 1] = q[n] /\ n - 1 \in DOMAIN Tail(q)
    BY <1>1, <2>2
  <2> QED  BY <2>1, <2>3 DEF Left
<1> QED
  BY <1>1, <1>2, <1>4, <1>5, <1>6

\* A list of each member, once.
LEMMA OnceLeft ==
  ASSUME NEW S, NEW q, Once(q, S)
  PROVE  q \in Seq(S) /\ Distinct(q) /\ Left(q) = S
<1>1. \A n \in DOMAIN q : q[n] \in S
  BY DEF Once
<1> QED
  BY <1>1 DEF Once, Distinct, Left

\* getReferenceValue: once the keys that are wanted are there, all that are needed are.
LEMMA AllLoaded ==
  ASSUME DOMAIN references \subseteq DOMAIN OwnKeys, \A k \in DOMAIN references : references[k] = Loaded(k)
  PROVE  WithKeys(Wanted) = OwnKeys
<1> DEFINE K == IF config.pid = "PR" THEN {} ELSE ToSet(Keys(factory))
<1>1. OwnKeys = [k \in K |-> Loaded(k)] /\ DOMAIN OwnKeys = K
  BY DEF OwnKeys
<1>2. Wanted = K \ DOMAIN references
  BY DEF Wanted
<1> HIDE DEF K
<1>3. DOMAIN references \union Wanted = K
  BY <1>1, <1>2
<1>4. WithKeys(Wanted) = [k \in K |-> IF k \in Wanted THEN Loaded(k) ELSE references[k]]
  BY <1>3 DEF WithKeys
<1>5. ASSUME NEW k \in K PROVE (IF k \in Wanted THEN Loaded(k) ELSE references[k]) = Loaded(k)
  BY <1>2
<1> QED
  BY <1>1, <1>4, <1>5

\* The neighbours of a station that count, of the stations that are close enough.
Near(s) == IF s \in FixedStations THEN Around(s) ELSE {}
DiffsOf(e) == Diffs(OwnKeys, e[1].station, e[2], means[e])
Counting(e) == {n \in Near(e[1].station) : NeighborCounts(OwnKeys, DiffsOf(e), n, e[2])}
Checked == {e \in DOMAIN means : IsNorwegianStationId(e[1].station)}

\* Neither the configuration nor the means change while they are checked.
LEMMA CheckedStable ==
  ASSUME UNCHANGED <<config, means>>
  PROVE  /\ OwnKeys' = OwnKeys /\ Checked' = Checked /\ Suspicious' = Suspicious
         /\ \A e : (Counting(e))' = Counting(e)
         /\ \A e : (CenterFits(DiffsOf(e)))' = CenterFits(DiffsOf(e))
<1>1. factory' = factory
  BY DEF factory
<1>2. \A k : (Loaded(k))' = Loaded(k)
  BY LoadedStable
<1>3. OwnKeys' = OwnKeys
  BY <1>1, <1>2 DEF OwnKeys
<1>4. \A s : (Around(s))' = Around(s) /\ (Near(s))' = Near(s)
  BY DEF Around, Near
<1>5. \A l, s, d, k : (Reference(l, s, d, k))' = Reference(l, s, d, k)
  BY DEF Reference
<1>6. \A l, s, d, v : (Diffs(l, s, d, v))' = Diffs(l, s, d, v)
  BY <1>1, <1>5 DEF Diffs
<1>7. \A q, k : (Exceeds(q, k))' = Exceeds(q, k)
  BY DEF Exceeds
<1>8. \A q : (CenterFits(q))' = CenterFits(q)
  BY <1>1, <1>7 DEF CenterFits
<1>9. \A c, q : (Counts(c, q))' = Counts(c, q)
  BY <1>1, <1>7 DEF Counts
<1>10. \A s : (FirstOf(s))' = FirstOf(s)
  BY DEF FirstOf
<1>11. \A l, c, n, d : (NeighborCounts(l, c, n, d))' = NeighborCounts(l, c, n, d)
  BY <1>6, <1>9, <1>10 DEF NeighborCounts
<1>12. \A e : (DiffsOf(e))' = DiffsOf(e)
  BY <1>3, <1>6 DEF DiffsOf
<1>13. \A e : (Counting(e))' = Counting(e)
  BY <1>3, <1>4, <1>11, <1>12 DEF Counting
<1>14. \A e : (CenterFits(DiffsOf(e)))' = CenterFits(DiffsOf(e))
  BY <1>8, <1>12
<1>15. Checked' = Checked
  BY DEF Checked
<1>16. Suspicious' = Suspicious
  BY <1>3, <1>4, <1>6, <1>8, <1>11 DEF Suspicious
<1> QED
  BY <1>3, <1>13, <1>14, <1>15, <1>16

\* Which of the values that are checked are suspicious.
LEMMA SuspiciousAre ==
  ASSUME NEW e \in Checked
  PROVE  e \in Suspicious <=> ~CenterFits(DiffsOf(e)) /\ Cardinality(Counting(e)) >= 3
<1> DEFINE s == e[1].station
           N == {n \in Around(s) : NeighborCounts(OwnKeys, DiffsOf(e), n, e[2])}
<1>1. e \in Suspicious <=> s \in FixedStations /\ ~CenterFits(DiffsOf(e)) /\ Cardinality(N) >= 3
  BY DEF Checked, Suspicious, DiffsOf
<1>2. CASE s \in FixedStations
  BY <1>1, <1>2 DEF Counting, Near
<1>3. CASE s \notin FixedStations
  <2>1. Counting(e) = {}
    BY <1>3 DEF Counting, Near
  <2> QED  BY <1>1, <1>3, <2>1, FS_EmptySet
<1> QED
  BY <1>2, <1>3

\* Where the loop over neighbours is: it has gone on to the next one, or stopped with enough.
CountInv ==
    /\ around \in Seq(FixedStations) /\ Distinct(around) /\ count \in Nat
    /\ Left(around) \subseteq Near(Head(todo)[1].station)
    /\ \/ count = Cardinality(Counting(Head(todo)) \ Left(around))
       \/ around = <<>> /\ 3 < count /\ count <= Cardinality(Counting(Head(todo)))

InChecks == pc \in {"check", "find", "around"}
WarnInv ==
    ~interrupted =>
        /\ pc # "idle" => stations \in {{}, FixedStations} /\ DOMAIN references \subseteq DOMAIN OwnKeys
        /\ ~InChecks => warned = {}
        /\ InChecks => todo \in Seq(Checked) /\ Distinct(todo) /\ warned = Suspicious \ Left(todo)
        /\ pc \in {"find", "around"} =>
                todo # <<>> /\ references = OwnKeys /\ ~CenterFits(DiffsOf(Head(todo)))
        /\ pc = "around" => CountInv

\* The first value that is left is suspicious or not, and is not left any more.
LEMMA NextValue ==
  ASSUME todo \in Seq(Checked), Distinct(todo), todo # <<>>, warned = Suspicious \ Left(todo)
  PROVE  /\ Tail(todo) \in Seq(Checked) /\ Distinct(Tail(todo)) /\ Head(todo) \in Checked
         /\ Suspicious \ Left(Tail(todo)) = warned \union (IF Head(todo) \in Suspicious THEN {Head(todo)} ELSE {})
<1>1. /\ Tail(todo) \in Seq(Checked) /\ Distinct(Tail(todo))
      /\ Head(todo) \in Checked /\ Head(todo) \in Left(todo) /\ Left(Tail(todo)) = Left(todo) \ {Head(todo)}
  BY TailLeft
<1> QED
  BY <1>1

\* The values to be checked are listed.
LEMMA WarnStartChecks == ASSUME MeansInv, WarnInv, StartChecks, ~interrupted PROVE WarnInv'
<1>1. /\ pc = "station" /\ pc' = "check" /\ UNCHANGED <<config, stations, references, daily, means, warned, interrupted>>
      /\ todo = <<>> /\ todo' = Ordered(Checked, BeforeOrEarlier)
  BY DEF StartChecks, historyVars, Checked
<1>2. OwnKeys' = OwnKeys /\ Checked' = Checked /\ Suspicious' = Suspicious
  BY <1>1, CheckedStable
<1>3. IsFiniteSet(Checked) /\ Checked \subseteq [station : Nat, type : Nat] \X Int
  <2>1. RunTyped /\ MeansAre(Seen)
    BY <1>1 DEF MeansInv
  <2>2. Seen \subseteq (DOMAIN daily) \X (d0 .. d1)
    BY DEF Seen
  <2>3. DOMAIN means \subseteq (DOMAIN daily) \X (d0 .. d1)
    BY <2>1, <2>2 DEF MeansAre
  <2>4. d0 \in Int /\ d1 \in Int
    BY <2>1 DEF RunTyped, d0, d1
  <2>5. IsFiniteSet((DOMAIN daily) \X (d0 .. d1))
    BY <2>1, <2>4, FS_Interval, FS_Product DEF RunTyped
  <2>6. Checked \subseteq (DOMAIN daily) \X (d0 .. d1)
    BY <2>3 DEF Checked
  <2>7. (DOMAIN daily) \X (d0 .. d1) \subseteq [station : Nat, type : Nat] \X Int
    BY <2>1, <2>4 DEF RunTyped
  <2> QED  BY <2>5, <2>6, <2>7, FS_Subset
<1>4. todo' \in Seq(Checked) /\ Distinct(todo') /\ Left(todo') = Checked
  <2>1. Once(todo', Checked)
    BY <1>1, <1>3, OrderedValues
  <2> QED  BY <2>1, OnceLeft
<1>5. Suspicious \subseteq Checked
  BY DEF Suspicious, Checked
<1>6. warned = {} /\ stations \in {{}, FixedStations} /\ DOMAIN references \subseteq DOMAIN OwnKeys
  BY <1>1 DEF WarnInv, InChecks
<1> QED
  BY <1>1, <1>2, <1>4, <1>5, <1>6 DEF WarnInv, InChecks

\* newCenter(): a value that fits is not suspicious.
LEMMA WarnNewCenter == ASSUME ReferencesInv, WarnInv, NewCenter, ~interrupted PROVE WarnInv'
<1>1. /\ pc = "check" /\ todo # <<>> /\ UNCHANGED <<config, stations, means, warned, interrupted>>
      /\ references' = WithKeys(Wanted)
      /\ \/ CenterFits(CenterDiffs(references')) /\ todo' = Tail(todo) /\ pc' = pc
         \/ ~CenterFits(CenterDiffs(references')) /\ pc' = "find" /\ todo' = todo
  BY DEF NewCenter, historyVars
<1>2. /\ stations \in {{}, FixedStations} /\ DOMAIN references \subseteq DOMAIN OwnKeys
      /\ todo \in Seq(Checked) /\ Distinct(todo) /\ warned = Suspicious \ Left(todo)
  BY <1>1 DEF WarnInv, InChecks
<1>3. references' = OwnKeys
  BY <1>1, <1>2, AllLoaded DEF ReferencesInv
<1>4. OwnKeys' = OwnKeys /\ Checked' = Checked /\ Suspicious' = Suspicious
      /\ \A e : (CenterFits(DiffsOf(e)))' = CenterFits(DiffsOf(e))
  BY <1>1, CheckedStable
<1>5. CenterDiffs(references') = DiffsOf(Head(todo))
  BY <1>3 DEF CenterDiffs, DiffsOf, Center
<1>6. CASE CenterFits(DiffsOf(Head(todo))) /\ todo' = Tail(todo) /\ pc' = pc
  <2>1. /\ Tail(todo) \in Seq(Checked) /\ Distinct(Tail(todo)) /\ Head(todo) \in Checked
        /\ Suspicious \ Left(Tail(todo)) = warned \union (IF Head(todo) \in Suspicious THEN {Head(todo)} ELSE {})
    BY <1>1, <1>2, NextValue
  <2>2. Head(todo) \notin Suspicious
    BY <1>6, <2>1, SuspiciousAre
  <2> QED  BY <1>1, <1>2, <1>3, <1>4, <1>6, <2>1, <2>2 DEF WarnInv, InChecks
<1>7. CASE ~CenterFits(DiffsOf(Head(todo))) /\ pc' = "find" /\ todo' = todo
  <2>1. ~(CenterFits(DiffsOf(Head(todo))))'
    <3>1. PICK e : e = Head(todo)
      OBVIOUS
    <3>2. Head(todo') = e
      BY <1>7, <3>1
    <3>3. ~(CenterFits(DiffsOf(e)))'
      BY <1>4, <1>7, <3>1
    <3> QED  BY <3>2, <3>3 DEF CenterFits, DiffsOf
  <2> QED  BY <1>1, <1>2, <1>3, <1>4, <1>7, <2>1 DEF WarnInv, InChecks
<1> QED
  BY <1>1, <1>5, <1>6, <1>7

\* What is known of the value whose neighbours are looked at stays so.
LEMMA ValueStays ==
  ASSUME UNCHANGED <<config, means, todo>>, references = OwnKeys, references' = references, ~CenterFits(DiffsOf(Head(todo)))
  PROVE  /\ references' = OwnKeys' /\ ~(CenterFits(DiffsOf(Head(todo))))'
         /\ (Counting(Head(todo)))' = Counting(Head(todo))
         /\ (Near(Head(todo)[1].station))' = Near(Head(todo)[1].station)
<1>1. /\ OwnKeys' = OwnKeys /\ \A e : (Counting(e))' = Counting(e)
      /\ \A e : (CenterFits(DiffsOf(e)))' = CenterFits(DiffsOf(e))
  BY CheckedStable
<1>2. PICK e : e = Head(todo)
  OBVIOUS
<1>3. Head(todo') = e
  BY <1>2
<1>4. ~(CenterFits(DiffsOf(e)))' /\ (Counting(e))' = Counting(Head(todo))
  BY <1>1, <1>2
<1>5. (Counting(Head(todo)))' = (Counting(e))'
  BY <1>3 DEF Counting, DiffsOf
<1>6. (Near(Head(todo)[1].station))' = Near(Head(todo)[1].station)
  BY DEF Near, Around
<1> QED
  BY <1>1, <1>3, <1>4, <1>5, <1>6 DEF CenterFits, DiffsOf

\* findNeighbors: of a station that is known the others near to it, each once.
LEMMA WarnFindStations == ASSUME WarnInv, FindStations, ~interrupted PROVE WarnInv'
<1>1. /\ pc = "find" /\ pc' = "around" /\ UNCHANGED <<config, references, means, todo, warned, interrupted>>
      /\ stations' = (IF stations = {} THEN FixedStations ELSE stations)
      /\ around' = FindNeighbors(stations', Center[1].station) /\ count' = 0
  BY DEF FindStations, historyVars
<1>2. /\ stations \in {{}, FixedStations} /\ DOMAIN references \subseteq DOMAIN OwnKeys
      /\ todo \in Seq(Checked) /\ Distinct(todo) /\ warned = Suspicious \ Left(todo)
      /\ todo # <<>> /\ references = OwnKeys /\ ~CenterFits(DiffsOf(Head(todo)))
  BY <1>1 DEF WarnInv, InChecks
<1>3. /\ references' = OwnKeys' /\ ~(CenterFits(DiffsOf(Head(todo))))'
      /\ (Counting(Head(todo)))' = Counting(Head(todo)) /\ (Near(Head(todo)[1].station))' = Near(Head(todo)[1].station)
  BY <1>1, <1>2, ValueStays
<1>4. Checked' = Checked /\ Suspicious' = Suspicious
  BY <1>1, CheckedStable
<1> DEFINE s == Head(todo)[1].station
<1>5. around' \in Seq(FixedStations) /\ Distinct(around') /\ Left(around') = Near(s)
  <2>1. stations' = FixedStations /\ around' = FindNeighbors(FixedStations, s)
    BY <1>1, <1>2 DEF Center
  <2>2. CASE s \notin FixedStations
    <3>1. around' = <<>> /\ Near(s) = {}
      BY <2>1, <2>2 DEF FindNeighbors, Near
    <3> QED  BY <3>1 DEF Distinct, Left
  <2>3. CASE s \in FixedStations
    <3>1. around' = Ordered(Around(s), Earlier) /\ Near(s) = Around(s)
      BY <2>1, <2>3 DEF FindNeighbors, Near, Around
    <3>2. Around(s) \subseteq FixedStations
      BY DEF Around
    <3>3. IsFiniteSet(Around(s))
      BY ONLY <3>2, StationsAssumption, FS_Subset
    <3>4. Around(s) \subseteq Int
      <4>1. FixedStations \subseteq Int
        BY StationsAssumption
      <4> QED  BY ONLY <3>2, <4>1
    <3>5. Once(around', Around(s))
      BY <3>1, <3>3, <3>4, OrderedNumbers
    <3> QED  BY <3>1, <3>2, <3>5, OnceLeft
  <2> QED  BY <2>2, <2>3
<1>6. Cardinality(Counting(Head(todo)) \ Left(around')) = 0
  <2>1. Counting(Head(todo)) \subseteq Near(s)
    BY DEF Counting
  <2>2. Counting(Head(todo)) \ Left(around') = {}
    BY <1>5, <2>1
  <2> QED  BY <2>2, FS_EmptySet
<1>7. CountInv'
  BY <1>1, <1>3, <1>5, <1>6 DEF CountInv
<1>8. stations' \in {{}, FixedStations} /\ DOMAIN references' \subseteq DOMAIN OwnKeys'
  BY <1>1, <1>2, <1>3
<1> QED
  BY <1>1, <1>2, <1>3, <1>4, <1>7, <1>8 DEF WarnInv, InChecks

\* checkNeighbor(): the next neighbour counts or not, and the loop stops if there are enough.
LEMMA WarnCheckNeighbor == ASSUME WarnInv, CheckNeighbor, ~interrupted PROVE WarnInv'
<1> DEFINE n == Head(around)
           C == Counting(Head(todo))
           more == IF n \in C THEN 1 ELSE 0
<1>1. /\ pc = "around" /\ around # <<>> /\ pc' = pc
      /\ UNCHANGED <<config, stations, references, means, todo, warned, interrupted>>
      /\ count' = count + (IF NeighborCounts(references, CenterDiffs(references), n, Center[2]) THEN 1 ELSE 0)
      /\ around' = IF GoOn(count') THEN Tail(around) ELSE <<>>
  BY DEF CheckNeighbor, historyVars
<1>2. /\ stations \in {{}, FixedStations} /\ DOMAIN references \subseteq DOMAIN OwnKeys
      /\ todo \in Seq(Checked) /\ Distinct(todo) /\ warned = Suspicious \ Left(todo)
      /\ todo # <<>> /\ references = OwnKeys /\ ~CenterFits(DiffsOf(Head(todo)))
      /\ CountInv
  BY <1>1 DEF WarnInv, InChecks
<1>3. /\ references' = OwnKeys' /\ ~(CenterFits(DiffsOf(Head(todo))))'
      /\ (Counting(Head(todo)))' = C /\ (Near(Head(todo)[1].station))' = Near(Head(todo)[1].station)
  BY <1>1, <1>2, ValueStays
<1>4. Checked' = Checked /\ Suspicious' = Suspicious
  BY <1>1, CheckedStable
<1>5. /\ Tail(around) \in Seq(FixedStations) /\ Distinct(Tail(around)) /\ n \in Left(around)
      /\ Left(Tail(around)) = Left(around) \ {n}
  BY <1>1, <1>2, TailLeft DEF CountInv
<1>6. count \in Nat /\ count = Cardinality(C \ Left(around)) /\ Left(around) \subseteq Near(Head(todo)[1].station)
  BY <1>1, <1>2 DEF CountInv
<1>7. count' = count + more
  <2>1. NeighborCounts(references, CenterDiffs(references), n, Center[2]) <=> n \in C
    BY <1>2, <1>5, <1>6 DEF Counting, CenterDiffs, DiffsOf, Center
  <2> QED  BY <1>1, <2>1
<1>8. IsFiniteSet(C)
  <2>1. C \subseteq FixedStations
    BY DEF Counting, Near, Around
  <2> QED  BY <2>1, StationsAssumption, FS_Subset
<1> HIDE DEF C, n
<1>9. Cardinality(C \ Left(Tail(around))) = count'
  <2>1. IsFiniteSet(C \ Left(around))
    BY <1>8, FS_Subset
  <2>2. CASE n \in C
    <3>1. C \ Left(Tail(around)) = (C \ Left(around)) \union {n} /\ n \notin C \ Left(around)
      BY <1>5, <2>2
    <3>2. Cardinality((C \ Left(around)) \union {n}) = Cardinality(C \ Left(around)) + 1
      BY ONLY <2>1, <3>1, FS_AddElement
    <3> QED  BY <1>6, <1>7, <2>2, <3>1, <3>2
  <2>3. CASE n \notin C
    <3>1. C \ Left(Tail(around)) = C \ Left(around)
      BY <1>5, <2>3
    <3>2. count' = count
      BY <1>6, <1>7, <2>3
    <3> HIDE DEF more
    <3> QED  BY ONLY <1>6, <3>1, <3>2
  <2> QED  BY <2>2, <2>3
<1>10. count' \in Nat /\ count' <= Cardinality(C)
  <2>1. Cardinality(C \ Left(Tail(around))) <= Cardinality(C)
    BY <1>8, FS_Subset
  <2> QED  BY <1>6, <1>7, <1>9, <2>1
<1>11. CountInv'
  <2>1. CASE GoOn(count')
    <3>1. around' = Tail(around) /\ Left(Tail(around)) \subseteq Near(Head(todo)[1].station)
      BY <1>1, <1>5, <1>6, <2>1
    <3> QED  BY <1>3, <1>5, <1>9, <1>10, <3>1 DEF CountInv
  <2>2. CASE ~GoOn(count')
    <3>1. around' = <<>> /\ 3 < count'
      BY <1>1, <1>10, <2>2 DEF GoOn
    <3>2. around' \in Seq(FixedStations) /\ Distinct(around') /\ Left(around') = {}
      BY <3>1 DEF Distinct, Left
    <3> QED  BY <1>3, <1>10, <3>1, <3>2 DEF CountInv
  <2> QED  BY <2>1, <2>2
<1> QED
  BY <1>1, <1>2, <1>3, <1>4, <1>11 DEF WarnInv, InChecks

\* pass(): a value with three neighbours that count is suspicious.
LEMMA WarnEndNeighbors == ASSUME WarnInv, EndNeighbors, ~interrupted PROVE WarnInv'
<1>1. /\ pc = "around" /\ around = <<>> /\ pc' = "check"
      /\ UNCHANGED <<config, stations, references, means, interrupted>>
      /\ warned' = IF Pass(count) THEN warned ELSE warned \union {Head(todo)}
      /\ todo' = Tail(todo)
  BY DEF EndNeighbors, historyVars, Center
<1>2. /\ stations \in {{}, FixedStations} /\ DOMAIN references \subseteq DOMAIN OwnKeys
      /\ todo \in Seq(Checked) /\ Distinct(todo) /\ warned = Suspicious \ Left(todo)
      /\ todo # <<>> /\ references = OwnKeys /\ ~CenterFits(DiffsOf(Head(todo)))
      /\ CountInv
  BY <1>1 DEF WarnInv, InChecks
<1>3. OwnKeys' = OwnKeys /\ Checked' = Checked /\ Suspicious' = Suspicious
  BY <1>1, CheckedStable
<1>4. /\ Tail(todo) \in Seq(Checked) /\ Distinct(Tail(todo)) /\ Head(todo) \in Checked
      /\ Suspicious \ Left(Tail(todo)) = warned \union (IF Head(todo) \in Suspicious THEN {Head(todo)} ELSE {})
  BY <1>2, NextValue
<1>5. Pass(count) <=> ~(Cardinality(Counting(Head(todo))) >= 3)
  <2>1. IsFiniteSet(Counting(Head(todo)))
    <3>1. Counting(Head(todo)) \subseteq FixedStations
      BY DEF Counting, Near, Around
    <3> QED  BY <3>1, StationsAssumption, FS_Subset
  <2>2. Cardinality(Counting(Head(todo))) \in Nat
    BY <2>1, FS_CardinalityType
  <2>3. Left(around) = {}
    BY <1>1 DEF Left
  <2>4. Counting(Head(todo)) \ Left(around) = Counting(Head(todo))
    BY <2>3
  <2>5. count = Cardinality(Counting(Head(todo))) \/ (3 < count /\ count <= Cardinality(Counting(Head(todo))))
    BY <1>2, <2>4 DEF CountInv
  <2>6. count \in Nat
    BY <1>2 DEF CountInv
  <2> QED  BY <2>2, <2>5, <2>6 DEF Pass
<1>6. Head(todo) \in Suspicious <=> ~Pass(count)
  BY <1>2, <1>4, <1>5, SuspiciousAre
<1> QED
  BY <1>1, <1>2, <1>3, <1>4, <1>6 DEF WarnInv, InChecks

\* Before the checks the references are those that the run began with, of which there are none.
LEMMA WarnBefore ==
  ASSUME WarnInv, UNCHANGED <<config, stations, references, warned>>, ~interrupted, pc # "idle", ~InChecks, ~InChecks'
  PROVE  WarnInv'
<1>1. DOMAIN OwnKeys' = DOMAIN OwnKeys
  BY DEF OwnKeys, factory
<1>2. pc' # "find" /\ pc' # "around"
  BY DEF InChecks
<1> QED
  BY <1>1, <1>2 DEF WarnInv

\* Every step keeps it.
LEMMA WarnStep == MeansInv /\ ReferencesInv /\ WarnInv /\ [Next]_vars => WarnInv'
<1> SUFFICES ASSUME MeansInv, ReferencesInv, WarnInv, [Next]_vars PROVE WarnInv'
  OBVIOUS
<1>1. ASSUME NEW s \in Settings, NEW t \in Tables, Configure(s, t) PROVE WarnInv'
  <2>1. /\ pc = "idle" /\ pc' \in {"idle", "read"} /\ UNCHANGED <<references, warned, interrupted>> /\ stations' = {}
    BY <1>1 DEF Configure, historyVars
  <2>2. ~interrupted => DOMAIN references = {} /\ warned = {}
    BY <2>1 DEF ReferencesInv, WarnInv, InChecks
  <2> QED  BY <2>1, <2>2 DEF WarnInv, InChecks
<1>2. CASE ReadRows \/ NewStation \/ SlideDay \/ EndStation
  <2>1. /\ UNCHANGED <<config, stations, references, warned, interrupted>>
        /\ pc \in {"read", "station", "window"} /\ pc' \in {"read", "station", "window"}
    BY <1>2, Zenon DEF ReadRows, NewStation, SlideDay, EndStation, historyVars
  <2>2. pc # "idle" /\ ~InChecks /\ ~InChecks'
    BY <2>1 DEF InChecks
  <2>3. CASE interrupted
    BY <2>1, <2>3 DEF WarnInv
  <2> QED  BY <2>1, <2>2, <2>3, WarnBefore
<1>3. CASE StartChecks \/ NewCenter \/ FindStations \/ CheckNeighbor \/ EndNeighbors
  <2>1. interrupted' = interrupted
    BY <1>3, Zenon DEF StartChecks, NewCenter, FindStations, CheckNeighbor, EndNeighbors, historyVars
  <2>2. CASE interrupted
    BY <2>1, <2>2 DEF WarnInv
  <2> QED  BY <1>3, <2>2, WarnStartChecks, WarnNewCenter, WarnFindStations, WarnCheckNeighbor, WarnEndNeighbors
<1>4. CASE EndRun \/ Abort
  <2>1. pc' = "idle" /\ warned' = {}
    BY <1>4 DEF EndRun, Abort, Idle
  <2> QED  BY <2>1 DEF WarnInv, InChecks
<1>5. CASE UNCHANGED vars
  <2>1. UNCHANGED <<config, stations, references, pc, todo, means, around, count, warned, interrupted>>
    BY <1>5 DEF vars, checkVars, historyVars
  <2>2. OwnKeys' = OwnKeys /\ Checked' = Checked /\ Suspicious' = Suspicious
    BY <2>1, CheckedStable
  <2>3. ASSUME references = OwnKeys, ~CenterFits(DiffsOf(Head(todo)))
        PROVE  /\ references' = OwnKeys' /\ ~(CenterFits(DiffsOf(Head(todo))))'
               /\ (Counting(Head(todo)))' = Counting(Head(todo)) /\ (Near(Head(todo)[1].station))' = Near(Head(todo)[1].station)
    BY <2>1, <2>3, ValueStays
  <2>4. ASSUME references = OwnKeys, ~CenterFits(DiffsOf(Head(todo))), CountInv PROVE CountInv'
    BY <2>1, <2>3, <2>4 DEF CountInv
  <2> QED  BY <2>1, <2>2, <2>3, <2>4 DEF WarnInv, InChecks
<1> QED
  BY <1>1, <1>2, <1>3, <1>4, <1>5 DEF Next, Run

\* Whom a run warns about does not depend on the order of the neighbours, on where the loop over them stops or on which references
\* were loaded when (StatisticalMean.cc:227-256, CheckerMeanOrSum.cc:33-64, CheckerQuartiles.cc:67-97):
\* unless a run was cut short before it, it is about all suspicious values and about no others.
THEOREM SuspiciousWarnedAbout == Spec => []WarnedAboutSuspicious
<1>1. Init => ReferencesInv /\ WarnInv
  BY DEF Init, None, ReferencesInv, WarnInv, InChecks
<1>2. WarnInv => WarnedAboutSuspicious
  <2> SUFFICES ASSUME WarnInv, pc = "check", todo = <<>>, ~interrupted PROVE warned = Suspicious
    BY DEF WarnedAboutSuspicious
  <2>1. warned = Suspicious \ Left(todo)
    BY DEF WarnInv, InChecks
  <2> QED  BY <2>1 DEF Left
<1> QED
  BY <1>1, <1>2, MeansInit, MeansStep, ReferencesStep, WarnStep, PTL DEF Spec
=============================================================================
