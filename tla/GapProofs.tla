----------------------------- MODULE GapProofs -----------------------------
(***************************************************************************)
(* What a run of the gap interpolation does to the table, for any table,   *)
(* window, neighbours and observations of other types.                     *)
(*                                                                         *)
(* The algorithms of a run are applied to a series one after the other.    *)
(* Each of them is a stage: it replaces an entry that needs it by a better *)
(* one and leaves the others alone (Stage), and stages compose.  Before    *)
(* them doubtful minima and maxima are discarded, so that a row is changed *)
(* for the better, or it was doubtful (Changed): OnlyForBetter.  What one  *)
(* leaves over of what needed a value (ReconstructStage, NeighboursStage)  *)
(* says which rows of a series are still missing when it has been written. *)
(* As long as nothing comes from outside the series at hand is a copy of   *)
(* the table (CopyOf), and then ForgetInv and HumidityInv are inductive,   *)
(* from which NothingForgotten and TemperatureFirst follow.                *)
(***************************************************************************)
EXTENDS Gap, FiniteInduction

-----------------------------------------------------------------------------
(* Rows and entries.                                                       *)

\* What the table may hold; the qualities that need interpolation; and what is read.
Rows == Row \union {NoRow}
Needed == {BAD, FAILED, DISCARDED, MISSING}
Entries == [row : Rows, isNew : BOOLEAN, q : 0 .. 7, value : Values, usable : BOOLEAN, updated : BOOLEAN]

\* The numbers of the qualities.
LEMMA Numbers ==
  /\ OBSERVATION = 0 /\ GOOD = 1 /\ BAD = 2 /\ FAILED = 3 /\ MISSING = 4 /\ UNUSABLE = 5 /\ DISCARDED = 6 /\ NO_ROW = 7
  /\ Needed = {2, 3, 6, 4} /\ GOOD .. FAILED = {1, 2, 3} /\ Needed \subseteq 0 .. 7
BY DEF OBSERVATION, GOOD, BAD, FAILED, MISSING, UNUSABLE, DISCARDED, NO_ROW, Needed

\* A row is not the row that is not there.
LEMMA RowIsThere == NoRow \notin Row
BY DEF Row, NoRow

\* A value that no temperature went into.
LEMMA ValueTyped ==
  ASSUME NEW by \in Methods, NEW from \in SUBSET (Kinds \X Hours)
  PROVE  Value(by, from) \in Values /\ Value(by, from).from = from /\ Value(by, from).zeroed = {} /\ Value(by, from).by = by
BY DEF Value, Values

\* Nor into the one that is none.
LEMMA NoneTyped == None \in Values /\ None.zeroed = {} /\ None.by = "none"
BY ValueTyped DEF None, Methods

\* What a row is read as.
LEMMA QualityTyped ==
  ASSUME NEW g, NEW r \in Rows
  PROVE  /\ RowQuality(r) \in 0 .. 7 /\ Quality(g, r) \in 0 .. 7
         /\ Quality(g, r) = NO_ROW <=> RowQuality(r) = NO_ROW
         /\ Quality(g, r) = OBSERVATION <=> RowQuality(r) = OBSERVATION
         /\ Quality(g, r) \in Needed => Quality(g, r) = RowQuality(r)
         /\ r = NoRow => RowQuality(r) = NO_ROW
         /\ r # NoRow => /\ RowQuality(r) = OBSERVATION <=> r.level = "ok"
                         /\ r.level # "ok" /\ r.ftime > 0 => RowQuality(r) = r.ftime
                         /\ r.level # "ok" /\ r.ftime = 0 /\ r.fmis \in 1 .. 3 => RowQuality(r) = MISSING /\ Quality(g, r) = MISSING
<1>1. r = NoRow => RowQuality(r) = NO_ROW
  BY DEF RowQuality
<1>2. ASSUME r # NoRow
      PROVE  /\ r \in Row
             /\ RowQuality(r) \in 0 .. 5 \/ RowQuality(r) = 7
             /\ RowQuality(r) = OBSERVATION <=> r.level = "ok"
             /\ r.level # "ok" /\ r.ftime > 0 => RowQuality(r) = r.ftime
             /\ r.level # "ok" /\ r.ftime = 0 /\ r.fmis \in 1 .. 3 => RowQuality(r) = MISSING
  <2>1. r.level \in {"ok", "bad", "unchecked"} /\ r.ftime \in 0 .. 3 /\ r.fmis \in 0 .. 4 /\ r \in Row
    BY <1>2 DEF Rows, Row
  <2>2. CASE r.level = "ok"
    BY <1>2, <2>1, <2>2, Numbers DEF RowQuality
  <2>3. CASE r.level # "ok" /\ r.ftime > 0
    BY <1>2, <2>1, <2>3, Numbers DEF RowQuality
  <2>4. CASE r.level # "ok" /\ r.ftime = 0 /\ r.fmis \in 1 .. 3
    BY <1>2, <2>1, <2>4, Numbers DEF RowQuality
  <2>5. CASE r.level # "ok" /\ r.ftime = 0 /\ r.fmis \notin 1 .. 3
    BY <1>2, <2>1, <2>5, Numbers DEF RowQuality
  <2> QED  BY <2>1, <2>2, <2>3, <2>4, <2>5
<1>3. RowQuality(r) \in 0 .. 7
  BY <1>1, <1>2, Numbers
<1>4. Quality(g, r) = RowQuality(r) \/ (Quality(g, r) = UNUSABLE /\ RowQuality(r) \in GOOD .. FAILED)
  BY DEF Quality
<1> QED
  BY <1>1, <1>2, <1>3, <1>4, Numbers

\* An entry is new if there is no row for it, and the hours whose temperature was taken as 0 when
\* it was given its value are those that none is known for.
EntryOk(hours, known, e) ==
    /\ e \in Entries
    /\ e.isNew <=> RowQuality(e.row) = NO_ROW
    /\ e.usable => e.q < FAILED
    /\ e.updated /\ e.q < FAILED => e.value.zeroed \subseteq hours \ known

\* An entry as it is read.
LEMMA EntryTyped ==
  ASSUME NEW g, NEW r \in Rows, NEW hours, NEW known
  PROVE  /\ EntryOk(hours, known, Entry(g, r))
         /\ Entry(g, r).row = r /\ Entry(g, r).q = Quality(g, r) /\ ~Entry(g, r).updated
         /\ Entry(g, r).usable <=> RowQuality(r) = OBSERVATION
<1> DEFINE q == Quality(g, r)
           v == CASE q = OBSERVATION -> Value("observed", {}) [] q \in GOOD .. FAILED -> r.corrected [] OTHER -> None
<1>1. Entry(g, r) = [row |-> r, isNew |-> q = NO_ROW, q |-> q, usable |-> q = OBSERVATION, updated |-> FALSE, value |-> v]
  BY DEF Entry
<1>2. q \in 0 .. 7 /\ (q = NO_ROW <=> RowQuality(r) = NO_ROW) /\ (q = OBSERVATION <=> RowQuality(r) = OBSERVATION)
  BY QualityTyped
<1>3. v \in Values
  <2>1. CASE q = OBSERVATION
    <3>1. v = Value("observed", {})
      BY <2>1, Numbers
    <3>2. "observed" \in Methods /\ {} \in SUBSET (Kinds \X Hours)
      BY DEF Methods
    <3> QED  BY ONLY <3>1, <3>2, ValueTyped
  <2>2. CASE q # OBSERVATION /\ q \in GOOD .. FAILED
    <3>1. r # NoRow
      BY <1>2, <2>2, QualityTyped, Numbers
    <3>2. r.corrected \in Values
      BY <3>1 DEF Rows, Row
    <3>3. v = r.corrected
      BY <2>2
    <3> QED  BY <3>2, <3>3
  <2>3. CASE q # OBSERVATION /\ q \notin GOOD .. FAILED
    <3>1. v = None
      BY <2>3
    <3> QED  BY <3>1, NoneTyped
  <2> QED  BY <2>1, <2>2, <2>3
<1> HIDE DEF q, v
<1>4. q = OBSERVATION => q < FAILED
  BY Numbers
<1>5. PICK b, c \in BOOLEAN : (b <=> q = NO_ROW) /\ (c <=> q = OBSERVATION) /\ b = (q = NO_ROW) /\ c = (q = OBSERVATION)
  OBVIOUS
<1>6. Entry(g, r) = [row |-> r, isNew |-> b, q |-> q, usable |-> c, updated |-> FALSE, value |-> v]
  BY <1>1, <1>5
<1>7. Entry(g, r) \in Entries
  BY <1>2, <1>3, <1>6 DEF Entries
<1>8. /\ Entry(g, r).row = r /\ Entry(g, r).q = q /\ ~Entry(g, r).updated
      /\ Entry(g, r).usable <=> c
      /\ Entry(g, r).isNew <=> b
  BY <1>6
<1>9. EntryOk(hours, known, Entry(g, r))
  BY <1>2, <1>4, <1>5, <1>7, <1>8 DEF EntryOk
<1> QED
  BY <1>2, <1>5, <1>8, <1>9 DEF q

\* Nothing gets worse: what is done to an entry that needs interpolation.
Better(e, f) ==
    /\ f.row = e.row /\ f.isNew = e.isNew
    /\ f = e \/ (e.q \in Needed /\ f.updated /\ f.q \in GOOD .. FAILED /\ f.q < e.q)

\* Better again is better.
LEMMA BetterAgain ==
  ASSUME NEW e \in Entries, NEW f \in Entries, NEW g \in Entries, Better(e, f), Better(f, g)
  PROVE  Better(e, g)
<1>1. e.q \in 0 .. 7 /\ f.q \in 0 .. 7 /\ g.q \in 0 .. 7
  BY DEF Entries
<1> QED
  BY <1>1 DEF Better

\* GapUpdate::update of such an entry.
LEMMA UpdateBetter ==
  ASSUME NEW hours, NEW known, NEW e, EntryOk(hours, known, e), e.q \in Needed,
         NEW q \in GOOD .. FAILED, NEW v \in Values, v.zeroed \subseteq hours \ known
  PROVE  EntryOk(hours, known, Update(e, q, v)) /\ Better(e, Update(e, q, v)) /\ Update(e, q, v).q <= q
<1>1. e \in Entries /\ e.q \in {2, 3, 4, 6} /\ q \in {1, 2, 3}
  BY Numbers DEF EntryOk
<1>2. CASE q >= e.q
  <2>1. Update(e, q, v) = e
    BY <1>2 DEF Update
  <2> QED  BY <1>1, <1>2, <2>1 DEF Better
<1>3. CASE q < e.q
  <2>1. Update(e, q, v) = [e EXCEPT !.q = q, !.value = v, !.updated = TRUE, !.usable = q < FAILED]
    BY <1>1, <1>3, Numbers DEF Update
  <2> DEFINE f == [e EXCEPT !.q = q, !.value = v, !.updated = TRUE, !.usable = q < FAILED]
  <2> DEFINE u == q < FAILED
  <2>2. u \in BOOLEAN /\ (u <=> q < FAILED)
    OBVIOUS
  <2>3. f = [e EXCEPT !.q = q, !.value = v, !.updated = TRUE, !.usable = u]
    OBVIOUS
  <2> HIDE DEF f, u
  <2>4. /\ e = [row |-> e.row, isNew |-> e.isNew, q |-> e.q, value |-> e.value, usable |-> e.usable, updated |-> e.updated]
        /\ e.row \in Rows /\ e.isNew \in BOOLEAN
    BY <1>1 DEF Entries
  <2>5. f = [row |-> e.row, isNew |-> e.isNew, q |-> q, value |-> v, usable |-> u, updated |-> TRUE]
    BY ONLY <2>3, <2>4
  <2>6. q \in 0 .. 7
    BY <1>1
  <2>7. f \in Entries /\ f.row = e.row /\ f.isNew = e.isNew /\ f.q = q /\ f.value = v /\ f.updated /\ f.usable = u
    BY <2>2, <2>4, <2>5, <2>6 DEF Entries
  <2>8. EntryOk(hours, known, f)
    BY <2>2, <2>7 DEF EntryOk
  <2>9. Better(e, f)
    BY <1>3, <2>7 DEF Better
  <2> QED  BY <1>1, <2>1, <2>7, <2>8, <2>9 DEF f
<1> QED
  BY <1>1, <1>2, <1>3

-----------------------------------------------------------------------------
(* Ranges and series.                                                      *)

\* A range of a group.
RangeOk(r) == r.group \in Groups /\ r.t0 \in Hours /\ r.t1 \in Hours /\ r.t0 <= r.t1

\* A range goes from an hour to one that is not before it.
LEMMA RangesTyped ==
  ASSUME NEW cells \in SUBSET Cells, NEW r \in FindMissing(cells)
  PROVE  RangeOk(r)
<1>1. PICK g \in Groups : r \in RangesOf(g, cells)
  BY DEF FindMissing
<1> DEFINE missing == {c[3] : c \in {d \in cells : d[1] = g}}
           firsts == {t \in missing : ~\E s \in missing : TryExtend(s, t)}
           Upto(f) == {t \in missing : t >= f /\ \A h \in missing : h > f /\ h <= t => h \notin firsts}
<1>2. PICK f \in firsts : r = [group |-> g, t0 |-> f, t1 |-> Max(Upto(f))]
  BY <1>1 DEF RangesOf
<1>3. missing \subseteq Hours /\ LastHour \in Nat /\ Hours = 0 .. LastHour
  <2>1. \A c \in cells : c[3] \in Hours
    BY DEF Cells
  <2>2. {LastHour} \subseteq Nat
    BY TimeAssumption
  <2> QED  BY <2>1, <2>2 DEF Hours
<1>4. f \in Upto(f)
  <2>1. f \in missing /\ missing \subseteq Int
    BY <1>2, <1>3
  <2> HIDE DEF missing, firsts
  <2>2. \A h \in missing : ~(h > f /\ h <= f)
    BY <2>1
  <2> QED  BY <2>1, <2>2
<1>5. \A t \in Upto(f) : t >= f
  OBVIOUS
<1>6. Upto(f) \in SUBSET (0 .. LastHour)
  BY <1>3
<1>7. f \in Hours
  BY <1>2, <1>3
<1> HIDE DEF missing, firsts, Upto
<1>8. Max(Upto(f)) \in Upto(f)
  <2>1. 0 \in Int /\ LastHour \in Int /\ Upto(f) # {}
    BY <1>3, <1>4
  <2> QED  BY ONLY <1>6, <2>1, MaxOfSome
<1>9. Max(Upto(f)) \in Hours /\ Max(Upto(f)) >= f
  BY <1>3, <1>5, <1>6, <1>8
<1>10. f <= Max(Upto(f))
  BY <1>3, <1>7, <1>9
<1> QED
  BY <1>2, <1>7, <1>9, <1>10 DEF RangeOk

\* The greater and the lesser of two numbers.
LEMMA MaxOfTwo ==
  ASSUME NEW a \in Int, NEW b \in Int
  PROVE  Max({a, b}) \in {a, b} /\ Max({a, b}) >= a /\ Max({a, b}) >= b
<1>1. \E x \in {a, b} : \A y \in {a, b} : x >= y
  OBVIOUS
<1> QED
  BY <1>1 DEF Max

\* The lesser.
LEMMA MinOfTwo ==
  ASSUME NEW a \in Int, NEW b \in Int
  PROVE  Min({a, b}) \in {a, b} /\ Min({a, b}) <= a /\ Min({a, b}) <= b
<1>1. \E x \in {a, b} : \A y \in {a, b} : x =< y
  OBVIOUS
<1> QED
  BY <1>1 DEF Min

\* What is read for a range that lies within the limits holds it.
LEMMA WindowTyped ==
  ASSUME ut0 \in Starts, NEW r, RangeOk(r), WithinLimits(r)
  PROVE  \E a, b \in Hours : a <= r.t0 /\ r.t1 <= b /\ a <= b /\ Window(r) = a .. b
<1> DEFINE a == Max({r.t0 - ExtraData, ut0})
           b == Min({r.t1 + ExtraData, ut1})
<1>1. /\ LastHour \in Nat /\ Span \in Nat /\ ExtraData \in Nat /\ EdgeHours \in Nat /\ Hours = 0 .. LastHour
      /\ ut0 \in Hours /\ ut0 + Span <= LastHour
  BY TimeAssumption DEF Hours
<1>2. ut0 \in 0 .. LastHour /\ ut1 = ut0 + Span /\ ut1 \in 0 .. LastHour
  BY <1>1 DEF ut1
<1>3. r.t0 \in 0 .. LastHour /\ r.t1 \in 0 .. LastHour /\ r.t0 <= r.t1
  BY <1>1 DEF RangeOk
<1>4. r.t0 >= ut0 + EdgeHours /\ r.t1 <= ut1 - EdgeHours
  BY DEF WithinLimits
<1>5. a \in {r.t0 - ExtraData, ut0} /\ a >= ut0
  <2>1. r.t0 - ExtraData \in Int /\ ut0 \in Int
    BY <1>1, <1>2, <1>3
  <2> QED  BY ONLY <2>1, MaxOfTwo
<1>6. b \in {r.t1 + ExtraData, ut1} /\ b <= ut1
  <2>1. r.t1 + ExtraData \in Int /\ ut1 \in Int
    BY <1>1, <1>2, <1>3
  <2> QED  BY ONLY <2>1, MinOfTwo
<1>7. Window(r) = a .. b
  BY DEF Window
<1> HIDE DEF a, b
<1>8. a \in Int /\ a <= r.t0 /\ b \in Int /\ r.t1 <= b
  BY <1>1, <1>2, <1>3, <1>4, <1>5, <1>6
<1>9. a \in Hours /\ b \in Hours /\ a <= b
  BY <1>1, <1>2, <1>3, <1>5, <1>6, <1>8
<1> QED
  BY <1>7, <1>8, <1>9

\* The hours of a series follow each other, and it has an entry for each of them.
SeriesOk(s) ==
    /\ s = [group |-> s.group, hours |-> s.hours, known |-> s.known, data |-> s.data]
    /\ s.group \in Groups /\ s.known \subseteq s.hours
    /\ \E a, b \in Hours : a <= b /\ s.hours = a .. b
    /\ s.data \in [Kinds \X s.hours -> Entries]
    /\ \A c \in Kinds \X s.hours : EntryOk(s.hours, s.known, s.data[c])

\* As it has been read, of rows that were in the table.
Fresh(s) ==
    \A c \in Kinds \X s.hours :
        LET r == s.data[c].row
        IN  /\ r \in Rows /\ s.data[c] = Entry(s.group, r)
            /\ r # NoRow => HasRows(<<s.group, c[1], c[2]>>)
            /\ r # NoRow /\ r.level = "ok" => r.fmis \notin 1 .. 3

\* The hours of a series.
LEMMA HoursTyped ==
  ASSUME NEW s, SeriesOk(s)
  PROVE  /\ s.hours \subseteq Hours /\ s.hours \subseteq Int
         /\ Max(s.hours) \in s.hours
         /\ \A t \in s.hours : t # Min(s.hours) => t - 1 \in s.hours
<1>1. PICK a, b \in Hours : a <= b /\ s.hours = a .. b
  BY DEF SeriesOk
<1>2. Hours = 0 .. LastHour /\ LastHour \in Nat /\ a \in 0 .. LastHour /\ b \in 0 .. LastHour
  BY TimeAssumption DEF Hours
<1>3. s.hours \subseteq 0 .. LastHour /\ b \in s.hours
  BY <1>1, <1>2
<1>4. Max(s.hours) \in s.hours
  <2>1. 0 \in Int /\ LastHour \in Int /\ s.hours \in SUBSET (0 .. LastHour) /\ s.hours # {}
    BY <1>2, <1>3
  <2> QED  BY ONLY <2>1, MaxOfSome
<1>5. Min(s.hours) = a
  <2>1. Min(s.hours) \in s.hours /\ \A t \in s.hours : Min(s.hours) <= t
    <3>1. 0 \in Int /\ s.hours \in SUBSET Int /\ s.hours # {} /\ \A t \in s.hours : 0 <= t
      BY <1>2, <1>3
    <3> QED  BY ONLY <3>1, MinOfSome
  <2>2. a \in s.hours /\ \A t \in s.hours : t \in Int /\ a <= t
    BY <1>1, <1>2
  <2> QED  BY <2>1, <2>2
<1> QED
  BY <1>1, <1>2, <1>3, <1>4, <1>5

\* What TablesAssumption says of the tables at first.
TableOk ==
    /\ table \in [Cells -> Rows]
    /\ \A c \in Cells : table[c] # NoRow =>
            /\ HasRows(c)
            /\ table[c].level = "ok" => table[c].fmis \notin 1 .. 3
            /\ table[c].ftime = 0 => table[c].corrected.zeroed = {}

\* findSeriesData.
LEMMA SeriesRead ==
  ASSUME TableOk, ut0 \in Starts, NEW r, RangeOk(r), WithinLimits(r), NEW s, s = FindSeriesData(r)
  PROVE  /\ SeriesOk(s) /\ Fresh(s) /\ s.group = r.group /\ s.hours = Window(r)
         /\ s.group = "UU" => s.known = {t \in s.hours : TAKnown(t)}
         /\ \A c \in Kinds \X s.hours : HasRows(<<s.group, c[1], c[2]>>) => s.data[c].row = table[<<s.group, c[1], c[2]>>]
<1> DEFINE w == Window(r)
           Read1(c) == IF c[1] # "par" /\ r.group \notin HasMinMax THEN NoRow ELSE table[<<r.group, c[1], c[2]>>]
<1>1. PICK a, b \in Hours : a <= b /\ w = a .. b
  BY WindowTyped
<1>2. w \subseteq Hours
  BY <1>1, TimeAssumption DEF Hours
<1> HIDE DEF w
<1>3. s = [group |-> r.group, hours |-> w,
           known |-> IF r.group = "UU" THEN {t \in w : TAKnown(t)} ELSE w,
           data |-> [c \in Kinds \X w |-> Entry(r.group, Read1(c))]]
  <2>1. \A c \in Kinds \X w : Entry(r.group, Read1(c)) =
            (IF c[1] # "par" /\ r.group \notin HasMinMax THEN Entry(r.group, NoRow) ELSE Entry(r.group, table[<<r.group, c[1], c[2]>>]))
    OBVIOUS
  <2> HIDE DEF Read1
  <2> QED  BY <2>1 DEF FindSeriesData, w
<1>4. r.group \in Groups
  BY DEF RangeOk
<1>5. ASSUME NEW c \in Kinds \X w
      PROVE  /\ Read1(c) \in Rows /\ (Read1(c) # NoRow => HasRows(<<r.group, c[1], c[2]>>))
             /\ Read1(c) # NoRow /\ Read1(c).level = "ok" => Read1(c).fmis \notin 1 .. 3
             /\ HasRows(<<r.group, c[1], c[2]>>) => Read1(c) = table[<<r.group, c[1], c[2]>>]
  <2> DEFINE d == <<r.group, c[1], c[2]>>
  <2>1. d \in Cells /\ d[2] = c[1] /\ d[1] = r.group
    BY <1>2, <1>4 DEF Cells
  <2>2. table[d] \in Rows /\ NoRow \in Rows /\ (table[d] # NoRow => HasRows(d) /\ (table[d].level = "ok" => table[d].fmis \notin 1 .. 3))
    BY <2>1 DEF TableOk, Rows
  <2>3. HasRows(d) <=> c[1] = "par" \/ r.group \in HasMinMax
    BY <2>1 DEF HasRows
  <2> QED  BY <2>2, <2>3
<1> HIDE DEF Read1
<1>6. \A c \in Kinds \X w : /\ EntryOk(s.hours, s.known, Entry(r.group, Read1(c)))
                            /\ Entry(r.group, Read1(c)).row = Read1(c)
  BY <1>5, EntryTyped
<1>7. \A c \in Kinds \X w : s.data[c] = Entry(r.group, Read1(c)) /\ s.data[c].row = Read1(c)
  <2>1. s.data = [c \in Kinds \X w |-> Entry(r.group, Read1(c))]
    BY <1>3
  <2> QED  BY <1>6, <2>1
<1>8. s.hours = w /\ s.group = r.group /\ s.known \subseteq w /\ (s.group = "UU" => s.known = {t \in s.hours : TAKnown(t)})
  BY <1>3
<1>9. s.data \in [Kinds \X w -> Entries]
  BY <1>3, <1>6 DEF EntryOk
<1>10. s = [group |-> s.group, hours |-> s.hours, known |-> s.known, data |-> s.data]
  BY <1>3
<1>11. SeriesOk(s)
  BY <1>1, <1>4, <1>6, <1>7, <1>8, <1>9, <1>10 DEF SeriesOk
<1>12. Fresh(s)
  BY <1>5, <1>7, <1>8 DEF Fresh
<1> QED
  BY <1>5, <1>7, <1>8, <1>11, <1>12 DEF w

-----------------------------------------------------------------------------
(* What is done to a series, one after the other.                          *)

\* An algorithm of the interpolation, from s to u.
Stage(s, u) ==
    /\ SeriesOk(u) /\ u.group = s.group /\ u.hours = s.hours /\ u.known = s.known
    /\ \A c \in Kinds \X s.hours : Better(s.data[c], u.data[c])

\* Doing nothing is a stage.
LEMMA StageSame ==
  ASSUME NEW s, SeriesOk(s) PROVE Stage(s, s)
BY DEF Stage, Better

\* So are two of them, one after the other.
LEMMA StageAgain ==
  ASSUME NEW s, SeriesOk(s), NEW u, Stage(s, u), NEW v, Stage(u, v) PROVE Stage(s, v)
<1>1. SeriesOk(v) /\ v.group = s.group /\ v.hours = s.hours /\ v.known = s.known /\ u.hours = s.hours
  BY DEF Stage
<1>2. ASSUME NEW c \in Kinds \X s.hours PROVE Better(s.data[c], v.data[c])
  <2>1. s.data[c] \in Entries /\ u.data[c] \in Entries /\ v.data[c] \in Entries
    BY <1>1 DEF Stage, SeriesOk
  <2>2. Better(s.data[c], u.data[c]) /\ Better(u.data[c], v.data[c])
    BY <1>1 DEF Stage
  <2> QED  BY <2>1, <2>2, BetterAgain
<1> QED
  BY <1>1, <1>2 DEF Stage

\* A series with other entries.
LEMMA SeriesWith ==
  ASSUME NEW s, SeriesOk(s), NEW data \in [Kinds \X s.hours -> Entries],
         \A c \in Kinds \X s.hours : EntryOk(s.hours, s.known, data[c]), NEW u, u = [s EXCEPT !.data = data]
  PROVE  SeriesOk(u) /\ u.group = s.group /\ u.hours = s.hours /\ u.known = s.known /\ u.data = data
<1>1. s = [group |-> s.group, hours |-> s.hours, known |-> s.known, data |-> s.data]
  BY DEF SeriesOk
<1>2. u = [group |-> s.group, hours |-> s.hours, known |-> s.known, data |-> data]
  BY <1>1
<1>3. u.group = s.group /\ u.hours = s.hours /\ u.known = s.known /\ u.data = data
  BY <1>2
<1>4. u = [group |-> u.group, hours |-> u.hours, known |-> u.known, data |-> u.data]
  BY <1>2
<1> QED
  BY <1>3, <1>4 DEF SeriesOk

\* A new value: what a humidity comes from are hours of the series.
NewsOk(s, n) ==
    /\ n.q \in GOOD .. FAILED /\ n.value \in Values
    /\ n.value.from \subseteq Kinds \X s.hours /\ n.value.zeroed = {}

\* Setting those that need it is a stage (GapUpdate::update, asValue and toValue).
LEMMA SetBetter ==
  ASSUME NEW s, SeriesOk(s), NEW news, DOMAIN news \subseteq Kinds \X s.hours,
         \A c \in DOMAIN news : s.data[c].q \in Needed /\ NewsOk(s, news[c]),
         NEW u, u = Set(s, news)
  PROVE  /\ Stage(s, u)
         /\ \A c \in DOMAIN news : u.data[c].q <= news[c].q
         /\ \A c \in (Kinds \X s.hours) \ DOMAIN news : u.data[c] = s.data[c]
<1> DEFINE AsValue(t, v) == IF v = None THEN v ELSE [v EXCEPT !.zeroed = ({t} \union {p[2] : p \in v.from}) \ s.known]
           New(c) == IF c \in DOMAIN news THEN Update(s.data[c], news[c].q, AsValue(c[2], news[c].value)) ELSE s.data[c]
<1>1. DOMAIN s.data = Kinds \X s.hours /\ \A c \in Kinds \X s.hours : s.data[c] \in Entries /\ EntryOk(s.hours, s.known, s.data[c])
  BY DEF SeriesOk
<1>2. u = [s EXCEPT !.data = [c \in Kinds \X s.hours |-> New(c)]]
  <2>1. u = [s EXCEPT !.data = [c \in DOMAIN s.data |-> New(c)]]
    BY DEF Set
  <2> HIDE DEF New
  <2> QED  BY <1>1, <2>1
<1>3. ASSUME NEW c \in DOMAIN news
      PROVE  AsValue(c[2], news[c].value) \in Values /\ AsValue(c[2], news[c].value).zeroed \subseteq s.hours \ s.known
  <2> DEFINE v == news[c].value
  <2>1. v \in Values /\ v.from \subseteq Kinds \X s.hours /\ v.zeroed = {}
    BY DEF NewsOk
  <2>2. c[2] \in s.hours /\ s.hours \subseteq Hours
    BY HoursTyped
  <2> DEFINE z == ({c[2]} \union {p[2] : p \in v.from}) \ s.known
  <2>3. z \subseteq s.hours \ s.known
    BY <2>1, <2>2
  <2>4. CASE v = None
    BY <2>1, <2>4
  <2>5. CASE v # None
    <3>1. AsValue(c[2], v) = [v EXCEPT !.zeroed = z]
      BY <2>5
    <3> HIDE DEF z, v
    <3>2. [v EXCEPT !.zeroed = z] \in Values /\ [v EXCEPT !.zeroed = z].zeroed = z
      BY <2>1, <2>2, <2>3 DEF Values
    <3> QED  BY <2>3, <3>1, <3>2 DEF v
  <2> QED  BY <2>4, <2>5
<1> HIDE DEF AsValue
<1>4. ASSUME NEW c \in Kinds \X s.hours
      PROVE  EntryOk(s.hours, s.known, New(c)) /\ Better(s.data[c], New(c)) /\ (c \in DOMAIN news => New(c).q <= news[c].q)
  <2>1. CASE c \in DOMAIN news
    <3>1. s.data[c].q \in Needed /\ news[c].q \in GOOD .. FAILED
      BY <2>1 DEF NewsOk
    <3>2. New(c) = Update(s.data[c], news[c].q, AsValue(c[2], news[c].value))
      BY <2>1
    <3> HIDE DEF New
    <3> QED  BY <1>1, <1>3, <2>1, <3>1, <3>2, UpdateBetter
  <2>2. CASE c \notin DOMAIN news
    BY <1>1, <2>2 DEF Better
  <2> QED  BY <2>1, <2>2
<1>5. \A c \in (Kinds \X s.hours) \ DOMAIN news : New(c) = s.data[c]
  OBVIOUS
<1> HIDE DEF New
<1> DEFINE data == [c \in Kinds \X s.hours |-> New(c)]
<1>6. data \in [Kinds \X s.hours -> Entries] /\ \A c \in Kinds \X s.hours : data[c] = New(c)
  BY <1>4 DEF EntryOk
<1> HIDE DEF data
<1>7. SeriesOk(u) /\ u.group = s.group /\ u.hours = s.hours /\ u.known = s.known /\ u.data = data
  <2>1. \A c \in Kinds \X s.hours : EntryOk(s.hours, s.known, data[c])
    BY <1>4, <1>6
  <2>2. u = [s EXCEPT !.data = data] /\ SeriesOk(s)
    BY <1>2 DEF data
  <2> QED  BY ONLY <1>6, <2>1, <2>2, SeriesWith
<1> QED
  BY <1>4, <1>5, <1>6, <1>7 DEF Stage

\* discardUnreliableMinMax: only minima and maxima, behind an hour whose own are not known.
Discarded(s, c, f) ==
    /\ c[1] # "par" /\ c[2] # Min(s.hours)
    /\ \E k \in {"min", "max"} : ~(SeenQuality(s, k, c[2] - 1) < FAILED)
    /\ s.data[c].q \notin {MISSING, NO_ROW}
    /\ f.q = DISCARDED /\ f.row = s.data[c].row /\ f.isNew = s.data[c].isNew

\* It does nothing else.
LEMMA DiscardStage ==
  ASSUME NEW s, SeriesOk(s), NEW d, d = DiscardUnreliableMinMax(s)
  PROVE  /\ SeriesOk(d) /\ d.group = s.group /\ d.hours = s.hours /\ d.known = s.known
         /\ \A c \in Kinds \X s.hours : d.data[c] = s.data[c] \/ Discarded(s, c, d.data[c])
<1> DEFINE Reliable(t) == SeenQuality(s, "min", t) < FAILED /\ SeenQuality(s, "max", t) < FAILED
           Doubtful(t) == t # Min(s.hours) /\ ~Reliable(t - 1)
           New(c) == IF c[1] # "par" /\ Doubtful(c[2]) THEN Discard(s.data[c]) ELSE s.data[c]
<1>1. DOMAIN s.data = Kinds \X s.hours /\ \A c \in Kinds \X s.hours : s.data[c] \in Entries /\ EntryOk(s.hours, s.known, s.data[c])
  BY DEF SeriesOk
<1>2. d = [s EXCEPT !.data = [c \in Kinds \X s.hours |-> New(c)]]
  <2>1. d = [s EXCEPT !.data = [c \in DOMAIN s.data |-> New(c)]]
    BY DEF DiscardUnreliableMinMax
  <2> HIDE DEF New
  <2> QED  BY <1>1, <2>1
<1>3. ASSUME NEW c \in Kinds \X s.hours
      PROVE  EntryOk(s.hours, s.known, New(c)) /\ (New(c) = s.data[c] \/ Discarded(s, c, New(c)))
  <2>1. CASE ~(c[1] # "par" /\ Doubtful(c[2])) \/ s.data[c].isNew \/ s.data[c].q \in {MISSING, NO_ROW}
    <3>1. New(c) = s.data[c]
      BY <2>1 DEF Discard
    <3> HIDE DEF New
    <3> QED  BY <1>1, <3>1
  <2>2. CASE c[1] # "par" /\ Doubtful(c[2]) /\ ~s.data[c].isNew /\ s.data[c].q \notin {MISSING, NO_ROW}
    <3> DEFINE e == s.data[c]
    <3>1. New(c) = [e EXCEPT !.q = DISCARDED, !.updated = TRUE, !.usable = FALSE]
      BY <2>2 DEF Discard
    <3>2. \E k \in {"min", "max"} : ~(SeenQuality(s, k, c[2] - 1) < FAILED)
      BY <2>2
    <3> HIDE DEF New, e
    <3>3. e \in Entries /\ EntryOk(s.hours, s.known, e)
      BY <1>1 DEF e
    <3>4. /\ e = [row |-> e.row, isNew |-> e.isNew, q |-> e.q, value |-> e.value, usable |-> e.usable, updated |-> e.updated]
          /\ e.row \in Rows /\ e.isNew \in BOOLEAN /\ e.value \in Values
      BY <3>3 DEF Entries
    <3>5. New(c) = [row |-> e.row, isNew |-> e.isNew, q |-> DISCARDED, value |-> e.value, usable |-> FALSE, updated |-> TRUE]
      BY ONLY <3>1, <3>4
    <3>6. /\ New(c) \in Entries /\ New(c).row = e.row /\ New(c).isNew = e.isNew /\ New(c).q = DISCARDED /\ ~New(c).usable
      BY <3>4, <3>5, Numbers DEF Entries
    <3>7. EntryOk(s.hours, s.known, New(c))
      BY <3>3, <3>6, Numbers DEF EntryOk
    <3> QED  BY <2>2, <3>2, <3>6, <3>7 DEF Discarded, e
  <2> QED  BY <2>1, <2>2
<1> HIDE DEF New
<1> DEFINE data == [c \in Kinds \X s.hours |-> New(c)]
<1>4. data \in [Kinds \X s.hours -> Entries] /\ \A c \in Kinds \X s.hours : data[c] = New(c)
  BY <1>3 DEF EntryOk
<1> HIDE DEF data
<1>5. SeriesOk(d) /\ d.group = s.group /\ d.hours = s.hours /\ d.known = s.known /\ d.data = data
  <2>1. \A c \in Kinds \X s.hours : EntryOk(s.hours, s.known, data[c])
    BY <1>3, <1>4
  <2>2. d = [s EXCEPT !.data = data]
    BY <1>2 DEF data
  <2> QED  BY <1>4, <2>1, <2>2, SeriesWith
<1> QED
  BY <1>3, <1>4, <1>5

\* What a stage leaves: an entry is never worse than before, and one that needs nothing stays.
LEMMA StageKeeps ==
  ASSUME NEW s, SeriesOk(s), NEW u, Stage(s, u), NEW c \in Kinds \X s.hours
  PROVE  /\ s.data[c] \in Entries /\ u.data[c] \in Entries /\ u.data[c].q <= s.data[c].q
         /\ s.data[c].q \notin Needed => u.data[c] = s.data[c]
<1>1. s.data[c] \in Entries /\ u.data[c] \in Entries /\ Better(s.data[c], u.data[c])
  BY DEF Stage, SeriesOk
<1>2. s.data[c].q \in 0 .. 7 /\ u.data[c].q \in 0 .. 7
  BY <1>1 DEF Entries
<1> QED
  BY <1>1, <1>2 DEF Better

\* A value computed from hours of the series is one.
LEMMA NewValue ==
  ASSUME NEW s, SeriesOk(s), NEW q \in GOOD .. FAILED, NEW by \in Methods, NEW from, from \subseteq Kinds \X s.hours
  PROVE  NewsOk(s, [q |-> q, value |-> Value(by, from)])
<1>1. from \in SUBSET (Kinds \X Hours)
  BY HoursTyped
<1>2. Value(by, from) \in Values /\ Value(by, from).from = from /\ Value(by, from).zeroed = {}
  BY <1>1, ValueTyped
<1> QED
  BY <1>2 DEF NewsOk

\* Giving up what needs a value is a stage.
LEMMA FailStage ==
  ASSUME NEW s, SeriesOk(s), NEW cells, cells \subseteq Kinds \X s.hours, \A c \in cells : s.data[c].q \in Needed,
         NEW u, u = Set(s, Fail(cells))
  PROVE  Stage(s, u) /\ \A c \in cells : u.data[c].q <= FAILED
<1> DEFINE news == Fail(cells)
<1>1. DOMAIN news = cells /\ \A c \in cells : news[c] = [q |-> FAILED, value |-> None]
  BY DEF Fail
<1>2. NewsOk(s, [q |-> FAILED, value |-> None])
  <2>1. FAILED \in GOOD .. FAILED /\ "none" \in Methods /\ {} \subseteq Kinds \X s.hours
    BY Numbers DEF Methods
  <2> QED  BY <2>1, NewValue DEF None
<1>3. u = Set(s, news)
  OBVIOUS
<1> HIDE DEF news
<1>4. DOMAIN news \subseteq Kinds \X s.hours /\ \A c \in DOMAIN news : s.data[c].q \in Needed /\ NewsOk(s, news[c])
  BY <1>1, <1>2
<1>5. Stage(s, u) /\ \A c \in DOMAIN news : u.data[c].q <= news[c].q
  BY <1>3, <1>4, SetBetter
<1>6. \A c \in cells : news[c].q = FAILED
  BY <1>1
<1> QED
  BY <1>1, <1>5, <1>6

\* So is replacing it from another type.
LEMMA ReplaceStage ==
  ASSUME NEW s, SeriesOk(s), NEW u, u = ReplaceFromOtherTypeid(s)
  PROVE  Stage(s, u)
<1> DEFINE New(c) == IF /\ NeedsInterpolation(s, c[1], c[2]) /\ <<s.group, c[1], c[2]>> \in OtherTypes
                     THEN Update(s.data[c], GOOD, Value("other", {})) ELSE s.data[c]
<1>1. DOMAIN s.data = Kinds \X s.hours /\ \A c \in Kinds \X s.hours : s.data[c] \in Entries /\ EntryOk(s.hours, s.known, s.data[c])
  BY DEF SeriesOk
<1>2. u = [s EXCEPT !.data = [c \in Kinds \X s.hours |-> New(c)]]
  <2>1. u = [s EXCEPT !.data = [c \in DOMAIN s.data |-> New(c)]]
    BY DEF ReplaceFromOtherTypeid
  <2> HIDE DEF New
  <2> QED  BY <1>1, <2>1
<1>3. GOOD \in GOOD .. FAILED /\ Value("other", {}) \in Values /\ Value("other", {}).zeroed = {}
  <2>1. "other" \in Methods /\ {} \in SUBSET (Kinds \X Hours)
    BY DEF Methods
  <2> QED  BY <2>1, ValueTyped, Numbers
<1>4. ASSUME NEW c \in Kinds \X s.hours
      PROVE  EntryOk(s.hours, s.known, New(c)) /\ Better(s.data[c], New(c))
  <2>1. CASE New(c) = s.data[c]
    BY <1>1, <2>1 DEF Better
  <2>2. CASE New(c) # s.data[c]
    <3>1. NeedsInterpolation(s, c[1], c[2]) /\ New(c) = Update(s.data[c], GOOD, Value("other", {}))
      BY <2>2
    <3>2. c = <<c[1], c[2]>>
      OBVIOUS
    <3>3. s.data[c].q \in Needed
      BY <3>1, <3>2 DEF NeedsInterpolation, SeenQuality, Needed
    <3> HIDE DEF New
    <3> QED  BY <1>1, <1>3, <3>1, <3>3, UpdateBetter
  <2> QED  BY <2>1, <2>2
<1> HIDE DEF New
<1> DEFINE data == [c \in Kinds \X s.hours |-> New(c)]
<1>5. data \in [Kinds \X s.hours -> Entries] /\ \A c \in Kinds \X s.hours : data[c] = New(c)
  BY <1>4 DEF EntryOk
<1>6. u = [s EXCEPT !.data = data]
  BY <1>2
<1> HIDE DEF data
<1>7. SeriesOk(u) /\ u.group = s.group /\ u.hours = s.hours /\ u.known = s.known /\ u.data = data
  <2>1. SeriesOk(s) /\ \A c \in Kinds \X s.hours : EntryOk(s.hours, s.known, data[c])
    BY <1>4, <1>5
  <2> QED  BY ONLY <1>5, <1>6, <2>1, SeriesWith
<1> QED
  BY <1>4, <1>5, <1>7 DEF Stage

\* And computing it from minima and maxima.
LEMMA MinMaxStage ==
  ASSUME NEW s, SeriesOk(s), NEW u, u = InterpolateFromMinMax(s)
  PROVE  Stage(s, u)
<1> DEFINE last == Max(s.hours)
           Around(k, t) == {<<k, h>> : h \in {t, t + 1} \cap Points(s, k)}
           Needs(t) == NeedsInterpolation(s, "par", t)
           between == {t \in s.hours \ {last} : Needs(t) /\ Around("min", t) # {} /\ Around("max", t) # {}}
           news == [c \in {"par"} \X between |->
                        [q |-> BAD, value |-> Value("minmax", Around("min", c[2]) \union Around("max", c[2]))]]
           filled == Set(s, news)
<1>1. u = IF Needs(last) THEN Set(filled, Fail({<<"par", last>>})) ELSE filled
  BY DEF InterpolateFromMinMax
<1>2. last \in s.hours
  BY HoursTyped
<1>3. \A t \in s.hours : Needs(t) => s.data[<<"par", t>>].q \in Needed
  BY DEF NeedsInterpolation, SeenQuality, Needed
<1>4. \A t \in between : t \in s.hours /\ t # last /\ Needs(t)
  OBVIOUS
<1>5. \A t : Around("min", t) \union Around("max", t) \subseteq Kinds \X s.hours
  BY DEF Points, Kinds
<1>6. DOMAIN news = {"par"} \X between /\ \A c \in {"par"} \X between :
        news[c] = [q |-> BAD, value |-> Value("minmax", Around("min", c[2]) \union Around("max", c[2]))]
  OBVIOUS
<1> HIDE DEF last, Around, Needs, between, news
<1>7. DOMAIN news \subseteq Kinds \X s.hours
  BY <1>4, <1>6 DEF Kinds
<1>8. \A c \in DOMAIN news : s.data[c].q \in Needed /\ NewsOk(s, news[c])
  <2> TAKE c \in DOMAIN news
  <2>1. c = <<"par", c[2]>> /\ c[2] \in between
    BY <1>6
  <2>2. s.data[c].q \in Needed
    BY <1>3, <1>4, <2>1
  <2>3. BAD \in GOOD .. FAILED /\ "minmax" \in Methods
    BY Numbers DEF Methods
  <2>4. news[c] = [q |-> BAD, value |-> Value("minmax", Around("min", c[2]) \union Around("max", c[2]))]
    BY <1>6
  <2>5. NewsOk(s, [q |-> BAD, value |-> Value("minmax", Around("min", c[2]) \union Around("max", c[2]))])
    BY <1>5, <2>3, NewValue
  <2> QED  BY <2>2, <2>4, <2>5
<1> HIDE DEF filled
<1>9. Stage(s, filled) /\ \A c \in (Kinds \X s.hours) \ DOMAIN news : filled.data[c] = s.data[c]
  BY <1>7, <1>8, SetBetter DEF filled
<1>10. CASE ~Needs(last)
  BY <1>1, <1>9, <1>10
<1>11. CASE Needs(last)
  <2>1. SeriesOk(filled) /\ filled.hours = s.hours
    BY <1>9 DEF Stage
  <2>2. <<"par", last>> \in (Kinds \X s.hours) \ DOMAIN news
    BY <1>2, <1>4, <1>6 DEF Kinds
  <2>3. filled.data[<<"par", last>>].q \in Needed
    BY <1>2, <1>3, <1>9, <1>11, <2>2
  <2>4. u = Set(filled, Fail({<<"par", last>>}))
    BY <1>1, <1>11
  <2>5. {<<"par", last>>} \subseteq Kinds \X filled.hours /\ \A c \in {<<"par", last>>} : filled.data[c].q \in Needed
    BY <2>1, <2>2, <2>3
  <2>6. Stage(filled, u)
    BY ONLY <2>1, <2>4, <2>5, FailStage
  <2> QED  BY <1>9, <2>6, StageAgain
<1> QED
  BY <1>10, <1>11

\* The points of a series, and those that a curve goes through.
LEMMA PointsTyped ==
  ASSUME NEW s, SeriesOk(s), NEW k, NEW t
  PROVE  Points(s, k) \subseteq s.hours /\ Nearest(Points(s, k), t) \subseteq s.hours
BY DEF Points, Nearest

\* Between two values nothing that needs one is left without.
LEMMA NeighboursStage ==
  ASSUME NEW s, SeriesOk(s), NEW u, u = InterpolateFromNeighbors(s)
  PROVE  /\ Stage(s, u)
         /\ \A t \in s.hours :
                /\ s.data[<<"par", t>>].q \in Needed
                /\ Before(Points(s, "par"), t) # {} /\ Behind(Points(s, "par"), t) # {}
                => u.data[<<"par", t>>].q <= FAILED
<1> DEFINE points == Points(s, "par")
           BeforeGap(t) == Max(Before(points, t))
           AfterGap(t) == Min(Behind(points, t))
           AtStartOrEnd(t) == t = BeforeGap(t) + 1 \/ t = AfterGap(t) - 1
           Long(t) == AfterGap(t) - BeforeGap(t) - 1 > LongGap
           gap == GapHours(s)
           Method(t) ==
                CASE Long(t) /\ AtStartOrEnd(t) /\ CanUseAkima(points, t) -> "akima"
                  [] ~Long(t) /\ t \in SimpleInterpolations(s) -> "neighbours"
                  [] ~Long(t) /\ t \notin SimpleInterpolations(s) /\ CanUseAkima(points, t) -> "akima"
                  [] OTHER -> "none"
           NewQuality(t) ==
                CASE Method(t) = "none" -> FAILED
                  [] Method(t) # "none" /\ AtStartOrEnd(t) /\ ~Long(t) -> GOOD
                  [] OTHER -> BAD
           From(t) ==
                CASE Method(t) = "none" -> {}
                  [] Method(t) = "neighbours" -> {BeforeGap(t), AfterGap(t)}
                  [] OTHER -> Nearest(points, t)
           news == [c \in {"par"} \X gap |->
                        [q |-> NewQuality(c[2]), value |-> Value(Method(c[2]), {"par"} \X From(c[2]))]]
<1>1. u = Set(s, news)
  BY DEF InterpolateFromNeighbors
<1>2. \A t \in gap : /\ t \in s.hours /\ s.data[<<"par", t>>].q \in Needed
                     /\ Before(points, t) # {} /\ Behind(points, t) # {}
  BY DEF GapHours, NeedsInterpolation, SeenQuality, Needed
<1>3. \A t \in s.hours \ points : (/\ s.data[<<"par", t>>].q \in Needed
                                   /\ Before(points, t) # {} /\ Behind(points, t) # {}) => t \in gap
  BY DEF GapHours, NeedsInterpolation, SeenQuality, Needed
<1>4. \A t \in points : s.data[<<"par", t>>].q < FAILED
  <2> TAKE t \in points
  <2>1. t \in s.hours /\ s.data[<<"par", t>>].usable
    BY DEF Points, Usable
  <2>2. <<"par", t>> \in Kinds \X s.hours
    BY <2>1 DEF Kinds
  <2>3. EntryOk(s.hours, s.known, s.data[<<"par", t>>])
    BY <2>2 DEF SeriesOk
  <2> QED  BY <2>1, <2>3 DEF EntryOk
<1>5. points \subseteq s.hours /\ s.hours \subseteq Hours /\ Hours = 0 .. LastHour /\ LastHour \in Nat
  BY PointsTyped, HoursTyped, TimeAssumption DEF Hours
<1>6. ASSUME NEW t \in gap PROVE BeforeGap(t) \in s.hours /\ AfterGap(t) \in s.hours
  <2>0. Before(points, t) # {} /\ Behind(points, t) # {}
    BY <1>2
  <2> HIDE DEF points, gap
  <2>1. /\ Before(points, t) \in SUBSET (0 .. LastHour) /\ Before(points, t) # {} /\ Before(points, t) \subseteq s.hours
        /\ Behind(points, t) \in SUBSET Int /\ Behind(points, t) # {} /\ Behind(points, t) \subseteq s.hours
        /\ \A h \in Behind(points, t) : 0 <= h
        /\ 0 \in Int /\ LastHour \in Int
    BY <1>5, <2>0 DEF Before, Behind
  <2>2. Max(Before(points, t)) \in Before(points, t)
    BY ONLY <2>1, MaxOfSome
  <2>3. Min(Behind(points, t)) \in Behind(points, t)
    BY ONLY <2>1, MinOfSome
  <2> QED  BY <2>1, <2>2, <2>3
<1>7. ASSUME NEW t \in gap
      PROVE  Method(t) \in Methods /\ NewQuality(t) \in GOOD .. FAILED /\ {"par"} \X From(t) \subseteq Kinds \X s.hours
  <2>1. Method(t) \in {"akima", "neighbours", "none"}
    OBVIOUS
  <2>2. Nearest(points, t) \subseteq s.hours
    BY PointsTyped
  <2> HIDE DEF Method
  <2>3. NewQuality(t) \in GOOD .. FAILED
    BY Numbers
  <2>4. From(t) \subseteq s.hours
    <3> HIDE DEF BeforeGap, AfterGap, points
    <3>1. CASE Method(t) = "none"
      BY <3>1
    <3>2. CASE Method(t) = "neighbours"
      <4>1. From(t) = {BeforeGap(t), AfterGap(t)}
        BY <3>2
      <4> HIDE DEF From
      <4> QED  BY <1>6, <4>1
    <3>3. CASE Method(t) # "neighbours" /\ Method(t) # "none"
      BY <2>2, <3>3
    <3> QED  BY <3>1, <3>2, <3>3
  <2> HIDE DEF From, NewQuality
  <2> QED  BY <2>1, <2>3, <2>4 DEF Methods, Kinds
<1>8. DOMAIN news = {"par"} \X gap /\ \A c \in {"par"} \X gap :
        news[c] = [q |-> NewQuality(c[2]), value |-> Value(Method(c[2]), {"par"} \X From(c[2]))]
  <2> HIDE DEF NewQuality, Method, From, gap
  <2> QED  OBVIOUS
<1> HIDE DEF points, BeforeGap, AfterGap, AtStartOrEnd, Long, gap, Method, NewQuality, From, news
<1>9. DOMAIN news \subseteq Kinds \X s.hours
  BY <1>2, <1>8 DEF Kinds
<1>10. \A c \in DOMAIN news : s.data[c].q \in Needed /\ NewsOk(s, news[c])
  <2> TAKE c \in DOMAIN news
  <2>1. c = <<"par", c[2]>> /\ c[2] \in gap
    BY <1>8
  <2>2. s.data[c].q \in Needed
    BY <1>2, <2>1
  <2>3. Method(c[2]) \in Methods /\ NewQuality(c[2]) \in GOOD .. FAILED /\ {"par"} \X From(c[2]) \subseteq Kinds \X s.hours
    BY <1>7, <2>1
  <2>4. NewsOk(s, [q |-> NewQuality(c[2]), value |-> Value(Method(c[2]), {"par"} \X From(c[2]))])
    BY <2>3, NewValue
  <2> QED  BY <1>8, <2>2, <2>4
<1>11. Stage(s, u) /\ \A c \in DOMAIN news : u.data[c].q <= news[c].q
  BY <1>1, <1>9, <1>10, SetBetter
<1>12. ASSUME NEW t \in s.hours, s.data[<<"par", t>>].q \in Needed,
              Before(points, t) # {}, Behind(points, t) # {}
       PROVE  u.data[<<"par", t>>].q <= FAILED
  <2>1. <<"par", t>> \in Kinds \X s.hours
    BY DEF Kinds
  <2>2. /\ u.data[<<"par", t>>] \in Entries /\ s.data[<<"par", t>>] \in Entries
        /\ u.data[<<"par", t>>].q <= s.data[<<"par", t>>].q
    BY <1>11, <2>1, StageKeeps
  <2>3. u.data[<<"par", t>>].q \in Int /\ s.data[<<"par", t>>].q \in Int
    BY <2>2 DEF Entries
  <2>4. CASE t \in points
    BY <1>4, <2>2, <2>3, <2>4, Numbers
  <2>5. CASE t \notin points
    <3>1. t \in gap
      BY <1>3, <1>12, <2>5
    <3>2. <<"par", t>> \in DOMAIN news /\ news[<<"par", t>>].q = NewQuality(t)
      <4> DEFINE c == <<"par", t>>
      <4>1. c \in {"par"} \X gap /\ c[2] = t
        BY <3>1
      <4> HIDE DEF c
      <4>2. c \in DOMAIN news /\ news[c] = [q |-> NewQuality(c[2]), value |-> Value(Method(c[2]), {"par"} \X From(c[2]))]
        BY <1>8, <4>1
      <4>3. news[c].q = NewQuality(t)
        BY <4>1, <4>2
      <4> QED  BY <4>2, <4>3 DEF c
    <3>3. NewQuality(t) \in 1 .. 3
      BY <1>7, <3>1, Numbers
    <3> QED  BY <1>11, <2>3, <3>2, <3>3, Numbers
  <2> QED  BY <2>4, <2>5
<1> QED
  BY <1>11, <1>12 DEF points

\* Every minimum and maximum that needs a value is given one, or none and the blame.
LEMMA ReconstructStage ==
  ASSUME NEW s, SeriesOk(s), NEW u, u = ReconstructMinMax(s)
  PROVE  /\ Stage(s, u)
         /\ \A c \in Kinds \X s.hours : c[1] # "par" /\ s.data[c].q \in Needed => u.data[c].q <= FAILED
<1> DEFINE points == {t \in s.hours : SeenQuality(s, "par", t) < FAILED}
           Possible(t) ==
                /\ {t - 1, t} \subseteq points /\ Behind(points, t) # {}
                /\ Cardinality(points) >= AkimaPoints
           Spread(k) == {t \in s.hours \ points : ~NeedsInterpolation(s, k, t)}
           Own(k, t) == IF s.data[<<k, t>>].q = DISCARDED THEN {t} ELSE {}
           From(k, t) == ({"par"} \X Nearest(points, t))
                            \union ({k} \X ((Spread(k) \ {t}) \union Own(k, t)))
                            \union (IF CanUseAkima(Points(s, k), t) THEN {k} \X Nearest(Points(s, k), t) ELSE {})
           needed == {c \in DOMAIN s.data : c[1] # "par" /\ NeedsInterpolation(s, c[1], c[2])}
           possible == {c \in needed : Possible(c[2])}
           news == [c \in possible |-> [q |-> BAD, value |-> Value("around", From(c[1], c[2]))]]
           rebuilt == Set(s, news)
<1>1. u = Set(rebuilt, Fail(needed \ possible))
  BY DEF ReconstructMinMax
<1>2. DOMAIN s.data = Kinds \X s.hours
  BY DEF SeriesOk
<1>3. \A c \in needed : c \in Kinds \X s.hours /\ c[1] # "par" /\ s.data[c].q \in Needed
  <2> TAKE c \in needed
  <2>1. c \in Kinds \X s.hours /\ c[1] # "par" /\ NeedsInterpolation(s, c[1], c[2])
    BY <1>2
  <2>2. c = <<c[1], c[2]>>
    BY <2>1
  <2> QED  BY <2>1, <2>2 DEF NeedsInterpolation, SeenQuality, Needed
<1>4. \A c \in Kinds \X s.hours : c[1] # "par" /\ s.data[c].q \in Needed => c \in needed
  <2> SUFFICES ASSUME NEW c \in Kinds \X s.hours, c[1] # "par", s.data[c].q \in Needed
               PROVE  c \in needed
    OBVIOUS
  <2>1. c = <<c[1], c[2]>> /\ c \in DOMAIN s.data
    BY <1>2
  <2>2. NeedsInterpolation(s, c[1], c[2])
    BY <2>1 DEF NeedsInterpolation, SeenQuality, Needed
  <2> QED  BY <2>1, <2>2
<1>5. possible \subseteq needed
  OBVIOUS
<1>6. ASSUME NEW c \in Kinds \X s.hours PROVE From(c[1], c[2]) \subseteq Kinds \X s.hours
  <2>1. "par" \in Kinds /\ c[1] \in Kinds /\ c[2] \in s.hours
    BY DEF Kinds
  <2>2. Nearest(points, c[2]) \subseteq s.hours /\ Nearest(Points(s, c[1]), c[2]) \subseteq s.hours
    <3>1. points \subseteq s.hours
      OBVIOUS
    <3> HIDE DEF points
    <3> QED  BY <3>1, PointsTyped DEF Nearest
  <2>3. Spread(c[1]) \subseteq s.hours /\ Own(c[1], c[2]) \subseteq s.hours
    BY <2>1
  <2> HIDE DEF points, Spread, Own
  <2> QED  BY <2>1, <2>2, <2>3
<1>7. DOMAIN news = possible /\ \A c \in possible : news[c] = [q |-> BAD, value |-> Value("around", From(c[1], c[2]))]
  <2> HIDE DEF possible, From
  <2> QED  OBVIOUS
<1> HIDE DEF points, Possible, Spread, Own, From, needed, possible, news
<1>8. DOMAIN news \subseteq Kinds \X s.hours
  BY <1>3, <1>5, <1>7
<1>9. \A c \in DOMAIN news : s.data[c].q \in Needed /\ NewsOk(s, news[c])
  <2> TAKE c \in DOMAIN news
  <2>1. c \in Kinds \X s.hours /\ s.data[c].q \in Needed
    BY <1>3, <1>5, <1>7
  <2>2. BAD \in GOOD .. FAILED /\ "around" \in Methods /\ From(c[1], c[2]) \subseteq Kinds \X s.hours
    BY <1>6, <2>1, Numbers DEF Methods
  <2>3. NewsOk(s, [q |-> BAD, value |-> Value("around", From(c[1], c[2]))])
    BY <2>2, NewValue
  <2> QED  BY <1>7, <2>1, <2>3
<1> HIDE DEF rebuilt
<1>10. /\ Stage(s, rebuilt) /\ \A c \in DOMAIN news : rebuilt.data[c].q <= news[c].q
       /\ \A c \in (Kinds \X s.hours) \ DOMAIN news : rebuilt.data[c] = s.data[c]
  BY <1>8, <1>9, SetBetter DEF rebuilt
<1> DEFINE rest == needed \ possible
<1>11. rest \subseteq Kinds \X s.hours /\ \A c \in rest : rebuilt.data[c].q \in Needed
  BY <1>3, <1>7, <1>10
<1>12. u = Set(rebuilt, Fail(rest)) /\ SeriesOk(rebuilt) /\ rebuilt.hours = s.hours
  BY <1>1, <1>10 DEF Stage
<1>13. \A c \in needed : c \in possible \/ c \in rest
  OBVIOUS
<1> HIDE DEF rest
<1>14. Stage(rebuilt, u) /\ \A c \in rest : u.data[c].q <= FAILED
  <2>1. rest \subseteq Kinds \X rebuilt.hours
    BY <1>11, <1>12
  <2> QED  BY ONLY <1>11, <1>12, <2>1, FailStage
<1>15. \A c \in possible : u.data[c].q <= FAILED
  <2> TAKE c \in possible
  <2>1. c \in Kinds \X s.hours /\ c \in Kinds \X rebuilt.hours
    BY <1>3, <1>5, <1>12
  <2>2. u.data[c] \in Entries /\ rebuilt.data[c] \in Entries /\ u.data[c].q <= rebuilt.data[c].q
    BY <1>12, <1>14, <2>1, StageKeeps
  <2>3. u.data[c].q \in Int /\ rebuilt.data[c].q \in Int
    BY <2>2 DEF Entries
  <2>4. rebuilt.data[c].q <= BAD
    BY <1>7, <1>10
  <2> QED  BY <2>2, <2>3, <2>4, Numbers
<1>16. Stage(s, u)
  BY <1>10, <1>14, StageAgain
<1> QED
  BY <1>4, <1>13, <1>14, <1>15, <1>16

\* All of them, and what is then left of what needed a value.
LEMMA InterpolatedStage ==
  ASSUME NEW s, SeriesOk(s), NEW d, d = DiscardUnreliableMinMax(s), NEW u, u = Interpolated(s)
  PROVE  /\ Stage(d, u)
         /\ \A c \in Kinds \X s.hours : c[1] # "par" /\ d.data[c].q \in Needed => u.data[c].q <= FAILED
         /\ \A t \in s.hours :
                /\ d.data[<<"par", t>>].q \in Needed
                /\ \E b \in Points(d, "par") : b < t /\ d.data[<<"par", b>>].q \notin Needed
                /\ \E a \in Points(d, "par") : a > t /\ d.data[<<"par", a>>].q \notin Needed
                => u.data[<<"par", t>>].q <= FAILED
<1> DEFINE r == ReplaceFromOtherTypeid(d)
           m == InterpolateFromMinMax(r)
           n == InterpolateFromNeighbors(m)
<1>1. u = ReconstructMinMax(n)
  BY DEF Interpolated
<1>2. SeriesOk(d) /\ d.hours = s.hours
  BY DiscardStage
<1>3. Stage(d, r)
  <2> HIDE DEF r
  <2> QED  BY <1>2, ReplaceStage DEF r
<1> HIDE DEF r
<1>4. SeriesOk(r) /\ r.hours = s.hours
  BY <1>2, <1>3 DEF Stage
<1>5. Stage(r, m)
  <2> HIDE DEF m
  <2> QED  BY <1>4, MinMaxStage DEF m
<1> HIDE DEF m
<1>6. SeriesOk(m) /\ m.hours = s.hours
  BY <1>4, <1>5 DEF Stage
<1>7. Stage(d, m)
  BY <1>2, <1>3, <1>5, StageAgain
<1>8. /\ Stage(m, n)
      /\ \A t \in m.hours :
            /\ m.data[<<"par", t>>].q \in Needed
            /\ Before(Points(m, "par"), t) # {} /\ Behind(Points(m, "par"), t) # {}
            => n.data[<<"par", t>>].q <= FAILED
  <2> HIDE DEF n
  <2>1. n = InterpolateFromNeighbors(m)
    BY DEF n
  <2> QED  BY <1>6, <2>1, NeighboursStage
<1> HIDE DEF n
<1>9. SeriesOk(n) /\ n.hours = s.hours
  BY <1>6, <1>8 DEF Stage
<1>10. Stage(d, n)
  BY <1>2, <1>7, <1>8, StageAgain
<1>11. /\ Stage(n, u)
       /\ \A c \in Kinds \X n.hours : c[1] # "par" /\ n.data[c].q \in Needed => u.data[c].q <= FAILED
  BY <1>1, <1>9, ReconstructStage
<1>12. Stage(d, u)
  BY <1>2, <1>10, <1>11, StageAgain
<1>13. \A q \in 0 .. 7 : q \notin Needed /\ q # NO_ROW /\ q # UNUSABLE => q <= FAILED
  BY Numbers
<1>14. ASSUME NEW c \in Kinds \X s.hours, NEW v, Stage(d, v), d.data[c].q \in Needed, v.data[c].q \notin Needed
       PROVE  v.data[c].q <= FAILED
  <2>1. Better(d.data[c], v.data[c]) /\ v.data[c].q # d.data[c].q
    BY <1>2, <1>14 DEF Stage
  <2> QED  BY <2>1, Numbers DEF Better
<1>15. ASSUME NEW c \in Kinds \X s.hours, n.data[c].q <= FAILED PROVE u.data[c].q <= FAILED
  <2>1. c \in Kinds \X n.hours
    BY <1>9
  <2>2. u.data[c] \in Entries /\ n.data[c] \in Entries /\ u.data[c].q <= n.data[c].q
    BY <1>9, <1>11, <2>1, StageKeeps
  <2>3. u.data[c].q \in Int /\ n.data[c].q \in Int /\ FAILED \in Int
    BY <2>2, Numbers DEF Entries
  <2> QED  BY <1>15, <2>2, <2>3
<1>16. ASSUME NEW c \in Kinds \X s.hours, c[1] # "par", d.data[c].q \in Needed PROVE u.data[c].q <= FAILED
  <2>1. CASE n.data[c].q \in Needed
    BY <1>9, <1>11, <1>16, <2>1
  <2>2. CASE n.data[c].q \notin Needed
    BY <1>10, <1>14, <1>15, <1>16, <2>2
  <2> QED  BY <2>1, <2>2
<1>17. ASSUME NEW t \in s.hours, d.data[<<"par", t>>].q \in Needed,
              NEW b \in Points(d, "par"), b < t, d.data[<<"par", b>>].q \notin Needed,
              NEW a \in Points(d, "par"), a > t, d.data[<<"par", a>>].q \notin Needed
       PROVE  u.data[<<"par", t>>].q <= FAILED
  <2>1. <<"par", t>> \in Kinds \X s.hours
    BY DEF Kinds
  <2>2. ASSUME NEW h \in Points(d, "par"), d.data[<<"par", h>>].q \notin Needed PROVE h \in Points(m, "par")
    <3>1. h \in s.hours /\ d.data[<<"par", h>>].usable
      BY <1>2 DEF Points, Usable
    <3>2. <<"par", h>> \in Kinds \X d.hours
      BY <1>2, <3>1 DEF Kinds
    <3>3. m.data[<<"par", h>>] = d.data[<<"par", h>>]
      BY <1>2, <1>7, <2>2, <3>2, StageKeeps
    <3> QED  BY <1>6, <3>1, <3>3 DEF Points, Usable
  <2>3. Before(Points(m, "par"), t) # {} /\ Behind(Points(m, "par"), t) # {}
    BY <1>17, <2>2 DEF Before, Behind
  <2>4. CASE m.data[<<"par", t>>].q \in Needed
    BY <1>6, <1>8, <1>15, <2>1, <2>3, <2>4
  <2>5. CASE m.data[<<"par", t>>].q \notin Needed
    <3>1. m.data[<<"par", t>>].q <= FAILED
      BY <1>7, <1>14, <1>17, <2>1, <2>5
    <3>2. <<"par", t>> \in Kinds \X m.hours
      BY <1>6, <2>1
    <3>3. n.data[<<"par", t>>] \in Entries /\ m.data[<<"par", t>>] \in Entries
          /\ n.data[<<"par", t>>].q <= m.data[<<"par", t>>].q
      BY <1>6, <1>8, <3>2, StageKeeps
    <3>4. n.data[<<"par", t>>].q \in Int /\ m.data[<<"par", t>>].q \in Int /\ FAILED \in Int
      BY <3>3, Numbers DEF Entries
    <3>5. n.data[<<"par", t>>].q <= FAILED
      BY <3>1, <3>3, <3>4
    <3> QED  BY <1>15, <2>1, <3>5
  <2> QED  BY <2>4, <2>5
<1> QED
  BY <1>12, <1>16, <1>17

\* makeUpdates: the quality is kept in the flag, and an earlier value only gives way to a better one.
LEMMA NewRowTyped ==
  ASSUME NEW hours, NEW known, NEW e, EntryOk(hours, known, e), e.row \in Row, e.q \in GOOD .. FAILED, e.updated
  PROVE  /\ NewRow(e) \in Row /\ NewRow(e).ftime = e.q
         /\ NewRow(e).level = "ok" => e.row.level = "ok" /\ NewRow(e).fmis = e.row.fmis
         /\ e.row.level # "ok" => NewRow(e).level # "ok"
         /\ NewRow(e).corrected = e.row.corrected \/ NewRow(e).corrected.zeroed \subseteq hours \ known
<1> DEFINE r == e.row
           q == e.q
           v == e.value
           f == CASE r.fmis = 3 -> 1 [] r.fmis \in {0, 2} -> 4 [] OTHER -> r.fmis
<1>1. /\ r = [level |-> r.level, ftime |-> r.ftime, fmis |-> r.fmis, fhqc |-> r.fhqc, corrected |-> r.corrected]
      /\ r.level \in {"ok", "bad", "unchecked"} /\ r.fmis \in 0 .. 4 /\ r.fhqc \in Nat /\ r.corrected \in Values
  BY DEF Row
<1>2. q \in {1, 2, 3} /\ v \in Values
  BY Numbers DEF EntryOk, Entries
<1>3. f \in 0 .. 4
  BY <1>1
<1>4. CASE q = FAILED
  <2>1. NewRow(e) = [r EXCEPT !.ftime = 3]
    BY <1>4 DEF NewRow
  <2> HIDE DEF r
  <2>2. NewRow(e) = [level |-> r.level, ftime |-> 3, fmis |-> r.fmis, fhqc |-> r.fhqc, corrected |-> r.corrected]
    BY ONLY <1>1, <2>1
  <2> QED  BY <1>1, <1>4, <2>2, Numbers DEF Row, r
<1>5. CASE q # FAILED
  <2>1. NewRow(e) = [r EXCEPT !.ftime = q, !.corrected = v, !.level = "bad",
                              !.fmis = CASE @ = 3 -> 1 [] @ \in {0, 2} -> 4 [] OTHER -> @]
    BY <1>5 DEF NewRow
  <2>2. NewRow(e) = [r EXCEPT !.ftime = q, !.corrected = v, !.level = "bad", !.fmis = f]
    BY <2>1
  <2>3. q < FAILED
    BY <1>2, <1>5, Numbers
  <2>4. v.zeroed \subseteq hours \ known
    BY <2>3 DEF EntryOk
  <2> HIDE DEF r, f, q, v
  <2>5. NewRow(e) = [level |-> "bad", ftime |-> q, fmis |-> f, fhqc |-> r.fhqc, corrected |-> v]
    BY ONLY <1>1, <2>2
  <2>6. NewRow(e) \in Row
    BY <1>1, <1>2, <1>3, <2>5 DEF Row
  <2> QED  BY <2>4, <2>5, <2>6 DEF q
<1> QED
  BY <1>4, <1>5

\* What a row of a series becomes: a better one, but for minima and maxima that were doubtful.
Doubted(s, c) == /\ c[1] # "par" /\ c[2] # Min(s.hours)
                 /\ \E k \in {"min", "max"} : ~(SeenQuality(s, k, c[2] - 1) < FAILED)
Changed(s, c, r, n) ==
    /\ c \in Kinds \X s.hours /\ s.data[c].row = r /\ HasRows(<<s.group, c[1], c[2]>>)
    /\ r \in Row /\ RowQuality(r) # NO_ROW
    /\ n \in Row /\ RowQuality(n) # NO_ROW /\ n.ftime \in 1 .. 3
    /\ n.level = "ok" => r.level = "ok" /\ n.fmis \notin 1 .. 3
    /\ n.corrected = r.corrected \/ n.corrected.zeroed \subseteq s.hours \ s.known
    /\ Doubted(s, c) \/ (r.level # "ok" /\ n.level # "ok" /\ RowQuality(n) < RowQuality(r))

\* This is so of every row that the run changes.
LEMMA ChangedRow ==
  ASSUME NEW s, SeriesOk(s), Fresh(s), NEW u, u = Interpolated(s), NEW c \in Updates(u)
  PROVE  Changed(s, c, s.data[c].row, NewRow(u.data[c]))
<1> DEFINE d == DiscardUnreliableMinMax(s)
           r == s.data[c].row
           n == NewRow(u.data[c])
<1>1. /\ SeriesOk(d) /\ d.group = s.group /\ d.hours = s.hours /\ d.known = s.known
      /\ \A b \in Kinds \X s.hours : d.data[b] = s.data[b] \/ Discarded(s, b, d.data[b])
  BY DiscardStage
<1>2. Stage(d, u)
  <2> HIDE DEF d
  <2> QED  BY InterpolatedStage DEF d
<1> HIDE DEF d
<1>3. SeriesOk(u) /\ u.hours = s.hours /\ u.known = s.known
  BY <1>1, <1>2 DEF Stage
<1>4. c \in DOMAIN u.data /\ u.data[c].updated /\ ~u.data[c].isNew /\ u.data[c].q \in GOOD .. FAILED
  BY DEF Updates
<1>5. c \in Kinds \X s.hours
  BY <1>3, <1>4 DEF SeriesOk
<1>6. /\ d.data[c] = s.data[c] \/ Discarded(s, c, d.data[c])
      /\ Better(d.data[c], u.data[c])
  BY <1>1, <1>2, <1>5 DEF Stage
<1>7. u.data[c].row = r /\ u.data[c].isNew = s.data[c].isNew
  BY <1>6 DEF Better, Discarded
<1>8. /\ r \in Rows /\ s.data[c] = Entry(s.group, r) /\ (r # NoRow => HasRows(<<s.group, c[1], c[2]>>))
      /\ r # NoRow /\ r.level = "ok" => r.fmis \notin 1 .. 3
  BY <1>5 DEF Fresh
<1>9. EntryOk(s.hours, s.known, u.data[c]) /\ EntryOk(s.hours, s.known, s.data[c])
  BY <1>3, <1>5 DEF SeriesOk
<1>10. RowQuality(r) # NO_ROW
  BY <1>4, <1>7, <1>9 DEF EntryOk
<1>11. r # NoRow /\ r \in Row
  BY <1>8, <1>10, QualityTyped DEF Rows
<1>12. /\ n \in Row /\ n.ftime = u.data[c].q
       /\ n.level = "ok" => r.level = "ok" /\ n.fmis = r.fmis
       /\ r.level # "ok" => n.level # "ok"
       /\ n.corrected = r.corrected \/ n.corrected.zeroed \subseteq s.hours \ s.known
  BY <1>4, <1>7, <1>9, <1>11, NewRowTyped
<1>17. n.level = "ok" => r.level = "ok" /\ n.fmis \notin 1 .. 3
  BY <1>8, <1>11, <1>12
<1>13. n.ftime \in 1 .. 3
  BY <1>4, <1>12, Numbers
<1>14. /\ n.level = "ok" => RowQuality(n) = OBSERVATION
       /\ n.level # "ok" => RowQuality(n) = n.ftime
  <2>1. n \in Rows /\ n # NoRow
    BY <1>12, RowIsThere DEF Rows
  <2>2. n.ftime > 0
    BY <1>13
  <2> HIDE DEF n
  <2> QED  BY <2>1, <2>2, QualityTyped
<1>15. CASE d.data[c] = s.data[c]
  <2>1. s.data[c].q = Quality(s.group, r) /\ ~s.data[c].updated
    BY <1>8, EntryTyped
  <2>2. u.data[c] # d.data[c]
    BY <1>4, <1>15, <2>1
  <2>3. s.data[c].q \in Needed /\ u.data[c].q < s.data[c].q
    BY <1>6, <1>15, <2>2 DEF Better
  <2>4. Quality(s.group, r) = RowQuality(r) /\ RowQuality(r) \in Needed
    BY <1>8, <2>1, <2>3, QualityTyped
  <2>5. RowQuality(r) # OBSERVATION
    BY <2>4, Numbers
  <2>6. r.level # "ok"
    BY <1>8, <1>11, <2>5, QualityTyped
  <2> HIDE DEF r, n
  <2> QED
    BY <1>5, <1>8, <1>10, <1>11, <1>12, <1>13, <1>14, <1>17, <2>1, <2>3, <2>4, <2>6, Numbers DEF Changed, r, n
<1>16. CASE Discarded(s, c, d.data[c])
  <2>1. Doubted(s, c)
    BY <1>16 DEF Discarded, Doubted
  <2> HIDE DEF r, n
  <2> QED
    BY <1>5, <1>8, <1>10, <1>11, <1>12, <1>13, <1>14, <1>17, <2>1, Numbers DEF Changed, r, n
<1> QED
  BY <1>6, <1>15, <1>16

\* What had no value and is given one, or the blame, is changed.
LEMMA GivenIsChanged ==
  ASSUME NEW s, SeriesOk(s), Fresh(s), NEW u, u = Interpolated(s), NEW c \in Kinds \X s.hours,
         MissingFlags(s.data[c].row), s.data[c].row.level # "ok", u.data[c].q <= FAILED
  PROVE  c \in Updates(u)
<1> DEFINE d == DiscardUnreliableMinMax(s)
           r == s.data[c].row
<1>1. /\ SeriesOk(d) /\ d.group = s.group /\ d.hours = s.hours /\ d.known = s.known
      /\ \A b \in Kinds \X s.hours : d.data[b] = s.data[b] \/ Discarded(s, b, d.data[b])
  BY DiscardStage
<1>2. Stage(d, u)
  <2> HIDE DEF d
  <2> QED  BY InterpolatedStage DEF d
<1> HIDE DEF d
<1>3. SeriesOk(u) /\ u.hours = s.hours /\ DOMAIN u.data = Kinds \X s.hours
  BY <1>1, <1>2 DEF Stage, SeriesOk
<1>4. r \in Rows /\ r # NoRow /\ r.ftime = 0 /\ r.fmis \in 1 .. 3 /\ s.data[c] = Entry(s.group, r) /\ r \in Row
  BY DEF Fresh, MissingFlags, Rows
<1>5. RowQuality(r) = MISSING /\ Quality(s.group, r) = MISSING
  BY <1>4, QualityTyped
<1>6. s.data[c].q = MISSING /\ s.data[c].row = r
  BY <1>4, <1>5, EntryTyped
<1>7. d.data[c] = s.data[c]
  BY <1>1, <1>6 DEF Discarded
<1>8. Better(s.data[c], u.data[c])
  BY <1>1, <1>2, <1>7 DEF Stage
<1>9. u.data[c].updated /\ u.data[c].q \in GOOD .. FAILED /\ u.data[c].row = r /\ u.data[c].isNew = s.data[c].isNew
  BY <1>6, <1>8, Numbers DEF Better
<1>10. EntryOk(s.hours, s.known, s.data[c]) /\ s.data[c].isNew \in BOOLEAN /\ EntryOk(u.hours, u.known, u.data[c])
  BY <1>3 DEF SeriesOk, EntryOk, Entries
<1>11. ~u.data[c].isNew
  BY <1>5, <1>6, <1>9, <1>10, Numbers DEF EntryOk
<1>12. NewRow(u.data[c]) # u.data[c].row
  <2>1. NewRow(u.data[c]).ftime = u.data[c].q
    BY <1>4, <1>9, <1>10, NewRowTyped
  <2> QED  BY <1>4, <1>9, <2>1, Numbers
<1> QED
  BY <1>3, <1>9, <1>11, <1>12 DEF Updates

\* What holds in every state: the table has the rows that it may have, what is left of a run is
\* some of what it began with, and the series at hand is as it was read.
TypeInv ==
    /\ TableOk /\ ut0 \in Starts
    /\ pc \in {"idle", "ranges", "series"} /\ outside \in Nat /\ calm \in BOOLEAN
    /\ found \subseteq Cells /\ \A c \in found : table[c] # NoRow
    /\ ranges \subseteq FindMissing(found)
    /\ pc = "series" => SeriesOk(series) /\ Fresh(series)

\* A run that interpolates only changes rows of its series, and every one that it gives something.
LEMMA InterpolateEffect ==
  ASSUME TypeInv, Interpolate
  PROVE  /\ \A c \in Cells : table'[c] = table[c]
                \/ (c[1] = series.group /\ Changed(series, <<c[2], c[3]>>, series.data[<<c[2], c[3]>>].row, table'[c]))
         /\ table' \in [Cells -> Rows]
         /\ \A c \in Cells :
                /\ c[1] = series.group /\ <<c[2], c[3]>> \in Kinds \X series.hours
                /\ MissingFlags(series.data[<<c[2], c[3]>>].row) /\ series.data[<<c[2], c[3]>>].row.level # "ok"
                /\ Interpolated(series).data[<<c[2], c[3]>>].q <= FAILED
                => table'[c].ftime \in 1 .. 3
<1> DEFINE u == Interpolated(series)
           up == Updates(u)
           New(c) == IF c[1] = u.group /\ <<c[2], c[3]>> \in up THEN NewRow(u.data[<<c[2], c[3]>>]) ELSE table[c]
<1>1. SeriesOk(series) /\ Fresh(series) /\ TableOk
  BY DEF TypeInv, Interpolate
<1>2. table' = [c \in Cells |-> New(c)]
  BY DEF Interpolate
<1>3. u.group = series.group
  <2> DEFINE d == DiscardUnreliableMinMax(series)
  <2>1. d.group = series.group
    BY <1>1, DiscardStage
  <2>2. Stage(d, u)
    <3> HIDE DEF d, u
    <3> QED  BY <1>1, InterpolatedStage DEF d, u
  <2> QED  BY <2>1, <2>2 DEF Stage
<1>4. \A b \in up : Changed(series, b, series.data[b].row, NewRow(u.data[b]))
  <2> HIDE DEF u
  <2> QED  BY <1>1, ChangedRow DEF u
<1>5. \A b \in Kinds \X series.hours :
        MissingFlags(series.data[b].row) /\ series.data[b].row.level # "ok" /\ u.data[b].q <= FAILED => b \in up
  <2> HIDE DEF u
  <2> QED  BY <1>1, GivenIsChanged DEF u
<1> HIDE DEF u, up
<1>6. ASSUME NEW c \in Cells
      PROVE  /\ New(c) = table[c]
                \/ (c[1] = series.group /\ Changed(series, <<c[2], c[3]>>, series.data[<<c[2], c[3]>>].row, New(c)))
             /\ New(c) \in Rows
             /\ c[1] = series.group /\ <<c[2], c[3]>> \in up => New(c).ftime \in 1 .. 3
  <2>1. table[c] \in Rows
    BY <1>1 DEF TableOk
  <2>2. CASE c[1] = u.group /\ <<c[2], c[3]>> \in up
    <3> DEFINE b == <<c[2], c[3]>>
    <3>1. New(c) = NewRow(u.data[b])
      BY <2>2
    <3>2. Changed(series, b, series.data[b].row, NewRow(u.data[b]))
      BY <1>4, <2>2
    <3> HIDE DEF New, b
    <3>3. Changed(series, b, series.data[b].row, New(c))
      BY <3>1, <3>2
    <3>4. New(c) \in Row /\ New(c).ftime \in 1 .. 3
      BY <3>3 DEF Changed
    <3> QED  BY <1>3, <2>2, <3>3, <3>4 DEF b, Rows
  <2>3. CASE ~(c[1] = u.group /\ <<c[2], c[3]>> \in up)
    <3>1. New(c) = table[c]
      BY <2>3
    <3> HIDE DEF New
    <3> QED  BY <1>3, <2>1, <2>3, <3>1
  <2> QED  BY <2>2, <2>3
<1> HIDE DEF New
<1>7. \A c \in Cells : table'[c] = New(c)
  BY <1>2
<1> QED
  BY <1>2, <1>5, <1>6, <1>7 DEF u

\* It holds at first.
LEMMA InitTypeInv == ASSUME Init PROVE TypeInv
<1>1. TableOk
  BY TablesAssumption DEF Init, TableOk, Rows
<1>2. ut0 \in Starts
  <2>1. Starts \in SUBSET Int /\ Starts # {} /\ (\A h \in Starts : 0 <= h) /\ 0 \in Int
    BY TimeAssumption DEF Hours
  <2>2. Min(Starts) \in Starts
    BY ONLY <2>1, MinOfSome
  <2> QED  BY <2>2 DEF Init
<1>3. ranges \subseteq FindMissing(found)
  BY DEF Init
<1> QED
  BY <1>1, <1>2, <1>3 DEF Init, TypeInv

\* And every step keeps it.
LEMMA StepTypeInv == ASSUME TypeInv, [Next]_vars PROVE TypeInv'
<1>1. CASE UNCHANGED vars
  BY <1>1 DEF vars, tableVars, runVars, historyVars, TypeInv, TableOk, Fresh
<1>2. ASSUME UNCHANGED table PROVE TableOk'
  BY <1>2 DEF TypeInv, TableOk
<1>3. CASE \E start \in Starts : StartRun(start)
  <2>1. PICK start \in Starts : StartRun(start)
    BY <1>3
  <2>2. Missing(start) \subseteq Cells /\ \A c \in Missing(start) : table[c] # NoRow
    BY DEF Missing, MissingFlags
  <2>3. found' = Missing(start) /\ ranges' = FindMissing(found)' /\ ut0' = start /\ UNCHANGED <<table, series, outside>> /\ pc' = "ranges" /\ calm' = TRUE
    BY <2>1 DEF StartRun, tableVars
  <2>4. TableOk'
    BY <1>2, <2>3
  <2> QED  BY <2>2, <2>3, <2>4 DEF TypeInv
<1>4. CASE SkipRange
  <2>1. \E r \in ranges : ranges' = ranges \ {r}
    BY <1>4 DEF SkipRange, Foremost
  <2>2. UNCHANGED <<table, pc, ut0, series, found, outside, calm>>
    BY <1>4 DEF SkipRange, tableVars, historyVars
  <2>3. TableOk'
    BY <1>2, <2>2
  <2>4. FindMissing(found)' = FindMissing(found)
    BY <2>2
  <2> QED  BY <2>1, <2>2, <2>3, <2>4 DEF TypeInv, Fresh
<1>5. CASE ReadSeries
  <2>1. PICK r \in ranges : WithinLimits(r) /\ series' = FindSeriesData(r) /\ ranges' = ranges \ {r}
    BY <1>5 DEF ReadSeries, Foremost
  <2>2. UNCHANGED <<table, ut0, found, outside, calm>> /\ pc' = "series"
    BY <1>5 DEF ReadSeries, tableVars, historyVars
  <2>3. TableOk'
    BY <1>2, <2>2
  <2>4. FindMissing(found)' = FindMissing(found)
    BY <2>2
  <2>5. SeriesOk(series') /\ Fresh(series')
    <3>1. RangeOk(r)
      BY RangesTyped DEF TypeInv
    <3> DEFINE s == FindSeriesData(r)
    <3>2. SeriesOk(s) /\ Fresh(s)
      BY <2>1, <3>1, SeriesRead DEF TypeInv
    <3> QED  BY <2>1, <3>2
  <2> QED  BY <2>1, <2>2, <2>3, <2>4, <2>5 DEF TypeInv
<1>6. CASE SkipSeries
  <2>1. UNCHANGED <<table, ut0, ranges, found, outside, calm>> /\ pc' = "ranges"
    BY <1>6 DEF SkipSeries, tableVars, historyVars
  <2>2. TableOk' /\ FindMissing(found)' = FindMissing(found)
    BY <1>2, <2>1
  <2> QED  BY <2>1, <2>2 DEF TypeInv
<1>7. CASE Interpolate
  <2>1. UNCHANGED <<ut0, ranges, found, outside, calm>> /\ pc' = "ranges"
    BY <1>7 DEF Interpolate, historyVars
  <2>2. FindMissing(found)' = FindMissing(found)
    BY <2>1
  <2>3. table' \in [Cells -> Rows] /\ \A c \in Cells : table'[c] = table[c]
                \/ (c[1] = series.group /\ Changed(series, <<c[2], c[3]>>, series.data[<<c[2], c[3]>>].row, table'[c]))
    BY <1>7, InterpolateEffect
  <2>4. ASSUME NEW c \in Cells
        PROVE  /\ table[c] # NoRow => table'[c] # NoRow
               /\ table'[c] # NoRow => /\ HasRows(c)
                                       /\ table'[c].level = "ok" => table'[c].fmis \notin 1 .. 3
                                       /\ table'[c].ftime = 0 => table'[c].corrected.zeroed = {}
    <3>1. CASE table'[c] = table[c]
      BY <3>1 DEF TypeInv, TableOk
    <3>2. CASE c[1] = series.group /\ Changed(series, <<c[2], c[3]>>, series.data[<<c[2], c[3]>>].row, table'[c])
      <4> DEFINE b == <<c[2], c[3]>>
                 r == series.data[b].row
      <4>1. b[1] = c[2] /\ b[2] = c[3] /\ c = <<c[1], c[2], c[3]>>
        BY DEF Cells
      <4>2. Changed(series, b, r, table'[c])
        BY <3>2
      <4>3. HasRows(c)
        BY <3>2, <4>1, <4>2 DEF Changed
      <4>4. b \in Kinds \X series.hours
        BY <4>2 DEF Changed
      <4> HIDE DEF r
      <4>5. table'[c] \in Row /\ table'[c].ftime \in 1 .. 3 /\ (table'[c].level = "ok" => table'[c].fmis \notin 1 .. 3)
        BY <4>2 DEF Changed
      <4> QED  BY <4>3, <4>5, RowIsThere
    <3> QED  BY <2>3, <3>1, <3>2
  <2>5. TableOk'
    BY <2>3, <2>4 DEF TableOk
  <2> QED  BY <2>1, <2>2, <2>4, <2>5 DEF TypeInv
<1>8. CASE EndRun
  <2>1. UNCHANGED <<table, ut0, ranges, series, found, outside, calm>> /\ pc' = "idle"
    BY <1>8 DEF EndRun, tableVars, historyVars
  <2>2. TableOk' /\ FindMissing(found)' = FindMissing(found)
    BY <1>2, <2>1
  <2> QED  BY <2>1, <2>2 DEF TypeInv
<1>9. ASSUME NEW c \in Cells, HasRows(c), NEW n \in Row, table' = [table EXCEPT ![c] = n],
             n.level = "ok" => n.fmis \notin 1 .. 3, n.ftime = 0 => n.corrected.zeroed = {},
             UNCHANGED <<runVars, found>>, outside' = outside + 1, calm' = FALSE
      PROVE  TypeInv'
  <2>1. table' \in [Cells -> Rows] /\ table'[c] = n /\ \A b \in Cells \ {c} : table'[b] = table[b]
    BY <1>9 DEF TypeInv, TableOk, Rows
  <2>2. \A b \in Cells : table[b] # NoRow => table'[b] # NoRow
    BY <2>1, RowIsThere
  <2>3. \A b \in Cells : table'[b] # NoRow => /\ HasRows(b)
                                              /\ table'[b].level = "ok" => table'[b].fmis \notin 1 .. 3
                                              /\ table'[b].ftime = 0 => table'[b].corrected.zeroed = {}
    BY <1>9, <2>1 DEF TypeInv, TableOk
  <2>4. TableOk'
    BY <2>1, <2>3 DEF TableOk
  <2>5. UNCHANGED <<pc, ut0, ranges, series, found>> /\ FindMissing(found)' = FindMissing(found)
    BY <1>9 DEF runVars
  <2>6. outside' \in Nat /\ calm' \in BOOLEAN
    <3>1. outside' \in Nat
      BY <1>9 DEF TypeInv
    <3>2. calm' \in BOOLEAN
      BY ONLY <1>9
    <3> QED  BY <3>1, <3>2
  <2>7. \A b \in found' : table'[b] # NoRow
    BY <2>2, <2>5 DEF TypeInv
  <2> QED  BY <2>4, <2>5, <2>6, <2>7 DEF TypeInv, Fresh
<1>10. CASE \E c \in Late : Observe(c)
  <2>1. PICK c \in Late : Observe(c)
    BY <1>10
  <2>2. c \in Cells /\ HasRows(c)
    BY GroupAssumption, TablesAssumption
  <2>3. "observed" \in Methods /\ {} \in SUBSET (Kinds \X Hours)
    BY DEF Methods
  <2>4. Observed \in Row /\ Observed.level = "ok" /\ Observed.fmis = 0 /\ Observed.corrected.zeroed = {}
    BY <2>3, ValueTyped DEF Observed, Row
  <2>5. table' = [table EXCEPT ![c] = Observed] /\ UNCHANGED <<runVars, found>> /\ outside' = outside + 1 /\ calm' = FALSE
    BY <2>1 DEF Observe, FromOutside
  <2>6. Observed.level = "ok" => Observed.fmis \notin 1 .. 3
    BY <2>4
  <2> QED  BY ONLY <1>9, <2>2, <2>4, <2>5, <2>6, TypeInv
<1>11. CASE \E c \in HqcHours : Hqc(c)
  <2>1. PICK c \in HqcHours : Hqc(c)
    BY <1>11
  <2>2. c \in Cells /\ table[c] # NoRow
    BY <2>1, GroupAssumption DEF Hqc
  <2>3. HasRows(c) /\ table[c] \in Row
    BY <2>2 DEF TypeInv, TableOk, Rows
  <2> DEFINE r == table[c]
             f == IF r.fmis \in {1, 3} THEN 1 ELSE 4
             h == IF r.fmis \in {1, 3} THEN 5 ELSE 7
             n == [r EXCEPT !.level = "bad", !.corrected = Value("hqc", {}), !.fmis = f, !.fhqc = h]
  <2>4. table' = [table EXCEPT ![c] = n] /\ UNCHANGED <<runVars, found>> /\ outside' = outside + 1 /\ calm' = FALSE
    <3>1. UNCHANGED <<runVars, found>> /\ outside' = outside + 1 /\ calm' = FALSE
      BY <2>1 DEF Hqc, FromOutside
    <3>2. table' = [table EXCEPT ![c] = HqcRow(r)]
      BY <2>1 DEF Hqc
    <3>3. HqcRow(r) = n
      BY DEF HqcRow
    <3> HIDE DEF n
    <3> QED  BY <3>1, <3>2, <3>3
  <2>5. f \in 0 .. 4 /\ h \in Nat /\ Value("hqc", {}) \in Values /\ Value("hqc", {}).zeroed = {}
    <3>1. "hqc" \in Methods /\ {} \in SUBSET (Kinds \X Hours)
      BY DEF Methods
    <3> QED  BY <3>1, ValueTyped
  <2> DEFINE v == Value("hqc", {})
  <2>6. n \in Row /\ n.level = "bad" /\ n.corrected = v
    <3> HIDE DEF f, h, v
    <3>1. n = [r EXCEPT !.level = "bad", !.corrected = v, !.fmis = f, !.fhqc = h]
      BY DEF v
    <3>2. /\ r = [level |-> r.level, ftime |-> r.ftime, fmis |-> r.fmis, fhqc |-> r.fhqc, corrected |-> r.corrected]
          /\ r.ftime \in 0 .. 3
      BY <2>3 DEF Row
    <3> HIDE DEF r, n
    <3>3. n = [level |-> "bad", ftime |-> r.ftime, fmis |-> f, fhqc |-> h, corrected |-> v]
      BY ONLY <3>1, <3>2
    <3> QED  BY <2>5, <3>2, <3>3 DEF Row, v
  <2> HIDE DEF n, r, f, h
  <2> QED  BY <1>9, <2>2, <2>3, <2>4, <2>5, <2>6
<1>12. CASE \E p \in LateNearby : NeighboursReport(p[1], p[2])
  <2>1. UNCHANGED <<table, runVars, found>> /\ outside' = outside + 1 /\ calm' = FALSE
    BY <1>12 DEF NeighboursReport, FromOutside
  <2>2. TableOk' /\ FindMissing(found)' = FindMissing(found) /\ UNCHANGED <<pc, ut0, ranges, series, found>>
    BY <1>2, <2>1 DEF runVars
  <2>3. outside' \in Nat /\ calm' \in BOOLEAN
    <3>1. outside' \in Nat
      BY <2>1 DEF TypeInv
    <3>2. calm' \in BOOLEAN
      BY ONLY <2>1
    <3> QED  BY <3>1, <3>2
  <2> QED  BY <2>1, <2>2, <2>3 DEF TypeInv, Fresh
<1>13. CASE Abort
  <2>1. UNCHANGED <<table, ut0, found>> /\ pc' = "idle" /\ ranges' = {} /\ outside' = outside + 1 /\ calm' = FALSE
    BY <1>13 DEF Abort, FromOutside, tableVars
  <2>2. TableOk' /\ ranges' \subseteq FindMissing(found)'
    BY <1>2, <2>1
  <2>3. outside' \in Nat /\ calm' \in BOOLEAN
    <3>1. outside' \in Nat
      BY <2>1 DEF TypeInv
    <3>2. calm' \in BOOLEAN
      BY ONLY <2>1
    <3> QED  BY <3>1, <3>2
  <2> QED  BY <2>1, <2>2, <2>3 DEF TypeInv
<1> QED
  BY <1>1, <1>3, <1>4, <1>5, <1>6, <1>7, <1>8, <1>10, <1>11, <1>12, <1>13 DEF Next, Step, Outside

\* The table, the ranges and the series are what they should be in every state of every run.
THEOREM GapTypes == Spec => []TypeInv
<1>1. Init => TypeInv
  BY InitTypeInv
<1>2. TypeInv /\ [Next]_vars => TypeInv'
  BY StepTypeInv
<1> QED
  BY <1>1, <1>2, PTL DEF Spec

\* The body of OnlyForBetter.
OnlyForBetterStep ==
    outside' = outside =>
        \A c \in Cells :
            Read(c) /\ table'[c] # table[c] =>
                RowQuality(table'[c]) < RowQuality(table[c]) \/ (c[2] # "par" /\ ~WereKnown(c[3]))

\* No step changes a row that it has read, but for the better.
LEMMA StepOnlyForBetter == ASSUME TypeInv, [Next]_vars PROVE OnlyForBetterStep
<1>1. CASE outside' = outside + 1
  <2>1. outside' # outside
    BY <1>1 DEF TypeInv
  <2> QED  BY <2>1 DEF OnlyForBetterStep
<1>2. CASE UNCHANGED table
  BY <1>2 DEF OnlyForBetterStep
<1>3. CASE Interpolate
  <2> SUFFICES ASSUME NEW c \in Cells, Read(c), table'[c] # table[c],
                      ~(RowQuality(table'[c]) < RowQuality(table[c]))
               PROVE  c[2] # "par" /\ ~WereKnown(c[3])
    BY DEF OnlyForBetterStep
  <2> DEFINE b == <<c[2], c[3]>>
  <2>1. b[1] = c[2] /\ b[2] = c[3]
    OBVIOUS
  <2>2. Changed(series, b, series.data[b].row, table'[c])
    BY <1>3, InterpolateEffect
  <2>3. series.data[b].row = table[c]
    BY DEF Read
  <2> HIDE DEF b
  <2>4. Changed(series, b, table[c], table'[c])
    BY <2>2, <2>3
  <2>5. Doubted(series, b) /\ b \in Kinds \X series.hours
    BY <2>4 DEF Changed
  <2>6. SeriesOk(series)
    BY <1>3 DEF TypeInv, Interpolate
  <2>7. b[2] - 1 \in series.hours
    BY <2>5, <2>6, HoursTyped DEF Doubted
  <2>8. c[2] # "par" /\ \E k \in {"min", "max"} : ~(SeenQuality(series, k, c[3] - 1) < FAILED)
    BY <2>1, <2>5 DEF Doubted
  <2> QED  BY <2>1, <2>7, <2>8 DEF WereKnown
<1> QED
  BY <1>1, <1>2, <1>3
  DEF Next, Step, Outside, StartRun, SkipRange, ReadSeries, SkipSeries, EndRun, Observe, Hqc, NeighboursReport, Abort, FromOutside,
      tableVars, vars

\* OnlyForBetter: a row that is still as it was read only gives way to a better one, but for minima and
\* maxima behind an hour whose own are not known.
THEOREM GapOnlyForBetter == Spec => OnlyForBetter
<1>1. TypeInv /\ [Next]_vars => [OnlyForBetterStep]_vars
  BY StepOnlyForBetter
<1>2. OnlyForBetter <=> [][OnlyForBetterStep]_vars
  BY DEF OnlyForBetter, OnlyForBetterStep
<1> QED
  BY <1>1, <1>2, GapTypes, PTL DEF Spec

-----------------------------------------------------------------------------
(* A run that nothing disturbs.                                            *)

\* The series at hand is that of a range, and its rows still are those of the table.
CopyOf(q) ==
    /\ RangeOk(q) /\ WithinLimits(q)
    /\ series.group = q.group /\ series.hours = Window(q)
    /\ \A c \in Kinds \X series.hours :
            HasRows(<<q.group, c[1], c[2]>>) => series.data[c].row = table[<<q.group, c[1], c[2]>>]

\* Then only rows of the table that still are as they were read change.
LEMMA CalmEffect ==
  ASSUME TypeInv, Interpolate, NEW q, CopyOf(q), NEW c \in Cells
  PROVE  table'[c] = table[c] \/ (c[1] = series.group /\ Changed(series, <<c[2], c[3]>>, table[c], table'[c]))
<1> DEFINE b == <<c[2], c[3]>>
<1>1. CASE table'[c] = table[c]
  BY <1>1
<1>2. CASE table'[c] # table[c]
  <2>1. c[1] = series.group /\ Changed(series, b, series.data[b].row, table'[c])
    BY <1>2, InterpolateEffect
  <2>2. b \in Kinds \X series.hours /\ HasRows(<<series.group, b[1], b[2]>>)
    BY <2>1 DEF Changed
  <2>3. c = <<series.group, b[1], b[2]>>
    BY <2>1 DEF Cells
  <2>4. series.data[b].row = table[c]
    BY <2>2, <2>3 DEF CopyOf
  <2> QED  BY <2>1, <2>4
<1> QED
  BY <1>1, <1>2

\* A change does not take away a row or make an observation, and what still is missing did not change.
LEMMA ChangeKeeps ==
  ASSUME NEW s, NEW c, NEW r \in Rows, NEW n, n = r \/ Changed(s, c, r, n)
  PROVE  /\ RowQuality(n) = NO_ROW <=> RowQuality(r) = NO_ROW
         /\ c[1] = "par" => (RowQuality(n) = OBSERVATION <=> RowQuality(r) = OBSERVATION)
         /\ MissingFlags(n) => n = r
<1>1. CASE n = r
  BY <1>1
<1>2. CASE Changed(s, c, r, n)
  <2>1. n \in Rows /\ n # NoRow /\ r # NoRow /\ n.ftime \in 1 .. 3
    BY <1>2, RowIsThere DEF Changed, Rows
  <2>2. c[1] = "par" => r.level # "ok" /\ n.level # "ok"
    BY <1>2 DEF Changed, Doubted
  <2>3. c[1] = "par" => RowQuality(n) # OBSERVATION /\ RowQuality(r) # OBSERVATION
    BY <2>1, <2>2, QualityTyped
  <2> QED  BY <1>2, <2>1, <2>3 DEF Changed, MissingFlags
<1> QED
  BY <1>1, <1>2

\* Something that is missing is given a value, or the blame, if it is a minimum or a maximum or
\* lies between two values.
LEMMA MissingIsGiven ==
  ASSUME TypeInv, pc = "series", NEW q, CopyOf(q), NEW k \in Kinds, NEW t \in series.hours,
         MissingFlags(table[<<q.group, k, t>>]),
         k # "par" \/ Enclosed(q.group, t, Window(q))
  PROVE  /\ MissingFlags(series.data[<<k, t>>].row) /\ series.data[<<k, t>>].row.level # "ok"
         /\ Interpolated(series).data[<<k, t>>].q <= FAILED
<1> DEFINE g == q.group
           b == <<k, t>>
           c == <<g, k, t>>
           r == table[c]
           d == DiscardUnreliableMinMax(series)
           u == Interpolated(series)
<1>1. SeriesOk(series) /\ Fresh(series) /\ series.hours \subseteq Hours /\ g \in Groups /\ series.group = g
  BY HoursTyped DEF TypeInv, CopyOf, RangeOk
<1>2. c \in Cells /\ b \in Kinds \X series.hours
  BY <1>1 DEF Cells
<1>3. r # NoRow /\ HasRows(c) /\ r.level # "ok" /\ r.ftime = 0 /\ r.fmis \in 1 .. 3 /\ r \in Rows
  BY <1>2 DEF MissingFlags, TypeInv, TableOk
<1>4. series.data[b].row = r
  BY <1>2, <1>3 DEF CopyOf
<1>5. /\ SeriesOk(d) /\ d.hours = series.hours
      /\ \A e \in Kinds \X series.hours : d.data[e] = series.data[e] \/ Discarded(series, e, d.data[e])
  BY <1>1, DiscardStage
<1>6. series.data[b].q = MISSING
  <2>1. series.data[b] = Entry(g, r)
    BY <1>1, <1>2, <1>4 DEF Fresh
  <2>2. Quality(g, r) = MISSING
    BY <1>3, QualityTyped
  <2> QED  BY <1>3, <2>1, <2>2, EntryTyped
<1>7. d.data[b].q \in Needed
  BY <1>2, <1>5, <1>6, Numbers DEF Discarded
<1>8. /\ \A e \in Kinds \X series.hours : e[1] # "par" /\ d.data[e].q \in Needed => u.data[e].q <= FAILED
      /\ \A h \in series.hours :
                /\ d.data[<<"par", h>>].q \in Needed
                /\ \E x \in Points(d, "par") : x < h /\ d.data[<<"par", x>>].q \notin Needed
                /\ \E y \in Points(d, "par") : y > h /\ d.data[<<"par", y>>].q \notin Needed
                => u.data[<<"par", h>>].q <= FAILED
  <2> HIDE DEF d, u
  <2> QED  BY <1>1, InterpolatedStage DEF d, u
<1>9. ASSUME NEW h \in series.hours, IsPoint(g, h)
      PROVE  h \in Points(d, "par") /\ d.data[<<"par", h>>].q \notin Needed
  <2> DEFINE e == <<"par", h>>
             p == <<g, "par", h>>
  <2>1. e \in Kinds \X series.hours /\ e[1] = "par" /\ e[2] = h
    BY DEF Kinds
  <2>2. p \in Cells /\ HasRows(p)
    BY <1>1 DEF Cells, HasRows, Kinds
  <2>3. table[p] \in Rows
    BY <2>2 DEF TypeInv, TableOk
  <2>4. series.data[e].row = table[p]
    BY <2>1, <2>2 DEF CopyOf
  <2>5. RowQuality(table[p]) = OBSERVATION
    BY <1>9 DEF IsPoint
  <2>6. series.data[e] = Entry(g, table[p])
    BY <1>1, <2>1, <2>4 DEF Fresh
  <2>7. series.data[e].usable /\ series.data[e].q = Quality(g, table[p]) /\ Quality(g, table[p]) = OBSERVATION
    BY <2>3, <2>5, <2>6, EntryTyped, QualityTyped
  <2> HIDE DEF d
  <2>8. d.data[e] = series.data[e]
    BY <1>5, <2>1 DEF Discarded
  <2>9. OBSERVATION \notin Needed
    BY Numbers
  <2> QED  BY <1>5, <2>7, <2>8, <2>9 DEF Points, Usable
<1>10. MissingFlags(series.data[b].row) /\ series.data[b].row.level # "ok"
  BY <1>3, <1>4
<1> HIDE DEF d, u
<1>11. CASE k # "par"
  <2>1. b[1] # "par"
    BY <1>11
  <2>2. u.data[b].q <= FAILED
    BY <1>2, <1>7, <1>8, <2>1
  <2> QED  BY <1>10, <2>2 DEF u
<1>12. CASE k = "par"
  <2>1. PICK x, y \in series.hours : x < t /\ t < y /\ IsPoint(g, x) /\ IsPoint(g, y)
    BY <1>12 DEF Enclosed, CopyOf
  <2>2. series.hours \subseteq Int
    BY <1>1, HoursTyped
  <2>3. y > t
    BY <2>1, <2>2
  <2>4. /\ x \in Points(d, "par") /\ d.data[<<"par", x>>].q \notin Needed
        /\ y \in Points(d, "par") /\ d.data[<<"par", y>>].q \notin Needed
    BY <1>9, <2>1
  <2>5. d.data[<<"par", t>>].q \in Needed
    BY <1>7, <1>12
  <2>6. u.data[<<"par", t>>].q <= FAILED
    BY <1>8, <2>1, <2>3, <2>4, <2>5
  <2> QED  BY <1>10, <1>12, <2>6 DEF u
<1> QED
  BY <1>11, <1>12

\* What NothingForgotten says of a range that has been left behind.
Done(p) ==
    /\ WithinLimits(p)
    /\ \A t \in Window(p) : IsThere(p.group, t)
    /\ p.group # "RA" \/ Window(p) \intersect Emptied = {}
    =>
        \A k \in Kinds, t \in p.t0 .. p.t1 :
            MissingFlags(table[<<p.group, k, t>>]) => k = "par" /\ ~Enclosed(p.group, t, Window(p))

\* Every range that is left behind, but the one at hand, is done.
ForgetInv ==
    calm =>
        /\ pc = "ranges" => \A p \in FindMissing(found) \ ranges : Done(p)
        /\ pc = "series" => \E q \in FindMissing(found) :
                                CopyOf(q) /\ \A p \in FindMissing(found) \ ranges : p = q \/ Done(p)

\* A step that keeps what Done looks at.
LEMMA DoneKept ==
  ASSUME TypeInv, UNCHANGED ut0, NEW p, RangeOk(p), Done(p),
         \A c \in Cells : table'[c] = table[c] \/ \E s, b : b[1] = c[2] /\ Changed(s, b, table[c], table'[c])
  PROVE  Done(p)'
<1> DEFINE g == p.group
<1>1. /\ WithinLimits(p)' <=> WithinLimits(p)
      /\ Window(p)' = Window(p)
  BY DEF WithinLimits, Window, ut1
<1>2. ASSUME NEW c \in Cells
      PROVE  /\ RowQuality(table'[c]) = NO_ROW <=> RowQuality(table[c]) = NO_ROW
             /\ c[2] = "par" => (RowQuality(table'[c]) = OBSERVATION <=> RowQuality(table[c]) = OBSERVATION)
             /\ MissingFlags(table'[c]) => table'[c] = table[c]
  <2>1. table[c] \in Rows
    BY DEF TypeInv, TableOk
  <2>2. CASE table'[c] = table[c]
    BY <2>2
  <2>3. CASE \E s, b : b[1] = c[2] /\ Changed(s, b, table[c], table'[c])
    <3>1. PICK s, b : b[1] = c[2] /\ Changed(s, b, table[c], table'[c])
      BY <2>3
    <3> QED  BY <2>1, <3>1, ChangeKeeps
  <2> QED  BY <2>2, <2>3
<1>3. ASSUME WithinLimits(p)
      PROVE  Window(p) \subseteq Hours /\ p.t0 .. p.t1 \subseteq Window(p) /\ g \in Groups
  <2>1. PICK a, b \in Hours : a <= p.t0 /\ p.t1 <= b /\ a <= b /\ Window(p) = a .. b
    BY <1>3, WindowTyped DEF TypeInv
  <2>2. Hours = 0 .. LastHour /\ LastHour \in Nat /\ p.t0 \in 0 .. LastHour /\ p.t1 \in 0 .. LastHour
    BY TimeAssumption DEF RangeOk, Hours
  <2> QED  BY <2>1, <2>2 DEF RangeOk
<1>4. ASSUME WithinLimits(p), NEW t \in Window(p)
      PROVE  /\ IsThere(g, t)' <=> IsThere(g, t)
             /\ IsPoint(g, t)' <=> IsPoint(g, t)
  <2> DEFINE c == <<g, "par", t>>
  <2>1. c \in Cells /\ c[2] = "par"
    BY <1>3, <1>4 DEF Cells, Kinds
  <2>2. /\ RowQuality(table'[c]) = NO_ROW <=> RowQuality(table[c]) = NO_ROW
        /\ RowQuality(table'[c]) = OBSERVATION <=> RowQuality(table[c]) = OBSERVATION
    BY <1>2, <2>1
  <2> QED  BY <2>2 DEF IsThere, IsPoint
<1>5. ASSUME WithinLimits(p), NEW t PROVE Enclosed(g, t, Window(p))' <=> Enclosed(g, t, Window(p))
  BY <1>1, <1>4, <1>5 DEF Enclosed
<1>6. SUFFICES ASSUME WithinLimits(p), \A t \in Window(p) : IsThere(g, t),
                      g # "RA" \/ Window(p) \intersect Emptied = {},
                      NEW k \in Kinds, NEW t \in p.t0 .. p.t1, MissingFlags(table'[<<g, k, t>>])
               PROVE  k = "par" /\ ~Enclosed(g, t, Window(p))
  BY <1>1, <1>4, <1>5 DEF Done
<1>7. <<g, k, t>> \in Cells
  BY <1>3, <1>6 DEF Cells
<1>8. MissingFlags(table[<<g, k, t>>])
  BY <1>2, <1>6, <1>7
<1> QED
  BY <1>6, <1>8 DEF Done

\* The series that is interpolated is dealt with.
LEMMA DoneNow ==
  ASSUME TypeInv, Interpolate, NEW q, CopyOf(q)
  PROVE  Done(q)'
<1> DEFINE g == q.group
<1>1. /\ pc = "series" /\ RangeOk(q) /\ WithinLimits(q) /\ series.group = g /\ series.hours = Window(q) /\ UNCHANGED ut0
      /\ SeriesOk(series) /\ Fresh(series)
  BY DEF Interpolate, CopyOf, TypeInv
<1>2. Window(q)' = Window(q)
  BY <1>1 DEF Window, ut1
<1>3. Window(q) \subseteq Hours /\ q.t0 .. q.t1 \subseteq Window(q) /\ g \in Groups
  <2>1. PICK a, b \in Hours : a <= q.t0 /\ q.t1 <= b /\ a <= b /\ Window(q) = a .. b
    BY <1>1, WindowTyped DEF TypeInv
  <2>2. Hours = 0 .. LastHour /\ LastHour \in Nat /\ q.t0 \in 0 .. LastHour /\ q.t1 \in 0 .. LastHour
    BY <1>1, TimeAssumption DEF RangeOk, Hours
  <2> QED  BY <1>1, <2>1, <2>2 DEF RangeOk
<1>4. \A c \in Cells : table'[c] = table[c] \/ (c[1] = series.group /\ Changed(series, <<c[2], c[3]>>, table[c], table'[c]))
  BY CalmEffect
<1>5. ASSUME NEW c \in Cells
      PROVE  /\ c[2] = "par" => (RowQuality(table'[c]) = OBSERVATION <=> RowQuality(table[c]) = OBSERVATION)
             /\ MissingFlags(table'[c]) => table'[c] = table[c]
  <2>1. table[c] \in Rows
    BY DEF TypeInv, TableOk
  <2> DEFINE b == <<c[2], c[3]>>
  <2>2. b[1] = c[2]
    OBVIOUS
  <2>3. table'[c] = table[c] \/ Changed(series, b, table[c], table'[c])
    BY <1>4
  <2> HIDE DEF b
  <2> QED  BY <2>1, <2>2, <2>3, ChangeKeeps
<1>6. SUFFICES ASSUME NEW k \in Kinds, NEW t \in q.t0 .. q.t1, MissingFlags(table'[<<g, k, t>>])
               PROVE  k = "par" /\ ~Enclosed(g, t, Window(q))'
  BY <1>2 DEF Done
<1> DEFINE c == <<g, k, t>>
<1>7. c \in Cells /\ t \in Window(q) /\ <<c[2], c[3]>> = <<k, t>> /\ c[1] = series.group
  BY <1>1, <1>3, <1>6 DEF Cells
<1>8. MissingFlags(table[c]) /\ table'[c] = table[c]
  BY <1>5, <1>6, <1>7
<1>9. ~(k # "par" \/ Enclosed(g, t, Window(q)))
  <2> SUFFICES ASSUME k # "par" \/ Enclosed(g, t, Window(q)) PROVE FALSE
    OBVIOUS
  <2>1. /\ MissingFlags(series.data[<<k, t>>].row) /\ series.data[<<k, t>>].row.level # "ok"
        /\ Interpolated(series).data[<<k, t>>].q <= FAILED
    BY <1>1, <1>7, <1>8, MissingIsGiven
  <2>2. <<k, t>> \in Kinds \X series.hours
    BY <1>1, <1>7
  <2>3. table'[c].ftime \in 1 .. 3
    <3> HIDE DEF c
    <3>1. <<c[2], c[3]>> \in Kinds \X series.hours
      BY <1>7, <2>2
    <3>2. /\ MissingFlags(series.data[<<c[2], c[3]>>].row) /\ series.data[<<c[2], c[3]>>].row.level # "ok"
          /\ Interpolated(series).data[<<c[2], c[3]>>].q <= FAILED
      BY <1>7, <2>1
    <3> QED  BY <1>7, <3>1, <3>2, InterpolateEffect
  <2> QED  BY <1>8, <2>3 DEF MissingFlags
<1>10. ASSUME NEW h \in Window(q) PROVE IsPoint(g, h)' <=> IsPoint(g, h)
  <2> DEFINE e == <<g, "par", h>>
  <2>1. e \in Cells /\ e[2] = "par"
    BY <1>3, <1>10 DEF Cells, Kinds
  <2>2. RowQuality(table'[e]) = OBSERVATION <=> RowQuality(table[e]) = OBSERVATION
    BY <1>5, <2>1
  <2> QED  BY <2>2 DEF IsPoint
<1>11. Enclosed(g, t, Window(q))' => Enclosed(g, t, Window(q))
  BY <1>2, <1>10 DEF Enclosed
<1> QED
  BY <1>9, <1>11

\* Every step keeps that.
LEMMA StepForgetInv == ASSUME TypeInv, ForgetInv, [Next]_vars PROVE ForgetInv'
<1> DEFINE all == FindMissing(found)
<1>1. \A p \in all : RangeOk(p)
  BY RangesTyped DEF TypeInv
<1>2. ASSUME UNCHANGED <<table, ut0>>, NEW p PROVE Done(p)' <=> Done(p)
  BY <1>2 DEF Done, WithinLimits, Window, ut1, IsThere, Enclosed, IsPoint
<1>3. CASE UNCHANGED <<table, ut0, pc, ranges, series, found, calm>>
  <2>1. \A p : Done(p)' <=> Done(p)
    BY <1>2, <1>3
  <2>2. \A q : CopyOf(q)' <=> CopyOf(q)
    BY <1>3 DEF CopyOf, WithinLimits, Window, ut1
  <2> HIDE DEF all
  <2>3. FindMissing(found)' = FindMissing(found)
    BY <1>3
  <2> QED  BY <1>3, <2>1, <2>2, <2>3 DEF ForgetInv
<1>4. CASE calm' = FALSE \/ pc' = "idle"
  BY <1>4 DEF ForgetInv
<1>5. CASE \E start \in Starts : StartRun(start)
  <2>1. pc' = "ranges" /\ ranges' = FindMissing(found)'
    BY <1>5 DEF StartRun
  <2> QED  BY <2>1 DEF ForgetInv
<1>6. CASE SkipRange
  <2>1. PICK r \in ranges : ~WithinLimits(r) /\ ranges' = ranges \ {r}
    BY <1>6 DEF SkipRange, Foremost
  <2>2. pc = "ranges" /\ UNCHANGED <<table, ut0, pc, found, calm>> /\ all' = all
    BY <1>6 DEF SkipRange, tableVars, historyVars
  <2>3. Done(r)
    BY <2>1 DEF Done
  <2>4. \A p \in all : Done(p)' <=> Done(p)
    BY <1>2, <2>2
  <2> QED  BY <2>1, <2>2, <2>3, <2>4 DEF ForgetInv
<1>7. CASE ReadSeries
  <2>1. PICK r \in ranges : WithinLimits(r) /\ series' = FindSeriesData(r) /\ ranges' = ranges \ {r}
    BY <1>7 DEF ReadSeries, Foremost
  <2>2. pc = "ranges" /\ pc' = "series" /\ UNCHANGED <<table, ut0, found, calm>> /\ all' = all
    BY <1>7 DEF ReadSeries, tableVars, historyVars
  <2>3. r \in all /\ RangeOk(r)
    BY <1>1 DEF TypeInv
  <2> DEFINE s == FindSeriesData(r)
  <2>4. /\ s.group = r.group /\ s.hours = Window(r)
        /\ \A c \in Kinds \X s.hours : HasRows(<<s.group, c[1], c[2]>>) => s.data[c].row = table[<<s.group, c[1], c[2]>>]
    <3> HIDE DEF s
    <3>1. s = FindSeriesData(r)
      BY DEF s
    <3> QED  BY <2>1, <2>3, <3>1, SeriesRead DEF TypeInv
  <2>5. CopyOf(r)'
    <3>1. series' = s /\ Window(r)' = Window(r) /\ (WithinLimits(r)' <=> WithinLimits(r))
      BY <2>1, <2>2 DEF Window, WithinLimits, ut1
    <3> HIDE DEF s
    <3> QED  BY <2>1, <2>2, <2>3, <2>4, <3>1 DEF CopyOf
  <2>6. \A p \in all : Done(p)' <=> Done(p)
    BY <1>2, <2>2
  <2>7. calm => \A p \in (all \ ranges)  : Done(p)
    BY <2>2 DEF ForgetInv
  <2>8. \A p \in all \ ranges' : p = r \/ p \in all \ ranges
    BY <2>1
  <2> HIDE DEF all
  <2>9. calm => \A p \in all \ ranges' : p = r \/ Done(p)'
    BY <2>6, <2>7, <2>8
  <2>10. FindMissing(found)' = all
    BY <2>2 DEF all
  <2> QED  BY <2>2, <2>3, <2>5, <2>9, <2>10 DEF ForgetInv
<1>8. CASE SkipSeries
  <2>1. /\ pc = "series" /\ (SeriesHasMissingRows(series) \/ HasRADownStep(series))
        /\ pc' = "ranges" /\ UNCHANGED <<table, ut0, ranges, found, calm>> /\ all' = all
    BY <1>8 DEF SkipSeries, tableVars, historyVars
  <2>2. \A p \in all : Done(p)' <=> Done(p)
    BY <1>2, <2>1
  <2>3. SeriesOk(series) /\ Fresh(series)
    BY <2>1 DEF TypeInv
  <2>4. ASSUME NEW q \in all, CopyOf(q) PROVE Done(q)
    <3>1. series.group = q.group /\ series.hours = Window(q) /\ q.group \in Groups
      BY <2>4 DEF CopyOf, RangeOk
    <3>2. CASE SeriesHasMissingRows(series)
      <4>1. PICK t \in series.hours : series.data[<<"par", t>>].q = NO_ROW
        BY <3>2 DEF SeriesHasMissingRows, SeenQuality
      <4> DEFINE e == <<"par", t>>
                 c == <<q.group, "par", t>>
      <4>2. e \in Kinds \X series.hours /\ c = <<q.group, e[1], e[2]>> /\ HasRows(c) /\ c \in Cells
        BY <2>3, <3>1, <4>1, HoursTyped DEF Kinds, HasRows, Cells
      <4>3. series.data[e].row = table[c] /\ table[c] \in Rows
        BY <2>4, <4>2 DEF CopyOf, TypeInv, TableOk
      <4>4. series.data[e] = Entry(series.group, table[c])
        BY <2>3, <4>2, <4>3 DEF Fresh
      <4>5. RowQuality(table[c]) = NO_ROW
        BY <4>1, <4>3, <4>4, EntryTyped, QualityTyped
      <4>6. ~IsThere(q.group, t)
        BY <4>5 DEF IsThere
      <4> QED  BY <3>1, <4>1, <4>6 DEF Done
    <3>3. CASE HasRADownStep(series)
      <4>1. PICK a, b \in Points(series, "par"), t \in Emptied : a < t /\ t <= b /\ series.group = "RA"
        BY <3>3 DEF HasRADownStep
      <4>2. PICK x, y \in Hours : x <= y /\ series.hours = x .. y
        BY <2>3 DEF SeriesOk
      <4>3. Hours = 0 .. LastHour /\ LastHour \in Nat /\ t \in 0 .. LastHour
        BY TimeAssumption, GroupAssumption DEF Hours
      <4>4. a \in series.hours /\ b \in series.hours
        BY DEF Points
      <4>5. t \in Window(q)
        BY <3>1, <4>1, <4>2, <4>3, <4>4
      <4> QED  BY <3>1, <4>1, <4>5 DEF Done
    <3> QED  BY <2>1, <3>2, <3>3
  <2> HIDE DEF all
  <2>5. FindMissing(found) = all /\ FindMissing(found)' = all
    BY <2>1 DEF all
  <2> QED  BY <2>1, <2>2, <2>4, <2>5 DEF ForgetInv
<1>9. CASE Interpolate
  <2>1. pc = "series" /\ pc' = "ranges" /\ UNCHANGED <<ut0, ranges, found, calm>> /\ all' = all
    BY <1>9 DEF Interpolate, historyVars
  <2> SUFFICES ASSUME calm PROVE \A p \in all \ ranges : Done(p)'
    BY <2>1 DEF ForgetInv
  <2>2. PICK q \in all : CopyOf(q) /\ \A p \in all \ ranges : p = q \/ Done(p)
    BY <2>1 DEF ForgetInv
  <2>3. Done(q)'
    BY <1>9, <2>2, DoneNow
  <2>4. \A c \in Cells : table'[c] = table[c] \/ \E s, b : b[1] = c[2] /\ Changed(s, b, table[c], table'[c])
    <3> TAKE c \in Cells
    <3>1. table'[c] = table[c] \/ (c[1] = series.group /\ Changed(series, <<c[2], c[3]>>, table[c], table'[c]))
      BY <1>9, <2>2, CalmEffect
    <3>2. <<c[2], c[3]>>[1] = c[2]
      OBVIOUS
    <3> QED  BY <3>1, <3>2
  <2>5. ASSUME NEW p \in all \ ranges, p # q PROVE Done(p)'
    <3>1. Done(p) /\ RangeOk(p)
      BY <1>1, <2>2, <2>5
    <3> QED  BY <2>1, <2>4, <3>1, DoneKept
  <2> QED  BY <2>3, <2>5
<1>10. CASE EndRun
  BY <1>4, <1>10 DEF EndRun
<1>11. CASE Outside
  <2>1. calm' = FALSE
    BY <1>11 DEF Outside, Observe, Hqc, NeighboursReport, Abort, FromOutside
  <2> QED  BY <1>4, <2>1
<1>12. CASE UNCHANGED vars
  BY <1>3, <1>12 DEF vars, tableVars, runVars, historyVars
<1> QED
  BY <1>5, <1>6, <1>7, <1>8, <1>9, <1>10, <1>11, <1>12 DEF Next, Step

\* NothingForgotten: an undisturbed run leaves nothing missing between two observations, and no minimum
\* or maximum, but for ranges at the ends of the window, next to missing rows or across an emptied bucket.
THEOREM GapNothingForgotten == Spec => []NothingForgotten
<1>1. Init => ForgetInv
  BY DEF Init, ForgetInv
<1>2. TypeInv /\ ForgetInv /\ [Next]_vars => ForgetInv'
  BY StepForgetInv
<1>3. TypeInv /\ ForgetInv => NothingForgotten
  <2> SUFFICES ASSUME TypeInv, ForgetInv, EndOfCalmRun, NEW g \in Groups, NEW r \in RangesOf(g, found),
                      /\ WithinLimits(r) /\ \A t \in Window(r) : IsThere(g, t)
                      /\ g # "RA" \/ Window(r) \intersect Emptied = {}
               PROVE  \A k \in Kinds, t \in r.t0 .. r.t1 :
                            MissingFlags(table[<<g, k, t>>]) => k = "par" /\ ~Enclosed(g, t, Window(r))
    BY DEF NothingForgotten
  <2>1. r \in FindMissing(found)
    BY DEF FindMissing
  <2>2. r.group = g
    <3>1. \E f, e : r = [group |-> g, t0 |-> f, t1 |-> e]
      BY DEF RangesOf
    <3> QED  BY <3>1
  <2>3. Done(r)
    BY <2>1 DEF ForgetInv, EndOfCalmRun
  <2> QED  BY <2>2, <2>3 DEF Done
<1> QED
  BY <1>1, <1>2, <1>3, GapTypes, PTL DEF Spec

\* The temperatures are done.
NoTALeft == \A p \in ranges : p.group # "TA"

\* As soon as a humidity has been computed, and when one is read, the temperatures are done; what was
\* taken as 0 is not known, and will not be in this run.
HumidityInv ==
    calm =>
        /\ pc # "idle" => \A c \in found :
                c[1] = "UU" /\ table[c].corrected.zeroed # {} =>
                    /\ NoTALeft /\ (pc = "series" => series.group # "TA")
                    /\ \A t \in table[c].corrected.zeroed : ~TAKnown(t)
        /\ pc = "series" =>
                /\ series.group # "TA" => NoTALeft
                /\ series.group = "UU" => series.known = {t \in series.hours : TAKnown(t)}

\* The cell of a temperature.
LEMMA TACell ==
  ASSUME NEW t \in Hours PROVE <<"TA", "par", t>> \in Cells
BY GroupAssumption DEF Cells, Kinds

\* Every step keeps that, too.
LEMMA StepHumidityInv == ASSUME TypeInv, ForgetInv, HumidityInv, [Next]_vars PROVE HumidityInv'
<1>1. \A c \in found : table[c] \in Row /\ table[c].corrected.zeroed \subseteq Hours
  <2> TAKE c \in found
  <2>1. table[c] \in Row
    BY DEF TypeInv, TableOk, Rows
  <2>2. table[c].corrected \in Values
    BY <2>1 DEF Row
  <2> QED  BY <2>1, <2>2 DEF Values
<1>2. ASSUME UNCHANGED table, NEW t PROVE TAKnown(t)' <=> TAKnown(t)
  BY <1>2 DEF TAKnown
<1>3. CASE UNCHANGED <<table, pc, ranges, series, found, calm>>
  <2>1. \A t : TAKnown(t)' <=> TAKnown(t)
    BY <1>2, <1>3
  <2> QED  BY <1>3, <2>1 DEF HumidityInv, NoTALeft
<1>4. CASE calm' = FALSE \/ pc' = "idle"
  BY <1>4 DEF HumidityInv
<1>5. CASE \E start \in Starts : StartRun(start)
  <2>1. PICK start \in Starts : StartRun(start)
    BY <1>5
  <2>2. found' = Missing(start) /\ pc' = "ranges" /\ UNCHANGED table
    BY <2>1 DEF StartRun, tableVars
  <2>3. \A c \in Missing(start) : c \in Cells /\ table[c] # NoRow /\ table[c].ftime = 0
    BY DEF Missing, MissingFlags
  <2>4. \A c \in found' : table'[c].corrected.zeroed = {}
    BY <2>2, <2>3 DEF TypeInv, TableOk
  <2> QED  BY <2>2, <2>4 DEF HumidityInv
<1>6. CASE SkipRange
  <2>1. ranges' \subseteq ranges /\ pc = "ranges" /\ UNCHANGED <<table, pc, series, found, calm>>
    BY <1>6 DEF SkipRange, tableVars, historyVars
  <2>2. \A t : TAKnown(t)' <=> TAKnown(t)
    BY <1>2, <2>1
  <2> QED  BY <2>1, <2>2 DEF HumidityInv, NoTALeft
<1>7. CASE ReadSeries
  <2>1. PICK r \in Foremost(ranges) : WithinLimits(r) /\ series' = FindSeriesData(r) /\ ranges' = ranges \ {r}
    BY <1>7 DEF ReadSeries
  <2>2. pc = "ranges" /\ pc' = "series" /\ UNCHANGED <<table, ut0, found, calm>>
    BY <1>7 DEF ReadSeries, tableVars, historyVars
  <2>3. r \in ranges /\ \A p \in ranges : ~Precedes(p, r)
    BY DEF Foremost
  <2>4. RangeOk(r)
    BY <2>3, RangesTyped DEF TypeInv
  <2> DEFINE s == FindSeriesData(r)
  <2>5. s.group = r.group /\ (s.group = "UU" => s.known = {t \in s.hours : TAKnown(t)})
    <3> HIDE DEF s
    <3>1. s = FindSeriesData(r)
      BY DEF s
    <3> QED  BY <2>1, <2>4, <3>1, SeriesRead DEF TypeInv
  <2>6. r.group # "TA" => NoTALeft
    BY <2>3 DEF Precedes, NoTALeft
  <2>7. series' = s
    BY <2>1
  <2>8. NoTALeft => NoTALeft' /\ r.group # "TA"
    BY <2>1, <2>3 DEF NoTALeft
  <2>9. \A t : TAKnown(t)' <=> TAKnown(t)
    BY <1>2, <2>2
  <2> HIDE DEF s
  <2> QED  BY <2>2, <2>5, <2>6, <2>7, <2>8, <2>9 DEF HumidityInv
<1>8. CASE SkipSeries
  <2>1. pc = "series" /\ pc' = "ranges" /\ UNCHANGED <<table, ranges, found, calm>>
    BY <1>8 DEF SkipSeries, tableVars, historyVars
  <2>2. \A t : TAKnown(t)' <=> TAKnown(t)
    BY <1>2, <2>1
  <2> QED  BY <2>1, <2>2 DEF HumidityInv, NoTALeft
<1>9. CASE Interpolate
  <2>1. pc = "series" /\ pc' = "ranges" /\ UNCHANGED <<ranges, found, calm>>
    BY <1>9 DEF Interpolate, historyVars
  <2> SUFFICES ASSUME calm, NEW c \in found, c[1] = "UU", table'[c].corrected.zeroed # {}
               PROVE  NoTALeft /\ \A t \in table'[c].corrected.zeroed : ~TAKnown(t)'
    BY <2>1 DEF HumidityInv, NoTALeft
  <2>2. PICK q : CopyOf(q)
    BY <2>1 DEF ForgetInv
  <2>3. SeriesOk(series) /\ series.hours \subseteq Hours
    BY <2>1, HoursTyped DEF TypeInv
  <2>4. \A e \in Cells : table'[e] = table[e] \/ (e[1] = series.group /\ Changed(series, <<e[2], e[3]>>, table[e], table'[e]))
    BY <1>9, <2>2, CalmEffect
  <2>5. c \in Cells
    BY DEF TypeInv
  <2>6. ASSUME series.group # "TA", NEW t \in Hours PROVE TAKnown(t)' <=> TAKnown(t)
    <3> DEFINE e == <<"TA", "par", t>>
    <3>1. e \in Cells /\ e[1] = "TA"
      BY <2>6, TACell
    <3>2. table'[e] = table[e]
      BY <2>4, <2>6, <3>1
    <3> QED  BY <3>2 DEF TAKnown
  <2>7. ASSUME table[c].corrected.zeroed # {}, table'[c].corrected = table[c].corrected
        PROVE  NoTALeft /\ \A t \in table'[c].corrected.zeroed : ~TAKnown(t)'
    <3>1. NoTALeft /\ series.group # "TA" /\ \A t \in table[c].corrected.zeroed : ~TAKnown(t)
      BY <2>1, <2>7 DEF HumidityInv
    <3> QED  BY <1>1, <2>6, <2>7, <3>1
  <2>8. CASE table'[c].corrected = table[c].corrected
    BY <2>7, <2>8
  <2>9. CASE table'[c].corrected # table[c].corrected
    <3>1. series.group = "UU" /\ Changed(series, <<c[2], c[3]>>, table[c], table'[c])
      BY <2>4, <2>5, <2>9
    <3>2. table'[c].corrected.zeroed \subseteq series.hours \ series.known
      BY <2>9, <3>1 DEF Changed
    <3>3. NoTALeft /\ series.known = {t \in series.hours : TAKnown(t)}
      BY <2>1, <3>1 DEF HumidityInv
    <3>4. \A t \in table'[c].corrected.zeroed : t \in Hours /\ ~TAKnown(t)
      BY <2>3, <3>2, <3>3
    <3> QED  BY <2>6, <3>1, <3>3, <3>4
  <2> QED  BY <2>8, <2>9
<1>10. CASE EndRun
  BY <1>4, <1>10 DEF EndRun
<1>11. CASE Outside
  <2>1. calm' = FALSE
    BY <1>11 DEF Outside, Observe, Hqc, NeighboursReport, Abort, FromOutside
  <2> QED  BY <1>4, <2>1
<1>12. CASE UNCHANGED vars
  BY <1>3, <1>12 DEF vars, tableVars, runVars, historyVars
<1> QED
  BY <1>5, <1>6, <1>7, <1>8, <1>9, <1>10, <1>11, <1>12 DEF Next, Step

\* TemperatureFirst: no humidity of an undisturbed run took a temperature as 0 that is known at its end.
THEOREM GapTemperatureFirst == Spec => []TemperatureFirst
<1>1. Init => ForgetInv /\ HumidityInv
  BY DEF Init, ForgetInv, HumidityInv
<1>2. TypeInv /\ ForgetInv /\ HumidityInv /\ [Next]_vars => ForgetInv' /\ HumidityInv'
  BY StepForgetInv, StepHumidityInv
<1>3. HumidityInv => TemperatureFirst
  <2> SUFFICES ASSUME HumidityInv, EndOfCalmRun, NEW c \in found, c[1] = "UU", NEW t \in table[c].corrected.zeroed
               PROVE  ~TAKnown(t)
    BY DEF TemperatureFirst, Zeroed
  <2>1. table[c].corrected.zeroed # {}
    OBVIOUS
  <2> QED  BY <2>1 DEF HumidityInv, EndOfCalmRun
<1> QED
  BY <1>1, <1>2, <1>3, GapTypes, PTL DEF Spec
=============================================================================
