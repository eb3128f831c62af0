------------------------------- MODULE MCGap -------------------------------
(***************************************************************************)
(* Small instances of the gap interpolation.                               *)
(***************************************************************************)
EXTENDS Gap, TLC

Series(S, r) == [c \in S |-> r]
Cell(g, k, T) == {g} \X {k} \X T
\* A table in which everything is observed, but for some cells.
Table(changes) ==
    [c \in Cells |->
        CASE c \in DOMAIN changes -> changes[c]
          [] c \notin DOMAIN changes /\ (c[2] = "par" \/ c[1] \in HasMinMax) -> Observed
          [] OTHER -> NoRow]
AllMissing(g, T) == IF g \in HasMinMax THEN Series({g} \X Kinds \X T, Missed) ELSE Series(Cell(g, "par", T), Missed)

\* A row that an earlier run has interpolated, between a minimum and a maximum.
Filled(t) == [Missed EXCEPT !.ftime = BAD, !.fmis = 1, !.corrected = Value("minmax", {<<"min", t>>, <<"max", t>>})]

Kept == [Missed EXCEPT !.ftime = GOOD, !.fmis = 1, !.corrected = Value("neighbours", {})]
Failed == [Missed EXCEPT !.ftime = FAILED]

MCTables == {
    Table(AllMissing("TA", {5, 6, 10}) @@ AllMissing("UU", {9})),
    Table(AllMissing("TA", {4 , 5, 6, 7}) @@ AllMissing("UU", {5, 6, 8})),
    Table(Series(Cell("TA", "par", {5, 6, 7}), Missed) @@ Series(Cell("TA", "min", {6}), Missed)),
    Table(Series(Cell("TA", "min", {5, 7}), Missed) @@ Series(Cell("TA", "par", {9}), Filled(9))),
    Table(Series(Cell("TA", "par", {1, 2, 3}), Unchecked) @@ AllMissing("TA", {4}) @@ AllMissing("UU", {4})),
    Table(AllMissing("TA", {5}) @@ Series(Cell("TA", "par", {7}), NoRow) @@ AllMissing("UU", {5})),
    Table(Series(Cell("TA", "par", {3, 8}), Rejected) @@ AllMissing("TA", {6}) @@ Series(Cell("UU", "par", {6}), Rejected)),
    Table(Series(Cell("RA", "par", {3, 4, 8}), Missed)),
    Table(Series(Cell("TA", "par", {2, 5}), Missed) @@ Series(Cell("TA", "par", {0, 1}), Kept) @@ Series(Cell("TA", "par", {4}), Failed)
            @@ Series({"TA"} \X {"min", "max"} \X Hours, Failed)),
    Table(Series(Cell("TA", "par", {3, 4, 5, 6}), Filled(5)) @@ Series(Cell("TA", "par", {8}), Missed))
    }
MCNearby == {[g \in Groups |-> {}], [g \in Groups |-> {4, 6}]}
MCOther == {<<"TA", "par", 6>>, <<"UU", "par", 5>>, <<"TA", "min", 7>>}
MCLate == {<<"TA", "par", 5>>, <<"TA", "min", 6>>, <<"UU", "par", 6>>}
MCLateNearby == {<<"TA", 5>>}
MCHqc == {<<"TA", "par", 6>>, <<"TA", "max", 5>>}
=============================================================================
