-------------------------- MODULE MCRedistribution --------------------------
(***************************************************************************)
(* Small instances of the redistribution: five days, some of the tables of *)
(* the tests cut down, and a few patterns of neighbours.                   *)
(***************************************************************************)
EXTENDS Redistribution

R(original, corrected, fmis, fd) ==
    [original |-> original, corrected |-> corrected, fmis |-> fmis, fd |-> fd, fhqc |-> 0]

Obs == R(3, 3, 4, 1)
End(v, fd) == R(v, v, 4, fd)
Dist(v) == R(Missing, v, 1, 7)

MCSeries == {
    <<Obs, MissingRow, End(2, 2), MissingRow, End(4, 4)>>,      \* two accumulations
    <<Obs, MissingRow, NoRow, End(2, 2), Obs>>,                 \* a hole
    <<Obs, Dist(10), R(6, 1, 4, 7), Dist(3), R(2, 2, 4, 8)>>,   \* bad sums
    <<MissingRow, NoRow, End(2, 2), MissingRow, End(0, 2)>>,    \* a start missing, dry
    <<Obs, MissingRow, R(BoneDry, BoneDry, 0, 2), Dist(3), R(3, 0, 4, 10)>>  \* bone dry; fd=A
    }

Near(v) == [enough |-> TRUE, mean |-> v, precip |-> v > 1, boneDry |-> FALSE]
NearDry == [enough |-> TRUE, mean |-> 0, precip |-> FALSE, boneDry |-> TRUE]
NearNone == [enough |-> FALSE, mean |-> 0, precip |-> FALSE, boneDry |-> TRUE]

MCProfiles == {
    [d \in Days |-> Near(10)],                                  \* even rain
    [d \in Days |-> Near(1)],                                   \* even drizzle
    <<NearDry, NearDry, NearDry, Near(7), NearNone>>            \* a shower, none at the end
    }
=============================================================================
