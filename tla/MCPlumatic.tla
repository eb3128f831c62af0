----------------------------- MODULE MCPlumatic -----------------------------
(***************************************************************************)
(* Small instances of the pluviometer check: hours of six minutes, days of *)
(* three hours, and tables after the tests, cut down to two days.          *)
(***************************************************************************)
EXTENDS Plumatic, TLC

MCAlarms == <<[length |-> 2, max |-> 8], [length |-> 3, max |-> 10]>>

Zeros(S) == [t \in S |-> Observed(0)]
Rows(f) == [t \in DOMAIN f |-> Observed(f[t])]
Hours == Zeros({0, 6, 12, 18, 24, 30, 36})

MCLate == {<<9, 1>>, <<12, 3>>, <<13, 3>>, <<23, 5>>}

MCTables == {
    \* an interruption at a full hour, another right after UT0, and a shower before it
    Rows(4 :> 1 @@ 5 :> 1 @@ 6 :> 3 @@ 7 :> 1 @@ 9 :> 1 @@ 10 :> 3 @@ 13 :> 3 @@ 14 :> 1) @@ Hours,
    \* the station is switched off for two minutes in the rain
    Rows(7 :> 1 @@ 8 :> 3 @@ 9 :> StartBad @@ 10 :> 4 @@ 11 :> EndBad @@ 12 :> 3 @@ 13 :> 1) @@ Hours,
    \* no rain, but for 0.1 mm
    Rows(14 :> 1) @@ Hours,
    \* 1.1 mm in a day, nothing suspicious
    Rows(7 :> 1 @@ 8 :> 2 @@ 13 :> 2 @@ 14 :> 2 @@ 15 :> 1 @@ 20 :> 2 @@ 21 :> 1) @@ Hours,
    \* too much rain in two and in three minutes, and a high start of two minutes before
    Rows(8 :> 3 @@ 9 :> 3 @@ 11 :> 3 @@ 12 :> 1 @@ 13 :> 1 @@ 14 :> 4 @@ 15 :> 5 @@ 16 :> 4 @@ 20 :> 1) @@ Hours,
    \* a shower at a full hour, and no row at the full hour before
    Rows(17 :> 3 @@ 18 :> 3) @@ Zeros({0, 6, 24, 30, 36}),
    \* switched off at the start and at the end, silent in between
    Rows(3 :> EndBad @@ 8 :> 3 @@ 10 :> 1 @@ 29 :> StartBad @@ 31 :> 2) @@ Zeros({0, 6, 30})
    }
=============================================================================
