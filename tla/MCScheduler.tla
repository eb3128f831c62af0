---------------------------- MODULE MCScheduler -----------------------------
(***************************************************************************)
(* Small instances of the scheduler: hours of two minutes, days of three   *)
(* hours, two configuration files.                                         *)
(***************************************************************************)
EXTENDS Scheduler

Cfg(h, m, a) == [hour |-> h, minute |-> m, algorithm |-> a]

MCFiles == {1, 2}
MCNames == {"Plumatic", "NoSuchName"}
MCKnown == {"Plumatic"}

\* An hourly schedule, a daily one, and an algorithm nobody knows.
MCConfigs == {Cfg(-1, 1, "Plumatic"), Cfg(1, 1, "Plumatic"), Cfg(1, 0, "NoSuchName")}

\* Without edits and unknown names: hourly and daily, at both ends of the hour.
MCPlainConfigs == {Cfg(-1, 0, "Plumatic"), Cfg(-1, 1, "Plumatic"), Cfg(2, 1, "Plumatic"),
                   Cfg(0, 0, "Plumatic")}
=============================================================================
