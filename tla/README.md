# A TLA+ model of kvqc2d

kvqc2d is the daemon of the weather service's observation database *kvalobs* that runs the second stage of its
quality control (QC2). It reads rows from the database, corrects or fills in values, writes them back with
changed flags, and announces the changes on a Kafka topic. This directory holds TLA+ modules that model the
core of it, the TLC configurations that check them, and proofs of what matters most.

    tlc -config SchedulerLives.cfg MCScheduler     # and so on, see "Runs"
    tlapm SchedulerProofs.tla                      # and every other *Proofs.tla, see "Proofs"

`PROJECT.json` lists components, runs, mutants, hazards, findings and theorems, and maps each definition to the
lines of the source it models.

## Inventory

| Component | State | Operations | What is hard about it | What makes it correct |
|---|---|---|---|---|
| Scheduler: `AlgorithmRunner` | `lastEnd`, the scan's `now`, the queue | scan, parse, run the queue, sleep | algorithms take longer than a minute; the wall clock; configuration files change; restarts; signals | each slot is run once, in order; none is lost for being late; it stops on a signal, not in the middle of a queue |
| Dispatcher: `AlgorithmDispatcher` | the algorithm objects, which keep members | `select`: configure, check, run | exceptions; members left over from the configuration before | an exception ends one algorithm, not the daemon |
| Process: `Qc2Main`, `Qc2App` | `sigTerm`, the producer thread | start, `isShuttingDown`, destruction | signals at any moment, the thread's 15 seconds | it ends when told to |
| Store: `Qc2Algorithm::storeData`, `SQLDataAccess`, `KvalobsDB`, `KvalobsDbGate` | the connection | SELECT; INSERT and UPDATE in one transaction; rollback; connect | refused statements, lost connections, unknown outcome of a COMMIT | all or nothing; no algorithm runs in a failed transaction; a failed update reconnects |
| Broadcaster: `KvServicedBroadcaster` | `mDataList` | `queueChanged`, `sendChanges` | commit and send are two steps; a busy or failing service; crashes | only committed changes, in order, none twice |
| Redistribution: `RedistributionAlgorithm`, `DataUpdate`, `NeighborsDistance2` | endpoints read, `lastObstime`, the accumulation | `checkEndpoint`, `findMissing`, `checkAccumulationPeriod`, distribute, write | other processes change the table between reading and writing; rounding; a second run over what the first wrote | amounts are kept; a second run changes nothing; HQC's rows are left alone; nothing is forgotten |
| Configuration: `AlgorithmConfig`, `ConfigParser` | members of the algorithm objects, requested keys | `SelectConfigFiles`, `Parse`, getters | objects are configured again and again; a getter throws half way | a configuration means the same whatever ran before |
| Flags: `FlagPattern(s)`, `FlagChange`, `FlagUpdate` | permitted and forbidden bits | `parse`, `matches`, `sql`, `apply` | two evaluations of one pattern | `sql` selects what `matches` accepts |
| Plumatic: `PlumaticAlgorithm` | a list of updates, one for each minute read | silent times, showers, sliding sums, days, write | the list changes under the loops; the window moves; a second run ignores what the first marked | what does not look like rain is marked once, HQC's rows are left alone, days follow the neighbours |
| Gap interpolation: `interpolation/` | a series of rows, each with a quality and a value | find ranges, read, five methods one after the other, write | order of parameters; rows that were computed from others; what one run leaves to the next | all that can be filled is filled or marked as failed; rows change only for the better; values do not rest on each other |
| Dip test: `DipTestAlgorithm` | the candidates read, the map of deltas | find rows around a candidate, mean or curve, write two rows | the correction of one candidate changes what the next one meets; two ways of reading the rows around | a dip is corrected with the row behind it, from its own series; a second run changes nothing |
| Single linear: `SingleLinearAlgorithm` | the missing rows read | fill in, take back | what was filled in earlier; neighbours that become bad or arrive late | each value put in is the mean of two good neighbours; operators' rows are left alone |
| AggregatorLimits | parameters and their limits | read, mark, write all together | limits kept in lists by the day of the year | what is out of its limits is marked |
| StatisticalMean | references, stations, a window over days | values of days, means, checks | accumulators shared by all instruments; references kept from one query to the next; a loop that stops early | means are those of the window; references are those of the run; the suspicious stations are warned about, and no others |
| Logging, time, instruments, mathematics | — | — | sequential helpers | — |

How they interact: one thread runs the scheduler; the scheduler calls the dispatcher, which calls one algorithm
at a time; algorithms read through `DBInterface` and write by `storeData`, which commits and then hands the
changes to the broadcaster, which gives them to the producer thread of Kafka. Concurrent with that thread are
the producer thread, the signal handler, the system clock, the people who edit configuration files, the database
server, and the other programs that write to the same table (data arriving, QC1, the operators of HQC, the
cleanup job). There are no locks: the program's protection against these others is one SQL transaction around
the writes, without the reads.

## Modules

    SlotLedger        what the scheduler promises             ChangeFeed       what the store promises
       ^ implemented by                                           ^ implemented by
    Scheduler  <- MCScheduler, SchedulerProofs                Store   <- MCStore, StoreProofs
    Redistribution  <- MCRedistribution, RedistributionProofs
    Plumatic        <- MCPlumatic, PlumaticProofs
    Gap             <- MCGap, GapProofs
    Flags  <-  Configs  <-  RowChecks  <- MCRowChecks, RowChecksProofs
    Statistics      <- MCStatistics, StatisticsProofs
    FiniteInduction  <- all *Proofs but those of Scheduler and Store (lemmas; nothing of the program)

**Scheduler** has one action per step of `AlgorithmRunner::runAlgorithms`: `BeginScan` (lines 69-82), `ParseFile`
for each file (84-97), `ScanDone`, `RunSlot`/`SkipSlot`/`FatalSlot` for each queued slot (100-106), `Finish`,
`EndQueue` (108-110), `Wake` (112-113). Time is in minutes, as the code sets seconds to zero; the length of an
hour and of a day are parameters. Files are numbers in the order of their names, because the code sorts names and
a `multimap` keeps equal keys in the order of insertion. The surroundings are `Tick` and `SetBack` of the clock,
`Edit`, `Signal`, `Crash` and `Start`. The clock stands still while a scan or the bookkeeping between two algorithms
takes place: only `BeginScan` reads it, so a minute that ends in them can be counted before or after. Not modelled:
errors of the file system while the directory is read, and `--run-config`, which runs single configurations without
the loop.

**SlotLedger** is the promise without files, windows or queues: slots are taken up one at a time, each after every
slot in the ledger; only time taken back (restart, clock set back) removes slots, the latest first.

**Store** follows one call of `storeData` from the transaction to the producer thread: `Store`, `ExecOk` /
`ExecRefused` / `ExecUnanswered`, `Handler` (rollback, reconnect), `Queue`, `Sent` / `Refused` / `Busy`, and around it
connecting, reading (`Read`, `ReadFails`, which does not reconnect) and the end of the process (`Unwind`, `Join`).
A batch is what one call writes; its contents do not matter, so it is a number. `conn` is what the server and the
client know of the connection: `up`, `aborted` (inside a failed transaction), `broken`, or `none`.
`Answers` are those of the `Broadcaster`'s contract (sent, refused, busy); the service in `Qc2App` always says sent.
`CutOff` and `Crash` decide whether a transaction that was under way is committed.
A failing read that throws something else, retries on `SQLBusy` and exceptions out of `connect` are not told apart
from the failures that are there (see the hazards).

**ChangeFeed** is the promise: the topic carries committed batches, in the order of commits, none twice. It does not
promise that every commit is published, because the program cannot.

**Redistribution** is one station's part of `RedistributionAlgorithm::run`: `StartRun` (the endpoints are read, once),
`SkipEndpoint`, `LookBack` (`findMissing` and `checkAccumulationPeriod`, one read of the rows),
`DistributeBoneDry` / `DistributePrecipitation` / `CannotDistribute`, `UpdateOrInsertData` or `InsertRefused`, `EndRun`.
Stations share nothing but the run, which resets `lastObstime` for each. Rows hold original, corrected and the flags
fmis, fd and fhqc; other flags, cfailed and useinfo are not read by the algorithm with its default patterns. Values
are tenths of a millimetre, which is what `round1` rounds to; the neighbours of a day are reduced to what the code
takes from them: enough of them, their weighted mean (in tenths, too), some with precipitation, all bone dry. An
UPDATE writes corrected and flags, not the original, and does nothing without a row. From outside come `Cleanup`,
`Observe` (QC1), `Hqc`, `NeighboursReport` and `Abort`. A day has one row, at the measurement hour; rows at other
hours, foreign stations and the pattern `warn_and_stop` (default: never) are left out.

**Plumatic** is the run of `PlumaticAlgorithm` for one station and type; the code repeats it for each. `CheckStation` reads
the rows of the window and of the time before it that showers and sums reach back (`UT0extended`), and makes a list of
updates. On this list work, in this order: `DiscardAllNonOperationalTimes` (markers -5 and -6, and silence of more than an
hour, which gets made up marks), one `RainInterruption` or `OtherShower` for each turn of the loop of `checkShowers` until
`NoMoreShowers`, one `CheckSlidingSums` for each alarm, `SkipFirstDay` and a `LeaveDay` or `CompareDay` for each day of
`checkNeighborStations`; `StoreUpdates` or `StoreRefused` is the transaction at the end. Iterators are positions in the
list, which move when rows are inserted. Values are tenths of a millimetre, sums exact. Rows hold original, corrected and
the flags fmis, fs, fhqc and fw, those that the default patterns and flag changes name; fr=9, which is discarded as fs=8 is,
is left out. Of the neighbours of a day the model keeps which of three answers they give: too few of them, all wet, or
anything else. From outside come `Observe`, `Hqc`, `NeighboursReport` and `Abort`. `PlumaticAlgorithm.cc:350` looks at a
row behind the end of the list to get its station; as nothing of it is used or written, the model does not.

**Gap** is the run of `GapInterpolationAlgorithm` for one station and type. `StartRun` is `findMissing`: the missing hours of a
parameter, its minimum and its maximum, joined to ranges. They are taken temperatures first, each parameter's in the order of time (`Foremost`; the
order of the other parameters, which do not depend on each other, is left open). Each range is left out (`SkipRange`), or read
(`ReadSeries`), and then given up (`SkipSeries`) or interpolated and written (`Interpolate`, one transaction). `Interpolated` is
the chain of `interpolateMissingRange`: doubtful minima and maxima are discarded, good observations of another type taken,
then values between minimum and maximum, from the neighbours or from a curve, then minima and maxima from the values. A row
holds what `useinfo(2)` says of its original, the flags ftime, fmis and fhqc, and the corrected value; the value is not a
number but names the method and the hours it was computed from, and for humidities the hours whose temperature was taken
as 0. Whether the neighbours give a value near enough is given for each hour (`near`). Model data are never filled in by the
code and count as not there (what `kvModelData` holds at first is not known here, it belongs to kvalobs). Also outside `src/`
is `setUseFlags`: the model assumes that a row that was given a value has `useinfo(2)` of 2 or 3, and that the other flags of
useinfo stay. The collected rain RA is interpolated like a temperature without minimum and maximum, unless its bucket was
emptied between two points (`HasRADownStep`): a constant names the hours before which it was. Left out are stations abroad,
humidities of 0 or 100, which have no dew point, and values that do not differ from those that are there.

**Flags** holds no state: it is the algebra of control and use flags. A pattern is a set of permitted and one of forbidden values
for each flag; `Matches` is `matches()`, and `Sql` the condition that the same pattern becomes: none, `0=1`, or for each flag that
is constrained a test against the shorter of two lists of values, IN or NOT IN. `Selects` is what the database does with it.
`FlagPatterns` are alternatives, `FlagSetCU` one for control and one for use flags. An empty operand of OR (an alternative without
constraints next to others) is a statement that the database refuses (`Refused`). Texts are lists of terms; what the parsers accept
is `NamesParsed`, `PlacesParsed`, `UpdateParsed`; `ParsePatterns` and `ParseChange` keep what was read before an error.

**Configs** is a configuration file: its lines (`Load`), the time window (`Window`), and one operator for each getter of
`AlgorithmConfig`, which returns whether it throws and what is in the member afterwards; `Unrequested` is the check that every
setting was asked for.

**RowChecks** is `AlgorithmDispatcher` with the three algorithms that look at a row and what is next to it. `Select` is
`select()`: the object of the algorithm, which has lived since the first run, is configured by the calls of `configure()` in their
order (`Calls`), until one throws. Then `ReadRows` reads for one parameter (`ReadRefused`: the database refuses the text). The dip test and the single linear interpolation take one row at a time, and each query
is a step of its own: `CompareRows` reads the rows around a candidate, `TryAkima` those for the curve and makes the new rows,
`CompareNeighbours` does both for a missing row, and `StoreChanges` is the transaction that comes after them, with rows as they were read
(`work` is what is at hand between). `CheckLimits` writes all rows together. The algorithms differ in
`Calls`, in what they read and in what they do with a row; they share everything else, and other files of the same directory may be run
between. Rows arrive (`Observe`), are edited (`Hqc`) and runs fail (`Abort`) between any two steps; `meanwhile` are the rows that did so since the
rows of a run were read. Means are rounded to tenths as `round1` does it, half a tenth going away from zero. A value remembers which rows it was
computed from. Full hours matter to the dip test, so times are minutes. The gap interpolation, the redistribution and the plumatic are
here with their `configure()` only, and that they run: what they do then is in their own modules. Left out are cfailed, which no condition reads, and the settings for it, for missing and for rejected values, which are not
members of the objects here; several types,
and `ParseParValFile` with a file that is malformed (it then uses indeterminate values, or does not end).

**Statistics** is `StatisticalMean` from `configure()` to the warnings: `ReadRows` (rows and the values of days), `NewStation`,
`SlideDay` and `EndStation` (the window over the days of each instrument, lines 171-202), then for each station and day `NewCenter`,
`FindStations` and `CheckNeighbor` until the loop stops, and `EndNeighbors`. The accumulators and checkers of means, sums and
quartiles are operators that take the kind; references are loaded by `NewCenter` when they are first wanted, and for TA are made into means in the
way the code does it. `Abort` is a query that throws. Values are whole numbers, a quotient is rounded down. The year is a parameter, so that one
with eight days and a leap day can be checked. Left out are warnings about too few values.

Operators marked *mutant* in a comment are not part of the model: they are plausible mistakes in the definition that
follows, and each property is checked to fail with one of them.

## Runs

| Run | Configuration | What it asks |
|---|---|---|
| scheduler_lives | 2 files, 2 lives, 1 edit, 5 minutes of 2-minute hours | Does the loop implement `SlotLedger`, drain its queue, survive broken files, stop on a signal? |
| scheduler_clock | 2 files, 8 minutes, hourly and daily schedules, 1 step back | Is a slot lost, whatever algorithms take? Only if the covering scan comes in a later hour or day. |
| scheduler_held_up | as above, 9 minutes | *violation*: the comment that an hourly algorithm held up for two hours is run once |
| store_feed | 3 batches, 2 outages, 1 lost message, 2 lives, any answer | Does the store implement `ChangeFeed`, account for each batch, leave no open transaction, reconnect, stop? Is each committed batch published, unless process or message is lost? |
| redistribution_runs | 5 days, 5 tables, 3 profiles of neighbours, 3 events from outside | Are sums kept up to rounding, HQC's rows left alone, is a second run quiet? Does a run leave anything that could be redistributed? |
| redistribution_errors | 1 event | *violation*: an accumulation reported to have errors is not redistributed |
| plumatic_runs | 2 windows of 24 minutes over 37 minutes of 6-minute hours and 3-hour days, 7 tables, 3 events from outside | Which minutes are marked, is a second run quiet, are HQC's rows left alone, what is refused, do days follow the neighbours, does the run end? |
| gap_runs | 2 windows of 10 hours over 12 hours, 10 tables with and without neighbours, 2 events from outside | Is everything filled or marked, temperature first? Does a run change a row for anything but a better one? Do values rest on each other? |
| gap_frost | the same in frost, no events | *violation*: the changelog's statement that humidities use interpolated temperatures |
| row_checks | 25 files in 13 directories of two or three, 10 tables, 1 event from outside, at most 4 parameters in the list of the gap interpolation (`MaxInfos`) | Does a configuration mean the same whatever ran before? Do the database and `matches()` agree on rows? Are dips corrected in pairs, values filled in means of two good neighbours, limits applied? Is a second run quiet, are HQC's rows left alone? |
| dip_sensors | the same | *violation*: the changelog's statement that the dip test does not mix sensors |
| statistics | 7 settings, 2 tables, 6 stations, windows of 2 and 3 days in a year of 8 days with a leap day, 1 run cut short | Do windows hold the days they should? Are references those of the run, are exactly the suspicious stations warned about? |

Why the bounds are enough. *Scheduler*: two files give every order and collision of two slots; an hour is two minutes and
a day three hours, so that scheduler_lives crosses the border of an hour and the two runs of the clock, with 8 and 9
minutes, that of a day, too; an algorithm may last as long as the clock runs, so windows of every length up to that come up. *Store*: three batches give one on the topic, one on its way and one in
the list; a second outage hits the handler of the first; the second life starts after any crash. *Redistribution*:
five days hold two accumulations in a row with a missing day each, the tables are cut from the repository's tests
(a hole, bad sums, a start missing, fd=A, bone dry), and three events allow an edit, the cleanup of a row and a late
arrival in one run, or a broken run between two good ones. *Plumatic*: the two windows overlap, and a full hour, a
morning and the begin of a window lie in the middle of showers; the tables follow the repository's tests (an interruption, a
station switched off in the rain, dry and wet days, high single values and starts, too much rain in two and in three
minutes, silence). Three events allow a late row, an operator's edit and a changed neighbour between the first and
the second run of a window. *Gap*: the distances are scaled down (2 hours between missing ones for 3, 2 hours around a range for
3, 1 at the ends for 2, long gaps from 4 hours for 13, curves from 4 points for 5), in their order, so that windows hold one
range, two joined ones or two that overlap, long gaps and short ones, points enough or not; the tables hold gaps of one to four
hours in values, minima or both, rows that are unchecked, rejected, not there or from an earlier run, two ranges of which one is filled from hours that the other
has just been given, minima and maxima that all failed, and a humidity with and without its temperature. Two events allow a late row before the write and another one before the next run, or a failed run between; the bucket
of the collected rain is emptied in the middle of a gap. *Row checks*: two or three files of a directory give any order of two
configurations on one object, and any order of a getter that throws, a text that the database refuses and a good file; the tables
hold what each branch looks for (rows enough for a curve or not, rows half an hour apart, two dips that share a row, one missing
row or two, one filled in before, one in frost, the first day of the year). One event is an edit, a late row or a failed run, between any two
steps of the first run or of the second, so also between what a run reads for a row and what it writes. *Statistics*: windows of two and three days slide over three days of checks; one station
deviates more and more, one for a day, some have rows or references missing, one is too far away, one lies abroad; all kinds of
accumulator occur, and a second run follows the first with another parameter. Deadlock is checked in all but the scheduler and the
store, which really stop when their lives are used up.

**Fairness.** `WF_vars(Daemon)`, `WF_vars(Thread)`: a live process executes its next statement, and algorithms, which
are loops over finite lists, return; in the store the loop of reads of an algorithm ends (`SF_vars(Return)`) and the
producer thread sends what it has (`WF_vars(Deliver)`). Nothing is assumed of the surroundings: no signal, no repair of
the server, no arriving row is fair.

The other modules need no fairness. `RunEnds` of the plumatic says of each step that less is left to do, and TLC that there
always is a step. What a run of the redistribution or of the gap interpolation must have done is stated of the state at its end
(`NothingReadyStays`, `NothingForgotten`).

### What the runs found

* **Hourly algorithms can be skipped altogether** (`AlgorithmRunner.cc:79` and 88). A late scan sees only the slot of
  its own hour. If that is still to come, the slots of the hours in between are lost, where the comment expects one run.
* **Accumulations with errors are redistributed** (`RedistributionAlgorithm.cc:270`). If the sum is wrong as well and
  fd is 7 or 8, `stop = !fix` forgets the errors found before, which HQC is told about.
* **Humidity is interpolated with a temperature of 0 degrees** (`GapInterpolationAlgorithm.cc:430`, `GapData.cc:109`). The
  temperatures read with a humidity are tested against the limits of the humidity, so that in frost they are dropped; a
  temperature not known should be MISSING_VALUE, but the vector starts with zeros. The test `GIT_UUSeries.cc`, at -9
  degrees, does not tell the difference: from 0 degrees to a dew point and back at 0 degrees is nearly the same humidity. `TemperatureFirst`
  is what holds: temperatures inside these limits are interpolated before they are needed, and used.
* **The dip test mixes sensors** (`DipTestAlgorithm.cc:198`). The six rows for the curve are read without sensor and level, unlike
  those for the mean; a row of another sensor takes the place of a missing one. `DipsInPairs` is what holds: the row that is corrected
  and the one behind it are of one series, with no row between them but what came after they were read.

A note on the redistribution: 0.2 mm over three equally rainy days become 3 x 0.1 mm, because no day reaches the threshold of the
correction (`RedistributionAlgorithm.cc:588-600`), and only a warning is logged. `DriftBounded` is what holds: the sum is off by at
most half a tenth a day.

Notes on the plumatic, which its properties state as conditions. A second run ignores the rows the first one marked
when it looks for silence, and may put the marks of a silence behind a marked row that is later. The list is then out
of order (`InOrder`), a shower is cut in two and its second minute marked: `RerunQuiet` and `MarksStartShowers` need the
list in order. And a row that was dropped because the station was switched off is inserted again if it lies in an
interruption of rain; the database refuses this, and the exception ends the run (`RefusedForReason` says that without a
change from outside this is the only way). Besides, the loop at `PlumaticAlgorithm.cc:281` tests `mark` where it means
`mark2`, so its warning never comes. Showers are cut at UT0 although earlier rows are read (line 567): a high value at UT0 is
marked as a start although it rained in the minute before (`MarksStartShowers` excepts that minute). Neither does a first run
always keep the list in order: a row that has the alarm value, counts as dry and was approved by HQC stays in an interruption of
rain, and the marks made up for a later interruption go behind the row at which the search for it stopped, which may then be later than they are.
The rows of the window are found by walking from the alarm until a time lies outside it, so the sum is then of fewer rows:
`SumsAreWindows` is about lists in order, too. The attempt to prove it without that condition is what showed this.

Notes on the gap interpolation. `findSeriesData` does not look at fhqc, so a value that an operator has interpolated is
replaced if a missing hour is near. Rows with `useinfo(2)` of 9 are UNUSABLE and stay as they are, where the changelog (line
158) says "like missing". A row that failed has a corrected value outside the limits, if limits are given, and is never tried
again; and a minimum that failed makes the observed ones of the next hour doubtful, which are discarded and computed. The conditions in
`MinMaxReconstruction.cc:97` and 107 leave out the hours that are usable, the others count.

A second run of the gap interpolation may well change rows, so no property says that it does not. One range may be filled from hours that another
range of the same run is given only later: let hour 2 be missing between three known hours, and hour 5 be missing behind hour 4, which failed in
an earlier run and has a neighbour now. The first run gives hour 4 a good value when it comes to hour 5; the second run then has four points for
hour 2. As both ranges read hours of the other, minima and maxima that had failed are computed in one range and discarded as doubtful in the
other (`GapInterpolationAlgorithm.cc:298-314` and 507-523, `MinMaxReconstruction.cc:120-165`): the minimum of hour 1 becomes bad, and that of hour 4, which was bad,
fails again. `OnlyForBetter` is what holds: values, and minima and maxima behind an hour with good ones, only get better, so they come to rest; and the values that hours
were given do not, in the end, rest on themselves (`NoCircle`). The table of this example is one of those that `gap_runs` checks.

Notes on configurations. `getFlagSetCU` takes its defaults only if neither half is configured: if one is, the other half keeps what
the object had, and so does a half whose default is empty. `dip_before_uflags` of one file thus stays for the files after it, and a
file that says `NotSet` for the deltas keeps those of the file before. `NothingLeftOver` excepts these members and says that all others
are those of the file. A getter that throws leaves the members before it configured and those after it as they were; as `run()` is
not reached, no row is looked at with such a mixture. Of two limits for one parameter the last counts on the first day of the
year and the first on all others. The gap interpolation appends the `ParameterInfo` lines of its file to a list that it never empties
(`GapInterpolationAlgorithm.cc:131`), and takes the first entry of a parameter: limits that are changed in the file are not used
before the daemon is restarted, and parameters of another file of the same algorithm are interpolated with the types of this one.
`NothingLeftOver` says of this list no more than that it ends with what is in the file.

Notes on the row checks. A value that the single linear interpolation has taken back has ftime=1 and fmis of 3 or 2, and the default
flags never fill it in again. The candidates of the dip test are read once: where a pattern of `dip_before` permits fs=9, a row is
compared with the value before it that was read before that was corrected. `delta` is truncated to a whole number on its way from the file
(`DipTestAlgorithm.cc:102`).

Notes on the statistics. The comment at `StatisticalMean.cc:300` promises the mean of the last mDays days. The window is filled before
the first of January one day too early (line 314), so that day 365 is never pushed; but it is popped (line 331), and from then on the mean is that of
mDays + 1 days less the value of day 365: with references from 47 to 54 in a year of eight days and two days of window the third
day gets 45, not 48. `OwnReferences` says that references are what the code makes of the rows, not that this is what the comment wants. PR is
compared with 1014, where `doc/StatisticalMean.md` has `ref_value` from the table. A neighbour without a reference counts as not deviating in
the check of quartiles. The median of an empty half of a list is 0. And since references are kept by their key alone, a run cut short
by an exception leaves its own to the next run, whatever its parameter: `OwnReferences` and `WarnedAboutSuspicious` leave such a next run out.

A note without a run: an operator's edit between the reading of a row and its being written is overwritten, as reads
are outside the transaction. `HqcKept` says exactly this much: outside that window his rows are safe. For the row checks the window begins when
the candidates of a run are read (`meanwhile`), and `DipsInPairs` leaves out the same rows; in an undisturbed run (`RerunQuiet`, `MeansHold`, `LimitsMarked`) nothing comes
into it. `OnlyForBetter` of the gap interpolation leaves out rows that are no longer as they were read.

## Proofs

TLAPS proves these for every value of the constants that satisfies the named assumptions (which TLC evaluates).

* `SchedulerKeepsLedger`, `SchedulerTypeCorrect`, `SchedulerSurvivesScan`, `SchedulerDrains`, `SchedulerLedgerGrows`. `LedgerKept` alone is not inductive: that a
  queued slot follows everything in the ledger depends on `lastEnd`. `WindowInv` says so: between scans everything taken
  up lies at or before `lastEnd`, everything queued after it and at or before `now`, and while the queue is run what was
  taken up precedes what is left. `SchedulerInvariant` is its conjunction with the types; each step then maps to a step
  of the ledger or a stutter. `SchedulerDrains`: the daemon stops in order only behind its loop, which it leaves with an empty queue.
  `SchedulerLedgerGrows` needs that `lastEnd` is never ahead of the clock while the clock has not been set back (`GrowInv`).
* `StoreKeepsFeed`, `StoreTypeCorrect`, `StoreLeavesNoTransaction`, `StoreAccounts`. That the topic is in order needs that
  the pipeline is: batches on the topic come before those in each message of the producer, these before those of the next
  message, these before the list in memory, and these before the batch being written. `StoreInvariant` says this.
  `StoreAccounts` adds that committed batches are exactly those on the topic, in the pipeline or lost, and that these
  places are apart.
* `SchedulerLosesNoSlot`. What was lost is lost by a scan that looks at too short a window, so the invariant (`LossInv`) accounts for
  the window itself: `lastEnd` is the end of the last scan, and each slot up to it is in the ledger, in the queue, or belongs to a
  file that the scan under way has still to parse.
* `RedistributionKeepsHqc`. While an accumulation is at hand, all its rows were read with fhqc 0 or 4 (`AccInv`); distributing
  keeps what was read; only `UpdateOrInsertData` writes to the table.
* `RedistributionTypes`: rows keep their ranges. The code stores whatever its neighbours make of an accumulation, so this needs that
  days have profiles of neighbours (`TypeInv`) and that shares and corrections of them are natural numbers: the loop that corrects
  the rounding (a recursive function, with `FixStates` as the invariant of its turns) takes from a day only what is above the threshold.
* `RedistributionDriftBounded`: distributed values of an accumulation sum up to it within half a tenth a day. For the sum T of the means, a day's
  share of the accumulation A has twice its value times T between 2Am - T and 2Am + T; added up over the days and divided by T
  this is the bound, and the correction only ever brings the sum nearer.
* `RedistributionRerunQuiet`. An endpoint is `Done` if, whatever a run makes of the accumulation it finds for it in the table as it is,
  no row of it needs to be written. The invariant (`QuietInv`) is that in an undisturbed run all endpoints are done up to the one being
  looked at (`Upto`), which has its accumulation at hand (`AtHand`), and that all are done once such a run has ended. A transaction
  keeps this: a hole or a missing point becomes a missing point with a value (fd 7), an endpoint an endpoint (fd 8) with
  the same original (`StoredKeeps`), so reading starts and ends where it did (`StoredFrom`, `StoredBoundary`), and no
  other endpoint has a day of this accumulation (`StoredOthers`). For the one that was written, the values depend only on the days, the original
  of the endpoint and the neighbours (`Alike`), the loop has one result (`OneResult`), and marking a marked row with the same value changes
  nothing (`MarkedAgain`). An accumulation that could not be distributed is done as well: its neighbours are the same (`CannotQuiet`).
* `RedistributionNothingReadyStays` follows from the same invariant: an accumulation that is `Ready` would be found by a run (`SomeFrom`, `ReadyBoundary`),
  pass its check (`ReadyAccepted`) and be distributed (`ReadyCan`, `SomethingMade`), and its endpoint would get another fd; so its endpoint is not done
  (`ReadyNotDone`). The neighbours' total must be no more than a thousand times what was accumulated, as the code has it (`scale < 0.001f`, `RedistributionAlgorithm.cc:565`).
* `PlumaticTypes`, `PlumaticHqcKept`, `PlumaticRunEnds`, `PlumaticSumsAreWindows`, `PlumaticMarksStartShowers`, `PlumaticRefusedForReason`.
  Besides the types the invariants say what the list of updates is at each step (`Listed`: it is not empty, the rows in it are those read or
  marked since) and where the loops stand (`Loops`). `HqcKept` and `RefusedForReason` need that what was read is what the table still holds
  (`Remembered`, until something from outside comes in between). `SumsAreWindows` follows from the rows of the list being apart by their times (`Apart`) and
  the loop having added up exactly the rows between its ends (`Summed`). `MarksStartShowers` needs that showers already
  handled lie behind the position of the loop (`Behind`) and that its own shower begins at the row after the last dry one (`Started`).
  Loops over the list are recursive functions; `FiniteInduction` has what is used of them.
* `GapTypes`, `GapOnlyForBetter`, `GapNothingForgotten`, `GapTemperatureFirst`. Each of the five methods is a *stage*: an entry that needs
  interpolation gets a better quality or stays as it is, all others stay (`Stage`; a lemma for each method), and stages compose
  (`StageAgain`). Before them minima and maxima are discarded, so a row gives way to a better one, or it was one of these
  (`Changed`): this is `OnlyForBetter`. The last two stages also say what they do not leave over: no gap
  between two values (`NeighboursStage`), no minimum or maximum (`ReconstructStage`). For `NothingForgotten` this has to be carried through
  a run: as long as nothing comes from outside the series at hand is a copy of the table (`CopyOf`), what is interpolated later neither
  takes away rows nor makes observations (`ChangeKeeps`), so a range that is left behind stays done (`ForgetInv`). `HumidityInv` says
  that no temperatures are left once a humidity is read or has been computed, so what was not known then is not known at the end.
* `PatternAgrees`, `FlagSetAgrees`: for all sets of flags and values, the text of a pattern selects the rows that
  the pattern matches in memory. A test by NOT IN names the values that are not permitted; the values of a row are among those there are.
* `RowChecksTypes`. The members that hold flag sets and changes stay such (`Typed`), also where a text could not be read to its
  end, and rows stay rows. That needs two things of the parsers: what they leave behind is of the right kind for every list
  of terms (`PatternsTyped`, `UpdateTyped`, `ChangeTyped`), and the 71 calls with their default texts ask for what can be read
  (`CallsTexts`). Every change of a row is a flag change applied to it, which keeps its flags in range (`ApplyTyped`).
  `RowsSelectedAsMatched` carries `FlagSetAgrees` from there to all states of `RowChecks`.
* `ConfiguredAsNew`: `configure()` is a loop over calls that may stop at any of them, once with the object as it is and once with a
  new one. The induction (`ConfigureSteps`, `TurnLike`) says that after n calls the members set so far are alike and those still to come are, in the
  new object, as they were made. It needs that no member is set twice, and that the calls which use
  other members (Plumatic's look back) or add to their own (the parameters) are the only ones that do (`CallsShaped`). The
  invariant `LeftInv` adds that objects never gain or lose a member and that a run is of a file whose `configure()` went through.
* `OperatorValuesKept`, `DipsMarkedInPairs`, `RerunsQuiet`, `LimitsAreMarked`, `MeansAreKept` are about what a run does to the rows. They come
  in three layers. First, what the built-in texts mean: the parsers are run in the proof on each of them (`OneMeans`, `TwoMeans`, then
  `LimitFlags` to `EmptyMarks`, one lemma for each text), so that "candidate" is fhqc=0 with the checks that failed. Objects outlive their files, so an
  invariant (`ReadyInv`) says that the object of a run is what a `configure()` without exception has made of some other object: whatever was left in it,
  these flags are the built-in ones. Second, what one row gets: a series read for a row has its neighbours in the order of time (`Ordered`,
  `NextInSeries`, `ThreeInSeries`; the order of a series is the rank of its keys), and each row is replaced by one of a few (`DipTable`, `FillTable`,
  `LimitTable`). `HqcInv` (rows that wait for their turn, and those that are to be written, were read with fhqc 0, and have it still unless they are in `meanwhile`)
  gives the first theorem. The second needs besides that what was read around a candidate, and what is planned for it, is a pair of one series whose rows are as they
  were read but for `meanwhile`, however long it takes to the write (`PairInv`). For the others `FreshInv` says that, in an undisturbed run, what is to be written is what
  would be worked out now: only then do the steps of one row come to one (`StoredAtOnce`, with `CheckDip` and `FillMissing` for that one step). Third, what a whole run gets: `QuietInv` is the inductive invariant of the other three. For each algorithm, a file that
  has been run to its end, undisturbed, has nothing left to do (`Done`); during an undisturbed run every row on which something is still to do waits for its turn
  (`Undone`, `Pending`, `RunInv`); and in the run of a settled file the rows in the list are selected as they stand. One lemma for each algorithm says
  that to write one row leaves no work on another one that had none (`DipKept`, `FillKept`, `LimitKept`): a dip changes the row behind it, which no test may take for the
  row before a dip; a value that is filled in or taken back is corrected, and the others are computed from originals. `AverageMeans` is about the rounding: what `Average` makes of two tenths is their mean, half a
  tenth away from zero on either side (`IsMean`). `LimitsMarked` and
  `MeansHold` say of the table what `Done` says of the rows of a run.
  These five assume that the flags which the algorithm selects and marks its rows by are the built-in ones, that is, that no file of that algorithm
  sets them (`BuiltIn`, `FlagsBuiltIn`; other settings, other algorithms' flags and the order of files are free). Without that
  they need not hold: a file may let an algorithm select rows that an operator has dealt with, not select again what it has filled in, or
  mark a value so that it is selected again and marked otherwise. No configuration in the documents and tests of the repository sets a flag of these three algorithms (those of Plumatic and
  Redistribution are set in `test/algorithms`). The run `row_checks` has files with flags of their own for two of them.
* `ReferencesAreOwn`: until a run is cut short, references are there only during a run and are those of its parameter and days
  (`ReferencesInv`), because only `EndRun` empties them and only `NewCenter` adds to them.
* `MeansOfWindows`. What the shared accumulator holds of the days from `tail` to `head` - 1 is, for means and sums, the difference of two
  prefix sums, for quartiles the list of their values (`Held`). Pushing moves `head` and popping moves `tail` (`PushedAll`, `PoppedAll`),
  where popping a quartile's value removes the first equal one, which is the first of the list as days leave in order. As the days of an instrument are in order
  (`DailyTyped`), those up to a day are its first ones (`FirstDays`) and a window is a part of them (`WindowIs`). The invariant (`MeansInv`)
  says where the window is whenever a day is next (`SlideOk`) and that the values up to now are those of their windows (`MeansAre(Seen)`).
  The order of instruments and days, which the code has from its maps, is the rank of a member (`OrderedBy`): this is why each is looked at once.
* `SuspiciousWarnedAbout`. `WarnInv` says that a value which is no longer in the list is warned about exactly if it is suspicious, and, while
  neighbours are looked at, that `count` is the number of those that count among the ones no longer in their list, or that the loop has stopped with more
  than three (`CountInv`). It needs `MeansInv` for the values to be finitely many and in an order (`OrderedValues`), and `ReferencesInv` for the keys that
  are loaded at the first value to be all that the neighbours are compared with (`AllLoaded`).

Scheduler and store are proved to be type correct, too, so that no run checks it again. `FiniteInduction` gets induction over an interval of
integers from the least number outside a set: as the provers take no operator for a parameter, the hypothesis is a set, and a loop is a
function given by its first value and its step.

The constants are assumed to be what the configuration and kvalobs can give. For the plumatic, sliding alarms are positive numbers of minutes and
tenths (`SlidingAlarms`), the profiles of a day are the three answers above (`OutsideAssumption`), and the window is not empty (`WindowAssumption`). For the
redistribution `DataAssumption` says that neighbours that are all bone dry have no mean and no precipitation, which is how the code
computes the three from the same reports (`RedistributionAlgorithm.cc:505-535`). For the gap interpolation there is a window that
ends before the table does (`TimeAssumption`), and of the rows at first (`TablesAssumption`) a parameter without minimum and maximum has none of them, a row
that is ok is not missing, and one that has not been interpolated was not computed from temperatures.

For the row checks nothing is assumed of a file but that its settings are finitely many (`FilesAssumption`) and what its lines are made of
(`TextAssumption`): a time is a number, and the values in the terms of a flag setting are hexadecimal digits. Terms may name flags that do not exist or be malformed
at any place of the text. Lists of limits, stations and alarms are lists. `FlagsAssumption` says that controlinfo and useinfo have the flags
that the texts name and that a flag can be any of the 16 digits of `FlagPattern.h`, `OutsideAssumption` that rows which come from outside are rows,
`BoundsAssumption` that times are whole numbers.

For the statistics, tables are finite sets of rows (`TablesAssumption`), station numbers natural (`StationsAssumption`), and times of a run whole numbers
of hours and the number of days not negative (`SettingsAssumption`): with a negative number the code would take out days that it has not put in.

Only model-checked:

* liveness, as the provers have no fairness;
* `RerunQuiet` of the plumatic, which compares two runs, each a chain of loops over the list;
* `NoCircle` of the gap interpolation, which would need an order in which the hours of all ranges and runs were computed;
* `DayFollowsNeighbours`, which would need `Behind` and `Started` for every loop, not only that of the showers;
* of the row checks, `HqcKept`, `DipsInPairs`, `RerunQuiet`, `MeansHold` and `LimitsMarked` for the files with flags of their own that `row_checks` has.

## Plan

1. **Scheduler, Store, Redistribution** and their proofs: done.
2. **Plumatic** and **Gap** with proofs: done.
3. **Flags** with proofs, **Configs**, **RowChecks** (the dispatcher with three algorithms on objects that are configured again and
   again), **Statistics**: done; in part proved.
4. Proofs of the types and members of the row checks, of the drift of the redistribution, of the slots of the scheduler, of
   the statistics, of the gap interpolation, of what the row checks do to the rows, of the second run of the
   redistribution and of what a run leaves: done. Proofs left: `RerunQuiet` and `DayFollowsNeighbours` of the plumatic, `NoCircle` of the gap interpolation.
5. Compositions: the scheduler with a store (slots of a crash), if a property needs both.

### Not modelled

The logging and the notifiers, which change no state of the program; the numerics of the interpolations and of the distances (real
analysis); the pid file (a library); reading model data, which the code never fills in; `ParseParValFile` with a malformed file. AggregatorLimits and
StatisticalMean are modelled although the dispatcher has them only with `ENABLE_AGGREGATORLIMITS` and `ENABLE_STATISTICALMEAN`, which the
build files do not define.
