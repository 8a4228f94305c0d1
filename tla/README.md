# Verification of go-node-collector

TLA+ models of the collectors in `src/collector`, TLC configurations that check
them on small instances, and proofs for TLAPS of what holds for every instance.
The program is a Go library of 15 source files: it registers with a Prometheus
registry and, for every scrape, reads statistics of a Linux machine and sends
them as metrics. It has no tests; what it promises is found in its README, its
comments and the order of its statements.

## 1. The system

### Components

| Component | Source | State it keeps | Operations |
|---|---|---|---|
| collector of collectors | `collector.go` | `collectors` (fixed by `NewNodeCollector`); package maps `factories`, `collectorState` (fixed by `init`) | `NewNodeCollector`, `Describe`, `Collect`, `execute` |
| filesystem | `filesystem_linux.go` | package variables `stuckMounts`, `stuckMountsMtx`; per scrape `stats`, `labelChan`, `statChan` | `Update`, `GetStats` with a dispatcher and workers, `processStat`, `stuckMountWatcher`, the parser of the mount table |
| cpu | `cpu_linux.go` | `cpuStats` under `cpuStatsMutex` | `Update`: `updateInfo`, `updateStat`, `updateCPUStats`, `updateIsolated`, `updateThermalThrottle` |
| systemd | `systemd_linux.go` | none between scrapes; per scrape a D-Bus connection and a wait group | `Update`, five goroutines, `getSystemdVersion`, `summarizeUnits`, `filterUnits` |
| cpufreq | `cpufreq_linux.go` | none | `Update`: one group of metrics per processor, the governors |
| diskstats | `diskstats_linux.go` | descriptors (fixed) | `Update`: values by position, udev properties |
| meminfo | `meminfo_linux.go` | none | `Update`, the parser of `/proc/meminfo` |
| thermal_zone | `thermal_zone_linux.go` | none | `Update`: zones, then cooling devices |
| paths | `paths.go` | none | joins of path names |

### How they interact

The registry of client_golang calls `NodeCollector.Collect` for every HTTP
request, each in a goroutine of its own, with a fresh channel (capacity 1000)
that it drains meanwhile and closes when `Collect` has returned. `Collect`
starts a goroutine per collector; each runs `execute`, which calls the
collector's `Update` and then sends two metrics about it. Collectors do not call
each other; they meet in the channel, where the registry compares metric
families (cpu and cpufreq share one). Two HTTP requests share every `Collector`
object: that is what the mutexes in filesystem and cpu are for, and what makes
these two the core of the system. The kernel (`statfs`, `/proc/stat`, hotplug),
systemd and the registry are modelled from how the code uses them.

### What is hard, and what makes each component correct

* **filesystem.** `statfs` may hang for ever, so each call has a watcher that
  marks the mount point after `mountTimeout`; later scrapes leave marked mount
  points alone. Correct means: a mark is withdrawn by a call that is still out
  (or the mount point is excluded for ever); hung mount points do not hold up
  scrapes that know of them; `statChan` is never sent on after its close; the
  result has one entry per line of the mount table, exposed once.
* **cpu.** `/proc/stat` is read before the mutex is taken and the cache is
  exposed after it has been released and taken again. Correct means: counters
  decrease only on a hotplug, and then together; what is exposed is no older than
  what was read; processors that went offline disappear.
* **collector of collectors.** Correct means: every selected collector reports
  once and truthfully, failures stay with the collector that failed, nothing is
  sent on the closed channel, and a scrape ends.
* **systemd.** Goroutines and `Update` share a connection that a deferred call
  closes; every request may fail; two things depend on the version. Correct
  means: the connection and the channel outlive the goroutines, a failed request
  costs one value and never exposes another unit's, the summary agrees with the
  units.
* **the stateless collectors.** Correct means: a partial read is an error and
  not a panic, positions and names of values agree.

`PROJECT.json` lists the hazards behind these, each at its line.

## 2. The modules

| Module | Models | Composes |
|---|---|---|
| `MountHealth` | what `stuckMounts` promises: an abstract registry of mount points and outstanding calls | |
| `Filesystem` | the filesystem collector | implements `MountHealth` |
| `FilesystemProofs`, `FilesystemResultsProofs` | proofs about `Filesystem`: invariants and the refinement; what the results are complete and exposed as | |
| `CPUStats` | the cpu collector's cache and the kernel's counters | |
| `CPUStatsProofs` | proofs about `CPUStats` | |
| `ScrapeReports` | what a scrape promises: each collector asked ends and is reported once, and the answer waits for all | |
| `NodeCollector` | `NewNodeCollector`, `Collect`, `execute` and the registry | implements `ScrapeReports`; any collectors, as sets of metrics they may send |
| `NodeCollectorProofs` | proofs about `NodeCollector` | |
| `Systemd` | one `Update` of the systemd collector | |
| `SystemdProofs` | proofs about `Systemd` | |
| `Throttle` | the loop over the throttle counts, the last part of the cpu collector's `Update` | |
| `ThrottleProofs` | proofs about `Throttle`, among the Updates of `StatelessCollectors` | |
| `DiskStats` | the diskstats collector and the udev database | |
| `ThermalZone` | the thermal_zone collector | |
| `CPUFreq` | the cpufreq collector | |
| `MemInfo` | the meminfo collector and its parser | |
| `MountTable` | the parser of the mount table | returns the table `Filesystem` starts from |
| `StatelessCollectors` | one `Update` of any collector without state | `DiskStats`, `Throttle`, `ThermalZone`, `CPUFreq`, `MemInfo`, `MountTable` |
| `StatelessProofs` | proofs about the other five collectors of `StatelessCollectors` | |
| `FoldTheorems` | induction without operator parameters, and what the folds of the community modules are, unrolled | |
| `MC...` | instances for TLC: mount tables, processors, metrics, lists of units, lines of files | |

### Filesystem

A scrape `s` runs four kinds of goroutine: main (`main[s]`: `GetStats`,
`MainAppend`, `Finish`), the dispatcher (`disp[s]`, at line `line[s]`:
`CheckLine`, `AppendStuck`, `Send`, `CloseLabels`, `CloseStats`), the workers
(`call[s][i]` for line `i`: `StatfsReturns`, `Unmark`, `Deliver`) and the
watchers (`watch[s][i]`: `WatcherExits`, `TimerFires`, `WatcherMarks`).
Workers are interchangeable and counted: the dispatcher hands a line over when
fewer than `workerCount` lines are in progress. Unbuffered channels are
rendezvous: `Send` joins the dispatcher's send, the worker's receive and the
start of `processStat`; `Deliver` joins the worker's send and main's receive.
A critical section that nothing can interleave with is one step; the mutex is a
variable only for the dispatcher's append, during which main may run.

`stats` is a slice that two goroutines append to, one of them with no lock. An
append is a load of the slice header (`dispSaw`, `mainSaw`) and a store.
`AppendToStats` says what a store may leave when another came between: what both
headers show stays, anything else may be there or not, and an entry that was
never written (`Garbage`) may appear. A torn header, and the crash that may follow
from one, are not modelled.

`deviceError[s][i]` is both the text of the label and, being different from
`NoError`, the value of the device error metric. Sizes and the read-only flag are
functions of the line and are left out. How a table comes from the lines of the file
is in `MountTable`. `Scrapes` make one call each: a second
call is another member of the set.

### CPUStats

`ticks` is what `/proc/stat` shows, `high` the highest value so far; a counter
may fall back below it by up to `MaxWobble` (kernel counters do), and a processor
that is plugged in again continues or starts from zero. A scrape goes `idle` →
`info` → `read` (`ReadStat`, no lock) → `updated` (`UpdateCPUStats`, first
critical section) → `idle` (`ExposeStats`, second). `Merged` is the body of the
loop for one processor with its ten `if`s as one function over the fields.
The code resets at `>= jumpBackSeconds`, where its comment says "more than";
the model follows the code. A failed `updateInfo` changes nothing and is a
stuttering step. Times are whole seconds where the code has floats: only
comparisons and one difference are made.

`Tick` is limited by `MaxLag`: the kernel's idle counter gets ahead of a reading that
is still to be merged by no more than that. With `MaxLag` below `jumpBackSeconds`
scrapes overlap as they usually do, by less than three seconds; `cpu_stale` has a
`MaxLag` of the limit.

### NodeCollector

`filters` and `Registered` decide `collectors`; `Collect` picks for every
collector the set of metrics its `Update` will send (from `Exposes`), `UpdateSends`
sends them one by one on `ch`, and `UpdateReturns` may happen early with an
error. `Receive` is the registry: it rejects what clashes with a family it has.
The channel has `Capacity` places. `NodeCollector` keeps nothing between calls
and shares nothing between two `Collect`s, so one `Gather` is modelled.

### Systemd

`main` follows `Update` with its two deferred calls in their order (`Wait`,
`Close`). `request[g]` is the D-Bus request goroutine `g` makes next, for the unit
`at[g]`; a request with what is done with its answer is one step, and every
answer may be an error. The value of a property is told by the name of the unit
it was asked for, which is all `ValuesAreOwn` needs to tell values apart.

### The stateless collectors

`DiskStats`, `Throttle`, `ThermalZone`, `CPUFreq`, `MemInfo` and `MountTable` have the
same five variables: `shown` is what the kernel shows in its files, `pc` the control
point, `local` the locals of `Update` that outlive a step, `past` what a property
compares with later, `sent` what was sent. `StatelessCollectors` extends `Throttle`, about
which there are theorems, instantiates the other five over its variables and adds a
sixth, `collector`. Its behaviours (`UpdateSpec`) are those of the six modules: nothing is
shared between two such `Update`s. `Throttle` ends in a control point of its own,
`exposed`, of which its properties speak, and which no other collector reaches.

Where a collector reads several files one after another, every read is a step and
the kernel moves in between: `Throttle` reads the package number of a processor and its core
number in `ReadTopology`, its counts in `ReadCore` and `ReadPackage`, while counts grow and
processors go offline,
`ThermalZone` reads the zones in `UpdateZones` and the devices in `UpdateDevices`,
`DiskStats` reads `/proc/diskstats` in `ReadDiskstats` and the udev file of each disk in
`ExposeDisk`, while disks take over numbers and udev follows later. A value is
represented by where it comes from (`DiskStats`: the kernel's field, its unit and the
factor), so that a property can say that it is the right one. `CPUFreq` is the exception: the
frequencies are read by `procfs` in one call, which is one step here and returns files that agree.

`MemInfo` and `MountTable` are parsers. A line of `/proc/meminfo` is the words of its
name, the number of its fields and its value, in the order of the code's checks
(`ParseLine`); a mount point is a sequence of characters, as `Mangle` shows it in the
kernel's escapes and `Translate` gives it back.

## 3. What TLC checks

| Run | Instance | Shows |
|---|---|---|
| `fs_overlap` | 2 scrapes, 2 mount points that hang and recover at any time, 2 workers; 1.8 million states | `TypeOK`, `StuckHasPendingCall`, `NoSendAfterClose` |
| `fs_table` | 1 scrape, 3 lines of which 2 on one mount point, 2 workers, errors of statfs | `CompleteUnlessMixed`, `ExposedAtMostOnce`, `ImplementsHealth` (the refinement of `MountHealth`), `OthersAnswered`; 0.2 million states |
| `fs_live` | 2 scrapes, 2 mount points, configured worker count 0 | `StuckMountsDoNotBlock`, `HungGetsMarked`, `ScrapesEnd`, `StuckClears` |
| `fs_lost` | 1 scrape, 3 lines | violation of `ExposedAtLeastOnce` |
| `fs_remounted` | 1 filesystem mounted twice on one mount point | violation of `ExposedAtMostOnce` |
| `cpu_scrapes` | 2 overlapping scrapes, 2 processors, wobble 1, lag 1, limit 2; 0.7 million states | `TypeOK`, `ExposedIsFresh`, `ResetsAreHotplugs`, `DecreaseIsReset`, `RestartIsFollowed`, `OfflineCPUsRemoved` |
| `cpu_stale` | 2 overlapping scrapes, no wobble, lag and limit 2 | violation of `ResetsAreHotplugs` |
| `node_scrape` | 3 collectors, 4 filters, a channel of 2 places | `TypeOK`, `NoSendAfterCollect`, `EveryCollectorReports`, `NothingLost`, `ImplementsReports` (the refinement of `ScrapeReports`), `GatherEnds` |
| `node_default` | cpu and cpufreq, 1 processor | violation of `GathersByDefault` |
| `systemd_update` | 4 lists of up to 3 units, versions unknown, 211 and 212 | `TypeOK`, `GoroutinesWithinUpdate`, `LoadedUnitsExposed`, `SummaryCountsAll`, `ValuesAreOwn`, `GatedByVersion`, `UpdateEnds` |
| `stateless` | one `Update` of each of the six; 1.1 million states | diskstats: `ValuesDescribed`, `DisksComplete`, `PropertiesAreOwn`; throttle counts: `ThrottleCountsOwn`, `ThrottlesCovered`; `ThermalComplete`; `MemInfoComplete`; cpufreq: `FrequenciesOrdered`, `GovernorOneHot`; mount table: `MountPointsKept` |
| `meminfo_short` | files of up to 3 lines, one of which has one field | violation of `InvalidLineIsError` |

Every property of a passing run has a mutant in `PROJECT.json`: an operator beside
the definition it changes, the way a plausible bug would, under which the
property fails. Deadlock is not checked: scrapes are finite, and a mount point
that never recovers stops a scrape for good.

### Bounds, and why they are enough

* **Two scrapes.** The shared state is a set of mount points and a map of
  counters; what one scrape may do to another is seen with two. The proofs cover
  any number.
* **Two mount points, three lines.** One hung and one healthy, and one listed
  twice so that a scrape finds marked what was not when it looked before.
* **Two workers** where two results may race, and **one** in `fs_live`, where a single
  hang then keeps the dispatcher waiting; the one worker comes of the configured
  value 0, the boundary of the clamp.
* **A limit of 2 seconds** instead of the code's 3.0, **and up to 3 seconds of idle time**: jumps
  back by less than the limit, by the limit and by more are all reached. The other counter of that
  processor goes up to 1, and the second processor's counters stand still; it goes online
  and offline like the first.
* **A channel of two places** is full most of the time, as 1000 places are when a
  machine has many metrics.
* **Units**: services in a state inside and outside `unitStatesName`, a timer, a
  socket, one that is not loaded; a list in which no unit is loaded.
* **Two disks and two pairs of numbers**: a disk can take over the numbers of another, with
  udev behind. The disks have 20 and 14 fields, and properties that are empty, given
  twice, malformed or missing.
* **Three processors in two packages** whose cores bear the same number. One package has a core of
  two processors, of which only the second has the count of the core; the other has
  no count of the package. Counts go up to 1: read before or after.
* **`/proc/meminfo`**: every sequence of up to three different lines out of seven good and bad
  ones; **cpufreq**: one processor with every subset of the six frequencies and four
  settings of the governors; **mount points**: every pair of names of up to two characters, with
  the digits of escapes among the characters.

### Fairness

`Filesystem`'s `Fairness` is weak fairness for each goroutine: the scheduler is
preemptive, the mutex does not starve, timers fire, `statfs` returns when the mount
point is not hung. Nothing obliges a scrape to start or a hung mount point to
recover; `ScrapesEnd` and `StuckClears` assume the latter in their statement
(`AllRecover`), `StuckMountsDoNotBlock`, `HungGetsMarked` and `OthersAnswered` do not, but
the last assumes that in the end no mount point stops or starts answering (`Steady`). `SteadySpec`
lets no further mount point hang once it runs: one that goes on hanging and
recovering can hold a scrape up for ever, which is no fault of the code.

`NodeCollector`'s `FairSpec` assumes that every `Update` returns. Two collectors
cannot promise that: filesystem waits for `statfs`, systemd for D-Bus with no
timeout (`context.TODO()`), and `Collect` waits for both. `Systemd`'s `FairSpec`
assumes that systemd answers: what a request that is never answered does to a scrape is stated
nowhere, since the code sets no timeout and promises nothing. None of this is fairness of the model's
environment that the properties hide: they are stated as "when".

## 4. What the runs found

1. **A line of the mount table is lost** (`fs_lost`, `filesystem_linux.go:217`): main
   appends to `stats` without the mutex the dispatcher holds. `CompleteUnlessMixed`
   states when the result is complete nevertheless.
2. **A filesystem is exposed twice** (`fs_remounted`, line 125): `seen` is keyed by more
   than the label values.
3. **Counters fall without a hotplug** (`cpu_stale`, `cpu_linux.go:337`): a reading that
   is merged late looks like an idle jump.
4. **The default selection cannot be gathered** (`node_default`,
   `cpufreq_linux.go:95`): cpu and cpufreq expose one family with two help strings.
5. **A short line of `/proc/meminfo` is a panic** (`meminfo_short`, `meminfo_linux.go:94`): the
   second field is parsed before the fields are counted, so that a line of one field
   does not get the error for invalid lines.

## 5. What is proved

The theorems hold for all values of the constants that satisfy the modules'
named assumptions. Every proof has the same outline: an invariant (`IInv`, where it has
no name of its own) that every step keeps, with a lemma or a case per action, from which the property follows.

**`FilesystemProofs`**, from `FilesystemAssumption` (the mutex has a "nobody", tables
are at most `MaxLines` long): `TypeCorrect`, `StuckIsPending` (`StuckHasPendingCall`)
and `StatChanSafe` (`NoSendAfterClose`). None is inductive alone. `IInv` has

* `TypeOK`;
* `DispatchInTable`: a line handed over is one the dispatcher has passed, so that
  a send starts a call that was not there before (or it would restart one that
  others rely on) and lies within the table;
* `WatchersHaveCalls`: a watcher exists only for a line that was handed over. A watcher
  that finds `success` open under the lock therefore has a call that is still out,
  which is what lets `WatcherMarks` keep the next one;
* `StuckHasPendingCall`: a mount point is unmarked by any call that ends, so the call
  that ends may take the mark of another with it, never leave one behind;
* `NoSendAfterClose`.

`RegistryImplemented`, in the same module, is that `Filesystem` implements
`MountHealth` (`ImplementsHealth`). `Send` maps to `Begin`, `Unmark` to `Complete`, a
`WatcherMarks` that marks to `TimeOut`; `Stutter` takes every other step, since
none changes which calls are pending on which mount point.

**`FilesystemResultsProofs`**: `ResultsComplete` (`CompleteUnlessMixed`). `Recorded` says
that as long as only one goroutine has appended, its slice header is the current one and
`stats` is what the lines in `Appended` met; a line is in `Appended` only once its error
does not change any more.

`ExposedOnce` (`ExposedAtMostOnce`) has the hypothesis `OptionsAgree`: no mount table lists
a source twice at one mount point with different options. The code does not see to that, and
`fs_remounted` is what happens otherwise; the tables of `fs_table` satisfy it, with a line
given twice. `ResultsInTable` says that whatever the race on `stats` loses or brings back, a result
is that of a line of the table or was never written; `SourcesAssumption` (a line names its
device) keeps the latter apart from every line.

**`CPUStatsProofs`**, from `CPUStatsAssumption` (finitely many processors, a positive
limit): `TypeCorrect`, `OnlineCPUsRemain` (`OfflineCPUsRemoved`), `DecreasesReset`
(`DecreaseIsReset`) and `RestartsFollowed` (`RestartIsFollowed`). `MergedValue` says what a merge returns with and without a reset.
`Updated` is the argument for comparing lengths: the loop has put every processor
that was read into the map, so the keys read are a subset of the map's keys, and a
subset of a finite set with as many members is the whole.

`OnlyHotplugsReset` (`ResetsAreHotplugs`) and `ExposedFresh` (`ExposedIsFresh`) have in
addition the hypothesis `MaxLag < jumpBackSeconds`: no reading is merged so
late that the idle counter has moved on by the limit. Nothing in the code guarantees it,
and `cpu_stale` is what happens without it. Their `IInv` says that for a processor never
plugged in again the map is not ahead of the counters, and every reading still to be
merged is behind them by less than the limit.

**`ThrottleProofs`**, from `ThrottleAssumption`: `CountsOwn` (`ThrottleCountsOwn`) and
`Covered` (`ThrottlesCovered`), of `UpdateSpec`, the behaviours that the run checks. `EntriesOwn`
says where the entries of the two maps come from, `EntriesCover` that the processors the loop
has passed have theirs, as far as they stayed online; `UpdateInv`, that no other collector reaches
the control point of which the properties speak.

**`NodeCollectorProofs`**, from `NodeCollectorAssumption` (the channel has a place, and no
collector exposes the families of `execute`): `TypeCorrect`, `ChannelSafe`
(`NoSendAfterCollect`), `AllReport` (`EveryCollectorReports`) and `NoneLost`
(`NothingLost`). The invariant follows each value from the sender through the channel to
Gather: `SentByExecute` and `Reported` say that a collector's two metrics are under way
or accepted exactly when its `execute` has come so far, `AtMostOnce` that nothing is there
twice unless it may clash, `AllExposed` the same for the metrics of the collectors. The
registry rejects a value only when something it has clashes (`RejectedMayClash`), and
`ClashOfScrapes` shows that with a metric of `execute` only that very value does.

`ReportsImplemented`, in the same module, is that `NodeCollector` implements `ScrapeReports`
(`ImplementsReports`). `Collect` maps to `Ask`, `UpdateReturns` to `End`, a `Receive` of a success
metric to `Report`, `GatherReturns` to `Answer`, and all other steps stutter (`SilentStep`). A report
is given to the answer when Gather takes it out of the channel, long after it was sent;
`ToldIsOutcome` says that it is still true then.

**`FoldTheorems`** holds what the next two modules need about data. The induction theorems of the
library take an operator as a parameter, which the provers cannot instantiate; here a property is
the set of what has it (`SetInduction`, `IntervalInduction`, `SubsetInduction`) and the step of
a fold is a function. The folds of the community modules choose one element after another: `Folds` says
that an iteration over the subsets is such a fold, `FoldExists` that there is one, `Runs`
and `RunExists` the same of a fold over the prefixes of a sequence, and `SumUnrolls` unrolls a sum.

**`SystemdProofs`**, from `SystemdAssumption` (lists are sequences of units, and a list does not give
one name to two units, as systemd's do not): the four properties of the safety of one `Update` and
its type.

* `ConnectionSafe` (`GoroutinesWithinUpdate`) and `VersionGates` (`GatedByVersion`): `Connected` and `Gated`
  say at which control points goroutines run, and which run at all.
* `TypeCorrect` (`TypeOK`): that `units` has units in it needs what `filterUnits` returns. `Kept`
  says it of any prefix of the list: the loaded units among the first ones, all of them and
  nothing else.
* `OwnValues` (`ValuesAreOwn`): each goroutine's request is about the unit it is at. The start time
  that is kept over the loop is safe because it is set or cleared for every unit before it is sent.
* `LoadedExposed` (`LoadedUnitsExposed`): `Reported` says that the states sent are those of the
  units the status goroutine has been at, `StatusEnds` that it has been at all of them when
  `Update` has waited for it. One unit per name makes these states its own.
* `SummaryComplete` (`SummaryCountsAll`): `Summarized` says that the summary sent is that of all
  units; that its counts add up to the length of the list is an induction over the list, one more unit
  adding one to one count.

**`StatelessProofs`**, of `UpdateSpec`, one invariant per collector:

* `ThermalZonesComplete` (`ThermalComplete`), by `ThermalInv`: nothing is sent before the
  zones are read.
* `FrequenciesNotExchanged` (`FrequenciesOrdered`) and `OneGovernor` (`GovernorOneHot`), by `FrequencyInv`
  (all that is sent is made of the files read) and from `CPUFreqAssumption`: a minimum the
  kernel shows is not above its maximum, the governor in use is one of those available, and these
  differ. The kernel's cpufreq core sees to all three at any moment; that `procfs` reads the files
  while no limit is being moved is assumed.
* `MountPointsReturn` (`MountPointsKept`), from the lemmas `MountPointsReturned` and
  `MountPointsApart`, by `MountInv` and from `MountTableAssumption` (names are sequences). `Replace` is
  shown to rewrite a name character by character as long as what follows a backslash tells an
  escape from the rest, which `Mangle` guarantees: it escapes the backslash itself. So the two
  translations together undo the escapes of spaces and tabs and leave the other escapes, which
  are one to one.
* `MemInfoWhole` (`MemInfoComplete`), by `MemInfoInv` and from `MemInfoAssumption`: no two
  lines with as many fields name one field, and no name without unit ends in `bytes`. The code relies on
  it, since a second line of a name would replace the first; the kernel's list of names is fixed and
  satisfies it. Parsing a prefix has given one entry per line with two or three fields, or an error.
* `ValuesMatch` (`ValuesDescribed`), `DisksWhole` (`DisksComplete`) and `PropertiesOwn` (`PropertiesAreOwn`),
  by `DiskInv` and from `DiskStatsAssumption` (a kernel shows 14, 18 or 20 fields; a line of the
  udev database is split into words). `DiskInv` says what was sent of each line read
  (`CountersSent`, `InfosSent`), and that a number which is settled still shows, to the kernel and to
  udev, the disk that was read (`SettledStay`). What `getUdevDeviceProperties` returns is, for each
  name, the last property given, by induction over the lines of the file.
  `PropertiesInv` adds `PropertiesSent` to `DiskInv`: the metrics of a settled disk that not every disk
  has are those that its own file makes.

**Only model-checked.** The liveness properties, which are beyond the proof system:
`StuckMountsDoNotBlock`, `OthersAnswered`, `HungGetsMarked`, `ScrapesEnd` and `StuckClears` of `Filesystem`, `GatherEnds` of
`NodeCollector`, `UpdateEnds` of `Systemd`. Every invariant and every action property that a passing run
checks is the statement of a theorem.

## 6. What is not modelled

* `paths.go`, descriptors, help texts, most labels: no state, no decision. Of the labels of the
  disk info metric the serial is kept, because it has a fallback; the others are
  copied.
* Whether a value is a counter or a gauge.
* What becomes of a disk whose numbers change hands between the two reads of diskstats is in the model,
  but no property is stated of it: the code exposes it with the properties of the disk that has its
  numbers then. `PropertiesAreOwn` speaks of the other disks.
* The values of thermal zones and cooling devices, the sizes of filesystems, isolated processors
  and the info metrics of `updateInfo`.
* A torn slice header after the data race on `stats`, and the crash it may lead to.
* Mount points with a newline, a backslash or a number sign keep the kernel's escapes, and `statfs`
  gets the escaped name: of names with one of the first two `MountPointsKept` asks only that different
  ones stay different, and the number sign is no character of the model.
* `Describe`, which sends two constants; the HTTP server of the README's example.

## 7. What is left

* `NodeCollector` and `Filesystem` in one composition would add the hang of one collector to the
  scrape of all. `GatherEnds` says what it depends on, `ScrapesEnd` when it holds.
