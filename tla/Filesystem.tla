------------------------------ MODULE Filesystem ------------------------------
(***************************************************************************)
(* The filesystem collector: collector/filesystem_linux.go.                *)
(*                                                                         *)
(* A scrape is one call of Update.  Its goroutine calls GetStats, which    *)
(* reads the mount table, starts the statfs workers and a dispatcher, and  *)
(* then receives the results.  The dispatcher skips the mount points found *)
(* in the package-level set stuckMounts and hands the other lines of the   *)
(* table to the workers.  A worker calls statfs, which blocks for as long  *)
(* as the kernel does, with a watcher goroutine beside it that puts the    *)
(* mount point into stuckMounts when mountTimeout passes first.  Scrapes   *)
(* overlap and share stuckMounts and its mutex.                            *)
(*                                                                         *)
(* Workers are interchangeable, so they are counted, not named: a line is  *)
(* handed over when fewer than workerCount lines are in progress.          *)
(***************************************************************************)
EXTENDS Integers, FiniteSets, Sequences

CONSTANTS
  Scrapes,          \* calls of Update, each made at most once
  NoScrape,         \* "nobody", for the mutex
  MountPoints,      \* mount points
  Sources,          \* pairs of a device and a filesystem type
  MountOptions,     \* option strings of the fourth column of the mount table
  Tables,           \* the mount tables the kernel may show
  MaxLines,         \* bound: lines of a mount table
  StatfsErrors,     \* error texts statfs may return
  statWorkerCount   \* configured number of statfs workers per scrape

Labels == [source : Sources, mountPoint : MountPoints, options : MountOptions]

Lines == 1..MaxLines

NoError == "none"            \* deviceError of a successful statfs
TimeoutError == "timeout"    \* "mountpoint timeout"

ASSUME FilesystemAssumption ==
  /\ NoScrape \notin Scrapes
  /\ MaxLines \in Nat
  /\ Tables \subseteq Seq(Labels)
  /\ \A t \in Tables : Len(t) <= MaxLines
  /\ StatfsErrors \cap {NoError, TimeoutError} = {}
  /\ statWorkerCount \in Int

(* A line of the mount table names its device and its filesystem type.       *)
ASSUME SourcesAssumption == "" \notin Sources

VARIABLES
  hung,          \* mount points on which statfs does not return for now
  stuckMounts,   \* the package variable stuckMounts
  mtx,           \* holder of stuckMountsMtx across an append, or NoScrape
  mps,           \* the mount table a scrape has read
  disp,          \* control point of the dispatcher goroutine
  line,          \* the line the dispatcher is at
  main,          \* control point of the goroutine that called Update
  got,           \* the line whose result main received last
  stats,         \* the slice stats of GetStats, as a set of results
  dispSaw,       \* stats when the dispatcher loaded the slice header
  mainSaw,       \* stats when main loaded the slice header
  call,          \* progress of processStat, per line
  deviceError,   \* outcome of statfs, per line
  watch          \* control point of the watcher goroutine, per line

vars == <<hung, stuckMounts, mtx, mps, disp, line, main, got, stats, dispSaw,
          mainSaw, call, deviceError, watch>>

DispatcherStates == {"idle", "check", "append", "send", "wait", "closed"}
MainStates == {"idle", "recv", "append", "done", "failed"}
CallStates == {"none", "statfs", "returned", "ready", "delivered"}
WatcherStates == {"none", "armed", "fired", "marked", "exited"}
DeviceErrors == {NoError, TimeoutError} \cup StatfsErrors

-------------------------------------------------------------------------------
(* Results and what Update makes of them.                                    *)

Result(i, e) == [line |-> i, deviceError |-> e]

(* A filesystemStats value that describes no line: what the slice may show   *)
(* of memory that no append has written.                                     *)
Garbage == Result(0, NoError)

Results == [line : Lines, deviceError : DeviceErrors] \cup {Garbage}

MountPoint(s, i) == mps[s][i].mountPoint

(* A line's result, once processStat or the dispatcher has filled it in.     *)
(* filesystemLabels is the mount table's line with the device error in it.   *)
LabelsOf(s, r) ==
  IF r = Garbage
  THEN [source |-> "", mountPoint |-> "", options |-> "", deviceError |-> NoError]
  ELSE [source |-> mps[s][r.line].source, mountPoint |-> MountPoint(s, r.line),
        options |-> mps[s][r.line].options, deviceError |-> r.deviceError]

(* The label values of the metrics: all of filesystemLabels but options.     *)
Series(l) == <<l.source, l.mountPoint, l.deviceError>>

(* Mutant: Update without the map seen. *)
ExposedWithoutSeen(s) == { <<LabelsOf(s, r), r>> : r \in stats[s] }

(* The groups of metrics Update sends: one for every distinct                *)
(* filesystemLabels value (the map seen), made from one of its results.      *)
Exposed(s) ==
  { <<LabelsOf(s, r), CHOOSE q \in stats[s] : LabelsOf(s, q) = LabelsOf(s, r)>> :
      r \in stats[s] }

(* A line of the mount table is exposed when some group bears its labels.    *)
IsExposed(s, i) ==
  \E g \in Exposed(s) :
    /\ g[1].source = mps[s][i].source
    /\ g[1].mountPoint = MountPoint(s, i)

-------------------------------------------------------------------------------
Init ==
  /\ hung \in SUBSET MountPoints
  /\ stuckMounts = {}
  /\ mtx = NoScrape
  /\ mps = [s \in Scrapes |-> <<>>]
  /\ disp = [s \in Scrapes |-> "idle"]
  /\ line = [s \in Scrapes |-> 1]
  /\ main = [s \in Scrapes |-> "idle"]
  /\ got = [s \in Scrapes |-> 0]
  /\ stats = [s \in Scrapes |-> {}]
  /\ dispSaw = [s \in Scrapes |-> {}]
  /\ mainSaw = [s \in Scrapes |-> {}]
  /\ call = [s \in Scrapes |-> [i \in Lines |-> "none"]]
  /\ deviceError = [s \in Scrapes |-> [i \in Lines |-> NoError]]
  /\ watch = [s \in Scrapes |-> [i \in Lines |-> "none"]]

workerCount == IF statWorkerCount < 1 THEN 1 ELSE statWorkerCount

(* The lines a worker of s has in hand.                                      *)
Busy(s) == { i \in Lines : call[s][i] \in {"statfs", "returned", "ready"} }

(* processStat has closed the channel success of the line.                   *)
SuccessClosed(s, i) == call[s][i] \in {"ready", "delivered"}

(***************************************************************************)
(* stats = append(stats, r), as two steps: the slice header is loaded, and *)
(* stored later.  main and the dispatcher both append, and main does so    *)
(* without the mutex: a data race.  A store that no other store came       *)
(* between adds r.  A store over a header that has changed since it was    *)
(* loaded keeps what both headers show, and may lose or bring back the     *)
(* rest, lose r, or show memory that was never written.                    *)
(***************************************************************************)
AppendToStats(s, saw, r) ==
  \/ /\ saw = stats[s]
     /\ stats' = [stats EXCEPT ![s] = @ \cup {r}]
  \/ /\ saw # stats[s]
     /\ \E rest \in SUBSET (saw \cup stats[s] \cup {r, Garbage}) :
          stats' = [stats EXCEPT ![s] = (saw \cap @) \cup rest]

-------------------------------------------------------------------------------
(* main: the goroutine that called Update.                                   *)

(* GetStats: read the mount table, make the channels, start the workers and  *)
(* the dispatcher.                                                           *)
GetStats(s) ==
  /\ main[s] = "idle"
  /\ \E t \in Tables : mps' = [mps EXCEPT ![s] = t]
  /\ disp' = [disp EXCEPT ![s] = "check"]
  /\ main' = [main EXCEPT ![s] = "recv"]
  /\ UNCHANGED <<hung, stuckMounts, mtx, line, got, stats, dispSaw, mainSaw, call,
                 deviceError, watch>>

(* GetStats: the mount table could not be read; Update returns the error.    *)
GetStatsFails(s) ==
  /\ main[s] = "idle"
  /\ main' = [main EXCEPT ![s] = "failed"]
  /\ UNCHANGED <<hung, stuckMounts, mtx, mps, disp, line, got, stats, dispSaw, mainSaw,
                 call, deviceError, watch>>

(* A worker sends its result on statChan and main receives it: the channel   *)
(* has no buffer.  The header of stats is loaded for the append.             *)
Deliver(s, i) ==
  /\ main[s] = "recv"
  /\ call[s][i] = "ready"
  /\ call' = [call EXCEPT ![s][i] = "delivered"]
  /\ main' = [main EXCEPT ![s] = "append"]
  /\ got' = [got EXCEPT ![s] = i]
  /\ mainSaw' = [mainSaw EXCEPT ![s] = stats[s]]
  /\ UNCHANGED <<hung, stuckMounts, mtx, mps, disp, line, stats, dispSaw, deviceError,
                 watch>>

(* The append of main, with no lock held.                                    *)
MainAppend(s) ==
  /\ main[s] = "append"
  /\ AppendToStats(s, mainSaw[s], Result(got[s], deviceError[s][got[s]]))
  /\ main' = [main EXCEPT ![s] = "recv"]
  /\ UNCHANGED <<hung, stuckMounts, mtx, mps, disp, line, got, dispSaw, mainSaw, call,
                 deviceError, watch>>

(* statChan is closed: the loop over it ends, GetStats returns, and Update   *)
(* exposes the results.                                                      *)
Finish(s) ==
  /\ main[s] = "recv"
  /\ disp[s] = "closed"
  /\ main' = [main EXCEPT ![s] = "done"]
  /\ UNCHANGED <<hung, stuckMounts, mtx, mps, disp, line, got, stats, dispSaw, mainSaw,
                 call, deviceError, watch>>

-------------------------------------------------------------------------------
(* The dispatcher goroutine of GetStats.                                     *)

(* Mutant: the dispatcher does not consult stuckMounts. *)
CheckLineIgnoringStuck(s) ==
  /\ disp[s] = "check"
  /\ line[s] <= Len(mps[s])
  /\ mtx = NoScrape
  /\ disp' = [disp EXCEPT ![s] = "send"]
  /\ UNCHANGED <<hung, stuckMounts, mtx, mps, line, main, got, stats, dispSaw, mainSaw,
                 call, deviceError, watch>>

(* Look the mount point up under the lock.  When it is stuck, fill in the    *)
(* timeout result and load the header of stats for the append, keeping the   *)
(* lock; otherwise unlock and go on to the send.                             *)
CheckLine(s) ==
  /\ disp[s] = "check"
  /\ line[s] <= Len(mps[s])
  /\ mtx = NoScrape
  /\ \/ /\ MountPoint(s, line[s]) \in stuckMounts
        /\ disp' = [disp EXCEPT ![s] = "append"]
        /\ mtx' = s
        /\ dispSaw' = [dispSaw EXCEPT ![s] = stats[s]]
        /\ deviceError' = [deviceError EXCEPT ![s][line[s]] = TimeoutError]
     \/ /\ MountPoint(s, line[s]) \notin stuckMounts
        /\ disp' = [disp EXCEPT ![s] = "send"]
        /\ UNCHANGED <<mtx, dispSaw, deviceError>>
  /\ UNCHANGED <<hung, stuckMounts, mps, line, main, got, stats, mainSaw, call, watch>>

(* Mutant: continue without the Unlock. *)
AppendStuckKeepingLock(s) ==
  /\ disp[s] = "append"
  /\ AppendToStats(s, dispSaw[s], Result(line[s], TimeoutError))
  /\ line' = [line EXCEPT ![s] = @ + 1]
  /\ disp' = [disp EXCEPT ![s] = "check"]
  /\ UNCHANGED <<hung, stuckMounts, mtx, mps, main, got, dispSaw, mainSaw, call,
                 deviceError, watch>>

(* Store the append of the timeout result, unlock, continue with the next    *)
(* line.                                                                     *)
AppendStuck(s) ==
  /\ disp[s] = "append"
  /\ AppendToStats(s, dispSaw[s], Result(line[s], TimeoutError))
  /\ mtx' = NoScrape
  /\ line' = [line EXCEPT ![s] = @ + 1]
  /\ disp' = [disp EXCEPT ![s] = "check"]
  /\ UNCHANGED <<hung, stuckMounts, mps, main, got, dispSaw, mainSaw, call, deviceError,
                 watch>>

(* Mutant: the dispatcher advances twice for a line it hands over. *)
SendSkippingLine(s) ==
  /\ disp[s] = "send"
  /\ Cardinality(Busy(s)) < workerCount
  /\ call' = [call EXCEPT ![s][line[s]] = "statfs"]
  /\ watch' = [watch EXCEPT ![s][line[s]] = "armed"]
  /\ line' = [line EXCEPT ![s] = @ + 2]
  /\ disp' = [disp EXCEPT ![s] = "check"]
  /\ UNCHANGED <<hung, stuckMounts, mtx, mps, main, got, stats, dispSaw, mainSaw,
                 deviceError>>

(* Mutant: one of the workers never receives. *)
SendOneWorkerLess(s) ==
  /\ disp[s] = "send"
  /\ Cardinality(Busy(s)) + 1 < workerCount
  /\ call' = [call EXCEPT ![s][line[s]] = "statfs"]
  /\ watch' = [watch EXCEPT ![s][line[s]] = "armed"]
  /\ line' = [line EXCEPT ![s] = @ + 1]
  /\ disp' = [disp EXCEPT ![s] = "check"]
  /\ UNCHANGED <<hung, stuckMounts, mtx, mps, main, got, stats, dispSaw, mainSaw,
                 deviceError>>

(* labelChan <- labels, received by an idle worker, which calls processStat: *)
(* the watcher is started and statfs is called.                              *)
Send(s) ==
  /\ disp[s] = "send"
  /\ Cardinality(Busy(s)) < workerCount
  /\ call' = [call EXCEPT ![s][line[s]] = "statfs"]
  /\ watch' = [watch EXCEPT ![s][line[s]] = "armed"]
  /\ line' = [line EXCEPT ![s] = @ + 1]
  /\ disp' = [disp EXCEPT ![s] = "check"]
  /\ UNCHANGED <<hung, stuckMounts, mtx, mps, main, got, stats, dispSaw, mainSaw,
                 deviceError>>

(* Mutant: the last line of the table is not dispatched. *)
CloseLabelsEarly(s) ==
  /\ disp[s] = "check"
  /\ line[s] >= Len(mps[s])
  /\ disp' = [disp EXCEPT ![s] = "wait"]
  /\ UNCHANGED <<hung, stuckMounts, mtx, mps, line, main, got, stats, dispSaw, mainSaw,
                 call, deviceError, watch>>

(* close(labelChan), after the last line.                                    *)
CloseLabels(s) ==
  /\ disp[s] = "check"
  /\ line[s] > Len(mps[s])
  /\ disp' = [disp EXCEPT ![s] = "wait"]
  /\ UNCHANGED <<hung, stuckMounts, mtx, mps, line, main, got, stats, dispSaw, mainSaw,
                 call, deviceError, watch>>

(* Mutant: close(statChan) without wg.Wait(). *)
CloseStatsAtOnce(s) ==
  /\ disp[s] = "wait"
  /\ disp' = [disp EXCEPT ![s] = "closed"]
  /\ UNCHANGED <<hung, stuckMounts, mtx, mps, line, main, got, stats, dispSaw, mainSaw,
                 call, deviceError, watch>>

(* wg.Wait(): every worker has found labelChan closed and returned.  Then    *)
(* close(statChan).                                                          *)
CloseStats(s) ==
  /\ disp[s] = "wait"
  /\ Busy(s) = {}
  /\ disp' = [disp EXCEPT ![s] = "closed"]
  /\ UNCHANGED <<hung, stuckMounts, mtx, mps, line, main, got, stats, dispSaw, mainSaw,
                 call, deviceError, watch>>

-------------------------------------------------------------------------------
(* processStat, in a worker goroutine.                                       *)

(* statfs returns, with success or an error.                                 *)
StatfsReturns(s, i) ==
  /\ call[s][i] = "statfs"
  /\ MountPoint(s, i) \notin hung
  /\ \E e \in {NoError} \cup StatfsErrors :
       deviceError' = [deviceError EXCEPT ![s][i] = e]
  /\ call' = [call EXCEPT ![s][i] = "returned"]
  /\ UNCHANGED <<hung, stuckMounts, mtx, mps, disp, line, main, got, stats, dispSaw,
                 mainSaw, watch>>

(* Mutant: the mount point is unmarked only when statfs succeeded. *)
UnmarkOnSuccessOnly(s, i) ==
  /\ call[s][i] = "returned"
  /\ mtx = NoScrape
  /\ call' = [call EXCEPT ![s][i] = "ready"]
  /\ stuckMounts' = IF deviceError[s][i] = NoError
                    THEN stuckMounts \ {MountPoint(s, i)}
                    ELSE stuckMounts
  /\ UNCHANGED <<hung, mtx, mps, disp, line, main, got, stats, dispSaw, mainSaw,
                 deviceError, watch>>

(* Mutant: the mount point is never unmarked. *)
UnmarkNever(s, i) ==
  /\ call[s][i] = "returned"
  /\ mtx = NoScrape
  /\ call' = [call EXCEPT ![s][i] = "ready"]
  /\ UNCHANGED <<hung, stuckMounts, mtx, mps, disp, line, main, got, stats, dispSaw,
                 mainSaw, deviceError, watch>>

(* Under the lock: close(success), and delete the mount point from           *)
(* stuckMounts, whatever statfs returned.                                    *)
Unmark(s, i) ==
  /\ call[s][i] = "returned"
  /\ mtx = NoScrape
  /\ call' = [call EXCEPT ![s][i] = "ready"]
  /\ stuckMounts' = stuckMounts \ {MountPoint(s, i)}
  /\ UNCHANGED <<hung, mtx, mps, disp, line, main, got, stats, dispSaw, mainSaw,
                 deviceError, watch>>

-------------------------------------------------------------------------------
(* stuckMountWatcher, a goroutine of its own.                                *)

(* The first select: success is closed.                                      *)
WatcherExits(s, i) ==
  /\ watch[s][i] = "armed"
  /\ SuccessClosed(s, i)
  /\ watch' = [watch EXCEPT ![s][i] = "exited"]
  /\ UNCHANGED <<hung, stuckMounts, mtx, mps, disp, line, main, got, stats, dispSaw,
                 mainSaw, call, deviceError>>

(* The first select: the timer has fired.  A select with both cases ready    *)
(* takes either.                                                             *)
TimerFires(s, i) ==
  /\ watch[s][i] = "armed"
  /\ watch' = [watch EXCEPT ![s][i] = "fired"]
  /\ UNCHANGED <<hung, stuckMounts, mtx, mps, disp, line, main, got, stats, dispSaw,
                 mainSaw, call, deviceError>>

(* Mutant: no second look at success under the lock. *)
WatcherMarksAlways(s, i) ==
  /\ watch[s][i] = "fired"
  /\ mtx = NoScrape
  /\ watch' = [watch EXCEPT ![s][i] = "marked"]
  /\ stuckMounts' = stuckMounts \cup {MountPoint(s, i)}
  /\ UNCHANGED <<hung, mtx, mps, disp, line, main, got, stats, dispSaw, mainSaw, call,
                 deviceError>>

(* Mutant: the cases of the second select are swapped. *)
WatcherMarksSwapped(s, i) ==
  /\ watch[s][i] = "fired"
  /\ mtx = NoScrape
  /\ \/ /\ ~SuccessClosed(s, i)
        /\ watch' = [watch EXCEPT ![s][i] = "exited"]
        /\ UNCHANGED stuckMounts
     \/ /\ SuccessClosed(s, i)
        /\ watch' = [watch EXCEPT ![s][i] = "marked"]
        /\ stuckMounts' = stuckMounts \cup {MountPoint(s, i)}
  /\ UNCHANGED <<hung, mtx, mps, disp, line, main, got, stats, dispSaw, mainSaw, call,
                 deviceError>>

(* The second select, under the lock: mark the mount point unless success    *)
(* was closed meanwhile.                                                     *)
WatcherMarks(s, i) ==
  /\ watch[s][i] = "fired"
  /\ mtx = NoScrape
  /\ \/ /\ SuccessClosed(s, i)
        /\ watch' = [watch EXCEPT ![s][i] = "exited"]
        /\ UNCHANGED stuckMounts
     \/ /\ ~SuccessClosed(s, i)
        /\ watch' = [watch EXCEPT ![s][i] = "marked"]
        /\ stuckMounts' = stuckMounts \cup {MountPoint(s, i)}
  /\ UNCHANGED <<hung, mtx, mps, disp, line, main, got, stats, dispSaw, mainSaw, call,
                 deviceError>>

-------------------------------------------------------------------------------
(* The kernel: a mount point stops answering, or answers again.              *)

Hang(m) ==
  /\ m \notin hung
  /\ hung' = hung \cup {m}
  /\ UNCHANGED <<stuckMounts, mtx, mps, disp, line, main, got, stats, dispSaw, mainSaw,
                 call, deviceError, watch>>

Recover(m) ==
  /\ m \in hung
  /\ hung' = hung \ {m}
  /\ UNCHANGED <<stuckMounts, mtx, mps, disp, line, main, got, stats, dispSaw, mainSaw,
                 call, deviceError, watch>>

-------------------------------------------------------------------------------
Main(s) ==
  \/ GetStats(s) \/ GetStatsFails(s) \/ MainAppend(s) \/ Finish(s)

Dispatcher(s) ==
  \/ CheckLine(s) \/ AppendStuck(s) \/ Send(s) \/ CloseLabels(s) \/ CloseStats(s)

Worker(s, i) == StatfsReturns(s, i) \/ Unmark(s, i) \/ Deliver(s, i)

Watcher(s, i) == WatcherExits(s, i) \/ TimerFires(s, i) \/ WatcherMarks(s, i)

Kernel == \E m \in MountPoints : Hang(m) \/ Recover(m)

Next ==
  \/ \E s \in Scrapes :
       \/ Main(s)
       \/ Dispatcher(s)
       \/ \E i \in Lines : Worker(s, i) \/ Watcher(s, i)
  \/ Kernel

Spec == Init /\ [][Next]_vars

(***************************************************************************)
(* Fairness.  Every goroutine that can run does run: the Go scheduler is   *)
(* preemptive, sync.Mutex does not starve a waiter, a timer fires.  statfs *)
(* returns while the mount point is not hung (it is part of Worker and its *)
(* guard says so).  Nothing obliges a scrape to start.                     *)
(***************************************************************************)
Fairness ==
  \A s \in Scrapes :
    /\ WF_vars(MainAppend(s) \/ Finish(s))
    /\ WF_vars(Dispatcher(s))
    /\ \A i \in Lines : WF_vars(Worker(s, i)) /\ WF_vars(Watcher(s, i))

FairSpec == Spec /\ Fairness

(* No further mount point hangs; those that hang may recover or not.         *)
SteadySpec == Init /\ [][Next /\ hung' \subseteq hung]_vars /\ Fairness

-------------------------------------------------------------------------------
(* Properties.                                                               *)

TypeOK ==
  /\ hung \in SUBSET MountPoints
  /\ stuckMounts \in SUBSET MountPoints
  /\ mtx \in Scrapes \cup {NoScrape}
  /\ mps \in [Scrapes -> Tables \cup {<<>>}]
  /\ disp \in [Scrapes -> DispatcherStates]
  /\ line \in [Scrapes -> 1..MaxLines + 1]
  /\ main \in [Scrapes -> MainStates]
  /\ got \in [Scrapes -> Lines \cup {0}]
  /\ stats \in [Scrapes -> SUBSET Results]
  /\ dispSaw \in [Scrapes -> SUBSET Results]
  /\ mainSaw \in [Scrapes -> SUBSET Results]
  /\ call \in [Scrapes -> [Lines -> CallStates]]
  /\ deviceError \in [Scrapes -> [Lines -> DeviceErrors]]
  /\ watch \in [Scrapes -> [Lines -> WatcherStates]]

(* statfs has been called for the line and success is not closed yet.        *)
Pending(s, i) == call[s][i] \in {"statfs", "returned"}

(***************************************************************************)
(* A mount point in stuckMounts has a call of processStat that has not yet *)
(* reached its delete.  A watcher that marked the mount point after its    *)
(* call was over would exclude it from every later scrape, for nothing but *)
(* a later call on the same mount point deletes it, and no scrape would    *)
(* make one.                                                               *)
(***************************************************************************)
StuckHasPendingCall ==
  \A m \in stuckMounts :
    \E s \in Scrapes, i \in Lines : Pending(s, i) /\ MountPoint(s, i) = m

(***************************************************************************)
(* statChan is closed only when no worker will send on it any more (a send *)
(* on a closed channel panics and takes the process down), and GetStats    *)
(* does not return before that.                                            *)
(***************************************************************************)
NoSendAfterClose ==
  \A s \in Scrapes :
    /\ disp[s] = "closed" => Busy(s) = {}
    /\ main[s] = "done" => disp[s] = "closed"

(* Lines the dispatcher answered itself, and lines it gave to the workers.   *)
Skipped(s) == { i \in Lines : i < line[s] /\ call[s][i] = "none" }
Dispatched(s) == { i \in Lines : call[s][i] # "none" }

(***************************************************************************)
(* Unless the dispatcher and main both appended to stats, GetStats returns *)
(* exactly one result for every line of the mount table, with the error    *)
(* that this line met.                                                     *)
(***************************************************************************)
CompleteUnlessMixed ==
  \A s \in Scrapes :
    main[s] = "done" /\ (Skipped(s) = {} \/ Dispatched(s) = {}) =>
      stats[s] = { Result(i, deviceError[s][i]) : i \in 1..Len(mps[s]) }

(***************************************************************************)
(* "Make sure we expose a metric once, even if there are multiple mounts": *)
(* no two groups of metrics that Update sends have the same label values,  *)
(* which the registry would reject.                                        *)
(***************************************************************************)
ExposedAtMostOnce ==
  \A s \in Scrapes :
    main[s] = "done" =>
      \A g, h \in Exposed(s) : Series(g[1]) = Series(h[1]) => g = h

(***************************************************************************)
(* The same comment's other half: every mount of the table is exposed when *)
(* Update succeeds.                                                        *)
(***************************************************************************)
ExposedAtLeastOnce ==
  \A s \in Scrapes :
    main[s] = "done" => \A i \in 1..Len(mps[s]) : IsExposed(s, i)

(* The registry of stuck mount points keeps its promise, see MountHealth.    *)
Outstanding ==
  [m \in MountPoints |->
    { c \in Scrapes \X Lines : Pending(c[1], c[2]) /\ MountPoint(c[1], c[2]) = m }]

Health == INSTANCE MountHealth WITH
            Calls <- Scrapes \X Lines,
            outstanding <- Outstanding,
            stuck <- stuckMounts

(***************************************************************************)
(* The collector implements the registry: a mount point is marked only     *)
(* while a call on it is outstanding, and unmarked by each call that       *)
(* completes.                                                              *)
(***************************************************************************)
ImplementsHealth == Health!HealthSpec

(***************************************************************************)
(* What stuckMounts is for: a scrape that starts when every hung mount     *)
(* point is marked finishes, whether or not they ever answer.              *)
(***************************************************************************)
StuckMountsDoNotBlock ==
  \A s \in Scrapes :
    (disp[s] = "check" /\ line[s] = 1 /\ hung \subseteq stuckMounts) ~> main[s] = "done"

(* From some moment on no mount point stops answering or answers again.      *)
Steady == <>[][FALSE]_hung

HungLines(s) == { i \in 1..Len(mps[s]) : MountPoint(s, i) \in hung }

(***************************************************************************)
(* What the workers are for: while fewer lines hang than there are         *)
(* workers, every line that does not hang gets its result in the end, be   *)
(* it received by main or given by the dispatcher.  (The scrape itself     *)
(* still waits for the calls that hang.)                                   *)
(***************************************************************************)
OthersAnswered ==
  Steady =>
    <>[](\A s \in Scrapes :
           Cardinality(HungLines(s)) < workerCount =>
             \A i \in (1..Len(mps[s])) \ HungLines(s) :
               call[s][i] = "delivered" \/ i \in Skipped(s))

(***************************************************************************)
(* A mount point on which statfs hangs gets marked when the timer fires:   *)
(* in the end a call hangs only on mount points that are marked.           *)
(***************************************************************************)
HungGetsMarked ==
  <>[](\A s \in Scrapes, i \in Lines :
         call[s][i] = "statfs" => MountPoint(s, i) \in stuckMounts)

(* Every mount point that hangs recovers in the end.                         *)
AllRecover == <>(hung = {})

(***************************************************************************)
(* When every hung mount point recovers, every scrape that started ends:   *)
(* neither a hang of the past nor the mutex holds any of them up.          *)
(***************************************************************************)
ScrapesEnd == AllRecover => <>[](\A s \in Scrapes : main[s] # "recv")

(***************************************************************************)
(* A recovered mount point is measured again: when every hung mount point  *)
(* recovers, nothing stays in stuckMounts.                                 *)
(***************************************************************************)
StuckClears == AllRecover => <>[](stuckMounts = {})
===============================================================================
