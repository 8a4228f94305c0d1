----------------------- MODULE FilesystemResultsProofs -----------------------
(***************************************************************************)
(* Proof that a scrape whose lines all went the same way has exactly one   *)
(* result for each of them, for every set of scrapes, every mount table    *)
(* and every number of workers.                                            *)
(***************************************************************************)
EXTENDS FilesystemProofs

(* The dispatcher and main did not both append.                              *)
Unmixed(s) == Skipped(s) = {} \/ Dispatched(s) = {}

(* The lines whose result is in stats: those the dispatcher skipped, and     *)
(* those that main received and has appended.                                *)
Appended(s) ==
  Skipped(s) \cup { i \in Lines : call[s][i] = "delivered" /\ (main[s] = "append" => got[s] # i) }

ResultsOf(s, lines) == { Result(i, deviceError[s][i]) : i \in lines }

(* Slice headers are fresh as long as only one goroutine appends.            *)
Recorded(s) ==
  /\ Unmixed(s) => stats[s] = ResultsOf(s, Appended(s))
  /\ disp[s] = "append" =>
       /\ deviceError[s][line[s]] = TimeoutError
       /\ Dispatched(s) = {} => dispSaw[s] = stats[s]
  /\ main[s] = "append" =>
       /\ call[s][got[s]] = "delivered"
       /\ Skipped(s) = {} => mainSaw[s] = stats[s]
  /\ disp[s] \in {"wait", "closed"} => line[s] = Len(mps[s]) + 1

(* The state of a scrape.                                                    *)
State(s) ==
  <<mps[s], disp[s], line[s], main[s], got[s], stats[s], dispSaw[s], mainSaw[s], call[s],
    deviceError[s]>>

-------------------------------------------------------------------------------
LEMMA SameState ==
  ASSUME NEW s \in Scrapes, State(s)' = State(s), Recorded(s)
  PROVE  Recorded(s)'
<1> USE DEF State
<1>1. Skipped(s)' = Skipped(s) /\ Dispatched(s)' = Dispatched(s)
  BY DEF Skipped, Dispatched
<1>2. Appended(s)' = Appended(s)
  BY <1>1 DEF Appended
<1>3. ResultsOf(s, Appended(s))' = ResultsOf(s, Appended(s))
  BY <1>2 DEF ResultsOf
<1> QED
  BY <1>1, <1>3 DEF Recorded, Unmixed

(* The steps of a scrape and of the kernel leave other scrapes alone.        *)
LEMMA OtherScrapes ==
  ASSUME TypeOK, NEW s \in Scrapes, NEW t \in Scrapes, t # s,
         Main(t) \/ Dispatcher(t) \/ \E i \in Lines : Worker(t, i) \/ Watcher(t, i)
  PROVE  State(s)' = State(s)
<1> USE DEF State, TypeOK
<1>1. CASE Main(t)
  BY <1>1 DEF Main, GetStats, GetStatsFails, MainAppend, Finish, AppendToStats
<1>2. CASE Dispatcher(t)
  <2>1. CASE CheckLine(t)
    BY <2>1 DEF CheckLine
  <2>2. CASE AppendStuck(t)
    BY <2>2 DEF AppendStuck, AppendToStats
  <2>3. CASE Send(t) \/ CloseLabels(t) \/ CloseStats(t)
    BY <2>3 DEF Send, CloseLabels, CloseStats
  <2> QED
    BY <1>2, <2>1, <2>2, <2>3 DEF Dispatcher
<1>3. ASSUME NEW i \in Lines, Worker(t, i) \/ Watcher(t, i)
      PROVE  State(s)' = State(s)
  <2>1. CASE Worker(t, i)
    BY <2>1 DEF Worker, StatfsReturns, Unmark, Deliver
  <2>2. CASE Watcher(t, i)
    BY <2>2 DEF Watcher, WatcherExits, TimerFires, WatcherMarks
  <2> QED
    BY <1>3, <2>1, <2>2
<1> QED
  BY <1>1, <1>2, <1>3

(* The lines of Skipped and Dispatched are those before the dispatcher's.    *)
LEMMA LinesBefore ==
  ASSUME IInv, NEW s \in Scrapes
  PROVE  /\ line[s] \in Nat /\ Lines \subseteq Nat \ {0}
         /\ Dispatched(s) \subseteq { i \in Lines : i < line[s] }
         /\ Skipped(s) \cup Dispatched(s) = { i \in Lines : i < line[s] }
         /\ Skipped(s) \cap Dispatched(s) = {}
<1>1. line[s] \in Nat /\ Lines \subseteq Nat \ {0}
  BY FilesystemAssumption DEF IInv, TypeOK, Lines
<1> QED
  BY <1>1 DEF IInv, DispatchInTable, Skipped, Dispatched

LEMMA InitRecorded ==
  ASSUME Init, NEW s \in Scrapes
  PROVE  Recorded(s)
<1>1. \A i \in Lines : ~(i < 1)
  BY DEF Lines
<1>2. Appended(s) = {}
  BY <1>1 DEF Init, Appended, Skipped
<1> QED
  BY <1>2 DEF Init, Recorded, ResultsOf

-------------------------------------------------------------------------------
(* The steps of the scrape itself.                                           *)

LEMMA GetStatsRecorded ==
  ASSUME IInv, NEW s \in Scrapes, Recorded(s), GetStats(s)
  PROVE  Recorded(s)'
<1>1. /\ UNCHANGED <<line, stats, call, deviceError, got>>
      /\ main[s] = "idle" /\ main'[s] = "recv" /\ disp'[s] = "check"
  BY DEF GetStats, IInv, TypeOK
<1>2. Skipped(s)' = Skipped(s) /\ Dispatched(s)' = Dispatched(s) /\ Appended(s)' = Appended(s)
  BY <1>1 DEF Skipped, Dispatched, Appended
<1>3. ResultsOf(s, Appended(s))' = ResultsOf(s, Appended(s))
  BY <1>1, <1>2 DEF ResultsOf
<1> QED
  BY <1>1, <1>2, <1>3 DEF Recorded, Unmixed

(* Steps of a control point only.                                            *)
LEMMA ControlRecorded ==
  ASSUME IInv, NEW s \in Scrapes, Recorded(s),
         GetStatsFails(s) \/ Finish(s) \/ CloseLabels(s) \/ CloseStats(s)
  PROVE  Recorded(s)'
<1>1. /\ UNCHANGED <<mps, line, stats, call, deviceError, got>>
      /\ main[s] # "append" \/ UNCHANGED <<main, mainSaw>>
      /\ main'[s] = "append" => main[s] = "append"
      /\ disp'[s] # "append" \/ UNCHANGED <<disp, dispSaw>>
  BY DEF GetStatsFails, Finish, CloseLabels, CloseStats, IInv, TypeOK
<1>2. Skipped(s)' = Skipped(s) /\ Dispatched(s)' = Dispatched(s) /\ Appended(s)' = Appended(s)
  BY <1>1 DEF Skipped, Dispatched, Appended
<1>3. ResultsOf(s, Appended(s))' = ResultsOf(s, Appended(s))
  BY <1>1, <1>2 DEF ResultsOf
<1>4. disp'[s] \in {"wait", "closed"} => line[s] = Len(mps[s]) + 1
  <2>1. CASE CloseLabels(s)
    BY <2>1, TableType, LinesBefore DEF CloseLabels, IInv, DispatchInTable
  <2>2. CASE GetStatsFails(s) \/ Finish(s) \/ CloseStats(s)
    BY <2>2 DEF GetStatsFails, Finish, CloseStats, Recorded
  <2> QED
    BY <2>1, <2>2
<1> QED
  BY <1>1, <1>2, <1>3, <1>4 DEF Recorded, Unmixed

(* The result of a line changes only as long as the line is not appended.    *)
LEMMA CheckLineRecorded ==
  ASSUME IInv, NEW s \in Scrapes, Recorded(s), CheckLine(s)
  PROVE  Recorded(s)'
<1>1. /\ UNCHANGED <<mps, line, main, got, stats, mainSaw, call>>
      /\ disp'[s] \in {"append", "send"}
      /\ disp'[s] = "append" => dispSaw'[s] = stats[s]
  BY DEF CheckLine, IInv, TypeOK
<1>2. Skipped(s)' = Skipped(s) /\ Dispatched(s)' = Dispatched(s) /\ Appended(s)' = Appended(s)
  BY <1>1 DEF Skipped, Dispatched, Appended
<1>3. line[s] \in Lines
  BY CurrentLine DEF CheckLine, IInv
<1>4. disp'[s] = "append" => deviceError'[s][line[s]] = TimeoutError
  BY <1>3 DEF CheckLine, IInv, TypeOK
<1>5. \A i \in Lines : i # line[s] => deviceError'[s][i] = deviceError[s][i]
  BY <1>3 DEF CheckLine, IInv, TypeOK
<1>6. line[s] \notin Appended(s) /\ Appended(s) \subseteq Lines
  BY <1>3, LinesBefore DEF Appended, Dispatched, Skipped
<1>7. ResultsOf(s, Appended(s))' = ResultsOf(s, Appended(s))
  BY <1>2, <1>5, <1>6 DEF ResultsOf
<1> QED
  BY <1>1, <1>2, <1>4, <1>7 DEF Recorded, Unmixed

(* The dispatcher appends the result of the line it skips.                   *)
LEMMA AppendStuckRecorded ==
  ASSUME IInv, NEW s \in Scrapes, Recorded(s), AppendStuck(s)
  PROVE  Recorded(s)'
<1>1. /\ UNCHANGED <<mps, main, got, mainSaw, call, deviceError>>
      /\ disp[s] = "append" /\ disp'[s] = "check" /\ line'[s] = line[s] + 1
      /\ deviceError[s][line[s]] = TimeoutError
  BY DEF AppendStuck, IInv, TypeOK, Recorded
<1>2. line[s] \in Lines /\ line[s] \in Nat
  BY <1>1, CurrentLine, LinesBefore DEF DispatchInTable, IInv
<1>3. line[s] \notin Skipped(s) \cup Dispatched(s)
  BY <1>2, LinesBefore
<1>4. Skipped(s)' = Skipped(s) \cup {line[s]} /\ Dispatched(s)' = Dispatched(s)
  <2>1. call[s][line[s]] = "none"
    BY <1>2, <1>3 DEF Dispatched
  <2>2. \A i \in Lines : i < line[s] + 1 <=> i < line[s] \/ i = line[s]
    BY <1>2, LinesBefore
  <2> QED
    BY <1>1, <1>2, <2>1, <2>2 DEF Skipped, Dispatched
<1>5. main[s] = "append" => got[s] \in Dispatched(s)
  BY DEF Recorded, Dispatched, IInv, DispatchInTable
<1>6. ASSUME Dispatched(s) = {}
      PROVE  stats'[s] = ResultsOf(s, Appended(s))'
  <2>1. stats[s] = ResultsOf(s, Appended(s)) /\ dispSaw[s] = stats[s]
    BY <1>1, <1>6 DEF Recorded, Unmixed
  <2>2. stats'[s] = stats[s] \cup {Result(line[s], TimeoutError)}
    BY <2>1 DEF AppendStuck, AppendToStats, IInv, TypeOK
  <2>3. Appended(s)' = Appended(s) \cup {line[s]}
    BY <1>1, <1>4 DEF Appended
  <2>4. ResultsOf(s, Appended(s))' = ResultsOf(s, Appended(s)) \cup {Result(line[s], TimeoutError)}
    BY <1>1, <2>3 DEF ResultsOf
  <2> QED
    BY <2>1, <2>2, <2>4
<1> QED
  BY <1>1, <1>4, <1>5, <1>6 DEF Recorded, Unmixed

LEMMA SendRecorded ==
  ASSUME IInv, NEW s \in Scrapes, Recorded(s), Send(s)
  PROVE  Recorded(s)'
<1>1. /\ UNCHANGED <<mps, main, got, stats, mainSaw, deviceError>>
      /\ disp[s] = "send" /\ disp'[s] = "check" /\ line'[s] = line[s] + 1
  BY DEF Send, IInv, TypeOK
<1>2. line[s] \in Lines /\ line[s] \in Nat
  BY <1>1, CurrentLine, LinesBefore DEF DispatchInTable, IInv
<1>3. line[s] \notin Skipped(s) \cup Dispatched(s)
  BY <1>2, LinesBefore
<1>4. /\ call'[s][line[s]] = "statfs"
      /\ \A i \in Lines : i # line[s] => call'[s][i] = call[s][i]
  BY <1>2 DEF Send, IInv, TypeOK
<1>5. Skipped(s)' = Skipped(s) /\ Dispatched(s)' = Dispatched(s) \cup {line[s]}
  <2>1. \A i \in Lines : i < line[s] + 1 <=> i < line[s] \/ i = line[s]
    BY <1>2, LinesBefore
  <2> QED
    BY <1>1, <1>2, <1>3, <1>4, <2>1 DEF Skipped, Dispatched
<1>6. Appended(s)' = Appended(s)
  <2>1. call[s][line[s]] = "none"
    BY <1>2, <1>3 DEF Dispatched
  <2> QED
    BY <1>1, <1>4, <1>5, <2>1 DEF Appended
<1>7. ResultsOf(s, Appended(s))' = ResultsOf(s, Appended(s))
  BY <1>1, <1>6 DEF ResultsOf
<1>8. main[s] = "append" => got[s] \in Lines /\ call'[s][got[s]] = "delivered"
  <2>1. main[s] = "append" => got[s] \in Lines /\ call[s][got[s]] = "delivered"
    BY DEF Recorded, IInv, DispatchInTable
  <2>2. call[s][line[s]] = "none"
    BY <1>2, <1>3 DEF Dispatched
  <2> QED
    BY <1>4, <2>1, <2>2
<1> QED
  BY <1>1, <1>5, <1>7, <1>8 DEF Recorded, Unmixed

(* A call of processStat gets on; its line is not in stats before main has   *)
(* appended its result.                                                      *)
LEMMA ProcessStatRecorded ==
  ASSUME IInv, NEW s \in Scrapes, NEW i \in Lines, Recorded(s),
         StatfsReturns(s, i) \/ Unmark(s, i)
  PROVE  Recorded(s)'
<1>1. /\ UNCHANGED <<mps, disp, line, main, got, stats, dispSaw, mainSaw>>
      /\ call[s][i] \in {"statfs", "returned"} /\ call'[s][i] \in {"returned", "ready"}
      /\ \A j \in Lines : j # i => /\ call'[s][j] = call[s][j]
                                   /\ deviceError'[s][j] = deviceError[s][j]
  BY DEF StatfsReturns, Unmark, IInv, TypeOK
<1>2. Skipped(s)' = Skipped(s) /\ Dispatched(s)' = Dispatched(s)
  BY <1>1 DEF Skipped, Dispatched
<1>3. Appended(s)' = Appended(s) /\ i \notin Appended(s) /\ Appended(s) \subseteq Lines
  BY <1>1, <1>2 DEF Appended, Skipped
<1>4. ResultsOf(s, Appended(s))' = ResultsOf(s, Appended(s))
  BY <1>1, <1>3 DEF ResultsOf
<1>5. disp[s] = "append" => line[s] \in Lines /\ line[s] # i
  BY <1>1, CurrentLine, LinesBefore DEF DispatchInTable, IInv
<1>6. main[s] = "append" => got[s] \in Lines /\ got[s] # i
  BY <1>1 DEF Recorded, IInv, DispatchInTable
<1> QED
  BY <1>1, <1>2, <1>4, <1>5, <1>6 DEF Recorded, Unmixed

LEMMA DeliverRecorded ==
  ASSUME IInv, NEW s \in Scrapes, NEW i \in Lines, Recorded(s), Deliver(s, i)
  PROVE  Recorded(s)'
<1>1. /\ UNCHANGED <<mps, disp, line, stats, dispSaw, deviceError>>
      /\ main[s] = "recv" /\ main'[s] = "append" /\ got'[s] = i /\ mainSaw'[s] = stats[s]
      /\ call[s][i] = "ready" /\ call'[s][i] = "delivered"
      /\ \A j \in Lines : j # i => call'[s][j] = call[s][j]
  BY DEF Deliver, IInv, TypeOK
<1>2. Skipped(s)' = Skipped(s) /\ Dispatched(s)' = Dispatched(s)
  BY <1>1 DEF Skipped, Dispatched
<1>3. Appended(s)' = Appended(s)
  BY <1>1, <1>2 DEF Appended
<1>4. ResultsOf(s, Appended(s))' = ResultsOf(s, Appended(s))
  BY <1>1, <1>3 DEF ResultsOf
<1> QED
  BY <1>1, <1>2, <1>4 DEF Recorded, Unmixed

(* main appends the result it received.                                      *)
LEMMA MainAppendRecorded ==
  ASSUME IInv, NEW s \in Scrapes, Recorded(s), MainAppend(s)
  PROVE  Recorded(s)'
<1>1. /\ UNCHANGED <<mps, disp, line, got, dispSaw, call, deviceError>>
      /\ main[s] = "append" /\ main'[s] = "recv"
      /\ got[s] \in Lines /\ call[s][got[s]] = "delivered"
  BY DEF MainAppend, IInv, TypeOK, Recorded, DispatchInTable
<1>2. Skipped(s)' = Skipped(s) /\ Dispatched(s)' = Dispatched(s)
  BY <1>1 DEF Skipped, Dispatched
<1>3. Dispatched(s) # {}
  BY <1>1 DEF Dispatched
<1>4. ASSUME Skipped(s) = {}
      PROVE  stats'[s] = ResultsOf(s, Appended(s))'
  <2>1. stats[s] = ResultsOf(s, Appended(s)) /\ mainSaw[s] = stats[s]
    BY <1>1, <1>4 DEF Recorded, Unmixed
  <2>2. stats'[s] = stats[s] \cup {Result(got[s], deviceError[s][got[s]])}
    BY <2>1 DEF MainAppend, AppendToStats, IInv, TypeOK
  <2>3. Appended(s)' = Appended(s) \cup {got[s]}
    BY <1>1, <1>2 DEF Appended
  <2>4. ResultsOf(s, Appended(s))' =
          ResultsOf(s, Appended(s)) \cup {Result(got[s], deviceError[s][got[s]])}
    BY <1>1, <2>3 DEF ResultsOf
  <2> QED
    BY <2>1, <2>2, <2>4
<1> QED
  BY <1>1, <1>2, <1>3, <1>4 DEF Recorded, Unmixed

LEMMA WatcherRecorded ==
  ASSUME IInv, NEW s \in Scrapes, NEW i \in Lines, Recorded(s), Watcher(s, i)
  PROVE  Recorded(s)'
<1>1. State(s)' = State(s)
  BY DEF State, Watcher, WatcherExits, TimerFires, WatcherMarks
<1> QED
  BY <1>1, SameState

-------------------------------------------------------------------------------
LEMMA StepRecorded ==
  ASSUME IInv, [Next]_vars, \A s \in Scrapes : Recorded(s)
  PROVE  (\A s \in Scrapes : Recorded(s))'
<1> SUFFICES ASSUME NEW s \in Scrapes PROVE Recorded(s)'
  OBVIOUS
<1>0. Recorded(s) /\ TypeOK
  BY DEF IInv
<1>1. CASE Main(s)
  BY <1>0, <1>1, GetStatsRecorded, ControlRecorded, MainAppendRecorded DEF Main
<1>2. CASE Dispatcher(s)
  BY <1>0, <1>2, CheckLineRecorded, AppendStuckRecorded, SendRecorded, ControlRecorded
     DEF Dispatcher
<1>3. ASSUME NEW i \in Lines, Worker(s, i) \/ Watcher(s, i)
      PROVE  Recorded(s)'
  BY <1>0, <1>3, ProcessStatRecorded, DeliverRecorded, WatcherRecorded DEF Worker
<1>4. ASSUME NEW t \in Scrapes, t # s,
             Main(t) \/ Dispatcher(t) \/ \E i \in Lines : Worker(t, i) \/ Watcher(t, i)
      PROVE  Recorded(s)'
  BY <1>0, <1>4, OtherScrapes, SameState
<1>5. CASE Kernel \/ UNCHANGED vars
  <2>1. State(s)' = State(s)
    BY <1>5 DEF State, Kernel, Hang, Recover, vars
  <2> QED
    BY <1>0, <2>1, SameState
<1> QED
  BY <1>1, <1>2, <1>3, <1>4, <1>5 DEF Next

(***************************************************************************)
(* A scrape all of whose lines were dispatched, or all skipped, returns    *)
(* one result for every line of the mount table, with the error that this  *)
(* line met.                                                               *)
(***************************************************************************)
THEOREM ResultsComplete == Spec => []CompleteUnlessMixed
<1> DEFINE AllRecorded == \A s \in Scrapes : Recorded(s)
<1>1. Init => AllRecorded
  BY InitRecorded
<1>2. IInv /\ AllRecorded /\ [Next]_vars => AllRecorded'
  BY StepRecorded
<1>3. IInv /\ AllRecorded => CompleteUnlessMixed
  <2> SUFFICES ASSUME IInv, NEW s \in Scrapes, Recorded(s), main[s] = "done", Unmixed(s)
               PROVE  stats[s] = { Result(i, deviceError[s][i]) : i \in 1..Len(mps[s]) }
    BY DEF CompleteUnlessMixed, Unmixed
  <2>1. disp[s] = "closed" /\ Busy(s) = {} /\ line[s] = Len(mps[s]) + 1
    BY DEF IInv, NoSendAfterClose, Recorded
  <2>2. Dispatched(s) = { i \in Lines : call[s][i] = "delivered" }
    BY <2>1 DEF Dispatched, Busy, IInv, TypeOK, CallStates
  <2>3. Appended(s) = { i \in Lines : i < Len(mps[s]) + 1 }
    BY <2>1, <2>2, LinesBefore DEF Appended
  <2>4. Appended(s) = 1..Len(mps[s])
    BY <2>3, TableType, FilesystemAssumption DEF Lines, IInv
  <2> QED
    BY <2>4 DEF Recorded, ResultsOf
<1> QED
  BY <1>1, <1>2, <1>3, Invariance, PTL DEF Spec

-------------------------------------------------------------------------------
(* The results, racy or not, belong to lines of the mount table.             *)

(* A result of a line of the table, or of no line.                           *)
InTable(s, r) == r = Garbage \/ r.line \in 1..Len(mps[s])

ResultsInTable(s) ==
  /\ \A r \in stats[s] \cup dispSaw[s] \cup mainSaw[s] : InTable(s, r)
  /\ main[s] \in {"idle", "failed"} => stats[s] \cup dispSaw[s] \cup mainSaw[s] = {}

LEMMA SameResults ==
  ASSUME NEW s \in Scrapes, State(s)' = State(s), ResultsInTable(s)
  PROVE  ResultsInTable(s)'
BY DEF State, ResultsInTable, InTable

(* An append keeps, loses, adds its result or shows unwritten memory; it     *)
(* invents no line.                                                          *)
LEMMA AppendInTable ==
  ASSUME TypeOK, NEW s \in Scrapes, NEW saw \in SUBSET Results, NEW r,
         AppendToStats(s, saw, r), InTable(s, r),
         \A q \in saw \cup stats[s] : InTable(s, q)
  PROVE  \A q \in stats'[s] : InTable(s, q)
<1>1. CASE stats' = [stats EXCEPT ![s] = @ \cup {r}]
  BY <1>1 DEF TypeOK
<1>2. ASSUME NEW rest \in SUBSET (saw \cup stats[s] \cup {r, Garbage}),
             stats' = [stats EXCEPT ![s] = (saw \cap @) \cup rest]
      PROVE  \A q \in stats'[s] : InTable(s, q)
  <2>1. stats'[s] \subseteq saw \cup stats[s] \cup {r, Garbage}
    BY <1>2 DEF TypeOK
  <2> QED
    BY <2>1 DEF InTable
<1> QED
  BY <1>1, <1>2 DEF AppendToStats

LEMMA ResultInTable ==
  ASSUME NEW s \in Scrapes, NEW i \in 1..Len(mps[s]), NEW e
  PROVE  InTable(s, Result(i, e))
BY DEF InTable, Result

LEMMA MainInTable ==
  ASSUME IInv, NEW s \in Scrapes, Recorded(s), ResultsInTable(s), Main(s)
  PROVE  ResultsInTable(s)'
<1> USE DEF IInv
<1>1. CASE GetStats(s)
  <2>1. UNCHANGED <<stats, dispSaw, mainSaw>> /\ main[s] = "idle"
    BY <1>1 DEF GetStats
  <2> QED
    BY <2>1 DEF ResultsInTable
<1>2. CASE GetStatsFails(s) \/ Finish(s)
  <2>1. /\ UNCHANGED <<mps, stats, dispSaw, mainSaw>>
        /\ main'[s] = "failed" => main[s] = "idle"
        /\ main'[s] # "idle"
    BY <1>2 DEF GetStatsFails, Finish, TypeOK
  <2> QED
    BY <2>1 DEF ResultsInTable, InTable
<1>3. CASE MainAppend(s)
  <2>1. UNCHANGED <<mps, dispSaw, mainSaw>> /\ main[s] = "append" /\ main'[s] = "recv"
    BY <1>3 DEF MainAppend, TypeOK
  <2>2. got[s] \in 1..Len(mps[s])
    BY <2>1, CallInTable DEF Recorded, DispatchInTable
  <2>3. mainSaw[s] \in SUBSET Results
    BY DEF TypeOK
  <2>4. \A q \in stats'[s] : InTable(s, q)
    BY <1>3, <2>2, <2>3, ResultInTable, AppendInTable DEF MainAppend, ResultsInTable
  <2> QED
    BY <2>1, <2>4 DEF ResultsInTable, InTable
<1> QED
  BY <1>1, <1>2, <1>3 DEF Main

LEMMA DispatcherInTable ==
  ASSUME IInv, NEW s \in Scrapes, ResultsInTable(s), Dispatcher(s)
  PROVE  ResultsInTable(s)'
<1> USE DEF IInv
<1>1. CASE AppendStuck(s)
  <2>1. UNCHANGED <<mps, main, dispSaw, mainSaw>> /\ disp[s] = "append"
    BY <1>1 DEF AppendStuck
  <2>2. line[s] \in 1..Len(mps[s]) /\ main[s] \notin {"idle", "failed"}
    BY <2>1, CurrentLine DEF DispatchInTable
  <2>3. dispSaw[s] \in SUBSET Results
    BY DEF TypeOK
  <2>4. \A q \in stats'[s] : InTable(s, q)
    BY <1>1, <2>2, <2>3, ResultInTable, AppendInTable DEF AppendStuck, ResultsInTable
  <2> QED
    BY <2>1, <2>2, <2>4 DEF ResultsInTable, InTable
<1>2. CASE CheckLine(s)
  <2>1. /\ UNCHANGED <<mps, main, stats, mainSaw>>
        /\ dispSaw'[s] \in {stats[s], dispSaw[s]}
    BY <1>2 DEF CheckLine, TypeOK
  <2> QED
    BY <2>1 DEF ResultsInTable, InTable
<1>3. CASE Send(s) \/ CloseLabels(s) \/ CloseStats(s)
  <2>1. UNCHANGED <<mps, main, stats, dispSaw, mainSaw>>
    BY <1>3 DEF Send, CloseLabels, CloseStats
  <2> QED
    BY <2>1 DEF ResultsInTable, InTable
<1> QED
  BY <1>1, <1>2, <1>3 DEF Dispatcher

LEMMA WorkerInTable ==
  ASSUME IInv, NEW s \in Scrapes, NEW i \in Lines, ResultsInTable(s),
         Worker(s, i) \/ Watcher(s, i)
  PROVE  ResultsInTable(s)'
<1>1. /\ UNCHANGED <<mps, stats, dispSaw>>
      /\ mainSaw'[s] \in {stats[s], mainSaw[s]}
      /\ main'[s] \in {main[s], "append"}
  BY DEF Worker, StatfsReturns, Unmark, Deliver, Watcher, WatcherExits, TimerFires,
         WatcherMarks, IInv, TypeOK
<1>2. main'[s] \in {"idle", "failed"} => mainSaw'[s] = mainSaw[s] \/ stats[s] = {}
  BY <1>1 DEF ResultsInTable
<1> QED
  BY <1>1, <1>2 DEF ResultsInTable, InTable

LEMMA StepInTable ==
  ASSUME IInv, [Next]_vars, \A s \in Scrapes : Recorded(s) /\ ResultsInTable(s)
  PROVE  (\A s \in Scrapes : ResultsInTable(s))'
<1> SUFFICES ASSUME NEW s \in Scrapes PROVE ResultsInTable(s)'
  OBVIOUS
<1>0. Recorded(s) /\ ResultsInTable(s) /\ TypeOK
  BY DEF IInv
<1>1. CASE Main(s)
  BY <1>0, <1>1, MainInTable
<1>2. CASE Dispatcher(s)
  BY <1>0, <1>2, DispatcherInTable
<1>3. ASSUME NEW i \in Lines, Worker(s, i) \/ Watcher(s, i)
      PROVE  ResultsInTable(s)'
  BY <1>0, <1>3, WorkerInTable
<1>4. ASSUME NEW t \in Scrapes, t # s,
             Main(t) \/ Dispatcher(t) \/ \E i \in Lines : Worker(t, i) \/ Watcher(t, i)
      PROVE  ResultsInTable(s)'
  BY <1>0, <1>4, OtherScrapes, SameResults
<1>5. CASE Kernel \/ UNCHANGED vars
  <2>1. State(s)' = State(s)
    BY <1>5 DEF State, Kernel, Hang, Recover, vars
  <2> QED
    BY <1>0, <2>1, SameResults
<1> QED
  BY <1>1, <1>2, <1>3, <1>4, <1>5 DEF Next

(* No mount table shows a source twice at one mount point with different     *)
(* options.                                                                  *)
OptionsAgree ==
  \A t \in Tables : \A i, j \in 1..Len(t) :
    t[i].source = t[j].source /\ t[i].mountPoint = t[j].mountPoint =>
      t[i].options = t[j].options

(* In such tables the label values of the metrics tell labels apart, those   *)
(* of unwritten memory included.                                             *)
LEMMA SeriesTellLabelsApart ==
  ASSUME OptionsAgree, TypeOK, NEW s \in Scrapes, ResultsInTable(s),
         NEW q \in stats[s], NEW r \in stats[s],
         Series(LabelsOf(s, q)) = Series(LabelsOf(s, r))
  PROVE  LabelsOf(s, q) = LabelsOf(s, r)
<1>1. InTable(s, q) /\ InTable(s, r)
  BY DEF ResultsInTable
<1>2. \A i \in 1..Len(mps[s]) : mps[s][i].source # ""
  <2>1. \A i \in 1..Len(mps[s]) : mps[s][i] \in Labels
    BY TableType
  <2> QED
    BY <2>1, SourcesAssumption DEF Labels
<1>3. CASE q = Garbage
  BY <1>1, <1>2, <1>3 DEF InTable, LabelsOf, Series
<1>4. CASE r = Garbage
  BY <1>1, <1>2, <1>4 DEF InTable, LabelsOf, Series
<1>5. CASE q # Garbage /\ r # Garbage
  <2>1. /\ q.line \in 1..Len(mps[s]) /\ r.line \in 1..Len(mps[s])
        /\ mps[s][q.line].source = mps[s][r.line].source
        /\ mps[s][q.line].mountPoint = mps[s][r.line].mountPoint
        /\ q.deviceError = r.deviceError
    BY <1>1, <1>5 DEF InTable, LabelsOf, Series, MountPoint
  <2>2. mps[s] \in Tables
    BY <2>1 DEF TypeOK
  <2>3. mps[s][q.line].options = mps[s][r.line].options
    BY <2>1, <2>2 DEF OptionsAgree
  <2> QED
    BY <1>5, <2>1, <2>3 DEF LabelsOf, MountPoint
<1> QED
  BY <1>3, <1>4, <1>5

(***************************************************************************)
(* Update sends no two groups of metrics with the same label values,       *)
(* whatever the race on the results does, as long as the mount table lists *)
(* no source twice at one mount point with different options: the map seen *)
(* compares the options too, which are no label of the metrics.            *)
(***************************************************************************)
THEOREM ExposedOnce == ASSUME OptionsAgree PROVE Spec => []ExposedAtMostOnce
<1> DEFINE Held == \A s \in Scrapes : Recorded(s) /\ ResultsInTable(s)
<1>1. Init => Held
  BY InitRecorded DEF Init, ResultsInTable
<1>2. IInv /\ Held /\ [Next]_vars => Held'
  BY StepRecorded, StepInTable
<1>3. IInv /\ Held => ExposedAtMostOnce
  <2> SUFFICES ASSUME IInv, Held, NEW s \in Scrapes, NEW g \in Exposed(s),
                      NEW h \in Exposed(s), Series(g[1]) = Series(h[1])
               PROVE  g = h
    BY DEF ExposedAtMostOnce
  <2>1. PICK q \in stats[s] :
          g = <<LabelsOf(s, q), CHOOSE p \in stats[s] : LabelsOf(s, p) = LabelsOf(s, q)>>
    BY DEF Exposed
  <2>2. PICK r \in stats[s] :
          h = <<LabelsOf(s, r), CHOOSE p \in stats[s] : LabelsOf(s, p) = LabelsOf(s, r)>>
    BY DEF Exposed
  <2>3. LabelsOf(s, q) = LabelsOf(s, r)
    BY <2>1, <2>2, SeriesTellLabelsApart DEF IInv
  <2> QED
    BY <2>1, <2>2, <2>3
<1> QED
  BY <1>1, <1>2, <1>3, Invariance, PTL DEF Spec
===============================================================================
