-------------------------- MODULE FilesystemProofs --------------------------
(***************************************************************************)
(* Proofs about the filesystem collector, for every set of scrapes, every  *)
(* set of mount tables and every number of workers: the inductive          *)
(* invariant, and the registry of stuck mount points it implements.        *)
(***************************************************************************)
EXTENDS Filesystem, TLAPS

(* The dispatcher is inside the mount table, and past every line that was    *)
(* handed over; a scrape that has no mount table has dispatched nothing.     *)
DispatchInTable ==
  \A s \in Scrapes :
    /\ line[s] <= Len(mps[s]) + 1
    /\ disp[s] \in {"send", "append"} => line[s] <= Len(mps[s])
    /\ main[s] = "append" => got[s] \in Lines
    /\ main[s] \in {"idle", "failed"} => disp[s] = "idle" /\ line[s] = 1
    /\ \A i \in Lines : call[s][i] # "none" => i < line[s]

(* A watcher is started with the call it watches.                            *)
WatchersHaveCalls ==
  \A s \in Scrapes, i \in Lines : watch[s][i] # "none" => call[s][i] # "none"

IInv ==
  /\ TypeOK
  /\ DispatchInTable
  /\ WatchersHaveCalls
  /\ StuckHasPendingCall
  /\ NoSendAfterClose

-------------------------------------------------------------------------------
(* What the assumptions and the type invariant say of a mount table.         *)
LEMMA TableType ==
  ASSUME TypeOK, NEW s \in Scrapes
  PROVE  /\ mps[s] \in Seq(Labels)
         /\ Len(mps[s]) \in Nat
         /\ Len(mps[s]) <= MaxLines
         /\ \A i \in 1..Len(mps[s]) : MountPoint(s, i) \in MountPoints
<1>1. mps[s] \in Tables \cup {<<>>}
  BY DEF TypeOK
<1>2. mps[s] \in Seq(Labels) /\ Len(mps[s]) <= MaxLines
  <2>1. CASE mps[s] \in Tables
    BY <2>1, FilesystemAssumption
  <2>2. CASE mps[s] = <<>>
    BY <2>2, FilesystemAssumption
  <2> QED
    BY <1>1, <2>1, <2>2
<1>3. \A i \in 1..Len(mps[s]) : mps[s][i] \in Labels
  BY <1>2
<1>4. \A i \in 1..Len(mps[s]) : MountPoint(s, i) \in MountPoints
  BY <1>3 DEF MountPoint, Labels
<1> QED
  BY <1>2, <1>4

(* The initial states have the right types.                                  *)
LEMMA InitTyped == Init => TypeOK
<1> SUFFICES ASSUME Init PROVE TypeOK
  OBVIOUS
<1> USE FilesystemAssumption
<1>1. 1 \in 1..MaxLines + 1
  BY DEF Init
<1>2. NoError \in DeviceErrors
  BY DEF DeviceErrors
<1> QED
  BY <1>1, <1>2 DEF Init, TypeOK, DispatcherStates, MainStates, CallStates, WatcherStates

(* An append, racy or not, stores results.                                   *)
LEMMA AppendTyped ==
  ASSUME TypeOK, NEW s \in Scrapes, NEW saw \in SUBSET Results, NEW r \in Results,
         AppendToStats(s, saw, r)
  PROVE  stats' \in [Scrapes -> SUBSET Results]
<1>1. stats \in [Scrapes -> SUBSET Results] /\ stats[s] \subseteq Results
  BY DEF TypeOK
<1>2. Garbage \in Results
  BY DEF Results
<1>3. CASE stats' = [stats EXCEPT ![s] = @ \cup {r}]
  BY <1>1, <1>3
<1>4. ASSUME NEW rest \in SUBSET (saw \cup stats[s] \cup {r, Garbage}),
             stats' = [stats EXCEPT ![s] = (saw \cap @) \cup rest]
      PROVE  stats' \in [Scrapes -> SUBSET Results]
  <2>1. (saw \cap stats[s]) \cup rest \subseteq Results
    BY <1>1, <1>2, <1>4
  <2> QED
    BY <1>1, <1>4, <2>1
<1> QED
  BY <1>3, <1>4 DEF AppendToStats

(* The line the dispatcher is at, when it works on it, is a line.            *)
LEMMA CurrentLine ==
  ASSUME TypeOK, DispatchInTable, NEW s \in Scrapes, line[s] <= Len(mps[s])
  PROVE  /\ line[s] \in Lines
         /\ line[s] \in 1..Len(mps[s])
         /\ line[s] + 1 \in 1..MaxLines + 1
<1>1. line[s] \in 1..MaxLines + 1 /\ MaxLines \in Nat
  BY FilesystemAssumption DEF TypeOK
<1> QED
  BY <1>1, TableType DEF Lines

(* A line that was handed over is a line of the table the scrape read.       *)
LEMMA CallInTable ==
  ASSUME TypeOK, DispatchInTable, NEW s \in Scrapes, NEW i \in Lines,
         call[s][i] # "none"
  PROVE  /\ i \in 1..Len(mps[s])
         /\ MountPoint(s, i) \in MountPoints
<1>1. /\ i \in Nat /\ 1 <= i /\ line[s] \in Nat
      /\ i < line[s] /\ line[s] <= Len(mps[s]) + 1
  BY FilesystemAssumption DEF DispatchInTable, TypeOK, Lines
<1>2. i \in 1..Len(mps[s])
  BY <1>1, TableType
<1> QED
  BY <1>2, TableType

(* Every step keeps the types.                                               *)
LEMMA NextTyped ==
  ASSUME TypeOK, DispatchInTable, WatchersHaveCalls, [Next]_vars
  PROVE  TypeOK'
<1> USE DEF TypeOK, DispatcherStates, MainStates, CallStates, WatcherStates
<1>1. ASSUME NEW s \in Scrapes, Main(s) PROVE TypeOK'
  <2>1. CASE GetStats(s)
    BY <2>1 DEF GetStats
  <2>2. CASE GetStatsFails(s)
    BY <2>2 DEF GetStatsFails
  <2>3. CASE MainAppend(s)
    <3>1. got[s] \in Lines /\ mainSaw[s] \in SUBSET Results
      BY <2>3 DEF MainAppend, DispatchInTable
    <3>2. Result(got[s], deviceError[s][got[s]]) \in Results
      BY <3>1 DEF Result, Results
    <3>3. stats' \in [Scrapes -> SUBSET Results]
      BY <2>3, <3>1, <3>2, AppendTyped DEF MainAppend
    <3> QED
      BY <2>3, <3>3 DEF MainAppend
  <2>4. CASE Finish(s)
    BY <2>4 DEF Finish
  <2> QED
    BY <1>1, <2>1, <2>2, <2>3, <2>4 DEF Main
<1>2. ASSUME NEW s \in Scrapes, Dispatcher(s) PROVE TypeOK'
  <2>1. CASE CheckLine(s)
    <3>1. line[s] \in Lines /\ TimeoutError \in DeviceErrors
      BY <2>1, CurrentLine DEF CheckLine, DeviceErrors
    <3>2. CASE MountPoint(s, line[s]) \in stuckMounts
      <4>1. /\ disp' = [disp EXCEPT ![s] = "append"]
            /\ mtx' = s
            /\ dispSaw' = [dispSaw EXCEPT ![s] = stats[s]]
            /\ deviceError' = [deviceError EXCEPT ![s][line[s]] = TimeoutError]
            /\ UNCHANGED <<hung, stuckMounts, mps, line, main, got, stats, mainSaw, call,
                           watch>>
        BY <2>1, <3>2 DEF CheckLine
      <4>2. deviceError' \in [Scrapes -> [Lines -> DeviceErrors]]
        BY <3>1, <4>1
      <4> QED
        BY <4>1, <4>2
    <3>3. CASE MountPoint(s, line[s]) \notin stuckMounts
      BY <2>1, <3>3 DEF CheckLine
    <3> QED
      BY <3>2, <3>3
  <2>2. CASE AppendStuck(s)
    <3>1. line[s] \in Lines /\ line[s] + 1 \in 1..MaxLines + 1
      BY <2>2, CurrentLine DEF AppendStuck, DispatchInTable
    <3>2. Result(line[s], TimeoutError) \in Results
      BY <3>1 DEF Result, Results, DeviceErrors
    <3>3. stats' \in [Scrapes -> SUBSET Results]
      BY <2>2, <3>2, AppendTyped DEF AppendStuck
    <3> QED
      BY <2>2, <3>1, <3>3 DEF AppendStuck
  <2>3. CASE Send(s)
    <3>1. line[s] \in Lines /\ line[s] + 1 \in 1..MaxLines + 1
      BY <2>3, CurrentLine DEF Send, DispatchInTable
    <3> QED
      BY <2>3, <3>1 DEF Send
  <2>4. CASE CloseLabels(s)
    BY <2>4 DEF CloseLabels
  <2>5. CASE CloseStats(s)
    BY <2>5 DEF CloseStats
  <2> QED
    BY <1>2, <2>1, <2>2, <2>3, <2>4, <2>5 DEF Dispatcher
<1>3. ASSUME NEW s \in Scrapes, NEW i \in Lines, Worker(s, i) PROVE TypeOK'
  <2>1. CASE StatfsReturns(s, i)
    BY <2>1 DEF StatfsReturns, DeviceErrors
  <2>2. CASE Unmark(s, i)
    BY <2>2 DEF Unmark
  <2>3. CASE Deliver(s, i)
    BY <2>3 DEF Deliver
  <2> QED
    BY <1>3, <2>1, <2>2, <2>3 DEF Worker
<1>4. ASSUME NEW s \in Scrapes, NEW i \in Lines, Watcher(s, i) PROVE TypeOK'
  <2>1. CASE WatcherExits(s, i)
    BY <2>1 DEF WatcherExits
  <2>2. CASE TimerFires(s, i)
    BY <2>2 DEF TimerFires
  <2>3. CASE WatcherMarks(s, i)
    <3>1. MountPoint(s, i) \in MountPoints
      BY <2>3, CallInTable DEF WatcherMarks, WatchersHaveCalls
    <3>2. /\ watch' \in [Scrapes -> [Lines -> WatcherStates]]
          /\ stuckMounts' \in SUBSET MountPoints
      <4>1. CASE SuccessClosed(s, i)
        <5>1. watch' = [watch EXCEPT ![s][i] = "exited"] /\ UNCHANGED stuckMounts
          BY <2>3, <4>1 DEF WatcherMarks, SuccessClosed
        <5> QED
          BY <5>1
      <4>2. CASE ~SuccessClosed(s, i)
        <5>1. /\ watch' = [watch EXCEPT ![s][i] = "marked"]
              /\ stuckMounts' = stuckMounts \cup {MountPoint(s, i)}
          BY <2>3, <4>2 DEF WatcherMarks, SuccessClosed
        <5> QED
          BY <3>1, <5>1
      <4> QED
        BY <4>1, <4>2
    <3> QED
      BY <2>3, <3>2 DEF WatcherMarks
  <2> QED
    BY <1>4, <2>1, <2>2, <2>3 DEF Watcher
<1>5. ASSUME Kernel PROVE TypeOK'
  BY <1>5 DEF Kernel, Hang, Recover
<1>6. CASE UNCHANGED vars
  BY <1>6 DEF vars
<1> QED
  BY <1>1, <1>2, <1>3, <1>4, <1>5, <1>6 DEF Next

(* Every step keeps the dispatcher inside the table it reads.                *)
LEMMA NextDispatches ==
  ASSUME TypeOK, DispatchInTable, [Next]_vars
  PROVE  DispatchInTable'
<1> USE DEF DispatchInTable
<1>0. ASSUME NEW s \in Scrapes PROVE Len(mps[s]) \in Nat /\ line[s] \in Nat \ {0}
  BY TableType, FilesystemAssumption DEF TypeOK
<1>1. ASSUME NEW s \in Scrapes, GetStats(s) PROVE DispatchInTable'
  <2>1. PICK t \in Tables : mps' = [mps EXCEPT ![s] = t]
    BY <1>1 DEF GetStats
  <2>2. Len(t) \in Nat /\ mps'[s] = t
    BY <2>1, FilesystemAssumption DEF TypeOK
  <2>3. \A u \in Scrapes \ {s} : mps'[u] = mps[u]
    BY <2>1 DEF TypeOK
  <2>4. ASSUME NEW u \in Scrapes, u # s
        PROVE  main'[u] = main[u] /\ disp'[u] = disp[u]
    BY <1>1, <2>4 DEF GetStats, TypeOK
  <2>5. main'[s] = "recv" /\ disp'[s] = "check" /\ line[s] = 1
    BY <1>1 DEF GetStats, TypeOK
  <2>6. UNCHANGED <<line, call, got>>
    BY <1>1 DEF GetStats
  <2>7. ASSUME NEW u \in Scrapes, u # s
        PROVE  /\ line'[u] <= Len(mps'[u]) + 1
               /\ disp'[u] \in {"send", "append"} => line'[u] <= Len(mps'[u])
               /\ main'[u] = "append" => got'[u] \in Lines
               /\ main'[u] \in {"idle", "failed"} => disp'[u] = "idle" /\ line'[u] = 1
               /\ \A i \in Lines : call'[u][i] # "none" => i < line'[u]
    BY <2>3, <2>4, <2>6, <2>7
  <2> QED
    BY <2>2, <2>5, <2>6, <2>7
<1>2. ASSUME NEW s \in Scrapes, GetStatsFails(s) \/ MainAppend(s) \/ Finish(s)
      PROVE  DispatchInTable'
  <2>1. UNCHANGED <<mps, line, disp, call, got>>
    BY <1>2 DEF GetStatsFails, MainAppend, Finish
  <2>2. \A u \in Scrapes :
          /\ main'[u] \in {"idle", "failed"} => main[u] \in {"idle", "failed"}
          /\ main'[u] = "append" => main[u] = "append"
    BY <1>2 DEF GetStatsFails, MainAppend, Finish, TypeOK
  <2> QED
    BY <2>1, <2>2
<1>3. ASSUME NEW s \in Scrapes, Dispatcher(s) PROVE DispatchInTable'
  <2>1. UNCHANGED <<mps, main, got>>
    BY <1>3 DEF Dispatcher, CheckLine, AppendStuck, Send, CloseLabels, CloseStats
  <2>2. \A u \in Scrapes \ {s} :
          line'[u] = line[u] /\ disp'[u] = disp[u] /\ call'[u] = call[u]
    BY <1>3 DEF Dispatcher, CheckLine, AppendStuck, Send, CloseLabels, CloseStats, TypeOK
  <2>3. main[s] \notin {"idle", "failed"}
    BY <1>3 DEF Dispatcher, CheckLine, AppendStuck, Send, CloseLabels, CloseStats
  <2>4. /\ line'[s] <= Len(mps[s]) + 1
        /\ disp'[s] \in {"send", "append"} => line'[s] <= Len(mps[s])
    BY <1>0, <1>3
       DEF Dispatcher, CheckLine, AppendStuck, Send, CloseLabels, CloseStats, TypeOK
  <2>5. \A i \in Lines : call'[s][i] # "none" => i < line'[s]
    <3>1. CASE Send(s)
      <4>1. line'[s] = line[s] + 1
        BY <3>1 DEF Send, TypeOK
      <4>2. ASSUME NEW i \in Lines, i # line[s] PROVE call'[s][i] = call[s][i]
        BY <3>1, <4>2 DEF Send, TypeOK
      <4> QED
        BY <1>0, <4>1, <4>2, FilesystemAssumption DEF Lines
    <3>2. CASE AppendStuck(s)
      <4>1. line'[s] = line[s] + 1 /\ call' = call
        BY <3>2 DEF AppendStuck, TypeOK
      <4> QED
        BY <1>0, <4>1, FilesystemAssumption DEF Lines
    <3>3. CASE CheckLine(s) \/ CloseLabels(s) \/ CloseStats(s)
      BY <3>3 DEF CheckLine, CloseLabels, CloseStats
    <3> QED
      BY <1>3, <3>1, <3>2, <3>3 DEF Dispatcher
  <2> QED
    BY <2>1, <2>2, <2>3, <2>4, <2>5
<1>4. ASSUME NEW s \in Scrapes, NEW i \in Lines, Worker(s, i) PROVE DispatchInTable'
  <2>1. UNCHANGED <<mps, line, disp>>
    BY <1>4 DEF Worker, StatfsReturns, Unmark, Deliver
  <2>2. \A u \in Scrapes, j \in Lines : call'[u][j] # "none" => call[u][j] # "none"
    BY <1>4 DEF Worker, StatfsReturns, Unmark, Deliver, TypeOK
  <2>3. \A u \in Scrapes :
          /\ main'[u] \in {"idle", "failed"} => main[u] \in {"idle", "failed"}
          /\ main'[u] = "append" => got'[u] \in Lines
    BY <1>4 DEF Worker, StatfsReturns, Unmark, Deliver, TypeOK
  <2> QED
    BY <2>1, <2>2, <2>3
<1>5. ASSUME NEW s \in Scrapes, NEW i \in Lines, Watcher(s, i) PROVE DispatchInTable'
  BY <1>5 DEF Watcher, WatcherExits, TimerFires, WatcherMarks
<1>6. CASE Kernel
  BY <1>6 DEF Kernel, Hang, Recover
<1>7. CASE UNCHANGED vars
  BY <1>7 DEF vars
<1> QED
  BY <1>1, <1>2, <1>3, <1>4, <1>5, <1>6, <1>7 DEF Next, Main

(* Every step keeps watchers beside calls.                                   *)
LEMMA NextWatches ==
  ASSUME TypeOK, DispatchInTable, WatchersHaveCalls, [Next]_vars
  PROVE  WatchersHaveCalls'
<1> USE DEF WatchersHaveCalls
<1>1. ASSUME NEW s \in Scrapes, Main(s) PROVE WatchersHaveCalls'
  BY <1>1 DEF Main, GetStats, GetStatsFails, MainAppend, Finish
<1>2. ASSUME NEW s \in Scrapes, Dispatcher(s) PROVE WatchersHaveCalls'
  <2>1. CASE Send(s)
    <3>1. ASSUME NEW u \in Scrapes, NEW j \in Lines, watch'[u][j] # "none"
          PROVE  call'[u][j] # "none"
      <4>1. CASE u = s /\ j = line[s]
        BY <2>1, <4>1 DEF Send, TypeOK
      <4>2. CASE ~(u = s /\ j = line[s])
        BY <2>1, <3>1, <4>2 DEF Send, TypeOK
      <4> QED
        BY <4>1, <4>2
    <3> QED
      BY <3>1
  <2>2. CASE CheckLine(s) \/ AppendStuck(s) \/ CloseLabels(s) \/ CloseStats(s)
    BY <2>2 DEF CheckLine, AppendStuck, CloseLabels, CloseStats
  <2> QED
    BY <1>2, <2>1, <2>2 DEF Dispatcher
<1>3. ASSUME NEW s \in Scrapes, NEW i \in Lines, Worker(s, i) PROVE WatchersHaveCalls'
  <2>1. watch' = watch
    BY <1>3 DEF Worker, StatfsReturns, Unmark, Deliver
  <2>2. \A u \in Scrapes, j \in Lines : call'[u][j] = "none" => call[u][j] = "none"
    BY <1>3 DEF Worker, StatfsReturns, Unmark, Deliver, TypeOK
  <2> QED
    BY <2>1, <2>2
<1>4. ASSUME NEW s \in Scrapes, NEW i \in Lines, Watcher(s, i) PROVE WatchersHaveCalls'
  <2>1. call' = call
    BY <1>4 DEF Watcher, WatcherExits, TimerFires, WatcherMarks
  <2>2. \A u \in Scrapes, j \in Lines : watch'[u][j] # "none" => watch[u][j] # "none"
    <3>1. CASE WatcherExits(s, i) \/ TimerFires(s, i)
      <4>1. /\ watch[s][i] = "armed"
            /\ \E w \in WatcherStates : watch' = [watch EXCEPT ![s][i] = w]
        BY <3>1 DEF WatcherExits, TimerFires, WatcherStates
      <4> QED
        BY <4>1 DEF TypeOK
    <3>2. CASE WatcherMarks(s, i)
      <4>1. /\ watch[s][i] = "fired"
            /\ \E w \in WatcherStates : watch' = [watch EXCEPT ![s][i] = w]
        BY <3>2 DEF WatcherMarks, WatcherStates
      <4> QED
        BY <4>1 DEF TypeOK
    <3> QED
      BY <1>4, <3>1, <3>2 DEF Watcher
  <2> QED
    BY <2>1, <2>2
<1>5. CASE Kernel
  BY <1>5 DEF Kernel, Hang, Recover
<1>6. CASE UNCHANGED vars
  BY <1>6 DEF vars
<1> QED
  BY <1>1, <1>2, <1>3, <1>4, <1>5, <1>6 DEF Next

(* Every step keeps a pending call beside every stuck mount point: GetStats  *)
(* replaces a table on which nothing was called, the watcher marks while its *)
(* own call is pending, and the call that ceases to be pending unmarks.      *)
LEMMA NextStuck ==
  ASSUME IInv, [Next]_vars
  PROVE  StuckHasPendingCall'
<1> USE DEF IInv, StuckHasPendingCall, Pending, MountPoint
<1>1. ASSUME mps' = mps, stuckMounts' \subseteq stuckMounts,
             \A u \in Scrapes, j \in Lines :
                Pending(u, j) => Pending(u, j)'
      PROVE  StuckHasPendingCall'
  BY <1>1
<1>2. ASSUME NEW s \in Scrapes, Main(s) PROVE StuckHasPendingCall'
  <2>1. CASE GetStats(s)
    <3>1. \A j \in Lines : call[s][j] = "none"
      BY <2>1, FilesystemAssumption DEF GetStats, DispatchInTable, Lines
    <3>2. \A u \in Scrapes \ {s} : mps'[u] = mps[u]
      BY <2>1 DEF GetStats, TypeOK
    <3>3. UNCHANGED <<call, stuckMounts>>
      BY <2>1 DEF GetStats
    <3> QED
      BY <3>1, <3>2, <3>3
  <2>2. CASE GetStatsFails(s) \/ MainAppend(s) \/ Finish(s)
    BY <2>2, <1>1 DEF GetStatsFails, MainAppend, Finish
  <2> QED
    BY <1>2, <2>1, <2>2 DEF Main
<1>3. ASSUME NEW s \in Scrapes, Dispatcher(s) PROVE StuckHasPendingCall'
  <2>1. mps' = mps /\ stuckMounts' = stuckMounts
    BY <1>3 DEF Dispatcher, CheckLine, AppendStuck, Send, CloseLabels, CloseStats
  <2>2. \A u \in Scrapes, j \in Lines : Pending(u, j) => Pending(u, j)'
    <3>1. CASE Send(s)
      BY <3>1 DEF Send, TypeOK
    <3>2. CASE CheckLine(s) \/ AppendStuck(s) \/ CloseLabels(s) \/ CloseStats(s)
      BY <3>2 DEF CheckLine, AppendStuck, CloseLabels, CloseStats
    <3> QED
      BY <1>3, <3>1, <3>2 DEF Dispatcher
  <2> QED
    BY <1>1, <2>1, <2>2
<1>4. ASSUME NEW s \in Scrapes, NEW i \in Lines, Worker(s, i) PROVE StuckHasPendingCall'
  <2>1. CASE StatfsReturns(s, i)
    <3>1. \A u \in Scrapes, j \in Lines : Pending(u, j) => Pending(u, j)'
      BY <2>1 DEF StatfsReturns, TypeOK
    <3> QED
      BY <1>1, <2>1, <3>1 DEF StatfsReturns
  <2>2. CASE Unmark(s, i)
    <3>1. mps' = mps /\ stuckMounts' = stuckMounts \ {MountPoint(s, i)}
      BY <2>2 DEF Unmark
    <3>2. \A u \in Scrapes, j \in Lines :
            Pending(u, j) /\ ~(u = s /\ j = i) => Pending(u, j)'
      BY <2>2 DEF Unmark, TypeOK
    <3>3. ASSUME NEW m \in stuckMounts'
          PROVE  \E u \in Scrapes, j \in Lines : (Pending(u, j) /\ MountPoint(u, j) = m)'
      <4>1. PICK u \in Scrapes, j \in Lines : Pending(u, j) /\ MountPoint(u, j) = m
        BY <3>1, <3>3
      <4>2. ~(u = s /\ j = i)
        BY <3>1, <4>1, <3>3
      <4> QED
        BY <3>1, <3>2, <4>1, <4>2
    <3> QED
      BY <3>3
  <2>3. CASE Deliver(s, i)
    <3>1. \A u \in Scrapes, j \in Lines : Pending(u, j) => Pending(u, j)'
      BY <2>3 DEF Deliver, TypeOK
    <3> QED
      BY <1>1, <2>3, <3>1 DEF Deliver
  <2> QED
    BY <1>4, <2>1, <2>2, <2>3 DEF Worker
<1>5. ASSUME NEW s \in Scrapes, NEW i \in Lines, Watcher(s, i) PROVE StuckHasPendingCall'
  <2>1. CASE WatcherExits(s, i) \/ TimerFires(s, i)
    BY <1>1, <2>1 DEF WatcherExits, TimerFires
  <2>2. CASE WatcherMarks(s, i)
    <3>1. CASE SuccessClosed(s, i)
      BY <1>1, <2>2, <3>1 DEF WatcherMarks
    <3>2. CASE ~SuccessClosed(s, i)
      <4>1. UNCHANGED <<mps, call>> /\ stuckMounts' = stuckMounts \cup {MountPoint(s, i)}
        BY <2>2, <3>2 DEF WatcherMarks
      <4>2. Pending(s, i)
        BY <2>2, <3>2 DEF WatcherMarks, WatchersHaveCalls, SuccessClosed, CallStates, TypeOK
      <4> QED
        BY <4>1, <4>2
    <3> QED
      BY <3>1, <3>2
  <2> QED
    BY <1>5, <2>1, <2>2 DEF Watcher
<1>6. CASE Kernel
  BY <1>1, <1>6 DEF Kernel, Hang, Recover
<1>7. CASE UNCHANGED vars
  BY <1>1, <1>7 DEF vars
<1> QED
  BY <1>2, <1>3, <1>4, <1>5, <1>6, <1>7 DEF Next

(* Every step keeps statChan open while a worker may send on it.             *)
LEMMA NextNoSend ==
  ASSUME IInv, [Next]_vars
  PROVE  NoSendAfterClose'
<1> USE DEF IInv, NoSendAfterClose
<1>1. ASSUME \A u \in Scrapes : disp'[u] = "closed" => disp[u] = "closed",
             \A u \in Scrapes : disp[u] = "closed" => disp'[u] = "closed",
             \A u \in Scrapes : main'[u] = "done" => main[u] = "done" \/ disp[u] = "closed",
             \A u \in Scrapes : disp[u] = "closed" => Busy(u)' \subseteq Busy(u)
      PROVE  NoSendAfterClose'
  BY <1>1
<1>2. ASSUME NEW s \in Scrapes, Main(s) PROVE NoSendAfterClose'
  BY <1>1, <1>2 DEF Main, GetStats, GetStatsFails, MainAppend, Finish, Busy,
                    DispatchInTable, TypeOK
<1>3. ASSUME NEW s \in Scrapes, Dispatcher(s) PROVE NoSendAfterClose'
  <2>1. CASE CloseStats(s)
    <3>1. /\ Busy(s) = {}
          /\ UNCHANGED <<call, main>>
          /\ disp' = [disp EXCEPT ![s] = "closed"]
      BY <2>1 DEF CloseStats
    <3>2. \A u \in Scrapes : Busy(u)' = Busy(u)
      BY <3>1 DEF Busy
    <3> QED
      BY <3>1, <3>2 DEF TypeOK
  <2>2. CASE Send(s)
    <3>1. \A u \in Scrapes \ {s} : Busy(u)' = Busy(u)
      BY <2>2 DEF Send, Busy, TypeOK
    <3> QED
      BY <1>1, <2>2, <3>1 DEF Send, TypeOK
  <2>3. CASE CheckLine(s) \/ AppendStuck(s) \/ CloseLabels(s)
    BY <1>1, <2>3 DEF CheckLine, AppendStuck, CloseLabels, Busy, TypeOK
  <2> QED
    BY <1>3, <2>1, <2>2, <2>3 DEF Dispatcher
<1>4. ASSUME NEW s \in Scrapes, NEW i \in Lines, Worker(s, i) PROVE NoSendAfterClose'
  <2>1. \A u \in Scrapes : Busy(u)' \subseteq Busy(u)
    BY <1>4 DEF Worker, StatfsReturns, Unmark, Deliver, Busy, TypeOK
  <2>2. disp' = disp /\ \A u \in Scrapes : main'[u] = "done" => main[u] = "done"
    BY <1>4 DEF Worker, StatfsReturns, Unmark, Deliver, TypeOK
  <2> QED
    BY <1>1, <2>1, <2>2
<1>5. ASSUME NEW s \in Scrapes, NEW i \in Lines, Watcher(s, i) PROVE NoSendAfterClose'
  BY <1>1, <1>5 DEF Watcher, WatcherExits, TimerFires, WatcherMarks, Busy
<1>6. CASE Kernel
  BY <1>1, <1>6 DEF Kernel, Hang, Recover, Busy
<1>7. CASE UNCHANGED vars
  BY <1>1, <1>7 DEF vars, Busy
<1> QED
  BY <1>2, <1>3, <1>4, <1>5, <1>6, <1>7 DEF Next

LEMMA InitInvariant == Init => IInv
<1> SUFFICES ASSUME Init PROVE IInv
  OBVIOUS
<1>1. \A s \in Scrapes : Len(mps[s]) = 0 /\ line[s] = 1
  BY DEF Init
<1> QED
  BY <1>1, InitTyped
     DEF Init, IInv, DispatchInTable, WatchersHaveCalls, StuckHasPendingCall,
         NoSendAfterClose, Busy

LEMMA NextInvariant == IInv /\ [Next]_vars => IInv'
BY NextTyped, NextDispatches, NextWatches, NextStuck, NextNoSend DEF IInv

THEOREM Invariance == Spec => []IInv
BY InitInvariant, NextInvariant, PTL DEF Spec

(***************************************************************************)
(* The variables of the collector keep their types, in every interleaving  *)
(* of any number of scrapes over any mount tables.                         *)
(***************************************************************************)
THEOREM TypeCorrect == Spec => []TypeOK
<1>1. IInv => TypeOK
  BY DEF IInv
<1> QED
  BY Invariance, <1>1, PTL

(***************************************************************************)
(* No mount point is ever in stuckMounts without a call of processStat     *)
(* that will take it out: the second look at success under the lock, and   *)
(* close(success) and delete under the same lock, are enough for any       *)
(* number of overlapping scrapes.                                          *)
(***************************************************************************)
THEOREM StuckIsPending == Spec => []StuckHasPendingCall
<1>1. IInv => StuckHasPendingCall
  BY DEF IInv
<1> QED
  BY Invariance, <1>1, PTL

(***************************************************************************)
(* No worker sends on statChan after it is closed, and GetStats does not   *)
(* return while a worker still may.                                        *)
(***************************************************************************)
THEOREM StatChanSafe == Spec => []NoSendAfterClose
<1>1. IInv => NoSendAfterClose
  BY DEF IInv
<1> QED
  BY Invariance, <1>1, PTL

-------------------------------------------------------------------------------
(* The collector implements the registry of stuck mount points, MountHealth. *)

Calls == Scrapes \X Lines

(* A call is outstanding on the mount point of its line, and on no other.    *)
LEMMA OutstandingOn ==
  ASSUME NEW m \in MountPoints, NEW s \in Scrapes, NEW i \in Lines
  PROVE  <<s, i>> \in Outstanding[m] <=> Pending(s, i) /\ MountPoint(s, i) = m
  BY DEF Outstanding

LEMMA OutstandingCalls ==
  /\ Outstanding = [m \in MountPoints |-> Outstanding[m]]
  /\ \A m \in MountPoints : Outstanding[m] \subseteq Calls
  BY DEF Outstanding, Calls

(* As long as the same calls are pending, on the same mount points, the same *)
(* calls are outstanding.                                                    *)
LEMMA SameOutstanding ==
  ASSUME \A s \in Scrapes, i \in Lines :
           /\ Pending(s, i)' <=> Pending(s, i)
           /\ Pending(s, i) => MountPoint(s, i)' = MountPoint(s, i)
  PROVE  Outstanding' = Outstanding
<1>1. \A m \in MountPoints :
        { c \in Scrapes \X Lines : Pending(c[1], c[2]) /\ MountPoint(c[1], c[2]) = m }' =
        { c \in Scrapes \X Lines : Pending(c[1], c[2]) /\ MountPoint(c[1], c[2]) = m }
  OBVIOUS
<1> QED
  BY <1>1 DEF Outstanding

LEMMA InitHealth == Init => Health!HealthInit
<1> SUFFICES ASSUME Init PROVE Health!HealthInit
  OBVIOUS
<1>1. \A s \in Scrapes, i \in Lines : ~Pending(s, i)
  BY DEF Init, Pending
<1>2. Outstanding = [m \in MountPoints |-> {}]
  BY <1>1 DEF Outstanding
<1> QED
  BY <1>2 DEF Init, Health!HealthInit

(* Steps of the collector that the registry does not see.                    *)
LEMMA Stutter ==
  ASSUME stuckMounts' = stuckMounts,
         \A s \in Scrapes, i \in Lines :
           /\ Pending(s, i)' <=> Pending(s, i)
           /\ Pending(s, i) => MountPoint(s, i)' = MountPoint(s, i)
  PROVE  UNCHANGED Health!healthVars
  BY SameOutstanding DEF Health!healthVars

(* The dispatcher hands a line over: a call begins.                          *)
LEMMA SendBegins ==
  ASSUME IInv, NEW s \in Scrapes, Send(s)
  PROVE  Health!HealthNext
<1> USE DEF IInv
<1> DEFINE i == line[s]
           m == MountPoint(s, i)
<1>1. i \in Lines /\ i \in 1..Len(mps[s]) /\ m \in MountPoints
  BY CurrentLine, TableType DEF Send, DispatchInTable
<1>2. call[s][i] = "none"
  <2>1. ~(i < i)
    BY <1>1 DEF Lines
  <2> QED
    BY <1>1, <2>1 DEF DispatchInTable
<1>3. /\ mps' = mps /\ stuckMounts' = stuckMounts
      /\ call' = [call EXCEPT ![s][i] = "statfs"]
  BY DEF Send
<1>4. /\ call'[s][i] = "statfs"
      /\ \A t \in Scrapes, j \in Lines : <<t, j>> # <<s, i>> => call'[t][j] = call[t][j]
  BY <1>1, <1>3 DEF TypeOK
<1> HIDE DEF i, m
<1>5. \A t \in Scrapes, j \in Lines : MountPoint(t, j)' = MountPoint(t, j)
  BY <1>3 DEF MountPoint
<1>6. \A n \in MountPoints : <<s, i>> \notin Outstanding[n]
  BY <1>1, <1>2, OutstandingOn DEF Pending
<1>7. \A n \in MountPoints :
        { c \in Scrapes \X Lines : Pending(c[1], c[2]) /\ MountPoint(c[1], c[2]) = n }' =
        Outstanding[n] \cup { c \in {<<s, i>>} : n = m }
  <2> SUFFICES ASSUME NEW n \in MountPoints, NEW t \in Scrapes, NEW j \in Lines
               PROVE  Pending(t, j)' /\ MountPoint(t, j)' = n <=>
                        <<t, j>> \in Outstanding[n] \/ (<<t, j>> = <<s, i>> /\ n = m)
    BY OutstandingCalls, <1>1 DEF Calls
  <2>1. MountPoint(t, j)' = MountPoint(t, j)
    BY <1>5
  <2>2. CASE <<t, j>> = <<s, i>>
    BY <1>1, <1>4, <1>6, <2>1, <2>2 DEF Pending, m
  <2>3. CASE <<t, j>> # <<s, i>>
    BY <1>4, <2>1, <2>3, OutstandingOn DEF Pending
  <2> QED
    BY <2>2, <2>3
<1>8. Outstanding' = [Outstanding EXCEPT ![m] = @ \cup {<<s, i>>}]
  <2>1. \A n \in MountPoints :
          Outstanding[n] \cup { c \in {<<s, i>>} : n = m } =
          IF n = m THEN Outstanding[m] \cup {<<s, i>>} ELSE Outstanding[n]
    OBVIOUS
  <2> QED
    BY <1>7, <2>1, OutstandingCalls DEF Outstanding
<1>9. Health!Begin(m, <<s, i>>)
  BY <1>3, <1>6, <1>8 DEF Health!Begin
<1> QED
  BY <1>1, <1>9 DEF Health!HealthNext

(* processStat unmarks the mount point: a call completes.                    *)
LEMMA UnmarkCompletes ==
  ASSUME IInv, NEW s \in Scrapes, NEW i \in Lines, Unmark(s, i)
  PROVE  Health!HealthNext
<1> USE DEF IInv
<1> DEFINE m == MountPoint(s, i)
<1>1. call[s][i] = "returned" /\ m \in MountPoints
  BY CallInTable DEF Unmark
<1>2. /\ mps' = mps /\ stuckMounts' = stuckMounts \ {m}
      /\ call' = [call EXCEPT ![s][i] = "ready"]
  BY DEF Unmark
<1>3. /\ call'[s][i] = "ready"
      /\ \A t \in Scrapes, j \in Lines : <<t, j>> # <<s, i>> => call'[t][j] = call[t][j]
  BY <1>2 DEF TypeOK
<1>4. \A t \in Scrapes, j \in Lines : MountPoint(t, j)' = MountPoint(t, j)
  BY <1>2 DEF MountPoint
<1>5. <<s, i>> \in Outstanding[m]
  BY <1>1, OutstandingOn DEF Pending
<1>6. \A n \in MountPoints : n # m => <<s, i>> \notin Outstanding[n]
  BY <1>1, OutstandingOn
<1>7. \A n \in MountPoints :
        { c \in Scrapes \X Lines : Pending(c[1], c[2]) /\ MountPoint(c[1], c[2]) = n }' =
        Outstanding[n] \ {<<s, i>>}
  <2> SUFFICES ASSUME NEW n \in MountPoints, NEW t \in Scrapes, NEW j \in Lines
               PROVE  Pending(t, j)' /\ MountPoint(t, j)' = n <=>
                        <<t, j>> \in Outstanding[n] /\ <<t, j>> # <<s, i>>
    BY OutstandingCalls DEF Calls
  <2>1. MountPoint(t, j)' = MountPoint(t, j)
    BY <1>4
  <2>2. CASE <<t, j>> = <<s, i>>
    BY <1>3, <2>2 DEF Pending
  <2>3. CASE <<t, j>> # <<s, i>>
    BY <1>3, <2>1, <2>3, OutstandingOn DEF Pending
  <2> QED
    BY <2>2, <2>3
<1>8. Outstanding' = [Outstanding EXCEPT ![m] = @ \ {<<s, i>>}]
  <2>1. \A n \in MountPoints :
          Outstanding[n] \ {<<s, i>>} =
          IF n = m THEN Outstanding[m] \ {<<s, i>>} ELSE Outstanding[n]
    BY <1>6
  <2> QED
    BY <1>7, <2>1, OutstandingCalls DEF Outstanding
<1>9. Health!Complete(m, <<s, i>>)
  BY <1>2, <1>5, <1>8 DEF Health!Complete
<1> QED
  BY <1>1, <1>9 DEF Health!HealthNext, Calls

(* A watcher whose timer has fired marks a mount point with a call that is   *)
(* outstanding, or gives up.                                                 *)
LEMMA WatcherTimesOut ==
  ASSUME IInv, NEW s \in Scrapes, NEW i \in Lines, WatcherMarks(s, i)
  PROVE  Health!HealthNext \/ UNCHANGED Health!healthVars
<1> USE DEF IInv
<1>1. UNCHANGED <<mps, call>>
  BY DEF WatcherMarks
<1>2. Outstanding' = Outstanding
  BY <1>1, SameOutstanding DEF Pending, MountPoint
<1>3. CASE stuckMounts' = stuckMounts
  BY <1>2, <1>3 DEF Health!healthVars
<1>4. CASE stuckMounts' = stuckMounts \cup {MountPoint(s, i)} /\ ~SuccessClosed(s, i)
  <2>1. call[s][i] # "none"
    BY DEF WatcherMarks, WatchersHaveCalls
  <2>2. Pending(s, i) /\ MountPoint(s, i) \in MountPoints
    BY <1>4, <2>1, CallInTable DEF Pending, SuccessClosed, TypeOK, CallStates
  <2>3. Outstanding[MountPoint(s, i)] # {}
    BY <2>2, OutstandingOn
  <2>4. Health!TimeOut(MountPoint(s, i))
    BY <1>2, <1>4, <2>3 DEF Health!TimeOut
  <2> QED
    BY <2>2, <2>4 DEF Health!HealthNext
<1> QED
  BY <1>3, <1>4 DEF WatcherMarks

(* Every step of the collector is one of the registry or none.               *)
LEMMA HealthStep ==
  ASSUME IInv, [Next]_vars
  PROVE  Health!HealthNext \/ UNCHANGED Health!healthVars
<1> USE DEF IInv
<1> DEFINE Same == stuckMounts' = stuckMounts /\ mps' = mps /\ call' = call
<1>1. Same => UNCHANGED Health!healthVars
  BY Stutter DEF Pending, MountPoint
<1>2. ASSUME NEW s \in Scrapes, GetStats(s)
      PROVE  UNCHANGED Health!healthVars
  <2>1. \A i \in Lines : ~Pending(s, i)
    <3>1. \A i \in Lines : ~(i < 1)
      BY DEF Lines
    <3> QED
      BY <1>2, <3>1 DEF GetStats, DispatchInTable, Pending
  <2>2. /\ stuckMounts' = stuckMounts /\ call' = call
        /\ \A t \in Scrapes : t # s => mps'[t] = mps[t]
    BY <1>2 DEF GetStats, TypeOK
  <2> QED
    BY <2>1, <2>2, Stutter DEF Pending, MountPoint
<1>3. ASSUME NEW s \in Scrapes, Main(s)
      PROVE  Health!HealthNext \/ UNCHANGED Health!healthVars
  <2>1. CASE GetStatsFails(s) \/ MainAppend(s) \/ Finish(s)
    BY <1>1, <2>1 DEF GetStatsFails, MainAppend, Finish
  <2> QED
    BY <1>2, <1>3, <2>1 DEF Main
<1>4. ASSUME NEW s \in Scrapes, Dispatcher(s)
      PROVE  Health!HealthNext \/ UNCHANGED Health!healthVars
  <2>1. CASE CheckLine(s) \/ AppendStuck(s) \/ CloseLabels(s) \/ CloseStats(s)
    BY <1>1, <2>1 DEF CheckLine, AppendStuck, CloseLabels, CloseStats
  <2> QED
    BY <1>4, <2>1, SendBegins DEF Dispatcher
<1>5. ASSUME NEW s \in Scrapes, NEW i \in Lines, Worker(s, i)
      PROVE  Health!HealthNext \/ UNCHANGED Health!healthVars
  <2>1. ASSUME NEW e \in CallStates, call' = [call EXCEPT ![s][i] = e],
               stuckMounts' = stuckMounts, mps' = mps,
               Pending(s, i) <=> e \in {"statfs", "returned"}
        PROVE  UNCHANGED Health!healthVars
    <3>1. \A t \in Scrapes, j \in Lines :
            call'[t][j] = IF <<t, j>> = <<s, i>> THEN e ELSE call[t][j]
      BY <2>1 DEF TypeOK
    <3> QED
      BY <2>1, <3>1, Stutter DEF Pending, MountPoint
  <2>2. CASE StatfsReturns(s, i)
    BY <2>1, <2>2 DEF StatfsReturns, Pending, CallStates
  <2>3. CASE Deliver(s, i)
    BY <2>1, <2>3 DEF Deliver, Pending, CallStates
  <2> QED
    BY <1>5, <2>2, <2>3, UnmarkCompletes DEF Worker
<1>6. ASSUME NEW s \in Scrapes, NEW i \in Lines, Watcher(s, i)
      PROVE  Health!HealthNext \/ UNCHANGED Health!healthVars
  <2>1. CASE WatcherExits(s, i) \/ TimerFires(s, i)
    BY <1>1, <2>1 DEF WatcherExits, TimerFires
  <2> QED
    BY <1>6, <2>1, WatcherTimesOut DEF Watcher
<1>7. CASE Kernel
  BY <1>1, <1>7 DEF Kernel, Hang, Recover
<1>8. CASE UNCHANGED vars
  BY <1>1, <1>8 DEF vars
<1> QED
  BY <1>3, <1>4, <1>5, <1>6, <1>7, <1>8 DEF Next

(***************************************************************************)
(* The collector implements the registry of stuck mount points: a mount    *)
(* point is marked only while a call on it is outstanding, and each call   *)
(* that completes unmarks it.                                              *)
(***************************************************************************)
THEOREM RegistryImplemented == Spec => ImplementsHealth
<1>1. IInv /\ [Next]_vars => [Health!HealthNext]_(Health!healthVars)
  BY HealthStep
<1> QED
  BY <1>1, InitHealth, Invariance, PTL DEF Spec, ImplementsHealth, Health!HealthSpec
===============================================================================
