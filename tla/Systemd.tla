-------------------------------- MODULE Systemd --------------------------------
(***************************************************************************)
(* The systemd collector: collector/systemd_linux.go.                      *)
(*                                                                         *)
(* One call of Update: it opens a D-Bus connection, asks for the version   *)
(* and the units, and starts up to five goroutines that ask for properties *)
(* of the loaded units on the shared connection and send metrics.  Update  *)
(* itself asks for the state of the system meanwhile.  Its deferred calls  *)
(* wait for the goroutines and then close the connection.  The collector   *)
(* keeps nothing between calls.                                            *)
(*                                                                         *)
(* systemd answers every request with a value or an error: a unit may be   *)
(* gone since the units were listed.  A request, and what is done with the *)
(* answer, is one step.                                                    *)
(***************************************************************************)
EXTENDS Integers, FiniteSets, SequencesExt

CONSTANTS
  Units,       \* units, see Unit
  UnitLists,   \* the lists of units systemd may return
  Versions     \* versions of systemd; 0 when it cannot be read or parsed

minSystemdVersionSystemState == 212

unitStatesName == {"active", "activating", "deactivating", "inactive", "failed"}

(* A unit: its name with the suffix told apart, whether its LoadState is     *)
(* "loaded", and its ActiveState.  systemd lists a unit under its one name,  *)
(* by which its properties are asked for.                                    *)
Unit(name, suffix, loaded, activeState) ==
  [name |-> name, suffix |-> suffix, loaded |-> loaded, activeState |-> activeState]

ASSUME SystemdAssumption ==
  /\ UnitLists \subseteq Seq(Units)
  /\ \A list \in UnitLists : \A i, j \in DOMAIN list :
       list[i].name = list[j].name => list[i] = list[j]
  /\ Versions \subseteq Nat

VARIABLES
  main,           \* control point of Update
  conn,           \* the D-Bus connection
  systemdVersion, \* what getSystemdVersion returned
  allUnits,       \* what getAllUnits returned
  units,          \* allUnits after filterUnits
  request,        \* per goroutine: the request it makes next for its unit
  at,             \* per goroutine: the index in units it is at
  startTimeUsec,  \* the variable collectUnitStartTimeMetrics keeps over its loop
  sent,           \* the metrics sent so far
  err             \* whether Update returns an error

vars == <<main, conn, systemdVersion, allUnits, units, request, at, startTimeUsec,
          sent, err>>

Goroutines == {"status", "startTime", "tasks", "timers", "sockets"}

MainStates == {"dial", "version", "list", "start", "state", "wait", "close", "returned"}

(* The request a goroutine starts every unit with, and the others it makes.  *)
FirstRequest ==
  [status |-> "Type", startTime |-> "ActiveEnterTimestamp", tasks |-> "TasksCurrent",
   timers |-> "LastTriggerUSec", sockets |-> "NAccepted"]

Requests ==
  {"none", "Type", "NRestarts", "ActiveEnterTimestamp", "TasksCurrent", "TasksMax",
   "LastTriggerUSec", "NAccepted", "NConnections", "NRefused"}

-------------------------------------------------------------------------------
(* A metric about a unit or a state, with its value: the value of a property *)
(* is told by the unit it belongs to.                                        *)
Metric(desc, label, value) == [desc |-> desc, label |-> label, value |-> value]

MaxUint64 == "MaxUint64"      \* a property that is not set
ZeroTime == "0"               \* the start time of a unit that is not active

(* summarizeUnits: the number of units in every state, those of              *)
(* unitStatesName always among them.                                         *)
summarizeUnits(list) ==
  [state \in unitStatesName \cup { list[i].activeState : i \in DOMAIN list } |->
     Cardinality({ i \in DOMAIN list : list[i].activeState = state })]

(* Mutant: every unit is kept. *)
filterUnitsKeepingAll(list) == list

filterUnits(list) ==
  FoldLeft(LAMBDA filtered, u : IF u.loaded THEN Append(filtered, u) ELSE filtered, <<>>, list)

-------------------------------------------------------------------------------
Init ==
  /\ main = "dial"
  /\ conn = "none"
  /\ systemdVersion = 0
  /\ allUnits = <<>>
  /\ units = <<>>
  /\ request = [g \in Goroutines |-> "none"]
  /\ at = [g \in Goroutines |-> 1]
  /\ startTimeUsec = ZeroTime
  /\ sent = {}
  /\ err = FALSE

Running(g) == request[g] # "none"

(* newSystemdDbusConn.                                                       *)
Dial ==
  /\ main = "dial"
  /\ \/ main' = "version" /\ conn' = "open" /\ UNCHANGED err
     \/ main' = "returned" /\ err' = TRUE /\ UNCHANGED conn
  /\ UNCHANGED <<systemdVersion, allUnits, units, request, at, startTimeUsec, sent>>

(* getSystemdVersion, whose failure is version 0; the version is exposed.    *)
GetVersion ==
  /\ main = "version"
  /\ systemdVersion' \in Versions
  /\ sent' = sent \cup {Metric("version", "", systemdVersion')}
  /\ main' = "list"
  /\ UNCHANGED <<conn, allUnits, units, request, at, startTimeUsec, err>>

(* Mutant: the summary is made of the loaded units. *)
GetUnitsSummarizingLoaded ==
  /\ main = "list"
  /\ \/ /\ allUnits' \in UnitLists
        /\ units' = filterUnits(allUnits')
        /\ LET summary == summarizeUnits(units')
           IN  sent' = sent \cup { Metric("units", st, summary[st]) : st \in DOMAIN summary }
        /\ main' = "start"
        /\ UNCHANGED err
     \/ /\ main' = "close"
        /\ err' = TRUE
        /\ UNCHANGED <<allUnits, units, sent>>
  /\ UNCHANGED <<conn, systemdVersion, request, at, startTimeUsec>>

(* getAllUnits, or Update returns its error; summarizeUnits over all units,  *)
(* collectSummaryMetrics, filterUnits.                                       *)
GetUnits ==
  /\ main = "list"
  /\ \/ /\ allUnits' \in UnitLists
        /\ units' = filterUnits(allUnits')
        /\ LET summary == summarizeUnits(allUnits')
           IN  sent' = sent \cup { Metric("units", st, summary[st]) : st \in DOMAIN summary }
        /\ main' = "start"
        /\ UNCHANGED err
     \/ /\ main' = "close"
        /\ err' = TRUE
        /\ UNCHANGED <<allUnits, units, sent>>
  /\ UNCHANGED <<conn, systemdVersion, request, at, startTimeUsec>>

SystemStateAvailable == systemdVersion >= minSystemdVersionSystemState

(* Where a goroutine is when it has done with index i - 1.                   *)
RequestAt(g, i) == IF i <= Len(units) THEN FirstRequest[g] ELSE "none"

(* Mutant: timers are collected whatever the version. *)
StartUngated ==
  /\ main = "start"
  /\ request' = [g \in Goroutines |-> RequestAt(g, 1)]
  /\ main' = IF SystemStateAvailable THEN "state" ELSE "wait"
  /\ UNCHANGED <<conn, systemdVersion, allUnits, units, at, startTimeUsec, sent, err>>

(* The go statements; timers only from the version on that has them.         *)
Start ==
  /\ main = "start"
  /\ request' = [g \in Goroutines |->
                   IF g = "timers" /\ ~SystemStateAvailable THEN "none" ELSE RequestAt(g, 1)]
  /\ main' = IF SystemStateAvailable THEN "state" ELSE "wait"
  /\ UNCHANGED <<conn, systemdVersion, allUnits, units, at, startTimeUsec, sent, err>>

(* collectSystemState: its error is what Update returns.                     *)
CollectSystemState ==
  /\ main = "state"
  /\ main' = "wait"
  /\ \/ sent' = sent \cup {Metric("system_running", "", 0)} /\ UNCHANGED err
     \/ err' = TRUE /\ UNCHANGED sent
  /\ UNCHANGED <<conn, systemdVersion, allUnits, units, request, at, startTimeUsec>>

(* Mutant: the connection is closed before the goroutines are waited for.    *)
CloseBeforeWait ==
  /\ main = "wait"
  /\ main' = "close"
  /\ UNCHANGED <<conn, systemdVersion, allUnits, units, request, at, startTimeUsec, sent, err>>

(* Mutant: wg counts five goroutines whatever the version. *)
WaitForFive ==
  /\ main = "wait"
  /\ \A g \in Goroutines : at[g] > Len(units)
  /\ main' = "close"
  /\ UNCHANGED <<conn, systemdVersion, allUnits, units, request, at, startTimeUsec, sent, err>>

(* The deferred wg.Wait(), which runs before the deferred conn.Close().      *)
Wait ==
  /\ main = "wait"
  /\ \A g \in Goroutines : ~Running(g)
  /\ main' = "close"
  /\ UNCHANGED <<conn, systemdVersion, allUnits, units, request, at, startTimeUsec, sent, err>>

Close ==
  /\ main = "close"
  /\ conn' = "closed"
  /\ main' = "returned"
  /\ UNCHANGED <<systemdVersion, allUnits, units, request, at, startTimeUsec, sent, err>>

-------------------------------------------------------------------------------
(* The goroutines.                                                           *)

mainVars == <<main, conn, systemdVersion, allUnits, units, err>>

Cur(g) == units[at[g]]

(* Mutant: the index is advanced twice. *)
AdvanceTwice(g) ==
  /\ at' = [at EXCEPT ![g] = @ + 2]
  /\ request' = [request EXCEPT ![g] = RequestAt(g, at[g] + 2)]

(* On to the next unit.                                                      *)
Advance(g) ==
  /\ at' = [at EXCEPT ![g] = @ + 1]
  /\ request' = [request EXCEPT ![g] = RequestAt(g, at[g] + 1)]

(* On to another request about the same unit.                                *)
Ask(g, r) ==
  /\ request' = [request EXCEPT ![g] = r]
  /\ UNCHANGED at

Emit(metrics) == sent' = sent \cup metrics

(* collectUnitStatusMetrics: the Type of a service or a mount only fills a   *)
(* label; the states are sent whether or not it is known.                    *)
UnitState ==
  /\ request["status"] = "Type"
  /\ Emit({ Metric("unit_state", <<Cur("status").name, st>>,
                   IF st = Cur("status").activeState THEN 1 ELSE 0) : st \in unitStatesName })
  /\ IF Cur("status").suffix = "service" THEN Ask("status", "NRestarts") ELSE Advance("status")
  /\ UNCHANGED <<mainVars, startTimeUsec>>

UnitRestarts ==
  /\ request["status"] = "NRestarts"
  /\ \/ Emit({Metric("service_restart_total", Cur("status").name, Cur("status").name)})
     \/ UNCHANGED sent
  /\ Advance("status")
  /\ UNCHANGED <<mainVars, startTimeUsec>>

(* Mutant: a failed request does not skip the unit. *)
StartTimeAnyway ==
  /\ request["startTime"] = "ActiveEnterTimestamp"
  /\ \/ /\ Cur("startTime").activeState # "active"
        /\ startTimeUsec' = ZeroTime
     \/ /\ Cur("startTime").activeState = "active"
        /\ startTimeUsec' \in {startTimeUsec, Cur("startTime").name}
  /\ Emit({Metric("unit_start_time_seconds", Cur("startTime").name, startTimeUsec')})
  /\ Advance("startTime")
  /\ UNCHANGED mainVars

(* collectUnitStartTimeMetrics: nothing is asked about a unit that is not    *)
(* active, and nothing is sent when the request fails.                       *)
StartTime ==
  /\ request["startTime"] = "ActiveEnterTimestamp"
  /\ LET u == Cur("startTime")
     IN  \/ /\ startTimeUsec' = IF u.activeState = "active" THEN u.name ELSE ZeroTime
            /\ Emit({Metric("unit_start_time_seconds", u.name, startTimeUsec')})
         \/ /\ u.activeState = "active"
            /\ UNCHANGED <<startTimeUsec, sent>>
  /\ Advance("startTime")
  /\ UNCHANGED mainVars

(* Mutant: a property that is not set is sent as it is. *)
SendEvenUnset(desc, u, answer) == Emit({Metric(desc, u.name, answer)})

(* A number of tasks is sent unless D-Bus reports MaxUint64.                 *)
SendIfSet(desc, u, answer) ==
  IF answer = MaxUint64 THEN UNCHANGED sent ELSE Emit({Metric(desc, u.name, answer)})

(* collectUnitTasksMetrics, for a service.                                   *)
TasksCurrent ==
  /\ request["tasks"] = "TasksCurrent"
  /\ IF Cur("tasks").suffix = "service"
     THEN /\ \/ \E answer \in {Cur("tasks").name, MaxUint64} :
                  SendIfSet("unit_tasks_current", Cur("tasks"), answer)
             \/ UNCHANGED sent
          /\ Ask("tasks", "TasksMax")
     ELSE Advance("tasks") /\ UNCHANGED sent
  /\ UNCHANGED <<mainVars, startTimeUsec>>

TasksMax ==
  /\ request["tasks"] = "TasksMax"
  /\ \/ \E answer \in {Cur("tasks").name, MaxUint64} :
          SendIfSet("unit_tasks_max", Cur("tasks"), answer)
     \/ UNCHANGED sent
  /\ Advance("tasks")
  /\ UNCHANGED <<mainVars, startTimeUsec>>

(* collectTimers.                                                            *)
Timer ==
  /\ request["timers"] = "LastTriggerUSec"
  /\ \/ /\ Cur("timers").suffix = "timer"
        /\ Emit({Metric("timer_last_trigger_seconds", Cur("timers").name, Cur("timers").name)})
     \/ UNCHANGED sent
  /\ Advance("timers")
  /\ UNCHANGED <<mainVars, startTimeUsec>>

(* collectSockets: a request that fails ends the unit.                       *)
SocketAccepted ==
  /\ request["sockets"] = "NAccepted"
  /\ \/ /\ Cur("sockets").suffix = "socket"
        /\ Emit({Metric("socket_accepted_connections_total", Cur("sockets").name,
                        Cur("sockets").name)})
        /\ Ask("sockets", "NConnections")
     \/ UNCHANGED sent /\ Advance("sockets")
  /\ UNCHANGED <<mainVars, startTimeUsec>>

SocketConnections ==
  /\ request["sockets"] = "NConnections"
  /\ \/ /\ Emit({Metric("socket_current_connections", Cur("sockets").name,
                        Cur("sockets").name)})
        /\ Ask("sockets", "NRefused")
     \/ UNCHANGED sent /\ Advance("sockets")
  /\ UNCHANGED <<mainVars, startTimeUsec>>

SocketRefused ==
  /\ request["sockets"] = "NRefused"
  /\ \/ Emit({Metric("socket_refused_connections_total", Cur("sockets").name,
                     Cur("sockets").name)})
     \/ UNCHANGED sent
  /\ Advance("sockets")
  /\ UNCHANGED <<mainVars, startTimeUsec>>

-------------------------------------------------------------------------------
Update ==
  Dial \/ GetVersion \/ GetUnits \/ Start \/ CollectSystemState \/ Wait \/ Close

UnitStatus == UnitState \/ UnitRestarts
Tasks == TasksCurrent \/ TasksMax
Sockets == SocketAccepted \/ SocketConnections \/ SocketRefused

Next == Update \/ UnitStatus \/ StartTime \/ Tasks \/ Timer \/ Sockets

Spec == Init /\ [][Next]_vars

(* Every goroutine runs, and systemd answers every request: no request has a *)
(* timeout of its own.                                                       *)
FairSpec ==
  /\ Spec
  /\ WF_vars(Update) /\ WF_vars(UnitStatus) /\ WF_vars(StartTime)
  /\ WF_vars(Tasks) /\ WF_vars(Timer) /\ WF_vars(Sockets)

-------------------------------------------------------------------------------
(* Properties.                                                               *)

TypeOK ==
  /\ main \in MainStates
  /\ conn \in {"none", "open", "closed"}
  /\ systemdVersion \in Versions \cup {0}
  /\ allUnits \in UnitLists \cup {<<>>}
  /\ units \in Seq(Units)
  /\ request \in [Goroutines -> Requests]
  /\ \A g \in Goroutines : at[g] \in 1..Len(units) + 1
  /\ err \in BOOLEAN

(***************************************************************************)
(* The goroutines use the connection, and the channel of the registry,     *)
(* only while Update has not closed the one and not returned, which closes *)
(* the other: the order of the two deferred calls.                         *)
(***************************************************************************)
GoroutinesWithinUpdate ==
  \A g \in Goroutines :
    Running(g) => conn = "open" /\ main \in {"state", "wait"}

(* The metrics of the state of a unit.                                       *)
StateMetrics(u) ==
  { Metric("unit_state", <<u.name, st>>, IF st = u.activeState THEN 1 ELSE 0) :
      st \in unitStatesName }

(***************************************************************************)
(* When Update has got the units, then every loaded unit is exposed with   *)
(* each of the five states, the state it is in being the only one set, and *)
(* no other unit is: also when the system state could not be had and       *)
(* Update returns an error.                                                *)
(***************************************************************************)
LoadedUnitsExposed ==
  main = "returned" /\ allUnits # <<>> =>
    { m \in sent : m.desc = "unit_state" } =
      UNION { StateMetrics(u) : u \in { v \in Range(allUnits) : v.loaded } }

(***************************************************************************)
(* The summary accounts for every unit systemd listed, whether loaded or   *)
(* not and whatever its state, and agrees with the states of the units.    *)
(***************************************************************************)
SummaryCountsAll ==
  main = "returned" /\ allUnits # <<>> =>
    LET counts == { m \in sent : m.desc = "units" }
        count == [st \in { m.label : m \in counts } |->
                    (CHOOSE m \in counts : m.label = st).value]
    IN  /\ FoldFunction(+, 0, count) = Len(allUnits)
        /\ \A st \in unitStatesName :
             count[st] >= Cardinality({ m \in sent : /\ m.desc = "unit_state"
                                                     /\ m.label[2] = st
                                                     /\ m.value = 1 })

(* Metrics whose value is a property of the unit they are labelled with.     *)
PropertyMetrics ==
  { m \in sent : m.desc \notin {"version", "units", "unit_state", "system_running"} }

(***************************************************************************)
(* A metric of a unit has the value of this very unit, and no value that   *)
(* stands for "not set"; a zero start time means that the unit was not     *)
(* active.                                                                 *)
(***************************************************************************)
ValuesAreOwn ==
  \A m \in PropertyMetrics :
    \/ m.value = m.label
    \/ /\ m.desc = "unit_start_time_seconds"
       /\ m.value = ZeroTime
       /\ \A i \in DOMAIN units : units[i].name = m.label => units[i].activeState # "active"

(***************************************************************************)
(* "the minimum SystemD version for availability of the 'SystemState'      *)
(* manager property and the timer property 'LastTriggerUSec'": neither is  *)
(* exposed by an older systemd, or one whose version cannot be told.       *)
(***************************************************************************)
GatedByVersion ==
  ~SystemStateAvailable =>
    \A m \in sent : m.desc \notin {"system_running", "timer_last_trigger_seconds"}

(***************************************************************************)
(* Update returns when systemd answers every request.                      *)
(***************************************************************************)
UpdateEnds == <>(main = "returned")
===============================================================================
