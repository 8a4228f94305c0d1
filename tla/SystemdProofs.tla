----------------------------- MODULE SystemdProofs -----------------------------
(***************************************************************************)
(* Proofs about the systemd collector, for any units and any version, with *)
(* requests that fail in any order.                                        *)
(***************************************************************************)
EXTENDS Systemd, FoldTheorems

(* The goroutines run between the go statements and the end of wg.Wait(),    *)
(* and the connection is open from Dial to Close.                            *)
Connected ==
  /\ main \in {"version", "list", "start", "state", "wait", "close"} => conn = "open"
  /\ \A g \in Goroutines : Running(g) => main \in {"state", "wait"}

(* The timers are asked about, and the system state is, only of a systemd    *)
(* that has them; nothing is exposed before the version is known.            *)
Gated ==
  /\ main \in {"dial", "version"} => sent = {}
  /\ main = "state" \/ Running("timers") => SystemStateAvailable
  /\ GatedByVersion

IInv ==
  /\ request \in [Goroutines -> Requests]
  /\ Connected
  /\ Gated

-------------------------------------------------------------------------------
(* filterUnits.                                                              *)

(* it is the fold of filterUnits over any set of indices.                    *)
Filters(it, list) ==
  it = [s \in SUBSET DOMAIN list |->
          IF s = {} THEN <<>>
          ELSE IF list[Max(s)].loaded
               THEN Append(it[s \ {Max(s)}], list[Max(s)]) ELSE it[s \ {Max(s)}]]

LEMMA FilterExists ==
  ASSUME NEW U, NEW list \in Seq(U)
  PROVE  \E it : Filters(it, list)
<1> DEFINE n == Len(list)
           step == [x \in Seq(U) \X (1..n) |->
                      IF list[x[2]].loaded THEN Append(x[1], list[x[2]]) ELSE x[1]]
<1>1. n \in Nat /\ DOMAIN list = 1..n /\ <<>> \in Seq(U)
  OBVIOUS
<1>2. step \in [Seq(U) \X (1..n) -> Seq(U)]
  OBVIOUS
<1>3. PICK it \in [SUBSET (1..n) -> Seq(U)] : Folds(it, <<>>, step, n)
  <2> HIDE DEF n, step
  <2> QED
    BY <1>1, <1>2, FoldExists
<1>4. ASSUME NEW s \in SUBSET (1..n), s # {}
      PROVE  step[<<it[s \ {Max(s)}], Max(s)>>] =
               IF list[Max(s)].loaded
               THEN Append(it[s \ {Max(s)}], list[Max(s)]) ELSE it[s \ {Max(s)}]
  <2>1. Max(s) \in 1..n /\ s \ {Max(s)} \in SUBSET (1..n)
    <3>1. Max(s) \in s
      BY <1>1, <1>4, MaxInSubset
    <3> QED
      BY <3>1
  <2> QED
    BY <1>3, <2>1
<1> HIDE DEF step
<1>5. Filters(it, list)
  BY <1>1, <1>3, <1>4 DEF Filters, Folds
<1> QED
  BY <1>5

(* It returns the loaded units of the list, and only these.                  *)
Kept(filtered, list, indices) ==
  /\ \A k \in DOMAIN filtered : \E j \in indices : filtered[k] = list[j] /\ list[j].loaded
  /\ \A j \in indices : list[j].loaded => \E k \in DOMAIN filtered : filtered[k] = list[j]

LEMMA FilterFacts ==
  ASSUME NEW U, NEW list \in Seq(U)
  PROVE  filterUnits(list) \in Seq(U) /\ Kept(filterUnits(list), list, DOMAIN list)
<1> DEFINE n == Len(list)
           fold == CHOOSE it : Filters(it, list)
           P == {i \in 0..n : fold[1..i] \in Seq(U) /\ Kept(fold[1..i], list, 1..i)}
<1>1. n \in Nat /\ DOMAIN list = 1..n
  OBVIOUS
<1>2. filterUnits(list) = fold[1..n]
  BY <1>1 DEF filterUnits, FoldLeft, MapThenFoldSet, Filters
<1>3. Filters(fold, list)
  BY FilterExists
<1> HIDE DEF fold
<1>4. 0 \in P
  <2>1. fold[1..0] = <<>>
    BY <1>1, <1>3 DEF Filters
  <2>2. <<>> \in Seq(U) /\ Kept(<<>>, list, 1..0)
    BY DEF Kept
  <2>3. fold[1..0] \in Seq(U) /\ Kept(fold[1..0], list, 1..0)
    BY <2>1, <2>2
  <2> QED
    BY <1>1, <2>3
<1>5. ASSUME NEW i \in 1..n, i - 1 \in P
      PROVE  i \in P
  <2>1. fold[1..i] = IF list[i].loaded THEN Append(fold[1..(i - 1)], list[i]) ELSE fold[1..(i - 1)]
    BY <1>1, <1>3, FirstNumbers DEF Filters
  <2>2. list[i] \in U
    OBVIOUS
  <2>3. PICK f \in Seq(U) : f = fold[1..(i - 1)] /\ Kept(f, list, 1..(i - 1))
    BY <1>5
  <2>4. CASE list[i].loaded
    <3>1. /\ Append(f, list[i]) \in Seq(U)
          /\ DOMAIN Append(f, list[i]) = 1..Len(f) + 1
          /\ DOMAIN f = 1..Len(f) /\ Len(f) \in Nat
          /\ Append(f, list[i])[Len(f) + 1] = list[i]
          /\ \A k \in 1..Len(f) : Append(f, list[i])[k] = f[k]
      BY <2>2
    <3>2. PICK g : g = Append(f, list[i])
      OBVIOUS
    <3>3. ASSUME NEW k \in DOMAIN g
          PROVE  \E j \in 1..i : g[k] = list[j] /\ list[j].loaded
      <4>1. CASE k = Len(f) + 1
        BY <2>4, <3>1, <3>2, <4>1
      <4>2. CASE k \in 1..Len(f)
        <5>1. PICK j \in 1..(i - 1) : f[k] = list[j] /\ list[j].loaded
          BY <2>3, <3>1, <4>2 DEF Kept
        <5> QED
          BY <3>1, <3>2, <4>2, <5>1
      <4> QED
        BY <3>1, <3>2, <4>1, <4>2
    <3>4. ASSUME NEW j \in 1..i, list[j].loaded
          PROVE  \E k \in DOMAIN g : g[k] = list[j]
      <4>1. CASE j = i
        BY <3>1, <3>2, <4>1
      <4>2. CASE j \in 1..(i - 1)
        <5>1. PICK k \in 1..Len(f) : f[k] = list[j]
          BY <2>3, <3>1, <3>4, <4>2 DEF Kept
        <5> QED
          BY <3>1, <3>2, <5>1
      <4> QED
        BY <4>1, <4>2
    <3>5. Kept(g, list, 1..i)
      BY <3>3, <3>4 DEF Kept
    <3>6. fold[1..i] = g
      BY <2>1, <2>3, <2>4, <3>2
    <3>7. fold[1..i] \in Seq(U) /\ Kept(fold[1..i], list, 1..i)
      BY <3>1, <3>2, <3>5, <3>6
    <3> QED
      BY <3>7
  <2>5. CASE ~list[i].loaded
    <3>1. Kept(f, list, 1..i)
      BY <2>3, <2>5 DEF Kept
    <3>2. fold[1..i] = f
      BY <2>1, <2>3, <2>5
    <3>3. fold[1..i] \in Seq(U) /\ Kept(fold[1..i], list, 1..i)
      BY <3>1, <3>2
    <3> QED
      BY <3>3
  <2> QED
    BY <2>4, <2>5
<1>6. n \in P
  <2>1. 0..n \subseteq P
    <3> HIDE DEF P, n
    <3> QED
      BY <1>1, <1>4, <1>5, IntervalInduction
  <2> QED
    BY <1>1, <2>1
<1> QED
  BY <1>1, <1>2, <1>6

-------------------------------------------------------------------------------
(* The steps of Next that are a goroutine's.                                 *)
GoroutineNext ==
  UnitStatus \/ StartTime \/ Tasks \/ Timer \/ Sockets

(* A step of a goroutine moves on with this goroutine only, which ran before,*)
(* and sends no metric that needs a version but those of the timers.         *)
LEMMA GoroutineStep ==
  ASSUME request \in [Goroutines -> Requests], GoroutineNext
  PROVE  /\ main' = main /\ conn' = conn /\ systemdVersion' = systemdVersion
         /\ \E g \in Goroutines :
              /\ Running(g)
              /\ request' \in [Goroutines -> Requests]
              /\ \A h \in Goroutines \ {g} : request'[h] = request[h]
              /\ \A m \in sent' \ sent :
                   /\ m.desc # "system_running"
                   /\ m.desc = "timer_last_trigger_seconds" => g = "timers"
<1>1. /\ \A g \in Goroutines : FirstRequest[g] \in Requests
      /\ "none" \in Requests
  BY DEF Goroutines, FirstRequest, Requests
<1>2. ASSUME NEW g \in Goroutines, NEW r \in Requests, Advance(g) \/ Ask(g, r)
      PROVE  /\ request' \in [Goroutines -> Requests]
             /\ \A h \in Goroutines \ {g} : request'[h] = request[h]
  BY <1>1, <1>2 DEF Advance, Ask, RequestAt
<1> DEFINE Moves(g) == /\ main' = main /\ conn' = conn /\ systemdVersion' = systemdVersion
                       /\ Running(g)
                       /\ request' \in [Goroutines -> Requests]
                       /\ \A h \in Goroutines \ {g} : request'[h] = request[h]
           Sends(g) == \A m \in sent' \ sent :
                         /\ m.desc # "system_running"
                         /\ m.desc = "timer_last_trigger_seconds" => g = "timers"
<1>3. /\ "status" \in Goroutines /\ "startTime" \in Goroutines /\ "tasks" \in Goroutines
      /\ "timers" \in Goroutines /\ "sockets" \in Goroutines
      /\ {"NRestarts", "TasksMax", "NConnections", "NRefused"} \subseteq Requests
  BY DEF Goroutines, Requests
<1> USE DEF mainVars, Running, Emit, Metric
<1>4. CASE UnitState
  <2>1. Moves("status")
    BY <1>2, <1>3, <1>4 DEF UnitState
  <2>2. Sends("status")
    BY <1>4 DEF UnitState
  <2> QED
    BY <1>3, <2>1, <2>2
<1>5. CASE UnitRestarts
  <2>1. Moves("status")
    BY <1>2, <1>3, <1>5 DEF UnitRestarts
  <2>2. Sends("status")
    BY <1>5 DEF UnitRestarts
  <2> QED
    BY <1>3, <2>1, <2>2
<1>6. CASE StartTime
  <2>1. Moves("startTime")
    BY <1>2, <1>3, <1>6 DEF StartTime
  <2>2. Sends("startTime")
    BY <1>6 DEF StartTime
  <2> QED
    BY <1>3, <2>1, <2>2
<1>7. CASE TasksCurrent
  <2>1. Moves("tasks")
    BY <1>2, <1>3, <1>7 DEF TasksCurrent
  <2>2. Sends("tasks")
    BY <1>7 DEF TasksCurrent, SendIfSet
  <2> QED
    BY <1>3, <2>1, <2>2
<1>8. CASE TasksMax
  <2>1. Moves("tasks")
    BY <1>2, <1>3, <1>8 DEF TasksMax
  <2>2. Sends("tasks")
    BY <1>8 DEF TasksMax, SendIfSet
  <2> QED
    BY <1>3, <2>1, <2>2
<1>9. CASE Timer
  <2>1. Moves("timers")
    BY <1>2, <1>3, <1>9 DEF Timer
  <2>2. Sends("timers")
    BY <1>9 DEF Timer
  <2> QED
    BY <1>3, <2>1, <2>2
<1>10. CASE Sockets
  <2>1. Moves("sockets")
    BY <1>2, <1>3, <1>10 DEF Sockets, SocketAccepted, SocketConnections, SocketRefused
  <2>2. Sends("sockets")
    BY <1>10 DEF Sockets, SocketAccepted, SocketConnections, SocketRefused
  <2> QED
    BY <1>3, <2>1, <2>2
<1> QED
  BY <1>4, <1>5, <1>6, <1>7, <1>8, <1>9, <1>10 DEF GoroutineNext, UnitStatus, Tasks

LEMMA InitInv == Init => IInv
  BY DEF Init, IInv, Requests, Goroutines, Connected, Gated, GatedByVersion, Running

LEMMA StepInv == IInv /\ [Next]_vars => IInv'
<1> SUFFICES ASSUME IInv, [Next]_vars PROVE IInv'
  OBVIOUS
<1> USE DEF IInv, Connected, Gated, GatedByVersion, SystemStateAvailable, Running
<1>1. CASE Dial
  BY <1>1 DEF Dial
<1>2. CASE GetVersion
  <2>0. /\ main = "version" /\ main' = "list" /\ conn' = conn /\ request' = request
        /\ sent = {} /\ sent' = sent \cup {Metric("version", "", systemdVersion')}
    BY <1>2 DEF GetVersion
  <2>1. \A m \in sent' : m.desc = "version"
    <3>1. \A m \in sent' : m = Metric("version", "", systemdVersion')
      BY <2>0
    <3>2. Metric("version", "", systemdVersion').desc = "version"
      BY DEF Metric
    <3> QED
      BY <3>1, <3>2
  <2>2. \A g \in Goroutines : ~Running(g)
    BY <2>0
  <2> QED
    BY <2>0, <2>1, <2>2 DEF Goroutines
<1>3. CASE GetUnits
  <2>1. /\ main = "list" /\ main' \in {"start", "close"}
        /\ UNCHANGED <<conn, systemdVersion, request>>
    BY <1>3 DEF GetUnits
  <2>2. \A m \in sent' \ sent : m.desc = "units"
    BY <1>3 DEF GetUnits, Metric
  <2> QED
    BY <2>1, <2>2 DEF Goroutines
<1>4. CASE Start
  <2>1. /\ request' = [g \in Goroutines |->
                         IF g = "timers" /\ ~SystemStateAvailable THEN "none" ELSE RequestAt(g, 1)]
        /\ main' = IF SystemStateAvailable THEN "state" ELSE "wait"
        /\ main = "start" /\ UNCHANGED <<conn, systemdVersion, sent>>
    BY <1>4 DEF Start
  <2>2. request' \in [Goroutines -> Requests]
    BY <2>1 DEF RequestAt, FirstRequest, Goroutines, Requests
  <2> QED
    BY <2>1, <2>2 DEF Goroutines
<1>5. CASE CollectSystemState
  BY <1>5 DEF CollectSystemState, Metric, Goroutines
<1>6. CASE Wait
  BY <1>6 DEF Wait, Goroutines
<1>7. CASE Close
  BY <1>7 DEF Close, Goroutines
<1>8. CASE GoroutineNext
  BY <1>8, GoroutineStep DEF Goroutines
<1>9. CASE UNCHANGED vars
  BY <1>9 DEF vars
<1> QED
  BY <1>1, <1>2, <1>3, <1>4, <1>5, <1>6, <1>7, <1>8, <1>9 DEF Next, Update, GoroutineNext

LEMMA Invariance == Spec => []IInv
  BY InitInv, StepInv, PTL DEF Spec

(***************************************************************************)
(* No goroutine uses the connection or the channel before Update has       *)
(* opened the one or after it has closed it and returned.                  *)
(***************************************************************************)
THEOREM ConnectionSafe == Spec => []GoroutinesWithinUpdate
<1>1. IInv => GoroutinesWithinUpdate
  BY DEF IInv, Connected, GoroutinesWithinUpdate
<1> QED
  BY <1>1, Invariance, PTL

(***************************************************************************)
(* A systemd that is too old, or whose version cannot be told, has no      *)
(* system state and no timer exposed.                                      *)
(***************************************************************************)
THEOREM VersionGates == Spec => []GatedByVersion
<1>1. IInv => GatedByVersion
  BY DEF IInv, Gated
<1> QED
  BY <1>1, Invariance, PTL

-------------------------------------------------------------------------------
(* Where the goroutines are in the list.                                     *)

(* The units are listed once, before any goroutine starts on them; one that  *)
(* runs is at a unit of the list.                                            *)
Listed ==
  /\ at \in [Goroutines -> Nat]
  /\ main \in {"dial", "version", "list", "start"} => \A g \in Goroutines : at[g] = 1
  /\ main \in {"dial", "version", "list"} => allUnits = <<>>
  /\ units = filterUnits(allUnits)
  /\ \A g \in Goroutines : Running(g) => at[g] \in 1..Len(units)

TypeInv == IInv /\ TypeOK /\ Listed

(* A step of a goroutine moves this goroutine to the next unit, or to        *)
(* another request about the same one.                                       *)
LEMMA GoroutineMoves ==
  ASSUME GoroutineNext
  PROVE  /\ UNCHANGED mainVars
         /\ \E g \in Goroutines :
              /\ Running(g)
              /\ Advance(g) \/ \E r \in Requests \ {"none"} : Ask(g, r)
<1>1. /\ "status" \in Goroutines /\ "startTime" \in Goroutines /\ "tasks" \in Goroutines
      /\ "timers" \in Goroutines /\ "sockets" \in Goroutines
      /\ {"NRestarts", "TasksMax", "NConnections", "NRefused"} \subseteq Requests \ {"none"}
  BY DEF Goroutines, Requests
<1> DEFINE Moves(g) == /\ UNCHANGED mainVars
                       /\ Running(g)
                       /\ Advance(g) \/ \E r \in Requests \ {"none"} : Ask(g, r)
<1>2. UnitStatus => Moves("status")
  BY <1>1 DEF UnitStatus, UnitState, UnitRestarts, Running
<1>3. StartTime => Moves("startTime")
  BY <1>1 DEF StartTime, Running
<1>4. Tasks => Moves("tasks")
  BY <1>1 DEF Tasks, TasksCurrent, TasksMax, Running
<1>5. Timer => Moves("timers")
  BY <1>1 DEF Timer, Running
<1>6. Sockets => Moves("sockets")
  BY <1>1 DEF Sockets, SocketAccepted, SocketConnections, SocketRefused, Running
<1> HIDE DEF Moves
<1>7. \E g \in Goroutines : Moves(g)
  BY <1>1, <1>2, <1>3, <1>4, <1>5, <1>6 DEF GoroutineNext
<1> QED
  BY <1>7 DEF Moves

LEMMA InitTyped == Init => TypeInv
<1> SUFFICES ASSUME Init PROVE TypeInv
  OBVIOUS
<1>1. IInv
  BY InitInv
<1>2. <<>> \in Seq(Units) /\ Len(<<>>) = 0 /\ DOMAIN <<>> = {}
  OBVIOUS
<1>3. filterUnits(<<>>) = <<>>
  <2>1. PICK f \in Seq(Units) : f = filterUnits(<<>>) /\ Kept(f, <<>>, DOMAIN <<>>)
    BY <1>2, FilterFacts
  <2>2. DOMAIN f = {}
    BY <1>2, <2>1 DEF Kept
  <2> QED
    BY <2>1, <2>2
<1>4. TypeOK
  <2>1. /\ main \in MainStates
        /\ conn \in {"none", "open", "closed"}
        /\ systemdVersion \in Versions \cup {0}
        /\ allUnits \in UnitLists \cup {<<>>}
        /\ request \in [Goroutines -> Requests]
        /\ err \in BOOLEAN
    BY DEF Init, MainStates, Requests
  <2>2. units \in Seq(Units) /\ Len(units) = 0
    BY <1>2 DEF Init
  <2>3. \A g \in Goroutines : at[g] = 1
    BY DEF Init
  <2> QED
    BY <2>1, <2>2, <2>3 DEF TypeOK
<1>5. Listed
  BY <1>3 DEF Init, Listed, Running, Goroutines
<1> QED
  BY <1>1, <1>4, <1>5 DEF TypeInv

LEMMA StepTyped == TypeInv /\ [Next]_vars => TypeInv'
<1> SUFFICES ASSUME TypeInv, [Next]_vars PROVE TypeInv'
  OBVIOUS
<1>1. IInv'
  BY StepInv DEF TypeInv
<1>2. IInv /\ TypeOK /\ Listed
  BY DEF TypeInv
<1>3. Len(units) \in Nat
  BY <1>2 DEF TypeOK
<1>4. CASE Dial
  BY <1>1, <1>2, <1>4 DEF Dial, TypeInv, TypeOK, Listed, Running, MainStates
<1>5. CASE GetVersion
  BY <1>1, <1>2, <1>5 DEF GetVersion, TypeInv, TypeOK, Listed, Running, MainStates
<1>6. CASE GetUnits
  <2>1. /\ main = "list" /\ main' \in {"start", "close"} /\ err' \in BOOLEAN
        /\ UNCHANGED <<conn, systemdVersion, request, at>>
        /\ \A g \in Goroutines : at[g] = 1 /\ ~Running(g)
    BY <1>2, <1>6 DEF GetUnits, TypeOK, Listed, IInv, Connected
  <2>2. /\ allUnits' \in UnitLists \cup {<<>>}
        /\ units' = filterUnits(allUnits')
    BY <1>2, <1>6 DEF GetUnits, TypeOK, Listed
  <2>3. units' \in Seq(Units) /\ Len(units') \in Nat
    <3>1. allUnits' \in Seq(Units)
      BY <1>2, <2>2, EmptyIsSeq, SystemdAssumption
    <3> QED
      BY <2>2, <3>1, FilterFacts
  <2>4. TypeOK'
    BY <1>1, <1>2, <2>1, <2>2, <2>3 DEF TypeOK, MainStates
  <2>5. Listed'
    BY <1>2, <2>1, <2>2 DEF Listed, Running
  <2> QED
    BY <1>1, <2>4, <2>5 DEF TypeInv
<1>7. CASE Start
  <2>1. /\ main = "start" /\ main' \in {"state", "wait"}
        /\ UNCHANGED <<conn, systemdVersion, allUnits, units, at, err>>
        /\ \A g \in Goroutines : at[g] = 1
        /\ \A g \in Goroutines : request'[g] \in {"none", RequestAt(g, 1)}
    BY <1>2, <1>7 DEF Start, Listed
  <2>2. TypeOK'
    BY <1>1, <1>2, <2>1 DEF TypeOK, MainStates, IInv
  <2>3. ASSUME NEW g \in Goroutines, request'[g] # "none"
        PROVE  at'[g] \in 1..Len(units')
    BY <1>3, <2>1, <2>3 DEF RequestAt
  <2>4. Listed'
    BY <1>2, <2>1, <2>3 DEF Listed, Running
  <2> QED
    BY <1>1, <2>2, <2>4 DEF TypeInv
<1>8. CASE CollectSystemState
  BY <1>1, <1>2, <1>8 DEF CollectSystemState, TypeInv, TypeOK, Listed, Running, MainStates
<1>9. CASE Wait
  BY <1>1, <1>2, <1>9 DEF Wait, TypeInv, TypeOK, Listed, Running, MainStates
<1>10. CASE Close
  BY <1>1, <1>2, <1>10 DEF Close, TypeInv, TypeOK, Listed, Running, MainStates
<1>11. CASE GoroutineNext
  <2>1. UNCHANGED mainVars
    BY <1>11, GoroutineMoves
  <2>2. PICK g \in Goroutines :
          Running(g) /\ (Advance(g) \/ \E r \in Requests \ {"none"} : Ask(g, r))
    BY <1>11, GoroutineMoves
  <2>3. at[g] \in 1..Len(units) /\ main \in {"state", "wait"}
    BY <1>2, <2>2 DEF Listed, IInv, Connected
  <2>4. /\ at' \in [Goroutines -> Nat]
        /\ \A h \in Goroutines \ {g} : at'[h] = at[h] /\ request'[h] = request[h]
        /\ at'[g] \in 1..Len(units) + 1
        /\ request'[g] # "none" => at'[g] \in 1..Len(units)
    <3>1. CASE Advance(g)
      BY <1>2, <1>3, <2>3, <3>1 DEF Advance, RequestAt, Listed, TypeOK
    <3>2. CASE \E r \in Requests \ {"none"} : Ask(g, r)
      BY <1>2, <1>3, <2>3, <3>2 DEF Ask, Listed, TypeOK
    <3> QED
      BY <2>2, <3>1, <3>2
  <2>5. TypeOK'
    BY <1>1, <1>2, <2>1, <2>4 DEF TypeOK, IInv, mainVars
  <2>6. Listed'
    BY <1>2, <2>1, <2>3, <2>4 DEF Listed, mainVars, Running
  <2> QED
    BY <1>1, <2>5, <2>6 DEF TypeInv
<1>12. CASE UNCHANGED vars
  BY <1>1, <1>2, <1>12 DEF vars, TypeInv, TypeOK, Listed, Running
<1> QED
  BY <1>4, <1>5, <1>6, <1>7, <1>8, <1>9, <1>10, <1>11, <1>12 DEF Next, Update, GoroutineNext

(***************************************************************************)
(* The variables of Update and of its goroutines keep their types: no      *)
(* goroutine leaves the list of units.                                     *)
(***************************************************************************)
THEOREM TypeCorrect == Spec => []TypeOK
<1>1. TypeInv => TypeOK
  BY DEF TypeInv
<1> QED
  BY <1>1, InitTyped, StepTyped, PTL DEF Spec

-------------------------------------------------------------------------------
(* What has been sent.                                                       *)

StateMetric(u, st) ==
  Metric("unit_state", <<u.name, st>>, IF st = u.activeState THEN 1 ELSE 0)

(* The status goroutine has sent the states of the unit at index i.          *)
StatesSent(i) ==
  \/ i < at["status"]
  \/ i = at["status"] /\ request["status"] = "NRestarts"

(* The states exposed are those of the units the status goroutine has been   *)
(* at.                                                                       *)
Reported ==
  /\ \A m \in sent : m.desc = "unit_state" =>
       \E i \in DOMAIN units, st \in unitStatesName :
         StatesSent(i) /\ m = StateMetric(units[i], st)
  /\ \A i \in DOMAIN units : StatesSent(i) =>
       \A st \in unitStatesName : StateMetric(units[i], st) \in sent

(* The status goroutine ends when it has been at all units, and Update waits *)
(* for it.                                                                   *)
StatusEnds ==
  /\ main \in {"state", "wait"} /\ ~Running("status") => at["status"] = Len(units) + 1
  /\ main \in {"close", "returned"} /\ allUnits # <<>> => at["status"] = Len(units) + 1

(* Nothing about a unit is sent before the units are listed, and the         *)
(* summary, of all units, when they are.                                     *)
Summarized ==
  /\ main \in {"dial", "version", "list"} => \A m \in sent : m.desc = "version"
  /\ \A m \in sent : m.desc = "units" =>
       \E st \in DOMAIN summarizeUnits(allUnits) :
         m = Metric("units", st, summarizeUnits(allUnits)[st])
  /\ main # "list" /\ allUnits # <<>> =>
       \A st \in DOMAIN summarizeUnits(allUnits) :
         Metric("units", st, summarizeUnits(allUnits)[st]) \in sent

SentInv == TypeInv /\ ValuesAreOwn /\ Reported /\ StatusEnds /\ Summarized

(* Among the units kept, as among those listed, a name is that of one unit.  *)
LEMMA NamesUnique ==
  ASSUME TypeInv
  PROVE  \A i, j \in DOMAIN units : units[i].name = units[j].name => units[i] = units[j]
<1> SUFFICES ASSUME NEW i \in DOMAIN units, NEW j \in DOMAIN units,
                    units[i].name = units[j].name
             PROVE  units[i] = units[j]
  OBVIOUS
<1>1. allUnits \in Seq(Units) /\ (allUnits = <<>> \/ allUnits \in UnitLists)
  BY EmptyIsSeq, SystemdAssumption DEF TypeInv, TypeOK
<1>2. Kept(units, allUnits, DOMAIN allUnits)
  BY <1>1, FilterFacts DEF TypeInv, Listed
<1>3. PICK k, l \in DOMAIN allUnits : units[i] = allUnits[k] /\ units[j] = allUnits[l]
  BY <1>2 DEF Kept
<1>4. allUnits \in UnitLists
  BY <1>1, <1>3
<1> QED
  BY <1>3, <1>4, SystemdAssumption

(* What a goroutine sends is about the unit it is at.                        *)
LEMMA GoroutineSends ==
  ASSUME TypeInv, GoroutineNext
  PROVE  /\ sent \subseteq sent'
         /\ \A m \in sent' \ sent :
              /\ m.desc \notin {"units", "version"}
              /\ m.desc = "unit_state" => UnitState
              /\ \/ m.desc = "unit_state"
                 \/ m.value = m.label
                 \/ /\ m.desc = "unit_start_time_seconds" /\ m.value = ZeroTime
                    /\ \E i \in DOMAIN units :
                         units[i].name = m.label /\ units[i].activeState # "active"
<1> USE DEF Emit, Metric
<1> DEFINE Own == /\ sent \subseteq sent'
                  /\ \A m \in sent' \ sent :
                       /\ m.desc \notin {"units", "version", "unit_state"}
                       /\ m.value = m.label
<1>1. CASE UnitState
  BY <1>1 DEF UnitState
<1>2. CASE UnitRestarts
  <2>1. Own
    BY <1>2 DEF UnitRestarts
  <2> QED
    BY <2>1
<1>3. CASE StartTime
  <2>1. at["startTime"] \in DOMAIN units
    BY <1>3 DEF TypeInv, Listed, TypeOK, StartTime, Running, Goroutines
  <2>2. CASE Cur("startTime").activeState = "active"
    <3>1. Own
      BY <1>3, <2>2 DEF StartTime
    <3> QED
      BY <3>1
  <2>3. CASE Cur("startTime").activeState # "active"
    <3>1. sent' = sent \cup {Metric("unit_start_time_seconds", Cur("startTime").name, ZeroTime)}
      BY <1>3, <2>3 DEF StartTime
    <3>2. \E i \in DOMAIN units :
            units[i].name = Cur("startTime").name /\ units[i].activeState # "active"
      BY <2>1, <2>3 DEF Cur
    <3> QED
      BY <3>1, <3>2
  <2> QED
    BY <2>2, <2>3
<1>4. CASE Tasks
  <2>1. Own
    BY <1>4 DEF Tasks, TasksCurrent, TasksMax, SendIfSet
  <2> QED
    BY <2>1
<1>5. CASE Timer
  <2>1. Own
    BY <1>5 DEF Timer
  <2> QED
    BY <2>1
<1>6. CASE Sockets
  <2>1. Own
    BY <1>6 DEF Sockets, SocketAccepted, SocketConnections, SocketRefused
  <2> QED
    BY <2>1
<1> QED
  BY <1>1, <1>2, <1>3, <1>4, <1>5, <1>6 DEF GoroutineNext, UnitStatus

(* The status goroutine sends the five states of a unit before it moves on.  *)
LEMMA StatusStep ==
  ASSUME TypeInv, Reported, StatusEnds, GoroutineNext
  PROVE  Reported' /\ StatusEnds'
<1>1. /\ units' = units /\ allUnits' = allUnits /\ main' = main /\ main \in {"state", "wait"}
      /\ Len(units) \in Nat /\ DOMAIN units = 1..Len(units)
      /\ at \in [Goroutines -> Nat] /\ "status" \in Goroutines
      /\ request \in [Goroutines -> Requests]
      /\ Running("status") => at["status"] \in 1..Len(units)
  BY GoroutineMoves DEF TypeInv, TypeOK, Listed, IInv, Connected, mainVars, Goroutines
<1>2. sent \subseteq sent' /\ \A m \in sent' \ sent : m.desc = "unit_state" => UnitState
  BY GoroutineSends
<1>3. CASE UnitState
  <2> DEFINE i == at["status"]
             u == units[i]
  <2>1. /\ i \in DOMAIN units /\ request["status"] = "Type"
        /\ sent' = sent \cup {StateMetric(u, st) : st \in unitStatesName}
        /\ \/ at' = at /\ request'["status"] = "NRestarts"
           \/ at'["status"] = i + 1 /\ request'["status"] = RequestAt("status", i + 1)
    BY <1>1, <1>3 DEF UnitState, Emit, StateMetric, Cur, Ask, Advance, Running
  <2>2. RequestAt("status", i + 1) = IF i + 1 <= Len(units) THEN "Type" ELSE "none"
    BY DEF RequestAt, FirstRequest
  <2>3. ASSUME NEW j \in DOMAIN units
        PROVE  StatesSent(j)' <=> StatesSent(j) \/ j = i
    BY <1>1, <2>1, <2>2 DEF StatesSent
  <2>4. Reported'
    <3>1. ASSUME NEW m \in sent', m.desc = "unit_state"
          PROVE  \E j \in DOMAIN units, st \in unitStatesName :
                   StatesSent(j)' /\ m = StateMetric(units[j], st)
      BY <2>1, <2>3, <3>1 DEF Reported
    <3>2. ASSUME NEW j \in DOMAIN units, StatesSent(j)', NEW st \in unitStatesName
          PROVE  StateMetric(units[j], st) \in sent'
      BY <2>1, <2>3, <3>2 DEF Reported
    <3> QED
      BY <1>1, <3>1, <3>2 DEF Reported, StateMetric, Metric
  <2>5. StatusEnds'
    BY <1>1, <2>1, <2>2 DEF StatusEnds, Running
  <2> QED
    BY <2>4, <2>5
<1>4. CASE ~UnitState
  <2>1. \/ at'["status"] = at["status"] /\ request'["status"] = request["status"]
        \/ /\ request["status"] = "NRestarts"
           /\ at'["status"] = at["status"] + 1
           /\ request'["status"] = RequestAt("status", at["status"] + 1)
    <3>1. CASE UnitRestarts
      BY <1>1, <3>1 DEF UnitRestarts, Advance
    <3>2. CASE StartTime \/ Tasks \/ Timer \/ Sockets
      BY <1>1, <3>2 DEF StartTime, Tasks, TasksCurrent, TasksMax, Timer, Sockets,
         SocketAccepted, SocketConnections, SocketRefused, Advance, Ask
    <3> QED
      BY <1>4, <3>1, <3>2 DEF GoroutineNext, UnitStatus
  <2>2. RequestAt("status", at["status"] + 1) =
          IF at["status"] + 1 <= Len(units) THEN "Type" ELSE "none"
    BY DEF RequestAt, FirstRequest
  <2>3. ASSUME NEW j \in DOMAIN units
        PROVE  StatesSent(j)' <=> StatesSent(j)
    BY <1>1, <2>1, <2>2 DEF StatesSent
  <2>4. Reported'
    <3>1. ASSUME NEW m \in sent', m.desc = "unit_state"
          PROVE  \E j \in DOMAIN units, st \in unitStatesName :
                   StatesSent(j)' /\ m = StateMetric(units[j], st)
      BY <1>2, <1>4, <2>3, <3>1 DEF Reported
    <3>2. ASSUME NEW j \in DOMAIN units, StatesSent(j)', NEW st \in unitStatesName
          PROVE  StateMetric(units[j], st) \in sent'
      BY <1>2, <2>3, <3>2 DEF Reported
    <3> QED
      BY <1>1, <3>1, <3>2 DEF Reported, StateMetric, Metric
  <2>5. StatusEnds'
    BY <1>1, <2>1, <2>2 DEF StatusEnds, Running
  <2> QED
    BY <2>4, <2>5
<1> QED
  BY <1>3, <1>4

LEMMA InitSent == Init => SentInv
<1> SUFFICES ASSUME Init PROVE SentInv
  OBVIOUS
<1>1. TypeInv
  BY InitTyped
<1>2. sent = {} /\ units = <<>> /\ main = "dial" /\ allUnits = <<>>
  BY DEF Init
<1> QED
  BY <1>1, <1>2 DEF SentInv, ValuesAreOwn, PropertyMetrics, Reported, StatusEnds, Summarized

LEMMA StepSent == SentInv /\ [Next]_vars => SentInv'
<1> SUFFICES ASSUME SentInv, [Next]_vars PROVE SentInv'
  OBVIOUS
<1>1. TypeInv' /\ TypeInv
  BY StepTyped DEF SentInv
<1>2. ValuesAreOwn /\ Reported /\ StatusEnds /\ Summarized
  BY DEF SentInv
<1>3. /\ at \in [Goroutines -> Nat] /\ "status" \in Goroutines
      /\ Len(units) \in Nat /\ DOMAIN units = 1..Len(units)
      /\ main \in {"dial", "version", "list", "start"} =>
           at["status"] = 1 /\ ~Running("status")
      /\ main \in {"dial", "version", "list"} => allUnits = <<>>
  BY <1>1 DEF TypeInv, TypeOK, Listed, IInv, Connected, Goroutines
<1> SUFFICES ValuesAreOwn' /\ Reported' /\ StatusEnds' /\ Summarized'
  BY <1>1 DEF SentInv
<1> USE DEF ValuesAreOwn, PropertyMetrics, Reported, StatusEnds, Summarized, StatesSent
<1>4. CASE Dial
  BY <1>2, <1>3, <1>4 DEF Dial, Running
<1>5. CASE GetVersion
  <2>1. /\ sent' = sent \cup {Metric("version", "", systemdVersion')}
        /\ main = "version" /\ main' = "list"
        /\ UNCHANGED <<allUnits, units, request, at>>
    BY <1>5 DEF GetVersion
  <2>2. Metric("version", "", systemdVersion').desc = "version"
    BY DEF Metric
  <2> QED
    BY <1>2, <1>3, <2>1, <2>2 DEF Running
<1>6. CASE GetUnits
  <2>1. CASE main' = "close"
    <3>1. main = "list" /\ UNCHANGED <<allUnits, units, request, at, sent>>
      BY <1>6, <2>1 DEF GetUnits
    <3> QED
      BY <1>2, <1>3, <2>1, <3>1
  <2>2. CASE main' = "start"
    <3> DEFINE summary == summarizeUnits(allUnits')
    <3>1. /\ sent' = sent \cup { Metric("units", st, summary[st]) : st \in DOMAIN summary }
          /\ main = "list" /\ UNCHANGED <<request, at>>
      BY <1>6, <2>2 DEF GetUnits
    <3>2. \A m \in sent' : m.desc \in {"version", "units"}
      BY <1>2, <3>1 DEF Metric
    <3>3. DOMAIN units' \subseteq Nat \ {0}
      BY <1>1 DEF TypeInv, TypeOK
    <3>4. ValuesAreOwn' /\ Reported'
      BY <1>3, <3>1, <3>2, <3>3 DEF Running
    <3>5. StatusEnds'
      BY <2>2
    <3>6. Summarized'
      <4>1. \A m \in sent : m.desc # "units"
        BY <1>2, <3>1
      <4> QED
        BY <2>2, <3>1, <4>1
    <3> QED
      BY <1>1, <3>4, <3>5, <3>6 DEF SentInv
  <2> QED
    BY <1>6, <2>1, <2>2 DEF GetUnits
<1>7. CASE Start
  <2>1. /\ main = "start" /\ main' \in {"state", "wait"}
        /\ UNCHANGED <<allUnits, units, at, sent>>
        /\ request'["status"] = IF 1 <= Len(units) THEN "Type" ELSE "none"
    BY <1>3, <1>7 DEF Start, RequestAt, FirstRequest
  <2> QED
    BY <1>2, <1>3, <2>1 DEF Running
<1>8. CASE CollectSystemState
  <2>1. /\ main = "state" /\ main' = "wait"
        /\ UNCHANGED <<allUnits, units, request, at>>
        /\ sent' \in {sent, sent \cup {Metric("system_running", "", 0)}}
    BY <1>8 DEF CollectSystemState
  <2>2. Metric("system_running", "", 0).desc = "system_running"
    BY DEF Metric
  <2>3. PICK m : m = Metric("system_running", "", 0)
    OBVIOUS
  <2> QED
    BY <1>2, <1>3, <2>1, <2>2, <2>3 DEF Running
<1>9. CASE Wait
  <2>1. /\ main = "wait" /\ main' = "close"
        /\ UNCHANGED <<allUnits, units, request, at, sent>>
        /\ ~Running("status")
    BY <1>3, <1>9 DEF Wait
  <2> QED
    BY <1>2, <1>3, <2>1
<1>10. CASE Close
  BY <1>2, <1>3, <1>10 DEF Close
<1>11. CASE GoroutineNext
  <2>1. /\ UNCHANGED <<main, allUnits, units>>
        /\ main \in {"state", "wait"}
    BY <1>1, <1>11, GoroutineMoves DEF mainVars, TypeInv, IInv, Connected
  <2>2. Reported' /\ StatusEnds'
    BY <1>1, <1>2, <1>11, StatusStep
  <2>3. ValuesAreOwn'
    <3>1. ASSUME NEW m \in sent' \ sent, m.desc # "unit_state"
          PROVE  \/ m.value = m.label
                 \/ /\ m.desc = "unit_start_time_seconds"
                    /\ m.value = ZeroTime
                    /\ \A i \in DOMAIN units : units[i].name = m.label =>
                         units[i].activeState # "active"
      BY <1>1, <1>11, <3>1, GoroutineSends, NamesUnique
    <3> QED
      BY <1>2, <2>1, <3>1
  <2>4. Summarized'
    <3>1. sent \subseteq sent' /\ \A m \in sent' \ sent : m.desc # "units"
      BY <1>1, <1>11, GoroutineSends
    <3> QED
      BY <1>2, <2>1, <3>1
  <2> QED
    BY <1>1, <2>2, <2>3, <2>4 DEF SentInv
<1>12. CASE UNCHANGED vars
  BY <1>2, <1>12 DEF vars, Running
<1> QED
  BY <1>1, <1>4, <1>5, <1>6, <1>7, <1>8, <1>9, <1>10, <1>11, <1>12
     DEF SentInv, Next, Update, GoroutineNext

LEMMA SentInvariant == Spec => []SentInv
  BY InitSent, StepSent, PTL DEF Spec

(***************************************************************************)
(* A metric of a unit carries the value of this very unit, whatever the    *)
(* goroutines interleave and whichever requests fail; a zero start time is *)
(* that of a unit that is not active.                                      *)
(***************************************************************************)
THEOREM OwnValues == Spec => []ValuesAreOwn
<1>1. SentInv => ValuesAreOwn
  BY DEF SentInv
<1> QED
  BY <1>1, SentInvariant, PTL

LEMMA ExposedInv == SentInv => LoadedUnitsExposed
<1> DEFINE L == { m \in sent : m.desc = "unit_state" }
           Loaded == { v \in Range(allUnits) : v.loaded }
           R == UNION { StateMetrics(u) : u \in Loaded }
<1> SUFFICES ASSUME SentInv, main = "returned", allUnits # <<>>
             PROVE  L = R
  BY DEF LoadedUnitsExposed
<1>1. /\ at["status"] = Len(units) + 1 /\ Len(units) \in Nat
      /\ DOMAIN units = 1..Len(units) /\ Reported
  BY DEF SentInv, StatusEnds, TypeInv, TypeOK
<1>2. \A i \in DOMAIN units : StatesSent(i)
  BY <1>1 DEF StatesSent
<1>3. allUnits \in Seq(Units)
  BY EmptyIsSeq, SystemdAssumption DEF SentInv, TypeInv, TypeOK
<1>4. Kept(units, allUnits, DOMAIN allUnits)
  BY <1>3, FilterFacts DEF SentInv, TypeInv, Listed
<1>5. /\ \A i \in DOMAIN units : units[i] \in Loaded
      /\ \A u \in Loaded : \E i \in DOMAIN units : units[i] = u
  BY <1>4 DEF Kept, Range
<1>6. ASSUME NEW m \in L
      PROVE  m \in R
  <2>1. PICK i \in DOMAIN units, st \in unitStatesName : m = StateMetric(units[i], st)
    BY <1>1 DEF Reported
  <2>2. m \in StateMetrics(units[i])
    BY <2>1 DEF StateMetrics, StateMetric
  <2> QED
    BY <1>5, <2>2
<1>7. ASSUME NEW m \in R
      PROVE  m \in L
  <2>1. PICK u \in Loaded : m \in StateMetrics(u)
    OBVIOUS
  <2>2. PICK i \in DOMAIN units : units[i] = u
    BY <1>5
  <2>3. PICK st \in unitStatesName : m = StateMetric(units[i], st)
    BY <2>1, <2>2 DEF StateMetrics, StateMetric
  <2>4. m \in sent
    BY <1>1, <1>2, <2>3 DEF Reported
  <2> QED
    BY <2>3, <2>4 DEF StateMetric, Metric
<1> HIDE DEF L, R
<1> QED
  BY <1>6, <1>7

(***************************************************************************)
(* When Update has returned, the states exposed are those of the loaded    *)
(* units of the list, and of all of them.                                  *)
(***************************************************************************)
THEOREM LoadedExposed == Spec => []LoadedUnitsExposed
  BY ExposedInv, SentInvariant, PTL

-------------------------------------------------------------------------------
(* The summary.                                                              *)

(* The counts of summarizeUnits add up to the length of the list.            *)
LEMMA SummaryTotals ==
  ASSUME NEW U, NEW list \in Seq(U)
  PROVE  /\ summarizeUnits(list) \in [DOMAIN summarizeUnits(list) -> Nat]
         /\ SumOf(summarizeUnits(list)) = Len(list)
<1> DEFINE ActiveStates == { list[i].activeState : i \in DOMAIN list }
           D == unitStatesName \cup ActiveStates
           In(s) == { i \in DOMAIN list : list[i].activeState \in s }
           summary == summarizeUnits(list)
<1>1. Len(list) \in Nat /\ IsFiniteSet(DOMAIN list) /\ Cardinality(DOMAIN list) = Len(list)
  <2>1. Len(list) \in Nat /\ DOMAIN list = 1..Len(list)
    OBVIOUS
  <2> QED
    BY <2>1, FS_Interval
<1>2. IsFiniteSet(D)
  <2>1. IsFiniteSet(unitStatesName)
    <3>1. /\ IsFiniteSet({"active"}) /\ IsFiniteSet({"activating"})
          /\ IsFiniteSet({"deactivating"}) /\ IsFiniteSet({"inactive"})
          /\ IsFiniteSet({"failed"})
      BY FS_Singleton
    <3>2. /\ IsFiniteSet({"active"} \cup {"activating"})
          /\ IsFiniteSet({"deactivating"} \cup {"inactive"})
      BY <3>1, FS_Union
    <3>3. IsFiniteSet({"active"} \cup {"activating"} \cup ({"deactivating"} \cup {"inactive"}))
      BY <3>2, FS_Union
    <3>4. IsFiniteSet({"active"} \cup {"activating"} \cup ({"deactivating"} \cup {"inactive"})
                        \cup {"failed"})
      BY <3>1, <3>3, FS_Union
    <3>5. unitStatesName = {"active"} \cup {"activating"} \cup ({"deactivating"} \cup {"inactive"})
                             \cup {"failed"}
      BY DEF unitStatesName
    <3> QED
      BY <3>4, <3>5
  <2>2. IsFiniteSet(ActiveStates)
    <3> DEFINE f == [i \in DOMAIN list |-> list[i].activeState]
    <3>1. f \in Surjection(DOMAIN list, ActiveStates)
      BY DEF Surjection
    <3> HIDE DEF f
    <3> QED
      BY <1>1, <3>1, FS_Surjection
  <2> HIDE DEF ActiveStates
  <2> QED
    BY <2>1, <2>2, FS_Union
<1>3. \A s : IsFiniteSet(In(s)) /\ Cardinality(In(s)) \in Nat
  BY <1>1, FS_Subset, FS_CardinalityType
<1>4. /\ summary \in [D -> Nat]
      /\ \A st \in D : summary[st] = Cardinality(In({st}))
  <2>1. \A st : In({st}) = { i \in DOMAIN list : list[i].activeState = st }
    OBVIOUS
  <2> HIDE DEF In
  <2> QED
    BY <1>3, <2>1 DEF summarizeUnits
<1> HIDE DEF summary, D
<1>5. PICK it : SumOf(summary) = it[D] /\ Adds(it, summary, D)
  <2>1. summary \in [D -> Int]
    BY <1>4
  <2> QED
    BY <1>2, <2>1, SumUnrolls
<1> DEFINE Q == { s \in SUBSET D : it[s] = Cardinality(In(s)) }
<1>6. {} \in Q
  <2>1. In({}) = {}
    OBVIOUS
  <2> QED
    BY <1>5, <2>1, FS_EmptySet DEF Adds
<1>7. ASSUME NEW s \in SUBSET D, s # {}, \A x \in s : s \ {x} \in Q
      PROVE  s \in Q
  <2> DEFINE x == Some(s)
  <2>1. x \in s /\ it[s] = summary[x] + it[s \ {x}] /\ s \ {x} \in Q
    BY <1>5, <1>7 DEF Adds
  <2>2. In(s) = In({x}) \cup In(s \ {x}) /\ In({x}) \cap In(s \ {x}) = {}
    BY <2>1
  <2> HIDE DEF In, x
  <2>3. Cardinality(In(s)) = Cardinality(In({x})) + Cardinality(In(s \ {x}))
    <3> DEFINE A == In({x})
               B == In(s \ {x})
    <3>1. IsFiniteSet(A) /\ IsFiniteSet(B)
      BY <1>3
    <3>2. Cardinality(A) \in Nat /\ Cardinality(B) \in Nat
      BY <1>3
    <3> HIDE DEF A, B
    <3>3. Cardinality(A \cup B) = Cardinality(A) + Cardinality(B) - Cardinality(A \cap B)
      BY <3>1, FS_Union
    <3>4. A \cap B = {} /\ In(s) = A \cup B
      BY <2>2 DEF A, B
    <3>5. Cardinality(A \cap B) = 0
      BY <3>4, FS_EmptySet
    <3>6. Cardinality(In(s)) = Cardinality(A) + Cardinality(B)
      BY <3>2, <3>3, <3>4, <3>5
    <3> QED
      BY <3>6 DEF A, B
  <2> QED
    BY <1>4, <2>1, <2>3
<1>8. D \in Q
  <2>1. SUBSET D \subseteq Q
    <3> HIDE DEF Q
    <3> QED
      BY <1>2, <1>6, <1>7, SubsetInduction
  <2> QED
    BY <2>1
<1>9. In(D) = DOMAIN list
  BY DEF D
<1> QED
  BY <1>1, <1>4, <1>5, <1>8, <1>9 DEF summary

(* When Update has returned, the summary sent is that of all units.          *)
LEMMA SummaryInv == SentInv => SummaryCountsAll
<1> DEFINE counts == { m \in sent : m.desc = "units" }
           count == [st \in { m.label : m \in counts } |->
                       (CHOOSE m \in counts : m.label = st).value]
           Set(st) == { m \in sent : /\ m.desc = "unit_state"
                                     /\ m.label[2] = st
                                     /\ m.value = 1 }
           summary == summarizeUnits(allUnits)
<1> SUFFICES ASSUME SentInv, main = "returned", allUnits # <<>>
             PROVE  /\ FoldFunction(+, 0, count) = Len(allUnits)
                    /\ \A st \in unitStatesName : count[st] >= Cardinality(Set(st))
  BY DEF SummaryCountsAll
<1>1. Summarized /\ Reported /\ allUnits \in Seq(Units)
  BY EmptyIsSeq, SystemdAssumption DEF SentInv, TypeInv, TypeOK
<1>2. /\ \A m \in counts : m.label \in DOMAIN summary /\ m.value = summary[m.label]
      /\ \A st \in DOMAIN summary : \E m \in counts : m.label = st
  <2> DEFINE SummaryMetric(st) == Metric("units", st, summary[st])
  <2>1. \A st : /\ SummaryMetric(st).desc = "units"
               /\ SummaryMetric(st).label = st
               /\ SummaryMetric(st).value = summary[st]
    BY DEF Metric
  <2>2. /\ \A m \in counts : \E st \in DOMAIN summary : m = SummaryMetric(st)
        /\ \A st \in DOMAIN summary : SummaryMetric(st) \in sent
    BY <1>1 DEF Summarized
  <2> HIDE DEF SummaryMetric, summary
  <2> QED
    BY <2>1, <2>2
<1>3. count = summary
  <2>1. { m.label : m \in counts } = DOMAIN summary
    BY <1>2
  <2>2. ASSUME NEW st \in DOMAIN summary
        PROVE  (CHOOSE m \in counts : m.label = st).value = summary[st]
    BY <1>2
  <2>3. summary = [st \in DOMAIN summary |-> summary[st]]
    BY DEF summarizeUnits
  <2> HIDE DEF summary, counts
  <2> QED
    BY <2>1, <2>2, <2>3
<1>4. FoldFunction(+, 0, count) = Len(allUnits)
  <2>1. SumOf(summary) = Len(allUnits)
    BY <1>1, SummaryTotals
  <2> HIDE DEF count, summary
  <2> QED
    BY <1>3, <2>1 DEF SumOf
<1>5. ASSUME NEW st \in unitStatesName
      PROVE  count[st] >= Cardinality(Set(st))
  <2> DEFINE InState == { i \in DOMAIN allUnits : allUnits[i].activeState = st }
             Sent == { i \in InState : StateMetric(allUnits[i], st) \in sent }
             f == [i \in Sent |-> StateMetric(allUnits[i], st)]
  <2>1. summary[st] = Cardinality(InState)
    BY DEF summarizeUnits
  <2>2. IsFiniteSet(InState)
    <3>1. Len(allUnits) \in Nat /\ DOMAIN allUnits = 1..Len(allUnits)
      BY <1>1
    <3>2. IsFiniteSet(DOMAIN allUnits)
      BY <3>1, FS_Interval
    <3> QED
      BY <3>2, FS_Subset
  <2>3. IsFiniteSet(Sent) /\ Cardinality(Sent) <= Cardinality(InState)
    BY <2>2, FS_Subset
  <2>4. f \in Surjection(Sent, Set(st))
    <3>1. ASSUME NEW i \in Sent
          PROVE  StateMetric(allUnits[i], st) \in Set(st)
      BY DEF StateMetric, Metric
    <3>2. ASSUME NEW m \in Set(st)
          PROVE  \E i \in Sent : StateMetric(allUnits[i], st) = m
      <4>1. PICK i \in DOMAIN units, s \in unitStatesName : m = StateMetric(units[i], s)
        BY <1>1 DEF Reported
      <4>2. s = st /\ units[i].activeState = st
        BY <4>1 DEF StateMetric, Metric
      <4>3. PICK j \in DOMAIN allUnits : units[i] = allUnits[j]
        <5>1. Kept(units, allUnits, DOMAIN allUnits)
          BY <1>1, FilterFacts DEF SentInv, TypeInv, Listed
        <5> QED
          BY <5>1 DEF Kept
      <4> QED
        BY <4>1, <4>2, <4>3
    <3> HIDE DEF Sent, Set
    <3> QED
      BY <3>1, <3>2 DEF Surjection
  <2> HIDE DEF f, Sent, Set, InState
  <2>5. IsFiniteSet(Set(st)) /\ Cardinality(Set(st)) <= Cardinality(Sent)
    BY <2>3, <2>4, FS_Surjection
  <2>6. /\ Cardinality(Set(st)) \in Nat /\ Cardinality(Sent) \in Nat
        /\ Cardinality(InState) \in Nat
    BY <2>2, <2>3, <2>5, FS_CardinalityType
  <2>7. count[st] = Cardinality(InState)
    BY <1>3, <2>1
  <2> QED
    BY <2>3, <2>5, <2>6, <2>7
<1> QED
  BY <1>4, <1>5

(***************************************************************************)
(* The summary counts every unit listed, whether or not it is loaded and   *)
(* whatever its state, and no state has more units exposed than counted.   *)
(***************************************************************************)
THEOREM SummaryComplete == Spec => []SummaryCountsAll
  BY SummaryInv, SentInvariant, PTL

===============================================================================
