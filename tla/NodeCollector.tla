---------------------------- MODULE NodeCollector ----------------------------
(***************************************************************************)
(* The collector of collectors: collector/collector.go, and the registry   *)
(* that calls it.                                                          *)
(*                                                                         *)
(* NewNodeCollector selects collectors by name.  For every HTTP request    *)
(* the registry of client_golang makes a channel, calls Collect, closes    *)
(* the channel when Collect has returned, and drains it meanwhile.         *)
(* Collect runs execute in a goroutine per collector: Update sends its     *)
(* metrics on the channel and returns an error or nil, and two metrics     *)
(* that say so follow.  NodeCollector keeps nothing between calls, so one  *)
(* Gather is modelled.                                                     *)
(***************************************************************************)
EXTENDS Integers, FiniteSets, Sequences

CONSTANTS
  Registered,   \* names given to registerCollector
  Filters,      \* the sets of names NewNodeCollector may be called with
  Metrics,      \* metrics of the collectors, see Metric
  Exposes,      \* per name: the sets of metrics a successful Update may send
  Capacity      \* capacity of the channel the registry makes

(* A metric as the registry tells it from others.                            *)
Metric(family, help, labels) == [family |-> family, help |-> help, labels |-> labels]

(* The families of execute's metrics, which no collector exposes.            *)
ScrapeFamilies == {"scrape_collector_duration_seconds", "scrape_collector_success"}

ASSUME NodeCollectorAssumption ==
  /\ IsFiniteSet(Registered)
  /\ Exposes \in [Registered -> SUBSET SUBSET Metrics]
  /\ \A m \in Metrics : m.family \notin ScrapeFamilies
  /\ Capacity \in Nat \ {0}

VARIABLES
  filters,      \* the argument of NewNodeCollector
  new,          \* what came of NewNodeCollector
  collectors,   \* the names in NodeCollector.collectors
  pc,           \* control point of execute, per collector
  unsent,       \* metrics Update has still to send
  err,          \* whether Update returned an error
  ch,           \* the channel: the values in it
  gather,       \* control point of Gather
  accepted,     \* the values in the metric families of Gather
  rejected      \* whether Gather found an inconsistent value

vars == <<filters, new, collectors, pc, unsent, err, ch, gather, accepted, rejected>>

ExecuteStates == {"none", "update", "duration", "success", "done"}
GatherStates == {"idle", "collecting", "closed", "returned"}

-------------------------------------------------------------------------------
(* Metrics named in this model.                                              *)

(* The two metrics of execute.                                               *)
Duration(name) == Metric("scrape_collector_duration_seconds", "duration", name)
Success(name) == Metric("scrape_collector_success", "success", name)

(* The two collectors that expose node_cpu_frequency_hertz, for a processor. *)
CPUFrequency(cpu) == Metric("cpu_frequency_hertz", "from /proc/cpuinfo", <<"package", "core", cpu>>)
CPUFreqHertz(cpu) == Metric("cpu_frequency_hertz", "thread frequency", <<cpu>>)

(* What travels on the channel: a metric and its value, 0 where no property  *)
(* is about it.                                                              *)
Value(m, v) == [metric |-> m, value |-> v]

(* The registry rejects a metric whose family it knows with another help     *)
(* string, and one whose family and label values it has already.             *)
Clash(m, n) ==
  /\ m.family = n.family
  /\ m.help # n.help \/ m.labels = n.labels

-------------------------------------------------------------------------------
Init ==
  /\ filters \in Filters
  /\ new = "none"
  /\ collectors = {}
  /\ pc = [c \in Registered |-> "none"]
  /\ unsent = [c \in Registered |-> {}]
  /\ err = [c \in Registered |-> FALSE]
  /\ ch = <<>>
  /\ gather = "idle"
  /\ accepted = {}
  /\ rejected = FALSE

(* The names NewNodeCollector keeps: all of them when there is no filter.    *)
Selected == IF filters = {} THEN Registered ELSE Registered \cap filters

(* Mutant: the filters are taken as they are. *)
NewKeepingUnknown ==
  /\ new = "none"
  /\ new' = "ok"
  /\ collectors' = IF filters = {} THEN Registered ELSE filters
  /\ UNCHANGED <<filters, pc, unsent, err, ch, gather, accepted, rejected>>

(* NewNodeCollector: every filter is registered, and every factory returns   *)
(* a collector.                                                              *)
New ==
  /\ new = "none"
  /\ filters \subseteq Registered
  /\ new' = "ok"
  /\ collectors' = Selected
  /\ UNCHANGED <<filters, pc, unsent, err, ch, gather, accepted, rejected>>

(* NewNodeCollector returns an error: a filter is not registered, or the     *)
(* factory of a selected collector failed.                                   *)
NewFails ==
  /\ new = "none"
  /\ ~(filters \subseteq Registered) \/ Selected # {}
  /\ new' = "error"
  /\ UNCHANGED <<filters, collectors, pc, unsent, err, ch, gather, accepted, rejected>>

-------------------------------------------------------------------------------
(* Gather calls Collect, which starts a goroutine per collector.             *)
Collect ==
  /\ new = "ok"
  /\ gather = "idle"
  /\ gather' = "collecting"
  /\ pc' = [c \in Registered |-> IF c \in collectors THEN "update" ELSE "none"]
  /\ unsent' \in [Registered -> SUBSET Metrics]
  /\ \A c \in Registered :
       unsent'[c] \in IF c \in collectors THEN Exposes[c] ELSE {{}}
  /\ UNCHANGED <<filters, new, collectors, err, ch, accepted, rejected>>

Send(v) ==
  /\ Len(ch) < Capacity
  /\ ch' = Append(ch, v)

(* Update sends one of its metrics.                                          *)
UpdateSends(c) ==
  /\ pc[c] = "update"
  /\ \E m \in unsent[c] :
       /\ Send(Value(m, 0))
       /\ unsent' = [unsent EXCEPT ![c] = @ \ {m}]
  /\ UNCHANGED <<filters, new, collectors, pc, err, gather, accepted, rejected>>

(* Mutant: execute returns when Update fails. *)
UpdateReturnsAtError(c) ==
  /\ pc[c] = "update"
  /\ \/ /\ unsent[c] = {}
        /\ pc' = [pc EXCEPT ![c] = "duration"]
        /\ UNCHANGED <<unsent, err>>
     \/ /\ unsent' = [unsent EXCEPT ![c] = {}]
        /\ err' = [err EXCEPT ![c] = TRUE]
        /\ pc' = [pc EXCEPT ![c] = "done"]
  /\ UNCHANGED <<filters, new, collectors, ch, gather, accepted, rejected>>

(* Update returns: nil when it has sent everything, or an error whenever it  *)
(* met one; what it sent before stays sent.                                  *)
UpdateReturns(c) ==
  /\ pc[c] = "update"
  /\ pc' = [pc EXCEPT ![c] = "duration"]
  /\ \/ /\ unsent[c] = {}
        /\ UNCHANGED <<unsent, err>>
     \/ /\ unsent' = [unsent EXCEPT ![c] = {}]
        /\ err' = [err EXCEPT ![c] = TRUE]
  /\ UNCHANGED <<filters, new, collectors, ch, gather, accepted, rejected>>

(* Mutant: every goroutine reports under one name, that of the last          *)
(* iteration of the loop. *)
SendDurationShared(c) ==
  /\ pc[c] = "duration"
  /\ Send(Value(Duration(CHOOSE d \in collectors : TRUE), 0))
  /\ pc' = [pc EXCEPT ![c] = "success"]
  /\ UNCHANGED <<filters, new, collectors, unsent, err, gather, accepted, rejected>>

SendDuration(c) ==
  /\ pc[c] = "duration"
  /\ Send(Value(Duration(c), 0))
  /\ pc' = [pc EXCEPT ![c] = "success"]
  /\ UNCHANGED <<filters, new, collectors, unsent, err, gather, accepted, rejected>>

(* Mutant: a collector that failed does not reach wg.Done(). *)
SendSuccessNoDone(c) ==
  /\ pc[c] = "success"
  /\ Send(Value(Success(c), IF err[c] THEN 0 ELSE 1))
  /\ pc' = [pc EXCEPT ![c] = IF err[c] THEN "none" ELSE "done"]
  /\ UNCHANGED <<filters, new, collectors, unsent, err, gather, accepted, rejected>>

(* The last send of execute, and wg.Done().                                  *)
SendSuccess(c) ==
  /\ pc[c] = "success"
  /\ Send(Value(Success(c), IF err[c] THEN 0 ELSE 1))
  /\ pc' = [pc EXCEPT ![c] = "done"]
  /\ UNCHANGED <<filters, new, collectors, unsent, err, gather, accepted, rejected>>

(* Mutant: Collect returns without wg.Wait(). *)
CollectReturnsAtOnce ==
  /\ gather = "collecting"
  /\ gather' = "closed"
  /\ UNCHANGED <<filters, new, collectors, pc, unsent, err, ch, accepted, rejected>>

(* wg.Wait(): Collect returns, and Gather closes the channel.                *)
CollectReturns ==
  /\ gather = "collecting"
  /\ \A c \in collectors : pc[c] = "done"
  /\ gather' = "closed"
  /\ UNCHANGED <<filters, new, collectors, pc, unsent, err, ch, accepted, rejected>>

-------------------------------------------------------------------------------
(* Gather receives values until the channel is closed and empty.             *)
Receive ==
  /\ gather \in {"collecting", "closed"}
  /\ ch # <<>>
  /\ ch' = Tail(ch)
  /\ IF \E v \in accepted : Clash(v.metric, Head(ch).metric)
     THEN rejected' = TRUE /\ UNCHANGED accepted
     ELSE accepted' = accepted \cup {Head(ch)} /\ UNCHANGED rejected
  /\ UNCHANGED <<filters, new, collectors, pc, unsent, err, gather>>

GatherReturns ==
  /\ gather = "closed"
  /\ ch = <<>>
  /\ gather' = "returned"
  /\ UNCHANGED <<filters, new, collectors, pc, unsent, err, ch, accepted, rejected>>

-------------------------------------------------------------------------------
Execute(c) ==
  UpdateSends(c) \/ UpdateReturns(c) \/ SendDuration(c) \/ SendSuccess(c)

Registry == CollectReturns \/ Receive \/ GatherReturns

Next ==
  \/ New \/ NewFails \/ Collect
  \/ \E c \in Registered : Execute(c)
  \/ Registry

Spec == Init /\ [][Next]_vars

(***************************************************************************)
(* Fairness.  The goroutines and the registry run, and every Update        *)
(* returns: that is for the collectors to see to.                          *)
(***************************************************************************)
FairSpec ==
  /\ Spec
  /\ WF_vars(Registry)
  /\ \A c \in Registered : WF_vars(Execute(c))

-------------------------------------------------------------------------------
(* Properties.                                                               *)

AllMetrics ==
  Metrics \cup { Duration(c) : c \in Registered } \cup { Success(c) : c \in Registered }
Values == { Value(m, v) : m \in AllMetrics, v \in {0, 1} }

TypeOK ==
  /\ filters \in Filters
  /\ new \in {"none", "ok", "error"}
  /\ collectors \in SUBSET Registered
  /\ pc \in [Registered -> ExecuteStates]
  /\ unsent \in [Registered -> SUBSET Metrics]
  /\ err \in [Registered -> BOOLEAN]
  /\ ch \in Seq(Values) /\ Len(ch) <= Capacity
  /\ gather \in GatherStates
  /\ accepted \in SUBSET Values
  /\ rejected \in BOOLEAN

(***************************************************************************)
(* The channel is closed only when no goroutine of Collect will send on it *)
(* any more: a send on a closed channel panics.                            *)
(***************************************************************************)
NoSendAfterCollect ==
  gather \in {"closed", "returned"} => \A c \in Registered : pc[c] \in {"none", "done"}

(* The names the caller asked for, all of them when it named none.           *)
Asked == IF filters = {} THEN Registered ELSE filters

(***************************************************************************)
(* A scrape tells of every collector that was asked for, and of no other,  *)
(* exactly once whether it succeeded and how long it took, and it tells    *)
(* the truth: also of a collector that failed half way, and whatever the   *)
(* registry rejected.                                                      *)
(***************************************************************************)
EveryCollectorReports ==
  gather = "returned" =>
    \A c \in Asked \cup Registered :
      /\ { v \in accepted : v.metric = Success(c) } =
           IF c \in Asked THEN {Value(Success(c), IF err[c] THEN 0 ELSE 1)} ELSE {}
      /\ { v \in accepted : v.metric = Duration(c) } =
           IF c \in Asked THEN {Value(Duration(c), 0)} ELSE {}

(* How the Update of a collector ended, and what Gather has been told of it. *)
Outcomes ==
  [c \in Registered |->
    CASE pc[c] = "none" -> "none"
      [] pc[c] = "update" -> "running"
      [] OTHER -> IF err[c] THEN "failed" ELSE "ok"]

Told ==
  { <<c, "ok">> : c \in { d \in Registered : Value(Success(d), 1) \in accepted } }
  \cup { <<c, "failed">> : c \in { d \in Registered : Value(Success(d), 0) \in accepted } }

Scrape == INSTANCE ScrapeReports WITH
            Collectors <- Registered,
            outcome <- Outcomes,
            reports <- Told,
            answer <- IF gather = "returned" THEN "given" ELSE "awaited"

(***************************************************************************)
(* NodeCollector implements the promise of a scrape: no collector is       *)
(* reported before its Update has returned, in another way than it did, or *)
(* twice, and the result is not returned while a report is missing.        *)
(***************************************************************************)
ImplementsReports == Scrape!ReportsSpec

(* No two metrics of the collectors clash, and each is of one collector.     *)
NoClash ==
  /\ \A m, n \in Metrics : m # n => ~Clash(m, n)
  /\ \A c, d \in Registered :
       c # d => \A s \in Exposes[c], t \in Exposes[d] : s \cap t = {}

(***************************************************************************)
(* What one collector does never costs another its metrics: unless metrics *)
(* of the collectors themselves clash, Gather rejects nothing, and what is *)
(* missing was not sent by a collector that reports a failure.             *)
(***************************************************************************)
NothingLost ==
  gather = "returned" /\ NoClash =>
    /\ ~rejected
    /\ \A c \in collectors :
         ~err[c] => \E sent \in Exposes[c] : \A m \in sent : Value(m, 0) \in accepted

(***************************************************************************)
(* "By default, it gathers all metrics": with no filter, a scrape in which *)
(* every collector succeeds is one that Gather returns without an error.   *)
(***************************************************************************)
GathersByDefault ==
  gather = "returned" /\ filters = {} /\ (\A c \in Registered : ~err[c]) => ~rejected

(***************************************************************************)
(* When every Update returns, so does Gather: the channel being full never *)
(* keeps it from the end, and no failure of a collector does.              *)
(***************************************************************************)
GatherEnds == gather = "collecting" ~> gather = "returned"
===============================================================================
