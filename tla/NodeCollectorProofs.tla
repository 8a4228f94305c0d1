-------------------------- MODULE NodeCollectorProofs --------------------------
(***************************************************************************)
(* Proofs about the collector of collectors, for any set of collectors,    *)
(* any metrics they send and a channel of any capacity.                    *)
(***************************************************************************)
EXTENDS NodeCollector, TLAPS

(* What Collect and the registry agree on before anything is sent.           *)
Lifecycle ==
  /\ new = "ok" => filters \subseteq Registered /\ collectors = Selected
  /\ new # "ok" => gather = "idle"
  /\ gather = "idle" => ch = <<>> /\ accepted = {} /\ ~rejected
  /\ gather = "returned" => ch = <<>>
  /\ \A c \in Registered :
       /\ pc[c] # "none" <=> gather # "idle" /\ c \in collectors
       /\ pc[c] \in {"none", "update"} => ~err[c]
       /\ pc[c] # "update" => unsent[c] = {}

(* The values sent so far and not rejected: those that Gather has taken and  *)
(* those that are in the channel.                                            *)
Within(v, queue, taken) == v \in taken \/ \E i \in 1..Len(queue) : queue[i] = v

(* Values the registry may reject: metrics of the collectors, if they clash. *)
MayClash(v) == v.metric \in Metrics /\ ~NoClash

(* No value is twice in the channel, or in the channel and taken, unless it  *)
(* may clash.                                                                *)
AtMostOnce(queue, taken) ==
  /\ \A i, j \in 1..Len(queue) : i # j /\ queue[i] = queue[j] => MayClash(queue[i])
  /\ \A i \in 1..Len(queue) : queue[i] \in taken => MayClash(queue[i])

Outcome(c) == Value(Success(c), IF err[c] THEN 0 ELSE 1)
Timing(c) == Value(Duration(c), 0)

(* Values are metrics of the collectors, or come from an execute that has    *)
(* come so far.                                                              *)
SentByExecute ==
  \A v \in Values : Within(v, ch, accepted) =>
    \/ v.metric \in Metrics /\ v.value = 0
    \/ \E c \in Registered : v = Timing(c) /\ pc[c] \in {"success", "done"}
    \/ \E c \in Registered : v = Outcome(c) /\ pc[c] = "done"

Reported ==
  \A c \in Registered :
    /\ pc[c] \in {"success", "done"} => Within(Timing(c), ch, accepted)
    /\ pc[c] = "done" => Within(Outcome(c), ch, accepted)

(* What a collector has not sent yet nobody has sent, and what it has sent   *)
(* is not lost.                                                              *)
Exposed(c) ==
  /\ \A m \in unsent[c] : ~Within(Value(m, 0), ch, accepted)
  /\ gather # "idle" /\ c \in collectors =>
       \E s \in Exposes[c] :
         /\ unsent[c] \subseteq s
         /\ ~err[c] => \A m \in s \ unsent[c] : Within(Value(m, 0), ch, accepted)

AllExposed == NoClash => ~rejected /\ \A c \in Registered : Exposed(c)

IInv ==
  /\ TypeOK
  /\ NoSendAfterCollect
  /\ Lifecycle
  /\ AtMostOnce(ch, accepted)
  /\ SentByExecute
  /\ Reported
  /\ AllExposed

-------------------------------------------------------------------------------
(* Types.                                                                    *)

LEMMA InitType == Init => TypeOK
<1> SUFFICES ASSUME Init PROVE TypeOK
  OBVIOUS
<1>1. ch \in Seq(Values) /\ Len(ch) <= Capacity
  BY NodeCollectorAssumption DEF Init
<1> QED
  BY <1>1 DEF Init, TypeOK, ExecuteStates, GatherStates

LEMMA ValuesSent ==
  /\ \A m \in Metrics : Value(m, 0) \in Values
  /\ \A c \in Registered, v \in {0, 1} :
       Value(Duration(c), v) \in Values /\ Value(Success(c), v) \in Values
<1>1. /\ Metrics \subseteq AllMetrics
      /\ \A c \in Registered : Duration(c) \in AllMetrics /\ Success(c) \in AllMetrics
  BY DEF AllMetrics
<1>2. \A m \in AllMetrics, v \in {0, 1} : Value(m, v) \in Values
  BY DEF Values
<1> QED
  BY <1>1, <1>2

LEMMA StepType == TypeOK /\ [Next]_vars => TypeOK'
<1> SUFFICES ASSUME TypeOK, [Next]_vars PROVE TypeOK'
  OBVIOUS
<1> USE DEF TypeOK, ExecuteStates, GatherStates
<1>v. /\ \A m \in Metrics : Value(m, 0) \in Values
      /\ \A c \in Registered : /\ Value(Duration(c), 0) \in Values
                               /\ Value(Success(c), IF err[c] THEN 0 ELSE 1) \in Values
  BY ValuesSent
<1>1. CASE New
  BY <1>1 DEF New, Selected
<1>2. CASE NewFails
  BY <1>2 DEF NewFails
<1>3. CASE Collect
  BY <1>3 DEF Collect
<1>4. ASSUME NEW c \in Registered, Execute(c)
      PROVE  TypeOK'
  <2>1. CASE UpdateSends(c)
    <3>1. PICK m \in unsent[c] : Send(Value(m, 0)) /\ unsent' = [unsent EXCEPT ![c] = @ \ {m}]
      BY <2>1 DEF UpdateSends
    <3>2. ch' \in Seq(Values) /\ Len(ch') <= Capacity
      BY <1>v, <3>1, NodeCollectorAssumption DEF Send
    <3> QED
      BY <2>1, <3>1, <3>2 DEF UpdateSends
  <2>2. CASE UpdateReturns(c)
    BY <2>2 DEF UpdateReturns
  <2>3. CASE SendDuration(c)
    <3>1. ch' \in Seq(Values) /\ Len(ch') <= Capacity
      BY <1>v, <2>3, NodeCollectorAssumption DEF SendDuration, Send
    <3> QED
      BY <2>3, <3>1 DEF SendDuration
  <2>4. CASE SendSuccess(c)
    <3>1. ch' \in Seq(Values) /\ Len(ch') <= Capacity
      BY <1>v, <2>4, NodeCollectorAssumption DEF SendSuccess, Send
    <3> QED
      BY <2>4, <3>1 DEF SendSuccess
  <2> QED
    BY <1>4, <2>1, <2>2, <2>3, <2>4 DEF Execute
<1>5. CASE CollectReturns
  BY <1>5 DEF CollectReturns
<1>6. CASE Receive
  <2>1. /\ Head(ch) \in Values
        /\ ch' \in Seq(Values) /\ Len(ch') <= Capacity
    BY <1>6, NodeCollectorAssumption DEF Receive
  <2> QED
    BY <1>6, <2>1 DEF Receive
<1>7. CASE GatherReturns
  BY <1>7 DEF GatherReturns
<1>8. CASE UNCHANGED vars
  BY <1>8 DEF vars
<1> QED
  BY <1>1, <1>2, <1>3, <1>4, <1>5, <1>6, <1>7, <1>8 DEF Next, Registry

-------------------------------------------------------------------------------
(* The channel.                                                              *)

LEMMA AppendWithin ==
  ASSUME NEW queue \in Seq(Values), NEW taken, NEW v \in Values, NEW w
  PROVE  Within(w, Append(queue, v), taken) <=> Within(w, queue, taken) \/ w = v
<1>1. /\ Len(Append(queue, v)) = Len(queue) + 1
      /\ Append(queue, v)[Len(queue) + 1] = v
      /\ \A i \in 1..Len(queue) : Append(queue, v)[i] = queue[i]
  OBVIOUS
<1>2. Len(queue) \in Nat
  OBVIOUS
<1> QED
  BY <1>1, <1>2 DEF Within

LEMMA AppendAtMostOnce ==
  ASSUME NEW queue \in Seq(Values), NEW taken, NEW v \in Values,
         AtMostOnce(queue, taken), Within(v, queue, taken) => MayClash(v)
  PROVE  AtMostOnce(Append(queue, v), taken)
<1>1. /\ Len(Append(queue, v)) = Len(queue) + 1
      /\ Append(queue, v)[Len(queue) + 1] = v
      /\ \A i \in 1..Len(queue) : Append(queue, v)[i] = queue[i]
  OBVIOUS
<1>2. Len(queue) \in Nat
  OBVIOUS
<1> QED
  BY <1>1, <1>2 DEF AtMostOnce, Within

LEMMA HeadAndTail ==
  ASSUME NEW queue \in Seq(Values), queue # <<>>
  PROVE  /\ Head(queue) = queue[1] /\ Len(queue) \in Nat \ {0}
         /\ Len(Tail(queue)) = Len(queue) - 1
         /\ \A i \in 1..Len(queue) - 1 : Tail(queue)[i] = queue[i + 1]
  OBVIOUS

LEMMA TailWithin ==
  ASSUME NEW queue \in Seq(Values), NEW taken, queue # <<>>, NEW w
  PROVE  Within(w, queue, taken) <=> Within(w, Tail(queue), taken \cup {Head(queue)})
<1> USE HeadAndTail
<1>1. \A i \in 1..Len(queue) : i = 1 \/ i - 1 \in 1..Len(queue) - 1
  OBVIOUS
<1>2. \A i \in 1..Len(queue) - 1 : i + 1 \in 1..Len(queue)
  OBVIOUS
<1>3. \A i \in 1..Len(queue) : queue[i] = Head(queue) \/ queue[i] = Tail(queue)[i - 1]
  BY <1>1
<1>4. ASSUME NEW i \in 1..Len(queue), queue[i] = w
      PROVE  Within(w, Tail(queue), taken \cup {Head(queue)})
  BY <1>1, <1>3, <1>4 DEF Within
<1>5. ASSUME NEW i \in 1..Len(queue) - 1, Tail(queue)[i] = w
      PROVE  Within(w, queue, taken)
  BY <1>2, <1>5 DEF Within
<1>6. w = Head(queue) => Within(w, queue, taken)
  BY DEF Within
<1>7. Len(Tail(queue)) = Len(queue) - 1
  OBVIOUS
<1> QED
  BY <1>4, <1>5, <1>6, <1>7 DEF Within

LEMMA TailAtMostOnce ==
  ASSUME NEW queue \in Seq(Values), NEW taken, queue # <<>>, AtMostOnce(queue, taken)
  PROVE  /\ AtMostOnce(Tail(queue), taken)
         /\ AtMostOnce(Tail(queue), taken \cup {Head(queue)})
         /\ Head(queue) \in taken => MayClash(Head(queue))
<1> USE HeadAndTail
<1>1. \A i \in 1..Len(queue) - 1 : i + 1 \in 1..Len(queue) /\ i + 1 # 1
  OBVIOUS
<1>2. 1 \in 1..Len(queue)
  OBVIOUS
<1>3. \A i, j \in 1..Len(queue) - 1 : i # j => i + 1 # j + 1
  OBVIOUS
<1> QED
  BY <1>1, <1>2, <1>3 DEF AtMostOnce

-------------------------------------------------------------------------------
(* The metrics of execute are told from each other and from all others.      *)

LEMMA ScrapeMetrics ==
  /\ \A c \in Registered : Timing(c).metric \notin Metrics /\ Outcome(c).metric \notin Metrics
  /\ \A c, d \in Registered : /\ Timing(c).metric # Success(d)
                              /\ Outcome(c).metric # Duration(d)
                              /\ Timing(c).metric = Duration(d) => c = d
                              /\ Outcome(c).metric = Success(d) => c = d
  BY NodeCollectorAssumption
     DEF Timing, Outcome, Value, Duration, Success, Metric, ScrapeFamilies

LEMMA ClashOfScrapes ==
  ASSUME NEW c \in Registered, NEW v \in Values, SentByExecute, Within(v, ch, accepted)
  PROVE  /\ Clash(v.metric, Duration(c)) => v = Timing(c)
         /\ Clash(v.metric, Success(c)) => v = Outcome(c)
<1>1. CASE v.metric \in Metrics
  BY <1>1, NodeCollectorAssumption DEF Clash, Duration, Success, Metric, ScrapeFamilies
<1>2. ASSUME NEW d \in Registered, v = Timing(d)
      PROVE  /\ Clash(v.metric, Duration(c)) => v = Timing(c)
             /\ Clash(v.metric, Success(c)) => v = Outcome(c)
  BY <1>2 DEF Clash, Timing, Value, Duration, Success, Metric
<1>3. ASSUME NEW d \in Registered, v = Outcome(d)
      PROVE  /\ Clash(v.metric, Duration(c)) => v = Timing(c)
             /\ Clash(v.metric, Success(c)) => v = Outcome(c)
  BY <1>3 DEF Clash, Outcome, Value, Duration, Success, Metric
<1> QED
  BY <1>1, <1>2, <1>3 DEF SentByExecute

-------------------------------------------------------------------------------
(* The steps.                                                                *)

LEMMA InitInv == Init => IInv
<1> SUFFICES ASSUME Init PROVE IInv
  OBVIOUS
<1>1. TypeOK
  BY InitType
<1>2. Len(ch) = 0 /\ accepted = {} /\ \A v : ~Within(v, ch, accepted)
  BY DEF Init, Within
<1>3. NoSendAfterCollect /\ Lifecycle
  BY DEF Init, NoSendAfterCollect, Lifecycle
<1>4. AtMostOnce(ch, accepted)
  BY <1>2 DEF AtMostOnce
<1>5. SentByExecute /\ Reported /\ AllExposed
  BY <1>2 DEF Init, SentByExecute, Reported, AllExposed, Exposed
<1> QED
  BY <1>1, <1>3, <1>4, <1>5 DEF IInv

(* A step that leaves the channel and what Gather has taken alone.           *)
LEMMA QuietStep ==
  ASSUME IInv, TypeOK',
         New \/ NewFails \/ CollectReturns \/ GatherReturns \/ UNCHANGED vars
  PROVE  IInv'
<1> USE DEF IInv
<1>1. /\ ch' = ch /\ accepted' = accepted /\ rejected' = rejected /\ pc' = pc
      /\ unsent' = unsent /\ err' = err
  BY DEF New, NewFails, CollectReturns, GatherReturns, vars
<1>2. NoSendAfterCollect'
  BY <1>1 DEF NoSendAfterCollect, Lifecycle, New, NewFails, CollectReturns, GatherReturns, vars
<1>3. Lifecycle'
  BY <1>1 DEF TypeOK, Lifecycle, Selected, New, NewFails, CollectReturns, GatherReturns, vars
<1>4. AtMostOnce(ch, accepted)' /\ SentByExecute' /\ Reported'
  BY <1>1 DEF AtMostOnce, SentByExecute, Reported, Within, Timing, Outcome, MayClash
<1>5. gather' # "idle" => gather # "idle" /\ collectors' = collectors
  BY DEF Lifecycle, New, NewFails, CollectReturns, GatherReturns, vars
<1>6. AllExposed'
  BY <1>1, <1>5 DEF AllExposed, Exposed, Within
<1> QED
  BY <1>2, <1>3, <1>4, <1>6

LEMMA CollectStep ==
  ASSUME IInv, TypeOK', Collect
  PROVE  IInv'
<1> USE DEF IInv
<1>1. /\ gather = "idle" /\ gather' = "collecting" /\ new = "ok"
      /\ ch' = ch /\ ch = <<>> /\ accepted' = accepted /\ accepted = {}
      /\ rejected' = rejected /\ ~rejected /\ err' = err
      /\ UNCHANGED <<filters, new, collectors>>
  BY DEF Collect, Lifecycle
<1>2. \A v : ~Within(v, ch', accepted')
  BY <1>1 DEF Within
<1>3. \A c \in Registered : /\ pc'[c] = IF c \in collectors THEN "update" ELSE "none"
                            /\ unsent'[c] \in IF c \in collectors THEN Exposes[c] ELSE {{}}
                            /\ ~err[c]
  BY DEF Collect, Lifecycle
<1>4. NoSendAfterCollect'
  BY <1>1 DEF NoSendAfterCollect
<1>5. Lifecycle'
  BY <1>1, <1>3 DEF Lifecycle, Selected
<1>6. AtMostOnce(ch, accepted)'
  BY <1>1 DEF AtMostOnce
<1>7. SentByExecute' /\ Reported'
  BY <1>2, <1>3 DEF SentByExecute, Reported
<1>8. AllExposed'
  BY <1>1, <1>2, <1>3 DEF AllExposed, Exposed
<1> QED
  BY <1>4, <1>5, <1>6, <1>7, <1>8

LEMMA UpdateReturnsStep ==
  ASSUME IInv, TypeOK', NEW c \in Registered, UpdateReturns(c)
  PROVE  IInv'
<1> USE DEF IInv
<1>1. /\ ch' = ch /\ accepted' = accepted /\ rejected' = rejected
      /\ gather' = gather /\ collectors' = collectors /\ new' = new /\ filters' = filters
      /\ pc[c] = "update" /\ pc'[c] = "duration"
      /\ \A d \in Registered \ {c} : pc'[d] = pc[d] /\ unsent'[d] = unsent[d] /\ err'[d] = err[d]
      /\ unsent'[c] = {} /\ (~err'[c] => unsent[c] = {} /\ ~err[c])
  BY DEF UpdateReturns, TypeOK
<1>2. NoSendAfterCollect'
  BY <1>1 DEF NoSendAfterCollect
<1>3. Lifecycle'
  BY <1>1 DEF Lifecycle, Selected
<1>4. AtMostOnce(ch, accepted)'
  BY <1>1 DEF AtMostOnce, MayClash
<1>5. SentByExecute' /\ Reported'
  BY <1>1 DEF SentByExecute, Reported, Within, Timing, Outcome
<1>6. AllExposed'
  BY <1>1 DEF AllExposed, Exposed, Within
<1> QED
  BY <1>2, <1>3, <1>4, <1>5, <1>6

LEMMA UpdateSendsStep ==
  ASSUME IInv, TypeOK', NEW c \in Registered, UpdateSends(c)
  PROVE  IInv'
<1> USE DEF IInv
<1>1. PICK m \in unsent[c] : ch' = Append(ch, Value(m, 0)) /\ unsent' = [unsent EXCEPT ![c] = @ \ {m}]
  BY DEF UpdateSends, Send
<1>2. /\ accepted' = accepted /\ rejected' = rejected /\ pc' = pc /\ err' = err
      /\ gather' = gather /\ collectors' = collectors /\ new' = new /\ filters' = filters
      /\ pc[c] = "update"
  BY DEF UpdateSends
<1>3. m \in Metrics /\ Value(m, 0) \in Values /\ ch \in Seq(Values)
  BY ValuesSent DEF TypeOK
<1>4. \A w : Within(w, ch', accepted') <=> Within(w, ch, accepted) \/ w = Value(m, 0)
  BY <1>1, <1>2, <1>3, AppendWithin
<1>5. unsent'[c] = unsent[c] \ {m} /\ \A d \in Registered \ {c} : unsent'[d] = unsent[d]
  BY <1>1 DEF TypeOK
<1>6. gather = "collecting"
  BY <1>2 DEF NoSendAfterCollect, Lifecycle, TypeOK, GatherStates
<1>7. NoSendAfterCollect'
  BY <1>2 DEF NoSendAfterCollect
<1>8. Lifecycle'
  BY <1>2, <1>5, <1>6 DEF Lifecycle, Selected
<1>9. AtMostOnce(ch, accepted)'
  <2>1. Within(Value(m, 0), ch, accepted) => MayClash(Value(m, 0))
    BY <1>3 DEF MayClash, AllExposed, Exposed, Value
  <2>2. AtMostOnce(ch', accepted')
    BY <1>1, <1>2, <1>3, <2>1, AppendAtMostOnce
  <2> QED
    BY <2>2 DEF AtMostOnce, MayClash
<1>10. SentByExecute'
  <2>1. \A w \in Values : Within(w, ch', accepted') =>
           \/ w.metric \in Metrics /\ w.value = 0
           \/ \E d \in Registered : w = Timing(d) /\ pc[d] \in {"success", "done"}
           \/ \E d \in Registered : w = Outcome(d) /\ pc[d] = "done"
    BY <1>3, <1>4 DEF SentByExecute, Value
  <2> QED
    BY <1>2, <2>1 DEF SentByExecute, Within, Outcome, Timing
<1>11. Reported'
  <2>1. \A d \in Registered :
          /\ pc[d] \in {"success", "done"} => Within(Timing(d), ch', accepted')
          /\ pc[d] = "done" => Within(Outcome(d), ch', accepted')
    BY <1>4 DEF Reported
  <2> QED
    BY <1>2, <2>1 DEF Reported, Within, Outcome, Timing
<1>12. AllExposed'
  <2> SUFFICES ASSUME NoClash, NEW d \in Registered PROVE Exposed(d)' /\ ~rejected'
    BY DEF AllExposed
  <2>1. ~rejected' /\ Exposed(c) /\ Exposed(d)
    BY <1>2 DEF AllExposed
  <2>2. ASSUME NEW n \in unsent'[d] PROVE n # m
    <3>1. CASE d = c
      BY <3>1, <1>5
    <3>2. CASE d # c
      <4>1. n \in unsent[d] /\ pc[d] = "update"
        BY <3>2, <1>5 DEF Lifecycle
      <4>2. c \in collectors /\ d \in collectors
        BY <4>1, <1>2 DEF Lifecycle
      <4>3. PICK s \in Exposes[c] : unsent[c] \subseteq s
        BY <2>1, <1>6, <4>2 DEF Exposed
      <4>4. PICK t \in Exposes[d] : unsent[d] \subseteq t
        BY <2>1, <1>6, <4>2 DEF Exposed
      <4> QED
        BY <3>2, <4>1, <4>3, <4>4 DEF NoClash
    <3> QED
      BY <3>1, <3>2
  <2>3. \A n \in unsent'[d] : ~Within(Value(n, 0), ch', accepted')
    <3>1. \A n \in unsent'[d] : n \in unsent[d] /\ Value(n, 0) # Value(m, 0)
      BY <2>2, <1>5 DEF Value
    <3> QED
      BY <3>1, <2>1, <1>4 DEF Exposed
  <2>4. d \in collectors =>
          \E s \in Exposes[d] :
            /\ unsent'[d] \subseteq s
            /\ ~err[d] => \A n \in s \ unsent'[d] : Within(Value(n, 0), ch', accepted')
    BY <2>1, <1>4, <1>5, <1>6 DEF Exposed
  <2> QED
    BY <2>1, <2>3, <2>4, <1>2 DEF Exposed, Within
<1> QED
  BY <1>7, <1>8, <1>9, <1>10, <1>11, <1>12

(* The two metrics of execute, of which the second comes last.               *)
LEMMA ReportStep ==
  ASSUME IInv, TypeOK', NEW c \in Registered, SendDuration(c) \/ SendSuccess(c)
  PROVE  IInv'
<1> USE DEF IInv
<1> DEFINE v == IF pc[c] = "duration" THEN Timing(c) ELSE Outcome(c)
<1>1. /\ accepted' = accepted /\ rejected' = rejected /\ err' = err /\ unsent' = unsent
      /\ gather' = gather /\ collectors' = collectors /\ new' = new /\ filters' = filters
      /\ \/ pc[c] = "duration" /\ pc'[c] = "success" /\ v = Timing(c)
         \/ pc[c] = "success" /\ pc'[c] = "done" /\ v = Outcome(c)
      /\ \A d \in Registered \ {c} : pc'[d] = pc[d]
      /\ ch' = Append(ch, v)
  BY DEF SendDuration, SendSuccess, Send, TypeOK, Timing, Outcome
<1>2. v \in Values /\ v.metric \notin Metrics /\ ch \in Seq(Values)
  BY <1>1, ValuesSent, ScrapeMetrics DEF TypeOK, Timing, Outcome
<1> HIDE DEF v
<1>3. \A w : Within(w, ch', accepted') <=> Within(w, ch, accepted) \/ w = v
  BY <1>1, <1>2, AppendWithin
<1>4. gather = "collecting"
  BY <1>1 DEF NoSendAfterCollect, Lifecycle, TypeOK, GatherStates
<1>5. NoSendAfterCollect'
  BY <1>1, <1>4 DEF NoSendAfterCollect
<1>6. Lifecycle'
  BY <1>1, <1>4 DEF Lifecycle, Selected
<1>7. ~Within(v, ch, accepted)
  <2>1. /\ Timing(c).metric = Duration(c) /\ Outcome(c).metric = Success(c)
    BY DEF Timing, Outcome, Value
  <2> QED
    BY <1>1, <1>2, <2>1, ScrapeMetrics DEF SentByExecute
<1>8. AtMostOnce(ch, accepted)'
  <2>1. AtMostOnce(ch', accepted')
    BY <1>1, <1>2, <1>7, AppendAtMostOnce
  <2> QED
    BY <2>1 DEF AtMostOnce, MayClash
<1>9. SentByExecute'
  <2>1. \A w \in Values : Within(w, ch', accepted') =>
           \/ w.metric \in Metrics /\ w.value = 0
           \/ \E d \in Registered : w = Timing(d) /\ pc'[d] \in {"success", "done"}
           \/ \E d \in Registered : w = Outcome(d) /\ pc'[d] = "done"
    BY <1>1, <1>3 DEF SentByExecute
  <2> QED
    BY <1>1, <2>1 DEF SentByExecute, Within, Outcome, Timing
<1>10. Reported'
  <2>1. \A d \in Registered :
          /\ pc'[d] \in {"success", "done"} => Within(Timing(d), ch', accepted')
          /\ pc'[d] = "done" => Within(Outcome(d), ch', accepted')
    BY <1>1, <1>3 DEF Reported
  <2> QED
    BY <1>1, <2>1 DEF Reported, Within, Outcome, Timing
<1>11. AllExposed'
  <2>1. \A m \in Metrics : Value(m, 0) # v
    BY <1>2 DEF Value
  <2>2. \A d \in Registered : unsent[d] \subseteq Metrics
    BY DEF TypeOK
  <2>3. ASSUME NoClash, NEW d \in Registered
        PROVE  /\ \A m \in unsent[d] : ~Within(Value(m, 0), ch', accepted')
               /\ d \in collectors =>
                    \E s \in Exposes[d] :
                      /\ unsent[d] \subseteq s
                      /\ ~err[d] => \A m \in s \ unsent[d] : Within(Value(m, 0), ch', accepted')
    BY <1>3, <1>4, <2>1, <2>2, <2>3 DEF AllExposed, Exposed
  <2> QED
    BY <1>1, <2>3 DEF AllExposed, Exposed, Within
<1> QED
  BY <1>5, <1>6, <1>8, <1>9, <1>10, <1>11

LEMMA ValueOf ==
  ASSUME NEW u \in Values, NEW v \in Values, u.metric = v.metric, u.value = v.value
  PROVE  u = v
<1>1. PICK m \in AllMetrics, k \in {0, 1} : u = Value(m, k)
  BY DEF Values
<1>2. PICK n \in AllMetrics, l \in {0, 1} : v = Value(n, l)
  BY DEF Values
<1> QED
  BY <1>1, <1>2 DEF Value

(* The registry rejects only metrics of collectors that clash.               *)
LEMMA RejectedMayClash ==
  ASSUME IInv, ch # <<>>, NEW u \in accepted, Clash(u.metric, Head(ch).metric)
  PROVE  Head(ch).metric \in Metrics /\ ~NoClash
<1> USE DEF IInv
<1> DEFINE v == Head(ch)
<1>1. u \in Values /\ v \in Values /\ Within(u, ch, accepted) /\ Within(v, ch, accepted)
  BY HeadAndTail DEF TypeOK, Within
<1>2. v \in accepted => MayClash(v)
  BY TailAtMostOnce DEF TypeOK
<1>0. Clash(u.metric, v.metric)
  OBVIOUS
<1> HIDE DEF v
<1>3. v.metric \in Metrics /\ v.value = 0
  <2>1. ASSUME NEW c \in Registered, v = Timing(c) \/ v = Outcome(c)
        PROVE  FALSE
    <3>1. Timing(c).metric = Duration(c) /\ Outcome(c).metric = Success(c)
      BY DEF Timing, Outcome, Value
    <3>2. u = v
      BY <1>1, <1>0, <2>1, <3>1, ClashOfScrapes
    <3> QED
      BY <1>2, <2>1, <3>2, ScrapeMetrics DEF MayClash
  <2> QED
    BY <1>1, <2>1 DEF SentByExecute
<1>4. u.metric \in Metrics /\ u.value = 0
  <2>1. ASSUME NEW c \in Registered, u = Timing(c) \/ u = Outcome(c)
        PROVE  FALSE
    <3>1. u.metric = Duration(c) \/ u.metric = Success(c)
      BY <2>1 DEF Timing, Outcome, Value
    <3>2. u.metric.family \in ScrapeFamilies
      BY <3>1 DEF Duration, Success, Metric, ScrapeFamilies
    <3> QED
      BY <1>3, <1>0, <3>2, NodeCollectorAssumption DEF Clash
  <2> QED
    BY <1>1, <2>1 DEF SentByExecute
<1>5. u.metric = v.metric => u = v
  BY <1>1, <1>3, <1>4, ValueOf
<1>6. v.metric \in Metrics /\ ~NoClash
  BY <1>2, <1>3, <1>4, <1>5, <1>0 DEF NoClash, MayClash
<1> QED
  BY <1>6 DEF v

LEMMA ReceiveStep ==
  ASSUME IInv, TypeOK', Receive
  PROVE  IInv'
<1> USE DEF IInv
<1> DEFINE v == Head(ch)
<1>1. /\ ch # <<>> /\ ch' = Tail(ch) /\ gather \in {"collecting", "closed"}
      /\ UNCHANGED <<filters, new, collectors, pc, unsent, err, gather>>
      /\ ch \in Seq(Values)
  BY DEF Receive, TypeOK
<1>2. \/ accepted' = accepted \cup {v} /\ rejected' = rejected
      \/ accepted' = accepted /\ v.metric \in Metrics /\ ~NoClash
  BY RejectedMayClash DEF Receive
<1>3. \A w : Within(w, ch, accepted) <=> Within(w, Tail(ch), accepted \cup {v})
  BY <1>1, TailWithin
<1>4. \A w : /\ Within(w, ch', accepted') => Within(w, ch, accepted)
             /\ Within(w, ch, accepted) /\ (w.metric \notin Metrics \/ NoClash)
                => Within(w, ch', accepted')
  <2>1. CASE accepted' = accepted \cup {v}
    BY <1>1, <1>3, <2>1
  <2>2. CASE accepted' = accepted /\ v.metric \in Metrics /\ ~NoClash
    BY <1>1, <1>3, <2>2 DEF Within
  <2> QED
    BY <1>2, <2>1, <2>2
<1> HIDE DEF v
<1>5. NoSendAfterCollect' /\ Lifecycle'
  BY <1>1 DEF NoSendAfterCollect, Lifecycle, Selected
<1>6. AtMostOnce(ch, accepted)'
  <2>1. AtMostOnce(ch', accepted')
    BY <1>1, <1>2, TailAtMostOnce DEF v
  <2> QED
    BY <2>1 DEF AtMostOnce, MayClash
<1>7. SentByExecute'
  <2>1. \A w \in Values : Within(w, ch', accepted') =>
           \/ w.metric \in Metrics /\ w.value = 0
           \/ \E d \in Registered : w = Timing(d) /\ pc[d] \in {"success", "done"}
           \/ \E d \in Registered : w = Outcome(d) /\ pc[d] = "done"
    BY <1>4 DEF SentByExecute
  <2> QED
    BY <1>1, <2>1 DEF SentByExecute, Within, Outcome, Timing
<1>8. Reported'
  <2>1. \A d \in Registered :
          /\ pc[d] \in {"success", "done"} => Within(Timing(d), ch', accepted')
          /\ pc[d] = "done" => Within(Outcome(d), ch', accepted')
    BY <1>4, ScrapeMetrics DEF Reported
  <2> QED
    BY <1>1, <2>1 DEF Reported, Within, Outcome, Timing
<1>9. AllExposed'
  <2>1. ASSUME NoClash, NEW d \in Registered
        PROVE  /\ ~rejected'
               /\ \A m \in unsent[d] : ~Within(Value(m, 0), ch', accepted')
               /\ gather # "idle" /\ d \in collectors =>
                    \E s \in Exposes[d] :
                      /\ unsent[d] \subseteq s
                      /\ ~err[d] => \A m \in s \ unsent[d] : Within(Value(m, 0), ch', accepted')
    BY <1>2, <1>4, <2>1 DEF AllExposed, Exposed
  <2> QED
    BY <1>1, <1>2, <2>1 DEF AllExposed, Exposed, Within
<1> QED
  BY <1>5, <1>6, <1>7, <1>8, <1>9

-------------------------------------------------------------------------------
(* The results.                                                              *)

LEMMA Invariance == Spec => []IInv
<1>1. IInv /\ [Next]_vars => IInv'
  <2> SUFFICES ASSUME IInv, [Next]_vars PROVE IInv'
    OBVIOUS
  <2>1. TypeOK'
    BY StepType DEF IInv
  <2>2. ASSUME NEW c \in Registered, Execute(c) PROVE IInv'
    BY <2>1, <2>2, UpdateSendsStep, UpdateReturnsStep, ReportStep DEF Execute
  <2> QED
    BY <2>1, <2>2, QuietStep, CollectStep, ReceiveStep DEF Next, Registry
<1> QED
  BY <1>1, InitInv, PTL DEF Spec

(***************************************************************************)
(* The variables keep their types; collectors has none but the registered  *)
(* names.                                                                  *)
(***************************************************************************)
THEOREM TypeCorrect == Spec => []TypeOK
<1>1. IInv => TypeOK
  BY DEF IInv
<1> QED
  BY <1>1, Invariance, PTL

(***************************************************************************)
(* Nothing is sent on the channel once Collect has returned and Gather has *)
(* closed it.                                                              *)
(***************************************************************************)
THEOREM ChannelSafe == Spec => []NoSendAfterCollect
<1>1. IInv => NoSendAfterCollect
  BY DEF IInv
<1> QED
  BY <1>1, Invariance, PTL

(* When Gather has returned, all that was sent and not rejected is accepted. *)
LEMMA AllReceived ==
  ASSUME IInv, gather = "returned"
  PROVE  /\ \A v : Within(v, ch, accepted) <=> v \in accepted
         /\ new = "ok" /\ collectors = Selected /\ filters \subseteq Registered
         /\ \A c \in Registered : pc[c] = IF c \in collectors THEN "done" ELSE "none"
<1>1. ch = <<>> /\ Len(ch) = 0
  BY DEF IInv, Lifecycle
<1>2. \A v : Within(v, ch, accepted) <=> v \in accepted
  BY <1>1 DEF Within
<1>3. new = "ok" /\ collectors = Selected /\ filters \subseteq Registered
  BY DEF IInv, Lifecycle, TypeOK
<1>4. \A c \in Registered : pc[c] = IF c \in collectors THEN "done" ELSE "none"
  BY DEF IInv, Lifecycle, NoSendAfterCollect, TypeOK
<1> QED
  BY <1>2, <1>3, <1>4

(***************************************************************************)
(* Every scrape that ends has told of each collector asked for, once and   *)
(* truly, however the others fare.                                         *)
(***************************************************************************)
THEOREM AllReport == Spec => []EveryCollectorReports
<1>1. IInv => EveryCollectorReports
  <2> SUFFICES ASSUME IInv, gather = "returned", NEW c \in Asked \cup Registered
               PROVE  /\ { v \in accepted : v.metric = Success(c) } =
                           IF c \in Asked THEN {Outcome(c)} ELSE {}
                      /\ { v \in accepted : v.metric = Duration(c) } =
                           IF c \in Asked THEN {Timing(c)} ELSE {}
    BY DEF EveryCollectorReports, Outcome, Timing
  <2>1. c \in Registered /\ (c \in Asked <=> c \in collectors)
    BY AllReceived DEF Asked, Selected
  <2>2. /\ Timing(c).metric = Duration(c) /\ Outcome(c).metric = Success(c)
        /\ Timing(c).metric \notin Metrics /\ Outcome(c).metric \notin Metrics
    BY <2>1, ScrapeMetrics DEF Timing, Outcome, Value
  <2>3. ASSUME NEW v \in accepted
        PROVE  /\ v.metric = Success(c) => v = Outcome(c) /\ pc[c] = "done"
               /\ v.metric = Duration(c) => v = Timing(c) /\ pc[c] = "done"
    <3>1. \/ v.metric \in Metrics
          \/ \E d \in Registered : v = Timing(d) /\ pc[d] \in {"success", "done"}
          \/ \E d \in Registered : v = Outcome(d) /\ pc[d] = "done"
      BY AllReceived DEF IInv, TypeOK, SentByExecute
    <3> QED
      BY <2>1, <2>2, <3>1, AllReceived, ScrapeMetrics
  <2>4. pc[c] = "done" => Outcome(c) \in accepted /\ Timing(c) \in accepted
    BY <2>1, AllReceived DEF IInv, Reported
  <2> QED
    BY <2>1, <2>2, <2>3, <2>4, AllReceived
<1> QED
  BY <1>1, Invariance, PTL

(***************************************************************************)
(* Unless the metrics of the collectors clash, Gather rejects nothing, and *)
(* has all that a collector sends which reports success.                   *)
(***************************************************************************)
THEOREM NoneLost == Spec => []NothingLost
<1>1. IInv => NothingLost
  <2> SUFFICES ASSUME IInv, gather = "returned", NoClash
               PROVE  /\ ~rejected
                      /\ \A c \in collectors :
                           ~err[c] => \E sent \in Exposes[c] :
                                        \A m \in sent : Value(m, 0) \in accepted
    BY DEF NothingLost
  <2>1. collectors \subseteq Registered
    BY DEF IInv, TypeOK
  <2>2. \A c \in collectors : unsent[c] = {}
    BY <2>1, AllReceived DEF IInv, Lifecycle
  <2> QED
    BY <2>1, <2>2, AllReceived DEF IInv, AllExposed, Exposed
<1> QED
  BY <1>1, Invariance, PTL

-------------------------------------------------------------------------------
(* NodeCollector implements ScrapeReports.                                   *)

(* Gather is told of a collector only how its Update ended, after it ended.  *)
LEMMA ToldIsOutcome ==
  ASSUME IInv, NEW c \in Registered, NEW end \in {"ok", "failed"}
  PROVE  /\ <<c, end>> \in Told <=> Value(Success(c), IF end = "ok" THEN 1 ELSE 0) \in accepted
         /\ <<c, end>> \in Told =>
              pc[c] = "done" /\ Outcomes[c] = end /\ Outcome(c) \in accepted
<1> DEFINE v == Value(Success(c), IF end = "ok" THEN 1 ELSE 0)
<1>1. <<c, end>> \in Told <=> v \in accepted
  BY DEF Told
<1>2. ASSUME v \in accepted
      PROVE  pc[c] = "done" /\ Outcomes[c] = end /\ Outcome(c) \in accepted
  <2>1. v \in Values /\ Within(v, ch, accepted)
    BY <1>2, ValuesSent DEF Within
  <2>2. Clash(v.metric, Success(c))
    BY DEF Clash, Value
  <2>3. v = Outcome(c)
    BY <2>1, <2>2, ClashOfScrapes DEF IInv
  <2>4. err[c] <=> end = "failed"
    BY <2>3 DEF Outcome, Value
  <2>5. pc[c] = "done"
    <3>1. \A d \in Registered : v = Outcome(d) => d = c
      BY DEF Outcome, Value, Success, Metric
    <3>2. v.metric \notin Metrics /\ \A d \in Registered : v # Timing(d)
      BY <2>3, ScrapeMetrics DEF Timing, Value
    <3> QED
      BY <2>1, <3>1, <3>2 DEF IInv, SentByExecute
  <2> QED
    BY <1>2, <2>3, <2>4, <2>5 DEF Outcomes
<1> QED
  BY <1>1, <1>2

LEMMA InitReports == Init => Scrape!ReportsInit
  BY DEF Init, Scrape!ReportsInit, Outcomes, Told

(* Update returns, in one way or the other.                                  *)
LEMMA UpdateEnds ==
  ASSUME IInv, NEW c \in Registered, UpdateReturns(c)
  PROVE  \E end \in {"ok", "failed"} : Scrape!End(c, end)
<1>1. /\ pc[c] = "update" /\ pc' = [pc EXCEPT ![c] = "duration"]
      /\ UNCHANGED <<accepted, gather>>
      /\ err' = err \/ err' = [err EXCEPT ![c] = TRUE]
  BY DEF UpdateReturns
<1>2. pc \in [Registered -> ExecuteStates] /\ err \in [Registered -> BOOLEAN]
  BY DEF IInv, TypeOK
<1>3. Told' = Told
  BY <1>1 DEF Told
<1> DEFINE end == IF err'[c] THEN "failed" ELSE "ok"
<1>4. Outcomes' = [Outcomes EXCEPT ![c] = end]
  BY <1>1, <1>2 DEF Outcomes
<1>5. Outcomes[c] = "running"
  BY <1>1 DEF Outcomes
<1> QED
  BY <1>1, <1>3, <1>4, <1>5 DEF Scrape!End

(* What Gather receives is no report, or one it has not had yet.             *)
LEMMA ReceiveReports ==
  ASSUME IInv, Receive
  PROVE  \/ \E c \in Registered : Scrape!Report(c)
         \/ UNCHANGED <<Outcomes, Told, gather>>
<1> DEFINE v == Head(ch)
<1>1. /\ ch # <<>> /\ gather \in {"collecting", "closed"} /\ UNCHANGED <<pc, err, gather>>
      /\ accepted' = accepted \/ accepted' = accepted \cup {v}
  BY DEF Receive
<1>2. Outcomes' = Outcomes
  BY <1>1 DEF Outcomes
<1>3. ch \in Seq(Values) /\ v \in Values /\ Within(v, ch, accepted)
  BY <1>1, HeadAndTail DEF IInv, TypeOK, Within
<1>4. CASE accepted' = accepted
  BY <1>1, <1>2, <1>4 DEF Told
<1>5. ASSUME accepted' = accepted \cup {v}, NEW c \in Registered, v = Outcome(c), pc[c] = "done"
      PROVE  Scrape!Report(c)
  <2>1. v \notin accepted
    BY <1>1, <1>3, <1>5, TailAtMostOnce, ScrapeMetrics DEF IInv, MayClash
  <2>2. \A end \in {"ok", "failed"} : <<c, end>> \notin Told
    BY <1>5, <2>1, ToldIsOutcome
  <2>3. Outcomes[c] = IF err[c] THEN "failed" ELSE "ok"
    BY <1>5 DEF Outcomes
  <2>4. \A d \in Registered, k \in {0, 1} :
          Value(Success(d), k) = v <=> d = c /\ k = IF err[c] THEN 0 ELSE 1
    BY <1>5 DEF Outcome, Value, Success, Metric
  <2>5. Told' = Told \cup {<<c, Outcomes[c]>>}
    <3>1. \A d \in Registered, k \in {0, 1} : Value(Success(d), k) \in accepted' <=>
            \/ Value(Success(d), k) \in accepted
            \/ d = c /\ k = IF err[c] THEN 0 ELSE 1
      BY <1>5, <2>4
    <3>2. ASSUME NEW r
          PROVE  r \in Told' <=> r \in Told \/ r = <<c, Outcomes[c]>>
      <4>1. r \in Told <=>
              \E d \in Registered : \/ r = <<d, "ok">> /\ Value(Success(d), 1) \in accepted
                                    \/ r = <<d, "failed">> /\ Value(Success(d), 0) \in accepted
        BY DEF Told
      <4>2. r \in Told' <=>
              \E d \in Registered : \/ r = <<d, "ok">> /\ Value(Success(d), 1) \in accepted'
                                    \/ r = <<d, "failed">> /\ Value(Success(d), 0) \in accepted'
        BY DEF Told
      <4> QED
        BY <2>3, <3>1, <4>1, <4>2
    <3> QED
      BY <3>2
  <2> QED
    BY <1>1, <1>2, <2>2, <2>3, <2>5 DEF Scrape!Report, Scrape!Ends
<1>6. ASSUME accepted' = accepted \cup {v}, \A c \in Registered : v # Outcome(c)
      PROVE  Told' = Told
  <2>1. \A d \in Registered, k \in {0, 1} : Value(Success(d), k) # v
    <3> SUFFICES ASSUME NEW d \in Registered, NEW k \in {0, 1}, v = Value(Success(d), k)
                 PROVE  FALSE
      OBVIOUS
    <3>1. Clash(v.metric, Success(d))
      BY DEF Clash, Value
    <3> QED
      BY <1>3, <1>6, <3>1, ClashOfScrapes DEF IInv
  <2> QED
    BY <1>6, <2>1 DEF Told
<1>7. \A c \in Registered : v = Outcome(c) => pc[c] = "done"
  <2> SUFFICES ASSUME NEW c \in Registered, v = Outcome(c) PROVE pc[c] = "done"
    OBVIOUS
  <2>1. \A d \in Registered : v = Outcome(d) => d = c
    BY DEF Outcome, Value, Success, Metric
  <2>2. v.metric \notin Metrics /\ \A d \in Registered : v # Timing(d)
    BY ScrapeMetrics DEF Timing, Value
  <2> QED
    BY <1>3, <2>1, <2>2 DEF IInv, SentByExecute
<1> QED
  BY <1>1, <1>2, <1>4, <1>5, <1>6, <1>7

(* Gather returns when it has been told of all.                              *)
LEMMA GatherAnswers ==
  ASSUME IInv, GatherReturns
  PROVE  Scrape!Answer
<1>1. /\ gather = "closed" /\ gather' = "returned" /\ ch = <<>>
      /\ UNCHANGED <<pc, err, accepted>>
  BY DEF GatherReturns
<1>2. ASSUME NEW c \in Registered, Outcomes[c] # "none"
      PROVE  <<c, Outcomes[c]>> \in Told
  <2>1. pc[c] = "done"
    BY <1>1, <1>2 DEF IInv, NoSendAfterCollect, Outcomes
  <2>2. Outcome(c) \in accepted
    BY <1>1, <2>1 DEF IInv, Reported, Within
  <2>3. Outcomes[c] = IF err[c] THEN "failed" ELSE "ok"
    BY <2>1 DEF Outcomes
  <2> QED
    BY <2>2, <2>3, ToldIsOutcome DEF Outcome
<1>3. Outcomes' = Outcomes /\ Told' = Told
  BY <1>1 DEF Outcomes, Told
<1> QED
  BY <1>1, <1>2, <1>3 DEF Scrape!Answer

(* Steps that neither end an Update nor tell Gather anything.                *)
LEMMA SilentStep ==
  ASSUME IInv,
         \/ New \/ NewFails \/ CollectReturns \/ UNCHANGED vars
         \/ \E c \in Registered : UpdateSends(c) \/ SendDuration(c) \/ SendSuccess(c)
  PROVE  /\ UNCHANGED <<Outcomes, Told>>
         /\ gather' = "returned" <=> gather = "returned"
<1>1. /\ UNCHANGED <<err, accepted>>
      /\ gather' = "returned" <=> gather = "returned"
  BY DEF New, NewFails, CollectReturns, UpdateSends, SendDuration, SendSuccess, vars
<1>2. \A c \in Registered :
        \/ pc'[c] = pc[c]
        \/ pc[c] \notin {"none", "update"} /\ pc'[c] \notin {"none", "update"}
  BY DEF New, NewFails, CollectReturns, UpdateSends, SendDuration, SendSuccess, vars, IInv, TypeOK
<1>3. Outcomes' = Outcomes
  BY <1>1, <1>2 DEF Outcomes
<1> QED
  BY <1>1, <1>3 DEF Told

LEMMA ReportsStep ==
  ASSUME IInv, [Next]_vars
  PROVE  [Scrape!ReportsNext]_(Scrape!reportVars)
<1> USE DEF Scrape!ReportsNext, Scrape!reportVars
<1>1. CASE Collect
  <2>1. /\ gather = "idle" /\ gather' = "collecting" /\ UNCHANGED <<err, accepted>>
        /\ pc' = [c \in Registered |-> IF c \in collectors THEN "update" ELSE "none"]
    BY <1>1 DEF Collect
  <2>2. \A c \in Registered : pc[c] = "none"
    BY <2>1 DEF IInv, Lifecycle
  <2>3. Told' = Told
    BY <2>1 DEF Told
  <2>4. /\ \A c \in Registered : Outcomes[c] = "none"
        /\ Outcomes' = [c \in Registered |-> IF c \in collectors THEN "running" ELSE "none"]
    BY <2>1, <2>2 DEF Outcomes
  <2>5. Scrape!Ask(collectors) /\ collectors \in SUBSET Registered
    BY <2>1, <2>3, <2>4 DEF Scrape!Ask, IInv, TypeOK
  <2> QED
    BY <2>5
<1>2. ASSUME NEW c \in Registered, UpdateReturns(c)
      PROVE  Scrape!ReportsNext
  BY <1>2, UpdateEnds DEF Scrape!Ends
<1>3. CASE Receive
  <2>1. CASE UNCHANGED <<Outcomes, Told, gather>>
    BY <2>1
  <2> QED
    BY <1>3, <2>1, ReceiveReports
<1>4. CASE GatherReturns
  BY <1>4, GatherAnswers
<1>5. CASE \/ New \/ NewFails \/ CollectReturns \/ UNCHANGED vars
           \/ \E c \in Registered : UpdateSends(c) \/ SendDuration(c) \/ SendSuccess(c)
  <2>1. /\ Outcomes' = Outcomes /\ Told' = Told
        /\ gather' = "returned" <=> gather = "returned"
    BY <1>5, SilentStep
  <2> QED
    BY <2>1
<1> QED
  BY <1>1, <1>2, <1>3, <1>4, <1>5 DEF Next, Execute, Registry

(***************************************************************************)
(* NodeCollector implements the promise of a scrape (Collect, execute):    *)
(* each collector is reported once, after its Update has returned and in   *)
(* the way it did, and the result is returned when all are.                *)
(***************************************************************************)
THEOREM ReportsImplemented == Spec => ImplementsReports
<1>1. IInv /\ [Next]_vars => [Scrape!ReportsNext]_(Scrape!reportVars)
  BY ReportsStep
<1> QED
  BY <1>1, InitReports, Invariance, PTL DEF Spec, ImplementsReports, Scrape!ReportsSpec
===============================================================================
