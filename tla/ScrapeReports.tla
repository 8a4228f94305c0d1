---------------------------- MODULE ScrapeReports ----------------------------
(***************************************************************************)
(* What a scrape promises about its collectors, without goroutines, a      *)
(* channel or metrics: each collector asked ends once, in success or in    *)
(* failure; the answer gets a report of each, once, after the collector    *)
(* has ended, and of the way it did; and it is given when it has them all. *)
(***************************************************************************)
CONSTANT Collectors

VARIABLES outcome,   \* per collector: whether it was asked, and how it ended
          reports,   \* the reports in the answer, a collector with its outcome
          answer     \* whether the answer is given

reportVars == <<outcome, reports, answer>>

Ends == {"ok", "failed"}

ReportsInit ==
  /\ outcome = [c \in Collectors |-> "none"]
  /\ reports = {}
  /\ answer = "awaited"

Ask(asked) ==
  /\ answer = "awaited"
  /\ \A c \in Collectors : outcome[c] = "none"
  /\ outcome' = [c \in Collectors |-> IF c \in asked THEN "running" ELSE "none"]
  /\ UNCHANGED <<reports, answer>>

End(c, end) ==
  /\ outcome[c] = "running"
  /\ outcome' = [outcome EXCEPT ![c] = end]
  /\ UNCHANGED <<reports, answer>>

Report(c) ==
  /\ answer = "awaited"
  /\ outcome[c] \in Ends
  /\ \A end \in Ends : <<c, end>> \notin reports
  /\ reports' = reports \cup {<<c, outcome[c]>>}
  /\ UNCHANGED <<outcome, answer>>

Answer ==
  /\ answer = "awaited"
  /\ \A c \in Collectors : outcome[c] # "none" => <<c, outcome[c]>> \in reports
  /\ answer' = "given"
  /\ UNCHANGED <<outcome, reports>>

ReportsNext ==
  \/ \E asked \in SUBSET Collectors : Ask(asked)
  \/ \E c \in Collectors : Report(c) \/ \E end \in Ends : End(c, end)
  \/ Answer

ReportsSpec == ReportsInit /\ [][ReportsNext]_reportVars
==============================================================================
