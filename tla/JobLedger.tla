------------------------------- MODULE JobLedger -------------------------------
(***************************************************************************)
(* What the worker queue promises of a job, without runners, order or      *)
(* retries: an accepted job is run at most MaxAttempts times and ends      *)
(* once, completed after a run of it or dead-lettered after the last one.  *)
(***************************************************************************)
EXTENDS Naturals

CONSTANTS Jobs, MaxAttempts

VARIABLES
  outcome,  \* [Jobs -> {"new", "accepted", "completed", "dead"}]
  runs      \* [Jobs -> 0..MaxAttempts]: how often the job was started

ledgerVars == <<outcome, runs>>

Init ==
  /\ outcome = [j \in Jobs |-> "new"]
  /\ runs = [j \in Jobs |-> 0]

Accept(j) ==
  /\ outcome[j] = "new"
  /\ outcome' = [outcome EXCEPT ![j] = "accepted"]
  /\ UNCHANGED runs

Run(j) ==
  /\ outcome[j] = "accepted" /\ runs[j] < MaxAttempts
  /\ runs' = [runs EXCEPT ![j] = @ + 1]
  /\ UNCHANGED outcome

Complete(j) ==
  /\ outcome[j] = "accepted" /\ runs[j] > 0
  /\ outcome' = [outcome EXCEPT ![j] = "completed"]
  /\ UNCHANGED runs

Bury(j) ==
  /\ outcome[j] = "accepted" /\ runs[j] = MaxAttempts
  /\ outcome' = [outcome EXCEPT ![j] = "dead"]
  /\ UNCHANGED runs

Next == \E j \in Jobs : Accept(j) \/ Run(j) \/ Complete(j) \/ Bury(j)

Spec == Init /\ [][Next]_ledgerVars
=============================================================================
