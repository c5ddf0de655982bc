-------------------------------- MODULE MCJobs --------------------------------
(***************************************************************************)
(* Small instances of the jobs the collector runs beside detection: the    *)
(* drain of the forwarded lines (LogPush), the errors job and its budget   *)
(* (LogScan), incidents (IncidentCycle), the weekly summary                *)
(* (WeeklySummary), error groups (ErrorGroups), synthetic checks           *)
(* (SyntheticChecks) and objectives (Objectives).                          *)
(*                                                                         *)
(* The jobs of one process run one after the other, and these share no     *)
(* state but what their own modules take as an input: each behaviour runs  *)
(* one of them, and the others stay where they start.                      *)
(***************************************************************************)
EXTENDS LogPush, LogScan, IncidentCycle, WeeklySummary, ErrorGroups,
        SyntheticChecks, Objectives, TLC

CONSTANTS l1, l2, a1, g1, g2, b1, b2, s1, s2, p1, p2, v1, c1

VARIABLE part

Parts == {"push", "scan", "incidents", "summary", "errors", "checks", "objectives"}

vars == <<part, pushVars, scanVars, incidentVars, summaryVars, errorVars, checkVars,
          objectiveVars>>

(* A step of part p, and of no other. *)
Only(p, A) ==
  /\ part = p /\ A /\ UNCHANGED part
  /\ p # "push" => UNCHANGED pushVars
  /\ p # "scan" => UNCHANGED scanVars
  /\ p # "incidents" => UNCHANGED incidentVars
  /\ p # "summary" => UNCHANGED summaryVars
  /\ p # "errors" => UNCHANGED errorVars
  /\ p # "checks" => UNCHANGED checkVars
  /\ p # "objectives" => UNCHANGED objectiveVars

Init ==
  /\ part \in Parts
  /\ PushInit /\ ScanInit /\ IncidentInit /\ SummaryInit /\ ErrorsInit /\ CheckInit
  /\ ObjectivesInit
  /\ part # "push" => keeps = {}
  /\ part # "summary" => ~on /\ chosen = 0 /\ reach = {}

Next ==
  \/ Only("push", PushNext)
  \/ Only("scan", ScanNext)
  \/ Only("incidents", IncidentNext)
  \/ Only("summary", SummaryNext)
  \/ Only("errors", ErrorsNext)
  \/ Only("checks", CheckNext)
  \/ Only("objectives", ObjectivesNext)

(* Fairness of the job that runs.  A behaviour runs one part for ever, so  *)
(* this is the weak fairness of each job, taken together.                  *)
Job ==
  \/ Only("push", Drain)
  \/ Only("scan", Scan)
  \/ Only("incidents", RunIncidents)
  \/ Only("errors", JudgeErrors \/ LinkErrors)
  \/ Only("checks", Probes)

Spec == Init /\ [][Next]_vars /\ WF_vars(Job)
-----------------------------------------------------------------------------
MCAccountOf == l1 :> a1 @@ l2 :> a1
MCFingerprintOf == l1 :> g1 @@ l2 :> g2
MCSourceOf == s1 :> b1 @@ s2 :> b2
MCServiceOf == p1 :> v1 @@ p2 :> v1

(* The state of every part is in range. *)
TypeOK ==
  /\ part \in Parts
  /\ PushTypeOK /\ ScanTypeOK /\ IncidentTypeOK /\ SummaryTypeOK /\ ErrorsTypeOK
  /\ CheckTypeOK /\ ObjectivesTypeOK

(* A group regresses only after its silence (ErrorGroups), a check is      *)
(* called down or up only on its last runs (SyntheticChecks), and an       *)
(* objective burns only over failures on record (Objectives).              *)
VerdictsHaveGrounds == RegressionMeansSilence /\ VerdictHasGrounds /\ BurnIsReal

(* Whatever is measured is measured in full: the bytes a budget is charged *)
(* (LogScan), the failures of an objective, whatever its target is         *)
(* (Objectives).                                                           *)
MeasuresAreTrue == BudgetIsTrue /\ StricterIsLouder

(* What each job must come to: every line counted or dropped (LogPush), a  *)
(* lasting trouble raised (IncidentCycle), a new group raised              *)
(* (ErrorGroups), an outage raised (SyntheticChecks).  The two lines are   *)
(* alike, and so are the two checks: one of each stands for both.          *)
JobsCatchUp ==
  /\ DeliveredIsCounted(l1) /\ TroubleIsRaised /\ NewIsRaised
  /\ OutageIsRaised(c1)
=============================================================================
