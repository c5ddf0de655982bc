--------------------------- MODULE SyntheticChecks ---------------------------
(***************************************************************************)
(* Synthetic checks: the operator who creates, edits, switches and deletes *)
(* them (store/synthetics.ts), the job of collector/synthetics-job.ts that *)
(* requests each enabled one, records its run and then judges those still  *)
(* enabled, and the rule of detect/synthetic.ts.                           *)
(*                                                                         *)
(* The job awaits one request at a time, and the operator's own requests   *)
(* come in between; the judgement after the last one is synchronous.  A    *)
(* run is kept as "did it pass".  A check is deleted with its runs, and    *)
(* the run of a check that is gone is refused (foreign_keys = ON) in the   *)
(* catch as it was before it, so the job fails there.  Which latencies are *)
(* slow and what a run asserts is left out, and so is the certificate: no  *)
(* run ever stores an expiry.                                              *)
(***************************************************************************)
EXTENDS Integers, Sequences

CONSTANTS
  Check,            \* check ids, each used once
  NoCheck,          \* not a check
  History,          \* HISTORY
  FailuresToDown,   \* FAILURES_TO_DOWN
  ClearsToResolve,  \* CLEAR_EVALUATIONS
  MaxDeaths         \* bound: how often the collector is killed inside the job

ASSUME SyntheticAssumption ==
  /\ NoCheck \notin Check
  /\ FailuresToDown \in Nat \ {0} /\ History \in Nat /\ FailuresToDown <= History
  /\ ClearsToResolve \in Nat \ {0}
  /\ MaxDeaths \in Nat

VARIABLES
  check,      \* per id: "new", "off", "on" or "gone"
  runs,       \* per check, its latest runs, the newest first
  probing,    \* the job: "idle" or "running"
  toProbe,    \* the enabled checks it read and has still to request
  awaited,    \* the check whose request it awaits
  raised,     \* the checks with a live synthetic_down problem
  clears,     \* per check, the clearStreak of that problem
  streak,     \* observation: per check, the failed runs since one passed
  deaths      \* the times the collector was killed inside the job

checkVars == <<check, runs, probing, toProbe, awaited, raised, clears, streak, deaths>>
-----------------------------------------------------------------------------
Enabled == {c \in Check : check[c] = "on"}

DownAtOnce(r) == r # <<>> /\ ~r[1]   \* mutant: one failure is an outage

(* statusFrom: down, where it is not up and something has run. *)
Down(r) == Len(r) >= FailuresToDown /\ \A n \in 1 .. FailuresToDown : ~r[n]

(* recordRun, and recentRuns as far as the rule reads. *)
RunsWhole(c, ok) == [runs EXCEPT ![c] = <<ok>> \o @]   \* mutant: no limit

RunsOldest(c, ok) ==   \* mutant: recentRuns in ascending order
  [runs EXCEPT ![c] = IF Len(@) < History THEN Append(@, ok) ELSE @]

RunsWith(c, ok) == [runs EXCEPT ![c] = SubSeq(<<ok>> \o @, 1, IF Len(@) < History
                                                             THEN Len(@) + 1 ELSE History)]

(* Those the detectors speak about: enabled now, and run once at least. *)
JudgedChecks == {c \in Enabled : runs[c] # <<>>}
-----------------------------------------------------------------------------
CheckInit ==
  /\ check = [c \in Check |-> "new"]
  /\ runs = [c \in Check |-> <<>>]
  /\ probing = "idle" /\ toProbe = {} /\ awaited = NoCheck
  /\ raised = {}
  /\ clears = [c \in Check |-> 0]
  /\ streak = [c \in Check |-> 0]
  /\ deaths = 0

(* upsertCheck: a new one, or the switch of one there is. *)
UpsertCheck(c) ==
  /\ check[c] # "gone"
  /\ \E s \in {"off", "on"} : check' = [check EXCEPT ![c] = s]
  /\ UNCHANGED <<runs, probing, toProbe, awaited, raised, clears, streak, deaths>>

(* deleteCheck: its runs cascade, its problem does not. *)
DeleteCheck(c) ==
  /\ check[c] \in {"off", "on"}
  /\ check' = [check EXCEPT ![c] = "gone"]
  /\ runs' = [runs EXCEPT ![c] = <<>>]
  /\ UNCHANGED <<probing, toProbe, awaited, raised, clears, streak, deaths>>
-----------------------------------------------------------------------------
(* runSyntheticsJob *)

StartProbes ==
  /\ probing = "idle" /\ Enabled # {}
  /\ probing' = "running" /\ toProbe' = Enabled
  /\ UNCHANGED <<check, runs, awaited, raised, clears, streak, deaths>>

Request(c) ==
  /\ probing = "running" /\ awaited = NoCheck /\ c \in toProbe
  /\ awaited' = c /\ toProbe' = toProbe \ {c}
  /\ UNCHANGED <<check, runs, probing, raised, clears, streak, deaths>>

(* The request answers, fails or throws: each is a run, passed or not. *)
RecordRun(c) ==
  /\ awaited = c /\ check[c] # "gone"
  /\ \E ok \in BOOLEAN :
       /\ runs' = RunsWith(c, ok)
       /\ streak' = [streak EXCEPT ![c] = IF ok THEN 0
                                          ELSE IF @ < FailuresToDown THEN @ + 1 ELSE @]
  /\ awaited' = NoCheck
  /\ UNCHANGED <<check, probing, toProbe, raised, clears, deaths>>

(* Its check was deleted meanwhile: the job throws, and judges nothing. *)
RunRefused(c) ==
  /\ awaited = c /\ check[c] = "gone"
  /\ probing' = "idle" /\ toProbe' = {} /\ awaited' = NoCheck
  /\ UNCHANGED <<check, runs, raised, clears, streak, deaths>>

(* Every run is in: syntheticOutcomes and applyCycle.  A problem that is    *)
(* clear often enough is resolved once CLEAR_MIN_MS is over as well, which *)
(* takes a job of this interval one evaluation more at most.               *)
JudgeChecks ==
  LET down  == {c \in JudgedChecks : Down(runs[c])}
      clear == (JudgedChecks \ down) \cap raised
      next  == [c \in Check |-> IF c \in clear THEN clears[c] + 1
                                ELSE IF c \in down THEN 0 ELSE clears[c]]
      ripe  == {c \in clear : next[c] >= ClearsToResolve}
      over  == {c \in clear : next[c] > ClearsToResolve} IN
  /\ probing = "running" /\ awaited = NoCheck /\ toProbe = {}
  /\ probing' = "idle"
  /\ \E resolved \in SUBSET ripe :
       /\ over \subseteq resolved
       /\ raised' = (raised \cup down) \ resolved
       /\ clears' = [c \in Check |-> IF c \in resolved THEN 0 ELSE next[c]]
  /\ UNCHANGED <<check, runs, toProbe, awaited, streak, deaths>>

DieInProbes ==
  /\ probing = "running" /\ deaths < MaxDeaths
  /\ deaths' = deaths + 1
  /\ probing' = "idle" /\ toProbe' = {} /\ awaited' = NoCheck
  /\ UNCHANGED <<check, runs, raised, clears, streak>>

Probes ==
  \/ StartProbes \/ JudgeChecks
  \/ \E c \in Check : Request(c) \/ RecordRun(c) \/ RunRefused(c)

CheckNext ==
  \/ \E c \in Check : UpsertCheck(c) \/ DeleteCheck(c)
  \/ Probes \/ DieInProbes

CheckSpec == CheckInit /\ [][CheckNext]_checkVars
-----------------------------------------------------------------------------
CheckTypeOK ==
  /\ check \in [Check -> {"new", "off", "on", "gone"}]
  /\ \A c \in Check : Len(runs[c]) <= History /\ \A n \in 1 .. Len(runs[c]) : runs[c][n] \in BOOLEAN
  /\ probing \in {"idle", "running"} /\ toProbe \in SUBSET Check
  /\ awaited \in Check \cup {NoCheck}
  /\ raised \in SUBSET Check
  /\ clears \in [Check -> 0 .. ClearsToResolve]
  /\ streak \in [Check -> 0 .. FailuresToDown]
  /\ deaths \in 0 .. MaxDeaths

(* "Down after two consecutive failures, up after one success", and "a     *)
(* check that has never run is not evaluated": a problem is raised only    *)
(* when the last runs of a check that is on all failed, and resolved only  *)
(* when one of them passed, whatever was edited, deleted or killed while   *)
(* the job awaited its requests.                                           *)
VerdictHasGrounds ==
  [][\A c \in Check : (c \in raised) # (c \in raised') =>
       /\ check[c] = "on"
       /\ c \in raised' <=> streak[c] = FailuresToDown]_checkVars

(* An endpoint that fails for good is raised while its check is on, though *)
(* deletions of others fail the job now and then.                          *)
OutageIsRaised(c) ==
  <>[](check[c] = "on" /\ streak[c] = FailuresToDown) => <>[](c \in raised)
=============================================================================
