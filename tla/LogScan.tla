-------------------------------- MODULE LogScan --------------------------------
(***************************************************************************)
(* The errors job (collector/errors-job.ts) and the budget it runs under   *)
(* (store/logs-budget.ts): one query after another over the sources an     *)
(* operator enabled, while the account is under its share of the day's cap *)
(* and all accounts together are under the cap.  Jobs of two accounts run  *)
(* one after the other.  The job keeps the clock of its start: what it     *)
(* scans after midnight is judged and entered under the day it began.      *)
(*                                                                         *)
(* Bytes are counted in units, and what a query really scans is known to   *)
(* the cloud alone until it reports it.                                    *)
(***************************************************************************)
EXTENDS Integers, FiniteSets

CONSTANTS
  ScanAccount,  \* the connected accounts
  Source,       \* the log sources
  SourceOf,     \* the account of a source
  NoSource,     \* no query under way
  Cap,          \* OPSWATCH_LOGS_BUDGET_GB_PER_DAY, in bytes
  ScanMax,      \* bound: the most one query scans
  PollAttempts, \* POLL_ATTEMPTS
  MaxLost       \* bound: the queries of a day whose scan is never reported

ASSUME ScanAssumption ==
  /\ SourceOf \in [Source -> ScanAccount]
  /\ NoSource \notin Source
  /\ Cap \in Nat /\ ScanMax \in Nat \ {0}
  /\ PollAttempts \in Nat \ {0} /\ MaxLost \in Nat

VARIABLES
  enabled,   \* the sources that are enabled
  pushed,    \* those whose group is forwarded
  usage,     \* logs_usage of the day of the job, or of today: bytes per account
  halted,    \* the accounts whose stop is recorded for that day
  scanJob,   \* the account whose job runs, or none ("idle")
  newDay,    \* the day has turned since the job began
  pending,   \* the sources it has still to come to
  asking,    \* the source whose query it polls
  polls,     \* the polls so far
  scans,     \* what that query really scans
  billed,    \* observation: what the queries of the day really scanned
  lost       \* observation: those of them it never reported

scanVars == <<enabled, pushed, usage, halted, scanJob, newDay, pending, asking, polls,
              scans, billed, lost>>
-----------------------------------------------------------------------------
(* readUsageTotal: the units that are entered, those of an account numbered. *)
Units(f) == UNION {{a} \X (1 .. f[a]) : a \in ScanAccount}

SumOver(f) == Cardinality(Units(f))

(* spendingConnections *)
Spending == {SourceOf[s] : s \in enabled}

Shares == IF Spending = {} THEN 1 ELSE Cardinality(Spending)

ExhaustedByShare(a) == usage[a] >= Cap \div Shares   \* mutant: only the first clause

(* budgetState *)
Exhausted(a) == usage[a] >= Cap \div Shares \/ SumOver(usage) >= Cap

RecordedOnce(a, n) == [usage EXCEPT ![a] = n]   \* mutant: set for add

Recorded(a, n) == [usage EXCEPT ![a] = @ + n]

ScanInit ==
  /\ enabled = Source /\ pushed = {}
  /\ usage = [a \in ScanAccount |-> 0] /\ halted = {}
  /\ scanJob = "idle" /\ newDay = FALSE
  /\ pending = {} /\ asking = NoSource /\ polls = 0 /\ scans = 0
  /\ billed = 0 /\ lost = 0
-----------------------------------------------------------------------------
(* The operator enables or disables a source, or forwards its group. *)
SwitchSource(s) ==
  /\ \/ enabled' \in {enabled \cup {s}, enabled \ {s}} /\ UNCHANGED pushed
     \/ pushed' \in {pushed \cup {s}, pushed \ {s}} /\ UNCHANGED enabled
  /\ UNCHANGED <<usage, halted, scanJob, newDay, pending, asking, polls, scans, billed,
                 lost>>

(* Midnight: the rows of a new day begin empty.  A job that is running     *)
(* goes on with the rows of the day it began.                              *)
DayTurns ==
  /\ IF scanJob = "idle"
     THEN /\ usage' = [a \in ScanAccount |-> 0] /\ halted' = {} /\ billed' = 0 /\ lost' = 0
          /\ UNCHANGED newDay
     ELSE ~newDay /\ newDay' = TRUE /\ UNCHANGED <<usage, halted, billed, lost>>
  /\ UNCHANGED <<enabled, pushed, scanJob, pending, asking, polls, scans>>

(* The job is over; after a midnight the next one finds the new day's rows. *)
Over ==
  /\ scanJob' = "idle" /\ newDay' = FALSE /\ pending' = {}
  /\ usage' = IF newDay THEN [a \in ScanAccount |-> 0] ELSE usage
  /\ billed' = IF newDay THEN 0 ELSE billed
  /\ lost' = IF newDay THEN 0 ELSE lost

StartScan(a) ==
  /\ scanJob = "idle"
  /\ {s \in enabled : SourceOf[s] = a} # {}
  /\ IF Exhausted(a)
     THEN halted' = halted \cup {a} /\ UNCHANGED <<scanJob, pending>>
     ELSE /\ scanJob' = a /\ pending' = {s \in enabled : SourceOf[s] = a}
          /\ UNCHANGED halted
  /\ UNCHANGED <<enabled, pushed, usage, newDay, asking, polls, scans, billed, lost>>

(* A group that is pushed is not queried as well. *)
SkipSource(s) ==
  /\ scanJob # "idle" /\ asking = NoSource /\ s \in pending /\ s \in pushed
  /\ pending' = pending \ {s}
  /\ UNCHANGED <<enabled, pushed, usage, halted, scanJob, newDay, asking, polls, scans,
                 billed, lost>>

(* The budget is asked again before each source. *)
StopScan ==
  /\ scanJob # "idle" /\ asking = NoSource /\ pending \ pushed # {}
  /\ Exhausted(scanJob)
  /\ halted' = IF newDay THEN {} ELSE halted \cup {scanJob}
  /\ Over
  /\ UNCHANGED <<enabled, pushed, asking, polls, scans>>

(* startLogsQuery fails... *)
SourceFails(s) ==
  /\ scanJob # "idle" /\ asking = NoSource /\ s \in pending \ pushed
  /\ ~Exhausted(scanJob)
  /\ pending' = pending \ {s}
  /\ UNCHANGED <<enabled, pushed, usage, halted, scanJob, newDay, asking, polls, scans,
                 billed, lost>>

(* ... or answers, and the query scans what it scans. *)
AskSource(s) ==
  /\ scanJob # "idle" /\ asking = NoSource /\ s \in pending \ pushed
  /\ ~Exhausted(scanJob)
  /\ pending' = pending \ {s}
  /\ asking' = s /\ polls' = 0
  /\ scans' \in 0 .. ScanMax
  /\ billed' = billed + scans'
  /\ UNCHANGED <<enabled, pushed, usage, halted, scanJob, newDay, lost>>

(* The poll finds it complete, or ended otherwise. *)
ScanReported ==
  /\ asking # NoSource
  /\ usage' = Recorded(scanJob, scans)
  /\ asking' = NoSource /\ scans' = 0 /\ polls' = 0
  /\ UNCHANGED <<enabled, pushed, halted, scanJob, newDay, pending, billed, lost>>

(* It finds it running, and sleeps. *)
StillRunning ==
  /\ asking # NoSource /\ polls < PollAttempts - 1
  /\ polls' = polls + 1
  /\ UNCHANGED <<enabled, pushed, usage, halted, scanJob, newDay, pending, asking, scans,
                 billed, lost>>

(* The poll fails, or the last one finds it running: what it scanned is    *)
(* not entered.                                                            *)
ScanLost ==
  /\ asking # NoSource /\ lost < MaxLost
  /\ lost' = lost + 1
  /\ asking' = NoSource /\ scans' = 0 /\ polls' = 0
  /\ UNCHANGED <<enabled, pushed, usage, halted, scanJob, newDay, pending, billed>>

EndScan ==
  /\ scanJob # "idle" /\ asking = NoSource /\ pending = {}
  /\ halted' = IF newDay THEN {} ELSE halted
  /\ Over
  /\ UNCHANGED <<enabled, pushed, asking, polls, scans>>

Scan == \/ \E s \in Source : SkipSource(s) \/ SourceFails(s) \/ AskSource(s)
        \/ StopScan \/ ScanReported \/ StillRunning \/ ScanLost \/ EndScan

ScanNext ==
  \/ \E s \in Source : SwitchSource(s)
  \/ DayTurns
  \/ \E a \in ScanAccount : StartScan(a)
  \/ Scan

ScanSpec == ScanInit /\ [][ScanNext]_scanVars
-----------------------------------------------------------------------------
ScanTypeOK ==
  /\ enabled \in SUBSET Source /\ pushed \in SUBSET Source
  /\ usage \in [ScanAccount -> Nat] /\ halted \in SUBSET ScanAccount
  /\ scanJob \in ScanAccount \cup {"idle"} /\ newDay \in BOOLEAN
  /\ pending \in SUBSET Source /\ asking \in Source \cup {NoSource}
  /\ polls \in 0 .. PollAttempts - 1 /\ scans \in 0 .. ScanMax
  /\ billed \in Nat /\ lost \in 0 .. MaxLost

(* The day's spend, as it is entered, passes the cap by less than what one *)
(* query scans, however the sources changed hands and whatever day it is   *)
(* when the job ends: the budget is asked before every query and a query   *)
(* is entered before the next.                                             *)
CapHolds == SumOver(usage) <= Cap - 1 + ScanMax \/ SumOver(usage) = 0

(* What the day really cost is what was entered, what the query under way  *)
(* scans, and the queries that were given up.                              *)
BilledIsKnown == billed <= SumOver(usage) + scans + lost * ScanMax

(* The budget is kept and knows what was billed.                           *)
BudgetIsTrue == CapHolds /\ BilledIsKnown
=============================================================================
