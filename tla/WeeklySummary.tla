----------------------------- MODULE WeeklySummary -----------------------------
(***************************************************************************)
(* The weekly summary: when one is due (notify/digest.ts), the settings    *)
(* row (store/digest-settings.ts) and the job of collector/digest-job.ts   *)
(* that queues one delivery per environment and destination, then marks    *)
(* the week.  The job is started an hour or more after it last was, at     *)
(* once after a restart; every delivery it queues is a write of its own.   *)
(***************************************************************************)
EXTENDS Integers

CONSTANTS
  Summed,     \* the environments
  Hour,       \* the hour of the schedule, in ticks
  Week,       \* WEEK_MS, in ticks
  MaxStops    \* bound: how often the collector is killed inside the job

ASSUME SummaryAssumption ==
  /\ Hour \in Nat \ {0} /\ Week \in Nat /\ Week > 2 * Hour
  /\ MaxStops \in Nat

VARIABLES
  clock,     \* the time of the week, from the Monday hour 0
  on,        \* settings.enabled
  chosen,    \* when the chosen hour of the chosen day begins
  sentAt,    \* the age of lastSentAt, capped at Week: never sent is long ago
  ranAt,     \* the time since the job last started, capped at Hour
  reach,     \* per environment, it was read and a destination is enabled
  summing,   \* the job: "idle" or "queueing"
  toSum,     \* the environments it has still to come to
  queuedAt,  \* observation: per environment, the age of its last summary
  doubles,   \* observation: per environment, the summaries within a week of another
  stops      \* the times the collector was killed inside the job

summaryVars == <<clock, on, chosen, sentAt, ranAt, reach, summing, toSum,
                 queuedAt, doubles, stops>>
-----------------------------------------------------------------------------
InChosenHour == (clock - chosen) % Week < Hour

DueFromMonday == on /\ InChosenHour /\ (sentAt = Week \/ sentAt > clock)   \* mutant: per calendar week

(* digestIsDue *)
DueNow == on /\ InChosenHour /\ sentAt = Week

SummaryInit ==
  /\ clock = 0 /\ on \in BOOLEAN /\ chosen \in {0, Hour}
  /\ sentAt = Week /\ ranAt = Hour
  /\ reach \in SUBSET Summed
  /\ summing = "idle" /\ toSum = {}
  /\ queuedAt = [e \in Summed |-> Week]
  /\ doubles = [e \in Summed |-> 0] /\ stops = 0

(* writeDigestSettings *)
SaveSummary ==
  /\ on' \in BOOLEAN /\ chosen' \in {0, Hour}
  /\ UNCHANGED <<clock, sentAt, ranAt, reach, summing, toSum, queuedAt, doubles, stops>>

(* An environment is read for the first time, or its destinations change. *)
ReachChanges(e) ==
  /\ reach' \in {reach \cup {e}, reach \ {e}}
  /\ UNCHANGED <<clock, on, chosen, sentAt, ranAt, summing, toSum, queuedAt,
                 doubles, stops>>

(* runDigestJob: it returns at once where no summary is due, or no          *)
(* destination is enabled at all; where one is, a week that reaches nobody *)
(* is marked like any other.                                               *)
StartSummary ==
  /\ summing = "idle" /\ ranAt = Hour
  /\ ranAt' = 0
  /\ \/ DueNow /\ summing' = "queueing" /\ toSum' = Summed
     \/ (~DueNow \/ reach = {}) /\ UNCHANGED <<summing, toSum>>
  /\ UNCHANGED <<clock, on, chosen, sentAt, reach, queuedAt, doubles, stops>>

(* queueDelivery, for an environment that is read and reaches somebody. *)
QueueSummary(e) ==
  /\ summing = "queueing" /\ e \in toSum
  /\ toSum' = toSum \ {e}
  /\ IF e \in reach
     THEN /\ queuedAt' = [queuedAt EXCEPT ![e] = 0]
          /\ doubles' = [doubles EXCEPT ![e] = IF queuedAt[e] < Week THEN @ + 1 ELSE @]
     ELSE UNCHANGED <<queuedAt, doubles>>
  /\ UNCHANGED <<clock, on, chosen, sentAt, ranAt, reach, summing, stops>>

(* markDigestSent *)
MarkSent ==
  /\ summing = "queueing" /\ toSum = {}
  /\ summing' = "idle" /\ sentAt' = 0
  /\ UNCHANGED <<clock, on, chosen, ranAt, reach, toSum, queuedAt, doubles, stops>>

(* The collector is killed inside the job, and runs it anew as it starts. *)
StopInSummary ==
  /\ summing = "queueing" /\ stops < MaxStops
  /\ stops' = stops + 1
  /\ summing' = "idle" /\ toSum' = {}
  /\ ranAt' = Hour
  /\ UNCHANGED <<clock, on, chosen, sentAt, reach, queuedAt, doubles>>

(* It is restarted in between: lastRunAt is kept in memory. *)
RestartBetween ==
  /\ summing = "idle" /\ ranAt' = Hour
  /\ UNCHANGED <<clock, on, chosen, sentAt, reach, summing, toSum, queuedAt,
                 doubles, stops>>

(* Time passes; the job itself takes none that a tick can see. *)
SummaryTick ==
  LET older(n, cap) == IF n < cap THEN n + 1 ELSE n IN
  /\ summing = "idle"
  /\ clock' = (clock + 1) % Week
  /\ sentAt' = older(sentAt, Week) /\ ranAt' = older(ranAt, Hour)
  /\ queuedAt' = [e \in Summed |-> older(queuedAt[e], Week)]
  /\ UNCHANGED <<on, chosen, reach, summing, toSum, doubles, stops>>

SummaryNext ==
  \/ SaveSummary \/ \E e \in Summed : ReachChanges(e) \/ QueueSummary(e)
  \/ StartSummary \/ MarkSent \/ StopInSummary \/ RestartBetween \/ SummaryTick

SummarySpec == SummaryInit /\ [][SummaryNext]_summaryVars
-----------------------------------------------------------------------------
SummaryTypeOK ==
  /\ clock \in 0 .. Week - 1 /\ on \in BOOLEAN /\ chosen \in {0, Hour}
  /\ sentAt \in 0 .. Week /\ ranAt \in 0 .. Hour
  /\ reach \in SUBSET Summed /\ toSum \in SUBSET Summed
  /\ summing \in {"idle", "queueing"}
  /\ queuedAt \in [Summed -> 0 .. Week] /\ doubles \in [Summed -> Nat]
  /\ stops \in 0 .. MaxStops

(* "What makes the send weekly rather than hourly": an environment has no  *)
(* second summary within a week of the one before, whatever day and hour   *)
(* the operator changes it to, but for a process killed between the first  *)
(* delivery and the mark.                                                  *)
OnceAWeek == \A e \in Summed : doubles[e] <= stops
=============================================================================
