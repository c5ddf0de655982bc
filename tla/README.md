# A verification project for OpsWatch

OpsWatch is a self-hosted monitoring application: a Next.js program in
TypeScript that polls cloud accounts, machines and web addresses, keeps what it
finds in one SQLite file, detects problems, groups them into incidents, raises
alerts and sends notifications. This directory models the part of it that
decides, retries and races: TLA+ modules translated from the source, TLC runs on
small instances, and theorems checked by TLAPS for every value of the constants.

Paths below are relative to `src/src/lib/` unless they begin with `src/`.

To repeat the checks, in this directory:

    tlc -workers 2 -config notify_once.cfg MCNotify    # any run of PROJECT.json
    tlapm NotifyProofs.tla                             # any of the eight proof modules

`PROJECT.json` lists components, runs, mutants, findings, hazards and theorems,
and, for each definition that models code, the lines it stands for.

## 1. Inventory

### What an atomic step is

The database is opened with better-sqlite3, which is synchronous. One statement,
or one `db.transaction(...)`, is therefore one atomic step, and JavaScript
between two awaits is one section that no other callback of the same *process*
can enter. Two things do cut a section: another *process* on the same file (the
collector lock exists because this is a supported set-up, and a redeploy overlaps
two of them), which can act between two statements, and a crash. The modules use
exactly these grains: a step is a statement or a transaction where another
process or a death can tell the difference, and a whole section where nothing
can.

### Components

| Component | State it keeps | Operations | What must hold | Modelled |
|---|---|---|---|---|
| Collector runtime (`collector/runner.ts`, `store/collector.ts`, `src/src/instrumentation-node.ts`) | lock row, run rows; in memory: timer, `running`, `lastRunAt` | start, tick, check-in, run a job, stop | one process collects; a lost lock ends a cycle; every job keeps its cadence; a dead process delays the others only by the stale window | `Collector`, `SingleCollector` |
| Problem lifecycle (`detect/`, `collector/detect.ts`, `store/problems.ts`, `store/retention.ts`) | `problems` and the events it appends | the detect cycle, retention | one live row per key; resolution on evidence only; a failed read is not a quiet one; a flap continues its row | `ProblemLifecycle` |
| Notifications (`collector/notify-job.ts`, `notify/deliver.ts`, `store/notifications.ts`, `store/connection-data.ts`) | destinations, deliveries | create, switch, delete; queue; send, retry, give up; removal of a connection | a delivery ends; bounded repeats; what ended stays ended; accounts stay apart | `Notify` |
| Alerts (`collector/alerts.ts`, `detect/alert.ts`, `store/alerts.ts`, `alerts/actions.ts` of the pages) | rules, `alerts` | the alert cycle, acknowledge, rules, purge | one open alert per key; no fire without its deliveries; acknowledged is silent; a cycle leaves open what it found firing | `AlertCycle` |
| Incidents (`collector/incidents.ts`, `detect/incident.ts`, `store/incidents.ts`) | incidents, their problems, timeline | open, attach, tell; resolve, dismiss | a service is in one open incident; a dismissal silences; what comes together is covered | `IncidentCycle` |
| Weekly summary (`collector/digest-job.ts`, `notify/digest.ts`) | settings, one timestamp | decide, queue, mark | one per week | `WeeklySummary` |
| Errors and budget (`collector/errors-job.ts`, `errors-detect.ts`, `store/errors.ts`, `store/logs-budget.ts`) | sources, bytes scanned, groups | query, poll, enter; record, judge, link | the cap holds; a regression had a silence; what is new is raised | `LogScan`, `ErrorGroups` |
| Log ingestion (`collector/ingest-job.ts`, `store/collection.ts`) | queue of lines, their ids | accept, drain, sweep | nothing accepted is lost, nothing is counted more than it came | `LogPush` |
| Synthetic checks (`collector/synthetics-job.ts`, `detect/synthetic.ts`, `store/synthetics.ts`) | checks, their runs | request, record, judge; create, edit, delete | a verdict has its runs; an outage is raised | `SyntheticChecks` |
| History and objectives (`collector/metrics-job.ts`, `store/history.ts`, `detect/slo.ts`, `collector/slo-burn.ts`) | points, definitions | file, measure, burn; create, change, delete | a burn is real; a stricter objective is no quieter | `Objectives` (partly) |
| Sign-in (`auth/`) | limiter, throttle, administrator, sessions | attempt, wait, verify; create the administrator; draw, validate, end a token | the line moves and loses nobody; one administrator; a token is good as long as it should be | `LoginThrottle`, `Sessions` |
| Log search (`monitoring/shared/logs-poller.ts`, `logs-explorer.tsx`) and the read cache (`monitoring/cache.ts`) | running queries; pending results | start, poll, stop; read through | what was started is stopped; one load per key; a late answer does harm to nobody | `LogSearch`, `ReadCache` |
| Forwarding (`aws/collection.ts`) | forwarded groups, and filters in the account | enable, disable, start, stop, verify | rows and filters agree | `Forwarding` |
| Machines and their agent (`store/hosts.ts`, `collector/machine-alerts.ts`) | hosts, their last report, their place | report, place, rename, delete; alert | the first account keeps a machine; alerts catch up | `Machines` |
| Connections (`connections/`, `aws/credentials.ts`, `monitoring/target.ts`) | connections, cached credentials | create, change, test, read, remove | called working only by a test of it; a read gets what it asked for | `Connections`; removal also in `Notify`, `AlertCycle`, `Machines` |
| Score, severity, fleet, correlation; deployments; event spine; database and backups; provider clients; read side and assistant; pages and mobile | see `PROJECT.json` | | | no, see section 7 |

### How they interact

    instrumentation-node --start--> collector runtime --tick--> jobs, one by one
      detect job:  provider families -> problems -> incident cycle -> alert cycle
                                                                       | queueForDestinations
      digest job ------------------------------------------------------v
      notify job <------------------------------------------- notify_deliveries
         '--> receivers (webhook, Slack, ...)
      errors, synthetics and ingest jobs write problems of other subject types
      through the same applyCycle and applyTransitions
      metrics job --> history --> objectives --> candidates of the alert cycle
    forwarder in the account --> ingest endpoint --> queue --> ingest job --> error groups
    agent on a machine --> report --> hosts --> candidates of the alert cycle
    pages --> sign-in --> connection --> credentials --> read cache --> provider
    operator (server actions) --> destinations, rules, acknowledge, connections
      removing a connection purges alerts and problems, unscopes destinations,
      and leaves its pending deliveries

They share state, the database, and call each other synchronously inside a job;
the only callbacks are timers and the promises of provider and receiver calls.

### What is hard about it

* *Interleaving.* Two processes in a tick, in a detect job, in an alert cycle or
  in a notify job; the operator acting while a job awaits, and, from a web container
  beside the collector (`runner.ts:45`), between two statements of any job.
* *Stale reads.* A detect cycle plans on rows and applies later; a notify job
  reads its batch once; a page acknowledges what it showed a minute ago.
* *Failure in the middle.* Rows and their events, alerts and their deliveries,
  incidents and their problems, summaries and the mark of their week are separate
  writes.
* *Answers that come late.* A connection is changed while its test awaits the
  cloud, a cache entry is pushed out while its load pends, AWS does what it was
  asked and the answer is lost, a page is left while its query is being started.
* *Time.* A lock goes stale by age, clear spells, windows, cooldowns and backoffs
  are compared with `nowMs` of a cycle that may have started long ago.
* *Partial evidence.* A family that failed or was cut at a page boundary must not
  look like one that found nothing.

`PROJECT.json` "hazards" lists the 40 that matter most, at their lines, with the properties
that cover them or the reason none does.

## 2. The modules

    SingleCollector <--refines-- Collector <-- MCCollector
    ProblemLifecycle <-- MCProblemLifecycle
    Notify <-- MCNotify
    Notify <--extends, refines-- AlertCycle <-- MCAlertCycle
    Collector, ProblemLifecycle, Notify <-- MCEventually             (what must eventually happen)

    LogPush, LogScan, IncidentCycle, WeeklySummary,
    ErrorGroups, SyntheticChecks, Objectives        <-- MCJobs       (the jobs beside detection)
    LoginThrottle, Sessions, ReadCache, LogSearch,
    Forwarding, Machines, Connections               <-- MCRequests   (what serves requests)

    CollectorProofs, ProblemLifecycleProofs, NotifyProofs, AlertCycleProofs (extends NotifyProofs),
    LogPushProofs, JobsProofs (MCJobs, extends LogPushProofs),
    SignInProofs (LoginThrottle, Sessions), RequestsProofs (MCRequests, extends SignInProofs):
    each extends its module

The modules under `MCJobs`, `MCRequests` and `MCEventually` share no variable: where
one of them depends on another part of the system, that part's effect is an action
or a free choice of its own module. Their product would say nothing about one that
the module alone does not say, so the variable `part` is chosen once and each
behaviour runs one module, while the others stay where they start. A property of
such a run that names several parts is the conjunction of theirs.

An operator marked `\* mutant` is not part of any specification. It states a
plausible bug of the definition that follows it; put in that definition's place,
it makes the named property fail. The mutants in `PROJECT.json` say which.

### Collector, SingleCollector

| Variable | Code |
|---|---|
| `lock` | the row of `collector_lock`: owner, and the age of `heartbeat_at` |
| `pc`, `due`, `current` | where a process is in `tick` and its loop over `dueJobs` |
| `sinceRun` | the age of `lastRunAt` per process and job, in memory and so lost in a crash |
| `sinceCheckIn` | time since this process claimed or refreshed the lock |
| `stopped` | `stop()` was called (nothing in production calls it; a test does) |
| `connected` | the environments `dueJobs` is computed over |
| `latestRun` | per job, the newest `collector_runs` row and the process that wrote it |

`Start` is `startCollector`; `Claim` is `tick` up to the list of due jobs;
`BeginJob` is the check-in and `startRun`; `AbortCycle` a check-in that changed no
row; `EndJob` is `finishRun` for a job that returned or threw; `Stop` releases
the lock; `Crash`, `Reconnect` (environments come and go) and `Advance` (time) are
the environment. `SingleCollector` says what the lock is for: the set of processes
that are collecting has at most one member, and it changes by one entering an
empty set or the member leaving. `Collector` implements it with
`collecting <- Collecting`, the processes inside a job.

### ProblemLifecycle

| Variable | Code |
|---|---|
| `row` | the `problems` table: status, key, `resolvedAt` or `lastEvaluatedAt`, the clear streak and its start, `previousProblemId` |
| `owed` | the event the last transition of a row has still to append |
| `pc`, `began` | where `runDetectJob` is, and the age of its `nowMs` |
| `plan`, `left`, `note` | the transitions of `applyCycle` not yet applied, and the event due next |
| `saw`, `quiet`, `looked` | observation: what the cycle found, evaluations since a key last fired, age of the last evaluation |

`Begin` captures the clock and starts the reads. `Plan` is the synchronous section
after them: each family was read in full, in part or not at all; each key fires,
clears, or has no outcome (`Turn`, `Outcome`, `Firing`, `Clearing`). `Apply` is
one transition as its transaction, `Note` the event after it, `Refused` the unique
index refusing an insert, which throws away the rest of the cycle, `Finish` its
end. `Compact` is retention, `Die` a cycle cut short by a crash or an unusable
connection, `Advance` time. `Shared` names the keys two resources share, as two ECS
services of one name in two clusters do: such a key has two outcomes per cycle.

### Notify

| Variable | Code |
|---|---|
| `dest` | `notify_destinations`: enabled or not, and its connection |
| `delivery` | `notify_deliveries`: status, attempts, time left until `nextAttemptAt` |
| `gone` | the connections removed |
| `job`, `batch`, `target`, `seen`, `began` | a notify job: the batch it read, the delivery it awaits, the attempts it read, the age of its `nowMs` |
| `made`, `sends` | observation: the scope a destination was made with, requests sent |
| `crashes` | bound on deaths inside a job |

`Queue` is `queueDelivery` for each matching destination; `Create`, `Toggle`,
`Delete` the operator; `Disconnect` is `purgeConnectionData`; `StartJob` reads
the due batch; `Skip`, `Send`, `Accepted`, `Retried`, `GivenUp` are the branches of
`runNotifyJob` around its await; `EndJob`, `Crash`, `Tick`.

### AlertCycle

| Variable | Code |
|---|---|
| `alert` | the `alerts` table: state, key, whether acknowledged, age of `lastFiredAt` |
| `cycle`, `scope`, `fires`, `firing`, `opens`, `owes` | where `runAlertCycle` is: environment, candidates still to decide, `stillFiring`, the key being opened, deliveries still to queue |
| `hushed`, `told`, `due`, `lost` | observation: acknowledged keys until found quiet, age of the last announced fire, deliveries that should exist, alerts a process died announcing |
| `deaths` | bound on deaths inside a cycle |

`Begin` and `Evaluate` are the detect job up to its matched candidates;
`Suppress`, `Refire` and `FindNone` are the three decisions, `OpenAlert` is the
alert with the destinations read for it, `QueueOne` one delivery, `Refused` an
insert that throws (an alert that is open already, a rule or a destination that is
gone: `Conflict`, `Orphans`, `Accepts`), `Resolve` is `resolveAlertsExcept`,
`Finish` the end; `Unread` is a cycle that could not read; `Die` a crash.
`Acknowledge`, `Purge` and `Manage` are the operator. Nothing keeps the operator out
of a cycle: the section of a process holds up the requests that this process serves,
not those of the web container beside it. A connection that is removed
under its cycle takes the rules with it, and a cycle that holds candidates for them
is "orphaned": it knows no open alert, and its next insert is refused. `NotifyJob` is
any step of the notify job, of any process. Time alone stands still in a section
(`Quiescent`). The module extends `Notify` and its messages are the alerts.

### LogPush

`queued` and `kept` are the lines of `ingest_events` without and with a
`processedAt`, `ahead` the order of their `seq`, `managed`, `takes` and `keeps` the
switches of an account; `drain`, `batch`, `taken`, `toCount` say where the job is.
`Deliver` is the endpoint storing a line, for the first time or again;
`StartDrain` reads the oldest, `CountGroup` is one `recordError`, `MarkProcessed` and
`Sweep` are the two statements that follow; `SaveCollection`, `EnableCollection`,
`DisableCollection` are the operator, `FallDrain` a death between two writes.
`stored`, `counted`, `dropped` count what happened to each line.

### LogScan, ErrorGroups

`LogScan`: `usage` is `logs_usage` of the day the job began, `pending` and `asking`
the sources still to come and the one whose query is polled. `StartScan`,
`AskSource` and `SkipSource` are the loop over the sources and the question it asks
the budget before each, `ScanReported`, `StillRunning` and `ScanLost` the ends of a
poll, `DayTurns` midnight under a job, `SwitchSource` the operator.

`ErrorGroups`: `groups`, `status`, `seen` are the error groups, `problems` and
`link` their live problems. `RecordError` is a line, on time or late; `JudgeErrors`
the cycle over the oldest groups, `LinkErrors` the write after it, `DieUnlinked` a
death between.

### IncidentCycle

`trouble` is what the rule reads of a problem, `incident` and `incidentOf` the rows.
`PlanIncidents` is `incidentCandidates` (per service: `Candidate`), `OpenIncident`,
`Attach` and `Tell` the three kinds of write, `EndCycle` and `DieInCycle` its ends;
`SetResolved` and `Dismiss` the incident page, possibly in the middle of a cycle.
`quiet` remembers the latest dismissal of a service on its own, `overruled` the
services dismissed after the cycle had planned, and `closed` those whose incident was
resolved since. `UserFacing` is the `u` term of a problem that names a service:
null while the problem is fresh, then 0, since the detectors that name a service
leave `userFacing` null (`detect/aws.ts:153`, `detect/errors.ts:83`) and the one that
sets it names none (`collector/synthetic-detectors.ts:50`). The second trigger of
the rule (`Lasting`) is modelled as it is, and so never holds (section 5).

### WeeklySummary, SyntheticChecks

`WeeklySummary`: `clock`, `chosen`, `sentAt`, `ranAt` are all that `digestIsDue` and
the scheduler compare; `StartSummary`, `QueueSummary` (one delivery each) and
`MarkSent` are the job, `StopInSummary` and `RestartBetween` the deaths, after which
a job runs at once.

`SyntheticChecks`: `StartProbes`, `Request`, `RecordRun`, `JudgeChecks` are the job,
one request awaited at a time; `UpsertCheck` and `DeleteCheck` the operator, who may
act during that await, so that `RunRefused` is the run of a check that is gone,
which the foreign key refuses and which ends the job.

### Objectives

`NewInterval` is the metrics job at the end of an interval: it reads the last five
minutes and files them under the interval before, or does not run. `Measured`,
`Failed`, `Enough`, `AtLeast`, `BurnAlert` and `Speeds` are `measureSlo` and
`burnAlert` over a window, `AlertBurns` the candidates in the alert cycle;
`SetHistory`, `SaveObjective`, `DeleteObjective` the operator.

### LoginThrottle, Sessions

`LoginThrottle`: `hits` and `tracked` are the limiter, `failures` the recent failed
sign-ins, `chain` the promise chain of the slowdown, `stage` where each attempt is.
`LetThrough` and `OverBudget` are the entry, `TakeTurn`, `WakeUp` and `Answer` the
three awaits, `Throw` a verification that throws.

`Sessions`: `BeginAdmin` and `InsertAdmin` are the two halves of the first
administrator around the hash; `CreateSession`, `Validate`, `EndSession` the tokens
of two audiences. `age`, `rest` and `ended` are what is true of a token whatever its
row says; `answered` keeps who was admitted, with the rest the token had then.

### ReadCache, LogSearch

`ReadCache`: `used` is the order of the map, `entry` its values, each the pending
promise of a `load`. `ReadHit` and `ReadMiss` are a read, `Succeeds` and `Fails` a
load that settles, possibly long after it was pushed out.

`LogSearch`: `loop` is where `pollLogs` is, `query` what the cloud does with it,
`idRef` and `page` what the explorer knows, `named` whether the id of the query ever came.
`NotStarted` is a start that failed or whose answer was lost, and then the query may run. `Started`, `PollFindsEnd`,
`PollFindsRunning`, `PollFails`, `Wakes`, `StopAnswered` are the awaits of the loop;
`QueryAccepted` and `QueryEnds` the cloud; `Abort` and `PageHides` the reader.

### Forwarding, Machines, Connections

`Forwarding`: `groupRow` is the table, `filter` and `vendor` the account. A request
describes, decides (`Decide`, the conflict rule), puts or deletes, and AWS does what
it was asked, refuses, or does it and the answer is lost (`Describe`, `Put`,
`Delete`); what the request writes when it has the answer is a later step
(`Described`, `PutAnswered`, `Deleted`); two requests may run. A process that dies
between the two is not modelled.

`Machines`: `host` is the table, `listing` the instances pages that await the cloud
before they place a machine, `readable` the environments whose credentials resolve;
`Report` is the agent, `CredentialsChange` a role that can no longer be assumed, or can
again, `AlertMachines` the candidates of the alert cycle with what they open and
resolve, in a detect job that came that far: one without credentials throws before
(`collector/detect.ts:64`). Only the AWS pages place machines, so the early return for a
provider without families (`detect.ts:51`) concerns none of them.

`Connections`: `status`, `method`, `version`, `roleSaved`, `lastTest` are a row,
`creds` the cached role credentials; `call` is a test or a read under way.
`BeginTest`, `BeginRead`, `CredentialsCome`, `CredentialsFail`, `EndTest` are the
awaits; `SaveRoleArn`, `SaveAccessKeys`, `RegenerateExternalId`, `SaveDetails` change
the row, and `ForgetCredentials` is a statement later; `BeginRemove` and `EndRemove`
lie around the removal of its forwarding.

### What is abstracted

* A timestamp is its age, capped at the smallest value beyond which no comparison
  tells ages apart. Time therefore needs no bound, and boundary cases (`<` or
  `<=`) are kept.
* A rule that is off, a severity below its floor and a subject that is not live
  all mean: the key is not matched. Creating and switching rules is not modelled.
* `suppressedCount`, the counters `recordAttempt` keeps per destination, test
  deliveries, payloads, signatures, evidence bundles and scores are left out.
* The notify query names no order, so any batch of the right size may be read.
* An alert cycle takes no time: it has no await.
* Texts, fingerprints, latencies and certificates are left out: a line is its id, a
  run of a check passes or it does not, an interval of a service is good or bad.
* What a provider returns, and what a receiver does, is chosen freely. A receiver
  may have acted on a request the job takes for failed.

## 3. The runs

Passing runs:

| Run | Asks | Instance | Distinct states |
|---|---|---|---|
| `collector_prompt` | does one process collect, while no process goes longer than the stale window between two check-ins, and is a lock that was lost (`stop()`) left alone? | 2 processes, 2 jobs, intervals 1 and 2, stale window and longest job 1 | 27,000 |
| `problems_history` | the whole life of a subject: is each resolution earned, and its history one line? | 1 key, 3 rows, 3 clear evaluations, clear spell 1 < reopen 2 < retention 4 | 1,059,000 |
| `problems_overlap` | can two processes in a detect job make two live rows? | 2 collectors, a shared name | 1,560,000 |
| `notify_once` | bounded repeats, final results, accounts apart, while one of the two accounts may be removed | 1 worker, 1 message, 2 destinations, 2 environments, 3 attempts, batch 2, 1 crash | 1,134,000 |
| `alerts_cycle` | does a cycle leave open what it found, is acknowledged silent, is a fire lost only where it was cut short? | 2 keys, 2 alert rows, 2 destinations, cooldown 1, a death, the operator within the cycle | 1,078,000 |
| `alerts_send` | do overlapping cycles, the notify job and an operator within them keep to the queue? | 2 collectors, 1 worker, a removed connection, a crash | 1,135,000 |
| `jobs` | do the jobs beside detection lose, repeat, overspend or invent anything? | the seven modules of `MCJobs`, one death each | 202,000 |
| `requests` | does what serves requests keep its promises in every order of its awaits? | the seven modules of `MCRequests` | 292,000 |
| `eventually` | does everybody who stays up collect, is what healed resolved, does every delivery end? | 2 processes whose stale window is shorter than a job; 1 key, 2 rows; 2 workers and a removed connection; fairness | 165,000 |

Runs in which TLC finds what the code does to disagree with what it says:

| Run | Property | What it shows |
|---|---|---|
| `collector_overrun` | `OneCollects` | The lock is refreshed between jobs, never during one (`runner.ts:137`). A job longer than `LOCK_STALE_MS` lets a second process collect beside it, against the header of `runner.ts` and the comment that one slow cycle is survivable. Twenty slow receivers in one notify job are enough. |
| `notify_orphan` | `OwnAccountOnly` | Removing a connection sets the connection of its destinations to null (`connection-data.ts:116`), which `destinationsFor` reads as *every* connection: an endpoint made for one account then receives the alerts of all others, against the comment at `alerts.ts:48`. |
| `alerts_flap` | `CooldownBetweenFires` | A subject that resolves and fires again inside the cooldown opens a new alert (`detect/alert.ts:122`) and is announced at once; the design says such a fire sends nothing. |

### What the properties say

* `OneCollects`, `ImplementsSingleCollector`: no two processes are inside a job.
  `RunningMeansRunning`: a newest run row that says running belongs to a job
  somebody is in, or to a process that died. `NoResurrection`: a process that lost
  the lock while busy does not get it back within that cycle. `KeepsCollecting`:
  while at least one process stays up, every instance-wide job is run again and
  again, by somebody.
* `OneLivePerKey`. `ResolvedOnEvidence`: a resolution follows enough clear
  evaluations in a row, over long enough, each of a family read in full.
  `StaleIsHonest`: what staleness is judged by is the age of the last real
  evaluation. `HistoryIsLinear`: a row that was succeeded is resolved, and no row is
  succeeded twice, so `previousProblemId` is one line per key. `FlapContinues`:
  trouble that returns inside the reopen window continues its row.
* `BoundedRequests`: a receiver sees a delivery at most `MAX_ATTEMPTS` times, and
  once more per death. `SettledStays`: delivered or given up is final.
  `AccountsApart`: a destination made for an account that still stands holds no
  message of another, whichever others are removed.
* `ProblemsAndDeliveriesSettle`: a problem whose subject is read in full and stays
  quiet is resolved (`HealedResolves`), and every delivery ends
  (`EveryDeliverySettles`).
* `OneOpenPerKey`. `FireIsQueued`: a delivery due for an alert that opened exists,
  or its cycle is still to queue it and goes no further before; it is missing only
  if a process died announcing that alert, or a destination of that alert was
  deleted before its own row. `CycleSettles`: a cycle that is done leaves open
  exactly what it found firing, and nothing once its environment was removed under
  it. `AckIsSilent`: no alert opens for an acknowledged subject until a cycle found
  it quiet. `NotifySpec`: every step of alerts, operator and notify job is one the
  queue allows: no row across accounts, none for a destination that is gone.

Of `jobs`:

* `QueueAccounts`: an accepted line is queued, counted, or was dropped with its
  account by the operator (`AcceptedIsCounted`), and it is counted at most once for
  each time it came and once for each death (`CountedPerStore`). `OldestFirst`: no
  line is processed while one queued before it waits.
* `MeasuresAreTrue`: the day's entered spend passes the cap by less than one query,
  and what was billed is what was entered, the query under way, and the queries
  given up (`BudgetIsTrue`); of two objectives over one history the stricter is no
  quieter (`StricterIsLouder`).
* `OneOpenPerService`; `DismissalHolds`: no incident of a dismissed service opens
  within the suppression window, but by a cycle that had planned it before.
  `TogetherIsCovered`: a cycle that ends leaves no service with two critical problems
  within the window, its last instant included, without an open incident, unless a
  dismissal silences it or its incident was closed while the cycle wrote.
* `OnceAWeek`: no account is sent two summaries within a week of each other, but
  for a process killed between the first delivery and the mark.
* `VerdictsHaveGrounds`: a group regresses only after its silence
  (`RegressionMeansSilence`), a check is raised only on failed runs and resolved
  only on one that passed (`VerdictHasGrounds`), a burn is of a service that failed in
  that window, with a quarter of it on record (`BurnIsReal`).
* `JobsCatchUp`: every queued line is processed or dropped (`DeliveredIsCounted`),
  two problems that stay together come to an open incident, whatever was closed or
  cut short before (`TroubleIsRaised`), a new group is raised (`NewIsRaised`), an outage is raised
  though deletions abort the job (`OutageIsRaised`).

Of `requests`:

* `SignInIsHeld`: the counter of those waiting is the line itself, only its head is
  verified, and a client is let through `limit` times a window. `SlowdownSpaces` and
  `OwnOutcome` (in `TurnsAndPlacesHold`): verifications of the line are an interval
  apart, and nobody leaves the line by another's verification.
* `SessionsHold`: one administrator; who is admitted holds a token of that audience,
  used within its window, below its ceiling and not ended; a token in use keeps its
  row.
* `CachesHold`: the cache is bounded and in order, one load pends per key, what is
  handed out is fresh (`CacheHolds`); a read gets credentials of the external id it
  asked with, not about to expire (`CredentialsAreAsked`).
* `SearchIsReined`: a query left running has had its stop asked for, unless its id
  never came, the answer to the start being lost or its page gone before; and a search
  is over soon after its timeout.
* `RowsAgreeWithCloud`: an active group has its filter and a filter has its row or
  was reported (`Forwarding`); a machine is placed where a connection is
  (`PlaceIsConnected`); a connection is called working only by a test of what it
  holds, and only when it can be read (`StatusIsEarned`, `UsableIsReady`).
* `PlacementIsKept` (in `TurnsAndPlacesHold`): the first account to find a machine
  keeps it.
* `RequestsComeToAnEnd`: every turn in the line comes, every search ends, and the
  alerts of machines catch up with the machines, where and for as long as the
  credentials of their environment resolve (`AlertsCatchUp`).

### Bounds, and why they are enough

* Two processes, collectors or workers: every conflict in the code is between a
  writer and one other, and each proof that covers many is for any number.
* Lengths keep the real *order*, not the real ratio: a clear spell (15 min) is
  shorter than the reopen window (2 h), which is shorter than retention (30 days).
  A check-in interval is at or over the stale window, the only thing `tick` tests.
* Three attempts for `MAX_ATTEMPTS = 4`: a first, a middle one and a last.
* The sets of row ids (`Id`, `Message`) are the bound on rows kept at once; a
  process that finds none left does not open. Three rows let a key be succeeded
  twice with the first still retained, or deleted under its successor.
* `MaxCrashes` and `MaxDeaths` bound deaths inside a job or cycle; a death
  elsewhere leaves nothing half done. `ReadMax` and `JobMax` bound how long a
  cycle awaits.
* `problems_history` and the proofs about evidence have one collector, because
  with two the code does resolve on a plan made before another process recorded a
  firing. The overlapping case is `problems_overlap`.
* `jobs`: two lines of one account, stored up to twice, so that a line can come
  again while the first is queued, counted or swept; a batch of one, so that the
  second always waits. Two accounts that share a cap of two, each query scanning up to
  two: one query can overrun both. Two problems of one service and two incidents: a
  dismissed one beside an open one; two is also what the first trigger takes. A week of five ticks and hours of two: the chosen
  hour may be met twice in one week, or passed over. One group, with a gap shorter
  than a silence. Two checks: one is deleted while the other is awaited. Objectives
  of 1 and 10 percent: one whose total outage burns fast, and one whose does not;
  a fast window inside a slow one. The fast window is assumed longer than an interval
  (it is an hour, of twelve): the metrics job has filed nothing of the interval under
  way, so over a window of one nothing is ever measured.
* `requests`: three attempts of two clients, a line of at most two; two tokens for two
  audiences, whose windows are shorter than their ceilings; two keys, room for one, and
  three loads, so that a load is pushed out, made again, and settles last; a timeout
  of three polls; two requests at one log group with two forwarders it may point to;
  one host row, two machines that report as it, two environments; two calls over a
  connection that may be changed once under either.
* `MaxStores`, `MaxLost`, `MaxVersion`, `FailCap`, `LateMax`, `Longest` and the `Max` of deaths of each
  module (`MaxFalls`, `MaxGaps`, `MaxStops`) are bounds of the model, not of the code.

### Fairness, and why the code justifies it

A behaviour of `jobs`, `requests` and `eventually` stays in one part, so each
fairness condition below is that part's.

* `Collector`: time passes; a tick whose timer is set happens, and is not for
  ever kept from the lock at the very moments it could claim it (`SF` on `Claim`
  and `BeginJob`: `setInterval` fires whatever happened the time before); a job
  ends. The last is an assumption about the provider clients: a promise that never
  settles keeps `running` true for ever, which `PROJECT.json` lists as a hazard no
  property covers.
* `ProblemLifecycle`: cycles are begun, and what is begun ends; retention runs.
* `Notify`: time passes, and a worker that can step steps: the tick starts the
  job, and each request to a receiver has a timeout.
* `LogPush`, `LogScan`, `IncidentCycle`, `ErrorGroups`, `SyntheticChecks`: the job
  that runs takes its next step, as every job of a collector that stays up does;
  each of its own requests has a timeout (a synthetic check, a poll) or is
  synchronous. Deliveries of lines, deaths and the operator are not fair. A job that
  needs the cloud and finds no credentials ends before it begins: `LogScan` and
  `IncidentCycle` are of an environment whose credentials resolve, so that
  `TroubleIsRaised` promises nothing of one whose do not.
* `LoginThrottle`: time passes, and an attempt that can go on does: its timer fires,
  and verifying a password ends. `LogSearch`: time passes, and each call the loop
  awaits settles. `Machines`: the alert cycle of an environment runs while the
  environment is connected and its credentials resolve, and not otherwise: the
  condition is weak fairness of a step that both of them enable, and `AlertsCatchUp`
  ends where either is lost.

Nothing assumes that a receiver answers, that a provider returns a page, that an
operator acts, or that a process stays up, except where a liveness property names
it in its premise.

## 4. The theorems

About 8,500 obligations in eight modules, all checked by TLAPS, from the named
`ASSUME` of each module only (types of the constants, and for lengths the order
the real values have). Where a theorem needs more it says so as a premise.

| Theorem | For every value of the constants | Premise |
|---|---|---|
| `CollectorProofs!TypeCorrect` | types | |
| `HolderCorrect`, `OneProcessCollects`, `Refinement` | the lock protects the jobs; the loop implements `SingleCollector` | `JobMax <= StaleAfter` |
| `RunRowsHonest`, `LostIsLost` | `RunningMeansRunning`, `NoResurrection`, however slow the jobs | |
| `ProblemLifecycleProofs!LifecycleTyped` | types | |
| `OneLiveRow` | `OneLivePerKey`, any number of collectors | |
| `ResolutionIsEarned`, `StalenessHonest` | `ResolvedOnEvidence`, `StaleIsHonest` | one collector |
| `OneLineOfHistory`, `FlapsContinueARow` | `HistoryIsLinear`, `FlapContinues` | one collector |
| `NotifyProofs!NotifyTyped` | types, any number of workers | |
| `RequestsBounded`, `SettledIsFinal` | `BoundedRequests`, `SettledStays` | one worker |
| `AccountsKeptApart` | `AccountsApart`, any number of workers, whichever connections are removed | |
| `AlertCycleProofs!AlertsTyped`, `OneOpenAlert` | types, `OneOpenPerKey`, any number of collectors | |
| `AlertsUseTheQueue` | `Spec => NotifySpec`, the operator at any statement of a cycle, and with it the bounds of `Notify` hold of the alerts (`AlertRequestsBounded`, `AlertAccountsKeptApart`) | as there |
| `FiresAreQueued` | `FireIsQueued`, any number of collectors, deaths and operators | |
| `AcknowledgedIsSilent` | `AckIsSilent` | |
| `CyclesSettle` | `CycleSettles` | one collector |
| `LogPushProofs!PushTyped`, `QueueIsAccounted`, `ProcessedOldestFirst` | types, `QueueAccounts`, `OldestFirst`, any batch and any number of deaths | |
| `JobsProofs!IncidentsTyped`, `OneOpenIncident`, `DismissalIsHeld` | types, `OneOpenPerService`, `DismissalHolds`, with deaths between any two writes | |
| `CyclesCover` | `TogetherIsCovered`, any problems, services and windows | |
| `JobsTyped` | `TypeOK`, all seven jobs | |
| `MeasuresOfJobsAreTrue` (of `BudgetIsKept`, `LoudnessHeld`) | `MeasuresAreTrue`, any sources, accounts, cap and scan sizes, any allowances and windows | |
| `VerdictsOfJobsHaveGrounds` (of `RegressionsWereSilent`, `VerdictsOfChecks`, `BurnsAreReal`) | `VerdictsHaveGrounds`, any gap, lateness, history and windows | |
| `SummariesOfJobsAreWeekly` | `OnceAWeek`, any environments and any number of deaths | |
| `QueueAndIncidentsOfJobsHold` | what `LogPushProofs` and the first two rows of `JobsProofs` say, of `MCJobs` | |
| `SignInProofs!ThrottleTyped`, `SignInHeld`, `VerificationsAreSpaced`, `OutcomesAreOwn` | types, `SignInIsHeld`, `SlowdownSpaces`, `OwnOutcome`, any attempts, clients, limits and windows | |
| `SessionsTyped`, `SessionsAreSound` | types, `SessionsHold`, any tokens, windows and ceilings | |
| `RequestsProofs!RequestsTyped` | `TypeOK`, all seven parts | |
| `SignInOfRequestsIsHeld`, `SessionsOfRequestsHold`, `NothingIsTaken` | `SignInIsHeld`, `SessionsHold`, `TurnsAndPlacesHold` | |
| `WhatIsKeptIsGood` (of `CacheIsSound`, `CredentialsAreOfTheirRow`) | `CachesHold`, any bound, time to live and refresh window | |
| `SearchesOfRequestsAreReined` | `SearchIsReined`, any timeout and polling interval | |
| `TablesAgreeWithCloud` (of `RowsAndFiltersAgree`, `StatusesAreEarned`, `PlacesAreConnected`) | `RowsAgreeWithCloud`, any groups, forwarders, requests, machines and environments | |

The premises are the findings read backwards: where one is dropped, TLC has a
counterexample (`collector_overrun` for the first; see section 5 for the others).
`AccountsKeptApart` says nothing of a destination whose own account was removed:
that one `notify_orphan` is about.

The arguments:

* *Lock.* `OneCollects` is not inductive: it says nothing of a process between
  jobs. `HolderIsCurrent` is: a process in a cycle owns the lock, and the lock is
  exactly as old as its last check-in, so while check-ins are no further apart
  than the stale window nobody else's claim changes the row.
* *One live row.* `SafeInv`: an insert is the only way to a new live row beside a
  reopening, and both meet the unique index; a reopening acts on a row that was
  resolved.
* *Evidence.* `EvidenceInv` relates the streak and its start in a row with the
  observed number of quiet evaluations and their age, and each planned transition
  with the row it was planned on. The second half is what fails with two
  collectors.
* *History.* `LineInv`: a successor is younger than the row it succeeds until both are
  at the age cap (`Younger`), nothing is stamped after the cycle under way began
  (`StampedBefore`), and what a cycle is still to open or to reopen is the newest row
  of its key and so has no successor (`PlanHeirless`). With two collectors it is not,
  and TLC has the counterexample: the row read before the writes may since have been
  succeeded or purged.
* *Requests.* `SoloInv` ties `sends` to `attempts` by where the job is: equal at
  rest up to the deaths so far, one ahead while a receiver is awaited, with `seen`
  still what the row says.
* *Accounts.* `OwnInv`: a scope is the scope the destination was made with, and a
  delivery was queued under it.
* *Alerts.* `AlertInv`, `HushInv`, `SettleInv` and `FireInv` each say where in its
  section a cycle is: what it has decided is in `alert`, what it has not is in
  `fires`, what it owes is in `owes`, whoever acted in between. `FireInv` adds that
  what a cycle owes is of one alert, so that what it gives up is one announcement.

* *The queue of lines.* `QueueAccounts` is not inductive: it says nothing of a batch
  in the hands of the job. `BatchInv` says what the batch is (lines still queued, and
  none outside counting); `OwedOnce` that a line of it whose group was counted is
  already paid for; `NoneTwice` that what was counted and the counts still to come
  never exceed what was stored and the deaths. `QueueOrder` makes `ahead` a strict
  order on what is kept, so that the lines read are a front of the queue.
* *Incidents.* `PlannedIsFree`: a service a candidate is planned for has no open
  incident until it is written, since nothing but a cycle opens one.
  `PlannedIsQuiet`: it has no dismissal that is not spent, or was dismissed since;
  that rests on `Remembered`, a dismissal not spent being on a row that is kept.
  `NoneSlips`, for `CyclesCover`: while a cycle writes, a service with two problems
  together is planned for, has an open incident, or is silenced or closed.
* *Sessions.* `RowIsOfToken`: a row is of a token drawn for its audience and not
  ended, with its true age and rest. `GoneIsOver`: a token that lost its row without
  being ended was at one of its limits. `UndrawnIsFresh` closes the two under drawing.
* *Counts.* The limiter compares a number of instants with a limit. A list of instants
  is the set `Instants` of pairs of an age and a number, `Recent` its cardinality, so
  that one more (`RecentOne`), a tick (`RecentAged`) and an upper bound on what is
  kept follow from the theorems about finite sets, without induction over ages.
* *The line.* `LineInv` in `SignInProofs`: no attempt is in `chain` twice, those in it are those in
  a turn, only the head is past `TakeTurn`, its timer is what is left of the spacing,
  and a client's `passed` is within what its `hits` say, or its entry was dropped
  when every instant was past the window.
* *The read cache.* `CacheInv`: an entry is a load of its key that did not fail; a load
  that answered is its key's entry, and its age is what the entry has used up of its time
  to live, unless that is over; a load that pends is an entry without end, or was pushed out.
* *Searches.* `SearchInv` says where the loop is by its clock: asleep or polling is
  begun before the timeout, so it is over one poll or one sleep after it. A query that
  runs and that nobody asked to stop is at the start of a loop, has its reader, or has
  no id.
* *Forwarding.* `ForwardInv` has at most one request at a group that is not contested
  (`AloneAt`). Row and filter of such a group agree but while the one request holds the answer
  that explains how they differ (`RowsFollow`), and what a held answer says is still so
  (`AnswersHold`), so the write that follows restores the agreement or reports the difference.
* *Connections.* A call was begun on a connection that was ready, which stays so; a test
  is of the version the row has unless it was overtaken (`CallsAreOfReady`); credentials
  that live are kept under the version they are of (`CacheIsKeyed`). With these
  `StatusIsEarned`, `UsableIsReady` and `CredentialsAreAsked` are inductive.
* *Machines.* `ListingIsKnown`: a page that awaits the cloud is of an environment that
  is connected, or was removed under it; a place is written by such a page only.
* *The budget.* `AskedWithinCap`: a query is under way in a job only, was asked below the
  cap, and what it scans is known while it is. The total of `usage` is the cardinality of
  its numbered `Units`, so that entering a scan adds it (`TotalRecorded`) by the theorems
  about finite sets, where a fold would need induction over the accounts.
* *The weekly summary.* `RepeatsAreOwed`: an environment whose summary no mark followed
  has fewer repetitions than the process has died inside the job, so that the repetition
  it is owed is covered; while the job is at it, those it has come to have had theirs.
* *Error groups.* `SeenIsYoungest`: no line is older than the last-seen of its group says,
  which a late line does not take back.
* *Checks.* `StreaksLead`: the runs on record begin with the failures since the last that
  passed, that one next where they are few, so `Down` of the runs is the streak at its limit
  (`StreakIsDown`), through edits and deletions that empty or drop the runs.
* *Objectives.* `PointsAreServed`: what is filed bad of an interval went bad in it or in the
  next, so a failure counted in a window is one of the cloud's. The strictness needs no
  invariant: both rates are compared by products that grow as the allowance shrinks
  (`StricterReaches`).

Only model-checked: the liveness properties (`KeepsCollecting`,
`ProblemsAndDeliveriesSettle`, `JobsCatchUp`, `RequestsComeToAnEnd`), since neither
fairness nor `ENABLED` is within reach of the prover. Every safety property of a passing
run is stated by a theorem. The type invariants of the collector, the lifecycle,
alerts, notifications and requests are proved and not run: what they say of a model that
TLC enumerates is that its own caps cap. No module declares a `RECURSIVE` operator.

## 5. What else was seen

Disagreements and hazards met while modelling, confirmed with TLC on these
modules or read in the code, that have no run of their own:

* A process that dies between the write of a problem and its event leaves the
  event spine without that change (`store/problems.ts:460`).
* A process that dies between `openAlert` and its last `queueDelivery` loses that
  fire: the next cycle finds the alert open and stays silent. A destination switched
  off after it was read is queued for all the same.
* The destinations of a fire are read once and a row is written for each
  (`alerts.ts:49`, `alerts.ts:71`). One that the web container deletes in between
  breaks the foreign key, and the throw ends the detect job: the destinations after it
  never hear of the alert, against "Queues one fire for every enabled destination"
  (`alerts.ts:34`). The fires lost so are in `lost`, and `FireIsQueued` excepts them.
* The second trigger of incidents asks that users see the problem
  (`detect/incident.ts:80`), which no problem that names a service ever says
  (`detect/aws.ts:153`, `detect/errors.ts:83`): one that lasts is no incident by
  itself, against the comment at `detect/incident.ts:12`.
* A start of a log query whose answer is lost after AWS took it ends the loop without
  an id (`logs-poller.ts:50`): the query scans on with the page open, against "Every
  exit that leaves a query running on AWS asks the server to stop it"
  (`logs-poller.ts:29`).
* A connection removed by another process under its alert cycle makes the next insert
  of the cycle throw, and a delivery owed by then still goes out, in the name of a
  connection that is gone.
* The detect job throws without credentials before it comes to machines and
  objectives, which need none: a machine that falls silent then is not alerted about.
* Two collectors: a resolution planned before the other recorded a firing is
  applied after it, and `CycleSettles` fails in the same way.
* Two notify jobs: both read an attempt count and write it plus one, so a delivery
  may be sent more than `MAX_ATTEMPTS` times, and one that was accepted may be
  written back to pending.
* Two ECS services of one name in two clusters share a key; each refused insert
  ends the cycle for all keys after it.
* A page rendered before a resolution acknowledges the resolved row.
* Deliveries of purged alerts are still sent.
* `stop()` releases the lock by ageing it and leaves its owner, so a cycle that is
  still going on takes it back at its next check-in, and collects on when nobody
  claimed the lock in between, or beside the process that did while its own job
  lasts; nothing calls `stop()` in production.
* A refusal to insert the run of a deleted check is thrown inside the `catch` of the
  same check, so the whole job ends there and the checks after it wait for the next.
  The open problem of a check that is switched off or deleted is not evaluated again.
* The badge of a certificate is never due: no run stores `certificateExpiresAt`. A
  check's `intervalMinutes` is read by nobody: the job runs all of them at its own
  interval.
* `resolveSilentErrors` (`store/errors.ts:140`), which the header of that file relies
  on, has no caller: no group is ever resolved, and a silent one stays new. Nothing
  calls `planFleet` either. The error cycle judges only the two hundred oldest groups
  of an environment (`collector/errors-detect.ts:87`).
* Twenty minutes of log are read every fifteen (`collector/errors-job.ts:30`): an
  error in the overlap is counted twice.
* A query of the errors job that was given up, or whose poll failed, is not entered
  in the day's budget, and one query of a busy account can overrun the cap.
* "Replay becomes a no-op insert" (`ingest/identity.ts`, `db/schema.ts:1278`) holds
  until the line is swept: a delivery repeated after that is counted again.
* An incident that was resolved and moved back keeps `resolvedAt`, is not listed as
  open, and its service may get a second one.
* The hour of the weekly summary is hit only by a job that starts within it, and an
  hourly job drifts: a week may be skipped.
* The slowdown admits one attempt more than `MaxWaiting` to its line.
* A page of the log explorer that is closed while its query is being started never
  learns its id, and nobody stops it either.
* Two forwarding requests at one group may leave a row without its filter, or a
  filter without its row.
* An instances page that awaited the cloud while its connection was removed places
  machines in a connection that is gone. Renaming a machine opens a second alert of
  it, against the comment at `collector/machine-alerts.ts:51`.
* The result of a connection test may be of credentials replaced while it ran. The
  answer of an `AssumeRole` in flight enters the cache again after the connection
  was forgotten.
* The metrics job reads the last five minutes and files them under the aligned
  interval before. A burn alert resolves when its coverage is lost or history is
  switched off. An objective of 100 % never raises a slow burn, as `burnAlert`
  answers "fast" for an infinite rate and `collector/slo-burn.ts:47` passes over it;
  one that allows more than about 6.9 % never burns fast, even in a total outage,
  and above about 16.6 % never burns at all.
* The cap of the baselines job (`collector/baselines-job.ts:91`) never reaches later
  series, and a bucket that emptied is not removed. `enrichRecent`
  (`collector/deployment-code.ts:92`) takes the newest five every time. Neither job
  is in the set that production runs.
* Three backups are kept whatever made them (`db/backup.ts`), so manual backups or
  failed starts prune the one from before a migration.
* The connection of a detect job may be removed while it awaits the cloud, and the
  job then writes rows of a connection that is gone (`collector/detect.ts:149`).
* A promise of a job that never settles keeps the process from collecting for ever
  (`collector/runner.ts:151`): fairness assumes it away.

## 6. Plan

Done: the collector runtime, the problem lifecycle, notifications, alerts composed
with notifications; the jobs beside detection; what serves requests; a theorem of every
safety property that is checked.

Left, in the order of what it would add:

1. `Backups` (`db/backup.ts`, `db/client.ts`): two processes that start at once over
   one file, the copy before a migration, a failed start, pruning to three.
2. Score, severity, correlation and fleet collapse as operators, checked against
   reference definitions over bounded inputs.
3. `IncidentCycle` over the rows of `ProblemLifecycle`, and the machine and burn
   candidates over `AlertCycle`, as compositions in place of free choices.
4. Deployments and baselines, should their jobs enter the production set.

## 7. Not modelled, and why

* *Score, severity, correlation, investigation*: pure functions of one call, which
  unit tests reach; nothing interleaves with them. Fleet collapse has no caller.
* *Deployments, code evidence, baselines*: their jobs are not in the set that
  production runs.
* *Event spine, snapshots, audit*: append-only. That an event may be missing after a
  death is visible in `ProblemLifecycle` (`owed`, `note`).
* *Database and migrations*: the atomic step of every module. Backups are planned.
* *Provider clients*: calls to other systems; what they return is chosen freely, in
  full, in part or not at all. The timeouts they may or may not have are not
  modelled, see the fairness above.
* *Read side, API, assistant*: they read and render rows others wrote.
* *Web pages and mobile application*: presentation. The server actions behind the
  pages that change modelled state are actions of the modules. The mobile
  application keeps a session of its own; the server's side of it is `Sessions`.
* *Google sign-in, cookies, signatures, secrets and payloads*: what is exchanged and
  not when.
