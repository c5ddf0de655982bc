------------------------------- MODULE LogSearch -------------------------------
(***************************************************************************)
(* A search in the log explorer: the loop that starts a Logs Insights      *)
(* query and polls it (monitoring/shared/logs-poller.ts), and the page     *)
(* around it (logs-explorer.tsx), which aborts it when the reader stops or *)
(* leaves, and asks for a stop by itself when the page goes away.          *)
(*                                                                         *)
(* The loop awaits each of its calls, and the reader and the query go on   *)
(* meanwhile.  Time is counted from the start of the query.                *)
(***************************************************************************)
EXTENDS Integers

CONSTANTS
  SearchTimeout,  \* LOGS_CLIENT_TIMEOUT_MS
  Interval,       \* LOGS_POLL_INTERVAL_MS
  PollMax         \* bound: the longest one poll takes

ASSUME SearchAssumption ==
  SearchTimeout \in Nat \ {0} /\ Interval \in Nat \ {0} /\ PollMax \in Nat

VARIABLES
  loop,       \* "idle", "starting", "choosing", "polling", "sleeping", "stopping"
  outcome,    \* of the last search: "none", or the kind of its PollOutcome
  aborted,    \* signal.aborted
  elapsed,    \* now() - startedAt
  spent,      \* how long the call or the sleep has taken so far
  idRef,      \* queryIdRef is set
  page,       \* the page is still there
  query,      \* the query in the cloud: "none", "running", "ended"
  asked,      \* a stop of it was asked for
  named       \* observation: its id came

searchVars == <<loop, outcome, aborted, elapsed, spent, idRef, page, query, asked, named>>
-----------------------------------------------------------------------------
(* Later than this nothing may still be going on. *)
Late == SearchTimeout + Interval + PollMax + 1

TimedOutLate == elapsed > SearchTimeout   \* mutant

TimedOutNever == FALSE   \* mutant

TimedOut == elapsed >= SearchTimeout

(* The exit of the loop for an outcome: a query that may still run is      *)
(* asked to stop first.                                                    *)
ExitAskingNever(kind) ==   \* mutant: a failed poll does not stop the query
  /\ outcome' = kind
  /\ IF kind = "error" THEN loop' = "idle" /\ UNCHANGED asked
     ELSE loop' = "stopping" /\ asked' = TRUE

ExitAsking(kind) ==
  /\ outcome' = kind
  /\ loop' = "stopping" /\ asked' = TRUE

SearchInit ==
  /\ loop = "idle" /\ outcome = "none" /\ aborted = FALSE /\ elapsed = 0 /\ spent = 0
  /\ idRef = FALSE /\ page = TRUE /\ query = "none" /\ asked = FALSE /\ named = FALSE

(* search: only while no loop is running.  The query it finds is over, was *)
(* asked to stop, or runs on without an id: from here on the model says no *)
(* more of it.                                                             *)
StartSearch ==
  /\ page /\ loop = "idle"
  /\ loop' = "starting" /\ aborted' = FALSE /\ outcome' = "none"
  /\ elapsed' = 0 /\ spent' = 0
  /\ query' = "none" /\ asked' = FALSE /\ named' = FALSE
  /\ UNCHANGED <<idRef, page>>

(* api.start answers. *)
Started ==
  /\ page /\ loop = "starting"
  /\ loop' = "choosing" /\ idRef' = TRUE /\ named' = TRUE
  /\ query' = IF query = "none" THEN "running" ELSE query
  /\ UNCHANGED <<outcome, aborted, elapsed, spent, page, asked>>

(* The cloud takes the query before its answer is here. *)
QueryAccepted ==
  /\ loop = "starting" /\ query = "none"
  /\ query' = "running"
  /\ UNCHANGED <<loop, outcome, aborted, elapsed, spent, idRef, page, asked, named>>

(* api.start fails: it was refused, or its answer was lost, and then the   *)
(* cloud may have taken the query, or take it yet, and nobody has its id.  *)
NotStarted ==
  /\ page /\ loop = "starting"
  /\ loop' = "idle" /\ outcome' = "error"
  /\ query' \in IF query = "none" THEN {"none", "running"} ELSE {query}
  /\ UNCHANGED <<aborted, elapsed, spent, idRef, page, asked, named>>

(* The head of the loop. *)
Choose ==
  /\ page /\ loop = "choosing"
  /\ IF aborted THEN ExitAsking("aborted")
     ELSE loop' = "polling" /\ UNCHANGED <<outcome, asked>>
  /\ spent' = 0
  /\ UNCHANGED <<aborted, elapsed, idRef, page, query, named>>

(* The poll fails. *)
PollFails ==
  /\ page /\ loop = "polling"
  /\ ExitAsking("error")
  /\ UNCHANGED <<aborted, elapsed, spent, idRef, page, query, named>>

(* It finds the query over: completed, or ended otherwise. *)
PollFindsEnd ==
  /\ page /\ loop = "polling" /\ query = "ended"
  /\ loop' = "idle" /\ outcome' \in {"complete", "ended"}
  /\ idRef' = FALSE
  /\ UNCHANGED <<aborted, elapsed, spent, page, query, asked, named>>

(* It finds it running: out of time, or asleep until the next one. *)
PollFindsRunning ==
  /\ page /\ loop = "polling"
  /\ IF TimedOut THEN ExitAsking("timeout")
     ELSE loop' = "sleeping" /\ UNCHANGED <<outcome, asked>>
  /\ spent' = 0
  /\ UNCHANGED <<aborted, elapsed, idRef, page, query, named>>

(* The sleep ends, after its interval or because the reader left. *)
Wakes ==
  /\ page /\ loop = "sleeping" /\ (spent = Interval \/ aborted)
  /\ IF TimedOut /\ ~aborted THEN ExitAsking("timeout")
     ELSE loop' = "choosing" /\ UNCHANGED <<outcome, asked>>
  /\ UNCHANGED <<aborted, elapsed, spent, idRef, page, query, named>>

(* The stop was answered, or given up on. *)
StopAnswered ==
  /\ page /\ loop = "stopping"
  /\ loop' = "idle"
  /\ UNCHANGED <<outcome, aborted, elapsed, spent, idRef, page, query, asked, named>>
-----------------------------------------------------------------------------
(* The reader presses Stop, or goes to another page of the application. *)
Abort ==
  /\ page /\ loop # "idle" /\ ~aborted
  /\ aborted' = TRUE
  /\ UNCHANGED <<loop, outcome, elapsed, spent, idRef, page, query, asked, named>>

(* pagehide: the page goes, and the loop with it. *)
PageHides ==
  /\ page /\ page' = FALSE
  /\ asked' = (asked \/ (idRef /\ loop # "idle" /\ loop # "starting"))
  /\ UNCHANGED <<loop, outcome, aborted, elapsed, spent, idRef, query, named>>

(* The query ends in the cloud, by itself or because of the stop. *)
QueryEnds ==
  /\ query = "running" /\ query' = "ended"
  /\ UNCHANGED <<loop, outcome, aborted, elapsed, spent, idRef, page, asked, named>>

SearchTick ==
  /\ page
  /\ \/ loop = "polling" /\ spent < PollMax
     \/ loop = "sleeping" /\ spent < Interval
  /\ elapsed' = (IF elapsed < Late THEN elapsed + 1 ELSE elapsed) /\ spent' = spent + 1
  /\ UNCHANGED <<loop, outcome, aborted, idRef, page, query, asked, named>>

Loop == \/ Started \/ NotStarted \/ Choose \/ PollFails \/ PollFindsEnd
        \/ PollFindsRunning \/ Wakes \/ StopAnswered

SearchNext == StartSearch \/ Loop \/ QueryAccepted \/ QueryEnds \/ Abort \/ PageHides
              \/ SearchTick

SearchSpec == SearchInit /\ [][SearchNext]_searchVars
-----------------------------------------------------------------------------
SearchTypeOK ==
  /\ loop \in {"idle", "starting", "choosing", "polling", "sleeping", "stopping"}
  /\ outcome \in {"none", "complete", "ended", "timeout", "aborted", "error"}
  /\ aborted \in BOOLEAN /\ idRef \in BOOLEAN /\ page \in BOOLEAN /\ asked \in BOOLEAN
  /\ named \in BOOLEAN
  /\ elapsed \in 0 .. Late /\ spent \in Nat
  /\ query \in {"none", "running", "ended"}

(* "Every exit that leaves a query running on AWS asks the server to stop  *)
(* it": nobody polls it any more, and it was not asked to stop, only if    *)
(* its id never came, the start being lost or its page gone before.        *)
LeftRunningIsStopped ==
  query = "running" /\ ~asked /\ (loop = "idle" \/ ~page) => ~named

(* The loop is over in time: no sleep and no poll begins once the timeout  *)
(* has passed, so the last poll is all that can come after it.             *)
SearchEndsInTime ==
  elapsed < SearchTimeout + (IF PollMax > Interval THEN PollMax ELSE Interval)

(* Every search ends, while its page is there. *)
SearchEnds == loop # "idle" ~> loop = "idle" \/ ~page

(* A search ends in time, and nothing goes on scanning behind it.          *)
SearchIsReined == LeftRunningIsStopped /\ SearchEndsInTime
=============================================================================
