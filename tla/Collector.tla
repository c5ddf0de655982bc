------------------------------ MODULE Collector ------------------------------
(***************************************************************************)
(* The collector runtime: the loop of src/src/lib/collector/runner.ts and  *)
(* the lock and run rows of src/src/lib/store/collector.ts that it works   *)
(* with.  Several processes share one SQLite file; each wakes every        *)
(* fifteen seconds, claims the lock, computes which jobs are due and runs  *)
(* them one by one, checking in before each.                               *)
(*                                                                         *)
(* Every stored timestamp is kept as its age, capped where no comparison   *)
(* tells larger ages apart, so time needs no bound.  One SQL statement is  *)
(* one step.  JavaScript between two awaits is one step of its process,    *)
(* and any other process may step in between two statements.               *)
(***************************************************************************)
EXTENDS Naturals

CONSTANTS
  Process,      \* the owners: one `pid:randomId` per run of the program
  Nobody,       \* no owner
  NJobs,        \* the job keys, numbered in the order dueJobs lists them
  Every,        \* everyMs of each job
  Env,          \* the environments (connection and scope)
  Instance,     \* the "environment" of an instance-wide job
  EnvOf,        \* the environment each job key belongs to
  StaleAfter,   \* LOCK_STALE_MS
  JobMax        \* the longest a live process goes between two check-ins

Job == 1 .. NJobs

ASSUME CollectorAssumption ==
  /\ Nobody \notin Process
  /\ NJobs \in Nat
  /\ Every \in [Job -> Nat]
  /\ Instance \notin Env
  /\ EnvOf \in [Job -> Env \cup {Instance}]
  /\ StaleAfter \in Nat
  /\ JobMax \in Nat

VARIABLES
  lock,          \* the collector_lock row: its owner and the age of heartbeat_at
  pc,            \* "down", "idle", in a "cycle" between jobs, or in a "job"
  due,           \* the jobs this cycle has yet to run
  current,       \* the job being run, 0 for none
  sinceRun,      \* per process, the age of lastRunAt; a job never run is due
  sinceCheckIn,  \* per process in a cycle, time since it claimed or refreshed
  stopped,       \* the processes whose stop() was called
  connected,     \* the environments that exist now
  latestRun      \* per job, the newest collector_runs row

vars == <<lock, pc, due, current, sinceRun, sinceCheckIn, stopped, connected,
          latestRun>>
-----------------------------------------------------------------------------
Abandoned == StaleAfter + 1

Older(age, cap) == IF age < cap THEN age + 1 ELSE age

IsFirst(j, jobs) == \A k \in jobs : j <= k


IsDue(p, j) == sinceRun[p][j] >= Every[j]

(* dueJobs: the jobs of this installation whose interval has elapsed since *)
(* this process last started them.                                         *)
DueJobs(p) == {j \in Job : EnvOf[j] \in connected \cup {Instance} /\ IsDue(p, j)}

MayClaimAtLimit(p) == lock.age >= StaleAfter \/ lock.owner = p   \* mutant: <= for <

MayClaimBlindly(p) == TRUE                                       \* mutant: reads, then writes
MayClaimOwnOnly(p) == lock.owner \in {p, Nobody}                 \* mutant: no staleness

(* claimCollectorLock changes a row. *)
MayClaim(p) == lock.age > StaleAfter \/ lock.owner = p

MayRefreshAny(p) == TRUE   \* mutant: no `and owner = ?`

(* refreshCollectorLock changes a row. *)
MayRefresh(p) == lock.owner = p

RefreshedNever(p) == lock   \* mutant: a cycle that checks in only once

(* The lock row after p checked in. *)
Refreshed(p) == [owner |-> p, age |-> 0]

ClosedIfOk(row, p, status) ==   \* mutant: a job that throws leaves its row open
  IF row.by = p /\ status = "ok" THEN [row EXCEPT !.status = status] ELSE row

(* finishRun, by row id: a newer row of another process is not touched. *)
Closed(row, p, status) == IF row.by = p THEN [row EXCEPT !.status = status] ELSE row

RunRow == [status : {"none", "running", "ok", "failed"}, by : Process \cup {Nobody}]
-----------------------------------------------------------------------------
Init ==
  /\ lock = [owner |-> Nobody, age |-> Abandoned]
  /\ pc = [p \in Process |-> "down"]
  /\ due = [p \in Process |-> {}]
  /\ current = [p \in Process |-> 0]
  /\ sinceRun = [p \in Process |-> Every]
  /\ sinceCheckIn = [p \in Process |-> 0]
  /\ stopped = {}
  /\ connected = {}
  /\ latestRun = [j \in Job |-> [status |-> "none", by |-> Nobody]]

(* A process starts.  Its owner string is drawn afresh, so it is never the *)
(* one a dead process left in the lock.                                    *)
Start(p) ==
  /\ pc[p] = "down"
  /\ lock.owner # p
  /\ pc' = [pc EXCEPT ![p] = "idle"]
  /\ sinceRun' = [sinceRun EXCEPT ![p] = Every]
  /\ stopped' = stopped \ {p}
  /\ UNCHANGED <<lock, due, current, sinceCheckIn, connected, latestRun>>

(* A tick that wins the claim and plans its cycle.  A tick that loses it,  *)
(* or that finds a cycle in progress or the loop stopped, changes nothing. *)
Claim(p) ==
  /\ pc[p] = "idle" /\ p \notin stopped
  /\ MayClaim(p)
  /\ lock' = [owner |-> p, age |-> 0]
  /\ due' = [due EXCEPT ![p] = DueJobs(p)]
  /\ pc' = [pc EXCEPT ![p] = IF DueJobs(p) = {} THEN "idle" ELSE "cycle"]
  /\ sinceCheckIn' = [sinceCheckIn EXCEPT ![p] = 0]
  /\ UNCHANGED <<current, sinceRun, stopped, connected, latestRun>>

(* The check-in before a job succeeds, and the job starts. *)
BeginJob(p) ==
  /\ pc[p] = "cycle"
  /\ MayRefresh(p)
  /\ \E j \in due[p] :
       /\ IsFirst(j, due[p])
       /\ due' = [due EXCEPT ![p] = @ \ {j}]
       /\ current' = [current EXCEPT ![p] = j]
       /\ sinceRun' = [sinceRun EXCEPT ![p][j] = 0]
       /\ latestRun' = [latestRun EXCEPT ![j] = [status |-> "running", by |-> p]]
  /\ lock' = Refreshed(p)
  /\ sinceCheckIn' = [sinceCheckIn EXCEPT ![p] = 0]
  /\ pc' = [pc EXCEPT ![p] = "job"]
  /\ UNCHANGED <<stopped, connected>>

(* The check-in before a job changes no row: the cycle ends where it is. *)
AbortCycle(p) ==
  /\ pc[p] = "cycle"
  /\ ~MayRefresh(p)
  /\ pc' = [pc EXCEPT ![p] = "idle"]
  /\ due' = [due EXCEPT ![p] = {}]
  /\ sinceCheckIn' = [sinceCheckIn EXCEPT ![p] = 0]
  /\ UNCHANGED <<lock, current, sinceRun, stopped, connected, latestRun>>

(* The job's promise settles and its row is closed, failed or not. *)
EndJob(p, status) ==
  /\ pc[p] = "job"
  /\ latestRun' = [latestRun EXCEPT ![current[p]] = Closed(@, p, status)]
  /\ current' = [current EXCEPT ![p] = 0]
  /\ pc' = [pc EXCEPT ![p] = IF due[p] = {} THEN "idle" ELSE "cycle"]
  /\ sinceCheckIn' = [sinceCheckIn EXCEPT ![p] = IF due[p] = {} THEN 0 ELSE @]
  /\ UNCHANGED <<lock, due, sinceRun, stopped, connected>>

(* stop(): no further tick, and the lock is released whatever the process  *)
(* is doing.  A cycle in progress goes on.                                 *)
Stop(p) ==
  /\ pc[p] # "down" /\ p \notin stopped
  /\ stopped' = stopped \cup {p}
  /\ lock' = IF lock.owner = p THEN [lock EXCEPT !.age = Abandoned] ELSE lock
  /\ UNCHANGED <<pc, due, current, sinceRun, sinceCheckIn, connected, latestRun>>

(* A process dies.  What it stored stays: its lock, and a running row that *)
(* belongs to no live process any more.                                    *)
Crash(p) ==
  /\ pc[p] # "down"
  /\ pc' = [pc EXCEPT ![p] = "down"]
  /\ due' = [due EXCEPT ![p] = {}]
  /\ current' = [current EXCEPT ![p] = 0]
  /\ sinceCheckIn' = [sinceCheckIn EXCEPT ![p] = 0]
  /\ latestRun' = [j \in Job |-> IF latestRun[j].by = p
                                 THEN [latestRun[j] EXCEPT !.by = Nobody]
                                 ELSE latestRun[j]]
  /\ UNCHANGED <<lock, sinceRun, stopped, connected>>

(* A connection is added or removed; each tick reads the list again. *)
Reconnect ==
  /\ \E e \in Env : connected' \in {connected \cup {e}, connected \ {e}}
  /\ UNCHANGED <<lock, pc, due, current, sinceRun, sinceCheckIn, stopped, latestRun>>

(* Time passes, but never so far that a live process in a cycle goes more  *)
(* than JobMax without checking in.                                        *)
InCycle(p) == pc[p] \in {"cycle", "job"}

Advance ==
  /\ \A p \in Process : InCycle(p) => sinceCheckIn[p] < JobMax
  /\ lock' = [lock EXCEPT !.age = Older(@, Abandoned)]
  /\ sinceRun' = [p \in Process |-> [j \in Job |-> Older(sinceRun[p][j], Every[j])]]
  /\ sinceCheckIn' = [p \in Process |-> IF InCycle(p) THEN sinceCheckIn[p] + 1 ELSE 0]
  /\ UNCHANGED <<pc, due, current, stopped, connected, latestRun>>

Step(p) ==
  \/ Start(p)
  \/ Claim(p)
  \/ BeginJob(p)
  \/ AbortCycle(p)
  \/ \E status \in {"ok", "failed"} : EndJob(p, status)
  \/ Stop(p)
  \/ Crash(p)

Next == (\E p \in Process : Step(p)) \/ Reconnect \/ Advance

Spec == Init /\ [][Next]_vars

(***************************************************************************)
(* Fairness.  The clock advances; the interval timer keeps ticking, so a   *)
(* process that can claim again and again does so in the end; the code     *)
(* between a claim and a job is synchronous; and a job's promise settles.  *)
(* The last one is an assumption on the provider calls, not something the  *)
(* runner enforces: it puts no timeout around a job.                       *)
(***************************************************************************)
Fairness ==
  /\ WF_vars(Advance)
  /\ \A p \in Process :
       /\ SF_vars(Claim(p))
       /\ SF_vars(BeginJob(p))
       /\ WF_vars(AbortCycle(p))
       /\ WF_vars(\E status \in {"ok", "failed"} : EndJob(p, status))

FairSpec == Spec /\ Fairness
-----------------------------------------------------------------------------
TypeOK ==
  /\ lock \in [owner : Process \cup {Nobody}, age : 0 .. Abandoned]
  /\ pc \in [Process -> {"down", "idle", "cycle", "job"}]
  /\ due \in [Process -> SUBSET Job]
  /\ current \in [Process -> Job \cup {0}]
  /\ sinceRun \in [Process -> [Job -> Nat]]
  /\ sinceCheckIn \in [Process -> 0 .. JobMax]
  /\ stopped \in SUBSET Process
  /\ connected \in SUBSET Env
  /\ latestRun \in [Job -> RunRow]

(* The live, unstopped processes that are inside a job. *)
Collecting == {p \in Process : pc[p] = "job" /\ p \notin stopped}

(* One process collects (runner.ts, store/collector.ts): no two processes  *)
(* are ever inside a job together.  It relates the lock row, the clock and *)
(* the position of every process, and needs JobMax <= StaleAfter.          *)
OneCollects == \A p, q \in Collecting : p = q

(* A live process in a cycle holds the lock: what makes OneCollects hold,  *)
(* and inductive together with TypeOK.                                     *)
HolderIsCurrent ==
  \A p \in Process \ stopped :
    InCycle(p) => lock.owner = p /\ lock.age = sinceCheckIn[p]

(* A newest run row that says "running" for a live process is the job that *)
(* process is in: only a process that died leaves one behind (startRun's   *)
(* comment), never a cycle that was aborted or a job that failed.          *)
RunningMeansRunning ==
  \A j \in Job : latestRun[j].status = "running" /\ latestRun[j].by # Nobody =>
    current[latestRun[j].by] = j

(* A process that lost the lock while it was busy does not get it back     *)
(* within that cycle ("what stops a process that lost the lock while paused *)
(* from resurrecting it", store/collector.ts), however slow its jobs are.  *)
NoResurrection ==
  [][\A p \in Process : InCycle(p) /\ lock.owner # p => lock'.owner # p]_vars

(* Collection survives crashes of other processes: as long as one process  *)
(* stays up, every instance-wide job keeps being run by somebody, although *)
(* jobs may fail and a dead process may have left its name in the lock.    *)
StaysUp(p) == pc[p] # "down" /\ p \notin stopped

KeepsCollecting ==
  (\E p \in Process : <>[]StaysUp(p)) =>
    \A j \in Job : EnvOf[j] = Instance => []<>(\E q \in Process : current[q] = j)

Abstract == INSTANCE SingleCollector WITH collecting <- Collecting
ImplementsSingleCollector == Abstract!Spec
=============================================================================
