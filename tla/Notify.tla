------------------------------- MODULE Notify -------------------------------
(***************************************************************************)
(* The outgoing notifications: the destinations an operator keeps and the  *)
(* deliveries of store/notifications.ts, and the job of                    *)
(* collector/notify-job.ts that sends what is due, retries what fails and  *)
(* gives up.  Messages come from the alert cycle (module AlertCycle) and   *)
(* from the weekly digest; here anything may queue one.                    *)
(*                                                                         *)
(* The job reads its batch once, and awaits the receiver of each delivery  *)
(* in turn: between two of its synchronous sections the operator, the      *)
(* caller that queues, and another process's job may all run.  What the    *)
(* receiver does with a request and what the job sees of it may differ: a  *)
(* failure includes an answer that came too late.                          *)
(***************************************************************************)
EXTENDS Integers, FiniteSets

CONSTANTS
  Message,      \* payload ids: alerts, or weekly reports
  Dest,         \* destination ids
  Env,          \* the connections whose messages are sent
  None,         \* no connection (an unscoped destination), or no delivery
  Worker,       \* the processes that may be inside a notify job
  MaxAttempts,  \* MAX_ATTEMPTS
  MaxWait,      \* the longest of the backoffs
  Backoff,      \* BACKOFF_MS, by the attempts made so far
  Batch,        \* NOTIFY_BATCH
  JobMax,       \* the longest a notify job runs: a timeout per delivery
  Leaving,      \* the connections an operator may remove
  MaxCrashes    \* bound: how often a process dies inside a job

ASSUME NotifyAssumption ==
  /\ None \notin Env
  /\ None \notin Message \X Dest
  /\ Leaving \in SUBSET Env
  /\ MaxAttempts \in Nat \ {0}
  /\ MaxWait \in Nat
  /\ Backoff \in [1 .. MaxAttempts - 1 -> 0 .. MaxWait]
  /\ Batch \in Nat \ {0}
  /\ JobMax \in Nat
  /\ MaxCrashes \in Nat

VARIABLES
  dest,      \* the notify_destinations table
  delivery,  \* the notify_deliveries table, by what is sent where
  gone,      \* the connections removed so far
  job,       \* per worker: "idle", "running", "sending"
  batch,     \* per worker, the deliveries read and not yet dealt with
  seen,      \* per worker and delivery, the attempts as they were read
  target,    \* per worker, the delivery whose receiver it awaits
  began,     \* per worker, the age of the nowMs of its job
  made,      \* observation: the scope each destination was created with
  sends,     \* observation: per delivery, the requests sent
  crashes    \* the processes that died so far

notifyVars == <<dest, delivery, gone, job, batch, seen, target, began, made,
                sends, crashes>>
-----------------------------------------------------------------------------
Delivery == Message \X Dest

SendCap == MaxAttempts + MaxCrashes + 1

Destination == [state : {"absent", "on", "off", "deleted"}, scope : Env \cup {None}]

Row == [status : {"none", "pending", "ok", "failed", "cascaded"},
        from : Env \cup {None},
        attempts : 0 .. MaxAttempts,
        wait : 0 .. MaxWait]     \* the time left until nextAttemptAt

NoRow == [status |-> "none", from |-> None, attempts |-> 0, wait |-> 0]

ReceivesAll(d, e) == TRUE   \* mutant: before destinations were scoped

(* destinationsFor: the destinations of every connection, and those of e. *)
Receives(d, e) == dest[d].scope \in {None, e}

(* The filter on enabled of both its callers. *)
Reaches(d, e) == dest[d].state = "on" /\ Receives(d, e)

(* The row of a destination is there, for a delivery to refer to. *)
Stands(d) == dest[d].state \in {"on", "off"}

Queued(p) == delivery[p].status \notin {"none", "cascaded"}

(* dueDeliveries, at the nowMs of the job. *)
DueAnyStatus == {p \in Delivery : Queued(p) /\ delivery[p].wait = 0}  \* mutant

Due == {p \in Delivery : delivery[p].status = "pending" /\ delivery[p].wait = 0}

(* The limit of the query, which names no order. *)
Batches == {b \in SUBSET Due :
              Cardinality(b) = IF Cardinality(Due) < Batch THEN Cardinality(Due) ELSE Batch}

(* nextAttemptAt counts from the nowMs of the job, whatever it awaited     *)
(* since: a time that has gone by meanwhile is due at once.                *)
Left(w, wait) == IF wait < began[w] THEN 0 ELSE wait - began[w]

Attempts(w, p) == seen[w][p] + 1

(* recordDelivery: an UPDATE by id, of no row once the delivery cascaded. *)
RecordedUncounted(p, status, attempts, wait) ==   \* mutant: the attempt is not written
  IF Queued(p)
  THEN [delivery EXCEPT ![p].status = status, ![p].wait = wait]
  ELSE delivery

Recorded(p, status, attempts, wait) ==
  IF Queued(p)
  THEN [delivery EXCEPT ![p] = [status |-> status, from |-> delivery[p].from,
                                attempts |-> attempts, wait |-> wait]]
  ELSE delivery

-----------------------------------------------------------------------------
NotifyInit ==
  /\ dest = [d \in Dest |-> [state |-> "absent", scope |-> None]]
  /\ delivery = [p \in Delivery |-> NoRow]
  /\ gone = {}
  /\ job = [w \in Worker |-> "idle"]
  /\ batch = [w \in Worker |-> {}]
  /\ seen = [w \in Worker |-> [p \in Delivery |-> 0]]
  /\ target = [w \in Worker |-> None]
  /\ began = [w \in Worker |-> 0]
  /\ made = [d \in Dest |-> None]
  /\ sends = [p \in Delivery |-> 0]
  /\ crashes = 0

(* queueDelivery: the row of one receiver, due at once. *)
Insert(m, d, e) ==
  delivery' = [delivery EXCEPT ![<<m, d>>] =
                 [status |-> "pending", from |-> e, attempts |-> 0, wait |-> 0]]

(* What either caller does for one of its receivers: since it read them,   *)
(* one may have been switched off, and its connection removed.  A row for  *)
(* one that was deleted is refused.                                        *)
Queue(m, d, e) ==
  /\ delivery[<<m, d>>].status = "none"
  /\ Stands(d) /\ Receives(d, e)
  /\ Insert(m, d, e)
  /\ UNCHANGED <<dest, gone, job, batch, seen, target, began, made, sends, crashes>>
-----------------------------------------------------------------------------
(* The operator: creating, switching and deleting destinations, and        *)
(* removing a connection, whose destinations outlive it without a scope.   *)

Create(d, s) ==
  /\ dest[d].state = "absent"
  /\ s \notin gone
  /\ dest' = [dest EXCEPT ![d] = [state |-> "on", scope |-> s]]
  /\ made' = [made EXCEPT ![d] = s]
  /\ UNCHANGED <<delivery, gone, job, batch, seen, target, began, sends, crashes>>

Toggle(d) ==
  /\ dest[d].state \in {"on", "off"}
  /\ dest' = [dest EXCEPT ![d].state = IF dest[d].state = "on" THEN "off" ELSE "on"]
  /\ UNCHANGED <<delivery, gone, job, batch, seen, target, began, made, sends, crashes>>

Delete(d) ==
  /\ dest[d].state \in {"on", "off"}
  /\ dest' = [dest EXCEPT ![d].state = "deleted"]
  /\ delivery' = [p \in Delivery |->
                    IF p[2] = d /\ Queued(p)
                    THEN [delivery[p] EXCEPT !.status = "cascaded"] ELSE delivery[p]]
  /\ UNCHANGED <<gone, job, batch, seen, target, began, made, sends, crashes>>

UnscopedAll(e) == [d \in Dest |-> [dest[d] EXCEPT !.scope = None]]   \* mutant

Unscoped(e) ==
  [d \in Dest |-> IF dest[d].scope = e THEN [dest[d] EXCEPT !.scope = None] ELSE dest[d]]

Disconnect(e) ==
  /\ e \in Leaving \ gone
  /\ gone' = gone \cup {e}
  /\ dest' = Unscoped(e)
  /\ UNCHANGED <<delivery, job, batch, seen, target, began, made, sends, crashes>>

Operate == \/ \E d \in Dest, s \in Env \cup {None} : Create(d, s)
           \/ \E d \in Dest : Toggle(d) \/ Delete(d)
           \/ \E e \in Env : Disconnect(e)
-----------------------------------------------------------------------------
(* The job. *)

StartJob(w) ==
  /\ job[w] = "idle"
  /\ \E b \in Batches :
       /\ b # {}
       /\ batch' = [batch EXCEPT ![w] = b]
       /\ seen' = [seen EXCEPT ![w] = [p \in Delivery |->
                                       IF p \in b THEN delivery[p].attempts ELSE 0]]
  /\ job' = [job EXCEPT ![w] = "running"]
  /\ UNCHANGED <<dest, delivery, gone, target, began, made, sends, crashes>>

(* A destination deleted or switched off since: nowhere to send it. *)
Skip(w, p) ==
  /\ job[w] = "running" /\ p \in batch[w]
  /\ dest[p[2]].state # "on"
  /\ delivery' = Recorded(p, "failed", Attempts(w, p), 0)
  /\ batch' = [batch EXCEPT ![w] = batch[w] \ {p}]
  /\ UNCHANGED <<dest, gone, job, seen, target, began, made, sends, crashes>>

Send(w, p) ==
  /\ job[w] = "running" /\ p \in batch[w]
  /\ dest[p[2]].state = "on"
  /\ job' = [job EXCEPT ![w] = "sending"]
  /\ target' = [target EXCEPT ![w] = p]
  /\ sends' = [sends EXCEPT ![p] = IF sends[p] < SendCap THEN sends[p] + 1 ELSE sends[p]]
  /\ UNCHANGED <<dest, delivery, gone, batch, seen, began, made, crashes>>

(* The answer, or its timeout, is dealt with. *)
Answered(w, p) ==
  /\ job[w] = "sending" /\ target[w] = p
  /\ job' = [job EXCEPT ![w] = "running"]
  /\ batch' = [batch EXCEPT ![w] = batch[w] \ {p}]
  /\ target' = [target EXCEPT ![w] = None]
  /\ UNCHANGED <<dest, gone, seen, began, made, sends, crashes>>

Accepted(w, p) ==
  /\ Answered(w, p)
  /\ delivery' = Recorded(p, "ok", Attempts(w, p), 0)

Retried(w, p) ==
  /\ Answered(w, p)
  /\ Attempts(w, p) < MaxAttempts
  /\ delivery' = Recorded(p, "pending", Attempts(w, p), Left(w, Backoff[Attempts(w, p)]))

GivenUp(w, p) ==
  /\ Answered(w, p)
  /\ Attempts(w, p) >= MaxAttempts
  /\ delivery' = Recorded(p, "failed", Attempts(w, p), 0)

(* Nothing of a job outlives it. *)
Over(w) ==
  /\ job' = [job EXCEPT ![w] = "idle"]
  /\ batch' = [batch EXCEPT ![w] = {}]
  /\ seen' = [seen EXCEPT ![w] = [p \in Delivery |-> 0]]
  /\ target' = [target EXCEPT ![w] = None]
  /\ began' = [began EXCEPT ![w] = 0]
  /\ UNCHANGED <<dest, delivery, gone, made, sends>>

EndJob(w) ==
  /\ job[w] = "running" /\ batch[w] = {}
  /\ Over(w)
  /\ UNCHANGED crashes

Crash(w) ==
  /\ job[w] # "idle" /\ crashes < MaxCrashes
  /\ crashes' = crashes + 1
  /\ Over(w)

Work(w) == \/ StartJob(w)
           \/ EndJob(w)
           \/ \E p \in Delivery : \/ Skip(w, p) \/ Send(w, p)
                                  \/ Accepted(w, p) \/ Retried(w, p) \/ GivenUp(w, p)

(* Time: backoffs run out, and jobs age while they await. *)
Tick ==
  /\ \A w \in Worker : job[w] # "idle" => began[w] < JobMax
  /\ began' = [w \in Worker |-> IF job[w] = "idle" THEN 0 ELSE began[w] + 1]
  /\ delivery' = [p \in Delivery |->
                    IF delivery[p].wait = 0 THEN delivery[p]
                    ELSE [delivery[p] EXCEPT !.wait = delivery[p].wait - 1]]
  /\ UNCHANGED <<dest, gone, job, batch, seen, target, made, sends, crashes>>

NotifyNext ==
  \/ \E m \in Message, d \in Dest, e \in Env : Queue(m, d, e)
  \/ Operate
  \/ \E w \in Worker : Work(w) \/ Crash(w)
  \/ Tick

NotifySpec == NotifyInit /\ [][NotifyNext]_notifyVars

(* The job is offered every minute and its requests end at their timeout;  *)
(* time goes on.  A process dies at most MaxCrashes times.                 *)
FairNotifySpec ==
  NotifySpec /\ WF_notifyVars(Tick) /\ \A w \in Worker : WF_notifyVars(Work(w))
-----------------------------------------------------------------------------
(* The state of the destinations, the deliveries and the jobs is in range. *)
(* No delivery is on record with more attempts than MAX_ATTEMPTS, however  *)
(* often it is retried.                                                    *)
NotifyTypeOK ==
  /\ dest \in [Dest -> Destination]
  /\ delivery \in [Delivery -> Row]
  /\ gone \in SUBSET Leaving
  /\ job \in [Worker -> {"idle", "running", "sending"}]
  /\ batch \in [Worker -> SUBSET Delivery]
  /\ seen \in [Worker -> [Delivery -> 0 .. MaxAttempts]]
  /\ target \in [Worker -> Delivery \cup {None}]
  /\ began \in [Worker -> 0 .. JobMax]
  /\ made \in [Dest -> Env \cup {None}]
  /\ sends \in [Delivery -> 0 .. SendCap]
  /\ crashes \in 0 .. MaxCrashes

(* A receiver sees one delivery at most MAX_ATTEMPTS times, and once more  *)
(* for each time the process died between a request and its record         *)
(* (notify-job.ts awaits the receiver before it writes anything).          *)
BoundedRequests == \A p \in Delivery : sends[p] <= MaxAttempts + crashes

(* What was recorded as delivered, or given up, is never attempted again   *)
(* nor rewritten: no late job brings it back to pending.                   *)
SettledStays ==
  [][\A p \in Delivery : delivery[p].status \in {"ok", "failed"} =>
       delivery'[p].status \in {delivery[p].status, "cascaded"}]_notifyVars

(* A destination that was created for one connection holds no delivery of  *)
(* another connection's message (destinationsFor): one client's problems   *)
(* do not reach another client's endpoint, also once the connection it was *)
(* created for is gone.                                                    *)
OwnAccountOnly ==
  \A p \in Delivery : delivery[p].status # "none" =>
    made[p[2]] \in {None, delivery[p].from}

(* The part of it the code keeps to: while its own connection stands, a    *)
(* destination holds no delivery of another one's message, whichever other *)
(* connections are removed, and whatever purgeConnectionData does to the   *)
(* scopes of their destinations.                                           *)
AccountsApart ==
  \A p \in Delivery :
    delivery[p].status # "none" /\ made[p[2]] \notin gone =>
      made[p[2]] \in {None, delivery[p].from}

(* Every delivery queued is in the end delivered, given up or cascaded,    *)
(* also when two jobs overlap and one records over the other what it read  *)
(* before: attempts only seem to go backwards.                             *)
EveryDeliverySettles ==
  \A p \in Delivery : delivery[p].status = "pending" ~> delivery[p].status # "pending"
=============================================================================
