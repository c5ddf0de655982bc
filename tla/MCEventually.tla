----------------------------- MODULE MCEventually -----------------------------
(***************************************************************************)
(* What must eventually happen in the collector runtime (Collector), to    *)
(* problems (ProblemLifecycle) and to deliveries (Notify), on smaller      *)
(* instances than those the safety properties are checked on.              *)
(*                                                                         *)
(* The three share no state but through a job's start and end, which       *)
(* fairness stands for: each behaviour runs one, and the others stay where *)
(* they start.                                                             *)
(***************************************************************************)
EXTENDS Integers, TLC

CONSTANTS
  None, Nobody, Instance, Gone, e1, x1, x2, k1, f1, r1, r2, c1, m1, d1, w1, w2

VARIABLES
  part,
  lock, pc, due, current, sinceRun, sinceCheckIn, stopped, connected, latestRun,
  row, owed, stage, note, start, plan, left, saw, quiet, looked,
  dest, delivery, gone, job, batch, seen, target, began, made, sends, crashes

EnvOfJob == <<Instance, e1>>
FamilyOfKey == k1 :> f1

Runtime == INSTANCE Collector WITH
  Process <- {x1, x2}, NJobs <- 2, Every <- <<1, 2>>, Env <- {e1}, EnvOf <- EnvOfJob,
  StaleAfter <- 0, JobMax <- 1

Detect == INSTANCE ProblemLifecycle WITH
  Key <- {k1}, Family <- {f1}, FamilyOf <- FamilyOfKey, Shared <- {}, Id <- {r1, r2},
  Collector <- {c1}, ClearEvaluations <- 2, ClearMin <- 1, ReopenWindow <- 0,
  Retention <- 1, StaleAfter <- 0, ReadMax <- 1, pc <- stage, began <- start

Outbox == INSTANCE Notify WITH
  Message <- {m1}, Dest <- {d1}, Env <- {e1}, Worker <- {w1, w2}, MaxAttempts <- 3,
  MaxWait <- 2, Backoff <- <<1, 2>>, Batch <- 1, JobMax <- 1, Leaving <- {e1},
  MaxCrashes <- 1

runtimeVars == <<lock, pc, due, current, sinceRun, sinceCheckIn, stopped, connected,
                 latestRun>>
detectVars == <<row, owed, stage, note, start, plan, left, saw, quiet, looked>>
outboxVars == <<dest, delivery, gone, job, batch, seen, target, began, made, sends, crashes>>

vars == <<part, runtimeVars, detectVars, outboxVars>>

(* A step of part p, and of no other. *)
Only(p, A) ==
  /\ part = p /\ A /\ UNCHANGED part
  /\ p # "runtime" => UNCHANGED runtimeVars
  /\ p # "detect" => UNCHANGED detectVars
  /\ p # "outbox" => UNCHANGED outboxVars

Init ==
  /\ part \in {"runtime", "detect", "outbox"}
  /\ Runtime!Init /\ Detect!Init /\ Outbox!NotifyInit

Next ==
  \/ Only("runtime", Runtime!Next)
  \/ Only("detect", Detect!Next)
  \/ Only("outbox", Outbox!NotifyNext)

(* The fairness of each part, while it is the one that runs: that of       *)
(* FairSpec of Collector and ProblemLifecycle, and of FairNotifySpec.      *)
(* A behaviour stays in one part, so one WF or SF may stand for one of     *)
(* each.                                                                   *)
Fairness ==
  /\ WF_vars(\/ Only("runtime", Runtime!Advance)
             \/ Only("detect", Detect!Begin(c1))
             \/ Only("outbox", Outbox!Tick))
  /\ WF_vars(\/ Only("runtime", Runtime!AbortCycle(x1))
             \/ Only("detect", Detect!Work(c1))
             \/ Only("outbox", Outbox!Work(w1)))
  /\ WF_vars(\/ Only("runtime", Runtime!AbortCycle(x2))
             \/ Only("outbox", Outbox!Work(w2)))
  /\ SF_vars(\/ Only("runtime", Runtime!Claim(x1))
             \/ Only("detect", Detect!Advance))
  /\ SF_vars(\/ Only("runtime", Runtime!BeginJob(x1))
             \/ Only("detect", Detect!Compact(c1)))
  /\ SF_vars(Only("runtime", Runtime!Claim(x2)))
  /\ SF_vars(Only("runtime", Runtime!BeginJob(x2)))
  /\ WF_vars(Only("runtime", \E s \in {"ok", "failed"} : Runtime!EndJob(x1, s)))
  /\ WF_vars(Only("runtime", \E s \in {"ok", "failed"} : Runtime!EndJob(x2, s)))

Spec == Init /\ [][Next]_vars /\ Fairness
-----------------------------------------------------------------------------
(* Collection survives the death of other processes (Collector).           *)
KeepsCollecting == Runtime!KeepsCollecting

(* What healed and is read in full is resolved (ProblemLifecycle); every   *)
(* delivery is delivered, given up or cascaded (Notify).                   *)
ProblemsAndDeliveriesSettle == Detect!HealedResolves /\ Outbox!EveryDeliverySettles
=============================================================================
