--------------------------- MODULE CollectorProofs ---------------------------
(***************************************************************************)
(* One process collects, for any number of processes, jobs and             *)
(* environments, whenever the longest gap between two check-ins of a live  *)
(* process fits in the stale window.                                       *)
(***************************************************************************)
EXTENDS Collector, TLAPS

(* The shape of the collector's state, at the start. *)
LEMMA InitTypeOK == Init => TypeOK
  BY CollectorAssumption, SMTT(30) DEF Init, TypeOK, RunRow, Job, Abandoned

(* Every step of a process, of the connection list and of the clock keeps  *)
(* the shape of the collector's state.                                     *)
LEMMA NextTypeOK == TypeOK /\ [Next]_vars => TypeOK'
<1> SUFFICES ASSUME TypeOK, [Next]_vars PROVE TypeOK'
  OBVIOUS
<1> USE DEF TypeOK
<1>1. ASSUME NEW p \in Process, Start(p) PROVE TypeOK'
  BY <1>1, CollectorAssumption DEF Start
<1>2. ASSUME NEW p \in Process, Claim(p) PROVE TypeOK'
  <2>1. lock' \in [owner : Process \cup {Nobody}, age : 0 .. Abandoned]
    BY <1>2, CollectorAssumption DEF Claim, Abandoned
  <2>2. due' \in [Process -> SUBSET Job]
    BY <1>2 DEF Claim, DueJobs
  <2>3. QED
    BY <1>2, <2>1, <2>2, CollectorAssumption DEF Claim
<1>3. ASSUME NEW p \in Process, BeginJob(p) PROVE TypeOK'
  <2>1. PICK j \in due[p] :
          /\ due' = [due EXCEPT ![p] = @ \ {j}]
          /\ current' = [current EXCEPT ![p] = j]
          /\ sinceRun' = [sinceRun EXCEPT ![p][j] = 0]
          /\ latestRun' = [latestRun EXCEPT ![j] = [status |-> "running", by |-> p]]
    BY <1>3 DEF BeginJob
  <2>2. j \in Job
    BY <2>1
  <2>3. sinceRun' \in [Process -> [Job -> Nat]]
    BY <2>1, <2>2
  <2>4. latestRun' \in [Job -> RunRow]
    BY <2>1, <2>2 DEF RunRow
  <2>5. lock' \in [owner : Process \cup {Nobody}, age : 0 .. Abandoned]
    BY <1>3, CollectorAssumption DEF BeginJob, Refreshed, Abandoned
  <2>6. QED
    BY <1>3, <2>1, <2>2, <2>3, <2>4, <2>5, CollectorAssumption DEF BeginJob
<1>4. ASSUME NEW p \in Process, AbortCycle(p) PROVE TypeOK'
  BY <1>4, CollectorAssumption DEF AbortCycle
<1>5. ASSUME NEW p \in Process, NEW status \in {"ok", "failed"}, EndJob(p, status)
      PROVE TypeOK'
  <2>a. \A r \in RunRow : Closed(r, p, status) \in RunRow
    BY DEF Closed, RunRow
  <2>1. latestRun' \in [Job -> RunRow]
    <3>1. CASE current[p] \in Job
      BY <1>5, <2>a, <3>1 DEF EndJob
    <3>2. CASE current[p] \notin Job
      BY <1>5, <3>2 DEF EndJob
    <3> QED
      BY <3>1, <3>2
  <2>2. sinceCheckIn' \in [Process -> 0 .. JobMax]
    BY <1>5, CollectorAssumption DEF EndJob
  <2>3. QED
    BY <1>5, <2>1, <2>2 DEF EndJob
<1>6. ASSUME NEW p \in Process, Stop(p) PROVE TypeOK'
  <2>1. lock' \in [owner : Process \cup {Nobody}, age : 0 .. Abandoned]
    BY <1>6, CollectorAssumption DEF Stop, Abandoned
  <2>2. QED
    BY <1>6, <2>1 DEF Stop
<1>7. ASSUME NEW p \in Process, Crash(p) PROVE TypeOK'
  <2>1. latestRun' \in [Job -> RunRow]
    BY <1>7 DEF Crash, RunRow
  <2>2. QED
    BY <1>7, <2>1, CollectorAssumption DEF Crash
<1>8. CASE Reconnect
  BY <1>8 DEF Reconnect
<1>9. CASE Advance
  <2>1. lock' \in [owner : Process \cup {Nobody}, age : 0 .. Abandoned]
    <3>1. Older(lock.age, Abandoned) \in 0 .. Abandoned
      BY CollectorAssumption DEF Older, Abandoned
    <3> QED
      BY <1>9, <3>1 DEF Advance
  <2>2. sinceRun' \in [Process -> [Job -> Nat]]
    BY <1>9, CollectorAssumption DEF Advance, Older
  <2>3. sinceCheckIn' \in [Process -> 0 .. JobMax]
    BY <1>9, CollectorAssumption DEF Advance
  <2>4. QED
    BY <1>9, <2>1, <2>2, <2>3 DEF Advance
<1>10. CASE UNCHANGED vars
  BY <1>10 DEF vars
<1> HIDE DEF TypeOK
<1> QED
  BY <1>1, <1>2, <1>3, <1>4, <1>5, <1>6, <1>7, <1>8, <1>9, <1>10 DEF Next, Step

(* The type invariant of the collector runtime holds in every behaviour. *)
THEOREM TypeCorrect == Spec => []TypeOK
  BY InitTypeOK, NextTypeOK, PTL DEF Spec
-----------------------------------------------------------------------------
(* When jobs are prompt, a live process in a cycle holds the lock, at the  *)
(* age of its own last check-in: no step of any process or of the clock    *)
(* takes it from under it.                                                 *)
LEMMA NextHolder ==
  ASSUME JobMax <= StaleAfter, TypeOK, HolderIsCurrent, [Next]_vars
  PROVE  HolderIsCurrent'
<1> USE CollectorAssumption DEF TypeOK, HolderIsCurrent, InCycle, Abandoned
<1>1. ASSUME NEW p \in Process, Start(p) PROVE HolderIsCurrent'
  BY <1>1 DEF Start
<1>2. ASSUME NEW p \in Process, Claim(p) PROVE HolderIsCurrent'
  BY <1>2 DEF Claim, MayClaim, DueJobs, IsDue
<1>3. ASSUME NEW p \in Process, BeginJob(p) PROVE HolderIsCurrent'
  BY <1>3 DEF BeginJob, MayRefresh, Refreshed
<1>4. ASSUME NEW p \in Process, AbortCycle(p) PROVE HolderIsCurrent'
  BY <1>4 DEF AbortCycle
<1>5. ASSUME NEW p \in Process, NEW status \in {"ok", "failed"}, EndJob(p, status)
      PROVE HolderIsCurrent'
  BY <1>5 DEF EndJob
<1>6. ASSUME NEW p \in Process, Stop(p) PROVE HolderIsCurrent'
  BY <1>6 DEF Stop
<1>7. ASSUME NEW p \in Process, Crash(p) PROVE HolderIsCurrent'
  BY <1>7 DEF Crash
<1>8. CASE Reconnect
  BY <1>8 DEF Reconnect
<1>9. CASE Advance
  BY <1>9 DEF Advance, Older
<1>10. CASE UNCHANGED vars
  BY <1>10 DEF vars
<1> HIDE DEF TypeOK, HolderIsCurrent
<1> QED
  BY <1>1, <1>2, <1>3, <1>4, <1>5, <1>6, <1>7, <1>8, <1>9, <1>10 DEF Next, Step

LEMMA InitHolder == Init => HolderIsCurrent
  BY DEF Init, HolderIsCurrent, InCycle

(* A process holds the lock from its claim to the end of its cycle, at the *)
(* age of its own last check-in, for all processes and jobs, when jobs are *)
(* prompt.                                                                 *)
THEOREM HolderCorrect == JobMax <= StaleAfter => (Spec => []HolderIsCurrent)
<1> SUFFICES ASSUME JobMax <= StaleAfter PROVE Spec => []HolderIsCurrent
  OBVIOUS
<1>1. TypeOK /\ HolderIsCurrent /\ [Next]_vars => HolderIsCurrent'
  BY NextHolder
<1> QED
  BY <1>1, InitHolder, TypeCorrect, PTL DEF Spec

LEMMA HolderImpliesOne == HolderIsCurrent => OneCollects
  BY DEF HolderIsCurrent, OneCollects, Collecting, InCycle

(* One process collects: no two processes are ever inside a job together,  *)
(* whatever starts, stops, crashes and pauses there are, as long as nobody *)
(* live goes longer than LOCK_STALE_MS between two check-ins.              *)
THEOREM OneProcessCollects == JobMax <= StaleAfter => (Spec => []OneCollects)
<1> SUFFICES ASSUME JobMax <= StaleAfter PROVE Spec => []OneCollects
  OBVIOUS
<1> QED
  BY HolderCorrect, HolderImpliesOne, PTL
-----------------------------------------------------------------------------
(* The collector implements SingleCollector: seen from outside, a job      *)
(* begins only when nobody is in one, and a crash, a stop() or the end of  *)
(* a job is the end of the collecting process's turn.                      *)
LEMMA StepRefines ==
  ASSUME TypeOK, HolderIsCurrent, [Next]_vars
  PROVE  [Abstract!Next]_Collecting
<1> USE DEF TypeOK, Collecting
<1>1. ASSUME NEW p \in Process, Start(p) PROVE Collecting' = Collecting
  BY <1>1 DEF Start
<1>2. ASSUME NEW p \in Process, Claim(p) PROVE Collecting' = Collecting
  BY <1>2 DEF Claim
<1>3. ASSUME NEW p \in Process, BeginJob(p)
      PROVE  Collecting' = Collecting \/ Abstract!Begin(p)
  <2>1. CASE p \in stopped
    BY <1>3, <2>1 DEF BeginJob
  <2>2. CASE p \notin stopped
    <3>1. Collecting = {}
      BY <1>3, <2>2 DEF BeginJob, MayRefresh, HolderIsCurrent, InCycle
    <3>2. Collecting' = {p}
      BY <1>3, <2>2, <3>1 DEF BeginJob
    <3> QED
      BY <3>1, <3>2 DEF Abstract!Begin
  <2> QED
    BY <2>1, <2>2
<1>4. ASSUME NEW p \in Process, AbortCycle(p) PROVE Collecting' = Collecting
  BY <1>4 DEF AbortCycle
<1>5. ASSUME NEW p \in Process, NEW status \in {"ok", "failed"}, EndJob(p, status)
      PROVE  Collecting' = Collecting \/ Abstract!End(p)
  <2>1. Collecting' = Collecting \ {p}
    BY <1>5 DEF EndJob
  <2> QED
    BY <2>1 DEF Abstract!End
<1>6. ASSUME NEW p \in Process, Stop(p) PROVE Collecting' = Collecting \/ Abstract!End(p)
  <2>1. Collecting' = Collecting \ {p}
    BY <1>6 DEF Stop
  <2> QED
    BY <2>1 DEF Abstract!End
<1>7. ASSUME NEW p \in Process, Crash(p) PROVE Collecting' = Collecting \/ Abstract!End(p)
  <2>1. Collecting' = Collecting \ {p}
    BY <1>7 DEF Crash
  <2> QED
    BY <2>1 DEF Abstract!End
<1>8. CASE Reconnect
  BY <1>8 DEF Reconnect
<1>9. CASE Advance
  BY <1>9 DEF Advance
<1>10. CASE UNCHANGED vars
  BY <1>10 DEF vars
<1> HIDE DEF TypeOK, Collecting
<1> QED
  BY <1>1, <1>2, <1>3, <1>4, <1>5, <1>6, <1>7, <1>8, <1>9, <1>10
  DEF Next, Step, Abstract!Next

(* With prompt jobs, every behaviour of the collector is a behaviour of    *)
(* the one-process specification.                                          *)
THEOREM Refinement == JobMax <= StaleAfter => (Spec => ImplementsSingleCollector)
<1> SUFFICES ASSUME JobMax <= StaleAfter PROVE Spec => Abstract!Spec
  BY DEF ImplementsSingleCollector
<1>1. Init => Abstract!Init
  BY DEF Init, Abstract!Init, Collecting
<1>2. TypeOK /\ HolderIsCurrent /\ [Next]_vars => [Abstract!Next]_Collecting
  BY StepRefines
<1> QED
  BY <1>1, <1>2, TypeCorrect, HolderCorrect, PTL DEF Spec, Abstract!Spec
-----------------------------------------------------------------------------
(* What RunningMeansRunning rests on: outside a job no job is current. *)
RunInv ==
  /\ \A p \in Process : pc[p] # "job" => current[p] = 0
  /\ RunningMeansRunning

LEMMA NextRunInv == ASSUME TypeOK, RunInv, [Next]_vars PROVE RunInv'
<1> USE CollectorAssumption DEF TypeOK, RunRow, RunInv, RunningMeansRunning
<1>1. ASSUME NEW p \in Process, Start(p) PROVE RunInv'
  BY <1>1 DEF Start
<1>2. ASSUME NEW p \in Process, Claim(p) PROVE RunInv'
  BY <1>2 DEF Claim
<1>3. ASSUME NEW p \in Process, BeginJob(p) PROVE RunInv'
  <2>1. PICK j \in due[p] :
          /\ current' = [current EXCEPT ![p] = j]
          /\ latestRun' = [latestRun EXCEPT ![j] = [status |-> "running", by |-> p]]
    BY <1>3 DEF BeginJob
  <2>2. j \in Job /\ current[p] = 0 /\ pc' = [pc EXCEPT ![p] = "job"]
    BY <1>3, <2>1 DEF BeginJob
  <2>3. \A q \in Process : pc'[q] # "job" => current'[q] = 0
    BY <2>1, <2>2
  <2>4. ASSUME NEW k \in Job, latestRun'[k].status = "running", latestRun'[k].by # Nobody
        PROVE  current'[latestRun'[k].by] = k
    <3>1. CASE k = j
      BY <2>1, <2>2, <3>1
    <3>2. CASE k # j
      <4>1. latestRun'[k] = latestRun[k] /\ current[latestRun[k].by] = k
        BY <2>1, <2>2, <2>4, <3>2
      <4>2. latestRun[k].by # p
        BY <4>1, <2>2 DEF Job
      <4> QED
        BY <4>1, <4>2, <2>1
    <3> QED
      BY <3>1, <3>2
  <2> QED
    BY <2>3, <2>4
<1>4. ASSUME NEW p \in Process, AbortCycle(p) PROVE RunInv'
  BY <1>4 DEF AbortCycle
<1>5. ASSUME NEW p \in Process, NEW status \in {"ok", "failed"}, EndJob(p, status)
      PROVE RunInv'
  BY <1>5 DEF EndJob, Closed
<1>6. ASSUME NEW p \in Process, Stop(p) PROVE RunInv'
  BY <1>6 DEF Stop
<1>7. ASSUME NEW p \in Process, Crash(p) PROVE RunInv'
  BY <1>7 DEF Crash
<1>8. CASE Reconnect
  BY <1>8 DEF Reconnect
<1>9. CASE Advance
  BY <1>9 DEF Advance
<1>10. CASE UNCHANGED vars
  BY <1>10 DEF vars
<1> HIDE DEF TypeOK, RunInv, RunningMeansRunning
<1> QED
  BY <1>1, <1>2, <1>3, <1>4, <1>5, <1>6, <1>7, <1>8, <1>9, <1>10 DEF Next, Step

(* A run row that says "running" for a live process is the job it is in,   *)
(* with jobs of any length: an aborted cycle or a failed job leaves none.  *)
THEOREM RunRowsHonest == Spec => []RunningMeansRunning
<1>1. Init => RunInv
  BY DEF Init, RunInv, RunningMeansRunning
<1>2. TypeOK /\ RunInv /\ [Next]_vars => RunInv'
  BY NextRunInv
<1>3. RunInv => RunningMeansRunning
  BY DEF RunInv
<1> QED
  BY <1>1, <1>2, <1>3, TypeCorrect, PTL DEF Spec

(* A process that lost the lock while it was in a cycle does not get it    *)
(* back within that cycle (refreshCollectorLock asks for its own name),    *)
(* however long its jobs take: no premise on JobMax.                       *)
THEOREM LostIsLost == Spec => NoResurrection
<1>1. ASSUME TypeOK, [Next]_vars
      PROVE  [\A p \in Process : InCycle(p) /\ lock.owner # p => lock'.owner # p]_vars
  <2> SUFFICES ASSUME NEW p \in Process, InCycle(p), lock.owner # p
               PROVE  lock'.owner # p
    OBVIOUS
  <2>1. lock \in [owner : Process \cup {Nobody}, age : 0 .. Abandoned]
    BY <1>1 DEF TypeOK
  <2>2. CASE UNCHANGED lock
    BY <2>2
  <2>3. ASSUME NEW q \in Process, Claim(q)
        PROVE  lock'.owner # p
    BY <2>3 DEF Claim, InCycle
  <2>4. ASSUME NEW q \in Process, BeginJob(q)
        PROVE  lock'.owner # p
    BY <2>4 DEF BeginJob, MayRefresh, Refreshed
  <2>5. ASSUME NEW q \in Process, Stop(q)
        PROVE  lock'.owner # p
    BY <2>1, <2>5 DEF Stop
  <2>6. CASE Advance
    BY <2>1, <2>6 DEF Advance
  <2>7. CASE UNCHANGED vars
    BY <2>2, <2>7 DEF vars
  <2> QED
    BY <1>1, <2>2, <2>3, <2>4, <2>5, <2>6, <2>7
    DEF Next, Step, Start, AbortCycle, EndJob, Crash, Reconnect
<1> QED
  BY <1>1, TypeCorrect, PTL DEF Spec, NoResurrection
=============================================================================
