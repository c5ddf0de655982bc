---------------------------- MODULE NotifyProofs ----------------------------
(***************************************************************************)
(* Facts about the notify job for any messages, destinations, backoffs and *)
(* batches: what is typed for any number of overlapping jobs, what one job *)
(* at a time guarantees of a delivery, and whose destinations a message    *)
(* reaches while no connection is removed.                                 *)
(***************************************************************************)
EXTENDS Notify, TLAPS

(* Whatever is to be attempted has an attempt left. *)
Ready ==
  /\ \A p \in Delivery : delivery[p].status = "pending" => delivery[p].attempts < MaxAttempts
  /\ \A w \in Worker, p \in Delivery : p \in batch[w] => seen[w][p] < MaxAttempts
  /\ \A w \in Worker : target[w] # None => job[w] = "sending" /\ target[w] \in batch[w]

JobInv == NotifyTypeOK /\ Ready
-----------------------------------------------------------------------------
LEMMA RecordedRow ==
  ASSUME NotifyTypeOK, NEW p \in Delivery,
         NEW st \in {"pending", "ok", "failed"}, NEW n \in 0 .. MaxAttempts,
         NEW t \in 0 .. MaxWait
  PROVE  /\ Recorded(p, st, n, t) \in [Delivery -> Row]
         /\ \A q \in Delivery : q # p => Recorded(p, st, n, t)[q] = delivery[q]
         /\ ~Queued(p) => Recorded(p, st, n, t) = delivery
         /\ Queued(p) => /\ Recorded(p, st, n, t)[p].status = st
                         /\ Recorded(p, st, n, t)[p].attempts = n
         /\ Recorded(p, st, n, t)[p].from = delivery[p].from
<1>1. delivery \in [Delivery -> Row]
  BY DEF NotifyTypeOK
<1>2. [status |-> st, from |-> delivery[p].from, attempts |-> n, wait |-> t] \in Row
  BY <1>1 DEF Row
<1> QED
  BY <1>1, <1>2 DEF Recorded

LEMMA InitJob == NotifyInit => JobInv
<1> SUFFICES ASSUME NotifyInit PROVE JobInv
  OBVIOUS
<1> USE NotifyAssumption DEF NotifyInit
<1>1. [d \in Dest |-> [state |-> "absent", scope |-> None]] \in [Dest -> Destination]
  BY DEF Destination
<1>2. NoRow \in Row /\ NoRow.status = "none"
  BY DEF Row, NoRow
<1>3. NotifyTypeOK
  BY <1>1, <1>2 DEF NotifyTypeOK, SendCap
<1> QED
  BY <1>2, <1>3 DEF JobInv, Ready

LEMMA OperateJob == JobInv /\ Operate => JobInv'
<1> SUFFICES ASSUME JobInv, Operate PROVE JobInv'
  OBVIOUS
<1>1. ASSUME NEW d \in Dest, NEW s \in Env \cup {None}, Create(d, s) PROVE JobInv'
  <2>1. [state |-> "on", scope |-> s] \in Destination
    BY DEF Destination
  <2> QED
    BY <1>1, <2>1 DEF Create, JobInv, NotifyTypeOK, Ready
<1>2. ASSUME NEW d \in Dest, Toggle(d) PROVE JobInv'
  <2>1. dest \in [Dest -> Destination]
    BY DEF JobInv, NotifyTypeOK
  <2>2. [dest[d] EXCEPT !.state = IF dest[d].state = "on" THEN "off" ELSE "on"] \in Destination
    BY <2>1 DEF Destination
  <2>3. dest' \in [Dest -> Destination]
    BY <1>2, <2>1, <2>2 DEF Toggle
  <2> QED
    BY <1>2, <2>3 DEF Toggle, JobInv, NotifyTypeOK, Ready
<1>3. ASSUME NEW d \in Dest, Delete(d) PROVE JobInv'
  <2>1. dest \in [Dest -> Destination] /\ delivery \in [Delivery -> Row]
    BY DEF JobInv, NotifyTypeOK
  <2>2. [dest[d] EXCEPT !.state = "deleted"] \in Destination
    BY <2>1 DEF Destination
  <2>3. dest' \in [Dest -> Destination]
    BY <1>3, <2>1, <2>2 DEF Delete
  <2>4. ASSUME NEW p \in Delivery
        PROVE  /\ [delivery[p] EXCEPT !.status = "cascaded"] \in Row
               /\ delivery'[p] \in {delivery[p], [delivery[p] EXCEPT !.status = "cascaded"]}
    BY <1>3, <2>1 DEF Delete, Row
  <2>5. delivery' \in [Delivery -> Row]
    BY <1>3, <2>1, <2>4 DEF Delete
  <2>6. ASSUME NEW p \in Delivery, delivery'[p].status = "pending"
        PROVE  delivery'[p].attempts < MaxAttempts
    BY <2>1, <2>4, <2>6 DEF JobInv, Ready, Row
  <2> QED
    BY <1>3, <2>3, <2>5, <2>6 DEF Delete, JobInv, NotifyTypeOK, Ready
<1>4. ASSUME NEW e \in Env, Disconnect(e) PROVE JobInv'
  <2>1. dest \in [Dest -> Destination]
    BY DEF JobInv, NotifyTypeOK
  <2>2. \A d \in Dest : [dest[d] EXCEPT !.scope = None] \in Destination
    BY <2>1 DEF Destination
  <2>3. dest' \in [Dest -> Destination]
    BY <1>4, <2>1, <2>2 DEF Disconnect, Unscoped
  <2> QED
    BY <1>4, <2>3 DEF Disconnect, JobInv, NotifyTypeOK, Ready
<1> QED
  BY <1>1, <1>2, <1>3, <1>4 DEF Operate

LEMMA StartJobJob ==
  ASSUME JobInv, NEW w \in Worker, StartJob(w)
  PROVE  JobInv'
<1>1. PICK b \in Batches :
        /\ batch' = [batch EXCEPT ![w] = b]
        /\ seen' = [seen EXCEPT ![w] = [p \in Delivery |->
                                        IF p \in b THEN delivery[p].attempts ELSE 0]]
  BY DEF StartJob
<1>2. b \subseteq Due
  BY DEF Batches
<1>3. delivery \in [Delivery -> Row] /\ seen \in [Worker -> [Delivery -> 0 .. MaxAttempts]]
  BY DEF JobInv, NotifyTypeOK
<1>4. ASSUME NEW p \in Delivery, p \in b
      PROVE  delivery[p].attempts \in 0 .. MaxAttempts /\ delivery[p].attempts < MaxAttempts
  BY <1>2, <1>3, <1>4 DEF Due, JobInv, Ready, Row
<1>5. [p \in Delivery |-> IF p \in b THEN delivery[p].attempts ELSE 0]
        \in [Delivery -> 0 .. MaxAttempts]
  BY <1>4, NotifyAssumption
<1>6. seen' \in [Worker -> [Delivery -> 0 .. MaxAttempts]]
  BY <1>1, <1>3, <1>5
<1>7. batch' \in [Worker -> SUBSET Delivery]
  BY <1>1, <1>2 DEF Due, JobInv, NotifyTypeOK
<1>8. ASSUME NEW v \in Worker, NEW p \in Delivery, p \in batch'[v]
      PROVE  seen'[v][p] < MaxAttempts
  BY <1>1, <1>3, <1>4, <1>8 DEF JobInv, Ready, NotifyTypeOK
<1>9. ASSUME NEW v \in Worker, target'[v] # None
      PROVE  job'[v] = "sending" /\ target'[v] \in batch'[v]
  BY <1>1, <1>9 DEF StartJob, JobInv, Ready, NotifyTypeOK
<1> QED
  BY <1>6, <1>7, <1>8, <1>9 DEF StartJob, JobInv, Ready, NotifyTypeOK

LEMMA SkipJob ==
  ASSUME JobInv, NEW w \in Worker, NEW p \in Delivery, Skip(w, p)
  PROVE  JobInv'
<1>1. Attempts(w, p) \in 0 .. MaxAttempts
  BY NotifyAssumption DEF Skip, Attempts, JobInv, Ready, NotifyTypeOK
<1>2. 0 \in 0 .. MaxWait
  BY NotifyAssumption
<1>3. /\ delivery' \in [Delivery -> Row]
      /\ \A q \in Delivery : q # p => delivery'[q] = delivery[q]
      /\ ~Queued(p) => delivery' = delivery
      /\ Queued(p) => delivery'[p].status = "failed"
  BY <1>1, <1>2, RecordedRow DEF Skip, JobInv
<1>4. batch' \in [Worker -> SUBSET Delivery]
  BY DEF Skip, JobInv, NotifyTypeOK
<1>5. ASSUME NEW q \in Delivery, delivery'[q].status = "pending"
      PROVE  delivery'[q].attempts < MaxAttempts
  BY <1>3, <1>5 DEF JobInv, Ready
<1>6. ASSUME NEW v \in Worker, NEW q \in Delivery, q \in batch'[v]
      PROVE  seen'[v][q] < MaxAttempts
  BY <1>6 DEF Skip, JobInv, Ready, NotifyTypeOK
<1>7. ASSUME NEW v \in Worker, target'[v] # None
      PROVE  job'[v] = "sending" /\ target'[v] \in batch'[v]
  BY <1>7 DEF Skip, JobInv, Ready, NotifyTypeOK
<1> QED
  BY <1>3, <1>4, <1>5, <1>6, <1>7 DEF Skip, JobInv, Ready, NotifyTypeOK

LEMMA SendJob ==
  ASSUME JobInv, NEW w \in Worker, NEW p \in Delivery, Send(w, p)
  PROVE  JobInv'
<1>1. sends' \in [Delivery -> 0 .. SendCap]
  BY NotifyAssumption DEF Send, JobInv, NotifyTypeOK, SendCap
<1>2. target' \in [Worker -> Delivery \cup {None}]
      /\ job' \in [Worker -> {"idle", "running", "sending"}]
  BY DEF Send, JobInv, NotifyTypeOK
<1>3. ASSUME NEW v \in Worker, target'[v] # None
      PROVE  job'[v] = "sending" /\ target'[v] \in batch'[v]
  BY <1>3 DEF Send, JobInv, Ready, NotifyTypeOK
<1> QED
  BY <1>1, <1>2, <1>3 DEF Send, JobInv, Ready, NotifyTypeOK

(* What the three answers have in common. *)
LEMMA AnsweredJob ==
  ASSUME JobInv, NEW w \in Worker, NEW p \in Delivery, Answered(w, p),
         delivery' \in [Delivery -> Row],
         \A q \in Delivery : delivery'[q].status = "pending" => delivery'[q].attempts < MaxAttempts
  PROVE  JobInv'
<1>1. /\ job' \in [Worker -> {"idle", "running", "sending"}]
      /\ batch' \in [Worker -> SUBSET Delivery]
      /\ target' \in [Worker -> Delivery \cup {None}]
  BY DEF Answered, JobInv, NotifyTypeOK
<1>2. ASSUME NEW v \in Worker, NEW q \in Delivery, q \in batch'[v]
      PROVE  seen'[v][q] < MaxAttempts
  BY <1>2 DEF Answered, JobInv, Ready, NotifyTypeOK
<1>3. ASSUME NEW v \in Worker, target'[v] # None
      PROVE  job'[v] = "sending" /\ target'[v] \in batch'[v]
  BY <1>3 DEF Answered, JobInv, Ready, NotifyTypeOK
<1> QED
  BY <1>1, <1>2, <1>3 DEF Answered, JobInv, Ready, NotifyTypeOK

LEMMA AttemptsInRange ==
  ASSUME JobInv, NEW w \in Worker, NEW p \in Delivery, p \in batch[w]
  PROVE  Attempts(w, p) \in 1 .. MaxAttempts
BY NotifyAssumption DEF Attempts, JobInv, Ready, NotifyTypeOK

LEMMA TargetInBatch ==
  ASSUME JobInv, NEW w \in Worker, NEW p \in Delivery, Answered(w, p)
  PROVE  p \in batch[w]
<1>1. p # None
  BY NotifyAssumption DEF Delivery
<1> QED
  BY <1>1 DEF Answered, JobInv, Ready

LEMMA AnswersJob ==
  ASSUME JobInv, NEW w \in Worker, NEW p \in Delivery,
         Accepted(w, p) \/ Retried(w, p) \/ GivenUp(w, p)
  PROVE  JobInv'
<1>1. Answered(w, p)
  BY DEF Accepted, Retried, GivenUp
<1>2. Attempts(w, p) \in 0 .. MaxAttempts /\ Attempts(w, p) \in 1 .. MaxAttempts
  BY <1>1, TargetInBatch, AttemptsInRange
<1>3. 0 \in 0 .. MaxWait
  BY NotifyAssumption
<1>4. CASE Accepted(w, p) \/ GivenUp(w, p)
  <2>1. PICK st \in {"ok", "failed"} : delivery' = Recorded(p, st, Attempts(w, p), 0)
    BY <1>4 DEF Accepted, GivenUp
  <2>2. /\ delivery' \in [Delivery -> Row]
        /\ \A q \in Delivery : q # p => delivery'[q] = delivery[q]
        /\ ~Queued(p) => delivery' = delivery
        /\ Queued(p) => delivery'[p].status = st
    BY <1>2, <1>3, <2>1, RecordedRow DEF JobInv
  <2>3. ASSUME NEW q \in Delivery, delivery'[q].status = "pending"
        PROVE  delivery'[q].attempts < MaxAttempts
    BY <2>2, <2>3 DEF JobInv, Ready
  <2> QED
    BY <1>1, <2>2, <2>3, AnsweredJob
<1>5. CASE Retried(w, p)
  <2>1. Attempts(w, p) \in DOMAIN Backoff
    BY <1>2, <1>5, NotifyAssumption DEF Retried
  <2>2. Backoff[Attempts(w, p)] \in 0 .. MaxWait
    BY <2>1, NotifyAssumption
  <2>3. began[w] \in 0 .. JobMax
    BY DEF JobInv, NotifyTypeOK
  <2>4. Left(w, Backoff[Attempts(w, p)]) \in 0 .. MaxWait
    BY <2>2, <2>3, NotifyAssumption DEF Left
  <2> DEFINE rest == Left(w, Backoff[Attempts(w, p)])
  <2>5. delivery' = Recorded(p, "pending", Attempts(w, p), rest) /\ Attempts(w, p) < MaxAttempts
    BY <1>5 DEF Retried
  <2>6. rest \in 0 .. MaxWait
    BY <2>4
  <2> HIDE DEF rest
  <2>7. /\ delivery' \in [Delivery -> Row]
        /\ \A q \in Delivery : q # p => delivery'[q] = delivery[q]
        /\ ~Queued(p) => delivery' = delivery
        /\ Queued(p) => delivery'[p].attempts = Attempts(w, p)
    BY <1>2, <2>5, <2>6, RecordedRow DEF JobInv
  <2>8. ASSUME NEW q \in Delivery, delivery'[q].status = "pending"
        PROVE  delivery'[q].attempts < MaxAttempts
    BY <2>5, <2>7, <2>8 DEF JobInv, Ready
  <2> QED
    BY <1>1, <2>7, <2>8, AnsweredJob
<1> QED
  BY <1>4, <1>5

LEMMA OverJob ==
  ASSUME JobInv, NEW w \in Worker, Over(w), crashes' \in 0 .. MaxCrashes
  PROVE  JobInv'
<1>1. [p \in Delivery |-> 0] \in [Delivery -> 0 .. MaxAttempts]
  BY NotifyAssumption
<1>2. seen' \in [Worker -> [Delivery -> 0 .. MaxAttempts]]
  BY <1>1 DEF Over, JobInv, NotifyTypeOK
<1>3. /\ job' \in [Worker -> {"idle", "running", "sending"}]
      /\ batch' \in [Worker -> SUBSET Delivery]
      /\ target' \in [Worker -> Delivery \cup {None}]
      /\ began' \in [Worker -> 0 .. JobMax]
  BY NotifyAssumption DEF Over, JobInv, NotifyTypeOK
<1>4. ASSUME NEW v \in Worker, NEW q \in Delivery, q \in batch'[v]
      PROVE  seen'[v][q] < MaxAttempts
  BY <1>4 DEF Over, JobInv, Ready, NotifyTypeOK
<1>5. ASSUME NEW v \in Worker, target'[v] # None
      PROVE  job'[v] = "sending" /\ target'[v] \in batch'[v]
  BY <1>5 DEF Over, JobInv, Ready, NotifyTypeOK
<1> QED
  BY <1>2, <1>3, <1>4, <1>5 DEF Over, JobInv, Ready, NotifyTypeOK

LEMMA TickJob == JobInv /\ Tick => JobInv'
<1> SUFFICES ASSUME JobInv, Tick PROVE JobInv'
  OBVIOUS
<1>1. delivery \in [Delivery -> Row] /\ began \in [Worker -> 0 .. JobMax]
  BY DEF JobInv, NotifyTypeOK
<1>2. ASSUME NEW p \in Delivery
      PROVE  /\ delivery'[p] \in Row
             /\ delivery'[p].status = delivery[p].status
             /\ delivery'[p].attempts = delivery[p].attempts
  <2>1. CASE delivery[p].wait = 0
    BY <1>1, <2>1 DEF Tick
  <2>2. CASE delivery[p].wait # 0
    <3>1. delivery[p].wait - 1 \in 0 .. MaxWait
      BY <1>1, <2>2, NotifyAssumption DEF Row
    <3> QED
      BY <1>1, <2>2, <3>1 DEF Tick, Row
  <2> QED
    BY <2>1, <2>2
<1>3. delivery' \in [Delivery -> Row]
  BY <1>2 DEF Tick
<1>4. ASSUME NEW w \in Worker
      PROVE  (IF job[w] = "idle" THEN 0 ELSE began[w] + 1) \in 0 .. JobMax
  BY <1>1, NotifyAssumption DEF Tick
<1>5. began' \in [Worker -> 0 .. JobMax]
  BY <1>4 DEF Tick
<1> QED
  BY <1>2, <1>3, <1>5 DEF Tick, JobInv, Ready, NotifyTypeOK

LEMMA InsertJob ==
  ASSUME JobInv, NEW m \in Message, NEW d \in Dest, NEW e \in Env, Queue(m, d, e)
  PROVE  JobInv'
<1> DEFINE p == <<m, d>>
           new == [status |-> "pending", from |-> e, attempts |-> 0, wait |-> 0]
<1>1. p \in Delivery /\ new \in Row /\ new.attempts < MaxAttempts
  BY NotifyAssumption DEF Delivery, Row
<1>2. delivery' = [delivery EXCEPT ![p] = new]
  BY DEF Queue, Insert
<1> HIDE DEF p, new
<1>3. delivery' \in [Delivery -> Row]
  BY <1>1, <1>2 DEF JobInv, NotifyTypeOK
<1>4. ASSUME NEW q \in Delivery, delivery'[q].status = "pending"
      PROVE  delivery'[q].attempts < MaxAttempts
  BY <1>1, <1>2, <1>4 DEF JobInv, Ready, NotifyTypeOK
<1> QED
  BY <1>3, <1>4 DEF Queue, JobInv, Ready, NotifyTypeOK

LEMMA NextJob == JobInv /\ [NotifyNext]_notifyVars => JobInv'
<1> SUFFICES ASSUME JobInv, [NotifyNext]_notifyVars PROVE JobInv'
  OBVIOUS
<1>1. ASSUME NEW m \in Message, NEW d \in Dest, NEW e \in Env, Queue(m, d, e) PROVE JobInv'
  BY <1>1, InsertJob
<1>2. ASSUME Operate PROVE JobInv'
  BY <1>2, OperateJob
<1>3. ASSUME NEW w \in Worker, Work(w) PROVE JobInv'
  <2>1. ASSUME EndJob(w) PROVE JobInv'
    BY <2>1, OverJob DEF EndJob, JobInv, NotifyTypeOK
  <2> QED
    BY <1>3, <2>1, StartJobJob, SkipJob, SendJob, AnswersJob DEF Work
<1>4. ASSUME NEW w \in Worker, Crash(w) PROVE JobInv'
  <2>1. crashes' \in 0 .. MaxCrashes
    BY <1>4, NotifyAssumption DEF Crash, JobInv, NotifyTypeOK
  <2> QED
    BY <1>4, <2>1, OverJob DEF Crash
<1>5. ASSUME Tick PROVE JobInv'
  BY <1>5, TickJob
<1>6. ASSUME UNCHANGED notifyVars PROVE JobInv'
  BY <1>6 DEF notifyVars, JobInv, Ready, NotifyTypeOK
<1> QED
  BY <1>1, <1>2, <1>3, <1>4, <1>5, <1>6 DEF NotifyNext

LEMMA JobAlways == NotifySpec => []JobInv
BY InitJob, NextJob, PTL DEF NotifySpec

(* The state of the notify job is typed, however many jobs overlap: no     *)
(* delivery ever counts more attempts than MAX_ATTEMPTS.                   *)
THEOREM NotifyTyped == NotifySpec => []NotifyTypeOK
<1>1. JobInv => NotifyTypeOK
  BY DEF JobInv
<1> QED
  BY <1>1, JobAlways, PTL
-----------------------------------------------------------------------------
(* One notify job at a time: nothing rewrites a delivery between the read  *)
(* of its batch and its record.                                            *)
OneWorker == \A v, w \in Worker : v = w

InFlight(p) == \E w \in Worker : target[w] = p

BatchFresh ==
  \A w \in Worker, p \in Delivery : p \in batch[w] =>
    /\ delivery[p].status \in {"pending", "cascaded"}
    /\ delivery[p].status = "pending" => seen[w][p] = delivery[p].attempts

DeletedStay ==
  \A p \in Delivery : delivery[p].status = "cascaded" => dest[p[2]].state = "deleted"

(* Every request was counted, or is in flight, or was lost in a crash.     *)
Counted ==
  \A p \in Delivery :
    /\ delivery[p].status = "none" => sends[p] = 0
    /\ delivery[p].status = "cascaded" => sends[p] <= MaxAttempts + crashes
    /\ Queued(p) => sends[p] <= delivery[p].attempts + crashes + (IF InFlight(p) THEN 1 ELSE 0)

SoloInv == JobInv /\ BatchFresh /\ DeletedStay /\ Counted

LEMMA InitSolo == NotifyInit => SoloInv
<1> SUFFICES ASSUME NotifyInit PROVE BatchFresh /\ DeletedStay /\ Counted
  BY InitJob DEF SoloInv
<1> QED
  BY DEF NotifyInit, NoRow, BatchFresh, DeletedStay, Counted, Queued

(* The steps that leave the deliveries and the jobs alone. *)
LEMMA QuietSolo ==
  ASSUME SoloInv, JobInv',
         UNCHANGED <<batch, seen, target, sends, crashes>>,
         \A p \in Delivery : /\ delivery'[p].status = delivery[p].status
                             /\ delivery'[p].attempts = delivery[p].attempts,
         \A d \in Dest : dest[d].state = "deleted" => dest'[d].state = "deleted"
  PROVE  SoloInv'
<1>1. BatchFresh'
  BY DEF SoloInv, BatchFresh
<1>2. DeletedStay'
  BY DEF SoloInv, DeletedStay, Delivery
<1>3. Counted'
  BY DEF SoloInv, Counted, Queued, InFlight
<1> QED
  BY <1>1, <1>2, <1>3 DEF SoloInv

LEMMA DeleteSolo ==
  ASSUME SoloInv, JobInv', NEW d \in Dest, Delete(d)
  PROVE  SoloInv'
<1>1. /\ delivery \in [Delivery -> Row] /\ dest \in [Dest -> Destination]
      /\ batch \in [Worker -> SUBSET Delivery] /\ sends \in [Delivery -> 0 .. SendCap]
      /\ crashes \in 0 .. MaxCrashes
  BY DEF SoloInv, JobInv, NotifyTypeOK
<1>2. ASSUME NEW p \in Delivery
      PROVE  /\ p[2] = d /\ Queued(p) => delivery'[p].status = "cascaded"
             /\ ~(p[2] = d /\ Queued(p)) => delivery'[p] = delivery[p]
  BY <1>1 DEF Delete, Row
<1>3. dest'[d].state = "deleted" /\ \A x \in Dest : x # d => dest'[x] = dest[x]
  BY <1>1 DEF Delete, Destination
<1>4. BatchFresh'
  BY <1>2 DEF Delete, SoloInv, BatchFresh, Queued
<1>5. DeletedStay'
  BY <1>2, <1>3 DEF SoloInv, DeletedStay, Delivery
<1>6. ASSUME NEW p \in Delivery, p[2] = d, Queued(p)
      PROVE  sends[p] <= MaxAttempts + crashes
  <2>1. CASE InFlight(p)
    <3>1. PICK w \in Worker : target[w] = p
      BY <2>1 DEF InFlight
    <3>2. p # None
      BY NotifyAssumption DEF Delivery
    <3>3. p \in batch[w]
      BY <3>1, <3>2 DEF SoloInv, JobInv, Ready
    <3>4. delivery[p].status = "pending"
      BY <1>6, <3>3 DEF SoloInv, BatchFresh, Queued
    <3>5. delivery[p].attempts < MaxAttempts
      BY <3>4 DEF SoloInv, JobInv, Ready
    <3> QED
      BY <1>1, <1>6, <2>1, <3>5, NotifyAssumption DEF SoloInv, Counted, Row, SendCap
  <2>2. CASE ~InFlight(p)
    BY <1>1, <1>6, <2>2, NotifyAssumption DEF SoloInv, Counted, Row, SendCap
  <2> QED
    BY <2>1, <2>2
<1>7. Counted'
  <2> SUFFICES ASSUME NEW p \in Delivery
               PROVE  /\ delivery'[p].status = "none" => sends'[p] = 0
                      /\ delivery'[p].status = "cascaded" => sends'[p] <= MaxAttempts + crashes'
                      /\ Queued(p)' => sends'[p] <= delivery'[p].attempts + crashes'
                                                    + (IF InFlight(p)' THEN 1 ELSE 0)
    BY DEF Counted
  <2>1. sends' = sends /\ crashes' = crashes /\ (InFlight(p)' <=> InFlight(p))
    BY DEF Delete, InFlight
  <2>2. CASE p[2] = d /\ Queued(p)
    BY <1>2, <1>6, <2>1, <2>2 DEF Queued
  <2>3. CASE ~(p[2] = d /\ Queued(p))
    BY <1>2, <2>1, <2>3 DEF SoloInv, Counted, Queued
  <2> QED
    BY <2>2, <2>3
<1> QED
  BY <1>4, <1>5, <1>7 DEF SoloInv

LEMMA QueueSolo ==
  ASSUME SoloInv, JobInv', NEW m \in Message, NEW d \in Dest, NEW e \in Env, Queue(m, d, e)
  PROVE  SoloInv'
<1> DEFINE p == <<m, d>>
           new == [status |-> "pending", from |-> e, attempts |-> 0, wait |-> 0]
<1>1. /\ p \in Delivery /\ new.status = "pending" /\ new.attempts = 0
      /\ delivery' = [delivery EXCEPT ![p] = new] /\ delivery[p].status = "none"
  BY DEF Delivery, Queue, Insert
<1> HIDE DEF p, new
<1>2. delivery \in [Delivery -> Row] /\ crashes \in 0 .. MaxCrashes
  BY DEF SoloInv, JobInv, NotifyTypeOK
<1>3. delivery'[p] = new /\ \A q \in Delivery : q # p => delivery'[q] = delivery[q]
  BY <1>1, <1>2
<1>4. \A w \in Worker : p \notin batch[w]
  BY <1>1 DEF SoloInv, BatchFresh
<1>5. BatchFresh'
  BY <1>3, <1>4 DEF Queue, SoloInv, BatchFresh
<1>6. DeletedStay'
  BY <1>1, <1>3 DEF Queue, SoloInv, DeletedStay
<1>7. sends[p] = 0
  BY <1>1 DEF SoloInv, Counted
<1>8. Counted'
  BY <1>1, <1>2, <1>3, <1>7, NotifyAssumption DEF Queue, SoloInv, Counted, Queued, InFlight
<1> QED
  BY <1>5, <1>6, <1>8 DEF SoloInv

LEMMA StartSolo ==
  ASSUME OneWorker, SoloInv, JobInv', NEW w \in Worker, StartJob(w)
  PROVE  SoloInv'
<1>1. PICK b \in Batches :
        /\ batch' = [batch EXCEPT ![w] = b]
        /\ seen' = [seen EXCEPT ![w] = [p \in Delivery |->
                                        IF p \in b THEN delivery[p].attempts ELSE 0]]
  BY DEF StartJob
<1>2. b \subseteq Due
  BY DEF Batches
<1>3. batch'[w] = b /\ \A p \in b : seen'[w][p] = delivery[p].attempts
  BY <1>1, <1>2 DEF SoloInv, JobInv, NotifyTypeOK, Due
<1>4. BatchFresh'
  BY <1>2, <1>3 DEF StartJob, BatchFresh, OneWorker, Due
<1>5. DeletedStay' /\ Counted'
  BY DEF StartJob, SoloInv, DeletedStay, Counted, Queued, InFlight
<1> QED
  BY <1>4, <1>5 DEF SoloInv

LEMMA OverSolo ==
  ASSUME OneWorker, SoloInv, JobInv', NEW w \in Worker, Over(w),
         \/ crashes' = crashes + 1
         \/ crashes' = crashes /\ batch[w] = {}
  PROVE  SoloInv'
<1>1. /\ target \in [Worker -> Delivery \cup {None}] /\ delivery \in [Delivery -> Row]
      /\ batch \in [Worker -> SUBSET Delivery] /\ sends \in [Delivery -> 0 .. SendCap]
      /\ crashes \in 0 .. MaxCrashes
  BY DEF SoloInv, JobInv, NotifyTypeOK
<1>2. BatchFresh'
  BY <1>1 DEF Over, BatchFresh, OneWorker
<1>3. DeletedStay'
  BY DEF Over, SoloInv, DeletedStay
<1>4. None \notin Delivery
  BY NotifyAssumption DEF Delivery
<1>5. ASSUME NEW p \in Delivery PROVE ~InFlight(p)'
  BY <1>1, <1>4 DEF Over, InFlight, OneWorker
<1>6. ASSUME NEW p \in Delivery, Queued(p)
      PROVE  sends[p] <= delivery[p].attempts + crashes'
  <2>1. CASE InFlight(p)
    <3>1. batch[w] # {}
      BY <1>4, <2>1 DEF InFlight, OneWorker, SoloInv, JobInv, Ready
    <3> QED
      BY <1>1, <1>6, <2>1, <3>1, NotifyAssumption DEF SoloInv, Counted, Row, SendCap
  <2>2. CASE ~InFlight(p)
    BY <1>1, <1>6, <2>2, NotifyAssumption DEF SoloInv, Counted, Row, SendCap
  <2> QED
    BY <2>1, <2>2
<1>7. Counted'
  <2> SUFFICES ASSUME NEW p \in Delivery
               PROVE  /\ delivery'[p].status = "none" => sends'[p] = 0
                      /\ delivery'[p].status = "cascaded" => sends'[p] <= MaxAttempts + crashes'
                      /\ Queued(p)' => sends'[p] <= delivery'[p].attempts + crashes'
                                                    + (IF InFlight(p)' THEN 1 ELSE 0)
    BY DEF Counted
  <2>1. sends' = sends /\ delivery' = delivery
    BY DEF Over
  <2>2. crashes' \in Nat /\ crashes \in Nat /\ crashes <= crashes' /\ sends[p] \in Nat
    BY <1>1, NotifyAssumption DEF SendCap
  <2>3. delivery[p].status = "cascaded" => sends[p] <= MaxAttempts + crashes'
    BY <2>2, NotifyAssumption DEF SoloInv, Counted
  <2>4. delivery[p].attempts \in Nat
    BY <1>1, NotifyAssumption DEF Row
  <2>5. Queued(p)' => sends'[p] <= delivery'[p].attempts + crashes'
    BY <1>6, <2>1 DEF Queued
  <2> QED
    BY <1>5, <2>1, <2>2, <2>3, <2>4, <2>5 DEF SoloInv, Counted
<1> QED
  BY <1>2, <1>3, <1>7 DEF SoloInv

LEMMA SendSolo ==
  ASSUME OneWorker, SoloInv, JobInv', NEW w \in Worker, NEW p \in Delivery, Send(w, p)
  PROVE  SoloInv'
<1>1. /\ target \in [Worker -> Delivery \cup {None}] /\ delivery \in [Delivery -> Row]
      /\ sends \in [Delivery -> 0 .. SendCap] /\ crashes \in 0 .. MaxCrashes
  BY DEF SoloInv, JobInv, NotifyTypeOK
<1>2. BatchFresh' /\ DeletedStay'
  BY DEF Send, SoloInv, BatchFresh, DeletedStay
<1>3. delivery[p].status = "pending"
  BY DEF Send, SoloInv, BatchFresh, DeletedStay
<1>4. None \notin Delivery
  BY NotifyAssumption DEF Delivery
<1>5. \A q \in Delivery : ~InFlight(q)
  BY <1>4 DEF Send, InFlight, OneWorker, SoloInv, JobInv, Ready
<1>6. InFlight(p)' /\ \A q \in Delivery : q # p => ~InFlight(q)'
  BY <1>1 DEF Send, InFlight, OneWorker
<1>7. /\ sends'[p] \in Nat /\ sends'[p] <= sends[p] + 1
      /\ \A q \in Delivery : q # p => sends'[q] = sends[q]
  BY <1>1, NotifyAssumption DEF Send, SendCap
<1>8. delivery[p].attempts \in Nat /\ crashes \in Nat /\ sends[p] \in Nat
  BY <1>1, NotifyAssumption DEF Row, SendCap
<1>9. sends[p] <= delivery[p].attempts + crashes
  BY <1>3, <1>5, <1>8 DEF SoloInv, Counted, Queued
<1>10. sends'[p] <= delivery[p].attempts + crashes + 1
  BY <1>7, <1>8, <1>9
<1>11. delivery' = delivery /\ crashes' = crashes
  BY DEF Send
<1>12. Counted'
  BY <1>3, <1>5, <1>6, <1>7, <1>10, <1>11 DEF SoloInv, Counted, Queued
<1> QED
  BY <1>2, <1>12 DEF SoloInv

(* What a job records of one delivery of its batch, sent or not. *)
LEMMA RecordSolo ==
  ASSUME OneWorker, SoloInv, JobInv', NEW w \in Worker, NEW p \in Delivery, p \in batch[w],
         NEW st \in {"pending", "ok", "failed"}, NEW t \in 0 .. MaxWait,
         delivery' = Recorded(p, st, Attempts(w, p), t),
         batch' = [batch EXCEPT ![w] = batch[w] \ {p}],
         target[w] \in {None, p}, target' = [target EXCEPT ![w] = None],
         UNCHANGED <<dest, seen, sends, crashes>>
  PROVE  SoloInv'
<1>1. /\ target \in [Worker -> Delivery \cup {None}] /\ delivery \in [Delivery -> Row]
      /\ batch \in [Worker -> SUBSET Delivery] /\ sends \in [Delivery -> 0 .. SendCap]
      /\ crashes \in 0 .. MaxCrashes
  BY DEF SoloInv, JobInv, NotifyTypeOK
<1>2. Attempts(w, p) \in 1 .. MaxAttempts /\ Attempts(w, p) \in 0 .. MaxAttempts
  BY AttemptsInRange DEF SoloInv
<1>3. /\ \A q \in Delivery : q # p => delivery'[q] = delivery[q]
      /\ ~Queued(p) => delivery' = delivery
      /\ Queued(p) => delivery'[p].status = st /\ delivery'[p].attempts = Attempts(w, p)
  BY <1>2, RecordedRow DEF SoloInv, JobInv
<1>4. p \notin batch'[w]
  BY <1>1
<1>5. BatchFresh'
  BY <1>1, <1>3, <1>4 DEF SoloInv, BatchFresh, OneWorker
<1>7. DeletedStay'
  BY <1>3 DEF SoloInv, DeletedStay, Queued
<1>8. None \notin Delivery
  BY NotifyAssumption DEF Delivery
<1>9. \A q \in Delivery : q # p => ~InFlight(q) /\ ~InFlight(q)'
  BY <1>1, <1>8 DEF InFlight, OneWorker
<1>10. Queued(p) => delivery[p].attempts \in Nat /\ Attempts(w, p) = delivery[p].attempts + 1
  BY <1>1, NotifyAssumption DEF SoloInv, BatchFresh, Queued, Attempts, Row
<1>11. crashes \in Nat /\ sends[p] \in Nat
  BY <1>1, NotifyAssumption DEF SendCap
<1>12. Queued(p) => sends[p] <= Attempts(w, p) + crashes
  BY <1>10, <1>11 DEF SoloInv, Counted
<1>13. ASSUME NEW q \in Delivery
       PROVE  /\ delivery'[q].status = "none" => sends'[q] = 0
              /\ delivery'[q].status = "cascaded" => sends'[q] <= MaxAttempts + crashes'
              /\ Queued(q)' => sends'[q] <= delivery'[q].attempts + crashes'
                                            + (IF InFlight(q)' THEN 1 ELSE 0)
  <2>1. CASE q # p
    BY <1>3, <1>9, <2>1 DEF SoloInv, Counted, Queued
  <2>2. CASE q = p /\ ~Queued(p)
    BY <1>3, <2>2 DEF SoloInv, Counted, Queued
  <2>3. CASE q = p /\ Queued(p)
    <3>1. /\ delivery'[p].status = st /\ delivery'[p].attempts = Attempts(w, p)
          /\ Attempts(w, p) \in Nat
      BY <1>2, <1>3, <2>3
    <3>2. sends'[p] <= delivery'[p].attempts + crashes' + (IF InFlight(p)' THEN 1 ELSE 0)
      BY <1>11, <1>12, <2>3, <3>1
    <3> QED
      BY <2>3, <3>1, <3>2
  <2> QED
    BY <2>1, <2>2, <2>3
<1>14. Counted'
  BY <1>13 DEF Counted
<1> QED
  BY <1>5, <1>7, <1>14 DEF SoloInv

LEMMA RunningUntargeted ==
  ASSUME JobInv, NEW w \in Worker, job[w] = "running"
  PROVE  target[w] = None /\ target = [target EXCEPT ![w] = None]
BY DEF JobInv, Ready, NotifyTypeOK

LEMMA RecordsSolo ==
  ASSUME OneWorker, SoloInv, JobInv', NEW w \in Worker, NEW p \in Delivery,
         Skip(w, p) \/ Accepted(w, p) \/ Retried(w, p) \/ GivenUp(w, p)
  PROVE  SoloInv'
<1>1. 0 \in 0 .. MaxWait
  BY NotifyAssumption
<1>2. CASE Skip(w, p)
  <2>1. target[w] = None /\ target = [target EXCEPT ![w] = None]
    BY <1>2, RunningUntargeted DEF Skip, SoloInv
  <2> QED
    BY <1>1, <1>2, <2>1, RecordSolo DEF Skip
<1>3. ASSUME Answered(w, p)
      PROVE  /\ p \in batch[w] /\ target[w] \in {None, p}
             /\ target' = [target EXCEPT ![w] = None]
             /\ batch' = [batch EXCEPT ![w] = batch[w] \ {p}]
             /\ UNCHANGED <<dest, seen, sends, crashes>>
  BY <1>3, TargetInBatch DEF Answered, SoloInv
<1>4. CASE Accepted(w, p)
  BY <1>1, <1>3, <1>4, RecordSolo DEF Accepted
<1>5. CASE GivenUp(w, p)
  BY <1>1, <1>3, <1>5, RecordSolo DEF GivenUp
<1>6. CASE Retried(w, p)
  <2>1. Attempts(w, p) \in 1 .. MaxAttempts
    BY <1>3, <1>6, AttemptsInRange DEF Retried, SoloInv
  <2>2. Attempts(w, p) \in DOMAIN Backoff
    BY <1>6, <2>1, NotifyAssumption DEF Retried
  <2>3. began[w] \in 0 .. JobMax /\ Backoff[Attempts(w, p)] \in 0 .. MaxWait
    BY <2>2, NotifyAssumption DEF SoloInv, JobInv, NotifyTypeOK
  <2> DEFINE rest == Left(w, Backoff[Attempts(w, p)])
  <2>4. rest \in 0 .. MaxWait
    BY <2>3, NotifyAssumption DEF Left
  <2>5. delivery' = Recorded(p, "pending", Attempts(w, p), rest)
    BY <1>6 DEF Retried
  <2> HIDE DEF rest
  <2> QED
    BY <1>3, <1>6, <2>4, <2>5, RecordSolo DEF Retried
<1> QED
  BY <1>2, <1>4, <1>5, <1>6

LEMMA NextSolo == OneWorker /\ SoloInv /\ [NotifyNext]_notifyVars => SoloInv'
<1> SUFFICES ASSUME OneWorker, SoloInv, [NotifyNext]_notifyVars PROVE SoloInv'
  OBVIOUS
<1>1. JobInv'
  BY NextJob DEF SoloInv
<1>2. ASSUME NEW m \in Message, NEW d \in Dest, NEW e \in Env, Queue(m, d, e) PROVE SoloInv'
  BY <1>1, <1>2, QueueSolo
<1>3. ASSUME Operate PROVE SoloInv'
  <2>1. dest \in [Dest -> Destination]
    BY DEF SoloInv, JobInv, NotifyTypeOK
  <2>2. ASSUME NEW d \in Dest, NEW s \in Env \cup {None}, Create(d, s) PROVE SoloInv'
    BY <1>1, <2>1, <2>2, QuietSolo DEF Create
  <2>3. ASSUME NEW d \in Dest, Toggle(d) PROVE SoloInv'
    <3>1. \A x \in Dest : dest[x].state = "deleted" => dest'[x].state = "deleted"
      BY <2>1, <2>3 DEF Toggle, Destination
    <3> QED
      BY <1>1, <2>3, <3>1, QuietSolo DEF Toggle
  <2>4. ASSUME NEW e \in Env, Disconnect(e) PROVE SoloInv'
    <3>1. \A x \in Dest : dest[x].state = "deleted" => dest'[x].state = "deleted"
      BY <2>1, <2>4 DEF Disconnect, Unscoped, Destination
    <3> QED
      BY <1>1, <2>4, <3>1, QuietSolo DEF Disconnect
  <2> QED
    BY <1>1, <1>3, <2>2, <2>3, <2>4, DeleteSolo DEF Operate
<1>4. ASSUME NEW w \in Worker, Work(w) PROVE SoloInv'
  <2>1. ASSUME EndJob(w) PROVE SoloInv'
    BY <1>1, <2>1, OverSolo DEF EndJob
  <2> QED
    BY <1>1, <1>4, <2>1, StartSolo, SendSolo, RecordsSolo DEF Work
<1>5. ASSUME NEW w \in Worker, Crash(w) PROVE SoloInv'
  BY <1>1, <1>5, OverSolo DEF Crash
<1>6. ASSUME Tick PROVE SoloInv'
  <2>1. delivery \in [Delivery -> Row]
    BY DEF SoloInv, JobInv, NotifyTypeOK
  <2>2. \A p \in Delivery : /\ delivery'[p].status = delivery[p].status
                            /\ delivery'[p].attempts = delivery[p].attempts
    BY <1>6, <2>1 DEF Tick, Row
  <2> QED
    BY <1>1, <1>6, <2>2, QuietSolo DEF Tick
<1>7. ASSUME UNCHANGED notifyVars PROVE SoloInv'
  BY <1>1, <1>7, QuietSolo DEF notifyVars
<1> QED
  BY <1>2, <1>3, <1>4, <1>5, <1>6, <1>7 DEF NotifyNext

LEMMA SoloAlways == OneWorker => (NotifySpec => []SoloInv)
<1> SUFFICES ASSUME OneWorker PROVE NotifySpec => []SoloInv
  OBVIOUS
<1>1. SoloInv /\ [NotifyNext]_notifyVars => SoloInv'
  BY NextSolo
<1> QED
  BY <1>1, InitSolo, PTL DEF NotifySpec

(* With one notify job at a time a receiver sees a delivery at most        *)
(* MAX_ATTEMPTS times, plus once for each process that died while it       *)
(* waited, for any backoffs, batches, switched and deleted destinations.   *)
THEOREM RequestsBounded == OneWorker => (NotifySpec => []BoundedRequests)
<1> SUFFICES ASSUME OneWorker PROVE NotifySpec => []BoundedRequests
  OBVIOUS
<1>1. SoloInv => BoundedRequests
  <2> SUFFICES ASSUME SoloInv, NEW p \in Delivery PROVE sends[p] <= MaxAttempts + crashes
    BY DEF BoundedRequests
  <2>1. /\ delivery \in [Delivery -> Row] /\ sends[p] \in Nat /\ crashes \in Nat
        /\ delivery[p].attempts \in 0 .. MaxAttempts
    BY NotifyAssumption DEF SoloInv, JobInv, NotifyTypeOK, SendCap, Row
  <2>2. CASE ~Queued(p)
    BY <2>1, <2>2, NotifyAssumption DEF SoloInv, Counted, Queued
  <2>3. CASE Queued(p) /\ InFlight(p)
    <3>1. PICK w \in Worker : target[w] = p
      BY <2>3 DEF InFlight
    <3>2. p # None
      BY NotifyAssumption DEF Delivery
    <3>3. p \in batch[w]
      BY <3>1, <3>2 DEF SoloInv, JobInv, Ready
    <3>4. delivery[p].attempts < MaxAttempts
      BY <2>3, <3>3 DEF SoloInv, BatchFresh, Queued, JobInv, Ready
    <3> QED
      BY <2>1, <2>3, <3>4, NotifyAssumption DEF SoloInv, Counted
  <2>4. CASE Queued(p) /\ ~InFlight(p)
    BY <2>1, <2>4, NotifyAssumption DEF SoloInv, Counted
  <2> QED
    BY <2>2, <2>3, <2>4
<1> QED
  BY <1>1, SoloAlways, PTL

(* What a step of a single job, or of the operator, may do to a delivery   *)
(* that is settled.                                                        *)
LEMMA SettledStep ==
  ASSUME OneWorker, SoloInv, [NotifyNext]_notifyVars, NEW p \in Delivery,
         delivery[p].status \in {"ok", "failed"}
  PROVE  delivery'[p].status \in {delivery[p].status, "cascaded"}
<1>1. delivery \in [Delivery -> Row]
  BY DEF SoloInv, JobInv, NotifyTypeOK
<1>2. \A w \in Worker : p \notin batch[w]
  BY DEF SoloInv, BatchFresh
<1>3. ASSUME NEW m \in Message, NEW d \in Dest, NEW e \in Env, Queue(m, d, e)
      PROVE  delivery'[p] = delivery[p]
  BY <1>1, <1>3 DEF Queue, Insert
<1>4. ASSUME Operate PROVE delivery'[p].status \in {delivery[p].status, "cascaded"}
  BY <1>1, <1>4 DEF Operate, Create, Toggle, Delete, Disconnect, Row
<1>5. ASSUME NEW w \in Worker, Work(w) PROVE delivery'[p] = delivery[p]
  <2>1. ASSUME NEW q \in Delivery, q \in batch[w], NEW st, NEW n, NEW t,
               delivery' = Recorded(q, st, n, t)
        PROVE  delivery'[p] = delivery[p]
    BY <1>1, <1>2, <2>1 DEF Recorded
  <2>2. ASSUME NEW q \in Delivery, Accepted(w, q) \/ Retried(w, q) \/ GivenUp(w, q)
        PROVE  delivery'[p] = delivery[p]
    <3>1. q \in batch[w]
      BY <2>2, TargetInBatch DEF Accepted, Retried, GivenUp, SoloInv
    <3> QED
      BY <2>1, <2>2, <3>1 DEF Accepted, Retried, GivenUp
  <2>3. ASSUME NEW q \in Delivery, Skip(w, q) PROVE delivery'[p] = delivery[p]
    BY <2>1, <2>3 DEF Skip
  <2> QED
    BY <1>5, <2>2, <2>3 DEF Work, StartJob, EndJob, Over, Send
<1>6. ASSUME NEW w \in Worker, Crash(w) PROVE delivery'[p] = delivery[p]
  BY <1>6 DEF Crash, Over
<1>7. ASSUME Tick PROVE delivery'[p].status = delivery[p].status
  BY <1>1, <1>7 DEF Tick, Row
<1>8. ASSUME UNCHANGED notifyVars PROVE delivery'[p] = delivery[p]
  BY <1>8 DEF notifyVars
<1> QED
  BY <1>3, <1>4, <1>5, <1>6, <1>7, <1>8 DEF NotifyNext

(* With one notify job at a time, what was recorded as delivered or given  *)
(* up is never attempted again nor rewritten.                              *)
THEOREM SettledIsFinal == OneWorker => (NotifySpec => SettledStays)
<1> SUFFICES ASSUME OneWorker PROVE NotifySpec => SettledStays
  OBVIOUS
<1>1. SoloInv /\ [NotifyNext]_notifyVars =>
        [\A p \in Delivery : delivery[p].status \in {"ok", "failed"} =>
           delivery'[p].status \in {delivery[p].status, "cascaded"}]_notifyVars
  BY SettledStep
<1> QED
  BY <1>1, SoloAlways, PTL DEF NotifySpec, SettledStays
-----------------------------------------------------------------------------
(* While the connection it was created for stands, a destination keeps the *)
(* scope it was created with.                                              *)
Scoped ==
  /\ \A d \in Dest : dest[d].state # "absent" /\ made[d] \notin gone =>
                      dest[d].scope = made[d]
  /\ \A p \in Delivery : delivery[p].status # "none" => dest[p[2]].state # "absent"

OwnInv == JobInv /\ Scoped /\ AccountsApart

(* What leaves the destinations, and what each delivery is about, alone. *)
LEMMA OwnKept ==
  ASSUME OwnInv, JobInv', UNCHANGED <<dest, made, gone>>,
         \A p \in Delivery : /\ delivery'[p].status # "none" => delivery[p].status # "none"
                             /\ delivery'[p].from = delivery[p].from
  PROVE  OwnInv'
BY DEF OwnInv, Scoped, AccountsApart

LEMMA OperateOwn ==
  ASSUME OwnInv, JobInv', Operate
  PROVE  OwnInv'
<1>1. /\ dest \in [Dest -> Destination] /\ delivery \in [Delivery -> Row]
      /\ made \in [Dest -> Env \cup {None}]
  BY DEF OwnInv, JobInv, NotifyTypeOK
<1>2. \A p \in Delivery : p[2] \in Dest
  BY DEF Delivery
<1>3. ASSUME NEW d \in Dest, NEW s \in Env \cup {None}, Create(d, s) PROVE OwnInv'
  BY <1>1, <1>2, <1>3 DEF Create, OwnInv, Scoped, AccountsApart
<1>4. ASSUME NEW d \in Dest, Toggle(d) PROVE OwnInv'
  <2>1. \A x \in Dest : /\ dest'[x].scope = dest[x].scope
                        /\ dest'[x].state = "absent" <=> dest[x].state = "absent"
    BY <1>1, <1>4 DEF Toggle, Destination
  <2> QED
    BY <1>2, <1>4, <2>1 DEF Toggle, OwnInv, Scoped, AccountsApart
<1>5. ASSUME NEW d \in Dest, Delete(d) PROVE OwnInv'
  <2>1. \A x \in Dest : /\ dest'[x].scope = dest[x].scope
                        /\ dest'[x].state = "absent" <=> dest[x].state = "absent"
    BY <1>1, <1>5 DEF Delete, Destination
  <2>2. \A p \in Delivery : /\ delivery'[p].status # "none" => delivery[p].status # "none"
                            /\ delivery'[p].from = delivery[p].from
    BY <1>1, <1>5 DEF Delete, Row, Queued
  <2> QED
    BY <1>2, <1>5, <2>1, <2>2 DEF Delete, OwnInv, Scoped, AccountsApart
<1>6. ASSUME NEW e \in Env, Disconnect(e) PROVE OwnInv'
  <2>1. \A x \in Dest : /\ dest'[x].state = dest[x].state
                        /\ dest[x].scope # e => dest'[x].scope = dest[x].scope
    BY <1>1, <1>6 DEF Disconnect, Unscoped, Destination
  <2>2. /\ gone' = gone \cup {e}
        /\ UNCHANGED <<delivery, made>>
    BY <1>6 DEF Disconnect
  <2>3. Scoped'
    BY <1>2, <2>1, <2>2 DEF OwnInv, Scoped
  <2>4. AccountsApart'
    BY <2>2 DEF OwnInv, AccountsApart
  <2> QED
    BY <2>3, <2>4 DEF OwnInv
<1> QED
  BY <1>3, <1>4, <1>5, <1>6 DEF Operate

LEMMA RecordOwn ==
  ASSUME OwnInv, JobInv', NEW p \in Delivery, NEW st, NEW n, NEW t,
         delivery' = Recorded(p, st, n, t), UNCHANGED <<dest, made, gone>>
  PROVE  OwnInv'
<1>1. delivery \in [Delivery -> Row]
  BY DEF OwnInv, JobInv, NotifyTypeOK
<1>2. \A q \in Delivery : /\ delivery'[q].status # "none" => delivery[q].status # "none"
                          /\ delivery'[q].from = delivery[q].from
  BY <1>1 DEF Recorded, Queued
<1> QED
  BY <1>2, OwnKept

LEMMA NextOwn == OwnInv /\ [NotifyNext]_notifyVars => OwnInv'
<1> SUFFICES ASSUME OwnInv, [NotifyNext]_notifyVars PROVE OwnInv'
  OBVIOUS
<1>1. JobInv'
  BY NextJob DEF OwnInv
<1>2. ASSUME NEW m \in Message, NEW d \in Dest, NEW e \in Env, Queue(m, d, e) PROVE OwnInv'
  <2> DEFINE p == <<m, d>>
             new == [status |-> "pending", from |-> e, attempts |-> 0, wait |-> 0]
  <2>1. /\ p \in Delivery /\ new.from = e /\ p[2] = d
        /\ delivery' = [delivery EXCEPT ![p] = new]
    BY <1>2 DEF Delivery, Queue, Insert
  <2>2. dest[d].state \in {"on", "off"} /\ dest[d].scope \in {None, e}
    BY <1>2 DEF Queue, Stands, Receives
  <2> HIDE DEF p, new
  <2>3. /\ delivery'[p].from = e
        /\ \A q \in Delivery : q # p => delivery'[q] = delivery[q]
    BY <2>1 DEF OwnInv, JobInv, NotifyTypeOK
  <2>4. made[d] \notin gone => made[d] \in {None, e}
    BY <2>2 DEF OwnInv, Scoped
  <2> QED
    BY <1>1, <1>2, <2>1, <2>2, <2>3, <2>4 DEF Queue, OwnInv, Scoped, AccountsApart
<1>3. ASSUME Operate PROVE OwnInv'
  BY <1>1, <1>3, OperateOwn
<1>4. ASSUME NEW w \in Worker, Work(w) PROVE OwnInv'
  <2>1. ASSUME StartJob(w) \/ EndJob(w) PROVE OwnInv'
    BY <1>1, <2>1, OwnKept DEF StartJob, EndJob, Over
  <2>2. ASSUME NEW p \in Delivery, Skip(w, p) PROVE OwnInv'
    BY <1>1, <2>2, RecordOwn DEF Skip
  <2>3. ASSUME NEW p \in Delivery, Send(w, p) PROVE OwnInv'
    BY <1>1, <2>3, OwnKept DEF Send
  <2>4. ASSUME NEW p \in Delivery, Accepted(w, p) \/ Retried(w, p) \/ GivenUp(w, p)
        PROVE  OwnInv'
    BY <1>1, <2>4, RecordOwn DEF Accepted, Retried, GivenUp, Answered
  <2> QED
    BY <1>4, <2>1, <2>2, <2>3, <2>4 DEF Work
<1>5. ASSUME NEW w \in Worker, Crash(w) PROVE OwnInv'
  BY <1>1, <1>5, OwnKept DEF Crash, Over
<1>6. ASSUME Tick PROVE OwnInv'
  <2>1. delivery \in [Delivery -> Row]
    BY DEF OwnInv, JobInv, NotifyTypeOK
  <2>2. \A p \in Delivery : /\ delivery'[p].status = delivery[p].status
                            /\ delivery'[p].from = delivery[p].from
    BY <1>6, <2>1 DEF Tick, Row
  <2> QED
    BY <1>1, <1>6, <2>2, OwnKept DEF Tick
<1>7. ASSUME UNCHANGED notifyVars PROVE OwnInv'
  BY <1>1, <1>7, OwnKept DEF notifyVars
<1> QED
  BY <1>2, <1>3, <1>4, <1>5, <1>6, <1>7 DEF NotifyNext

(* A destination created for one connection never holds another's message  *)
(* while that connection stands: destinations are switched, deleted and    *)
(* retried, and other connections removed, in any order, with any number   *)
(* of overlapping jobs.                                                    *)
THEOREM AccountsKeptApart == NotifySpec => []AccountsApart
<1>1. NotifyInit => OwnInv
  BY InitJob DEF NotifyInit, NoRow, OwnInv, Scoped, AccountsApart
<1>2. OwnInv /\ [NotifyNext]_notifyVars => OwnInv'
  BY NextOwn
<1>3. OwnInv => AccountsApart
  BY DEF OwnInv
<1> QED
  BY <1>1, <1>2, <1>3, PTL DEF NotifySpec
=============================================================================
