-------------------------- MODULE AlertCycleProofs --------------------------
(***************************************************************************)
(* Facts about the alert cycle for any keys, alerts, destinations and      *)
(* overlapping collectors: the cycle uses the delivery queue as module     *)
(* Notify says it may be used, so the theorems about deliveries hold of    *)
(* the whole; a key has one open alert; and one collector leaves open      *)
(* exactly what it found firing.                                           *)
(***************************************************************************)
EXTENDS AlertCycle, NotifyProofs

AlertTyped ==
  /\ alert \in [Message -> Alert]
  /\ cycle \in [Collector -> {"idle", "reading", "deciding", "opening", "orphaned"}]
  /\ scope \in [Collector -> Env \cup {None}]
  /\ fires \in [Collector -> SUBSET Key]
  /\ firing \in [Collector -> SUBSET Key]
  /\ opens \in [Collector -> Key \cup {None}]
  /\ owes \in [Collector -> SUBSET Delivery]
  /\ hushed \in SUBSET Key
  /\ told \in [Key -> 0 .. Cooldown]
  /\ due \in SUBSET Delivery
  /\ lost \in SUBSET Message
  /\ deaths \in 0 .. MaxDeaths

CycleShaped ==
  \A c \in Collector :
    /\ cycle[c] # "idle" => scope[c] \in Env
    /\ cycle[c] = "opening" => opens[c] \in Key
    /\ cycle[c] \in {"idle", "reading"} => firing[c] = {}

(* A row is about a key once it is no longer free. *)
RowsKeyed == \A a \in Message : alert[a].state # "none" => alert[a].key \in Key

(* A destination that was read for e: it was there, and still receives it. *)
Addressed(d, e) == dest[d].state # "absent" /\ Receives(d, e)

(* What a cycle owes is still to be queued, by it alone. *)
OwedOnce ==
  /\ \A c \in Collector, p \in Delivery : p \in owes[c] =>
       /\ cycle[c] \in {"deciding", "orphaned"} /\ alert[p[1]].state # "none"
       /\ delivery[p].status = "none" /\ Addressed(p[2], scope[c])
  /\ \A b, c \in Collector, p \in Delivery : p \in owes[b] /\ p \in owes[c] => b = c
  /\ \A p \in Delivery : delivery[p].status # "none" => alert[p[1]].state # "none"

AlertInv == JobInv /\ AlertTyped /\ CycleShaped /\ RowsKeyed /\ OwedOnce /\ OneOpenPerKey
-----------------------------------------------------------------------------
LEMMA InitAlert == Init => AlertInv
<1> SUFFICES ASSUME Init PROVE AlertInv
  OBVIOUS
<1>1. JobInv
  BY InitJob DEF Init
<1>2. NoAlert \in Alert /\ NoAlert.state = "none"
  BY AlertAssumption DEF NoAlert, Alert
<1>3. AlertTyped
  BY <1>2, AlertAssumption DEF Init, AlertTyped
<1>4. CycleShaped /\ RowsKeyed /\ OneOpenPerKey
  BY <1>2 DEF Init, CycleShaped, RowsKeyed, OneOpenPerKey
<1>5. OwedOnce
  BY DEF Init, NotifyInit, NoRow, OwedOnce
<1> QED
  BY <1>1, <1>3, <1>4, <1>5 DEF AlertInv

(* Where a step of the cycle leaves the deliveries and destinations alone. *)
LEMMA NotifyKept == JobInv /\ UNCHANGED notifyVars => JobInv'
BY NextJob

LEMMA QuitAlert ==
  ASSUME AlertInv, NEW c \in Collector, Quit(c), deaths' \in 0 .. MaxDeaths,
         UNCHANGED <<alert, hushed, told, due, notifyVars>>, lost' \in SUBSET Message
  PROVE  AlertInv'
<1>1. JobInv'
  BY NotifyKept DEF AlertInv
<1>2. AlertTyped'
  BY DEF AlertInv, AlertTyped, Quit
<1>3. CycleShaped' /\ RowsKeyed' /\ OneOpenPerKey'
  BY DEF AlertInv, AlertTyped, Quit, CycleShaped, RowsKeyed, OneOpenPerKey
<1>4. OwedOnce'
  BY DEF AlertInv, AlertTyped, Quit, OwedOnce, notifyVars, Addressed, Receives
<1> QED
  BY <1>1, <1>2, <1>3, <1>4 DEF AlertInv

LEMMA BeginAlert ==
  ASSUME AlertInv, NEW c \in Collector, Evaluate(c) \/ \E e \in Env : Begin(c, e)
  PROVE  AlertInv'
<1>1. JobInv'
  BY NotifyKept DEF AlertInv, Evaluate, Begin
<1>2. ASSUME NEW e \in Env, Begin(c, e) PROVE AlertInv'
  <2>1. AlertTyped' /\ CycleShaped' /\ RowsKeyed' /\ OneOpenPerKey'
    BY <1>2 DEF Begin, AlertInv, AlertTyped, CycleShaped, RowsKeyed, OneOpenPerKey
  <2>2. OwedOnce'
    BY <1>2 DEF Begin, AlertInv, AlertTyped, OwedOnce, notifyVars, Addressed, Receives
  <2> QED
    BY <1>1, <2>1, <2>2 DEF AlertInv
<1>3. ASSUME Evaluate(c) PROVE AlertInv'
  <2>1. AlertTyped' /\ CycleShaped' /\ RowsKeyed' /\ OneOpenPerKey'
    BY <1>3 DEF Evaluate, AlertInv, AlertTyped, CycleShaped, RowsKeyed, OneOpenPerKey
  <2>2. OwedOnce'
    BY <1>3 DEF Evaluate, AlertInv, AlertTyped, OwedOnce, notifyVars, Addressed, Receives
  <2> QED
    BY <1>1, <2>1, <2>2 DEF AlertInv
<1> QED
  BY <1>2, <1>3

(* Only the age of an alert changes. *)
LEMMA Aged ==
  ASSUME AlertTyped, NEW a \in Message, NEW t \in 0 .. Cooldown,
         alert' = [alert EXCEPT ![a].fired = t]
  PROVE  /\ alert' \in [Message -> Alert]
         /\ \A b \in Message : /\ alert'[b].state = alert[b].state
                               /\ alert'[b].key = alert[b].key
                               /\ alert'[b].ack = alert[b].ack
<1>1. alert \in [Message -> Alert]
  BY DEF AlertTyped
<1>2. [alert[a] EXCEPT !.fired = t] \in Alert
  BY <1>1 DEF Alert
<1> QED
  BY <1>1, <1>2 DEF Alert

LEMMA DecideAlert ==
  ASSUME AlertInv, NEW c \in Collector, NEW k \in Key,
         Suppress(c, k) \/ Refire(c, k) \/ FindNone(c, k)
  PROVE  AlertInv'
<1>1. JobInv'
  BY NotifyKept DEF AlertInv, Suppress, Refire, FindNone, Decides
<1>2. Decides(c, k)
  BY DEF Suppress, Refire, FindNone
<1>3. 0 \in 0 .. Cooldown /\ AlertTyped
  BY AlertAssumption DEF AlertInv
<1>4. /\ alert' \in [Message -> Alert]
      /\ \A b \in Message : alert'[b].state = alert[b].state /\ alert'[b].key = alert[b].key
  <2>1. ASSUME NEW a \in Open(k), alert' = [alert EXCEPT ![a].fired = 0]
        PROVE  /\ alert' \in [Message -> Alert]
               /\ \A b \in Message : /\ alert'[b].state = alert[b].state
                                     /\ alert'[b].key = alert[b].key
    BY <1>3, <2>1, Aged DEF Open
  <2> QED
    BY <1>3, <2>1 DEF Suppress, Refire, FindNone, AlertTyped
<1>5. /\ cycle' \in [Collector -> {"idle", "reading", "deciding", "opening", "orphaned"}]
      /\ opens' \in [Collector -> Key \cup {None}]
      /\ told' \in [Key -> 0 .. Cooldown]
  BY <1>3 DEF Suppress, Refire, FindNone, AlertTyped
<1>6. AlertTyped'
  BY <1>2, <1>3, <1>4, <1>5 DEF Decides, AlertTyped
<1>7. CycleShaped'
  BY <1>2, <1>3 DEF Suppress, Refire, FindNone, Decides, AlertInv, AlertTyped, CycleShaped
<1>8. RowsKeyed' /\ OneOpenPerKey'
  BY <1>4 DEF AlertInv, RowsKeyed, OneOpenPerKey
<1>9. OwedOnce'
  <2>1. owes' = owes /\ delivery' = delivery /\ dest' = dest /\ scope' = scope /\ owes[c] = {}
    BY <1>2 DEF Decides, notifyVars
  <2>2. \A b \in Collector : b # c => cycle'[b] = cycle[b]
    BY <1>3 DEF Suppress, Refire, FindNone, AlertTyped
  <2>3. \A p \in Delivery : p[1] \in Message
    BY DEF Delivery
  <2> QED
    BY <1>4, <2>1, <2>2, <2>3 DEF AlertInv, OwedOnce, Addressed, Receives
<1> QED
  BY <1>1, <1>6, <1>7, <1>8, <1>9 DEF AlertInv

LEMMA OpenAlertAlert ==
  ASSUME AlertInv, NEW c \in Collector, NEW a \in Message, OpenAlert(c, a)
  PROVE  AlertInv'
<1> DEFINE new == [state |-> "open", key |-> opens[c], ack |-> "no", fired |-> 0]
<1>1. JobInv'
  BY NotifyKept DEF AlertInv, OpenAlert
<1>2. AlertTyped /\ opens[c] \in Key /\ scope[c] \in Env
  BY DEF AlertInv, OpenAlert, CycleShaped
<1>3. new \in Alert /\ new.state = "open" /\ new.key = opens[c]
  BY <1>2, AlertAssumption DEF Alert
<1>4. alert' = [alert EXCEPT ![a] = new] /\ alert[a].state = "none"
  BY DEF OpenAlert
<1> HIDE DEF new
<1>5. /\ alert' \in [Message -> Alert] /\ alert'[a] = new
      /\ \A b \in Message : b # a => alert'[b] = alert[b]
  BY <1>2, <1>3, <1>4 DEF AlertTyped
<1>6. Announced(a, scope[c]) \in SUBSET Delivery
  BY DEF Announced, Delivery
<1>7. told' \in [Key -> 0 .. Cooldown]
  <2>1. 0 \in 0 .. Cooldown
    BY AlertAssumption
  <2> QED
    BY <1>2, <2>1 DEF OpenAlert, AlertTyped
<1>8. AlertTyped'
  BY <1>2, <1>5, <1>6, <1>7 DEF OpenAlert, AlertTyped
<1>9. CycleShaped' /\ RowsKeyed'
  BY <1>2, <1>3, <1>5 DEF OpenAlert, AlertInv, AlertTyped, CycleShaped, RowsKeyed
<1>10. OneOpenPerKey'
  <2>1. \A b \in Message : alert[b].state = "open" => alert[b].key # opens[c]
    BY DEF OpenAlert, Conflict, Open
  <2> QED
    BY <1>3, <1>5, <2>1 DEF AlertInv, OneOpenPerKey
<1>11. OwedOnce'
  <2>1. /\ owes'[c] = Announced(a, scope[c]) /\ cycle'[c] = "deciding"
        /\ \A b \in Collector : b # c => owes'[b] = owes[b] /\ cycle'[b] = cycle[b]
        /\ delivery' = delivery /\ dest' = dest /\ scope' = scope
    BY <1>2 DEF OpenAlert, AlertTyped, notifyVars
  <2>2. \A p \in Announced(a, scope[c]) : p[1] = a /\ Addressed(p[2], scope[c])
    BY DEF Announced, Reaches, Addressed
  <2>3. \A p \in Delivery : p[1] = a => /\ delivery[p].status = "none"
                                        /\ \A b \in Collector : p \notin owes[b]
    BY <1>4 DEF AlertInv, OwedOnce
  <2>4. \A p \in Delivery : p[1] \in Message /\ p[2] \in Dest
    BY DEF Delivery
  <2>5. \A b \in Message : alert[b].state # "none" => alert'[b].state # "none"
    BY <1>3, <1>5
  <2>6. ASSUME NEW b \in Collector, NEW p \in Delivery, p \in owes'[b]
        PROVE  /\ cycle'[b] \in {"deciding", "orphaned"} /\ alert'[p[1]].state # "none"
               /\ delivery'[p].status = "none" /\ Addressed(p[2], scope[b])'
    BY <1>3, <1>5, <2>1, <2>2, <2>3, <2>4, <2>5, <2>6
      DEF AlertInv, OwedOnce, Addressed, Receives
  <2>7. ASSUME NEW b \in Collector, NEW x \in Collector, NEW p \in Delivery,
               p \in owes'[b], p \in owes'[x]
        PROVE  b = x
    BY <2>1, <2>2, <2>3, <2>7 DEF AlertInv, OwedOnce
  <2>8. ASSUME NEW p \in Delivery, delivery'[p].status # "none"
        PROVE  alert'[p[1]].state # "none"
    BY <2>1, <2>4, <2>5, <2>8 DEF AlertInv, OwedOnce
  <2> QED
    BY <2>6, <2>7, <2>8 DEF OwedOnce
<1> QED
  BY <1>1, <1>8, <1>9, <1>10, <1>11 DEF AlertInv

LEMMA QueueIsNotify ==
  ASSUME AlertInv, NEW c \in Collector, NEW p \in Delivery, QueueOne(c, p)
  PROVE  Queue(p[1], p[2], scope[c]) /\ p[1] \in Message /\ p[2] \in Dest /\ scope[c] \in Env
<1>1. p = <<p[1], p[2]>> /\ p[1] \in Message /\ p[2] \in Dest
  BY DEF Delivery
<1>2. scope[c] \in Env /\ delivery[p].status = "none" /\ Addressed(p[2], scope[c])
  BY DEF AlertInv, CycleShaped, OwedOnce, QueueOne
<1> QED
  BY <1>1, <1>2 DEF QueueOne, Queue, Accepts, Addressed

LEMMA QueueAlert ==
  ASSUME AlertInv, NEW c \in Collector, NEW p \in Delivery, QueueOne(c, p)
  PROVE  AlertInv'
<1>1. Queue(p[1], p[2], scope[c]) /\ p[1] \in Message /\ p[2] \in Dest /\ scope[c] \in Env
  BY QueueIsNotify
<1>2. JobInv'
  BY <1>1, NextJob DEF AlertInv, NotifyNext
<1>3. AlertTyped /\ p = <<p[1], p[2]>> /\ delivery \in [Delivery -> Row]
  BY DEF AlertInv, JobInv, NotifyTypeOK, Delivery
<1>4. AlertTyped' /\ CycleShaped' /\ RowsKeyed' /\ OneOpenPerKey'
  BY <1>3 DEF QueueOne, AlertInv, AlertTyped, CycleShaped, RowsKeyed, OneOpenPerKey
<1>5. \A q \in Delivery : q # p => delivery'[q] = delivery[q]
  BY <1>3 DEF QueueOne, Insert
<1>6. p \notin owes'[c] /\ \A b \in Collector : owes'[b] \subseteq owes[b]
  BY <1>3 DEF QueueOne, AlertTyped
<1>7. \A b \in Collector : p \notin owes'[b]
  BY <1>6 DEF QueueOne, AlertInv, OwedOnce
<1>8. alert[p[1]].state # "none"
  BY DEF QueueOne, AlertInv, OwedOnce
<1>9. UNCHANGED <<alert, cycle, scope, dest>>
  BY DEF QueueOne
<1>10. OwedOnce'
  <2>1. ASSUME NEW b \in Collector, NEW q \in Delivery, q \in owes'[b]
        PROVE  /\ cycle'[b] \in {"deciding", "orphaned"} /\ alert'[q[1]].state # "none"
               /\ delivery'[q].status = "none" /\ Addressed(q[2], scope[b])'
    BY <1>5, <1>6, <1>7, <1>9, <2>1 DEF AlertInv, OwedOnce, Addressed, Receives
  <2>2. ASSUME NEW q \in Delivery, delivery'[q].status # "none"
        PROVE  alert'[q[1]].state # "none"
    BY <1>5, <1>8, <1>9, <2>2 DEF AlertInv, OwedOnce
  <2>3. \A b, x \in Collector, q \in Delivery : q \in owes'[b] /\ q \in owes'[x] => b = x
    BY <1>6 DEF AlertInv, OwedOnce
  <2> QED
    BY <2>1, <2>2, <2>3 DEF OwedOnce
<1> QED
  BY <1>2, <1>4, <1>10 DEF AlertInv

LEMMA ResolveAlert ==
  ASSUME AlertInv, NEW c \in Collector, NEW a \in Message, Resolve(c, a)
  PROVE  AlertInv'
<1> DEFINE new == [alert[a] EXCEPT !.state = "resolved", !.fired = 0]
<1>1. JobInv' /\ AlertTyped
  BY NotifyKept DEF AlertInv, Resolve
<1>2. alert[a] \in Alert /\ 0 \in 0 .. Cooldown
  BY <1>1, AlertAssumption DEF AlertTyped
<1>3. new \in Alert /\ new.state = "resolved" /\ new.key = alert[a].key
  BY <1>2 DEF Alert
<1>4. alert' = [alert EXCEPT ![a] = new] /\ alert[a].state = "open"
  BY DEF Resolve, Ends
<1> HIDE DEF new
<1>5. /\ alert' \in [Message -> Alert] /\ alert'[a] = new
      /\ \A b \in Message : b # a => alert'[b] = alert[b]
  BY <1>1, <1>3, <1>4 DEF AlertTyped
<1>6. AlertTyped' /\ CycleShaped' /\ RowsKeyed' /\ OneOpenPerKey'
  BY <1>1, <1>3, <1>4, <1>5
    DEF Resolve, cycleVars, AlertInv, AlertTyped, CycleShaped, RowsKeyed, OneOpenPerKey
<1>7. \A b \in Message : alert[b].state # "none" => alert'[b].state # "none"
  BY <1>3, <1>5
<1>8. \A p \in Delivery : p[1] \in Message
  BY DEF Delivery
<1>9. OwedOnce'
  BY <1>7, <1>8 DEF Resolve, cycleVars, AlertInv, OwedOnce, notifyVars, Addressed, Receives
<1> QED
  BY <1>1, <1>6, <1>9 DEF AlertInv

LEMMA DetectAlert == ASSUME AlertInv, NEW c \in Collector, Detect(c) PROVE AlertInv'
<1>1. deaths \in 0 .. MaxDeaths /\ lost \in SUBSET Message
  BY DEF AlertInv, AlertTyped
<1>2. CASE Refused(c) \/ Finish(c) \/ Unread(c)
  BY <1>1, <1>2, QuitAlert DEF Refused, Finish, Unread
<1>3. CASE Die(c)
  <2>1. deaths' \in 0 .. MaxDeaths
    BY <1>1, <1>3, AlertAssumption DEF Die
  <2>2. lost' \in SUBSET Message
    BY <1>1, <1>3 DEF Die, AlertInv, AlertTyped, Delivery
  <2> QED
    BY <1>3, <2>1, <2>2, QuitAlert DEF Die
<1> QED
  BY <1>2, <1>3, BeginAlert, DecideAlert, OpenAlertAlert, QueueAlert, ResolveAlert DEF Detect
-----------------------------------------------------------------------------
(* No step of the queue but Queue makes a row. *)
LEMMA NoNewRow ==
  ASSUME JobInv, Operate \/ Tick \/ \E w \in Worker : Work(w) \/ Crash(w),
         NEW p \in Delivery, delivery'[p].status # "none"
  PROVE  delivery[p].status # "none"
<1>1. delivery \in [Delivery -> Row]
  BY DEF JobInv, NotifyTypeOK
<1>2. CASE Operate
  BY <1>1, <1>2 DEF Operate, Create, Toggle, Delete, Disconnect, Queued, Row
<1>3. CASE Tick
  BY <1>1, <1>3 DEF Tick, Row
<1>4. ASSUME NEW w \in Worker, Work(w) PROVE delivery[p].status # "none"
  <2>1. ASSUME NEW q \in Delivery, NEW st, NEW n, NEW t, delivery' = Recorded(q, st, n, t)
        PROVE  delivery[p].status # "none"
    BY <1>1, <2>1 DEF Recorded, Queued
  <2> QED
    BY <1>4, <2>1
      DEF Work, StartJob, EndJob, Over, Skip, Send, Accepted, Retried, GivenUp
<1>5. ASSUME NEW w \in Worker, Crash(w) PROVE delivery[p].status # "none"
  BY <1>5 DEF Crash, Over
<1> QED
  BY <1>2, <1>3, <1>4, <1>5

(* A destination stays addressed, and a deleted one deleted. *)
LEMMA AddressedStays ==
  ASSUME JobInv, Operate \/ Tick \/ \E w \in Worker : Work(w) \/ Crash(w),
         NEW d \in Dest
  PROVE  /\ dest[d].state = "deleted" => dest'[d].state = "deleted"
         /\ \A e : Addressed(d, e) => Addressed(d, e)'
<1>1. dest \in [Dest -> Destination]
  BY DEF JobInv, NotifyTypeOK
<1>2. CASE Operate
  <2>1. ASSUME NEW b \in Dest, NEW s \in Env \cup {None}, Create(b, s)
        PROVE  d # b => dest'[d] = dest[d]
    BY <1>1, <2>1 DEF Create
  <2>2. ASSUME NEW b \in Dest, Toggle(b) \/ Delete(b)
        PROVE  /\ d # b => dest'[d] = dest[d]
               /\ dest'[d].scope = dest[d].scope /\ dest'[b].state # "absent"
    BY <1>1, <2>2 DEF Toggle, Delete, Destination
  <2>3. ASSUME NEW x \in Env, Disconnect(x)
        PROVE  /\ dest'[d].state = dest[d].state
               /\ dest'[d].scope \in {None, dest[d].scope}
    BY <1>1, <2>3 DEF Disconnect, Unscoped, Destination
  <2> QED
    BY <1>2, <2>1, <2>2, <2>3
      DEF Operate, Create, Toggle, Delete, Addressed, Receives
<1>3. CASE Tick \/ \E w \in Worker : Work(w) \/ Crash(w)
  <2>1. dest' = dest
    BY <1>3 DEF Tick, Work, Crash, StartJob, EndJob, Over, Skip, Send, Accepted, Retried,
                GivenUp, Answered
  <2> QED
    BY <2>1 DEF Addressed, Receives
<1> QED
  BY <1>2, <1>3

(* A step beside the cycles: what they owe stays owed, and at most their   *)
(* rules are taken from them.                                              *)
LEMMA BesideAlert ==
  ASSUME AlertInv, JobInv', AlertTyped', UNCHANGED <<scope, owes>>,
         \A c \in Collector :
           \/ /\ cycle'[c] = cycle[c] /\ opens'[c] = opens[c]
              /\ firing'[c] \in {firing[c], {}}
           \/ InSection(c) /\ cycle'[c] = "orphaned",
         \A p \in Delivery : delivery'[p].status # "none" => delivery[p].status # "none",
         \A d \in Dest : \A e : Addressed(d, e) => Addressed(d, e)',
         \A a \in Message : /\ alert[a].state = "none" <=> alert'[a].state = "none"
                            /\ alert'[a].state = "open" => alert[a].state = "open"
                            /\ alert'[a].key = alert[a].key
  PROVE  AlertInv'
<1>1. CycleShaped' /\ RowsKeyed' /\ OneOpenPerKey'
  BY DEF AlertInv, CycleShaped, RowsKeyed, OneOpenPerKey, InSection
<1>2. \A p \in Delivery : p[1] \in Message /\ p[2] \in Dest
  BY DEF Delivery
<1>3. ASSUME NEW c \in Collector, NEW p \in Delivery, p \in owes'[c]
      PROVE  /\ cycle'[c] \in {"deciding", "orphaned"} /\ alert'[p[1]].state # "none"
             /\ delivery'[p].status = "none" /\ Addressed(p[2], scope[c])'
  <2>1. /\ cycle[c] \in {"deciding", "orphaned"} /\ alert[p[1]].state # "none"
        /\ delivery[p].status = "none" /\ Addressed(p[2], scope[c])
    BY <1>3 DEF AlertInv, OwedOnce
  <2>2. Addressed(p[2], scope[c])'
    BY <1>2, <2>1 DEF Addressed, Receives
  <2> QED
    BY <1>2, <2>1, <2>2
<1>4. OwedOnce'
  BY <1>2, <1>3 DEF AlertInv, OwedOnce
<1> QED
  BY <1>1, <1>4 DEF AlertInv

LEMMA AcknowledgeAlert == ASSUME AlertInv, NEW a \in Message, Acknowledge(a) PROVE AlertInv'
<1>1. JobInv' /\ AlertTyped /\ RowsKeyed
  BY NotifyKept DEF AlertInv, Acknowledge
<1>2. Acked(a) \in Alert /\ Acked(a).state = alert[a].state /\ Acked(a).key = alert[a].key
  BY <1>1 DEF AlertTyped, Acked, Alert
<1>3. alert[a].key \in Key
  BY <1>1 DEF Acknowledge, RowsKeyed
<1>4. AlertTyped'
  BY <1>1, <1>2, <1>3 DEF Acknowledge, AlertTyped, cycleVars
<1>5. \A b \in Message : alert'[b].state = alert[b].state /\ alert'[b].key = alert[b].key
  BY <1>1, <1>2, SMTT(30) DEF Acknowledge, AlertTyped
<1>6. UNCHANGED <<cycle, scope, firing, opens, owes, dest, delivery>>
  BY DEF Acknowledge, cycleVars, notifyVars
<1>7. \A d \in Dest : \A e : Addressed(d, e) => Addressed(d, e)'
  BY <1>6, SMTT(30) DEF Addressed, Receives
<1> QED
  BY <1>1, <1>4, <1>5, <1>6, <1>7, BesideAlert

LEMMA PurgeAlert == ASSUME AlertInv, NEW e \in Env, Purge(e) PROVE AlertInv'
<1>1. Operate
  BY DEF Purge, Operate
<1>2. JobInv' /\ AlertTyped /\ 0 \in 0 .. Cooldown
  BY <1>1, NextJob, AlertAssumption DEF AlertInv, NotifyNext
<1>3. \A b \in Message : /\ alert'[b] \in Alert
                         /\ alert'[b].key = alert[b].key
                         /\ alert'[b].state = alert[b].state \/
                              (alert[b].state # "none" /\ alert'[b].state = "purged")
  BY <1>2, ZenonT(60) DEF Purge, AlertTyped, Alert
<1>4. /\ cycle' \in [Collector -> {"idle", "reading", "deciding", "opening", "orphaned"}]
      /\ opens' \in [Collector -> Key \cup {None}]
      /\ fires' \in [Collector -> SUBSET Key]
      /\ firing' \in [Collector -> SUBSET Key]
  BY <1>2 DEF Purge, AlertTyped
<1>5. AlertTyped'
  BY <1>2, <1>3, <1>4 DEF Purge, AlertTyped
<1>6. \A p \in Delivery : delivery'[p].status # "none" => delivery[p].status # "none"
  BY <1>1, NoNewRow DEF AlertInv
<1>7. \A d \in Dest : \A x : Addressed(d, x) => Addressed(d, x)'
  BY <1>1, AddressedStays DEF AlertInv
<1>8. \A c \in Collector :
        \/ /\ cycle'[c] = cycle[c] /\ opens'[c] = opens[c]
           /\ firing'[c] \in {firing[c], {}}
        \/ InSection(c) /\ cycle'[c] = "orphaned"
  BY DEF Purge, Orphans
<1> QED
  BY <1>2, <1>3, <1>5, <1>6, <1>7, <1>8, BesideAlert DEF Purge

(* A step of the queue that leaves the alerts alone, or to grow older. *)
LEMMA QueueBeside ==
  ASSUME AlertInv, AlertTyped', UNCHANGED cycleVars,
         Operate \/ Tick \/ \E w \in Worker : Work(w) \/ Crash(w),
         \A a \in Message : alert'[a].state = alert[a].state /\ alert'[a].key = alert[a].key
  PROVE  AlertInv'
<1>1. JobInv'
  BY NextJob DEF AlertInv, NotifyNext
<1>2. \A p \in Delivery : delivery'[p].status # "none" => delivery[p].status # "none"
  BY NoNewRow DEF AlertInv
<1>3. \A d \in Dest : \A e : Addressed(d, e) => Addressed(d, e)'
  BY AddressedStays DEF AlertInv
<1> QED
  BY <1>1, <1>2, <1>3, BesideAlert DEF cycleVars

LEMMA ManageAlert == ASSUME AlertInv, Manage PROVE AlertInv'
<1>1. Operate
  BY DEF Manage, Operate
<1>2. UNCHANGED <<alert, cycleVars>> /\ AlertTyped'
  BY DEF Manage, AlertInv, AlertTyped, alertVars, cycleVars
<1> QED
  BY <1>1, <1>2, QueueBeside

LEMMA NotifyJobAlert == ASSUME AlertInv, NotifyJob PROVE AlertInv'
<1>1. UNCHANGED <<alert, cycleVars>> /\ AlertTyped'
  BY DEF NotifyJob, AlertInv, AlertTyped, alertVars, cycleVars
<1> QED
  BY <1>1, QueueBeside DEF NotifyJob

LEMMA WaitAlert == ASSUME AlertInv, Wait PROVE AlertInv'
<1>1. Tick /\ AlertTyped
  BY DEF Wait, AlertInv
<1>2. \A t \in 0 .. Cooldown : Older(t) \in 0 .. Cooldown
  BY AlertAssumption DEF Older
<1>3. \A b \in Message : /\ alert'[b] \in Alert
                         /\ alert'[b].key = alert[b].key
                         /\ alert'[b].state = alert[b].state
  <2> SUFFICES ASSUME NEW b \in Message
               PROVE  /\ alert'[b] \in Alert
                      /\ alert'[b].key = alert[b].key
                      /\ alert'[b].state = alert[b].state
    OBVIOUS
  <2>1. alert[b] \in Alert
    BY <1>1 DEF AlertTyped
  <2>2. Older(alert[b].fired) \in 0 .. Cooldown
    BY <1>2, <2>1 DEF Alert
  <2>3. alert'[b] = IF alert[b].state = "open"
                    THEN [alert[b] EXCEPT !.fired = Older(alert[b].fired)] ELSE alert[b]
    BY DEF Wait
  <2> QED
    BY <2>1, <2>2, <2>3 DEF Alert
<1>4. AlertTyped'
  BY <1>1, <1>2, <1>3 DEF Wait, AlertTyped, cycleVars
<1> QED
  BY <1>1, <1>3, <1>4, QueueBeside DEF Wait

LEMMA NextAlert == AlertInv /\ [Next]_vars => AlertInv'
<1> SUFFICES ASSUME AlertInv, [Next]_vars PROVE AlertInv'
  OBVIOUS
<1>1. ASSUME UNCHANGED vars PROVE AlertInv'
  <2>1. JobInv'
    BY <1>1, NotifyKept DEF AlertInv, vars
  <2> QED
    BY <1>1, <2>1 DEF vars, alertVars, cycleVars, notifyVars, AlertInv, AlertTyped,
                      CycleShaped, RowsKeyed, OwedOnce, OneOpenPerKey, Addressed, Receives
<1> QED
  BY <1>1, DetectAlert, AcknowledgeAlert, PurgeAlert, ManageAlert, NotifyJobAlert,
         WaitAlert DEF Next

LEMMA AlertAlways == Spec => []AlertInv
BY InitAlert, NextAlert, PTL DEF Spec
-----------------------------------------------------------------------------
(* The rows, cycles and times of the alerts stay in range.                 *)
THEOREM AlertsTyped == Spec => []TypeOK
<1>1. AlertInv => TypeOK
  BY DEF AlertInv, JobInv, AlertTyped, TypeOK
<1> QED
  BY <1>1, AlertAlways, PTL

(* A rule has one open alert per subject, for any number of processes      *)
(* evaluating it at once, refused inserts and deaths within a cycle.       *)
THEOREM OneOpenAlert == Spec => []OneOpenPerKey
<1>1. AlertInv => OneOpenPerKey
  BY DEF AlertInv
<1> QED
  BY <1>1, AlertAlways, PTL

(* The alert cycle uses the queue as module Notify assumes, also when the  *)
(* operator or another process comes between what it reads and what it     *)
(* writes: each of its steps queues one delivery nobody queued before, for *)
(* a destination that is there and in scope, or leaves the queue alone.    *)
THEOREM AlertsUseTheQueue == Spec => NotifySpec
<1>1. Init => NotifyInit
  BY DEF Init
<1>2. AlertInv /\ [Next]_vars => [NotifyNext]_notifyVars
  <2> SUFFICES ASSUME AlertInv, [Next]_vars PROVE [NotifyNext]_notifyVars
    OBVIOUS
  <2>1. ASSUME NEW c \in Collector, Detect(c) PROVE [NotifyNext]_notifyVars
    <3>1. ASSUME NEW p \in Delivery, QueueOne(c, p) PROVE NotifyNext
      BY <3>1, QueueIsNotify DEF NotifyNext
    <3> QED
      BY <2>1, <3>1 DEF Detect, Begin, Evaluate, Suppress, Refire, FindNone, Decides,
                        OpenAlert, Resolve, Refused, Finish, Unread, Die
  <2>2. ASSUME NEW a \in Message, Acknowledge(a) PROVE UNCHANGED notifyVars
    BY <2>2 DEF Acknowledge
  <2>3. ASSUME NEW e \in Env, Purge(e) PROVE NotifyNext
    BY <2>3 DEF Purge, Operate, NotifyNext
  <2>4. Manage \/ NotifyJob \/ Wait => NotifyNext
    BY DEF Manage, NotifyJob, Wait, Operate, NotifyNext
  <2>5. UNCHANGED vars => UNCHANGED notifyVars
    BY DEF vars
  <2> QED
    BY <2>1, <2>2, <2>3, <2>4, <2>5 DEF Next
<1> QED
  BY <1>1, <1>2, AlertAlways, PTL DEF Spec, NotifySpec

(* What holds of deliveries whoever queues them holds of the alerts'.      *)
COROLLARY AlertRequestsBounded == OneWorker => (Spec => []BoundedRequests)
BY AlertsUseTheQueue, RequestsBounded

COROLLARY AlertAccountsKeptApart == Spec => []AccountsApart
BY AlertsUseTheQueue, AccountsKeptApart
-----------------------------------------------------------------------------
(* A subject acknowledged and not yet found quiet has an open alert, and   *)
(* is matched by every cycle of its environment that is under way.         *)
Hush ==
  /\ \A k \in hushed : Open(k) # {}
  /\ \A c \in Collector, k \in hushed :
       InSection(c) /\ EnvOf[k] = scope[c] => k \in fires[c] \cup firing[c]

HushInv == AlertInv /\ Hush

LEMMA QuitHush ==
  ASSUME HushInv, NEW c \in Collector, Quit(c), UNCHANGED <<alert, hushed>>
  PROVE  Hush'
BY DEF HushInv, Hush, AlertInv, AlertTyped, Quit, InSection, Open

LEMMA DetectHush == ASSUME HushInv, NEW c \in Collector, Detect(c) PROVE Hush'
<1>1. AlertTyped /\ \A p \in Delivery : p[1] \in Message
  BY DEF HushInv, AlertInv, Delivery
<1>2. CASE Refused(c) \/ Finish(c) \/ Unread(c) \/ Die(c)
  BY <1>2, QuitHush DEF Refused, Finish, Unread, Die
<1>3. ASSUME NEW e \in Env, Begin(c, e) PROVE Hush'
  BY <1>1, <1>3 DEF Begin, HushInv, Hush, AlertTyped, InSection, Open
<1>4. CASE Evaluate(c)
  BY <1>1, <1>4 DEF Evaluate, HushInv, Hush, AlertTyped, InSection, Open, KeysOf
<1>5. ASSUME NEW k \in Key, Suppress(c, k) \/ Refire(c, k) \/ FindNone(c, k) PROVE Hush'
  <2>1. /\ \A b \in Message : alert'[b].state = alert[b].state /\ alert'[b].key = alert[b].key
        /\ \A b \in Collector : InSection(b)' <=> InSection(b)
    <3>1. 0 \in 0 .. Cooldown
      BY AlertAssumption
    <3> QED
      BY <1>1, <1>5, <3>1, Aged DEF Suppress, Refire, FindNone, Decides, AlertTyped, Open,
                                    InSection
  <2>2. Decides(c, k)
    BY <1>5 DEF Suppress, Refire, FindNone
  <2>3. \A b \in Collector : fires'[b] \cup firing'[b] = fires[b] \cup firing[b]
    BY <1>1, <2>2 DEF Decides, AlertTyped
  <2> QED
    BY <1>1, <2>1, <2>2, <2>3 DEF Decides, HushInv, Hush, Open
<1>6. ASSUME NEW a \in Message, OpenAlert(c, a) PROVE Hush'
  <2>1. /\ opens[c] \notin hushed /\ UNCHANGED <<scope, fires, firing, hushed>>
        /\ \A b \in Collector : InSection(b)' <=> InSection(b)
    BY <1>1, <1>6 DEF OpenAlert, Conflict, HushInv, Hush, AlertTyped, InSection
  <2>2. /\ alert'[a].key = opens[c]
        /\ \A b \in Message : b # a => alert'[b] = alert[b]
        /\ alert[a].state = "none"
    BY <1>1, <1>6 DEF OpenAlert, AlertTyped
  <2>3. \A k \in hushed : Open(k)' # {}
    <3> SUFFICES ASSUME NEW k \in hushed PROVE Open(k)' # {}
      OBVIOUS
    <3>1. PICK b \in Message : alert[b].state = "open" /\ alert[b].key = k
      BY DEF HushInv, Hush, Open
    <3> QED
      BY <2>2, <3>1 DEF Open
  <2> QED
    BY <2>1, <2>3 DEF HushInv, Hush
<1>7. ASSUME NEW p \in Delivery, QueueOne(c, p) PROVE Hush'
  <2>1. \A b \in Collector : owes'[b] \subseteq owes[b]
    BY <1>1, <1>7 DEF QueueOne, AlertTyped
  <2> QED
    BY <1>7, <2>1 DEF QueueOne, HushInv, Hush, InSection, Open
<1>8. ASSUME NEW a \in Message, Resolve(c, a) PROVE Hush'
  <2>1. /\ \A b \in Message : b # a => alert'[b] = alert[b]
        /\ alert'[a].key = alert[a].key
    BY <1>1, <1>8 DEF Resolve, AlertTyped, Alert
  <2>2. alert[a].key \notin hushed
    BY <1>8 DEF Resolve, Decided, Ends, HushInv, Hush, InSection
  <2>3. \A k \in hushed : Open(k)' # {}
    <3> SUFFICES ASSUME NEW k \in hushed PROVE Open(k)' # {}
      OBVIOUS
    <3>1. PICK b \in Message : alert[b].state = "open" /\ alert[b].key = k
      BY DEF HushInv, Hush, Open
    <3> QED
      BY <2>1, <2>2, <3>1 DEF Open
  <2>4. UNCHANGED <<cycle, scope, fires, firing, owes, hushed>>
    BY <1>8 DEF Resolve, cycleVars
  <2> QED
    BY <1>1, <2>1, <2>3, <2>4 DEF HushInv, Hush, InSection
<1> QED
  BY <1>2, <1>3, <1>4, <1>5, <1>6, <1>7, <1>8 DEF Detect

LEMMA NextHush == HushInv /\ [Next]_vars => HushInv'
<1> SUFFICES ASSUME HushInv, [Next]_vars PROVE HushInv'
  OBVIOUS
<1>1. AlertInv' /\ AlertTyped
  BY NextAlert DEF HushInv, AlertInv
<1>2. ASSUME NEW a \in Message, Acknowledge(a) PROVE Hush'
  <2>1. \A b \in Message : alert'[b].state = alert[b].state /\ alert'[b].key = alert[b].key
    BY <1>1, <1>2 DEF Acknowledge, Acked, AlertTyped, Alert
  <2>2. \A k : Open(k)' = Open(k)
    BY <2>1 DEF Open
  <2>3. \A k \in hushed' : Open(k) # {}
    BY <1>2 DEF Acknowledge, HushInv, Hush, Open
  <2>4. \A k \in hushed' : k \in hushed \/ ~FoundQuiet(k)
    BY <1>2 DEF Acknowledge
  <2>5. UNCHANGED <<cycle, scope, fires, firing>>
    BY <1>2 DEF Acknowledge, cycleVars
  <2> QED
    BY <2>2, <2>3, <2>4, <2>5 DEF HushInv, Hush, InSection, FoundQuiet
<1>3. ASSUME NEW e \in Env, Purge(e) PROVE Hush'
  <2>1. RowsKeyed
    BY DEF HushInv, AlertInv
  <2>2. \A b \in Message : alert[b].state = "open" /\ EnvOf[alert[b].key] # e
                             => alert'[b] = alert[b]
    BY <1>3 DEF Purge
  <2>3. \A k \in hushed' : k \in hushed /\ k \in Key /\ EnvOf[k] # e
    BY <1>1, <1>3 DEF Purge, KeysOf, AlertTyped
  <2>4. \A k \in hushed' : Open(k)' # {}
    <3> SUFFICES ASSUME NEW k \in hushed' PROVE Open(k)' # {}
      OBVIOUS
    <3>1. PICK b \in Message : alert[b].state = "open" /\ alert[b].key = k
      BY <2>3 DEF HushInv, Hush, Open
    <3> QED
      BY <2>2, <2>3, <3>1 DEF Open
  <2>5. \A c \in Collector : /\ InSection(c)' => InSection(c)
                             /\ scope[c] # e => fires'[c] = fires[c] /\ firing'[c] = firing[c]
    BY <1>3 DEF Purge, Orphans, InSection
  <2>6. scope' = scope
    BY <1>3 DEF Purge
  <2> QED
    BY <2>3, <2>4, <2>5, <2>6 DEF HushInv, Hush
<1>4. ASSUME Manage \/ NotifyJob PROVE Hush'
  BY <1>4 DEF Manage, NotifyJob, alertVars, cycleVars, HushInv, Hush, InSection, Open
<1>5. ASSUME Wait PROVE Hush'
  <2>1. \A b \in Message : alert'[b].state = alert[b].state /\ alert'[b].key = alert[b].key
    BY <1>1, <1>5 DEF Wait, AlertTyped, Alert
  <2>2. \A k : Open(k)' = Open(k)
    BY <2>1 DEF Open
  <2>3. UNCHANGED <<cycle, scope, fires, firing, hushed>>
    BY <1>5 DEF Wait, cycleVars
  <2> QED
    BY <2>2, <2>3 DEF HushInv, Hush, InSection
<1>6. ASSUME UNCHANGED vars PROVE Hush'
  BY <1>6 DEF vars, alertVars, cycleVars, HushInv, Hush, InSection, Open
<1> QED
  BY <1>1, <1>2, <1>3, <1>4, <1>5, <1>6, DetectHush DEF Next, HushInv

(* No alert opens for a subject that was acknowledged until a cycle has    *)
(* found it quiet, however many cycles overlap or die, and wherever in a   *)
(* cycle the acknowledgement falls.                                        *)
THEOREM AcknowledgedIsSilent == Spec => AckIsSilent
<1>1. Init => HushInv
  BY InitAlert DEF Init, HushInv, Hush
<1>2. HushInv /\ [Next]_vars =>
        [\A a \in Message : alert[a].state = "none" /\ alert'[a].state = "open"
           => alert'[a].key \notin hushed]_vars
  <2> SUFFICES ASSUME HushInv, Next, NEW a \in Message,
                      alert[a].state = "none", alert'[a].state = "open"
               PROVE  alert'[a].key \notin hushed
    OBVIOUS
  <2>1. AlertTyped
    BY DEF HushInv, AlertInv
  <2>2. ~((\E b \in Message : Acknowledge(b)) \/ (\E e \in Env : Purge(e))
          \/ Manage \/ NotifyJob \/ Wait)
    <3>1. ASSUME NEW b \in Message, Acknowledge(b) PROVE FALSE
      BY <2>1, <3>1 DEF Acknowledge, Acked, AlertTyped, Alert
    <3>2. ASSUME NEW e \in Env, Purge(e) PROVE FALSE
      BY <2>1, <3>2 DEF Purge, AlertTyped, Alert
    <3>3. ASSUME Manage \/ NotifyJob PROVE FALSE
      BY <3>3 DEF Manage, NotifyJob, alertVars
    <3>4. ASSUME Wait PROVE FALSE
      BY <2>1, <3>4 DEF Wait, AlertTyped, Alert
    <3> QED
      BY <3>1, <3>2, <3>3, <3>4
  <2>3. PICK c \in Collector : Detect(c)
    BY <2>2 DEF Next
  <2>4. PICK b \in Message : OpenAlert(c, b)
    <3>1. ASSUME NEW k \in Key, Suppress(c, k) \/ Refire(c, k) \/ FindNone(c, k)
          PROVE  FALSE
      <4>1. 0 \in 0 .. Cooldown
        BY AlertAssumption
      <4> QED
        BY <2>1, <3>1, <4>1, Aged DEF Suppress, Refire, FindNone, Open
    <3>2. ASSUME NEW b \in Message, Resolve(c, b) PROVE FALSE
      BY <2>1, <3>2 DEF Resolve, AlertTyped, Alert
    <3> QED
      BY <2>3, <3>1, <3>2 DEF Detect, Begin, Evaluate, QueueOne, Refused, Finish, Unread, Die
  <2>5. a = b /\ alert'[b].key = opens[c] /\ Open(opens[c]) = {}
    BY <2>1, <2>4 DEF OpenAlert, Conflict, AlertTyped
  <2> QED
    BY <2>5 DEF HushInv, Hush
<1> QED
  BY <1>1, <1>2, NextHush, PTL DEF Spec, AckIsSilent
-----------------------------------------------------------------------------
OneCollector == \A b, c \in Collector : b = c

(* What a cycle has decided is open, or is about to be. *)
Settling ==
  \A c \in Collector : InSection(c) =>
    /\ fires[c] \cup firing[c] \subseteq KeysOf(scope[c])
    /\ \A k \in firing[c] : Open(k) # {} \/ (cycle[c] = "opening" /\ opens[c] = k)

SettleInv == AlertInv /\ Settling

LEMMA DetectSettle ==
  ASSUME OneCollector, SettleInv, NEW c \in Collector, Detect(c)
  PROVE  Settling'
<1> USE DEF OneCollector
<1>1. AlertTyped
  BY DEF SettleInv, AlertInv
<1>2. CASE Refused(c) \/ Finish(c) \/ Unread(c) \/ Die(c)
  BY <1>1, <1>2 DEF Refused, Finish, Unread, Die, Quit, AlertTyped, Settling, InSection
<1>3. ASSUME NEW e \in Env, Begin(c, e) PROVE Settling'
  BY <1>1, <1>3 DEF Begin, AlertTyped, Settling, InSection
<1>4. CASE Evaluate(c)
  <2>1. firing[c] = {}
    BY <1>4 DEF Evaluate, SettleInv, AlertInv, CycleShaped
  <2> QED
    BY <1>1, <1>4, <2>1 DEF Evaluate, AlertTyped, Settling, InSection, KeysOf
<1>5. ASSUME NEW k \in Key, Suppress(c, k) \/ Refire(c, k) \/ FindNone(c, k) PROVE Settling'
  <2>1. \A b \in Message : alert'[b].state = alert[b].state /\ alert'[b].key = alert[b].key
    <3>1. 0 \in 0 .. Cooldown
      BY AlertAssumption
    <3> QED
      BY <1>1, <1>5, <3>1, Aged DEF Suppress, Refire, FindNone, Decides, AlertTyped, Open
  <2>2. /\ Decides(c, k) /\ cycle[c] = "deciding"
        /\ Open(k) # {} \/ (cycle'[c] = "opening" /\ opens'[c] = k)
    BY <1>1, <1>5 DEF Suppress, Refire, FindNone, Decides, AlertTyped
  <2>3. /\ fires'[c] \cup firing'[c] = fires[c] \cup firing[c] /\ scope' = scope
        /\ firing'[c] = firing[c] \cup {k}
    BY <1>1, <2>2 DEF Decides, AlertTyped
  <2>4. \A x : Open(x)' = Open(x)
    BY <2>1 DEF Open
  <2> QED
    BY <2>2, <2>3, <2>4 DEF SettleInv, Settling, InSection, KeysOf
<1>6. ASSUME NEW a \in Message, OpenAlert(c, a) PROVE Settling'
  <2>1. /\ alert'[a].key = opens[c] /\ alert'[a].state = "open"
        /\ \A b \in Message : b # a => alert'[b] = alert[b]
        /\ alert[a].state = "none"
    BY <1>1, <1>6 DEF OpenAlert, AlertTyped
  <2>2. \A k : Open(k) # {} \/ k = opens[c] => Open(k)' # {}
    <3> SUFFICES ASSUME NEW k, Open(k) # {} \/ k = opens[c] PROVE Open(k)' # {}
      OBVIOUS
    <3>1. CASE k = opens[c]
      BY <2>1, <3>1 DEF Open
    <3>2. CASE Open(k) # {}
      <4>1. PICK b \in Message : alert[b].state = "open" /\ alert[b].key = k
        BY <3>2 DEF Open
      <4> QED
        BY <2>1, <4>1 DEF Open
    <3> QED
      BY <3>1, <3>2
  <2>3. UNCHANGED <<scope, fires, firing>> /\ InSection(c)
    BY <1>6 DEF OpenAlert, InSection
  <2> QED
    BY <2>2, <2>3 DEF SettleInv, Settling, KeysOf
<1>7. ASSUME NEW p \in Delivery, QueueOne(c, p) PROVE Settling'
  BY <1>7 DEF QueueOne, SettleInv, Settling, InSection, Open, KeysOf
<1>8. ASSUME NEW a \in Message, Resolve(c, a) PROVE Settling'
  <2>1. /\ \A b \in Message : b # a => alert'[b] = alert[b]
        /\ alert[a].key \notin firing[c]
    BY <1>1, <1>8 DEF Resolve, Ends, AlertTyped
  <2>2. UNCHANGED <<cycle, scope, fires, firing, opens>> /\ InSection(c)
    BY <1>8 DEF Resolve, cycleVars, Decided, InSection
  <2>3. ASSUME NEW k \in firing[c], Open(k) # {} PROVE Open(k)' # {}
    <3>1. PICK b \in Message : alert[b].state = "open" /\ alert[b].key = k
      BY <2>3 DEF Open
    <3> QED
      BY <2>1, <2>3, <3>1 DEF Open
  <2> QED
    BY <2>2, <2>3 DEF SettleInv, Settling, InSection, KeysOf
<1> QED
  BY <1>2, <1>3, <1>4, <1>5, <1>6, <1>7, <1>8 DEF Detect

LEMMA NextSettle == OneCollector /\ SettleInv /\ [Next]_vars => SettleInv'
<1> SUFFICES ASSUME OneCollector, SettleInv, [Next]_vars PROVE SettleInv'
  OBVIOUS
<1>1. AlertInv'
  BY NextAlert DEF SettleInv
<1>2. CASE \E c \in Collector : Detect(c)
  BY <1>1, <1>2, DetectSettle DEF SettleInv
<1>3. ASSUME NEW a \in Message, Acknowledge(a) PROVE Settling'
  <2>1. AlertTyped
    BY DEF SettleInv, AlertInv
  <2>2. \A b \in Message : alert'[b].state = alert[b].state /\ alert'[b].key = alert[b].key
    BY <1>3, <2>1 DEF Acknowledge, Acked, AlertTyped, Alert
  <2>3. \A k : Open(k)' = Open(k)
    BY <2>2 DEF Open
  <2>4. UNCHANGED cycleVars
    BY <1>3 DEF Acknowledge
  <2> QED
    BY <2>3, <2>4 DEF cycleVars, SettleInv, Settling, InSection, KeysOf
<1>4. ASSUME NEW e \in Env, Purge(e) PROVE Settling'
  <2> SUFFICES ASSUME NEW c \in Collector, InSection(c)'
               PROVE  /\ fires'[c] \cup firing'[c] \subseteq KeysOf(scope[c])
                      /\ \A k \in firing'[c] :
                           Open(k)' # {} \/ (cycle'[c] = "opening" /\ opens'[c] = k)
    BY <1>4, ZenonT(60) DEF Purge, Settling, KeysOf
  <2>1. CASE scope[c] = e
    BY <1>4, <2>1 DEF Purge
  <2>2. CASE scope[c] # e
    <3>1. /\ fires'[c] = fires[c] /\ firing'[c] = firing[c]
          /\ cycle'[c] = cycle[c] /\ opens'[c] = opens[c]
      BY <1>4, <2>2 DEF Purge, Orphans
    <3>2. InSection(c)
      BY <3>1 DEF InSection
    <3>3. ASSUME NEW k \in firing[c], Open(k) # {} PROVE Open(k)' # {}
      <4>1. PICK b \in Message : alert[b].state = "open" /\ alert[b].key = k
        BY <3>3 DEF Open
      <4>2. EnvOf[k] = scope[c]
        BY <3>2 DEF SettleInv, Settling, KeysOf
      <4>3. alert'[b] = alert[b]
        BY <1>4, <2>2, <4>1, <4>2 DEF Purge
      <4> QED
        BY <4>1, <4>3 DEF Open
    <3> QED
      BY <3>1, <3>2, <3>3 DEF SettleInv, Settling
  <2> QED
    BY <2>1, <2>2
<1>5. ASSUME UNCHANGED alertVars PROVE Settling'
  BY <1>5 DEF alertVars, cycleVars, SettleInv, Settling, InSection, Open, KeysOf
<1>6. ASSUME Wait PROVE Settling'
  BY <1>6 DEF Wait, Quiescent, cycleVars, InSection, Settling
<1> QED
  BY <1>1, <1>2, <1>3, <1>4, <1>5, <1>6 DEF Next, Manage, NotifyJob, vars, SettleInv

(* With one detect job at a time, a cycle that is done leaves open exactly *)
(* the alerts of the subjects it found firing, whatever earlier cycles     *)
(* left half done.                                                         *)
THEOREM CyclesSettle == OneCollector => (Spec => CycleSettles)
<1> SUFFICES ASSUME OneCollector PROVE Spec => CycleSettles
  OBVIOUS
<1>1. Init => SettleInv
  BY InitAlert DEF Init, SettleInv, Settling, InSection
<1>2. SettleInv /\ [Next]_vars =>
        [\A c \in Collector : Finish(c) =>
           \A k \in KeysOf(scope[c]) : (Open(k) # {}) <=> k \in firing[c]]_vars
  <2> SUFFICES ASSUME SettleInv, NEW c \in Collector, Finish(c), NEW k \in KeysOf(scope[c])
               PROVE  (Open(k) # {}) <=> k \in firing[c]
    OBVIOUS
  <2>1. cycle[c] = "deciding" /\ \A a \in Message : ~Ends(c, a)
    BY DEF Finish, Decided
  <2>2. k \in firing[c] => Open(k) # {}
    BY <2>1 DEF SettleInv, Settling, InSection
  <2>3. ASSUME NEW a \in Open(k) PROVE k \in firing[c]
    BY <2>1, <2>3 DEF Open, Ends, KeysOf
  <2> QED
    BY <2>2, <2>3
<1>3. SettleInv /\ [Next]_vars => SettleInv'
  BY NextSettle
<1> QED
  BY <1>1, <1>2, <1>3, PTL DEF Spec, CycleSettles
-----------------------------------------------------------------------------
(* A delivery once queued keeps a row of the model, whatever becomes of it. *)
LEMMA RowsStay ==
  ASSUME JobInv, Operate \/ Tick \/ \E w \in Worker : Work(w) \/ Crash(w),
         NEW p \in Delivery, delivery[p].status # "none"
  PROVE  delivery'[p].status # "none"
<1>1. delivery \in [Delivery -> Row]
  BY DEF JobInv, NotifyTypeOK
<1>2. CASE Operate
  BY <1>1, <1>2 DEF Operate, Create, Toggle, Delete, Disconnect, Row
<1>3. CASE Tick
  BY <1>1, <1>3 DEF Tick, Row
<1>4. ASSUME NEW w \in Worker, Work(w) PROVE delivery'[p].status # "none"
  <2>1. ASSUME NEW q \in Delivery, NEW st \in {"pending", "ok", "failed"}, NEW n, NEW t,
               delivery' = Recorded(q, st, n, t)
        PROVE  delivery'[p].status # "none"
    BY <1>1, <2>1 DEF Recorded
  <2> QED
    BY <1>4, <2>1
      DEF Work, StartJob, EndJob, Over, Skip, Send, Accepted, Retried, GivenUp
<1>5. ASSUME NEW w \in Worker, Crash(w) PROVE delivery'[p].status # "none"
  BY <1>5 DEF Crash, Over
<1> QED
  BY <1>2, <1>3, <1>4, <1>5

(* A cycle announces one alert at a time, and only what opened. *)
Announcing ==
  /\ \A p \in due : alert[p[1]].state # "none"
  /\ \A c \in Collector : /\ owes[c] \subseteq due
                           /\ \A p, q \in owes[c] : p[1] = q[1]

FireInv == AlertInv /\ Announcing /\ FireIsQueued

(* What is missed stays missed, and the reason for it stays one. *)
LEMMA FireKept ==
  ASSUME FireInv, due' = due, lost \subseteq lost',
         \A p \in due : Missed(p)' <=> Missed(p),
         \A p \in due : dest[p[2]].state = "deleted" => dest'[p[2]].state = "deleted"
  PROVE  FireIsQueued'
<1> SUFFICES ASSUME NEW p \in due, Missed(p)'
             PROVE  p[1] \in lost' \/ \E q \in due : q[1] = p[1] /\ Refusable(q)'
  BY DEF FireIsQueued
<1>1. p[1] \in lost \/ \E q \in due : q[1] = p[1] /\ Refusable(q)
  BY DEF FireInv, FireIsQueued
<1> QED
  BY <1>1 DEF Refusable

LEMMA DetectFire ==
  ASSUME FireInv, NEW c \in Collector, Detect(c)
  PROVE  Announcing' /\ FireIsQueued'
<1>1. /\ AlertTyped
      /\ cycle[c] \notin {"deciding", "orphaned"} => owes[c] = {}
      /\ due \in SUBSET Delivery
  BY DEF FireInv, AlertInv, AlertTyped, OwedOnce
<1>2. ASSUME NEW b \in Collector, NEW p \in owes[b], NEW x \in Collector, p \in owes[x]
      PROVE  b = x
  BY <1>1, <1>2 DEF FireInv, AlertInv, AlertTyped, OwedOnce
<1>3. ASSUME Refused(c) \/ Finish(c) \/ Unread(c) \/ Die(c) PROVE Announcing' /\ FireIsQueued'
  <2>1. /\ owes' = [owes EXCEPT ![c] = {}] /\ UNCHANGED <<alert, due, delivery, dest>>
        /\ lost \subseteq lost'
    BY <1>3 DEF Refused, Finish, Unread, Die, Quit, notifyVars
  <2>2. owes'[c] = {} /\ \A b \in Collector : b # c => owes'[b] = owes[b]
    BY <1>1, <2>1 DEF AlertTyped
  <2>3. Announcing'
    BY <2>1, <2>2 DEF FireInv, Announcing
  <2>4. \A p \in due : p \notin owes[c] => (Missed(p)' <=> Missed(p))
    BY <2>1, <2>2 DEF Missed
  <2>5. CASE owes[c] = {}
    BY <2>1, <2>3, <2>4, <2>5, FireKept
  <2>6. ASSUME NEW p \in owes[c] PROVE p[1] \in lost' \/ \E q \in due : q[1] = p[1] /\ Refusable(q)'
    <3>1. CASE Die(c)
      BY <3>1 DEF Die
    <3>2. CASE Refused(c)
      <4>1. PICK q \in owes[c] : ~Accepts(q[2])
        BY <1>1, <2>6, <3>2 DEF Refused
      <4>2. q \in due /\ q[1] = p[1] /\ q \in Delivery /\ q[2] \in Dest
        BY <1>1 DEF FireInv, Announcing, Delivery
      <4>3. dest[q[2]].state = "deleted" /\ delivery[q].status = "none"
        BY <4>1, <4>2 DEF FireInv, AlertInv, OwedOnce, Addressed, Accepts, Stands, JobInv,
                          NotifyTypeOK, Destination
      <4>4. Refusable(q)'
        BY <1>2, <2>1, <2>2, <4>1, <4>3 DEF Refusable, Missed
      <4> QED
        BY <4>2, <4>4
    <3> QED
      BY <1>1, <1>3, <2>6, <3>1, <3>2 DEF Finish, Unread, Decided
  <2>7. FireIsQueued'
    <3> SUFFICES ASSUME NEW p \in due, Missed(p)'
                 PROVE  p[1] \in lost' \/ \E q \in due : q[1] = p[1] /\ Refusable(q)'
      BY <2>1 DEF FireIsQueued
    <3>1. CASE p \in owes[c]
      BY <2>6, <3>1
    <3>2. CASE p \notin owes[c]
      <4>1. p[1] \in lost \/ \E q \in due : q[1] = p[1] /\ Refusable(q)
        BY <2>4, <3>2 DEF FireInv, FireIsQueued
      <4>2. \A q \in due : Refusable(q) => Refusable(q)'
        BY <2>1, <2>4 DEF Refusable, Missed
      <4> QED
        BY <2>1, <4>1, <4>2
    <3> QED
      BY <3>1, <3>2
  <2> QED
    BY <2>3, <2>7
<1>4. ASSUME NEW a \in Message, OpenAlert(c, a) PROVE Announcing' /\ FireIsQueued'
  <2>1. owes[c] = {} /\ owes'[c] = Announced(a, scope[c])
    BY <1>1, <1>4 DEF OpenAlert, AlertTyped
  <2>2. /\ \A b \in Collector : b # c => owes'[b] = owes[b]
        /\ due' = due \cup Announced(a, scope[c]) /\ UNCHANGED <<lost, delivery, dest>>
    BY <1>1, <1>4 DEF OpenAlert, AlertTyped, notifyVars
  <2>3. /\ \A p \in Announced(a, scope[c]) : p[1] = a
        /\ \A b \in Message : alert[b].state # "none" => alert'[b].state # "none"
        /\ alert[a].state = "none" /\ alert'[a].state # "none"
    BY <1>1, <1>4 DEF OpenAlert, Announced, AlertTyped
  <2>4. \A p \in due : p[1] \in Message /\ p \notin Announced(a, scope[c])
    BY <1>1, <2>3 DEF FireInv, Announcing, Delivery
  <2>5. Announcing'
    BY <2>1, <2>2, <2>3, <2>4 DEF FireInv, Announcing
  <2>6. \A p \in due : Missed(p)' <=> Missed(p)
    BY <2>1, <2>2, <2>4 DEF Missed
  <2>7. \A p \in Announced(a, scope[c]) : ~Missed(p)'
    BY <2>1 DEF Missed
  <2>8. FireIsQueued'
    BY <2>2, <2>6, <2>7 DEF FireInv, FireIsQueued, Refusable
  <2> QED
    BY <2>5, <2>8
<1>5. ASSUME NEW p \in Delivery, QueueOne(c, p) PROVE Announcing' /\ FireIsQueued'
  <2>1. delivery \in [Delivery -> Row] /\ p = <<p[1], p[2]>>
    BY DEF FireInv, AlertInv, JobInv, NotifyTypeOK, Delivery
  <2>2. /\ delivery'[p].status = "pending" /\ p \in owes[c]
        /\ \A q \in Delivery : q # p => delivery'[q] = delivery[q]
    BY <1>5, <2>1 DEF QueueOne, Insert
  <2>3. \A b \in Collector : owes'[b] \subseteq owes[b] /\ owes[b] \subseteq owes'[b] \cup {p}
    BY <1>1, <1>5 DEF QueueOne, AlertTyped
  <2>4. UNCHANGED <<alert, due, lost, dest>>
    BY <1>5 DEF QueueOne
  <2>5. Announcing'
    BY <2>3, <2>4 DEF FireInv, Announcing
  <2>6. \A q \in due : Missed(q)' <=> Missed(q)
    BY <1>1, <2>2, <2>3 DEF Missed
  <2> QED
    BY <2>4, <2>5, <2>6, FireKept
<1>6. ASSUME UNCHANGED <<owes, due, lost, delivery, dest>>,
             \A a \in Message : alert[a].state # "none" => alert'[a].state # "none"
      PROVE  Announcing' /\ FireIsQueued'
  <2>1. \A p \in due : p[1] \in Message /\ (Missed(p)' <=> Missed(p))
    BY <1>1, <1>6 DEF Missed, Delivery
  <2>2. Announcing'
    BY <1>6, <2>1 DEF FireInv, Announcing
  <2> QED
    BY <1>6, <2>1, <2>2, FireKept
<1>7. ASSUME NEW k \in Key, Suppress(c, k) \/ Refire(c, k) \/ FindNone(c, k)
      PROVE  \A a \in Message : alert[a].state # "none" => alert'[a].state # "none"
  <2>1. 0 \in 0 .. Cooldown
    BY AlertAssumption
  <2> QED
    BY <1>1, <1>7, <2>1, Aged DEF Suppress, Refire, FindNone, Open
<1>8. ASSUME NEW a \in Message, Resolve(c, a)
      PROVE  \A b \in Message : alert[b].state # "none" => alert'[b].state # "none"
  BY <1>1, <1>8 DEF Resolve, AlertTyped, Alert
<1>9. ASSUME NEW k \in Key, Suppress(c, k) \/ Refire(c, k) \/ FindNone(c, k)
      PROVE  UNCHANGED <<owes, due, lost, delivery, dest>>
  BY <1>9 DEF Suppress, Refire, FindNone, Decides, notifyVars
<1>10. ASSUME NEW a \in Message, Resolve(c, a)
       PROVE  UNCHANGED <<owes, due, lost, delivery, dest>>
  BY <1>10 DEF Resolve, cycleVars, notifyVars
<1>11. ASSUME (\E e \in Env : Begin(c, e)) \/ Evaluate(c)
       PROVE  UNCHANGED <<alert, owes, due, lost, delivery, dest>>
  BY <1>11 DEF Begin, Evaluate, notifyVars
<1> QED
  BY <1>3, <1>4, <1>5, <1>6, <1>7, <1>8, <1>9, <1>10, <1>11 DEF Detect

LEMMA NextFire == FireInv /\ [Next]_vars => FireInv'
<1> SUFFICES ASSUME FireInv, [Next]_vars PROVE FireInv'
  OBVIOUS
<1>1. AlertInv' /\ JobInv /\ AlertTyped /\ due \in SUBSET Delivery
  BY NextAlert DEF FireInv, AlertInv, AlertTyped
<1>2. \A p \in due : p \in Delivery /\ p[1] \in Message /\ p[2] \in Dest
  BY <1>1 DEF Delivery
<1>3. ASSUME UNCHANGED <<owes, due, lost>>,
             \A a \in Message : alert[a].state # "none" => alert'[a].state # "none",
             \/ UNCHANGED notifyVars
             \/ Operate \/ Tick \/ \E w \in Worker : Work(w) \/ Crash(w)
      PROVE  Announcing' /\ FireIsQueued'
  <2>1. \A p \in due : /\ delivery[p].status # "none" <=> delivery'[p].status # "none"
                       /\ dest[p[2]].state = "deleted" => dest'[p[2]].state = "deleted"
    BY <1>1, <1>2, <1>3, RowsStay, NoNewRow, AddressedStays DEF notifyVars
  <2>2. Announcing'
    BY <1>2, <1>3 DEF FireInv, Announcing
  <2>3. \A p \in due : Missed(p)' <=> Missed(p)
    BY <1>3, <2>1 DEF Missed
  <2> QED
    BY <1>3, <2>1, <2>2, <2>3, FireKept
<1>4. ASSUME NEW a \in Message, Acknowledge(a) PROVE Announcing' /\ FireIsQueued'
  <2>1. \A b \in Message : alert[b].state # "none" => alert'[b].state # "none"
    BY <1>1, <1>4 DEF Acknowledge, Acked, AlertTyped, Alert
  <2> QED
    BY <1>3, <1>4, <2>1 DEF Acknowledge, cycleVars
<1>5. ASSUME NEW e \in Env, Purge(e) PROVE Announcing' /\ FireIsQueued'
  <2>1. \A b \in Message : alert[b].state # "none" => alert'[b].state # "none"
    BY <1>1, <1>5 DEF Purge, AlertTyped, Alert
  <2>2. UNCHANGED <<owes, due, lost>> /\ Operate
    BY <1>5 DEF Purge, Operate
  <2> QED
    BY <1>3, <2>1, <2>2
<1>6. ASSUME Manage \/ NotifyJob PROVE Announcing' /\ FireIsQueued'
  <2>1. UNCHANGED <<owes, due, lost, alert>>
    BY <1>6 DEF Manage, NotifyJob, alertVars, cycleVars
  <2> QED
    BY <1>3, <1>6, <2>1 DEF Manage, NotifyJob, Operate
<1>7. ASSUME Wait PROVE Announcing' /\ FireIsQueued'
  <2>1. \A b \in Message : alert[b].state # "none" => alert'[b].state # "none"
    BY <1>1, <1>7 DEF Wait, AlertTyped, Alert
  <2> QED
    BY <1>3, <1>7, <2>1 DEF Wait, cycleVars
<1>8. ASSUME UNCHANGED vars PROVE Announcing' /\ FireIsQueued'
  BY <1>3, <1>8 DEF vars, alertVars, cycleVars
<1> QED
  BY <1>1, <1>4, <1>5, <1>6, <1>7, <1>8, DetectFire DEF Next, FireInv

(* A fire is lost between the row of its alert and the rows of its         *)
(* deliveries only by a death while that alert is announced, or by the     *)
(* deletion of one of its destinations at that moment, for any number of   *)
(* overlapping cycles, refused inserts and operators.                      *)
THEOREM FiresAreQueued == Spec => []FireIsQueued
<1>1. Init => FireInv
  BY InitAlert DEF Init, FireInv, Announcing, FireIsQueued
<1>2. FireInv => FireIsQueued
  BY DEF FireInv
<1> QED
  BY <1>1, <1>2, NextFire, PTL DEF Spec
=============================================================================
