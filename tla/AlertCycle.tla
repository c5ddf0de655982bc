----------------------------- MODULE AlertCycle -----------------------------
(***************************************************************************)
(* The alerts of collector/alerts.ts, detect/alert.ts and store/alerts.ts: *)
(* once per detect job, after its reads, the live candidates that a rule   *)
(* matches open an alert, fire again or are suppressed, and every open     *)
(* alert that no candidate matched is resolved.  An alert that opens is    *)
(* queued for each destination of its connection: the messages of module   *)
(* Notify, whose state and steps this module composes with its own.        *)
(*                                                                         *)
(* A cycle is one synchronous section, and time stands still in it.  It is *)
(* many statements all the same: a process can die within it, and what     *)
(* another process does falls in between, be it a cycle, the notify job or *)
(* the requests of the operator to a web container of its own.  A rule     *)
(* that is off, a severity under its floor and a subject that is not live  *)
(* all come to the same: the key is not matched.                           *)
(***************************************************************************)
EXTENDS Notify

CONSTANTS
  Key,        \* dedupe keys: a rule of an environment and a subject
  EnvOf,      \* the environment of a key
  Collector,  \* the processes that may be inside a detect job
  Cooldown,   \* cooldownSeconds
  MaxDeaths   \* bound: how often a process dies inside a cycle

ASSUME AlertAssumption ==
  /\ EnvOf \in [Key -> Env]
  /\ None \notin Message /\ None \notin Key
  /\ Cooldown \in Nat
  /\ MaxDeaths \in Nat

VARIABLES
  alert,   \* the alerts table; Message is the ids of its rows
  cycle,   \* per collector: "idle", "reading", or in its section
           \* "deciding", "opening", "orphaned" (its rules were removed)
  scope,   \* per collector, the environment of its cycle
  fires,   \* per collector, the matched keys it has still to decide
  firing,  \* per collector, stillFiring
  opens,   \* per collector, the key findOpenAlert found no alert for
  owes,    \* per collector, the deliveries it has still to queue
  hushed,  \* observation: keys acknowledged, until a cycle finds them quiet
  told,    \* observation: per key, the age of its last fire not suppressed
  due,     \* observation: the deliveries that alerts opened for
  lost,    \* observation: the alerts a process died announcing
  deaths   \* the processes that died inside a cycle

cycleVars == <<cycle, scope, fires, firing, opens, owes>>
alertVars == <<alert, cycleVars, hushed, told, due, lost, deaths>>
vars == <<alertVars, notifyVars>>
-----------------------------------------------------------------------------
Alert == [state : {"none", "open", "resolved", "purged"},
          key : Key \cup {None},
          ack : {"yes", "no"},      \* whether acknowledgedAt is set
          fired : 0 .. Cooldown]    \* the age of lastFiredAt

NoAlert == [state |-> "none", key |-> None, ack |-> "no", fired |-> 0]

Open(k) == {a \in Message : alert[a].state = "open" /\ alert[a].key = k}

KeysOf(e) == {k \in Key : EnvOf[k] = e}

InSection(c) == cycle[c] \in {"deciding", "opening", "orphaned"}

Quiescent == \A c \in Collector : ~InSection(c)

(* decide: acknowledged, or inside the cooldown. *)
Suppressed(a) == alert[a].ack = "yes" \/ alert[a].fired < Cooldown

(* What resolveAlertsExcept resolves. *)
EndsUnlessAcknowledged(c, a) ==   \* mutant: WHERE status = 'firing'
  /\ alert[a].state = "open" /\ alert[a].ack = "no"
  /\ EnvOf[alert[a].key] = scope[c] /\ alert[a].key \notin firing[c]

Ends(c, a) ==
  /\ alert[a].state = "open"
  /\ EnvOf[alert[a].key] = scope[c]
  /\ alert[a].key \notin firing[c]

(* queueForDestinations: the enabled destinations of the connection. *)
Announced(a, e) == {<<a, d>> : d \in {d \in Dest : Reaches(d, e)}}

(* acknowledgeAlert leaves the alert open. *)
AckEnds(a) == [alert[a] EXCEPT !.ack = "yes", !.state = "resolved"]  \* mutant

Acked(a) == [alert[a] EXCEPT !.ack = "yes"]

(* The unique index alerts_open_dedupe. *)
ConflictIgnored(k) == FALSE   \* mutant: no index

Conflict(k) == Open(k) # {}

(* The foreign key of notify_deliveries. *)
AcceptsAny(d) == TRUE   \* mutant: foreign_keys left off

Accepts(d) == Stands(d)

(* A cycle of this environment that is under way does not match the key. *)
FoundQuiet(k) ==
  \E c \in Collector : /\ InSection(c) /\ scope[c] = EnvOf[k]
                       /\ k \notin fires[c] \cup firing[c]
-----------------------------------------------------------------------------
Init ==
  /\ NotifyInit
  /\ alert = [a \in Message |-> NoAlert]
  /\ cycle = [c \in Collector |-> "idle"]
  /\ scope = [c \in Collector |-> None]
  /\ fires = [c \in Collector |-> {}]
  /\ firing = [c \in Collector |-> {}]
  /\ opens = [c \in Collector |-> None]
  /\ owes = [c \in Collector |-> {}]
  /\ hushed = {}
  /\ told = [k \in Key |-> Cooldown]
  /\ due = {}
  /\ lost = {}
  /\ deaths = 0

Quit(c) ==
  /\ cycle' = [cycle EXCEPT ![c] = "idle"]
  /\ scope' = [scope EXCEPT ![c] = None]
  /\ fires' = [fires EXCEPT ![c] = {}]
  /\ firing' = [firing EXCEPT ![c] = {}]
  /\ opens' = [opens EXCEPT ![c] = None]
  /\ owes' = [owes EXCEPT ![c] = {}]

(* A detect job starts on a connection that exists, and reads its cloud. *)
Begin(c, e) ==
  /\ cycle[c] = "idle" /\ e \notin gone
  /\ cycle' = [cycle EXCEPT ![c] = "reading"]
  /\ scope' = [scope EXCEPT ![c] = e]
  /\ UNCHANGED <<alert, fires, firing, opens, owes, hushed, told, due, lost, deaths>>
  /\ UNCHANGED notifyVars

(* The bound on the alerts kept: there is a row for each that may open,    *)
(* also for what another cycle is still to decide, or resolves first.      *)
Promised ==
  {p \in Collector \X Key : InSection(p[1]) /\ p[2] \in fires[p[1]] \cup {opens[p[1]]}}

Room(keys) ==
  LET wanted == IF Quiescent THEN {k \in keys : Open(k) = {}} ELSE keys IN
  Cardinality(Promised) + Cardinality(wanted)
    <= Cardinality({a \in Message : alert[a].state = "none"})

(* The reads are back: runAlertCycle, on whatever the rules match now. *)
Evaluate(c) ==
  /\ cycle[c] = "reading"
  /\ \E matched \in SUBSET Key :
       /\ matched \subseteq KeysOf(scope[c]) /\ Room(matched)
       /\ fires' = [fires EXCEPT ![c] = matched]
       /\ hushed' = hushed \ (KeysOf(scope[c]) \ matched)
  /\ cycle' = [cycle EXCEPT ![c] = "deciding"]
  /\ UNCHANGED <<alert, scope, firing, opens, owes, told, due, lost, deaths, notifyVars>>

(* A candidate that matched is decided once what the last one opened is    *)
(* announced.                                                              *)
Decides(c, k) ==
  /\ cycle[c] = "deciding" /\ owes[c] = {} /\ k \in fires[c]
  /\ fires' = [fires EXCEPT ![c] = fires[c] \ {k}]
  /\ firing' = [firing EXCEPT ![c] = firing[c] \cup {k}]
  /\ UNCHANGED <<scope, owes, hushed, due, lost, deaths, notifyVars>>

Suppress(c, k) ==
  /\ Decides(c, k)
  /\ \E a \in Open(k) : /\ Suppressed(a)
                        /\ alert' = [alert EXCEPT ![a].fired = 0]
  /\ UNCHANGED <<cycle, opens, told>>

Refire(c, k) ==
  /\ Decides(c, k)
  /\ \E a \in Open(k) : /\ ~Suppressed(a)
                        /\ alert' = [alert EXCEPT ![a].fired = 0]
  /\ told' = [told EXCEPT ![k] = 0]
  /\ UNCHANGED <<cycle, opens>>

(* findOpenAlert found nothing. *)
FindNone(c, k) ==
  /\ Decides(c, k)
  /\ Open(k) = {}
  /\ cycle' = [cycle EXCEPT ![c] = "opening"]
  /\ opens' = [opens EXCEPT ![c] = k]
  /\ UNCHANGED <<alert, told>>

OpenAlert(c, a) ==
  /\ cycle[c] = "opening" /\ ~Conflict(opens[c])
  /\ alert[a].state = "none"
  /\ alert' = [alert EXCEPT ![a] = [state |-> "open", key |-> opens[c], ack |-> "no",
                                    fired |-> 0]]
  /\ owes' = [owes EXCEPT ![c] = Announced(a, scope[c])]
  /\ due' = due \cup Announced(a, scope[c])
  /\ told' = [told EXCEPT ![opens[c]] = 0]
  /\ opens' = [opens EXCEPT ![c] = None]
  /\ cycle' = [cycle EXCEPT ![c] = "deciding"]
  /\ UNCHANGED <<scope, fires, firing, hushed, lost, deaths, notifyVars>>

(* The insert throws, and takes the rest of the detect job with it: an     *)
(* alert that is open already, or of a rule that is there no more, or a    *)
(* delivery to a destination deleted since they were read.                 *)
Refused(c) ==
  /\ \/ cycle[c] = "opening" /\ Conflict(opens[c])
     \/ cycle[c] = "orphaned" /\ owes[c] = {}
     \/ \E p \in owes[c] : ~Accepts(p[2])
  /\ Quit(c)
  /\ UNCHANGED <<alert, hushed, told, due, lost, deaths, notifyVars>>

QueueOne(c, p) ==
  /\ p \in owes[c] /\ Accepts(p[2])
  /\ Insert(p[1], p[2], scope[c])
  /\ owes' = [owes EXCEPT ![c] = owes[c] \ {p}]
  /\ UNCHANGED <<alert, cycle, scope, fires, firing, opens, hushed, told, due, lost, deaths>>
  /\ UNCHANGED <<dest, gone, job, batch, seen, target, began, made, sends, crashes>>

DecidedEarly(c) == cycle[c] = "deciding" /\ fires[c] = {}   \* mutant: queueing not awaited

Decided(c) == cycle[c] = "deciding" /\ fires[c] = {} /\ owes[c] = {}

(* resolveAlertsExcept, one row after another. *)
Resolve(c, a) ==
  /\ Decided(c) /\ Ends(c, a)
  /\ alert' = [alert EXCEPT ![a] = [alert[a] EXCEPT !.state = "resolved", !.fired = 0]]
  /\ UNCHANGED <<cycleVars, hushed, told, due, lost, deaths, notifyVars>>

Finish(c) ==
  /\ Decided(c) /\ \A a \in Message : ~Ends(c, a)
  /\ Quit(c)
  /\ UNCHANGED <<alert, hushed, told, due, lost, deaths, notifyVars>>

(* A job whose reads fail ends before the section; nothing is lost. *)
Unread(c) ==
  /\ cycle[c] = "reading"
  /\ Quit(c)
  /\ UNCHANGED <<alert, hushed, told, due, lost, deaths, notifyVars>>

Die(c) ==
  /\ InSection(c) /\ deaths < MaxDeaths
  /\ deaths' = deaths + 1
  /\ lost' = lost \cup {p[1] : p \in owes[c]}
  /\ Quit(c)
  /\ UNCHANGED <<alert, hushed, told, due, notifyVars>>

Detect(c) == \/ \E e \in Env : Begin(c, e)
             \/ Evaluate(c)
             \/ \E k \in Key : Suppress(c, k) \/ Refire(c, k) \/ FindNone(c, k)
             \/ \E a \in Message : OpenAlert(c, a) \/ Resolve(c, a)
             \/ \E p \in Delivery : QueueOne(c, p)
             \/ Refused(c)
             \/ Finish(c)
             \/ Unread(c)
             \/ Die(c)
-----------------------------------------------------------------------------
(* acknowledgeAlertAction: an alert of a page that may be out of date. *)
Acknowledge(a) ==
  /\ alert[a].state \in {"open", "resolved"} /\ alert[a].ack = "no"
  /\ alert' = [alert EXCEPT ![a] = Acked(a)]
  /\ hushed' = IF alert[a].state = "open" /\ ~FoundQuiet(alert[a].key)
               THEN hushed \cup {alert[a].key} ELSE hushed
  /\ UNCHANGED <<cycleVars, told, due, lost, deaths, notifyVars>>

(* The cycles that hold candidates for rules that are there no more. *)
Orphans(e) == {c \in Collector : /\ InSection(c) /\ scope[c] = e
                                 /\ fires[c] # {} \/ opens[c] # None}

(* purgeConnectionData takes the alerts and the rules; the deliveries      *)
(* stay.  A cycle that is under way knows no alert by its rules any more:  *)
(* none is open, and none can be opened.                                   *)
Purge(e) ==
  /\ Disconnect(e)
  /\ alert' = [a \in Message |->
                 IF alert[a].state \in {"open", "resolved"} /\ EnvOf[alert[a].key] = e
                 THEN [alert[a] EXCEPT !.state = "purged", !.fired = 0] ELSE alert[a]]
  /\ hushed' = hushed \ KeysOf(e)
  /\ cycle' = [c \in Collector |-> IF c \in Orphans(e) THEN "orphaned" ELSE cycle[c]]
  /\ opens' = [c \in Collector |-> IF c \in Orphans(e) THEN None ELSE opens[c]]
  /\ fires' = [c \in Collector |-> IF scope[c] = e THEN {} ELSE fires[c]]
  /\ firing' = [c \in Collector |-> IF scope[c] = e THEN {} ELSE firing[c]]
  /\ UNCHANGED <<scope, owes, told, due, lost, deaths>>

Manage == /\ \/ \E d \in Dest, s \in Env \cup {None} : Create(d, s)
             \/ \E d \in Dest : Toggle(d) \/ Delete(d)
          /\ UNCHANGED alertVars

(* The job of any process: it reads what the section of a cycle writes. *)
NotifyJob == /\ \E w \in Worker : Work(w) \/ Crash(w)
             /\ UNCHANGED alertVars

Older(age) == IF age < Cooldown THEN age + 1 ELSE age

Wait ==
  /\ Quiescent
  /\ Tick
  /\ alert' = [a \in Message |-> IF alert[a].state = "open"
                                 THEN [alert[a] EXCEPT !.fired = Older(alert[a].fired)]
                                 ELSE alert[a]]
  /\ told' = [k \in Key |-> Older(told[k])]
  /\ UNCHANGED <<cycleVars, hushed, due, lost, deaths>>

Next == \/ \E c \in Collector : Detect(c)
        \/ \E a \in Message : Acknowledge(a)
        \/ \E e \in Env : Purge(e)
        \/ Manage
        \/ NotifyJob
        \/ Wait

Spec == Init /\ [][Next]_vars
-----------------------------------------------------------------------------
(* The alerts, the cycles and the deliveries they hold are in range: the   *)
(* times of an alert and the counters of a delivery stay within theirs.    *)
TypeOK ==
  /\ NotifyTypeOK
  /\ alert \in [Message -> Alert]
  /\ cycle \in [Collector -> {"idle", "reading", "deciding", "opening", "orphaned"}]
  /\ scope \in [Collector -> Env \cup {None}]
  /\ fires \in [Collector -> SUBSET Key]
  /\ firing \in [Collector -> SUBSET Key]
  /\ opens \in [Collector -> Key \cup {None}]
  /\ owes \in [Collector -> SUBSET Delivery]
  /\ hushed \in SUBSET Key
  /\ told \in [Key -> 0 .. Cooldown]
  /\ due \in SUBSET Delivery
  /\ lost \in SUBSET Message
  /\ deaths \in 0 .. MaxDeaths

(* A rule has one open alert per subject, however many processes evaluate  *)
(* it at once (findOpenAlert then openAlert are two statements).           *)
OneOpenPerKey ==
  \A a, b \in Message :
    alert[a].state = "open" /\ alert[b].state = "open" /\ alert[a].key = alert[b].key
      => a = b

(* When a cycle is done, the open alerts of its environment are those of   *)
(* the subjects it found firing, acknowledged or not: what stopped is      *)
(* resolved, what fires is open, whatever was cut short before             *)
(* (runAlertCycle, resolveAlertsExcept).  None is, once the environment    *)
(* was removed under it.                                                   *)
CycleSettles ==
  [][\A c \in Collector : Finish(c) =>
       \A k \in KeysOf(scope[c]) : (Open(k) # {}) <=> k \in firing[c]]_vars

(* An acknowledged subject is not announced again until a cycle has found  *)
(* it quiet: no alert opens for it, and only one that opens is announced   *)
(* (decide, and its comment).                                              *)
AckIsSilent ==
  [][\A a \in Message : alert[a].state = "none" /\ alert'[a].state = "open"
       => alert'[a].key \notin hushed]_vars

(* Two announcements of one subject are a cooldown apart (section 15.2,    *)
(* and the head of detect/alert.ts: a flapping problem is not forty        *)
(* alerts).                                                                *)
CooldownBetweenFires ==
  [][\A a \in Message : alert[a].state = "none" /\ alert'[a].state = "open"
       => told[alert'[a].key] >= Cooldown]_vars

(* Every delivery an alert opened for is in the queue, or is queued before *)
(* its cycle goes on: no cycle decides, resolves or ends over it.  A fire  *)
(* is lost in two ways only: the process died while it announced that very *)
(* alert, or a destination of that alert was deleted before its own row    *)
(* was written (queueForDestinations).                                     *)
Missed(p) == delivery[p].status = "none" /\ \A c \in Collector : p \notin owes[c]

Refusable(p) == Missed(p) /\ dest[p[2]].state = "deleted"

FireIsQueued ==
  \A p \in due : Missed(p) =>
    p[1] \in lost \/ \E q \in due : q[1] = p[1] /\ Refusable(q)
=============================================================================
