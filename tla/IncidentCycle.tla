----------------------------- MODULE IncidentCycle -----------------------------
(***************************************************************************)
(* From problems to incidents: the rule of detect/incident.ts, the cycle   *)
(* of collector/incidents.ts that opens, attaches and tells, and what the  *)
(* operator does with an incident (store/incidents.ts, the actions of the  *)
(* incident page), in one environment.                                     *)
(*                                                                         *)
(* The cycle runs in one synchronous section of the detect job, but every  *)
(* write is a transaction of its own: a process may die between two, and a *)
(* request another process serves may come between them.  Only critical    *)
(* problems with a service are here, the rule drops the others.  Nothing   *)
(* opens an incident of another origin than 'auto'.  A time is an age,     *)
(* capped where no comparison tells larger ages apart.  Of the status only *)
(* what a rule reads is kept: whether resolvedAt was ever stamped.         *)
(***************************************************************************)
EXTENDS Integers, FiniteSets

CONSTANTS
  Problem,         \* the problems of the environment
  Service,         \* its services
  ServiceOf,       \* the service of a problem
  Incident,        \* incident ids: the bound on rows kept at once
  NoIncident,      \* null
  IncidentWindow,  \* INCIDENT_WINDOW_MS
  Sustained,       \* SUSTAINED_MS
  FreshSubject,    \* FRESH_SUBJECT_MS
  Suppression,     \* DISMISSAL_SUPPRESSION_MS
  MaxGaps          \* bound: how often a process dies inside the cycle

ASSUME IncidentAssumption ==
  /\ IsFiniteSet(Problem)
  /\ ServiceOf \in [Problem -> Service] /\ Service # {}
  /\ NoIncident \notin Incident
  /\ IncidentWindow \in Nat /\ Sustained \in Nat /\ FreshSubject \in Nat
  /\ Suppression \in Nat /\ Suppression > 0
  /\ IncidentWindow < FreshSubject /\ Sustained < FreshSubject
  /\ MaxGaps \in Nat

VARIABLES
  trouble,    \* per problem: live or not, and its age since firstSeenAt
  incidentOf, \* problems.incidentId
  incident,   \* the incidents table
  told,       \* the incidents whose timeline says why they were opened
  cycle,      \* "idle" or "opening"
  planned,    \* per service, the problems of its candidate
  at,         \* the incident being written
  joining,    \* the problems it has still to attach
  gaps,       \* the processes that died inside the cycle
  quiet,      \* observation: per service, the age of its latest dismissal
  overruled,  \* observation: the services dismissed since the cycle planned
  closed      \* observation: those with an incident resolved since then

incidentVars == <<trouble, incidentOf, incident, told, cycle, planned, at,
                  joining, gaps, quiet, overruled, closed>>
-----------------------------------------------------------------------------
Trouble == [live : BOOLEAN, age : 0 .. FreshSubject]

Healthy == [live |-> FALSE, age |-> 0]

(* An age of dismissal of Suppression stands for every dismissal that is    *)
(* spent, and for a row that was never dismissed.                          *)
IncidentRow == [there : BOOLEAN, service : Service, resolvedAt : BOOLEAN,
                dismissedAt : BOOLEAN, since : 0 .. Suppression]

NoRow(s) == [there |-> FALSE, service |-> s, resolvedAt |-> FALSE,
             dismissedAt |-> FALSE, since |-> Suppression]

(* listOpenIncidents: nothing but the two stamps is asked. *)
OpenIfTold(i) ==   \* mutant: an incident half written does not count
  /\ incident[i].there /\ ~incident[i].resolvedAt /\ ~incident[i].dismissedAt
  /\ i \in told

Open(i) == incident[i].there /\ ~incident[i].resolvedAt /\ ~incident[i].dismissedAt

ExistingEver(s) ==   \* mutant: every incident of the service counts
  \E i \in Incident : incident[i].there /\ incident[i].service = s

Existing(s) == \E i \in Incident : Open(i) /\ incident[i].service = s

(* suppressionsByService: the latest dismissal of the service wins. *)
SuppressedByAll(s) ==   \* mutant: every dismissed row of the service has to be recent
  LET mine == {i \in Incident : /\ incident[i].there /\ incident[i].service = s
                                /\ incident[i].dismissedAt}
  IN mine # {} /\ \A i \in mine : incident[i].since < Suppression

Suppressed(s) ==
  \E i \in Incident : /\ incident[i].there /\ incident[i].service = s
                      /\ incident[i].dismissedAt /\ incident[i].since < Suppression

(* The first trigger: two critical problems close together. *)
TogetherStrictly(s) ==   \* mutant: < for <=
  {p \in Problem : /\ ServiceOf[p] = s /\ trouble[p].live
                   /\ trouble[p].age < IncidentWindow}

Together(s) == {p \in Problem : /\ ServiceOf[p] = s /\ trouble[p].live
                                /\ trouble[p].age <= IncidentWindow}

(* The u term of a problem that has a service: null while the problem is  *)
(* fresh (here no value), and 0 from then on.  The detectors that name a   *)
(* service leave userFacing null (detect/aws.ts, detect/errors.ts); the    *)
(* one that knows users are there, the synthetic check, names no service.  *)
UserFacing(p) == IF trouble[p].age < FreshSubject THEN {} ELSE {0}

(* The second trigger: one that lasts, where somebody measured that users  *)
(* see it.                                                                 *)
Lasting(s) == {p \in Problem : /\ ServiceOf[p] = s /\ trouble[p].live
                               /\ trouble[p].age > Sustained
                               /\ \E u \in UserFacing(p) : u > 0}

OldestOf(S) == CHOOSE p \in S : \A q \in S : trouble[p].age >= trouble[q].age

(* incidentCandidates: the problems of the candidate of a service. *)
Candidate(s) ==
  IF Existing(s) \/ Suppressed(s) THEN {}
  ELSE IF Cardinality(Together(s)) >= 2 THEN Together(s)
  ELSE IF Lasting(s) # {} THEN {OldestOf(Lasting(s))}
  ELSE {}

(* A row the model forgets: closed, and its dismissal spent. *)
Free(i) == ~incident[i].there \/ (~Open(i) /\ incident[i].since = Suppression)
-----------------------------------------------------------------------------
IncidentInit ==
  /\ trouble = [p \in Problem |-> Healthy]
  /\ incidentOf = [p \in Problem |-> NoIncident]
  /\ incident = [i \in Incident |-> NoRow(CHOOSE s \in Service : TRUE)]
  /\ told = {}
  /\ cycle = "idle" /\ planned = [s \in Service |-> {}]
  /\ at = NoIncident /\ joining = {} /\ gaps = 0
  /\ quiet = [s \in Service |-> Suppression] /\ overruled = {} /\ closed = {}

(* A job opens a problem, reopens one, which keeps its firstSeenAt and its *)
(* incident, or finds it critical now (applyTransitions).                  *)
Appears(p) ==
  /\ cycle = "idle" /\ ~trouble[p].live
  /\ \E fresh \in BOOLEAN :
       /\ trouble' = [trouble EXCEPT ![p] = [live |-> TRUE,
                                            age |-> IF fresh THEN 0 ELSE @.age]]
       /\ incidentOf' = [incidentOf EXCEPT ![p] = IF fresh THEN NoIncident ELSE @]
  /\ UNCHANGED <<incident, told, cycle, planned, at, joining, gaps>>
  /\ UNCHANGED <<quiet, overruled, closed>>

(* A job resolves it, or finds it critical no more. *)
Heals(p) ==
  /\ cycle = "idle" /\ trouble[p].live
  /\ trouble' = [trouble EXCEPT ![p].live = FALSE]
  /\ UNCHANGED <<incidentOf, incident, told, cycle, planned, at, joining, gaps>>
  /\ UNCHANGED <<quiet, overruled, closed>>

(* Time passes between two cycles. *)
IncidentTick ==
  LET older(n, cap) == IF n < cap THEN n + 1 ELSE n IN
  /\ cycle = "idle"
  /\ trouble' = [p \in Problem |-> [trouble[p] EXCEPT !.age = older(@, FreshSubject)]]
  /\ incident' = [i \in Incident |-> [incident[i] EXCEPT !.since = older(@, Suppression)]]
  /\ quiet' = [s \in Service |-> older(quiet[s], Suppression)]
  /\ UNCHANGED <<incidentOf, told, cycle, planned, at, joining, gaps, overruled, closed>>
-----------------------------------------------------------------------------
(* runIncidentCycle *)

PlanIncidents ==
  /\ cycle = "idle"
  /\ cycle' = "opening"
  /\ planned' = [s \in Service |-> Candidate(s)]
  /\ overruled' = {} /\ closed' = {}
  /\ UNCHANGED <<trouble, incidentOf, incident, told, at, joining, gaps, quiet>>

(* openIncident *)
OpenIncident(s, i) ==
  /\ cycle = "opening" /\ at = NoIncident /\ planned[s] # {}
  /\ Free(i) /\ i = CHOOSE j \in Incident : Free(j)
  /\ incident' = [incident EXCEPT ![i] = [NoRow(s) EXCEPT !.there = TRUE]]
  /\ incidentOf' = [p \in Problem |-> IF incidentOf[p] = i THEN NoIncident
                                     ELSE incidentOf[p]]
  /\ told' = told \ {i}
  /\ at' = i /\ joining' = planned[s]
  /\ planned' = [planned EXCEPT ![s] = {}]
  /\ UNCHANGED <<trouble, cycle, gaps, quiet, overruled, closed>>

(* attachProblem *)
Attach(p) ==
  /\ at # NoIncident /\ p \in joining
  /\ joining' = joining \ {p}
  /\ incidentOf' = [incidentOf EXCEPT ![p] = at]
  /\ UNCHANGED <<trouble, incident, told, cycle, planned, at, gaps>>
  /\ UNCHANGED <<quiet, overruled, closed>>

(* appendTimeline *)
Tell ==
  /\ at # NoIncident /\ joining = {}
  /\ told' = told \cup {at} /\ at' = NoIncident
  /\ UNCHANGED <<trouble, incidentOf, incident, cycle, planned, joining, gaps>>
  /\ UNCHANGED <<quiet, overruled, closed>>

EndCycle ==
  /\ cycle = "opening" /\ at = NoIncident /\ \A s \in Service : planned[s] = {}
  /\ cycle' = "idle" /\ overruled' = {} /\ closed' = {}
  /\ UNCHANGED <<trouble, incidentOf, incident, told, planned, at, joining, gaps, quiet>>

(* The process dies between two writes. *)
DieInCycle ==
  /\ cycle = "opening" /\ gaps < MaxGaps
  /\ gaps' = gaps + 1
  /\ cycle' = "idle" /\ planned' = [s \in Service |-> {}]
  /\ at' = NoIncident /\ joining' = {} /\ overruled' = {} /\ closed' = {}
  /\ UNCHANGED <<trouble, incidentOf, incident, told, quiet>>
-----------------------------------------------------------------------------
(* setIncidentStatus, to 'resolved'; no other status changes what is open, *)
(* and none takes the stamp away.                                          *)
SetResolved(i) ==
  /\ incident[i].there
  /\ incident' = [incident EXCEPT ![i].resolvedAt = TRUE]
  /\ closed' = IF cycle = "idle" THEN {} ELSE closed \cup {incident[i].service}
  /\ UNCHANGED <<trouble, incidentOf, told, cycle, planned, at, joining, gaps>>
  /\ UNCHANGED <<quiet, overruled>>

Dismissed(i) == [incident EXCEPT ![i].dismissedAt = TRUE, ![i].since = 0]

(* dismissIncident: again for one that is dismissed or resolved. *)
Dismiss(i) ==
  /\ incident[i].there
  /\ incident' = Dismissed(i)
  /\ quiet' = [quiet EXCEPT ![incident[i].service] = 0]
  /\ overruled' = IF cycle = "idle" THEN {} ELSE overruled \cup {incident[i].service}
  /\ UNCHANGED <<trouble, incidentOf, told, cycle, planned, at, joining, gaps, closed>>

RunIncidents ==
  \/ PlanIncidents
  \/ \E s \in Service, i \in Incident : OpenIncident(s, i)
  \/ \E p \in Problem : Attach(p)
  \/ Tell \/ EndCycle

IncidentNext ==
  \/ \E p \in Problem : Appears(p) \/ Heals(p)
  \/ IncidentTick
  \/ RunIncidents \/ DieInCycle
  \/ \E i \in Incident : SetResolved(i) \/ Dismiss(i)

IncidentSpec == IncidentInit /\ [][IncidentNext]_incidentVars
-----------------------------------------------------------------------------
IncidentTypeOK ==
  /\ trouble \in [Problem -> Trouble]
  /\ incidentOf \in [Problem -> Incident \cup {NoIncident}]
  /\ incident \in [Incident -> IncidentRow]
  /\ told \in SUBSET Incident
  /\ cycle \in {"idle", "opening"} /\ planned \in [Service -> SUBSET Problem]
  /\ at \in Incident \cup {NoIncident} /\ joining \in SUBSET Problem
  /\ gaps \in 0 .. MaxGaps
  /\ quiet \in [Service -> 0 .. Suppression]
  /\ overruled \in SUBSET Service /\ closed \in SUBSET Service

(* "A service already inside an open incident does not get a second one",  *)
(* whatever its operator made of the first: neither moved to 'resolved'    *)
(* nor dismissed, two incidents are never of one service.                  *)
OneOpenPerService ==
  \A i, j \in {k \in Incident : /\ incident[k].there /\ ~incident[k].resolvedAt
                                 /\ ~incident[k].dismissedAt} :
    incident[i].service = incident[j].service => i = j

(* Dismissing an incident "suppresses auto-creation for that service for   *)
(* two hours", from the latest dismissal: no incident of the service is    *)
(* opened before, unless the dismissal came while a cycle that had made up *)
(* its mind was writing.                                                   *)
DismissalHolds ==
  [][\A i \in Incident :
       at = NoIncident /\ at' = i =>
         \/ quiet[incident'[i].service] = Suppression
         \/ incident'[i].service \in overruled]_incidentVars

Silenced(s) == quiet[s] < Suppression

(* "Two or more critical problems on one service within fifteen minutes"   *)
(* are an incident: a cycle that comes to its end leaves no such service   *)
(* without an open one, whatever died before it and wherever the operator  *)
(* came between its writes, unless a dismissal silences the service or the *)
(* operator closed its incident while the cycle wrote.                     *)
TogetherIsCovered ==
  [][EndCycle => \A p, q \in Problem :
       /\ p # q /\ ServiceOf[p] = ServiceOf[q]
       /\ \A r \in {p, q} : trouble[r].live /\ trouble[r].age <= IncidentWindow
       => \/ \E i \in Incident : Open(i) /\ incident[i].service = ServiceOf[p]
          \/ Silenced(ServiceOf[p]) \/ ServiceOf[p] \in closed]_incidentVars

(* Two critical problems of a service that stay together have an incident  *)
(* in the end, also when a process dies before it wrote what it planned,   *)
(* or the operator closes one incident after another: nothing that is over *)
(* stands in the way of the next cycle.                                    *)
TroubleIsRaised ==
  \A s \in Service :
    Cardinality(Together(s)) >= 2
      ~> \/ \E i \in Incident : Open(i) /\ incident[i].service = s
         \/ Silenced(s) \/ Cardinality(Together(s)) < 2
=============================================================================
