----------------------------- MODULE JobsProofs -----------------------------
(***************************************************************************)
(* Facts about the jobs beside detection, for any lines, sources,          *)
(* services, groups, checks and objectives, and any caps, windows and      *)
(* lengths: each job on its own, then the jobs as MCJobs runs them.  The   *)
(* first, the drain of the forwarded lines, is LogPushProofs.              *)
(***************************************************************************)
EXTENDS MCJobs, LogPushProofs, SequenceTheorems, WellFoundedInduction

(* Incidents (IncidentCycle).                                              *)

(* The cycle plans an incident only for a service that has none open, and  *)
(* until it is written nobody else opens one.                              *)
PlannedIsFree ==
  /\ cycle = "idle" => \A s \in Service : planned[s] = {}
  /\ \A s \in Service : planned[s] # {} => ~Existing(s)

(* A dismissal that is not spent is on a row that is kept. *)
Remembered(s) ==
  \E i \in Incident : /\ incident[i].there /\ incident[i].service = s
                      /\ incident[i].dismissedAt /\ incident[i].since = quiet[s]

(* A planned service was not silenced, or was since the cycle planned.     *)
PlannedIsQuiet ==
  /\ \A s \in Service : planned[s] # {} => quiet[s] = Suppression \/ s \in overruled
  /\ \A s \in Service : quiet[s] < Suppression => Remembered(s)

IncidentInv ==
  IncidentTypeOK /\ PlannedIsFree /\ PlannedIsQuiet /\ OneOpenPerService
-----------------------------------------------------------------------------
(* A set of naturals has a least member. *)
LEMMA LeastOf ==
  ASSUME NEW T, T \subseteq Nat, T # {}
  PROVE  \E x \in T : \A y \in T : x <= y
<1> DEFINE R == {ss \in Nat \X Nat : ss[1] < ss[2]}
<1>1. IsWellFoundedOn(R, Nat)
  BY NatLessThanWellFounded, Zenon DEF OpToRel
<1> HIDE DEF R
<1>2. PICK x \in T : \A y \in T : ~(<<y, x>> \in R)
  BY <1>1, WFMin, Zenon
<1>3. ASSUME NEW y \in T PROVE x <= y
  <2>1. x \in Nat /\ y \in Nat
    OBVIOUS
  <2>2. y < x => <<y, x>> \in R
    BY <2>1 DEF R
  <2> QED
    BY <1>2, <2>1, <2>2
<1> QED
  BY <1>3

(* Among problems that last one is oldest: the rule finds the one it names. *)
LEMMA OldestIsOne ==
  ASSUME IncidentTypeOK, NEW S \in SUBSET Problem, S # {}
  PROVE  OldestOf(S) \in S
<1> DEFINE young == {FreshSubject - trouble[p].age : p \in S}
<1>1. FreshSubject \in Nat /\ \A p \in Problem : trouble[p].age \in 0 .. FreshSubject
  BY IncidentAssumption DEF IncidentTypeOK, Trouble
<1>2. young \subseteq Nat /\ young # {}
  BY <1>1
<1>3. PICK n \in young : \A m \in young : n <= m
  BY <1>2, LeastOf
<1>4. PICK p \in S : n = FreshSubject - trouble[p].age
  BY <1>3
<1>5. ASSUME NEW q \in S PROVE trouble[p].age >= trouble[q].age
  <2>1. n <= FreshSubject - trouble[q].age
    BY <1>3
  <2>2. FreshSubject \in Nat /\ trouble[p].age \in Nat /\ trouble[q].age \in Nat
    BY <1>1
  <2> HIDE DEF young
  <2> QED
    BY <1>4, <2>1, <2>2
<1> QED
  BY <1>5 DEF OldestOf

LEMMA CandidateTyped ==
  ASSUME IncidentTypeOK, NEW s \in Service
  PROVE  Candidate(s) \subseteq Problem
<1>1. Lasting(s) \in SUBSET Problem /\ Together(s) \in SUBSET Problem
  BY DEF Lasting, Together
<1>2. Lasting(s) # {} => OldestOf(Lasting(s)) \in Problem
  BY <1>1, OldestIsOne
<1> QED
  BY <1>1, <1>2 DEF Candidate

(* What EXCEPT does to a row. *)
LEMMA RowsTyped ==
  ASSUME IncidentTypeOK, NEW i \in Incident
  PROVE  /\ [incident EXCEPT ![i].resolvedAt = TRUE] \in [Incident -> IncidentRow]
         /\ Dismissed(i) \in [Incident -> IncidentRow]
         /\ \A s \in Service : [NoRow(s) EXCEPT !.there = TRUE] \in IncidentRow
<1>1. incident \in [Incident -> IncidentRow] /\ 0 \in 0 .. Suppression
  BY IncidentAssumption DEF IncidentTypeOK
<1>2. Suppression \in 0 .. Suppression
  BY IncidentAssumption
<1> QED
  BY <1>1, <1>2 DEF IncidentRow, NoRow, Dismissed

LEMMA IncidentStarts == IncidentInit => IncidentTypeOK
<1> SUFFICES ASSUME IncidentInit PROVE IncidentTypeOK
  OBVIOUS
<1> USE IncidentAssumption DEF IncidentInit
<1>1. trouble \in [Problem -> Trouble]
  <2>1. Healthy \in Trouble
    BY DEF Healthy, Trouble
  <2> QED
    BY <2>1
<1>2. incident \in [Incident -> IncidentRow]
  <2>1. (CHOOSE s \in Service : TRUE) \in Service /\ Suppression \in 0 .. Suppression
    OBVIOUS
  <2> QED
    BY <2>1 DEF IncidentRow, NoRow
<1> QED
  BY <1>1, <1>2 DEF IncidentTypeOK

(* Problems, requests, time, the cycle and its deaths keep the shape of    *)
(* the tables.                                                             *)
LEMMA IncidentShape == IncidentTypeOK /\ [IncidentNext]_incidentVars => IncidentTypeOK'
<1> SUFFICES ASSUME IncidentTypeOK, [IncidentNext]_incidentVars PROVE IncidentTypeOK'
  OBVIOUS
<1> USE IncidentAssumption
<1>1. ASSUME NEW p \in Problem, Appears(p) PROVE IncidentTypeOK'
  <2>1. PICK fresh \in BOOLEAN :
          /\ trouble' = [trouble EXCEPT ![p] = [live |-> TRUE,
                                               age |-> IF fresh THEN 0 ELSE @.age]]
          /\ incidentOf' = [incidentOf EXCEPT ![p] = IF fresh THEN NoIncident ELSE @]
    BY <1>1 DEF Appears
  <2>2. trouble \in [Problem -> Trouble] /\ 0 \in 0 .. FreshSubject
    BY DEF IncidentTypeOK
  <2>3. trouble' \in [Problem -> Trouble]
    BY <2>1, <2>2 DEF Trouble
  <2>4. incidentOf' \in [Problem -> Incident \cup {NoIncident}]
    BY <2>1 DEF IncidentTypeOK
  <2> QED
    BY <1>1, <2>3, <2>4 DEF Appears, IncidentTypeOK
<1>2. ASSUME NEW p \in Problem, Heals(p) PROVE IncidentTypeOK'
  <2>2. trouble' \in [Problem -> Trouble]
    BY <1>2, ZenonT(60) DEF Heals, IncidentTypeOK, Trouble
  <2> QED
    BY <1>2, <2>2 DEF Heals, IncidentTypeOK
<1>3. CASE IncidentTick
  <2> DEFINE older(n, cap) == IF n < cap THEN n + 1 ELSE n
  <2>a. FreshSubject \in Nat
    OBVIOUS
  <2>b. \A cap \in Nat : \A n \in 0 .. cap : older(n, cap) \in 0 .. cap
    OBVIOUS
  <2>c. /\ trouble' = [p \in Problem |-> [trouble[p] EXCEPT !.age = older(@, FreshSubject)]]
        /\ incident' = [i \in Incident |->
                          [incident[i] EXCEPT !.since = older(@, Suppression)]]
    BY <1>3 DEF IncidentTick
  <2> HIDE DEF older
  <2>1. trouble' \in [Problem -> Trouble]
    <3>1. ASSUME NEW p \in Problem PROVE [trouble[p] EXCEPT !.age = older(@, FreshSubject)] \in Trouble
      <4>1. trouble[p] \in Trouble /\ older(trouble[p].age, FreshSubject) \in 0 .. FreshSubject
        BY <2>a, <2>b DEF IncidentTypeOK, Trouble
      <4> QED
        BY <4>1 DEF Trouble
    <3> QED
      BY ONLY <3>1, <2>c
  <2>2. incident' \in [Incident -> IncidentRow]
    <3>1. ASSUME NEW i \in Incident
          PROVE  [incident[i] EXCEPT !.since = older(@, Suppression)] \in IncidentRow
      <4>1. incident[i] \in IncidentRow /\ older(incident[i].since, Suppression) \in 0 .. Suppression
        BY <2>b DEF IncidentTypeOK, IncidentRow
      <4> QED
        BY <4>1 DEF IncidentRow
    <3> QED
      BY ONLY <3>1, <2>c
  <2>3. quiet' \in [Service -> 0 .. Suppression]
    BY <1>3 DEF IncidentTick, IncidentTypeOK
  <2> QED
    BY <1>3, <2>1, <2>2, <2>3 DEF IncidentTick, IncidentTypeOK
<1>4. CASE PlanIncidents
  BY <1>4, CandidateTyped DEF PlanIncidents, IncidentTypeOK
<1>5. ASSUME NEW s \in Service, NEW i \in Incident, OpenIncident(s, i) PROVE IncidentTypeOK'
  <2>1. incident' \in [Incident -> IncidentRow]
    BY <1>5, RowsTyped DEF OpenIncident, IncidentTypeOK
  <2>2. incidentOf' \in [Problem -> Incident \cup {NoIncident}]
    BY <1>5 DEF OpenIncident, IncidentTypeOK
  <2> QED
    BY <1>5, <2>1, <2>2 DEF OpenIncident, IncidentTypeOK
<1>6. ASSUME NEW p \in Problem, Attach(p) PROVE IncidentTypeOK'
  <2>1. incidentOf' \in [Problem -> Incident \cup {NoIncident}]
    BY <1>6 DEF Attach, IncidentTypeOK
  <2> QED
    BY <1>6, <2>1 DEF Attach, IncidentTypeOK
<1>7. CASE Tell \/ EndCycle
  BY <1>7 DEF Tell, EndCycle, IncidentTypeOK
<1>8. CASE DieInCycle
  BY <1>8 DEF DieInCycle, IncidentTypeOK
<1>9. ASSUME NEW i \in Incident, SetResolved(i) PROVE IncidentTypeOK'
  <2>1. incident' \in [Incident -> IncidentRow]
    BY <1>9, RowsTyped DEF SetResolved
  <2>2. closed' \in SUBSET Service
    BY <1>9 DEF SetResolved, IncidentTypeOK, IncidentRow
  <2> QED
    BY <1>9, <2>1, <2>2 DEF SetResolved, IncidentTypeOK
<1>10. ASSUME NEW i \in Incident, Dismiss(i) PROVE IncidentTypeOK'
  <2>1. incident' \in [Incident -> IncidentRow] /\ incident[i].service \in Service
    BY <1>10, RowsTyped DEF Dismiss, IncidentTypeOK, IncidentRow
  <2>2. quiet' \in [Service -> 0 .. Suppression]
    <3>1. quiet' = [quiet EXCEPT ![incident[i].service] = 0] /\ 0 \in 0 .. Suppression
      BY <1>10 DEF Dismiss
    <3> QED
      BY <3>1 DEF IncidentTypeOK
  <2> QED
    BY <1>10, <2>1, <2>2 DEF Dismiss, IncidentTypeOK
<1>11. CASE UNCHANGED incidentVars
  BY <1>11 DEF incidentVars, IncidentTypeOK
<1> QED
  BY <1>1, <1>2, <1>3, <1>4, <1>5, <1>6, <1>7, <1>8, <1>9, <1>10, <1>11
     DEF IncidentNext, RunIncidents
-----------------------------------------------------------------------------
(* The rows a step leaves open: nothing but openIncident opens one, and    *)
(* only for a service that has none.                                       *)
OpensNothing ==
  \A i \in Incident : /\ Open(i)' => Open(i)
                      /\ incident'[i].service = incident[i].service

LEMMA OpenedOnlyByOpenIncident ==
  ASSUME IncidentTypeOK, [IncidentNext]_incidentVars
  PROVE  \/ OpensNothing
         \/ \E s \in Service, i \in Incident : OpenIncident(s, i)
<1>a. incident \in [Incident -> IncidentRow]
  BY DEF IncidentTypeOK
<1>1. ASSUME UNCHANGED incident PROVE OpensNothing
  BY <1>1 DEF OpensNothing, Open
<1>2. CASE IncidentTick
  <2>1. \A i \in Incident : /\ incident'[i].there = incident[i].there
                            /\ incident'[i].service = incident[i].service
                            /\ incident'[i].resolvedAt = incident[i].resolvedAt
                            /\ incident'[i].dismissedAt = incident[i].dismissedAt
    BY <1>2, <1>a DEF IncidentTick, IncidentRow
  <2> QED
    BY <2>1 DEF OpensNothing, Open
<1>3. ASSUME NEW i \in Incident, SetResolved(i) PROVE OpensNothing
  BY <1>3, <1>a DEF SetResolved, OpensNothing, Open, IncidentRow
<1>4. ASSUME NEW i \in Incident, Dismiss(i) PROVE OpensNothing
  BY <1>4, <1>a DEF Dismiss, Dismissed, OpensNothing, Open, IncidentRow
<1> QED
  BY <1>1, <1>2, <1>3, <1>4 DEF IncidentNext, RunIncidents, Appears, Heals, PlanIncidents,
     Attach, Tell, EndCycle, DieInCycle, incidentVars

(* openIncident, seen from the services. *)
LEMMA OpenedForItsService ==
  ASSUME IncidentTypeOK, NEW s \in Service, NEW i \in Incident, OpenIncident(s, i)
  PROVE  /\ incident'[i].service = s
         /\ \A j \in Incident \ {i} : incident'[j] = incident[j]
         /\ planned[s] # {} /\ planned' = [planned EXCEPT ![s] = {}]
  BY DEF OpenIncident, IncidentTypeOK, IncidentRow, NoRow

LEMMA NextPlanned ==
  ASSUME IncidentInv, [IncidentNext]_incidentVars
  PROVE  PlannedIsFree'
<1>a. IncidentTypeOK /\ planned \in [Service -> SUBSET Problem]
  BY DEF IncidentInv, IncidentTypeOK
<1>b. PlannedIsFree
  BY DEF IncidentInv
<1>1. cycle' = "idle" => \A s \in Service : planned'[s] = {}
  <2>1. ASSUME NEW s \in Service, NEW i \in Incident, OpenIncident(s, i) PROVE cycle' # "idle"
    BY <2>1 DEF OpenIncident
  <2> QED
    BY <1>b, <2>1 DEF PlannedIsFree, IncidentNext, RunIncidents, Appears, Heals, IncidentTick,
       PlanIncidents, Attach, Tell, EndCycle, DieInCycle, SetResolved, Dismiss, incidentVars
<1>2. \A s \in Service : planned'[s] # {} => ~Existing(s)'
  <2>1. CASE PlanIncidents
    <3>1. \A s \in Service : planned'[s] = Candidate(s) /\ incident' = incident
      BY <2>1 DEF PlanIncidents
    <3>2. \A s \in Service : Candidate(s) # {} => ~Existing(s)
      BY DEF Candidate
    <3>3. \A s \in Service : Existing(s)' => Existing(s)
      BY <2>1 DEF PlanIncidents, Existing, Open
    <3> QED
      BY <3>1, <3>2, <3>3
  <2>2. ASSUME NEW s \in Service, NEW i \in Incident, OpenIncident(s, i)
        PROVE  \A t \in Service : planned'[t] # {} => ~Existing(t)'
    <3> SUFFICES ASSUME NEW t \in Service, planned'[t] # {} PROVE ~Existing(t)'
      OBVIOUS
    <3>1. t # s /\ planned[t] # {}
      BY <1>a, <2>2, OpenedForItsService
    <3>2. ~Existing(t)
      BY <1>b, <3>1 DEF PlannedIsFree
    <3> QED
      BY <1>a, <2>2, <3>1, <3>2, OpenedForItsService DEF Existing, Open
  <2>3. CASE OpensNothing /\ ~PlanIncidents
    <3>1. \A s \in Service : planned'[s] # {} => planned[s] # {}
      <4>1. ASSUME NEW s \in Service, NEW i \in Incident, OpenIncident(s, i)
            PROVE  \A t \in Service : planned'[t] # {} => planned[t] # {}
        BY <1>a, <4>1, OpenedForItsService
      <4>2. CASE DieInCycle
        BY <4>2 DEF DieInCycle
      <4>3. planned' = planned \/ DieInCycle
                \/ \E s \in Service, i \in Incident : OpenIncident(s, i)
        BY <2>3 DEF IncidentNext, RunIncidents, Appears, Heals, IncidentTick, Attach, Tell,
           EndCycle, SetResolved, Dismiss, incidentVars
      <4> QED
        BY <4>1, <4>2, <4>3
    <3>2. \A s \in Service : Existing(s)' => Existing(s)
      BY <2>3 DEF OpensNothing, Existing
    <3> QED
      BY <1>b, <3>1, <3>2 DEF PlannedIsFree
  <2> QED
    BY <1>a, <2>1, <2>2, <2>3, OpenedOnlyByOpenIncident
<1> QED
  BY <1>1, <1>2 DEF PlannedIsFree

LEMMA NextOneOpen ==
  ASSUME IncidentInv, [IncidentNext]_incidentVars
  PROVE  OneOpenPerService'
<1>a. IncidentTypeOK /\ PlannedIsFree /\ OneOpenPerService
  BY DEF IncidentInv
<1>1. CASE OpensNothing
  BY <1>a, <1>1 DEF OpensNothing, Open, OneOpenPerService
<1>2. ASSUME NEW s \in Service, NEW i \in Incident, OpenIncident(s, i) PROVE OneOpenPerService'
  <2>1. ~Existing(s)
    BY <1>a, <1>2, OpenedForItsService DEF PlannedIsFree
  <2>2. \A j \in Incident \ {i} : Open(j) => incident[j].service # s
    BY <2>1 DEF Existing
  <2> QED
    BY <1>a, <1>2, <2>2, OpenedForItsService DEF OneOpenPerService, Open
<1> QED
  BY <1>a, <1>1, <1>2, OpenedOnlyByOpenIncident
-----------------------------------------------------------------------------
(* Time ages a dismissal on its row and in the observation alike; only     *)
(* dismissIncident makes one new, and no row it is on is used again.       *)
LEMMA NextRemembered ==
  ASSUME IncidentInv, [IncidentNext]_incidentVars, NEW s \in Service, quiet'[s] < Suppression
  PROVE  Remembered(s)'
<1>a. /\ incident \in [Incident -> IncidentRow] /\ quiet \in [Service -> 0 .. Suppression]
      /\ IncidentTypeOK
      /\ quiet[s] < Suppression => Remembered(s)
  BY DEF IncidentInv, IncidentTypeOK, PlannedIsQuiet
<1>b. Suppression \in Nat
  BY IncidentAssumption
<1>1. CASE UNCHANGED <<incident, quiet>>
  BY <1>a, <1>1 DEF Remembered
<1>2. CASE IncidentTick
  <2>1. /\ quiet'[s] = IF quiet[s] < Suppression THEN quiet[s] + 1 ELSE quiet[s]
        /\ \A i \in Incident :
             /\ incident'[i].there = incident[i].there
             /\ incident'[i].service = incident[i].service
             /\ incident'[i].dismissedAt = incident[i].dismissedAt
             /\ incident'[i].since = IF incident[i].since < Suppression
                                     THEN incident[i].since + 1 ELSE incident[i].since
    BY <1>2, <1>a DEF IncidentTick, IncidentRow
  <2>2. quiet[s] \in 0 .. Suppression /\ quiet[s] < Suppression
    BY <1>a, <1>b, <2>1
  <2> QED
    BY <1>a, <2>1, <2>2 DEF Remembered
<1>3. ASSUME NEW t \in Service, NEW i \in Incident, OpenIncident(t, i) PROVE Remembered(s)'
  <2>1. quiet' = quiet /\ Free(i)
    BY <1>3 DEF OpenIncident
  <2>2. PICK j \in Incident : /\ incident[j].there /\ incident[j].service = s
                             /\ incident[j].dismissedAt /\ incident[j].since = quiet[s]
    BY <1>a, <2>1 DEF Remembered
  <2>3. j # i
    BY <1>a, <1>b, <2>1, <2>2 DEF Free
  <2> QED
    BY <1>a, <1>3, <2>1, <2>2, <2>3, OpenedForItsService DEF Remembered
<1>4. ASSUME NEW i \in Incident, SetResolved(i) PROVE Remembered(s)'
  <2>1. /\ quiet' = quiet
        /\ \A j \in Incident : /\ incident'[j].there = incident[j].there
                              /\ incident'[j].service = incident[j].service
                              /\ incident'[j].dismissedAt = incident[j].dismissedAt
                              /\ incident'[j].since = incident[j].since
    BY <1>4, <1>a DEF SetResolved, IncidentRow
  <2> QED
    BY <1>a, <2>1 DEF Remembered
<1>5. ASSUME NEW i \in Incident, Dismiss(i) PROVE Remembered(s)'
  <2>1. /\ quiet' = [quiet EXCEPT ![incident[i].service] = 0]
        /\ incident[i].there /\ incident' = Dismissed(i)
    BY <1>5 DEF Dismiss
  <2>2. /\ \A j \in Incident \ {i} : incident'[j] = incident[j]
        /\ incident'[i].there /\ incident'[i].service = incident[i].service
        /\ incident'[i].dismissedAt /\ incident'[i].since = 0
    BY <1>a, <2>1 DEF Dismissed, IncidentRow
  <2>3. CASE s = incident[i].service
    BY <1>a, <2>1, <2>2, <2>3 DEF Remembered
  <2>4. CASE s # incident[i].service
    BY <1>a, <2>1, <2>2, <2>4 DEF Remembered
  <2> QED
    BY <2>3, <2>4
<1> QED
  BY <1>1, <1>2, <1>3, <1>4, <1>5 DEF IncidentNext, RunIncidents, Appears, Heals,
     PlanIncidents, Attach, Tell, EndCycle, DieInCycle, incidentVars

(* A service whose incident is planned was quiet when the cycle made up    *)
(* its mind.                                                               *)
LEMMA NextQuiet ==
  ASSUME IncidentInv, [IncidentNext]_incidentVars
  PROVE  PlannedIsQuiet'
<1>a. /\ incident \in [Incident -> IncidentRow] /\ quiet \in [Service -> 0 .. Suppression]
      /\ IncidentTypeOK /\ PlannedIsFree /\ PlannedIsQuiet /\ PlannedIsFree'
      /\ Suppression \in Nat
  BY NextPlanned, IncidentAssumption DEF IncidentInv, IncidentTypeOK
<1> SUFFICES ASSUME NEW s \in Service, planned'[s] # {}
             PROVE  quiet'[s] = Suppression \/ s \in overruled'
  BY NextRemembered DEF PlannedIsQuiet
<1>b. cycle' # "idle"
  BY <1>a DEF PlannedIsFree
<1>1. CASE PlanIncidents
  <2>1. planned'[s] = Candidate(s) /\ quiet' = quiet
    BY <1>1 DEF PlanIncidents
  <2>2. ~Suppressed(s)
    BY <2>1 DEF Candidate
  <2>3. ~(quiet[s] < Suppression)
    BY <1>a, <2>2 DEF PlannedIsQuiet, Remembered, Suppressed
  <2> QED
    BY <1>a, <2>1, <2>3
<1>2. ASSUME NEW t \in Service, NEW i \in Incident, OpenIncident(t, i)
      PROVE  quiet'[s] = Suppression \/ s \in overruled'
  <2>1. UNCHANGED <<quiet, overruled>>
    BY <1>2 DEF OpenIncident
  <2>2. planned[s] # {}
    <3>1. planned \in [Service -> SUBSET Problem]
      BY <1>a DEF IncidentTypeOK
    <3> QED
      BY <1>a, <1>2, <3>1, OpenedForItsService
  <2> QED
    BY <1>a, <2>1, <2>2 DEF PlannedIsQuiet
<1>3. CASE UNCHANGED <<planned, quiet, overruled>>
  BY <1>a, <1>3 DEF PlannedIsQuiet
<1>4. ASSUME NEW i \in Incident, Dismiss(i)
      PROVE  quiet'[s] = Suppression \/ s \in overruled'
  <2>1. /\ quiet' = [quiet EXCEPT ![incident[i].service] = 0]
        /\ overruled' = overruled \cup {incident[i].service}
        /\ planned' = planned
    BY <1>4, <1>b DEF Dismiss
  <2> QED
    BY <1>a, <2>1 DEF PlannedIsQuiet
<1>5. CASE IncidentTick \/ EndCycle \/ DieInCycle
  BY <1>5, <1>b DEF IncidentTick, EndCycle, DieInCycle
<1> QED
  BY <1>1, <1>2, <1>3, <1>4, <1>5 DEF IncidentNext, RunIncidents, Appears, Heals,
     Attach, Tell, SetResolved, incidentVars
-----------------------------------------------------------------------------
LEMMA IncidentInductive == IncidentSpec => []IncidentInv
<1>1. IncidentInit => IncidentInv
  <2> SUFFICES ASSUME IncidentInit PROVE IncidentInv
    OBVIOUS
  <2>1. IncidentTypeOK
    BY IncidentStarts
  <2>2. \A i \in Incident : ~incident[i].there
    BY DEF IncidentInit, NoRow
  <2> QED
    BY <2>1, <2>2, IncidentAssumption DEF IncidentInit, IncidentInv, PlannedIsFree,
       PlannedIsQuiet, OneOpenPerService
<1>2. IncidentInv /\ [IncidentNext]_incidentVars => IncidentInv'
  <2> SUFFICES ASSUME IncidentInv, [IncidentNext]_incidentVars PROVE IncidentInv'
    OBVIOUS
  <2> QED
    BY IncidentShape, NextPlanned, NextOneOpen, NextQuiet DEF IncidentInv
<1> QED
  BY <1>1, <1>2, PTL DEF IncidentSpec

(* The incidents table and what the cycle remembers are well formed. *)
THEOREM IncidentsTyped == IncidentSpec => []IncidentTypeOK
<1>1. IncidentInv => IncidentTypeOK
  BY DEF IncidentInv
<1> QED
  BY <1>1, IncidentInductive, PTL

(* A service has at most one open incident, whatever dies between two      *)
(* writes of runIncidentCycle and whatever the operator does meanwhile.    *)
THEOREM OneOpenIncident == IncidentSpec => []OneOpenPerService
<1>1. IncidentInv => OneOpenPerService
  BY DEF IncidentInv
<1> QED
  BY <1>1, IncidentInductive, PTL

(* Until two hours after the latest dismissal of a service no incident of  *)
(* it is opened, but by a cycle that had planned it when the dismissal     *)
(* came.                                                                   *)
THEOREM DismissalIsHeld == IncidentSpec => DismissalHolds
<1> DEFINE A == \A i \in Incident :
                  at = NoIncident /\ at' = i =>
                    \/ quiet[incident'[i].service] = Suppression
                    \/ incident'[i].service \in overruled
<1>1. IncidentInv /\ [IncidentNext]_incidentVars => [A]_incidentVars
  <2> SUFFICES ASSUME IncidentInv, IncidentNext, NEW i \in Incident,
                      at = NoIncident, at' = i
               PROVE  \/ quiet[incident'[i].service] = Suppression
                      \/ incident'[i].service \in overruled
    OBVIOUS
  <2>1. i # NoIncident
    BY IncidentAssumption
  <2>2. PICK s \in Service : OpenIncident(s, i)
    <3>1. ASSUME NEW s \in Service, NEW j \in Incident, OpenIncident(s, j) PROVE j = i
      BY <3>1 DEF OpenIncident
    <3> QED
      BY <2>1, <3>1 DEF IncidentNext, RunIncidents, Appears, Heals, IncidentTick,
         PlanIncidents, Attach, Tell, EndCycle, DieInCycle, SetResolved, Dismiss
  <2>3. incident'[i].service = s /\ planned[s] # {}
    BY <2>2, OpenedForItsService DEF IncidentInv
  <2> QED
    BY <2>3 DEF IncidentInv, PlannedIsQuiet
<1> QED
  BY <1>1, IncidentInductive, PTL DEF IncidentSpec, DismissalHolds

(* No row remembers a dismissal later than the latest of its service. *)
LatestIsLatest ==
  \A i \in Incident :
    incident[i].there /\ incident[i].dismissedAt => quiet[incident[i].service] <= incident[i].since

Close(p, q) ==
  /\ p # q /\ ServiceOf[p] = ServiceOf[q]
  /\ \A r \in {p, q} : trouble[r].live /\ trouble[r].age <= IncidentWindow

Covered(s) == Existing(s) \/ Silenced(s) \/ s \in closed

(* What a cycle that is writing has still to cover, it has planned. *)
NoneSlips ==
  cycle = "opening" =>
    \A p, q \in Problem : Close(p, q) => planned[ServiceOf[p]] # {} \/ Covered(ServiceOf[p])

CoverInv == IncidentInv /\ LatestIsLatest /\ NoneSlips

LEMMA NextLatest ==
  ASSUME CoverInv, [IncidentNext]_incidentVars
  PROVE  LatestIsLatest'
<1>a. /\ incident \in [Incident -> IncidentRow] /\ quiet \in [Service -> 0 .. Suppression]
      /\ IncidentTypeOK /\ LatestIsLatest
  BY DEF CoverInv, IncidentInv, IncidentTypeOK
<1>1. CASE UNCHANGED <<incident, quiet>>
  BY <1>a, <1>1 DEF LatestIsLatest
<1>2. CASE IncidentTick
  <2> SUFFICES ASSUME NEW i \in Incident, incident'[i].there, incident'[i].dismissedAt
               PROVE  quiet'[incident'[i].service] <= incident'[i].since
    BY DEF LatestIsLatest
  <2>1. /\ incident[i].there /\ incident[i].dismissedAt
        /\ incident'[i].service = incident[i].service
        /\ incident'[i].since = IF incident[i].since < Suppression
                                THEN incident[i].since + 1 ELSE incident[i].since
    BY <1>2, <1>a DEF IncidentTick, IncidentRow
  <2>2. /\ incident[i].service \in Service /\ incident[i].since \in 0 .. Suppression
        /\ quiet[incident[i].service] \in 0 .. Suppression
    BY <1>a DEF IncidentRow
  <2>3. quiet'[incident[i].service] = IF quiet[incident[i].service] < Suppression
          THEN quiet[incident[i].service] + 1 ELSE quiet[incident[i].service]
    BY <1>2, <2>2 DEF IncidentTick
  <2> QED
    BY <1>a, <2>1, <2>2, <2>3, IncidentAssumption DEF LatestIsLatest
<1>3. ASSUME NEW t \in Service, NEW i \in Incident, OpenIncident(t, i) PROVE LatestIsLatest'
  <2>1. quiet' = quiet /\ ~incident'[i].dismissedAt
    BY <1>3, <1>a DEF OpenIncident, NoRow, IncidentRow
  <2> QED
    BY <1>a, <1>3, <2>1, OpenedForItsService DEF LatestIsLatest
<1>4. ASSUME NEW i \in Incident, SetResolved(i) PROVE LatestIsLatest'
  <2>1. /\ quiet' = quiet
        /\ \A j \in Incident : /\ incident'[j].there = incident[j].there
                              /\ incident'[j].service = incident[j].service
                              /\ incident'[j].dismissedAt = incident[j].dismissedAt
                              /\ incident'[j].since = incident[j].since
    BY <1>4, <1>a DEF SetResolved, IncidentRow
  <2> QED
    BY <1>a, <2>1 DEF LatestIsLatest
<1>5. ASSUME NEW i \in Incident, Dismiss(i) PROVE LatestIsLatest'
  <2>1. /\ quiet' = [quiet EXCEPT ![incident[i].service] = 0]
        /\ \A j \in Incident \ {i} : incident'[j] = incident[j]
        /\ incident'[i].service = incident[i].service /\ incident'[i].since = 0
    BY <1>a, <1>5 DEF Dismiss, Dismissed, IncidentRow
  <2>2. \A j \in Incident : incident[j].service \in Service /\ incident[j].since \in Nat
    BY <1>a DEF IncidentRow
  <2>3. \A s \in Service : quiet'[s] = IF s = incident[i].service THEN 0 ELSE quiet[s]
    BY <1>a, <2>1
  <2> QED
    BY <1>a, <2>1, <2>2, <2>3 DEF LatestIsLatest
<1> QED
  BY <1>1, <1>2, <1>3, <1>4, <1>5 DEF IncidentNext, RunIncidents, Appears, Heals,
     PlanIncidents, Attach, Tell, EndCycle, DieInCycle, incidentVars

(* A cycle plans for two problems that are together, or finds their        *)
(* service covered.                                                        *)
LEMMA PlansTogether ==
  ASSUME CoverInv, NEW p \in Problem, NEW q \in Problem, Close(p, q)
  PROVE  Candidate(ServiceOf[p]) # {} \/ Existing(ServiceOf[p]) \/ Silenced(ServiceOf[p])
<1> DEFINE s == ServiceOf[p]
           T == Together(s)
<1>1. s \in Service
  BY IncidentAssumption
<1>2. ASSUME Suppressed(s) PROVE Silenced(s)
  <2>1. PICK i \in Incident : /\ incident[i].there /\ incident[i].service = s
                              /\ incident[i].dismissedAt /\ incident[i].since < Suppression
    BY <1>2 DEF Suppressed
  <2>2. quiet[s] <= incident[i].since
    BY <2>1 DEF CoverInv, LatestIsLatest
  <2>3. quiet[s] \in Nat /\ incident[i].since \in Nat /\ Suppression \in Nat
    BY <1>1, IncidentAssumption DEF CoverInv, IncidentInv, IncidentTypeOK, IncidentRow
  <2> QED
    BY <2>1, <2>2, <2>3 DEF Silenced
<1>3. p \in T /\ q \in T /\ p # q
  BY DEF Close, Together
<1>4. IsFiniteSet(T)
  <2>1. T \subseteq Problem
    BY DEF Together
  <2> QED
    BY <2>1, IncidentAssumption, FS_Subset
<1>5. Cardinality(T) >= 2
  <2>1. IsFiniteSet(T \ {p}) /\ Cardinality(T \ {p}) = Cardinality(T) - 1
    BY <1>3, <1>4, FS_RemoveElement
  <2>2. Cardinality(T \ {p}) # 0
    BY <1>3, <2>1, FS_EmptySet
  <2>3. Cardinality(T) \in Nat /\ Cardinality(T \ {p}) \in Nat
    BY <1>4, <2>1, FS_CardinalityType
  <2> HIDE DEF T
  <2> QED
    BY <2>1, <2>2, <2>3
<1>6. ~Existing(s) /\ ~Suppressed(s) => Candidate(s) = T
  BY <1>5 DEF Candidate
<1> QED
  BY <1>2, <1>3, <1>6

(* What covers a service while a cycle writes goes on to cover it. *)
LEMMA CoverLasts ==
  ASSUME CoverInv, [IncidentNext]_incidentVars, cycle = "opening", cycle' = "opening",
         NEW s \in Service, Covered(s)
  PROVE  Covered(s)'
<1>a. /\ incident \in [Incident -> IncidentRow] /\ quiet \in [Service -> 0 .. Suppression]
      /\ IncidentTypeOK
  BY DEF CoverInv, IncidentInv, IncidentTypeOK
<1>1. CASE UNCHANGED <<incident, quiet, closed>>
  BY <1>1 DEF Covered, Existing, Open, Silenced
<1>2. ASSUME NEW t \in Service, NEW i \in Incident, OpenIncident(t, i) PROVE Covered(s)'
  <2>1. UNCHANGED <<quiet, closed>> /\ ~Open(i)
    BY <1>2 DEF OpenIncident, Free, Open
  <2>2. ASSUME Existing(s) PROVE Existing(s)'
    <3>1. PICK j \in Incident : Open(j) /\ incident[j].service = s
      BY <2>2 DEF Existing
    <3> QED
      BY <1>a, <1>2, <2>1, <3>1, OpenedForItsService DEF Existing, Open
  <2> QED
    BY <2>1, <2>2, ZenonT(60) DEF Covered, Silenced
<1>3. ASSUME NEW i \in Incident, SetResolved(i) PROVE Covered(s)'
  <2>1. /\ quiet' = quiet /\ closed' = closed \cup {incident[i].service}
        /\ \A j \in Incident \ {i} : incident'[j] = incident[j]
    BY <1>3, <1>a DEF SetResolved
  <2>2. ASSUME Existing(s) PROVE Covered(s)'
    <3>1. PICK j \in Incident : Open(j) /\ incident[j].service = s
      BY <2>2 DEF Existing
    <3> QED
      BY <2>1, <3>1 DEF Covered, Existing, Open
  <2> QED
    BY <2>1, <2>2 DEF Covered, Silenced
<1>4. ASSUME NEW i \in Incident, Dismiss(i) PROVE Covered(s)'
  <2>1. /\ quiet' = [quiet EXCEPT ![incident[i].service] = 0] /\ closed' = closed
        /\ \A j \in Incident \ {i} : incident'[j] = incident[j]
    BY <1>4, <1>a DEF Dismiss, Dismissed
  <2>2. s = incident[i].service => Silenced(s)'
    BY <1>a, <2>1, IncidentAssumption DEF Silenced
  <2>3. s # incident[i].service => quiet'[s] = quiet[s]
    BY <1>a, <2>1
  <2>4. ASSUME Existing(s), s # incident[i].service PROVE Existing(s)'
    <3>1. PICK j \in Incident : Open(j) /\ incident[j].service = s
      BY <2>4 DEF Existing
    <3> QED
      BY <2>1, <2>4, <3>1 DEF Existing, Open
  <2> QED
    BY <2>1, <2>2, <2>3, <2>4 DEF Covered, Silenced
<1> QED
  BY <1>1, <1>2, <1>3, <1>4 DEF IncidentNext, RunIncidents, Appears, Heals, IncidentTick,
     PlanIncidents, Attach, Tell, EndCycle, DieInCycle, incidentVars

LEMMA NextSlips ==
  ASSUME CoverInv, [IncidentNext]_incidentVars
  PROVE  NoneSlips'
<1> SUFFICES ASSUME cycle' = "opening", NEW p \in Problem, NEW q \in Problem, Close(p, q)'
             PROVE  planned'[ServiceOf[p]] # {} \/ Covered(ServiceOf[p])'
  BY DEF NoneSlips
<1> DEFINE s == ServiceOf[p]
<1>a. /\ s \in Service /\ IncidentTypeOK
      /\ planned \in [Service -> SUBSET Problem]
  BY IncidentAssumption DEF CoverInv, IncidentInv, IncidentTypeOK
<1>1. CASE cycle # "opening"
  <2>1. PlanIncidents
    BY <1>1 DEF IncidentNext, RunIncidents, Appears, Heals, IncidentTick, OpenIncident, Attach,
       Tell, EndCycle, DieInCycle, SetResolved, Dismiss, incidentVars, CoverInv, IncidentInv,
       IncidentTypeOK
  <2>2. Close(p, q) /\ planned'[s] = Candidate(s)
    BY <1>a, <2>1 DEF PlanIncidents, Close
  <2>3. UNCHANGED <<incident, quiet>>
    BY <2>1 DEF PlanIncidents
  <2> QED
    BY <2>2, <2>3, PlansTogether DEF Covered, Existing, Open, Silenced
<1>2. CASE cycle = "opening"
  <2>1. trouble' = trouble
    BY <1>2 DEF IncidentNext, RunIncidents, Appears, Heals, IncidentTick, PlanIncidents,
       OpenIncident, Attach, Tell, EndCycle, DieInCycle, SetResolved, Dismiss, incidentVars
  <2>2. planned[s] # {} \/ Covered(s)
    BY <1>2, <2>1 DEF CoverInv, NoneSlips, Close
  <2>3. CASE Covered(s)
    BY <1>a, <1>2, <2>3, CoverLasts
  <2>4. ASSUME NEW t \in Service, NEW i \in Incident, OpenIncident(t, i), planned[s] # {}
        PROVE  planned'[s] # {} \/ Covered(s)'
    <3>1. CASE t # s
      BY <1>a, <2>4, <3>1, OpenedForItsService
    <3>2. CASE t = s
      <4>1. Open(i)' /\ incident'[i].service = s
        BY <1>a, <2>4, <3>2 DEF OpenIncident, Open, NoRow, IncidentTypeOK, IncidentRow
      <4> QED
        BY <4>1 DEF Covered, Existing
    <3> QED
      BY <3>1, <3>2
  <2>5. ASSUME UNCHANGED planned, planned[s] # {} PROVE planned'[s] # {}
    BY <2>5
  <2>6. \/ UNCHANGED planned
        \/ \E t \in Service, i \in Incident : OpenIncident(t, i)
    BY <1>2 DEF IncidentNext, RunIncidents, Appears, Heals, IncidentTick, PlanIncidents,
       Attach, Tell, EndCycle, DieInCycle, SetResolved, Dismiss, incidentVars
  <2> QED
    BY <2>2, <2>3, <2>4, <2>5, <2>6
<1> QED
  BY <1>1, <1>2

(* A cycle that comes to its end has left no service with two critical     *)
(* problems together uncovered, whatever the operator did while it wrote.  *)
THEOREM CyclesCover == IncidentSpec => TogetherIsCovered
<1> DEFINE A == EndCycle => \A p, q \in Problem :
                  /\ p # q /\ ServiceOf[p] = ServiceOf[q]
                  /\ \A r \in {p, q} : trouble[r].live /\ trouble[r].age <= IncidentWindow
                  => \/ \E i \in Incident : Open(i) /\ incident[i].service = ServiceOf[p]
                     \/ Silenced(ServiceOf[p]) \/ ServiceOf[p] \in closed
<1>1. IncidentInit => LatestIsLatest /\ NoneSlips
  BY DEF IncidentInit, LatestIsLatest, NoneSlips, NoRow
<1>2. CoverInv /\ [IncidentNext]_incidentVars => LatestIsLatest' /\ NoneSlips'
  BY NextLatest, NextSlips
<1>3. CoverInv => A
  BY IncidentAssumption DEF CoverInv, NoneSlips, EndCycle, Close, Covered, Existing
<1>4. CoverInv /\ [IncidentNext]_incidentVars => [A]_incidentVars
  BY <1>3
<1>5. IncidentInv /\ LatestIsLatest /\ NoneSlips <=> CoverInv
  BY DEF CoverInv
<1> QED
  BY <1>1, <1>2, <1>4, <1>5, IncidentInductive, PTL DEF IncidentSpec, TogetherIsCovered
-----------------------------------------------------------------------------
(* The log budget and the errors job (LogScan).                            *)

(* A query is under way in a job only, and was asked while the day's spend *)
(* was below the cap; what it scans is known while it is.                  *)
AskedWithinCap ==
  /\ asking # NoSource => scanJob # "idle" /\ SumOver(usage) < Cap
  /\ asking = NoSource => scans = 0
  /\ scanJob = "idle" => ~newDay

ScanInv == ScanTypeOK /\ IsFiniteSet(Units(usage)) /\ AskedWithinCap /\ BudgetIsTrue
-----------------------------------------------------------------------------
LEMMA UnitsOf ==
  ASSUME NEW f, NEW x
  PROVE  x \in Units(f) <=> \E a \in ScanAccount : \E i \in 1 .. f[a] : x = <<a, i>>
  BY DEF Units

LEMMA NothingEntered ==
  IsFiniteSet(Units([a \in ScanAccount |-> 0])) /\ SumOver([a \in ScanAccount |-> 0]) = 0
<1>1. Units([a \in ScanAccount |-> 0]) = {}
  BY UnitsOf
<1> QED
  BY <1>1, FS_EmptySet DEF SumOver

LEMMA IntervalOf ==
  ASSUME NEW n \in Nat, NEW m \in Nat
  PROVE  IsFiniteSet(n + 1 .. n + m) /\ Cardinality(n + 1 .. n + m) = m
<1>1. n + 1 \in Int /\ n + m \in Int
  OBVIOUS
<1>2. IsFiniteSet(n + 1 .. n + m)
      /\ Cardinality(n + 1 .. n + m) = IF n + 1 > n + m THEN 0 ELSE n + m - (n + 1) + 1
  BY ONLY <1>1, FS_Interval, SMT
<1> QED
  BY <1>2

(* What is recorded of one account is added to the total of all.           *)
LEMMA TotalRecorded ==
  ASSUME usage \in [ScanAccount -> Nat], IsFiniteSet(Units(usage)),
         NEW a \in ScanAccount, NEW n \in Nat
  PROVE  /\ IsFiniteSet(Units(Recorded(a, n)))
         /\ SumOver(Recorded(a, n)) = SumOver(usage) + n
<1> DEFINE more == usage[a] + 1 .. usage[a] + n
           new == {a} \X more
<1>1. usage[a] \in Nat
  OBVIOUS
<1>2. /\ Recorded(a, n) \in [ScanAccount -> Nat] /\ Recorded(a, n)[a] = usage[a] + n
      /\ \A b \in ScanAccount \ {a} : Recorded(a, n)[b] = usage[b]
  BY <1>1 DEF Recorded
<1>3. 1 .. Recorded(a, n)[a] = (1 .. usage[a]) \cup more
  BY <1>1, <1>2
<1>4. Units(Recorded(a, n)) = Units(usage) \cup new
  <2>1. ASSUME NEW x PROVE x \in Units(Recorded(a, n)) <=> x \in Units(usage) \cup new
    <3>1. x \in Units(Recorded(a, n))
            <=> \E b \in ScanAccount : \E i \in 1 .. Recorded(a, n)[b] : x = <<b, i>>
      BY UnitsOf
    <3>2. x \in Units(usage) <=> \E b \in ScanAccount : \E i \in 1 .. usage[b] : x = <<b, i>>
      BY UnitsOf
    <3>3. x \in new <=> \E i \in more : x = <<a, i>>
      OBVIOUS
    <3> HIDE DEF new, more
    <3>4. ASSUME NEW b \in ScanAccount, NEW i \in 1 .. Recorded(a, n)[b], x = <<b, i>>
          PROVE  (\E j \in 1 .. usage[b] : x = <<b, j>>) \/ (\E j \in more : x = <<a, j>>)
      BY <1>2, <1>3, <3>4
    <3>5. ASSUME NEW b \in ScanAccount, NEW i \in 1 .. usage[b], x = <<b, i>>
          PROVE  i \in 1 .. Recorded(a, n)[b]
      BY <1>2, <1>3
    <3>6. x \in Units(Recorded(a, n)) => x \in Units(usage) \cup new
      BY <3>1, <3>2, <3>3, <3>4
    <3>7. x \in Units(usage) => x \in Units(Recorded(a, n))
      BY <3>1, <3>2, <3>5
    <3>8. x \in new => x \in Units(Recorded(a, n))
      BY <1>3, <3>1, <3>3
    <3> QED
      BY <3>6, <3>7, <3>8
  <2> QED
    BY <2>1
<1>5. Units(usage) \cap new = {}
  <2> SUFFICES ASSUME NEW i \in more, <<a, i>> \in Units(usage) PROVE FALSE
    OBVIOUS
  <2>1. PICK b \in ScanAccount : \E j \in 1 .. usage[b] : <<a, i>> = <<b, j>>
    BY UnitsOf
  <2>2. i \in 1 .. usage[a]
    BY <2>1
  <2> QED
    BY <1>1, <2>2
<1>6. IsFiniteSet(new) /\ Cardinality(new) = n
  <2>1. IsFiniteSet(more) /\ Cardinality(more) = n
    BY <1>1, IntervalOf
  <2>2. IsFiniteSet({a}) /\ Cardinality({a}) = 1
    BY FS_Singleton
  <2> HIDE DEF more
  <2>3. IsFiniteSet({a} \X more) /\ Cardinality({a} \X more) = Cardinality({a}) * Cardinality(more)
    BY <2>1, <2>2, FS_Product
  <2> QED
    BY <2>1, <2>2, <2>3
<1> HIDE DEF new
<1>7. /\ IsFiniteSet(Units(usage) \cup new)
      /\ Cardinality(Units(usage) \cup new)
           = Cardinality(Units(usage)) + Cardinality(new) - Cardinality(Units(usage) \cap new)
  BY <1>6, FS_Union
<1>8. Cardinality(Units(usage)) \in Nat /\ Cardinality({}) = 0
  BY FS_CardinalityType, FS_EmptySet
<1>9. Cardinality(Units(usage) \cup new) = Cardinality(Units(usage)) + n - 0
  BY <1>5, <1>6, <1>7, <1>8
<1>10. Cardinality(Units(usage) \cup new) = Cardinality(Units(usage)) + n
  BY <1>8, <1>9
<1> QED
  BY <1>4, <1>7, <1>10 DEF SumOver

LEMMA TotalIsNatural == IsFiniteSet(Units(usage)) => SumOver(usage) \in Nat
  BY FS_CardinalityType DEF SumOver

LEMMA LostTyped ==
  /\ MaxLost \in Nat /\ ScanMax \in Nat /\ Cap \in Nat /\ PollAttempts \in Nat \ {0}
  /\ NoSource \notin Source /\ SourceOf \in [Source -> ScanAccount]
  BY ScanAssumption

LEMMA InitScan == ScanInit => ScanInv
<1> SUFFICES ASSUME ScanInit PROVE ScanInv
  OBVIOUS
<1>1. ScanTypeOK
  <2>1. 0 \in 0 .. PollAttempts - 1 /\ 0 \in 0 .. ScanMax /\ 0 \in 0 .. MaxLost
        /\ [a \in ScanAccount |-> 0] \in [ScanAccount -> Nat]
    BY LostTyped
  <2> QED
    BY <2>1 DEF ScanInit, ScanTypeOK
<1>2. IsFiniteSet(Units(usage)) /\ SumOver(usage) = 0
  BY NothingEntered DEF ScanInit
<1>3. AskedWithinCap
  BY DEF ScanInit, AskedWithinCap
<1>4. BudgetIsTrue
  BY <1>2, LostTyped DEF ScanInit, BudgetIsTrue, CapHolds, BilledIsKnown
<1> QED
  BY <1>1, <1>2, <1>3, <1>4 DEF ScanInv

(* A step that leaves the day's rows and what they were billed alone.      *)
LEMMA SpendLess ==
  ASSUME ScanInv, ScanTypeOK', UNCHANGED <<usage, billed, lost, scans>>,
         asking' = asking, scanJob' # "idle" \/ asking = NoSource,
         scanJob' = "idle" => ~newDay'
  PROVE  ScanInv'
<1>1. SumOver(usage)' = SumOver(usage) /\ IsFiniteSet(Units(usage))'
  BY DEF ScanInv
<1> QED
  BY <1>1 DEF ScanInv, AskedWithinCap, BudgetIsTrue, CapHolds, BilledIsKnown

(* A day that begins has nothing entered and nothing billed.               *)
LEMMA DayBegins ==
  ASSUME ScanTypeOK', usage' = [a \in ScanAccount |-> 0], billed' = 0, lost' = 0,
         asking' = NoSource, scans' = 0, ~newDay'
  PROVE  ScanInv'
<1>1. IsFiniteSet(Units(usage)') /\ SumOver(usage)' = 0
  BY NothingEntered
<1>2. AskedWithinCap'
  BY DEF AskedWithinCap
<1>3. BudgetIsTrue'
  BY <1>1, LostTyped DEF BudgetIsTrue, CapHolds, BilledIsKnown
<1> QED
  BY <1>1, <1>2, <1>3 DEF ScanInv

LEMMA ScanTyped == ScanInv /\ [ScanNext]_scanVars => ScanTypeOK'
<1> SUFFICES ASSUME ScanInv, [ScanNext]_scanVars PROVE ScanTypeOK'
  OBVIOUS
<1>a. 0 \in 0 .. PollAttempts - 1 /\ 0 \in 0 .. ScanMax /\ 0 \in 0 .. MaxLost
      /\ [a \in ScanAccount |-> 0] \in [ScanAccount -> Nat]
  BY LostTyped
<1>t. ScanTypeOK /\ AskedWithinCap
  BY DEF ScanInv
<1>1. enabled' \in SUBSET Source /\ pushed' \in SUBSET Source
  BY <1>t DEF ScanTypeOK, ScanNext, Scan, SwitchSource, DayTurns, StartScan, SkipSource, StopScan,
     SourceFails, AskSource, ScanReported, StillRunning, ScanLost, EndScan, scanVars
<1>2. usage' \in [ScanAccount -> Nat]
  <2>1. CASE ScanReported
    <3>1. scanJob \in ScanAccount /\ scans \in Nat
      BY <1>t, <2>1, LostTyped DEF ScanReported, ScanTypeOK, AskedWithinCap
    <3> QED
      BY <1>t, <2>1, <3>1 DEF ScanReported, ScanTypeOK, Recorded
  <2>2. CASE ~ScanReported
    BY <1>a, <1>t, <2>2 DEF ScanTypeOK, ScanNext, Scan, SwitchSource, DayTurns, StartScan, SkipSource,
       StopScan, SourceFails, AskSource, StillRunning, ScanLost, EndScan, Over, scanVars
  <2> QED
    BY <2>1, <2>2
<1>3. halted' \in SUBSET ScanAccount
  <2>1. CASE StopScan
    BY <1>t, <2>1 DEF ScanTypeOK, StopScan
  <2>2. CASE ~StopScan
    BY <1>t, <2>2 DEF ScanTypeOK, ScanNext, Scan, SwitchSource, DayTurns, StartScan, SkipSource,
       SourceFails, AskSource, ScanReported, StillRunning, ScanLost, EndScan, scanVars
  <2> QED
    BY <2>1, <2>2
<1>4. scanJob' \in ScanAccount \cup {"idle"} /\ newDay' \in BOOLEAN
  BY <1>t DEF ScanTypeOK, ScanNext, Scan, SwitchSource, DayTurns, StartScan, SkipSource, StopScan,
     SourceFails, AskSource, ScanReported, StillRunning, ScanLost, EndScan, Over, scanVars
<1>5. pending' \in SUBSET Source /\ asking' \in Source \cup {NoSource}
  BY <1>t DEF ScanTypeOK, ScanNext, Scan, SwitchSource, DayTurns, StartScan, SkipSource, StopScan,
     SourceFails, AskSource, ScanReported, StillRunning, ScanLost, EndScan, Over, scanVars
<1>6. polls' \in 0 .. PollAttempts - 1
  BY <1>a, <1>t, LostTyped
  DEF ScanTypeOK, ScanNext, Scan, SwitchSource, DayTurns, StartScan, SkipSource, StopScan,
      SourceFails, AskSource, ScanReported, StillRunning, ScanLost, EndScan, scanVars
<1>7. scans' \in 0 .. ScanMax
  BY <1>a, <1>t, LostTyped
  DEF ScanTypeOK, ScanNext, Scan, SwitchSource, DayTurns, StartScan, SkipSource, StopScan,
      SourceFails, AskSource, ScanReported, StillRunning, ScanLost, EndScan, scanVars
<1>8. billed' \in Nat
  BY <1>7, <1>a, <1>t, LostTyped
  DEF ScanTypeOK, ScanNext, Scan, SwitchSource, DayTurns, StartScan, SkipSource, StopScan,
      SourceFails, AskSource, ScanReported, StillRunning, ScanLost, EndScan, Over, scanVars
<1>9. lost' \in 0 .. MaxLost
  BY <1>a, <1>t, LostTyped
  DEF ScanTypeOK, ScanNext, Scan, SwitchSource, DayTurns, StartScan, SkipSource, StopScan,
      SourceFails, AskSource, ScanReported, StillRunning, ScanLost, EndScan, Over, scanVars
<1> QED
  BY <1>1, <1>2, <1>3, <1>4, <1>5, <1>6, <1>7, <1>8, <1>9 DEF ScanTypeOK

LEMMA ScanStep == ScanInv /\ [ScanNext]_scanVars => ScanInv'
<1> SUFFICES ASSUME ScanInv, [ScanNext]_scanVars PROVE ScanInv'
  OBVIOUS
<1>t. ScanTypeOK' /\ ScanTypeOK /\ AskedWithinCap
  BY ScanTyped DEF ScanInv
<1>s. SumOver(usage) \in Nat /\ scans \in Nat /\ billed \in Nat /\ lost \in Nat
  BY <1>t, TotalIsNatural DEF ScanInv, ScanTypeOK
<1>1. CASE (\E s \in Source : SwitchSource(s)) \/ UNCHANGED scanVars
  <2>1. UNCHANGED <<usage, billed, lost, scans, asking, scanJob, newDay>>
    BY <1>1 DEF SwitchSource, scanVars
  <2> QED
    BY <1>t, <2>1, SpendLess DEF AskedWithinCap
<1>2. CASE DayTurns
  <2>1. CASE scanJob = "idle"
    <3>1. /\ usage' = [a \in ScanAccount |-> 0] /\ billed' = 0 /\ lost' = 0
          /\ UNCHANGED <<newDay, asking, scans>>
      BY <1>2, <2>1 DEF DayTurns
    <3> QED
      BY <1>t, <2>1, <3>1, DayBegins DEF AskedWithinCap
  <2>2. CASE scanJob # "idle"
    <3>1. UNCHANGED <<usage, billed, lost, scans, asking, scanJob>>
      BY <1>2, <2>2 DEF DayTurns
    <3> QED
      BY <1>t, <2>2, <3>1, SpendLess
  <2> QED
    BY <2>1, <2>2
<1>3. ASSUME NEW a \in ScanAccount, StartScan(a) PROVE ScanInv'
  <2>1. UNCHANGED <<usage, billed, lost, scans, asking, newDay>> /\ scanJob = "idle"
    BY <1>3 DEF StartScan
  <2> QED
    BY <1>t, <2>1, SpendLess DEF AskedWithinCap
<1>4. ASSUME NEW s \in Source, SkipSource(s) \/ SourceFails(s) PROVE ScanInv'
  <2>1. UNCHANGED <<usage, billed, lost, scans, asking, scanJob, newDay>>
    BY <1>4 DEF SkipSource, SourceFails
  <2> QED
    BY <1>t, <2>1, SpendLess DEF AskedWithinCap
<1>5. ASSUME NEW s \in Source, AskSource(s) PROVE ScanInv'
  <2>1. /\ UNCHANGED <<usage, lost, scanJob, newDay>> /\ scanJob # "idle" /\ asking = NoSource
        /\ ~Exhausted(scanJob) /\ asking' # NoSource
        /\ scans' \in 0 .. ScanMax /\ billed' = billed + scans'
    BY <1>5, LostTyped DEF AskSource
  <2>2. SumOver(usage)' = SumOver(usage) /\ IsFiniteSet(Units(usage))'
    BY <2>1 DEF ScanInv
  <2>3. SumOver(usage) < Cap
    BY <2>1, <1>s, LostTyped DEF Exhausted
  <2>4. scans = 0 /\ scans' \in Nat
    BY <1>t, <2>1, LostTyped DEF AskedWithinCap
  <2>5. AskedWithinCap'
    BY <2>1, <2>2, <2>3 DEF AskedWithinCap
  <2>6. CapHolds'
    BY <2>2 DEF ScanInv, BudgetIsTrue, CapHolds
  <2>7. BilledIsKnown'
    <3>1. billed <= SumOver(usage) + 0 + lost * ScanMax
      BY <2>4 DEF ScanInv, BudgetIsTrue, BilledIsKnown
    <3>2. lost * ScanMax \in Int
      BY <1>s, LostTyped
    <3>3. billed' <= SumOver(usage) + scans' + lost * ScanMax
      BY <1>s, <2>1, <2>4, <3>1, <3>2
    <3> QED
      BY <2>1, <2>2, <3>3 DEF BilledIsKnown
  <2> QED
    BY <1>t, <2>2, <2>5, <2>6, <2>7 DEF ScanInv, BudgetIsTrue
<1>6. CASE ScanReported
  <2>1. /\ usage' = Recorded(scanJob, scans) /\ asking' = NoSource /\ scans' = 0
        /\ UNCHANGED <<billed, lost, scanJob, newDay>> /\ asking # NoSource
    BY <1>6 DEF ScanReported
  <2>2. scanJob \in ScanAccount /\ scanJob # "idle" /\ SumOver(usage) < Cap /\ scans <= ScanMax
    BY <1>t, <2>1 DEF AskedWithinCap, ScanTypeOK
  <2>3. IsFiniteSet(Units(usage))' /\ SumOver(usage)' = SumOver(usage) + scans
    BY <1>s, <1>t, <2>1, <2>2, TotalRecorded DEF ScanInv, ScanTypeOK
  <2>4. AskedWithinCap'
    BY <1>t, <2>1, <2>2 DEF AskedWithinCap
  <2>5. CapHolds'
    BY <1>s, <2>2, <2>3, LostTyped DEF CapHolds
  <2>6. BilledIsKnown'
    <3>1. billed <= SumOver(usage) + scans + lost * ScanMax /\ lost * ScanMax \in Int
      BY <1>s, LostTyped DEF ScanInv, BudgetIsTrue, BilledIsKnown
    <3>2. billed <= SumOver(usage) + scans + 0 + lost * ScanMax
      BY <1>s, <3>1
    <3> QED
      BY <2>1, <2>3, <3>2 DEF BilledIsKnown
  <2> QED
    BY <1>t, <2>3, <2>4, <2>5, <2>6 DEF ScanInv, BudgetIsTrue
<1>7. CASE StillRunning
  <2>1. UNCHANGED <<usage, billed, lost, scans, asking, scanJob, newDay>>
    BY <1>7 DEF StillRunning
  <2> QED
    BY <1>t, <2>1, SpendLess DEF AskedWithinCap
<1>8. CASE ScanLost
  <2>1. /\ lost' = lost + 1 /\ asking' = NoSource /\ scans' = 0
        /\ UNCHANGED <<usage, billed, scanJob, newDay>> /\ asking # NoSource
    BY <1>8 DEF ScanLost
  <2>2. SumOver(usage)' = SumOver(usage) /\ IsFiniteSet(Units(usage))' /\ scans <= ScanMax
    BY <1>t, <2>1 DEF ScanInv, ScanTypeOK
  <2>3. AskedWithinCap'
    BY <1>t, <2>1 DEF AskedWithinCap
  <2>4. CapHolds'
    BY <2>2 DEF ScanInv, BudgetIsTrue, CapHolds
  <2>5. BilledIsKnown'
    <3>1. billed <= SumOver(usage) + scans + lost * ScanMax /\ lost * ScanMax \in Int
      BY <1>s, LostTyped DEF ScanInv, BudgetIsTrue, BilledIsKnown
    <3>2. (lost + 1) * ScanMax = lost * ScanMax + ScanMax
      BY <1>s, LostTyped
    <3>3. billed <= SumOver(usage) + 0 + (lost + 1) * ScanMax
      BY <1>s, <2>2, <3>1, <3>2, LostTyped
    <3> QED
      BY <2>1, <2>2, <3>3 DEF BilledIsKnown
  <2> QED
    BY <1>t, <2>2, <2>3, <2>4, <2>5 DEF ScanInv, BudgetIsTrue
<1>9. CASE StopScan \/ EndScan
  <2>1. Over /\ UNCHANGED <<asking, scans>> /\ asking = NoSource
    BY <1>9 DEF StopScan, EndScan
  <2>2. CASE newDay
    BY <1>t, <2>1, <2>2, DayBegins DEF Over, AskedWithinCap
  <2>3. CASE ~newDay
    BY <1>t, <2>1, <2>3, SpendLess DEF Over
  <2> QED
    BY <1>t, <2>2, <2>3 DEF ScanTypeOK
<1> QED
  BY <1>1, <1>2, <1>3, <1>4, <1>5, <1>6, <1>7, <1>8, <1>9 DEF ScanNext, Scan

LEMMA ScanInductive == ScanSpec => []ScanInv
  BY InitScan, ScanStep, PTL DEF ScanSpec

(* For any accounts, sources and sizes of a query, the day's spend passes  *)
(* the cap by one query at most, and accounts for what was billed but for  *)
(* the queries that were given up.                                         *)
THEOREM BudgetIsKept == ScanSpec => []BudgetIsTrue
<1>1. ScanInv => BudgetIsTrue
  BY DEF ScanInv
<1> QED
  BY <1>1, ScanInductive, PTL
-----------------------------------------------------------------------------
(* The weekly summary (WeeklySummary).                                     *)

(* A summary that no mark followed is owed a repetition, and so is a death *)
(* inside the job: while the job is at it, the environments it has come to *)
(* have had theirs.                                                        *)
Unmarked(e) == queuedAt[e] < sentAt

RepeatsAreOwed ==
  /\ summing = "queueing" => sentAt = Week
  /\ \A e \in Summed :
       /\ doubles[e] <= stops
       /\ Unmarked(e) /\ ~(summing = "queueing" /\ e \notin toSum) => doubles[e] < stops

SummaryInv == SummaryTypeOK /\ RepeatsAreOwed

LEMMA ClockTurns == \A n \in 0 .. Week - 1 : (n + 1) % Week \in 0 .. Week - 1
  BY SummaryAssumption

LEMMA InitSummary == SummaryInit => SummaryInv
<1> SUFFICES ASSUME SummaryInit PROVE SummaryInv
  OBVIOUS
<1>1. SummaryTypeOK
  BY SummaryAssumption DEF SummaryInit, SummaryTypeOK
<1>2. RepeatsAreOwed
  BY SummaryAssumption DEF SummaryInit, RepeatsAreOwed, Unmarked
<1> QED
  BY <1>1, <1>2 DEF SummaryInv

LEMMA SummaryStep == SummaryInv /\ [SummaryNext]_summaryVars => SummaryInv'
<1> SUFFICES ASSUME SummaryInv, [SummaryNext]_summaryVars PROVE SummaryInv'
  OBVIOUS
<1>a. Week \in Nat /\ Hour \in Nat /\ Hour > 0 /\ Week > 2 * Hour /\ MaxStops \in Nat
  BY SummaryAssumption
<1>t. SummaryTypeOK /\ RepeatsAreOwed
  BY DEF SummaryInv
<1>1. CASE SaveSummary \/ (\E e \in Summed : ReachChanges(e)) \/ RestartBetween \/ UNCHANGED summaryVars
  <2>1. /\ UNCHANGED <<clock, sentAt, summing, toSum, queuedAt, doubles, stops>>
        /\ on' \in BOOLEAN /\ chosen' \in {0, Hour} /\ reach' \in SUBSET Summed /\ ranAt' \in 0 .. Hour
    BY <1>1, <1>a, <1>t DEF SaveSummary, ReachChanges, RestartBetween, summaryVars, SummaryTypeOK
  <2> QED
    BY <2>1, <1>t DEF SummaryInv, SummaryTypeOK, RepeatsAreOwed, Unmarked
<1>2. CASE StartSummary
  <2>1. SummaryTypeOK'
    BY <1>2, <1>a, <1>t DEF StartSummary, SummaryTypeOK
  <2>2. RepeatsAreOwed'
    BY <1>2, <1>t DEF StartSummary, DueNow, RepeatsAreOwed, Unmarked
  <2> QED
    BY <2>1, <2>2 DEF SummaryInv
<1>3. ASSUME NEW e \in Summed, QueueSummary(e) PROVE SummaryInv'
  <2>1. SummaryTypeOK'
    BY <1>3, <1>a, <1>t DEF QueueSummary, SummaryTypeOK
  <2>2. ASSUME NEW f \in Summed
        PROVE  /\ doubles'[f] <= stops'
               /\ Unmarked(f)' /\ ~(summing' = "queueing" /\ f \notin toSum') => doubles'[f] < stops'
    BY <1>3, <2>2, <1>a, <1>t DEF QueueSummary, SummaryTypeOK, RepeatsAreOwed, Unmarked
  <2>3. (summing = "queueing" => sentAt = Week)'
    BY <1>3, <1>t DEF QueueSummary, RepeatsAreOwed
  <2> QED
    BY <2>1, <2>2, <2>3 DEF SummaryInv, RepeatsAreOwed
<1>4. CASE MarkSent
  <2>1. SummaryTypeOK'
    BY <1>4, <1>a, <1>t DEF MarkSent, SummaryTypeOK
  <2>2. RepeatsAreOwed'
    BY <1>4, <1>a, <1>t DEF MarkSent, SummaryTypeOK, RepeatsAreOwed, Unmarked
  <2> QED
    BY <2>1, <2>2 DEF SummaryInv
<1>5. CASE StopInSummary
  <2>1. SummaryTypeOK'
    BY <1>5, <1>a, <1>t DEF StopInSummary, SummaryTypeOK
  <2>2. RepeatsAreOwed'
    BY <1>5, <1>a, <1>t DEF StopInSummary, SummaryTypeOK, RepeatsAreOwed, Unmarked
  <2> QED
    BY <2>1, <2>2 DEF SummaryInv
<1>6. CASE SummaryTick
  <2>1. SummaryTypeOK'
    BY <1>6, <1>a, <1>t, ClockTurns DEF SummaryTick, SummaryTypeOK
  <2>2. RepeatsAreOwed'
    BY <1>6, <1>a, <1>t DEF SummaryTick, SummaryTypeOK, RepeatsAreOwed, Unmarked
  <2> QED
    BY <2>1, <2>2 DEF SummaryInv
<1> QED
  BY <1>1, <1>2, <1>3, <1>4, <1>5, <1>6 DEF SummaryNext

LEMMA SummaryInductive == SummarySpec => []SummaryInv
  BY InitSummary, SummaryStep, PTL DEF SummarySpec

(* However the operator moves the hour and whenever the collector starts,  *)
(* an environment has no second summary within a week of the one before,   *)
(* but one for each death between the first delivery and the mark.         *)
THEOREM SummariesAreWeekly == SummarySpec => []OnceAWeek
<1>1. SummaryInv => OnceAWeek
  BY DEF SummaryInv, RepeatsAreOwed, OnceAWeek
<1> QED
  BY <1>1, SummaryInductive, PTL
-----------------------------------------------------------------------------
(* Error groups (ErrorGroups).                                             *)

(* No line is older than the last-seen of its group, and none came of a    *)
(* fingerprint that has no group.                                          *)
SeenIsYoungest ==
  \A p \in Group :
    /\ status[p] = "none" => heard[p] = {}
    /\ \A a \in heard[p] : seen[p] <= a

ErrorsInv == ErrorsTypeOK /\ SeenIsYoungest
-----------------------------------------------------------------------------
LEMMA InitErrors == ErrorsInit => ErrorsInv
<1> SUFFICES ASSUME ErrorsInit PROVE ErrorsInv
  OBVIOUS
<1>1. 0 \in 0 .. SeenCap /\ <<>> \in Seq(Group)
  BY ErrorsAssumption DEF SeenCap
<1>2. ErrorsTypeOK
  BY <1>1 DEF ErrorsInit, ErrorsTypeOK
<1>3. SeenIsYoungest
  BY DEF ErrorsInit, SeenIsYoungest
<1> QED
  BY <1>2, <1>3 DEF ErrorsInv

LEMMA StatusTyped ==
  ASSUME ErrorsTypeOK, NEW p \in Group, NEW late, status[p] # "none"
  PROVE  StatusFor(p, late) \in {"new", "regressed", "ongoing", "muted"}
<1>1. status[p] \in {"none", "new", "regressed", "ongoing", "resolved", "muted"}
  BY DEF ErrorsTypeOK
<1>2. CASE status[p] = "muted"
  BY <1>2 DEF StatusFor
<1>3. CASE status[p] # "muted" /\ Regresses(p, late)
  BY <1>3 DEF StatusFor
<1>4. CASE status[p] \in {"new", "regressed"} /\ ~Regresses(p, late)
  BY <1>4 DEF StatusFor
<1>5. CASE status[p] \in {"ongoing", "resolved"} /\ ~Regresses(p, late)
  BY <1>5 DEF StatusFor
<1> QED
  BY <1>1, <1>2, <1>3, <1>4, <1>5

LEMMA RecordErrorStep ==
  ASSUME ErrorsInv, NEW p \in Group, NEW late \in 0 .. LateMax, RecordError(p, late)
  PROVE  ErrorsInv'
<1>a. RegressionGap \in Nat /\ LateMax \in Nat /\ SilentAfter \in Nat /\ SilentAfter >= RegressionGap + LateMax
  BY ErrorsAssumption
<1>1. UNCHANGED <<problems, link, judging>> /\ heard' = [heard EXCEPT ![p] = @ \cup {late}]
  BY DEF RecordError
<1>t. ErrorsTypeOK /\ SeenIsYoungest
  BY DEF ErrorsInv
<1>l. late \in 0 .. SeenCap /\ late \in 0 .. RegressionGap + LateMax
  BY <1>a DEF SeenCap
<1>2. /\ groups' \in Seq(Group)
      /\ status' \in [Group -> {"none", "new", "regressed", "ongoing", "resolved", "muted"}]
      /\ \E n \in {late, seen[p]} :
           /\ seen' = [seen EXCEPT ![p] = n] /\ n <= late
           /\ status[p] # "none" => n <= seen[p]
      /\ status'[p] # "none" /\ \A q \in Group \ {p} : status'[q] = status[q]
  <2>1. CASE status[p] = "none"
    <3>1. /\ groups' = Append(groups, p) /\ status' = [status EXCEPT ![p] = "new"]
          /\ seen' = [seen EXCEPT ![p] = late]
      BY <2>1 DEF RecordError
    <3>2. groups' \in Seq(Group)
      BY <3>1, <1>t, AppendProperties DEF ErrorsTypeOK
    <3>3. late <= late
      BY <1>l
    <3> QED
      BY <2>1, <3>1, <3>2, <3>3, <1>t DEF ErrorsTypeOK
  <2>2. CASE status[p] # "none"
    <3>1. /\ groups' = groups /\ status' = [status EXCEPT ![p] = StatusFor(p, late)]
          /\ seen' = [seen EXCEPT ![p] = LastSeen(p, late)]
      BY <2>2 DEF RecordError
    <3>2. StatusFor(p, late) \in {"new", "regressed", "ongoing", "muted"}
      BY <2>2, <1>t, StatusTyped
    <3>3. seen[p] \in Nat /\ late \in Nat
      BY <1>a, <1>t DEF ErrorsTypeOK, SeenCap
    <3>4. /\ LastSeen(p, late) \in {late, seen[p]}
          /\ LastSeen(p, late) <= late /\ LastSeen(p, late) <= seen[p]
      BY <3>3 DEF LastSeen
    <3> HIDE DEF LastSeen
    <3> QED
      BY <3>1, <3>2, <3>4, <1>t DEF ErrorsTypeOK
  <2> QED
    BY <2>1, <2>2
<1>3. PICK n \in {late, seen[p]} :
        /\ seen' = [seen EXCEPT ![p] = n] /\ n <= late
        /\ status[p] # "none" => n <= seen[p]
  BY <1>2
<1>4. ErrorsTypeOK'
  <2>1. seen' \in [Group -> 0 .. SeenCap]
    BY <1>3, <1>l, <1>t DEF ErrorsTypeOK
  <2>2. heard' \in [Group -> SUBSET (0 .. RegressionGap + LateMax)]
    BY <1>1, <1>l, <1>t DEF ErrorsTypeOK
  <2> QED
    BY <1>1, <1>2, <2>1, <2>2, <1>t DEF ErrorsTypeOK
<1>5. ASSUME NEW q \in Group
      PROVE  /\ status'[q] = "none" => heard'[q] = {}
             /\ \A a \in heard'[q] : seen'[q] <= a
  <2>1. CASE q = p
    <3>1. heard'[p] = heard[p] \cup {late} /\ seen'[p] = n
      BY <1>1, <1>3, <1>t DEF ErrorsTypeOK
    <3>2. \A a \in heard[p] : a \in Nat /\ seen[p] <= a
      BY <1>a, <1>t DEF ErrorsTypeOK, SeenIsYoungest
    <3>3. status[p] = "none" => heard[p] = {}
      BY <1>t DEF SeenIsYoungest
    <3>4. n \in Nat /\ seen[p] \in Nat
      BY <1>a, <1>l, <1>3, <1>t DEF ErrorsTypeOK, SeenCap
    <3> QED
      BY <1>2, <1>3, <2>1, <3>1, <3>2, <3>3, <3>4
  <2>2. CASE q # p
    <3>1. status'[q] = status[q] /\ heard'[q] = heard[q] /\ seen'[q] = seen[q]
      BY <1>1, <1>2, <1>3, <1>t, <2>2 DEF ErrorsTypeOK
    <3> QED
      BY <3>1, <1>t DEF SeenIsYoungest
  <2> QED
    BY <2>1, <2>2
<1> QED
  BY <1>4, <1>5 DEF ErrorsInv, SeenIsYoungest

LEMMA JudgedTyped == ErrorsTypeOK => \A p \in Group : Worst(problems[p]) \in {"none", "new", "spike"}
<1> SUFFICES ASSUME NEW p \in Group PROVE Worst(problems[p]) \in {"none", "new", "spike"}
  OBVIOUS
<1> QED
  BY DEF Worst

LEMMA FiredTyped == \A p \in Group : \A S : Fired(p, S) \subseteq {"new", "spike"}
  BY DEF Fired

LEMMA ErrorsStep == ErrorsInv /\ [ErrorsNext]_errorVars => ErrorsInv'
<1> SUFFICES ASSUME ErrorsInv, [ErrorsNext]_errorVars PROVE ErrorsInv'
  OBVIOUS
<1>a. RegressionGap \in Nat /\ LateMax \in Nat /\ SilentAfter \in Nat /\ SilentAfter >= RegressionGap + LateMax
  BY ErrorsAssumption
<1>t. ErrorsTypeOK /\ SeenIsYoungest
  BY DEF ErrorsInv
<1>1. ASSUME NEW p \in Group, NEW late \in 0 .. LateMax, RecordError(p, late) PROVE ErrorsInv'
  BY <1>1, RecordErrorStep
<1>2. CASE JudgeErrors \/ LinkErrors \/ DieUnlinked \/ UNCHANGED errorVars
  <2>1. UNCHANGED <<groups, status, seen, heard>> /\ judging' \in BOOLEAN
    BY <1>2, <1>t DEF JudgeErrors, LinkErrors, DieUnlinked, errorVars, ErrorsTypeOK
  <2>2. problems' \in [Group -> SUBSET {"new", "spike"}]
    <3>1. CASE JudgeErrors
      <4>1. PICK keep \in SUBSET {"new", "spike"}, S \in SUBSET Judged :
              problems' = [p \in Group |-> IF p \in Judged
                                           THEN Fired(p, S) \cup (problems[p] \cap keep)
                                           ELSE problems[p]]
        BY <3>1 DEF JudgeErrors
      <4> QED
        BY <4>1, <1>t, FiredTyped DEF ErrorsTypeOK
    <3>2. CASE problems' = problems
      BY <3>2, <1>t DEF ErrorsTypeOK
    <3> QED
      BY <1>2, <3>1, <3>2 DEF LinkErrors, DieUnlinked, errorVars
  <2>3. link' \in [Group -> {"none", "new", "spike"}]
    BY <1>2, <1>t, JudgedTyped DEF ErrorsTypeOK, JudgeErrors, LinkErrors, DieUnlinked, errorVars
  <2> QED
    BY <2>1, <2>2, <2>3, <1>t DEF ErrorsInv, ErrorsTypeOK, SeenIsYoungest
<1>3. CASE ErrorsTick
  <2>1. /\ UNCHANGED <<groups, status, problems, link, judging>>
        /\ seen' = [p \in Group |-> IF status[p] # "none" /\ seen[p] < SeenCap
                                    THEN seen[p] + 1 ELSE seen[p]]
        /\ heard' = [p \in Group |-> {a + 1 : a \in heard[p] \ {RegressionGap + LateMax}}]
    BY <1>3 DEF ErrorsTick
  <2>2. \A p \in Group : seen[p] \in 0 .. SeenCap /\ heard[p] \subseteq 0 .. RegressionGap + LateMax
    BY <1>t DEF ErrorsTypeOK
  <2>3. SeenCap \in Nat
    BY <1>a DEF SeenCap
  <2>4. seen' \in [Group -> 0 .. SeenCap]
    BY <2>1, <2>2, <2>3
  <2>5. heard' \in [Group -> SUBSET (0 .. RegressionGap + LateMax)]
    <3> SUFFICES ASSUME NEW p \in Group, NEW a \in heard[p] \ {RegressionGap + LateMax}
                 PROVE  a + 1 \in 0 .. RegressionGap + LateMax
      BY <2>1
    <3> QED
      BY <1>a, <2>2
  <2>6. ASSUME NEW p \in Group
        PROVE  /\ status'[p] = "none" => heard'[p] = {}
               /\ \A a \in heard'[p] : seen'[p] <= a
    <3>1. status[p] = "none" => heard'[p] = {}
      BY <2>1, <1>t DEF SeenIsYoungest
    <3>2. ASSUME NEW a \in heard[p] PROVE seen'[p] <= a + 1
      BY <1>a, <1>t, <2>1, <2>2, <2>3 DEF SeenIsYoungest
    <3> QED
      BY <2>1, <3>1, <3>2
  <2> QED
    BY <2>1, <2>4, <2>5, <2>6, <1>t DEF ErrorsInv, ErrorsTypeOK, SeenIsYoungest
<1> QED
  BY <1>1, <1>2, <1>3 DEF ErrorsNext

LEMMA ErrorsInductive == ErrorsSpec => []ErrorsInv
  BY InitErrors, ErrorsStep, PTL DEF ErrorsSpec

LEMMA SilenceStep ==
  ErrorsInv /\ [ErrorsNext]_errorVars =>
    [\A p \in Group :
       status[p] = "new" /\ status'[p] = "regressed" =>
         \E late \in heard'[p] :
           \A a \in heard[p] : a >= late + RegressionGap]_errorVars
<1> SUFFICES ASSUME ErrorsInv, ErrorsNext, NEW p \in Group,
                    status[p] = "new", status'[p] = "regressed"
             PROVE  \E late \in heard'[p] : \A a \in heard[p] : a >= late + RegressionGap
  OBVIOUS
<1>a. RegressionGap \in Nat /\ RegressionGap > 0 /\ LateMax \in Nat
  BY ErrorsAssumption
<1>t. ErrorsTypeOK /\ SeenIsYoungest
  BY DEF ErrorsInv
<1>1. PICK q \in Group, late \in 0 .. LateMax : RecordError(q, late)
  BY DEF ErrorsNext, JudgeErrors, LinkErrors, DieUnlinked, ErrorsTick
<1>2. q = p
  BY <1>1, <1>t DEF RecordError, ErrorsTypeOK
<1>3. status'[p] = StatusFor(p, late) /\ late \in heard'[p]
  BY <1>1, <1>2, <1>t DEF RecordError, ErrorsTypeOK
<1>4. Regresses(p, late)
  <2> SUFFICES ASSUME ~Regresses(p, late) PROVE StatusFor(p, late) = "new"
    BY <1>3
  <2> QED
    BY DEF StatusFor
<1>5. ASSUME NEW a \in heard[p] PROVE a >= late + RegressionGap
  <2>1. a \in Nat /\ seen[p] \in Int /\ seen[p] <= a
    BY <1>a, <1>t, ErrorsAssumption DEF ErrorsTypeOK, SeenIsYoungest, SeenCap
  <2> QED
    BY <1>a, <1>4, <2>1 DEF Regresses
<1> QED
  BY <1>3, <1>5

(* recordError says "regressed" of a group only when no line of the gap    *)
(* before the one it records has come, in whatever order late lines come.  *)
THEOREM RegressionsWereSilent == ErrorsSpec => RegressionMeansSilence
<1>1. ErrorsInv /\ [ErrorsNext]_errorVars =>
        [\A p \in Group :
           status[p] = "new" /\ status'[p] = "regressed" =>
             \E late \in heard'[p] :
               \A a \in heard[p] : a >= late + RegressionGap]_errorVars
  BY SilenceStep
<1> QED
  BY <1>1, ErrorsInductive, PTL DEF ErrorsSpec, RegressionMeansSilence
-----------------------------------------------------------------------------
(* Synthetic checks (SyntheticChecks).                                     *)

(* The runs of each check, as a list of what passed. *)
RunsAreLists == runs \in [Check -> Seq(BOOLEAN)] /\ \A c \in Check : Len(runs[c]) <= History

(* The runs of a check begin with the failures since the last that passed, *)
(* which comes next where they are few and it is still on record.          *)
StreakLeads(r, n) ==
  /\ n <= Len(r)
  /\ \A i \in 1 .. n : ~r[i]
  /\ n < FailuresToDown /\ n < Len(r) => r[n + 1]

StreaksLead == \A c \in Check : check[c] # "gone" => StreakLeads(runs[c], streak[c])

CheckInv == CheckTypeOK /\ RunsAreLists /\ StreaksLead
-----------------------------------------------------------------------------
(* A list of runs that has failed as often as it takes is down, no other.  *)
LEMMA StreakIsDown ==
  ASSUME NEW r \in Seq(BOOLEAN), NEW n \in 0 .. FailuresToDown, StreakLeads(r, n)
  PROVE  Down(r) <=> n = FailuresToDown
<1>a. FailuresToDown \in Nat /\ FailuresToDown > 0
  BY SyntheticAssumption
<1>1. CASE n = FailuresToDown
  BY <1>1, <1>a DEF StreakLeads, Down
<1>2. CASE n # FailuresToDown
  <2>1. n < FailuresToDown /\ n + 1 \in 1 .. FailuresToDown /\ Len(r) \in Nat
    BY <1>2, <1>a
  <2>2. Len(r) >= FailuresToDown => n < Len(r)
    BY <2>1, <1>a
  <2>3. n < FailuresToDown /\ n < Len(r) => r[n + 1]
    BY DEF StreakLeads
  <2>4. ~Down(r)
    BY <2>1, <2>2, <2>3, Zenon DEF Down
  <2> QED
    BY <1>2, <2>4
<1> QED
  BY <1>1, <1>2

(* One more run at the head, and no more than History of them. *)
LEMMA RunRecorded ==
  ASSUME RunsAreLists, NEW c \in Check, NEW ok \in BOOLEAN
  PROVE  LET r == RunsWith(c, ok)[c]
             n == IF Len(runs[c]) < History THEN Len(runs[c]) + 1 ELSE History IN
         /\ RunsWith(c, ok) = [runs EXCEPT ![c] = r]
         /\ r \in Seq(BOOLEAN) /\ Len(r) = n
         /\ \A i \in 1 .. n : r[i] = IF i = 1 THEN ok ELSE runs[c][i - 1]
<1> DEFINE n == IF Len(runs[c]) < History THEN Len(runs[c]) + 1 ELSE History
           long == <<ok>> \o runs[c]
           r == SubSeq(long, 1, n)
<1>a. History \in Nat /\ History > 0
  BY SyntheticAssumption
<1>1. runs[c] \in Seq(BOOLEAN) /\ Len(runs[c]) \in Nat /\ Len(runs[c]) <= History
  BY DEF RunsAreLists
<1>2. <<ok>> \in Seq(BOOLEAN) /\ Len(<<ok>>) = 1 /\ <<ok>>[1] = ok
  OBVIOUS
<1>3. /\ long \in Seq(BOOLEAN) /\ Len(long) = Len(runs[c]) + 1
      /\ \A i \in 1 .. Len(runs[c]) + 1 : long[i] = IF i = 1 THEN ok ELSE runs[c][i - 1]
  <2>1. /\ long \in Seq(BOOLEAN) /\ Len(long) = Len(<<ok>>) + Len(runs[c])
        /\ \A i \in 1 .. Len(<<ok>>) + Len(runs[c]) :
             long[i] = IF i <= Len(<<ok>>) THEN <<ok>>[i] ELSE runs[c][i - Len(<<ok>>)]
    BY <1>1, <1>2, ConcatProperties
  <2> QED
    BY <1>1, <1>2, <2>1
<1>4. n \in Nat /\ n > 0 /\ n <= Len(runs[c]) + 1
  BY <1>a, <1>1
<1>5. /\ r \in Seq(BOOLEAN) /\ Len(r) = n
      /\ \A i \in 1 .. n : r[i] = long[i]
  <2> HIDE DEF n, long
  <2>1. \A i \in 1 .. n : long[i] \in BOOLEAN
    BY <1>3, <1>4, ElementOfSeq
  <2>2. /\ r \in Seq(BOOLEAN) /\ Len(r) = IF 1 <= n THEN n - 1 + 1 ELSE 0
        /\ \A i \in 1 .. n - 1 + 1 : r[i] = long[1 + i - 1]
    BY <1>3, <1>4, <2>1, SubSeqProperties
  <2> QED
    BY <1>4, <2>2
<1>6. RunsWith(c, ok) = [runs EXCEPT ![c] = r]
  BY DEF RunsWith
<1>d. runs \in [Check -> Seq(BOOLEAN)]
  BY DEF RunsAreLists
<1> HIDE DEF r, long, n
<1>7. RunsWith(c, ok)[c] = r
  BY <1>6, <1>d
<1>8. ASSUME NEW i \in 1 .. n PROVE r[i] = IF i = 1 THEN ok ELSE runs[c][i - 1]
  <2>1. i \in 1 .. Len(runs[c]) + 1
    BY <1>1, <1>4
  <2>2. long[i] = IF i = 1 THEN ok ELSE runs[c][i - 1]
    BY <1>3, <2>1, Zenon
  <2>3. r[i] = long[i]
    BY <1>5, Zenon
  <2> QED
    BY <2>2, <2>3, Zenon
<1> QED
  BY <1>5, <1>6, <1>7, <1>8 DEF n

(* A run that is recorded keeps the streak at the head. *)
LEMMA StreakRecorded ==
  ASSUME RunsAreLists, NEW c \in Check, NEW ok \in BOOLEAN,
         NEW n \in 0 .. FailuresToDown, StreakLeads(runs[c], n)
  PROVE  StreakLeads(RunsWith(c, ok)[c],
                     IF ok THEN 0 ELSE IF n < FailuresToDown THEN n + 1 ELSE n)
<1> DEFINE r == RunsWith(c, ok)[c]
           k == IF Len(runs[c]) < History THEN Len(runs[c]) + 1 ELSE History
           m == IF ok THEN 0 ELSE IF n < FailuresToDown THEN n + 1 ELSE n
<1>a. FailuresToDown \in Nat /\ FailuresToDown > 0 /\ History \in Nat /\ FailuresToDown <= History
  BY SyntheticAssumption
<1>1. Len(runs[c]) \in Nat /\ Len(runs[c]) <= History
  BY DEF RunsAreLists
<1>2. Len(r) = k /\ \A i \in 1 .. k : r[i] = IF i = 1 THEN ok ELSE runs[c][i - 1]
  BY RunRecorded
<1>3. /\ n <= Len(runs[c]) /\ \A i \in 1 .. n : ~runs[c][i]
      /\ n < FailuresToDown /\ n < Len(runs[c]) => runs[c][n + 1]
  BY DEF StreakLeads
<1>4. k \in Nat /\ m \in Nat /\ m <= FailuresToDown /\ m <= k /\ k > 0 /\ k <= Len(runs[c]) + 1
  BY <1>a, <1>1, <1>3
<1> HIDE DEF r
<1>5. ASSUME NEW i \in 1 .. m PROVE ~r[i]
  <2>1. ~ok /\ i \in 1 .. k /\ i <= n + 1
    BY <1>4, <1>5
  <2>2. CASE i = 1
    BY <1>2, <2>1, <2>2
  <2>3. CASE i # 1
    <3>1. i - 1 \in 1 .. n
      BY <2>1, <2>3
    <3> QED
      BY <1>2, <1>3, <2>1, <2>3, <3>1
  <2> QED
    BY <2>2, <2>3
<1>6. ASSUME m < FailuresToDown, m < Len(r) PROVE r[m + 1]
  <2>1. m + 1 \in 1 .. k /\ m < k
    BY <1>2, <1>4, <1>6
  <2>2. CASE ok
    <3>1. m + 1 = 1 /\ 1 \in 1 .. k
      BY <1>4, <2>2
    <3>2. r[1] = ok
      BY <1>2, <3>1
    <3> QED
      BY <2>2, <3>1, <3>2
  <2>3. CASE ~ok
    <3>1. m = n + 1 /\ n < FailuresToDown /\ n < Len(runs[c]) /\ m + 1 # 1
      BY <1>4, <1>6, <2>1, <2>3
    <3>2. r[m + 1] = runs[c][m + 1 - 1] /\ m + 1 - 1 = n + 1
      BY <1>2, <2>1, <3>1
    <3> QED
      BY <1>3, <3>1, <3>2
  <2> QED
    BY <2>2, <2>3
<1> HIDE DEF m
<1>7. StreakLeads(r, m)
  BY <1>2, <1>4, <1>5, <1>6 DEF StreakLeads
<1> QED
  BY <1>7 DEF r, m

LEMMA InitCheck == CheckInit => CheckInv
<1> SUFFICES ASSUME CheckInit PROVE CheckInv
  OBVIOUS
<1>1. CheckTypeOK
  BY SyntheticAssumption DEF CheckInit, CheckTypeOK
<1>2. RunsAreLists /\ StreaksLead
  BY SyntheticAssumption DEF CheckInit, RunsAreLists, StreaksLead, StreakLeads
<1> QED
  BY <1>1, <1>2 DEF CheckInv

(* The runs a step leaves are of the type. *)
LEMMA RunsTyped ==
  RunsAreLists => \A c \in Check :
    Len(runs[c]) <= History /\ \A i \in 1 .. Len(runs[c]) : runs[c][i] \in BOOLEAN
  BY DEF RunsAreLists

(* A step of the job that requests no result, or a death in it. *)
LEMMA JobStep ==
  ASSUME CheckInv,
         \/ StartProbes \/ DieInProbes \/ UNCHANGED checkVars
         \/ \E c \in Check : Request(c) \/ RunRefused(c)
  PROVE  CheckInv'
<1>1. UNCHANGED <<check, runs, raised, clears, streak>>
  BY DEF StartProbes, DieInProbes, Request, RunRefused, checkVars
<1>2. /\ probing' \in {"idle", "running"} /\ toProbe' \in SUBSET Check
      /\ awaited' \in Check \cup {NoCheck} /\ deaths' \in 0 .. MaxDeaths
  BY SyntheticAssumption
  DEF CheckInv, CheckTypeOK, StartProbes, DieInProbes, Request, RunRefused, checkVars, Enabled
<1>3. CheckTypeOK'
  BY <1>1, <1>2 DEF CheckInv, CheckTypeOK
<1>4. RunsAreLists' /\ StreaksLead'
  BY <1>1 DEF CheckInv, RunsAreLists, StreaksLead
<1> QED
  BY <1>3, <1>4 DEF CheckInv

(* A step of the operator. *)
LEMMA EditStep ==
  ASSUME CheckInv, NEW c \in Check, UpsertCheck(c) \/ DeleteCheck(c)
  PROVE  CheckInv'
<1>1. UNCHANGED <<probing, toProbe, awaited, raised, clears, streak, deaths>>
  BY DEF UpsertCheck, DeleteCheck
<1>2. check' \in [Check -> {"new", "off", "on", "gone"}]
  BY DEF CheckInv, CheckTypeOK, UpsertCheck, DeleteCheck
<1>3. \A d \in Check : check'[d] # "gone" => check[d] # "gone" /\ runs'[d] = runs[d]
  BY DEF CheckInv, CheckTypeOK, RunsAreLists, UpsertCheck, DeleteCheck
<1>4. RunsAreLists'
  <2>1. <<>> \in Seq(BOOLEAN) /\ Len(<<>>) = 0 /\ History \in Nat
    BY SyntheticAssumption
  <2>2. runs' = runs \/ runs' = [runs EXCEPT ![c] = <<>>]
    BY DEF UpsertCheck, DeleteCheck
  <2>3. runs \in [Check -> Seq(BOOLEAN)] /\ \A d \in Check : Len(runs[d]) <= History
    BY DEF CheckInv, RunsAreLists
  <2>4. runs' \in [Check -> Seq(BOOLEAN)]
    BY <2>1, <2>2, <2>3
  <2>5. \A d \in Check : runs'[d] = runs[d] \/ runs'[d] = <<>>
    BY <2>2, <2>3
  <2>6. \A d \in Check : Len(runs'[d]) <= History
    BY <2>1, <2>3, <2>5
  <2> QED
    BY <2>4, <2>6 DEF RunsAreLists
<1>5. StreaksLead'
  BY <1>1, <1>3 DEF CheckInv, StreaksLead
<1>6. CheckTypeOK'
  <2>1. (\A d \in Check : Len(runs[d]) <= History /\ \A i \in 1 .. Len(runs[d]) : runs[d][i] \in BOOLEAN)'
    BY <1>4, RunsTyped DEF RunsAreLists
  <2> QED
    BY <1>1, <1>2, <2>1 DEF CheckInv, CheckTypeOK
<1> QED
  BY <1>4, <1>5, <1>6 DEF CheckInv

LEMMA RecordStep ==
  ASSUME CheckInv, NEW c \in Check, RecordRun(c)
  PROVE  CheckInv'
<1>a. FailuresToDown \in Nat /\ FailuresToDown > 0 /\ History \in Nat /\ History > 0
  BY SyntheticAssumption
<1>1. /\ UNCHANGED <<check, probing, toProbe, raised, clears, deaths>> /\ awaited' = NoCheck
      /\ check[c] # "gone"
  BY DEF RecordRun
<1>2. PICK ok \in BOOLEAN :
        /\ runs' = RunsWith(c, ok)
        /\ streak' = [streak EXCEPT ![c] = IF ok THEN 0
                                           ELSE IF @ < FailuresToDown THEN @ + 1 ELSE @]
  BY DEF RecordRun
<1>t. /\ streak \in [Check -> 0 .. FailuresToDown] /\ RunsAreLists
      /\ StreakLeads(runs[c], streak[c])
  BY <1>1 DEF CheckInv, CheckTypeOK, StreaksLead
<1>3. /\ runs'[c] \in Seq(BOOLEAN) /\ Len(runs'[c]) <= History
      /\ runs' = [runs EXCEPT ![c] = runs'[c]]
  <2>1. Len(runs[c]) \in Nat
    BY <1>t DEF RunsAreLists
  <2>2. /\ runs' = [runs EXCEPT ![c] = runs'[c]] /\ runs'[c] \in Seq(BOOLEAN)
        /\ Len(runs'[c]) = IF Len(runs[c]) < History THEN Len(runs[c]) + 1 ELSE History
    BY <1>2, <1>t, RunRecorded
  <2> QED
    BY ONLY <1>a, <2>1, <2>2
<1>4. RunsAreLists'
  BY <1>3, <1>t DEF RunsAreLists
<1>5. /\ streak' \in [Check -> 0 .. FailuresToDown]
      /\ streak'[c] = IF ok THEN 0 ELSE IF streak[c] < FailuresToDown THEN streak[c] + 1 ELSE streak[c]
      /\ \A d \in Check \ {c} : streak'[d] = streak[d]
  BY <1>a, <1>2, <1>t
<1>6. StreakLeads(runs'[c], streak'[c])
  BY <1>2, <1>5, <1>t, StreakRecorded
<1>7. StreaksLead'
  <2> SUFFICES ASSUME NEW d \in Check, check'[d] # "gone" PROVE StreakLeads(runs'[d], streak'[d])
    BY DEF StreaksLead, StreakLeads
  <2>1. CASE d = c
    BY <1>6, <2>1
  <2>2. CASE d # c
    <3>1. runs'[d] = runs[d] /\ streak'[d] = streak[d] /\ check[d] # "gone"
      BY <1>1, <1>3, <1>5, <1>t, <2>2 DEF RunsAreLists
    <3> QED
      BY <3>1 DEF CheckInv, StreaksLead
  <2> QED
    BY <2>1, <2>2
<1>8. CheckTypeOK'
  <2>1. (\A d \in Check : Len(runs[d]) <= History /\ \A i \in 1 .. Len(runs[d]) : runs[d][i] \in BOOLEAN)'
    BY <1>4, RunsTyped DEF RunsAreLists
  <2> QED
    BY <1>1, <1>5, <2>1 DEF CheckInv, CheckTypeOK
<1> QED
  BY <1>4, <1>7, <1>8 DEF CheckInv

(* What JudgeChecks calls down, clear, and over. *)
LEMMA JudgeStep ==
  ASSUME CheckInv, JudgeChecks
  PROVE  /\ CheckInv'
         /\ \A c \in Check : (c \in raised) # (c \in raised') =>
              check[c] = "on" /\ (c \in raised' <=> Down(runs[c]))
<1> DEFINE down == {c \in JudgedChecks : Down(runs[c])}
           clear == (JudgedChecks \ down) \cap raised
           next == [c \in Check |-> IF c \in clear THEN clears[c] + 1
                                    ELSE IF c \in down THEN 0 ELSE clears[c]]
           ripe == {c \in clear : next[c] >= ClearsToResolve}
           over == {c \in clear : next[c] > ClearsToResolve}
<1>a. ClearsToResolve \in Nat /\ ClearsToResolve > 0
  BY SyntheticAssumption
<1>1. PICK resolved \in SUBSET ripe :
        /\ over \subseteq resolved
        /\ raised' = (raised \cup down) \ resolved
        /\ clears' = [c \in Check |-> IF c \in resolved THEN 0 ELSE next[c]]
  BY DEF JudgeChecks
<1>2. UNCHANGED <<check, runs, toProbe, awaited, streak, deaths>> /\ probing' = "idle"
  BY DEF JudgeChecks
<1>3. /\ down \subseteq Check /\ clear \subseteq Check
      /\ \A c \in down : check[c] = "on" /\ Down(runs[c])
      /\ \A c \in clear : check[c] = "on" /\ ~Down(runs[c])
  BY DEF JudgedChecks, Enabled
<1>4. clears' \in [Check -> 0 .. ClearsToResolve]
  <2> SUFFICES ASSUME NEW c \in Check
               PROVE  (IF c \in resolved THEN 0 ELSE next[c]) \in 0 .. ClearsToResolve
    BY <1>1
  <2>1. clears[c] \in 0 .. ClearsToResolve
    BY DEF CheckInv, CheckTypeOK
  <2>2. next[c] = IF c \in clear THEN clears[c] + 1 ELSE IF c \in down THEN 0 ELSE clears[c]
    OBVIOUS
  <2>3. c \in clear /\ c \notin resolved => ~(next[c] > ClearsToResolve)
    BY <1>1
  <2> HIDE DEF down, clear, next
  <2> QED
    BY <1>a, <2>1, <2>2, <2>3
<1>5. raised' \subseteq Check
  BY <1>1, <1>3 DEF CheckInv, CheckTypeOK
<1>6. CheckTypeOK'
  BY <1>2, <1>4, <1>5 DEF CheckInv, CheckTypeOK
<1>7. RunsAreLists' /\ StreaksLead'
  BY <1>2 DEF CheckInv, RunsAreLists, StreaksLead
<1>8. ASSUME NEW c \in Check, (c \in raised) # (c \in raised')
      PROVE  check[c] = "on" /\ (c \in raised' <=> Down(runs[c]))
  <2>1. CASE c \in raised'
    <3>1. c \in down
      BY <1>1, <1>8, <2>1
    <3>2. check[c] = "on" /\ Down(runs[c])
      BY <1>3, <3>1, Zenon
    <3> QED
      BY <2>1, <3>2, Zenon
  <2>2. CASE c \notin raised'
    <3>0. c \in raised
      BY <1>8, <2>2
    <3>1. c \in clear
      <4>1. c \in resolved
        BY <1>1, <2>2, <3>0, Zenon
      <4> QED
        BY <1>1, <4>1, Zenon
    <3>2. check[c] = "on" /\ ~Down(runs[c])
      BY <1>3, <3>1, Zenon
    <3> QED
      BY <2>2, <3>2, Zenon
  <2> QED
    BY <2>1, <2>2
<1> QED
  BY <1>6, <1>7, <1>8 DEF CheckInv

LEMMA CheckStep == CheckInv /\ [CheckNext]_checkVars => CheckInv'
  BY JobStep, EditStep, RecordStep, JudgeStep DEF CheckNext, Probes

LEMMA CheckInductive == CheckSpec => []CheckInv
  BY InitCheck, CheckStep, PTL DEF CheckSpec

LEMMA GroundsStep ==
  CheckInv /\ [CheckNext]_checkVars =>
    [\A c \in Check : (c \in raised) # (c \in raised') =>
       /\ check[c] = "on"
       /\ c \in raised' <=> streak[c] = FailuresToDown]_checkVars
<1> SUFFICES ASSUME CheckInv, CheckNext, NEW c \in Check, (c \in raised) # (c \in raised')
             PROVE  check[c] = "on" /\ (c \in raised' <=> streak[c] = FailuresToDown)
  OBVIOUS
<1>1. JudgeChecks
  BY DEF CheckNext, Probes, StartProbes, DieInProbes, Request, RunRefused, RecordRun,
     UpsertCheck, DeleteCheck
<1>2. check[c] = "on" /\ (c \in raised' <=> Down(runs[c]))
  BY <1>1, JudgeStep
<1>3. Down(runs[c]) <=> streak[c] = FailuresToDown
  <2>1. runs[c] \in Seq(BOOLEAN) /\ streak[c] \in 0 .. FailuresToDown /\ StreakLeads(runs[c], streak[c])
    BY <1>2 DEF CheckInv, CheckTypeOK, RunsAreLists, StreaksLead
  <2> QED
    BY <2>1, StreakIsDown
<1> QED
  BY <1>2, <1>3

(* A problem of a check is raised when its last FailuresToDown runs failed *)
(* and resolved when one of them passed, while the check is on, whatever   *)
(* the operator did as the job awaited its requests and however often a    *)
(* run was refused.                                                        *)
THEOREM VerdictsOfChecks == CheckSpec => VerdictHasGrounds
<1>1. CheckInv /\ [CheckNext]_checkVars =>
        [\A c \in Check : (c \in raised) # (c \in raised') =>
           /\ check[c] = "on"
           /\ c \in raised' <=> streak[c] = FailuresToDown]_checkVars
  BY GroundsStep
<1> QED
  BY <1>1, CheckInductive, PTL DEF CheckSpec, VerdictHasGrounds
-----------------------------------------------------------------------------
(* Objectives (Objectives).                                                *)

(* What is filed of an interval went so in it, or in the one after.        *)
PointsAreServed ==
  \A a \in Ages : points[a] = "bad" => serving[a] = "bad" \/ serving[a - 1] = "bad"

ObjectivesInv == ObjectivesTypeOK /\ PointsAreServed
-----------------------------------------------------------------------------
LEMMA WindowsTyped ==
  /\ FastWindow \in Nat /\ SlowWindow \in Nat /\ 1 < FastWindow /\ FastWindow < SlowWindow
  /\ \A a \in Allowance : a \in 0 .. 99
  BY ObjectivesAssumption

(* A window has so many intervals at most, measured or failed. *)
LEMMA MeasuredCounts ==
  ASSUME NEW w \in Nat, w > 0
  PROVE  /\ IsFiniteSet(Measured(w)) /\ IsFiniteSet(Failed(w))
         /\ Cardinality(Measured(w)) \in Nat /\ Cardinality(Failed(w)) \in Nat
         /\ Measured(w) # {} => Cardinality(Measured(w)) > 0
         /\ Cardinality(Failed(w)) > 0 => Failed(w) # {}
         /\ Cardinality(1 .. w - 1) = w - 1
<1>1. 1 \in Int /\ w - 1 \in Int /\ w - 1 >= 0
  OBVIOUS
<1>2. IsFiniteSet(1 .. w - 1)
      /\ Cardinality(1 .. w - 1) = IF 1 > w - 1 THEN 0 ELSE w - 1 - 1 + 1
  BY ONLY <1>1, FS_Interval, SMT
<1>3. Measured(w) \subseteq 1 .. w - 1 /\ Failed(w) \subseteq Measured(w)
  BY DEF Measured, Failed
<1>4. IsFiniteSet(Measured(w)) /\ IsFiniteSet(Failed(w))
  BY <1>2, <1>3, FS_Subset
<1>5. /\ Cardinality(Measured(w)) \in Nat /\ Cardinality(Failed(w)) \in Nat
      /\ Measured(w) # {} => Cardinality(Measured(w)) # 0
      /\ Cardinality(Failed(w)) # 0 => Failed(w) # {}
  BY <1>4, FS_CardinalityType, FS_EmptySet
<1> QED
  BY <1>1, <1>2, <1>4, <1>5

(* Which burn of which window an objective that allows something is in.    *)
LEMMA BurnOfWindow ==
  ASSUME NEW allowed \in Allowance, allowed > 0
  PROVE  /\ BurnAlert(allowed, FastWindow) = "fast"
              <=> Enough(FastWindow) /\ AtLeast(FastRate, allowed, FastWindow)
         /\ BurnAlert(allowed, SlowWindow) = "slow"
              <=> Enough(SlowWindow) /\ AtLeast(SlowRate, allowed, SlowWindow)
<1>1. allowed # 0 /\ ~(SlowWindow <= FastWindow) /\ FastWindow <= FastWindow
      /\ FastWindow <= SlowWindow /\ SlowWindow <= SlowWindow
  BY WindowsTyped
<1> HIDE DEF Enough, AtLeast
<1>2. BurnAlert(allowed, FastWindow) = "fast"
        <=> Enough(FastWindow) /\ AtLeast(FastRate, allowed, FastWindow)
  <2>1. CASE ~Enough(FastWindow)
    BY <2>1 DEF BurnAlert
  <2>2. CASE Enough(FastWindow) /\ AtLeast(FastRate, allowed, FastWindow)
    BY <1>1, <2>2 DEF BurnAlert
  <2>3. CASE Enough(FastWindow) /\ ~AtLeast(FastRate, allowed, FastWindow)
    BY <1>1, <2>3 DEF BurnAlert
  <2> QED
    BY <2>1, <2>2, <2>3
<1>3. BurnAlert(allowed, SlowWindow) = "slow"
        <=> Enough(SlowWindow) /\ AtLeast(SlowRate, allowed, SlowWindow)
  <2>1. CASE ~Enough(SlowWindow)
    BY <2>1 DEF BurnAlert
  <2>2. CASE Enough(SlowWindow)
    BY <1>1, <2>2 DEF BurnAlert
  <2> QED
    BY <2>1, <2>2
<1> QED
  BY <1>2, <1>3

(* One speed at most is said, one that its own window says. *)
LEMMA OneSpeed ==
  ASSUME NEW allowed
  PROVE  /\ Speeds(allowed) \in {{}, {"fast"}, {"slow"}}
         /\ \A s \in Speeds(allowed) : BurnAlert(allowed, WindowOf(s)) = s
  BY DEF Speeds

LEMMA SpeedsOf ==
  ASSUME NEW allowed
  PROVE  /\ "fast" \in Speeds(allowed) <=> BurnAlert(allowed, FastWindow) = "fast"
         /\ "slow" \in Speeds(allowed) <=> /\ BurnAlert(allowed, SlowWindow) = "slow"
                                           /\ BurnAlert(allowed, FastWindow) # "fast"
  BY DEF Speeds, WindowOf

LEMMA LoudnessOf ==
  ASSUME NEW allowed
  PROVE  Loudness(allowed) = IF "fast" \in Speeds(allowed) THEN 2
                             ELSE IF "slow" \in Speeds(allowed) THEN 1 ELSE 0
<1>1. CASE "fast" \in Speeds(allowed)
  <2>1. Speeds(allowed) = {"fast"}
    BY <1>1, OneSpeed
  <2> QED
    BY <2>1 DEF Loudness
<1>2. CASE "fast" \notin Speeds(allowed)
  BY <1>2 DEF Loudness
<1> QED
  BY <1>1, <1>2

(* A rate an objective reaches is reached by a stricter one. *)
LEMMA StricterReaches ==
  ASSUME NEW a \in Nat, NEW b \in Nat, a < b, NEW w \in Nat, w > 0, NEW rate \in Nat,
         AtLeast(rate, b, w)
  PROVE  AtLeast(rate, a, w)
<1> DEFINE m == Cardinality(Measured(w))
<1>1. m \in Nat /\ Cardinality(Failed(w)) \in Nat
  BY MeasuredCounts
<1>2. rate * a * m <= rate * b * m
  <2>1. \A x, y, z \in Nat : x <= y => x * z <= y * z /\ z * x <= z * y
    OBVIOUS
  <2>2. rate * a <= rate * b
    BY <2>1
  <2> QED
    BY <1>1, <2>1, <2>2
<1>3. 1000 * Cardinality(Failed(w)) >= rate * b * m
  BY DEF AtLeast
<1> HIDE DEF m
<1>4. rate * a * m \in Int /\ rate * b * m \in Int
  BY <1>1
<1>5. 1000 * Cardinality(Failed(w)) >= rate * a * m
  BY <1>1, <1>2, <1>3, <1>4
<1> QED
  BY <1>5 DEF AtLeast, m

LEMMA StricterIsHeard ==
  ASSUME NEW a \in Allowance \ {0}, NEW b \in Allowance \ {0}, a < b
  PROVE  Loudness(a) >= Loudness(b)
<1>1. a \in Nat /\ b \in Nat /\ a > 0 /\ b > 0
  BY WindowsTyped
<1>2. FastRate \in Nat /\ SlowRate \in Nat
  BY DEF FastRate, SlowRate
<1>3. BurnAlert(b, FastWindow) = "fast" => BurnAlert(a, FastWindow) = "fast"
  BY <1>1, <1>2, WindowsTyped, BurnOfWindow, StricterReaches
<1>4. BurnAlert(b, SlowWindow) = "slow" => BurnAlert(a, SlowWindow) = "slow"
  BY <1>1, <1>2, WindowsTyped, BurnOfWindow, StricterReaches
<1> QED
  BY <1>3, <1>4, SpeedsOf, LoudnessOf

LEMMA OutageIsFast ==
  ASSUME NEW a \in Allowance \ {0}, Failed(FastWindow) = 1 .. (FastWindow - 1),
         FastRate * a <= 1000
  PROVE  Speeds(a) = {"fast"}
<1> DEFINE w == FastWindow
           n == Cardinality(Measured(w))
<1>a. a \in Nat /\ a > 0
  <2>1. a \in 0 .. 99 /\ a # 0
    BY WindowsTyped
  <2> QED
    BY <2>1
<1>w. w \in Nat /\ w > 1
  BY WindowsTyped
<1>1. a \in Nat /\ a > 0 /\ w \in Nat /\ w > 1
  BY <1>a, <1>w
<1>2. Measured(w) = 1 .. w - 1 /\ Measured(w) # {}
  <2>1. Measured(w) \subseteq 1 .. w - 1 /\ Failed(w) \subseteq Measured(w)
    BY DEF Measured, Failed
  <2>2. 1 \in 1 .. w - 1
    BY <1>w
  <2> QED
    BY <2>1, <2>2
<1>3. n = w - 1 /\ Cardinality(Failed(w)) = w - 1
  BY <1>1, <1>2, MeasuredCounts
<1>4. Enough(w)
  BY <1>1, <1>2, <1>3 DEF Enough
<1>5. AtLeast(FastRate, a, w)
  <2>1. w - 1 \in Nat /\ FastRate * a \in Nat
    BY <1>1 DEF FastRate
  <2>2. \A x, y, z \in Nat : x <= y => x * z <= y * z
    OBVIOUS
  <2>3. FastRate * a * (w - 1) <= 1000 * (w - 1)
    BY <2>1, <2>2
  <2> QED
    BY <1>3, <2>3 DEF AtLeast
<1>6. BurnAlert(a, w) = "fast"
  BY <1>1, <1>4, <1>5, BurnOfWindow
<1> QED
  BY <1>6, SpeedsOf, OneSpeed

(* slo.ts: whatever is on record, a stricter objective is at least as loud *)
(* as a looser one, and an hour of failures burns fast.                    *)
LEMMA LoudnessHeld == StricterIsLouder
  BY StricterIsHeard, OutageIsFast DEF StricterIsLouder
-----------------------------------------------------------------------------
LEMMA InitObjectives == ObjectivesInit => ObjectivesInv
  BY WindowsTyped DEF ObjectivesInit, ObjectivesInv, ObjectivesTypeOK, PointsAreServed, Ages, Definition

LEMMA CandidatesTyped == Candidates \subseteq Objective \X {"fast", "slow"}
<1>1. ASSUME NEW o \in Watched PROVE BurnsOf(o) \subseteq Objective \X {"fast", "slow"}
  BY OneSpeed DEF Watched, BurnsOf
<1> QED
  BY <1>1 DEF Candidates

LEMMA IntervalStep ==
  ASSUME ObjectivesInv, NEW h \in {"good", "bad"}, NewInterval(h)
  PROVE  ObjectivesInv'
<1>1. PICK m \in Filed(h) :
        /\ serving' = [a \in 0..(SlowWindow - 1) |-> IF a = 0 THEN h ELSE serving[a - 1]]
        /\ points' = [a \in Ages |-> IF a = 1 THEN m ELSE points[a - 1]]
        /\ UNCHANGED <<historyOn, definition, burning>>
  BY DEF NewInterval
<1>2. /\ serving \in [0..(SlowWindow - 1) -> {"good", "bad"}]
      /\ points \in [Ages -> {"none", "good", "bad"}]
  BY DEF ObjectivesInv, ObjectivesTypeOK
<1>3. 0 \in 0..(SlowWindow - 1) /\ \A a \in Ages : a \in 0..(SlowWindow - 1) /\ a - 1 \in 0..(SlowWindow - 1)
      /\ a # 0 /\ (a # 1 => a - 1 \in Ages /\ a - 1 # 0)
  BY WindowsTyped DEF Ages
<1>4. m \in {serving[0], h, "none"} /\ m \in {"none", "good", "bad"}
  BY <1>2, <1>3 DEF Filed
<1>5. \A a \in 0..(SlowWindow - 1) : a # 0 => a - 1 \in 0..(SlowWindow - 1)
  BY WindowsTyped
<1>6. serving' \in [0..(SlowWindow - 1) -> {"good", "bad"}]
  BY <1>1, <1>2, <1>5
<1>7. points' \in [Ages -> {"none", "good", "bad"}]
  BY <1>1, <1>2, <1>3, <1>4
<1>8. ASSUME NEW a \in Ages, points'[a] = "bad"
      PROVE  serving'[a] = "bad" \/ serving'[a - 1] = "bad"
  <2>1. serving'[a] = serving[a - 1]
    BY <1>1, <1>3
  <2>2. CASE a = 1
    <3>1. m = "bad" /\ serving'[1 - 1] = h /\ serving'[1] = serving[0]
      BY <1>1, <1>3, <1>8, <2>1, <2>2
    <3> QED
      BY <1>4, <2>2, <3>1
  <2>3. CASE a # 1
    <3>1. points[a - 1] = "bad" /\ serving'[a - 1] = serving[a - 1 - 1]
      BY <1>1, <1>3, <1>8, <2>3
    <3>2. serving[a - 1] = "bad" \/ serving[a - 1 - 1] = "bad"
      BY <1>3, <2>3, <3>1 DEF ObjectivesInv, PointsAreServed
    <3> QED
      BY <2>1, <3>1, <3>2
  <2> QED
    BY <2>2, <2>3
<1>9. ObjectivesTypeOK'
  BY <1>1, <1>6, <1>7 DEF ObjectivesInv, ObjectivesTypeOK
<1> QED
  BY <1>8, <1>9 DEF ObjectivesInv, PointsAreServed

LEMMA ObjectivesStep == ObjectivesInv /\ [ObjectivesNext]_objectiveVars => ObjectivesInv'
<1> SUFFICES ASSUME ObjectivesInv, [ObjectivesNext]_objectiveVars PROVE ObjectivesInv'
  OBVIOUS
<1>1. CASE IntervalPasses
  BY <1>1, IntervalStep DEF IntervalPasses
<1>2. CASE (\E b \in BOOLEAN : SetHistory(b)) \/ AlertBurns \/ UNCHANGED objectiveVars
  <2>1. UNCHANGED <<serving, points, definition>> /\ historyOn' \in BOOLEAN
    BY <1>2 DEF SetHistory, AlertBurns, objectiveVars, ObjectivesInv, ObjectivesTypeOK
  <2>2. burning' \subseteq Objective \X {"fast", "slow"}
    BY <1>2, CandidatesTyped DEF SetHistory, AlertBurns, objectiveVars, ObjectivesInv, ObjectivesTypeOK
  <2> QED
    BY <2>1, <2>2 DEF ObjectivesInv, ObjectivesTypeOK, PointsAreServed
<1>3. ASSUME NEW o \in Objective, NEW b \in BOOLEAN, NEW n \in Allowance,
             SaveObjective(o, b, n) \/ DeleteObjective(o)
      PROVE  ObjectivesInv'
  <2>1. UNCHANGED <<historyOn, serving, points, burning>>
    BY <1>3 DEF SaveObjective, DeleteObjective
  <2>2. Unwatched \in Definition /\ [enabled |-> TRUE, allowed |-> n] \in Definition
    BY DEF Definition
  <2>3. definition' \in [Objective -> Definition]
    BY <1>3, <2>2 DEF SaveObjective, DeleteObjective, ObjectivesInv, ObjectivesTypeOK
  <2> QED
    BY <2>1, <2>3 DEF ObjectivesInv, ObjectivesTypeOK, PointsAreServed
<1>4. ASSUME NEW o \in Objective, DeleteObjective(o) PROVE ObjectivesInv'
  <2>1. UNCHANGED <<historyOn, serving, points, burning>>
    BY <1>4 DEF DeleteObjective
  <2>2. definition' \in [Objective -> Definition]
    BY <1>4 DEF DeleteObjective, ObjectivesInv, ObjectivesTypeOK, Definition
  <2> QED
    BY <2>1, <2>2 DEF ObjectivesInv, ObjectivesTypeOK, PointsAreServed
<1> QED
  BY <1>1, <1>2, <1>3, <1>4 DEF ObjectivesNext

LEMMA ObjectivesInductive == ObjectivesSpec => []ObjectivesInv
  BY InitObjectives, ObjectivesStep, PTL DEF ObjectivesSpec

(* A window that burns has failures on record, as many intervals as its    *)
(* minimum, and an interval that did fail.                                 *)
LEMMA BurnHasGrounds ==
  ASSUME ObjectivesInv, NEW allowed \in 0 .. 99, NEW s \in {"fast", "slow"},
         BurnAlert(allowed, WindowOf(s)) = s
  PROVE  /\ \E a \in 0..(WindowOf(s) - 1) : serving[a] = "bad"
         /\ 4 * Cardinality({a \in Ages : a < WindowOf(s) /\ points[a] # "none"}) >= WindowOf(s)
<1> DEFINE w == WindowOf(s)
<1>1. w \in Nat /\ w > 0 /\ w <= SlowWindow /\ SlowWindow \in Nat
  BY WindowsTyped DEF WindowOf
<1>2. Enough(w)
  BY DEF BurnAlert
<1>3. {a \in Ages : a < w /\ points[a] # "none"} = Measured(w)
  BY <1>1 DEF Measured, Ages
<1>4. Failed(w) # {}
  <2>1. CASE allowed = 0
    BY <1>2, <2>1 DEF BurnAlert
  <2>2. CASE allowed > 0
    <3>1. AtLeast(FastRate, allowed, w) \/ AtLeast(SlowRate, allowed, w)
      BY <1>2, <2>2 DEF BurnAlert
    <3>2. PICK rate \in {FastRate, SlowRate} : AtLeast(rate, allowed, w)
      BY <3>1
    <3>3. rate \in Nat /\ rate > 0 /\ allowed \in Nat
      BY <3>2 DEF FastRate, SlowRate
    <3>4. /\ Cardinality(Measured(w)) \in Nat /\ Cardinality(Measured(w)) > 0
          /\ Cardinality(Failed(w)) \in Nat
      BY <1>1, <1>2, MeasuredCounts DEF Enough
    <3>5. \A x, y \in Nat : x > 0 /\ y > 0 => x * y \in Nat /\ x * y > 0
      OBVIOUS
    <3>6. rate * allowed \in Nat /\ rate * allowed > 0
      BY <2>2, <3>3, <3>5
    <3>7. rate * allowed * Cardinality(Measured(w)) > 0
      BY <3>4, <3>5, <3>6
    <3>8. 1000 * Cardinality(Failed(w)) >= rate * allowed * Cardinality(Measured(w))
      BY <3>2 DEF AtLeast
    <3>9. Cardinality(Failed(w)) > 0
      BY <3>4, <3>6, <3>7, <3>8
    <3> QED
      BY <1>1, <3>9, MeasuredCounts
  <2> QED
    BY <2>1, <2>2
<1>5. PICK a \in 1 .. w - 1 : points[a] = "bad"
  BY <1>4 DEF Failed, Measured
<1>6. a \in Ages /\ a \in 0 .. w - 1 /\ a - 1 \in 0 .. w - 1
  BY <1>1 DEF Ages
<1>7. serving[a] = "bad" \/ serving[a - 1] = "bad"
  BY <1>5, <1>6 DEF ObjectivesInv, PointsAreServed
<1> QED
  BY <1>2, <1>3, <1>6, <1>7 DEF Enough

LEMMA BurnStep ==
  ObjectivesInv /\ [ObjectivesNext]_objectiveVars =>
    [\A o \in Objective, s \in {"fast", "slow"} : <<o, s>> \in burning' \ burning =>
       /\ historyOn /\ definition[o].enabled
       /\ \E a \in 0..(WindowOf(s) - 1) : serving[a] = "bad"
       /\ 4 * Cardinality({a \in Ages : a < WindowOf(s) /\ points[a] # "none"}) >= WindowOf(s)
       /\ \A other \in {"fast", "slow"} \ {s} : <<o, other>> \notin burning']_objectiveVars
<1> SUFFICES ASSUME ObjectivesInv, ObjectivesNext, NEW o \in Objective, NEW s \in {"fast", "slow"},
                    <<o, s>> \in burning' \ burning
             PROVE  /\ historyOn /\ definition[o].enabled
                    /\ \E a \in 0..(WindowOf(s) - 1) : serving[a] = "bad"
                    /\ 4 * Cardinality({a \in Ages : a < WindowOf(s) /\ points[a] # "none"})
                         >= WindowOf(s)
                    /\ \A other \in {"fast", "slow"} \ {s} : <<o, other>> \notin burning'
  OBVIOUS
<1>1. burning' = Candidates
  BY DEF ObjectivesNext, SetHistory, SaveObjective, DeleteObjective, IntervalPasses, NewInterval,
     AlertBurns
<1>2. historyOn /\ \A t : <<o, t>> \in Candidates => o \in Watched /\ t \in Speeds(definition[o].allowed)
  BY <1>1 DEF Candidates, BurnsOf
<1>3. o \in Watched /\ s \in Speeds(definition[o].allowed)
  BY <1>1, <1>2
<1>4. definition[o].enabled /\ definition[o].allowed \in 0 .. 99
  <2>1. definition[o] = Unwatched \/ definition[o] \in [enabled : {TRUE}, allowed : Allowance]
    BY DEF ObjectivesInv, ObjectivesTypeOK, Definition
  <2>2. definition[o].enabled
    BY <1>3 DEF Watched
  <2>3. definition[o].allowed = 0 \/ definition[o].allowed \in Allowance
    <3>1. Unwatched.allowed = 0
      BY DEF Unwatched
    <3>2. \A d \in [enabled : {TRUE}, allowed : Allowance] : d.allowed \in Allowance
      OBVIOUS
    <3> QED
      BY <2>1, <3>1, <3>2
  <2> QED
    BY <2>2, <2>3, WindowsTyped
<1>5. BurnAlert(definition[o].allowed, WindowOf(s)) = s
  BY <1>3, OneSpeed
<1>6. \A other \in {"fast", "slow"} \ {s} : other \notin Speeds(definition[o].allowed)
  BY <1>3, OneSpeed
<1> QED
  BY <1>1, <1>2, <1>4, <1>5, <1>6, BurnHasGrounds

(* sloBurnCandidates names a burn only of an objective that is watched and *)
(* of which failures are on record, in the window it names, and one speed  *)
(* of it.                                                                  *)
THEOREM BurnsAreReal == ObjectivesSpec => BurnIsReal
<1>1. ObjectivesInv /\ [ObjectivesNext]_objectiveVars =>
        [\A o \in Objective, s \in {"fast", "slow"} : <<o, s>> \in burning' \ burning =>
           /\ historyOn /\ definition[o].enabled
           /\ \E a \in 0..(WindowOf(s) - 1) : serving[a] = "bad"
           /\ 4 * Cardinality({a \in Ages : a < WindowOf(s) /\ points[a] # "none"}) >= WindowOf(s)
           /\ \A other \in {"fast", "slow"} \ {s} : <<o, other>> \notin burning']_objectiveVars
  BY BurnStep
<1> QED
  BY <1>1, ObjectivesInductive, PTL DEF ObjectivesSpec, BurnIsReal
-----------------------------------------------------------------------------
(* The jobs as the collector runs them: each behaviour is one of every     *)
(* part.                                                                   *)
LEMMA PartsStart ==
  Init => /\ part \in Parts
          /\ PushInit /\ ScanInit /\ IncidentInit /\ SummaryInit /\ ErrorsInit /\ CheckInit
          /\ ObjectivesInit
  BY DEF Init

LEMMA PartsStep ==
  [Next]_vars => /\ part' = part
                 /\ [PushNext]_pushVars /\ [ScanNext]_scanVars
                 /\ [IncidentNext]_incidentVars /\ [SummaryNext]_summaryVars
                 /\ [ErrorsNext]_errorVars /\ [CheckNext]_checkVars
                 /\ [ObjectivesNext]_objectiveVars
<1> SUFFICES ASSUME [Next]_vars
             PROVE  /\ part' = part
                    /\ [PushNext]_pushVars /\ [ScanNext]_scanVars
                    /\ [IncidentNext]_incidentVars /\ [SummaryNext]_summaryVars
                    /\ [ErrorsNext]_errorVars /\ [CheckNext]_checkVars
                    /\ [ObjectivesNext]_objectiveVars
  OBVIOUS
<1>1. CASE UNCHANGED vars
  BY <1>1 DEF vars
<1>2. CASE Only("push", PushNext)
  BY <1>2 DEF Only
<1>3. CASE Only("scan", ScanNext)
  BY <1>3 DEF Only
<1>4. CASE Only("incidents", IncidentNext)
  BY <1>4 DEF Only
<1>5. CASE Only("summary", SummaryNext)
  BY <1>5 DEF Only
<1>6. CASE Only("errors", ErrorsNext)
  BY <1>6 DEF Only
<1>7. CASE Only("checks", CheckNext)
  BY <1>7 DEF Only
<1>8. CASE Only("objectives", ObjectivesNext)
  BY <1>8 DEF Only
<1> QED
  BY <1>1, <1>2, <1>3, <1>4, <1>5, <1>6, <1>7, <1>8 DEF Next

LEMMA PartsFollow ==
  Spec => /\ [](part \in Parts)
          /\ PushSpec /\ ScanSpec /\ IncidentSpec /\ SummarySpec /\ ErrorsSpec /\ CheckSpec
          /\ ObjectivesSpec
<1>1. part \in Parts /\ [Next]_vars => (part \in Parts)'
  BY PartsStep
<1> QED
  BY <1>1, PartsStart, PartsStep, PTL
     DEF Spec, PushSpec, ScanSpec, IncidentSpec, SummarySpec, ErrorsSpec, CheckSpec, ObjectivesSpec

(* The state of every job is in range.                                     *)
THEOREM JobsTyped == Spec => []TypeOK
<1>1. ScanInv => ScanTypeOK
  BY DEF ScanInv
<1>2. SummaryInv => SummaryTypeOK
  BY DEF SummaryInv
<1>3. ErrorsInv => ErrorsTypeOK
  BY DEF ErrorsInv
<1>4. CheckInv => CheckTypeOK
  BY DEF CheckInv
<1>5. ObjectivesInv => ObjectivesTypeOK
  BY DEF ObjectivesInv
<1>6. (/\ part \in Parts
       /\ PushTypeOK /\ ScanTypeOK /\ IncidentTypeOK /\ SummaryTypeOK
       /\ ErrorsTypeOK /\ CheckTypeOK /\ ObjectivesTypeOK) => TypeOK
  BY DEF TypeOK
<1> QED
  BY <1>1, <1>2, <1>3, <1>4, <1>5, <1>6, PartsFollow, PushTyped, IncidentsTyped, ScanInductive,
     SummaryInductive, ErrorsInductive, CheckInductive, ObjectivesInductive, PTL

(* logs-budget.ts and slo-burn.ts: what is measured is measured in full.   *)
THEOREM MeasuresOfJobsAreTrue == Spec => []MeasuresAreTrue
<1>1. BudgetIsTrue => MeasuresAreTrue
  BY LoudnessHeld DEF MeasuresAreTrue
<1> QED
  BY <1>1, PartsFollow, BudgetIsKept, PTL

(* error-groups.ts, synthetic-job.ts and slo-burn.ts: what a job calls a   *)
(* regression, an outage, a recovery or a burn is one.                     *)
THEOREM VerdictsOfJobsHaveGrounds == Spec => VerdictsHaveGrounds
<1>1. RegressionMeansSilence /\ VerdictHasGrounds /\ BurnIsReal => VerdictsHaveGrounds
  BY DEF VerdictsHaveGrounds
<1> QED
  BY <1>1, PartsFollow, RegressionsWereSilent, VerdictsOfChecks, BurnsAreReal, PTL

(* weekly-job.ts: an environment has its summary once a week.              *)
THEOREM SummariesOfJobsAreWeekly == Spec => []OnceAWeek
  BY PartsFollow, SummariesAreWeekly, PTL

(* queue.ts, drain.ts and incidents.ts, whatever other job runs: the queue *)
(* loses no line and none is counted too often, its order is kept, a       *)
(* service has one open incident, a dismissal holds and a cycle that ends  *)
(* leaves no service in trouble without one.                               *)
THEOREM QueueAndIncidentsOfJobsHold ==
  Spec => /\ []QueueAccounts /\ OldestFirst
          /\ []OneOpenPerService /\ DismissalHolds /\ TogetherIsCovered
  BY PartsFollow, QueueIsAccounted, ProcessedOldestFirst, OneOpenIncident, DismissalIsHeld,
     CyclesCover, PTL
=============================================================================
