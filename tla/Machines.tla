------------------------------- MODULE Machines -------------------------------
(***************************************************************************)
(* The Linux hosts and what their agents report: store/hosts.ts, the route *)
(* that takes a report, the instances page that places a machine in an     *)
(* environment, and the machine candidates of the alert cycle              *)
(* (collector/machine-alerts.ts, monitoring/shared/host-findings.ts).      *)
(*                                                                         *)
(* A report, a cycle and an operator's request are one synchronous section *)
(* each; the page awaits the cloud between resolving its connection and    *)
(* writing where a machine is.  The alert cycle itself is module           *)
(* AlertCycle: here it opens and resolves in one step.  A reading is a     *)
(* full disk or it is fine; older samples and services are left out.       *)
(***************************************************************************)
EXTENDS Integers, FiniteSets

CONSTANTS
  Host,        \* host ids, each used once
  Machine,     \* the boxes an agent may run on
  NoMachine,   \* null
  Place,       \* the environments: a connection and its region
  NoPlace,     \* null
  Name,        \* what an operator calls a host
  StaleAfter,  \* HOST_STALE_AFTER_MS
  Covered      \* the kinds the machine rule covers

ASSUME MachinesAssumption ==
  /\ NoMachine \notin Machine /\ NoPlace \notin Place
  /\ StaleAfter \in Nat /\ Name # {}

VARIABLES
  host,       \* the hosts table
  removed,    \* the hosts that were deleted
  connected,  \* the environments that are connected
  readable,   \* those for which resolveTarget finds credentials
  listing,    \* the environments whose instances page awaits the cloud
  firing,     \* the open machine alerts, by environment and subject key
  overtaken   \* observation: environments removed while their page awaited

machineVars == <<host, removed, connected, readable, listing, firing, overtaken>>
-----------------------------------------------------------------------------
Silent == StaleAfter + 1

HostRow == [there : BOOLEAN, name : Name, machineId : Machine \cup {NoMachine},
            runsOn : Machine \cup {NoMachine},   \* cloudInstanceId
            reported : BOOLEAN,                  \* lastSeenAt is set
            quiet : 0 .. Silent,                 \* its age
            diskFull : BOOLEAN,                  \* in its last sample
            place : Place \cup {NoPlace}]

NoHost == [there |-> FALSE, name |-> CHOOSE n \in Name : TRUE, machineId |-> NoMachine,
           runsOn |-> NoMachine, reported |-> FALSE, quiet |-> 0, diskFull |-> FALSE,
           place |-> NoPlace]

(* hostClaiming, and the unique index behind it. *)
Claimed(h, m) == \E o \in Host \ {h} : host[o].machineId = m

Quieter(n) == IF n < Silent THEN n + 1 ELSE n

HostState(h) ==
  IF ~host[h].reported THEN "waiting"
  ELSE IF host[h].quiet <= StaleAfter THEN "healthy" ELSE "stale"

FindingsOfSample(h) ==   \* mutant: the last sample outlives the silence
  IF host[h].diskFull THEN {<<"disk_full", "/">>}
  ELSE IF HostState(h) = "stale" THEN {<<"stopped_reporting", host[h].name>>} ELSE {}

(* hostFindings: a kind and its subject, the name of the machine or a      *)
(* mount point.                                                            *)
HostFindings(h) ==
  CASE HostState(h) = "stale" -> {<<"stopped_reporting", host[h].name>>}
    [] HostState(h) = "healthy" /\ host[h].diskFull -> {<<"disk_full", "/">>}
    [] OTHER -> {}

(* hostsInEnvironment, machineCandidates and ruleMatches. *)
PlacedIn(e) == {h \in Host : host[h].there /\ host[h].place = e}

SubjectKeys(e) ==
  UNION {{<<e, h, f>> : f \in {f \in HostFindings(h) : f[1] \in Covered}} : h \in PlacedIn(e)}

(* linkHostToConnection keeps the first. *)
LinkedOver(h, e) == e   \* mutant

Linked(h, e) == IF host[h].place = NoPlace THEN e ELSE host[h].place

(* purgeConnectionData unlinks. *)
KeptPlaced(e) == host   \* mutant

Unplaced(e) == [h \in Host |-> IF host[h].place = e
                               THEN [host[h] EXCEPT !.place = NoPlace] ELSE host[h]]
-----------------------------------------------------------------------------
MachinesInit ==
  /\ host = [h \in Host |-> NoHost]
  /\ removed = {} /\ connected = Place /\ readable = Place
  /\ listing = {} /\ firing = {} /\ overtaken = {}

(* createHostAction *)
CreateHost(h, n) ==
  /\ ~host[h].there /\ h \notin removed
  /\ host' = [host EXCEPT ![h] = [NoHost EXCEPT !.there = TRUE, !.name = n]]
  /\ UNCHANGED <<removed, connected, readable, listing, firing, overtaken>>

RenameHost(h, n) ==
  /\ host[h].there
  /\ host' = [host EXCEPT ![h].name = n]
  /\ UNCHANGED <<removed, connected, readable, listing, firing, overtaken>>

DeleteHost(h) ==
  /\ host[h].there
  /\ host' = [host EXCEPT ![h] = NoHost]
  /\ removed' = removed \cup {h}
  /\ UNCHANGED <<connected, readable, listing, firing, overtaken>>

(* The agent with the secret of h, on machine m, which may state its id:   *)
(* a conflict is refused, and an id once written stays.                    *)
Report(h, m, states, full) ==
  /\ host[h].there
  /\ states /\ host[h].machineId = NoMachine => ~Claimed(h, m)
  /\ states /\ host[h].machineId # NoMachine => host[h].machineId = m
  /\ host' = [host EXCEPT ![h] =
       [host[h] EXCEPT !.machineId = IF states THEN m ELSE @, !.runsOn = m,
                 !.reported = TRUE, !.quiet = 0, !.diskFull = full]]
  /\ UNCHANGED <<removed, connected, readable, listing, firing, overtaken>>

(* The role of e can no longer be assumed, or can be again. *)
CredentialsChange(e) ==
  /\ readable' = IF e \in readable THEN readable \ {e} ELSE readable \cup {e}
  /\ UNCHANGED <<host, removed, connected, listing, firing, overtaken>>

(* The instances page: its target is resolved, then the instances come. *)
OpenInstances(e) ==
  /\ e \in (connected \cap readable) \ listing
  /\ listing' = listing \cup {e}
  /\ UNCHANGED <<host, removed, connected, readable, firing, overtaken>>

(* The page writes what it was given: nothing, when the cloud failed it.   *)
InstancesListed(e, M) ==
  /\ e \in listing
  /\ listing' = listing \ {e}
  /\ \E H \in SUBSET {h \in Host : host[h].there /\ host[h].runsOn \in M} :
       \* hostsByCloudInstance holds one host of each instance
       /\ \A m \in M : Cardinality({h \in H : host[h].runsOn = m}) <= 1
       /\ \A h \in Host : host[h].there /\ host[h].runsOn \in M =>
            \E o \in H : host[o].runsOn = host[h].runsOn
       /\ host' = [h \in Host |-> IF h \in H THEN [host[h] EXCEPT !.place = Linked(h, e)]
                                  ELSE host[h]]
  /\ UNCHANGED <<removed, connected, readable, firing, overtaken>>

(* unlinkHostAction *)
UnlinkHost(h) ==
  /\ host[h].there /\ host[h].place # NoPlace
  /\ host' = [host EXCEPT ![h].place = NoPlace]
  /\ UNCHANGED <<removed, connected, readable, listing, firing, overtaken>>

(* deleteConnectionAction *)
RemovePlace(e) ==
  /\ e \in connected
  /\ connected' = connected \ {e}
  /\ host' = Unplaced(e)
  /\ firing' = {k \in firing : k[1] # e}
  /\ overtaken' = IF e \in listing THEN overtaken \cup {e} ELSE overtaken
  /\ UNCHANGED <<removed, readable, listing>>

(* runAlertCycle, the part of the machines, in a detect job whose target   *)
(* was resolved: one that finds no credentials throws before.  The         *)
(* environments that place machines are AWS, which has families to read.   *)
AlertMachines(e) ==
  /\ e \in connected \cap readable
  /\ firing' = {k \in firing : k[1] # e} \cup SubjectKeys(e)
  /\ UNCHANGED <<host, removed, connected, readable, listing, overtaken>>

MachinesTick ==
  /\ host' = [h \in Host |-> IF host[h].reported
                             THEN [host[h] EXCEPT !.quiet = Quieter(@)] ELSE host[h]]
  /\ UNCHANGED <<removed, connected, readable, listing, firing, overtaken>>

MachinesNext ==
  \/ \E h \in Host, n \in Name : CreateHost(h, n) \/ RenameHost(h, n)
  \/ \E h \in Host : DeleteHost(h) \/ UnlinkHost(h)
  \/ \E h \in Host, m \in Machine, s, f \in BOOLEAN : Report(h, m, s, f)
  \/ \E e \in Place : OpenInstances(e) \/ RemovePlace(e) \/ AlertMachines(e)
                    \/ CredentialsChange(e)
  \/ \E e \in Place, M \in SUBSET Machine : InstancesListed(e, M)
  \/ MachinesTick

MachinesSpec == MachinesInit /\ [][MachinesNext]_machineVars
-----------------------------------------------------------------------------
MachinesTypeOK ==
  /\ host \in [Host -> HostRow] /\ removed \in SUBSET Host
  /\ connected \in SUBSET Place /\ readable \in SUBSET Place
  /\ listing \in SUBSET Place /\ overtaken \in SUBSET Place
  /\ \A k \in firing : k[1] \in Place /\ k[2] \in Host

(* "The first account to find a machine keeps it": two pages over one      *)
(* account do not pass it back and forth.                                  *)
PlacementIsKept ==
  [][\A h \in Host : host[h].place # NoPlace /\ host'[h].place # host[h].place
       => host'[h].place = NoPlace]_machineVars

(* No machine is placed in a connection that was removed, unless its page  *)
(* awaited the cloud meanwhile: that page writes the place it no longer    *)
(* has, and nothing clears it.                                             *)
PlaceIsConnected ==
  \A h \in Host : host[h].place # NoPlace => host[h].place \in connected \cup overtaken

(* A machine of e that stopped reporting, and an open alert that says so. *)
Stopped(h, e) == h \in PlacedIn(e) /\ HostState(h) = "stale"

SaidToBeStopped(h, e) ==
  \E k \in firing : k[1] = e /\ k[2] = h /\ k[3][1] = "stopped_reporting"

(* The alerts catch up with the machines: one that stays silent is alerted *)
(* about, also if its last reading was a full disk; the alert of one that  *)
(* reports again, was taken out of the account or was deleted is resolved. *)
(* Where the credentials are gone nothing is promised: no job reaches the  *)
(* alerts there, though no machine is read through them.                   *)
AlertsCatchUp(h, e) ==
  (e \in connected \cap readable /\ SaidToBeStopped(h, e) # Stopped(h, e)) ~>
    (e \notin connected \cap readable \/ SaidToBeStopped(h, e) = Stopped(h, e))
=============================================================================
