------------------------------ MODULE MCRequests ------------------------------
(***************************************************************************)
(* Small instances of what serves requests: sign-in (LoginThrottle,        *)
(* Sessions), the read cache (ReadCache), the log search (LogSearch), the  *)
(* forwarding of log groups (Forwarding), the machines (Machines) and the  *)
(* connections with their credentials (Connections).                       *)
(*                                                                         *)
(* They share no state, so their product would say nothing about one that  *)
(* the module alone does not say: each behaviour runs one of them, and the *)
(* others stay where they start.                                           *)
(***************************************************************************)
EXTENDS LoginThrottle, Sessions, ReadCache, LogSearch, Forwarding, Machines,
        Connections, TLC

CONSTANTS a1, a2, a3, c1, c2, h1, e1

VARIABLE part

Parts == {"throttle", "sessions", "cache", "search", "forwarding", "machines",
          "connections"}

vars == <<part, throttleVars, sessionVars, cacheVars, searchVars, forwardVars, machineVars,
          connectionVars>>

(* A step of part p, and of no other. *)
Only(p, A) ==
  /\ part = p /\ A /\ UNCHANGED part
  /\ p # "throttle" => UNCHANGED throttleVars
  /\ p # "sessions" => UNCHANGED sessionVars
  /\ p # "cache" => UNCHANGED cacheVars
  /\ p # "search" => UNCHANGED searchVars
  /\ p # "forwarding" => UNCHANGED forwardVars
  /\ p # "machines" => UNCHANGED machineVars
  /\ p # "connections" => UNCHANGED connectionVars

Init ==
  /\ part \in Parts
  /\ ThrottleInit /\ SessionInit /\ CacheInit /\ SearchInit /\ ForwardInit /\ MachinesInit
  /\ ConnectionsInit
  /\ part # "cache" => \A f \in Load : key[f] = CHOOSE k \in CacheKey : TRUE

Next ==
  \/ Only("throttle", ThrottleNext)
  \/ Only("sessions", SessionNext)
  \/ Only("cache", CacheNext)
  \/ Only("search", SearchNext)
  \/ Only("forwarding", ForwardNext)
  \/ Only("machines", MachinesNext)
  \/ Only("connections", ConnectionsNext)

(* The fairness of each part, while it is the one that runs. *)
Fairness ==
  /\ \A a \in Attempt : WF_vars(Only("throttle", Take(a)))
  /\ WF_vars(Only("throttle", ThrottleTick))
  /\ WF_vars(Only("search", Loop))
  /\ WF_vars(Only("search", SearchTick))
  /\ \A e \in Place : WF_vars(Only("machines", AlertMachines(e)))

Spec == Init /\ [][Next]_vars /\ Fairness
-----------------------------------------------------------------------------
MCClientOf == a1 :> c1 @@ a2 :> c1 @@ a3 :> c2
MCRolling == [a \in Audience |-> IF a = "web" THEN 1 ELSE 2]
MCCeiling == [a \in Audience |-> IF a = "web" THEN 2 ELSE 3]

(* The state of every part is in range. *)
TypeOK ==
  /\ part \in Parts
  /\ ThrottleTypeOK /\ SessionTypeOK /\ CacheTypeOK /\ SearchTypeOK
  /\ ForwardTypeOK /\ MachinesTypeOK /\ ConnectionsTypeOK

(* What the tables say of the cloud agrees with it: subscription filters   *)
(* (Forwarding), where machines run (Machines) and whether a connection     *)
(* works (Connections).                                                    *)
RowsAgreeWithCloud ==
  /\ ActiveIsForwarded /\ NoFilterIsForgotten /\ PlaceIsConnected
  /\ StatusIsEarned /\ UsableIsReady

(* What is kept for a while is what was asked for, and still good: results  *)
(* (ReadCache) and the credentials of a role (Connections).                *)
CachesHold == CacheHolds /\ CredentialsAreAsked

(* No attempt overtakes the slowdown or takes the outcome of another       *)
(* (LoginThrottle), no machine is taken from its place (Machines).         *)
TurnsAndPlacesHold == SlowdownSpaces /\ OwnOutcome /\ PlacementIsKept

(* Every turn comes (LoginThrottle), every search ends (LogSearch) and the *)
(* alerts of machines catch up with them (Machines).  The attempts of one  *)
(* client are alike, and so are the places: one stands for all.            *)
RequestsComeToAnEnd ==
  EveryTurnComes(a1) /\ EveryTurnComes(a3) /\ SearchEnds /\ AlertsCatchUp(h1, e1)
=============================================================================
