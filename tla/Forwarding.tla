------------------------------ MODULE Forwarding ------------------------------
(***************************************************************************)
(* What managed collection leaves in an account: aws/collection.ts, which  *)
(* starts and stops forwarding a log group, turns the feature on and off   *)
(* and verifies the forwarder, against the rule of                         *)
(* monitoring/shared/subscription-conflict.ts.                             *)
(*                                                                         *)
(* Each request awaits AWS between the rows it reads and the rows it       *)
(* writes, and another request may run meanwhile.  What AWS does and what  *)
(* the request does once it has the answer are two steps.  AWS does what   *)
(* it was asked, refuses, or does it and the answer is lost.  One          *)
(* connection and one region; the secret, the queue and the stack's own    *)
(* state are the business of LogPush and of the page.                      *)
(***************************************************************************)
EXTENDS Integers, FiniteSets

CONSTANTS
  Group,        \* log groups
  Forwarder,    \* the ARNs a forwarder has had
  NoForwarder,  \* null
  Request,      \* the requests that may be under way at once
  NoAnswer      \* AWS has not answered

CloudAnswer == [of : Group, says : {"put", "already", "conflict", "done", "failed"}]

ASSUME ForwardingAssumption ==
  NoForwarder \notin Forwarder /\ NoAnswer \notin CloudAnswer

VARIABLES
  feature,    \* collection.managed
  source,     \* collection.realtimeLogs
  arn,        \* readStack(...).forwarderArn
  groupRow,   \* per group, aws_forwarded_groups: "none", "active", "failed"
  filter,     \* AWS: the ARN our filter on a group points to
  vendor,     \* AWS: the groups that carry another vendor's filter
  request,    \* per request: "idle", "describing", "putting", "deleting"
  subject,    \* per request, the groups it has still to come to
  aim,        \* per request, the ARN it read
  answer,     \* per request, what AWS answered of a group, until it is heard
  closing,    \* the requests that turn the feature off
  contested,  \* observation: groups two requests were at together
  reported    \* observation: groups whose removal was said to have failed

forwardVars == <<feature, source, arn, groupRow, filter, vendor, request, subject, aim, answer,
                 closing, contested, reported>>
-----------------------------------------------------------------------------
Ours(g) == filter[g] # NoForwarder

(* decideSubscription: create and update are one call. *)
Decide(g, to) ==
  IF g \in vendor THEN "conflict"
  ELSE IF filter[g] = to THEN "already" ELSE "put"

RowAfterRefusal(g) == [groupRow EXCEPT ![g] = "active"]   \* mutant: the row is written first

RowAfterFailure(g) == [groupRow EXCEPT ![g] = "failed"]

(* listForwardedGroups *)
Listed == {g \in Group : groupRow[g] # "none"}

Heard(r, g, says) == answer' = [answer EXCEPT ![r] = [of |-> g, says |-> says]]

(* Two requests at one group, once a request comes to the groups s. *)
MeetsAt(r, s) ==
  {g \in s : \E q \in Request \ {r} : request[q] # "idle" /\ g \in subject[q]}

ReportedNever(g) == reported   \* mutant: a filter that stays is swallowed

ReportedAlso(g) == reported \cup {g}

Release(r) ==
  /\ request' = [request EXCEPT ![r] = "idle"]
  /\ subject' = [subject EXCEPT ![r] = {}]
  /\ aim' = [aim EXCEPT ![r] = NoForwarder]
  /\ answer' = [answer EXCEPT ![r] = NoAnswer]
-----------------------------------------------------------------------------
ForwardInit ==
  /\ feature = FALSE /\ source = FALSE /\ arn = NoForwarder
  /\ groupRow = [g \in Group |-> "none"]
  /\ filter = [g \in Group |-> NoForwarder]
  /\ vendor = {}
  /\ request = [r \in Request |-> "idle"]
  /\ subject = [r \in Request |-> {}]
  /\ aim = [r \in Request |-> NoForwarder]
  /\ answer = [r \in Request |-> NoAnswer]
  /\ closing = {} /\ contested = {} /\ reported = {}

(* enableManagedCollection: the log source goes off with it. *)
EnableFeature ==
  /\ feature' = TRUE /\ source' = FALSE
  /\ UNCHANGED <<arn, groupRow, filter, vendor, request, subject, aim, answer,
                 closing, contested, reported>>

(* saveCollectionSettingsAction *)
SwitchSource ==
  /\ source' = ~source
  /\ UNCHANGED <<feature, arn, groupRow, filter, vendor, request, subject, aim, answer, closing,
                 contested, reported>>

(* verifyForwarder: the ARN is written whether or not AWS confirms it. *)
VerifyForwarder(f) ==
  /\ arn' = f
  /\ UNCHANGED <<feature, source, groupRow, filter, vendor, request, subject, aim, answer, closing,
                 contested, reported>>

(* Another vendor's filter comes to a group, beside ours or not, or goes. *)
VendorActs(g) ==
  /\ vendor' = IF g \in vendor THEN vendor \ {g} ELSE vendor \cup {g}
  /\ UNCHANGED <<feature, source, arn, groupRow, filter, request, subject, aim, answer, closing,
                 contested, reported>>
-----------------------------------------------------------------------------
(* toggleLogGroupAction and startForwarding *)
StartForwarding(r, g) ==
  /\ request[r] = "idle"
  /\ feature /\ source /\ arn # NoForwarder
  /\ request' = [request EXCEPT ![r] = "describing"]
  /\ subject' = [subject EXCEPT ![r] = {g}]
  /\ aim' = [aim EXCEPT ![r] = arn]
  /\ contested' = contested \cup MeetsAt(r, {g})
  /\ UNCHANGED <<feature, source, arn, groupRow, filter, vendor, answer, closing, reported>>

(* describeSubscriptions answers, or the target or the call fails... *)
Describe(r, g) ==
  /\ request[r] = "describing" /\ subject[r] = {g} /\ answer[r] = NoAnswer
  /\ \E says \in {Decide(g, aim[r]), "failed"} : Heard(r, g, says)
  /\ UNCHANGED <<feature, source, arn, groupRow, filter, vendor, request, subject, aim, closing,
                 contested, reported>>

(* ... and the request goes on. *)
Described(r, g) ==
  /\ request[r] = "describing" /\ answer[r] # NoAnswer /\ answer[r].of = g
  /\ \/ /\ answer[r].says = "put"
        /\ request' = [request EXCEPT ![r] = "putting"]
        /\ answer' = [answer EXCEPT ![r] = NoAnswer]
        /\ UNCHANGED <<groupRow, subject, aim>>
     \/ answer[r].says = "already" /\ groupRow' = [groupRow EXCEPT ![g] = "active"] /\ Release(r)
     \/ answer[r].says = "conflict" /\ groupRow' = RowAfterFailure(g) /\ Release(r)
     \/ answer[r].says = "failed" /\ UNCHANGED groupRow /\ Release(r)
  /\ UNCHANGED <<feature, source, arn, filter, vendor, closing, contested, reported>>

(* putSubscription: whether there is room is AWS's to say... *)
Put(r, g) ==
  /\ request[r] = "putting" /\ subject[r] = {g} /\ answer[r] = NoAnswer
  /\ \E made, told \in BOOLEAN :
       /\ told => made
       /\ filter' = IF made THEN [filter EXCEPT ![g] = aim[r]] ELSE filter
       /\ Heard(r, g, IF told THEN "done" ELSE "failed")
  /\ UNCHANGED <<feature, source, arn, groupRow, vendor, request, subject, aim, closing,
                 contested, reported>>

(* ... and the row says what it said. *)
PutAnswered(r, g) ==
  /\ request[r] = "putting" /\ answer[r] # NoAnswer /\ answer[r].of = g
  /\ groupRow' = IF answer[r].says = "done" THEN [groupRow EXCEPT ![g] = "active"]
                 ELSE RowAfterFailure(g)
  /\ Release(r)
  /\ UNCHANGED <<feature, source, arn, filter, vendor, closing, contested, reported>>

(* toggleLogGroupAction, off. *)
BeginStop(r, g) ==
  /\ request[r] = "idle"
  /\ request' = [request EXCEPT ![r] = "deleting"]
  /\ subject' = [subject EXCEPT ![r] = {g}]
  /\ contested' = contested \cup MeetsAt(r, {g})
  /\ UNCHANGED <<feature, source, arn, groupRow, filter, vendor, aim, answer, closing,
                 reported>>

(* disableManagedCollection: the groups are listed once. *)
BeginDisable(r) ==
  /\ request[r] = "idle"
  /\ request' = [request EXCEPT ![r] = "deleting"]
  /\ subject' = [subject EXCEPT ![r] = Listed]
  /\ closing' = closing \cup {r}
  /\ contested' = contested \cup MeetsAt(r, Listed)
  /\ UNCHANGED <<feature, source, arn, groupRow, filter, vendor, aim, answer, reported>>

(* deleteSubscription, for one of them... *)
Delete(r, g) ==
  /\ request[r] = "deleting" /\ g \in subject[r] /\ answer[r] = NoAnswer
  /\ \E gone, told \in BOOLEAN :
       /\ told => gone
       /\ filter' = IF gone THEN [filter EXCEPT ![g] = NoForwarder] ELSE filter
       /\ Heard(r, g, IF told THEN "done" ELSE "failed")
  /\ UNCHANGED <<feature, source, arn, groupRow, vendor, request, subject, aim, closing,
                 contested, reported>>

(* ... and the row goes whatever AWS says. *)
Deleted(r, g) ==
  /\ request[r] = "deleting" /\ answer[r] # NoAnswer /\ answer[r].of = g
  /\ groupRow' = [groupRow EXCEPT ![g] = "none"]
  /\ reported' = IF answer[r].says = "done" THEN reported ELSE ReportedAlso(g)
  /\ subject' = [subject EXCEPT ![r] = @ \ {g}]
  /\ answer' = [answer EXCEPT ![r] = NoAnswer]
  /\ UNCHANGED <<feature, source, arn, filter, vendor, request, aim, closing, contested>>

(* After the last one. *)
EndStop(r) ==
  /\ request[r] = "deleting" /\ subject[r] = {}
  /\ Release(r)
  /\ closing' = closing \ {r}
  /\ IF r \in closing THEN feature' = FALSE /\ source' = FALSE /\ arn' = NoForwarder
     ELSE UNCHANGED <<feature, source, arn>>
  /\ UNCHANGED <<groupRow, filter, vendor, contested, reported>>

ForwardNext ==
  \/ EnableFeature \/ SwitchSource
  \/ \E f \in Forwarder : VerifyForwarder(f)
  \/ \E g \in Group : VendorActs(g)
  \/ \E r \in Request, g \in Group :
       \/ StartForwarding(r, g) \/ Describe(r, g) \/ Described(r, g)
       \/ Put(r, g) \/ PutAnswered(r, g)
       \/ BeginStop(r, g) \/ Delete(r, g) \/ Deleted(r, g)
  \/ \E r \in Request : BeginDisable(r) \/ EndStop(r)

ForwardSpec == ForwardInit /\ [][ForwardNext]_forwardVars
-----------------------------------------------------------------------------
ForwardTypeOK ==
  /\ feature \in BOOLEAN /\ source \in BOOLEAN
  /\ arn \in Forwarder \cup {NoForwarder}
  /\ groupRow \in [Group -> {"none", "active", "failed"}]
  /\ filter \in [Group -> Forwarder \cup {NoForwarder}] /\ vendor \in SUBSET Group
  /\ request \in [Request -> {"idle", "describing", "putting", "deleting"}]
  /\ subject \in [Request -> SUBSET Group]
  /\ aim \in [Request -> Forwarder \cup {NoForwarder}]
  /\ answer \in [Request -> CloudAnswer \cup {NoAnswer}]
  /\ closing \in SUBSET Request
  /\ contested \in SUBSET Group /\ reported \in SUBSET Group

(* The groups no request is at, and no two requests were at together. *)
Undisturbed == {g \in Group \ contested : \A r \in Request : g \notin subject[r]}

(* "A row claiming OpsWatch is forwarding a group it is not would be worse *)
(* than no row": the errors job passes over an active group, so its lines  *)
(* would be read by nobody.  An active row has its filter, whatever AWS    *)
(* refused and whichever answer was lost.                                  *)
ActiveIsForwarded ==
  \A g \in Undisturbed : groupRow[g] = "active" => Ours(g)

(* A filter of ours always has its row, so that turning the feature off    *)
(* finds it; one that could not be removed "is reported rather than        *)
(* swallowed".                                                             *)
NoFilterIsForgotten ==
  \A g \in Undisturbed : Ours(g) => groupRow[g] # "none" \/ g \in reported
=============================================================================
