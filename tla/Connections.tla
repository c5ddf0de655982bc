------------------------------ MODULE Connections ------------------------------
(***************************************************************************)
(* Cloud connections and their credentials: connections/repository.ts and  *)
(* connections/test-connection.ts, the actions of accounts/actions.ts, the *)
(* role credentials aws/credentials.ts keeps, and monitoring/target.ts,    *)
(* through which everything that reads a cloud gets them.                  *)
(*                                                                         *)
(* A call (a test, or a read) reads the row, awaits the credentials and,   *)
(* for a test, the cloud's answers; the row may be changed or removed      *)
(* meanwhile.  The Google and DigitalOcean verifications are calls that    *)
(* await nothing but the answers.  What a row's name and regions are is    *)
(* not modelled, one process is, and `version` numbers what a row proves   *)
(* itself with: its external ID or its keys, in the order they were set.   *)
(***************************************************************************)
EXTENDS Integers

CONSTANTS
  Connection,   \* ids
  Caller,       \* calls that may be under way at once
  NoCredential, \* null
  MaxVersion,   \* bound: how often a row's credentials are set
  Lifetime,     \* ASSUME_ROLE_DURATION_SECONDS
  RefreshWindow \* REFRESH_WINDOW_MS

ConnectionMethod == {"role", "ambient", "keys", "federation", "token"}

ASSUME ConnectionsAssumption ==
  /\ MaxVersion \in Nat \ {0} /\ RefreshWindow \in Nat /\ Lifetime \in Nat
  /\ RefreshWindow < Lifetime

VARIABLES
  method,     \* connections.method, "none" before the row
  status,     \* connections.status, "none" before the row and "removed" after it
  version,    \* which external ID or keys the row holds, 0 when it has none
  roleSaved,  \* connections.roleArn # null
  lastTest,   \* overall of connections.lastTest, "none" when null
  creds,      \* per connection and external ID, the cached credentials
  forgetting, \* connections changed, whose credentials are still to be forgotten
  leaving,    \* connections whose forwarding is being stopped before they go
  call,       \* per caller, the call under way
  verdictOn,  \* observation: the version the last saved test was of
  slipped,    \* observation: that version changed while its test was under way
  handed      \* observation: the credentials the last step gave a read

connectionVars == <<method, status, version, roleSaved, lastTest, creds, forgetting, leaving, call,
                    verdictOn, slipped, handed>>
-----------------------------------------------------------------------------
Verdict == {"ok", "degraded", "failed"}
ConnectionStatus == {"draft", "pending"} \cup Verdict

RowOf(c) == status[c] \in ConnectionStatus   \* findConnection

(* What a call proves itself with is there: credentialsInputFor does not    *)
(* throw, and Google and DigitalOcean connections get theirs with the row.  *)
Ready(c) ==
  CASE method[c] = "role" -> roleSaved[c] /\ version[c] > 0
    [] method[c] = "keys" -> version[c] > 0
    [] OTHER -> TRUE

NotInUse == [left |-> 0, of |-> 0]
Idling == [kind |-> "idle"]

KeyOfConnection(c, v) == 1   \* mutant: the external ID is not in the key
KeyOf(c, v) == v

Usable(credential) == credential.left > RefreshWindow

(* A row whose credentials have changed has passed no test. *)
KeptVerdict(c, s) ==   \* mutant: the change leaves the status alone
  /\ status' = IF status[c] \in Verdict THEN status ELSE [status EXCEPT ![c] = s]
  /\ UNCHANGED <<lastTest, verdictOn, slipped>>
Untested(c, s) ==
  /\ status' = [status EXCEPT ![c] = s]
  /\ lastTest' = [lastTest EXCEPT ![c] = "none"]
  /\ verdictOn' = [verdictOn EXCEPT ![c] = 0]
  /\ slipped' = [slipped EXCEPT ![c] = FALSE]

(* saveTestResult, saveGoogleTestResult, saveDoTestResult: a removed row throws. *)
Saves(c, v, overtaken, result) ==
  IF RowOf(c)
  THEN /\ status' = [status EXCEPT ![c] = result]
       /\ lastTest' = [lastTest EXCEPT ![c] = result]
       /\ verdictOn' = [verdictOn EXCEPT ![c] = v]
       /\ slipped' = [slipped EXCEPT ![c] = overtaken]
  ELSE UNCHANGED <<status, lastTest, verdictOn, slipped>>
-----------------------------------------------------------------------------
ConnectionsInit ==
  /\ method = [c \in Connection |-> "none"] /\ status = method
  /\ version = [c \in Connection |-> 0]
  /\ roleSaved = [c \in Connection |-> FALSE] /\ lastTest = [c \in Connection |-> "none"]
  /\ creds = [c \in Connection |-> [k \in 1..MaxVersion |-> NotInUse]]
  /\ forgetting = {} /\ leaving = {}
  /\ call = [r \in Caller |-> Idling]
  /\ verdictOn = [c \in Connection |-> 0] /\ slipped = [c \in Connection |-> FALSE]
  /\ handed = NoCredential

(* createConnection, createGoogleConnection, createDoConnection: a role gets *)
(* its external ID, and the other clouds their credential, with the row.     *)
CreateConnection(c, m) ==
  /\ status[c] = "none"
  /\ method' = [method EXCEPT ![c] = m]
  /\ status' = [status EXCEPT ![c] = IF m = "ambient" THEN "pending" ELSE "draft"]
  /\ version' = [version EXCEPT ![c] = IF m = "keys" THEN 0 ELSE 1]
  /\ forgetting' = IF m \in {"role", "ambient", "keys"} THEN forgetting \cup {c} ELSE forgetting
  /\ UNCHANGED <<roleSaved, lastTest, creds, leaving, call, verdictOn, slipped>>

(* Every change ends in recordAdminAction, an await, and then in forget. *)
Changes(c) ==
  /\ RowOf(c)
  /\ forgetting' = forgetting \cup {c}
  /\ call' = [r \in Caller |-> IF call[r].kind = "test" /\ call[r].of = c
                               THEN [call[r] EXCEPT !.overtaken = TRUE] ELSE call[r]]
  /\ UNCHANGED <<method, creds, leaving>>

SaveRoleArn(c) ==
  /\ method[c] = "role" /\ Changes(c)
  /\ roleSaved' = [roleSaved EXCEPT ![c] = TRUE]
  /\ Untested(c, "pending")
  /\ UNCHANGED version

SaveAccessKeys(c) ==
  /\ method[c] = "keys" /\ Changes(c) /\ version[c] < MaxVersion
  /\ version' = [version EXCEPT ![c] = @ + 1]
  /\ Untested(c, "pending")
  /\ UNCHANGED roleSaved

RegenerateExternalId(c) ==
  /\ method[c] = "role" /\ Changes(c) /\ version[c] < MaxVersion
  /\ version' = [version EXCEPT ![c] = @ + 1]
  /\ Untested(c, IF roleSaved[c] THEN "pending" ELSE "draft")
  /\ UNCHANGED roleSaved

(* saveConnectionDetailsAction: a name and regions, which prove nothing. *)
SaveDetails(c) ==
  /\ RowOf(c)
  /\ forgetting' = forgetting \cup {c}
  /\ UNCHANGED <<method, status, version, roleSaved, lastTest, creds, leaving, call, verdictOn, slipped>>

Forgotten(c) == [creds EXCEPT ![c] = [k \in 1..MaxVersion |-> NotInUse]]

ForgetCredentials(c) ==
  /\ c \in forgetting
  /\ forgetting' = forgetting \ {c}
  /\ creds' = Forgotten(c)
  /\ UNCHANGED <<method, status, version, roleSaved, lastTest, leaving, call, verdictOn, slipped>>
-----------------------------------------------------------------------------
Pending(kind, c, at) ==
  [kind |-> kind, of |-> c, version |-> version[c], at |-> at, overtaken |-> FALSE]

(* What a call awaits first: a role's credentials come from the cache while *)
(* they last, keys from the row, and the other clouds need none.            *)
Cached(c) == creds[c][KeyOf(c, version[c])]
AtHand(c) ==
  CASE method[c] = "role" -> Usable(Cached(c))
    [] method[c] = "ambient" -> FALSE
    [] OTHER -> TRUE

(* testConnection, verifyGoogleAction, verifyDoAction, up to their first await. *)
NeverSaved == UNCHANGED <<status, lastTest, verdictOn, slipped>>
SavedAsFailed(c) == Saves(c, version[c], FALSE, "failed")   \* mutant: not ready is a verdict

RefusedTest(c) == NeverSaved

BeginTest(r, c) ==
  /\ call[r].kind = "idle" /\ RowOf(c)
  /\ IF ~Ready(c) THEN RefusedTest(c) /\ UNCHANGED call
     ELSE \/ /\ method[c] = "keys"   \* DecryptionError
             /\ Saves(c, version[c], FALSE, "failed")
             /\ UNCHANGED call
          \/ /\ call' = [call EXCEPT ![r] = Pending("test", c, IF AtHand(c) THEN "cloud" ELSE "credentials")]
             /\ NeverSaved
  /\ UNCHANGED <<method, version, roleSaved, creds, forgetting, leaving>>

Hands(asked, credential) == handed' = [asked |-> asked, got |-> credential]
HandsNothing == handed' = NoCredential

(* resolveTarget, before anything of the cloud is read. *)
BeginRead(r, c) ==
  /\ call[r].kind = "idle" /\ RowOf(c) /\ Ready(c) /\ method[c] \in {"role", "ambient"}
  /\ IF AtHand(c) THEN Hands(version[c], Cached(c)) /\ UNCHANGED call
     ELSE call' = [call EXCEPT ![r] = Pending("read", c, "credentials")] /\ HandsNothing
  /\ UNCHANGED <<method, status, version, roleSaved, lastTest, creds, forgetting, leaving, verdictOn, slipped>>

(* AssumeRole answers, and is cached whatever was forgotten meanwhile; or the *)
(* ambient provider does, which is never cached here.                         *)
CredentialsCome(r) ==
  /\ call[r].kind # "idle" /\ call[r].at = "credentials"
  /\ LET c == call[r].of
         v == call[r].version
         got == [of |-> v, left |-> Lifetime]
     IN  /\ creds' = IF method[c] = "role" THEN [creds EXCEPT ![c][KeyOf(c, v)] = got] ELSE creds
         /\ IF call[r].kind = "test"
            THEN call' = [call EXCEPT ![r].at = "cloud"] /\ HandsNothing
            ELSE call' = [call EXCEPT ![r] = Idling] /\ Hands(v, got)
  /\ UNCHANGED <<method, status, version, roleSaved, lastTest, forgetting, leaving, verdictOn, slipped>>

(* They are refused or time out: a test says so, a read is a failure. *)
CredentialsFail(r) ==
  /\ call[r].kind # "idle" /\ call[r].at = "credentials"
  /\ call' = [call EXCEPT ![r] = Idling]
  /\ IF call[r].kind = "test"
     THEN Saves(call[r].of, call[r].version, call[r].overtaken, "failed")
     ELSE UNCHANGED <<status, lastTest, verdictOn, slipped>>
  /\ UNCHANGED <<method, version, roleSaved, creds, forgetting, leaving>>

EndTest(r, result) ==
  /\ call[r].kind = "test" /\ call[r].at = "cloud"
  /\ method[call[r].of] = "token" => result # "degraded"
  /\ call' = [call EXCEPT ![r] = Idling]
  /\ Saves(call[r].of, call[r].version, call[r].overtaken, result)
  /\ UNCHANGED <<method, version, roleSaved, creds, forgetting, leaving>>
-----------------------------------------------------------------------------
(* deleteConnectionAction awaits disableManagedCollection; the row, what it *)
(* wrote and its credentials then go in one section.                        *)
BeginRemove(c) ==
  /\ RowOf(c)
  /\ leaving' = leaving \cup {c}
  /\ UNCHANGED <<method, status, version, roleSaved, lastTest, creds, forgetting, call, verdictOn, slipped>>

EndRemove(c) ==
  /\ c \in leaving
  /\ leaving' = leaving \ {c}
  /\ status' = [status EXCEPT ![c] = "removed"]
  /\ creds' = Forgotten(c)
  /\ UNCHANGED <<method, version, roleSaved, lastTest, forgetting, call, verdictOn, slipped>>

ConnectionsTick ==
  /\ creds' = [c \in Connection |-> [k \in 1..MaxVersion |->
                 IF creds[c][k].left > 1 THEN [creds[c][k] EXCEPT !.left = @ - 1] ELSE NotInUse]]
  /\ UNCHANGED <<method, status, version, roleSaved, lastTest, forgetting, leaving, call, verdictOn, slipped>>

ConnectionsNext ==
  \/ /\ HandsNothing
     /\ \/ \E c \in Connection :
             \/ \E m \in ConnectionMethod : CreateConnection(c, m)
             \/ SaveRoleArn(c) \/ SaveAccessKeys(c) \/ RegenerateExternalId(c) \/ SaveDetails(c)
             \/ ForgetCredentials(c) \/ BeginRemove(c) \/ EndRemove(c)
             \/ \E r \in Caller : BeginTest(r, c)
        \/ \E r \in Caller : CredentialsFail(r) \/ \E result \in Verdict : EndTest(r, result)
        \/ ConnectionsTick
  \/ \E r \in Caller, c \in Connection : BeginRead(r, c)
  \/ \E r \in Caller : CredentialsCome(r)

ConnectionsSpec == ConnectionsInit /\ [][ConnectionsNext]_connectionVars
-----------------------------------------------------------------------------
Credentials == [left : 0..Lifetime, of : 0..MaxVersion]

(* The state is in range. *)
ConnectionsTypeOK ==
  /\ method \in [Connection -> ConnectionMethod \cup {"none"}]
  /\ status \in [Connection -> ConnectionStatus \cup {"none", "removed"}]
  /\ version \in [Connection -> 0..MaxVersion]
  /\ roleSaved \in [Connection -> BOOLEAN]
  /\ lastTest \in [Connection -> Verdict \cup {"none"}]
  /\ creds \in [Connection -> [1..MaxVersion -> Credentials]]
  /\ forgetting \subseteq Connection /\ leaving \subseteq Connection
  /\ call \in [Caller -> {Idling} \cup
               [kind : {"test", "read"}, of : Connection, version : 0..MaxVersion,
                at : {"credentials", "cloud"}, overtaken : BOOLEAN]]
  /\ verdictOn \in [Connection -> 0..MaxVersion]
  /\ slipped \in [Connection -> BOOLEAN]
  /\ handed \in {NoCredential} \cup [asked : 0..MaxVersion, got : Credentials]

(* A connection is ok, degraded or failed only by a test of the credentials  *)
(* it has, whatever tests, changes and removals are under way together; a    *)
(* test may only be of older ones when they were changed while it awaited.   *)
StatusIsEarned ==
  \A c \in Connection : RowOf(c) =>
    /\ lastTest[c] = IF status[c] \in Verdict THEN status[c] ELSE "none"
    /\ status[c] \in Verdict => verdictOn[c] = version[c] \/ slipped[c]

(* A connection that is said to be tested, or ready to be, has what a read   *)
(* needs: credentialsInputFor does not refuse it as not ready.               *)
UsableIsReady ==
  \A c \in Connection : status[c] \in Verdict \cup {"pending"} => Ready(c)

(* A read gets credentials of the external ID its row held when it began,    *)
(* with more than the refresh window left to live, even while another call's *)
(* answer enters the cache after the connection was changed and forgotten.   *)
CredentialsAreAsked ==
  handed # NoCredential => handed.got.of = handed.asked /\ Usable(handed.got)
=============================================================================
