------------------------------- MODULE Sessions -------------------------------
(***************************************************************************)
(* The first administrator (auth/admin.ts) and the sessions that follow    *)
(* (auth/sessions.ts): a token for a browser or for an API client, with a  *)
(* window that rolls with every use and a ceiling that does not.           *)
(*                                                                         *)
(* Creating the administrator awaits the hash of the password, so several  *)
(* requests may be between its two checks.  Every other operation is one   *)
(* synchronous section.  A time is an age: a row is expired when nothing   *)
(* rolled it for its window.  Each token is drawn once, at random.         *)
(***************************************************************************)
EXTENDS Integers, FiniteSets

CONSTANTS
  Token,      \* the tokens that are ever drawn
  Audience,   \* TokenAudience
  Rolling,    \* ROLLING_TTL_MS
  Ceiling,    \* SESSION_ABSOLUTE_TTL_MS
  Setup,      \* the requests that create the administrator
  Longest     \* bound: ages are told apart up to it

ASSUME SessionAssumption ==
  /\ Rolling \in [Audience -> Nat \ {0}]
  /\ Ceiling \in [Audience -> Nat \ {0}]
  /\ Audience # {} /\ Longest \in Nat
  /\ \A a \in Audience : Rolling[a] <= Ceiling[a] /\ Ceiling[a] <= Longest

VARIABLES
  admins,    \* the requests whose row is in admin_user
  creating,  \* per request: "idle", "hashing", "done"
  drawn,     \* the tokens that were drawn
  session,   \* the sessions table, by token
  answered,  \* whether the last request was admitted: with which token, for
             \* which audience, and after how long a rest of it, as a set
  audience,  \* observation: the audience a token was drawn for
  age,       \* observation: its age, capped
  rest,      \* observation: how long ago it was admitted, or drawn, capped
  ended      \* observation: the tokens signed out or revoked

sessionVars == <<admins, creating, drawn, session, answered, audience, age, rest, ended>>
-----------------------------------------------------------------------------
Row == [there : BOOLEAN, audience : Audience, born : 0 .. Longest, idle : 0 .. Longest]

NoSession == [there |-> FALSE, audience |-> CHOOSE a \in Audience : TRUE,
              born |-> 0, idle |-> 0]

HasAdmin == admins # {}

CheckedOnce == TRUE   \* mutant: no second check inside the transaction

CheckedAgain == ~HasAdmin

ExpiredRolling(t) == session[t].idle >= Rolling[session[t].audience]   \* mutant: no ceiling

ExpiredCeiling(t) == session[t].born >= Ceiling[session[t].audience]   \* mutant: no window

(* What validateSession refuses of a row of its audience. *)
Over(t) ==
  \/ session[t].idle >= Rolling[session[t].audience]
  \/ session[t].born >= Ceiling[session[t].audience]

(* deleteExpiredSessions looks at expiresAt alone. *)
Lapsed == {t \in Token : session[t].there /\ session[t].idle >= Rolling[session[t].audience]}

Found(t, a) == session[t].there /\ session[t].audience = a

Revoked(t) == [session EXCEPT ![t] = NoSession]

(* A request of the wrong audience leaves the row alone. *)
KeptOrSpent(t, a) ==   \* mutant: a stray request signs out
  IF session[t].there THEN [session EXCEPT ![t] = NoSession] ELSE session

Misdirected(t, a) == session
-----------------------------------------------------------------------------
SessionInit ==
  /\ admins = {} /\ creating = [r \in Setup |-> "idle"]
  /\ drawn = {} /\ session = [t \in Token |-> NoSession]
  /\ answered = {}
  /\ audience = [t \in Token |-> CHOOSE a \in Audience : TRUE]
  /\ age = [t \in Token |-> 0] /\ rest = [t \in Token |-> 0]
  /\ ended = {}

(* createAdmin, up to the hash. *)
BeginAdmin(r) ==
  /\ creating[r] = "idle"
  /\ creating' = [creating EXCEPT ![r] = IF HasAdmin THEN "done" ELSE "hashing"]
  /\ UNCHANGED <<admins, drawn, session, answered, audience, age, rest, ended>>

(* Its transaction. *)
InsertAdmin(r) ==
  /\ creating[r] = "hashing"
  /\ creating' = [creating EXCEPT ![r] = "done"]
  /\ admins' = IF CheckedAgain THEN admins \cup {r} ELSE admins
  /\ UNCHANGED <<drawn, session, answered, audience, age, rest, ended>>

(* createSession, for an administrator who signed in. *)
CreateSession(t, a) ==
  /\ HasAdmin /\ t \notin drawn
  /\ drawn' = drawn \cup {t}
  /\ session' = [s \in Token |->
       IF s = t THEN [there |-> TRUE, audience |-> a, born |-> 0, idle |-> 0]
       ELSE IF s \in Lapsed THEN NoSession ELSE session[s]]
  /\ audience' = [audience EXCEPT ![t] = a]
  /\ answered' = {}
  /\ UNCHANGED <<admins, creating, age, rest, ended>>

(* validateSession *)
Validate(t, a) ==
  /\ t \in drawn
  /\ \/ /\ ~Found(t, a)
        /\ session' = Misdirected(t, a)
        /\ answered' = {} /\ UNCHANGED rest
     \/ /\ Found(t, a) /\ Over(t)
        /\ session' = [session EXCEPT ![t] = NoSession]
        /\ answered' = {} /\ UNCHANGED rest
     \/ /\ Found(t, a) /\ ~Over(t)
        /\ session' = [session EXCEPT ![t].idle = 0]
        /\ answered' = {<<t, a, rest[t]>>}
        /\ rest' = [rest EXCEPT ![t] = 0]
  /\ UNCHANGED <<admins, creating, drawn, audience, age, ended>>

(* deleteSession and revokeSession: another device may end this one. *)
EndSession(t) ==
  /\ session[t].there
  /\ session' = Revoked(t)
  /\ ended' = ended \cup {t}
  /\ answered' = {}
  /\ UNCHANGED <<admins, creating, drawn, audience, age, rest>>

SessionTick ==
  LET older(n) == IF n < Longest THEN n + 1 ELSE n IN
  /\ drawn # {}
  /\ session' = [t \in Token |-> IF session[t].there
                                 THEN [session[t] EXCEPT !.born = older(@), !.idle = older(@)]
                                 ELSE session[t]]
  /\ age' = [t \in Token |-> IF t \in drawn THEN older(age[t]) ELSE 0]
  /\ rest' = [t \in Token |-> IF t \in drawn THEN older(rest[t]) ELSE 0]
  /\ answered' = {}
  /\ UNCHANGED <<admins, creating, drawn, audience, ended>>

SessionNext ==
  \/ \E r \in Setup : BeginAdmin(r) \/ InsertAdmin(r)
  \/ \E t \in Token, a \in Audience : CreateSession(t, a) \/ Validate(t, a)
  \/ \E t \in Token : EndSession(t)
  \/ SessionTick

SessionSpec == SessionInit /\ [][SessionNext]_sessionVars
-----------------------------------------------------------------------------
SessionTypeOK ==
  /\ admins \in SUBSET Setup /\ creating \in [Setup -> {"idle", "hashing", "done"}]
  /\ drawn \in SUBSET Token /\ session \in [Token -> Row]
  /\ answered \in SUBSET (Token \X Audience \X (0 .. Longest))
  /\ audience \in [Token -> Audience]
  /\ age \in [Token -> 0 .. Longest] /\ rest \in [Token -> 0 .. Longest]
  /\ ended \in SUBSET Token

(* "The single admin account": two requests that both found none, and      *)
(* hashed a password each, do not leave two.                               *)
OneAdmin == Cardinality(admins) <= 1

(* Whoever is admitted holds a token drawn for that audience, last used or *)
(* drawn within its window, younger than "the ceiling no amount of use can *)
(* push past", and signed out nowhere.                                     *)
AdmittedIsCurrent ==
  \A t \in Token, a \in Audience, rested \in 0 .. Longest :
    <<t, a, rested>> \in answered => /\ audience[t] = a /\ t \notin ended
                                     /\ rested < Rolling[a] /\ age[t] < Ceiling[a]

(* A token in use stays good up to its ceiling: nothing but its own end    *)
(* takes it away, and no request sent to the wrong place either            *)
(* ("destroying it would turn a misdirected request into a sign-out").     *)
InUseStaysGood ==
  \A t \in drawn \ ended :
    rest[t] < Rolling[audience[t]] /\ age[t] < Ceiling[audience[t]] =>
      /\ session[t].there /\ session[t].audience = audience[t]
      /\ session[t].idle = rest[t]

(* One administrator, and tokens that are good exactly as long as they     *)
(* should be.                                                              *)
SessionsHold == OneAdmin /\ AdmittedIsCurrent /\ InUseStaysGood
=============================================================================
