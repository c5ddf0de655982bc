----------------------------- MODULE LoginThrottle -----------------------------
(***************************************************************************)
(* Sign-in (auth/login.ts): the budget of a client (auth/rate-limit.ts)    *)
(* and the global slowdown (auth/login-throttle.ts).  While too many       *)
(* sign-ins have failed, passwords are verified one at a time, a while     *)
(* apart, in the order they came.  An attempt waits on its turn, on its    *)
(* timer and on its verification; all the others go on meanwhile.          *)
(*                                                                         *)
(* A list of instants is kept as how many there are of each age.           *)
(***************************************************************************)
EXTENDS Integers, Sequences, SequencesExt, FiniteSets

CONSTANTS
  Attempt,      \* the bound on attempts under way at once
  Client,       \* the addresses attempts come from
  ClientOf,     \* the client of an attempt
  Limit,        \* limit, per client
  Window,       \* windowMs, of the budget and of the slowdown
  Threshold,    \* failureThreshold
  MinInterval,  \* minIntervalMs
  MaxWaiting,   \* maxWaiting
  MaxKeys,      \* maxKeys
  FailCap       \* bound: failures of one age that are told apart

ASSUME ThrottleAssumption ==
  /\ ClientOf \in [Attempt -> Client]
  /\ Limit \in Nat \ {0} /\ Window \in Nat \ {0}
  /\ Threshold \in Nat /\ MinInterval \in Nat
  /\ MaxWaiting \in Nat /\ MaxKeys \in Nat
  /\ FailCap \in Nat \ {0} /\ FailCap > Threshold

VARIABLES
  hits,       \* per client, how many instants of each age the limiter keeps
  tracked,    \* the clients it has an entry of
  failures,   \* how many failures of each age
  chain,      \* the attempts whose turn has not settled, first come first
  stage,      \* per attempt: "out", "fast", "turn", "asleep", "verifying"
  timer,      \* per attempt, how long it still sleeps
  waiting,    \* waiting
  lastAt,     \* the age of lastVerificationAt
  sinceTurn,  \* observation: the age of the last verification of a turn
  passed      \* observation: per client, the attempts let through, by age

throttleVars == <<hits, tracked, failures, chain, stage, timer, waiting,
                  lastAt, sinceTurn, passed>>
-----------------------------------------------------------------------------
Ages == 0 .. Window - 1

Nothing == [a \in Ages |-> 0]

(* The instants still in the window, those of an age numbered. *)
Instants(h) == UNION {{a} \X (1 .. h[a]) : a \in Ages}

Recent(h) == Cardinality(Instants(h))

Aged(h) == [a \in Ages |-> IF a = 0 THEN 0 ELSE h[a - 1]]

One(h, cap) == [h EXCEPT ![0] = IF @ < cap THEN @ + 1 ELSE @]

UnderAttack == Recent(failures) > Threshold

WaitNever == 0   \* mutant

(* How long a turn still has to wait for its verification. *)
Wait == MinInterval - lastAt

(* The clients whose every instant is past the window. *)
Stale(c) == Recent(hits[c]) = 0

(* A full map drops what is stale before it counts. *)
Kept(c) == IF Cardinality(tracked) >= MaxKeys /\ Stale(c) THEN Nothing ELSE hits[c]

AllowedIfFirst(c) == Recent(hits[c]) <= Limit   \* mutant: off by one

Allowed(c) == Recent(Kept(c)) < Limit

RejectedWithChain(a) == {b \in Attempt : stage[b] # "out" /\ b \in ToSet(chain)}   \* mutant: no catch

(* The attempts a verification that throws ends: its own, the next ones    *)
(* wait for it to settle, not to succeed.                                  *)
Rejected(a) == {a}

FirstAny(a) == TRUE   \* mutant: the chain is not replaced by the new turn

(* The turn before has settled. *)
FirstInLine(a) == chain[1] = a

WaitingAfterThrow == waiting   \* mutant: not in a finally

WaitingAfter == waiting - 1
-----------------------------------------------------------------------------
ThrottleInit ==
  /\ hits = [c \in Client |-> Nothing] /\ tracked = {}
  /\ failures = Nothing
  /\ chain = <<>>
  /\ stage = [a \in Attempt |-> "out"] /\ timer = [a \in Attempt |-> 0]
  /\ waiting = 0 /\ lastAt = MinInterval
  /\ sinceTurn = MinInterval
  /\ passed = [c \in Client |-> Nothing]

(* limiter.attempt, where it refuses: the attempt is over. *)
OverBudget(a) ==
  LET c == ClientOf[a] IN
  /\ stage[a] = "out" /\ ~Allowed(c)
  /\ hits' = [d \in Client |-> Kept(d)]
  /\ tracked' = {d \in tracked : Kept(d) # Nothing} \cup {c}
  /\ UNCHANGED <<failures, chain, stage, timer, waiting, lastAt, sinceTurn, passed>>

(* It lets the attempt through to throttle.run: verified at once, put in   *)
(* line, or refused by a line that is full.                                *)
LetThrough(a) ==
  LET c == ClientOf[a] IN
  /\ stage[a] = "out" /\ Allowed(c)
  /\ hits' = [d \in Client |-> IF d = c THEN One(Kept(d), Limit) ELSE Kept(d)]
  /\ tracked' = {d \in tracked : Kept(d) # Nothing} \cup {c}
  /\ passed' = [passed EXCEPT ![c] = One(@, Limit + 1)]
  /\ \/ /\ ~UnderAttack
        /\ stage' = [stage EXCEPT ![a] = "fast"] /\ lastAt' = 0
        /\ UNCHANGED <<chain, waiting>>
     \/ /\ UnderAttack /\ waiting > MaxWaiting
        /\ UNCHANGED <<chain, waiting, stage, lastAt>>
     \/ /\ UnderAttack /\ waiting <= MaxWaiting
        /\ waiting' = waiting + 1 /\ chain' = Append(chain, a)
        /\ stage' = [stage EXCEPT ![a] = "turn"]
        /\ UNCHANGED lastAt
  /\ UNCHANGED <<failures, timer, sinceTurn>>

(* The turn comes once the one before has settled. *)
TakeTurn(a) ==
  /\ stage[a] = "turn" /\ FirstInLine(a)
  /\ IF Wait > 0
     THEN /\ stage' = [stage EXCEPT ![a] = "asleep"] /\ timer' = [timer EXCEPT ![a] = Wait]
          /\ UNCHANGED <<lastAt, sinceTurn>>
     ELSE /\ stage' = [stage EXCEPT ![a] = "verifying"]
          /\ lastAt' = 0 /\ sinceTurn' = 0
          /\ UNCHANGED timer
  /\ UNCHANGED <<hits, tracked, failures, chain, waiting, passed>>

WakeUp(a) ==
  /\ stage[a] = "asleep" /\ timer[a] = 0
  /\ stage' = [stage EXCEPT ![a] = "verifying"]
  /\ lastAt' = 0 /\ sinceTurn' = 0
  /\ UNCHANGED <<hits, tracked, failures, chain, timer, waiting, passed>>

(* What ends takes its own place in the line with it. *)
Leave(a, S) ==
  /\ stage' = [b \in Attempt |-> IF b \in S THEN "out" ELSE stage[b]]
  /\ timer' = [b \in Attempt |-> IF b \in S THEN 0 ELSE timer[b]]
  /\ chain' = RemoveFirst(chain, a)

(* authenticate answers: the right password, or a wrong one. *)
Answer(a, right) ==
  /\ stage[a] \in {"fast", "verifying"}
  /\ Leave(a, {a})
  /\ waiting' = IF stage[a] = "verifying" THEN waiting - 1 ELSE waiting
  /\ IF right
     THEN /\ hits' = [hits EXCEPT ![ClientOf[a]] = Nothing]
          /\ tracked' = tracked \ {ClientOf[a]}
          /\ passed' = [passed EXCEPT ![ClientOf[a]] = Nothing]
          /\ UNCHANGED failures
     ELSE /\ failures' = One(failures, FailCap)
          /\ UNCHANGED <<hits, tracked, passed>>
  /\ UNCHANGED <<lastAt, sinceTurn>>

(* It throws: neither a success nor a failure. *)
Throw(a) ==
  /\ stage[a] \in {"fast", "verifying"}
  /\ Leave(a, Rejected(a))
  /\ waiting' = IF stage[a] = "verifying" THEN WaitingAfter ELSE waiting
  /\ UNCHANGED <<hits, tracked, failures, lastAt, sinceTurn, passed>>

ThrottleTick ==
  LET older(n) == IF n < MinInterval THEN n + 1 ELSE n IN
  /\ hits' = [c \in Client |-> Aged(hits[c])]
  /\ passed' = [c \in Client |-> Aged(passed[c])]
  /\ failures' = Aged(failures)
  /\ timer' = [a \in Attempt |-> IF timer[a] > 0 THEN timer[a] - 1 ELSE 0]
  /\ lastAt' = older(lastAt) /\ sinceTurn' = older(sinceTurn)
  /\ UNCHANGED <<tracked, chain, stage, waiting>>

Take(a) == TakeTurn(a) \/ WakeUp(a) \/ Throw(a) \/ \E right \in BOOLEAN : Answer(a, right)

ThrottleNext ==
  \/ \E a \in Attempt : OverBudget(a) \/ LetThrough(a) \/ Take(a)
  \/ ThrottleTick

ThrottleSpec == ThrottleInit /\ [][ThrottleNext]_throttleVars
-----------------------------------------------------------------------------
ThrottleTypeOK ==
  /\ hits \in [Client -> [Ages -> 0 .. Limit]] /\ tracked \in SUBSET Client
  /\ failures \in [Ages -> 0 .. FailCap]
  /\ chain \in Seq(Attempt)
  /\ stage \in [Attempt -> {"out", "fast", "turn", "asleep", "verifying"}]
  /\ timer \in [Attempt -> 0 .. MinInterval]
  /\ waiting \in Nat
  /\ lastAt \in 0 .. MinInterval /\ sinceTurn \in 0 .. MinInterval
  /\ passed \in [Client -> [Ages -> 0 .. Limit + 1]]

(* The counter that refuses attempts counts those in line, never one more  *)
(* that ended and never one less: the line cannot be full of nobody, nor   *)
(* grow past its bound.                                                    *)
WaitingIsTheLine ==
  /\ waiting = Len(chain) /\ waiting <= MaxWaiting + 1
  /\ ToSet(chain) = {a \in Attempt : stage[a] \in {"turn", "asleep", "verifying"}}

(* "Passwords one at a time, a few seconds apart": of the attempts in line *)
(* only the first is being verified, and MinInterval after the one before. *)
OneAtATime ==
  \A a \in Attempt : stage[a] \in {"asleep", "verifying"} => chain[1] = a

(* Under the slowdown, verifications of the line are MinInterval apart,     *)
(* however long each takes and whichever of them throws.                   *)
SlowdownSpaces ==
  [][\A a \in Attempt :
       stage[a] # "verifying" /\ stage'[a] = "verifying" => sinceTurn = MinInterval]_throttleVars

(* An attempt in line ends by its own verification, whatever became of the *)
(* one before it.                                                          *)
OwnOutcome ==
  [][\A a \in Attempt : stage[a] \in {"turn", "asleep"} => stage'[a] # "out"]_throttleVars

(* A client is let through at most Limit times a window, counted from its  *)
(* last right password.                                                    *)
BudgetHolds == \A c \in Client : Recent(passed[c]) <= Limit

(* "A correct password still works during an attack, it just waits its     *)
(* turn": who is in line is served, however many come behind.              *)
EveryTurnComes(a) == stage[a] = "turn" ~> stage[a] = "verifying"

(* The line, its head and the budget of each client hold together.         *)
SignInIsHeld == WaitingIsTheLine /\ OneAtATime /\ BudgetHolds
=============================================================================
