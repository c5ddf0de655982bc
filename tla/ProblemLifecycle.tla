-------------------------- MODULE ProblemLifecycle --------------------------
(***************************************************************************)
(* The lifecycle of a problem: the pure rules of detect/lifecycle.ts, the  *)
(* outcomes of detect/aws.ts that feed them, the cycle of                  *)
(* collector/detect.ts and the rows of store/problems.ts it writes, in one *)
(* environment.  A cycle captures its clock, awaits the families of its    *)
(* provider, plans one transition per outcome in one synchronous section,  *)
(* and applies each as a transaction of its own, followed by an event.     *)
(*                                                                         *)
(* A stored timestamp is its age, capped where no comparison tells larger  *)
(* ages apart.  Nothing in the code ever acknowledges or closes a problem, *)
(* so a row is open or resolved.                                           *)
(***************************************************************************)
EXTENDS Integers

CONSTANTS
  Key,               \* dedupe keys: (kind, subject) of one environment
  Family,            \* the families this provider reads
  FamilyOf,          \* familyOfKind, on the kind of a key
  Shared,            \* keys two resources share (two services of one name)
  Id,                \* row ids: the bound on rows kept at once
  None,              \* null
  Gone,              \* a previousProblemId whose row retention deleted
  Collector,         \* the processes that may be inside a detect job
  ClearEvaluations,  \* CLEAR_EVALUATIONS
  ClearMin,          \* CLEAR_MIN_MS
  ReopenWindow,      \* REOPEN_WINDOW_MS
  Retention,         \* RESOLVED_RETENTION_MS
  StaleAfter,        \* STALE_AFTER_MS
  ReadMax            \* the longest a cycle awaits its families

ASSUME LifecycleAssumption ==
  /\ FamilyOf \in [Key -> Family]
  /\ Shared \in SUBSET Key
  /\ None \notin Id /\ Gone \notin Id
  /\ ClearEvaluations \in Nat \ {0}
  /\ ClearMin \in Nat
  /\ ReopenWindow \in Nat
  /\ Retention \in Nat
  /\ StaleAfter \in Nat
  /\ ReadMax \in Nat /\ Retention >= ReopenWindow + ReadMax

VARIABLES
  row,    \* the problems table
  owed,   \* per row, the event its last transition has yet to append
  pc,     \* per collector: "idle", "reading", "writing"
  note,   \* per collector, the row whose event it appends next
  began,  \* per collector, the age of the nowMs of its cycle
  plan,   \* per collector and key, the transition of that key's outcome
  left,   \* per collector and key, how often it is still to be applied
  saw,    \* per collector, the keys that fired and the families read in full
  quiet,  \* observation: per key, the clear evaluations since it last fired
  looked  \* observation: per key, the age of its last evaluation

vars == <<row, owed, pc, note, began, plan, left, saw, quiet, looked>>
-----------------------------------------------------------------------------
ClearCap == ClearMin + ReadMax
AgeCap == (IF Retention > StaleAfter THEN Retention ELSE StaleAfter) + ReadMax + 1

Row == [status : {"absent", "open", "resolved"}, key : Key \cup {None},
        at : 0 .. AgeCap,     \* resolvedAt, or lastEvaluatedAt while open
        streak : 0 .. ClearEvaluations,
        since : 0 .. ClearCap,      \* clearSinceAt, when streak is not 0
        prev : Id \cup {None, Gone}]

NoRow == [status |-> "absent", key |-> None, at |-> 0, streak |-> 0, since |-> 0,
          prev |-> None]

Transition == [type : {"none", "open", "reopen", "touch", "progress", "resolve"},
               id : Id \cup {None}, resetClear : {"yes", "no"},
               streak : 0 .. ClearEvaluations, since : 0 .. ClearCap]

NoTransition == [type |-> "none", id |-> None, resetClear |-> "no", streak |-> 0,
                 since |-> 0]

(* The time from an instant of that age to the nowMs of the cycle. *)
Elapsed(c, age) == age - began[c]

Live(k) == {i \in Id : row[i].status = "open" /\ row[i].key = k}

(* listRecentlyResolved *)
Retained(c, k) == {i \in Id : /\ row[i].status = "resolved" /\ row[i].key = k
                              /\ Elapsed(c, row[i].at) <= Retention}

Oldest(S) == CHOOSE i \in S : \A j \in S : row[i].at >= row[j].at   \* mutant: keeps the wrong row

Newest(S) == CHOOSE i \in S : \A j \in S : row[i].at <= row[j].at

The(S) == CHOOSE i \in S : TRUE

NeverReopen(c, i) == FALSE   \* mutant: every flap is a new row

(* A resolved row that trouble returning now continues. *)
Reopens(c, i) == Elapsed(c, row[i].at) <= ReopenWindow

TouchKeepsStreak(i) == [NoTransition EXCEPT !.type = "touch", !.id = i]   \* mutant

Touch(i) == [type |-> "touch", id |-> i, resetClear |-> IF row[i].streak > 0 THEN "yes" ELSE "no",
             streak |-> 0, since |-> 0]

(* firing: the live row is touched, a recent one continued, or a row opened. *)
Firing(c, k) ==
  LET last == Newest(Retained(c, k)) IN
  IF Live(k) # {} THEN Touch(The(Live(k)))
  ELSE IF Retained(c, k) = {} THEN [NoTransition EXCEPT !.type = "open"]
  ELSE [NoTransition EXCEPT !.type = IF Reopens(c, last) THEN "reopen" ELSE "open",
                            !.id = last]

EitherClears(streak, elapsed) ==   \* mutant: || for &&
  streak >= ClearEvaluations \/ elapsed >= ClearMin

Clears(streak, elapsed) == streak >= ClearEvaluations /\ elapsed >= ClearMin

More(n) == IF n < ClearEvaluations THEN n + 1 ELSE n

SinceNow(c, i) == began[c]   \* mutant: the spell starts again every cycle

SinceOf(c, i) == IF row[i].streak = 0 THEN began[c] ELSE row[i].since

(* clearing *)
Clearing(c, i) ==
  [NoTransition EXCEPT
     !.type = IF Clears(More(row[i].streak), Elapsed(c, SinceOf(c, i))) THEN "resolve"
              ELSE "progress",
     !.id = i, !.streak = More(row[i].streak), !.since = SinceOf(c, i)]

EvaluatedIfSilent(k, full) == TRUE   \* mutant: silence is evidence

(* The family behind a live problem was read, and to its end. *)
Evaluated(k, full) == FamilyOf[k] \in full

(* applyCycle, with the outcomes of outcomesFromInsights. *)
Outcome(c, k, fired, full) ==
  IF k \in fired THEN Firing(c, k)
  ELSE IF Live(k) # {} /\ Evaluated(k, full) THEN Clearing(c, The(Live(k)))
  ELSE NoTransition

Stamped(i, at) == [row[i] EXCEPT !.at = IF row[i].status = "open" THEN at ELSE @]

(* The row a transition leaves. *)
Written(c, k, t) ==
  CASE t.type = "reopen" -> [row[t.id] EXCEPT !.status = "open", !.at = began[c],
                                              !.streak = 0, !.since = 0]
    [] t.type = "touch" -> IF t.resetClear = "yes"
                           THEN [Stamped(t.id, began[c]) EXCEPT !.streak = 0, !.since = 0]
                           ELSE Stamped(t.id, began[c])
    [] t.type = "progress" -> [Stamped(t.id, began[c]) EXCEPT !.streak = t.streak,
                                                              !.since = t.since]
    [] t.type = "resolve" -> [row[t.id] EXCEPT !.status = "resolved", !.at = began[c]]
    [] OTHER -> [NoRow EXCEPT !.status = "open", !.key = k, !.at = began[c],
                              !.prev = t.id]

Event(t) == CASE t.type = "open" -> "opened"
              [] t.type = "reopen" -> "reopened"
              [] t.type = "resolve" -> "resolved"
              [] OTHER -> "none"

ConflictIgnored(k, t) == {}   \* mutant: no unique index

(* The live rows whose presence makes the unique index refuse the write. *)
Conflict(k, t) ==
  IF t.type \in {"open", "reopen"} THEN Live(k) \ (IF t.type = "reopen" THEN {t.id} ELSE {})
  ELSE {}
-----------------------------------------------------------------------------
Init ==
  /\ row = [i \in Id |-> NoRow]
  /\ owed = [i \in Id |-> "none"]
  /\ pc = [c \in Collector |-> "idle"]
  /\ note = [c \in Collector |-> None]
  /\ began = [c \in Collector |-> 0]
  /\ plan = [c \in Collector |-> [k \in Key |-> NoTransition]]
  /\ left = [c \in Collector |-> [k \in Key |-> 0]]
  /\ saw = [c \in Collector |-> [fired |-> {}, full |-> {}]]
  /\ quiet = [k \in Key |-> [clears |-> 0, age |-> 0]]
  /\ looked = [k \in Key |-> 0]

(* runDetectJob starts: nowMs was captured by the tick that starts it. *)
Begin(c) ==
  /\ pc[c] = "idle"
  /\ pc' = [pc EXCEPT ![c] = "reading"]
  /\ began' = [began EXCEPT ![c] = 0]
  /\ UNCHANGED <<row, owed, note, plan, left, saw, quiet, looked>>

(* What a cycle keeps in memory is lost when it ends. *)
Forget(c) ==
  /\ pc' = [pc EXCEPT ![c] = "idle"]
  /\ note' = [note EXCEPT ![c] = None]
  /\ began' = [began EXCEPT ![c] = 0]
  /\ plan' = [plan EXCEPT ![c] = [k \in Key |-> NoTransition]]
  /\ left' = [left EXCEPT ![c] = [k \in Key |-> 0]]
  /\ saw' = [saw EXCEPT ![c] = [fired |-> {}, full |-> {}]]

(* The families are loaded, each in full, in part or not at all; a key may *)
(* fire out of a family read in part.  Two resources that share a key give *)
(* two outcomes.                                                           *)
Plan(c) ==
  /\ pc[c] = "reading"
  /\ \E full \in SUBSET Family, fired \in SUBSET Key, twice \in SUBSET Shared :
       /\ saw' = [saw EXCEPT ![c] = [fired |-> fired, full |-> full]]
       /\ plan' = [plan EXCEPT ![c] = [k \in Key |-> Outcome(c, k, fired, full)]]
       /\ left' = [left EXCEPT ![c] =
            [k \in Key |-> IF Outcome(c, k, fired, full).type = "none" THEN 0
                           ELSE IF k \in twice \cap fired THEN 2 ELSE 1]]
  /\ pc' = [pc EXCEPT ![c] = "writing"]
  /\ UNCHANGED <<row, owed, note, began, quiet, looked>>

(* Fired outcomes come before clear ones. *)
Turn(c, k) ==
  /\ note[c] = None
  /\ left[c][k] > 0
  /\ k \in saw[c].fired \/ \A j \in saw[c].fired : left[c][j] = 0

(* What an applied outcome says about its key, whatever the row makes of it. *)
Observe(c, k) ==
  /\ quiet' = [quiet EXCEPT ![k] =
       IF k \in saw[c].fired THEN [clears |-> 0, age |-> 0]
       ELSE IF FamilyOf[k] \in saw[c].full
       THEN [clears |-> More(@.clears), age |-> IF @.clears = 0 THEN began[c] ELSE @.age]
       ELSE @]
  /\ looked' = [looked EXCEPT ![k] =
       IF k \in saw[c].fired \/ FamilyOf[k] \in saw[c].full THEN began[c] ELSE @]

(* One transition of applyTransitions: its transaction. *)
Apply(c, k) ==
  /\ pc[c] = "writing" /\ Turn(c, k)
  /\ Conflict(k, plan[c][k]) = {}
  /\ \E i \in Id :
       /\ IF plan[c][k].type = "open" THEN row[i].status = "absent" ELSE i = plan[c][k].id
       /\ row' = [row EXCEPT ![i] = Written(c, k, plan[c][k])]
       /\ owed' = [owed EXCEPT ![i] = IF Event(plan[c][k]) = "none" THEN @
                                      ELSE Event(plan[c][k])]
       /\ note' = [note EXCEPT ![c] = IF Event(plan[c][k]) = "none" THEN None ELSE i]
  /\ left' = [left EXCEPT ![c][k] = @ - 1]
  /\ Observe(c, k)
  /\ UNCHANGED <<pc, began, plan, saw>>

(* The event after the transaction of an opening, reopening or resolution. *)
Note(c) ==
  /\ note[c] # None
  /\ owed' = [owed EXCEPT ![note[c]] = "none"]
  /\ note' = [note EXCEPT ![c] = None]
  /\ UNCHANGED <<row, pc, began, plan, left, saw, quiet, looked>>

(* The unique index refuses a write: applyTransitions throws, and the rest *)
(* of the cycle with it.                                                   *)
Refused(c) ==
  /\ pc[c] = "writing"
  /\ \E k \in Key : Turn(c, k) /\ Conflict(k, plan[c][k]) # {}
  /\ Forget(c)
  /\ UNCHANGED <<row, owed, quiet, looked>>

(* Every transition is applied.  The live rows now go to the snapshots,    *)
(* the alerts and the incidents, which write none of this.                 *)
Finish(c) ==
  /\ pc[c] = "writing"
  /\ note[c] = None /\ \A k \in Key : left[c][k] = 0
  /\ Forget(c)
  /\ UNCHANGED <<row, owed, quiet, looked>>

(* The connection cannot be used, or the process dies: the cycle ends      *)
(* where it is.                                                            *)
Die(c) ==
  /\ pc[c] # "idle"
  /\ Forget(c)
  /\ UNCHANGED <<row, owed, quiet, looked>>

DeletedEarly(i) == row[i].status = "resolved" /\ row[i].at > ReopenWindow   \* mutant

Deleted(i) == row[i].status = "resolved" /\ row[i].at > Retention

(* runRetention, by a process that is in no detect cycle. *)
Compact(c) ==
  /\ pc[c] = "idle"
  /\ \E i \in Id : Deleted(i)
  /\ row' = [i \in Id |-> IF Deleted(i) THEN NoRow
                          ELSE IF row[i].prev \in Id /\ Deleted(row[i].prev)
                          THEN [row[i] EXCEPT !.prev = Gone] ELSE row[i]]
  /\ owed' = [i \in Id |-> IF Deleted(i) THEN "none" ELSE owed[i]]
  /\ UNCHANGED <<pc, note, began, plan, left, saw, quiet, looked>>

Older(age, cap) == IF age < cap THEN age + 1 ELSE age

(* Time passes while families are awaited and between cycles; the          *)
(* synchronous section takes none, and a read takes at most ReadMax.       *)
Advance ==
  /\ \A c \in Collector : /\ pc[c] \in {"idle", "reading"}
                          /\ pc[c] = "reading" => began[c] < ReadMax
  /\ row' = [i \in Id |-> IF row[i].status = "absent" THEN row[i]
                          ELSE [row[i] EXCEPT !.at = Older(@, AgeCap),
                                              !.since = IF row[i].status = "open"
                                                           /\ row[i].streak > 0
                                                        THEN Older(@, ClearCap) ELSE @]]
  /\ began' = [c \in Collector |-> IF pc[c] = "reading" THEN began[c] + 1 ELSE 0]
  /\ quiet' = [k \in Key |-> IF quiet[k].clears = 0 THEN quiet[k]
                             ELSE [quiet[k] EXCEPT !.age = Older(@, ClearCap)]]
  /\ looked' = [k \in Key |-> Older(looked[k], AgeCap)]
  /\ UNCHANGED <<owed, pc, note, plan, left, saw>>

Work(c) ==
  \/ Plan(c)
  \/ \E k \in Key : Apply(c, k)
  \/ Note(c)
  \/ Refused(c)
  \/ Finish(c)

Next ==
  \/ \E c \in Collector : Begin(c) \/ Work(c) \/ Die(c) \/ Compact(c)
  \/ Advance

Spec == Init /\ [][Next]_vars

(* Fairness.  The collector runs the job again and again, its synchronous  *)
(* section runs to its end, its reads settle, and time passes.             *)
FairSpec ==
  /\ Spec
  /\ SF_vars(Advance)
  /\ \A c \in Collector : WF_vars(Begin(c)) /\ WF_vars(Work(c)) /\ SF_vars(Compact(c))
-----------------------------------------------------------------------------
TypeOK ==
  /\ row \in [Id -> Row]
  /\ owed \in [Id -> {"none", "opened", "reopened", "resolved"}]
  /\ pc \in [Collector -> {"idle", "reading", "writing"}]
  /\ note \in [Collector -> Id \cup {None}]
  /\ began \in [Collector -> 0 .. ReadMax]
  /\ plan \in [Collector -> [Key -> Transition]]
  /\ left \in [Collector -> [Key -> 0 .. 2]]
  /\ saw \in [Collector -> [fired : SUBSET Key, full : SUBSET Family]]
  /\ quiet \in [Key -> [clears : 0 .. ClearEvaluations, age : 0 .. ClearCap]]
  /\ looked \in [Key -> 0 .. AgeCap]

(* A key has at most one live row (problems_open_key), whatever cycles     *)
(* overlap, die or are refused, and however often trouble returns.         *)
OneLivePerKey == \A k \in Key : \A i, j \in Live(k) : i = j

(* The rows of a key form one line of succession: a row that has been      *)
(* succeeded is resolved and is never the one trouble continues, and no    *)
(* row is succeeded twice (previousProblemId, lifecycle.ts firing).        *)
HistoryIsLinear ==
  \A i \in Id : row[i].prev \in Id =>
    /\ row[row[i].prev].status = "resolved"
    /\ row[row[i].prev].key = row[i].key
    /\ \A j \in Id : row[j].prev = row[i].prev => j = i

(* "A subject nobody has evaluated for this long is reported stale": what  *)
(* isStale reads is the age of the last evaluation, and a cycle that did   *)
(* not read a subject's family to its end does not pass for one.           *)
StaleIsHonest == \A k \in Key : \A i \in Live(k) : row[i].at = looked[k]

(* A problem resolves only on evidence (section 33.5): its subject was     *)
(* evaluated and found clear ClearEvaluations times in a row since it last *)
(* fired, over at least ClearMin, counting no cycle that failed to read it *)
(* or stopped half way through its family.                                 *)
Earned(c, k) ==
  /\ quiet'[k].clears >= ClearEvaluations
  /\ Elapsed(c, quiet'[k].age) >= ClearMin

ResolvedOnEvidence ==
  [][\A i \in Id : row[i].status = "open" /\ row'[i].status = "resolved" =>
       \E c \in Collector : pc[c] = "writing" /\ Earned(c, row[i].key)]_vars

(* "This is what stops a flapping service producing forty rows a day": no  *)
(* row is opened for a key whose trouble was resolved within the window.   *)
FlapContinues ==
  [][\A i \in Id : row[i].status = "absent" /\ row'[i].status = "open" =>
       \A j \in Id : row[j].status = "resolved" /\ row[j].key = row'[i].key =>
         \E c \in Collector : pc[c] = "writing" /\ Elapsed(c, row[j].at) > ReopenWindow]_vars

(* Trouble that is over does not stay open: once no cycle dies, the family *)
(* of a key is always read in full and the key does not fire, its problem  *)
(* is resolved.                                                            *)
Healed(k) == \A c \in Collector : pc[c] = "writing" =>
               k \notin saw[c].fired /\ FamilyOf[k] \in saw[c].full

RunsToItsEnd(c) == pc[c] # "idle" /\ pc'[c] = "idle" => Finish(c)

HealedResolves ==
  \A k \in Key : <>[]Healed(k) /\ <>[][\A c \in Collector : RunsToItsEnd(c)]_vars =>
                   <>[](Live(k) = {})
=============================================================================
