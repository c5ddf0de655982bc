------------------------------ MODULE ErrorGroups ------------------------------
(***************************************************************************)
(* Error groups (store/errors.ts) and the cycle that judges them           *)
(* (collector/errors-detect.ts, detect/errors.ts), in one environment.     *)
(* Lines reach recordError from the errors job and from the drain of the   *)
(* forwarded ones, late and in any order.                                  *)
(*                                                                         *)
(* Nothing in src/ calls setErrorStatus or resolveSilentErrors: a group is *)
(* new or regressed, and never ongoing, resolved or muted.  How long a     *)
(* clear outcome takes to resolve a problem is ProblemLifecycle's matter:  *)
(* here it may at any cycle.  A time is an age, capped where nothing tells *)
(* larger ones apart.                                                      *)
(***************************************************************************)
EXTENDS Integers, Sequences, SequencesExt

CONSTANTS
  Group,          \* error groups, by fingerprint
  RegressionGap,  \* ERROR_REGRESSION_GAP_MS
  SilentAfter,    \* ERROR_RESOLVED_AFTER_MS
  LateMax,        \* bound: how late a line comes
  DetectLimit     \* ERROR_DETECT_LIMIT

ASSUME ErrorsAssumption ==
  /\ RegressionGap \in Nat \ {0} /\ SilentAfter \in Nat /\ LateMax \in Nat
  /\ SilentAfter >= RegressionGap + LateMax
  /\ DetectLimit \in Nat

VARIABLES
  groups,    \* the groups, by seq
  status,    \* per fingerprint, the status of its group
  seen,      \* the age of lastSeenAt
  problems,  \* per fingerprint, the kinds of its live problems
  link,      \* per fingerprint, the kind of the problem its group links to
  judging,   \* the cycle has judged and not yet linked
  heard      \* observation: per fingerprint, the ages of the lines received

errorVars == <<groups, status, seen, problems, link, judging, heard>>
-----------------------------------------------------------------------------
SeenCap == SilentAfter + 1

(* statusFor, for a line that old. *)
Regresses(p, late) == seen[p] - late >= RegressionGap

StatusFor(p, late) ==
  CASE status[p] = "muted" -> "muted"
    [] status[p] # "muted" /\ Regresses(p, late) -> "regressed"
    [] status[p] \in {"new", "regressed"} /\ ~Regresses(p, late) -> status[p]
    [] OTHER -> "ongoing"

LastSeenOverwritten(p, late) == late   \* mutant: no max

LastSeen(p, late) == IF late < seen[p] THEN late ELSE seen[p]

(* pageErrorGroups, from the beginning: the oldest. *)
Judged == ToSet(SubSeq(groups, 1, IF Len(groups) < DetectLimit THEN Len(groups)
                                  ELSE DetectLimit))

(* errorDetectors: a new group, a regressed one, a spike. *)
FiredIfNew(p, spiking) ==   \* mutant: a regressed group is no news
  (IF status[p] = "new" THEN {"new"} ELSE {}) \cup (IF p \in spiking THEN {"spike"} ELSE {})

Fired(p, spiking) == (IF status[p] \in {"new", "regressed"} THEN {"new"} ELSE {})
                     \cup (IF p \in spiking THEN {"spike"} ELSE {})

(* The worse of the live problems of a fingerprint. *)
Worst(K) == CASE "spike" \in K -> "spike"
              [] "spike" \notin K /\ "new" \in K -> "new"
              [] OTHER -> "none"
-----------------------------------------------------------------------------
ErrorsInit ==
  /\ groups = <<>>
  /\ status = [p \in Group |-> "none"] /\ seen = [p \in Group |-> 0]
  /\ problems = [p \in Group |-> {}] /\ link = [p \in Group |-> "none"]
  /\ judging = FALSE
  /\ heard = [p \in Group |-> {}]

(* recordError *)
RecordError(p, late) ==
  /\ ~judging
  /\ IF status[p] = "none"
     THEN /\ groups' = Append(groups, p)
          /\ status' = [status EXCEPT ![p] = "new"] /\ seen' = [seen EXCEPT ![p] = late]
     ELSE /\ status' = [status EXCEPT ![p] = StatusFor(p, late)]
          /\ seen' = [seen EXCEPT ![p] = LastSeen(p, late)]
          /\ UNCHANGED groups
  /\ heard' = [heard EXCEPT ![p] = @ \cup {late}]
  /\ UNCHANGED <<problems, link, judging>>

(* runErrorDetectCycle judges, by isSpiking and by the status: what fires  *)
(* is opened or stays; what does not may resolve, or not yet.              *)
JudgeErrors ==
  /\ ~judging
  /\ \E keep \in SUBSET {"new", "spike"}, spiking \in SUBSET Judged :
       problems' = [p \in Group |-> IF p \in Judged
                                    THEN Fired(p, spiking) \cup (problems[p] \cap keep)
                                    ELSE problems[p]]
  /\ judging' = TRUE
  /\ UNCHANGED <<groups, status, seen, link, heard>>

(* It links the groups it judged, or dies before. *)
LinkErrors ==
  /\ judging /\ judging' = FALSE
  /\ link' = [p \in Group |-> IF p \in Judged THEN Worst(problems[p]) ELSE link[p]]
  /\ UNCHANGED <<groups, status, seen, problems, heard>>

DieUnlinked ==
  /\ judging /\ judging' = FALSE
  /\ UNCHANGED <<groups, status, seen, problems, link, heard>>

ErrorsTick ==
  /\ ~judging
  /\ seen' = [p \in Group |-> IF status[p] # "none" /\ seen[p] < SeenCap
                              THEN seen[p] + 1 ELSE seen[p]]
  /\ heard' = [p \in Group |-> {a + 1 : a \in heard[p] \ {RegressionGap + LateMax}}]
  /\ UNCHANGED <<groups, status, problems, link, judging>>

ErrorsNext ==
  \/ \E p \in Group, late \in 0 .. LateMax : RecordError(p, late)
  \/ JudgeErrors \/ LinkErrors \/ DieUnlinked \/ ErrorsTick

ErrorsSpec == ErrorsInit /\ [][ErrorsNext]_errorVars
-----------------------------------------------------------------------------
ErrorsTypeOK ==
  /\ groups \in Seq(Group)
  /\ status \in [Group -> {"none", "new", "regressed", "ongoing", "resolved", "muted"}]
  /\ seen \in [Group -> 0 .. SeenCap]
  /\ problems \in [Group -> SUBSET {"new", "spike"}]
  /\ link \in [Group -> {"none", "new", "spike"}]
  /\ judging \in BOOLEAN
  /\ heard \in [Group -> SUBSET (0 .. RegressionGap + LateMax)]

(* "A group silent for a day and then back is a regression": a group that  *)
(* regresses was silent, no line of the day before the one that makes it   *)
(* regress having come, before or after a later one, on time or late.      *)
RegressionMeansSilence ==
  [][\A p \in Group :
       status[p] = "new" /\ status'[p] = "regressed" =>
         \E late \in heard'[p] :
           \A a \in heard[p] : a >= late + RegressionGap]_errorVars

(* A group that is new, or back, is raised: one of the DetectLimit oldest  *)
(* has its problem.                                                        *)
NewIsRaised ==
  \A p \in Group : p \in Judged ~> "new" \in problems[p]
=============================================================================
