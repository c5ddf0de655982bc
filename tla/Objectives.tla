------------------------------ MODULE Objectives ------------------------------
(***************************************************************************)
(* Objectives and what burns them: the metrics job                         *)
(* (collector/metrics-job.ts) files one five-minute interval of a load     *)
(* balancer in the history (store/history.ts), detect/slo.ts measures an   *)
(* objective over it, and collector/slo-burn.ts makes a fast or a slow     *)
(* burn a candidate of the alert cycle.                                    *)
(*                                                                         *)
(* Time is a count of intervals: points[a] is what is filed of the         *)
(* interval a before the current one.  A run reads the last five minutes   *)
(* and files them under the interval that ended, so that what it files is  *)
(* of that interval or of the one under way.  An interval serves all of    *)
(* its requests or fails them all, and every one weighs the same.          *)
(***************************************************************************)
EXTENDS Integers, FiniteSets

CONSTANTS
  Objective,   \* ids of slo_definitions
  Allowance,   \* the share that may fail, 1 - objective, in percent
  FastWindow,  \* FAST_BURN.windowMs, in intervals
  SlowWindow   \* SLOW_BURN.windowMs

(* Nothing is on record of the interval under way: a window is longer.   *)
ASSUME ObjectivesAssumption ==
  /\ Allowance \subseteq 0..99
  /\ FastWindow \in Nat /\ SlowWindow \in Nat /\ 1 < FastWindow /\ FastWindow < SlowWindow

VARIABLES
  historyOn,   \* readHistorySettings(db).enabled
  serving,     \* the cloud: per age, how the interval went
  points,      \* per age, history_points: "none" when absent or null
  definition,  \* per id, what its row of slo_definitions asks for
  burning      \* open alerts of a burn: an objective and a speed

objectiveVars == <<historyOn, serving, points, definition, burning>>
-----------------------------------------------------------------------------
FastRate == 144   \* FAST_BURN.rate, in tenths
SlowRate == 60
Ages == 1..(SlowWindow - 1)
Unwatched == [enabled |-> FALSE, allowed |-> 0]   \* no row, or one that is off
Definition == {Unwatched} \cup [enabled : {TRUE}, allowed : Allowance]
WindowOf(speed) == IF speed = "fast" THEN FastWindow ELSE SlowWindow

(* bucketsFor: the intervals that start within the window.  The current one *)
(* is never filed yet, and the oldest starts before the window does.        *)
ReadTooFar(w) == {a \in 1..w : a \in Ages /\ points[a] # "none"}   \* mutant: one more interval
Measured(w) == {a \in 1..(w - 1) : points[a] # "none"}

Failed(w) == {a \in Measured(w) : points[a] = "bad"}

(* evaluateSlo: below a quarter of the window, or without a request, there *)
(* is no burn rate.                                                        *)
AlwaysEnough(w) == Measured(w) # {}   \* mutant: no minimum coverage
Enough(w) == Measured(w) # {} /\ 4 * Cardinality(Measured(w)) >= w

AtLeastOfGood(rate, allowed, w) ==   \* mutant: divides by the objective, not by what it allows
  1000 * Cardinality(Failed(w)) >= rate * (100 - allowed) * Cardinality(Measured(w))
AtLeast(rate, allowed, w) ==
  1000 * Cardinality(Failed(w)) >= rate * allowed * Cardinality(Measured(w))

(* burnAlert(burnRate, windowMs): with nothing allowed the rate is infinite. *)
BurnAlert(allowed, w) ==
  CASE ~Enough(w) -> "none"
    [] Enough(w) /\ allowed = 0 -> IF Failed(w) # {} THEN "fast" ELSE "none"
    [] Enough(w) /\ allowed > 0 /\ w <= FastWindow /\ AtLeast(FastRate, allowed, w) -> "fast"
    [] Enough(w) /\ allowed > 0 /\ ~(w <= FastWindow /\ AtLeast(FastRate, allowed, w)) ->
         IF w <= SlowWindow /\ AtLeast(SlowRate, allowed, w) THEN "slow" ELSE "none"

(* sloBurnCandidates: both windows, and the fast one wins. *)
BothSpeeds(allowed) == {s \in {"fast", "slow"} : BurnAlert(allowed, WindowOf(s)) = s}  \* mutant: no break
Speeds(allowed) ==
  LET said == {s \in {"fast", "slow"} : BurnAlert(allowed, WindowOf(s)) = s}
  IN  IF "fast" \in said THEN {"fast"} ELSE said

Watched == {o \in Objective : definition[o].enabled}

BurnsOf(o) == {o} \X Speeds(definition[o].allowed)

CandidatesOfStale == UNION {BurnsOf(o) : o \in Objective}   \* mutant: a removed one still burns

Candidates == IF historyOn THEN UNION {BurnsOf(o) : o \in Watched} ELSE {}
-----------------------------------------------------------------------------
ObjectivesInit ==
  /\ historyOn = FALSE
  /\ serving = [a \in 0..(SlowWindow - 1) |-> "good"]
  /\ points = [a \in Ages |-> "none"]
  /\ definition = [o \in Objective |-> Unwatched] /\ burning = {}

(* writeHistorySettings *)
SetHistory(b) ==
  /\ historyOn # b /\ historyOn' = b
  /\ UNCHANGED <<serving, points, definition, burning>>

(* saveObjectiveAction: the name is the identity, so a new target is the same row. *)
SaveObjective(o, enabled, allowed) ==
  /\ definition' = [definition EXCEPT ![o] =
                      IF enabled THEN [enabled |-> TRUE, allowed |-> allowed] ELSE Unwatched]
  /\ UNCHANGED <<historyOn, serving, points, burning>>

DeleteObjective(o) ==
  /\ definition' = [definition EXCEPT ![o] = Unwatched]
  /\ UNCHANGED <<historyOn, serving, points, burning>>

(* An interval goes by as h, and runMetricsJob files the one that ended, *)
(* unless it does not come round or the cloud does not answer.           *)
Filed(h) == IF historyOn THEN {serving[0], h, "none"} ELSE {"none"}

NewInterval(h) ==
  \E m \in Filed(h) :
    /\ serving' = [a \in 0..(SlowWindow - 1) |-> IF a = 0 THEN h ELSE serving[a - 1]]
    /\ points' = [a \in Ages |-> IF a = 1 THEN m ELSE points[a - 1]]
    /\ UNCHANGED <<historyOn, definition, burning>>

(* runAlertCycle, the part of the burns: what is no candidate is resolved. *)
AlertBurns ==
  /\ burning' = Candidates
  /\ UNCHANGED <<historyOn, serving, points, definition>>

IntervalPasses == \E h \in {"good", "bad"} : NewInterval(h)

ObjectivesNext ==
  \/ \E b \in BOOLEAN : SetHistory(b)
  \/ \E o \in Objective, b \in BOOLEAN, n \in Allowance : SaveObjective(o, b, n)
  \/ \E o \in Objective : DeleteObjective(o)
  \/ IntervalPasses
  \/ AlertBurns

ObjectivesSpec == ObjectivesInit /\ [][ObjectivesNext]_objectiveVars
-----------------------------------------------------------------------------
(* The state is in range. *)
ObjectivesTypeOK ==
  /\ historyOn \in BOOLEAN
  /\ serving \in [0..(SlowWindow - 1) -> {"good", "bad"}]
  /\ points \in [Ages -> {"none", "good", "bad"}]
  /\ definition \in [Objective -> Definition]
  /\ burning \subseteq Objective \X {"fast", "slow"}

(* A burn is only raised of an objective that is watched, about a service   *)
(* that did fail within the window the alert names, with at least a quarter *)
(* of that window on record; and nobody is told of the fast and of the slow *)
(* burn of one objective at once.                                           *)
BurnIsReal ==
  [][\A o \in Objective, s \in {"fast", "slow"} : <<o, s>> \in burning' \ burning =>
       /\ historyOn /\ definition[o].enabled
       /\ \E a \in 0..(WindowOf(s) - 1) : serving[a] = "bad"
       /\ 4 * Cardinality({a \in Ages : a < WindowOf(s) /\ points[a] # "none"}) >= WindowOf(s)
       /\ \A other \in {"fast", "slow"} \ {s} : <<o, other>> \notin burning']_objectiveVars

(* A stricter objective is never quieter than a looser one over the same    *)
(* history, and an hour of failures on record burns fast, if a total outage *)
(* can: no more than 1000 / FastRate percent may be allowed.  An objective  *)
(* of 100 % is not compared: burnAlert answers fast for its slow window,    *)
(* which slo-burn.ts then passes over.                                      *)
Loudness(allowed) ==
  CASE "fast" \in Speeds(allowed) -> 2 [] "slow" \in Speeds(allowed) -> 1 [] OTHER -> 0
StricterIsLouder ==
  \A a, b \in Allowance \ {0} :
    /\ a < b => Loudness(a) >= Loudness(b)
    /\ (Failed(FastWindow) = 1..(FastWindow - 1) /\ FastRate * a <= 1000) => Speeds(a) = {"fast"}
=============================================================================
