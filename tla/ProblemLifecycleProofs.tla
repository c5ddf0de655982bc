----------------------- MODULE ProblemLifecycleProofs -----------------------
(***************************************************************************)
(* Facts about the problem lifecycle for any keys, families, rows and      *)
(* lengths: with any number of overlapping collectors a key has one live   *)
(* row; with one collector a resolution rests on evidence and staleness on *)
(* the last evaluation, the rows of a key form one line, and trouble that  *)
(* returns soon continues a row.                                           *)
(***************************************************************************)
EXTENDS ProblemLifecycle, WellFoundedInduction, TLAPS

(* A row a pending transition names is still there, under the same key,    *)
(* and too young for retention.                                            *)
Kept(i, k) ==
  /\ i \in Id /\ row[i].status # "absent" /\ row[i].key = k
  /\ row[i].status = "resolved" => row[i].at <= Retention

PlanValid ==
  \A c \in Collector, k \in Key : pc[c] = "writing" /\ left[c][k] > 0 =>
    /\ plan[c][k].type # "none"
    /\ plan[c][k].type # "open" => Kept(plan[c][k].id, k)

SafeInv == TypeOK /\ PlanValid /\ OneLivePerKey

(* With one collector, what a pending transition was planned on still      *)
(* holds when its turn comes.                                              *)
PlanFresh ==
  \A c \in Collector, k \in Key : pc[c] = "writing" /\ left[c][k] > 0 =>
    /\ plan[c][k].type \in {"open", "reopen", "touch"} => k \in saw[c].fired
    /\ plan[c][k].type \in {"progress", "resolve"} =>
         /\ k \notin saw[c].fired /\ FamilyOf[k] \in saw[c].full
         /\ left[c][k] = 1
         /\ row[plan[c][k].id].status = "open"
         /\ plan[c][k].streak = More(row[plan[c][k].id].streak)
         /\ plan[c][k].since = SinceOf(c, plan[c][k].id)
    /\ plan[c][k].type = "resolve" => Clears(plan[c][k].streak, Elapsed(c, plan[c][k].since))
    /\ plan[c][k].type = "touch" =>
         /\ row[plan[c][k].id].status = "open"
         /\ plan[c][k].resetClear = "no" => row[plan[c][k].id].streak = 0

(* A live row counts what was observed. *)
QuietCounted ==
  \A k \in Key : \A i \in Live(k) :
    /\ row[i].streak = quiet[k].clears
    /\ row[i].streak > 0 => row[i].since = quiet[k].age

EvidenceInv == SafeInv /\ PlanFresh /\ QuietCounted /\ StaleIsHonest
-----------------------------------------------------------------------------
LessThan == {pair \in Nat \X Nat : pair[1] < pair[2]}

(* A set of naturals has a least element: the library's well-foundedness   *)
(* theorem, for the order as a set.                                        *)
LEMMA LeastNatural ==
  ASSUME NEW T \in SUBSET Nat, T # {}
  PROVE  \E a \in T : \A b \in T : a <= b
<1>1. IsWellFoundedOn(LessThan, Nat)
  BY NatLessThanWellFounded, Zenon DEF OpToRel, LessThan
<1>2. \E a \in T : \A b \in T : <<b, a>> \notin LessThan
  BY <1>1, WFMin, Zenon
<1>3. \A a, b \in Nat : b < a => <<b, a>> \in LessThan
  BY DEF LessThan
<1>4. PICK a \in T : \A b \in T : <<b, a>> \notin LessThan
  BY <1>2
<1>5. ASSUME NEW b \in T PROVE a <= b
  <2>1. a \in Nat /\ b \in Nat /\ ~(b < a)
    BY <1>3, <1>4
  <2> QED
    BY <2>1
<1> QED
  BY <1>5

(* The numbers of a row are naturals within their caps. *)
LEMMA AgesTyped ==
  ASSUME TypeOK
  PROVE  \A i \in Id : /\ row[i].at \in 0 .. AgeCap /\ row[i].at \in Nat
                       /\ row[i].streak \in 0 .. ClearEvaluations
                       /\ row[i].since \in 0 .. ClearCap
<1>1. \A i \in Id : row[i] \in Row
  BY DEF TypeOK
<1>2. AgeCap \in Nat
  BY LifecycleAssumption DEF AgeCap
<1> QED
  BY <1>1, <1>2 DEF Row

(* The newest of some rows is one of them. *)
LEMMA NewestIn ==
  ASSUME TypeOK, NEW S \in SUBSET Id, S # {}
  PROVE  Newest(S) \in S
<1> DEFINE Ages == {row[i].at : i \in S}
<1>1. \A i \in S : row[i].at \in Nat
  BY AgesTyped
<1>2. Ages \subseteq Nat /\ Ages # {}
  BY <1>1
<1>4. \E a \in Ages : \A b \in Ages : a <= b
  BY <1>2, LeastNatural
<1>5. \E i \in S : \A j \in S : row[i].at <= row[j].at
  BY <1>4
<1> QED
  BY <1>5 DEF Newest

(* An element of a set of rows is one of them. *)
LEMMA TheIn == ASSUME NEW S, S # {} PROVE The(S) \in S
  BY DEF The

(* What a fired or a clear outcome plans is a transition, and one that     *)
(* names a row names a kept row of its key.                                *)
LEMMA OutcomeKept ==
  ASSUME TypeOK, NEW c \in Collector, NEW k \in Key, NEW fired, NEW full
  PROVE  /\ Outcome(c, k, fired, full) \in Transition
         /\ Outcome(c, k, fired, full).type \notin {"none", "open"} =>
              Kept(Outcome(c, k, fired, full).id, k)
<1> USE LifecycleAssumption
<1>0. NoTransition \in Transition
  BY DEF NoTransition, Transition, ClearCap
<1>r. /\ began[c] \in 0 .. ReadMax
      /\ \A i \in Id : /\ row[i].at \in Nat /\ row[i].streak \in 0 .. ClearEvaluations
                       /\ row[i].since \in 0 .. ClearCap
  BY AgesTyped DEF TypeOK
<1>1. \A i \in Id : Touch(i) \in Transition /\ Touch(i).id = i /\ Touch(i).type = "touch"
  BY <1>0 DEF Touch, Transition, NoTransition
<1>2. \A i \in Live(k) : i \in Id /\ Kept(i, k)
  BY DEF Live, Kept
<1>3. CASE k \in fired
  <2> DEFINE last == Newest(Retained(c, k))
  <2>1. CASE Live(k) # {}
    <3>1. Outcome(c, k, fired, full) = Touch(The(Live(k)))
      BY <1>3, <2>1 DEF Outcome, Firing
    <3>2. The(Live(k)) \in Live(k)
      BY <2>1, TheIn
    <3> QED
      BY <3>1, <3>2, <1>1, <1>2
  <2>2. CASE Live(k) = {} /\ Retained(c, k) = {}
    <3>1. Outcome(c, k, fired, full) = [NoTransition EXCEPT !.type = "open"]
      BY <1>3, <2>2 DEF Outcome, Firing
    <3> QED
      BY <3>1, <1>0 DEF Transition
  <2>3. CASE Live(k) = {} /\ Retained(c, k) # {}
    <3>1. Outcome(c, k, fired, full) =
            [NoTransition EXCEPT !.type = IF Reopens(c, last) THEN "reopen" ELSE "open",
                                 !.id = last]
      BY <1>3, <2>3 DEF Outcome, Firing
    <3>2. last \in Retained(c, k) /\ last \in Id
      BY <2>3, NewestIn DEF Retained
    <3>3. Outcome(c, k, fired, full) \in Transition
      BY <3>1, <3>2, <1>0 DEF Transition
    <3>4. /\ Outcome(c, k, fired, full).id = last
          /\ Outcome(c, k, fired, full).type # "open" => Reopens(c, last)
      BY <3>1 DEF NoTransition
    <3>5. Reopens(c, last) => Kept(last, k)
      BY <3>2, <1>r DEF Reopens, Kept, Retained, Elapsed
    <3> QED
      BY <3>3, <3>4, <3>5
  <2> QED
    BY <2>1, <2>2, <2>3
<1>4. CASE k \notin fired /\ Live(k) # {} /\ Evaluated(k, full)
  <2>1. Outcome(c, k, fired, full) = Clearing(c, The(Live(k)))
    BY <1>4 DEF Outcome
  <2>2. The(Live(k)) \in Live(k) /\ The(Live(k)) \in Id
    BY <1>4, <1>2, TheIn
  <2>3. \A i \in Id : More(row[i].streak) \in 0 .. ClearEvaluations
    BY <1>r DEF More
  <2>4. \A i \in Id : SinceOf(c, i) \in 0 .. ClearCap
    BY <1>r DEF SinceOf, ClearCap
  <2>5. \A i \in Id : Clearing(c, i) \in Transition /\ Clearing(c, i).id = i
    BY <2>3, <2>4, <1>0 DEF Clearing, Transition, NoTransition
  <2> QED
    BY <2>1, <2>2, <2>5, <1>2
<1>5. CASE k \notin fired /\ ~(Live(k) # {} /\ Evaluated(k, full))
  BY <1>5, <1>0 DEF Outcome, NoTransition
<1> QED
  BY <1>3, <1>4, <1>5
-----------------------------------------------------------------------------
(* The row a transition writes is a row: of its key, and live or just      *)
(* resolved.                                                               *)
LEMMA WrittenRow ==
  ASSUME TypeOK, PlanValid, NEW c \in Collector, NEW k \in Key,
         pc[c] = "writing", left[c][k] > 0
  PROVE  /\ Written(c, k, plan[c][k]) \in Row
         /\ Written(c, k, plan[c][k]).key = k
         /\ Written(c, k, plan[c][k]).status # "absent"
         /\ Written(c, k, plan[c][k]).status = "resolved" =>
              Written(c, k, plan[c][k]).at <= Retention
<1> USE LifecycleAssumption
<1> DEFINE t == plan[c][k]
<1>1. t \in Transition /\ t.type # "none"
  BY DEF TypeOK, PlanValid
<1>2. began[c] \in 0 .. ReadMax /\ began[c] \in 0 .. AgeCap /\ ReadMax <= Retention
  BY DEF TypeOK, AgeCap
<1>3. CASE t.type = "open"
  <2>1. Written(c, k, t) = [status |-> "open", key |-> k, at |-> began[c],
                            streak |-> 0, since |-> 0, prev |-> t.id]
    BY <1>3 DEF Written, NoRow
  <2>2. t.id \in Id \cup {None} /\ 0 \in 0 .. ClearCap /\ 0 \in 0 .. ClearEvaluations
    BY <1>1 DEF Transition, ClearCap
  <2> QED
    BY <2>1, <2>2, <1>2 DEF Row
<1>4. CASE t.type # "open"
  <2>1. Kept(t.id, k)
    BY <1>4 DEF PlanValid
  <2>2. row[t.id] \in Row /\ t.id \in Id
    BY <2>1 DEF TypeOK, Kept
  <2>3. t.streak \in 0 .. ClearEvaluations /\ t.since \in 0 .. ClearCap
    BY <1>1 DEF Transition
  <2>4. 0 \in 0 .. ClearEvaluations /\ 0 \in 0 .. ClearCap
    BY DEF ClearCap
  <2>5. /\ Stamped(t.id, began[c]) \in Row
        /\ Stamped(t.id, began[c]).key = k
        /\ Stamped(t.id, began[c]).status = row[t.id].status
        /\ row[t.id].status = "resolved" => Stamped(t.id, began[c]).at <= Retention
    BY <2>1, <2>2, <1>2 DEF Stamped, Row, Kept
  <2>6. CASE t.type = "reopen"
    BY <2>6, <2>1, <2>2, <2>4, <1>2 DEF Written, Row, Kept
  <2>7. CASE t.type = "touch"
    BY <2>7, <2>1, <2>4, <2>5, <1>2 DEF Written, Row, Kept
  <2>8. CASE t.type = "progress"
    BY <2>8, <2>1, <2>3, <2>5, <1>2 DEF Written, Row, Kept
  <2>9. CASE t.type = "resolve"
    <3>1. Written(c, k, t) = [row[t.id] EXCEPT !.status = "resolved", !.at = began[c]]
      BY <2>9 DEF Written
    <3>2. began[c] <= Retention
      BY <1>2
    <3> QED
      BY <3>1, <3>2, <2>1, <2>2, <1>2 DEF Row, Kept
  <2> QED
    BY <2>6, <2>7, <2>8, <2>9, <1>1, <1>4 DEF Transition
<1> QED
  BY <1>3, <1>4

LEMMA InitSafe == Init => SafeInv
<1> SUFFICES ASSUME Init PROVE SafeInv
  OBVIOUS
<1>1. NoRow \in Row /\ NoTransition \in Transition
  BY LifecycleAssumption DEF NoRow, Row, NoTransition, Transition, AgeCap, ClearCap
<1>2. TypeOK
  BY <1>1, LifecycleAssumption DEF Init, TypeOK, AgeCap, ClearCap
<1>3. PlanValid /\ OneLivePerKey
  BY DEF Init, PlanValid, OneLivePerKey, Live, NoRow
<1> QED
  BY <1>2, <1>3 DEF SafeInv

(* A cycle that ends, however it ends, keeps the safety invariant. *)
LEMMA ForgetSafe ==
  ASSUME SafeInv, NEW c \in Collector, Forget(c),
         UNCHANGED <<row, owed, quiet, looked>>
  PROVE  SafeInv'
<1>1. NoTransition \in Transition
  BY LifecycleAssumption DEF NoTransition, Transition, ClearCap
<1>2. TypeOK'
  BY <1>1, LifecycleAssumption DEF SafeInv, TypeOK, Forget
<1>3. PlanValid'
  BY DEF SafeInv, TypeOK, PlanValid, Forget, Kept
<1>4. OneLivePerKey'
  BY DEF SafeInv, OneLivePerKey, Live
<1> QED
  BY <1>2, <1>3, <1>4 DEF SafeInv

(* Applying a transition keeps it: the unique index is what keeps a second *)
(* live row out, whatever the transition was planned on.                   *)
LEMMA ApplySafe ==
  ASSUME SafeInv, NEW c \in Collector, NEW k \in Key, Apply(c, k)
  PROVE  SafeInv'
<1> USE LifecycleAssumption
<1> DEFINE t == plan[c][k]
<1>1. TypeOK /\ PlanValid /\ OneLivePerKey
  BY DEF SafeInv
<1>2. pc[c] = "writing" /\ left[c][k] > 0 /\ Conflict(k, t) = {}
  BY DEF Apply, Turn
<1>3. PICK i \in Id :
        /\ IF t.type = "open" THEN row[i].status = "absent" ELSE i = t.id
        /\ row' = [row EXCEPT ![i] = Written(c, k, t)]
        /\ owed' = [owed EXCEPT ![i] = IF Event(t) = "none" THEN @ ELSE Event(t)]
        /\ note' = [note EXCEPT ![c] = IF Event(t) = "none" THEN None ELSE i]
  BY DEF Apply
<1>w. /\ Written(c, k, t) \in Row
      /\ Written(c, k, t).key = k
      /\ Written(c, k, t).status # "absent"
      /\ Written(c, k, t).status = "resolved" => Written(c, k, t).at <= Retention
  BY <1>1, <1>2, WrittenRow
<1>r. row \in [Id -> Row]
  BY <1>1 DEF TypeOK
<1>n. t.type # "open" => Kept(t.id, k)
  BY <1>1, <1>2 DEF PlanValid
<1>4. TypeOK'
  <2>1. row' \in [Id -> Row]
    BY <1>3, <1>w, <1>r
  <2>2. owed' \in [Id -> {"none", "opened", "reopened", "resolved"}]
    BY <1>1, <1>3 DEF TypeOK, Event
  <2>3. note' \in [Collector -> Id \cup {None}]
    BY <1>1, <1>3 DEF TypeOK
  <2>4. left' \in [Collector -> [Key -> 0 .. 2]]
    <3>1. left[c] \in [Key -> 0 .. 2] /\ left[c][k] - 1 \in 0 .. 2
      BY <1>1, <1>2 DEF TypeOK
    <3>2. left' = [left EXCEPT ![c][k] = left[c][k] - 1]
      BY DEF Apply
    <3> QED
      BY <1>1, <3>1, <3>2 DEF TypeOK
  <2>5. quiet' \in [Key -> [clears : 0 .. ClearEvaluations, age : 0 .. ClearCap]]
    <3>1. /\ More(quiet[k].clears) \in 0 .. ClearEvaluations
          /\ quiet[k].age \in 0 .. ClearCap /\ began[c] \in 0 .. ClearCap
          /\ 0 \in 0 .. ClearEvaluations /\ 0 \in 0 .. ClearCap
      BY <1>1 DEF TypeOK, More, ClearCap
    <3> QED
      BY <1>1, <3>1 DEF TypeOK, Apply, Observe
  <2>6. looked' \in [Key -> 0 .. AgeCap]
    <3>1. began[c] \in 0 .. AgeCap
      BY <1>1 DEF TypeOK, AgeCap
    <3> QED
      BY <1>1, <3>1 DEF TypeOK, Apply, Observe
  <2> QED
    BY <1>1, <2>1, <2>2, <2>3, <2>4, <2>5, <2>6 DEF TypeOK, Apply
<1>k. \A j \in Id, l \in Key : Kept(j, l) => Kept(j, l)'
  <2> SUFFICES ASSUME NEW j \in Id, NEW l \in Key, Kept(j, l) PROVE Kept(j, l)'
    OBVIOUS
  <2>1. CASE j # i
    BY <2>1, <1>3, <1>r DEF Kept
  <2>2. CASE j = i
    <3>1. row[i].status # "absent" /\ row[i].key = l
      BY <2>2 DEF Kept
    <3>2. k = l
      BY <3>1, <1>3, <1>n DEF Kept
    <3> QED
      BY <2>2, <3>2, <1>3, <1>w, <1>r DEF Kept
  <2> QED
    BY <2>1, <2>2
<1>5. PlanValid'
  <2> SUFFICES ASSUME NEW d \in Collector, NEW l \in Key, pc'[d] = "writing", left'[d][l] > 0
               PROVE  /\ plan'[d][l].type # "none"
                      /\ plan'[d][l].type # "open" => Kept(plan[d][l].id, l)'
    BY DEF PlanValid, Apply
  <2>1. plan' = plan /\ pc' = pc /\ left' = [left EXCEPT ![c][k] = left[c][k] - 1]
    BY DEF Apply
  <2>2. left[d][l] > 0
    BY <2>1, <1>1, <1>2 DEF TypeOK
  <2>3. /\ plan[d][l].type # "none"
        /\ plan[d][l].type # "open" => Kept(plan[d][l].id, l)
    BY <1>1, <2>1, <2>2 DEF PlanValid
  <2>4. plan[d][l].type # "open" => Kept(plan[d][l].id, l)'
    BY <2>1, <2>3, <1>k DEF Kept
  <2> QED
    BY <2>1, <2>3, <2>4
<1>6. OneLivePerKey'
  <2> SUFFICES ASSUME NEW l \in Key, NEW j \in Live(l)', NEW m \in Live(l)' PROVE j = m
    BY DEF OneLivePerKey
  <2>0. j \in Id /\ m \in Id
    BY DEF Live
  <2>1. \A x \in Id : x # i => (x \in Live(l)' <=> x \in Live(l))
    BY <1>3, <1>r DEF Live
  <2>2. CASE j # i /\ m # i
    BY <2>2, <2>1, <2>0, <1>1 DEF OneLivePerKey
  <2>3. \A x \in Live(l)' : x # i /\ i \in Live(l)' => FALSE
    <3> SUFFICES ASSUME NEW x \in Live(l)', x # i, i \in Live(l)' PROVE FALSE
      OBVIOUS
    <3>1. x \in Live(l) /\ x \in Id
      BY <2>1 DEF Live
    <3>2. l = k /\ Written(c, k, t).status = "open"
      BY <1>3, <1>r, <1>w DEF Live
    <3>3. CASE t.type \in {"open", "reopen"}
      <4>1. x \notin Conflict(k, t)
        BY <1>2
      <4>2. t.type = "reopen" => i = t.id
        BY <1>3
      <4> QED
        BY <4>1, <4>2, <3>1, <3>2, <3>3 DEF Conflict
    <3>4. CASE t.type \in {"touch", "progress", "resolve"}
      <4>1. i = t.id /\ row[i] \in Row
        BY <1>3, <1>r, <3>4
      <4>2. row[i].status = "open" /\ row[i].key = k
        BY <4>1, <3>2, <3>4, <1>n DEF Written, Stamped, Kept, Row
      <4> QED
        BY <4>2, <3>1, <3>2, <1>1 DEF OneLivePerKey, Live
    <3> QED
      BY <3>3, <3>4, <1>1, <1>2 DEF TypeOK, PlanValid, Transition
  <2> QED
    BY <2>2, <2>3
<1> QED
  BY <1>4, <1>5, <1>6 DEF SafeInv

(* Planning: every transition names a row that is there. *)
LEMMA PlanSafe ==
  ASSUME SafeInv, NEW c \in Collector, Plan(c)
  PROVE  SafeInv'
<1>1. TypeOK /\ PlanValid /\ OneLivePerKey
  BY DEF SafeInv
<1>2. PICK full \in SUBSET Family, fired \in SUBSET Key, twice \in SUBSET Shared :
        /\ saw' = [saw EXCEPT ![c] = [fired |-> fired, full |-> full]]
        /\ plan' = [plan EXCEPT ![c] = [k \in Key |-> Outcome(c, k, fired, full)]]
        /\ left' = [left EXCEPT ![c] =
             [k \in Key |-> IF Outcome(c, k, fired, full).type = "none" THEN 0
                            ELSE IF k \in twice \cap fired THEN 2 ELSE 1]]
  BY DEF Plan
<1>3. \A k \in Key :
        /\ Outcome(c, k, fired, full) \in Transition
        /\ Outcome(c, k, fired, full).type \notin {"none", "open"} =>
             Kept(Outcome(c, k, fired, full).id, k)
  BY <1>1, OutcomeKept
<1>4. TypeOK'
  <2>1. plan' \in [Collector -> [Key -> Transition]]
    BY <1>1, <1>2, <1>3 DEF TypeOK
  <2>2. left' \in [Collector -> [Key -> 0 .. 2]]
    BY <1>1, <1>2 DEF TypeOK
  <2>3. saw' \in [Collector -> [fired : SUBSET Key, full : SUBSET Family]]
    BY <1>1, <1>2 DEF TypeOK
  <2> QED
    BY <1>1, <2>1, <2>2, <2>3 DEF TypeOK, Plan
<1>5. PlanValid'
  <2> SUFFICES ASSUME NEW d \in Collector, NEW k \in Key, pc'[d] = "writing", left'[d][k] > 0
               PROVE  /\ plan'[d][k].type # "none"
                      /\ plan'[d][k].type # "open" => Kept(plan'[d][k].id, k)
    BY DEF PlanValid, Plan, Kept
  <2>1. CASE d = c
    <3>1. plan'[d][k] = Outcome(c, k, fired, full)
      BY <2>1, <1>1, <1>2 DEF TypeOK
    <3>2. Outcome(c, k, fired, full).type # "none"
      BY <2>1, <1>1, <1>2 DEF TypeOK
    <3> QED
      BY <3>1, <3>2, <1>3
  <2>2. CASE d # c
    <3>1. pc[d] = "writing" /\ left[d][k] > 0 /\ plan'[d] = plan[d]
      BY <2>2, <1>1, <1>2 DEF TypeOK, Plan
    <3> QED
      BY <3>1, <1>1 DEF PlanValid
  <2> QED
    BY <2>1, <2>2
<1>6. OneLivePerKey'
  BY <1>1 DEF OneLivePerKey, Live, Plan
<1> QED
  BY <1>4, <1>5, <1>6 DEF SafeInv

(* Retention takes no row that a pending transition names. *)
LEMMA CompactSafe ==
  ASSUME SafeInv, NEW c \in Collector, Compact(c)
  PROVE  SafeInv'
<1>1. TypeOK /\ PlanValid /\ OneLivePerKey
  BY DEF SafeInv
<1>2. \A i \in Id : row'[i] = IF Deleted(i) THEN NoRow
                              ELSE IF row[i].prev \in Id /\ Deleted(row[i].prev)
                              THEN [row[i] EXCEPT !.prev = Gone] ELSE row[i]
  BY DEF Compact
<1>3. row' \in [Id -> Row]
  <2>1. NoRow \in Row
    BY LifecycleAssumption DEF NoRow, Row, AgeCap, ClearCap
  <2>2. \A i \in Id : row[i] \in Row
    BY <1>1 DEF TypeOK
  <2>3. \A i \in Id : [row[i] EXCEPT !.prev = Gone] \in Row
    BY <2>2 DEF Row
  <2>4. \A i \in Id : row'[i] \in Row
    BY <1>2, <2>1, <2>2, <2>3
  <2> QED
    BY <2>4 DEF Compact
<1>4. TypeOK'
  BY <1>1, <1>3 DEF TypeOK, Compact
<1>r. \A i \in Id : row[i] \in Row
  BY <1>1 DEF TypeOK
<1>5. \A i \in Id, k \in Key : Kept(i, k) => Kept(i, k)'
  <2> SUFFICES ASSUME NEW i \in Id, NEW k \in Key, Kept(i, k) PROVE Kept(i, k)'
    OBVIOUS
  <2>1. ~Deleted(i)
    BY <1>r, LifecycleAssumption, AgesTyped, <1>1 DEF Kept, Deleted
  <2> QED
    BY <2>1, <1>2, <1>r DEF Kept, Row
<1>6. PlanValid'
  BY <1>1, <1>5 DEF PlanValid, Compact, Kept
<1>7. OneLivePerKey'
  <2>1. \A i \in Id, k \in Key : i \in Live(k)' => i \in Live(k)
    <3> SUFFICES ASSUME NEW i \in Id, NEW k \in Key, i \in Live(k)' PROVE i \in Live(k)
      OBVIOUS
    <3>1. row'[i].status = "open" /\ row'[i].key = k /\ row[i] \in Row
      BY <1>r DEF Live
    <3>2. row'[i] # NoRow
      BY <3>1 DEF NoRow
    <3>3. row'[i] = [row[i] EXCEPT !.prev = Gone] \/ row'[i] = row[i]
      BY <3>2, <1>2
    <3> QED
      BY <3>1, <3>3 DEF Live, Row
  <2> QED
    BY <2>1, <1>1 DEF OneLivePerKey, Live
<1> QED
  BY <1>4, <1>6, <1>7 DEF SafeInv

LEMMA AdvanceSafe ==
  ASSUME SafeInv, Advance
  PROVE  SafeInv'
<1>1. TypeOK /\ PlanValid /\ OneLivePerKey
  BY DEF SafeInv
<1>0. /\ AgeCap \in Nat /\ ClearCap \in Nat /\ ReadMax \in Nat
  BY LifecycleAssumption DEF AgeCap, ClearCap
<1>2. /\ \A x \in 0 .. AgeCap : Older(x, AgeCap) \in 0 .. AgeCap
      /\ \A x \in 0 .. ClearCap : Older(x, ClearCap) \in 0 .. ClearCap
  BY <1>0 DEF Older
<1>3. \A i \in Id : /\ row'[i] = row[i] \/ row'[i] \in Row
                    /\ row'[i].status = row[i].status /\ row'[i].key = row[i].key
  <2> SUFFICES ASSUME NEW i \in Id
               PROVE  /\ row'[i] = row[i] \/ row'[i] \in Row
                      /\ row'[i].status = row[i].status /\ row'[i].key = row[i].key
    OBVIOUS
  <2>1. row[i] \in Row
    BY <1>1 DEF TypeOK
  <2>2. /\ Older(row[i].at, AgeCap) \in 0 .. AgeCap
        /\ Older(row[i].since, ClearCap) \in 0 .. ClearCap
    BY <2>1, <1>2 DEF Row
  <2> QED
    BY <2>1, <2>2 DEF Advance, Row
<1>4. TypeOK'
  <2>1. row' \in [Id -> Row]
    BY <1>1, <1>3 DEF TypeOK, Advance
  <2>2. began' \in [Collector -> 0 .. ReadMax]
    <3>1. \A c \in Collector : began[c] \in 0 .. ReadMax /\ 0 \in 0 .. ReadMax
      BY <1>0, <1>1 DEF TypeOK
    <3>2. ASSUME NEW c \in Collector, pc[c] = "reading"
          PROVE  began[c] + 1 \in 0 .. ReadMax
      <4>1. began[c] < ReadMax
        BY <3>2 DEF Advance
      <4> QED
        BY <4>1, <3>1, <1>0
    <3> QED
      BY <3>1, <3>2 DEF Advance
  <2>3. quiet' \in [Key -> [clears : 0 .. ClearEvaluations, age : 0 .. ClearCap]]
    BY <1>1, <1>2 DEF TypeOK, Advance
  <2>4. looked' \in [Key -> 0 .. AgeCap]
    BY <1>1, <1>2 DEF TypeOK, Advance
  <2> QED
    BY <1>1, <2>1, <2>2, <2>3, <2>4 DEF TypeOK, Advance
<1>5. PlanValid'
  BY DEF PlanValid, Advance
<1>6. OneLivePerKey'
  BY <1>1, <1>3 DEF OneLivePerKey, Live
<1> QED
  BY <1>4, <1>5, <1>6 DEF SafeInv

LEMMA NextSafe == SafeInv /\ [Next]_vars => SafeInv'
<1> SUFFICES ASSUME SafeInv, [Next]_vars PROVE SafeInv'
  OBVIOUS
<1>1. ASSUME NEW c \in Collector, Begin(c) PROVE SafeInv'
  <2>1. TypeOK'
    BY <1>1, LifecycleAssumption DEF SafeInv, TypeOK, Begin
  <2>2. PlanValid' /\ OneLivePerKey'
    BY <1>1 DEF SafeInv, TypeOK, PlanValid, OneLivePerKey, Live, Kept, Begin
  <2> QED
    BY <2>1, <2>2 DEF SafeInv
<1>2. ASSUME NEW c \in Collector, Note(c) PROVE SafeInv'
  <2>1. TypeOK'
    BY <1>2 DEF SafeInv, TypeOK, Note
  <2>2. PlanValid' /\ OneLivePerKey'
    BY <1>2 DEF SafeInv, PlanValid, OneLivePerKey, Live, Kept, Note
  <2> QED
    BY <2>1, <2>2 DEF SafeInv
<1>3. ASSUME NEW c \in Collector, Refused(c) \/ Finish(c) \/ Die(c) PROVE SafeInv'
  BY <1>3, ForgetSafe DEF Refused, Finish, Die
<1>4. CASE UNCHANGED vars
  BY <1>4 DEF SafeInv, TypeOK, PlanValid, OneLivePerKey, Live, Kept, vars
<1> QED
  BY <1>1, <1>2, <1>3, <1>4, PlanSafe, ApplySafe, CompactSafe, AdvanceSafe DEF Next, Work

(* However many collectors overlap, die or are refused, the safety         *)
(* invariant holds.                                                        *)
THEOREM Safety == Spec => []SafeInv
  BY InitSafe, NextSafe, PTL DEF Spec

(* The type invariant of the lifecycle. *)
THEOREM LifecycleTyped == Spec => []TypeOK
<1>1. SafeInv => TypeOK
  BY DEF SafeInv
<1> QED
  BY <1>1, Safety, PTL

(* A key has at most one live row, for any number of collectors. *)
THEOREM OneLiveRow == Spec => []OneLivePerKey
<1>1. SafeInv => OneLivePerKey
  BY DEF SafeInv
<1> QED
  BY <1>1, Safety, PTL
-----------------------------------------------------------------------------
(* From here on one collector is inside a detect job at a time, which is   *)
(* what Collector shows of the lock.                                       *)
OneCollector == \A c, d \in Collector : c = d

LEMMA InitEvidence == Init => EvidenceInv
<1> SUFFICES ASSUME Init PROVE EvidenceInv
  OBVIOUS
<1>1. PlanFresh /\ QuietCounted /\ StaleIsHonest
  BY DEF Init, PlanFresh, QuietCounted, StaleIsHonest, Live, NoRow
<1> QED
  BY <1>1, InitSafe DEF EvidenceInv

(* What is planned is fresh when it is planned. *)
LEMMA PlanEvidence ==
  ASSUME OneCollector, EvidenceInv, NEW c \in Collector, Plan(c)
  PROVE  EvidenceInv'
<1>1. TypeOK /\ SafeInv /\ PlanFresh /\ QuietCounted /\ StaleIsHonest
  BY DEF EvidenceInv, SafeInv
<1>2. SafeInv'
  BY <1>1, PlanSafe
<1>3. QuietCounted' /\ StaleIsHonest'
  BY <1>1 DEF QuietCounted, StaleIsHonest, Live, Plan
<1>4. PICK full \in SUBSET Family, fired \in SUBSET Key, twice \in SUBSET Shared :
        /\ saw' = [saw EXCEPT ![c] = [fired |-> fired, full |-> full]]
        /\ plan' = [plan EXCEPT ![c] = [k \in Key |-> Outcome(c, k, fired, full)]]
        /\ left' = [left EXCEPT ![c] =
             [k \in Key |-> IF Outcome(c, k, fired, full).type = "none" THEN 0
                            ELSE IF k \in twice \cap fired THEN 2 ELSE 1]]
  BY DEF Plan
<1>5. PlanFresh'
  <2> SUFFICES ASSUME NEW k \in Key, left'[c][k] > 0
               PROVE  /\ plan'[c][k].type \in {"open", "reopen", "touch"} => k \in saw'[c].fired
                      /\ plan'[c][k].type \in {"progress", "resolve"} =>
                           /\ k \notin saw'[c].fired /\ FamilyOf[k] \in saw'[c].full
                           /\ left'[c][k] = 1
                           /\ row[plan'[c][k].id].status = "open"
                           /\ plan'[c][k].streak = More(row[plan'[c][k].id].streak)
                           /\ plan'[c][k].since = SinceOf(c, plan'[c][k].id)
                      /\ plan'[c][k].type = "resolve" =>
                           Clears(plan'[c][k].streak, Elapsed(c, plan'[c][k].since))
                      /\ plan'[c][k].type = "touch" =>
                           /\ row[plan'[c][k].id].status = "open"
                           /\ plan'[c][k].resetClear = "no" => row[plan'[c][k].id].streak = 0
    BY DEF OneCollector, PlanFresh, Plan, Elapsed, SinceOf
  <2>1. /\ plan'[c][k] = Outcome(c, k, fired, full)
        /\ saw'[c].fired = fired /\ saw'[c].full = full
        /\ left'[c][k] = IF Outcome(c, k, fired, full).type = "none" THEN 0
                         ELSE IF k \in twice \cap fired THEN 2 ELSE 1
    BY <1>1, <1>4 DEF TypeOK
  <2>2. CASE k \in fired
    <3>1. Outcome(c, k, fired, full) = Firing(c, k)
      BY <2>2 DEF Outcome
    <3>2. Firing(c, k).type \in {"open", "reopen", "touch"}
      BY DEF Firing, Touch, NoTransition
    <3>3. ASSUME Firing(c, k).type = "touch"
          PROVE  /\ row[Firing(c, k).id].status = "open"
                 /\ Firing(c, k).resetClear = "no" => row[Firing(c, k).id].streak = 0
      <4>1. Live(k) # {} /\ Firing(c, k) = Touch(The(Live(k)))
        BY <3>3 DEF Firing, NoTransition
      <4>2. The(Live(k)) \in Live(k)
        BY <4>1, TheIn
      <4>3. row[The(Live(k))].status = "open" /\ row[The(Live(k))].streak \in Nat
        BY <4>2, <1>1, AgesTyped, LifecycleAssumption DEF Live
      <4> QED
        BY <4>1, <4>3 DEF Touch
    <3> QED
      BY <2>1, <2>2, <3>1, <3>2, <3>3
  <2>3. CASE k \notin fired
    <3>1. /\ Live(k) # {} /\ FamilyOf[k] \in full
          /\ Outcome(c, k, fired, full) = Clearing(c, The(Live(k)))
      BY <2>1, <2>3 DEF Outcome, NoTransition, Evaluated
    <3>2. row[The(Live(k))].status = "open"
      BY <3>1, TheIn DEF Live
    <3>3. /\ Clearing(c, The(Live(k))).type \in {"progress", "resolve"}
          /\ Clearing(c, The(Live(k))).id = The(Live(k))
          /\ Clearing(c, The(Live(k))).streak = More(row[The(Live(k))].streak)
          /\ Clearing(c, The(Live(k))).since = SinceOf(c, The(Live(k)))
          /\ Clearing(c, The(Live(k))).type = "resolve" =>
               Clears(More(row[The(Live(k))].streak), Elapsed(c, SinceOf(c, The(Live(k)))))
      BY DEF Clearing, NoTransition
    <3> QED
      BY <2>1, <2>3, <3>1, <3>2, <3>3
  <2> QED
    BY <2>2, <2>3
<1> QED
  BY <1>2, <1>3, <1>5 DEF EvidenceInv

(* Applying a transition keeps rows and observation in step. *)
LEMMA ApplyEvidence ==
  ASSUME OneCollector, EvidenceInv, NEW c \in Collector, NEW k \in Key, Apply(c, k)
  PROVE  /\ EvidenceInv'
         /\ \A i \in Id : row[i].status = "open" /\ row'[i].status = "resolved" =>
              row[i].key = k /\ Earned(c, k)
<1> USE LifecycleAssumption
<1> DEFINE t == plan[c][k]
<1>1. /\ TypeOK /\ SafeInv /\ PlanValid /\ OneLivePerKey
      /\ PlanFresh /\ QuietCounted /\ StaleIsHonest
  BY DEF EvidenceInv, SafeInv
<1>2. SafeInv' /\ OneLivePerKey'
  <2>1. SafeInv'
    BY <1>1, ApplySafe
  <2> QED
    BY <2>1 DEF SafeInv
<1>3. pc[c] = "writing" /\ left[c][k] > 0 /\ t \in Transition /\ t.type # "none"
  BY <1>1 DEF Apply, Turn, TypeOK, PlanValid
<1>4. PICK i \in Id :
        /\ IF t.type = "open" THEN row[i].status = "absent" ELSE i = t.id
        /\ row' = [row EXCEPT ![i] = Written(c, k, t)]
  BY DEF Apply
<1>r. row \in [Id -> Row] /\ \A j \in Id : row[j] \in Row
  BY <1>1 DEF TypeOK
<1>w. row'[i] = Written(c, k, t) /\ row'[i].key = k /\ \A j \in Id : j # i => row'[j] = row[j]
  BY <1>4, <1>r, <1>1, <1>3, WrittenRow
<1>n. t.type # "open" => row[i].key = k /\ i = t.id /\ row[i].status # "absent"
  BY <1>1, <1>3, <1>4 DEF PlanValid, Kept
<1>a. /\ quiet'[k] = IF k \in saw[c].fired THEN [clears |-> 0, age |-> 0]
                     ELSE IF FamilyOf[k] \in saw[c].full
                     THEN [clears |-> More(quiet[k].clears),
                           age |-> IF quiet[k].clears = 0 THEN began[c] ELSE quiet[k].age]
                     ELSE quiet[k]
      /\ looked'[k] = IF k \in saw[c].fired \/ FamilyOf[k] \in saw[c].full THEN began[c]
                      ELSE looked[k]
      /\ \A l \in Key : l # k => quiet'[l] = quiet[l] /\ looked'[l] = looked[l]
  BY <1>1 DEF TypeOK, Apply, Observe
<1>b. began' = began /\ pc' = pc /\ plan' = plan /\ saw' = saw
      /\ left'[c][k] = left[c][k] - 1 /\ \A l \in Key : l # k => left'[c][l] = left[c][l]
  BY <1>1 DEF Apply, TypeOK
<1>f. /\ t.type \in {"open", "reopen", "touch"} => k \in saw[c].fired
      /\ t.type \in {"progress", "resolve"} =>
           /\ k \notin saw[c].fired /\ FamilyOf[k] \in saw[c].full
           /\ left[c][k] = 1
           /\ row[t.id].status = "open"
           /\ t.streak = More(row[t.id].streak)
           /\ t.since = SinceOf(c, t.id)
      /\ t.type = "resolve" => Clears(t.streak, Elapsed(c, t.since))
      /\ t.type = "touch" =>
           /\ row[t.id].status = "open"
           /\ t.resetClear = "no" => row[t.id].streak = 0
  BY <1>1, <1>3 DEF PlanFresh
<1>q. \A l \in Key : \A j \in Live(l) : /\ row[j].streak = quiet[l].clears
                                        /\ row[j].streak > 0 => row[j].since = quiet[l].age
                                        /\ row[j].at = looked[l]
  BY <1>1 DEF QuietCounted, StaleIsHonest
<1>t. \A j \in Id : row[j].streak \in Nat
  BY <1>r DEF Row
(* The row that is written agrees with the observation, if it is live. *)
<1>5. row'[i].status = "open" => /\ row'[i].streak = quiet'[k].clears
                                 /\ row'[i].streak > 0 => row'[i].since = quiet'[k].age
                                 /\ row'[i].at = looked'[k]
  <2>1. CASE t.type = "open"
    <3>1. row'[i].streak = 0 /\ row'[i].at = began[c]
      BY <2>1, <1>w DEF Written, NoRow
    <3> QED
      BY <2>1, <3>1, <1>f, <1>a
  <2>2. CASE t.type = "reopen"
    <3>1. row'[i].streak = 0 /\ row'[i].at = began[c]
      BY <2>2, <1>w, <1>n, <1>r, ZenonT(60) DEF Written, Row
    <3> QED
      BY <2>2, <3>1, <1>f, <1>a
  <2>3. CASE t.type = "touch"
    <3>1. row'[i].streak = 0 /\ row'[i].at = began[c]
      BY <2>3, <1>w, <1>n, <1>r, <1>f, <1>3 DEF Written, Stamped, Row, Transition
    <3> QED
      BY <2>3, <3>1, <1>f, <1>a
  <2>4. CASE t.type = "progress"
    <3>1. row'[i].streak = t.streak /\ row'[i].since = t.since /\ row'[i].at = began[c]
      <4>1. Stamped(i, began[c]) = [row[i] EXCEPT !.at = began[c]]
        BY <2>4, <1>n, <1>f DEF Stamped
      <4>2. row'[i] = [Stamped(i, began[c]) EXCEPT !.streak = t.streak, !.since = t.since]
        BY <2>4, <1>w, <1>n DEF Written
      <4>3. row[i] \in Row
        BY <1>r
      <4> QED
        BY <4>1, <4>2, <4>3 DEF Row
    <3>2. i \in Live(k)
      BY <2>4, <1>n, <1>f DEF Live
    <3>3. t.streak = More(row[i].streak) /\ t.since = SinceOf(c, i)
      BY <2>4, <1>n, <1>f
    <3> QED
      BY <2>4, <3>1, <3>2, <3>3, <1>f, <1>a, <1>q, <1>t DEF SinceOf
  <2>5. CASE t.type = "resolve"
    BY <2>5, <1>w, <1>n, <1>r, ZenonT(60) DEF Written, Row
  <2> QED
    BY <2>1, <2>2, <2>3, <2>4, <2>5, <1>3 DEF Transition
<1>6. \A l \in Key : \A j \in Live(l)' : /\ row'[j].streak = quiet'[l].clears
                                         /\ row'[j].streak > 0 => row'[j].since = quiet'[l].age
                                         /\ row'[j].at = looked'[l]
  <2> SUFFICES ASSUME NEW l \in Key, NEW j \in Live(l)'
               PROVE  /\ row'[j].streak = quiet'[l].clears
                      /\ row'[j].streak > 0 => row'[j].since = quiet'[l].age
                      /\ row'[j].at = looked'[l]
    OBVIOUS
  <2>0. j \in Id /\ row'[j].status = "open" /\ row'[j].key = l
    BY DEF Live
  <2>1. CASE j = i
    BY <2>0, <2>1, <1>5, <1>w
  <2>2. CASE j # i /\ l # k
    <3>1. j \in Live(l)
      BY <2>0, <2>2, <1>w DEF Live
    <3> QED
      BY <3>1, <2>0, <2>2, <1>w, <1>a, <1>q
  <2>3. CASE j # i /\ l = k
    <3>1. row'[i].status # "open"
      BY <2>0, <2>3, <1>2, <1>w DEF OneLivePerKey, Live
    <3>2. t.type = "resolve"
      <4>1. row[i].status = "open" \/ t.type \notin {"touch", "progress"}
        BY <1>f, <1>n
      <4> QED
        BY <3>1, <4>1, <1>3, <1>w, <1>n, <1>r DEF Written, Stamped, NoRow, Transition, Row
    <3>3. i \in Live(k) /\ j \in Live(k)
      BY <2>0, <2>3, <3>2, <1>f, <1>n, <1>w DEF Live
    <3> QED
      BY <3>3, <2>3, <1>1 DEF OneLivePerKey
  <2> QED
    BY <2>1, <2>2, <2>3
<1>7. QuietCounted' /\ StaleIsHonest'
  BY <1>6 DEF QuietCounted, StaleIsHonest
<1>8. PlanFresh'
  <2> SUFFICES ASSUME NEW l \in Key, left'[c][l] > 0
               PROVE  /\ plan[c][l].type \in {"open", "reopen", "touch"} => l \in saw[c].fired
                      /\ plan[c][l].type \in {"progress", "resolve"} =>
                           /\ l \notin saw[c].fired /\ FamilyOf[l] \in saw[c].full
                           /\ left'[c][l] = 1
                           /\ row'[plan[c][l].id].status = "open"
                           /\ plan[c][l].streak = More(row'[plan[c][l].id].streak)
                           /\ plan[c][l].since =
                                IF row'[plan[c][l].id].streak = 0 THEN began[c]
                                ELSE row'[plan[c][l].id].since
                      /\ plan[c][l].type = "resolve" =>
                           Clears(plan[c][l].streak, Elapsed(c, plan[c][l].since))
                      /\ plan[c][l].type = "touch" =>
                           /\ row'[plan[c][l].id].status = "open"
                           /\ plan[c][l].resetClear = "no" => row'[plan[c][l].id].streak = 0
    BY <1>b DEF OneCollector, PlanFresh, Elapsed, SinceOf
  <2>1. left[c][l] > 0 /\ left[c][k] \in Nat
    <3>1. left[c][k] \in 0 .. 2
      BY <1>1 DEF TypeOK
    <3>2. l # k => left'[c][l] = left[c][l]
      BY <1>b
    <3> QED
      BY <3>1, <3>2, <1>3
  <2>2. CASE l # k
    <3>1. plan[c][l].type # "open" => plan[c][l].id \in Id /\ plan[c][l].id # i
      <4>1. plan[c][l].type # "open" => Kept(plan[c][l].id, l)
        BY <2>1, <1>1, <1>3 DEF PlanValid
      <4> QED
        BY <4>1, <2>2, <1>4, <1>n DEF Kept
    <3>2. left'[c][l] = left[c][l]
      BY <2>2, <1>b
    <3>3. plan[c][l].type # "open" => row'[plan[c][l].id] = row[plan[c][l].id]
      BY <3>1, <1>w
    <3> QED
      BY <3>2, <3>3, <2>1, <1>1, <1>3 DEF PlanFresh, SinceOf
  <2>3. CASE l = k
    <3>1. t.type \notin {"progress", "resolve"}
      BY <2>3, <2>1, <1>b, <1>f
    <3>2. CASE t.type = "touch"
      <4>1. row'[i].status = "open" /\ row'[i].streak = 0
        BY <3>2, <1>w, <1>n, <1>r, <1>f, <1>3 DEF Written, Stamped, Row, Transition
      <4> QED
        BY <2>3, <3>2, <4>1, <1>n, <1>f
    <3>3. CASE t.type # "touch"
      BY <2>3, <3>1, <3>3, <1>f, <1>3 DEF Transition
    <3> QED
      BY <3>2, <3>3
  <2> QED
    BY <2>2, <2>3
<1>9. ASSUME NEW j \in Id, row[j].status = "open", row'[j].status = "resolved"
      PROVE  row[j].key = k /\ Earned(c, k)
  <2>1. j = i
    BY <1>9, <1>w, SMTT(30)
  <2>2. t.type = "resolve"
    BY <1>9, <2>1, <1>3, <1>w, <1>n, <1>r, <1>4 DEF Written, Stamped, NoRow, Transition, Row
  <2>3. i \in Live(k) /\ i = t.id
    BY <1>9, <2>1, <2>2, <1>n DEF Live
  <2>4. quiet'[k].clears = t.streak /\ quiet'[k].age = t.since
    BY <2>2, <2>3, <1>a, <1>f, <1>q, <1>t DEF SinceOf
  <2> QED
    BY <2>1, <2>2, <2>3, <2>4, <1>f, <1>n DEF Earned, Clears, Elapsed
<1> QED
  BY <1>2, <1>7, <1>8, <1>9 DEF EvidenceInv

(* The other steps change no live row but by ageing it. *)
LEMMA CompactEvidence ==
  ASSUME OneCollector, EvidenceInv, NEW c \in Collector, Compact(c)
  PROVE  /\ EvidenceInv'
         /\ \A i \in Id : ~(row[i].status = "open" /\ row'[i].status = "resolved")
<1>1. TypeOK /\ SafeInv /\ QuietCounted /\ StaleIsHonest
  BY DEF EvidenceInv, SafeInv
<1>2. \A i \in Id : row'[i] \in {NoRow, row[i], [row[i] EXCEPT !.prev = Gone]}
  BY DEF Compact
<1>3. \A i \in Id : /\ row'[i].status # "absent" =>
                        /\ row'[i].status = row[i].status /\ row'[i].key = row[i].key
                        /\ row'[i].at = row[i].at /\ row'[i].streak = row[i].streak
                        /\ row'[i].since = row[i].since
  <2> SUFFICES ASSUME NEW i \in Id, row'[i].status # "absent"
               PROVE  /\ row'[i].status = row[i].status /\ row'[i].key = row[i].key
                      /\ row'[i].at = row[i].at /\ row'[i].streak = row[i].streak
                      /\ row'[i].since = row[i].since
    OBVIOUS
  <2>1. row[i] \in Row /\ row'[i] # NoRow
    BY <1>1 DEF TypeOK, NoRow
  <2>2. row'[i] = row[i] \/ row'[i] = [row[i] EXCEPT !.prev = Gone]
    BY <2>1, <1>2
  <2> QED
    BY <2>1, <2>2 DEF Row
<1>4. QuietCounted' /\ StaleIsHonest'
  BY <1>1, <1>3 DEF QuietCounted, StaleIsHonest, Live, Compact
<1>5. PlanFresh'
  BY DEF OneCollector, PlanFresh, Compact
<1>6. SafeInv'
  BY <1>1, CompactSafe
<1> QED
  BY <1>3, <1>4, <1>5, <1>6 DEF EvidenceInv

LEMMA AdvanceEvidence ==
  ASSUME EvidenceInv, Advance
  PROVE  /\ EvidenceInv'
         /\ \A i \in Id : ~(row[i].status = "open" /\ row'[i].status = "resolved")
<1>1. TypeOK /\ SafeInv /\ QuietCounted /\ StaleIsHonest
  BY DEF EvidenceInv, SafeInv
<1>r. \A i \in Id : row[i] \in Row
  BY <1>1 DEF TypeOK
<1>2. \A i \in Id : row'[i] = IF row[i].status = "absent" THEN row[i]
                              ELSE [row[i] EXCEPT !.at = Older(@, AgeCap),
                                      !.since = IF row[i].status = "open" /\ row[i].streak > 0
                                                THEN Older(@, ClearCap) ELSE @]
  BY DEF Advance
<1>3. \A i \in Id : /\ row'[i].status = row[i].status /\ row'[i].key = row[i].key
                    /\ row'[i].streak = row[i].streak
                    /\ row[i].status = "open" =>
                         /\ row'[i].at = Older(row[i].at, AgeCap)
                         /\ row[i].streak > 0 => row'[i].since = Older(row[i].since, ClearCap)
  BY <1>2, <1>r DEF Row
<1>4. \A k \in Key : /\ quiet'[k].clears = quiet[k].clears
                     /\ quiet[k].clears # 0 => quiet'[k].age = Older(quiet[k].age, ClearCap)
                     /\ looked'[k] = Older(looked[k], AgeCap)
  <2> SUFFICES ASSUME NEW k \in Key
               PROVE  /\ quiet'[k].clears = quiet[k].clears
                      /\ quiet[k].clears # 0 => quiet'[k].age = Older(quiet[k].age, ClearCap)
                      /\ looked'[k] = Older(looked[k], AgeCap)
    OBVIOUS
  <2>1. quiet[k] \in [clears : 0 .. ClearEvaluations, age : 0 .. ClearCap]
    BY <1>1 DEF TypeOK
  <2>2. quiet'[k] = IF quiet[k].clears = 0 THEN quiet[k]
                    ELSE [quiet[k] EXCEPT !.age = Older(@, ClearCap)]
    BY DEF Advance
  <2>3. looked'[k] = Older(looked[k], AgeCap)
    BY DEF Advance
  <2> QED
    BY <2>1, <2>2, <2>3
<1>5. QuietCounted'
  <2> SUFFICES ASSUME NEW k \in Key, NEW i \in Live(k)'
               PROVE  /\ row'[i].streak = quiet'[k].clears
                      /\ row'[i].streak > 0 => row'[i].since = quiet'[k].age
    BY DEF QuietCounted
  <2>1. i \in Live(k) /\ i \in Id /\ row[i].status = "open"
    BY <1>3 DEF Live
  <2>2. row[i].streak = quiet[k].clears /\ row[i].streak > 0 => row[i].since = quiet[k].age
    BY <2>1, <1>1 DEF QuietCounted
  <2> QED
    BY <2>1, <2>2, <1>1, <1>3, <1>4 DEF QuietCounted
<1>6. StaleIsHonest'
  <2> SUFFICES ASSUME NEW k \in Key, NEW i \in Live(k)' PROVE row'[i].at = looked'[k]
    BY DEF StaleIsHonest
  <2>1. i \in Live(k) /\ i \in Id /\ row[i].status = "open"
    BY <1>3 DEF Live
  <2> QED
    BY <2>1, <1>1, <1>3, <1>4 DEF StaleIsHonest
<1>7. PlanFresh'
  BY DEF PlanFresh, Advance
<1>8. SafeInv'
  BY <1>1, AdvanceSafe
<1> QED
  BY <1>3, <1>5, <1>6, <1>7, <1>8 DEF EvidenceInv

LEMMA NextEvidence ==
  ASSUME OneCollector, EvidenceInv, [Next]_vars
  PROVE  /\ EvidenceInv'
         /\ \A i \in Id : row[i].status = "open" /\ row'[i].status = "resolved" =>
              \E c \in Collector : pc[c] = "writing" /\ Earned(c, row[i].key)
<1>1. SafeInv'
  BY NextSafe DEF EvidenceInv
<1>2. CASE UNCHANGED row
  <2>1. ASSUME NEW c \in Collector, Begin(c) PROVE EvidenceInv'
    BY <2>1, <1>1, <1>2
       DEF EvidenceInv, SafeInv, TypeOK, PlanFresh, QuietCounted, StaleIsHonest, Live, Begin,
           Elapsed, SinceOf, OneCollector
  <2>2. ASSUME NEW c \in Collector, Note(c) PROVE EvidenceInv'
    BY <2>2, <1>1, <1>2
       DEF EvidenceInv, PlanFresh, QuietCounted, StaleIsHonest, Live, Note, Elapsed, SinceOf
  <2>3. ASSUME NEW c \in Collector, Refused(c) \/ Finish(c) \/ Die(c) PROVE EvidenceInv'
    <3>1. Forget(c) /\ UNCHANGED <<quiet, looked>>
      BY <2>3 DEF Refused, Finish, Die
    <3>2. PlanFresh'
      BY <3>1 DEF OneCollector, EvidenceInv, SafeInv, TypeOK, PlanFresh, Forget
    <3>3. QuietCounted' /\ StaleIsHonest'
      BY <3>1, <1>2 DEF EvidenceInv, QuietCounted, StaleIsHonest, Live
    <3> QED
      BY <1>1, <3>2, <3>3 DEF EvidenceInv
  <2>4. CASE UNCHANGED vars
    BY <2>4, <1>1 DEF EvidenceInv, PlanFresh, QuietCounted, StaleIsHonest, Live, Elapsed,
                      SinceOf, vars
  <2>5. EvidenceInv'
    BY <2>1, <2>2, <2>3, <2>4, PlanEvidence, ApplyEvidence, CompactEvidence, AdvanceEvidence
       DEF Next, Work
  <2> QED
    BY <1>2, <2>5
<1>3. CASE row' # row
  <2>1. \/ \E c \in Collector, k \in Key : Apply(c, k)
        \/ \E c \in Collector : Compact(c)
        \/ Advance
    BY <1>3 DEF Next, Work, Begin, Plan, Note, Refused, Finish, Die, vars
  <2>2. ASSUME NEW c \in Collector, NEW k \in Key, Apply(c, k)
        PROVE  /\ EvidenceInv'
               /\ \A i \in Id : row[i].status = "open" /\ row'[i].status = "resolved" =>
                    pc[c] = "writing" /\ Earned(c, row[i].key)
    BY <2>2, ApplyEvidence DEF Apply
  <2>3. CASE \E c \in Collector, k \in Key : Apply(c, k)
    BY <2>2, <2>3
  <2>4. CASE \E c \in Collector : Compact(c)
    BY <2>4, CompactEvidence
  <2>5. CASE Advance
    BY <2>5, AdvanceEvidence
  <2> QED
    BY <2>1, <2>3, <2>4, <2>5
<1> QED
  BY <1>2, <1>3

(* With one collector at a time, a problem is resolved only on evidence:   *)
(* enough clear evaluations in a row, over long enough, of a subject whose *)
(* family was read to its end.                                             *)
THEOREM ResolutionIsEarned == OneCollector => (Spec => ResolvedOnEvidence)
<1> SUFFICES ASSUME OneCollector PROVE Spec => ResolvedOnEvidence
  OBVIOUS
<1>1. EvidenceInv /\ [Next]_vars => EvidenceInv'
  BY NextEvidence
<1>2. EvidenceInv /\ [Next]_vars =>
        [\A i \in Id : row[i].status = "open" /\ row'[i].status = "resolved" =>
           \E c \in Collector : pc[c] = "writing" /\ Earned(c, row[i].key)]_vars
  BY NextEvidence
<1> QED
  BY <1>1, <1>2, InitEvidence, PTL DEF Spec, ResolvedOnEvidence

(* With one collector at a time, the age staleness is judged by is that of *)
(* the last evaluation.                                                    *)
THEOREM StalenessHonest == OneCollector => (Spec => []StaleIsHonest)
<1> SUFFICES ASSUME OneCollector PROVE Spec => []StaleIsHonest
  OBVIOUS
<1>1. EvidenceInv /\ [Next]_vars => EvidenceInv'
  BY NextEvidence
<1>2. EvidenceInv => StaleIsHonest
  BY DEF EvidenceInv
<1> QED
  BY <1>1, <1>2, InitEvidence, PTL DEF Spec
-----------------------------------------------------------------------------
(* The line of succession.  A successor is younger than the row it         *)
(* succeeds, until both are too old to be told apart; no row was stamped   *)
(* after the cycle under way began; and what a cycle is still to open or   *)
(* to reopen has no successor yet.                                         *)
Childless(i) == \A j \in Id : row[j].prev # i

Younger ==
  \A j \in Id : row[j].prev \in Id =>
    row[j].at < row[row[j].prev].at \/ row[row[j].prev].at = AgeCap

StampedBefore ==
  /\ \A c \in Collector, i \in Id : row[i].status # "absent" => row[i].at >= began[c]
  /\ \A i \in Id : row[i].status = "absent" => row[i].prev = None

(* Trouble of the key, if any was resolved, is over for longer than a flap. *)
Cold(c, k) ==
  \A j \in Id : row[j].status = "resolved" /\ row[j].key = k =>
    Elapsed(c, row[j].at) > ReopenWindow

PlanHeirless ==
  \A c \in Collector, k \in Key : pc[c] = "writing" /\ left[c][k] > 0 =>
    /\ plan[c][k].type = "open" =>
         \/ Live(k) # {}
         \/ /\ Cold(c, k)
            /\ plan[c][k].id \in Id =>
                 /\ Childless(plan[c][k].id)
                 /\ row[plan[c][k].id].status = "resolved" /\ row[plan[c][k].id].key = k
    /\ plan[c][k].type = "reopen" => Childless(plan[c][k].id)

LineInv == EvidenceInv /\ HistoryIsLinear /\ Younger /\ StampedBefore /\ PlanHeirless

(* Nothing that changes no row but by ending or beginning a cycle matters. *)
LEMMA LineKept ==
  ASSUME OneCollector, LineInv, NEW c \in Collector, UNCHANGED row, pc'[c] # "writing",
         began'[c] \in {0, began[c]}
  PROVE  HistoryIsLinear' /\ Younger' /\ StampedBefore' /\ PlanHeirless'
<1> USE LifecycleAssumption
<1>1. TypeOK /\ HistoryIsLinear /\ Younger /\ StampedBefore
  BY DEF LineInv, EvidenceInv, SafeInv
<1>2. HistoryIsLinear' /\ Younger'
  BY <1>1 DEF HistoryIsLinear, Younger
<1>3. \A i \in Id : row[i].at \in Nat
  BY <1>1, AgesTyped
<1>4. StampedBefore'
  BY <1>1, <1>3 DEF StampedBefore, OneCollector
<1>5. PlanHeirless'
  BY DEF PlanHeirless, OneCollector
<1> QED
  BY <1>2, <1>4, <1>5

LEMMA NewestLeast ==
  ASSUME TypeOK, NEW S \in SUBSET Id, S # {}
  PROVE  \A j \in S : row[Newest(S)].at <= row[j].at
<1> DEFINE Ages == {row[i].at : i \in S}
<1>1. \A i \in S : row[i].at \in Nat
  BY AgesTyped
<1>2. Ages \subseteq Nat /\ Ages # {}
  BY <1>1
<1>3. \E a \in Ages : \A b \in Ages : a <= b
  BY <1>2, LeastNatural
<1>4. \E i \in S : \A j \in S : row[i].at <= row[j].at
  BY <1>3
<1> QED
  BY <1>4 DEF Newest

(* A row that is planned to be succeeded or continued is the newest of its *)
(* key, and so has no successor.                                           *)
LEMMA PlanLine ==
  ASSUME OneCollector, LineInv, NEW c \in Collector, Plan(c)
  PROVE  HistoryIsLinear' /\ Younger' /\ StampedBefore' /\ PlanHeirless'
<1> USE LifecycleAssumption
<1>1. TypeOK /\ HistoryIsLinear /\ Younger /\ StampedBefore
  BY DEF LineInv, EvidenceInv, SafeInv
<1>2. HistoryIsLinear' /\ Younger' /\ StampedBefore'
  BY <1>1 DEF HistoryIsLinear, Younger, StampedBefore, Plan
<1>3. PICK full \in SUBSET Family, fired \in SUBSET Key :
        plan' = [plan EXCEPT ![c] = [k \in Key |-> Outcome(c, k, fired, full)]]
  BY DEF Plan
<1>r. /\ \A i \in Id : row[i] \in Row /\ row[i].at \in Nat
      /\ began[c] \in 0 .. ReadMax
      /\ \A i \in Id : row[i].status \in {"absent", "open", "resolved"}
  BY <1>1, AgesTyped DEF TypeOK, Row
<1>4. ASSUME NEW k \in Key, Live(k) = {}, Retained(c, k) # {},
             NEW last, last = Newest(Retained(c, k))
      PROVE  /\ last \in Id /\ row[last].status = "resolved" /\ row[last].key = k
             /\ Childless(last)
             /\ ~Reopens(c, last) => Cold(c, k)
  <2>1. last \in Retained(c, k) /\ \A j \in Retained(c, k) : row[last].at <= row[j].at
    BY <1>1, <1>4, NewestIn, NewestLeast DEF Retained
  <2>2. last \in Id /\ row[last].status = "resolved" /\ row[last].key = k
    BY <2>1 DEF Retained
  <2>3. row[last].at < AgeCap
    BY <2>1, <2>2, <1>r DEF Retained, Elapsed, AgeCap
  <2>4. ASSUME NEW j \in Id, row[j].prev = last PROVE FALSE
    <3>1. row[j].key = k /\ row[j].at < row[last].at
      BY <1>1, <2>2, <2>3, <2>4, <1>r DEF HistoryIsLinear, Younger
    <3>2. row[j].status # "absent" /\ row[j].status # "open"
      BY <1>1, <1>4, <2>2, <2>4, <3>1 DEF StampedBefore, Live
    <3>3. j \in Retained(c, k)
      BY <2>1, <2>2, <3>1, <3>2, <1>r DEF Retained, Elapsed
    <3> QED
      BY <2>1, <2>2, <3>1, <3>3, <1>r
  <2>5. ASSUME ~Reopens(c, last), NEW j \in Id, row[j].status = "resolved", row[j].key = k
        PROVE  Elapsed(c, row[j].at) > ReopenWindow
    <3>1. CASE j \in Retained(c, k)
      BY <2>1, <2>2, <2>5, <3>1, <1>r DEF Reopens, Elapsed
    <3>2. CASE j \notin Retained(c, k)
      BY <2>5, <3>2, <1>r DEF Retained, Elapsed
    <3> QED
      BY <3>1, <3>2
  <2> QED
    BY <2>2, <2>4, <2>5 DEF Childless, Cold
<1>5. ASSUME NEW k \in Key, Outcome(c, k, fired, full).type \in {"open", "reopen"}
      PROVE  /\ Outcome(c, k, fired, full).type = "open" =>
                  /\ Cold(c, k)
                  /\ Outcome(c, k, fired, full).id \in Id =>
                       /\ Childless(Outcome(c, k, fired, full).id)
                       /\ row[Outcome(c, k, fired, full).id].status = "resolved"
                       /\ row[Outcome(c, k, fired, full).id].key = k
             /\ Outcome(c, k, fired, full).type = "reopen" =>
                  Childless(Outcome(c, k, fired, full).id)
  <2>1. k \in fired /\ Outcome(c, k, fired, full) = Firing(c, k) /\ Live(k) = {}
    BY <1>5 DEF Outcome, Firing, Clearing, NoTransition, Touch
  <2>2. CASE Retained(c, k) = {}
    <3>1. Firing(c, k) = [NoTransition EXCEPT !.type = "open"]
      BY <2>1, <2>2 DEF Firing
    <3>2. Firing(c, k).type = "open" /\ Firing(c, k).id = None
      BY <3>1 DEF NoTransition
    <3>3. Cold(c, k)
      BY <2>2, <1>r DEF Cold, Retained, Elapsed
    <3> QED
      BY <2>1, <3>2, <3>3
  <2>3. CASE Retained(c, k) # {}
    <3> DEFINE last == Newest(Retained(c, k))
    <3>1. Firing(c, k) = [NoTransition EXCEPT
                            !.type = IF Reopens(c, last) THEN "reopen" ELSE "open",
                            !.id = last]
      BY <2>1, <2>3 DEF Firing
    <3>2. /\ Firing(c, k).id = last
          /\ Firing(c, k).type = "open" => ~Reopens(c, last)
      BY <3>1 DEF NoTransition
    <3> QED
      BY <2>1, <2>3, <3>2, <1>4
  <2> QED
    BY <2>2, <2>3
<1>6. PlanHeirless'
  <2> SUFFICES ASSUME NEW k \in Key
               PROVE  /\ plan'[c][k].type = "open" =>
                           /\ Cold(c, k)'
                           /\ plan'[c][k].id \in Id =>
                                /\ \A j \in Id : row'[j].prev # plan'[c][k].id
                                /\ row'[plan'[c][k].id].status = "resolved"
                                /\ row'[plan'[c][k].id].key = k
                      /\ plan'[c][k].type = "reopen" => \A j \in Id : row'[j].prev # plan'[c][k].id
    BY DEF PlanHeirless, OneCollector, Childless
  <2>1. plan'[c][k] = Outcome(c, k, fired, full)
    BY <1>1, <1>3 DEF TypeOK
  <2>2. row' = row /\ began' = began
    BY DEF Plan
  <2>3. Cold(c, k)' <=> Cold(c, k)
    BY <2>2 DEF Cold, Elapsed
  <2>5. Outcome(c, k, fired, full).type = "reopen" => \A j \in Id : row'[j].prev # plan'[c][k].id
    BY <2>1, <2>2, <1>5 DEF Childless
  <2> QED
    BY <2>1, <2>2, <2>3, <2>5, <1>5 DEF Childless
<1> QED
  BY <1>2, <1>6

(* Applying a transition leaves one line per key, and opens a row only     *)
(* beside rows that are past a flap.                                       *)
LEMMA ApplyLine ==
  ASSUME OneCollector, LineInv, NEW c \in Collector, NEW k \in Key, Apply(c, k)
  PROVE  /\ HistoryIsLinear' /\ Younger' /\ StampedBefore' /\ PlanHeirless'
         /\ \A i \in Id : row[i].status = "absent" /\ row'[i].status = "open" =>
              row'[i].key = k /\ Cold(c, k)
<1> USE LifecycleAssumption
<1> DEFINE t == plan[c][k]
<1>1. /\ TypeOK /\ PlanValid /\ PlanFresh
      /\ HistoryIsLinear /\ Younger /\ StampedBefore /\ PlanHeirless
  BY DEF LineInv, EvidenceInv, SafeInv
<1>2. /\ pc[c] = "writing" /\ left[c][k] > 0 /\ Conflict(k, t) = {}
      /\ t \in Transition /\ t.type # "none"
  BY <1>1 DEF Apply, Turn, TypeOK, PlanValid
<1>3. PICK i \in Id :
        /\ IF t.type = "open" THEN row[i].status = "absent" ELSE i = t.id
        /\ row' = [row EXCEPT ![i] = Written(c, k, t)]
  BY DEF Apply
<1>r. /\ row \in [Id -> Row] /\ \A j \in Id : row[j] \in Row /\ row[j].at \in Nat
      /\ began[c] \in 0 .. ReadMax /\ began[c] < AgeCap
  BY <1>1, AgesTyped DEF TypeOK, AgeCap
<1>w. /\ row'[i] = Written(c, k, t) /\ row'[i].key = k /\ row'[i].status # "absent"
      /\ \A j \in Id : j # i => row'[j] = row[j]
  BY <1>3, <1>r, <1>1, <1>2, WrittenRow
<1>n. t.type # "open" => row[i].key = k /\ i = t.id /\ row[i].status # "absent"
  BY <1>1, <1>2, <1>3 DEF PlanValid, Kept
<1>b. began' = began /\ pc' = pc /\ plan' = plan
      /\ \A l \in Key : left'[c][l] > 0 => left[c][l] > 0
  <2>1. left'[c] = [left[c] EXCEPT ![k] = left[c][k] - 1] /\ left[c] \in [Key -> 0 .. 2]
    BY <1>1 DEF Apply, TypeOK
  <2>2. \A l \in Key : left'[c][l] \in {left[c][l], left[c][k] - 1} /\ (l # k => left'[c][l] = left[c][l])
    BY <2>1
  <2> QED
    BY <2>2, <1>2 DEF Apply
<1>f. t.type \in {"touch", "progress", "resolve"} => row[i].status = "open"
  BY <1>1, <1>2, <1>n DEF PlanFresh
<1>e. t.type = "open" => /\ row[i].status = "absent" /\ Live(k) = {} /\ Cold(c, k)
                         /\ t.id \in Id => /\ Childless(t.id)
                                           /\ row[t.id].status = "resolved"
                                           /\ row[t.id].key = k
  <2> SUFFICES ASSUME t.type = "open"
               PROVE  /\ row[i].status = "absent" /\ Live(k) = {} /\ Cold(c, k)
                      /\ t.id \in Id => /\ Childless(t.id)
                                        /\ row[t.id].status = "resolved"
                                        /\ row[t.id].key = k
    OBVIOUS
  <2>1. Live(k) = {} /\ row[i].status = "absent"
    BY <1>2, <1>3 DEF Conflict
  <2> QED
    BY <2>1, <1>1, <1>2 DEF PlanHeirless
<1>o. t.type = "reopen" => Childless(i)
  BY <1>1, <1>2, <1>n DEF PlanHeirless
<1>t. t.type \in {"open", "reopen", "touch", "progress", "resolve"}
  BY <1>2 DEF Transition
(* What is written: the predecessor stays, unless the row is new. *)
<1>4. /\ row'[i].at = began[c]
      /\ row'[i].prev = IF t.type = "open" THEN t.id ELSE row[i].prev
      /\ t.type = "open" => row'[i].status = "open"
  <2>1. CASE t.type = "open"
    <3>1. Written(c, k, t) = [status |-> "open", key |-> k, at |-> began[c],
                              streak |-> 0, since |-> 0, prev |-> t.id]
      BY <2>1 DEF Written, NoRow
    <3> QED
      BY <2>1, <3>1, <1>w
  <2>2. CASE t.type = "reopen"
    <3>1. row'[i] = [row[i] EXCEPT !.status = "open", !.at = began[c],
                                   !.streak = 0, !.since = 0]
      BY <2>2, <1>w, <1>n DEF Written
    <3> QED
      BY <2>2, <3>1, <1>r DEF Row
  <2>3. CASE t.type = "touch"
    BY <2>3, <1>w, <1>n, <1>r, <1>f DEF Written, Stamped, Row
  <2>4. CASE t.type = "progress"
    <3>1. Stamped(i, began[c]) = [row[i] EXCEPT !.at = began[c]]
      BY <2>4, <1>f DEF Stamped
    <3>2. row'[i] = [Stamped(i, began[c]) EXCEPT !.streak = t.streak, !.since = t.since]
      BY <2>4, <1>w, <1>n DEF Written
    <3> QED
      BY <2>4, <3>1, <3>2, <1>r DEF Row
  <2>5. CASE t.type = "resolve"
    <3>1. row'[i] = [row[i] EXCEPT !.status = "resolved", !.at = began[c]]
      BY <2>5, <1>w, <1>n DEF Written
    <3> QED
      BY <2>5, <3>1, <1>r DEF Row
  <2> QED
    BY <2>1, <2>2, <2>3, <2>4, <2>5, <1>t
(* The row that is written has no successor, *)
<1>5. Childless(i)
  <2>1. CASE t.type = "reopen"
    BY <2>1, <1>o
  <2>2. CASE t.type # "reopen"
    <3>1. row[i].status # "resolved"
      BY <2>2, <1>e, <1>f, <1>t
    <3> QED
      BY <3>1, <1>1 DEF Childless, HistoryIsLinear
  <2> QED
    BY <2>1, <2>2
(* and a predecessor that is of its key, resolved, older and its own. *)
<1>6. ASSUME NEW p \in Id, row'[i].prev = p
      PROVE  /\ p # i /\ row'[p] = row[p]
             /\ row[p].status = "resolved" /\ row[p].key = k
             /\ \A j \in Id : j # i => row[j].prev # p
             /\ began[c] < row[p].at \/ row[p].at = AgeCap
  <2>1. CASE t.type = "open"
    <3>1. p = t.id /\ Childless(p) /\ row[p].status = "resolved" /\ row[p].key = k
      BY <2>1, <1>4, <1>6, <1>e
    <3>2. Elapsed(c, row[p].at) > ReopenWindow
      BY <2>1, <3>1, <1>e DEF Cold
    <3>3. began[c] < row[p].at
      BY <3>2, <1>r DEF Elapsed
    <3> QED
      BY <2>1, <3>1, <3>3, <1>e, <1>w DEF Childless
  <2>2. CASE t.type # "open"
    <3>1. row[i].prev = p /\ p # i
      BY <2>2, <1>4, <1>5, <1>6 DEF Childless
    <3>2. /\ row[p].status = "resolved" /\ row[p].key = k
          /\ \A j \in Id : j # i => row[j].prev # p
      BY <2>2, <3>1, <1>1, <1>n DEF HistoryIsLinear
    <3>3. row[i].at >= began[c] /\ (row[i].at < row[p].at \/ row[p].at = AgeCap)
      BY <2>2, <3>1, <1>1, <1>n DEF StampedBefore, Younger
    <3> QED
      BY <3>1, <3>2, <3>3, <1>r, <1>w
  <2> QED
    BY <2>1, <2>2
<1>7. HistoryIsLinear'
  <2> SUFFICES ASSUME NEW j \in Id, NEW p \in Id, row'[j].prev = p
               PROVE  /\ row'[p].status = "resolved" /\ row'[p].key = row'[j].key
                      /\ \A m \in Id : row'[m].prev = p => m = j
    BY DEF HistoryIsLinear
  <2>1. CASE j = i
    BY <2>1, <1>6, <1>w
  <2>2. CASE j # i
    <3>1. row[j].prev = p /\ p # i /\ row'[i].prev # p
      BY <2>2, <1>5, <1>6, <1>w DEF Childless
    <3>2. /\ row[p].status = "resolved" /\ row[p].key = row[j].key
          /\ \A m \in Id : row[m].prev = p => m = j
      BY <3>1, <1>1 DEF HistoryIsLinear
    <3> QED
      BY <2>2, <3>1, <3>2, <1>w
  <2> QED
    BY <2>1, <2>2
<1>8. Younger'
  <2> SUFFICES ASSUME NEW j \in Id, NEW p \in Id, row'[j].prev = p
               PROVE  row'[j].at < row'[p].at \/ row'[p].at = AgeCap
    BY DEF Younger
  <2>1. CASE j = i
    BY <2>1, <1>4, <1>6
  <2>2. CASE j # i
    <3>1. row[j].prev = p /\ p # i
      BY <2>2, <1>5, <1>w DEF Childless
    <3> QED
      BY <2>2, <3>1, <1>1, <1>w DEF Younger
  <2> QED
    BY <2>1, <2>2
<1>9. StampedBefore'
  <2>1. \A d \in Collector : d = c
    BY DEF OneCollector
  <2>2. \A j \in Id : row'[j].status # "absent" => row'[j].at >= began[c]
    BY <1>1, <1>4, <1>r, <1>w DEF StampedBefore
  <2>3. \A j \in Id : row'[j].status = "absent" => row'[j].prev = None
    BY <1>1, <1>w DEF StampedBefore
  <2> QED
    BY <2>1, <2>2, <2>3, <1>b DEF StampedBefore
<1>10. PlanHeirless'
  <2> SUFFICES ASSUME NEW l \in Key, left[c][l] > 0
               PROVE  /\ plan[c][l].type = "open" =>
                           \/ Live(l)' # {}
                           \/ /\ Cold(c, l)'
                              /\ plan[c][l].id \in Id =>
                                   /\ \A j \in Id : row'[j].prev # plan[c][l].id
                                   /\ row'[plan[c][l].id].status = "resolved"
                                   /\ row'[plan[c][l].id].key = l
                      /\ plan[c][l].type = "reopen" =>
                           \A j \in Id : row'[j].prev # plan[c][l].id
    BY <1>2, <1>b DEF PlanHeirless, OneCollector, Childless
  <2>1. CASE l = k
    <3>1. CASE t.type = "open"
      <4>1. i \in Live(k)'
        BY <3>1, <1>4, <1>w DEF Live
      <4> QED
        BY <2>1, <3>1, <4>1
    <3>2. CASE t.type = "reopen"
      <4>1. row'[i].prev = row[i].prev /\ i = t.id
        BY <3>2, <1>4, <1>n
      <4> QED
        BY <2>1, <3>2, <4>1, <1>5, <1>w DEF Childless
    <3> QED
      BY <2>1, <3>1, <3>2
  <2>2. CASE l # k
    <3>1. \A j \in Id : row[j].key = l /\ row[j].status # "absent" => j # i
      BY <2>2, <1>n, <1>e
    <3>2. ASSUME NEW q \in Id, Childless(q), row[q].key = l
          PROVE  \A j \in Id : row'[j].prev # q
      BY <2>2, <3>2, <1>6, <1>w DEF Childless
    <3>3. CASE plan[c][l].type = "open"
      <4>1. CASE Live(l) # {}
        <5>1. PICK x \in Id : row[x].status = "open" /\ row[x].key = l
          BY <4>1 DEF Live
        <5>2. x \in Live(l)'
          BY <5>1, <3>1, <1>w DEF Live
        <5> QED
          BY <3>3, <5>2
      <4>2. CASE Live(l) = {}
        <5>1. /\ Cold(c, l)
              /\ plan[c][l].id \in Id => /\ Childless(plan[c][l].id)
                                         /\ row[plan[c][l].id].status = "resolved"
                                         /\ row[plan[c][l].id].key = l
          BY <3>3, <4>2, <1>1, <1>2 DEF PlanHeirless
        <5>2. Cold(c, l)'
          <6> SUFFICES ASSUME NEW j \in Id, row'[j].status = "resolved", row'[j].key = l
                       PROVE  row'[j].at - began[c] > ReopenWindow
            BY <1>b DEF Cold, Elapsed
          <6>1. j # i /\ row'[j] = row[j]
            BY <2>2, <1>w
          <6> QED
            BY <5>1, <6>1, <1>b DEF Cold, Elapsed
        <5>3. plan[c][l].id \in Id => /\ \A j \in Id : row'[j].prev # plan[c][l].id
                                      /\ row'[plan[c][l].id].status = "resolved"
                                      /\ row'[plan[c][l].id].key = l
          BY <5>1, <3>1, <3>2, <1>w
        <5> QED
          BY <3>3, <5>2, <5>3
      <4> QED
        BY <4>1, <4>2
    <3>4. CASE plan[c][l].type = "reopen"
      <4>1. Childless(plan[c][l].id) /\ plan[c][l].id \in Id /\ row[plan[c][l].id].key = l
        BY <3>4, <1>1, <1>2 DEF PlanHeirless, PlanValid, Kept
      <4> QED
        BY <3>4, <4>1, <3>2
    <3> QED
      BY <3>3, <3>4
  <2> QED
    BY <2>1, <2>2
<1>11. \A j \in Id : row[j].status = "absent" /\ row'[j].status = "open" =>
         row'[j].key = k /\ Cold(c, k)
  <2> SUFFICES ASSUME NEW j \in Id, row[j].status = "absent", row'[j].status = "open"
               PROVE  row'[j].key = k /\ Cold(c, k)
    OBVIOUS
  <2>1. j = i
    BY <1>w
  <2> QED
    BY <2>1, <1>n, <1>e, <1>w
<1> QED
  BY <1>7, <1>8, <1>9, <1>10, <1>11

LEMMA CompactLine ==
  ASSUME OneCollector, LineInv, NEW c \in Collector, Compact(c)
  PROVE  HistoryIsLinear' /\ Younger' /\ StampedBefore' /\ PlanHeirless'
<1> USE LifecycleAssumption
<1>1. TypeOK /\ HistoryIsLinear /\ Younger /\ StampedBefore
  BY DEF LineInv, EvidenceInv, SafeInv
<1>r. \A i \in Id : row[i] \in Row
  BY <1>1 DEF TypeOK
<1>2. \A i \in Id : row'[i] = IF Deleted(i) THEN NoRow
                              ELSE IF row[i].prev \in Id /\ Deleted(row[i].prev)
                              THEN [row[i] EXCEPT !.prev = Gone] ELSE row[i]
  BY DEF Compact
<1>n. NoRow.status = "absent" /\ NoRow.prev = None
  BY DEF NoRow
<1>3. \A i \in Id : Deleted(i) => row'[i].status = "absent" /\ row'[i].prev = None
  BY <1>2, <1>n
<1>4. ASSUME NEW i \in Id, ~Deleted(i)
      PROVE  /\ row'[i].status = row[i].status /\ row'[i].key = row[i].key
             /\ row'[i].at = row[i].at
             /\ row'[i].prev \in Id => row'[i].prev = row[i].prev /\ ~Deleted(row[i].prev)
             /\ row[i].status = "absent" => row'[i].prev = None
  <2>1. CASE row[i].prev \in Id /\ Deleted(row[i].prev)
    <3>1. row'[i] = [row[i] EXCEPT !.prev = Gone]
      BY <1>2, <1>4, <2>1
    <3> QED
      BY <2>1, <3>1, <1>r, <1>1, <1>4 DEF Row, StampedBefore
  <2>2. CASE ~(row[i].prev \in Id /\ Deleted(row[i].prev))
    BY <2>2, <1>1, <1>2, <1>4 DEF StampedBefore
  <2> QED
    BY <2>1, <2>2
<1>5. ASSUME NEW j \in Id, NEW p \in Id, row'[j].prev = p
      PROVE  /\ ~Deleted(j) /\ ~Deleted(p) /\ row[j].prev = p
             /\ row'[p].status = row[p].status /\ row'[p].key = row[p].key
             /\ row'[p].at = row[p].at
             /\ row'[j].key = row[j].key /\ row'[j].at = row[j].at
  BY <1>3, <1>4, <1>5
<1>6. HistoryIsLinear'
  BY <1>1, <1>5 DEF HistoryIsLinear
<1>7. Younger'
  BY <1>1, <1>5 DEF Younger
<1>8. StampedBefore'
  BY <1>1, <1>3, <1>4 DEF StampedBefore, Compact
<1>9. PlanHeirless'
  BY DEF PlanHeirless, Compact, OneCollector
<1> QED
  BY <1>6, <1>7, <1>8, <1>9

LEMMA AdvanceLine ==
  ASSUME LineInv, Advance
  PROVE  HistoryIsLinear' /\ Younger' /\ StampedBefore' /\ PlanHeirless'
<1>1. TypeOK /\ HistoryIsLinear /\ Younger /\ StampedBefore
  BY DEF LineInv, EvidenceInv, SafeInv
<1>r. \A i \in Id : row[i] \in Row /\ row[i].at \in 0 .. AgeCap
  BY <1>1 DEF TypeOK, Row
<1>a. AgeCap \in Nat /\ ReadMax <= AgeCap
  BY LifecycleAssumption DEF AgeCap
<1>2. \A i \in Id : row'[i] = IF row[i].status = "absent" THEN row[i]
                              ELSE [row[i] EXCEPT !.at = Older(@, AgeCap),
                                      !.since = IF row[i].status = "open" /\ row[i].streak > 0
                                                THEN Older(@, ClearCap) ELSE @]
  BY DEF Advance
<1>3. \A i \in Id : /\ row'[i].status = row[i].status /\ row'[i].key = row[i].key
                    /\ row'[i].prev = row[i].prev
                    /\ row[i].status # "absent" => row'[i].at = Older(row[i].at, AgeCap)
  BY <1>2, <1>r DEF Row
<1>4. HistoryIsLinear'
  BY <1>1, <1>3 DEF HistoryIsLinear
<1>5. Younger'
  <2> SUFFICES ASSUME NEW j \in Id, NEW p \in Id, row[j].prev = p
               PROVE  row'[j].at < row'[p].at \/ row'[p].at = AgeCap
    BY <1>3 DEF Younger
  <2>1. row[j].status # "absent" /\ row[p].status # "absent"
    BY <1>1, LifecycleAssumption DEF StampedBefore, HistoryIsLinear
  <2>2. row[j].at < row[p].at \/ row[p].at = AgeCap
    BY <1>1 DEF Younger
  <2> QED
    BY <2>1, <2>2, <1>3, <1>r, <1>a DEF Older
<1>6. StampedBefore'
  <2>1. \A i \in Id : row'[i].status = "absent" => row'[i].prev = None
    BY <1>1, <1>3 DEF StampedBefore
  <2>2. ASSUME NEW c \in Collector, NEW i \in Id, row'[i].status # "absent"
        PROVE  row'[i].at >= began'[c]
    <3>1. /\ began'[c] = IF pc[c] = "reading" THEN began[c] + 1 ELSE 0
          /\ pc[c] = "reading" => began[c] < ReadMax
          /\ began[c] \in 0 .. ReadMax
      BY <1>1 DEF Advance, TypeOK
    <3>2. row[i].at >= began[c] /\ row'[i].at = Older(row[i].at, AgeCap)
      BY <2>2, <1>1, <1>3 DEF StampedBefore
    <3> QED
      BY <3>1, <3>2, <1>r, <1>a, LifecycleAssumption DEF Older
  <2> QED
    BY <2>1, <2>2 DEF StampedBefore
<1>7. PlanHeirless'
  BY DEF PlanHeirless, Advance
<1> QED
  BY <1>4, <1>5, <1>6, <1>7

LEMMA NextLine ==
  ASSUME OneCollector, LineInv, [Next]_vars
  PROVE  /\ LineInv'
         /\ \A i \in Id : row[i].status = "absent" /\ row'[i].status = "open" =>
              \E c \in Collector : pc[c] = "writing" /\ Cold(c, row'[i].key)
<1>1. EvidenceInv'
  BY NextEvidence DEF LineInv
<1>t. TypeOK
  BY DEF LineInv, EvidenceInv, SafeInv
<1>2. ASSUME NEW c \in Collector, Begin(c) \/ Refused(c) \/ Finish(c) \/ Die(c)
      PROVE  HistoryIsLinear' /\ Younger' /\ StampedBefore' /\ PlanHeirless'
  <2>1. UNCHANGED row /\ pc'[c] # "writing" /\ began'[c] = 0
    BY <1>2, <1>t DEF Begin, Refused, Finish, Die, Forget, TypeOK
  <2> QED
    BY <2>1, LineKept
<1>3. ASSUME UNCHANGED <<row, pc, began, plan>>,
             \A c \in Collector, k \in Key : left'[c][k] = left[c][k]
      PROVE  HistoryIsLinear' /\ Younger' /\ StampedBefore' /\ PlanHeirless'
  BY <1>3 DEF LineInv, HistoryIsLinear, Younger, StampedBefore, PlanHeirless, Childless, Cold,
              Elapsed, Live
<1>4. HistoryIsLinear' /\ Younger' /\ StampedBefore' /\ PlanHeirless'
  BY <1>2, <1>3, PlanLine, ApplyLine, CompactLine, AdvanceLine DEF Next, Work, Note, vars
<1>5. ASSUME NEW i \in Id, row[i].status = "absent", row'[i].status = "open"
      PROVE  \E c \in Collector : pc[c] = "writing" /\ Cold(c, row'[i].key)
  <2>1. \/ \E c \in Collector, k \in Key : Apply(c, k)
        \/ \E c \in Collector : Compact(c)
        \/ Advance
    BY <1>5 DEF Next, Work, Begin, Plan, Note, Refused, Finish, Die, vars
  <2>2. CASE \E c \in Collector, k \in Key : Apply(c, k)
    <3>1. PICK c \in Collector, k \in Key : Apply(c, k)
      BY <2>2
    <3>2. row'[i].key = k /\ Cold(c, k)
      BY <3>1, <1>5, ApplyLine
    <3>3. pc[c] = "writing"
      BY <3>1 DEF Apply
    <3> QED
      BY <3>2, <3>3
  <2>3. CASE \E c \in Collector : Compact(c)
    <3>1. row'[i] \in {NoRow, row[i], [row[i] EXCEPT !.prev = Gone]}
      BY <2>3 DEF Compact
    <3>2. row[i] \in Row /\ NoRow.status = "absent"
      BY <1>t DEF TypeOK, NoRow
    <3> QED
      BY <3>1, <3>2, <1>5 DEF Row
  <2>4. CASE Advance
    <3>1. row'[i] = row[i]
      BY <2>4, <1>5 DEF Advance
    <3> QED
      BY <3>1, <1>5
  <2> QED
    BY <2>1, <2>2, <2>3, <2>4
<1> QED
  BY <1>1, <1>4, <1>5 DEF LineInv

LEMMA InitLine == Init => LineInv
<1> SUFFICES ASSUME Init PROVE LineInv
  OBVIOUS
<1>1. \A i \in Id : row[i].status = "absent" /\ row[i].prev = None
  BY DEF Init, NoRow
<1>2. HistoryIsLinear /\ Younger
  BY <1>1, LifecycleAssumption DEF HistoryIsLinear, Younger
<1>3. StampedBefore /\ PlanHeirless
  BY <1>1 DEF Init, StampedBefore, PlanHeirless
<1> QED
  BY <1>2, <1>3, InitEvidence DEF LineInv

(* With one collector at a time, the rows of a key form one line: a row    *)
(* that was succeeded is resolved, and has one successor.                  *)
THEOREM OneLineOfHistory == OneCollector => (Spec => []HistoryIsLinear)
<1> SUFFICES ASSUME OneCollector PROVE Spec => []HistoryIsLinear
  OBVIOUS
<1>1. LineInv /\ [Next]_vars => LineInv'
  BY NextLine
<1>2. LineInv => HistoryIsLinear
  BY DEF LineInv
<1> QED
  BY <1>1, <1>2, InitLine, PTL DEF Spec

(* With one collector at a time, no row is opened for a key whose trouble  *)
(* was resolved within the reopen window.                                  *)
THEOREM FlapsContinueARow == OneCollector => (Spec => FlapContinues)
<1> SUFFICES ASSUME OneCollector PROVE Spec => FlapContinues
  OBVIOUS
<1> DEFINE A == \A i \in Id : row[i].status = "absent" /\ row'[i].status = "open" =>
                  \A j \in Id : row[j].status = "resolved" /\ row[j].key = row'[i].key =>
                    \E c \in Collector :
                      pc[c] = "writing" /\ Elapsed(c, row[j].at) > ReopenWindow
<1>1. LineInv /\ [Next]_vars => LineInv'
  BY NextLine
<1>2. LineInv /\ [Next]_vars => [A]_vars
  <2> SUFFICES ASSUME LineInv, [Next]_vars PROVE A
    OBVIOUS
  <2>1. \A i \in Id : row[i].status = "absent" /\ row'[i].status = "open" =>
          \E c \in Collector : pc[c] = "writing" /\ Cold(c, row'[i].key)
    BY NextLine
  <2> QED
    BY <2>1 DEF Cold
<1> QED
  BY <1>1, <1>2, InitLine, PTL DEF Spec, FlapContinues
=============================================================================
