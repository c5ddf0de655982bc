---------------------------- MODULE LogPushProofs ----------------------------
(***************************************************************************)
(* Facts about the log queue for any lines, accounts, batches and deaths:  *)
(* what is typed, that no accepted line is lost, that none is counted more *)
(* often than it was stored and its process died, and that lines are       *)
(* processed oldest first.                                                 *)
(***************************************************************************)
EXTENDS LogPush, FiniteSetTheorems, TLAPS

(* The line was read by the running job and its errors are counted. *)
CountedHere(l) == drain = "counting" /\ l \in batch /\ FingerprintOf[l] \notin toCount

(* What is read is queued, until its owner drops it. *)
BatchInv ==
  /\ queued \cap kept = {}
  /\ taken \subseteq batch \cap queued
  /\ drain # "counting" => batch = {}

(* What the queue still owes a line. *)
OwedOnce ==
  /\ AcceptedIsCounted
  /\ \A l \in taken : CountedHere(l) => stored[l] <= counted[l] + dropped[l]

(* The counts that may still come of what was stored so far. *)
Coming(l) ==
  (IF l \in queued /\ ~(l \in taken /\ CountedHere(l)) THEN 1 ELSE 0)
  + (IF l \in batch \ taken /\ FingerprintOf[l] \in toCount THEN 1 ELSE 0)

NoneTwice == \A l \in Line : counted[l] + Coming(l) <= stored[l] + falls

(* The order of the queue, and a batch that takes its front. *)
QueueOrder ==
  /\ \A l \in Line : ahead[l] \subseteq queued \cup kept
  /\ \A l \in Line : \A j \in ahead[l] : ahead[j] \subseteq ahead[l] /\ j # l
  /\ IsFiniteSet(queued \cup kept)
  /\ \A l \in taken : ahead[l] \cap queued \subseteq taken

PushInv == PushTypeOK /\ BatchInv /\ OwedOnce /\ NoneTwice
-----------------------------------------------------------------------------
LEMMA InitTyped == PushInit => PushTypeOK
  BY LogPushAssumption DEF PushInit, PushTypeOK

LEMMA AheadTyped ==
  ASSUME PushTypeOK, NEW D \in SUBSET Line
  PROVE  /\ AheadWithout(D) \in [Line -> SUBSET Line]
         /\ AgeWithout(D) \in [Line -> 0 .. KeepFor + 1]
  BY LogPushAssumption DEF PushTypeOK, AheadWithout, AgeWithout

(* Every operation of the endpoint, the operator and the job keeps the     *)
(* shape of the tables.                                                    *)
LEMMA NextTyped == PushTypeOK /\ [PushNext]_pushVars => PushTypeOK'
<1> SUFFICES ASSUME PushTypeOK, [PushNext]_pushVars PROVE PushTypeOK'
  OBVIOUS
<1> USE LogPushAssumption
<1>1. ASSUME NEW l \in Line, Deliver(l) PROVE PushTypeOK'
  <2>1. stored' \in [Line -> 0 .. MaxStores]
    <3>1. stored[l] + 1 \in 0 .. MaxStores
      BY <1>1 DEF Deliver, PushTypeOK
    <3> QED
      BY <1>1, <3>1 DEF Deliver, PushTypeOK
  <2>2. ahead' \in [Line -> SUBSET Line]
    BY <1>1 DEF Deliver, PushTypeOK
  <2> QED
    BY <1>1, <2>1, <2>2 DEF Deliver, PushTypeOK
<1>2. ASSUME NEW a \in Account, SaveCollection(a) PROVE PushTypeOK'
  BY <1>2 DEF SaveCollection, PushTypeOK
<1>3. ASSUME NEW a \in Account, EnableCollection(a) PROVE PushTypeOK'
  BY <1>3 DEF EnableCollection, PushTypeOK
<1>4. ASSUME NEW a \in Account, DisableCollection(a) PROVE PushTypeOK'
  <2> DEFINE own == {l \in Line : AccountOf[l] = a}
  <2>1. ahead' \in [Line -> SUBSET Line] /\ age' \in [Line -> 0 .. KeepFor + 1]
    BY <1>4, AheadTyped DEF DisableCollection
  <2>2. dropped' \in [Line -> Nat]
    BY <1>4 DEF DisableCollection, PushTypeOK
  <2> QED
    BY <1>4, <2>1, <2>2 DEF DisableCollection, PushTypeOK
<1>5. CASE StartDrain
  BY <1>5 DEF StartDrain, DueLines, PushTypeOK
<1>6. ASSUME NEW p \in Fingerprint, CountGroup(p) PROVE PushTypeOK'
  <2>1. counted' \in [Line -> Nat]
    BY <1>6 DEF CountGroup, Tally, PushTypeOK
  <2> QED
    BY <1>6, <2>1 DEF CountGroup, PushTypeOK
<1>7. CASE MarkProcessed
  <2>1. age' \in [Line -> 0 .. KeepFor + 1]
    BY <1>7 DEF MarkProcessed, PushTypeOK
  <2> QED
    BY <1>7, <2>1 DEF MarkProcessed, PushTypeOK
<1>8. CASE Sweep
  <2>1. ahead' \in [Line -> SUBSET Line] /\ age' \in [Line -> 0 .. KeepFor + 1]
    BY <1>8, AheadTyped DEF Sweep
  <2> QED
    BY <1>8, <2>1 DEF Sweep, PushTypeOK
<1>9. CASE FallDrain
  BY <1>9 DEF FallDrain, PushTypeOK
<1>10. CASE AgeKept
  <2>1. age' \in [Line -> 0 .. KeepFor + 1]
    BY <1>10 DEF AgeKept, PushTypeOK
  <2> QED
    BY <1>10, <2>1 DEF AgeKept, PushTypeOK
<1>11. CASE UNCHANGED pushVars
  BY <1>11 DEF pushVars, PushTypeOK
<1> QED
  BY <1>1, <1>2, <1>3, <1>4, <1>5, <1>6, <1>7, <1>8, <1>9, <1>10, <1>11 DEF PushNext, Drain
-----------------------------------------------------------------------------
(* What is queued is not kept, and what the job took is still queued. *)
LEMMA NextBatch == PushTypeOK /\ BatchInv /\ [PushNext]_pushVars => BatchInv'
<1> SUFFICES ASSUME PushTypeOK, BatchInv, [PushNext]_pushVars PROVE BatchInv'
  OBVIOUS
<1> USE DEF BatchInv
<1>1. ASSUME NEW l \in Line, Deliver(l) PROVE BatchInv'
  BY <1>1 DEF Deliver, Known
<1>2. ASSUME NEW a \in Account, SaveCollection(a) \/ EnableCollection(a) PROVE BatchInv'
  BY <1>2 DEF SaveCollection, EnableCollection
<1>3. ASSUME NEW a \in Account, DisableCollection(a) PROVE BatchInv'
  BY <1>3 DEF DisableCollection
<1>4. CASE StartDrain
  BY <1>4 DEF StartDrain, DueLines
<1>5. ASSUME NEW p \in Fingerprint, CountGroup(p) PROVE BatchInv'
  BY <1>5 DEF CountGroup
<1>6. CASE MarkProcessed
  BY <1>6 DEF MarkProcessed
<1>7. CASE Sweep
  BY <1>7 DEF Sweep
<1>8. CASE FallDrain \/ AgeKept
  BY <1>8 DEF FallDrain, AgeKept
<1>9. CASE UNCHANGED pushVars
  BY <1>9 DEF pushVars
<1> QED
  BY <1>1, <1>2, <1>3, <1>4, <1>5, <1>6, <1>7, <1>8, <1>9 DEF PushNext, Drain
-----------------------------------------------------------------------------
(* No line is lost: what was stored is owed, counted or dropped. *)
LEMMA NextOwed ==
  PushTypeOK /\ BatchInv /\ OwedOnce /\ [PushNext]_pushVars => OwedOnce'
<1> SUFFICES ASSUME PushTypeOK, BatchInv, OwedOnce, [PushNext]_pushVars PROVE OwedOnce'
  OBVIOUS
<1>a. \A l \in Line : stored[l] \in Nat /\ counted[l] \in Nat /\ dropped[l] \in Nat
  BY LogPushAssumption DEF PushTypeOK
<1> USE DEF OwedOnce, AcceptedIsCounted, CountedHere
<1>1. ASSUME NEW l \in Line, Deliver(l) PROVE OwedOnce'
  <2>1. stored' = [stored EXCEPT ![l] = @ + 1] /\ stored \in [Line -> 0 .. MaxStores]
    BY <1>1 DEF Deliver, PushTypeOK
  <2>2. l \notin queued /\ l \notin taken
    BY <1>1 DEF Deliver, Known, BatchInv
  <2>3. taken \subseteq Line
    BY DEF PushTypeOK
  <2> QED
    BY <1>1, <1>a, <2>1, <2>2, <2>3 DEF Deliver
<1>2. ASSUME NEW a \in Account, SaveCollection(a) \/ EnableCollection(a) PROVE OwedOnce'
  BY <1>2 DEF SaveCollection, EnableCollection
<1>3. ASSUME NEW a \in Account, DisableCollection(a) PROVE OwedOnce'
  BY <1>3, <1>a DEF DisableCollection, PushTypeOK
<1>4. CASE StartDrain
  BY <1>4 DEF StartDrain
<1>5. ASSUME NEW p \in Fingerprint, CountGroup(p) PROVE OwedOnce'
  <2>1. \A l \in Line : counted'[l] = IF l \in batch /\ FingerprintOf[l] = p
                                       THEN counted[l] + 1 ELSE counted[l]
    BY <1>5 DEF CountGroup, Tally
  <2>2. taken \subseteq Line /\ taken \subseteq queued /\ taken \subseteq batch
    BY DEF PushTypeOK, BatchInv
  <2> QED
    BY <1>5, <1>a, <2>1, <2>2 DEF CountGroup
<1>6. CASE MarkProcessed
  <2>1. \A l \in taken : l \in batch /\ l \in Line
    BY DEF BatchInv, PushTypeOK
  <2>2. \A l \in taken : stored[l] <= counted[l] + dropped[l]
    BY <1>6, <2>1 DEF MarkProcessed, AllCounted
  <2> QED
    BY <1>6, <1>a, <2>2 DEF MarkProcessed
<1>7. CASE Sweep
  BY <1>7 DEF Sweep, Swept, BatchInv
<1>8. CASE FallDrain \/ AgeKept
  BY <1>8 DEF FallDrain, AgeKept
<1>9. CASE UNCHANGED pushVars
  BY <1>9 DEF pushVars
<1> QED
  BY <1>1, <1>2, <1>3, <1>4, <1>5, <1>6, <1>7, <1>8, <1>9 DEF PushNext, Drain
-----------------------------------------------------------------------------
(* What is still to come of a line, as the four cases it can be in. *)
LEMMA ComingNat == \A l \in Line : Coming(l) \in {0, 1, 2}
  BY DEF Coming

(* No line is counted more often than it was stored and a process died. *)
LEMMA NextNoneTwice ==
  PushTypeOK /\ BatchInv /\ NoneTwice /\ [PushNext]_pushVars => NoneTwice'
<1> SUFFICES ASSUME PushTypeOK, BatchInv, NoneTwice, [PushNext]_pushVars PROVE NoneTwice'
  OBVIOUS
<1>a. /\ \A l \in Line : stored[l] \in Nat /\ counted[l] \in Nat
      /\ falls \in Nat
      /\ taken \subseteq batch /\ taken \subseteq queued /\ batch \subseteq Line
  BY LogPushAssumption DEF PushTypeOK, BatchInv
<1>b. \A l \in Line : FingerprintOf[l] \in Fingerprint
  BY LogPushAssumption
<1> USE DEF NoneTwice, Coming, CountedHere
<1>1. ASSUME NEW l \in Line, Deliver(l) PROVE NoneTwice'
  <2>1. stored' = [stored EXCEPT ![l] = @ + 1] /\ stored \in [Line -> 0 .. MaxStores]
    BY <1>1 DEF Deliver, PushTypeOK
  <2>2. l \notin queued /\ l \notin taken
    BY <1>1 DEF Deliver, Known, BatchInv
  <2> QED
    BY <1>1, <1>a, <2>1, <2>2 DEF Deliver
<1>2. ASSUME NEW a \in Account, SaveCollection(a) \/ EnableCollection(a) PROVE NoneTwice'
  BY <1>2 DEF SaveCollection, EnableCollection
<1>3. ASSUME NEW a \in Account, DisableCollection(a) PROVE NoneTwice'
  <2> SUFFICES ASSUME NEW l \in Line PROVE (counted[l] + Coming(l) <= stored[l] + falls)'
    OBVIOUS
  <2>1. UNCHANGED <<drain, batch, toCount, stored, counted, falls>>
    BY <1>3 DEF DisableCollection
  <2>2. CASE AccountOf[l] = a
    BY <1>3, <1>a, <2>1, <2>2 DEF DisableCollection, BatchInv
  <2>3. CASE AccountOf[l] # a
    BY <1>3, <1>a, <2>1, <2>3 DEF DisableCollection
  <2> QED
    BY <2>2, <2>3
<1>4. CASE StartDrain
  <2>1. taken' = batch' /\ batch' \subseteq queued
    BY <1>4 DEF StartDrain, DueLines
  <2>2. \A l \in batch' : FingerprintOf[l] \in toCount'
    BY <1>4 DEF StartDrain
  <2>3. batch = {} /\ UNCHANGED <<queued, counted, stored, falls>>
    BY <1>4 DEF StartDrain, BatchInv
  <2> QED
    BY <1>a, <2>1, <2>2, <2>3
<1>5. ASSUME NEW p \in Fingerprint, CountGroup(p) PROVE NoneTwice'
  <2> SUFFICES ASSUME NEW l \in Line PROVE (counted[l] + Coming(l) <= stored[l] + falls)'
    OBVIOUS
  <2>1. /\ drain = "counting" /\ p \in toCount /\ toCount' = toCount \ {p}
        /\ UNCHANGED <<drain, queued, batch, taken, stored, falls>>
        /\ counted'[l] = IF l \in batch /\ FingerprintOf[l] = p
                         THEN counted[l] + 1 ELSE counted[l]
    BY <1>5 DEF CountGroup, Tally
  <2>2. CASE l \in batch /\ FingerprintOf[l] = p
    BY <1>a, <2>1, <2>2
  <2>3. CASE ~(l \in batch /\ FingerprintOf[l] = p)
    BY <1>a, <2>1, <2>3
  <2> QED
    BY <2>2, <2>3
<1>6. CASE MarkProcessed
  <2>1. /\ drain = "counting" /\ toCount = {} /\ batch' = {} /\ queued' = queued \ taken
        /\ UNCHANGED <<stored, counted, falls>>
    BY <1>6 DEF MarkProcessed, AllCounted
  <2> QED
    BY <1>a, <2>1
<1>7. CASE Sweep
  <2>1. queued' = queued /\ UNCHANGED <<batch, taken, toCount, stored, counted, falls>>
    BY <1>7 DEF Sweep, Swept, BatchInv
  <2>2. batch = {} /\ drain' # "counting"
    BY <1>7 DEF Sweep, BatchInv
  <2> QED
    BY <1>a, <2>1, <2>2
<1>8. CASE FallDrain
  <2>1. falls' = falls + 1 /\ batch' = {} /\ UNCHANGED <<queued, stored, counted>>
    BY <1>8 DEF FallDrain
  <2> QED
    BY <1>a, <2>1
<1>9. CASE AgeKept
  BY <1>9 DEF AgeKept
<1>10. CASE UNCHANGED pushVars
  BY <1>10 DEF pushVars
<1> QED
  BY <1>1, <1>2, <1>3, <1>4, <1>5, <1>6, <1>7, <1>8, <1>9, <1>10 DEF PushNext, Drain
-----------------------------------------------------------------------------
(* Deleting lines from the queue keeps its order. *)
LEMMA OrderWithout ==
  ASSUME PushTypeOK, QueueOrder, NEW D \in SUBSET Line
  PROVE  /\ \A l \in Line : AheadWithout(D)[l] \subseteq (queued \cup kept) \ D
         /\ \A l \in Line : \A j \in AheadWithout(D)[l] :
              AheadWithout(D)[j] \subseteq AheadWithout(D)[l] /\ j # l
         /\ IsFiniteSet((queued \cup kept) \ D)
<1>1. \A l \in Line : AheadWithout(D)[l] = IF l \in D THEN {} ELSE ahead[l] \ D
  BY DEF AheadWithout
<1>2. \A l \in Line : ahead[l] \subseteq Line
  BY DEF PushTypeOK
<1>3. IsFiniteSet((queued \cup kept) \ D)
  BY FS_Subset DEF QueueOrder
<1> QED
  BY <1>1, <1>2, <1>3 DEF QueueOrder

(* The oldest lines that wait are a front of the queue: whatever waits     *)
(* ahead of one of them is one of them.                                    *)
LEMMA DueIsFront ==
  ASSUME PushTypeOK, QueueOrder, NEW l \in DueLines
  PROVE  ahead[l] \cap queued \subseteq DueLines
<1> SUFFICES ASSUME NEW j \in ahead[l] \cap queued PROVE j \in DueLines
  OBVIOUS
<1>1. l \in Line /\ j \in Line /\ j \in queued
  BY DEF PushTypeOK, DueLines
<1>2. ahead[j] \cap queued \subseteq ahead[l] \cap queued
  BY <1>1 DEF QueueOrder
<1>3. IsFiniteSet(ahead[l] \cap queued)
  <2>1. ahead[l] \cap queued \subseteq queued \cup kept
    OBVIOUS
  <2> QED
    BY <2>1, FS_Subset DEF QueueOrder
<1>4. /\ Cardinality(ahead[j] \cap queued) <= Cardinality(ahead[l] \cap queued)
      /\ IsFiniteSet(ahead[j] \cap queued)
  BY <1>2, <1>3, FS_Subset
<1>5. Cardinality(ahead[j] \cap queued) \in Nat /\ Cardinality(ahead[l] \cap queued) \in Nat
  BY <1>3, <1>4, FS_CardinalityType
<1>6. Cardinality(ahead[l] \cap queued) < Drained
  BY DEF DueLines
<1> QED
  BY <1>1, <1>4, <1>5, <1>6, LogPushAssumption DEF DueLines

(* The order of the queue survives deliveries, drops, sweeps and deaths,   *)
(* and no batch passes over a line that waits.                             *)
LEMMA NextOrder ==
  PushTypeOK /\ BatchInv /\ QueueOrder /\ [PushNext]_pushVars => QueueOrder'
<1> SUFFICES ASSUME PushTypeOK, BatchInv, QueueOrder, [PushNext]_pushVars PROVE QueueOrder'
  OBVIOUS
<1>a. taken \subseteq queued /\ queued \subseteq Line /\ kept \subseteq Line
  BY DEF BatchInv, PushTypeOK
<1>1. ASSUME NEW l \in Line, Deliver(l) PROVE QueueOrder'
  <2>1. /\ l \notin queued \cup kept
        /\ queued' = queued \cup {l} /\ UNCHANGED <<kept, taken>>
        /\ \A j \in Line : ahead'[j] = IF j = l THEN queued \cup kept ELSE ahead[j]
    BY <1>1 DEF Deliver, Known, PushTypeOK
  <2>2. IsFiniteSet(queued' \cup kept')
    <3>1. queued' \cup kept' = (queued \cup kept) \cup {l}
      BY <2>1
    <3> QED
      BY <3>1, FS_AddElement DEF QueueOrder
  <2>3. \A k \in Line : ahead'[k] \subseteq queued' \cup kept'
    BY <2>1 DEF QueueOrder
  <2>4. \A k \in Line : \A j \in ahead'[k] : ahead'[j] \subseteq ahead'[k] /\ j # k
    BY <1>a, <2>1 DEF QueueOrder
  <2>5. \A k \in taken' : ahead'[k] \cap queued' \subseteq taken'
    BY <1>a, <2>1 DEF QueueOrder
  <2> QED
    BY <2>2, <2>3, <2>4, <2>5 DEF QueueOrder
<1>2. ASSUME NEW a \in Account, SaveCollection(a) \/ EnableCollection(a) PROVE QueueOrder'
  BY <1>2 DEF SaveCollection, EnableCollection, QueueOrder
<1>3. ASSUME NEW a \in Account, DisableCollection(a) PROVE QueueOrder'
  <2> DEFINE own == {l \in Line : AccountOf[l] = a}
  <2>1. /\ queued' = queued \ own /\ kept' = kept \ own /\ taken' = taken \ own
        /\ ahead' = AheadWithout(own)
    BY <1>3 DEF DisableCollection
  <2> HIDE DEF own
  <2>2. own \in SUBSET Line
    BY DEF own
  <2>3. queued' \cup kept' = (queued \cup kept) \ own
    BY <2>1
  <2>4. \A l \in taken' : ahead'[l] \cap queued' \subseteq taken'
    <3>1. \A l \in Line : AheadWithout(own)[l] \subseteq ahead[l] \ own
      BY DEF AheadWithout
    <3> QED
      BY <1>a, <2>1, <3>1 DEF QueueOrder
  <2> QED
    BY <2>1, <2>2, <2>3, <2>4, OrderWithout DEF QueueOrder
<1>4. CASE StartDrain
  <2>1. taken' = DueLines /\ UNCHANGED <<queued, kept, ahead>>
    BY <1>4 DEF StartDrain
  <2> QED
    BY <2>1, DueIsFront DEF QueueOrder
<1>5. ASSUME NEW p \in Fingerprint, CountGroup(p) PROVE QueueOrder'
  BY <1>5 DEF CountGroup, QueueOrder
<1>6. CASE MarkProcessed
  <2>1. queued' \cup kept' = queued \cup kept /\ taken' = {} /\ ahead' = ahead
    BY <1>6, <1>a DEF MarkProcessed
  <2> QED
    BY <2>1 DEF QueueOrder
<1>7. CASE Sweep
  <2> DEFINE old == {l \in Line : Swept(l)}
  <2>1. /\ queued' = queued \ old /\ kept' = kept \ old
        /\ ahead' = AheadWithout(old) /\ taken' = taken /\ taken = {}
    BY <1>7 DEF Sweep, BatchInv
  <2> HIDE DEF old
  <2>2. old \in SUBSET Line /\ queued' \cup kept' = (queued \cup kept) \ old
    BY <2>1 DEF old
  <2>3. /\ \A l \in Line : ahead'[l] \subseteq queued' \cup kept'
        /\ \A l \in Line : \A j \in ahead'[l] : ahead'[j] \subseteq ahead'[l] /\ j # l
        /\ IsFiniteSet(queued' \cup kept')
    BY ONLY <2>1, <2>2, OrderWithout, PushTypeOK, QueueOrder
  <2> QED
    BY <2>1, <2>3 DEF QueueOrder
<1>8. CASE FallDrain
  BY <1>8 DEF FallDrain, QueueOrder
<1>9. CASE AgeKept
  BY <1>9 DEF AgeKept, QueueOrder
<1>10. CASE UNCHANGED pushVars
  BY <1>10 DEF pushVars, QueueOrder
<1> QED
  BY <1>1, <1>2, <1>3, <1>4, <1>5, <1>6, <1>7, <1>8, <1>9, <1>10 DEF PushNext, Drain
-----------------------------------------------------------------------------
(* The queue, its batch, its counts and its order, from the start on. *)
LEMMA PushInductive == PushSpec => [](PushInv /\ QueueOrder)
<1>1. PushInit => PushInv /\ QueueOrder
  <2> SUFFICES ASSUME PushInit PROVE PushInv /\ QueueOrder
    OBVIOUS
  <2>1. IsFiniteSet(queued \cup kept)
    <3>1. queued \cup kept = {}
      BY DEF PushInit
    <3> QED
      BY <3>1, FS_EmptySet
  <2>2. BatchInv /\ OwedOnce
    BY DEF PushInit, BatchInv, OwedOnce, AcceptedIsCounted
  <2>3. NoneTwice
    BY DEF PushInit, NoneTwice, Coming
  <2>4. QueueOrder
    BY <2>1 DEF PushInit, QueueOrder
  <2> QED
    BY <2>2, <2>3, <2>4, InitTyped DEF PushInv
<1>2. PushInv /\ QueueOrder /\ [PushNext]_pushVars => (PushInv /\ QueueOrder)'
  BY NextTyped, NextBatch, NextOwed, NextNoneTwice, NextOrder DEF PushInv
<1> QED
  BY <1>1, <1>2, PTL DEF PushSpec

(* The tables of the queue and what the job remembers are well formed. *)
THEOREM PushTyped == PushSpec => []PushTypeOK
<1>1. PushInv => PushTypeOK
  BY DEF PushInv
<1> QED
  BY <1>1, PushInductive, PTL

(* Whatever process dies inside the job, and whatever the operator         *)
(* switches, a line the endpoint accepted is queued, was counted, or was   *)
(* dropped with its account: recordError comes before                      *)
(* markIngestProcessed.                                                    *)
THEOREM AcceptedLinesAreCounted == PushSpec => []AcceptedIsCounted
<1>1. PushInv => AcceptedIsCounted
  BY DEF PushInv, OwedOnce
<1> QED
  BY <1>1, PushInductive, PTL

(* The derived id keeps a delivery that comes again from being counted     *)
(* again while its line is there: a line is counted once each time it is   *)
(* stored, and once more for each process that died.                       *)
THEOREM LinesAreCountedOnce == PushSpec => []CountedPerStore
<1>1. PushInv => CountedPerStore
  <2> SUFFICES ASSUME PushInv, NEW l \in Line PROVE counted[l] <= stored[l] + falls
    BY DEF CountedPerStore
  <2>1. counted[l] + Coming(l) <= stored[l] + falls
    BY DEF PushInv, NoneTwice
  <2>2. counted[l] \in Nat /\ stored[l] + falls \in Nat
    BY LogPushAssumption DEF PushInv, PushTypeOK
  <2> QED
    BY <2>1, <2>2, ComingNat
<1> QED
  BY <1>1, PushInductive, PTL

(* Both together: the queue accounts for every line.                       *)
THEOREM QueueIsAccounted == PushSpec => []QueueAccounts
<1>1. AcceptedIsCounted /\ CountedPerStore => QueueAccounts
  BY DEF QueueAccounts
<1> QED
  BY <1>1, AcceptedLinesAreCounted, LinesAreCountedOnce, PTL

(* No line overtakes another in the queue: one is processed only           *)
(* with or after every line that was queued before it and still waits.     *)
THEOREM ProcessedOldestFirst == PushSpec => OldestFirst
<1> DEFINE A == \A l \in queued : l \in kept' => \A j \in ahead[l] : j \notin queued'
<1>1. PushInv /\ QueueOrder /\ [PushNext]_pushVars => [A]_pushVars
  <2> SUFFICES ASSUME PushInv, QueueOrder, PushNext,
                      NEW l \in queued, l \in kept', NEW j \in ahead[l], j \in queued'
               PROVE  FALSE
    OBVIOUS
  <2>1. l \notin kept
    BY DEF PushInv, BatchInv
  <2>2. CASE MarkProcessed
    <3>1. l \in taken /\ j \in queued \ taken
      BY <2>1, <2>2 DEF MarkProcessed
    <3> QED
      BY <3>1 DEF QueueOrder
  <2>3. kept' \subseteq kept \/ MarkProcessed
    BY DEF PushNext, Drain, Deliver, SaveCollection, EnableCollection, DisableCollection,
           StartDrain, CountGroup, Sweep, FallDrain, AgeKept
  <2> QED
    BY <2>1, <2>2, <2>3
<1> QED
  BY <1>1, PushInductive, PTL DEF PushSpec, OldestFirst
=============================================================================
