------------------------------- MODULE LogPush -------------------------------
(***************************************************************************)
(* The log lines a forwarder delivers: the endpoint of                     *)
(* app/api/v1/ingest/aws/logs, which stores a line once per derived id and *)
(* answers 202, and the job of collector/ingest-job.ts, which counts the   *)
(* oldest lines into error groups, marks them and sweeps what their        *)
(* account does not keep.  CloudWatch delivers at least once and in no     *)
(* order, so a line may arrive again at any time.                          *)
(*                                                                         *)
(* Each action of the job is one transaction, and a request served by      *)
(* another process may come between two of them.  The lines of one request *)
(* are stored in one transaction; nothing tells that from storing them one *)
(* by one, since a request that is not answered is sent again.  The detect *)
(* cycle between the mark and the sweep writes problems, not lines.        *)
(***************************************************************************)
EXTENDS Integers, FiniteSets

CONSTANTS
  Line,           \* the log lines, by ingestEventId
  Account,        \* the connections that forward
  AccountOf,      \* the connection a line belongs to
  Fingerprint,    \* error groups: one recordError per batch and fingerprint
  FingerprintOf,  \* the fingerprint of a line
  Drained,        \* INGEST_BATCH
  KeepFor,        \* retentionHours
  MaxStores,      \* bound: how often one line is stored
  MaxFalls        \* bound: how often a process dies inside the job

ASSUME LogPushAssumption ==
  /\ AccountOf \in [Line -> Account]
  /\ FingerprintOf \in [Line -> Fingerprint]
  /\ Drained \in Nat \ {0}
  /\ KeepFor \in Nat
  /\ MaxStores \in Nat
  /\ MaxFalls \in Nat

VARIABLES
  managed,  \* the accounts with managed collection
  takes,    \* the accounts with realtimeLogs
  keeps,    \* the accounts with persistLogs
  queued,   \* the lines stored and not yet processed
  kept,     \* the lines stored and processed
  ahead,    \* per line, the stored lines with a smaller seq
  age,      \* per kept line, the age of processedAt
  drain,    \* the job: "idle", "counting", "sweeping"
  batch,    \* the lines it read
  taken,    \* those of them whose row is still there
  toCount,  \* the fingerprints of the batch it has still to count
  stored,   \* observation: per line, how often it was inserted
  counted,  \* observation: per line, how often it was counted as an error
  dropped,  \* observation: per line, how often the operator dropped it queued
  falls     \* the processes that died inside the job

pushVars == <<managed, takes, keeps, queued, kept, ahead, age, drain, batch, taken,
              toCount, stored, counted, dropped, falls>>
-----------------------------------------------------------------------------
(* The unique index on the derived id. *)
Known(l) == l \in queued \cup kept

(* dueIngestEvents: the oldest that are not processed. *)
DueAny == {l \in queued \cup kept : Cardinality(ahead[l]) < Drained}  \* mutant: no isNull

DueAfterLimit == {l \in queued : Cardinality(ahead[l]) < Drained}   \* mutant: the limit first

DueNewest == {l \in queued : Cardinality({j \in queued : l \in ahead[j]}) < Drained}  \* mutant

DueLines == {l \in queued : Cardinality(ahead[l] \cap queued) < Drained}

(* recordError, for one fingerprint of the batch. *)
Tally(p) == [l \in Line |-> IF l \in batch /\ FingerprintOf[l] = p THEN counted[l] + 1
                            ELSE counted[l]]

AllCountedLater == TRUE   \* mutant: marked before it is counted

AllCounted == toCount = {}

(* The edge sweepIngestEvents is called with. *)
Swept(l) ==
  /\ l \in kept
  /\ AccountOf[l] \in managed
  /\ AccountOf[l] \in keeps => age[l] > KeepFor

(* What is deleted leaves its place in the order. *)
AheadWithout(D) == [l \in Line |-> IF l \in D THEN {} ELSE ahead[l] \ D]

AgeWithout(D) == [l \in Line |-> IF l \in D THEN 0 ELSE age[l]]
-----------------------------------------------------------------------------
PushInit ==
  /\ managed = Account /\ takes = Account
  /\ keeps \in SUBSET Account
  /\ queued = {} /\ kept = {}
  /\ ahead = [l \in Line |-> {}]
  /\ age = [l \in Line |-> 0]
  /\ drain = "idle" /\ batch = {} /\ taken = {} /\ toCount = {}
  /\ stored = [l \in Line |-> 0]
  /\ counted = [l \in Line |-> 0]
  /\ dropped = [l \in Line |-> 0]
  /\ falls = 0

(* A line arrives, for the first time or again: storeIngestEvents. *)
Deliver(l) ==
  /\ AccountOf[l] \in managed \cap takes
  /\ ~Known(l)
  /\ stored[l] < MaxStores
  /\ queued' = queued \cup {l}
  /\ ahead' = [ahead EXCEPT ![l] = queued \cup kept]
  /\ stored' = [stored EXCEPT ![l] = @ + 1]
  /\ UNCHANGED <<managed, takes, keeps, kept, age, drain, batch, taken, toCount,
                 counted, dropped, falls>>

(* saveCollectionSettingsAction *)
SaveCollection(a) ==
  /\ takes' \in {takes \cup {a}, takes \ {a}}
  /\ keeps' \in {keeps \cup {a}, keeps \ {a}}
  /\ UNCHANGED <<managed, queued, kept, ahead, age, drain, batch, taken, toCount,
                 stored, counted, dropped, falls>>

(* enableManagedCollection *)
EnableCollection(a) ==
  /\ managed' = managed \cup {a}
  /\ takes' = takes \ {a}
  /\ UNCHANGED <<keeps, queued, kept, ahead, age, drain, batch, taken, toCount,
                 stored, counted, dropped, falls>>

(* disableManagedCollection, once its subscriptions are gone: everything   *)
(* queued and kept is dropped.                                             *)
DisableCollection(a) ==
  LET own == {l \in Line : AccountOf[l] = a} IN
  /\ managed' = managed \ {a}
  /\ takes' = takes \ {a}
  /\ queued' = queued \ own /\ kept' = kept \ own /\ taken' = taken \ own
  /\ ahead' = AheadWithout(own) /\ age' = AgeWithout(own)
  /\ dropped' = [l \in Line |-> IF l \in own \cap queued THEN dropped[l] + 1
                                ELSE dropped[l]]
  /\ UNCHANGED <<keeps, drain, batch, toCount, stored, counted, falls>>
-----------------------------------------------------------------------------
(* runIngestJob *)

StartDrain ==
  /\ drain = "idle"
  /\ drain' = "counting"
  /\ batch' = DueLines /\ taken' = DueLines
  /\ toCount' = {FingerprintOf[l] : l \in DueLines}
  /\ UNCHANGED <<managed, takes, keeps, queued, kept, ahead, age, stored, counted,
                 dropped, falls>>

CountGroup(p) ==
  /\ drain = "counting" /\ p \in toCount
  /\ counted' = Tally(p)
  /\ toCount' = toCount \ {p}
  /\ UNCHANGED <<managed, takes, keeps, queued, kept, ahead, age, drain, batch,
                 taken, stored, dropped, falls>>

MarkProcessed ==
  /\ drain = "counting" /\ AllCounted
  /\ drain' = "sweeping"
  /\ queued' = queued \ taken
  /\ kept' = kept \cup taken
  /\ age' = [l \in Line |-> IF l \in taken THEN 0 ELSE age[l]]
  /\ batch' = {} /\ taken' = {} /\ toCount' = {}
  /\ UNCHANGED <<managed, takes, keeps, ahead, stored, counted, dropped, falls>>

Sweep ==
  LET old == {l \in Line : Swept(l)} IN
  /\ drain = "sweeping"
  /\ drain' = "idle"
  /\ queued' = queued \ old /\ kept' = kept \ old
  /\ ahead' = AheadWithout(old) /\ age' = AgeWithout(old)
  /\ UNCHANGED <<managed, takes, keeps, batch, taken, toCount, stored,
                 counted, dropped, falls>>

(* The process dies, and what the job has in memory with it. *)
FallDrain ==
  /\ drain # "idle" /\ falls < MaxFalls
  /\ falls' = falls + 1
  /\ drain' = "idle" /\ batch' = {} /\ taken' = {} /\ toCount' = {}
  /\ UNCHANGED <<managed, takes, keeps, queued, kept, ahead, age, stored, counted, dropped>>

(* Time passes for what is kept, in passes of the job. *)
AgeKept ==
  /\ drain = "idle"
  /\ \E l \in kept : age[l] <= KeepFor
  /\ age' = [l \in Line |-> IF l \in kept /\ age[l] <= KeepFor THEN age[l] + 1 ELSE age[l]]
  /\ UNCHANGED <<managed, takes, keeps, queued, kept, ahead, drain, batch, taken,
                 toCount, stored, counted, dropped, falls>>

Drain == StartDrain \/ (\E p \in Fingerprint : CountGroup(p)) \/ MarkProcessed \/ Sweep

PushNext ==
  \/ \E l \in Line : Deliver(l)
  \/ \E a \in Account : SaveCollection(a) \/ EnableCollection(a) \/ DisableCollection(a)
  \/ Drain \/ FallDrain \/ AgeKept

PushSpec == PushInit /\ [][PushNext]_pushVars
-----------------------------------------------------------------------------
PushTypeOK ==
  /\ managed \in SUBSET Account /\ takes \in SUBSET Account /\ keeps \in SUBSET Account
  /\ queued \in SUBSET Line /\ kept \in SUBSET Line
  /\ ahead \in [Line -> SUBSET Line]
  /\ age \in [Line -> 0 .. KeepFor + 1]
  /\ drain \in {"idle", "counting", "sweeping"}
  /\ batch \in SUBSET Line /\ taken \in SUBSET Line /\ toCount \in SUBSET Fingerprint
  /\ stored \in [Line -> 0 .. MaxStores]
  /\ counted \in [Line -> Nat] /\ dropped \in [Line -> Nat]
  /\ falls \in 0 .. MaxFalls

(* "The endpoint accepts and queues; this processes": a line that was      *)
(* accepted is in the queue, or was counted, unless the operator turned    *)
(* collection off.  Errors are recorded before the lines are marked        *)
(* (ingest-job.ts), so no death in between loses one.                      *)
AcceptedIsCounted ==
  \A l \in Line :
    stored[l] <= counted[l] + dropped[l] + (IF l \in queued THEN 1 ELSE 0)

(* A line is counted once each time it was stored, and once more for each  *)
(* process that died between recordError and markIngestProcessed.          *)
CountedPerStore == \A l \in Line : counted[l] <= stored[l] + falls

(* "oldest first": no line is processed while one queued before it waits,  *)
(* whatever died, was switched or came again in between.                   *)
OldestFirst ==
  [][\A l \in queued : l \in kept' => \A j \in ahead[l] : j \notin queued']_pushVars

(* Every line accepted is in the end counted or dropped. *)
DeliveredIsCounted(l) == l \in queued ~> l \notin queued

(* No line is lost and none is counted more than it should be, whatever    *)
(* dies and whatever comes again.                                          *)
QueueAccounts == AcceptedIsCounted /\ CountedPerStore
=============================================================================
