----------------------------- MODULE RequestsProofs -----------------------------
(***************************************************************************)
(* Facts about what serves requests, for any groups, connections, keys,    *)
(* hosts and timeouts: the read cache, the log search, the forwarding of   *)
(* log groups, the machines and the connections, each by an inductive      *)
(* invariant of its own, and at the end all of it as MCRequests runs it.   *)
(***************************************************************************)
EXTENDS MCRequests, SignInProofs

(* The call and the sleep a loop is in began before the timeout, and are   *)
(* bounded themselves; a reader who left is the only reason to come back   *)
(* to the head of the loop later than that.                                *)
LoopIsInTime ==
  /\ loop = "starting" => elapsed = 0
  /\ loop = "choosing" => aborted \/ elapsed < SearchTimeout
  /\ loop = "polling" => spent <= PollMax /\ elapsed - spent < SearchTimeout
  /\ loop = "sleeping" => spent <= Interval /\ elapsed - spent < SearchTimeout
  /\ elapsed < SearchTimeout + PollMax \/ elapsed < SearchTimeout + Interval

(* A loop past its start knows the id of its query, one that stops has     *)
(* asked, and one that is over leaves nothing that runs unasked, of what   *)
(* it has the id of.                                                       *)
StopsAreAsked ==
  /\ loop \in {"choosing", "polling", "sleeping", "stopping"} => idRef
  /\ loop = "stopping" => asked
  /\ loop = "starting" => ~named
  /\ query = "running" /\ ~asked /\ named => loop # "idle" /\ page

SearchInv == SearchTypeOK /\ LoopIsInTime /\ StopsAreAsked

LEMMA SearchHeld == SearchInv => LeftRunningIsStopped /\ SearchEndsInTime
<1> SUFFICES ASSUME SearchInv PROVE LeftRunningIsStopped /\ SearchEndsInTime
  OBVIOUS
<1>1. LeftRunningIsStopped
  BY DEF SearchInv, StopsAreAsked, LeftRunningIsStopped
<1>2. SearchEndsInTime
  <2>1. /\ elapsed \in Nat /\ SearchTimeout \in Nat /\ Interval \in Nat /\ PollMax \in Nat
        /\ elapsed < SearchTimeout + PollMax \/ elapsed < SearchTimeout + Interval
    BY SearchAssumption DEF SearchInv, SearchTypeOK, Late, LoopIsInTime
  <2> QED
    BY <2>1 DEF SearchEndsInTime
<1> QED
  BY <1>1, <1>2

LEMMA InitSearch == SearchInit => SearchInv
<1> SUFFICES ASSUME SearchInit PROVE SearchInv
  OBVIOUS
<1>1. SearchTypeOK
  <2>1. elapsed \in 0 .. Late /\ spent \in Nat
    BY SearchAssumption DEF SearchInit, Late
  <2> QED
    BY <2>1 DEF SearchInit, SearchTypeOK
<1>2. LoopIsInTime
  BY SearchAssumption DEF SearchInit, LoopIsInTime
<1>3. StopsAreAsked
  BY DEF SearchInit, StopsAreAsked
<1> QED
  BY <1>1, <1>2, <1>3 DEF SearchInv

LEMMA SearchTyped == SearchTypeOK /\ [SearchNext]_searchVars => SearchTypeOK'
<1> SUFFICES ASSUME SearchTypeOK, [SearchNext]_searchVars PROVE SearchTypeOK'
  OBVIOUS
<1>1. /\ elapsed' \in 0 .. Late /\ spent' \in Nat
  BY SearchAssumption DEF SearchTypeOK, Late, SearchNext, StartSearch, Loop, Started, NotStarted, Choose,
     PollFails, PollFindsEnd, PollFindsRunning, Wakes, StopAnswered, QueryAccepted, QueryEnds, Abort,
     PageHides, SearchTick, searchVars
<1>2. aborted' \in BOOLEAN /\ idRef' \in BOOLEAN /\ page' \in BOOLEAN /\ named' \in BOOLEAN
  BY DEF SearchTypeOK, SearchNext, StartSearch, Loop, Started, NotStarted, Choose,
     PollFails, PollFindsEnd, PollFindsRunning, Wakes, StopAnswered, QueryAccepted, QueryEnds, Abort,
     PageHides, SearchTick, searchVars
<1>3. asked' \in BOOLEAN
  BY DEF SearchTypeOK, SearchNext, StartSearch, Loop, Started, NotStarted, Choose, ExitAsking,
     PollFails, PollFindsEnd, PollFindsRunning, Wakes, StopAnswered, QueryAccepted, QueryEnds, Abort,
     PageHides, SearchTick, searchVars
<1>4. query' \in {"none", "running", "ended"}
  BY DEF SearchTypeOK, SearchNext, StartSearch, Loop, Started, NotStarted, Choose,
     PollFails, PollFindsEnd, PollFindsRunning, Wakes, StopAnswered, QueryAccepted, QueryEnds, Abort,
     PageHides, SearchTick, searchVars
<1>5. /\ loop' \in {"idle", "starting", "choosing", "polling", "sleeping", "stopping"}
      /\ outcome' \in {"none", "complete", "ended", "timeout", "aborted", "error"}
  BY DEF SearchTypeOK, SearchNext, StartSearch, Loop, Started, NotStarted, Choose, ExitAsking,
     PollFails, PollFindsEnd, PollFindsRunning, Wakes, StopAnswered, QueryAccepted, QueryEnds, Abort,
     PageHides, SearchTick, searchVars
<1> QED
  BY <1>1, <1>2, <1>3, <1>4, <1>5 DEF SearchTypeOK

LEMMA SearchStep == SearchInv /\ [SearchNext]_searchVars => SearchInv'
<1> SUFFICES ASSUME SearchInv, [SearchNext]_searchVars PROVE SearchInv'
  OBVIOUS
<1>t. /\ elapsed \in Nat /\ spent \in Nat /\ elapsed <= Late
      /\ SearchTimeout \in Nat \ {0} /\ Interval \in Nat \ {0} /\ PollMax \in Nat
  BY SearchAssumption DEF SearchInv, SearchTypeOK, Late
<1>1. SearchTypeOK'
  BY SearchTyped DEF SearchInv
<1>2. LoopIsInTime'
  <2> USE <1>t DEF SearchInv, LoopIsInTime
  <2>1. CASE StartSearch \/ Started \/ NotStarted \/ PollFindsEnd \/ QueryAccepted \/ QueryEnds
             \/ Abort \/ PageHides \/ StopAnswered
    BY <2>1 DEF StartSearch, Started, NotStarted, PollFindsEnd, QueryAccepted, QueryEnds, Abort,
       PageHides, StopAnswered
  <2>2. CASE Choose \/ PollFails
    BY <2>2 DEF Choose, PollFails, ExitAsking
  <2>3. CASE PollFindsRunning
    BY <2>3 DEF PollFindsRunning, ExitAsking, TimedOut
  <2>4. CASE Wakes
    BY <2>4 DEF Wakes, ExitAsking, TimedOut
  <2>5. CASE SearchTick
    BY <2>5 DEF SearchTick, Late
  <2>6. CASE UNCHANGED searchVars
    BY <2>6 DEF searchVars
  <2> QED
    BY <2>1, <2>2, <2>3, <2>4, <2>5, <2>6 DEF SearchNext, Loop
<1>3. StopsAreAsked'
  <2> USE DEF SearchInv, StopsAreAsked
  <2>1. CASE StartSearch \/ Started \/ NotStarted \/ PollFindsEnd \/ StopAnswered
    BY <2>1 DEF StartSearch, Started, NotStarted, PollFindsEnd, StopAnswered
  <2>2. CASE QueryAccepted \/ QueryEnds \/ Abort \/ PageHides \/ SearchTick \/ UNCHANGED searchVars
    BY <2>2 DEF QueryAccepted, QueryEnds, Abort, PageHides, SearchTick, searchVars, SearchTypeOK
  <2>3. CASE Choose \/ PollFails \/ PollFindsRunning \/ Wakes
    BY <2>3 DEF Choose, PollFails, PollFindsRunning, Wakes, ExitAsking
  <2> QED
    BY <2>1, <2>2, <2>3 DEF SearchNext, Loop
<1> QED
  BY <1>1, <1>2, <1>3 DEF SearchInv

LEMMA SearchInductive == SearchSpec => []SearchInv
  BY InitSearch, SearchStep, PTL DEF SearchSpec

(* A search that is over, or whose page went away, leaves no query running *)
(* that was not asked to stop, unless its id never came; and the loop of   *)
(* runLogsQuery is over one poll or one sleep after its timeout.           *)
THEOREM SearchesAreReined == SearchSpec => []SearchIsReined
<1>1. SearchInv => SearchIsReined
  BY SearchHeld DEF SearchIsReined
<1> QED
  BY <1>1, SearchInductive, PTL
-----------------------------------------------------------------------------
(* An entry is a load of its key that has not ended in failure. *)
EntriesAreLoads ==
  \A k \in CacheKey : entry[k] # NoLoad => key[entry[k]] = k /\ load[entry[k]] # "none"

(* A load that answered is an entry, of an age the time it has left tells; *)
(* one that pends is an entry without end, or was pushed out.              *)
LoadsAreKept ==
  \A f \in Load :
    /\ load[f] = "settled" => entry[key[f]] = f /\ (left[f] = 0 \/ old[f] = Ttl - left[f])
    /\ load[f] = "pending" => f \in pushed \/ entry[key[f]] = f
    /\ load[f] = "pending" /\ entry[key[f]] = f => left[f] = Never

CacheInv == CacheTypeOK /\ CacheIsBounded /\ EntriesAreLoads /\ LoadsAreKept
-----------------------------------------------------------------------------
LEMMA CacheHeld == CacheInv => CacheHolds
<1> SUFFICES ASSUME CacheInv PROVE OneLoadPerKey /\ HandsOutFresh
  BY DEF CacheHolds, CacheInv
<1>1. OneLoadPerKey
  BY DEF CacheInv, CacheTypeOK, LoadsAreKept, OneLoadPerKey
<1>2. HandsOutFresh
  <2> SUFFICES ASSUME NEW k \in CacheKey, Hit(k), load[entry[k]] # "pending"
               PROVE  load[entry[k]] = "settled" /\ old[entry[k]] < Ttl
    BY DEF HandsOutFresh
  <2>1. PICK f \in Load : f = entry[k] /\ load[f] = "settled" /\ left[f] # 0
    BY DEF Hit, Expired, CacheInv, CacheTypeOK, EntriesAreLoads
  <2>2. left[f] \in 0 .. Never /\ old[f] = Ttl - left[f]
    BY <2>1 DEF CacheInv, CacheTypeOK, LoadsAreKept
  <2> QED
    BY <2>1, <2>2, CacheAssumption DEF Never
<1> QED
  BY <1>1, <1>2

LEMMA InitCache == CacheInit => CacheInv
<1> SUFFICES ASSUME CacheInit PROVE CacheInv
  OBVIOUS
<1>1. CacheTypeOK
  BY CacheAssumption DEF CacheInit, CacheTypeOK, Never
<1>2. CacheIsBounded
  BY CacheAssumption DEF CacheInit, CacheIsBounded, ToSet
<1>3. EntriesAreLoads /\ LoadsAreKept
  BY DEF CacheInit, EntriesAreLoads, LoadsAreKept
<1> QED
  BY <1>1, <1>2, <1>3 DEF CacheInv

LEMMA UsedIsDistinct == CacheInv => used \in Seq(CacheKey) /\ Distinct(used)
  BY DEF CacheInv, CacheTypeOK, CacheIsBounded, Distinct

(* The key read is in the order once, and last. *)
LEMMA TouchedOrder ==
  ASSUME CacheInv, NEW k \in CacheKey
  PROVE  /\ Touched(k) \in Seq(CacheKey) /\ Distinct(Touched(k))
         /\ ToSet(Touched(k)) = ToSet(used) \cup {k}
         /\ Len(Touched(k)) = IF k \in ToSet(used) THEN Len(used) ELSE Len(used) + 1
         /\ Len(Touched(k)) \in 1 .. Len(used) + 1 /\ Touched(k)[Len(Touched(k))] = k
<1> DEFINE others == RemoveFirst(used, k)
<1>1. /\ others \in Seq(CacheKey) /\ Distinct(others) /\ ToSet(others) = ToSet(used) \ {k}
      /\ Len(others) = IF k \in ToSet(used) THEN Len(used) - 1 ELSE Len(used)
  BY UsedIsDistinct, DistinctWithout
<1> HIDE DEF others
<1>2. /\ Append(others, k) \in Seq(CacheKey) /\ Distinct(Append(others, k))
      /\ ToSet(Append(others, k)) = ToSet(others) \cup {k} /\ Len(Append(others, k)) = Len(others) + 1
      /\ Append(others, k)[Len(others) + 1] = k
  BY <1>1, DistinctAppend
<1>3. Touched(k) = Append(others, k)
  BY DEF Touched, others
<1>4. Len(used) \in Nat /\ Len(others) \in Nat
  BY <1>1, UsedIsDistinct
<1> QED
  BY <1>1, <1>2, <1>3, <1>4

(* The bound takes at most one key out, and not the one just read. *)
LEMMA BoundedOrder ==
  ASSUME CacheInv, NEW k \in CacheKey
  PROVE  LET now == Bounded(Touched(k)) IN
         /\ now \in Seq(CacheKey) /\ Distinct(now) /\ Len(now) <= MaxEntries
         /\ ToSet(now) \subseteq ToSet(used) \cup {k} /\ k \in ToSet(now)
<1> DEFINE s == Touched(k)
<1>1. /\ s \in Seq(CacheKey) /\ Distinct(s) /\ ToSet(s) = ToSet(used) \cup {k}
      /\ Len(s) \in 1 .. Len(used) + 1 /\ s[Len(s)] = k
  BY TouchedOrder
<1>2. Len(used) \in Nat /\ Len(used) <= MaxEntries
  BY UsedIsDistinct DEF CacheInv, CacheIsBounded
<1> HIDE DEF s
<1>3. CASE Len(s) > MaxEntries
  <2>1. s # <<>> /\ Len(s) # 1 /\ 1 \in 1 .. Len(s)
    BY <1>1, <1>2, <1>3, CacheAssumption
  <2>2. /\ Tail(s) \in Seq(CacheKey) /\ Distinct(Tail(s)) /\ Len(Tail(s)) = Len(s) - 1
        /\ ToSet(Tail(s)) = ToSet(s) \ {s[1]}
    BY <1>1, <2>1, DistinctTail
  <2>3. s[1] # k
    <3>1. Len(s) \in 1 .. Len(s)
      BY <1>1, <1>2
    <3> QED
      BY <1>1, <2>1, <3>1 DEF Distinct
  <2>4. Len(s) - 1 <= MaxEntries
    BY <1>1, <1>2, CacheAssumption
  <2> QED
    BY <1>1, <1>3, <2>2, <2>3, <2>4 DEF Bounded, s
<1>4. CASE ~(Len(s) > MaxEntries)
  <2>1. Len(s) <= MaxEntries
    BY <1>1, <1>2, <1>4, CacheAssumption
  <2> QED
    BY <1>1, <1>4, <2>1 DEF Bounded, s
<1> QED
  BY <1>3, <1>4

LEMMA ReadHitStep == ASSUME CacheInv, NEW k \in CacheKey, ReadHit(k) PROVE CacheInv'
<1>1. UNCHANGED <<entry, left, load, key, old, pushed>> /\ used' = Touched(k) /\ entry[k] # NoLoad
  BY DEF ReadHit, Hit
<1>2. k \in ToSet(used)
  BY <1>1 DEF CacheInv, CacheIsBounded
<1>3. /\ used' \in Seq(CacheKey) /\ Distinct(used') /\ ToSet(used') = ToSet(used)
      /\ Len(used') = Len(used)
  BY <1>1, <1>2, TouchedOrder
<1>4. CacheTypeOK'
  BY <1>1, <1>3 DEF CacheInv, CacheTypeOK
<1>5. CacheIsBounded'
  BY <1>1, <1>3 DEF CacheInv, CacheIsBounded, Distinct
<1>6. EntriesAreLoads' /\ LoadsAreKept'
  BY <1>1 DEF CacheInv, EntriesAreLoads, LoadsAreKept
<1> QED
  BY <1>4, <1>5, <1>6 DEF CacheInv

LEMMA ReadMissStep ==
  ASSUME CacheInv, NEW k \in CacheKey, NEW f \in Load, ReadMiss(k, f)
  PROVE  CacheInv'
<1> DEFINE now == Bounded(Touched(k))
           out == {g \in Load : \E j \in CacheKey : entry[j] = g /\ (j = k \/ j \notin ToSet(now))}
<1>1. /\ now \in Seq(CacheKey) /\ Distinct(now) /\ Len(now) <= MaxEntries
      /\ ToSet(now) \subseteq ToSet(used) \cup {k} /\ k \in ToSet(now)
  BY BoundedOrder
<1>2. /\ load[f] = "none" /\ used' = now
      /\ entry' = [j \in CacheKey |-> IF j = k THEN f
                                      ELSE IF j \in ToSet(now) THEN entry[j] ELSE NoLoad]
      /\ load' = [Forget(out) EXCEPT ![f] = "pending"]
      /\ left' = [left EXCEPT ![f] = Never]
      /\ key' = [key EXCEPT ![f] = k]
      /\ old' = [g \in Load |-> IF g = f \/ g \in out THEN 0 ELSE old[g]]
      /\ pushed' = (pushed \ {f}) \cup {g \in out : load[g] = "pending"}
  BY DEF ReadMiss, Idle
<1> HIDE DEF now
<1>t. CacheTypeOK /\ EntriesAreLoads /\ LoadsAreKept /\ CacheIsBounded /\ Ttl \in Nat /\ NoLoad \notin Load
  BY CacheAssumption DEF CacheInv
<1>3. CacheTypeOK'
  <2>1. used' \in Seq(CacheKey) /\ entry' \in [CacheKey -> Load \cup {NoLoad}]
    BY <1>1, <1>2, <1>t DEF CacheTypeOK
  <2>2. load' \in [Load -> {"none", "pending", "settled"}] /\ pushed' \in SUBSET Load
    BY <1>2, <1>t DEF CacheTypeOK, Forget
  <2>3. left' \in [Load -> 0 .. Never] /\ old' \in [Load -> 0 .. Never]
    BY <1>2, <1>t DEF CacheTypeOK, Never
  <2>4. key' \in [Load -> CacheKey]
    BY <1>2, <1>t DEF CacheTypeOK
  <2> QED
    BY <2>1, <2>2, <2>3, <2>4 DEF CacheTypeOK
<1>4. CacheIsBounded'
  <2>1. \A j \in CacheKey : entry'[j] # NoLoad <=> j \in ToSet(now)
    BY <1>1, <1>2, <1>t DEF CacheIsBounded
  <2> QED
    BY <1>1, <1>2, <2>1 DEF CacheIsBounded, Distinct
<1>f. /\ load'[f] = "pending" /\ key'[f] = k /\ entry'[k] = f /\ left'[f] = Never
  BY <1>2, <1>t DEF CacheTypeOK, Forget
<1>g. \A g \in Load \ {f} :
        /\ load'[g] = IF g \in out /\ load[g] = "settled" THEN "none" ELSE load[g]
        /\ key'[g] = key[g] /\ left'[g] = left[g]
        /\ g \in out /\ load[g] = "pending" => g \in pushed'
        /\ g \in pushed => g \in pushed'
        /\ g \notin out => old'[g] = old[g]
  BY <1>2, <1>t DEF CacheTypeOK, Forget
<1> HIDE DEF out
<1>o. /\ \A j \in CacheKey : j # k /\ j \in ToSet(now) /\ entry[j] # NoLoad =>
            entry[j] \notin out /\ entry'[j] = entry[j] /\ entry[j] \in Load \ {f}
      /\ \A j \in CacheKey : j # k /\ j \notin ToSet(now) => entry'[j] = NoLoad
      /\ \A j \in CacheKey : entry[j] # NoLoad /\ (j = k \/ j \notin ToSet(now)) => entry[j] \in out
  BY <1>2, <1>t DEF out, EntriesAreLoads, CacheTypeOK
<1>5. EntriesAreLoads'
  <2> SUFFICES ASSUME NEW j \in CacheKey, entry'[j] # NoLoad
               PROVE  key'[entry'[j]] = j /\ load'[entry'[j]] # "none"
    BY DEF EntriesAreLoads
  <2>1. CASE j = k
    BY <1>f, <2>1
  <2>2. CASE j # k
    BY <1>g, <1>o, <1>t, <1>2, <2>2 DEF EntriesAreLoads
  <2> QED
    BY <2>1, <2>2
<1>6. LoadsAreKept'
  <2>1. ASSUME NEW g \in Load, g # f
        PROVE  /\ load'[g] = "settled" => entry'[key'[g]] = g /\ (left'[g] = 0 \/ old'[g] = Ttl - left'[g])
               /\ load'[g] = "pending" => g \in pushed' \/ entry'[key'[g]] = g
               /\ load'[g] = "pending" /\ entry'[key'[g]] = g => left'[g] = Never
    <3>1. PICK i \in CacheKey : i = key[g] /\ i = key'[g]
      BY <1>g, <1>t, <2>1 DEF CacheTypeOK
    <3>2. entry[i] = g /\ g \notin out => entry'[i] = g
      BY <1>o, <1>t, <2>1
    <3>3. entry'[i] = g => entry[i] = g
      BY <1>2, <1>t, <2>1
    <3> QED
      BY <1>g, <1>t, <2>1, <3>1, <3>2, <3>3 DEF LoadsAreKept
  <2> QED
    BY <1>f, <2>1 DEF LoadsAreKept, Never
<1> QED
  BY <1>3, <1>4, <1>5, <1>6 DEF CacheInv

LEMMA SucceedsStep == ASSUME CacheInv, NEW f \in Load, Succeeds(f) PROVE CacheInv'
<1>t. CacheTypeOK /\ EntriesAreLoads /\ LoadsAreKept /\ Ttl \in Nat \ {0} /\ NoLoad \notin Load
  BY CacheAssumption DEF CacheInv
<1>1. /\ load[f] = "pending" /\ UNCHANGED <<used, entry, key>>
      /\ left' = IF entry[key[f]] = f THEN [left EXCEPT ![f] = Ttl] ELSE left
      /\ load' = [load EXCEPT ![f] = IF entry[key[f]] = f THEN "settled" ELSE "none"]
      /\ old' = [old EXCEPT ![f] = 0]
      /\ pushed' = pushed \ {f}
  BY <1>t DEF Succeeds, StillCached
<1>2. CacheTypeOK'
  BY <1>1, <1>t DEF CacheTypeOK, Never
<1>3. CacheIsBounded'
  BY <1>1 DEF CacheInv, CacheIsBounded
<1>4. EntriesAreLoads'
  BY <1>1, <1>t DEF CacheTypeOK, EntriesAreLoads
<1>5. LoadsAreKept'
  BY <1>1, <1>t DEF CacheTypeOK, LoadsAreKept, Never
<1> QED
  BY <1>2, <1>3, <1>4, <1>5 DEF CacheInv

LEMMA FailsStep == ASSUME CacheInv, NEW f \in Load, Fails(f) PROVE CacheInv'
<1>t. /\ CacheTypeOK /\ EntriesAreLoads /\ LoadsAreKept /\ CacheIsBounded
      /\ NoLoad \notin Load /\ MaxEntries \in Nat
  BY CacheAssumption DEF CacheInv
<1>1. /\ load[f] = "pending" /\ UNCHANGED <<left, key, old>>
      /\ load' = [load EXCEPT ![f] = "none"] /\ pushed' = pushed \ {f}
  BY DEF Fails
<1>2. CASE entry[key[f]] = f
  <2> DEFINE others == RemoveFirst(used, key[f])
  <2>1. used' = others /\ entry' = [entry EXCEPT ![key[f]] = NoLoad]
    BY <1>2 DEF Fails, StillCached
  <2>2. /\ others \in Seq(CacheKey) /\ Distinct(others) /\ ToSet(others) = ToSet(used) \ {key[f]}
        /\ Len(others) \in {Len(used), Len(used) - 1}
    BY UsedIsDistinct, DistinctWithout
  <2> HIDE DEF others
  <2>3. CacheTypeOK'
    BY <1>1, <1>t, <2>1, <2>2 DEF CacheTypeOK
  <2>4. CacheIsBounded'
    <3>1. Len(others) <= MaxEntries
      BY <1>t, <2>2, UsedIsDistinct DEF CacheIsBounded
    <3>2. \A k \in CacheKey : entry'[k] # NoLoad <=> k \in ToSet(others)
      BY <1>t, <2>1, <2>2 DEF CacheIsBounded, CacheTypeOK
    <3> QED
      BY <2>1, <2>2, <3>1, <3>2 DEF CacheIsBounded, Distinct
  <2>5. EntriesAreLoads'
    BY <1>1, <1>t, <2>1 DEF CacheTypeOK, EntriesAreLoads
  <2>6. LoadsAreKept'
    BY <1>1, <1>t, <1>2, <2>1 DEF CacheTypeOK, LoadsAreKept
  <2> QED
    BY <2>3, <2>4, <2>5, <2>6 DEF CacheInv
<1>3. CASE entry[key[f]] # f
  <2>1. used' = used /\ entry' = entry
    BY <1>3 DEF Fails, StillCached
  <2>2. CacheTypeOK'
    BY <1>1, <1>t, <2>1 DEF CacheTypeOK
  <2>3. CacheIsBounded'
    BY <1>t, <2>1 DEF CacheIsBounded
  <2>4. EntriesAreLoads'
    BY <1>1, <1>3, <1>t, <2>1 DEF CacheTypeOK, EntriesAreLoads
  <2>5. LoadsAreKept'
    BY <1>1, <1>t, <1>3, <2>1 DEF CacheTypeOK, LoadsAreKept
  <2> QED
    BY <2>2, <2>3, <2>4, <2>5 DEF CacheInv
<1> QED
  BY <1>2, <1>3

LEMMA CacheTickStep == ASSUME CacheInv, CacheTick PROVE CacheInv'
<1>t. CacheTypeOK /\ LoadsAreKept /\ Ttl \in Nat \ {0}
  BY CacheAssumption DEF CacheInv
<1>1. /\ UNCHANGED <<used, entry, load, key, pushed>>
      /\ left' = [f \in Load |-> IF left[f] \in 1 .. Ttl THEN left[f] - 1 ELSE left[f]]
      /\ old' = [f \in Load |-> IF load[f] = "settled" /\ old[f] < Never THEN old[f] + 1
                                ELSE old[f]]
  BY DEF CacheTick
<1>2. CacheTypeOK'
  <2>1. left' \in [Load -> 0 .. Never] /\ old' \in [Load -> 0 .. Never]
    BY <1>1, <1>t DEF CacheTypeOK, Never
  <2> QED
    BY <1>1, <1>t, <2>1 DEF CacheTypeOK
<1>3. CacheIsBounded' /\ EntriesAreLoads'
  BY <1>1 DEF CacheInv, CacheIsBounded, EntriesAreLoads
<1>4. LoadsAreKept'
  <2> SUFFICES ASSUME NEW f \in Load
               PROVE  /\ load[f] = "settled" => left'[f] = 0 \/ old'[f] = Ttl - left'[f]
                      /\ load[f] = "pending" /\ entry[key[f]] = f => left'[f] = Never
    BY <1>1, <1>t DEF LoadsAreKept
  <2>1. left[f] \in 0 .. Ttl + 1 /\ old[f] \in 0 .. Ttl + 1
    BY <1>t DEF CacheTypeOK, Never
  <2> QED
    BY <1>1, <1>t, <2>1 DEF LoadsAreKept, Never
<1> QED
  BY <1>2, <1>3, <1>4 DEF CacheInv

LEMMA CacheStep == CacheInv /\ [CacheNext]_cacheVars => CacheInv'
<1> SUFFICES ASSUME CacheInv, [CacheNext]_cacheVars PROVE CacheInv'
  OBVIOUS
<1>1. CASE UNCHANGED cacheVars
  BY <1>1 DEF cacheVars, CacheInv, CacheTypeOK, CacheIsBounded, EntriesAreLoads, LoadsAreKept
<1> QED
  BY <1>1, ReadHitStep, ReadMissStep, SucceedsStep, FailsStep, CacheTickStep DEF CacheNext

LEMMA CacheInductive == CacheSpec => []CacheInv
  BY InitCache, CacheStep, PTL DEF CacheSpec

(* The order, the entries and the loads of the read cache are well formed. *)
THEOREM CacheTyped == CacheSpec => []CacheTypeOK
<1>1. CacheInv => CacheTypeOK
  BY DEF CacheInv
<1> QED
  BY <1>1, CacheInductive, PTL

(* `cached` keeps maxEntries at most, loads a key once unless the bound    *)
(* pushed its load out, and hands out nothing older than ttlMs, in         *)
(* whichever order loads that were pushed out, replaced or still wanted    *)
(* settle.                                                                 *)
THEOREM CacheIsSound == CacheSpec => []CacheHolds
  BY CacheInductive, CacheHeld, PTL
-----------------------------------------------------------------------------
(* The request r holds an answer about the group g that it got in a phase. *)
Holds(r, phase, g) ==
  request[r] = phase /\ answer[r] # NoAnswer /\ answer[r].of = g

(* A request is at groups only while it is under way, holds answers about  *)
(* them only, and one that starts forwarding is at one group and has the   *)
(* ARN of a forwarder.                                                     *)
RequestsAreAt ==
  \A r \in Request :
    /\ request[r] = "idle" => subject[r] = {}
    /\ answer[r] # NoAnswer => request[r] # "idle" /\ answer[r].of \in subject[r]
    /\ request[r] \in {"describing", "putting"} =>
         aim[r] \in Forwarder /\ \E g \in Group : subject[r] = {g}

(* At a group that is not contested one request is. *)
AloneAt ==
  \A g \in Group \ contested : \A r, q \in Request :
    g \in subject[r] /\ g \in subject[q] => r = q

(* An active row has its filter until an answer about its removal is held; *)
(* a filter has its row, or will once the answer that made it is heard.    *)
RowsFollow ==
  \A g \in Group \ contested :
    /\ groupRow[g] = "active" => Ours(g) \/ \E r \in Request : Holds(r, "deleting", g)
    /\ Ours(g) => groupRow[g] # "none" \/ g \in reported
                  \/ \E r \in Request : Holds(r, "putting", g)

(* What an answer that is held says is still so. *)
AnswersHold ==
  \A r \in Request, g \in Group \ contested :
    /\ Holds(r, "describing", g) /\ answer[r].says = "already" => Ours(g)
    /\ Holds(r, "putting", g) /\ answer[r].says = "done" => Ours(g)
    /\ Holds(r, "deleting", g) /\ answer[r].says = "done" => ~Ours(g)

ForwardInv == ForwardTypeOK /\ RequestsAreAt /\ AloneAt /\ RowsFollow /\ AnswersHold
-----------------------------------------------------------------------------
LEMMA InitForward == ForwardInit => ForwardInv
<1> SUFFICES ASSUME ForwardInit PROVE ForwardInv
  OBVIOUS
<1>1. ForwardTypeOK
  BY DEF ForwardInit, ForwardTypeOK
<1>2. RequestsAreAt /\ AloneAt
  BY DEF ForwardInit, RequestsAreAt, AloneAt
<1>3. RowsFollow /\ AnswersHold
  BY DEF ForwardInit, RowsFollow, AnswersHold, Holds, Ours
<1> QED
  BY <1>1, <1>2, <1>3 DEF ForwardInv

(* A step that is neither AWS's nor a request's. *)
LEMMA SettingStep ==
  ASSUME ForwardInv,
         \/ EnableFeature \/ SwitchSource \/ (\E f \in Forwarder : VerifyForwarder(f))
         \/ (\E g \in Group : VendorActs(g)) \/ UNCHANGED forwardVars
  PROVE  ForwardInv'
<1>1. UNCHANGED <<groupRow, filter, request, subject, aim, answer, closing, contested, reported>>
  BY DEF EnableFeature, SwitchSource, VerifyForwarder, VendorActs, forwardVars
<1>2. ForwardTypeOK'
  BY DEF ForwardInv, ForwardTypeOK, EnableFeature, SwitchSource, VerifyForwarder, VendorActs,
     forwardVars
<1> QED
  BY <1>1, <1>2 DEF ForwardInv, RequestsAreAt, AloneAt, RowsFollow, AnswersHold, Holds, Ours

(* A request that begins at the groups S, from idle. *)
LEMMA BeginsAt ==
  ASSUME ForwardInv, NEW r \in Request, NEW S \in SUBSET Group, request[r] = "idle",
         NEW phase \in {"describing", "deleting"}, NEW to \in Forwarder \cup {NoForwarder},
         phase = "describing" => to \in Forwarder /\ \E g \in Group : S = {g},
         request' = [request EXCEPT ![r] = phase],
         subject' = [subject EXCEPT ![r] = S],
         aim' = [aim EXCEPT ![r] = to],
         contested' = contested \cup MeetsAt(r, S),
         closing' \in SUBSET Request,
         UNCHANGED <<feature, source, arn, groupRow, filter, vendor, answer, reported>>
  PROVE  ForwardInv'
<1>1. ForwardTypeOK'
  BY DEF ForwardInv, ForwardTypeOK, MeetsAt
<1>t. /\ request \in [Request -> {"idle", "describing", "putting", "deleting"}]
      /\ subject \in [Request -> SUBSET Group] /\ aim \in [Request -> Forwarder \cup {NoForwarder}]
  BY DEF ForwardInv, ForwardTypeOK
<1>2. RequestsAreAt'
  BY <1>t DEF ForwardInv, RequestsAreAt
<1>3. AloneAt'
  <2> SUFFICES ASSUME NEW g \in Group, g \notin contested', NEW p \in Request, NEW q \in Request,
                      g \in subject'[p], g \in subject'[q]
               PROVE  p = q
    BY DEF AloneAt
  <2>1. \A o \in Request \ {r} : subject'[o] = subject[o] /\ (g \in subject[o] => request[o] # "idle")
    BY <1>t DEF ForwardInv, RequestsAreAt
  <2>2. g \notin contested /\ (g \in S => \A o \in Request \ {r} : g \notin subject[o])
    BY <2>1 DEF MeetsAt
  <2> QED
    BY <1>t, <2>1, <2>2 DEF ForwardInv, AloneAt
<1>4. answer[r] = NoAnswer
  BY DEF ForwardInv, RequestsAreAt
<1>5. RowsFollow' /\ AnswersHold'
  BY <1>t, <1>4 DEF ForwardInv, RowsFollow, AnswersHold, Holds, Ours
<1> QED
  BY <1>1, <1>2, <1>3, <1>5 DEF ForwardInv

LEMMA BeginStep ==
  ASSUME ForwardInv, NEW r \in Request,
         \/ \E g \in Group : StartForwarding(r, g) \/ BeginStop(r, g)
         \/ BeginDisable(r)
  PROVE  ForwardInv'
<1>t. /\ aim \in [Request -> Forwarder \cup {NoForwarder}] /\ arn \in Forwarder \cup {NoForwarder}
      /\ closing \in SUBSET Request
  BY DEF ForwardInv, ForwardTypeOK
<1>1. ASSUME NEW g \in Group, StartForwarding(r, g)
      PROVE  ForwardInv'
  BY <1>t, <1>1, BeginsAt DEF StartForwarding
<1>2. aim' = [aim EXCEPT ![r] = aim[r]] \/ aim' # aim
  BY <1>t
<1>3. ASSUME NEW g \in Group, BeginStop(r, g)
      PROVE  ForwardInv'
  BY <1>t, <1>2, <1>3, BeginsAt DEF BeginStop
<1>4. CASE BeginDisable(r)
  <2>1. Listed \in SUBSET Group
    BY DEF Listed
  <2> QED
    BY <1>t, <1>2, <1>4, <2>1, BeginsAt DEF BeginDisable
<1> QED
  BY <1>1, <1>3, <1>4

(* AWS acts on a group that a request is at, or answers.                   *)
LEMMA CloudStep ==
  ASSUME ForwardInv, NEW r \in Request, NEW g \in Group,
         Describe(r, g) \/ Put(r, g) \/ Delete(r, g)
  PROVE  ForwardInv'
<1>t. /\ answer \in [Request -> CloudAnswer \cup {NoAnswer}]
      /\ filter \in [Group -> Forwarder \cup {NoForwarder}]
      /\ aim[r] \in Forwarder \cup {NoForwarder}
  BY DEF ForwardInv, ForwardTypeOK
<1>a. /\ g \in subject[r] /\ answer[r] = NoAnswer /\ request[r] # "idle"
      /\ UNCHANGED <<feature, source, arn, groupRow, vendor, request, subject, aim, closing,
                     contested, reported>>
  BY DEF Describe, Put, Delete
<1>b. PICK says \in {"put", "already", "conflict", "done", "failed"} :
        answer' = [answer EXCEPT ![r] = [of |-> g, says |-> says]]
  BY Zenon DEF Describe, Put, Delete, Heard, Decide
<1>c. /\ answer' \in [Request -> CloudAnswer \cup {NoAnswer}]
      /\ answer'[r] = [of |-> g, says |-> says] /\ answer'[r] # NoAnswer
      /\ \A q \in Request \ {r} : answer'[q] = answer[q]
  BY <1>t, <1>b, ForwardingAssumption DEF CloudAnswer
<1>d. /\ filter' \in [Group -> Forwarder \cup {NoForwarder}]
      /\ \A h \in Group \ {g} : filter'[h] = filter[h]
  BY <1>t DEF Describe, Put, Delete
<1>1. ForwardTypeOK'
  BY <1>a, <1>c, <1>d DEF ForwardInv, ForwardTypeOK
<1>2. RequestsAreAt' /\ AloneAt'
  BY <1>a, <1>c DEF ForwardInv, RequestsAreAt, AloneAt
<1>e. /\ \A q \in Request \ {r}, h \in Group : \A phase : Holds(q, phase, h)' <=> Holds(q, phase, h)
      /\ \A h \in Group, phase \in {"describing", "putting", "deleting"} :
           /\ ~Holds(r, phase, h)
           /\ Holds(r, phase, h)' <=> h = g /\ request[r] = phase
  BY <1>a, <1>c DEF Holds
<1>f. g \notin contested => \A q \in Request \ {r} : \A phase : ~Holds(q, phase, g)
  BY <1>a DEF ForwardInv, RequestsAreAt, AloneAt, Holds
<1>g. /\ request[r] = "describing" => filter' = filter /\ (says = "already" => filter[g] = aim[r])
      /\ request[r] = "putting" => filter'[g] \in {filter[g], aim[r]} /\ (says = "done" => filter'[g] = aim[r])
      /\ request[r] = "deleting" => filter'[g] \in {filter[g], NoForwarder} /\ (says = "done" => filter'[g] = NoForwarder)
      /\ request[r] \in {"describing", "putting", "deleting"}
      /\ request[r] # "deleting" => aim[r] # NoForwarder
  <2>1. request[r] # "deleting" => aim[r] # NoForwarder
    BY ForwardingAssumption, <1>a DEF ForwardInv, ForwardTypeOK, RequestsAreAt
  <2>2. CASE Describe(r, g)
    BY <1>b, <1>c, <2>1, <2>2 DEF Describe, Heard, Decide
  <2>3. CASE Put(r, g)
    BY <1>t, <1>b, <1>c, <2>1, <2>3 DEF Put, Heard
  <2>4. CASE Delete(r, g)
    BY <1>t, <1>b, <1>c, <2>1, <2>4 DEF Delete, Heard
  <2> QED
    BY <2>2, <2>3, <2>4
<1>3. RowsFollow'
  <2> SUFFICES ASSUME NEW h \in Group \ contested
               PROVE  /\ groupRow[h] = "active" =>
                           Ours(h)' \/ \E q \in Request : Holds(q, "deleting", h)'
                      /\ Ours(h)' => groupRow[h] # "none" \/ h \in reported
                           \/ \E q \in Request : Holds(q, "putting", h)'
    BY <1>a DEF RowsFollow
  <2>1. CASE h # g
    BY <1>d, <1>e, <2>1 DEF ForwardInv, RowsFollow, Ours
  <2>2. CASE h = g
    BY <1>a, <1>e, <1>f, <1>g, <2>2 DEF ForwardInv, RowsFollow, Ours
  <2> QED
    BY <2>1, <2>2
<1>4. AnswersHold'
  <2> SUFFICES ASSUME NEW q \in Request, NEW h \in Group \ contested
               PROVE  /\ Holds(q, "describing", h)' /\ answer'[q].says = "already" => Ours(h)'
                      /\ Holds(q, "putting", h)' /\ answer'[q].says = "done" => Ours(h)'
                      /\ Holds(q, "deleting", h)' /\ answer'[q].says = "done" => ~Ours(h)'
    BY <1>a DEF AnswersHold
  <2>1. CASE h # g
    BY <1>c, <1>d, <1>e, <2>1 DEF ForwardInv, AnswersHold, Ours
  <2>2. CASE h = g /\ q # r
    BY <1>e, <1>f, <2>2
  <2>3. CASE h = g /\ q = r
    BY <1>c, <1>e, <1>g, <2>3 DEF Ours
  <2> QED
    BY <2>1, <2>2, <2>3
<1> QED
  BY <1>1, <1>2, <1>3, <1>4 DEF ForwardInv

(* A request hears what AWS answered. *)
LEMMA HeardStep ==
  ASSUME ForwardInv, NEW r \in Request, NEW g \in Group,
         Described(r, g) \/ PutAnswered(r, g) \/ Deleted(r, g)
  PROVE  ForwardInv'
<1>t. /\ answer \in [Request -> CloudAnswer \cup {NoAnswer}]
      /\ request \in [Request -> {"idle", "describing", "putting", "deleting"}]
      /\ subject \in [Request -> SUBSET Group] /\ aim \in [Request -> Forwarder \cup {NoForwarder}]
      /\ groupRow \in [Group -> {"none", "active", "failed"}]
      /\ closing \in SUBSET Request /\ contested \in SUBSET Group /\ reported \in SUBSET Group
  BY DEF ForwardInv, ForwardTypeOK
<1>a. /\ answer[r] # NoAnswer /\ answer[r].of = g /\ g \in subject[r]
      /\ answer' = [answer EXCEPT ![r] = NoAnswer]
      /\ UNCHANGED <<feature, source, arn, filter, vendor, closing, contested>>
  BY DEF Described, PutAnswered, Deleted, ForwardInv, RequestsAreAt, Release
<1>1. ForwardTypeOK'
  BY <1>t, <1>a DEF ForwardInv, ForwardTypeOK, Described, PutAnswered, Deleted, Release,
     RowAfterFailure, ReportedAlso
<1>b. /\ \A q \in Request \ {r} : /\ request'[q] = request[q] /\ subject'[q] = subject[q]
                                  /\ aim'[q] = aim[q] /\ answer'[q] = answer[q]
      /\ answer'[r] = NoAnswer
      /\ subject'[r] \subseteq subject[r]
      /\ \/ request'[r] = "idle" /\ subject'[r] = {}
         \/ request[r] = "deleting" /\ request'[r] = "deleting"
         \/ request[r] = "describing" /\ request'[r] = "putting" /\ subject'[r] = subject[r]
            /\ aim'[r] = aim[r]
      /\ \A h \in Group \ {g} : groupRow'[h] = groupRow[h] /\ (h \in reported => h \in reported')
      /\ reported \subseteq reported'
  BY <1>t, <1>a DEF Described, PutAnswered, Deleted, Release, RowAfterFailure, ReportedAlso
<1>2. RequestsAreAt'
  BY <1>b DEF ForwardInv, RequestsAreAt
<1>3. AloneAt'
  BY <1>a, <1>b DEF ForwardInv, AloneAt
<1>c. /\ \A q \in Request \ {r}, h \in Group : \A phase : Holds(q, phase, h)' <=> Holds(q, phase, h)
      /\ \A h \in Group : \A phase : ~Holds(r, phase, h)' /\ (h # g => ~Holds(r, phase, h))
  BY <1>a, <1>b DEF Holds
<1>d. g \notin contested => \A q \in Request \ {r} : \A phase : ~Holds(q, phase, g)
  BY <1>a DEF ForwardInv, RequestsAreAt, AloneAt, Holds
<1>4. AnswersHold'
  BY <1>a, <1>b, <1>c DEF ForwardInv, AnswersHold, Ours
<1>5. RowsFollow'
  <2> SUFFICES ASSUME NEW h \in Group \ contested
               PROVE  /\ groupRow'[h] = "active" =>
                           Ours(h) \/ \E q \in Request : Holds(q, "deleting", h)'
                      /\ Ours(h) => groupRow'[h] # "none" \/ h \in reported'
                           \/ \E q \in Request : Holds(q, "putting", h)'
    BY <1>a DEF RowsFollow, Ours
  <2>1. CASE h # g
    BY <1>b, <1>c, <2>1 DEF ForwardInv, RowsFollow
  <2>2. CASE h = g
    <3>1. CASE Described(r, g)
      <4>1. ~Holds(r, "putting", g) /\ ~Holds(r, "deleting", g) /\ Holds(r, "describing", g)
        BY <1>a, <3>1 DEF Described, Holds
      <4>2. groupRow'[g] = "active" => groupRow[g] = "active" \/ answer[r].says = "already"
        BY <1>t, <3>1 DEF Described, RowAfterFailure
      <4>3. groupRow'[g] = "none" => groupRow[g] = "none"
        BY <1>t, <3>1 DEF Described, RowAfterFailure
      <4>4. answer[r].says = "already" => Ours(g)
        BY <2>2, <4>1 DEF ForwardInv, AnswersHold
      <4> QED
        BY <1>b, <1>c, <1>d, <2>2, <4>1, <4>2, <4>3, <4>4 DEF ForwardInv, RowsFollow
    <3>2. CASE PutAnswered(r, g)
      <4>1. Holds(r, "putting", g)
        BY <1>a, <3>2 DEF PutAnswered, Holds
      <4>2. groupRow'[g] # "none" /\ (groupRow'[g] = "active" => answer[r].says = "done")
        BY <1>t, <3>2 DEF PutAnswered, RowAfterFailure
      <4> QED
        BY <2>2, <4>1, <4>2 DEF ForwardInv, AnswersHold
    <3>3. CASE Deleted(r, g)
      <4>1. Holds(r, "deleting", g)
        BY <1>a, <3>3 DEF Deleted, Holds
      <4>2. groupRow'[g] = "none" /\ (answer[r].says = "done" \/ g \in reported')
        BY <1>t, <3>3 DEF Deleted, ReportedAlso
      <4> QED
        BY <2>2, <4>1, <4>2 DEF ForwardInv, AnswersHold
    <3> QED
      BY <3>1, <3>2, <3>3
  <2> QED
    BY <2>1, <2>2
<1> QED
  BY <1>1, <1>2, <1>3, <1>4, <1>5 DEF ForwardInv

LEMMA EndStopStep ==
  ASSUME ForwardInv, NEW r \in Request, EndStop(r)
  PROVE  ForwardInv'
<1>t. /\ answer \in [Request -> CloudAnswer \cup {NoAnswer}]
      /\ request \in [Request -> {"idle", "describing", "putting", "deleting"}]
      /\ subject \in [Request -> SUBSET Group] /\ aim \in [Request -> Forwarder \cup {NoForwarder}]
  BY DEF ForwardInv, ForwardTypeOK
<1>1. answer[r] = NoAnswer
  BY DEF EndStop, ForwardInv, RequestsAreAt
<1>2. ForwardTypeOK'
  BY <1>t DEF EndStop, Release, ForwardInv, ForwardTypeOK
<1>3. /\ answer' = answer /\ subject' = subject /\ UNCHANGED <<groupRow, filter, contested, reported>>
      /\ request' = [request EXCEPT ![r] = "idle"] /\ aim' = [aim EXCEPT ![r] = NoForwarder]
      /\ subject[r] = {}
  BY <1>t, <1>1 DEF EndStop, Release
<1>4. RequestsAreAt' /\ AloneAt'
  BY <1>t, <1>1, <1>3 DEF ForwardInv, RequestsAreAt, AloneAt
<1>5. /\ \A q \in Request, h \in Group : Holds(q, "deleting", h)' <=> Holds(q, "deleting", h)
      /\ \A q \in Request, h \in Group : Holds(q, "putting", h)' <=> Holds(q, "putting", h)
      /\ \A q \in Request, h \in Group : Holds(q, "describing", h)' <=> Holds(q, "describing", h)
  BY <1>t, <1>1, <1>3 DEF Holds
<1>6. RowsFollow' /\ AnswersHold'
  BY <1>3, <1>5 DEF ForwardInv, RowsFollow, AnswersHold, Ours
<1> QED
  BY <1>2, <1>4, <1>6 DEF ForwardInv

LEMMA ForwardStep == ForwardInv /\ [ForwardNext]_forwardVars => ForwardInv'
  BY SettingStep, BeginStep, CloudStep, HeardStep, EndStopStep DEF ForwardNext

(* Between requests, and where no two met, rows and filters agree. *)
LEMMA ForwardAgrees == ForwardInv => ActiveIsForwarded /\ NoFilterIsForgotten
  BY DEF ForwardInv, RowsFollow, RequestsAreAt, Holds, Undisturbed, ActiveIsForwarded,
     NoFilterIsForgotten

LEMMA ForwardInductive == ForwardSpec => []ForwardInv
  BY InitForward, ForwardStep, PTL DEF ForwardSpec

(* Where no two requests met on a group, its row is active exactly when    *)
(* its filter is this forwarder's, and a filter of ours without a row was  *)
(* reported, whatever of each request AWS refused or answered late.        *)
THEOREM RowsAndFiltersAgree == ForwardSpec => [](ActiveIsForwarded /\ NoFilterIsForgotten)
  BY ForwardInductive, ForwardAgrees, PTL
-----------------------------------------------------------------------------
(* Before its row a connection has no method, no verdict and no removal;   *)
(* a role has had an external ID ever since.                               *)
RowsBegin ==
  \A c \in Connection :
    /\ method[c] = "none" <=> status[c] = "none"
    /\ status[c] = "none" => lastTest[c] = "none"
    /\ method[c] = "role" => version[c] > 0
    /\ c \in leaving => status[c] # "none"

(* A call was begun on a connection that was ready, which stays so, and a  *)
(* test is of what the connection proves itself with unless overtaken.     *)
CallsAreOfReady ==
  \A r \in Caller : call[r].kind # "idle" =>
    /\ method[call[r].of] # "none" /\ Ready(call[r].of)
    /\ call[r].kind = "test" => call[r].overtaken \/ call[r].version = version[call[r].of]

(* Live credentials are kept under the version they are of. *)
CacheIsKeyed ==
  \A c \in Connection, k \in 1 .. MaxVersion : creds[c][k].left > 0 => creds[c][k].of = k

ConnectionsInv ==
  /\ ConnectionsTypeOK /\ RowsBegin /\ CallsAreOfReady /\ CacheIsKeyed
  /\ StatusIsEarned /\ UsableIsReady /\ CredentialsAreAsked
-----------------------------------------------------------------------------
CallRow == [kind : {"test", "read"}, of : Connection, version : 0..MaxVersion,
            at : {"credentials", "cloud"}, overtaken : BOOLEAN]

LEMMA CallTyped ==
  ASSUME ConnectionsTypeOK, NEW r \in Caller
  PROVE  /\ call[r] = Idling \/ call[r] \in CallRow
         /\ call[r].kind # "idle" => call[r] \in CallRow
         /\ call[r].kind \in {"idle", "test", "read"}
<1>1. call[r] \in {Idling} \cup CallRow
  BY DEF ConnectionsTypeOK, CallRow
<1> QED
  BY <1>1 DEF Idling, CallRow

LEMMA InUse ==
  /\ NotInUse \in Credentials /\ NotInUse.left = 0
  /\ \A v \in 0 .. MaxVersion : [of |-> v, left |-> Lifetime] \in Credentials
  BY ConnectionsAssumption DEF NotInUse, Credentials

LEMMA InitConnections == ConnectionsInit => ConnectionsInv
<1> SUFFICES ASSUME ConnectionsInit PROVE ConnectionsInv
  OBVIOUS
<1> USE ConnectionsAssumption DEF ConnectionsInit
<1>1. ConnectionsTypeOK
  BY InUse DEF ConnectionsTypeOK
<1>2. RowsBegin /\ CallsAreOfReady
  BY DEF RowsBegin, CallsAreOfReady, Idling
<1>3. CacheIsKeyed
  BY DEF CacheIsKeyed, NotInUse
<1>4. StatusIsEarned /\ UsableIsReady /\ CredentialsAreAsked
  BY DEF StatusIsEarned, UsableIsReady, CredentialsAreAsked, RowOf, ConnectionStatus, Verdict
<1> QED
  BY <1>1, <1>2, <1>3, <1>4 DEF ConnectionsInv

(* What the rows say together. *)
RowsHold == RowsBegin /\ StatusIsEarned /\ UsableIsReady

(* The verdict of a test of what the row holds, or that was overtaken, on  *)
(* a connection that is ready.                                             *)
LEMMA SavesHolds ==
  ASSUME ConnectionsInv, NEW c \in Connection, NEW v \in 0 .. MaxVersion,
         NEW late \in BOOLEAN, NEW result \in Verdict,
         Ready(c), late \/ v = version[c],
         Saves(c, v, late, result), UNCHANGED <<method, version, roleSaved, leaving>>
  PROVE  /\ RowsHold'
         /\ status' \in [Connection -> ConnectionStatus \cup {"none", "removed"}]
         /\ lastTest' \in [Connection -> Verdict \cup {"none"}]
         /\ verdictOn' \in [Connection -> 0..MaxVersion]
         /\ slipped' \in [Connection -> BOOLEAN]
<1>t. /\ status \in [Connection -> ConnectionStatus \cup {"none", "removed"}]
      /\ lastTest \in [Connection -> Verdict \cup {"none"}]
      /\ verdictOn \in [Connection -> 0..MaxVersion]
      /\ slipped \in [Connection -> BOOLEAN]
  BY DEF ConnectionsInv, ConnectionsTypeOK
<1>r. RowsHold
  BY DEF ConnectionsInv, RowsHold
<1>1. CASE ~RowOf(c)
  <2>1. UNCHANGED <<status, lastTest, verdictOn, slipped>>
    BY <1>1 DEF Saves
  <2> QED
    BY <1>t, <1>r, <2>1 DEF RowsHold, RowsBegin, StatusIsEarned, UsableIsReady, Ready, RowOf
<1>2. CASE RowOf(c)
  <2>1. /\ status' = [status EXCEPT ![c] = result]
        /\ lastTest' = [lastTest EXCEPT ![c] = result]
        /\ verdictOn' = [verdictOn EXCEPT ![c] = v]
        /\ slipped' = [slipped EXCEPT ![c] = late]
    BY <1>2 DEF Saves
  <2>2. /\ status' \in [Connection -> ConnectionStatus \cup {"none", "removed"}]
        /\ lastTest' \in [Connection -> Verdict \cup {"none"}]
        /\ verdictOn' \in [Connection -> 0..MaxVersion]
        /\ slipped' \in [Connection -> BOOLEAN]
    BY <1>t, <2>1 DEF ConnectionStatus
  <2>3. status[c] # "none" /\ result # "none"
    BY <1>2 DEF RowOf, ConnectionStatus, Verdict
  <2>4. RowsBegin'
    BY <1>t, <1>r, <2>1, <2>3 DEF RowsHold, RowsBegin
  <2>5. StatusIsEarned'
    BY <1>t, <1>r, <2>1 DEF RowsHold, StatusIsEarned, RowOf
  <2>6. UsableIsReady'
    BY <1>t, <1>r, <2>1 DEF RowsHold, UsableIsReady, Ready
  <2> QED
    BY <2>2, <2>4, <2>5, <2>6 DEF RowsHold
<1> QED
  BY <1>1, <1>2

(* The rest of the invariant, where nothing is handed out. *)
LEMMA NothingHanded == HandsNothing => CredentialsAreAsked'
  BY DEF HandsNothing, CredentialsAreAsked

LEMMA CreateConnectionStep ==
  ASSUME ConnectionsInv, NEW c \in Connection, NEW m \in ConnectionMethod,
         CreateConnection(c, m), HandsNothing
  PROVE  ConnectionsInv'
<1>t. ConnectionsTypeOK
  BY DEF ConnectionsInv
<1>1. ConnectionsTypeOK'
  BY <1>t, ConnectionsAssumption DEF ConnectionsTypeOK, CreateConnection, HandsNothing, ConnectionStatus
<1>a. status[c] = "none" /\ lastTest[c] = "none" /\ method[c] = "none" /\ m # "none"
      /\ status'[c] \in {"pending", "draft"}
  BY <1>t DEF CreateConnection, ConnectionsInv, RowsBegin, ConnectionsTypeOK, ConnectionMethod
<1>b. /\ method' = [method EXCEPT ![c] = m] /\ method'[c] = m
      /\ \A d \in Connection \ {c} : /\ method'[d] = method[d] /\ status'[d] = status[d]
                                     /\ version'[d] = version[d]
      /\ version'[c] = IF m = "keys" THEN 0 ELSE 1
      /\ UNCHANGED <<roleSaved, lastTest, creds, call, verdictOn, slipped>>
      /\ status'[c] = IF m = "ambient" THEN "pending" ELSE "draft"
  BY <1>t DEF CreateConnection, ConnectionsTypeOK
<1>2. RowsBegin'
  BY <1>a, <1>b DEF ConnectionsInv, RowsBegin, CreateConnection
<1>3. StatusIsEarned'
  BY <1>a, <1>b DEF ConnectionsInv, StatusIsEarned, RowOf, Verdict
<1>4. UsableIsReady'
  BY <1>a, <1>b DEF ConnectionsInv, UsableIsReady, Ready, Verdict
<1>5. CallsAreOfReady'
  <2> SUFFICES ASSUME NEW r \in Caller, call[r].kind # "idle"
               PROVE  /\ method'[call[r].of] # "none" /\ Ready(call[r].of)'
                      /\ call[r].kind = "test" =>
                           call[r].overtaken \/ call[r].version = version'[call[r].of]
    BY <1>b DEF CallsAreOfReady
  <2>1. call[r].of \in Connection \ {c}
    BY <1>t, <1>a, CallTyped DEF CallRow, ConnectionsInv, CallsAreOfReady
  <2> QED
    BY <1>b, <2>1 DEF ConnectionsInv, CallsAreOfReady, Ready
<1>6. CacheIsKeyed'
  BY <1>b DEF ConnectionsInv, CacheIsKeyed
<1> QED
  BY <1>1, <1>2, <1>3, <1>4, <1>5, <1>6, NothingHanded DEF ConnectionsInv

(* A change of what a connection proves itself with: the row is untested,  *)
(* and the tests of it that are under way are overtaken.                   *)
LEMMA ChangeStep ==
  ASSUME ConnectionsInv, NEW c \in Connection, HandsNothing,
         SaveRoleArn(c) \/ SaveAccessKeys(c) \/ RegenerateExternalId(c)
  PROVE  ConnectionsInv'
<1>t. ConnectionsTypeOK
  BY DEF ConnectionsInv
<1>a. PICK s \in {"pending", "draft"} :
        /\ Untested(c, s) /\ Changes(c)
        /\ s = "pending" => method[c] = "keys" \/ roleSaved'[c]
        /\ method[c] \in {"role", "keys"}
  BY <1>t DEF SaveRoleArn, SaveAccessKeys, RegenerateExternalId, ConnectionsTypeOK
<1>v. /\ roleSaved \in [Connection -> BOOLEAN] /\ version \in [Connection -> 0 .. MaxVersion]
      /\ version[c] \in 0 .. MaxVersion /\ MaxVersion \in Nat
  BY <1>t, ConnectionsAssumption DEF ConnectionsTypeOK
<1>b. /\ roleSaved' \in [Connection -> BOOLEAN] /\ version' \in [Connection -> 0 .. MaxVersion]
      /\ \A d \in Connection \ {c} : roleSaved'[d] = roleSaved[d] /\ version'[d] = version[d]
      /\ version'[c] \in {version[c], version[c] + 1}
      /\ method[c] = "keys" => version'[c] > 0
      /\ roleSaved[c] => roleSaved'[c]
  <2>1. CASE SaveRoleArn(c)
    BY <1>v, <2>1 DEF SaveRoleArn
  <2>2. CASE SaveAccessKeys(c)
    BY <1>v, <2>2 DEF SaveAccessKeys
  <2>3. CASE RegenerateExternalId(c)
    BY <1>v, <2>3 DEF RegenerateExternalId
  <2> QED
    BY <2>1, <2>2, <2>3
<1>c. /\ RowOf(c) /\ UNCHANGED <<method, creds, leaving>> /\ forgetting' = forgetting \cup {c}
      /\ call' = [r \in Caller |-> IF call[r].kind = "test" /\ call[r].of = c
                                   THEN [call[r] EXCEPT !.overtaken = TRUE] ELSE call[r]]
  BY <1>a DEF Changes
<1>d. /\ status' = [status EXCEPT ![c] = s] /\ lastTest' = [lastTest EXCEPT ![c] = "none"]
      /\ verdictOn' = [verdictOn EXCEPT ![c] = 0] /\ slipped' = [slipped EXCEPT ![c] = FALSE]
  BY <1>a DEF Untested
<1>e. \A r \in Caller :
        /\ call'[r] = Idling \/ call'[r] \in CallRow
        /\ call'[r].kind = call[r].kind
        /\ call[r].kind # "idle" =>
             /\ call[r].of \in Connection /\ call'[r].of = call[r].of /\ call'[r].version = call[r].version
             /\ call[r].kind = "test" /\ call[r].of = c => call'[r].overtaken
             /\ call[r].of # c => call'[r].overtaken = call[r].overtaken
  <2> SUFFICES ASSUME NEW r \in Caller
               PROVE  /\ call'[r] = Idling \/ call'[r] \in CallRow
                      /\ call'[r].kind = call[r].kind
                      /\ call[r].kind # "idle" =>
                           /\ call[r].of \in Connection /\ call'[r].of = call[r].of
                           /\ call'[r].version = call[r].version
                           /\ call[r].kind = "test" /\ call[r].of = c => call'[r].overtaken
                           /\ call[r].of # c => call'[r].overtaken = call[r].overtaken
    OBVIOUS
  <2>1. CASE call[r].kind = "test" /\ call[r].of = c
    <3>1. call[r] \in CallRow
      BY <1>t, <2>1, CallTyped
    <3> QED
      BY <1>c, <2>1, <3>1 DEF CallRow
  <2>2. CASE ~(call[r].kind = "test" /\ call[r].of = c)
    <3>1. call'[r] = call[r]
      BY <1>c, <2>2
    <3> QED
      BY <1>t, <2>2, <3>1, CallTyped DEF CallRow
  <2> QED
    BY <2>1, <2>2
<1>f. call' \in [Caller -> {Idling} \cup CallRow]
  <2>1. call' = [r \in Caller |-> call'[r]]
    BY <1>c
  <2> HIDE <1>c
  <2> QED
    BY <1>e, <2>1
<1>u. /\ status' \in [Connection -> ConnectionStatus \cup {"none", "removed"}]
      /\ lastTest' \in [Connection -> Verdict \cup {"none"}]
      /\ verdictOn' \in [Connection -> 0..MaxVersion] /\ slipped' \in [Connection -> BOOLEAN]
      /\ status'[c] = s /\ \A d \in Connection \ {c} : status'[d] = status[d]
  BY <1>t, <1>d, <1>v DEF ConnectionsTypeOK, ConnectionStatus
<1>1. ConnectionsTypeOK'
  BY <1>t, <1>b, <1>c, <1>u, <1>f DEF ConnectionsTypeOK, CallRow, HandsNothing
<1>g. \A d \in Connection : Ready(d) => Ready(d)'
  <2> SUFFICES ASSUME NEW d \in Connection, Ready(d) PROVE Ready(d)'
    OBVIOUS
  <2>1. version[d] \in Nat /\ version'[d] \in Nat /\ version'[d] >= version[d]
        /\ (roleSaved[d] => roleSaved'[d])
    BY <1>v, <1>b
  <2> QED
    BY <1>c, <2>1 DEF Ready
<1>2. RowsBegin'
  <2>1. status[c] # "none"
    BY <1>c DEF RowOf, ConnectionStatus, Verdict
  <2> QED
    BY <1>t, <1>b, <1>c, <1>d, <2>1 DEF ConnectionsInv, RowsBegin, ConnectionsTypeOK
<1>3. StatusIsEarned'
  BY <1>t, <1>b, <1>d DEF ConnectionsInv, StatusIsEarned, RowOf, Verdict, ConnectionsTypeOK
<1>4. UsableIsReady'
  <2>1. s = "pending" => Ready(c)'
    BY <1>t, <1>a, <1>b, <1>c DEF Ready, ConnectionsInv, RowsBegin, ConnectionsTypeOK
  <2> QED
    BY <1>a, <1>u, <1>g, <2>1 DEF ConnectionsInv, UsableIsReady, Verdict
<1>5. CallsAreOfReady'
  <2>1. ASSUME NEW r \in Caller, NEW d \in Connection, call[r].kind # "idle", d = call[r].of
        PROVE  /\ method[d] # "none" /\ Ready(d)'
               /\ call[r].kind = "test" => call'[r].overtaken \/ call[r].version = version'[d]
    <3>1. /\ method[d] # "none" /\ Ready(d)
          /\ call[r].kind = "test" => call[r].overtaken \/ call[r].version = version[d]
      BY <2>1 DEF ConnectionsInv, CallsAreOfReady, Ready
    <3> QED
      BY <1>b, <1>e, <1>g, <2>1, <3>1
  <2>2. ASSUME NEW r \in Caller, NEW d \in Connection, call[r].kind # "idle", d = call[r].of
        PROVE  /\ method'[d] # "none"
               /\ method'[d] = "role" => roleSaved'[d] /\ version'[d] > 0
               /\ method'[d] = "keys" => version'[d] > 0
               /\ call[r].kind = "test" => call'[r].overtaken \/ call'[r].version = version'[d]
    BY <1>c, <1>e, <2>1, <2>2 DEF Ready
  <2> QED
    BY <1>e, <2>2 DEF CallsAreOfReady, Ready
<1>6. CacheIsKeyed'
  BY <1>c DEF ConnectionsInv, CacheIsKeyed
<1> QED
  BY <1>1, <1>2, <1>3, <1>4, <1>5, <1>6, NothingHanded DEF ConnectionsInv

LEMMA SettlingStep ==
  ASSUME ConnectionsInv, HandsNothing,
         \/ \E c \in Connection : SaveDetails(c) \/ ForgetCredentials(c) \/ BeginRemove(c) \/ EndRemove(c)
         \/ ConnectionsTick
  PROVE  ConnectionsInv'
<1>t. ConnectionsTypeOK
  BY DEF ConnectionsInv
<1>a. UNCHANGED <<method, version, roleSaved, lastTest, call, verdictOn, slipped>>
  BY DEF SaveDetails, ForgetCredentials, BeginRemove, EndRemove, ConnectionsTick
<1>w. /\ creds \in [Connection -> [1..MaxVersion -> Credentials]]
      /\ status \in [Connection -> ConnectionStatus \cup {"none", "removed"}]
  BY <1>t DEF ConnectionsTypeOK
<1>s. \A c \in Connection, k \in 1 .. MaxVersion : creds[c][k] \in Credentials
  BY <1>w
<1>b. /\ creds' \in [Connection -> [1..MaxVersion -> Credentials]]
      /\ \A c \in Connection, k \in 1 .. MaxVersion :
           creds'[c][k].left > 0 => creds[c][k].left > 0 /\ creds'[c][k].of = creds[c][k].of
  <2>1. CASE creds' = creds
    BY <1>s, <1>w, <2>1
  <2>2. ASSUME NEW d \in Connection, creds' = Forgotten(d)
        PROVE  /\ creds' \in [Connection -> [1..MaxVersion -> Credentials]]
               /\ \A c \in Connection, k \in 1 .. MaxVersion :
                    creds'[c][k] = creds[c][k] \/ creds'[c][k].left = 0
    BY <1>s, <1>w, <2>2, InUse DEF Forgotten
  <2>3. CASE ConnectionsTick
    <3>1. ASSUME NEW c \in Connection, NEW k \in 1 .. MaxVersion
          PROVE  /\ creds'[c][k] \in Credentials
                 /\ creds'[c][k].left > 0 => creds[c][k].left > 0 /\ creds'[c][k].of = creds[c][k].of
      <4>1. creds[c][k] \in Credentials
        BY <1>s, <1>w
      <4>2. creds'[c][k] = IF creds[c][k].left > 1 THEN [creds[c][k] EXCEPT !.left = @ - 1]
                           ELSE NotInUse
        BY <2>3 DEF ConnectionsTick
      <4> QED
        BY <4>1, <4>2, InUse, ConnectionsAssumption DEF Credentials
    <3>2. creds' = [c \in Connection |-> [k \in 1..MaxVersion |-> creds'[c][k]]]
      BY <2>3 DEF ConnectionsTick
    <3> QED
      BY <3>1, <3>2
  <2> QED
    BY <2>1, <2>2, <2>3 DEF SaveDetails, BeginRemove, ForgetCredentials, EndRemove
<1>c. /\ status' \in [Connection -> ConnectionStatus \cup {"none", "removed"}]
      /\ \A c \in Connection : status'[c] = status[c] \/ (status[c] # "none" /\ status'[c] = "removed")
  <2>1. \A c \in Connection : c \in leaving => status[c] # "none"
    BY DEF ConnectionsInv, RowsBegin
  <2> QED
    BY <1>s, <1>w, <2>1 DEF SaveDetails, ForgetCredentials, BeginRemove, EndRemove, ConnectionsTick
<1>1. ConnectionsTypeOK'
  BY <1>t, <1>a, <1>b, <1>c DEF ConnectionsTypeOK, HandsNothing, SaveDetails, ForgetCredentials,
     BeginRemove, EndRemove, ConnectionsTick
<1>2. RowsBegin'
  BY <1>a, <1>c DEF ConnectionsInv, RowsBegin, SaveDetails, ForgetCredentials, BeginRemove, EndRemove,
     ConnectionsTick, RowOf, ConnectionStatus, Verdict
<1>3. StatusIsEarned' /\ UsableIsReady'
  BY <1>a, <1>c DEF ConnectionsInv, StatusIsEarned, UsableIsReady, RowOf, Ready, ConnectionStatus, Verdict
<1>4. CallsAreOfReady'
  BY <1>a DEF ConnectionsInv, CallsAreOfReady, Ready
<1>5. CacheIsKeyed'
  BY <1>b DEF ConnectionsInv, CacheIsKeyed
<1> QED
  BY <1>1, <1>2, <1>3, <1>4, <1>5, NothingHanded DEF ConnectionsInv
(* The saved verdict of a call, or none, and the call that goes on or ends. *)
LEMMA VerdictStep ==
  ASSUME ConnectionsInv, NEW r \in Caller, HandsNothing,
         \/ \E c \in Connection : BeginTest(r, c)
         \/ CredentialsFail(r)
         \/ \E result \in Verdict : EndTest(r, result)
  PROVE  ConnectionsInv'
<1>t. ConnectionsTypeOK
  BY DEF ConnectionsInv
<1>a. UNCHANGED <<method, version, roleSaved, creds, forgetting, leaving>>
  BY DEF BeginTest, CredentialsFail, EndTest
<1>s. /\ version \in [Connection -> 0 .. MaxVersion] /\ call \in [Caller -> {Idling} \cup CallRow]
      /\ "failed" \in Verdict
  BY <1>t DEF ConnectionsTypeOK, CallRow, Verdict
<1>c. call[r].kind # "idle" =>
        /\ call[r].of \in Connection /\ call[r].version \in 0 .. MaxVersion /\ call[r].overtaken \in BOOLEAN
        /\ Ready(call[r].of)
        /\ call[r].kind = "test" => call[r].overtaken \/ call[r].version = version[call[r].of]
  BY <1>t, CallTyped DEF CallRow, ConnectionsInv, CallsAreOfReady
<1>r. RowsHold
  BY DEF ConnectionsInv, RowsHold
<1>b. \/ NeverSaved
      \/ \E c \in Connection, v \in 0 .. MaxVersion, late \in BOOLEAN, result \in Verdict :
           Saves(c, v, late, result) /\ Ready(c) /\ (late \/ v = version[c])
  <2>1. ASSUME NEW c \in Connection, BeginTest(r, c)
        PROVE  <1>b
    BY <1>s, <2>1 DEF BeginTest, RefusedTest
  <2>2. CASE CredentialsFail(r)
    BY <1>s, <1>c, <2>2 DEF CredentialsFail, NeverSaved
  <2>3. ASSUME NEW result \in Verdict, EndTest(r, result)
        PROVE  <1>b
    BY <1>s, <1>c, <2>3 DEF EndTest
  <2> QED
    BY <2>1, <2>2, <2>3
<1>d. /\ RowsHold'
      /\ status' \in [Connection -> ConnectionStatus \cup {"none", "removed"}]
      /\ lastTest' \in [Connection -> Verdict \cup {"none"}]
      /\ verdictOn' \in [Connection -> 0..MaxVersion]
      /\ slipped' \in [Connection -> BOOLEAN]
  <2>1. CASE NeverSaved
    BY <1>t, <1>r, <1>a, <2>1 DEF NeverSaved, RowsHold, RowsBegin, StatusIsEarned, UsableIsReady, RowOf,
       Ready, ConnectionsTypeOK
  <2> QED
    BY <1>a, <1>b, <2>1, SavesHolds
<1>e. \/ call' = call \/ call' = [call EXCEPT ![r] = Idling]
      \/ \E c \in Connection, at \in {"credentials", "cloud"} :
           call' = [call EXCEPT ![r] = Pending("test", c, at)] /\ RowOf(c) /\ Ready(c)
  BY DEF BeginTest, CredentialsFail, EndTest
<1>f. /\ call' \in [Caller -> {Idling} \cup CallRow]
      /\ CallsAreOfReady'
  <2>1. CASE call' = call
    BY <1>s, <1>a, <2>1 DEF ConnectionsInv, CallsAreOfReady, Ready
  <2>2. CASE call' = [call EXCEPT ![r] = Idling]
    BY <1>s, <1>a, <2>2 DEF ConnectionsInv, CallsAreOfReady, Ready, Idling
  <2>3. ASSUME NEW c \in Connection, NEW at \in {"credentials", "cloud"}, RowOf(c), Ready(c),
               call' = [call EXCEPT ![r] = Pending("test", c, at)]
        PROVE  <1>f
    <3>1. /\ Pending("test", c, at) \in CallRow /\ Pending("test", c, at).of = c
          /\ Pending("test", c, at).version = version[c]
      BY <1>s DEF Pending, CallRow
    <3>2. method[c] # "none"
      BY <2>3, <1>r DEF RowOf, ConnectionStatus, Verdict, RowsHold, RowsBegin
    <3>3. /\ call'[r] = Pending("test", c, at)
          /\ \A q \in Caller \ {r} : call'[q] = call[q]
      BY <1>s, <2>3
    <3>4. CallsAreOfReady'
      BY <1>a, <2>3, <3>1, <3>2, <3>3 DEF ConnectionsInv, CallsAreOfReady, Ready
    <3> QED
      BY <1>s, <2>3, <3>1, <3>4
  <2> QED
    BY <1>e, <2>1, <2>2, <2>3
<1>1. ConnectionsTypeOK'
  BY <1>t, <1>a, <1>d, <1>f DEF ConnectionsTypeOK, CallRow, HandsNothing
<1>2. CacheIsKeyed'
  BY <1>a DEF ConnectionsInv, CacheIsKeyed
<1> QED
  BY <1>d, <1>f, <1>1, <1>2, NothingHanded DEF ConnectionsInv, RowsHold

(* A read is given what the cache holds, or begins to wait for it. *)
LEMMA BeginReadStep ==
  ASSUME ConnectionsInv, NEW r \in Caller, NEW c \in Connection, BeginRead(r, c)
  PROVE  ConnectionsInv'
<1>t. ConnectionsTypeOK
  BY DEF ConnectionsInv
<1>a. /\ UNCHANGED <<method, status, version, roleSaved, lastTest, creds, forgetting, leaving,
                     verdictOn, slipped>>
      /\ RowOf(c) /\ Ready(c)
  BY DEF BeginRead
<1>w. /\ version \in [Connection -> 0 .. MaxVersion] /\ call \in [Caller -> {Idling} \cup CallRow]
      /\ creds \in [Connection -> [1..MaxVersion -> Credentials]]
  BY <1>t DEF ConnectionsTypeOK, CallRow
<1>s. /\ version \in [Connection -> 0 .. MaxVersion] /\ call \in [Caller -> {Idling} \cup CallRow]
      /\ \A k \in 1 .. MaxVersion : creds[c][k] \in Credentials
  BY <1>w
<1>1. RowsBegin' /\ StatusIsEarned' /\ UsableIsReady' /\ CacheIsKeyed'
  BY <1>a DEF ConnectionsInv, RowsBegin, StatusIsEarned, UsableIsReady, CacheIsKeyed, RowOf, Ready
<1>2. CASE AtHand(c)
  <2>1. call' = call /\ handed' = [asked |-> version[c], got |-> Cached(c)]
    BY <1>2 DEF BeginRead, Hands
  <2>2. method[c] = "role" /\ Usable(Cached(c))
    BY <1>2 DEF BeginRead, AtHand
  <2>3. version[c] \in 1 .. MaxVersion
    BY <1>s, <2>2, ConnectionsAssumption DEF ConnectionsInv, RowsBegin
  <2>4. Cached(c) \in Credentials /\ Cached(c).of = version[c]
    BY <1>s, <2>2, <2>3, ConnectionsAssumption DEF Cached, KeyOf, Usable, ConnectionsInv, CacheIsKeyed,
       Credentials
  <2>5. CredentialsAreAsked'
    BY <2>1, <2>2, <2>4 DEF CredentialsAreAsked, Usable
  <2>6. CallsAreOfReady'
    BY <1>a, <2>1 DEF ConnectionsInv, CallsAreOfReady, Ready
  <2>7. handed' \in [asked : 0..MaxVersion, got : Credentials]
    BY <1>s, <2>1, <2>4
  <2> QED
    BY <1>t, <1>a, <1>1, <2>1, <2>5, <2>6, <2>7 DEF ConnectionsInv, ConnectionsTypeOK
<1>3. CASE ~AtHand(c)
  <2>1. call' = [call EXCEPT ![r] = Pending("read", c, "credentials")] /\ HandsNothing
    BY <1>3 DEF BeginRead
  <2>2. Pending("read", c, "credentials") \in CallRow /\ Pending("read", c, "credentials").of = c
        /\ Pending("read", c, "credentials").kind = "read"
    BY <1>s DEF Pending, CallRow
  <2>3. method[c] # "none"
    BY <1>a DEF RowOf, ConnectionStatus, Verdict, ConnectionsInv, RowsBegin
  <2>4. CallsAreOfReady'
    BY <1>s, <1>a, <2>1, <2>2, <2>3 DEF ConnectionsInv, CallsAreOfReady, Ready
  <2>5. call' \in [Caller -> {Idling} \cup CallRow]
    BY <1>s, <2>1, <2>2
  <2> QED
    BY <1>t, <1>a, <1>1, <2>1, <2>4, <2>5, NothingHanded DEF ConnectionsInv, ConnectionsTypeOK, CallRow,
       HandsNothing
<1> QED
  BY <1>2, <1>3

(* Credentials come: cached under the version they were asked for.         *)
LEMMA ComeStep ==
  ASSUME ConnectionsInv, NEW r \in Caller, CredentialsCome(r)
  PROVE  ConnectionsInv'
<1> DEFINE c == call[r].of
           v == call[r].version
           got == [of |-> v, left |-> Lifetime]
<1>t. ConnectionsTypeOK
  BY DEF ConnectionsInv
<1>a. UNCHANGED <<method, status, version, roleSaved, lastTest, forgetting, leaving, verdictOn, slipped>>
  BY DEF CredentialsCome
<1>s. /\ call \in [Caller -> {Idling} \cup CallRow]
      /\ creds \in [Connection -> [1..MaxVersion -> Credentials]]
  BY <1>t DEF ConnectionsTypeOK, CallRow
<1>c. call[r].kind # "idle" /\ call[r] \in CallRow /\ c \in Connection /\ v \in 0 .. MaxVersion
  BY <1>t, CallTyped DEF CredentialsCome, CallRow
<1>g. got \in Credentials /\ Usable(got)
  BY <1>c, InUse, ConnectionsAssumption DEF Usable
<1>1. RowsBegin' /\ StatusIsEarned' /\ UsableIsReady'
  BY <1>a DEF ConnectionsInv, RowsBegin, StatusIsEarned, UsableIsReady, RowOf, Ready
<1>2. creds' \in [Connection -> [1..MaxVersion -> Credentials]] /\ CacheIsKeyed'
  <2>1. creds' = IF method[c] = "role" THEN [creds EXCEPT ![c][v] = got] ELSE creds
    BY DEF CredentialsCome, KeyOf
  <2>2. ASSUME NEW d \in Connection, NEW k \in 1 .. MaxVersion
        PROVE  creds'[d][k] = creds[d][k] \/ (creds'[d][k] = got /\ k = v)
    BY <1>s, <1>c, <2>1
  <2>3. creds' \in [Connection -> [1..MaxVersion -> Credentials]]
    BY <1>s, <1>c, <1>g, <2>1
  <2>4. ASSUME NEW d \in Connection, NEW k \in 1 .. MaxVersion, creds'[d][k].left > 0
        PROVE  creds'[d][k].of = k
    <3>1. CASE creds'[d][k] = creds[d][k]
      BY <2>4, <3>1 DEF ConnectionsInv, CacheIsKeyed
    <3>2. CASE creds'[d][k] = got /\ k = v
      BY <3>2
    <3> QED
      BY <2>2, <3>1, <3>2
  <2> QED
    BY <2>3, <2>4 DEF CacheIsKeyed
<1>3. CASE call[r].kind = "test"
  <2>1. call' = [call EXCEPT ![r].at = "cloud"] /\ HandsNothing
    BY <1>3 DEF CredentialsCome
  <2>2. /\ call'[r] \in CallRow /\ call'[r].kind = call[r].kind /\ call'[r].of = call[r].of
        /\ call'[r].version = call[r].version /\ call'[r].overtaken = call[r].overtaken
        /\ \A q \in Caller \ {r} : call'[q] = call[q]
    BY <1>s, <1>c, <2>1 DEF CallRow
  <2>3. call' \in [Caller -> {Idling} \cup CallRow]
    BY <1>s, <2>1, <2>2
  <2>4. CallsAreOfReady'
    BY <1>a, <2>2 DEF ConnectionsInv, CallsAreOfReady, Ready
  <2> QED
    BY <1>t, <1>a, <1>1, <1>2, <2>1, <2>3, <2>4, NothingHanded DEF ConnectionsInv, ConnectionsTypeOK,
       CallRow, HandsNothing
<1>4. CASE call[r].kind # "test"
  <2>1. call' = [call EXCEPT ![r] = Idling] /\ handed' = [asked |-> v, got |-> got]
    BY <1>4 DEF CredentialsCome, Hands
  <2>2. call' \in [Caller -> {Idling} \cup CallRow]
    BY <1>s, <2>1
  <2>3. CallsAreOfReady'
    BY <1>s, <1>a, <2>1 DEF ConnectionsInv, CallsAreOfReady, Ready, Idling
  <2>4. handed' \in [asked : 0..MaxVersion, got : Credentials]
    BY <1>c, <1>g, <2>1
  <2>5. CredentialsAreAsked'
    BY <1>g, <2>1 DEF CredentialsAreAsked
  <2> QED
    BY <1>t, <1>a, <1>1, <1>2, <2>2, <2>3, <2>4, <2>5 DEF ConnectionsInv, ConnectionsTypeOK, CallRow
<1> QED
  BY <1>3, <1>4

LEMMA ConnectionsStep == ConnectionsInv /\ [ConnectionsNext]_connectionVars => ConnectionsInv'
<1> SUFFICES ASSUME ConnectionsInv, [ConnectionsNext]_connectionVars
             PROVE  ConnectionsInv'
  OBVIOUS
<1>1. CASE UNCHANGED connectionVars
  BY <1>1 DEF connectionVars, ConnectionsInv, ConnectionsTypeOK, RowsBegin, CallsAreOfReady,
     CacheIsKeyed, StatusIsEarned, UsableIsReady, CredentialsAreAsked, RowOf, Ready
<1>2. CASE ConnectionsNext
  BY <1>2, CreateConnectionStep, ChangeStep, SettlingStep, VerdictStep, BeginReadStep, ComeStep DEF ConnectionsNext
<1> QED
  BY <1>1, <1>2

LEMMA ConnectionsInductive == ConnectionsSpec => []ConnectionsInv
  BY InitConnections, ConnectionsStep, PTL DEF ConnectionsSpec

(* A connection is ok, degraded or failed by a test of what it proves      *)
(* itself with, or of what it did when the test began; and one that is, or *)
(* that awaits its test, has what a read needs.                            *)
THEOREM StatusesAreEarned == ConnectionsSpec => [](StatusIsEarned /\ UsableIsReady)
<1>1. ConnectionsInv => StatusIsEarned /\ UsableIsReady
  BY DEF ConnectionsInv
<1> QED
  BY <1>1, ConnectionsInductive, PTL

(* resolveTarget hands out credentials of the external ID the row held     *)
(* when it was read, that outlive the refresh window.                      *)
THEOREM CredentialsAreOfTheirRow == ConnectionsSpec => []CredentialsAreAsked
<1>1. ConnectionsInv => CredentialsAreAsked
  BY DEF ConnectionsInv
<1> QED
  BY <1>1, ConnectionsInductive, PTL
-----------------------------------------------------------------------------
(* A page that awaits the cloud is of a connection that is still there, or *)
(* was removed meanwhile.                                                  *)
ListingIsKnown == listing \subseteq connected \cup overtaken

MachinesInv == MachinesTypeOK /\ ListingIsKnown /\ PlaceIsConnected

(* A step that places no machine anew. *)
PlacesLess ==
  /\ \A h \in Host : host'[h].place = host[h].place \/ host'[h].place = NoPlace
  /\ connected \cup overtaken \subseteq connected' \cup overtaken'
-----------------------------------------------------------------------------
LEMMA NoHostTyped == NoHost \in HostRow /\ NoHost.place = NoPlace
<1>1. (CHOOSE n \in Name : TRUE) \in Name /\ 0 \in 0 .. Silent
  BY MachinesAssumption DEF Silent
<1> QED
  BY <1>1 DEF NoHost, HostRow

LEMMA InitMachines == MachinesInit => MachinesInv
<1> SUFFICES ASSUME MachinesInit PROVE MachinesInv
  OBVIOUS
<1>1. \A h \in Host : host[h] \in HostRow /\ host[h].place = NoPlace
  BY NoHostTyped DEF MachinesInit
<1> QED
  BY <1>1, NoHostTyped DEF MachinesInit, MachinesInv, MachinesTypeOK, ListingIsKnown,
     PlaceIsConnected

(* What a step that changes one row must keep. *)
LEMMA OneRow ==
  ASSUME MachinesInv, NEW h \in Host, NEW row \in HostRow,
         host' = [host EXCEPT ![h] = row], row.place \in {host[h].place, NoPlace},
         UNCHANGED <<connected, readable, listing, firing, overtaken>>, removed' \in SUBSET Host
  PROVE  MachinesInv' /\ PlacesLess
<1>1. host' \in [Host -> HostRow] /\ host'[h] = row
      /\ \A o \in Host \ {h} : host'[o] = host[o]
  BY DEF MachinesInv, MachinesTypeOK
<1>2. PlacesLess
  BY <1>1 DEF PlacesLess
<1> QED
  BY <1>1, <1>2 DEF MachinesInv, MachinesTypeOK, ListingIsKnown, PlaceIsConnected, PlacesLess

LEMMA OperatorStep ==
  ASSUME MachinesInv, NEW h \in Host, NEW n \in Name,
         CreateHost(h, n) \/ RenameHost(h, n) \/ DeleteHost(h) \/ UnlinkHost(h)
  PROVE  MachinesInv' /\ PlacesLess
<1>a. host[h] \in HostRow /\ removed \in SUBSET Host
  BY DEF MachinesInv, MachinesTypeOK
<1>1. CASE CreateHost(h, n)
  <2> DEFINE row == [NoHost EXCEPT !.there = TRUE, !.name = n]
  <2>1. row \in HostRow /\ row.place = NoPlace
    BY NoHostTyped DEF HostRow
  <2>2. host' = [host EXCEPT ![h] = row]
        /\ UNCHANGED <<removed, connected, readable, listing, firing, overtaken>>
    BY <1>1 DEF CreateHost
  <2> HIDE DEF row
  <2> QED
    BY <1>a, <2>1, <2>2, OneRow
<1>2. CASE RenameHost(h, n)
  <2> DEFINE row == [host[h] EXCEPT !.name = n]
  <2>1. row \in HostRow /\ row.place = host[h].place
    BY <1>a DEF HostRow
  <2>2. host' = [host EXCEPT ![h] = row]
        /\ UNCHANGED <<removed, connected, readable, listing, firing, overtaken>>
    BY <1>2 DEF RenameHost
  <2> HIDE DEF row
  <2> QED
    BY <1>a, <2>1, <2>2, OneRow
<1>3. CASE DeleteHost(h)
  BY <1>a, <1>3, NoHostTyped, OneRow DEF DeleteHost
<1>4. CASE UnlinkHost(h)
  <2> DEFINE row == [host[h] EXCEPT !.place = NoPlace]
  <2>1. row \in HostRow /\ row.place = NoPlace
    BY <1>a DEF HostRow
  <2>2. host' = [host EXCEPT ![h] = row]
        /\ UNCHANGED <<removed, connected, readable, listing, firing, overtaken>>
    BY <1>4 DEF UnlinkHost
  <2> HIDE DEF row
  <2> QED
    BY <1>a, <2>1, <2>2, OneRow
<1> QED
  BY <1>1, <1>2, <1>3, <1>4

LEMMA ReportStep ==
  ASSUME MachinesInv, NEW h \in Host, NEW m \in Machine, NEW s \in BOOLEAN,
         NEW f \in BOOLEAN, Report(h, m, s, f)
  PROVE  MachinesInv' /\ PlacesLess
<1>a. host[h] \in HostRow /\ removed \in SUBSET Host /\ 0 \in 0 .. Silent
  BY MachinesAssumption DEF MachinesInv, MachinesTypeOK, Silent
<1> DEFINE row == [host[h] EXCEPT !.machineId = IF s THEN m ELSE @, !.runsOn = m,
                                  !.reported = TRUE, !.quiet = 0, !.diskFull = f]
<1>1. row \in HostRow /\ row.place = host[h].place
  <2>1. CASE s
    BY <1>a, <2>1 DEF HostRow
  <2>2. CASE ~s
    BY <1>a, <2>2 DEF HostRow
  <2> QED
    BY <2>1, <2>2
<1>2. host' = [host EXCEPT ![h] = row]
  BY Zenon DEF Report
<1>3. UNCHANGED <<removed, connected, readable, listing, firing, overtaken>>
  BY DEF Report
<1> HIDE DEF row
<1> QED
  BY <1>a, <1>1, <1>2, <1>3, OneRow

LEMMA MachinesTickStep ==
  ASSUME MachinesInv, MachinesTick
  PROVE  MachinesInv' /\ PlacesLess
<1>a. host \in [Host -> HostRow]
  BY DEF MachinesInv, MachinesTypeOK
<1>1. \A n \in 0 .. Silent : Quieter(n) \in 0 .. Silent
  BY MachinesAssumption DEF Quieter, Silent
<1>2. host' = [h \in Host |-> IF host[h].reported
                             THEN [host[h] EXCEPT !.quiet = Quieter(@)] ELSE host[h]]
      /\ UNCHANGED <<removed, connected, readable, listing, firing, overtaken>>
  BY DEF MachinesTick
<1>3. host' \in [Host -> HostRow] /\ \A h \in Host : host'[h].place = host[h].place
  BY <1>a, <1>1, <1>2 DEF HostRow
<1> QED
  BY <1>2, <1>3 DEF MachinesInv, MachinesTypeOK, ListingIsKnown, PlaceIsConnected, PlacesLess

LEMMA AlertStep ==
  ASSUME MachinesInv, NEW e \in Place, AlertMachines(e)
  PROVE  MachinesInv' /\ PlacesLess
<1>1. \A k \in SubjectKeys(e) : k[1] \in Place /\ k[2] \in Host
  BY DEF SubjectKeys, PlacedIn
<1>2. firing' = {k \in firing : k[1] # e} \cup SubjectKeys(e)
      /\ UNCHANGED <<host, removed, connected, readable, listing, overtaken>>
  BY DEF AlertMachines
<1>3. \A k \in firing' : k[1] \in Place /\ k[2] \in Host
  BY <1>1, <1>2 DEF MachinesInv, MachinesTypeOK
<1> QED
  BY <1>2, <1>3 DEF MachinesInv, MachinesTypeOK, ListingIsKnown, PlaceIsConnected, PlacesLess

(* Removing a connection unlinks its machines; what its page awaits is     *)
(* overtaken.                                                              *)
LEMMA RemoveStep ==
  ASSUME MachinesInv, NEW e \in Place, RemovePlace(e)
  PROVE  /\ MachinesInv'
         /\ \A h \in Host : host'[h].place = host[h].place \/ host'[h].place = NoPlace
<1>a. host \in [Host -> HostRow]
  BY DEF MachinesInv, MachinesTypeOK
<1>1. /\ connected' = connected \ {e} /\ host' = Unplaced(e)
      /\ firing' = {k \in firing : k[1] # e}
      /\ overtaken' = (IF e \in listing THEN overtaken \cup {e} ELSE overtaken)
      /\ UNCHANGED <<removed, readable, listing>>
  BY DEF RemovePlace
<1>2. /\ host' \in [Host -> HostRow]
      /\ \A h \in Host : host'[h].place = IF host[h].place = e THEN NoPlace
                                           ELSE host[h].place
  BY <1>a, <1>1 DEF Unplaced, HostRow
<1>3. MachinesTypeOK'
  BY <1>1, <1>2 DEF MachinesInv, MachinesTypeOK
<1>4. ListingIsKnown' /\ PlaceIsConnected'
  BY <1>1, <1>2, MachinesAssumption DEF MachinesInv, ListingIsKnown, PlaceIsConnected
<1> QED
  BY <1>2, <1>3, <1>4 DEF MachinesInv

(* The instances page places what it found and nothing that has a place.   *)
LEMMA ListedStep ==
  ASSUME MachinesInv, NEW e \in Place, NEW M \in SUBSET Machine, InstancesListed(e, M)
  PROVE  /\ MachinesInv'
         /\ \A h \in Host : host[h].place # NoPlace => host'[h].place = host[h].place
<1>a. host \in [Host -> HostRow]
  BY DEF MachinesInv, MachinesTypeOK
<1>1. /\ e \in listing /\ listing' = listing \ {e}
      /\ UNCHANGED <<removed, connected, readable, firing, overtaken>>
  BY DEF InstancesListed
<1>2. PICK H \in SUBSET Host :
        host' = [h \in Host |-> IF h \in H THEN [host[h] EXCEPT !.place = Linked(h, e)]
                                ELSE host[h]]
  BY DEF InstancesListed
<1>3. /\ host' \in [Host -> HostRow]
      /\ \A h \in Host : host'[h].place \in {host[h].place, e}
      /\ \A h \in Host : host[h].place # NoPlace => host'[h].place = host[h].place
  BY <1>a, <1>2 DEF HostRow, Linked
<1>4. MachinesTypeOK'
  BY <1>1, <1>3 DEF MachinesInv, MachinesTypeOK
<1>5. ListingIsKnown' /\ PlaceIsConnected'
  BY <1>1, <1>3 DEF MachinesInv, ListingIsKnown, PlaceIsConnected
<1> QED
  BY <1>3, <1>4, <1>5 DEF MachinesInv

LEMMA OpenStep ==
  ASSUME MachinesInv, NEW e \in Place, OpenInstances(e)
  PROVE  MachinesInv' /\ PlacesLess
BY DEF OpenInstances, MachinesInv, MachinesTypeOK, ListingIsKnown, PlaceIsConnected, PlacesLess

LEMMA CredentialsStep ==
  ASSUME MachinesInv, NEW e \in Place, CredentialsChange(e)
  PROVE  MachinesInv' /\ PlacesLess
BY DEF CredentialsChange, MachinesInv, MachinesTypeOK, ListingIsKnown, PlaceIsConnected, PlacesLess

(* Every step keeps the invariant, and the place of a machine that has one *)
(* or takes it away.                                                       *)
LEMMA MachinesStep ==
  ASSUME MachinesInv, [MachinesNext]_machineVars
  PROVE  /\ MachinesInv'
         /\ \A h \in Host : host[h].place # NoPlace =>
              host'[h].place \in {host[h].place, NoPlace}
<1>1. CASE UNCHANGED machineVars
  BY <1>1 DEF machineVars, MachinesInv, MachinesTypeOK, ListingIsKnown, PlaceIsConnected
<1>2. Name # {}
  BY MachinesAssumption
<1> QED
  BY <1>1, <1>2, OperatorStep, ReportStep, MachinesTickStep, AlertStep, RemoveStep, ListedStep, OpenStep,
     CredentialsStep
     DEF MachinesNext, PlacesLess

LEMMA MachinesInductive == MachinesSpec => []MachinesInv
<1>1. MachinesInv /\ [MachinesNext]_machineVars => MachinesInv'
  BY MachinesStep
<1> QED
  BY <1>1, InitMachines, PTL DEF MachinesSpec

(* The hosts table and the alerts of machines are well formed. *)
THEOREM MachinesTyped == MachinesSpec => []MachinesTypeOK
<1>1. MachinesInv => MachinesTypeOK
  BY DEF MachinesInv
<1> QED
  BY <1>1, MachinesInductive, PTL

(* No machine is placed where no connection is, unless the connection was  *)
(* removed while its instances page awaited the cloud.                     *)
THEOREM PlacesAreConnected == MachinesSpec => []PlaceIsConnected
<1>1. MachinesInv => PlaceIsConnected
  BY DEF MachinesInv
<1> QED
  BY <1>1, MachinesInductive, PTL

(* linkHostToConnection never moves a machine from one environment to      *)
(* another.                                                                *)
THEOREM FirstPlaceIsKept == MachinesSpec => PlacementIsKept
<1> DEFINE A == \A h \in Host :
                  host[h].place # NoPlace /\ host'[h].place # host[h].place
                    => host'[h].place = NoPlace
<1>1. MachinesInv /\ [MachinesNext]_machineVars => [A]_machineVars
  BY MachinesStep
<1> QED
  BY <1>1, MachinesInductive, PTL DEF MachinesSpec, PlacementIsKept
-----------------------------------------------------------------------------
(* The requests as they run together: each behaviour is one of every part. *)
LEMMA PartsStart ==
  Init => /\ part \in Parts
          /\ ThrottleInit /\ SessionInit /\ CacheInit /\ SearchInit /\ ForwardInit /\ MachinesInit
          /\ ConnectionsInit
  BY DEF Init

LEMMA PartsStep ==
  [Next]_vars => /\ part' = part
                 /\ [ThrottleNext]_throttleVars /\ [SessionNext]_sessionVars
                 /\ [CacheNext]_cacheVars /\ [SearchNext]_searchVars
                 /\ [ForwardNext]_forwardVars /\ [MachinesNext]_machineVars
                 /\ [ConnectionsNext]_connectionVars
<1> SUFFICES ASSUME [Next]_vars
             PROVE  /\ part' = part
                    /\ [ThrottleNext]_throttleVars /\ [SessionNext]_sessionVars
                    /\ [CacheNext]_cacheVars /\ [SearchNext]_searchVars
                    /\ [ForwardNext]_forwardVars /\ [MachinesNext]_machineVars
                    /\ [ConnectionsNext]_connectionVars
  OBVIOUS
<1>1. CASE UNCHANGED vars
  BY <1>1 DEF vars
<1>2. CASE Only("throttle", ThrottleNext)
  BY <1>2 DEF Only
<1>3. CASE Only("sessions", SessionNext)
  BY <1>3 DEF Only
<1>4. CASE Only("cache", CacheNext)
  BY <1>4 DEF Only
<1>5. CASE Only("search", SearchNext)
  BY <1>5 DEF Only
<1>6. CASE Only("forwarding", ForwardNext)
  BY <1>6 DEF Only
<1>7. CASE Only("machines", MachinesNext)
  BY <1>7 DEF Only
<1>8. CASE Only("connections", ConnectionsNext)
  BY <1>8 DEF Only
<1> QED
  BY <1>1, <1>2, <1>3, <1>4, <1>5, <1>6, <1>7, <1>8 DEF Next

LEMMA PartsFollow ==
  Spec => /\ [](part \in Parts)
          /\ ThrottleSpec /\ SessionSpec /\ CacheSpec /\ SearchSpec /\ ForwardSpec /\ MachinesSpec
          /\ ConnectionsSpec
<1>1. part \in Parts /\ [Next]_vars => (part \in Parts)'
  BY PartsStep
<1> QED
  BY <1>1, PartsStart, PartsStep, PTL
     DEF Spec, ThrottleSpec, SessionSpec, CacheSpec, SearchSpec, ForwardSpec, MachinesSpec, ConnectionsSpec

(* The state of every part is in range.                                    *)
THEOREM RequestsTyped == Spec => []TypeOK
<1>1. ForwardInv => ForwardTypeOK
  BY DEF ForwardInv
<1>2. SearchInv => SearchTypeOK
  BY DEF SearchInv
<1>3. ConnectionsInv => ConnectionsTypeOK
  BY DEF ConnectionsInv
<1>4. (/\ part \in Parts
       /\ ThrottleTypeOK /\ SessionTypeOK /\ CacheTypeOK /\ SearchTypeOK
       /\ ForwardTypeOK /\ MachinesTypeOK /\ ConnectionsTypeOK) => TypeOK
  BY DEF TypeOK
<1> QED
  BY <1>1, <1>2, <1>3, <1>4, PartsFollow, ThrottleTyped, SessionsTyped, CacheTyped, SearchInductive,
     ForwardInductive, MachinesTyped, ConnectionsInductive, PTL

(* collection.ts, hosts/repository.ts and connections/repository.ts: what  *)
(* the tables say of log groups, of where machines run and of whether a    *)
(* connection works agrees with the cloud.                                 *)
THEOREM TablesAgreeWithCloud == Spec => []RowsAgreeWithCloud
<1>1. (/\ ActiveIsForwarded /\ NoFilterIsForgotten /\ PlaceIsConnected
       /\ StatusIsEarned /\ UsableIsReady) => RowsAgreeWithCloud
  BY DEF RowsAgreeWithCloud
<1> QED
  BY <1>1, PartsFollow, RowsAndFiltersAgree, PlacesAreConnected, StatusesAreEarned, PTL

(* cache.ts and credentials.ts: what is handed out of a cache is what was  *)
(* asked for, and still good.                                              *)
THEOREM WhatIsKeptIsGood == Spec => []CachesHold
<1>1. CacheHolds /\ CredentialsAreAsked => CachesHold
  BY DEF CachesHold
<1> QED
  BY <1>1, PartsFollow, CacheIsSound, CredentialsAreOfTheirRow, PTL

(* logs-poller.ts: every search is reined, whatever else is asked.         *)
THEOREM SearchesOfRequestsAreReined == Spec => []SearchIsReined
  BY PartsFollow, SearchesAreReined, PTL

(* login-throttle.ts and rate-limit.ts: sign-in is held.                   *)
THEOREM SignInOfRequestsIsHeld == Spec => []SignInIsHeld
  BY PartsFollow, SignInHeld, PTL

(* sessions.ts: sessions hold.                                             *)
THEOREM SessionsOfRequestsHold == Spec => []SessionsHold
  BY PartsFollow, SessionsAreSound, PTL

(* No attempt overtakes the slowdown or takes the outcome of another       *)
(* (login-throttle.ts), no machine is moved from its environment           *)
(* (hosts/repository.ts).                                                  *)
THEOREM NothingIsTaken == Spec => TurnsAndPlacesHold
<1>1. SlowdownSpaces /\ OwnOutcome /\ PlacementIsKept => TurnsAndPlacesHold
  BY DEF TurnsAndPlacesHold
<1> QED
  BY <1>1, PartsFollow, VerificationsAreSpaced, OutcomesAreOwn, FirstPlaceIsKept, PTL
=============================================================================
