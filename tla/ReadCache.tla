------------------------------- MODULE ReadCache -------------------------------
(***************************************************************************)
(* The cache every page and the detect cycle read the cloud through        *)
(* (monitoring/cache.ts): a bounded map in the order keys were last used.  *)
(* What it keeps is the pending answer itself, so two readers of a key     *)
(* share one load; an entry expires a while after its load succeeds, and   *)
(* one that fails goes away.  A load that was pushed out, or whose key was *)
(* loaded again, may still settle, at any time and in any order.           *)
(*                                                                         *)
(* An entry and the load it was made for are one thing here.               *)
(***************************************************************************)
EXTENDS Integers, Sequences, SequencesExt

CONSTANTS
  CacheKey,    \* the keys that are read
  Load,        \* ids of loads: the bound on those that pend or are kept
  NoLoad,      \* no entry
  Ttl,         \* ttlMs
  MaxEntries   \* maxEntries

ASSUME CacheAssumption ==
  /\ NoLoad \notin Load
  /\ Ttl \in Nat \ {0} /\ MaxEntries \in Nat \ {0}

VARIABLES
  used,     \* the keys of the map, in its order: least recently used first
  entry,    \* per key, the load of its entry
  left,     \* per load, the time until expiresAt; Ttl + 1 stands for infinity
  load,     \* per load: "none", "pending", "settled"
  key,      \* per load, the key it was made for
  old,      \* observation: per load, the time since it succeeded
  pushed    \* observation: the loads that were pushed out while pending

cacheVars == <<used, entry, left, load, key, old, pushed>>
-----------------------------------------------------------------------------
Never == Ttl + 1

ExpiredNever(f) == FALSE   \* mutant

Expired(f) == left[f] = 0

(* cache.get finds a pending or unexpired value. *)
Hit(k) == entry[k] # NoLoad /\ ~Expired(entry[k])

(* An id that stands for no load a reader or the cache still holds. *)
Idle(f) == load[f] = "none"

(* The key becomes the most recently used; past the bound, the least       *)
(* recently used goes.                                                     *)
Touched(k) == Append(RemoveFirst(used, k), k)

BoundedLate(s) ==   \* mutant: the bound is checked before the key is added
  IF Len(s) > MaxEntries + 1 THEN Tail(s) ELSE s

Bounded(s) == IF Len(s) > MaxEntries THEN Tail(s) ELSE s

EntryOfKey(f) == TRUE   \* mutant: any entry of the key will do

(* entries.get(key) === entry *)
StillCached(f) == entry[key[f]] = f

(* What only the cache held, and no longer holds, is forgotten. *)
Forget(S) == [g \in Load |-> IF g \in S /\ load[g] = "settled" THEN "none" ELSE load[g]]
-----------------------------------------------------------------------------
CacheInit ==
  /\ used = <<>>
  /\ entry = [k \in CacheKey |-> NoLoad]
  /\ left = [f \in Load |-> Never]
  /\ load = [f \in Load |-> "none"]
  /\ key \in [Load -> CacheKey] /\ \A f, g \in Load : key[f] = key[g]
  /\ old = [f \in Load |-> 0]
  /\ pushed = {}

(* cached: what is there is handed out... *)
ReadHit(k) ==
  /\ Hit(k)
  /\ used' = Touched(k)
  /\ UNCHANGED <<entry, left, load, key, old, pushed>>

(* ... and what is not is loaded: an expired entry is dropped, the pending *)
(* answer is stored, and the bound pushes out the oldest.                  *)
ReadMiss(k, f) ==
  LET now == Bounded(Touched(k))
      out == {g \in Load : \E j \in CacheKey :
                             /\ entry[j] = g
                             /\ j = k \/ j \notin ToSet(now)}
  IN
  /\ ~Hit(k)
  /\ Idle(f) /\ f = CHOOSE g \in Load : Idle(g)
  /\ used' = now
  /\ entry' = [j \in CacheKey |-> IF j = k THEN f
                                  ELSE IF j \in ToSet(now) THEN entry[j] ELSE NoLoad]
  /\ load' = [Forget(out) EXCEPT ![f] = "pending"]
  /\ left' = [left EXCEPT ![f] = Never]
  /\ key' = [key EXCEPT ![f] = k]
  /\ old' = [g \in Load |-> IF g = f \/ g \in out THEN 0 ELSE old[g]]
  /\ pushed' = (pushed \ {f}) \cup {g \in out : load[g] = "pending"}

(* The load answers. *)
Succeeds(f) ==
  /\ load[f] = "pending"
  /\ left' = IF StillCached(f) /\ entry[key[f]] # NoLoad
             THEN [left EXCEPT ![entry[key[f]]] = Ttl] ELSE left
  /\ load' = [load EXCEPT ![f] = IF entry[key[f]] = f THEN "settled" ELSE "none"]
  /\ old' = [old EXCEPT ![f] = 0]
  /\ pushed' = pushed \ {f}
  /\ UNCHANGED <<used, entry, key>>

(* It fails, or answers with a failure. *)
Fails(f) ==
  /\ load[f] = "pending"
  /\ load' = [load EXCEPT ![f] = "none"]
  /\ used' = IF StillCached(f) THEN RemoveFirst(used, key[f]) ELSE used
  /\ entry' = IF StillCached(f) THEN [entry EXCEPT ![key[f]] = NoLoad] ELSE entry
  /\ pushed' = pushed \ {f}
  /\ UNCHANGED <<left, key, old>>

CacheTick ==
  /\ left' = [f \in Load |-> IF left[f] \in 1 .. Ttl THEN left[f] - 1 ELSE left[f]]
  /\ old' = [f \in Load |-> IF load[f] = "settled" /\ old[f] < Never THEN old[f] + 1
                            ELSE old[f]]
  /\ UNCHANGED <<used, entry, load, key, pushed>>

CacheNext ==
  \/ \E k \in CacheKey : ReadHit(k) \/ \E f \in Load : ReadMiss(k, f)
  \/ \E f \in Load : Succeeds(f) \/ Fails(f)
  \/ CacheTick

CacheSpec == CacheInit /\ [][CacheNext]_cacheVars
-----------------------------------------------------------------------------
CacheTypeOK ==
  /\ used \in Seq(CacheKey)
  /\ entry \in [CacheKey -> Load \cup {NoLoad}]
  /\ left \in [Load -> 0 .. Never]
  /\ load \in [Load -> {"none", "pending", "settled"}]
  /\ key \in [Load -> CacheKey]
  /\ old \in [Load -> 0 .. Never]
  /\ pushed \in SUBSET Load

(* The map holds at most maxEntries, each key once, and nothing the order  *)
(* does not know of: an entry without a place in it could never go.        *)
CacheIsBounded ==
  /\ Len(used) <= MaxEntries
  /\ \A i, j \in 1 .. Len(used) : used[i] = used[j] => i = j
  /\ \A k \in CacheKey : entry[k] # NoLoad <=> k \in ToSet(used)

(* Readers of a key share one load: while one pends, no other is made,     *)
(* unless the bound pushed the first out.  A late answer of an old load    *)
(* must not make room for a second one.                                    *)
OneLoadPerKey ==
  \A f, g \in Load :
    load[f] = "pending" /\ load[g] = "pending" /\ key[f] = key[g] =>
      f = g \/ f \in pushed \/ g \in pushed

(* What is handed out pends, or was read within the last Ttl, whichever    *)
(* loads of its key settled in between.                                    *)
HandsOutFresh ==
  \A k \in CacheKey :
    Hit(k) => \/ load[entry[k]] = "pending"
              \/ load[entry[k]] = "settled" /\ old[entry[k]] < Ttl

(* The cache is bounded, loads a key once and hands out what is fresh.     *)
CacheHolds == CacheIsBounded /\ OneLoadPerKey /\ HandsOutFresh
=============================================================================
