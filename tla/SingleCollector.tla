--------------------------- MODULE SingleCollector ---------------------------
(***************************************************************************)
(* What the collector runtime promises: "One process collects; the rest do *)
(* nothing and come back later" (src/src/lib/collector/runner.ts).  The    *)
(* lock, its heartbeat and its staleness rule are means to this end and do *)
(* not appear.                                                             *)
(***************************************************************************)
CONSTANT Process

VARIABLE collecting      \* the processes that are running a job

Init == collecting = {}

Begin(p) == collecting = {} /\ collecting' = {p}

End(p) == p \in collecting /\ collecting' = collecting \ {p}

Next == \E p \in Process : Begin(p) \/ End(p)

Spec == Init /\ [][Next]_collecting
=============================================================================
