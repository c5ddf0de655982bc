------------------------ MODULE MCProblemLifecycle ------------------------
(***************************************************************************)
(* Small instances of ProblemLifecycle.  The lengths keep the order of the *)
(* real ones: a clear spell (15 min) is shorter than the reopen window     *)
(* (2 h), which is shorter than retention (30 days).                       *)
(***************************************************************************)
EXTENDS ProblemLifecycle, TLC

CONSTANTS k1, f1

MCFamilyOfOne == k1 :> f1
Ids == Permutations(Id)
Collectors == Permutations(Collector)
===========================================================================
