---------------------------- MODULE MCAlertCycle ----------------------------
(***************************************************************************)
(* Small instances of AlertCycle.  Two attempts stand for the four of the  *)
(* code, and a cooldown of two for the thirty minutes of a rule.           *)
(***************************************************************************)
EXTENDS AlertCycle, TLC

CONSTANTS k1, k2, e1

MCBackoff == <<1>>
MCEnvOf == k1 :> e1 @@ k2 :> e1
MCEnvOfOne == k1 :> e1
Alike == Permutations(Key) \cup Permutations(Message) \cup Permutations(Dest)
RowsAndCollectors == Permutations(Message) \cup Permutations(Collector)
=============================================================================
