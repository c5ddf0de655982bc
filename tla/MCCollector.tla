----------------------------- MODULE MCCollector -----------------------------
EXTENDS Collector, TLC
CONSTANTS p1, p2, env

MCEvery == <<1, 2>>
MCEnvOf == <<Instance, env>>
Symmetry == Permutations(Process)
=============================================================================
