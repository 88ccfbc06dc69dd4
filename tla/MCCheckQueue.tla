---------------------------- MODULE MCCheckQueue ----------------------------
(* Small instances of CheckQueue. *)
EXTENDS CheckQueue, TLC

CONSTANTS w1, w2, m, c1, c2, c3, c4

MCWorkers  == {w1, w2}
MCChecks   == {c1, c2, c3}
MCChecks4  == {c1, c2, c3, c4}
MCPasses   == {c1, c2}
MCPasses4  == {c1, c2, c3}

Symmetry == Permutations(MCWorkers) \cup Permutations(MCPasses4)
=============================================================================
