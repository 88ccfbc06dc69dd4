---------------------------- MODULE MCChainState ----------------------------
(* Small block trees for ChainState: two branches, a1 - a2 - a3 and         *)
(* b1 - b2 - b3, on the genesis block "g", and c2 beside a2.  A cfg says     *)
(* which of these blocks exist.  Each block adds one unit of work.           *)
EXTENDS ChainState

MCParent ==
    [b \in Blocks \ {"g"} |->
       CASE b \in {"a1", "b1"} -> "g"
         [] b \in {"a2", "c2"} -> "a1" [] b = "a3" -> "a2"
         [] b = "b2" -> "b1" [] b = "b3" -> "b2"]

MCAncestors[b \in Blocks] == IF b = "g" THEN {"g"} ELSE MCAncestors[MCParent[b]] \cup {b}

MCWork == [b \in Blocks |-> Cardinality(MCAncestors[b])]

\* Addresses that follow neither the heights nor the branches.
Scattered == [b \in Blocks |->
    CASE b = "g"  -> 1 [] b = "a2" -> 2 [] b = "a1" -> 3 [] b = "b1" -> 4
      [] b = "b2" -> 5 [] b = "a3" -> 6 [] b = "b3" -> 7 [] b = "c2" -> 8]

\* Addresses that follow the heights.
Ascending == [b \in Blocks |->
    CASE b = "g"  -> 1 [] b = "a1" -> 2 [] b = "b1" -> 3 [] b = "a2" -> 4
      [] b = "b2" -> 5 [] b = "a3" -> 6 [] b = "b3" -> 7 [] b = "c2" -> 8]

AllValid == [b \in Blocks |-> {"valid"}]

\* b2 violates a rule that only ConnectBlock sees.
LateInvalid == [b \in Blocks |-> IF b = "b2" THEN {"invalid"} ELSE {"valid"}]

\* b1 is refused depending on a spork, and c2 is not accepted or invalid.
Refusing == [b \in Blocks |-> CASE b = "b1" -> {"valid", "refused"}
                                [] b = "c2" -> {"unacceptable", "invalid"}
                                [] OTHER    -> {"valid"}]
=============================================================================
