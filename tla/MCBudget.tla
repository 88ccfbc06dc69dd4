-------------------------------- MODULE MCBudget --------------------------------
(***************************************************************************)
(* Two proposals of which only one fits into the budget, with the votes of   *)
(* the two masternodes, and a finalized budget for each.  One no is enough   *)
(* to turn the budget from p1 to p2: a proposal needs more than one vote     *)
(* among ten or eleven masternodes.  This node is m1.  The fee of b2 matures *)
(* late, and the node's own b1 in mode "suggest" only in the last block      *)
(* before the payments.                                                      *)
(***************************************************************************)
EXTENDS Budget

CONSTANTS m1, m2, p1, p2, b1, b2

MCProposals == {p1, p2}
MCBudgets   == {b1, b2}
MCByHash    == <<p2, b2, p1, b1>>
MCStart     == [i \in Items |-> 7]
MCEnd       == p1 :> 20 @@ p2 :> 13
MCAmount    == p1 :> 2 @@ p2 :> 3
MCFee       == p1 :> 1 @@ p2 :> 2 @@ b1 :> 1 @@ b2 :> 3
MCPayments  == b1 :> <<[nProposalHash |-> p1, nAmount |-> 2]>> @@ b2 :> <<[nProposalHash |-> p2, nAmount |-> 3]>>

On(x, i, nVote, t) == [vin |-> x, hash |-> i, nVote |-> nVote, nTime |-> t]

MCVotes == {On(m2, p1, "yes", 1), On(m2, p1, "no", 3), On(m2, b2, "yes", 4)}

MCStored == [i \in Items |->
    IF i \in Budgets THEN None
    ELSE [NewEntry(FeeHeight[i]) EXCEPT
             !.votes = [x \in Masternodes |-> [nVote |-> "yes", nTime |-> 1, fValid |-> TRUE, fSynced |-> FALSE]]]]
=============================================================================
