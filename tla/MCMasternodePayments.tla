------------------------ MODULE MCMasternodePayments ------------------------
(***************************************************************************)
(* Small instances of MasternodePayments: two masternodes, two payees.     *)
(***************************************************************************)
EXTENDS MasternodePayments, TLC

CONSTANTS m1, m2, p1, p2

MCMasternodes == {m1, m2}
MCPayees      == {p1, p2}

\* Both may vote for height 1, which is cleaned up within the bound.
MCRanked      == MCMasternodes \X {1}

\* The other masternode votes, for whom it likes; m1 is the node itself.
MCSent        == [mn : {m2}, h : {1}, payee : MCPayees]

Symmetry == Permutations(MCPayees)
=============================================================================
