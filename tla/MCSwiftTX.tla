------------------------------ MODULE MCSwiftTX ------------------------------
(***************************************************************************)
(* Small instances of SwiftTX.  Two transactions spend the same output o1, *)
(* b as its second input.  OneTx is for the runs about votes, which need   *)
(* more masternodes and votes for a wrong height.                          *)
(***************************************************************************)
EXTENDS SwiftTX, TLC

CONSTANTS a, b, o1, o2, m1, m2, m3, noMasternode

MCTxs         == {a, b}
OneTx         == {a}
MCOutpoints   == {o1, o2}
MCvin         == [tx \in Txs |-> IF tx = a THEN <<o1>> ELSE <<o2, o1>>]
MCLockHeight  == [tx \in Txs |-> 1]
MCHeights     == {0, 1}

TwoMasternodes   == {m1, m2}
ThreeMasternodes == {m1, m2, m3}

\* Votes for the height of the lock only.
RankedForLock == Masternodes \X {1}

\* m1 and m2 also vote for the tip, which is never the height of a lock.
RankedForTip  == RankedForLock \cup ({m1, m2} \X {0})

Symmetry == Permutations({m1, m2})
=============================================================================
