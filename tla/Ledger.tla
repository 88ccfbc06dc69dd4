-------------------------------- MODULE Ledger --------------------------------
(***************************************************************************)
(* Blocks and transactions that anybody may produce, and the outputs that  *)
(* are unspent after a chain of blocks, as a set: the reference for what   *)
(* the caches, the database and the memory pool should hold.               *)
(***************************************************************************)
EXTENDS Integers, Sequences, SequencesExt

CONSTANTS
    Txs,             \* transactions
    CoinBases,       \* those that are coinbases
    CoinStakes,      \* those that are coinstakes
    vin,             \* vin[t]: the prevouts <<tx, n>>; <<>> for a coinbase
    vout,            \* vout[t]: the outputs, from 1
    Blocks,
    Genesis,
    Parent,
    vtx              \* vtx[b]: the transactions of a block, the coinbase first

Outputs == {"value", "empty", "unspendable", "null"}

ASSUME LedgerAssumption ==
    /\ CoinBases \subseteq Txs /\ CoinStakes \subseteq Txs
    /\ vin \in [Txs -> Seq(Txs \X Nat)] /\ vout \in [Txs -> Seq(Outputs)]
    /\ Genesis \in Blocks /\ Parent \in [Blocks \ {Genesis} -> Blocks]
    /\ vtx \in [Blocks -> Seq(Txs)] /\ vtx[Genesis] = <<>>
    /\ \A t \in Txs : vin[t] = <<>> <=> t \in CoinBases
    \* every block leads back to the genesis block
    /\ \A S \in SUBSET (Blocks \ {Genesis}) : S /= {} => \E b \in S : Parent[b] \notin S

Height[b \in Blocks] == IF b = Genesis THEN 0 ELSE Height[Parent[b]] + 1

\* The blocks from b down to the first after the genesis block.
Path[b \in Blocks] == IF b = Genesis THEN <<>> ELSE <<b>> \o Path[Parent[b]]

Prevouts(t) == {vin[t][i] : i \in DOMAIN vin[t]}

Out(t, i, h) == [tx |-> t, n |-> i, nHeight |-> h,
                 base |-> t \in CoinBases, stake |-> t \in CoinStakes]

\* The outputs of t that can be spent, in a block at height h.
Created(t, h) == {Out(t, i, h) : i \in {j \in DOMAIN vout[t] : vout[t][j] \notin {"null", "unspendable"}}}

\* Those of the outputs V that the transactions i+1 .. n of b do not spend.
NotSpent(V, b, i, n) == {o \in V : \A k \in i + 1 .. n : <<o.tx, o.n>> \notin Prevouts(vtx[b][k])}

\* What is unspent after the first n transactions of b, when U was before.
Applied(U, b, n) ==
    NotSpent(U, b, 0, n) \cup UNION {NotSpent(Created(vtx[b][i], Height[b]), b, i, n) : i \in 1 .. n}

UtxoOf[b \in Blocks] == IF b = Genesis THEN {} ELSE Applied(UtxoOf[Parent[b]], b, Len(vtx[b]))
=============================================================================
