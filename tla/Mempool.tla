-------------------------------- MODULE Mempool --------------------------------
(***************************************************************************)
(* The memory pool and the orphan transactions (src/src/txmempool.cpp and  *)
(* AcceptToMemoryPool, AddOrphanTx, the "tx" message, ConnectTip and       *)
(* DisconnectTip of main.cpp), with the inputs SwiftTX has locked.         *)
(*                                                                         *)
(* All but SwiftTX's cleaning runs under cs_main.  The "tx" handler is     *)
(* several actions, one per element of vWorkQueue, and only the release of *)
(* locks by ThreadCheckObfuScationPool comes in between.                   *)
(* Coins are the set of outputs the chain leaves unspent (Ledger; that     *)
(* pcoinsTip is that set is what CoinsCache is about).  Fees, sizes and    *)
(* priorities only matter in that some transactions are refused.           *)
(***************************************************************************)
EXTENDS Ledger, FiniteSets

CONSTANTS
    Maturity,      \* COINBASE_MATURITY
    Nonstandard,   \* IsStandardTx or AreInputsStandard refuses them
    Underpaid,     \* refused for their fee when fLimitFree
    LowPriority,   \* refused for fee and priority in any case
    BadScripts,    \* CheckInputs fails with DoS(100)
    ByHash,        \* all transactions in the order of their hashes
    nTxSize,       \* GetTxSize
    Peers,
    nMaxOrphanTx,  \* -maxorphantx
    Lockable,      \* transactions SwiftTX is asked to lock
    None

ASSUME MempoolAssumption ==
    /\ Maturity \in Nat /\ nMaxOrphanTx \in Nat
    /\ Nonstandard \cup Underpaid \cup LowPriority \cup BadScripts \subseteq Txs
    \* no signature script satisfies an OP_RETURN
    /\ \A t \in Txs \ BadScripts : \A o \in Prevouts(t) :
          o[2] \in DOMAIN vout[o[1]] => vout[o[1]][o[2]] \notin {"null", "unspendable"}
    /\ ByHash \in Seq(Txs) /\ {ByHash[i] : i \in DOMAIN ByHash} = Txs
    /\ \A i, j \in DOMAIN ByHash : ByHash[i] = ByHash[j] => i = j
    /\ Lockable \subseteq Txs /\ nTxSize \in [Txs -> Nat] /\ None \notin Txs \cup Peers

VARIABLES
    tip,                          \* chainActive.Tip()
    mapTx,                        \* the transactions in the pool
    mapNextTx,                    \* pairs of an outpoint and the transaction that spends it
    totalTxSize,
    mapOrphanTransactions,        \* the peer an orphan came from, or None
    mapOrphanTransactionsByPrev,  \* pairs of a previous transaction and an orphan
    mapLockedInputs,              \* the transaction SwiftTX locked an outpoint for, or None
    vWorkQueue, pos,              \* of the "tx" handler, and the next index in it
    vEraseQueue, setMisbehaving

poolVars   == <<mapTx, mapNextTx, totalTxSize>>
orphanVars == <<mapOrphanTransactions, mapOrphanTransactionsByPrev>>
workVars   == <<vWorkQueue, pos, vEraseQueue, setMisbehaving>>
vars       == <<tip, poolVars, orphanVars, mapLockedInputs, workVars>>

Outpoints == UNION {Prevouts(t) : t \in Txs}

Init ==
    /\ tip = Genesis
    /\ mapTx = {} /\ mapNextTx = {} /\ totalTxSize = 0
    /\ mapOrphanTransactions = [t \in Txs |-> None] /\ mapOrphanTransactionsByPrev = {}
    /\ mapLockedInputs = [o \in Outpoints |-> None]
    /\ vWorkQueue = <<>> /\ pos = 1 /\ vEraseQueue = {} /\ setMisbehaving = {}

-----------------------------------------------------------------------------
(* CTxMemPool, as a record p of its three fields.                          *)

Pool == [tx |-> mapTx, next |-> mapNextTx, size |-> totalTxSize]

PoolBecomes(p) == mapTx' = p.tx /\ mapNextTx' = p.next /\ totalTxSize' = p.size

addUnchecked(p, t) ==
    [tx   |-> p.tx \cup {t},
     next |-> {e \in p.next : e[1] \notin Prevouts(t)} \cup {<<o, t>> : o \in Prevouts(t)},
     size |-> p.size + nTxSize[t]]

Spenders(p, t) == {e[2] : e \in {f \in p.next : f[1][1] = t /\ f[1][2] \in DOMAIN vout[t]}}

\* C has what is in the pool and spends an output of a transaction in C.
Closed(p, C) == \A t \in C : Spenders(p, t) \cap p.tx \subseteq C

\* Pooled transactions reached from those in S over mapNextTx, themselves included.
Descendants(p, S) ==
    {t \in p.tx : \A C \in SUBSET p.tx : S \cap p.tx \subseteq C /\ Closed(p, C) => t \in C}

TotalSize(S) ==
    LET sum[n \in 0 .. Len(ByHash)] ==
            IF n = 0 THEN 0
            ELSE sum[n - 1] + IF ByHash[n] \in S THEN nTxSize[ByHash[n]] ELSE 0
    IN  sum[Len(ByHash)]

Without(p, S) ==
    [tx   |-> p.tx \ S,
     next |-> {e \in p.next : e[1] \notin UNION {Prevouts(t) : t \in S}},
     size |-> p.size - TotalSize(S)]

\* remove(tx, removed, true)
removeRecursive(p, t) ==
    Without(p, Descendants(p, IF t \in p.tx THEN {t} ELSE Spenders(p, t)))

\* remove(tx, removed, false)
removeOne(p, t) == Without(p, {t} \cap p.tx)

removeConflicts(p, t) ==
    Without(p, Descendants(p, {e[2] : e \in {f \in p.next : f[1] \in Prevouts(t)}} \ {t}))

removeForBlock(p, b) ==
    LET q[i \in 0 .. Len(vtx[b])] ==
            IF i = 0 THEN p ELSE removeConflicts(removeOne(q[i - 1], vtx[b][i]), vtx[b][i])
    IN  q[Len(vtx[b])]

Immature(o, nSpendHeight) == (o.base \/ o.stake) /\ nSpendHeight - o.nHeight < Maturity

\* Mutant: it is not called.
removeCoinbaseSpendsNone(p, U, nSpendHeight) == p

\* removeCoinbaseSpends, with the unspent outputs U.
removeCoinbaseSpends(p, U, nSpendHeight) ==
    LET spent(u)  == {o \in U : o.tx = u}
        fails(t)  == \E i \in DOMAIN vin[t] :
                        LET u == vin[t][i][1]
                        IN  /\ u \notin p.tx
                            /\ \/ spent(u) = {}
                               \/ \E o \in spent(u) : Immature(o, nSpendHeight)
    IN  Without(p, Descendants(p, {t \in p.tx : fails(t)}))

-----------------------------------------------------------------------------
(* AcceptToMemoryPool with the pool p and the unspent outputs U.           *)

\* CCoinsViewMemPool::HaveCoins
HaveCoins(p, U, t) == t \in p.tx \/ \E o \in U : o.tx = t

\* The output a view over the pool shows, even if the pool spends it.
Available(p, U, out) ==
    IF out[1] \in p.tx THEN out[2] \in DOMAIN vout[out[1]]
    ELSE \E o \in U : <<o.tx, o.n>> = out

MatureInputs(p, U, t, nSpendHeight) ==
    \A o \in U : <<o.tx, o.n>> \in Prevouts(t) /\ o.tx \notin p.tx => ~Immature(o, nSpendHeight)

\* Something in the pool or a lock is against it, or it is known.
Hindered(p, U, t) ==
    \/ t \in Nonstandard \/ t \in p.tx
    \/ \E o \in Prevouts(t) : mapLockedInputs[o] \notin {None, t}
    \/ \E e \in p.next : e[1] \in Prevouts(t)
    \/ HaveCoins(p, U, t)

\* "missing": pfMissingInputs is set; "dos": whoever sent it is punished; cheap are the
\* transactions that fLimitFree and the priority refuse.
Accept(p, U, t, nSpendHeight, cheap) ==
    IF t \in CoinBases \cup CoinStakes THEN "dos"
    ELSE IF Hindered(p, U, t) THEN "no"
    ELSE IF \E out \in Prevouts(t) : ~HaveCoins(p, U, out[1]) THEN "missing"
    ELSE IF \/ \E out \in Prevouts(t) : ~Available(p, U, out)
            \/ t \in cheap \/ ~MatureInputs(p, U, t, nSpendHeight) THEN "no"
    ELSE IF t \in BadScripts THEN "dos" ELSE "accepted"

\* With fLimitFree.
AcceptNow(p, t) == Accept(p, UtxoOf[tip], t, Height[tip] + 1, Underpaid \cup LowPriority)

-----------------------------------------------------------------------------
(* The "tx" message.                                                       *)

Idle == vWorkQueue = <<>>

Orphans == {t \in Txs : mapOrphanTransactions[t] /= None}

AcceptTx(t) ==
    /\ Idle /\ AcceptNow(Pool, t) = "accepted"
    /\ PoolBecomes(addUnchecked(Pool, t))
    /\ vWorkQueue' = <<t>> /\ pos' = 1 /\ vEraseQueue' = {} /\ setMisbehaving' = {}
    /\ UNCHANGED <<tip, orphanVars, mapLockedInputs>>

\* EraseOrphanTx for each t in S.
Unindexed(S) == {e \in mapOrphanTransactionsByPrev :
                   ~(e[2] \in S /\ \E o \in Prevouts(e[2]) : o[1] = e[1])}

\* Mutant: orphans go, their index stays.
ErasedOnly(S) ==
    /\ mapOrphanTransactions' = [t \in Txs |-> IF t \in S THEN None ELSE mapOrphanTransactions[t]]
    /\ UNCHANGED mapOrphanTransactionsByPrev

Erased(S) ==
    /\ mapOrphanTransactions' = [t \in Txs |-> IF t \in S THEN None ELSE mapOrphanTransactions[t]]
    /\ mapOrphanTransactionsByPrev' = Unindexed(S)

\* LimitOrphanTxSize: the sets of orphans that may be evicted from S.
Victims(S) == {V \in SUBSET S : Cardinality(S \ V) <= nMaxOrphanTx /\
                                (V = {} \/ Cardinality(S \ V) = nMaxOrphanTx)}

\* AddOrphanTx and LimitOrphanTxSize
OrphanTx(t, peer) ==
    /\ Idle /\ AcceptNow(Pool, t) = "missing" /\ t \notin Orphans
    /\ \E V \in Victims(Orphans \cup {t}) :
          /\ mapOrphanTransactions' = [u \in Txs |-> IF u \in V THEN None
                                                   ELSE IF u = t THEN peer
                                                   ELSE mapOrphanTransactions[u]]
          /\ mapOrphanTransactionsByPrev' =
                {e \in mapOrphanTransactionsByPrev \cup {<<o[1], t>> : o \in Prevouts(t)} : e[2] \notin V}
    /\ UNCHANGED <<tip, poolVars, mapLockedInputs, workVars>>

\* Mutant: what waits for the orphan itself is not looked for.
ReconsiderOnce(s, t) ==
    LET v == AcceptNow(s.pool, t)
    IN  IF mapOrphanTransactions[t] \in s.bad THEN s
        ELSE [pool  |-> IF v = "accepted" THEN addUnchecked(s.pool, t) ELSE s.pool,
              work  |-> s.work,
              erase |-> IF v = "missing" THEN s.erase ELSE s.erase \cup {t},
              bad   |-> IF v = "dos" THEN s.bad \cup {mapOrphanTransactions[t]} ELSE s.bad]

\* One orphan that depends on the element of vWorkQueue under way.
Reconsider(s, t) ==
    LET v == AcceptNow(s.pool, t)
    IN  IF mapOrphanTransactions[t] \in s.bad THEN s
        ELSE [pool  |-> IF v = "accepted" THEN addUnchecked(s.pool, t) ELSE s.pool,
              work  |-> IF v = "accepted" THEN Append(s.work, t) ELSE s.work,
              erase |-> IF v = "missing" THEN s.erase ELSE s.erase \cup {t},
              bad   |-> IF v = "dos" THEN s.bad \cup {mapOrphanTransactions[t]} ELSE s.bad]

\* All orphans that depend on u, in the order of their hashes.
ReconsiderAll(u) ==
    LET s[i \in 0 .. Len(ByHash)] ==
            IF i = 0 THEN [pool |-> Pool, work |-> vWorkQueue, erase |-> vEraseQueue, bad |-> setMisbehaving]
            ELSE IF <<u, ByHash[i]>> \in mapOrphanTransactionsByPrev THEN Reconsider(s[i - 1], ByHash[i])
            ELSE s[i - 1]
    IN  s[Len(ByHash)]

ResolveOrphans ==
    /\ pos \in DOMAIN vWorkQueue
    /\ LET s == ReconsiderAll(vWorkQueue[pos])
       IN  /\ PoolBecomes(s.pool)
           /\ vWorkQueue' = s.work /\ vEraseQueue' = s.erase /\ setMisbehaving' = s.bad
    /\ pos' = pos + 1
    /\ UNCHANGED <<tip, orphanVars, mapLockedInputs>>

FinishTx ==
    /\ ~Idle /\ pos > Len(vWorkQueue)
    /\ Erased(vEraseQueue)
    /\ vWorkQueue' = <<>> /\ pos' = 1 /\ vEraseQueue' = {} /\ setMisbehaving' = {}
    /\ UNCHANGED <<tip, poolVars, mapLockedInputs>>

\* FinalizeNode: the peer has gone.
EraseOrphansFor(peer) ==
    /\ Idle /\ \E t \in Orphans : mapOrphanTransactions[t] = peer
    /\ Erased({t \in Orphans : mapOrphanTransactions[t] = peer})
    /\ UNCHANGED <<tip, poolVars, mapLockedInputs, workVars>>

-----------------------------------------------------------------------------
\* What ConnectBlock asks of the inputs of b.
Connectable(b) ==
    \A i \in DOMAIN vtx[b] : \A out \in Prevouts(vtx[b][i]) :
       \E o \in Applied(UtxoOf[Parent[b]], b, i - 1) : <<o.tx, o.n>> = out /\ ~Immature(o, Height[b])

ConnectTip(b) ==
    /\ Idle /\ b /= Genesis /\ Parent[b] = tip /\ Connectable(b)
    /\ tip' = b
    /\ PoolBecomes(removeForBlock(Pool, b))
    /\ UNCHANGED <<orphanVars, mapLockedInputs, workVars>>

\* One transaction of a block that is disconnected, without fLimitFree.  pcoinsTip is at
\* the parent by then.
ReturnToPool(p, b, t) ==
    IF Accept(p, UtxoOf[Parent[b]], t, Height[b], LowPriority) = "accepted" THEN addUnchecked(p, t)
    ELSE removeRecursive(p, t)

\* Mutant: the last transaction comes first.
ResurrectedBackwards(p, b) ==
    LET q[i \in 0 .. Len(vtx[b])] ==
            IF i = 0 THEN p ELSE ReturnToPool(q[i - 1], b, Reverse(vtx[b])[i])
    IN  q[Len(vtx[b])]

\* The transactions of a block that is disconnected return to the pool in their
\* order, or what depends on them leaves it.
Resurrected(p, b) ==
    LET q[i \in 0 .. Len(vtx[b])] == IF i = 0 THEN p ELSE ReturnToPool(q[i - 1], b, vtx[b][i])
    IN  q[Len(vtx[b])]

DisconnectTip ==
    /\ Idle /\ tip /= Genesis
    /\ tip' = Parent[tip]
    /\ PoolBecomes(removeCoinbaseSpends(Resurrected(Pool, tip), UtxoOf[Parent[tip]], Height[tip]))
    /\ UNCHANGED <<orphanVars, mapLockedInputs, workVars>>

\* SwiftTX locks the inputs of t that are not locked.
LockInputs(t) ==
    /\ Idle /\ \E o \in Prevouts(t) : mapLockedInputs[o] = None
    /\ mapLockedInputs' = [o \in Outpoints |-> IF o \in Prevouts(t) /\ mapLockedInputs[o] = None
                                               THEN t ELSE mapLockedInputs[o]]
    /\ UNCHANGED <<tip, poolVars, orphanVars, workVars>>

\* CleanTransactionLocksList, in a thread that takes no cs_main.
ReleaseInputs(t) ==
    /\ \E o \in Prevouts(t) : mapLockedInputs[o] = t
    /\ mapLockedInputs' = [o \in Outpoints |-> IF o \in Prevouts(t) THEN None ELSE mapLockedInputs[o]]
    /\ UNCHANGED <<tip, poolVars, orphanVars, workVars>>

Next ==
    \/ \E t \in Txs : AcceptTx(t) \/ \E peer \in Peers : OrphanTx(t, peer)
    \/ ResolveOrphans \/ FinishTx
    \/ \E peer \in Peers : EraseOrphansFor(peer)
    \/ \E b \in Blocks : ConnectTip(b)
    \/ DisconnectTip
    \/ \E t \in Lockable : LockInputs(t) \/ ReleaseInputs(t)

Spec == Init /\ [][Next]_vars

-----------------------------------------------------------------------------
TypeOK ==
    /\ tip \in Blocks /\ mapTx \subseteq Txs /\ mapNextTx \subseteq Outpoints \X Txs
    /\ totalTxSize \in Nat
    /\ mapOrphanTransactions \in [Txs -> Peers \cup {None}]
    /\ mapOrphanTransactionsByPrev \subseteq Txs \X Txs
    /\ mapLockedInputs \in [Outpoints -> Txs \cup {None}]
    /\ vWorkQueue \in Seq(Txs) /\ vEraseQueue \subseteq Txs /\ setMisbehaving \subseteq Peers
    /\ pos \in 1 .. Len(vWorkQueue) + 1

\* CTxMemPool::check: every input of a pooled transaction is an output of another one or
\* an unspent output of the chain that may be spent in the next block.
PoolSpendsAvailable ==
    \A t \in mapTx : \A out \in Prevouts(t) :
       IF out[1] \in mapTx THEN out[2] \in DOMAIN vout[out[1]]
       ELSE \E o \in UtxoOf[tip] : <<o.tx, o.n>> = out /\ ~Immature(o, Height[tip] + 1)

\* CTxMemPool::check: mapNextTx has the inputs of the pooled transactions and no others,
\* no output is spent twice, and totalTxSize is their size.
PoolIndexed ==
    /\ mapNextTx = UNION {{<<out, t>> : out \in Prevouts(t)} : t \in mapTx}
    /\ \A e, f \in mapNextTx : e[1] = f[1] => e = f
    /\ totalTxSize = TotalSize(mapTx)

\* The transactions of the chain up to b.
TxsOf[b \in Blocks] ==
    IF b = Genesis THEN {} ELSE TxsOf[Parent[b]] \cup {vtx[b][i] : i \in DOMAIN vtx[b]}

\* What the active chain contains is not in the pool, however it got there.
PoolUnconfirmed == mapTx \cap TxsOf[tip] = {}

\* mapOrphanTransactionsByPrev is the inverse of the inputs of the orphans, and there are
\* never more orphans than the limit.
OrphansIndexed ==
    /\ mapOrphanTransactionsByPrev = UNION {{<<out[1], t>> : out \in Prevouts(t)} : t \in Orphans}
    /\ Cardinality(Orphans) <= nMaxOrphanTx

\* Transactions, their indexes and the chain agree.
IndexesAgree == TypeOK /\ PoolIndexed /\ PoolUnconfirmed /\ OrphansIndexed

\* When the handler of a "tx" message is done, an orphan one of whose inputs it added,
\* at once or as an orphan itself, is taken up or dropped, unless it misses another input
\* or came from a peer that sent an invalid one.
OrphansResolved ==
    ~Idle /\ pos > Len(vWorkQueue) =>
        LET added == {vWorkQueue[i] : i \in DOMAIN vWorkQueue} \cup (vEraseQueue \cap mapTx)
        IN  \A t \in Orphans : (\E o \in Prevouts(t) : o[1] \in added) =>
               \/ t \in vEraseQueue
               \/ mapOrphanTransactions[t] \in setMisbehaving
               \/ \E o \in Prevouts(t) : ~HaveCoins(Pool, UtxoOf[tip], o[1])

\* A transaction of a disconnected block returns to the pool unless it cannot: it is a
\* coinbase or coinstake, refused without fLimitFree too, locked out, or an input is gone or immature.
Resurrects ==
    [][tip /= Genesis /\ tip' = Parent[tip] =>
         \A i \in DOMAIN vtx[tip] :
            LET t == vtx[tip][i]
                U == UtxoOf[tip']
            IN  \/ t \in mapTx'
                \/ t \in CoinBases \cup CoinStakes \cup Nonstandard \cup LowPriority \cup BadScripts
                \/ \E o \in Prevouts(t) :
                      \/ mapLockedInputs[o] \notin {None, t}
                      \/ o[1] \notin mapTx' /\ ~\E u \in U : <<u.tx, u.n>> = o /\ ~Immature(u, Height[tip])
      ]_vars
=============================================================================
