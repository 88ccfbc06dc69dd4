------------------------------ MODULE CoinsCache ------------------------------
(***************************************************************************)
(* The coins of the active chain, in three layers: the database            *)
(* (CCoinsViewDB), the cache pcoinsTip over it and, while a block is       *)
(* connected or disconnected, a second CCoinsViewCache over pcoinsTip      *)
(* (src/src/coins.cpp, txdb.cpp and the parts of main.cpp that use them).  *)
(*                                                                         *)
(* Everything runs under cs_main, so one action is one call of ConnectTip, *)
(* DisconnectTip, FlushStateToDisk, and so on.  The node can crash between *)
(* calls, and inside FlushStateToDisk between the block index and the      *)
(* coins; the batch of coins is written as a whole.  Which block to        *)
(* connect or disconnect is left open (see ChainState); rules about blocks *)
(* that do not look at coins are left out.                                 *)
(***************************************************************************)
EXTENDS Coins, Ledger

CONSTANTS
    Maturity,        \* COINBASE_MATURITY
    nCoinCacheSize,
    WritesFail,      \* whether writing the batch of coins may fail
    None

CoinsType  == [fCoinBase : BOOLEAN, fCoinStake : BOOLEAN, vout : Seq(Outputs), nHeight : Nat]
StoredType == [nCode : Nat, mask : Seq(SUBSET (0 .. 7)), txouts : Seq(Outputs), nHeight : Nat]
EntryType  == [coins : CoinsType, dirty : BOOLEAN, fresh : BOOLEAN]
UndoType   == [txout : Outputs, fCoinBase : BOOLEAN, fCoinStake : BOOLEAN, nHeight : Nat]

ASSUME CoinsAssumption ==
    /\ None \notin Txs \cup Blocks \cup CoinsType \cup StoredType \cup EntryType \cup Seq(Seq(UndoType))
    /\ Maturity \in Nat /\ nCoinCacheSize \in Nat /\ WritesFail \in BOOLEAN
    \* CheckTransaction: no transaction spends an output twice.
    /\ \A t \in Txs : \A i, j \in DOMAIN vin[t] : vin[t][i] = vin[t][j] => i = j
    \* CheckBlock: the coinbase comes first, and is the only one.
    /\ \A b \in Blocks : \A j \in DOMAIN vtx[b] : vtx[b][j] \in CoinBases => j = 1
    \* IsCoinStake: there are inputs, and the first output is the marker.
    /\ \A t \in CoinStakes : vin[t] /= <<>> /\ vout[t] /= <<>> /\ vout[t][1] = "empty"

VARIABLES
    db,           \* serialised coins of a transaction, or None
    best,         \* hashBestChain of the database
    cacheCoins,   \* of pcoinsTip: an entry or None
    hashBlock,    \* of pcoinsTip
    chainTip,     \* chainActive.Tip()
    undo,         \* the undo data the index knows of a block, or None
    undoOnDisk,   \* what of it the index on disk knows
    mode,         \* "run"; "aborting" after AbortNode; "down"; "corrupt": VerifyDB
                  \* failed; "abort": an assertion failed
    lost          \* ghost: a batch failed, and the same process later wrote another one or
                  \* undo data of a block it had connected since

memory == <<cacheCoins, hashBlock, chainTip, undo>>
disk   == <<db, best, undoOnDisk, lost>>
vars   == <<memory, disk, mode>>

NoCoins == [t \in Txs |-> None]

\* The coins of the genesis block cannot be spent and are not connected.
Init ==
    /\ db = NoCoins /\ best = Genesis
    /\ cacheCoins = NoCoins /\ hashBlock = Genesis /\ chainTip = Genesis
    /\ undo = [b \in Blocks |-> None] /\ undoOnDisk = undo
    /\ mode = "run" /\ lost = FALSE

-----------------------------------------------------------------------------
(* The operations of a CCoinsViewCache.  got is what base->GetCoins gives.  *)

CoinsIn(cache, t) == IF cache[t] = None THEN None ELSE cache[t].coins

\* CCoinsViewDB::GetCoins
DbCoins(t) == IF db[t] = None THEN None ELSE Unserialize(db[t])

\* FetchCoins
Fetched(cache, t, got) ==
    IF cache[t] /= None \/ got = None THEN cache
    ELSE [cache EXCEPT ![t] = [coins |-> got, dirty |-> FALSE, fresh |-> IsPruned(got)]]

\* Mutant: an entry that was only read stays clean.
ModifiableClean(cache, t, got) ==
    IF cache[t] /= None THEN cache
    ELSE [cache EXCEPT ![t] = [coins |-> IF got = None THEN Cleared ELSE got,
                               dirty |-> TRUE, fresh |-> got = None]]

\* ModifyCoins
Modifiable(cache, t, got) ==
    IF cache[t] /= None THEN [cache EXCEPT ![t].dirty = TRUE]
    ELSE [cache EXCEPT ![t] = [coins |-> IF got = None THEN Cleared ELSE got,
                               dirty |-> TRUE,
                               fresh |-> got = None \/ IsPruned(got)]]

\* ~CCoinsModifier once the coins of t are c.
Released(cache, t, c) ==
    [cache EXCEPT ![t] = IF @.fresh /\ IsPruned(c) THEN None
                         ELSE [@ EXCEPT !.coins = Cleanup(c)]]

Changed(e) == e /= None /\ e.dirty

\* Mutant: an entry of the child is marked fresh in the parent.
BatchWrittenFresh(cache, child) ==
    [t \in Txs |->
       CASE ~Changed(child[t]) -> cache[t]
         [] Changed(child[t]) /\ IsPruned(child[t].coins) /\ (cache[t] = None \/ cache[t].fresh) -> None
         [] OTHER -> [coins |-> child[t].coins, dirty |-> TRUE, fresh |-> TRUE]]

\* CCoinsViewCache::BatchWrite
BatchWritten(cache, child) ==
    [t \in Txs |->
       CASE ~Changed(child[t]) -> cache[t]
         [] Changed(child[t]) /\ cache[t] = None ->
              IF IsPruned(child[t].coins) THEN None
              ELSE [coins |-> child[t].coins, dirty |-> TRUE, fresh |-> TRUE]
         [] Changed(child[t]) /\ cache[t] /= None ->
              IF cache[t].fresh /\ IsPruned(child[t].coins) THEN None
              ELSE [cache[t] EXCEPT !.coins = child[t].coins, !.dirty = TRUE]]

\* The assertion of BatchWrite.
BatchWriteAsserts(cache, child) ==
    \A t \in Txs :
       Changed(child[t]) /\ cache[t] = None /\ ~IsPruned(child[t].coins) => child[t].fresh

\* CCoinsViewDB::BatchWrite
DbWritten(cache) ==
    [t \in Txs |-> CASE ~Changed(cache[t]) -> db[t]
                     [] Changed(cache[t]) -> IF IsPruned(cache[t].coins) THEN None
                                             ELSE Serialize(cache[t].coins)]

GetCacheSize(cache) == Cardinality({t \in Txs : cache[t] /= None})

-----------------------------------------------------------------------------
(* A block is worked on in a record r of the cache view over the cache tip, *)
(* of the undo data collected and of whether all checks passed (ok).        *)

Opening(tip) == [tip |-> tip, view |-> NoCoins, undo |-> <<>>, ok |-> TRUE]

\* pcoinsTip after view asked it for t.
Asked(r, t) == IF r.view[t] /= None THEN r.tip ELSE Fetched(r.tip, t, DbCoins(t))

\* AccessCoins
Look(r, t) ==
    LET From(tip) == [r EXCEPT !.tip = tip, !.view = Fetched(@, t, CoinsIn(tip, t))]
    IN  From(Asked(r, t))

Modify(r, t) ==
    LET From(tip) == [r EXCEPT !.tip = tip, !.view = Modifiable(@, t, CoinsIn(tip, t))]
    IN  From(Asked(r, t))

Release(r, t, c) == [r EXCEPT !.view = Released(@, t, c)]

FromTx(t, h) ==
    ClearUnspendable([fCoinBase |-> t \in CoinBases, fCoinStake |-> t \in CoinStakes,
                      vout |-> vout[t], nHeight |-> h])

Avail(r, out) == r.view[out[1]] /= None /\ IsAvailable(r.view[out[1]].coins, out[2])

\* No transaction of the block overwrites one that is not spent (BIP30).
Overwrites(r, t) ==
    IF ~r.ok THEN r
    ELSE LET l == Look(r, t)
         IN  [l EXCEPT !.ok = l.view[t] = None \/ IsPruned(l.view[t].coins)]

NoOverwrite(r, b) ==
    LET s[n \in 0 .. Len(vtx[b])] == IF n = 0 THEN r ELSE Overwrites(s[n - 1], vtx[b][n])
    IN  s[Len(vtx[b])]

\* HaveInputs
HaveInput(r, out) ==
    IF ~r.ok THEN r
    ELSE LET l == Look(r, out[1]) IN [l EXCEPT !.ok = Avail(l, out)]

HaveInputs(r, t) ==
    LET s[n \in 0 .. Len(vin[t])] == IF n = 0 THEN r ELSE HaveInput(s[n - 1], vin[t][n])
    IN  s[Len(vin[t])]

\* CheckInputs: coinbases and coinstakes are spent when they are mature.
Mature(r, t, h) ==
    \A i \in DOMAIN vin[t] :
       LET c == r.view[vin[t][i][1]].coins
       IN  c.fCoinBase \/ c.fCoinStake => h - c.nHeight >= Maturity

\* UpdateCoins
SpendInput(r, out) ==
    LET m == Modify(r, out[1])
        c == m.view[out[1]].coins
    IN  [Release(m, out[1], Spent(c, out[2]))
           EXCEPT !.undo[Len(r.undo)] = Append(@, SpendUndo(c, out[2]))]

SpendInputs(r, t) ==
    LET s[n \in 0 .. Len(vin[t])] == IF n = 0 THEN r ELSE SpendInput(s[n - 1], vin[t][n])
    IN  s[Len(vin[t])]

UpdateCoins(r, t, h) ==
    LET spent == SpendInputs([r EXCEPT !.undo = Append(@, <<>>)], t)
    IN  Release(Modify(spent, t), t, FromTx(t, h))

ConnectTx(r, t, h) ==
    LET Checked(have) ==
            IF ~have.ok \/ ~Mature(have, t, h) THEN [have EXCEPT !.ok = FALSE]
            ELSE UpdateCoins(have, t, h)
    IN  IF ~r.ok THEN r ELSE Checked(HaveInputs(r, t))

\* ConnectBlock
ConnectBlock(r, b) ==
    LET s[n \in 0 .. Len(vtx[b])] ==
            IF n = 0 THEN NoOverwrite([r EXCEPT !.undo = <<>>], b)
            ELSE ConnectTx(s[n - 1], vtx[b][n], Height[b])
    IN  s[Len(vtx[b])]

RestoreInput(r, out, txinundo) ==
    LET m == Modify(r, out[1])
        c == m.view[out[1]].coins
    IN  [Release(m, out[1], Restored(c, out[2], txinundo))
           EXCEPT !.ok = @ /\ RestoresCleanly(c, out[2], txinundo)]

\* The last input comes first.
RestoreInputs(r, t, txundo) ==
    LET L == Len(vin[t])
        s[n \in 0 .. L] == IF n = 0 THEN r ELSE RestoreInput(s[n - 1], vin[t][L + 1 - n], txundo[L + 1 - n])
    IN  s[L]

DisconnectTx(r, t, h, txundo) ==
    LET m == Modify(r, t)
        c == ClearUnspendable(m.view[t].coins)
    IN  RestoreInputs([Release(m, t, Cleared) EXCEPT !.ok = @ /\ Same(c, FromTx(t, h))], t, txundo)

\* DisconnectBlock; ok is fClean.
DisconnectBlock(r, b, blockUndo) ==
    IF blockUndo = None THEN [r EXCEPT !.ok = FALSE]
    ELSE LET L == Len(vtx[b])
             s[n \in 0 .. L] ==
                 IF n = 0 THEN r ELSE DisconnectTx(s[n - 1], vtx[b][L + 1 - n], Height[b], blockUndo[L + 1 - n])
         IN  s[L]

-----------------------------------------------------------------------------
Up == mode \in {"run", "aborting"}

\* FlushStateToDisk has nothing to do.
NotFlushed(cache) == cacheCoins' = cache /\ UNCHANGED <<disk, mode>>

\* The index entries, then the coins.
Written(cache, h, u) ==
    /\ undoOnDisk' = u
    /\ db' = DbWritten(cache) /\ best' = h
    /\ cacheCoins' = NoCoins
    /\ lost' = (lost \/ mode = "aborting")

\* The index entries only.
IndexWritten(u) ==
    /\ undoOnDisk' = u
    /\ lost' = (lost \/ (mode = "aborting" /\ u /= undoOnDisk))
    /\ UNCHANGED <<db, best>>

\* WriteBatch throws.  BatchWrite has emptied the cache by then, and its hashBlock stays.
FlushThrows(u) ==
    /\ WritesFail
    /\ IndexWritten(u)
    /\ cacheCoins' = NoCoins
    /\ mode' = "aborting"

\* The tip moves to newTip when the flush has returned; if it failed, the caller gives up.
FlushState(cache, h, u, newTip) ==
    \/ Written(cache, h, u) /\ chainTip' = newTip /\ UNCHANGED mode
    \/ FlushThrows(u) /\ UNCHANGED chainTip

\* Undo data is written once.
UndoWritten(u, b, new) == IF u[b] = None THEN [u EXCEPT ![b] = new] ELSE u

\* The assertion of BatchWrite fails.
AssertFails == mode' = "abort" /\ UNCHANGED <<memory, disk>>

\* ConnectBlock and DisconnectBlock assert that the coins are those of the tip.  After a
\* flush that failed in ConnectTip or DisconnectTip they are not, and the process ends
\* there: Crash.
Extends(b) == Up /\ b /= Genesis /\ Parent[b] = chainTip /\ hashBlock = chainTip

\* FLUSH_STATE_IF_NEEDED, or FLUSH_STATE_ALWAYS when the block is the first of its file.
ConnectTip(b) ==
    /\ Extends(b)
    /\ LET r     == ConnectBlock(Opening(cacheCoins), b)
           cache == BatchWritten(r.tip, r.view)
           u     == UndoWritten(undo, b, r.undo)
       IN  /\ r.ok
           /\ IF BatchWriteAsserts(r.tip, r.view)
              THEN /\ hashBlock' = b /\ undo' = u
                   /\ \/ GetCacheSize(cache) <= nCoinCacheSize /\ NotFlushed(cache) /\ chainTip' = b
                      \/ FlushState(cache, b, u, b)
              ELSE AssertFails

\* ConnectBlock fails; what was read stays in pcoinsTip.
ConnectTipFails(b) ==
    /\ Extends(b)
    /\ LET r == ConnectBlock(Opening(cacheCoins), b) IN ~r.ok /\ cacheCoins' = r.tip
    /\ UNCHANGED <<hashBlock, chainTip, undo, disk, mode>>

\* TestBlockValidity: the view is dropped.
TestBlock(b) ==
    /\ Extends(b)
    /\ cacheCoins' = ConnectBlock(Opening(cacheCoins), b).tip
    /\ UNCHANGED <<hashBlock, chainTip, undo, disk, mode>>

\* DisconnectTip, always followed by a flush.  If something does not fit the block
\* stays connected.
DisconnectTip ==
    /\ Up /\ chainTip /= Genesis /\ hashBlock = chainTip
    /\ LET r == DisconnectBlock(Opening(cacheCoins), chainTip, undo[chainTip])
       IN  IF ~r.ok
           THEN cacheCoins' = r.tip /\ UNCHANGED <<hashBlock, chainTip, undo, disk, mode>>
           ELSE IF BatchWriteAsserts(r.tip, r.view)
           THEN /\ hashBlock' = Parent[chainTip]
                /\ FlushState(BatchWritten(r.tip, r.view), Parent[chainTip], undo, Parent[chainTip])
                /\ UNCHANGED undo
           ELSE AssertFails

\* The periodic flush.
FlushStateToDisk ==
    /\ Up
    /\ FlushState(cacheCoins, hashBlock, undo, chainTip)
    /\ UNCHANGED <<hashBlock, undo>>

\* The memory pool or an RPC looks a transaction up.
GetCoins(t) ==
    /\ Up
    /\ cacheCoins' = Fetched(cacheCoins, t, DbCoins(t))
    /\ UNCHANGED <<hashBlock, chainTip, undo, disk, mode>>

\* PrepareShutdown: a flush, whatever happened before.
Shutdown ==
    /\ Up
    /\ Written(cacheCoins, hashBlock, undo)
    /\ mode' = "down"
    /\ UNCHANGED <<hashBlock, chainTip, undo>>

Crash ==
    /\ Up
    /\ cacheCoins' = NoCoins /\ mode' = "down"
    /\ UNCHANGED <<hashBlock, chainTip, undo, disk>>

\* Mutant: the coins are written before the index.
CrashInFlushSwapped ==
    /\ Up
    /\ db' = DbWritten(cacheCoins) /\ best' = hashBlock
    /\ cacheCoins' = NoCoins /\ mode' = "down"
    /\ UNCHANGED <<hashBlock, chainTip, undo, undoOnDisk, lost>>

\* The node stops between the index and the coins.
CrashInFlush ==
    /\ Up
    /\ IndexWritten(undo)
    /\ cacheCoins' = NoCoins /\ mode' = "down"
    /\ UNCHANGED <<hashBlock, chainTip, undo>>

\* VerifyDB at level 4: blocks are disconnected in memory while the cache is not
\* full, and connected again.  Its view lies directly over the database.
VerifiedDown(s) ==
    IF GetCacheSize(s.r.view) <= nCoinCacheSize
    THEN [r |-> DisconnectBlock(s.r, s.at, undoOnDisk[s.at]), at |-> Parent[s.at]]
    ELSE s

VerifyDB ==
    LET H == Height[best]
        down[n \in 0 .. H] ==
            IF n = 0 THEN [r |-> Opening(NoCoins), at |-> best] ELSE VerifiedDown(down[n - 1])
        k == H - Height[down[H].at]
        up[n \in 0 .. k] ==
            IF n = 0 THEN down[H].r
            ELSE IF up[n - 1].ok THEN ConnectBlock(up[n - 1], Path[best][k + 1 - n])
            ELSE up[n - 1]
    IN  down[H].r.ok /\ up[k].ok

\* LoadBlockIndexDB and VerifyDB
Start ==
    /\ mode = "down"
    /\ hashBlock' = best /\ chainTip' = best /\ undo' = undoOnDisk
    /\ mode' = IF VerifyDB THEN "run" ELSE "corrupt"
    /\ UNCHANGED <<cacheCoins, disk>>

Next ==
    \/ \E b \in Blocks : ConnectTip(b) \/ ConnectTipFails(b) \/ TestBlock(b)
    \/ DisconnectTip \/ FlushStateToDisk \/ Shutdown \/ Crash \/ CrashInFlush \/ Start
    \/ \E t \in Txs : GetCoins(t)

Spec == Init /\ [][Next]_vars

-----------------------------------------------------------------------------
\* The empty first output of a coinstake is not spent.  No rule of the code says so; it is
\* a hypothesis of theorems, because DisconnectBlock does not put fCoinStake back.
MarkersStay == \A t \in Txs : \A i \in DOMAIN vin[t] : vin[t][i][1] \in CoinStakes => vin[t][i][2] /= 1

\* The outputs that coins, one entry per transaction or None, stand for.
Utxo(coins) ==
    UNION {{[tx |-> t, n |-> i, nHeight |-> coins[t].nHeight,
             base |-> coins[t].fCoinBase, stake |-> coins[t].fCoinStake] : i \in Unspent(coins[t].vout)}
             : t \in {u \in Txs : coins[u] /= None}}

OnDisk  == [t \in Txs |-> DbCoins(t)]
Visible == [t \in Txs |-> IF cacheCoins[t] /= None THEN cacheCoins[t].coins ELSE DbCoins(t)]

\* The layers hold what they should, and coins are stored without spent outputs at the end.
TypeOK ==
    /\ \A t \in Txs : cacheCoins[t] /= None =>
          /\ cacheCoins[t] \in EntryType
          /\ cacheCoins[t].coins.vout = Trimmed(cacheCoins[t].coins.vout)
    /\ \A t \in Txs : db[t] /= None => DbCoins(t) \in CoinsType
    /\ {best, hashBlock, chainTip} \subseteq Blocks
    /\ mode \in {"run", "aborting", "down", "corrupt", "abort"} /\ lost \in BOOLEAN

\* pcoinsTip stands for the chain up to its best block, which is the tip: after any
\* sequence of reorganisations, failed blocks, reads and flushes an output is there with
\* its height and kind exactly if the chain created it and did not spend it.
TipRepresentsBest ==
    mode = "run" /\ ~lost => hashBlock = chainTip /\ Utxo(Visible) = UtxoOf[hashBlock]

\* The same of the database, at every moment at which the node can stop.  Without the
\* exception of lost this is the comment on CCoinsView::GetBestBlock.
DiskRepresentsBest == ~lost => Utxo(OnDisk) = UtxoOf[best]

\* The flags of an entry of pcoinsTip mean what coins.h says: a clean entry is the one of
\* the database, and the database has nothing for a fresh one.
FlagsMean ==
    \A t \in Txs : cacheCoins[t] /= None =>
        /\ cacheCoins[t].fresh => db[t] = None
        /\ ~cacheCoins[t].dirty => DbCoins(t) = cacheCoins[t].coins

\* Every entry is well formed and says the truth about the layer below.
EntriesSound == TypeOK /\ FlagsMean

\* A block that was connected can be disconnected, whatever was stored, read or lost
\* in between: the undo data is there and fits.
TipCanBeUndone ==
    mode = "run" /\ ~lost /\ chainTip /= Genesis =>
        DisconnectBlock(Opening(cacheCoins), chainTip, undo[chainTip]).ok

\* The node always starts again, because VerifyDB finds nothing wrong with what a crash
\* left; and the assertion of BatchWrite, that an entry its own cache does not know is
\* fresh, never stops it.
NeverStopped == mode /= "abort" /\ (mode = "corrupt" => lost)
=============================================================================
