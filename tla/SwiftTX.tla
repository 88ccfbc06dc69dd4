------------------------------- MODULE SwiftTX -------------------------------
(***************************************************************************)
(* SwiftTX transaction locking at one node (src/src/swifttx.cpp), with the *)
(* parts of main.cpp and wallet.cpp that read or write its maps: memory    *)
(* pool admission, the block filter of CheckBlock, the wallet's own lock   *)
(* request.                                                                *)
(*                                                                         *)
(* A lock request ("ix") announces a transaction, votes ("txlvote") come   *)
(* from the masternodes ranked for the height of the lock, and with        *)
(* SIGNATURES_REQUIRED votes the inputs are locked.  Requests and votes    *)
(* arrive in any order.  A handler is one action.  The maps have no lock   *)
(* of their own although the wallet and the cleaning thread use them too:  *)
(* interference inside a handler is not modelled.                          *)
(*                                                                         *)
(* The node is synced and SPORK_2 is on: otherwise every message returns   *)
(* at once.  Requests IsIXTXValid or the script check refuses change       *)
(* nothing and are left out.  Relaying, and mapUnknownVotes which only     *)
(* limits it, are left out too.                                            *)
(***************************************************************************)
EXTENDS Integers, Sequences, FiniteSets

CONSTANTS
    Txs,                  \* transactions somebody asks to lock
    Outpoints,            \* the outputs they spend
    vin,                  \* vin[tx]: the inputs of tx, in order
    Masternodes,
    LockHeight,           \* LockHeight[tx]: four blocks after its inputs
    Heights,              \* heights votes are made for; 0 stands for the tip
    Ranked,               \* <<mn, h>>: mn is in the top ten for height h
    SIGNATURES_REQUIRED,
    LockLife,             \* ticks from creation to nExpiration
    ActiveMasternode,     \* the masternode this node runs, if it runs one
    BlockFiltering,       \* SPORK_3
    NoLock, NoTx          \* absent map entries

ASSUME SwiftTXAssumption ==
    /\ IsFiniteSet(Txs) /\ IsFiniteSet(Masternodes)
    /\ vin \in [Txs -> Seq(Outpoints)]
    /\ LockHeight \in [Txs -> Heights \ {0}]
    /\ Heights \subseteq Nat /\ 0 \in Heights
    /\ Ranked \subseteq Masternodes \X Heights
    /\ SIGNATURES_REQUIRED \in Nat \ {0}
    /\ LockLife \in Nat
    /\ BlockFiltering \in BOOLEAN
    /\ NoTx \notin Txs

VARIABLES
    mapTxLockReq,          \* "none", "tx", or "empty": inserted by operator[]
    mapTxLockReqRejected,  \* requests the memory pool refused
    mapTxLockVote,         \* votes seen, by CConsensusVote::GetHash
    mapTxLocks,            \* the lock of a transaction, or NoLock
    mapLockedInputs,       \* the transaction an input is locked for, or NoTx
    mempool,
    blocks,                \* transactions of Txs in blocks the node stored
    confirmed,             \* those of them in the active chain
    refused                \* history: requests that were ever refused

lockVars  == <<mapTxLockReq, mapTxLockReqRejected, mapTxLockVote, mapTxLocks, mapLockedInputs>>
chainVars == <<mempool, blocks, confirmed>>
vars      == <<lockVars, chainVars, refused>>

\* A lock; left is nExpiration minus GetTime(), negative once it is over.
Votes == [mn : Masternodes, h : Heights]
Locks == [nBlockHeight : Heights, votes : Seq(Votes), left : -1 .. LockLife]

ASSUME NoLockAssumption == NoLock \notin Locks

NewLock(h) == [nBlockHeight |-> h, votes |-> <<>>, left |-> LockLife]

Init ==
    /\ mapTxLockReq = [tx \in Txs |-> "none"]
    /\ mapTxLockReqRejected = {}
    /\ mapTxLockVote = {}
    /\ mapTxLocks = [tx \in Txs |-> NoLock]
    /\ mapLockedInputs = [o \in Outpoints |-> NoTx]
    /\ mempool = {} /\ blocks = {} /\ confirmed = {} /\ refused = {}

-----------------------------------------------------------------------------
Inputs(tx) == {vin[tx][i] : i \in DOMAIN vin[tx]}

Conflicts(a, b) == a /= b /\ Inputs(a) \cap Inputs(b) /= {}

\* CTransactionLock::CountSignatures.  A lock that does not exist counts none.
CountSignatures(lock) ==
    IF lock = NoLock \/ lock.nBlockHeight = 0
    THEN -1
    ELSE Cardinality({i \in DOMAIN lock.votes : lock.votes[i].h = lock.nBlockHeight})

IsComplete(lock) == CountSignatures(lock) >= SIGNATURES_REQUIRED

\* CreateNewLock for a transaction whose inputs all have five confirmations
\* (aged): the lock exists from now on and its height is known.
CreateNewLock(tx, aged) ==
    IF ~aged THEN mapTxLocks
    ELSE IF mapTxLocks[tx] = NoLock
         THEN [mapTxLocks EXCEPT ![tx] = NewLock(LockHeight[tx])]
         ELSE [mapTxLocks EXCEPT ![tx].nBlockHeight = LockHeight[tx]]

\* Inputs that the map locked gives to another transaction.
LockedByOther(tx, locked) ==
    {i \in DOMAIN vin[tx] : locked[vin[tx][i]] \notin {NoTx, tx}}

\* The first such input decides whom CheckForConflictingLocks expires: tx
\* itself and the owner of that input.
FirstOther(tx, locked) ==
    locked[vin[tx][CHOOSE i \in LockedByOther(tx, locked) :
                     \A j \in LockedByOther(tx, locked) : i <= j]]

Expire(locks, S) ==
    [tx \in Txs |-> IF tx \in S /\ locks[tx] /= NoLock
                    THEN [locks[tx] EXCEPT !.left = 0]
                    ELSE locks[tx]]

\* Lock the inputs of tx that are not locked yet.
LockInputs(tx, locked) ==
    [o \in Outpoints |->
        IF o \in Inputs(tx) /\ locked[o] = NoTx THEN tx ELSE locked[o]]

\* Mutant: only locks are looked at, not what the pool already spends.
AcceptableUnchecked(tx) ==
    /\ tx \notin mempool \cup confirmed
    /\ LockedByOther(tx, mapLockedInputs) = {}

\* The checks of AcceptToMemoryPool that concern double spends and locks.
Acceptable(tx) ==
    /\ tx \notin mempool \cup confirmed
    /\ LockedByOther(tx, mapLockedInputs) = {}
    /\ \A other \in mempool \cup confirmed : ~Conflicts(tx, other)

\* ReprocessBlocks(15): blocks are reconsidered, sixteen are disconnected and
\* the best chain is connected again, filtered by the locks now in force.
\* Which stored blocks end up in it depends on their work and is left open.
\* Transactions of disconnected blocks return to the memory pool.
ReprocessBlocks(locked) ==
    \E chain \in SUBSET blocks :
        /\ \A tx \in chain : BlockFiltering => LockedByOther(tx, locked) = {}
        /\ \A a, b \in chain : ~Conflicts(a, b)
        /\ confirmed' = chain
        /\ mempool' = {tx \in mempool \cup {c \in confirmed : LockedByOther(c, locked) = {}} :
                          tx \notin chain /\ \A c \in chain : ~Conflicts(tx, c)}
        /\ UNCHANGED blocks

-----------------------------------------------------------------------------
\* DoConsensusVote: the node's own vote is recorded as seen and relayed.  It
\* is not added to the lock here, and not when a peer sends it back either.
OwnVote(tx, h) ==
    IF <<ActiveMasternode, h>> \in Ranked THEN {<<ActiveMasternode, tx>>} ELSE {}

\* "ix", accepted by the memory pool.
RequestAccepted(tx, aged) ==
    /\ mapTxLockReq[tx] = "none" /\ tx \notin mapTxLockReqRejected
    /\ Acceptable(tx)
    /\ mapTxLocks' = CreateNewLock(tx, aged)
    /\ mempool' = mempool \cup {tx}
    /\ mapTxLockVote' = mapTxLockVote \cup OwnVote(tx, IF aged THEN LockHeight[tx] ELSE 0)
    /\ mapTxLockReq' = [mapTxLockReq EXCEPT ![tx] = "tx"]
    /\ UNCHANGED <<mapTxLockReqRejected, mapLockedInputs, blocks, confirmed, refused>>

\* "ix", refused: for a conflict, because the pool already has tx, or for a
\* reason that is not modelled (a fee, a script).  The inputs are locked all
\* the same, and an existing complete lock is settled at once.
RequestRejected(tx, aged) ==
    LET locks  == CreateNewLock(tx, aged)
        locked == LockInputs(tx, mapLockedInputs)
    IN  /\ mapTxLockReq[tx] = "none" /\ tx \notin mapTxLockReqRejected
        /\ mapTxLockReqRejected' = mapTxLockReqRejected \cup {tx}
        /\ refused' = refused \cup {tx}
        /\ mapLockedInputs' = locked
        /\ \/ /\ ~IsComplete(locks[tx])
              /\ mapTxLocks' = locks
              /\ UNCHANGED <<mapTxLockReq, chainVars>>
           \/ /\ IsComplete(locks[tx]) /\ LockedByOther(tx, locked) /= {}
              /\ mapTxLocks' = Expire(locks, {tx, FirstOther(tx, locked)})
              /\ UNCHANGED <<mapTxLockReq, chainVars>>
           \/ /\ IsComplete(locks[tx]) /\ LockedByOther(tx, locked) = {}
              /\ mapTxLocks' = locks
              /\ ReprocessBlocks(locked)
              /\ mapTxLockReq' = [mapTxLockReq EXCEPT ![tx] = "tx"]
        /\ UNCHANGED mapTxLockVote

\* RelayWalletTransaction("ix") after the wallet committed its transaction.
WalletRequest(tx, aged) ==
    /\ Acceptable(tx)
    /\ mempool' = mempool \cup {tx}
    /\ mapTxLockReq' = [mapTxLockReq EXCEPT ![tx] = IF @ = "none" THEN "tx" ELSE @]
    /\ mapTxLocks' = CreateNewLock(tx, aged)
    /\ UNCHANGED <<mapTxLockReqRejected, mapTxLockVote, mapLockedInputs,
                   blocks, confirmed, refused>>

-----------------------------------------------------------------------------
\* Mutant: no test of mapTxLockVote.count.
VoteIsNewUnchecked(v) == TRUE

\* A vote is identified by its masternode and transaction only.
VoteIsNew(v) == <<v.mn, v.tx>> \notin mapTxLockVote

\* "txlvote" that ProcessConsensusVote refuses: unranked, unknown or badly
\* signed.  It was recorded as seen before it was looked at.
VoteRefused(v) ==
    /\ VoteIsNew(v)
    /\ <<v.mn, v.h>> \notin Ranked \/ ~v.signed
    /\ mapTxLockVote' = mapTxLockVote \cup {<<v.mn, v.tx>>}
    /\ UNCHANGED <<mapTxLockReq, mapTxLockReqRejected, mapTxLocks, mapLockedInputs,
                   chainVars, refused>>

\* "txlvote" that is counted.  When it completes the lock the request is
\* looked up with operator[], which inserts an empty transaction if the
\* request was refused or is unknown: no inputs, so no conflict and no lock.
VoteCounted(v) ==
    LET tx    == v.tx
        old   == IF mapTxLocks[tx] = NoLock THEN NewLock(0) ELSE mapTxLocks[tx]
        lock  == [old EXCEPT !.votes = Append(@, [mn |-> v.mn, h |-> v.h])]
        locks == [mapTxLocks EXCEPT ![tx] = lock]
        known == mapTxLockReq[tx] = "tx"
    IN  /\ VoteIsNew(v)
        /\ <<v.mn, v.h>> \in Ranked /\ v.signed
        /\ mapTxLockVote' = mapTxLockVote \cup {<<v.mn, tx>>}
        /\ \/ /\ ~IsComplete(lock)
              /\ mapTxLocks' = locks
              /\ UNCHANGED <<mapTxLockReq, mapLockedInputs, chainVars>>
           \/ /\ IsComplete(lock)
              /\ known /\ LockedByOther(tx, mapLockedInputs) /= {}
              /\ mapTxLocks' = Expire(locks, {tx, FirstOther(tx, mapLockedInputs)})
              /\ UNCHANGED <<mapTxLockReq, mapLockedInputs, chainVars>>
           \/ /\ IsComplete(lock)
              /\ known => LockedByOther(tx, mapLockedInputs) = {}
              /\ mapTxLocks' = locks
              /\ mapTxLockReq' = [mapTxLockReq EXCEPT ![tx] = IF known THEN "tx" ELSE "empty"]
              /\ mapLockedInputs' = IF known THEN LockInputs(tx, mapLockedInputs)
                                             ELSE mapLockedInputs
              /\ IF tx \in mapTxLockReqRejected
                 THEN ReprocessBlocks(mapLockedInputs')
                 ELSE UNCHANGED chainVars
        /\ UNCHANGED <<mapTxLockReqRejected, refused>>

-----------------------------------------------------------------------------
\* Mutant: only locks with a known request are erased.
ExpiredKnown ==
    {tx \in Txs : mapTxLocks[tx] /= NoLock /\ mapTxLocks[tx].left < 0
                  /\ mapTxLockReq[tx] /= "none"}

\* The locks whose hour is over.
Expired == {tx \in Txs : mapTxLocks[tx] /= NoLock /\ mapTxLocks[tx].left < 0}

\* Mutant: the inputs stay locked.
StillLocked(K) == mapLockedInputs

\* The locked inputs after the requests K are removed: every input of K is
\* erased, whichever transaction it was locked for.
Unlocked(K) ==
    [o \in Outpoints |->
        IF \E tx \in K : mapTxLockReq[tx] = "tx" /\ o \in Inputs(tx)
        THEN NoTx ELSE mapLockedInputs[o]]

\* CleanTransactionLocksList, run every minute by ThreadCheckObfuScationPool.
CleanTransactionLocksList ==
    LET K == {tx \in Expired : mapTxLockReq[tx] /= "none"}
    IN  /\ Expired /= {}
        /\ mapLockedInputs' = Unlocked(K)
        /\ mapTxLockReq' = [tx \in Txs |-> IF tx \in K THEN "none" ELSE mapTxLockReq[tx]]
        /\ mapTxLockReqRejected' = mapTxLockReqRejected \ K
        /\ mapTxLockVote' = mapTxLockVote \
               UNION {{<<mapTxLocks[tx].votes[i].mn, tx>> :
                          i \in DOMAIN mapTxLocks[tx].votes} : tx \in K}
        /\ mapTxLocks' = [tx \in Txs |-> IF tx \in Expired THEN NoLock ELSE mapTxLocks[tx]]
        /\ UNCHANGED <<chainVars, refused>>

\* Time passes.
Tick ==
    /\ \E tx \in Txs : mapTxLocks[tx] /= NoLock /\ mapTxLocks[tx].left >= 0
    /\ mapTxLocks' = [tx \in Txs |->
            IF mapTxLocks[tx] /= NoLock /\ mapTxLocks[tx].left >= 0
            THEN [mapTxLocks[tx] EXCEPT !.left = @ - 1] ELSE mapTxLocks[tx]]
    /\ UNCHANGED <<mapTxLockReq, mapTxLockReqRejected, mapTxLockVote, mapLockedInputs,
                   chainVars, refused>>

\* An ordinary "tx" message.
ReceiveTx(tx) ==
    /\ Acceptable(tx)
    /\ mempool' = mempool \cup {tx}
    /\ UNCHANGED <<lockVars, blocks, confirmed, refused>>

\* A block with tx extends the chain; CheckBlock drops it, unstored, when an
\* input of tx is locked for another transaction.
ReceiveBlock(tx) ==
    /\ tx \notin blocks
    /\ BlockFiltering => LockedByOther(tx, mapLockedInputs) = {}
    /\ \A c \in confirmed : ~Conflicts(tx, c)
    /\ blocks' = blocks \cup {tx}
    /\ confirmed' = confirmed \cup {tx}
    /\ mempool' = {m \in mempool : m /= tx /\ ~Conflicts(m, tx)}
    /\ UNCHANGED <<lockVars, refused>>

VoteMessages == [mn : Masternodes, tx : Txs, h : Heights, signed : BOOLEAN]

Next ==
    \/ \E tx \in Txs, aged \in BOOLEAN :
          \/ RequestAccepted(tx, aged)
          \/ RequestRejected(tx, aged)
          \/ WalletRequest(tx, aged)
    \/ \E v \in VoteMessages : VoteRefused(v) \/ VoteCounted(v)
    \/ \E tx \in Txs : ReceiveTx(tx) \/ ReceiveBlock(tx)
    \/ CleanTransactionLocksList
    \/ Tick

Spec == Init /\ [][Next]_vars

\* Time passes and the cleaning thread keeps running; messages need not come.
FairSpec == Spec /\ WF_vars(Tick) /\ WF_vars(CleanTransactionLocksList)

-----------------------------------------------------------------------------
TypeOK ==
    /\ mapTxLockReq \in [Txs -> {"none", "tx", "empty"}]
    /\ mapTxLockReqRejected \subseteq refused
    /\ mapTxLockVote \subseteq Masternodes \X Txs
    /\ mapTxLocks \in [Txs -> Locks \cup {NoLock}]
    /\ mapLockedInputs \in [Outpoints -> Txs \cup {NoTx}]
    /\ mempool \subseteq Txs /\ confirmed \subseteq blocks /\ blocks \subseteq Txs
    /\ refused \subseteq Txs

HasLock(tx) == mapTxLocks[tx] /= NoLock

\* Consensus means different masternodes: however requests, votes, expiry
\* and cleaning interleave, the votes a lock counts come from distinct ranked
\* masternodes, so a complete lock has that many of them behind it.
VotesDistinct ==
    \A tx \in Txs : HasLock(tx) =>
        LET votes == mapTxLocks[tx].votes
        IN  /\ \A i, j \in DOMAIN votes : votes[i].mn = votes[j].mn => i = j
            /\ \A i \in DOMAIN votes : <<votes[i].mn, votes[i].h>> \in Ranked

\* A lock counts only votes made for the height of its transaction.
CompleteMeansAgreed ==
    \A tx \in Txs : IsComplete(mapTxLocks[tx]) =>
        Cardinality({mn \in Masternodes :
            \E i \in DOMAIN mapTxLocks[tx].votes :
                mapTxLocks[tx].votes[i] = [mn |-> mn, h |-> LockHeight[tx]]})
          >= SIGNATURES_REQUIRED

\* In any order of requests, votes, expiry and cleaning.
ConsensusSound == TypeOK /\ VotesDistinct /\ CompleteMeansAgreed

\* Inputs locked for a request that was never refused belong to a complete
\* lock that still exists and whose request is known, so that cleaning will
\* release them.
AcceptedLocksHeld ==
    \A o \in Outpoints :
        LET tx == mapLockedInputs[o]
        IN  tx \in Txs \ refused =>
                mapTxLockReq[tx] = "tx" /\ o \in Inputs(tx) /\ IsComplete(mapTxLocks[tx])

\* The active chain and the memory pool never hold a double spend.
NoDoubleSpend ==
    \A a, b \in mempool \cup confirmed : ~Conflicts(a, b)

\* Every lock is removed in the end, also one whose request never came.
LocksExpire == \A tx \in Txs : HasLock(tx) ~> ~HasLock(tx)
=============================================================================
