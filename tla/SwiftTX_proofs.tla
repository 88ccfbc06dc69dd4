---------------------------- MODULE SwiftTX_proofs ----------------------------
(***************************************************************************)
(* Proofs for SwiftTX, for any transactions, masternodes, ranks and number *)
(* of signatures.                                                          *)
(*                                                                         *)
(* That votes behind a lock are distinct rests on two facts about maps the *)
(* code keeps apart: every vote in a lock is marked as seen, and seen      *)
(* marks only go together with the lock.                                   *)
(***************************************************************************)
EXTENDS SwiftTX, TLAPS, FiniteSetTheorems, SequenceTheorems

\* The height of a lock is its transaction's, or 0 if votes made the lock.
HeightsRight ==
    \A tx \in Txs : HasLock(tx) => mapTxLocks[tx].nBlockHeight \in {0, LockHeight[tx]}

\* What a lock counted is in mapTxLockVote, so that it is not counted again.
VotesSeen ==
    \A tx \in Txs : HasLock(tx) =>
        \A i \in DOMAIN mapTxLocks[tx].votes : <<mapTxLocks[tx].votes[i].mn, tx>> \in mapTxLockVote

Inv ==
    /\ TypeOK
    /\ HeightsRight
    /\ VotesSeen
    /\ VotesDistinct
    /\ AcceptedLocksHeld
    /\ NoDoubleSpend

-----------------------------------------------------------------------------
(* Locks.                                                                  *)

\* Locks that can be told apart from no lock.
LEMMA LockIsThere == \A lock \in Locks : lock /= NoLock
BY NoLockAssumption

\* A new lock is one.
LEMMA NewLockTyped == \A h \in Heights : NewLock(h) \in Locks /\ NewLock(h).votes = <<>>
BY SwiftTXAssumption DEF NewLock, Locks

\* Appending a vote.
LEMMA VoteAppended ==
    ASSUME NEW votes \in Seq(Votes), NEW vote \in Votes
    PROVE  /\ Append(votes, vote) \in Seq(Votes)
           /\ DOMAIN Append(votes, vote) = DOMAIN votes \cup {Len(votes) + 1}
           /\ Len(votes) + 1 \notin DOMAIN votes
           /\ Append(votes, vote)[Len(votes) + 1] = vote
           /\ \A i \in DOMAIN votes : Append(votes, vote)[i] = votes[i]
BY AppendProperties, LenProperties

\* The positions of the votes for one height are finitely many.
LEMMA PositionsFinite ==
    ASSUME NEW votes \in Seq(Votes), NEW h
    PROVE  IsFiniteSet({i \in DOMAIN votes : votes[i].h = h})
<1>1. DOMAIN votes = 1 .. Len(votes) /\ Len(votes) \in Nat
  BY LenProperties
<1>2. IsFiniteSet(1 .. Len(votes))
  BY <1>1, FS_Interval
<1> QED
  BY <1>1, <1>2, FS_Subset

\* A lock counts a signature for each of its votes for its height.
LEMMA SignaturesOfLock ==
    ASSUME NEW lock \in Locks
    PROVE  /\ IsComplete(lock) <=>
                 /\ lock.nBlockHeight /= 0
                 /\ Cardinality({i \in DOMAIN lock.votes : lock.votes[i].h = lock.nBlockHeight})
                        >= SIGNATURES_REQUIRED
           /\ ~IsComplete(NoLock)
<1>1. lock /= NoLock
  BY LockIsThere
<1>2. SIGNATURES_REQUIRED >= 1
  BY SwiftTXAssumption
<1> QED
  BY <1>1, <1>2, SwiftTXAssumption DEF IsComplete, CountSignatures

\* A complete lock stays complete when only nExpiration changes, when its
\* height is set to what it was, and when it gets a vote.
LEMMA StaysComplete ==
    ASSUME NEW lock \in Locks, NEW next \in Locks, IsComplete(lock),
           next.nBlockHeight = lock.nBlockHeight,
           \/ next.votes = lock.votes
           \/ \E vote \in Votes : next.votes = Append(lock.votes, vote)
    PROVE  IsComplete(next)
<1> DEFINE At(l) == {i \in DOMAIN l.votes : l.votes[i].h = l.nBlockHeight}
<1>1. lock.votes \in Seq(Votes) /\ next.votes \in Seq(Votes)
  BY DEF Locks
<1>2. At(lock) \subseteq At(next)
  <2>1. CASE next.votes = lock.votes
    BY <2>1
  <2>2. ASSUME NEW vote \in Votes, next.votes = Append(lock.votes, vote)
        PROVE  At(lock) \subseteq At(next)
    BY <1>1, <2>2, VoteAppended
  <2> QED
    BY <2>1, <2>2
<1>3. IsFiniteSet(At(next)) /\ IsFiniteSet(At(lock))
  BY <1>1, PositionsFinite
<1>4. /\ Cardinality(At(lock)) <= Cardinality(At(next))
      /\ Cardinality(At(lock)) \in Nat /\ Cardinality(At(next)) \in Nat
  BY <1>2, <1>3, FS_Subset, FS_CardinalityType
<1>5. /\ lock.nBlockHeight /= 0
      /\ Cardinality(At(lock)) >= SIGNATURES_REQUIRED
  BY SignaturesOfLock
<1>6. Cardinality(At(next)) >= SIGNATURES_REQUIRED
  BY <1>4, <1>5, SwiftTXAssumption
<1> QED
  BY <1>5, <1>6, SignaturesOfLock

-----------------------------------------------------------------------------
(* Operations on locks and inputs.                                         *)

\* CreateNewLock keeps all other locks, and of its own lock the votes; the
\* height becomes the transaction's or stays what it was.
LEMMA CreateNewLockKeeps ==
    ASSUME TypeOK, HeightsRight, NEW tx \in Txs, NEW aged \in BOOLEAN
    PROVE  LET locks == CreateNewLock(tx, aged)
           IN  /\ locks \in [Txs -> Locks \cup {NoLock}]
               /\ \A u \in Txs : u /= tx => locks[u] = mapTxLocks[u]
               /\ HasLock(tx) => /\ locks[tx] /= NoLock
                                 /\ locks[tx].votes = mapTxLocks[tx].votes
               /\ ~HasLock(tx) /\ locks[tx] /= NoLock => locks[tx].votes = <<>>
               /\ locks[tx] /= NoLock => locks[tx].nBlockHeight \in {0, LockHeight[tx]}
               /\ IsComplete(mapTxLocks[tx]) => IsComplete(locks[tx])
<1> DEFINE locks == CreateNewLock(tx, aged)
<1>0. mapTxLocks \in [Txs -> Locks \cup {NoLock}] /\ LockHeight[tx] \in Heights \ {0}
  BY SwiftTXAssumption DEF TypeOK
<1>1. CASE ~aged
  BY <1>0, <1>1 DEF CreateNewLock, HeightsRight, HasLock
<1>2. CASE aged /\ ~HasLock(tx)
  <2>1. locks = [mapTxLocks EXCEPT ![tx] = NewLock(LockHeight[tx])]
    BY <1>2 DEF CreateNewLock, HasLock
  <2>2. NewLock(LockHeight[tx]) \in Locks /\ NewLock(LockHeight[tx]).votes = <<>>
        /\ NewLock(LockHeight[tx]).nBlockHeight = LockHeight[tx]
    BY <1>0, NewLockTyped DEF NewLock
  <2>3. ~IsComplete(mapTxLocks[tx])
    BY <1>2, SignaturesOfLock, <2>2 DEF HasLock
  <2> QED
    BY <1>0, <1>2, <2>1, <2>2, <2>3, LockIsThere
<1>3. CASE aged /\ HasLock(tx)
  <2>1. locks = [mapTxLocks EXCEPT ![tx].nBlockHeight = LockHeight[tx]]
    BY <1>3 DEF CreateNewLock, HasLock
  <2>2. mapTxLocks[tx] \in Locks
    BY <1>0, <1>3 DEF HasLock
  <2>3. /\ locks[tx] \in Locks /\ locks[tx].votes = mapTxLocks[tx].votes
        /\ locks[tx].nBlockHeight = LockHeight[tx]
    BY <1>0, <2>1, <2>2 DEF Locks
  <2>4. IsComplete(mapTxLocks[tx]) => mapTxLocks[tx].nBlockHeight = LockHeight[tx]
    BY <1>3, <2>2, SignaturesOfLock DEF HeightsRight
  <2>5. IsComplete(mapTxLocks[tx]) => IsComplete(locks[tx])
    BY <2>2, <2>3, <2>4, StaysComplete
  <2> QED
    BY <1>0, <1>3, <2>1, <2>2, <2>3, <2>5, LockIsThere
<1> QED
  BY <1>1, <1>2, <1>3

\* Expiring locks touches nothing but nExpiration.
LEMMA ExpireKeeps ==
    ASSUME NEW locks \in [Txs -> Locks \cup {NoLock}], NEW S
    PROVE  LET new == Expire(locks, S)
           IN  /\ new \in [Txs -> Locks \cup {NoLock}]
               /\ \A tx \in Txs :
                     /\ new[tx] = NoLock <=> locks[tx] = NoLock
                     /\ locks[tx] /= NoLock => /\ new[tx].votes = locks[tx].votes
                                               /\ new[tx].nBlockHeight = locks[tx].nBlockHeight
                     /\ IsComplete(locks[tx]) => IsComplete(new[tx])
<1> DEFINE new == Expire(locks, S)
<1>1. ASSUME NEW tx \in Txs
      PROVE  /\ new[tx] \in Locks \cup {NoLock}
             /\ new[tx] = NoLock <=> locks[tx] = NoLock
             /\ locks[tx] /= NoLock => /\ new[tx].votes = locks[tx].votes
                                       /\ new[tx].nBlockHeight = locks[tx].nBlockHeight
  <2>1. CASE tx \in S /\ locks[tx] /= NoLock
    <3>1. locks[tx] \in Locks /\ new[tx] = [locks[tx] EXCEPT !.left = 0]
      BY <2>1 DEF Expire
    <3>2. 0 \in -1 .. LockLife
      BY SwiftTXAssumption
    <3>3. /\ new[tx] \in Locks /\ new[tx].votes = locks[tx].votes
          /\ new[tx].nBlockHeight = locks[tx].nBlockHeight
      BY <3>1, <3>2 DEF Locks
    <3> QED
      BY <2>1, <3>3, LockIsThere
  <2>2. CASE ~(tx \in S /\ locks[tx] /= NoLock)
    BY <2>2 DEF Expire
  <2> QED
    BY <2>1, <2>2
<1>2. ASSUME NEW tx \in Txs, IsComplete(locks[tx]) PROVE IsComplete(new[tx])
  <2>1. locks[tx] \in Locks
    BY <1>2, SignaturesOfLock, NewLockTyped, SwiftTXAssumption
  <2>2. new[tx] \in Locks
    BY <1>1, <2>1, LockIsThere
  <2> QED
    BY <1>1, <1>2, <2>1, <2>2, StaysComplete, LockIsThere
<1> QED
  BY <1>1, <1>2 DEF Expire

\* Inputs are only given to a transaction that has none before, and cleaning
\* only takes them away.
LEMMA InputsKept ==
    ASSUME NEW locked \in [Outpoints -> Txs \cup {NoTx}], NEW tx \in Txs
    PROVE  /\ LockInputs(tx, locked) \in [Outpoints -> Txs \cup {NoTx}]
           /\ \A o \in Outpoints :
                 \/ LockInputs(tx, locked)[o] = locked[o]
                 \/ locked[o] = NoTx /\ LockInputs(tx, locked)[o] = tx /\ o \in Inputs(tx)
BY DEF LockInputs

\* What ReprocessBlocks leaves is a selection of what there was, without
\* conflicts.
LEMMA ReprocessBlocksSelects ==
    ASSUME TypeOK, NoDoubleSpend, NEW locked, ReprocessBlocks(locked)
    PROVE  /\ mempool' \subseteq Txs /\ confirmed' \subseteq blocks' /\ blocks' = blocks
           /\ NoDoubleSpend'
<1>1. PICK chain \in SUBSET blocks :
          /\ \A a, b \in chain : ~Conflicts(a, b)
          /\ confirmed' = chain
          /\ mempool' = {tx \in mempool \cup {c \in confirmed : LockedByOther(c, locked) = {}} :
                            tx \notin chain /\ \A c \in chain : ~Conflicts(tx, c)}
          /\ UNCHANGED blocks
  BY DEF ReprocessBlocks
<1>2. mempool' \subseteq mempool \cup confirmed
  BY <1>1
<1>3. \A a, b : Conflicts(a, b) <=> Conflicts(b, a)
  BY DEF Conflicts
<1>4. ASSUME NEW a \in mempool' \cup confirmed', NEW b \in mempool' \cup confirmed'
      PROVE  ~Conflicts(a, b)
  BY <1>1, <1>2, <1>3 DEF NoDoubleSpend
<1> QED
  BY <1>1, <1>2, <1>4 DEF NoDoubleSpend, TypeOK

-----------------------------------------------------------------------------
(* Types.                                                                  *)

\* The lock that a vote is added to, and the lock with the vote.
LEMMA VotedLock ==
    ASSUME TypeOK, HeightsRight, NEW v \in VoteMessages
    PROVE  LET old  == IF mapTxLocks[v.tx] = NoLock THEN NewLock(0) ELSE mapTxLocks[v.tx]
               lock == [old EXCEPT !.votes = Append(@, [mn |-> v.mn, h |-> v.h])]
           IN  /\ old \in Locks /\ lock \in Locks
               /\ [mn |-> v.mn, h |-> v.h] \in Votes
               /\ lock.votes = Append(old.votes, [mn |-> v.mn, h |-> v.h])
               /\ lock.nBlockHeight = old.nBlockHeight
               /\ lock.nBlockHeight \in {0, LockHeight[v.tx]}
               /\ ~HasLock(v.tx) => old.votes = <<>>
<1> DEFINE old  == IF mapTxLocks[v.tx] = NoLock THEN NewLock(0) ELSE mapTxLocks[v.tx]
           vote == [mn |-> v.mn, h |-> v.h]
           lock == [old EXCEPT !.votes = Append(@, vote)]
<1>1. v.tx \in Txs /\ vote \in Votes
  BY DEF VoteMessages, Votes
<1>2. old \in Locks /\ (~HasLock(v.tx) => old.votes = <<>>)
  BY <1>1, NewLockTyped, SwiftTXAssumption DEF TypeOK, HasLock
<1>3. old.nBlockHeight \in {0, LockHeight[v.tx]}
  BY <1>1 DEF NewLock, HeightsRight, HasLock
<1>4. old.votes \in Seq(Votes)
  BY <1>2 DEF Locks
<1>5. Append(old.votes, vote) \in Seq(Votes)
  BY <1>1, <1>4, VoteAppended
<1>6. /\ lock \in Locks /\ lock.votes = Append(old.votes, vote)
      /\ lock.nBlockHeight = old.nBlockHeight
  BY <1>2, <1>5 DEF Locks
<1> QED
  BY <1>1, <1>2, <1>3, <1>6

\* Requests keep the types.
LEMMA RequestsTyped ==
    ASSUME TypeOK, HeightsRight, NoDoubleSpend, NEW tx \in Txs, NEW aged \in BOOLEAN,
           RequestAccepted(tx, aged) \/ RequestRejected(tx, aged) \/ WalletRequest(tx, aged)
    PROVE  TypeOK'
<1>1. CreateNewLock(tx, aged) \in [Txs -> Locks \cup {NoLock}]
  BY CreateNewLockKeeps
<1>2. CASE RequestAccepted(tx, aged)
  <2>1. OwnVote(tx, IF aged THEN LockHeight[tx] ELSE 0) \subseteq Masternodes \X Txs
    BY SwiftTXAssumption DEF OwnVote
  <2> QED
    BY <1>1, <1>2, <2>1 DEF RequestAccepted, TypeOK
<1>3. CASE WalletRequest(tx, aged)
  BY <1>1, <1>3 DEF WalletRequest, TypeOK
<1>4. CASE RequestRejected(tx, aged)
  <2> DEFINE locks  == CreateNewLock(tx, aged)
             locked == LockInputs(tx, mapLockedInputs)
  <2>1. locked \in [Outpoints -> Txs \cup {NoTx}]
    BY InputsKept DEF TypeOK
  <2>2. mapTxLocks' \in [Txs -> Locks \cup {NoLock}]
    <3>1. Expire(locks, {tx, FirstOther(tx, locked)}) \in [Txs -> Locks \cup {NoLock}]
      BY <1>1, ExpireKeeps
    <3> QED
      BY <1>1, <1>4, <3>1 DEF RequestRejected
  <2>3. mempool' \subseteq Txs /\ confirmed' \subseteq blocks' /\ blocks' \subseteq Txs
    <3>1. UNCHANGED chainVars \/ ReprocessBlocks(locked)
      BY <1>4 DEF RequestRejected
    <3> QED
      BY <3>1, ReprocessBlocksSelects DEF TypeOK, chainVars
  <2>4. mapTxLockReq' \in [Txs -> {"none", "tx", "empty"}]
    BY <1>4 DEF RequestRejected, TypeOK
  <2>5. /\ mapTxLockReqRejected' \subseteq refused' /\ refused' \subseteq Txs
        /\ mapTxLockVote' \subseteq Masternodes \X Txs
        /\ mapLockedInputs' = locked
    BY <1>4 DEF RequestRejected, TypeOK
  <2> QED
    BY <2>1, <2>2, <2>3, <2>4, <2>5 DEF TypeOK
<1> QED
  BY <1>2, <1>3, <1>4

\* Votes keep the types.
LEMMA VotesTyped ==
    ASSUME TypeOK, HeightsRight, NoDoubleSpend, NEW v \in VoteMessages,
           VoteRefused(v) \/ VoteCounted(v)
    PROVE  TypeOK'
<1>0. v.mn \in Masternodes /\ v.tx \in Txs /\ v.h \in Heights
  BY DEF VoteMessages
<1>1. CASE VoteRefused(v)
  BY <1>0, <1>1 DEF VoteRefused, TypeOK, chainVars
<1>2. CASE VoteCounted(v)
  <2> DEFINE old   == IF mapTxLocks[v.tx] = NoLock THEN NewLock(0) ELSE mapTxLocks[v.tx]
             lock  == [old EXCEPT !.votes = Append(@, [mn |-> v.mn, h |-> v.h])]
             locks == [mapTxLocks EXCEPT ![v.tx] = lock]
             known == mapTxLockReq[v.tx] = "tx"
  <2>1. lock \in Locks
    BY VotedLock
  <2>2. locks \in [Txs -> Locks \cup {NoLock}]
    BY <1>0, <2>1 DEF TypeOK
  <2>3. Expire(locks, {v.tx, FirstOther(v.tx, mapLockedInputs)}) \in [Txs -> Locks \cup {NoLock}]
    BY <2>2, ExpireKeeps
  <2>4. mapTxLocks' \in [Txs -> Locks \cup {NoLock}]
    BY <1>2, <2>2, <2>3 DEF VoteCounted
  <2>5. mapLockedInputs' \in [Outpoints -> Txs \cup {NoTx}]
    <3>1. LockInputs(v.tx, mapLockedInputs) \in [Outpoints -> Txs \cup {NoTx}]
      BY <1>0, InputsKept DEF TypeOK
    <3> QED
      BY <1>2, <3>1 DEF VoteCounted, TypeOK
  <2>6. mempool' \subseteq Txs /\ confirmed' \subseteq blocks' /\ blocks' \subseteq Txs
    <3>1. UNCHANGED chainVars \/ ReprocessBlocks(mapLockedInputs')
      BY <1>2 DEF VoteCounted
    <3>2. CASE ReprocessBlocks(mapLockedInputs')
      BY <3>2, ReprocessBlocksSelects DEF TypeOK
    <3> QED
      BY <3>1, <3>2 DEF TypeOK, chainVars
  <2>7. mapTxLockReq' \in [Txs -> {"none", "tx", "empty"}]
    BY <1>2 DEF VoteCounted, TypeOK
  <2>8. /\ mapTxLockReqRejected' \subseteq refused' /\ refused' \subseteq Txs
        /\ mapTxLockVote' \subseteq Masternodes \X Txs
    BY <1>0, <1>2 DEF VoteCounted, TypeOK
  <2> QED
    BY <2>4, <2>5, <2>6, <2>7, <2>8 DEF TypeOK
<1> QED
  BY <1>1, <1>2

\* Cleaning keeps the types.
LEMMA CleaningTyped == ASSUME TypeOK, CleanTransactionLocksList PROVE TypeOK'
<1> DEFINE K == {tx \in Expired : mapTxLockReq[tx] /= "none"}
<1>1. Unlocked(K) \in [Outpoints -> Txs \cup {NoTx}]
  BY DEF Unlocked, TypeOK
<1>2. mapTxLocks' \in [Txs -> Locks \cup {NoLock}]
  BY DEF CleanTransactionLocksList, TypeOK
<1>3. mapTxLockReq' \in [Txs -> {"none", "tx", "empty"}]
  BY DEF CleanTransactionLocksList, TypeOK
<1>4. mapTxLockVote' \subseteq mapTxLockVote
  BY DEF CleanTransactionLocksList
<1>5. mapLockedInputs' = Unlocked(K)
  BY DEF CleanTransactionLocksList
<1> QED
  BY <1>1, <1>2, <1>3, <1>4, <1>5 DEF CleanTransactionLocksList, TypeOK, chainVars

\* So does time.
LEMMA TickTyped ==
    ASSUME TypeOK, Tick
    PROVE  /\ TypeOK'
           /\ \A tx \in Txs : HasLock(tx)' <=> HasLock(tx)
           /\ \A tx \in Txs : HasLock(tx) =>
                 /\ mapTxLocks'[tx].votes = mapTxLocks[tx].votes
                 /\ mapTxLocks'[tx].nBlockHeight = mapTxLocks[tx].nBlockHeight
<1>1. ASSUME NEW tx \in Txs, HasLock(tx)
      PROVE  /\ mapTxLocks'[tx] \in Locks
             /\ mapTxLocks'[tx].votes = mapTxLocks[tx].votes
             /\ mapTxLocks'[tx].nBlockHeight = mapTxLocks[tx].nBlockHeight
  <2>1. mapTxLocks[tx] \in Locks
    BY <1>1 DEF TypeOK, HasLock
  <2>2. CASE mapTxLocks[tx].left >= 0
    <3>1. mapTxLocks'[tx] = [mapTxLocks[tx] EXCEPT !.left = @ - 1]
      BY <1>1, <2>2 DEF Tick, HasLock
    <3>2. mapTxLocks[tx].left - 1 \in -1 .. LockLife
      BY <2>1, <2>2, SwiftTXAssumption DEF Locks
    <3> QED
      BY <2>1, <3>1, <3>2 DEF Locks
  <2>3. CASE ~(mapTxLocks[tx].left >= 0)
    BY <2>1, <2>3 DEF Tick
  <2> QED
    BY <2>2, <2>3
<1>2. \A tx \in Txs : ~HasLock(tx) => mapTxLocks'[tx] = NoLock
  BY DEF Tick, HasLock
<1>3. mapTxLocks' \in [Txs -> Locks \cup {NoLock}]
  BY <1>1, <1>2 DEF Tick
<1> QED
  BY <1>1, <1>2, <1>3, LockIsThere DEF Tick, TypeOK, chainVars, HasLock

-----------------------------------------------------------------------------
(* Votes.                                                                  *)

VotesGood == HeightsRight /\ VotesSeen /\ VotesDistinct

\* A step that counts no vote and forgets none.
LEMMA VotesUntouched ==
    ASSUME VotesGood, mapTxLockVote \subseteq mapTxLockVote',
           \A tx \in Txs : HasLock(tx)' =>
               /\ mapTxLocks'[tx].nBlockHeight \in {0, LockHeight[tx]}
               /\ mapTxLocks'[tx].votes = IF HasLock(tx) THEN mapTxLocks[tx].votes ELSE <<>>
    PROVE  VotesGood'
<1>1. HeightsRight'
  BY DEF HeightsRight
<1>2. ASSUME NEW tx \in Txs, HasLock(tx)'
      PROVE  /\ \A i \in DOMAIN mapTxLocks'[tx].votes :
                   /\ <<mapTxLocks'[tx].votes[i].mn, tx>> \in mapTxLockVote'
                   /\ <<mapTxLocks'[tx].votes[i].mn, mapTxLocks'[tx].votes[i].h>> \in Ranked
             /\ \A i, j \in DOMAIN mapTxLocks'[tx].votes :
                   mapTxLocks'[tx].votes[i].mn = mapTxLocks'[tx].votes[j].mn => i = j
  <2>1. CASE HasLock(tx)
    BY <1>2, <2>1 DEF VotesGood, VotesSeen, VotesDistinct
  <2>2. CASE ~HasLock(tx)
    <3>1. mapTxLocks'[tx].votes = <<>>
      BY <1>2, <2>2
    <3>2. DOMAIN mapTxLocks'[tx].votes = {}
      BY <3>1
    <3> QED
      BY <3>2
  <2> QED
    BY <2>1, <2>2
<1>3. VotesSeen'
  BY <1>2 DEF VotesSeen
<1>4. VotesDistinct'
  BY <1>2 DEF VotesDistinct
<1> QED
  BY <1>1, <1>3, <1>4 DEF VotesGood

\* Requests count no votes.
LEMMA RequestsVotes ==
    ASSUME TypeOK, VotesGood, NEW tx \in Txs, NEW aged \in BOOLEAN,
           RequestAccepted(tx, aged) \/ RequestRejected(tx, aged) \/ WalletRequest(tx, aged)
    PROVE  VotesGood'
<1> DEFINE locks  == CreateNewLock(tx, aged)
           locked == LockInputs(tx, mapLockedInputs)
<1>1. /\ locks \in [Txs -> Locks \cup {NoLock}]
      /\ \A u \in Txs : u /= tx => locks[u] = mapTxLocks[u]
      /\ HasLock(tx) => locks[tx] /= NoLock /\ locks[tx].votes = mapTxLocks[tx].votes
      /\ ~HasLock(tx) /\ locks[tx] /= NoLock => locks[tx].votes = <<>>
      /\ locks[tx] /= NoLock => locks[tx].nBlockHeight \in {0, LockHeight[tx]}
  BY CreateNewLockKeeps DEF VotesGood
<1>2. \A u \in Txs : locks[u] /= NoLock =>
          /\ locks[u].nBlockHeight \in {0, LockHeight[u]}
          /\ locks[u].votes = IF HasLock(u) THEN mapTxLocks[u].votes ELSE <<>>
  BY <1>1 DEF VotesGood, HeightsRight, HasLock
<1>3. \A u \in Txs : mapTxLocks'[u] /= NoLock =>
          /\ mapTxLocks'[u].nBlockHeight \in {0, LockHeight[u]}
          /\ mapTxLocks'[u].votes = IF HasLock(u) THEN mapTxLocks[u].votes ELSE <<>>
  <2>1. mapTxLocks' = locks \/ mapTxLocks' = Expire(locks, {tx, FirstOther(tx, locked)})
    BY DEF RequestAccepted, RequestRejected, WalletRequest
  <2>2. CASE mapTxLocks' = Expire(locks, {tx, FirstOther(tx, locked)})
    <3>1. \A u \in Txs :
              /\ mapTxLocks'[u] = NoLock <=> locks[u] = NoLock
              /\ locks[u] /= NoLock => /\ mapTxLocks'[u].votes = locks[u].votes
                                       /\ mapTxLocks'[u].nBlockHeight = locks[u].nBlockHeight
      BY <1>1, <2>2, ExpireKeeps
    <3> QED
      BY <1>2, <3>1
  <2> QED
    BY <1>2, <2>1, <2>2
<1>4. mapTxLockVote \subseteq mapTxLockVote'
  BY DEF RequestAccepted, RequestRejected, WalletRequest
<1> QED
  BY <1>3, <1>4, VotesUntouched DEF HasLock

\* A vote that is counted comes from a masternode whose vote was not seen.
LEMMA VoteCountedVotes ==
    ASSUME TypeOK, VotesGood, NEW v \in VoteMessages, VoteCounted(v)
    PROVE  VotesGood'
<1> DEFINE vote  == [mn |-> v.mn, h |-> v.h]
           old   == IF mapTxLocks[v.tx] = NoLock THEN NewLock(0) ELSE mapTxLocks[v.tx]
           lock  == [old EXCEPT !.votes = Append(@, vote)]
           locks == [mapTxLocks EXCEPT ![v.tx] = lock]
<1>1. /\ old \in Locks /\ lock \in Locks /\ vote \in Votes
      /\ lock.votes = Append(old.votes, vote)
      /\ lock.nBlockHeight \in {0, LockHeight[v.tx]}
      /\ ~HasLock(v.tx) => old.votes = <<>>
  BY VotedLock DEF VotesGood
<1>2. v.tx \in Txs /\ locks \in [Txs -> Locks \cup {NoLock}]
  BY <1>1 DEF TypeOK, VoteMessages
<1>3. /\ <<v.mn, v.tx>> \notin mapTxLockVote /\ <<v.mn, v.h>> \in Ranked
      /\ mapTxLockVote' = mapTxLockVote \cup {<<v.mn, v.tx>>}
  BY DEF VoteCounted, VoteIsNew
<1>4. \A u \in Txs :
          /\ mapTxLocks'[u] = NoLock <=> locks[u] = NoLock
          /\ locks[u] /= NoLock => /\ mapTxLocks'[u].votes = locks[u].votes
                                   /\ mapTxLocks'[u].nBlockHeight = locks[u].nBlockHeight
  <2>1. mapTxLocks' = locks \/ mapTxLocks' = Expire(locks, {v.tx, FirstOther(v.tx, mapLockedInputs)})
    BY DEF VoteCounted
  <2> HIDE DEF locks
  <2>2. CASE mapTxLocks' = Expire(locks, {v.tx, FirstOther(v.tx, mapLockedInputs)})
    BY <1>2, <2>2, ExpireKeeps
  <2> QED
    BY <2>1, <2>2
<1>5. \A i \in DOMAIN old.votes :
          /\ <<old.votes[i].mn, v.tx>> \in mapTxLockVote
          /\ <<old.votes[i].mn, old.votes[i].h>> \in Ranked
          /\ \A j \in DOMAIN old.votes : old.votes[i].mn = old.votes[j].mn => i = j
  <2>1. CASE HasLock(v.tx)
    BY <1>2, <2>1 DEF VotesGood, VotesSeen, VotesDistinct, HasLock
  <2>2. CASE ~HasLock(v.tx)
    <3>1. DOMAIN old.votes = {}
      BY <1>1, <2>2
    <3> QED
      BY <3>1
  <2> QED
    BY <2>1, <2>2
<1>6. \A i \in DOMAIN lock.votes :
          /\ <<lock.votes[i].mn, v.tx>> \in mapTxLockVote'
          /\ <<lock.votes[i].mn, lock.votes[i].h>> \in Ranked
          /\ \A j \in DOMAIN lock.votes : lock.votes[i].mn = lock.votes[j].mn => i = j
  <2>1. old.votes \in Seq(Votes)
    BY <1>1 DEF Locks
  <2>2. /\ DOMAIN lock.votes = DOMAIN old.votes \cup {Len(old.votes) + 1}
        /\ lock.votes[Len(old.votes) + 1] = vote
        /\ \A i \in DOMAIN old.votes : lock.votes[i] = old.votes[i]
    BY <1>1, <2>1, VoteAppended
  <2>3. \A i \in DOMAIN old.votes : old.votes[i].mn /= v.mn
    BY <1>3, <1>5
  <2>4. vote.mn = v.mn /\ vote.h = v.h
    OBVIOUS
  <2> HIDE DEF old, lock, vote
  <2> QED
    BY <1>3, <1>5, <2>2, <2>3, <2>4
<1>7. locks[v.tx] = lock /\ \A u \in Txs : u /= v.tx => locks[u] = mapTxLocks[u]
  BY <1>2 DEF TypeOK
<1>8. lock /= NoLock
  BY <1>1, LockIsThere
<1> HIDE DEF old, lock, locks, vote
<1>9. ASSUME NEW u \in Txs, mapTxLocks'[u] /= NoLock
      PROVE  /\ mapTxLocks'[u].nBlockHeight \in {0, LockHeight[u]}
             /\ \A i \in DOMAIN mapTxLocks'[u].votes :
                   /\ <<mapTxLocks'[u].votes[i].mn, u>> \in mapTxLockVote'
                   /\ <<mapTxLocks'[u].votes[i].mn, mapTxLocks'[u].votes[i].h>> \in Ranked
                   /\ \A j \in DOMAIN mapTxLocks'[u].votes :
                         mapTxLocks'[u].votes[i].mn = mapTxLocks'[u].votes[j].mn => i = j
  <2>1. CASE u = v.tx
    <3>1. /\ mapTxLocks'[u].votes = lock.votes
          /\ mapTxLocks'[u].nBlockHeight = lock.nBlockHeight
      BY <1>4, <1>7, <1>8, <2>1
    <3> QED
      BY <1>1, <1>6, <2>1, <3>1
  <2>2. CASE u /= v.tx
    <3>1. /\ HasLock(u) /\ mapTxLocks'[u].votes = mapTxLocks[u].votes
          /\ mapTxLocks'[u].nBlockHeight = mapTxLocks[u].nBlockHeight
      BY <1>4, <1>7, <1>9, <2>2 DEF HasLock
    <3>2. /\ mapTxLocks[u].nBlockHeight \in {0, LockHeight[u]}
          /\ \A i \in DOMAIN mapTxLocks[u].votes :
                /\ <<mapTxLocks[u].votes[i].mn, u>> \in mapTxLockVote
                /\ <<mapTxLocks[u].votes[i].mn, mapTxLocks[u].votes[i].h>> \in Ranked
                /\ \A j \in DOMAIN mapTxLocks[u].votes :
                      mapTxLocks[u].votes[i].mn = mapTxLocks[u].votes[j].mn => i = j
      BY <3>1 DEF VotesGood, HeightsRight, VotesSeen, VotesDistinct
    <3> QED
      BY <1>3, <3>1, <3>2
  <2> QED
    BY <2>1, <2>2
<1> QED
  BY <1>9 DEF VotesGood, HeightsRight, VotesSeen, VotesDistinct, HasLock

\* Cleaning forgets votes only together with the lock they are in.
LEMMA CleaningVotes ==
    ASSUME TypeOK, VotesGood, CleanTransactionLocksList PROVE VotesGood'
<1>1. \A u \in Txs : mapTxLocks'[u] /= NoLock => u \notin Expired /\ mapTxLocks'[u] = mapTxLocks[u]
  BY DEF CleanTransactionLocksList
<1>2. ASSUME NEW u \in Txs, u \notin Expired, NEW mn, <<mn, u>> \in mapTxLockVote
      PROVE  <<mn, u>> \in mapTxLockVote'
  <2> DEFINE K == {tx \in Expired : mapTxLockReq[tx] /= "none"}
  <2>1. <<mn, u>> \notin UNION {{<<mapTxLocks[tx].votes[i].mn, tx>> :
                                     i \in DOMAIN mapTxLocks[tx].votes} : tx \in K}
    BY <1>2
  <2> QED
    BY <1>2, <2>1 DEF CleanTransactionLocksList
<1> QED
  BY <1>1, <1>2 DEF VotesGood, HeightsRight, VotesSeen, VotesDistinct, HasLock

-----------------------------------------------------------------------------
(* Locked inputs.                                                          *)

\* A step that gives inputs to refused requests only and undoes no lock.
LEMMA HeldUntouched ==
    ASSUME AcceptedLocksHeld, refused \subseteq refused',
           \A tx \in Txs : mapTxLockReq[tx] = "tx" => mapTxLockReq'[tx] = "tx",
           \A tx \in Txs : IsComplete(mapTxLocks[tx]) => IsComplete(mapTxLocks'[tx]),
           \A o \in Outpoints : \/ mapLockedInputs'[o] = mapLockedInputs[o]
                                \/ mapLockedInputs'[o] \in refused'
    PROVE  AcceptedLocksHeld'
BY DEF AcceptedLocksHeld

\* Requests: the inputs of an accepted one are not locked yet.
LEMMA RequestsHeld ==
    ASSUME TypeOK, HeightsRight, AcceptedLocksHeld, NEW tx \in Txs, NEW aged \in BOOLEAN,
           RequestAccepted(tx, aged) \/ RequestRejected(tx, aged) \/ WalletRequest(tx, aged)
    PROVE  AcceptedLocksHeld'
<1> DEFINE locks  == CreateNewLock(tx, aged)
           locked == LockInputs(tx, mapLockedInputs)
<1>1. /\ locks \in [Txs -> Locks \cup {NoLock}]
      /\ \A u \in Txs : u /= tx => locks[u] = mapTxLocks[u]
      /\ IsComplete(mapTxLocks[tx]) => IsComplete(locks[tx])
  BY CreateNewLockKeeps
<1>2. \A u \in Txs : IsComplete(mapTxLocks[u]) => IsComplete(locks[u])
  BY <1>1
<1> HIDE DEF locks
<1>3. \A u \in Txs : IsComplete(mapTxLocks[u]) => IsComplete(mapTxLocks'[u])
  <2>1. mapTxLocks' = locks \/ mapTxLocks' = Expire(locks, {tx, FirstOther(tx, locked)})
    BY DEF RequestAccepted, RequestRejected, WalletRequest, locks
  <2>2. CASE mapTxLocks' = Expire(locks, {tx, FirstOther(tx, locked)})
    BY <1>1, <1>2, <2>2, ExpireKeeps
  <2> QED
    BY <1>2, <2>1, <2>2
<1>4. \A u \in Txs : mapTxLockReq[u] = "tx" => mapTxLockReq'[u] = "tx"
  BY DEF RequestAccepted, RequestRejected, WalletRequest, TypeOK
<1>5. \A o \in Outpoints : \/ mapLockedInputs'[o] = mapLockedInputs[o]
                           \/ mapLockedInputs'[o] \in refused'
  <2>1. CASE RequestRejected(tx, aged)
    <3>1. mapLockedInputs' = locked /\ tx \in refused'
      BY <2>1 DEF RequestRejected
    <3>2. mapLockedInputs \in [Outpoints -> Txs \cup {NoTx}]
      BY DEF TypeOK
    <3>3. \A o \in Outpoints : locked[o] = mapLockedInputs[o] \/ locked[o] = tx
      BY <3>2, InputsKept
    <3> QED
      BY <3>1, <3>3
  <2> QED
    BY <2>1 DEF RequestAccepted, WalletRequest
<1>6. refused \subseteq refused'
  BY DEF RequestAccepted, RequestRejected, WalletRequest
<1> QED
  BY <1>3, <1>4, <1>5, <1>6, HeldUntouched

\* A vote locks inputs only for the lock it completes, whose request is known.
LEMMA VoteCountedHeld ==
    ASSUME TypeOK, HeightsRight, AcceptedLocksHeld, NEW v \in VoteMessages, VoteCounted(v)
    PROVE  AcceptedLocksHeld'
<1> DEFINE tx    == v.tx
           vote  == [mn |-> v.mn, h |-> v.h]
           old   == IF mapTxLocks[v.tx] = NoLock THEN NewLock(0) ELSE mapTxLocks[v.tx]
           lock  == [old EXCEPT !.votes = Append(@, vote)]
           locks == [mapTxLocks EXCEPT ![v.tx] = lock]
           known == mapTxLockReq[tx] = "tx"
<1>1. /\ lock \in Locks /\ vote \in Votes /\ lock.votes = Append(old.votes, vote)
      /\ lock.nBlockHeight = old.nBlockHeight
  BY VotedLock
<1>2. tx \in Txs /\ locks \in [Txs -> Locks \cup {NoLock}]
  BY <1>1 DEF TypeOK, VoteMessages
<1>3. locks[tx] = lock /\ \A u \in Txs : u /= tx => locks[u] = mapTxLocks[u]
  BY <1>2 DEF TypeOK
<1>4. IsComplete(mapTxLocks[tx]) => IsComplete(lock)
  <2>1. SUFFICES ASSUME IsComplete(mapTxLocks[tx]) PROVE IsComplete(lock)
    OBVIOUS
  <2>2. NoLock /= mapTxLocks[tx]
    BY <1>1, <2>1, SignaturesOfLock
  <2>3. mapTxLocks[tx] \in Locks /\ old = mapTxLocks[tx]
    BY <1>2, <2>2 DEF TypeOK
  <2> HIDE DEF lock, old
  <2> QED
    BY <1>1, <2>1, <2>3, StaysComplete
<1>5. /\ refused' = refused
      /\ \/ mapTxLocks' = locks /\ UNCHANGED <<mapTxLockReq, mapLockedInputs>>
         \/ /\ mapTxLocks' = Expire(locks, {tx, FirstOther(tx, mapLockedInputs)})
            /\ UNCHANGED <<mapTxLockReq, mapLockedInputs>>
         \/ /\ IsComplete(lock) /\ mapTxLocks' = locks
            /\ mapTxLockReq' = [mapTxLockReq EXCEPT ![tx] = IF known THEN "tx" ELSE "empty"]
            /\ mapLockedInputs' = IF known THEN LockInputs(tx, mapLockedInputs) ELSE mapLockedInputs
  BY DEF VoteCounted
<1> HIDE DEF locks, lock, old
<1>6. \A u \in Txs : IsComplete(mapTxLocks[u]) => IsComplete(mapTxLocks'[u])
  <2>1. \A u \in Txs : IsComplete(mapTxLocks[u]) => IsComplete(locks[u])
    BY <1>3, <1>4
  <2>2. CASE mapTxLocks' = Expire(locks, {tx, FirstOther(tx, mapLockedInputs)})
    BY <1>2, <2>1, <2>2, ExpireKeeps
  <2> QED
    BY <1>5, <2>1, <2>2
<1>7. \A u \in Txs : mapTxLockReq[u] = "tx" => mapTxLockReq'[u] = "tx"
  BY <1>5 DEF TypeOK
<1>8. CASE mapLockedInputs' = mapLockedInputs
  BY <1>5, <1>6, <1>7, <1>8, HeldUntouched
<1>9. CASE /\ IsComplete(lock) /\ mapTxLocks' = locks /\ known
           /\ mapLockedInputs' = LockInputs(tx, mapLockedInputs)
  <2>1. ASSUME NEW o \in Outpoints, mapLockedInputs'[o] \in Txs \ refused'
        PROVE  LET u == mapLockedInputs'[o]
               IN  mapTxLockReq'[u] = "tx" /\ o \in Inputs(u) /\ IsComplete(mapTxLocks'[u])
    <3>1. CASE mapLockedInputs'[o] = mapLockedInputs[o]
      BY <1>5, <1>6, <1>7, <2>1, <3>1 DEF AcceptedLocksHeld
    <3>2. CASE mapLockedInputs'[o] = tx /\ o \in Inputs(tx)
      BY <1>2, <1>3, <1>7, <1>9, <3>2
    <3> QED
      BY <1>2, <1>9, <3>1, <3>2, InputsKept DEF TypeOK
  <2> QED
    BY <2>1 DEF AcceptedLocksHeld
<1> QED
  BY <1>5, <1>8, <1>9

\* Cleaning releases the inputs of the requests it removes.
LEMMA CleaningHeld ==
    ASSUME TypeOK, AcceptedLocksHeld, CleanTransactionLocksList PROVE AcceptedLocksHeld'
<1> DEFINE K == {tx \in Expired : mapTxLockReq[tx] /= "none"}
<1>1. mapLockedInputs' = Unlocked(K) /\ refused' = refused
  BY DEF CleanTransactionLocksList
<1>2. SUFFICES ASSUME NEW o \in Outpoints, NEW tx \in Txs \ refused, mapLockedInputs'[o] = tx
               PROVE  mapTxLockReq'[tx] = "tx" /\ o \in Inputs(tx) /\ IsComplete(mapTxLocks'[tx])
  BY <1>1 DEF AcceptedLocksHeld
<1>3. /\ mapLockedInputs[o] = tx
      /\ ~\E u \in K : mapTxLockReq[u] = "tx" /\ o \in Inputs(u)
  BY <1>1, <1>2, SwiftTXAssumption DEF Unlocked
<1>4. mapTxLockReq[tx] = "tx" /\ o \in Inputs(tx) /\ IsComplete(mapTxLocks[tx])
  BY <1>2, <1>3 DEF AcceptedLocksHeld
<1>5. tx \notin Expired
  BY <1>3, <1>4
<1> QED
  BY <1>4, <1>5 DEF CleanTransactionLocksList

-----------------------------------------------------------------------------
(* Double spends.                                                          *)

\* A transaction that the pool accepts conflicts with nothing in it.
LEMMA AcceptableAdds ==
    ASSUME NoDoubleSpend, NEW tx, Acceptable(tx), mempool' = mempool \cup {tx},
           confirmed' = confirmed
    PROVE  NoDoubleSpend'
<1>1. \A a, b : Conflicts(a, b) <=> Conflicts(b, a)
  BY DEF Conflicts
<1>2. ~Conflicts(tx, tx)
  BY DEF Conflicts
<1>3. ASSUME NEW a \in mempool' \cup confirmed', NEW b \in mempool' \cup confirmed'
      PROVE  ~Conflicts(a, b)
  BY <1>1, <1>2 DEF NoDoubleSpend, Acceptable
<1> QED
  BY <1>3 DEF NoDoubleSpend

\* A block replaces what conflicts with it.
LEMMA BlockReplaces ==
    ASSUME NoDoubleSpend, NEW tx, ReceiveBlock(tx) PROVE NoDoubleSpend'
<1>1. \A a, b : Conflicts(a, b) <=> Conflicts(b, a)
  BY DEF Conflicts
<1>2. ~Conflicts(tx, tx)
  BY DEF Conflicts
<1>3. /\ confirmed' = confirmed \cup {tx}
      /\ mempool' = {m \in mempool : m /= tx /\ ~Conflicts(m, tx)}
      /\ \A c \in confirmed : ~Conflicts(tx, c)
  BY DEF ReceiveBlock
<1>4. ASSUME NEW a \in mempool' \cup confirmed', NEW b \in mempool' \cup confirmed'
      PROVE  ~Conflicts(a, b)
  BY <1>1, <1>2, <1>3 DEF NoDoubleSpend
<1> QED
  BY <1>4 DEF NoDoubleSpend

-----------------------------------------------------------------------------
(* The invariant.                                                          *)

LEMMA InitInv == Init => Inv
<1> SUFFICES ASSUME Init PROVE Inv
  OBVIOUS
<1>1. TypeOK
  BY DEF Init, TypeOK
<1>2. \A tx \in Txs : ~HasLock(tx)
  BY DEF Init, HasLock
<1>3. AcceptedLocksHeld
  BY SwiftTXAssumption DEF Init, AcceptedLocksHeld
<1> QED
  BY <1>1, <1>2, <1>3 DEF Inv, Init, HeightsRight, VotesSeen, VotesDistinct, NoDoubleSpend

LEMMA NextInv == Inv /\ [Next]_vars => Inv'
<1> SUFFICES ASSUME Inv, [Next]_vars PROVE Inv'
  OBVIOUS
<1> USE DEF Inv
<1>0. VotesGood
  BY DEF VotesGood
<1>1. ASSUME NEW tx \in Txs, NEW aged \in BOOLEAN,
             RequestAccepted(tx, aged) \/ RequestRejected(tx, aged) \/ WalletRequest(tx, aged)
      PROVE  Inv'
  <2>1. TypeOK'
    BY <1>1, RequestsTyped
  <2>2. VotesGood'
    BY <1>0, <1>1, RequestsVotes
  <2>3. AcceptedLocksHeld'
    BY <1>1, RequestsHeld
  <2>4. NoDoubleSpend'
    <3>1. CASE RequestAccepted(tx, aged) \/ WalletRequest(tx, aged)
      BY <3>1, AcceptableAdds DEF RequestAccepted, WalletRequest
    <3>2. CASE RequestRejected(tx, aged)
      <4>1. UNCHANGED chainVars \/ ReprocessBlocks(LockInputs(tx, mapLockedInputs))
        BY <3>2 DEF RequestRejected
      <4> QED
        BY <4>1, ReprocessBlocksSelects DEF chainVars, NoDoubleSpend
    <3> QED
      BY <1>1, <3>1, <3>2
  <2> QED
    BY <2>1, <2>2, <2>3, <2>4 DEF VotesGood
<1>2. ASSUME NEW v \in VoteMessages, VoteRefused(v) PROVE Inv'
  <2>1. TypeOK'
    BY <1>2, VotesTyped
  <2>2. /\ mapTxLockVote \subseteq mapTxLockVote'
        /\ UNCHANGED <<mapTxLockReq, mapTxLocks, mapLockedInputs, chainVars, refused>>
    BY <1>2 DEF VoteRefused
  <2>3. VotesGood'
    BY <1>0, <2>2, VotesUntouched DEF VotesGood, HeightsRight, HasLock
  <2>4. AcceptedLocksHeld' /\ NoDoubleSpend'
    BY <2>2 DEF AcceptedLocksHeld, NoDoubleSpend, chainVars
  <2> QED
    BY <2>1, <2>3, <2>4 DEF VotesGood
<1>3. ASSUME NEW v \in VoteMessages, VoteCounted(v) PROVE Inv'
  <2>1. TypeOK'
    BY <1>3, VotesTyped
  <2>2. VotesGood'
    BY <1>0, <1>3, VoteCountedVotes
  <2>3. AcceptedLocksHeld'
    BY <1>3, VoteCountedHeld
  <2>4. UNCHANGED chainVars \/ ReprocessBlocks(mapLockedInputs')
    BY <1>3 DEF VoteCounted
  <2>5. CASE ReprocessBlocks(mapLockedInputs')
    BY <2>1, <2>2, <2>3, <2>5, ReprocessBlocksSelects DEF VotesGood
  <2> QED
    BY <2>1, <2>2, <2>3, <2>4, <2>5 DEF VotesGood, chainVars, NoDoubleSpend
<1>4. ASSUME NEW tx \in Txs, ReceiveTx(tx) PROVE Inv'
  <2>1. UNCHANGED <<lockVars, blocks, confirmed, refused>> /\ mempool' = mempool \cup {tx}
    BY <1>4 DEF ReceiveTx
  <2>2. NoDoubleSpend'
    BY <1>4, <2>1, AcceptableAdds DEF ReceiveTx
  <2> QED
    BY <2>1, <2>2 DEF lockVars, TypeOK, HeightsRight, VotesSeen, VotesDistinct, HasLock,
                      AcceptedLocksHeld
<1>5. ASSUME NEW tx \in Txs, ReceiveBlock(tx) PROVE Inv'
  <2>1. UNCHANGED <<lockVars, refused>> /\ blocks' = blocks \cup {tx}
        /\ confirmed' = confirmed \cup {tx} /\ mempool' \subseteq mempool
    BY <1>5 DEF ReceiveBlock
  <2>2. NoDoubleSpend'
    BY <1>5, BlockReplaces
  <2> QED
    BY <2>1, <2>2 DEF lockVars, TypeOK, HeightsRight, VotesSeen, VotesDistinct, HasLock,
                      AcceptedLocksHeld
<1>6. CASE CleanTransactionLocksList
  <2>1. TypeOK' /\ VotesGood' /\ AcceptedLocksHeld'
    BY <1>0, <1>6, CleaningTyped, CleaningVotes, CleaningHeld
  <2>2. NoDoubleSpend'
    BY <1>6 DEF CleanTransactionLocksList, NoDoubleSpend, chainVars
  <2> QED
    BY <2>1, <2>2 DEF VotesGood
<1>7. CASE Tick
  <2>1. /\ TypeOK'
        /\ \A tx \in Txs : HasLock(tx)' <=> HasLock(tx)
        /\ \A tx \in Txs : HasLock(tx) =>
              /\ mapTxLocks'[tx].votes = mapTxLocks[tx].votes
              /\ mapTxLocks'[tx].nBlockHeight = mapTxLocks[tx].nBlockHeight
    BY <1>7, TickTyped
  <2>2. UNCHANGED <<mapTxLockReq, mapTxLockVote, mapLockedInputs, chainVars, refused>>
    BY <1>7 DEF Tick
  <2>3. VotesGood'
    BY <1>0, <2>1, <2>2, VotesUntouched DEF VotesGood, HeightsRight
  <2>4. ASSUME NEW tx \in Txs, IsComplete(mapTxLocks[tx]) PROVE IsComplete(mapTxLocks'[tx])
    <3>1. mapTxLocks[tx] \in Locks /\ HasLock(tx)
      BY <2>4, SignaturesOfLock, NewLockTyped, SwiftTXAssumption, LockIsThere DEF TypeOK, HasLock
    <3>2. mapTxLocks'[tx] \in Locks
      BY <2>1, <3>1 DEF TypeOK, HasLock
    <3> QED
      BY <2>1, <2>4, <3>1, <3>2, StaysComplete
  <2>5. AcceptedLocksHeld'
    BY <2>2, <2>4, HeldUntouched
  <2> QED
    BY <2>1, <2>2, <2>3, <2>5 DEF VotesGood, NoDoubleSpend, chainVars
<1>8. CASE UNCHANGED vars
  BY <1>8 DEF vars, lockVars, chainVars, TypeOK, HeightsRight, VotesSeen, VotesDistinct, HasLock,
              AcceptedLocksHeld, NoDoubleSpend
<1> QED
  BY <1>1, <1>2, <1>3, <1>4, <1>5, <1>6, <1>7, <1>8 DEF Next

\* A complete lock has as many masternodes behind it as signatures.
LEMMA InvAgreed == Inv => CompleteMeansAgreed
<1> SUFFICES ASSUME Inv, NEW tx \in Txs, IsComplete(mapTxLocks[tx])
             PROVE  Cardinality({mn \in Masternodes :
                        \E i \in DOMAIN mapTxLocks[tx].votes :
                            mapTxLocks[tx].votes[i] = [mn |-> mn, h |-> LockHeight[tx]]})
                      >= SIGNATURES_REQUIRED
  BY DEF CompleteMeansAgreed
<1> DEFINE votes  == mapTxLocks[tx].votes
           At     == {i \in DOMAIN votes : votes[i].h = LockHeight[tx]}
           behind == {mn \in Masternodes :
                         \E i \in DOMAIN votes : votes[i] = [mn |-> mn, h |-> LockHeight[tx]]}
           f      == [i \in At |-> votes[i].mn]
<1>1. mapTxLocks[tx] \in Locks /\ HasLock(tx)
  BY SignaturesOfLock, NewLockTyped, SwiftTXAssumption, LockIsThere DEF Inv, TypeOK, HasLock
<1>2. /\ mapTxLocks[tx].nBlockHeight = LockHeight[tx]
      /\ Cardinality(At) >= SIGNATURES_REQUIRED
  BY <1>1, SignaturesOfLock DEF Inv, HeightsRight
<1>3. votes \in Seq(Votes) /\ \A i \in DOMAIN votes : votes[i] \in Votes
  BY <1>1 DEF Locks
<1>4. f \in [At -> behind]
  <2>1. ASSUME NEW i \in At PROVE votes[i].mn \in behind
    <3>1. votes[i] = [mn |-> votes[i].mn, h |-> LockHeight[tx]] /\ votes[i].mn \in Masternodes
      BY <1>3 DEF Votes
    <3> QED
      BY <3>1
  <2> QED
    BY <2>1
<1>5. \A i, j \in At : f[i] = f[j] => i = j
  BY <1>1 DEF Inv, VotesDistinct
<1>6. f \in Injection(At, behind)
  BY <1>4, <1>5 DEF Injection, IsInjective
<1>7. IsFiniteSet(behind)
  BY SwiftTXAssumption, FS_Subset
<1>8. /\ Cardinality(At) <= Cardinality(behind) /\ IsFiniteSet(At)
  BY <1>6, <1>7, FS_Injection
<1>9. Cardinality(At) \in Nat /\ Cardinality(behind) \in Nat
  BY <1>7, <1>8, FS_CardinalityType
<1> QED
  BY <1>2, <1>8, <1>9, SwiftTXAssumption

-----------------------------------------------------------------------------
\* The invariant holds in every reachable state.
THEOREM Invariance == Spec => []Inv
BY InitInv, NextInv, PTL DEF Spec

\* Votes behind a lock come from distinct ranked masternodes, and a complete
\* lock has SIGNATURES_REQUIRED of them for its height.
THEOREM ConsensusIsSound == Spec => []ConsensusSound
<1>1. Inv => ConsensusSound
  BY InvAgreed DEF Inv, ConsensusSound
<1> QED
  BY <1>1, Invariance, PTL

\* Inputs locked for a request that was not refused have a complete lock.
THEOREM AcceptedLocksAreHeld == Spec => []AcceptedLocksHeld
<1>1. Inv => AcceptedLocksHeld
  BY DEF Inv
<1> QED
  BY <1>1, Invariance, PTL

\* Pool and active chain never hold a double spend.
THEOREM DoubleSpendsExcluded == Spec => []NoDoubleSpend
<1>1. Inv => NoDoubleSpend
  BY DEF Inv
<1> QED
  BY <1>1, Invariance, PTL
=============================================================================
