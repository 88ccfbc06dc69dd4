----------------------------- MODULE ChainState -----------------------------
(***************************************************************************)
(* The block tree, the active chain and what of them is on disk            *)
(* (src/src/main.cpp): AcceptBlock, ActivateBestChain, InvalidateBlock,    *)
(* ReconsiderBlock, ReprocessBlocks, FlushStateToDisk, LoadBlockIndexDB.   *)
(*                                                                         *)
(* Everything runs under cs_main.  ActivateBestChain releases it after     *)
(* each ActivateBestChainStep, so other operations come in between; a step *)
(* itself is one action per DisconnectTip and ConnectTip, and only a crash *)
(* can come between those.  A duplicate block, an RPC or the start of the  *)
(* node can call ActivateBestChain at any time.  When FlushStateToDisk     *)
(* fails inside DisconnectTip or ConnectTip, the coins have moved and the  *)
(* tip has not; the node is then asked to stop.                            *)
(*                                                                         *)
(* A block is an element of Blocks; Outcomes says what checking it can     *)
(* give.  Transactions, the memory pool, the wallet, pindexBestHeader and  *)
(* pindexBestInvalid (only used in warnings) are left out.  Blocks come    *)
(* with their data: headers-first download is switched off in chainparams. *)
(***************************************************************************)
EXTENDS Integers, FiniteSets

CONSTANTS
    Blocks,       \* all blocks anybody will ever produce
    Genesis,
    Parent,       \* pprev
    Ancestors,    \* Ancestors[b]: b and all blocks before it
    nChainWork,
    Address,      \* where the CBlockIndex lies, the last tie-breaker
    Outcomes,     \* Outcomes[b]: what the checks of b can result in
    Revocable,    \* blocks an operator invalidates by RPC and reconsiders
    Rejected,     \* blocks in mapRejectedBlocks once they have been refused
    nReprocess,   \* the argument of ReprocessBlocks
    ForceStart,   \* -forcestart: no repair when the node starts
    DiskFull,     \* whether storing a block and flushing may fail
    TornFlush,    \* whether FlushStateToDisk may end half-way
    None

\* "unacceptable": AcceptBlock's checks fail.  "invalid": ConnectBlock finds a
\* consensus rule violated.  "refused": ConnectBlock returns false without
\* saying so in the state (SPORK_17).
Verdicts == {"valid", "unacceptable", "invalid", "refused"}

ASSUME ChainAssumption ==
    /\ IsFiniteSet(Blocks) /\ Genesis \in Blocks /\ None \notin Blocks
    /\ Parent \in [Blocks \ {Genesis} -> Blocks]
    /\ Ancestors \in [Blocks -> SUBSET Blocks]
    /\ Ancestors[Genesis] = {Genesis}
    /\ \A b \in Blocks \ {Genesis} :
          Ancestors[b] = Ancestors[Parent[b]] \cup {b} /\ b \notin Ancestors[Parent[b]]
    /\ nChainWork \in [Blocks -> Nat]
    /\ \A b \in Blocks \ {Genesis} : nChainWork[Parent[b]] < nChainWork[b]
    /\ Address \in [Blocks -> Nat]
    /\ \A a, b \in Blocks : Address[a] = Address[b] => a = b
    /\ Outcomes \in [Blocks -> SUBSET Verdicts]
    /\ Revocable \subseteq Blocks \ {Genesis} /\ Rejected \subseteq Blocks \ {Genesis}
    /\ nReprocess \in Nat /\ {ForceStart, DiskFull, TornFlush} \subseteq BOOLEAN

VARIABLES
    nStatus,                  \* the flags of an entry of mapBlockIndex; {} if absent
    nSequenceId,              \* order of arrival, 0 for a block loaded from disk
    nBlockSequenceId,         \* the next such number
    linked,                   \* blocks with nChainTx set
    setBlockIndexCandidates,
    mapBlocksUnlinked,        \* B of each pair A->B; A is its parent
    tip,                      \* chainActive.Tip()
    coins,                    \* pcoinsTip->GetBestBlock()
    dirty,                    \* setDirtyBlockIndex
    nHeightLast,              \* of the last block file
    step,                     \* the ActivateBestChainStep under way, or None
    mode,                     \* "run"; "failed" once AbortNode asked for the shutdown;
                              \* "fixing", "fixed" and "unfixed" in the repair of
                              \* LoadBlockIndexDB; "down", "abort", "broken"
    disk                      \* what has been written

memory == <<nStatus, nSequenceId, nBlockSequenceId, linked, setBlockIndexCandidates,
            mapBlocksUnlinked, tip, coins, dirty, nHeightLast, step>>
vars   == <<memory, mode, disk>>

Flags == {"TREE", "DATA", "SCRIPTS", "FAILED_VALID", "FAILED_CHILD"}

Height(b) == Cardinality(Ancestors[b]) - 1

Init ==
    /\ nStatus = [b \in Blocks |-> IF b = Genesis THEN {"TREE", "DATA"} ELSE {}]
    /\ nSequenceId = [b \in Blocks |-> IF b = Genesis THEN 1 ELSE 0]
    /\ nBlockSequenceId = 2
    /\ linked = {Genesis} /\ setBlockIndexCandidates = {Genesis} /\ mapBlocksUnlinked = {}
    /\ tip = Genesis /\ coins = Genesis
    /\ dirty = {} /\ nHeightLast = 0
    /\ step = None /\ mode = "run"
    /\ disk = [index |-> nStatus, best |-> Genesis, heightLast |-> 0, prepared |-> FALSE]

-----------------------------------------------------------------------------
Known(b)  == "TREE" \in nStatus[b]
Failed(b) == nStatus[b] \cap {"FAILED_VALID", "FAILED_CHILD"} /= {}

\* CBlockIndexWorkComparator: a sorts before b, with the sequence numbers id.
SortsBefore(id, a, b) ==
    \/ nChainWork[a] < nChainWork[b]
    \/ nChainWork[a] = nChainWork[b] /\ id[a] > id[b]
    \/ nChainWork[a] = nChainWork[b] /\ id[a] = id[b] /\ Address[a] > Address[b]

Worse(a, b) == SortsBefore(nSequenceId, a, b)

\* PruneBlockIndexCandidates when the tip is t.
Prune(id, S, t) == {b \in S : ~SortsBefore(id, b, t)}

\* cs_main can be taken.
Free == mode = "run" /\ step = None

\* Mutant: entries of blocks without data are not written.
FlushedWithData(status, d, best, last) ==
    [disk EXCEPT !.index = [b \in Blocks |-> IF b \in d /\ "DATA" \in status[b]
                                             THEN status[b] ELSE disk.index[b]],
                 !.best = best, !.heightLast = last]

\* FlushStateToDisk once nStatus, coins and nHeightLast are the given ones:
\* file information, index entries, then the coins.
Flushed(status, d, best, last) ==
    [disk EXCEPT !.index = [b \in Blocks |-> IF b \in d THEN status[b] ELSE disk.index[b]],
                 !.best = best, !.heightLast = last]

-----------------------------------------------------------------------------
\* What AcceptBlock asks for before it looks at the block itself.
Offered(b) ==
    /\ Free /\ b /= Genesis
    /\ Known(Parent[b]) /\ ~Failed(Parent[b])
    /\ ~Failed(b) /\ "DATA" \notin nStatus[b]

\* CheckBlock or ContextualCheckBlock fails: only the header is kept.
AcceptBlockFails(b) ==
    /\ Offered(b) /\ "unacceptable" \in Outcomes[b]
    /\ nStatus' = [nStatus EXCEPT ![b] = @ \cup {"TREE", "FAILED_VALID"}]
    /\ dirty' = dirty \cup {b}
    /\ UNCHANGED <<nSequenceId, nBlockSequenceId, linked, setBlockIndexCandidates,
                   mapBlocksUnlinked, tip, coins, nHeightLast, step, mode, disk>>

\* CBlockFileInfo::AddBlock.
MaxHeight(h) == IF h > nHeightLast THEN h ELSE nHeightLast

\* WriteBlockToDisk fails after FindBlockPos: the header stays without its data.
WriteBlockFails(b) ==
    /\ DiskFull /\ Offered(b) /\ Outcomes[b] /= {"unacceptable"}
    /\ nStatus' = [nStatus EXCEPT ![b] = @ \cup {"TREE"}]
    /\ dirty' = dirty \cup {b}
    /\ nHeightLast' = MaxHeight(Height(b))
    /\ UNCHANGED <<nSequenceId, nBlockSequenceId, linked, setBlockIndexCandidates,
                   mapBlocksUnlinked, tip, coins, step, mode, disk>>

\* Mutant: descendants that were waiting are not looked at.
LinkableSelf(b) == {b}

\* The blocks that ReceivedBlockTransactions links when the data of b comes:
\* b and the descendants whose data waits for it.
Linkable(b) ==
    {d \in mapBlocksUnlinked \cup {b} :
        b \in Ancestors[d] /\ Ancestors[d] \ Ancestors[b] \subseteq mapBlocksUnlinked}

\* AcceptBlock stores the block and ReceivedBlockTransactions links it.
AcceptBlock(b) ==
    /\ Offered(b) /\ Outcomes[b] /= {"unacceptable"}
    /\ nStatus' = [nStatus EXCEPT ![b] = @ \cup {"TREE", "DATA"}]
    /\ dirty' = dirty \cup {b}
    /\ nHeightLast' = MaxHeight(Height(b))
    /\ \/ /\ Parent[b] \notin linked
          /\ mapBlocksUnlinked' = mapBlocksUnlinked \cup {b}
          /\ UNCHANGED <<nSequenceId, nBlockSequenceId, linked, setBlockIndexCandidates>>
       \/ /\ Parent[b] \in linked
          /\ LET new == Linkable(b)
                 n   == Cardinality(new)
             IN  \E id \in [new -> nBlockSequenceId .. nBlockSequenceId + n - 1] :
                    /\ \A c, d \in new : c /= d => id[c] /= id[d]
                    /\ \A c, d \in new : Height(c) < Height(d) => id[c] < id[d]
                    /\ nSequenceId' = [c \in Blocks |-> IF c \in new THEN id[c] ELSE nSequenceId[c]]
                    /\ nBlockSequenceId' = nBlockSequenceId + n
                    /\ linked' = linked \cup new
                    /\ mapBlocksUnlinked' = mapBlocksUnlinked \ new
                    \* the new ids are the largest, so a new block needs more work
                    /\ setBlockIndexCandidates' = setBlockIndexCandidates \cup
                           {c \in new : nChainWork[c] > nChainWork[tip]}
    /\ UNCHANGED <<tip, coins, step, mode, disk>>

-----------------------------------------------------------------------------
(* FindMostWorkChain, from the candidate that sorts last downwards. *)

\* The part of c's chain that is not active.
Branch(c) == Ancestors[c] \ Ancestors[tip]

Usable(c) == \A a \in Branch(c) : ~Failed(a)

\* From c back to the first failed block that the walk meets.
UpToFailed(c) ==
    {a \in Branch(c) : \A x \in Branch(c) : a \in Ancestors[x] /\ x /= a => ~Failed(x)}

\* What is dropped on the way to the best usable candidate.
Dropped ==
    UNION {UpToFailed(c) : c \in {d \in setBlockIndexCandidates :
              /\ ~Usable(d)
              /\ \A u \in setBlockIndexCandidates : Usable(u) => Worse(u, d)}}

MostWork ==
    LET usable == {c \in setBlockIndexCandidates : Usable(c)}
    IN  IF usable = {} THEN None
        ELSE CHOOSE c \in usable : \A d \in usable : ~Worse(c, d)

\* FindMostWorkChain and, unless the best chain is active already, the start
\* of a step.  FAILED_CHILD is set without marking the entry dirty.
FindMostWorkChain ==
    /\ mode \in {"run", "fixing"} /\ step = None
    /\ Dropped /= {} \/ MostWork \notin {None, tip}
    /\ nStatus' = [b \in Blocks |-> IF b \in Dropped /\ ~Failed(b)
                                    THEN nStatus[b] \cup {"FAILED_CHILD"} ELSE nStatus[b]]
    /\ setBlockIndexCandidates' = setBlockIndexCandidates \ Dropped
    /\ step' = IF MostWork \in {None, tip} THEN None
               ELSE [target |-> MostWork, old |-> tip]
    /\ UNCHANGED <<nSequenceId, nBlockSequenceId, linked, mapBlocksUnlinked, tip, coins,
                   dirty, nHeightLast, mode, disk>>

\* The assertions that the coins belong to the tip.
Asserts(b) == coins = b

\* Mutant: the coins stay behind.
DisconnectTipOnly ==
    /\ step /= None /\ tip \notin Ancestors[step.target]
    /\ Asserts(tip)
    /\ tip' = Parent[tip]
    /\ disk' = Flushed(nStatus, dirty, coins, nHeightLast)
    /\ dirty' = {}
    /\ UNCHANGED <<nStatus, nSequenceId, nBlockSequenceId, linked, setBlockIndexCandidates,
                   mapBlocksUnlinked, coins, nHeightLast, step, mode>>

\* DisconnectTip in a step: FLUSH_STATE_ALWAYS.
DisconnectTip ==
    /\ step /= None /\ tip \notin Ancestors[step.target]
    /\ Asserts(tip)
    /\ tip' = Parent[tip] /\ coins' = Parent[tip]
    /\ disk' = Flushed(nStatus, dirty, Parent[tip], nHeightLast)
    /\ dirty' = {}
    /\ UNCHANGED <<nStatus, nSequenceId, nBlockSequenceId, linked, setBlockIndexCandidates,
                   mapBlocksUnlinked, nHeightLast, step, mode>>

\* FlushStateToDisk fails in the middle of a step, which ends it: AbortNode asks
\* for the shutdown, and LoadBlockIndexDB does not look at the result.
FlushFails ==
    /\ DiskFull /\ step' = None
    /\ mode' = IF mode = "fixing" THEN "fixed" ELSE "failed"

\* DisconnectTip returns after view.Flush() and before UpdateTip.
DisconnectTipFails ==
    /\ step /= None /\ tip \notin Ancestors[step.target]
    /\ Asserts(tip) /\ FlushFails
    /\ coins' = Parent[tip]
    /\ UNCHANGED <<nStatus, nSequenceId, nBlockSequenceId, linked, setBlockIndexCandidates,
                   mapBlocksUnlinked, tip, dirty, nHeightLast, disk>>

\* The block that ConnectTip is called for.
Connecting(b) ==
    /\ step /= None /\ tip \in Ancestors[step.target]
    /\ b \in Ancestors[step.target] \ {Genesis} /\ Parent[b] = tip
    /\ Asserts(tip)

\* ConnectBlock writes the entry of b as it is before the result is known.
Written(b) == [disk EXCEPT !.index[b] = nStatus[b]]

\* Mutant: the new validity is not marked to be written.
DirtiedNot(b) == dirty

\* setDirtyBlockIndex when ConnectBlock has raised the validity of b.
Dirtied(b) == IF "SCRIPTS" \in nStatus[b] THEN dirty ELSE dirty \cup {b}

\* RaiseValidity of a block that ConnectBlock has checked.
Checked(b) == [nStatus EXCEPT ![b] = IF Failed(b) THEN @ ELSE @ \cup {"SCRIPTS"}]

\* ConnectTip succeeds.  The step ends at the target, and also as soon as the
\* node is better off than before the step.
ConnectTip(b) ==
    LET status == Checked(b)
    IN  /\ Connecting(b) /\ "valid" \in Outcomes[b]
        /\ nStatus' = status
        /\ \/ disk' = Written(b) /\ dirty' = Dirtied(b)
           \/ disk' = Flushed(status, Dirtied(b), b, nHeightLast) /\ dirty' = {}
        /\ tip' = b /\ coins' = b
        /\ setBlockIndexCandidates' = Prune(nSequenceId, setBlockIndexCandidates, b)
        /\ step' = IF b = step.target \/ nChainWork[b] > nChainWork[step.old] THEN None ELSE step
        /\ UNCHANGED <<nSequenceId, nBlockSequenceId, linked, mapBlocksUnlinked, nHeightLast, mode>>

\* ConnectTip returns after view.Flush() and before UpdateTip.
ConnectTipFails(b) ==
    /\ Connecting(b) /\ "valid" \in Outcomes[b] /\ FlushFails
    /\ nStatus' = Checked(b) /\ disk' = Written(b) /\ dirty' = Dirtied(b)
    /\ coins' = b
    /\ UNCHANGED <<nSequenceId, nBlockSequenceId, linked, setBlockIndexCandidates,
                   mapBlocksUnlinked, tip, nHeightLast>>

\* Mutant: InvalidBlockFound is not called.
ConnectTipInvalidUnmarked(b) ==
    /\ Connecting(b) /\ Outcomes[b] \cap {"invalid", "unacceptable"} /= {}
    /\ disk' \in {disk, Written(b)}
    /\ step' = None
    /\ UNCHANGED <<nStatus, nSequenceId, nBlockSequenceId, linked, setBlockIndexCandidates,
                   mapBlocksUnlinked, tip, coins, dirty, nHeightLast, mode>>

\* ConnectTip fails because of the block: InvalidBlockFound.
ConnectTipInvalid(b) ==
    /\ Connecting(b) /\ Outcomes[b] \cap {"invalid", "unacceptable"} /= {}
    /\ nStatus' = [nStatus EXCEPT ![b] = @ \cup {"FAILED_VALID"}]
    /\ dirty' = dirty \cup {b}
    /\ setBlockIndexCandidates' = setBlockIndexCandidates \ {b}
    /\ disk' \in {disk, Written(b)}
    /\ step' = None
    /\ UNCHANGED <<nSequenceId, nBlockSequenceId, linked, mapBlocksUnlinked, tip, coins,
                   nHeightLast, mode>>

\* ConnectBlock returns false and the state does not say why: handled as a
\* system error, ActivateBestChain gives up and the block is not marked.
ConnectTipRefused(b) ==
    /\ Connecting(b) /\ "refused" \in Outcomes[b]
    /\ disk' = Written(b)
    /\ step' = None
    /\ mode' = IF mode = "fixing" THEN "fixed" ELSE mode
    /\ UNCHANGED <<nStatus, nSequenceId, nBlockSequenceId, linked, setBlockIndexCandidates,
                   mapBlocksUnlinked, tip, coins, dirty, nHeightLast>>

\* The assertion of ConnectBlock or DisconnectBlock fails, in a step or in
\* what a node that was asked to stop does before it stops.
AssertionFails ==
    /\ step /= None \/ mode = "failed"
    /\ ~Asserts(tip)
    /\ mode' = "abort" /\ step' = None
    /\ UNCHANGED <<nStatus, nSequenceId, nBlockSequenceId, linked, setBlockIndexCandidates,
                   mapBlocksUnlinked, tip, coins, dirty, nHeightLast, disk>>

-----------------------------------------------------------------------------
\* Mutant: the candidates are not filled up again.
RefillNot(status, t) == {}

\* The candidates that InvalidateBlock adds again, for a tip t.
Refill(status, t) ==
    {b \in linked : status[b] \cap {"FAILED_VALID", "FAILED_CHILD"} = {} /\ ~Worse(b, t)}

\* The active blocks that InvalidateBlock(b) disconnects.
ActiveFrom(b) == {a \in Ancestors[tip] : b \in Ancestors[a]}

\* The flags when the blocks S have been marked and disconnected for b.
Invalidated(b, S) ==
    [a \in Blocks |-> nStatus[a] \cup (IF a = b THEN {"FAILED_VALID"} ELSE {})
                                 \cup (IF a \in S THEN {"FAILED_CHILD"} ELSE {})]

\* InvalidateBlock by RPC.
InvalidateBlock(b) ==
    LET S      == ActiveFrom(b)
        status == Invalidated(b, S)
        t      == IF S = {} THEN tip ELSE Parent[b]
        d      == dirty \cup S \cup {b}
    IN  /\ Free /\ b \in Revocable /\ Known(b)
        /\ nStatus' = status
        /\ tip' = t /\ coins' = t
        /\ setBlockIndexCandidates' =
               (setBlockIndexCandidates \ (S \cup {b})) \cup Refill(status, t)
        /\ \/ S = {} /\ dirty' = d /\ disk' = disk
           \/ S /= {} /\ dirty' = {} /\ disk' = Flushed(status, d, t, nHeightLast)
        /\ UNCHANGED <<nSequenceId, nBlockSequenceId, linked, mapBlocksUnlinked, nHeightLast,
                       step, mode>>

\* InvalidateBlock returns because DisconnectTip fails for t, the blocks after t
\* being disconnected: the candidates are not filled up.
InvalidateBlockFails(b) ==
    /\ Free /\ b \in Revocable /\ FlushFails
    /\ \E t \in ActiveFrom(b) :
          LET S == Ancestors[tip] \ Ancestors[t]
          IN  /\ nStatus' = Invalidated(b, S \cup {t})
              /\ tip' = t /\ coins' = Parent[t]
              /\ setBlockIndexCandidates' = setBlockIndexCandidates \ (S \cup {b, t})
              /\ \/ S = {} /\ dirty' = dirty \cup {b, t} /\ disk' = disk
                 \/ /\ S /= {} /\ dirty' = {t}
                    /\ disk' = Flushed(Invalidated(b, S), dirty \cup S \cup {b}, t, nHeightLast)
    /\ UNCHANGED <<nSequenceId, nBlockSequenceId, linked, mapBlocksUnlinked, nHeightLast>>

\* Mutant: descendants keep their flags.
ClearedBack(b) == {a \in Ancestors[b] : Known(a)}

\* ReconsiderBlock: descendants and ancestors of b are no longer failed, and
\* the descendants that sort after the tip are candidates again.
Cleared(b) == {a \in Blocks : Known(a) /\ (b \in Ancestors[a] \/ a \in Ancestors[b])}

Unfailed(b) ==
    [a \in Blocks |-> IF a \in Cleared(b) THEN nStatus[a] \ {"FAILED_VALID", "FAILED_CHILD"}
                                          ELSE nStatus[a]]

Reinstated(b) == {a \in linked : b \in Ancestors[a] /\ Failed(a) /\ Worse(tip, a)}

\* The entries whose flags changed.
Touched(b) == {a \in Cleared(b) : Failed(a)}

\* By RPC, or by ReprocessBlocks for a block that was rejected.
ReconsiderBlock(b) ==
    /\ Free /\ b \in Revocable \cup Rejected /\ Known(b)
    /\ nStatus' = Unfailed(b)
    /\ dirty' = dirty \cup Touched(b)
    /\ setBlockIndexCandidates' = setBlockIndexCandidates \cup Reinstated(b)
    /\ UNCHANGED <<nSequenceId, nBlockSequenceId, linked, mapBlocksUnlinked, tip, coins,
                   nHeightLast, step, mode, disk>>

\* The block n heights before the tip, or Genesis, which cannot be disconnected.
Back(n) == CHOOSE a \in Ancestors[tip] :
    Height(a) = IF Height(tip) > n THEN Height(tip) - n ELSE 0

\* DisconnectBlocksAndReprocess, with ActivateBestChain called afterwards.
ReprocessBlocks ==
    /\ Free /\ tip /= Genesis
    /\ \E n \in 0 .. nReprocess :
          /\ tip' = Back(n + 1) /\ coins' = tip'
          /\ disk' = Flushed(nStatus, dirty, tip', nHeightLast)
    /\ dirty' = {}
    /\ UNCHANGED <<nStatus, nSequenceId, nBlockSequenceId, linked, setBlockIndexCandidates,
                   mapBlocksUnlinked, nHeightLast, step, mode>>

\* DisconnectTip fails for one of the blocks; its result is not looked at.
ReprocessBlocksFails ==
    /\ Free /\ FlushFails
    /\ \E n \in 0 .. nReprocess :
          /\ tip' = Back(n) /\ tip' /= Genesis /\ coins' = Parent[tip']
          /\ \/ n = 0 /\ UNCHANGED <<dirty, disk>>
             \/ n > 0 /\ dirty' = {} /\ disk' = Flushed(nStatus, dirty, tip', nHeightLast)
    /\ UNCHANGED <<nStatus, nSequenceId, nBlockSequenceId, linked, setBlockIndexCandidates,
                   mapBlocksUnlinked, nHeightLast>>

-----------------------------------------------------------------------------
(* What ends up on disk, and what the node makes of it when it starts. *)

Flush ==
    /\ Free
    /\ disk' = Flushed(nStatus, dirty, coins, nHeightLast) /\ dirty' = {}
    /\ UNCHANGED <<nStatus, nSequenceId, nBlockSequenceId, linked, setBlockIndexCandidates,
                   mapBlocksUnlinked, tip, coins, nHeightLast, step, mode>>

NoSequence == [b \in Blocks |-> 0]

\* The process ends and what it had in memory is gone.
Exit ==
    /\ mode' = "down" /\ step' = None /\ tip' = None /\ coins' = None
    /\ nStatus' = [b \in Blocks |-> {}] /\ nSequenceId' = NoSequence /\ nBlockSequenceId' = 1
    /\ linked' = {} /\ setBlockIndexCandidates' = {} /\ mapBlocksUnlinked' = {}
    /\ dirty' = {} /\ nHeightLast' = 0

\* The entries that FlushStateToDisk has written when it ends early: it goes
\* through them in the order of their addresses.
FirstDirty ==
    {S \in SUBSET dirty : \A c \in S, d \in dirty : Address[d] <= Address[c] => d \in S}

\* It writes the file information first, and comes to the coins last.
PartlyFlushed ==
    {disk} \cup {Flushed(nStatus, S, disk.best, nHeightLast) :
                    S \in {D \in FirstDirty : TornFlush}}

\* The node stops when it is asked to.
Stopping == (Free \/ mode = "failed") /\ Exit

\* Shutdown: the flag says that the node stopped properly, also when nobody
\* looks at the result of the last flush.
Shutdown ==
    /\ Stopping
    /\ disk' = [Flushed(nStatus, dirty, coins, nHeightLast) EXCEPT !.prepared = TRUE]

ShutdownFails ==
    /\ Stopping /\ DiskFull
    /\ \E new \in PartlyFlushed : disk' = [new EXCEPT !.prepared = TRUE]

Crash ==
    /\ mode \in {"run", "failed", "fixing", "fixed", "unfixed"} /\ Exit
    /\ disk' = disk

\* A crash between two of the disconnections of InvalidateBlock(b).
CrashInvalidating(b) ==
    /\ Free /\ b \in Revocable /\ Exit
    /\ \E t \in ActiveFrom(b) \ {tip} :
          LET S == Ancestors[tip] \ Ancestors[t]
          IN  disk' = Flushed(Invalidated(b, S), dirty \cup S \cup {b}, t, nHeightLast)

\* A crash in FlushStateToDisk, or after it failed half-way.
TornCrash ==
    /\ TornFlush /\ Stopping
    /\ disk' \in PartlyFlushed

OnDisk == {b \in Blocks : disk.index[b] /= {}}

\* vSortedByHeight: the number of entries before b.
Position(b) ==
    Cardinality({a \in OnDisk : \/ Height(a) < Height(b)
                                \/ Height(a) = Height(b) /\ Address[a] < Address[b]})

Entry(i) == CHOOSE b \in OnDisk : Position(b) = i
LastEntry == Entry(Cardinality(OnDisk) - 1)

\* The file information and the index disagree after a crash.
Inconsistent ==
    /\ ~disk.prepared /\ ~ForceStart
    /\ Cardinality(OnDisk) /= disk.heightLast + 1 /\ disk.heightLast /= 0

\* pindexLastMeta: the first entry past nHeightLast that is higher than the
\* block of the coins, or the last entry.
LastMeta ==
    LET past   == {b \in OnDisk : Position(b) > disk.heightLast}
        higher == {b \in past : Height(b) > Height(disk.best)}
    IN  IF higher = {} THEN LastEntry
        ELSE CHOOSE b \in higher : \A a \in higher : Position(b) <= Position(a)

OnDiskFailed(b) == disk.index[b] \cap {"FAILED_VALID", "FAILED_CHILD"} /= {}

LoadedLinked == {b \in Blocks : \A a \in Ancestors[b] : "DATA" \in disk.index[a]}

LoadedCandidates == {b \in LoadedLinked : ~OnDiskFailed(b)}

\* The first part of LoadBlockIndexDB.
LoadBlockIndex ==
    /\ mode \in {"down", "abort"}
    /\ nStatus' = disk.index
    /\ nSequenceId' = NoSequence /\ nBlockSequenceId' = 1
    /\ linked' = LoadedLinked
    /\ mapBlocksUnlinked' = {b \in Blocks : "DATA" \in disk.index[b]} \ LoadedLinked
    /\ coins' = disk.best /\ dirty' = {} /\ nHeightLast' = disk.heightLast /\ step' = None

\* An entry whose parent is missing: LoadBlockIndexGuts makes one up, without
\* any flags.  What becomes of the node then is not followed.
Orphaned == \E b \in OnDisk \ {Genesis} : Parent[b] \notin OnDisk

\* A start without repair.  PruneBlockIndexCandidates asserts that some
\* candidate is left.
Restart ==
    LET left == Prune(NoSequence, LoadedCandidates, disk.best)
    IN  /\ LoadBlockIndex /\ (Orphaned \/ ~Inconsistent)
        /\ tip' = disk.best
        /\ setBlockIndexCandidates' = left
        /\ mode' = CASE Orphaned -> "broken" [] ~Orphaned /\ left = {} -> "abort" [] OTHER -> "run"
        /\ disk' = [disk EXCEPT !.prepared = FALSE]

\* A start with repair: the chain is set to the block before pindexLastMeta
\* and that block is processed again, while the coins stay where they are.
\* Without an entry past nHeightLast the vector is read out of bounds.
Repair ==
    /\ LoadBlockIndex /\ Inconsistent /\ ~Orphaned
    /\ setBlockIndexCandidates' = LoadedCandidates
    /\ disk' = disk
    /\ \/ /\ Cardinality(OnDisk) <= disk.heightLast
          /\ tip' = disk.best /\ mode' = "abort"
       \/ /\ Cardinality(OnDisk) > disk.heightLast
          /\ tip' = Parent[LastMeta]
          /\ \/ "DATA" \notin disk.index[LastMeta] /\ mode' = "unfixed"
             \/ /\ "DATA" \in disk.index[LastMeta]
                /\ \/ /\ ~OnDiskFailed(LastMeta) /\ ~OnDiskFailed(Parent[LastMeta])
                      /\ mode' = "fixing"
                   \/ /\ \/ OnDiskFailed(LastMeta) \/ OnDiskFailed(Parent[LastMeta])
                         \/ "unacceptable" \in Outcomes[LastMeta]
                      /\ mode' = "fixed"

\* ProcessNewBlock has returned: the coins must have reached the last entry.
FinishRepair ==
    LET fixed == mode /= "unfixed" /\ coins = LastEntry /\ "DATA" \in nStatus[LastEntry]
        left  == Prune(nSequenceId, setBlockIndexCandidates, coins)
    IN  /\ \/ mode \in {"fixed", "unfixed"}
           \/ mode = "fixing" /\ step = None /\ Dropped = {} /\ MostWork \in {None, tip}
        /\ nHeightLast' = Height(LastEntry)
        /\ disk' = Flushed(nStatus, dirty, coins, Height(LastEntry)) /\ dirty' = {}
        /\ tip' = coins /\ setBlockIndexCandidates' = left
        /\ mode' = IF fixed /\ left /= {} THEN "run" ELSE "abort"
        /\ UNCHANGED <<nStatus, nSequenceId, nBlockSequenceId, linked, mapBlocksUnlinked,
                       coins, step>>

-----------------------------------------------------------------------------
Activate ==
    \/ FindMostWorkChain \/ DisconnectTip \/ AssertionFails
    \/ \E b \in Blocks : ConnectTip(b) \/ ConnectTipInvalid(b) \/ ConnectTipRefused(b)

Operate == \E b \in Blocks :
    \/ AcceptBlock(b) \/ AcceptBlockFails(b) \/ WriteBlockFails(b)
    \/ InvalidateBlock(b) \/ ReconsiderBlock(b)

\* A flush fails before the tip is where the coins are.
Fail ==
    \/ DisconnectTipFails \/ ReprocessBlocksFails
    \/ \E b \in Blocks : ConnectTipFails(b) \/ InvalidateBlockFails(b)

Stop ==
    \/ Flush \/ Shutdown \/ ShutdownFails \/ Crash \/ TornCrash
    \/ \E b \in Blocks : CrashInvalidating(b)

Start == Restart \/ Repair \/ FinishRepair

Next == Activate \/ Operate \/ ReprocessBlocks \/ Fail \/ Stop \/ Start
Spec == Init /\ [][Next]_vars

\* A node that neither stops nor crashes.
Running == Init /\ [][Activate \/ Operate \/ ReprocessBlocks \/ Flush]_vars

\* ActivateBestChain is called whenever a block came in and goes on until there
\* is nothing left to do, and a node that stopped is started again.  One that
\* was asked to stop does so, or its next step fails the assertion.
FairSpec == Spec /\ WF_vars(Activate) /\ WF_vars(Start)

-----------------------------------------------------------------------------
(* Properties *)

\* Every variable has values of its type.  The tip that a repair starts from
\* may be a block whose chain lacks data.
TypeOK ==
    /\ nStatus \in [Blocks -> SUBSET Flags]
    /\ nSequenceId \in [Blocks -> 0 .. nBlockSequenceId - 1]
    /\ nBlockSequenceId \in 1 .. Cardinality(Blocks) + 1
    /\ linked \subseteq Blocks /\ setBlockIndexCandidates \subseteq linked
    /\ mapBlocksUnlinked \subseteq Blocks \ linked
    /\ tip \in Blocks \cup {None} /\ coins \in linked \cup {None} /\ dirty \subseteq Blocks
    /\ step \in [target : Blocks, old : Blocks] \cup {None}
    /\ mode \in {"run", "failed", "down", "fixing", "fixed", "unfixed", "abort", "broken"}
    /\ disk \in [index : [Blocks -> SUBSET Flags], best : Blocks,
                 heightLast : 0 .. Cardinality(Blocks) - 1, prepared : BOOLEAN]
    /\ nHeightLast \in 0 .. Cardinality(Blocks) - 1

\* A block is linked exactly when it and all blocks before it have their
\* data, and waits in mapBlocksUnlinked exactly when only others lack it: the
\* equivalences CheckBlockIndex asserts about nChainTx and mapBlocksUnlinked.
LinkedExact ==
    /\ linked = {b \in Blocks : \A a \in Ancestors[b] : "DATA" \in nStatus[a]}
    /\ mapBlocksUnlinked = {b \in Blocks : "DATA" \in nStatus[b]} \ linked

\* Both hold over late data, failed writes, crashes and restarts.
IndexConsistent == TypeOK /\ LinkedExact

\* ReconsiderBlock(r) may clear the flags of a, a block before r, and does not
\* make it a candidate.
ClearedBefore(r, a) ==
    /\ Known(r) /\ a \in Ancestors[r] \ {r, Genesis}
    /\ a \in Revocable \/ Outcomes[a] /= {"valid"}

\* It leaves the other blocks after a as they are, failed or not a candidate.
BesideReconsidered(b) ==
    \E r \in Revocable \cup Rejected, a \in Ancestors[b] :
        ClearedBefore(r, a) /\ r \notin Ancestors[b]

\* A failed block that it leaves failed is on neither side of r.
LeftFailed(b) ==
    \E r \in Revocable \cup Rejected, a \in Ancestors[b] :
        ClearedBefore(r, a) /\ r \notin Ancestors[b] /\ b \notin Ancestors[r]

\* Nor is a candidate left once ReprocessBlocks has disconnected a and r failed.
RanOut ==
    MostWork = None /\ \E r \in Revocable \cup Rejected, a \in Blocks : ClearedBefore(r, a)

\* When ActivateBestChain has nothing left to do, no chain that is complete
\* and not known to be invalid has more work than the active one, whatever
\* was pruned or invalidated before, and but for what ReconsiderBlock forgot.
BestChainActive ==
    (Free /\ Dropped = {} /\ MostWork \in {None, tip} /\ ~RanOut) =>
      \A b \in linked : nChainWork[b] > nChainWork[tip] =>
          (\E a \in Ancestors[b] : Failed(a)) \/ BesideReconsidered(b)

\* While nothing is being activated, no failed block is in the active chain,
\* although FindMostWorkChain only looks at the part of a chain that is not
\* active; and, as CheckBlockIndex has it, "The failed mask cannot be set for
\* blocks without invalid parents", but for those that ReconsiderBlock left.
FailuresExact ==
    Free => /\ \A a \in Ancestors[tip] : ~Failed(a)
            /\ \A b \in Blocks : Failed(b) =>
                  (\E a \in Ancestors[b] : "FAILED_VALID" \in nStatus[a]) \/ LeftFailed(b)

\* SCRIPTS valid implies all parents SCRIPTS valid, in the index and on disk,
\* so that a node that restarts never trusts a block on unchecked ones.
ScriptsChecked ==
    \A b \in Blocks : \A a \in Ancestors[b] \ {Genesis} :
      /\ "SCRIPTS" \in nStatus[b] => "SCRIPTS" \in nStatus[a]
      /\ "SCRIPTS" \in disk.index[b] => "SCRIPTS" \in disk.index[a]

\* Whenever the node may die, what is on disk can be loaded: the coins belong
\* to a block whose chain has all its data, and no entry lacks its parent.
DiskLoads ==
    /\ \A a \in Ancestors[disk.best] : "DATA" \in disk.index[a]
    /\ \A b \in OnDisk : Ancestors[b] \subseteq OnDisk

\* Only a node whose own flush failed on the way to a new tip ends in an
\* assertion.  What it leaves behind, and what a crash leaves behind, starts
\* again without one: a candidate is left, as PruneBlockIndexCandidates asserts
\* ("Either the current tip or a successor of it we're working towards"), and
\* the coins belong to the tip, as ConnectBlock and DisconnectBlock assert.
AbortsOnlyFailed == [][mode' = "abort" => mode = "failed"]_vars

\* Once the node is left to its blocks, with no more crashes, failed flushes,
\* shutdowns or reprocessing, it runs, and every chain of valid blocks that it has is
\* overtaken or active in the end, also when a better chain turns out to be
\* invalid on the way or a crash cut a reorganisation short.
BestValidWins ==
    <>[][mode' \notin {"down", "failed"} /\ ~ReprocessBlocks]_vars =>
        <>[](/\ mode = "run"
             /\ \A b \in linked : (\A a \in Ancestors[b] : Outcomes[a] = {"valid"})
                                    => nChainWork[b] <= nChainWork[tip])
=============================================================================
