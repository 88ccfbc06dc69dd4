# Scrypta in TLA+

TLA+ models of the Scrypta core node (a proof-of-stake chain with masternodes, descended from PIVX and
Dash), with the TLC runs that check them on small instances and TLAPS proofs of the most important results.
The code is under `src/src`; file names below are relative to it. Names of variables, functions and message
types are those of the code. `PROJECT.json` maps each definition to the lines it stands for and lists the
runs, mutants, hazards and theorems.

## 1. The system

One process, `lyrad`, with these threads: a socket thread, **one message handler** thread (all protocol
messages), the staker, the masternode thread (`ThreadCheckObfuScationPool`, which calls
`masternodeSync.Process`, the cleaning functions and the mixing pool every second), script-check workers,
RPC workers, the wallet flusher. Block and chain state is protected by `cs_main`; the masternode parts have
locks of their own, some released between two halves of an operation, and some maps have none.

| Part | State it keeps | Operations | What is hard | Correct means |
|---|---|---|---|---|
| Script check queue (`checkqueue.h`) | queue, nIdle, nTotal, nTodo, fAllOk | Add, Loop, Wait, the control object | many threads, one mutex, two condition variables, interrupted workers | every check runs once, the verdict is their conjunction, Wait returns |
| Block tree and active chain (`main.cpp`, `chain.h`, `txdb.cpp`) | mapBlockIndex with flags, setBlockIndexCandidates, mapBlocksUnlinked, chainActive, coins, dirty entries, the files | AcceptBlock, ActivateBestChain, invalidateblock, reconsiderblock, ReprocessBlocks, flush, load with repair | cs_main is released between steps; crashes between writes; late invalid blocks | the best valid chain is active, what is on disk can be loaded |
| SwiftTX (`swifttx.cpp`) | lock requests, votes, locks, locked inputs | "ix", "txlvote", wallet request, cleaning | messages in any order, refused requests, conflicting locks, expiry | locks need distinct ranked votes, no double spend, locks end |
| Masternode payments (`masternode-payments.*`) | votes, tallies, last votes | "mnw", ProcessBlock, CleanPaymentList, file | two voters, three steps under different locks, cleaning, an older or torn file | the tally equals the votes, the node accepts its own template |
| Masternode synchronisation (`masternode-sync.*`) | stage, attempts, times, requests made | Process, Added..., Reset, IsBlockchainSynced | time-outs, peers that leave, locks not obtained, sleep, a spork that comes late, resets by other threads | no stage skipped empty-handed, no silent hang |
| Sporks (`spork.*`) | newest value per spork | "spork", IsSporkActive | values change under running operations | only newer signed values replace older ones |
| Masternode list (`masternode*.cpp`, `activemasternode.cpp`) | vMasternodes, seen maps, asked maps | "mnb", "mnp", "dseg", Check, CheckAndRemove | clocks, expiry, removal before replacement, throttled checks, entries that move in the vector, a rising minimum protocol, a node that is itself in the list | the newest broadcast wins, a live masternode stays, a removed one can return |
| Budget (`masternode-budget.*`) | proposals, budgets, votes, orphan votes | "mprop", "mvote", "fbs", "fbvote", NewBlock | votes before their item, vote updates by time, fees that mature late, automatic voting | votes are neither lost nor turned back, the budget spends what it may on the best proposals, the node accepts its own payment |
| Coins cache (`coins.*`, `undo.h`) | layers of entries with DIRTY and FRESH, undo data | AccessCoins, ModifyCoins, BatchWrite, Flush, connecting and disconnecting blocks, VerifyDB | flags across layers, failed and torn writes, entries that come back | each layer holds the unspent outputs of its best block, every block can be undone |
| Memory pool, orphans (`txmempool.*`, `main.cpp`) | mapTx, mapNextTx, mapOrphanTransactions | "tx", accept, remove, orphan limit, ConnectTip, DisconnectTip | descendants, orphans in any order, reorganisations, maturity | the pool can be mined on the tip, indexes agree, nothing that can return is lost |
| Block download (`main.cpp`) | mapBlocksInFlight, per-peer queues | mark, request, time-out | stalling and disconnecting peers | counters agree, every block is asked for again |
| Mixing pool (`obfuscation.*`) | session, entries, signatures | "dsa" ... "dsc", CheckTimeout | a session of several parties with time-outs | no collateral is charged without cause |
| Address manager, network, wallet, staking kernel, miner, scripts, RPC, GUI, libraries | | | | see section 7 |

Interactions. A block goes from the message handler to `ProcessNewBlock`: `CheckBlock` consults the SwiftTX
locks and the payment tally, `ConnectBlock` uses the check queue, and a lock that completes for a refused
request calls `ReprocessBlocks`, which disconnects and reconnects the active chain. SwiftTX and payments rank
masternodes by the hash of an old block. Almost every masternode message is dropped until
`IsBlockchainSynced`, and enforcement starts with `IsSynced`.

## 2. Modules

| Module | Models |
|---|---|
| `CheckQueueControl` | what the caller of the pool relies on: add checks, Wait returns whether all pass |
| `CheckQueue` | the pool itself; `ImplementsControl` is the refinement to the former |
| `CheckQueue_proofs` | proofs of its invariants and of the refinement |
| `SwiftTX`, `SwiftTX_proofs` | transaction locks at one node with pool, chain and block filter, and proofs of their safety |
| `MasternodePayments`, `MasternodePayments_proofs` | votes, tallies, template and block check, and proofs of their safety |
| `ChainState`, `ChainState_proofs` | block tree, activation, operator commands, disk, crash, restart, repair, and proofs of all safety properties |
| `MasternodeSync` | the stages of synchronisation |
| `Ledger` | blocks with transactions, and the unspent outputs of a chain computed from nothing else: what the two next modules are compared with |
| `Coins` | CCoins: spending, undoing, serialisation |
| `CoinsCache`, `CoinsCache_proofs` | the caches over the database, blocks connected and disconnected through them, flushes and crashes, and proofs of all its properties |
| `Mempool`, `Mempool_proofs` | the memory pool, orphan transactions, the "tx" handler, and the pool's part of ConnectTip and DisconnectTip, and proofs of all its properties |
| `Budget`, `Budget_proofs` | proposals, finalized budgets, their votes, automatic voting and submission, payments, and proofs of all its properties |
| `MasternodeList` | broadcasts, pings, states, removal and the activation of this node |
| `Masternodes_proofs` | proofs of the safety of the two modules about masternodes, each on its own |
| `MC...` | the small instances; each `.cfg` is one run |

A definition named as a mutant in its comment is a plausible wrong version of the definition after it. It is
used by no specification; each property is known to fail for one of them.

### CheckQueue

An action is one critical section of the mutex: `EnterLoop`, `Finish` and `Wake` (entering Loop, coming back
with a batch, waking up) all end in `Settle`, the body of the inner loop: return (the master, when nTodo is
0), block, or take a batch off the back. `Execute` runs the checks outside the lock. `SpuriousWake` and
`Interrupt` are what Boost may do to a waiting thread. `vChecks` keeps the batch until its result has been
merged, which is when the code decrements nTodo. `added` and `ret` are history.

### SwiftTX

A message handler is one action. `RequestAccepted` and `RequestRejected` are the two outcomes of "ix",
`VoteRefused` and `VoteCounted` those of "txlvote". `mapTxLockReq` has the value "empty" for the entry
that `operator[]` inserts when votes complete a lock whose request is not there, and such a transaction has no
inputs. Votes are identified by masternode and transaction, as `GetHash` does. `left` counts down to
`nExpiration`. `ReprocessBlocks` leaves open which stored blocks become active again, because that depends
on their work. Ranks and lock heights are constants. The maps have no lock although the cleaning thread uses
them; what that race does inside a `std::map` is not modelled.

### MasternodePayments

A vote takes three steps, because the code checks it against the tip under `cs_main` (`CheckWinner`, or
`ProcessBlock` for the node's own), records it under the two locks of the class (`RecordWinner`, `DropWinner`) and
counts it under neither (`CountWinner`). `Connect`, `Disconnect` and `CleanPaymentList` come in anywhere between.
`Windows` and `Limits` are what the two bounds that depend on the size of the list may be; they overlap, as they do in
the code from 800 enabled masternodes on. `file` is mnpayments.dat, None if it is torn: an orderly `Restart` writes
it, unless it cannot make sense of what is there, and a `Crash` starts with what an earlier stop wrote, on the same or
an earlier tip. The cleaning after reading is skipped when `cs_main` is taken. The last-vote map and
`nLastBlockHeight` are not in the file. `top`, the highest tip so far, is history.

### ChainState

The block tree is a constant (`Blocks`, `Parent`, `Outcomes`): the environment delivers blocks of it in any
order. `linked` stands for `nChainTx != 0`. `step` is the `ActivateBestChainStep` under way: only a crash
can come between its DisconnectTip and ConnectTip actions, while between steps everything can. `disk` is what
has been written: the index entries, the block of the coins, the height of the last block file, and the flag
of an orderly shutdown. ConnectBlock writes single index entries at once; FlushStateToDisk writes the dirty
entries and then the coins, and `TornCrash` stops it after a prefix in the order of the addresses
(`setDirtyBlockIndex` is a set of pointers). `Address` is fixed for an instance.

A flush can fail (`FlushFails`, with `DiskFull`): ConnectTip and DisconnectTip then return after the coins moved and
before the tip does (`ConnectTipFails`, `DisconnectTipFails`, and the same in `InvalidateBlockFails` and
`ReprocessBlocksFails`). AbortNode has asked for the shutdown by then: mode "failed", in which the node may come to
another block (`AssertionFails`), die (`Crash`, `TornCrash`), stop, or stop with a last flush that fails too
(`ShutdownFails`).

At a start without `-forcestart` LoadBlockIndexDB may repair: `Repair` and `FinishRepair` follow it,
including its wrong turns (mode "abort": an assertion or an error stops the node; "broken": an entry without
its parent was found, and the made-up parents are not followed further). `hashNext` is never set by the code,
so the successors it would create do not exist. The tip that the repair starts from may be a block whose chain
lacks data. Only there and after a failed flush is the tip away from the coins.

`BesideReconsidered`, `LeftFailed` and `RanOut` say where ReconsiderBlock leaves the index in a state that
CheckBlockIndex does not expect (section 6); the two properties of `chain_run` make an exception for
those blocks and no others.

### MasternodeSync

`Process` decides what to do, composed of the calls the code makes, in their order, on the record of the fields that
Reset and GetNextAsset assign; `Proceed` does it. A Reset of another thread (`IsBlockchainSynced` after an hour,
`ResetCommand`) can come in between, as can items and sporks; peers cannot, as `cs_vNodes` is held. GetNextAsset then
starts from the stage that was read or from the one that the Reset left. `spork8` is IsSporkActive(SPORK_8), which a
message or the time can change at any moment; it is read when a stage times out. `skipped` and `crossed` are history:
the stages given up since the last Reset while the spork was off, and whether that Reset came between a decision and its move.
Times are kept as "never", "recent" or "old" with respect to the limit
they are compared with, and age independently of each other, which allows more orders than a clock would.
`locked` and `cleared` are the two TRY_LOCKs of `cs_vNodes`. One item stands for the items of a stage; it is
counted at most THRESHOLD times, as in the code. The order of `vNodes` is left open: it decides which of the
peers not yet asked comes first, and stages do not depend on that.

### Ledger, Coins and CoinsCache

`UtxoOf[b]` of `Ledger` is the set of outputs (with height and kind) that the chain up to b leaves unspent,
straight from the transactions. `CoinsCache` gets there as the code does: a view per block over `pcoinsTip`
over the database, `Fetched`, `Modifiable` and `BatchWritten` with their DIRTY and FRESH flags, `ConnectBlock`
and `DisconnectBlock` transaction by transaction with undo data, and records that are serialised and read
back (`Serialize`, `Unserialize`, with the mask of spent outputs) at the database. `FlushState` writes the index,
with where the undo data is, and then the coins; `CrashInFlush` stops it between the two, and `WritesFail` lets the batch of
coins fail (`FlushThrows`), which empties the cache without writing it and asks for a shutdown. ConnectTip and
DisconnectTip return before the tip moves when their flush failed, so pcoinsTip is then at another block than
chainActive, and the assertions of ConnectBlock and DisconnectBlock stop the process if it comes there again
(`Extends`). `lost` records that a later flush, at the latest the one at shutdown, wrote a best block without its
coins, or undo data made from the wrong ones. `Start` is VerifyDB on what is on disk.

### Mempool

A "tx" message is a sequence of actions, `AcceptTx`, `ResolveOrphans` for each entry of vWorkQueue, `FinishTx`,
under one lock (the orphans that spend an entry are looked at in the order of their hashes, `ReconsiderAll`): the intermediate states are there because the pool and the index of orphans disagree in them.
`Accept` checks what AcceptToMemoryPool checks, except fees and scripts, which are sets of transactions;
DisconnectTip calls it with fLimitFree=false, so that what is refused for its fee as a message comes back from a block.
`ConnectTip` and `DisconnectTip` change the pool as in main.cpp; `LockInputs` and `ReleaseInputs` stand for
SwiftTX. Inputs are released by a thread that does not take `cs_main`, so also between the actions of a handler. Orphans are evicted by `Victims`, any of them. `ByHash` is the order of a std::set of hashes.

### Budget

`M` is CBudgetManager as a record, and handlers are operators on such records that call one another as the
functions do, so that an action is a whole handler or a whole NewBlock. `known` unites mapProposals and
mapFinalizedBudgets; `EntryAt` is what an entry can be at a height. rand() in NewBlock and AutoCheck is a choice. A cycle has seven blocks and NewBlock works
every third one. `Sorted` stands for std::sort with sortProposalsByVotes, which as hashes differ has one
result, and `allotted` for the loop of GetBudget. `disturbances` counts restarts, resets, full syncs, missed blocks and changes of the list or
of keys, and is bounded.

### MasternodeList

An entry keeps its broadcast, the times of its last ping and check, and its state. `CheckInputsAndAdd` follows
the order of the code: the old entry is removed before the collateral of the new one is looked at for good, and a
broadcast signed before the block of the collateral's fifteenth confirmation (`confTime`, which a reorganisation can
change) is refused but stays seen. `locked` in its places is the TRY_LOCK of cs_main. `slot` is the place of an entry in the vector: erasing one (`Erased`)
moves those behind it up, and as CMasternode::operator= does not swap lastTimeChecked they take over the check
time of the place; `push_back` of a vector that has to grow (`Pushed`) resets it. `CheckEntry` is Check by
itself, as CountEnabled and others call it. `onlyUpdated` is the minimum protocol, which sporks raise and lower: `Outdated` entries
are removed by the cleaning whatever their state.

`ManageStatus` of CActiveMasternode, for a node that is started remotely, holds no lock: it is three steps, Find and
Check (`ManageStatus`), `EnableHotColdMasterNode` on whatever is by then in the place that the pointer leads to, and
`SendMasternodePing`. Pings may carry any time; one that comes inside a broadcast is copied into a new entry without a check,
and a broadcast may have none. `Fault` counts restarts, locks that are taken, changes of a collateral or of the
minimum, and loss of the block chain's synchronisation. `inherited` (entries with the check time of another one) and
`pingless` (the last step was a broadcast without a ping) are history.

## 3. Runs

Every run ends without an error. The counts are distinct states.

| Run | States | Shows |
|---|---|---|
| `checkqueue` | 394,000 | the books of the pool (counters, one place per check, no lost failure), idle assertion, refinement, Wait returns |
| `swifttx_votes` | 8,800 | votes behind a lock are distinct and for its height, locks end |
| `swifttx_conflict` | 638,000, symmetric | two transactions on one output: no double spend, locked inputs of a request that was not refused belong to a complete lock |
| `payments_safety` | 3,600,000, symmetric | through cleaning between the steps of a vote, older and torn files: tallies agree with votes, enforcement backed, own template accepted |
| `chain_run` | 552,000 | a node that does not stop: best chain active, no failed block active, failures have a cause |
| `chain_crash` | 88,900 | crashes between any two steps and inside a flush, failed flushes: the index is consistent, only a node whose own flush failed ends in an assertion, the best valid chain wins in the end |
| `chain_torn` | 42,700 | crashes inside the flush and inside invalidateblock, with the repair: what is on disk loads, and no block is trusted over unchecked ones |
| `sync` | 544,000 | stages are not left empty-handed but with spork 8 off or by a reset in the middle; finishing, failing or starving |
| `coins` | 45,500 | memory and disk hold the unspent outputs of their best block, entries are sound, the tip can be undone, the node starts again |
| `mempool` | 11,700 | the pool can be mined on the tip, indexes agree, orphans are resolved, disconnected blocks give back what they can |
| `budget` | 204,000 | votes are kept and never turned back, the budget spends the most it may in the order of support, own payments are accepted |
| `mnlist` | 362,000 | while it is listed the newest broadcast wins, live masternodes stay, stale ones go, removed ones can return |

Bounds and why they are enough.

* `checkqueue`: two workers, a master and four checks with batches of two. A batch is then smaller than the
  queue, both workers and the master can hold one at the same time, and one check fails. The proofs remove
  the bounds for everything but liveness.
* `swifttx_votes`: three masternodes of which two must sign, one of them this node, and votes for a wrong
  height. `swifttx_conflict`: two transactions that share one input, one of them with a second input, two
  masternodes, one signature required; more transactions would meet pairwise. A lock lives one tick.
* `payments_safety`: two masternodes, both votes needed, two payees, two voting threads, a tip up to height 3 and two
  starts. The limit is 1 and the window 0 or 1, equal as in the code from 800 masternodes on, so that a height is voted on, enforced and cleaned
  within the bound, also between the steps of a vote.
* `chain_*`: two branches of two or three blocks. A reorganisation needs a branch point, a step in the middle
  and an end; an invalid block needs a valid one before it and room for one after it. `chain_run` forks
  once more above a block that can be invalidated, because reconsidering one of two siblings concerns the
  other. In `chain_crash` and `chain_torn`, which cut flushes short, entries lie in memory in the order of their heights;
  `chain_torn` has one branch.
* `sync`: two peers, one of which reconnects, so that three requests for sporks are possible, while the other is
  so old that it is asked for nothing else; a spork 8 that comes and goes; and a threshold of 1, so that the limit of three times the threshold is reached.
* `coins`: seven blocks that fit, on three branches, two that do not, nine transactions. One has eleven
  outputs, so that the mask has two bytes and the boundaries at outputs 2, 9 and 10 are met; one is in both
  branches at different heights; a coinbase is repeated after and before it is spent, and is spent after a flush
  that failed; coinbases mature after one block. The cache limit is small enough to flush by size.
* `mempool`: seven blocks, thirteen transactions that conflict, depend on each other in three generations, or
  cannot be accepted; two peers and two orphans at most, so that eviction meets chains of orphans.
* `budget`: two stored proposals of which only one fits, a finalized budget for each with fees that mature
  at different heights, two masternodes among eleven, three further votes that reverse the order, and one
  disturbance; up to the block that is paid. With nine masternodes that are only counted, both the 5% of the
  template and the 10% margin of the check are at their rounding edges.
* `mnlist`: two collaterals, so that erasing the first entry moves the second; two broadcasts for the first, of
  which the older has the older protocol and another key, and one for the second; pings of which one is missing or
  ahead of the clock; two ticks and one fault. Times are scaled to one tick for the short limits, two for expiry, three for removal, which keeps
  their order; the node starts at time 2, so that entries can be old from the beginning. More entries would move in the same way.

`CHECK_DEADLOCK FALSE` is set for SwiftTX, CoinsCache, Budget and MasternodeList: once every message has been
seen, the coins are corrupt or the bound on heights or times is reached, nothing has to happen.

Fairness. `checkqueue`: each thread that can run does (the operating system's scheduler; the mutex is held
briefly), but spurious wake-ups and interruptions need not happen. `swifttx_votes`: time passes and the
cleaning thread runs; no message has to arrive. `chain_crash`: ActivateBestChain, which its callers run to
the end, goes on, and a node that stopped is started again; the property assumes that crashes, shutdowns,
failed flushes and reprocessing end. `sync`: `Process` is called for ever and goes on, `cs_vNodes` is free again and again, the chain
becomes recent, time passes; no peer has to answer. The other runs check safety and what single steps may
not do, and assume no fairness.

## 4. Properties and hazards

`PROJECT.json` lists the hazards at their lines with the properties that would catch them. In short:
interleavings of the pool's threads, of activation steps, of voters; refused, repeated and early messages;
crashes between and inside writes; failures half-way through a reorganisation; entries that leave one map
and stay in another; time-outs that cannot fire; liveness of waiting, expiry, chain selection and
synchronisation. Those without a property have a note.

The invariants of a module that belong together are checked as one conjunction of named parts
(`Bookkeeping`, `ConsensusSound`, `TalliesConsistent`, `IndexConsistent`, `EntriesSound`, `IndexesAgree`); the
type invariant is one of the parts.

Where the code goes wrong in a known way, a property says so by an exception that is as narrow as it can be, and
section 6 lists it: `TalliesConsistent` asks only for "no vote missing" below the reach of cleaning,
`SyncedMeansReceived` exempts stages given up with spork 8 off and resets in the middle of Process,
`StaleRemoved` entries that moved and were not checked since, `LiveNeverDropped` broadcasts without a ping and
outdated protocols, `RemovedCanReturn` collaterals confirmed after the broadcast, `AbortsOnlyFailed` a
node that has already asked for its shutdown.

`FinishesOrStarves` says exactly how synchronisation can hang: everybody connected has been asked, and too
few were asked or nothing came. `TipRepresentsBest`, `DiskRepresentsBest` and the other properties of the coins
make an exception for the failed write of section 6, and for nothing else; `Resurrects` lists the reasons for which a transaction of a
disconnected block may stay out, and `OrphansResolved` those for which an orphan may.

## 5. Proofs

All theorems hold for every value of the constants that satisfies the ASSUME of the module.

**CheckQueue_proofs** (workers, checks and batch size arbitrary): `TypeCorrect`, `CountersCorrect`,
`ChecksInOnePlace`, `FailureNeverLost`, together `BookkeepingCorrect`, and `ConstructorAssertHolds` and
`Refinement`. The inductive invariant is

    Inv == Typed /\ BatchHeld /\ CountersAgree /\ OnePlace /\ FailureKept /\ Verdicts /\ OnlyAdded

`CountersAgree` alone is not inductive: that nTodo falls by the size of a batch needs that the batch belongs
to nobody else (`OnePlace`) and is as large as nNow says (`BatchHeld`). `FailureKept` needs what a thread's own
verdict stands for (`Verdicts`). `OnlyAdded` connects the queue with the session. Because every step of a
thread ends in `Settle`, each caller is shown to establish `Ready` of what it passes, and Settle to lead from
`Ready` back to `Inv`. The refinement uses the same invariant: only the Return of the master is a step of the
control, and `FailureKept` with nothing outstanding makes its result right.

**Masternodes_proofs**, second part (peers and threshold arbitrary, spork 8 changing at any time): `TypeCorrect` and
`ReceivedBeforeSynced`, from

    SyncInv == /\ Good(Sync) /\ Around
               /\ Pending(doing, Sync, crossed)
               /\ ~crossed => Received(Sync, skipped)

`Good` of the record of the fields includes that sporks are asked for at most three times, without which the count
carried into the next stage could pass its limit. `Pending` is what makes Proceed right although other threads
act after the decision: the stage is still the one that was read, and what it was found to have received is there,
unless a Reset came in between (`crossed`).

**SwiftTX_proofs** (masternodes, transactions, ranks, heights and signatures required arbitrary):
`ConsensusIsSound`, `AcceptedLocksAreHeld` and `DoubleSpendsExcluded`, from

    Inv == TypeOK /\ HeightsRight /\ VotesSeen /\ VotesDistinct /\ AcceptedLocksHeld /\ NoDoubleSpend

That the votes of a lock are distinct is not inductive: a vote is refused because it is in `mapTxLockVote`, so
what a lock counted has to be there (`VotesSeen`), also after the cleaning removed some of both. Assumed:
0 is among the heights, since a lock created by a vote has it, and `NoLock` is no lock.

**MasternodePayments_proofs** (masternodes, payees, heights, windows and limits arbitrary):
`TalliesAreConsistent`, `EnforcedPayeesAreBacked`, `TemplatesAreAccepted`, from

    Inv == TalliesConsistent /\ AddingRecorded /\ AddingDistinct /\ FileConsistent

Agreement of tallies and votes speaks of votes that are recorded and not counted yet. It survives `CountWinner` only
if the vote that a thread carries is recorded (`AddingRecorded`) and no other thread carries the same
(`AddingDistinct`). Both hold for *recent* heights, those that were never more than a limit below a tip
(`top`), since cleaning leaves them alone whatever the thread knew of the tip; no relation
between window and limit is assumed. For the other heights only one direction remains, that no recorded vote is
missing from a tally. `FileConsistent` carries the agreement through restarts and through crashes that read an older file.
Assumed: `None` is neither a tally, nor a vote being added, nor a file.

**Masternodes_proofs**, first part (masternodes, keys, broadcasts, times and limits arbitrary): `EntriesAreSound` and the
four action properties of `mnlist`, from `Inv == TypeOK /\ CheckedAlive`. `CheckedAlive` is what Check leaves
behind: at its last check an entry that is not to be removed (ENABLED or EXPIRED) had been pinged within the time
of removal, `lastTimeChecked < lastPing + REMOVAL_SECONDS`. It says nothing of an entry that took over the check time of another
one (`inherited`), until it is checked itself. Assumed: seconds are natural numbers and the node starts within its bound on time.

**ChainState_proofs** (any finite block tree with growing work, any verdicts, addresses, and operators).
Induction over the chain is replaced by a block that is first in a well-founded order: `LowestBlock` finds in
each set of blocks one whose parent is outside of it. Four invariants, each used for the next:

* `Inv == TypeOK /\ Counted /\ LinkedExact /\ TipsRight /\ StepRight /\ DiskRight` gives `IndexIsConsistent`. That
  a step connects only blocks that are linked and not failed needs to know of a step that it never leaves what
  both chains have (`StepRight`); that numbers given to linked blocks stay in their type needs `Counted`;
  that a start finds the data of the chain of the coins needs `DiskRight`: the disk never says more than memory,
  and what it does not say is marked to be written.
* `Supported` adds what an entry on disk says of the blocks before it, and gives `ScriptsAreChecked` and
  `DiskAlwaysLoads`. ConnectBlock writes one entry before it knows the result. This does no harm because
  blocks that were checked since the last flush are all active (`CheckedActive`), and the block being
  connected is not, and because the entries before it have been written (`HeadersWritten`). The theorems assume
  `TornFlush => AddressesAscend`: a flush cut short between entries writes them in the order of the addresses of
  the CBlockIndex, and with a child at a lower address than its parent the conclusion is false (section 6).
  Without such crashes nothing is assumed.
* `Healthy` gives `OnlyFailedNodeAborts`, prepared and unprepared stops, failed flushes and crashes anywhere included. It says that the
  blocks up to the one of the coins are not failed, in memory and on disk, so that a start finds that block among the
  candidates and takes it for its tip. Two hypotheses, each about steps that do not
  happen: no InvalidateBlock is cut short by a crash or a failed flush between two of its disconnections (`Uncut`), and no start
  repairs (`~Repair`, which `-forcestart` guarantees and an orderly stop too); without either the conclusion is false
  (section 6). FAILED_CHILD is set without marking the entry dirty, so the disk may know less of failures than
  memory, but never more (`Forgotten`), and the coins on disk are never ahead of those in memory but after a
  flush that failed.
* `FailuresCaused`, with `Healthy`, gives `FailuresAreExact` for a node that runs. A mark survives its cause only
  beside a reconsidered block, and this is inherited by the blocks after it (`LeftAfter`).
* `Covered`, with `Healthy`, gives `RunningChainIsBest`, for a node that runs. Blocks drop out of the candidates
  whenever the tip moves forward, and it moves back without putting them in again (DisconnectTip, ReprocessBlocks); so
  the invariant does not mention the tip: a block without a flag is a candidate, or a candidate *covers* it, one with
  an unfailed chain that consists of blocks whose checks can pass and that does not sort before it. A reorganisation that fails half-way
  cannot remove the cover, because the failing block is in no such chain, and InvalidateBlock's refill and
  the pruning in ConnectTip make the tip the cover of all that is worse. Two hypotheses: `ValidStays`, that no block has both a
  passing and a failing outcome (else the failure removes a cover, section 6; a block may still be refused and let pass later);
  and `NoFailureBefore`, that no block is reconsidered while one before it is failed (else a cleared block is no candidate).
  Under them the property holds without the exceptions `RanOut` and `BesideReconsidered`
  (`NothingBetter`). The exceptions are meant for instances as small as the one of `chain_run`: once candidates ran out, blocks
  on a third branch can come back into play that no exception names. What restarts do to the best chain is checked
  (`BestValidWins`) and not proved.

**Budget_proofs** (masternodes, items, votes, payments and limits arbitrary): `TypeCorrect`, `VotesAreKept`,
`TemplatesAreAccepted`, `BudgetIsSpentBest`. The inductive invariant `Inv` is the type of the manager at the height of the tip, and
that an orphan vote is kept under the item it is for (`Sound`). Every operation of the manager is shown to keep
`Sound` and to let the votes of each item only grow (`Grows`: none is missing afterwards, or replaced by one less
than UpdateMin newer). `Grows` is reflexive and transitive, so the handlers and NewBlock, which compose the
operations, need only cite them; restart and Clear, which may empty the maps, are treated apart. That CheckOrphanVotes
takes up the orphan vote of an item just added is shown for the two places where items are added.
`TemplatesAreAccepted` has no invariant but that masternodes in the list are masternodes: it compares the budget that FillBlockPayee picks with
the highest count that IsTransactionValid finds. `BudgetIsSpentBest` is about the loop of GetBudget. That its list exists, has each proposal
once and none before a better one (`SortedProposals`) follows from the number of better ones being different for each
(`Listing`); the invariant of the loop is `Spent`: what is allotted is the sum of the amounts, and whatever was left out
does not fit beside the better ones that are in. Later turns keep this as they pay only worse ones.
Assumed: `None` is no item, masternode, vote or entry, the state at the start is well typed, and
`ByHash` lists each item once.

**Mempool_proofs** (any transactions, blocks, peers, limits and order of hashes): `PoolInvariant`, `PoolCanBeMined`,
`OrphansTakenUp`, `IndexesAlwaysAgree`, `BlocksReturn`. The unspent outputs of a chain, the loops over the
transactions of a block and the loop over the orphans are recursive functions. `TreeRecursion` shows that a
function defined from the root of a well-founded tree upwards exists, by uniting its partial solutions; loops
are the tree of the numbers (`Iteration`), and `UpTheTree` and `EveryTurn` are induction along both, over the
values of a set instead of an operator. The inductive invariant is

    Inv == /\ TypeOK /\ OrphansIndexed
           /\ Indexed(Pool) /\ Backed(Pool, UtxoOf[tip], Height[tip] + 1)
           /\ HandlerRight

* `Backed`: each input of the pool is another pooled transaction's output or an unspent and mature one of the chain. That
  the loop over a connected block keeps it up to the transactions still to come is `Connecting`, its counterpart is
  `Disconnecting`; both rest on `RemovedRecursively`: what remains after remove with descendants spends nothing
  that was removed. Removal may take away too much, so only `BlocksReturn` has to look at what stays.
* `HandlerRight`: vWorkQueue holds what was added and every pooled transaction that an orphan still to be looked
  at may depend on; for each position passed, an orphan that depends on it is done, refused, lacks another
  parent, or depends on a later position (`Settled`).
* `Unconfirmed` adds that nothing in the pool is on the active chain, so that a transaction of the chain is not
  accepted again and a disconnected block meets none of its transactions in the pool. For this the chain has
  to be `Sound`: each transaction once, each output spent once, unspent outputs only of its transactions.
* `BlocksReturn` follows the transactions of a disconnected block one by one: each is accepted if its parents were
  (`AcceptedInTurn`), and no later removal takes away one that does not depend on a removed one (`NotRemoved`,
  `StaysInPool`).

Assumed: `ByHash` lists all transactions once, the blocks are a well-founded tree, coinbases are exactly the transactions without inputs,
no signature script satisfies an OP_RETURN. `IndexesAlwaysAgree` and `BlocksReturn` have the hypothesis `CoinbasesDiffer`, that
no coinbase is in blocks of two heights: its script begins with the height (`main.cpp:3526`), but the code
enforces this only from a version of blocks on, so it is a hypothesis and no ASSUME. The instance of the run
satisfies it.

**CoinsCache_proofs** (any transactions, blocks, maturity and size of the cache): `RoundTrip`, `EntriesAreSound`,
`BatchWriteNeverAsserts`, and, about the chain, `TipIsRepresented`, `DiskIsRepresented`, `TipIsUndone`, `StartsAgain`
and `BlocksAreAcceptedByChain`.

`RoundTrip` is about Serialize and Unserialize alone: *normal* coins, those that end
with an unspent output, come back as they were unless nothing is unspent. The code counts the mask bytes that
are not zero, and one less if neither of the first two outputs is left; that the reader stops after the last byte
and takes the n-th stored output for the n-th bit that is set rests on counting (`Rank`, `Nth`). The entries and
their flags have the inductive invariant

    Inv == /\ DbOK(db) /\ TipOK(cacheCoins, db)
           /\ UndoOK(undo) /\ UndoOK(undoOnDisk)
           /\ best \in Blocks /\ hashBlock \in Blocks /\ chainTip \in Blocks
           /\ mode \in {"run", "aborting", "down", "corrupt"} /\ lost \in BOOLEAN

* `DbOK`: what the database holds reads back as normal coins that are not pruned. `TipOK`: entries of pcoinsTip are
  normal, a fresh one is not in the database, a clean one is the database's.
* `ViewOK` is what the cache of a block keeps while the loops of ConnectBlock and DisconnectBlock run: an entry
  that pcoinsTip does not know is fresh, and not in the database. This is the assertion of BatchWrite, and why the
  entry may be passed down as fresh. With `TipOK` it makes up `Work`, which each operation of the
  cache is shown to keep, so the loops need only that they consist of such operations (`HaveInputs`, `SpendInputs`
  and so on, by induction over the turn).
* `UndoOK`: the undo data of a block has an entry for each input of each of its transactions, without which
  DisconnectBlock would be undefined.

That EntriesSound holds even after a batch was lost (`lost`) is because the cache is emptied with it.

That the layers hold the right coins is a second invariant over the first, `ChainInvariance`:

    ChainInv == /\ Inv
                /\ mode = "down" => cacheCoins = NoCoins
                /\ ~lost => /\ DiskRight /\ mode /= "corrupt"
                            /\ mode = "run" => MemoryRight

* `Stands(A, U)`: the coins A, one entry or none per transaction, stand for the set of outputs U of the ledger, with
  scripts, heights and flags (`Says` of each transaction). What a cache shows is `Below` (pcoinsTip over the database)
  and `Seen` (a block's cache over both). Reading and flushing change neither; spending one output, adding a
  transaction, clearing it and restoring one output do to `Seen` what they do to the set. By induction over inputs and transactions,
  ConnectBlock on coins that stand for `UtxoOf[Parent[b]]` succeeds exactly if the block fits that
  set (`Connects(b)`, a formula about the ledger alone), and then `Seen` stands for `UtxoOf[b]`. This is also
  `BlocksAreAcceptedByChain`: which blocks are valid does not depend on what is cached, flushed or was read.
* `RightUndo(b, u)`: u holds, for each input of b, what restores it. ConnectBlock produces such data, and it depends
  on the chain below b only, so that keeping the first undo data of a block (`UndoWritten`) is right. DisconnectBlock
  with it leads from `UtxoOf[b]` to `UtxoOf[Parent[b]]` and finds nothing wrong: hence `TipIsUndone`. Needed is that a
  block that connects has no transaction twice (`NoTwins`).
* `DiskRight` and `MemoryRight`: each layer stands for its best block, and the undo data that index knows is right
  and leads back without a gap to the genesis block (`Right`, `Known`). The database needs its own best
  block in the index on disk *and* in memory, as the index is written before the coins: this is what a
  crash between the two relies on, and what fails for `CrashInFlushSwapped`.
* VerifyDB is followed block by block (`GoingDown`, `GoingUp`): each disconnection and connection meets the
  block it was proved for, so a start never finds the coins corrupt (`StartsAgain`).

Assumed of the constants: `None` is no entry, coins or undo data; no transaction spends an output twice
(CheckTransaction, `main.cpp:1004`); a coinbase is the first transaction of its block or none (CheckBlock,
`main.cpp:3337`); coinstakes have inputs and an empty first output (IsCoinStake). The theorems about the
chain have the hypothesis `MarkersStay`: the empty first output of a coinstake is never spent. DisconnectBlock does
not put fCoinStake back in an entry that was spent completely, so without it `TipRepresentsBest` is false: if `z` of
the instance also spends output 1 of `s`, TLC shows a coinstake that is not one after its spending block was
disconnected. No rule of the code forbids such an input, which is why it is a hypothesis and no ASSUME; the
instance of the run satisfies it.

Only model-checked: liveness (`WaitReturns`, `LocksExpire`, `BestValidWins`, `FinishesOrStarves`), which is
outside what the prover does, and `BestChainActive` where the hypotheses above fail.

## 6. What the code does against its comments

The models do what the code does, and the properties say what holds all the same. These behaviours of the
models disagree with a comment; each is described at its hazard.

* A refused lock request locks its inputs without a vote, and blocks that spend them are refused, although
  `main.cpp:3364` says "only reject blocks when it's based on complete consensus".
* When votes complete the lock of a refused request, the request is looked up in the wrong map and has no
  inputs; the conflict is not seen and both complete locks stay, although `swifttx.h:50` says they cancel out.
* The repair after an unprepared stop compares the number of index entries with a height. One block on a side
  branch makes it start from a block that does not fit the coins, and the assertion it is meant to avoid
  (`main.cpp:3985`) fails.
* ReprocessBlocks moves the tip back without refilling the candidates. After a block became invalid and another
  ReprocessBlocks, ActivateBestChain has nothing left to do below a valid chain.
* ReconsiderBlock clears the flags of the blocks before its argument, but makes only the argument and what comes
  after it candidates, and leaves other descendants of the cleared blocks FAILED_CHILD. Invalidate a block
  with two children, let FindMostWorkChain mark both, reconsider one: the other stays failed although
  `main.cpp:4387` says "The failed mask cannot be set for blocks without invalid parents."; and a cleared block
  with more work than the tip is no candidate, against `main.cpp:4390`.
* A batch of coins that cannot be written is erased from the cache before the exception, and the flush at
  shutdown writes the new best block without its coins, although `coins.h:345` says what the best block means.
* NewBlock clears the maps of seen budget items before ResetSync and Sync, which walk them: the full sync
  offers nothing, although `masternode-budget.cpp:1125` says that it is needed.
* Below ten masternodes the margin that is to assist in consensus (`masternode-budget.cpp:618`) is 0, and a budget has
  to have more votes than the highest: a node refuses every block with a budget payment, its own included.
  `TemplateAccepted` is about ten masternodes and more.
* `activeMasternode.vin` stays set when pinging is given up: later broadcasts of the owner are taken for
  "already activated" (`masternode.cpp:556`), left out of the list and marked as seen.
* A broadcast signed before the block of the collateral's fifteenth confirmation is refused after the entry was
  removed, and stays seen: after a reorganisation that confirms the collateral later, only a new broadcast of the
  owner brings the masternode back. `masternodeman.cpp:257` says of its own removal that this is not needed.

Others, without a comment that says otherwise.

*Chain, coins, synchronisation, payments, locks*: a coinstake whose empty output is spent too comes back without its
flag when that is undone, and then needs no maturity; inputs locked by a refused request are never released, and
if it was reprocessed and known as a request, its expiry releases an input of a complete lock still in force; CanVote
admits a second vote for a height after a vote for another height or a restart, and a vote with a bad
signature uses up the right to vote; from 800 enabled masternodes on, a vote for a height at the edge of the window can be erased before it is counted, so that its tally
has one vote more than are recorded; a torn mnpayments.dat is never overwritten, so such a node forgets the votes at every start;
a Reset between the decision of Process and its move lets it go on from the stage it had, with everything forgotten;
a node whose spork 8 message comes after the masternode list or the winners timed out is synced without them;
after a flush that failed inside ConnectTip or DisconnectTip the coins are one block off the tip, and the assertion of the next ConnectBlock
or DisconnectBlock fails unless the node stops first; a crash or a failed flush inside invalidateblock leaves the coins at a failed block and no
candidate at the next start; a crash after reconsiderblock leaves failure flags without a cause; a flush cut
short can leave an index entry without its parent; a stage of the synchronisation cannot time out once every
peer has been asked; a retry whose ClearFulfilledRequest does not get its lock asks nobody; an orphan whose
parent comes in a block is not reconsidered; only one orphan vote is kept per budget item, and those of items
whose fee matures late wait for another item; a budget vote whose signature does not verify yet is marked as
seen and lost; an expired masternode takes no pings, so it comes back only by a broadcast.

*Masternode list*: an entry that was moved to another place in the vector keeps that place's check time and can
outlive its time of removal; a new entry takes the ping of its broadcast as it is, so that a time far ahead keeps it
for ever; a broadcast without a ping replaces the ping that is there, and the entry is dropped if the broadcast cannot be
checked at that moment; raising the minimum protocol drops enabled masternodes; ManageStatus can activate the node for what is
in its entry's place by then, and a started node goes on pinging its entry after the key was changed. As
`ActiveProtocol()` is written (`main.cpp:5642`), it calls itself once SPORK_15 is active; the model lets the minimum
protocol rise all the same.

## 7. Not modelled

Cryptography, scripts, sockets, the GUI and vendored libraries: opaque to the models or sequential code
with unit tests. RPC and REST: formatting, except for the commands that are actions above. The staking kernel:
hashes and times. Wallet, miner: compositions and selection policies. Within modelled parts: relaying, amounts
of transactions, fees and their estimation, address and transaction indexes, headers-first download
(switched off in `chainparams.cpp`), reindexing, "ssc" counts, the regression-test shortcut of `Process`, the
older masternode messages "dsee" and "dseep", data races inside standard containers (the vector of masternodes
between the cleaning thread and handlers, the maps of SwiftTX). In `ChainState`: a flush that fails at rest or at
the end of a repair, torn writes inside a repair, and what a node does between a failed flush and its end but activate and stop. In
`CoinsCache`: failures of a flush before its batch of coins (disk space, index). In `MasternodeList`: two calls of ManageStatus at
a time, and an older mncache.dat that is read after a crash; in `Budget` the same of budget.dat. Ranks of masternodes are
constants of SwiftTX and MasternodePayments; the cache of block hashes behind them, which a reorganisation does
not clear, is not modelled.

## 8. Plan

1. `Spork`, then its composition with `ChainState`: values that change between checking and connecting.
2. Ranks from `MasternodeList` in `MasternodePayments` and `SwiftTX` in place of the constants.
3. `BlockDownload`: blocks in flight, time-outs, stalling peers. `AddrMan`: buckets and reference counts.
4. Difficulty and rewards as operators against reference definitions.
