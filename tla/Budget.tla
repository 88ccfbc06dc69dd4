--------------------------------- MODULE Budget ---------------------------------
(***************************************************************************)
(* The budget system of one node (src/src/masternode-budget.cpp): proposals *)
(* and finalized budgets, the votes of masternodes on both, what the node    *)
(* votes for and submits itself, and the payments it puts into blocks and    *)
(* accepts (masternode-payments.cpp).                                        *)
(*                                                                           *)
(* A proposal or finalized budget is an item; the code treats both alike up  *)
(* to IsValid.  The message handlers and NewBlock run one at a time.  Time   *)
(* goes with the height: GetTime() is the height of the tip.  Votes arrive   *)
(* in any order and never, any number of times; masternodes come and go.     *)
(***************************************************************************)
EXTENDS Integers, FiniteSets, SequencesExt

CONSTANTS
    Masternodes,    \* those that vote
    nOthers,        \* number of enabled masternodes that do not
    activeMasternode, \* the masternode this node is, or None
    Modes,          \* values of strBudgetMode
    Proposals, nBlockStart, nBlockEnd, nAmount, Malformed,
    Budgets, vecBudgetPayments, \* the payments of a finalized budget: sequences of
                                \* [nProposalHash, nAmount]; a proposal stands for its payee
    FeeHeight,      \* height of the block with the fee transaction of an item
    ByHash,         \* all items in the order of their hashes
    Votes,          \* votes sent by peers: [vin, hash, nVote, nTime]
    Cycle,          \* GetBudgetPaymentCycleBlocks
    Every,          \* 14: how often NewBlock does all its work
    nTotalBudget,   \* GetTotalBudget
    FeeConfirmations, UpdateMin, Ahead, Established, MaxAge, Window,
    StartHeight, Stored,    \* the height, and what the node has got from its peers, at the start
    MaxHeight, MaxDisturbances, \* bounds
    None

Items == Proposals \cup Budgets

\* The votes that an item may have at height h, and its entry.
VoteAt(h)  == [nVote : {"yes", "no"}, nTime : 0 .. h + Ahead, fValid : BOOLEAN, fSynced : BOOLEAN]
EntryAt(h) == [votes : [Masternodes -> VoteAt(h) \cup {None}], fValid : BOOLEAN, fAutoChecked : BOOLEAN, fee : Nat]

ASSUME BudgetAssumption ==
    /\ {Cycle, Every, nTotalBudget, FeeConfirmations, UpdateMin, Ahead, Established, MaxAge,
        Window, MaxHeight, MaxDisturbances, nOthers, StartHeight} \subseteq Nat
    /\ Cycle > 0 /\ Every > 0 /\ UpdateMin > 0 /\ StartHeight <= MaxHeight /\ IsFiniteSet(Masternodes)
    /\ Proposals \cap Budgets = {} /\ ByHash \in Seq(Items) /\ {ByHash[k] : k \in DOMAIN ByHash} = Items
    /\ \A j, k \in DOMAIN ByHash : ByHash[j] = ByHash[k] => j = k
    /\ nBlockStart \in [Items -> Nat] /\ nBlockEnd \in [Proposals -> Nat] /\ nAmount \in [Proposals -> Nat]
    /\ FeeHeight \in [Items -> Nat]
    /\ vecBudgetPayments \in [Budgets -> Seq([nProposalHash : Proposals, nAmount : Nat])]
    /\ Votes \subseteq [vin : Masternodes, hash : Items, nVote : {"yes", "no"}, nTime : Nat]
    /\ activeMasternode \in Masternodes \cup {None}
    /\ Stored \in [Items -> EntryAt(StartHeight) \cup {None}]
    /\ None \notin Items \cup Masternodes
    /\ \A h \in 0 .. MaxHeight : None \notin VoteAt(h) \cup EntryAt(h)

VARIABLES
    height,             \* of chainActive
    mns,                \* the masternodes of Masternodes that are in the list
    strBudgetMode,
    synced,             \* masternodeSync.IsSynced()
    known,              \* mapProposals and mapFinalizedBudgets: an entry or None
    seen, seenVotes,    \* the mapSeen... maps
    orphans,            \* mapOrphan...: the one vote kept for an unknown item, or None
    immature,           \* vecImmature...
    mapCollateralTxids, \* height of the block with our fee transaction for a budget, or None
    disturbances        \* number of restarts, resets, full syncs, changes of the list
                        \* or of keys, and missed blocks

managerVars == <<known, seen, seenVotes, orphans, immature, mapCollateralTxids>>
vars == <<height, mns, strBudgetMode, synced, managerVars, disturbances>>

Nothing == [i \in Items |-> None]

\* A synchronised node.
Init ==
    /\ height = StartHeight /\ mns = Masternodes /\ strBudgetMode \in Modes /\ synced = TRUE
    /\ known = Stored /\ seen = {i \in Items : Stored[i] /= None}
    /\ seenVotes = {v \in Votes : v.hash \in seen /\ Stored[v.hash].votes[v.vin] /= None
                                                 /\ Stored[v.hash].votes[v.vin].nTime = v.nTime}
    /\ orphans = Nothing /\ immature = {}
    /\ mapCollateralTxids = [b \in Budgets |-> None]
    /\ disturbances = 0

\* CBudgetManager, with the vectors and maps beside it.
M == [known |-> known, seen |-> seen, seenVotes |-> seenVotes, orphans |-> orphans,
      immature |-> immature, paid |-> mapCollateralTxids]

Becomes(m) ==
    /\ known' = m.known /\ seen' = m.seen /\ seenVotes' = m.seenVotes /\ orphans' = m.orphans
    /\ immature' = m.immature /\ mapCollateralTxids' = m.paid

-----------------------------------------------------------------------------
(* One entry e.                                                             *)

CountEnabled == nOthers + Cardinality(mns)

NewEntry(fee) == [votes |-> [x \in Masternodes |-> None], fValid |-> TRUE, fAutoChecked |-> FALSE, fee |-> fee]

Counted(e, nVote) == {x \in Masternodes : e.votes[x] /= None /\ e.votes[x].fValid /\ e.votes[x].nVote = nVote}

\* GetYeas() - GetNays()
Net(e) == Cardinality(Counted(e, "yes")) - Cardinality(Counted(e, "no"))

\* GetVoteCount of a finalized budget; whether votes are valid does not matter.
GetVoteCount(e) == Cardinality({x \in Masternodes : e.votes[x] /= None})

\* CleanAndRemove(false)
CleanAndRemove(e) ==
    [e EXCEPT !.votes = [x \in Masternodes |-> IF @[x] = None THEN None ELSE [@[x] EXCEPT !.fValid = x \in mns]]]

\* The fee transaction has no SwiftTX lock: GetIXConfirmations() = 0.
Confirmed(fee, h) == IF fee <= h THEN h - fee + 1 ELSE 0

IsBudgetCollateralValid(fee, h) == Confirmed(fee, h) >= FeeConfirmations

ProposalIsValid(p, e, h) ==
    /\ -Net(e) <= CountEnabled \div 10
    /\ p \notin Malformed /\ nBlockEnd[p] >= nBlockStart[p]
    /\ IsBudgetCollateralValid(e.fee, h)
    /\ nAmount[p] <= nTotalBudget
    /\ nBlockEnd[p] >= h - Cycle \div 2

GetTotalPayout(b) == FoldLeft(LAMBDA n, pay : n + pay.nAmount, 0, vecBudgetPayments[b])

BudgetIsValid(b, e, h) ==
    /\ nBlockStart[b] % Cycle = 0 /\ nBlockStart[b] /= 0
    /\ Len(vecBudgetPayments[b]) <= MaxAge
    /\ GetTotalPayout(b) <= nTotalBudget
    /\ IsBudgetCollateralValid(e.fee, h)
    /\ nBlockStart[b] >= h - MaxAge

IsValid(i, e, h) == IF i \in Proposals THEN ProposalIsValid(i, e, h) ELSE BudgetIsValid(i, e, h)

\* Mutant: votes may be ahead of the time.
AddOrUpdateVoteAhead(e, v, h) ==
    LET old == e.votes[v.vin]
        ok  == old = None \/ v.nTime - old.nTime >= UpdateMin
    IN  [ok |-> ok,
         e  |-> IF ok THEN [e EXCEPT !.votes[v.vin] = [nVote |-> v.nVote, nTime |-> v.nTime,
                                                      fValid |-> TRUE, fSynced |-> FALSE]]
                ELSE e]

AddOrUpdateVote(e, v, h) ==
    LET old == e.votes[v.vin]
        ok  == (old = None \/ v.nTime - old.nTime >= UpdateMin) /\ v.nTime <= h + Ahead
    IN  [ok |-> ok,
         e  |-> IF ok THEN [e EXCEPT !.votes[v.vin] = [nVote |-> v.nVote, nTime |-> v.nTime,
                                                      fValid |-> TRUE, fSynced |-> FALSE]]
                ELSE e]

-----------------------------------------------------------------------------
(* CBudgetManager m at height h.                                            *)

\* UpdateProposal, UpdateFinalizedBudget; peer: whether somebody can be asked for the item
\* (once a day, askedForSourceProposalOrBudget; its arrival is an mprop or fbs).
Update(m, v, peer, h) ==
    IF m.known[v.hash] = None
    THEN [ok |-> FALSE,
          m  |-> IF peer /\ synced
                 THEN [m EXCEPT !.orphans[v.hash] = v]
                 ELSE m]
    ELSE LET r == AddOrUpdateVote(m.known[v.hash], v, h)
         IN  [ok |-> r.ok, m |-> [m EXCEPT !.known[v.hash] = r.e]]

\* UpdateProposal and UpdateFinalizedBudget, for each orphan vote, without a peer to ask.
CheckOrphanVotes(m, h) ==
    LET result(i) == AddOrUpdateVote(m.known[i], m.orphans[i], h)
        due       == {i \in Items : m.orphans[i] /= None /\ m.known[i] /= None /\ result(i).ok}
    IN  [m EXCEPT !.known   = [i \in Items |-> IF i \in due THEN result(i).e ELSE @[i]],
                  !.orphans = [i \in Items |-> IF i \in due THEN None ELSE @[i]]]

\* AddProposal, AddFinalizedBudget
Add(m, i, fee, h) ==
    IF IsValid(i, NewEntry(fee), h) /\ m.known[i] = None THEN [m EXCEPT !.known[i] = NewEntry(fee)] ELSE m

\* Mutant: orphan votes are taken up before the item is added.
ReceivedEarly(m, i, h) ==
    IF ~IsBudgetCollateralValid(FeeHeight[i], h)
    THEN [m EXCEPT !.immature = IF Confirmed(FeeHeight[i], h) >= 1 THEN @ \cup {i} ELSE @]
    ELSE LET s == [m EXCEPT !.seen = @ \cup {i}]
         IN  IF IsValid(i, NewEntry(FeeHeight[i]), h) THEN Add(CheckOrphanVotes(s, h), i, FeeHeight[i], h) ELSE s

\* "mprop" and "fbs", for an item that was not seen.
Received(m, i, h) ==
    IF ~IsBudgetCollateralValid(FeeHeight[i], h)
    THEN [m EXCEPT !.immature = IF Confirmed(FeeHeight[i], h) >= 1 THEN @ \cup {i} ELSE @]
    ELSE LET s == [m EXCEPT !.seen = @ \cup {i}]
         IN  IF IsValid(i, NewEntry(FeeHeight[i]), h) THEN CheckOrphanVotes(Add(s, i, FeeHeight[i], h), h) ELSE s

CycleStart(h) == h - (h % Cycle) + Cycle

\* sortProposalsByVotes.  Fee transactions are ordered like the items.
Before(m, p, q) ==
    \/ Net(m.known[p]) > Net(m.known[q])
    \/ Net(m.known[p]) = Net(m.known[q]) /\
          \E j, k \in DOMAIN ByHash : j > k /\ ByHash[j] = p /\ ByHash[k] = q

\* The proposals in S, best first.
Sorted(m, S) ==
    LET n == Cardinality(S)
    IN  CHOOSE s \in [1 .. n -> S] : \A j, k \in 1 .. n : j < k => Before(m, s[j], s[k])

Cleaned(m) == [m EXCEPT !.known = [i \in Items |-> IF i \in Proposals /\ @[i] /= None
                                                  THEN CleanAndRemove(@[i]) ELSE @[i]]]

Eligible(m, p, h) ==
    /\ m.known[p].fValid
    /\ nBlockStart[p] <= CycleStart(h) /\ nBlockEnd[p] >= CycleStart(h) + Cycle - 1
    /\ Net(m.known[p]) > CountEnabled \div 10
    /\ m.known[p].fee < h - Established

\* Mutant: what was allotted is not added up.
AllottedSingly(acc, p) == IF nAmount[p] <= nTotalBudget THEN [acc EXCEPT !.ret = Append(@, p)] ELSE acc

Allotted(acc, p) ==
    IF nAmount[p] + acc.sum <= nTotalBudget
    THEN [ret |-> Append(acc.ret, p), sum |-> acc.sum + nAmount[p]] ELSE acc

\* GetBudget of a manager whose votes are Cleaned.
GetBudget(m, h) ==
    LET ps == Sorted(m, {p \in Proposals : m.known[p] /= None /\ Eligible(m, p, h)})
        allotted[k \in 0 .. Len(ps)] ==
            IF k = 0 THEN [ret |-> <<>>, sum |-> 0] ELSE Allotted(allotted[k - 1], ps[k])
    IN  allotted[Len(ps)].ret

AsPayments(ps) == [k \in DOMAIN ps |-> [nProposalHash |-> ps[k], nAmount |-> nAmount[ps[k]]]]

\* SubmitFinalBudget.  nSubmittedHeight is the height at the time, which is always
\* before the start of the next cycle, so its test never stops anything.
SubmitFinalBudget(m, h) ==
    LET n  == Cleaned(m)
        bs == {b \in Budgets : nBlockStart[b] = CycleStart(h) /\ vecBudgetPayments[b] = AsPayments(GetBudget(n, h))}
        b  == CHOOSE c \in bs : TRUE
    IN  IF CycleStart(h) - h > Window THEN m
        ELSE IF GetBudget(n, h) = <<>> \/ bs = {} \/ b \in m.seen THEN n
        ELSE IF m.paid[b] = None THEN [n EXCEPT !.paid[b] = h + 1]
        ELSE IF Confirmed(m.paid[b], h) < FeeConfirmations + 1 \/ ~IsValid(b, NewEntry(m.paid[b]), h) THEN n
        ELSE Add([n EXCEPT !.seen = @ \cup {b}], b, m.paid[b], h)

\* The comparison in AutoCheck.
Matches(n, b, h) ==
    GetBudget(n, h) /= <<>> /\ vecBudgetPayments[b] = AsPayments(GetBudget(n, h))

\* SubmitVote
OwnVote(b, h) == [vin |-> activeMasternode, hash |-> b, nVote |-> "yes", nTime |-> h]

\* AutoCheck of the finalized budgets in S.  GetBudget cleans the votes on proposals, so what
\* one budget is compared with does not depend on the others.
AutoCheck(m, S, h) ==
    LET n         == IF strBudgetMode = "auto" /\ S /= {} THEN Cleaned(m) ELSE m
        result(b) == AddOrUpdateVote(n.known[b], OwnVote(b, h), h)
        voted     == {b \in S : strBudgetMode = "auto" /\ Matches(n, b, h) /\ result(b).ok}
    IN  [n EXCEPT !.known = [i \in Items |->
                     IF i \notin S THEN @[i]
                     ELSE [(IF i \in voted THEN result(i).e ELSE @[i]) EXCEPT !.fAutoChecked = TRUE]],
                  !.seenVotes = @ \cup {OwnVote(b, h) : b \in voted}]

\* CheckAndRemove: finalized budgets first, then the proposals they were compared with.
\* rand() decides which budgets wait.
CheckAndRemove(m, h, waits) ==
    LET checked == {b \in Budgets \ waits :
                       /\ activeMasternode /= None /\ m.known[b] /= None
                       /\ ~m.known[b].fAutoChecked /\ IsValid(b, m.known[b], h)}
        n       == AutoCheck(m, checked, h)
    IN  [n EXCEPT !.known = [i \in Items |->
            IF @[i] = None THEN None ELSE [@[i] EXCEPT !.fValid = IsValid(i, n.known[i], h)]]]

\* Proposals and budgets Sync and the functions below look at.
Offered(m) == {i \in m.seen : m.known[i] /= None /\ m.known[i].fValid}

\* The votes of the items in S get fSynced = f; only valid ones if f is TRUE.
Marked(m, S, f) ==
    LET marked(votes) == [x \in Masternodes |->
            IF votes[x] = None \/ (f /\ ~votes[x].fValid) THEN votes[x] ELSE [votes[x] EXCEPT !.fSynced = f]]
    IN  [m EXCEPT !.known = [i \in Items |->
            IF i \in S THEN [m.known[i] EXCEPT !.votes = marked(m.known[i].votes)] ELSE m.known[i]]]

MarkSynced(m) == Marked(m, Offered(m), TRUE)
ResetSync(m)  == Marked(m, Offered(m), FALSE)
ClearSeen(m)  == [m EXCEPT !.seen = {}, !.seenVotes = {}]

\* The incremental sync with the peers; rand() decides about a full one, which empties the
\* seen maps before ResetSync and Sync walk them.
Synchronised(m, full) == MarkSynced(IF full THEN ResetSync(ClearSeen(m)) ELSE m)

\* Items whose fee has matured are added, or dropped if they are not valid.
Matured(m, h) ==
    LET ripe == {i \in m.immature : IsBudgetCollateralValid(FeeHeight[i], h)}
    IN  [m EXCEPT !.immature = @ \ ripe,
                  !.known = [i \in Items |-> IF i \in ripe THEN Add(m, i, FeeHeight[i], h).known[i] ELSE @[i]]]

\* What NewBlock does once every Every blocks.
Refreshed(m, h, full, waits) ==
    LET c == CheckAndRemove(IF synced THEN Synchronised(m, full) ELSE m, h, waits)
        a == [c EXCEPT !.known = [i \in Items |-> IF @[i] = None THEN None ELSE CleanAndRemove(@[i])]]
    IN  Matured(a, h)

-----------------------------------------------------------------------------
Disturbance == disturbances < MaxDisturbances /\ disturbances' = disturbances + 1

\* A block is connected and NewBlock is called, unless (SkippedBlock) the lock is taken
\* or the synchronisation has not come to the budget.
NewBlock(full, waits) ==
    /\ height < MaxHeight
    /\ height' = height + 1
    /\ full => synced /\ height' % Every = 0
    /\ waits /= {} => height' % Every = 0
    /\ LET h == height + 1
           s == IF strBudgetMode = "suggest" THEN SubmitFinalBudget(M, h) ELSE M
       IN  Becomes(IF h % Every = 0 THEN Refreshed(s, h, full, waits) ELSE s)
    /\ IF full THEN Disturbance ELSE UNCHANGED disturbances
    /\ UNCHANGED <<mns, strBudgetMode, synced>>

SkippedBlock ==
    /\ height < MaxHeight /\ height' = height + 1 /\ Disturbance
    /\ UNCHANGED <<mns, strBudgetMode, synced, managerVars>>

mprop(p) ==
    /\ p \in Proposals \ seen
    /\ Becomes(Received(M, p, height))
    /\ UNCHANGED <<height, mns, strBudgetMode, synced, disturbances>>

fbs(b) ==
    /\ b \in Budgets \ seen
    /\ Becomes(Received(M, b, height))
    /\ UNCHANGED <<height, mns, strBudgetMode, synced, disturbances>>

\* "mvote" and "fbvote".  The signature is checked after the vote is marked as seen; it
\* may not verify because the list has an old key of the masternode.
ReceiveVote(v, valid) ==
    /\ v \notin seenVotes /\ v.vin \in mns
    /\ LET s == [M EXCEPT !.seenVotes = @ \cup {v}]
       IN  Becomes(IF valid THEN Update(s, v, TRUE, height).m ELSE s)
    /\ IF valid THEN UNCHANGED disturbances ELSE Disturbance
    /\ UNCHANGED <<height, mns, strBudgetMode, synced>>

mvote(v, valid)  == v.hash \in Proposals /\ ReceiveVote(v, valid)
fbvote(v, valid) == v.hash \in Budgets /\ ReceiveVote(v, valid)

\* budget.dat is written at shutdown and read at the start, which copies its entries into
\* the map and so forgets fAutoChecked; without the file everything is gone.  An older
\* file, left after a crash, is not modelled.
Loaded(m) ==
    LET votes(i) == [x \in Masternodes |-> IF m.known[i].votes[x] = None THEN None
                                           ELSE [m.known[i].votes[x] EXCEPT !.fValid = TRUE, !.fSynced = FALSE]]
        entry(i) == [m.known[i] EXCEPT !.votes = votes(i), !.fAutoChecked = FALSE]
    IN  [m EXCEPT !.known = [i \in Items |->
            IF m.known[i] = None THEN None ELSE [entry(i) EXCEPT !.fValid = IsValid(i, entry(i), height)]]]

Restart(kept) ==
    /\ LET m == IF kept THEN ResetSync(Loaded(M)) ELSE [M EXCEPT !.known = Nothing, !.orphans = Nothing]
       IN  Becomes([ClearSeen(m) EXCEPT !.immature = {}, !.paid = [b \in Budgets |-> None]])
    /\ synced' = FALSE /\ Disturbance
    /\ UNCHANGED <<height, mns, strBudgetMode>>

\* SPORK_11 resets the manager.
Clear ==
    /\ Becomes([ClearSeen(M) EXCEPT !.known = Nothing, !.orphans = Nothing]) /\ Disturbance
    /\ UNCHANGED <<height, mns, strBudgetMode, synced>>

FinishSync ==
    /\ ~synced /\ synced' = TRUE
    /\ UNCHANGED <<height, mns, strBudgetMode, managerVars, disturbances>>

\* The list of masternodes changes.
ListChanges(x) ==
    /\ mns' = IF x \in mns THEN mns \ {x} ELSE mns \cup {x}
    /\ Disturbance
    /\ UNCHANGED <<height, strBudgetMode, synced, managerVars>>

Next ==
    \/ \E full \in BOOLEAN, waits \in SUBSET Budgets : NewBlock(full, waits)
    \/ SkippedBlock \/ FinishSync \/ Clear
    \/ \E i \in Items : mprop(i) \/ fbs(i)
    \/ \E v \in Votes, valid \in BOOLEAN : mvote(v, valid) \/ fbvote(v, valid)
    \/ \E kept \in BOOLEAN : Restart(kept)
    \/ \E x \in Masternodes : ListChanges(x)

Spec == Init /\ [][Next]_vars

-----------------------------------------------------------------------------
(* The payments in blocks, from the finalized budgets.                       *)

Covering(h) ==
    {b \in Budgets : known[b] /= None /\ nBlockStart[b] <= h /\ h < nBlockStart[b] + Len(vecBudgetPayments[b])}

Payment(b, h) == vecBudgetPayments[b][h - nBlockStart[b] + 1]

Highest(h, least) ==
    LET counts == {GetVoteCount(known[b]) : b \in Covering(h)} IN Max(counts \cup {least})

IsBudgetPaymentBlock(h) == Highest(h, -1) > CountEnabled \div 20

\* Mutant: the last finalized budget with a vote is paid.
FillBlockPayeeLast(h) ==
    FoldLeft(LAMBDA best, b : IF b \in Covering(h) /\ GetVoteCount(known[b]) > 0 THEN b ELSE best, None, ByHash)

\* The finalized budget whose payment is put into a block: the first with the most votes.
FillBlockPayee(h) ==
    LET best == {b \in Covering(h) : GetVoteCount(known[b]) > 0 /\ GetVoteCount(known[b]) = Highest(h, 0)}
    IN  IF best = {} THEN None ELSE ByHash[Min({k \in DOMAIN ByHash : ByHash[k] \in best})]

IsTransactionValid(pay, h) ==
    /\ Highest(h, 0) >= CountEnabled \div 20
    /\ \E b \in Covering(h) :
          GetVoteCount(known[b]) > Highest(h, 0) - CountEnabled \div 10 /\ Payment(b, h) = pay

-----------------------------------------------------------------------------
\* The types of the state; no vote that counts is ahead of the time.
TypeOK ==
    /\ height \in StartHeight .. MaxHeight /\ mns \subseteq Masternodes /\ strBudgetMode \in Modes /\ synced \in BOOLEAN
    /\ \A i \in Items : known[i] /= None => known[i] \in EntryAt(height)
    /\ seen \subseteq Items /\ immature \subseteq Items
    /\ \A i \in Items : orphans[i] \in {v \in Votes : v.hash = i} \cup {None}
    /\ mapCollateralTxids \in [Budgets -> Nat \cup {None}]
    /\ disturbances \in 0 .. MaxDisturbances

\* With ten masternodes or more, a block this node builds on its own view of the budgets
\* passes its own check of them, whatever the votes, and whatever the list has become.
\* With fewer, the margin of the check is 0 and nothing exceeds the highest count.
TemplateAccepted ==
    CountEnabled >= 10 /\ IsBudgetPaymentBlock(height + 1) =>
        LET b == FillBlockPayee(height + 1)
        IN  b /= None /\ IsTransactionValid(Payment(b, height + 1), height + 1)

\* In whatever order the votes of a masternode arrive, be it as orphans, the one on an item
\* is only replaced by one at least an hour newer, and never lost.
NeverBack(i) ==
    known[i] /= None /\ known'[i] /= None =>
        \A x \in Masternodes : LET old == known[i].votes[x]
                                   new == known'[i].votes[x]
                               IN  old /= None => /\ new /= None
                                                  /\ new.nTime = old.nTime \/ new.nTime >= old.nTime + UpdateMin

\* A vote that came before its item counts as soon as a peer sends the item, whatever
\* happened between, unless its time has not come.
OrphanCounts(i) ==
    LET v == orphans[i]
    IN  height' = height /\ known[i] = None /\ known'[i] /= None /\ v /= None /\ v.nTime <= height + Ahead =>
            /\ orphans'[i] = None
            /\ known'[i].votes[v.vin] /= None /\ known'[i].votes[v.vin].nVote = v.nVote

\* No step mixes up or loses a vote that was accepted or kept.
VotesKept == [][\A i \in Items : NeverBack(i) /\ OrphanCounts(i)]_vars

\* What the proposals in S get from the payments ret.
Paid(ret, S) ==
    LET paid[k \in 0 .. Len(ret)] ==
            IF k = 0 THEN 0 ELSE paid[k - 1] + (IF ret[k] \in S THEN nAmount[ret[k]] ELSE 0)
    IN  paid[Len(ret)]

\* A budget spends no more than there is, and leaves out a proposal with enough support
\* only if the better supported ones leave too little for it.
BudgetSpendsBest ==
    LET n   == Cleaned(M)
        ret == GetBudget(n, height)
        in  == {ret[k] : k \in DOMAIN ret}
    IN  /\ Paid(ret, in) <= nTotalBudget
        /\ \A p \in Proposals \ in : known[p] /= None /\ Eligible(n, p, height) =>
              nAmount[p] + Paid(ret, {q \in in : Before(n, q, p)}) > nTotalBudget
=============================================================================
