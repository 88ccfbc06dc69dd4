--------------------------- MODULE MasternodeSync ---------------------------
(***************************************************************************)
(* Synchronisation of the masternode data at one node                      *)
(* (src/src/masternode-sync.cpp).  Process runs in its own thread every    *)
(* five seconds and asks one more peer for the asset of the current stage, *)
(* or moves on: sporks, masternode list, winners, budget.  Messages that   *)
(* bring items, and every caller of IsBlockchainSynced, change the same    *)
(* state from other threads.                                               *)
(*                                                                         *)
(* No lock protects the state.  Process is two actions: it looks at the    *)
(* state and decides (Process), and it does what it decided (Proceed);     *)
(* anything else may happen in between.  A call from another thread is one *)
(* action: a Reset that falls between two reads of Process does no more    *)
(* than one before or after both.  Times are kept as what they are         *)
(* compared with.  The order of vNodes is left open: which of the peers    *)
(* that have not been asked comes first makes no difference to the stages. *)
(* The counts of "ssc", which no stage depends on, the shortcut for the    *)
(* regression test network and the messages sent are left out.             *)
(***************************************************************************)
EXTENDS Integers, FiniteSets

CONSTANTS
    Peers,
    Leaving,           \* the peers that may disconnect and come back
    PaymentsPeers,     \* nVersion >= GetMinMasternodePaymentsProto()
    BudgetPeers,       \* nVersion >= ActiveProtocol()
    THRESHOLD          \* MASTERNODE_SYNC_THRESHOLD

ASSUME MasternodeSyncAssumption ==
    /\ Leaving \subseteq Peers
    /\ PaymentsPeers \subseteq Peers /\ BudgetPeers \subseteq Peers
    /\ THRESHOLD \in Nat \ {0}

Collected == {"LIST", "MNW", "BUDGET"}        \* the stages that collect items
Stages    == {"SPORKS"} \cup Collected
Assets    == Stages \cup {"INITIAL", "FAILED", "FINISHED"}
Ages      == {"never", "recent", "old"}       \* old: more than ten seconds

VARIABLES
    asset,               \* RequestedMasternodeAssets
    attempt,             \* RequestedMasternodeAttempt
    last,                \* age of lastMasternodeList, -Winner, lastBudgetItem
    seen,                \* how often the item of a stage was counted
    started,             \* age of nAssetSyncStarted, old after 25 seconds
    failure,             \* age of lastFailure, old after a minute
    vNodes,
    fulfilled,           \* fulfilled[p]: the stages p has been asked for
    fBlockchainSynced,
    slept,               \* lastProcess is more than an hour ago
    spork8,              \* IsSporkActive(SPORK_8_MASTERNODE_PAYMENT_ENFORCEMENT)
    doing,               \* what Process is about to do and the stage it read; Idle outside
    skipped,             \* ghost: the stages given up since the last Reset
    crossed              \* ghost: the last Reset came while Process was about to do something

stageVars == <<asset, attempt, last, seen, started, failure>>
nodeVars  == <<fBlockchainSynced, slept>>
ghosts    == <<skipped, crossed>>
syncVars  == <<stageVars, vNodes, fulfilled, nodeVars, spork8, doing, ghosts>>

Idle == [act |-> "none", stage |-> "INITIAL"]

\* The fields that Reset and GetNextAsset assign, as a record.
Sync == [asset |-> asset, attempt |-> attempt, last |-> last, seen |-> seen,
         started |-> started, failure |-> failure]

Becomes(s) ==
    /\ asset' = s.asset /\ attempt' = s.attempt /\ last' = s.last
    /\ seen' = s.seen /\ started' = s.started /\ failure' = s.failure

\* lastFailure = 0 is long ago.
Reset(s) ==
    [asset |-> "INITIAL", attempt |-> 0, last |-> [x \in Collected |-> "never"],
     seen |-> [x \in Collected |-> 0], started |-> "recent", failure |-> "old"]

SyncInit ==
    /\ asset = "INITIAL" /\ attempt = 0 /\ started = "recent" /\ failure = "old"
    /\ last = [x \in Collected |-> "never"] /\ seen = [x \in Collected |-> 0]
    /\ vNodes = {} /\ fulfilled = [p \in Peers |-> {}]
    /\ fBlockchainSynced = FALSE /\ slept = FALSE
    /\ spork8 \in BOOLEAN /\ doing = Idle /\ skipped = {} /\ crossed = FALSE

Following(a) ==
    CASE a \in {"INITIAL", "FAILED"}  -> "SPORKS"
      [] a = "SPORKS"                 -> "LIST"
      [] a = "LIST"                   -> "MNW"
      [] a = "MNW"                    -> "BUDGET"
      [] a \in {"BUDGET", "FINISHED"} -> "FINISHED"

GetNextAsset(s) == [s EXCEPT !.asset = Following(@), !.attempt = 0, !.started = "recent"]

\* ClearFulfilledRequest; without cs_vNodes it does nothing.
ClearFulfilledRequest(locked) ==
    [p \in Peers |-> IF locked /\ p \in vNodes THEN {} ELSE fulfilled[p]]

-----------------------------------------------------------------------------
(* The loop over vNodes: what the first peer that does not "continue" causes. *)

\* The peers a stage is asked from.
Capable(x) ==
    CASE x = "SPORKS" -> vNodes
      [] x = "BUDGET" -> vNodes \cap BudgetPeers
      [] OTHER        -> vNodes \cap PaymentsPeers

\* Mutant: a stage that got nothing counts as settled.
SettledUnreceived(s) == s.last[s.asset] /= "recent" /\ s.attempt >= THRESHOLD

\* Mutant: off by one.
SettledLater(s) == s.last[s.asset] = "old" /\ s.attempt > THRESHOLD

\* Items came, none in the last ten seconds.
Settled(s) == s.last[s.asset] = "old" /\ s.attempt >= THRESHOLD

\* Nothing came although enough peers were asked or enough time was given.
TimedOut(s) ==
    s.last[s.asset] = "never" /\ (s.attempt >= 3 * THRESHOLD \/ s.started = "old")

\* Whether any peer makes the loop move on without asking.
MovesOn(s) ==
    /\ s.asset \in Collected /\ Capable(s.asset) /= {}
    /\ Settled(s) \/ (s.asset = "BUDGET" /\ TimedOut(s))

\* The peers that the loop does not pass over, with the requests f.
ToAsk(s, f) == {p \in Capable(s.asset) : s.asset \in Stages /\ s.asset \notin f[p]}

\* What is done about a peer that has not been asked: it is asked, for sporks also as the
\* third one, unless the time is out.  For the budget that was looked at before.
Decided(s) ==
    CASE s.asset = "SPORKS" -> IF s.attempt >= 2 THEN "asklast" ELSE "ask"
      [] s.asset \in {"LIST", "MNW"} /\ TimedOut(s) -> IF spork8 THEN "fail" ELSE "skip"
      [] s.asset \in Collected /\ s.attempt >= 3 * THRESHOLD
            /\ ~(s.asset \in {"LIST", "MNW"} /\ TimedOut(s)) -> "none"
      [] OTHER -> "ask"

\* The loop decides about the first peer that does not "continue".
Visit(s, f) ==
    \/ /\ MovesOn(s)
       /\ doing' = [act |-> "next", stage |-> s.asset]
       /\ fulfilled' = f
    \/ /\ ~MovesOn(s)
       /\ \E p \in ToAsk(s, f) : fulfilled' = [f EXCEPT ![p] = @ \cup {s.asset}]
       /\ doing' = IF Decided(s) = "none" THEN Idle ELSE [act |-> Decided(s), stage |-> s.asset]
    \/ /\ ~MovesOn(s) /\ ToAsk(s, f) = {}
       /\ doing' = Idle /\ fulfilled' = f

\* What doing makes of the state s.  The third request for sporks ends the stage, and
\* counts for the next one.
Done(s) ==
    CASE doing.act \in {"next", "skip"} -> GetNextAsset(s)
      [] doing.act = "asklast" -> [GetNextAsset(s) EXCEPT !.attempt = @ + 1]
      [] doing.act = "ask"     -> [s EXCEPT !.attempt = @ + 1]
      [] doing.act = "fail"    -> [s EXCEPT !.asset = "FAILED", !.attempt = 0, !.failure = "recent"]

-----------------------------------------------------------------------------
\* IsBlockchainSynced of the state s: after an hour without a call everything
\* starts again.  recent: the tip can be read and is recent.
AfterCall(s)   == IF slept THEN Reset(s) ELSE s
Synced(recent) == (fBlockchainSynced /\ ~slept) \/ recent

\* What the ghosts remember after a call that did a Reset or not.
Remembered(reset) ==
    /\ skipped' = IF reset THEN {} ELSE skipped
    /\ crossed' = IF reset THEN doing /= Idle ELSE crossed

\* Any thread that asks.
IsBlockchainSynced(recent) ==
    /\ Becomes(AfterCall(Sync)) /\ Remembered(slept)
    /\ fBlockchainSynced' = Synced(recent) /\ slept' = FALSE
    /\ UNCHANGED <<vNodes, fulfilled, spork8, doing>>

\* Process, until it has decided what to do.  locked: cs_vNodes is free for the loop,
\* cleared: it is free for ClearFulfilledRequest.  In "FINISHED" the call returns unless
\* CountEnabled() is 0, which it may be at any time.
Process(recent, locked, cleared) ==
    LET s1 == IF asset \in {"FINISHED", "FAILED"} THEN Reset(Sync) ELSE Sync
        s2 == IF s1.asset = "INITIAL" THEN GetNextAsset(s1) ELSE s1
        f  == IF s1.asset = "INITIAL" THEN ClearFulfilledRequest(cleared) ELSE fulfilled
        s3 == AfterCall(s2)
    IN  /\ doing = Idle
        /\ asset = "FAILED" => failure = "old"
        /\ Becomes(s3) /\ Remembered(slept \/ asset \in {"FINISHED", "FAILED"})
        /\ fBlockchainSynced' = Synced(recent) /\ slept' = FALSE
        /\ IF locked /\ (s3.asset \in Collected => Synced(recent))
           THEN Visit(s3, f)
           ELSE doing' = Idle /\ fulfilled' = f
        /\ UNCHANGED <<vNodes, spork8>>

\* Process does what it decided.  GetNextAsset starts from the stage that was decided about
\* or, after a Reset, from "INITIAL"; cs_vNodes is held by this thread.
Proceed ==
    /\ doing /= Idle
    /\ \E a \in {doing.stage, asset} :
          LET goes == doing.act \in {"next", "skip", "asklast"}
          IN  /\ Becomes(Done(IF goes THEN [Sync EXCEPT !.asset = a] ELSE Sync))
              /\ fulfilled' = IF goes /\ a = "INITIAL" THEN ClearFulfilledRequest(TRUE) ELSE fulfilled
    /\ skipped' = IF doing.act = "skip" THEN skipped \cup {doing.stage} ELSE skipped
    /\ doing' = Idle
    /\ UNCHANGED <<vNodes, nodeVars, spork8, crossed>>

\* AddedMasternodeList, AddedMasternodeWinner and AddedBudgetItem.  Every
\* caller has stored the item before, so only the first branch is taken.
Added(x) ==
    /\ seen[x] < THRESHOLD
    /\ seen' = [seen EXCEPT ![x] = @ + 1]
    /\ last' = [last EXCEPT ![x] = "recent"]
    /\ UNCHANGED <<asset, attempt, started, failure, vNodes, fulfilled, nodeVars, spork8, doing, ghosts>>

\* "mnsync reset".
ResetCommand ==
    /\ Becomes(Reset(Sync)) /\ Remembered(TRUE)
    /\ UNCHANGED <<vNodes, fulfilled, nodeVars, spork8, doing>>

\* A "spork" message with a newer value, or the time of the value comes.
SporkChanges ==
    /\ spork8' = ~spork8
    /\ UNCHANGED <<stageVars, vNodes, fulfilled, nodeVars, doing, ghosts>>

-----------------------------------------------------------------------------
(* Peers and time.  While Process has decided something it holds cs_vNodes. *)

Connect(p) ==
    /\ p \notin vNodes /\ doing = Idle
    /\ vNodes' = vNodes \cup {p}
    /\ UNCHANGED <<stageVars, fulfilled, nodeVars, spork8, doing, ghosts>>

Disconnect(p) ==
    /\ p \in vNodes \cap Leaving /\ doing = Idle
    /\ vNodes' = vNodes \ {p} /\ fulfilled' = [fulfilled EXCEPT ![p] = {}]
    /\ UNCHANGED <<stageVars, nodeVars, spork8, doing, ghosts>>

\* Ten seconds since an item, 25 seconds of a stage, a minute since a failure.
Age ==
    /\ \/ /\ \E x \in Collected : last[x] = "recent" /\ last' = [last EXCEPT ![x] = "old"]
          /\ UNCHANGED <<started, failure>>
       \/ started = "recent" /\ started' = "old" /\ UNCHANGED <<last, failure>>
       \/ failure = "recent" /\ failure' = "old" /\ UNCHANGED <<last, started>>
    /\ UNCHANGED <<asset, attempt, seen, vNodes, fulfilled, nodeVars, spork8, doing, ghosts>>

\* The computer sleeps for an hour.
Sleep ==
    /\ ~slept /\ slept' = TRUE
    /\ last' = [x \in Collected |-> IF last[x] = "recent" THEN "old" ELSE last[x]]
    /\ started' = "old" /\ failure' = "old"
    /\ UNCHANGED <<asset, attempt, seen, vNodes, fulfilled, fBlockchainSynced, spork8, doing, ghosts>>

SyncNext ==
    \/ \E recent, locked, cleared \in BOOLEAN : Process(recent, locked, cleared)
    \/ \E recent \in BOOLEAN : IsBlockchainSynced(recent)
    \/ \E x \in Collected : Added(x)
    \/ \E p \in Peers : Connect(p) \/ Disconnect(p)
    \/ Proceed \/ ResetCommand \/ SporkChanges \/ Age \/ Sleep

SyncSpec == SyncInit /\ [][SyncNext]_syncVars

\* Process is called for ever and goes on, cs_vNodes is held only briefly by others,
\* the chain becomes recent in the end, and time passes.
FairSpec ==
    /\ SyncSpec
    /\ WF_syncVars(Proceed)
    /\ WF_syncVars(\E cleared \in BOOLEAN : Process(TRUE, TRUE, cleared))
    /\ WF_syncVars(Age)

-----------------------------------------------------------------------------
\* Every variable has values of its type, and no more requests are counted
\* than one stage makes.
SyncTypeOK ==
    /\ asset \in Assets /\ attempt \in 0 .. 3 * THRESHOLD
    /\ last \in [Collected -> Ages] /\ seen \in [Collected -> 0 .. THRESHOLD]
    /\ vNodes \subseteq Peers /\ fulfilled \in [Peers -> SUBSET Stages]
    /\ {started, failure} \subseteq {"recent", "old"}
    /\ {fBlockchainSynced, slept, spork8, crossed} \subseteq BOOLEAN
    /\ doing \in [act : {"none", "next", "skip", "asklast", "ask", "fail"}, stage : Assets]
    /\ skipped \subseteq {"LIST", "MNW"}

\* A node does not come to the later stages, or to the end, with nothing: the list is not
\* empty when winners are asked for, and neither are the winners when the budget is, unless
\* the stage was given up when spork 8 was off.  It may have come on since.  The
\* exception is a Reset that another thread did while Process was about to move on: it
\* then goes on from the stage it had, with everything forgotten (masternode-sync.cpp:39).
SyncedMeansReceived ==
    ~crossed =>
       /\ asset \in {"MNW", "BUDGET", "FINISHED"} => last["LIST"] /= "never" \/ "LIST" \in skipped
       /\ asset \in {"BUDGET", "FINISHED"}        => last["MNW"] /= "never" \/ "MNW" \in skipped

\* Nobody is left to ask in this stage, and asking nobody will not end it.
Starved ==
    /\ asset \in Stages /\ doing = Idle
    /\ \A p \in Capable(asset) : asset \in fulfilled[p]
    /\ asset \in Collected /\ Capable(asset) /= {} =>
           attempt < THRESHOLD \/ (last[asset] = "never" /\ asset /= "BUDGET")

\* Synchronisation never goes round in circles: unless it is disturbed for
\* ever it finishes, or it fails and says so, or it has run out of peers to
\* ask before enough of them were asked or anything came.
FinishesOrStarves ==
    <>[][~Sleep /\ ~ResetCommand /\ \A p \in Peers : ~Disconnect(p)]_syncVars =>
        []<>(asset \in {"FINISHED", "FAILED"} \/ Starved)
=============================================================================
