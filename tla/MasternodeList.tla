----------------------------- MODULE MasternodeList -----------------------------
(***************************************************************************)
(* The list of masternodes of one node (masternodeman.cpp, masternode.cpp)   *)
(* and, if the node is a masternode itself, how it is activated from remote  *)
(* and pings (activemasternode.cpp).                                         *)
(*                                                                           *)
(* Broadcasts and pings arrive late, early (from clocks that are ahead),     *)
(* again, in any order or never.  Broadcasts have good signatures; nothing   *)
(* vouches for the ping they carry.  The list is a vector, and erasing an    *)
(* entry moves those behind it up.  The node has no funds of its own (a      *)
(* "hot" node).                                                              *)
(*                                                                           *)
(* A handler or a round of cleaning is one step; ManageStatus, which the     *)
(* handlers interrupt, is three.  mapSeenMasternodePing is left out: it      *)
(* keeps a ping from being looked at twice, and a ping that was accepted is  *)
(* refused the second time anyway.  So are the maps of requests, which only  *)
(* limit what the node sends.                                                *)
(***************************************************************************)
EXTENDS Integers, FiniteSets

CONSTANTS
    Vins,               \* collaterals of masternodes
    Broadcasts, vin, key, sigTime,  \* GetHash() is of sigTime and the collateral
    OldProtocol,        \* the broadcasts with protocol 70920; the others have PROTOCOL_VERSION
    Keys, pubKeyMasternode,         \* keys; the one in this node's configuration
    MNB_SECONDS, MNP_SECONDS, PING_SECONDS, EXPIRATION_SECONDS, REMOVAL_SECONDS,
    CHECK_SECONDS, Hour,
    StartTime,          \* when the node starts
    BroadcastPings,     \* times of the pings that broadcasts carry
    ConfTimes,          \* times the block of the fifteenth confirmation of a collateral may have
    MaxTime, MaxFaults, \* bounds
    None

Times == 0 .. MaxTime
Entries == [broadcast : Broadcasts, pubKeyMasternode : Keys, sigTime : Times, lastPing : Times,
            activeState : {"ENABLED", "EXPIRED", "REMOVE", "VIN_SPENT"}, lastTimeChecked : Times]

ASSUME ListAssumption ==
    /\ vin \in [Broadcasts -> Vins] /\ key \in [Broadcasts -> Keys] /\ sigTime \in [Broadcasts -> Times]
    /\ \A b, c \in Broadcasts : vin[b] = vin[c] /\ sigTime[b] = sigTime[c] => b = c
    /\ pubKeyMasternode \in Keys /\ OldProtocol \subseteq Broadcasts
    /\ IsFiniteSet(Vins) /\ ConfTimes \cup BroadcastPings \subseteq Times
    /\ {MNB_SECONDS, MNP_SECONDS, PING_SECONDS, CHECK_SECONDS, Hour, StartTime, MaxTime, MaxFaults} \subseteq Nat
    /\ {EXPIRATION_SECONDS, REMOVAL_SECONDS} \subseteq Nat
    /\ 0 < EXPIRATION_SECONDS /\ EXPIRATION_SECONDS <= REMOVAL_SECONDS
    /\ CHECK_SECONDS <= StartTime /\ StartTime <= MaxTime
    /\ None \notin Vins \cup Times
ASSUME NoneAssumption == None \notin Entries

VARIABLES
    now,                \* GetTime() and GetAdjustedTime()
    vMasternodes, slot, \* the entry of a collateral, or None, and its place in the vector, from 1
    mapSeen,            \* mapSeenMasternodeBroadcast: the time of the ping stored with it, or None
    unspent, confTime,  \* collaterals that AcceptableInputs accepts; their block of confirmation
    onlyUpdated,        \* GetMinMasternodePaymentsProto() is PROTOCOL_VERSION
    status, activeVin,  \* CActiveMasternode
    managing,           \* how far ManageStatus is, and where its pmn points (0: nowhere)
    blockchainSynced,   \* masternodeSync.IsBlockchainSynced()
    faults,             \* restarts, failed locks, changes of aroundVars
    inherited,          \* entries whose lastTimeChecked is that of another one (a ghost)
    pingless            \* the last step was a broadcast without a ping (a ghost)

listVars == <<vMasternodes, slot, inherited>>
activeVars == <<status, activeVin, managing>>
aroundVars == <<unspent, confTime, onlyUpdated, blockchainSynced>>
vars == <<now, listVars, mapSeen, aroundVars, activeVars, faults, pingless>>

NoCall == [step |-> "idle", at |-> 0]

Init ==
    /\ now = StartTime /\ faults = 0 /\ inherited = {} /\ pingless = FALSE
    /\ vMasternodes = [v \in Vins |-> None] /\ slot = [v \in Vins |-> 0]
    /\ mapSeen = [b \in Broadcasts |-> None]
    /\ unspent = Vins /\ confTime = [v \in Vins |-> 0] /\ onlyUpdated = FALSE /\ blockchainSynced = TRUE
    /\ status = "INITIAL" /\ activeVin = None /\ managing = NoCall

-----------------------------------------------------------------------------
(* One entry e at time now.  locked: whether TRY_LOCK(cs_main) succeeds.     *)

IsEnabled(e) == e.activeState = "ENABLED"

IsPingedWithin(e, seconds, t) == t - e.lastPing < seconds

IsBroadcastedWithin(e, seconds) == now - e.sigTime < seconds

\* protocolVersion < GetMinMasternodePaymentsProto()
Outdated(b) == onlyUpdated /\ b \in OldProtocol

\* CMasternode(mnb), with the ping at time p
NewEntry(b, p) ==
    [broadcast |-> b, pubKeyMasternode |-> key[b], sigTime |-> sigTime[b], lastPing |-> p,
     activeState |-> "ENABLED", lastTimeChecked |-> 0]

Throttled(e) == now - e.lastTimeChecked < CHECK_SECONDS

\* Mutant: the longer time is looked at second.
CheckExpiredFirst(e, forceCheck, locked) ==
    IF ~forceCheck /\ Throttled(e) THEN e
    ELSE [e EXCEPT !.lastTimeChecked = now,
                   !.activeState =
                       CASE @ = "VIN_SPENT"                             -> @
                         [] ~IsPingedWithin(e, EXPIRATION_SECONDS, now) -> "EXPIRED"
                         [] ~IsPingedWithin(e, REMOVAL_SECONDS, now)    -> "REMOVE"
                         [] ~locked                                     -> @
                         [] vin[e.broadcast] \notin unspent             -> "VIN_SPENT"
                         [] OTHER                                       -> "ENABLED"]

Check(e, forceCheck, locked) ==
    IF ~forceCheck /\ Throttled(e) THEN e
    ELSE [e EXCEPT !.lastTimeChecked = now,
                   !.activeState =
                       IF @ = "VIN_SPENT" THEN @
                       ELSE IF ~IsPingedWithin(e, REMOVAL_SECONDS, now) THEN "REMOVE"
                       ELSE IF ~IsPingedWithin(e, EXPIRATION_SECONDS, now) THEN "EXPIRED"
                       ELSE IF ~locked THEN @
                       ELSE IF vin[e.broadcast] \notin unspent THEN "VIN_SPENT"
                       ELSE "ENABLED"]

\* CMasternodePing::CheckAndUpdate: whether a ping at time p is taken.  good: it is signed
\* with the key of the entry and its block is known and recent.
PingCounts(e, p, fRequireEnabled, good) ==
    /\ p <= now + Hour /\ p > now - Hour
    /\ ~Outdated(e.broadcast)
    /\ fRequireEnabled => IsEnabled(e)
    /\ ~IsPingedWithin(e, MNP_SECONDS, p)
    /\ good

Pinged(e, p, fRequireEnabled, good, locked) ==
    IF PingCounts(e, p, fRequireEnabled, good)
    THEN Check([e EXCEPT !.lastPing = p], TRUE, locked) ELSE e

\* Mutant: the key of the entry is kept.
UpdatedKeepsKey(e, b, p, good, locked) ==
    LET new == [e EXCEPT !.broadcast = b, !.sigTime = sigTime[b], !.lastTimeChecked = 0]
    IN  Check(IF p = 0 THEN [new EXCEPT !.lastPing = 0] ELSE Pinged(new, p, FALSE, good, locked), FALSE, locked)

\* UpdateFromNewBroadcast and Check, of a broadcast that is newer.  Time 0 stands for no
\* ping, which replaces the one that is there.
Updated(e, b, p, good, locked) ==
    LET new == [e EXCEPT !.broadcast = b, !.pubKeyMasternode = key[b], !.sigTime = sigTime[b],
                         !.lastTimeChecked = 0]
    IN  Check(IF p = 0 THEN [new EXCEPT !.lastPing = 0] ELSE Pinged(new, p, FALSE, good, locked), FALSE, locked)

-----------------------------------------------------------------------------
(* The vector                                                               *)

Listed(list) == {v \in Vins : list[v] /= None}

\* The time of the last check in slot s of the list
SlotTime(list, s) ==
    LET times == {list[u].lastTimeChecked : u \in {w \in Listed(list) : slot[w] = s}}
    IN  CHOOSE t \in times \cup {0} : times /= {} => t \in times

\* The entries of gone are erased.  operator= moves those behind them up but leaves
\* lastTimeChecked where it is.  borrowed: what inherited was before.
Erased(list, gone, borrowed) ==
    LET before(v) == {u \in gone : slot[u] < slot[v]}
        place(v)  == slot[v] - Cardinality(before(v))
        moved     == {v \in Listed(list) \ gone : before(v) /= {}}
    IN  [list |-> [v \in Vins |->
                       IF v \in gone THEN None
                       ELSE IF v \in moved THEN [list[v] EXCEPT !.lastTimeChecked = SlotTime(list, place(v))]
                       ELSE list[v]],
         slot |-> [v \in Vins |-> IF v \in gone THEN 0 ELSE place(v)],
         inherited |-> (borrowed \ gone) \cup moved]

\* push_back(e), which copies the other entries to another place if the vector grows.
Pushed(vector, v, e, grows) ==
    [vector EXCEPT !.list = [u \in Vins |-> IF u = v THEN e
                                            ELSE IF grows /\ @[u] /= None
                                            THEN [@[u] EXCEPT !.lastTimeChecked = 0] ELSE @[u]],
                   !.slot = [@ EXCEPT ![v] = Cardinality(Listed(vector.list)) + 1]]

-----------------------------------------------------------------------------
(* "mnb"                                                                    *)

\* Mutant: an entry that is not enabled gives way to any broadcast.
PlausibleUnlessEnabled(b) ==
    LET e == vMasternodes[vin[b]]
    IN  sigTime[b] <= now + Hour /\ ~Outdated(b) /\ (e /= None /\ IsEnabled(e) => e.sigTime <= sigTime[b])

\* CMasternodeBroadcast::CheckAndUpdate: whether to go on, ...
Plausible(b) ==
    LET e == vMasternodes[vin[b]]
    IN  sigTime[b] <= now + Hour /\ ~Outdated(b) /\ (e /= None => e.sigTime <= sigTime[b])

\* ... and whether the entry takes the broadcast over
Renews(b) ==
    LET e == vMasternodes[vin[b]]
    IN  /\ Plausible(b) /\ e /= None /\ IsEnabled(e)
        /\ ~IsBroadcastedWithin(e, MNB_SECONDS)
        /\ sigTime[b] > e.sigTime

\* The broadcast is for the masternode this node is.
Ours(b) == vin[b] = activeVin /\ key[b] = pubKeyMasternode

\* Mutant: an entry is removed in any case.
CheckInputsAndAddAlways(e, b, later) ==
    IF Ours(b) THEN [stays |-> TRUE, added |-> FALSE, seen |-> TRUE]
    ELSE [stays |-> FALSE, seen |-> ~later,
          added |-> ~later /\ vin[b] \in unspent /\ confTime[vin[b]] <= sigTime[b]]

\* CheckInputsAndAdd with the entry e: whether it stays, whether one is added, whether the
\* broadcast stays seen.  later: the lock is not available or the collateral has too few
\* confirmations.
CheckInputsAndAdd(e, b, later) ==
    IF Ours(b) \/ (e /= None /\ IsEnabled(e)) THEN [stays |-> TRUE, added |-> FALSE, seen |-> TRUE]
    ELSE [stays |-> FALSE, seen |-> ~later,
          added |-> ~later /\ vin[b] \in unspent /\ confTime[vin[b]] <= sigTime[b]]

Fault == faults < MaxFaults /\ faults' = faults + 1

\* A broadcast that was not seen, with the ping at time p.  good: whether that ping is;
\* grows: whether the vector has to.
mnb(b, p, good, later, locked, grows) ==
    LET v    == vin[b]
        e    == IF Renews(b) THEN Updated(vMasternodes[v], b, p, good, locked) ELSE vMasternodes[v]
        r    == IF Plausible(b) THEN CheckInputsAndAdd(e, b, later)
                ELSE [stays |-> TRUE, added |-> FALSE, seen |-> TRUE]
        left == Erased([vMasternodes EXCEPT ![v] = e], IF r.stays \/ e = None THEN {} ELSE {v},
                       IF Renews(b) THEN inherited \ {v} ELSE inherited)
        now_ == IF r.added THEN Pushed(left, v, NewEntry(b, p), grows) ELSE left
        activated == r.added /\ key[b] = pubKeyMasternode /\ b \notin OldProtocol
    IN  /\ blockchainSynced /\ mapSeen[b] = None
        /\ IF later \/ ~locked THEN Fault ELSE UNCHANGED faults
        /\ vMasternodes' = now_.list /\ slot' = now_.slot /\ inherited' = now_.inherited
        /\ mapSeen' = [mapSeen EXCEPT ![b] = IF r.seen THEN p ELSE None]
        /\ status' = IF activated THEN "STARTED" ELSE status
        /\ activeVin' = IF activated THEN v ELSE activeVin
        /\ managing' = IF r.added /\ grows THEN [managing EXCEPT !.at = 0] ELSE managing
        /\ UNCHANGED <<now, aroundVars>>

-----------------------------------------------------------------------------
(* The other messages, checks and the cleaning                              *)

\* The stored broadcast of an entry has the ping of the entry.
StorePing(e, p) == [mapSeen EXCEPT ![e.broadcast] = IF @ = None THEN None ELSE p]

\* "mnp".  A ping that does not count changes nothing here.
mnp(v, p, locked) ==
    LET e == vMasternodes[v]
    IN  /\ blockchainSynced
        /\ e /= None /\ PingCounts(e, p, TRUE, TRUE)
        /\ vMasternodes' = [vMasternodes EXCEPT ![v] = Pinged(e, p, TRUE, TRUE, locked)]
        /\ inherited' = inherited \ {v}
        /\ mapSeen' = StorePing(e, p)
        /\ IF locked THEN UNCHANGED faults ELSE Fault
        /\ UNCHANGED <<now, slot, aroundVars, activeVars>>

\* "dseg": the broadcasts of the entries that are sent count as seen.
dseg ==
    /\ blockchainSynced
    /\ mapSeen' = [b \in Broadcasts |->
           LET e == vMasternodes[vin[b]]
           IN  IF mapSeen[b] = None /\ e /= None /\ e.broadcast = b /\ IsEnabled(e)
               THEN e.lastPing ELSE mapSeen[b]]
    /\ mapSeen' /= mapSeen
    /\ UNCHANGED <<now, listVars, aroundVars, activeVars, faults>>

\* Check of an entry by itself: CountEnabled, stable_size and others that go through the list
CheckEntry(v, locked) ==
    /\ vMasternodes[v] /= None /\ ~Throttled(vMasternodes[v])
    /\ IF locked THEN UNCHANGED faults ELSE Fault
    /\ vMasternodes' = [vMasternodes EXCEPT ![v] = Check(@, FALSE, locked)]
    /\ inherited' = inherited \ {v}
    /\ UNCHANGED <<now, slot, mapSeen, aroundVars, activeVars>>

Removable(e, forceExpiredRemoval) ==
    \/ e.activeState \in {"REMOVE", "VIN_SPENT"}
    \/ forceExpiredRemoval /\ e.activeState = "EXPIRED"
    \/ Outdated(e.broadcast)

\* Mutant: the broadcasts of what is removed stay.
CleanedKeepSeen(list, forceExpiredRemoval, locked) ==
    LET after == [v \in Vins |-> IF list[v] = None THEN None ELSE Check(list[v], FALSE, locked)]
        gone  == {v \in Listed(list) : Removable(after[v], forceExpiredRemoval)}
        left  == Erased(after, gone, {v \in inherited : list[v] /= None /\ Throttled(list[v])})
    IN  /\ vMasternodes' = left.list /\ slot' = left.slot /\ inherited' = left.inherited
        /\ mapSeen' = [b \in Broadcasts |->
               IF mapSeen[b] /= None /\ mapSeen[b] < now - 2 * REMOVAL_SECONDS THEN None ELSE mapSeen[b]]

\* Check and CheckAndRemove of a list: the entries that are gone take every broadcast of
\* theirs with them, and so does time.
Cleaned(list, forceExpiredRemoval, locked) ==
    LET after == [v \in Vins |-> IF list[v] = None THEN None ELSE Check(list[v], FALSE, locked)]
        gone  == {v \in Listed(list) : Removable(after[v], forceExpiredRemoval)}
        left  == Erased(after, gone, {v \in inherited : list[v] /= None /\ Throttled(list[v])})
    IN  /\ vMasternodes' = left.list /\ slot' = left.slot /\ inherited' = left.inherited
        /\ mapSeen' = [b \in Broadcasts |->
               IF \/ vin[b] \in gone
                  \/ mapSeen[b] /= None /\ mapSeen[b] < now - 2 * REMOVAL_SECONDS
               THEN None ELSE mapSeen[b]]

CheckAndRemove(locked) ==
    /\ blockchainSynced
    /\ IF locked THEN UNCHANGED faults ELSE Fault
    /\ Cleaned(vMasternodes, FALSE, locked)
    /\ UNCHANGED <<now, aroundVars, activeVars>>

-----------------------------------------------------------------------------
(* CActiveMasternode: ManageStatus of a hot node, one call at a time          *)

\* The entry that Find(pubKeyMasternode) returns
OwnVins == {v \in Listed(vMasternodes) : vMasternodes[v].pubKeyMasternode = pubKeyMasternode}
IsFound(v) == v \in OwnVins /\ \A u \in OwnVins : slot[v] <= slot[u]

\* The call looks for its entry.  startmasternode: it comes from that command, which forgets
\* a failure.
ManageStatus(startmasternode, locked) ==
    LET s     == IF startmasternode \/ status = "SYNC_IN_PROCESS" THEN "INITIAL" ELSE status
        looks == blockchainSynced /\ s = "INITIAL"
    IN  /\ managing = NoCall
        /\ startmasternode => status /= "STARTED"
        /\ IF locked THEN UNCHANGED faults ELSE Fault
        /\ status' = IF blockchainSynced THEN s ELSE "SYNC_IN_PROCESS"
        /\ \/ /\ ~(looks /\ OwnVins /= {})
              /\ managing' = IF blockchainSynced THEN [NoCall EXCEPT !.step = "rest"] ELSE NoCall
              /\ UNCHANGED <<vMasternodes, inherited>>
           \/ \E v \in OwnVins :
                  LET e == Check(vMasternodes[v], FALSE, locked)
                  IN  /\ looks /\ IsFound(v)
                      /\ vMasternodes' = [vMasternodes EXCEPT ![v] = e]
                      /\ inherited' = IF Throttled(vMasternodes[v]) THEN inherited ELSE inherited \ {v}
                      /\ managing' = IF IsEnabled(e) /\ e.broadcast \notin OldProtocol
                                     THEN [step |-> "enable", at |-> slot[v]]
                                     ELSE [NoCall EXCEPT !.step = "rest"]
        /\ UNCHANGED <<now, slot, mapSeen, aroundVars, activeVin>>

\* pmn->vin is read again, from the slot where the entry was: whatever is there now is
\* taken, and anything if the vector is elsewhere or shorter.
EnableHotColdMasterNode(v) ==
    /\ managing.step = "enable"
    /\ (\E u \in Listed(vMasternodes) : slot[u] = managing.at) =>
           v \in Listed(vMasternodes) /\ slot[v] = managing.at
    /\ status' = "STARTED" /\ activeVin' = v /\ managing' = [NoCall EXCEPT !.step = "rest"]
    /\ UNCHANGED <<now, listVars, mapSeen, aroundVars, faults>>

\* The rest of the call: a node that is not started has no funds, another one pings.
SendMasternodePing ==
    LET e == vMasternodes[activeVin]
    IN  /\ managing.step = "rest" /\ managing' = NoCall
        /\ IF status /= "STARTED" \/ e = None
           THEN status' = "NOT_CAPABLE" /\ UNCHANGED <<vMasternodes, mapSeen>>
           ELSE /\ UNCHANGED status
                /\ IF IsPingedWithin(e, PING_SECONDS, now) THEN UNCHANGED <<vMasternodes, mapSeen>>
                   ELSE /\ vMasternodes' = [vMasternodes EXCEPT ![activeVin].lastPing = now]
                        /\ mapSeen' = StorePing(e, now)
        /\ UNCHANGED <<now, slot, inherited, aroundVars, activeVin, faults>>

-----------------------------------------------------------------------------
(* The rest of the node                                                     *)

\* A restart.  saved: after an orderly shutdown, which writes mncache.dat; otherwise there is
\* none.  That an older one is read after a crash is left out.
Restart(saved) ==
    /\ Fault
    /\ IF saved
       THEN Cleaned([v \in Vins |-> IF vMasternodes[v] = None THEN None
                                    ELSE [vMasternodes[v] EXCEPT !.lastTimeChecked = 0]], TRUE, TRUE)
       ELSE /\ vMasternodes' = [v \in Vins |-> None] /\ mapSeen' = [b \in Broadcasts |-> None]
            /\ slot' = [v \in Vins |-> 0] /\ inherited' = {}
    /\ status' = "INITIAL" /\ activeVin' = None /\ managing' = NoCall /\ blockchainSynced' = FALSE
    /\ UNCHANGED <<now, unspent, confTime, onlyUpdated>>

\* IsBlockchainSynced() becomes true, or false after an hour without Process()
SyncChanges ==
    /\ blockchainSynced' = ~blockchainSynced
    /\ IF blockchainSynced THEN Fault ELSE UNCHANGED faults
    /\ UNCHANGED <<now, listVars, mapSeen, unspent, confTime, onlyUpdated, activeVars>>

\* A collateral is spent, or a reorganisation brings it back.
SpendOrUnspend(v) ==
    /\ Fault
    /\ unspent' = IF v \in unspent THEN unspent \ {v} ELSE unspent \cup {v}
    /\ UNCHANGED <<now, listVars, mapSeen, confTime, onlyUpdated, blockchainSynced, activeVars>>

\* A reorganisation gives the collateral another block of confirmation.
Reconfirm(v, t) ==
    /\ Fault
    /\ confTime' = [confTime EXCEPT ![v] = t]
    /\ UNCHANGED <<now, listVars, mapSeen, unspent, onlyUpdated, blockchainSynced, activeVars>>

\* Sporks change the minimum protocol.
MinProtoChanges ==
    /\ Fault
    /\ onlyUpdated' = ~onlyUpdated
    /\ UNCHANGED <<now, listVars, mapSeen, unspent, confTime, blockchainSynced, activeVars>>

Tick ==
    /\ now < MaxTime /\ now' = now + 1
    /\ UNCHANGED <<listVars, mapSeen, aroundVars, activeVars, faults>>

\* The broadcast b arrives.
Arrives(b) ==
    \E p \in BroadcastPings, later, grows \in BOOLEAN :
        \E good, locked \in IF Renews(b) THEN BOOLEAN ELSE {TRUE} :
            mnb(b, p, good, later, locked, grows) /\ pingless' = (p = 0)

\* Whatever happens but a broadcast
Other ==
    \/ \E v \in Vins, p \in Times, locked \in BOOLEAN : mnp(v, p, locked)
    \/ dseg
    \/ \E v \in Vins, locked \in BOOLEAN : CheckEntry(v, locked)
    \/ \E locked \in BOOLEAN : CheckAndRemove(locked)
    \/ \E startmasternode, locked \in BOOLEAN : ManageStatus(startmasternode, locked)
    \/ \E v \in Vins : EnableHotColdMasterNode(v)
    \/ SendMasternodePing
    \/ \E saved \in BOOLEAN : Restart(saved)
    \/ SyncChanges
    \/ \E v \in Vins : SpendOrUnspend(v)
    \/ \E v \in Vins, t \in ConfTimes : Reconfirm(v, t)
    \/ MinProtoChanges
    \/ Tick

Next ==
    \/ \E b \in Broadcasts : Arrives(b)
    \/ Other /\ pingless' = FALSE

Spec == Init /\ [][Next]_vars

-----------------------------------------------------------------------------
(* Properties                                                               *)

\* An entry is what one broadcast for its collateral says: never the key of one and the
\* time of another (UpdateFromNewBroadcast, CMasternode(mnb)).
TypeOK ==
    /\ now \in Times /\ faults \in 0 .. MaxFaults
    /\ unspent \subseteq Vins /\ confTime \in [Vins -> Times]
    /\ onlyUpdated \in BOOLEAN /\ blockchainSynced \in BOOLEAN
    /\ vMasternodes \in [Vins -> Entries \cup {None}]
    /\ \A v \in Vins : vMasternodes[v] /= None =>
           LET e == vMasternodes[v]
           IN  /\ vin[e.broadcast] = v /\ e.lastTimeChecked <= now
               /\ e.pubKeyMasternode = key[e.broadcast] /\ e.sigTime = sigTime[e.broadcast]
    /\ slot \in [Vins -> Int] /\ inherited \subseteq Listed(vMasternodes)
    /\ mapSeen \in [Broadcasts -> Times \cup {None}]
    /\ status \in {"INITIAL", "SYNC_IN_PROCESS", "NOT_CAPABLE", "STARTED"}
    /\ activeVin \in Vins \cup {None} /\ (status = "STARTED" => activeVin /= None)
    /\ pingless \in BOOLEAN /\ managing \in [step : {"idle", "enable", "rest"}, at : Int]

\* A broadcast that is older than the entry never takes its place, whatever the state of
\* the entry and however broadcasts are repeated or reordered (CheckAndUpdate,
\* UpdateFromNewBroadcast).  While the collateral stays listed, the owner who changed the
\* key is not overruled by the broadcast of the old one; once it was removed, or an older
\* mncache.dat was read, he can be.
NewestBroadcast ==
    [][\A v \in Vins : vMasternodes[v] /= None /\ vMasternodes'[v] /= None =>
           vMasternodes'[v].sigTime >= vMasternodes[v].sigTime]_vars

\* While the node runs no ping, check, failed lock or broadcast that carries a ping drops a
\* masternode that is enabled, pinged recently enough, not outdated and has its collateral,
\* though the entries share their slots (Check, CheckAndRemove, CheckInputsAndAdd).
LiveNeverDropped ==
    [][\A v \in unspent :
           /\ vMasternodes[v] /= None /\ vMasternodes'[v] = None
           /\ IsEnabled(vMasternodes[v]) /\ ~Outdated(vMasternodes[v].broadcast)
           /\ IsPingedWithin(vMasternodes[v], EXPIRATION_SECONDS, now)
           => pingless' \/ \E saved \in BOOLEAN : Restart(saved)]_vars

\* A masternode that stopped pinging does not stay: what CheckAndRemove leaves was pinged
\* within the time of removal, although checks are throttled and may end without a lock.
\* It may leave an entry that has moved to the slot of another one and was not checked
\* since (Check, CMasternode::operator=).
StaleRemoved ==
    [][\A v \in Vins \ inherited :
           /\ vMasternodes'[v] /= None
           /\ ~IsPingedWithin(vMasternodes'[v], REMOVAL_SECONDS + CHECK_SECONDS, now)
           => ~ \E locked \in BOOLEAN : CheckAndRemove(locked)]_vars

\* An entry whose broadcast is good enough for its collateral, and that is removed, can come
\* back without a new broadcast of the owner: its own, or a newer one that just arrived, is
\* not marked as seen afterwards, also when the newer one removed the entry and could not
\* be checked (CheckAndRemove, CheckInputsAndAdd).
RemovedCanReturn ==
    [][\A v \in unspent :
           /\ vMasternodes[v] /= None /\ vMasternodes'[v] = None
           /\ confTime[v] <= vMasternodes[v].sigTime
           => \E b \in Broadcasts :
                  /\ vin[b] = v /\ sigTime[b] >= vMasternodes[v].sigTime /\ mapSeen'[b] = None
                  /\ b = vMasternodes[v].broadcast \/ Arrives(b)]_vars
=============================================================================
