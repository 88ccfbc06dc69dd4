------------------------- MODULE Masternodes_proofs -------------------------
(***************************************************************************)
(* Proofs for MasternodeList, for any collaterals, broadcasts, keys and    *)
(* times, and for MasternodeSync, for any peers, threshold and order in    *)
(* which spork 8 changes.                                                  *)
(*                                                                         *)
(* The list.  Checks are throttled, may end without their lock, and leave  *)
(* the state of an entry alone in both cases.  What CheckAndRemove then    *)
(* lets stand is bounded because an entry that counts as alive was within  *)
(* the time of removal when it was last checked (CheckedAlive), and pings  *)
(* only move forward.  It says nothing of an entry that has the time of    *)
(* another one's check, until it is checked itself.                        *)
(*                                                                         *)
(* The synchronisation.  The argument is about the record of the fields    *)
(* that Reset and GetNextAsset assign: Good holds of the record of every   *)
(* reachable state, and what Process decided stays right until it acts     *)
(* (Pending), unless a Reset came in between.                              *)
(***************************************************************************)
EXTENDS MasternodeList, MasternodeSync, FiniteSetTheorems, TLAPS

States == {"ENABLED", "EXPIRED", "REMOVE", "VIN_SPENT"}

\* At its last check an entry that is not to be removed was pinged within the
\* time of removal.  A new entry was last checked at time 0.
Alive(e) ==
    e.activeState \in {"ENABLED", "EXPIRED"} => e.lastTimeChecked < e.lastPing + REMOVAL_SECONDS

CheckedAlive == \A v \in Vins \ inherited : vMasternodes[v] /= None => Alive(vMasternodes[v])

Inv == TypeOK /\ CheckedAlive

-----------------------------------------------------------------------------
(* Entries.                                                                *)

\* An entry of the collateral v that says what its broadcast says.
EntryOf(e, v) ==
    /\ e \in Entries
    /\ vin[e.broadcast] = v
    /\ e.pubKeyMasternode = key[e.broadcast]
    /\ e.sigTime = sigTime[e.broadcast]
    /\ e.lastTimeChecked <= now

LEMMA ConstantsTyped ==
    /\ vin \in [Broadcasts -> Vins] /\ key \in [Broadcasts -> Keys]
    /\ sigTime \in [Broadcasts -> Times]
    /\ MNB_SECONDS \in Nat /\ MNP_SECONDS \in Nat /\ PING_SECONDS \in Nat
    /\ CHECK_SECONDS \in Nat /\ Hour \in Nat /\ StartTime \in Times /\ MaxTime \in Nat
    /\ MaxFaults \in Nat /\ EXPIRATION_SECONDS \in Nat /\ REMOVAL_SECONDS \in Nat
    /\ 0 < EXPIRATION_SECONDS /\ EXPIRATION_SECONDS <= REMOVAL_SECONDS
    /\ 0 \in Times /\ (\A t \in Times : t \in Nat) /\ None \notin Vins
    /\ ConfTimes \subseteq Times /\ BroadcastPings \subseteq Times
BY ListAssumption DEF Times

LEMMA EntryTyped ==
    ASSUME NEW e \in Entries
    PROVE  /\ e.broadcast \in Broadcasts /\ e.pubKeyMasternode \in Keys
           /\ e.sigTime \in Times /\ e.lastPing \in Times /\ e.lastTimeChecked \in Times
           /\ e.sigTime \in Nat /\ e.lastPing \in Nat /\ e.lastTimeChecked \in Nat
           /\ e.activeState \in States
           /\ e /= None
BY ConstantsTyped, NoneAssumption DEF Entries, States

\* The invariant, entry by entry.
LEMMA InvEntries ==
    ASSUME Inv
    PROVE  \A v \in Vins : vMasternodes[v] /= None =>
               /\ EntryOf(vMasternodes[v], v) /\ vMasternodes[v] \in Entries
               /\ v \notin inherited => Alive(vMasternodes[v])
BY DEF Inv, TypeOK, CheckedAlive, EntryOf

\* What a check, at now, makes of the state of an entry.
StateAfter(e, locked) ==
    IF e.activeState = "VIN_SPENT" THEN e.activeState
    ELSE IF ~IsPingedWithin(e, REMOVAL_SECONDS, now) THEN "REMOVE"
    ELSE IF ~IsPingedWithin(e, EXPIRATION_SECONDS, now) THEN "EXPIRED"
    ELSE IF ~locked THEN e.activeState
    ELSE IF vin[e.broadcast] \notin unspent THEN "VIN_SPENT"
    ELSE "ENABLED"

LEMMA CheckIs ==
    ASSUME NEW e \in Entries, NEW forceCheck, NEW locked
    PROVE  Check(e, forceCheck, locked) =
               IF ~forceCheck /\ Throttled(e) THEN e
               ELSE [e EXCEPT !.lastTimeChecked = now, !.activeState = StateAfter(e, locked)]
BY DEF Check, StateAfter

\* Check changes the state and the time of the check only.  What it leaves alive was pinged
\* within the time of removal, unless the check came too early to look.
LEMMA CheckTyped ==
    ASSUME NEW e \in Entries, now \in Times, NEW forceCheck, NEW locked
    PROVE  LET c == Check(e, forceCheck, locked)
           IN  /\ c \in Entries
               /\ c.broadcast = e.broadcast /\ c.pubKeyMasternode = e.pubKeyMasternode
               /\ c.sigTime = e.sigTime /\ c.lastPing = e.lastPing
               /\ \/ c = e /\ ~forceCheck /\ Throttled(e)
                  \/ /\ c.lastTimeChecked = now /\ c.activeState = StateAfter(e, locked)
                     /\ forceCheck \/ ~Throttled(e)
                     /\ c.activeState \in {"ENABLED", "EXPIRED"} => now < e.lastPing + REMOVAL_SECONDS
<1> DEFINE s == StateAfter(e, locked)
           c == [e EXCEPT !.lastTimeChecked = now, !.activeState = s]
<1>1. s \in States
  BY EntryTyped DEF States, StateAfter
<1>2. s \in {"ENABLED", "EXPIRED"} => now - e.lastPing < REMOVAL_SECONDS
  BY DEF StateAfter, IsPingedWithin
<1>3. now - e.lastPing < REMOVAL_SECONDS => now < e.lastPing + REMOVAL_SECONDS
  BY EntryTyped, ConstantsTyped
<1>4. Check(e, forceCheck, locked) = IF ~forceCheck /\ Throttled(e) THEN e ELSE c
  BY CheckIs
<1> HIDE DEF s
<1>5. /\ c \in Entries
      /\ c.broadcast = e.broadcast /\ c.pubKeyMasternode = e.pubKeyMasternode
      /\ c.sigTime = e.sigTime /\ c.lastPing = e.lastPing
      /\ c.lastTimeChecked = now /\ c.activeState = s
  BY <1>1 DEF Entries, States
<1> HIDE DEF c
<1> QED
  BY <1>2, <1>3, <1>4, <1>5 DEF s

\* An entry stays well-formed when it is checked, and alive; it is alive in any case if it
\* was looked at.
LEMMA CheckKeepsEntry ==
    ASSUME NEW v, NEW e, EntryOf(e, v), now \in Times, NEW forceCheck, NEW locked
    PROVE  LET c == Check(e, forceCheck, locked)
           IN  /\ EntryOf(c, v)
               /\ Alive(e) \/ forceCheck \/ ~Throttled(e) => Alive(c)
<1> DEFINE c == Check(e, forceCheck, locked)
<1>1. e \in Entries /\ now \in Nat
  BY ConstantsTyped DEF EntryOf
<1>2. /\ c \in Entries
      /\ c.broadcast = e.broadcast /\ c.pubKeyMasternode = e.pubKeyMasternode
      /\ c.sigTime = e.sigTime /\ c.lastPing = e.lastPing
      /\ \/ c = e /\ ~forceCheck /\ Throttled(e)
         \/ /\ c.lastTimeChecked = now
            /\ c.activeState \in {"ENABLED", "EXPIRED"} => now < e.lastPing + REMOVAL_SECONDS
  BY <1>1, CheckTyped
<1> HIDE DEF c
<1>3. c.lastTimeChecked <= now
  BY <1>1, <1>2 DEF EntryOf
<1>4. Alive(e) \/ forceCheck \/ ~Throttled(e) => Alive(c)
  BY <1>2 DEF Alive
<1> QED
  BY <1>2, <1>3, <1>4 DEF EntryOf, c

\* An entry that is enabled, pinged recently, not outdated and has its collateral.
Live(e) ==
    /\ e.activeState = "ENABLED"
    /\ now - e.lastPing < EXPIRATION_SECONDS
    /\ vin[e.broadcast] \in unspent
    /\ ~Outdated(e.broadcast)

LEMMA CheckKeepsLive ==
    ASSUME NEW e \in Entries, Live(e), now \in Times, NEW forceCheck, NEW locked
    PROVE  Live(Check(e, forceCheck, locked))
<1> DEFINE c == Check(e, forceCheck, locked)
<1>1. IsPingedWithin(e, REMOVAL_SECONDS, now) /\ IsPingedWithin(e, EXPIRATION_SECONDS, now)
  BY EntryTyped, ConstantsTyped DEF Live, IsPingedWithin
<1>2. StateAfter(e, locked) = "ENABLED"
  BY <1>1 DEF Live, StateAfter
<1>3. /\ c.broadcast = e.broadcast /\ c.lastPing = e.lastPing
      /\ c = e \/ c.activeState = StateAfter(e, locked)
  BY CheckTyped
<1> HIDE DEF c
<1> QED
  BY <1>2, <1>3 DEF Live, c

\* A ping that counts is later than the last one.
LEMMA PingLater ==
    ASSUME NEW e \in Entries, NEW p \in Times, NEW fRequireEnabled, NEW good,
           PingCounts(e, p, fRequireEnabled, good)
    PROVE  e.lastPing <= p
<1>1. ~ (p - e.lastPing < MNP_SECONDS)
  BY DEF PingCounts, IsPingedWithin
<1> QED
  BY <1>1, EntryTyped, ConstantsTyped

LEMMA LaterPing ==
    ASSUME NEW v, NEW e, EntryOf(e, v), NEW p \in Times, e.lastPing <= p, now \in Times
    PROVE  LET new == [e EXCEPT !.lastPing = p]
           IN  /\ EntryOf(new, v)
               /\ new.broadcast = e.broadcast /\ new.sigTime = e.sigTime
               /\ Alive(e) => Alive(new)
               /\ Live(e) => Live(new)
<1> DEFINE new == [e EXCEPT !.lastPing = p]
<1>1. e \in Entries /\ e.lastPing \in Nat /\ e.lastTimeChecked \in Nat /\ p \in Nat
  BY EntryTyped, ConstantsTyped DEF EntryOf
<1>2. /\ new \in Entries
      /\ new.broadcast = e.broadcast /\ new.pubKeyMasternode = e.pubKeyMasternode
      /\ new.sigTime = e.sigTime /\ new.lastTimeChecked = e.lastTimeChecked
      /\ new.activeState = e.activeState /\ new.lastPing = p
  BY <1>1 DEF Entries
<1> HIDE DEF new
<1>3. Alive(e) => Alive(new)
  BY <1>1, <1>2, ConstantsTyped DEF Alive
<1>4. Live(e) => Live(new)
  BY <1>1, <1>2, ConstantsTyped DEF Live
<1> QED
  BY <1>2, <1>3, <1>4 DEF EntryOf, new

LEMMA PingedTyped ==
    ASSUME NEW v, NEW e, EntryOf(e, v), now \in Times, NEW p \in Times,
           NEW fRequireEnabled, NEW good, NEW locked
    PROVE  LET new == Pinged(e, p, fRequireEnabled, good, locked)
           IN  /\ EntryOf(new, v)
               /\ new.broadcast = e.broadcast /\ new.sigTime = e.sigTime
               /\ Alive(e) \/ PingCounts(e, p, fRequireEnabled, good) => Alive(new)
               /\ Live(e) => Live(new)
<1>1. CASE PingCounts(e, p, fRequireEnabled, good)
  <2> DEFINE new == [e EXCEPT !.lastPing = p]
             forceCheck == TRUE
             c == Check(new, forceCheck, locked)
  <2>1. e \in Entries
    BY DEF EntryOf
  <2>2. e.lastPing <= p
    BY <1>1, <2>1, PingLater
  <2>3. /\ EntryOf(new, v)
        /\ new.broadcast = e.broadcast /\ new.sigTime = e.sigTime
        /\ Live(e) => Live(new)
    BY <2>2, LaterPing
  <2>4. Pinged(e, p, fRequireEnabled, good, locked) = c /\ forceCheck
    BY <1>1 DEF Pinged
  <2> HIDE DEF new, forceCheck
  <2>5. new \in Entries
    BY <2>3 DEF EntryOf
  <2>6. EntryOf(c, v) /\ Alive(c)
    BY <2>3, <2>4, CheckKeepsEntry
  <2>7. c.broadcast = new.broadcast /\ c.sigTime = new.sigTime
    BY <2>5, CheckTyped
  <2>8. Live(new) => Live(c)
    BY <2>5, CheckKeepsLive
  <2> HIDE DEF c
  <2> QED
    BY <2>3, <2>4, <2>6, <2>7, <2>8
<1>2. CASE ~PingCounts(e, p, fRequireEnabled, good)
  BY <1>2 DEF Pinged
<1> QED
  BY <1>1, <1>2

\* An entry takes over a broadcast as a whole; with a ping, good or not, it stays live.
LEMMA UpdatedTyped ==
    ASSUME NEW e, NEW b \in Broadcasts, EntryOf(e, vin[b]), now \in Times, NEW p \in Times,
           NEW good, NEW locked
    PROVE  LET new == Updated(e, b, p, good, locked)
           IN  /\ EntryOf(new, vin[b]) /\ Alive(new)
               /\ new.sigTime = sigTime[b]
               /\ p /= 0 /\ ~Outdated(b) /\ Live(e) => Live(new)
<1> DEFINE first == [e EXCEPT !.broadcast = b, !.pubKeyMasternode = key[b],
                              !.sigTime = sigTime[b], !.lastTimeChecked = 0]
           none == [first EXCEPT !.lastPing = 0]
           forceCheck == FALSE
           second == IF p = 0 THEN none ELSE Pinged(first, p, forceCheck, good, locked)
           c == Check(second, forceCheck, locked)
<1>1. e \in Entries /\ key[b] \in Keys /\ sigTime[b] \in Times /\ 0 \in Times /\ now \in Nat
  BY ConstantsTyped DEF EntryOf
<1>2. /\ first \in Entries
      /\ first.broadcast = b /\ first.pubKeyMasternode = key[b] /\ first.sigTime = sigTime[b]
      /\ first.lastTimeChecked = 0 /\ first.lastPing = e.lastPing
      /\ first.activeState = e.activeState
  BY <1>1 DEF Entries
<1>3. Updated(e, b, p, good, locked) = c
  BY DEF Updated
<1> HIDE DEF first, forceCheck
<1>4. EntryOf(first, vin[b]) /\ Alive(first)
  BY <1>1, <1>2, EntryTyped, ConstantsTyped DEF EntryOf, Alive
<1>5. ~Outdated(b) /\ Live(e) => Live(first)
  BY <1>2 DEF EntryOf, Live
<1>6. EntryOf(none, vin[b]) /\ Alive(none) /\ none.sigTime = first.sigTime
  <2>1. /\ none \in Entries
        /\ none.broadcast = first.broadcast /\ none.pubKeyMasternode = first.pubKeyMasternode
        /\ none.sigTime = first.sigTime /\ none.lastTimeChecked = 0 /\ none.lastPing = 0
    BY <1>1, <1>2 DEF Entries
  <2> HIDE DEF none
  <2> QED
    BY <1>1, <1>2, <2>1, ConstantsTyped DEF EntryOf, Alive
<1>7. LET pinged == Pinged(first, p, forceCheck, good, locked)
      IN  /\ EntryOf(pinged, vin[b]) /\ Alive(pinged) /\ pinged.sigTime = first.sigTime
          /\ Live(first) => Live(pinged)
  BY <1>4, PingedTyped
<1>8. /\ EntryOf(second, vin[b]) /\ Alive(second) /\ second.sigTime = first.sigTime
      /\ p /= 0 /\ Live(first) => Live(second)
  <2> HIDE DEF none
  <2> QED
    BY <1>6, <1>7
<1> HIDE DEF second
<1>9. second \in Entries
  BY <1>8 DEF EntryOf
<1>10. EntryOf(c, vin[b]) /\ Alive(c)
  BY <1>8, CheckKeepsEntry
<1>11. c.sigTime = second.sigTime
  BY <1>9, CheckTyped
<1>12. Live(second) => Live(c)
  BY <1>9, CheckKeepsLive
<1> HIDE DEF c
<1> QED
  BY <1>2, <1>3, <1>5, <1>8, <1>10, <1>11, <1>12

LEMMA NewEntryTyped ==
    ASSUME NEW b \in Broadcasts, NEW p \in Times, now \in Times
    PROVE  /\ EntryOf(NewEntry(b, p), vin[b]) /\ Alive(NewEntry(b, p))
           /\ NewEntry(b, p) /= None
           /\ NewEntry(b, p).sigTime = sigTime[b]
<1> DEFINE new == NewEntry(b, p)
<1>1. /\ new \in Entries
      /\ new.broadcast = b /\ new.pubKeyMasternode = key[b] /\ new.sigTime = sigTime[b]
      /\ new.lastPing = p /\ new.activeState = "ENABLED" /\ new.lastTimeChecked = 0
  BY ConstantsTyped DEF NewEntry, Entries
<1> HIDE DEF new
<1>2. Alive(new) /\ new.lastTimeChecked <= now /\ new /= None
  BY <1>1, ConstantsTyped, EntryTyped DEF Alive
<1> QED
  BY <1>1, <1>2 DEF EntryOf, new

-----------------------------------------------------------------------------
(* The vector.                                                             *)

\* A list of well-formed entries.
Sound(list) ==
    /\ list \in [Vins -> Entries \cup {None}]
    /\ \A v \in Vins : list[v] /= None => EntryOf(list[v], v)

Vectors == [list : [Vins -> Entries \cup {None}], slot : [Vins -> Int], inherited : SUBSET Vins]

\* What erasing gone from the list leaves: the other entries, those that took the time of
\* another one's check among inherited.
ErasedSoundly(r, list, gone, borrowed) ==
    /\ r \in Vectors /\ Sound(r.list)
    /\ r.inherited \subseteq Listed(r.list)
    /\ \A w \in Vins :
           /\ r.list[w] = None <=> w \in gone \/ list[w] = None
           /\ r.list[w] /= None =>
                 /\ r.list[w].sigTime = list[w].sigTime /\ r.list[w].lastPing = list[w].lastPing
                 /\ w \notin r.inherited => r.list[w] = list[w] /\ w \notin borrowed

\* The time in a slot is that of an entry of the list, or 0.
LEMMA SlotTimeTyped ==
    ASSUME NEW list, Sound(list), now \in Times, NEW s
    PROVE  SlotTime(list, s) \in Times /\ SlotTime(list, s) <= now
<1> DEFINE times == {list[u].lastTimeChecked : u \in {w \in Listed(list) : slot[w] = s}}
<1>1. \A t \in times \cup {0} : t \in Times /\ t <= now
  BY EntryTyped, ConstantsTyped DEF Listed, Sound, EntryOf
<1>2. \E t \in times \cup {0} : times /= {} => t \in times
  OBVIOUS
<1>3. SlotTime(list, s) = CHOOSE t \in times \cup {0} : times /= {} => t \in times
  BY DEF SlotTime
<1> HIDE DEF times
<1> QED
  BY <1>1, <1>2, <1>3

LEMMA TimeChanged ==
    ASSUME NEW v, NEW e, EntryOf(e, v), NEW t \in Times, t <= now
    PROVE  LET new == [e EXCEPT !.lastTimeChecked = t]
           IN  /\ EntryOf(new, v) /\ new /= None
               /\ new.sigTime = e.sigTime /\ new.lastPing = e.lastPing
               /\ t = 0 => Alive(new)
<1> DEFINE new == [e EXCEPT !.lastTimeChecked = t]
<1>1. /\ new \in Entries
      /\ new.broadcast = e.broadcast /\ new.pubKeyMasternode = e.pubKeyMasternode
      /\ new.sigTime = e.sigTime /\ new.lastPing = e.lastPing /\ new.lastTimeChecked = t
  BY DEF EntryOf, Entries
<1> HIDE DEF new
<1>2. new /= None /\ (t = 0 => Alive(new))
  BY <1>1, EntryTyped, ConstantsTyped DEF Alive
<1> QED
  BY <1>1, <1>2 DEF EntryOf, new

LEMMA ErasedTyped ==
    ASSUME TypeOK, NEW list, Sound(list), NEW gone \in SUBSET Listed(list),
           NEW borrowed \in SUBSET Listed(list)
    PROVE  ErasedSoundly(Erased(list, gone, borrowed), list, gone, borrowed)
<1> DEFINE before(v) == {u \in gone : slot[u] < slot[v]}
           place(v)  == slot[v] - Cardinality(before(v))
           moved     == {v \in Listed(list) \ gone : before(v) /= {}}
           entry(v)  == IF v \in gone THEN None
                        ELSE IF v \in moved
                        THEN [list[v] EXCEPT !.lastTimeChecked = SlotTime(list, place(v))]
                        ELSE list[v]
           l == [v \in Vins |-> entry(v)]
           s == [v \in Vins |-> IF v \in gone THEN 0 ELSE place(v)]
           i == (borrowed \ gone) \cup moved
           r == Erased(list, gone, borrowed)
<1>1. r = [list |-> l, slot |-> s, inherited |-> i]
  BY DEF Erased
<1>2. now \in Times /\ slot \in [Vins -> Int] /\ gone \subseteq Vins /\ Listed(list) \subseteq Vins
  BY DEF TypeOK, Listed
<1>3. s \in [Vins -> Int]
  <2>1. ASSUME NEW v \in Vins PROVE place(v) \in Int
    <3>1. before(v) \subseteq Vins
      BY <1>2
    <3>2. IsFiniteSet(Vins)
      BY ListAssumption
    <3> HIDE DEF before
    <3>3. Cardinality(before(v)) \in Nat
      BY <3>1, <3>2, FS_Subset, FS_CardinalityType
    <3> QED
      BY <1>2, <3>3
  <2> HIDE DEF place
  <2> QED
    BY <2>1
<1> HIDE DEF before, place
<1>4. ASSUME NEW w \in Vins
      PROVE  /\ entry(w) = None <=> w \in gone \/ list[w] = None
             /\ entry(w) /= None =>
                   /\ EntryOf(entry(w), w)
                   /\ entry(w).sigTime = list[w].sigTime /\ entry(w).lastPing = list[w].lastPing
                   /\ w \notin i => entry(w) = list[w] /\ w \notin borrowed
  <2>1. CASE w \in gone
    BY <2>1
  <2>2. CASE w \in moved
    <3> DEFINE t == SlotTime(list, place(w))
    <3>1. t \in Times /\ t <= now
      BY <1>2, SlotTimeTyped
    <3>2. EntryOf(list[w], w) /\ list[w] /= None /\ w \notin gone
      BY <2>2 DEF Sound, Listed
    <3> HIDE DEF t
    <3>3. LET new == [list[w] EXCEPT !.lastTimeChecked = t]
          IN  EntryOf(new, w) /\ new /= None
              /\ new.sigTime = list[w].sigTime /\ new.lastPing = list[w].lastPing
      BY <3>1, <3>2, TimeChanged
    <3>4. entry(w) = [list[w] EXCEPT !.lastTimeChecked = t]
      BY <2>2, <3>2 DEF t
    <3> HIDE DEF entry
    <3> QED
      BY <2>2, <3>2, <3>3, <3>4
  <2>3. CASE w \notin gone /\ w \notin moved
    <3>1. entry(w) = list[w] /\ (w \notin i => w \notin borrowed)
      BY <2>3
    <3>2. list[w] /= None => EntryOf(list[w], w)
      BY DEF Sound
    <3> HIDE DEF entry, i, moved
    <3> QED
      BY <2>3, <3>1, <3>2
  <2> QED
    BY <2>1, <2>2, <2>3
<1>5. i \subseteq Vins /\ \A w \in i : w \notin gone /\ list[w] /= None
  BY <1>2 DEF Listed
<1> HIDE DEF entry, i, s
<1>6. l \in [Vins -> Entries \cup {None}]
  BY <1>4 DEF EntryOf
<1>7. \A w \in Vins : l[w] = entry(w)
  OBVIOUS
<1> HIDE DEF l
<1>8. Sound(l)
  BY <1>4, <1>6, <1>7 DEF Sound
<1>9. i \subseteq Listed(l)
  BY <1>4, <1>5, <1>7 DEF Listed
<1>10. r.list = l /\ r.inherited = i /\ r \in Vectors
  BY <1>1, <1>3, <1>5, <1>6 DEF Vectors
<1> HIDE DEF r
<1> QED
  BY <1>4, <1>7, <1>8, <1>9, <1>10 DEF ErasedSoundly, r

\* push_back replaces the entry of v and keeps the others, or sets the times of their checks
\* to 0.
LEMMA PushedTyped ==
    ASSUME NEW vector \in Vectors, Sound(vector.list), NEW v \in Vins, NEW e, EntryOf(e, v),
           now \in Times, NEW grows
    PROVE  LET r == Pushed(vector, v, e, grows)
           IN  /\ r \in Vectors /\ Sound(r.list) /\ r.inherited = vector.inherited
               /\ r.list[v] = e
               /\ \A u \in Vins \ {v} :
                     /\ r.list[u] = None <=> vector.list[u] = None
                     /\ r.list[u] /= None =>
                           /\ r.list[u].sigTime = vector.list[u].sigTime
                           /\ r.list[u].lastPing = vector.list[u].lastPing
                           /\ r.list[u] = vector.list[u] \/ Alive(r.list[u])
<1> DEFINE entry(u) == IF u = v THEN e
                       ELSE IF grows /\ vector.list[u] /= None
                       THEN [vector.list[u] EXCEPT !.lastTimeChecked = 0] ELSE vector.list[u]
           l == [u \in Vins |-> entry(u)]
           n == Cardinality(Listed(vector.list)) + 1
           s == [vector.slot EXCEPT ![v] = n]
           r == Pushed(vector, v, e, grows)
<1>1. /\ vector.list \in [Vins -> Entries \cup {None}] /\ vector.slot \in [Vins -> Int]
      /\ vector.inherited \in SUBSET Vins
      /\ vector = [list |-> vector.list, slot |-> vector.slot, inherited |-> vector.inherited]
  BY DEF Vectors
<1>2. r = [list |-> l, slot |-> s, inherited |-> vector.inherited]
  <2>1. r = [vector EXCEPT !.list = l, !.slot = s]
    BY DEF Pushed
  <2> HIDE DEF l, s
  <2> QED
    BY <1>1, <2>1
<1>3. n \in Int
  <2>1. Listed(vector.list) \subseteq Vins /\ IsFiniteSet(Vins)
    BY ListAssumption DEF Listed
  <2> QED
    BY <2>1, FS_Subset, FS_CardinalityType
<1>4. s \in [Vins -> Int]
  <2> HIDE DEF n
  <2> QED
    BY <1>1, <1>3
<1>5. ASSUME NEW u \in Vins \ {v}
      PROVE  /\ entry(u) = None <=> vector.list[u] = None
             /\ entry(u) /= None =>
                   /\ EntryOf(entry(u), u)
                   /\ entry(u).sigTime = vector.list[u].sigTime
                   /\ entry(u).lastPing = vector.list[u].lastPing
                   /\ entry(u) = vector.list[u] \/ Alive(entry(u))
  <2>1. CASE grows /\ vector.list[u] /= None
    <3>1. EntryOf(vector.list[u], u) /\ 0 \in Times /\ 0 <= now
      BY <2>1, ConstantsTyped DEF Sound
    <3>2. LET new == [vector.list[u] EXCEPT !.lastTimeChecked = 0]
          IN  /\ EntryOf(new, u) /\ new /= None /\ Alive(new)
              /\ new.sigTime = vector.list[u].sigTime /\ new.lastPing = vector.list[u].lastPing
      BY <3>1, TimeChanged
    <3>3. entry(u) = [vector.list[u] EXCEPT !.lastTimeChecked = 0]
      BY <2>1
    <3> HIDE DEF entry
    <3> QED
      BY <2>1, <3>2, <3>3
  <2>2. CASE ~ (grows /\ vector.list[u] /= None)
    <3>1. entry(u) = vector.list[u]
      BY <2>2
    <3>2. vector.list[u] /= None => EntryOf(vector.list[u], u)
      BY DEF Sound
    <3> HIDE DEF entry
    <3> QED
      BY <3>1, <3>2
  <2> QED
    BY <2>1, <2>2
<1>6. entry(v) = e
  OBVIOUS
<1> HIDE DEF entry, s
<1>7. l \in [Vins -> Entries \cup {None}]
  BY <1>5, <1>6 DEF EntryOf
<1>8. \A u \in Vins : l[u] = entry(u)
  OBVIOUS
<1> HIDE DEF l
<1>9. Sound(l)
  BY <1>5, <1>6, <1>7, <1>8 DEF Sound
<1>10. r.list = l /\ r.inherited = vector.inherited /\ r \in Vectors
  BY <1>1, <1>2, <1>4, <1>7 DEF Vectors
<1> HIDE DEF r
<1> QED
  BY <1>5, <1>6, <1>8, <1>9, <1>10 DEF r

-----------------------------------------------------------------------------
(* What each handler does to the entries.                                  *)

\* What a step does to the entry of v: one of no older broadcast takes its place, or it goes
\* and leaves a broadcast that can bring it back.
Kept(v) ==
    /\ vMasternodes'[v] /= None /\ v \notin inherited' => Alive(vMasternodes'[v])
    /\ vMasternodes[v] /= None /\ vMasternodes'[v] /= None =>
          vMasternodes'[v].sigTime >= vMasternodes[v].sigTime
    /\ /\ vMasternodes[v] /= None /\ vMasternodes'[v] = None
       /\ v \in unspent /\ confTime[v] <= vMasternodes[v].sigTime
       => \E b \in Broadcasts :
             /\ vin[b] = v /\ sigTime[b] >= vMasternodes[v].sigTime /\ mapSeen'[b] = None
             /\ b = vMasternodes[v].broadcast \/ Arrives(b)

\* What a step of the running node does to an entry that is alive.
LiveKept(v) == vMasternodes[v] /= None /\ Live(vMasternodes[v]) => vMasternodes'[v] /= None

\* What a step does to the list.
Outcome ==
    /\ Sound(vMasternodes') /\ slot' \in [Vins -> Int] /\ inherited' \subseteq Listed(vMasternodes')
    /\ mapSeen' \in [Broadcasts -> Times \cup {None}]
    /\ \A v \in Vins : Kept(v)

LEMMA InvSound ==
    ASSUME Inv
    PROVE  /\ Sound(vMasternodes) /\ TypeOK /\ now \in Times /\ now \in Nat
           /\ vMasternodes \in [Vins -> Entries \cup {None}] /\ slot \in [Vins -> Int]
           /\ inherited \subseteq Listed(vMasternodes) /\ inherited \subseteq Vins
           /\ mapSeen \in [Broadcasts -> Times \cup {None}]
           /\ \A v \in Vins : vMasternodes[v] /= None =>
                 vMasternodes[v].sigTime \in Nat /\ vMasternodes[v] \in Entries
BY InvEntries, EntryTyped, ConstantsTyped DEF Inv, TypeOK, Sound, Listed

LEMMA NothingChanged ==
    ASSUME Inv, UNCHANGED listVars, mapSeen' \in [Broadcasts -> Times \cup {None}]
    PROVE  Outcome /\ \A v \in Vins : LiveKept(v)
<1>1. UNCHANGED <<vMasternodes, slot, inherited>>
  BY DEF listVars
<1>2. \A v \in Vins : Kept(v) /\ LiveKept(v)
  BY <1>1, InvSound, InvEntries DEF Kept, LiveKept
<1> QED
  BY <1>1, <1>2, InvSound DEF Outcome

\* One entry changes, but not its broadcast; it is alive afterwards if its time is its own.
LEMMA OneChanged ==
    ASSUME Inv, NEW v \in Vins, vMasternodes[v] /= None,
           NEW new, EntryOf(new, v), new.sigTime = vMasternodes[v].sigTime,
           vMasternodes' = [vMasternodes EXCEPT ![v] = new], slot' = slot,
           \/ inherited' = inherited /\ (Alive(vMasternodes[v]) => Alive(new))
           \/ inherited' = inherited \ {v} /\ Alive(new),
           mapSeen' \in [Broadcasts -> Times \cup {None}]
    PROVE  Outcome /\ \A w \in Vins : LiveKept(w)
<1>1. vMasternodes'[v] = new /\ \A w \in Vins : w /= v => vMasternodes'[w] = vMasternodes[w]
  BY InvSound
<1>2. new /= None /\ new \in Entries
  BY EntryTyped DEF EntryOf
<1>3. vMasternodes' \in [Vins -> Entries \cup {None}]
  BY <1>2, InvSound
<1>4. Sound(vMasternodes')
  BY <1>1, <1>3, InvSound DEF Sound
<1>5. inherited' \subseteq Listed(vMasternodes')
  BY <1>1, <1>2, InvSound DEF Listed
<1>6. Kept(v) /\ LiveKept(v)
  BY <1>1, <1>2, InvEntries, InvSound DEF Kept, LiveKept
<1>7. \A w \in Vins : w /= v => Kept(w) /\ LiveKept(w)
  BY <1>1, InvEntries, InvSound DEF Kept, LiveKept
<1> QED
  BY <1>4, <1>5, <1>6, <1>7, InvSound DEF Outcome

\* "mnb".  The entry of the collateral is as it was, taken over, new or gone.
LEMMA BroadcastOutcome ==
    ASSUME Inv, NEW b \in Broadcasts, NEW p \in Times, NEW good, NEW later, NEW locked, NEW grows,
           mnb(b, p, good, later, locked, grows), Arrives(b)
    PROVE  /\ Outcome /\ (p /= 0 => \A v \in Vins : LiveKept(v))
           /\ \/ status' = status /\ activeVin' = activeVin
              \/ status' = "STARTED" /\ activeVin' = vin[b]
           /\ managing' \in {managing, [managing EXCEPT !.at = 0]}
<1> DEFINE v    == vin[b]
           old  == vMasternodes[v]
           e    == IF Renews(b) THEN Updated(old, b, p, good, locked) ELSE old
           r    == IF Plausible(b) THEN CheckInputsAndAdd(e, b, later)
                   ELSE [stays |-> TRUE, added |-> FALSE, seen |-> TRUE]
           list == [vMasternodes EXCEPT ![v] = e]
           gone == IF r.stays \/ e = None THEN {} ELSE {v}
           borrowed == IF Renews(b) THEN inherited \ {v} ELSE inherited
           left == Erased(list, gone, borrowed)
           now_ == IF r.added THEN Pushed(left, v, NewEntry(b, p), grows) ELSE left
           activated == r.added /\ key[b] = pubKeyMasternode /\ b \notin OldProtocol
<1>1. /\ v \in Vins /\ sigTime[b] \in Nat /\ now \in Times
      /\ vMasternodes \in [Vins -> Entries \cup {None}]
      /\ mapSeen \in [Broadcasts -> Times \cup {None}]
  BY ConstantsTyped, InvSound
<1>2. /\ vMasternodes' = now_.list /\ slot' = now_.slot /\ inherited' = now_.inherited
      /\ mapSeen' = [mapSeen EXCEPT ![b] = IF r.seen THEN p ELSE None]
      /\ status' = IF activated THEN "STARTED" ELSE status
      /\ activeVin' = IF activated THEN v ELSE activeVin
      /\ managing' = IF r.added /\ grows THEN [managing EXCEPT !.at = 0] ELSE managing
  BY DEF mnb
<1>3. old /= None => /\ EntryOf(old, v) /\ old.sigTime \in Nat
                     /\ v \notin inherited => Alive(old)
  BY <1>1, InvEntries, InvSound
<1>4. Plausible(b) => ~Outdated(b) /\ (old /= None => old.sigTime <= sigTime[b])
  BY DEF Plausible
<1>5. /\ old = None <=> e = None
      /\ e /= None => /\ EntryOf(e, v) /\ e.sigTime \in Nat /\ e.sigTime >= old.sigTime
                      /\ v \notin borrowed => Alive(e)
                      /\ p /= 0 /\ Live(old) => Live(e)
  <2>1. CASE Renews(b)
    <3>1. Plausible(b) /\ old /= None
      BY <2>1 DEF Renews
    <3>2. e = Updated(old, b, p, good, locked)
      BY <2>1
    <3> HIDE DEF e, old
    <3>3. /\ EntryOf(e, v) /\ Alive(e) /\ e.sigTime = sigTime[b]
          /\ p /= 0 /\ ~Outdated(b) /\ Live(old) => Live(e)
      BY <1>1, <1>3, <3>1, <3>2, UpdatedTyped
    <3>4. e /= None
      BY <3>3, EntryTyped DEF EntryOf
    <3> QED
      BY <1>1, <1>3, <1>4, <3>1, <3>3, <3>4
  <2>2. CASE ~Renews(b)
    <3>1. e = old /\ borrowed = inherited
      BY <2>2
    <3> HIDE DEF e, old, borrowed
    <3> QED
      BY <1>3, <3>1
  <2> QED
    BY <2>1, <2>2
<1>6. \/ r.stays = TRUE /\ r.added = FALSE
      \/ /\ Plausible(b) /\ r.stays = FALSE /\ ~ (e /= None /\ IsEnabled(e))
         /\ r.added \in BOOLEAN
         /\ ~r.added => \/ r.seen = FALSE
                        \/ v \notin unspent \/ ~ (confTime[v] <= sigTime[b])
  BY DEF CheckInputsAndAdd
<1>7. mapSeen' \in [Broadcasts -> Times \cup {None}] /\ mapSeen'[b] = IF r.seen THEN p ELSE None
  <2> HIDE DEF r
  <2> QED
    BY <1>1, <1>2
<1> HIDE DEF e, old, r
<1>8. list[v] = e /\ \A w \in Vins : w /= v => list[w] = vMasternodes[w]
  BY <1>1
<1>9. Sound(list)
  <2>1. list \in [Vins -> Entries \cup {None}]
    BY <1>1, <1>5 DEF EntryOf
  <2> HIDE DEF list
  <2> QED
    BY <1>5, <1>8, <2>1, InvEntries DEF Sound
<1>10. borrowed \in SUBSET Listed(list) /\ gone \in SUBSET Listed(list) /\ borrowed \subseteq inherited
  <2>1. \A w \in inherited : w \in Vins /\ vMasternodes[w] /= None
    BY InvSound DEF Listed
  <2>2. \A w \in inherited : list[w] /= None
    <3> HIDE DEF list
    <3> QED
      BY <1>5, <1>8, <2>1 DEF old
  <2> HIDE DEF list
  <2> QED
    BY <1>1, <1>8, <2>1, <2>2 DEF Listed
<1> HIDE DEF list
<1>11. ErasedSoundly(left, list, gone, borrowed)
  <2> HIDE DEF gone, borrowed
  <2> QED
    BY <1>9, <1>10, InvSound, ErasedTyped
<1>12. \A w \in Vins : w /= v /\ w \notin borrowed /\ list[w] /= None => Alive(list[w])
  BY <1>8, InvEntries
<1>13. v \in gone <=> ~r.stays /\ e /= None
  OBVIOUS
<1>14. \A w \in Vins : w \in gone => w = v
  OBVIOUS
<1> HIDE DEF gone, borrowed, left
<1>15. /\ left \in Vectors /\ Sound(left.list) /\ left.inherited \subseteq Listed(left.list)
       /\ \A w \in Vins :
             /\ left.list[w] = None <=> w \in gone \/ list[w] = None
             /\ left.list[w] /= None =>
                   /\ left.list[w].sigTime = list[w].sigTime
                   /\ w \notin left.inherited => Alive(left.list[w])
  BY <1>5, <1>8, <1>11, <1>12 DEF ErasedSoundly
<1>16. CASE ~r.added
  <2>1. now_ = left
    BY <1>16
  <2>2. /\ vMasternodes' = left.list /\ slot' = left.slot /\ inherited' = left.inherited
        /\ status' = status /\ activeVin' = activeVin /\ managing' = managing
    BY <1>2, <1>16, <2>1
  <2>3. Sound(vMasternodes') /\ slot' \in [Vins -> Int] /\ inherited' \subseteq Listed(vMasternodes')
    BY <1>15, <2>2 DEF Vectors
  <2>4. \A w \in Vins : w /= v => Kept(w) /\ LiveKept(w)
    BY <1>8, <1>14, <1>15, <2>2, InvSound DEF Kept, LiveKept
  <2>5. p /= 0 => LiveKept(v)
    BY <1>5, <1>6, <1>8, <1>13, <1>15, <2>2, <1>1 DEF LiveKept, Live, IsEnabled, old
  <2>6. Kept(v)
    <3>1. vMasternodes'[v] /= None /\ v \notin inherited' => Alive(vMasternodes'[v])
      BY <1>1, <1>15, <2>2
    <3>2. old /= None /\ vMasternodes'[v] /= None => vMasternodes'[v].sigTime >= old.sigTime
      BY <1>1, <1>3, <1>5, <1>8, <1>15, <2>2
    <3>3. ASSUME old /= None, vMasternodes'[v] = None, v \in unspent, confTime[v] <= old.sigTime
          PROVE  vin[b] = v /\ sigTime[b] >= old.sigTime /\ mapSeen'[b] = None
      <4>1. v \in gone
        BY <1>1, <1>5, <1>8, <1>15, <2>2, <3>3
      <4>2. Plausible(b) /\ (r.seen = FALSE \/ ~ (confTime[v] <= sigTime[b]))
        BY <1>6, <1>13, <1>16, <3>3, <4>1
      <4>3. old.sigTime <= sigTime[b] /\ confTime[v] \in Nat
        BY <1>1, <1>4, <3>3, <4>2, ConstantsTyped, InvSound DEF TypeOK
      <4> QED
        BY <1>1, <1>3, <1>7, <3>3, <4>2, <4>3
    <3> QED
      BY <3>1, <3>2, <3>3 DEF Kept, old
  <2> QED
    BY <1>7, <2>2, <2>3, <2>4, <2>5, <2>6 DEF Outcome
<1>17. CASE r.added
  <2> DEFINE new == NewEntry(b, p)
  <2>1. now_ = Pushed(left, v, new, grows)
    BY <1>17
  <2>2. EntryOf(new, v) /\ Alive(new) /\ new /= None /\ new.sigTime = sigTime[b]
    BY <1>1, NewEntryTyped
  <2> HIDE DEF new, v
  <2>3. /\ now_ \in Vectors /\ Sound(now_.list) /\ now_.inherited = left.inherited
        /\ now_.list[v] = new
        /\ \A u \in Vins \ {v} :
              /\ now_.list[u] = None <=> left.list[u] = None
              /\ now_.list[u] /= None =>
                    /\ now_.list[u].sigTime = left.list[u].sigTime
                    /\ now_.list[u] = left.list[u] \/ Alive(now_.list[u])
    BY <1>1, <1>15, <2>1, <2>2, PushedTyped
  <2>4. vMasternodes' = now_.list /\ slot' = now_.slot /\ inherited' = now_.inherited
    BY <1>2
  <2> HIDE DEF now_
  <2>5. Sound(vMasternodes') /\ slot' \in [Vins -> Int]
    BY <2>3, <2>4 DEF Vectors
  <2>6. inherited' \subseteq Listed(vMasternodes')
    BY <1>15, <2>2, <2>3, <2>4 DEF Listed
  <2>7. \A w \in Vins : w /= v => Kept(w) /\ LiveKept(w)
    BY <1>8, <1>14, <1>15, <2>3, <2>4, InvSound DEF Kept, LiveKept
  <2>8. Kept(v) /\ LiveKept(v)
    BY <1>1, <1>3, <1>4, <1>6, <1>17, <2>2, <2>3, <2>4 DEF Kept, LiveKept, old
  <2>9. \/ status' = status /\ activeVin' = activeVin
        \/ status' = "STARTED" /\ activeVin' = vin[b]
    BY <1>2 DEF v
  <2>10. managing' \in {managing, [managing EXCEPT !.at = 0]}
    BY <1>2
  <2> QED
    BY <1>7, <2>5, <2>6, <2>7, <2>8, <2>9, <2>10 DEF Outcome
<1> QED
  BY <1>16, <1>17

LEMMA StorePingTyped ==
    ASSUME Inv, NEW e, NEW p \in Times
    PROVE  StorePing(e, p) \in [Broadcasts -> Times \cup {None}]
BY InvSound DEF StorePing

\* "mnp".
LEMMA PingOutcome ==
    ASSUME Inv, NEW v \in Vins, NEW p \in Times, NEW locked, mnp(v, p, locked)
    PROVE  Outcome /\ \A w \in Vins : LiveKept(w)
<1> DEFINE e == vMasternodes[v]
           good == TRUE
           new == Pinged(e, p, good, good, locked)
<1>1. /\ e /= None /\ PingCounts(e, p, good, good) /\ mapSeen' = StorePing(e, p)
      /\ vMasternodes' = [vMasternodes EXCEPT ![v] = new]
      /\ slot' = slot /\ inherited' = inherited \ {v}
  BY DEF mnp
<1>2. EntryOf(e, v) /\ now \in Times
  BY <1>1, InvEntries, InvSound
<1> HIDE DEF good
<1>3. EntryOf(new, v) /\ new.sigTime = e.sigTime /\ Alive(new)
  <2> HIDE DEF e
  <2> QED
    BY <1>1, <1>2, PingedTyped
<1> HIDE DEF new
<1>4. mapSeen' \in [Broadcasts -> Times \cup {None}]
  BY <1>1, StorePingTyped
<1> QED
  BY <1>1, <1>3, <1>4, OneChanged

\* An entry is checked, by CountEnabled and others or by ManageStatus.
LEMMA CheckOutcome ==
    ASSUME Inv, NEW v \in Vins, vMasternodes[v] /= None, NEW locked,
           vMasternodes' = [vMasternodes EXCEPT ![v] = Check(@, FALSE, locked)],
           slot' = slot, mapSeen' = mapSeen,
           inherited' = IF Throttled(vMasternodes[v]) THEN inherited ELSE inherited \ {v}
    PROVE  Outcome /\ \A w \in Vins : LiveKept(w)
<1> DEFINE e == vMasternodes[v]
           forceCheck == FALSE
           new == Check(e, forceCheck, locked)
<1>1. vMasternodes' = [vMasternodes EXCEPT ![v] = new]
  OBVIOUS
<1>2. EntryOf(e, v) /\ e \in Entries /\ now \in Times
  BY InvEntries, InvSound
<1> HIDE DEF forceCheck
<1>3. EntryOf(new, v) /\ (Alive(e) \/ ~Throttled(e) => Alive(new))
  <2> HIDE DEF e
  <2> QED
    BY <1>2, CheckKeepsEntry
<1>4. new.sigTime = e.sigTime
  <2> HIDE DEF e
  <2> QED
    BY <1>2, CheckTyped
<1> HIDE DEF new
<1>5. mapSeen' \in [Broadcasts -> Times \cup {None}]
  BY InvSound
<1> QED
  BY <1>1, <1>3, <1>4, <1>5, OneChanged

\* CheckAndRemove.  What it leaves was checked now, or at a time when it was alive.
LEMMA CleanedOutcome ==
    ASSUME Inv, NEW list, Sound(list), NEW forceExpiredRemoval, NEW locked,
           \A v \in Vins : /\ list[v] = None <=> vMasternodes[v] = None
                           /\ list[v] /= None => list[v].sigTime = vMasternodes[v].sigTime
                           /\ list[v] /= None /\ v \notin inherited => Alive(list[v]),
           Cleaned(list, forceExpiredRemoval, locked)
    PROVE  /\ Outcome
           /\ \A v \in Vins :
                 /\ list[v] /= None /\ Live(list[v]) => vMasternodes'[v] /= None
                 /\ vMasternodes'[v] /= None /\ v \notin inherited =>
                       now - vMasternodes'[v].lastPing < REMOVAL_SECONDS + CHECK_SECONDS
<1> DEFINE forceCheck == FALSE
           entry(v) == IF list[v] = None THEN None ELSE Check(list[v], forceCheck, locked)
           after == [v \in Vins |-> entry(v)]
           gone  == {v \in Listed(list) : Removable(after[v], forceExpiredRemoval)}
           borrowed == {v \in inherited : list[v] /= None /\ Throttled(list[v])}
           left  == Erased(after, gone, borrowed)
<1>1. /\ now \in Times /\ now \in Nat /\ mapSeen \in [Broadcasts -> Times \cup {None}]
      /\ inherited \subseteq Vins
  BY InvSound
<1>2. /\ vMasternodes' = left.list /\ slot' = left.slot /\ inherited' = left.inherited
      /\ mapSeen' = [b \in Broadcasts |->
            IF \/ vin[b] \in gone
               \/ mapSeen[b] /= None /\ mapSeen[b] < now - 2 * REMOVAL_SECONDS
            THEN None ELSE mapSeen[b]]
  BY DEF Cleaned
<1>3. mapSeen' \in [Broadcasts -> Times \cup {None}]
  BY <1>1, <1>2
<1> HIDE DEF forceCheck
<1>4. ASSUME NEW v \in Vins, list[v] /= None
      PROVE  LET e == list[v]
                 c == Check(e, forceCheck, locked)
             IN  /\ EntryOf(c, v) /\ c \in Entries /\ c /= None
                 /\ c.sigTime = e.sigTime /\ c.lastPing = e.lastPing
                 /\ v \notin borrowed => Alive(c)
                 /\ Live(e) => Live(c)
                 /\ c.activeState \in {"ENABLED", "EXPIRED"} /\ v \notin inherited =>
                       now - c.lastPing < REMOVAL_SECONDS + CHECK_SECONDS
  <2> DEFINE e == list[v]
             c == Check(e, forceCheck, locked)
  <2>1. /\ EntryOf(e, v) /\ e \in Entries /\ e.lastPing \in Nat /\ e.lastTimeChecked \in Nat
        /\ v \notin inherited => Alive(e)
    BY <1>4, EntryTyped DEF Sound, EntryOf
  <2>2. v \notin borrowed => v \notin inherited \/ ~Throttled(e)
    BY <1>4
  <2> HIDE DEF e
  <2>3. EntryOf(c, v) /\ (Alive(e) \/ ~Throttled(e) => Alive(c))
    BY <1>1, <2>1, CheckKeepsEntry
  <2>4. /\ c.sigTime = e.sigTime /\ c.lastPing = e.lastPing
        /\ \/ c = e /\ Throttled(e)
           \/ c.activeState \in {"ENABLED", "EXPIRED"} => now < e.lastPing + REMOVAL_SECONDS
    BY <1>1, <2>1, CheckTyped
  <2>5. Live(e) => Live(c)
    BY <1>1, <2>1, CheckKeepsLive
  <2> HIDE DEF c
  <2>6. c \in Entries /\ c /= None
    BY <2>3, EntryTyped DEF EntryOf
  <2>7. c.activeState \in {"ENABLED", "EXPIRED"} /\ v \notin inherited =>
           now - c.lastPing < REMOVAL_SECONDS + CHECK_SECONDS
    <3> SUFFICES ASSUME c.activeState \in {"ENABLED", "EXPIRED"}, v \notin inherited
                 PROVE  now - c.lastPing < REMOVAL_SECONDS + CHECK_SECONDS
      OBVIOUS
    <3>1. CASE c = e /\ Throttled(e)
      <4>1. now - e.lastTimeChecked < CHECK_SECONDS /\ e.lastTimeChecked < e.lastPing + REMOVAL_SECONDS
        BY <2>1, <3>1 DEF Throttled, Alive
      <4> QED
        BY <1>1, <2>1, <3>1, <4>1, ConstantsTyped
    <3>2. CASE now < e.lastPing + REMOVAL_SECONDS
      BY <1>1, <2>1, <2>4, <3>2, ConstantsTyped
    <3> QED
      BY <2>4, <3>1, <3>2
  <2> HIDE DEF borrowed
  <2> QED
    BY <2>2, <2>1, <2>3, <2>4, <2>5, <2>6, <2>7 DEF c, e
<1>5. \A v \in Vins : list[v] = None => entry(v) = None
  OBVIOUS
<1>6. \A v \in Vins : list[v] /= None => entry(v) = Check(list[v], forceCheck, locked)
  OBVIOUS
<1> HIDE DEF entry
<1>7. \A v \in Vins : after[v] = entry(v)
  OBVIOUS
<1>8. after \in [Vins -> Entries \cup {None}]
  BY <1>4, <1>5, <1>6
<1>9. \A v \in borrowed : v \in Vins /\ list[v] /= None
  BY <1>1
<1> HIDE DEF after, borrowed
<1>10. Sound(after)
  BY <1>4, <1>5, <1>6, <1>7, <1>8 DEF Sound
<1>11. \A v \in Vins : list[v] = None <=> after[v] = None
  BY <1>4, <1>5, <1>6, <1>7
<1>12. gone \in SUBSET Listed(after) /\ borrowed \in SUBSET Listed(after)
  BY <1>9, <1>11 DEF Listed
<1>13. \A v \in Vins : v \in gone <=> after[v] /= None /\ Removable(after[v], forceExpiredRemoval)
  BY <1>11 DEF Listed
<1> HIDE DEF gone
<1>14. ErasedSoundly(left, after, gone, borrowed)
  BY <1>10, <1>12, InvSound, ErasedTyped
<1> HIDE DEF left
<1>15. Sound(vMasternodes') /\ slot' \in [Vins -> Int] /\ inherited' \subseteq Listed(vMasternodes')
  BY <1>2, <1>14 DEF ErasedSoundly, Vectors
<1>16. ASSUME NEW v \in Vins
       PROVE  /\ Kept(v)
              /\ list[v] /= None /\ Live(list[v]) => vMasternodes'[v] /= None
              /\ vMasternodes'[v] /= None /\ v \notin inherited =>
                    now - vMasternodes'[v].lastPing < REMOVAL_SECONDS + CHECK_SECONDS
  <2>1. CASE list[v] = None
    <3>1. vMasternodes'[v] = None /\ vMasternodes[v] = None
      BY <2>1, <1>2, <1>11, <1>14 DEF ErasedSoundly
    <3> QED
      BY <2>1, <3>1 DEF Kept
  <2>2. CASE list[v] /= None
    <3> DEFINE c == after[v]
    <3>1. /\ c \in Entries /\ c /= None
          /\ c.sigTime = vMasternodes[v].sigTime /\ vMasternodes[v] /= None
          /\ v \notin borrowed => Alive(c)
          /\ Live(list[v]) => Live(c)
          /\ c.activeState \in {"ENABLED", "EXPIRED"} /\ v \notin inherited =>
                now - c.lastPing < REMOVAL_SECONDS + CHECK_SECONDS
      BY <2>2, <1>4, <1>6, <1>7
    <3>2. vMasternodes[v].sigTime \in Nat
      BY <3>1, InvSound
    <3> HIDE DEF c
    <3>3. v \in gone <=> Removable(c, forceExpiredRemoval)
      BY <3>1, <1>13 DEF c
    <3>4. /\ vMasternodes'[v] = None <=> v \in gone
          /\ vMasternodes'[v] /= None =>
                /\ vMasternodes'[v].sigTime = c.sigTime /\ vMasternodes'[v].lastPing = c.lastPing
                /\ v \notin inherited' => vMasternodes'[v] = c /\ v \notin borrowed
      BY <3>1, <1>2, <1>14 DEF ErasedSoundly, c
    <3>5. ASSUME v \in gone
          PROVE  LET b == vMasternodes[v].broadcast
                 IN  /\ b \in Broadcasts /\ vin[b] = v /\ sigTime[b] = vMasternodes[v].sigTime
                     /\ mapSeen'[b] = None
      <4>1. EntryOf(vMasternodes[v], v)
        BY <3>1, InvEntries
      <4>2. vMasternodes[v].broadcast \in Broadcasts
        BY <4>1, EntryTyped DEF EntryOf
      <4> QED
        BY <1>2, <3>5, <4>1, <4>2 DEF EntryOf
    <3>6. Kept(v)
      BY <3>1, <3>2, <3>4, <3>5 DEF Kept
    <3>7. Live(list[v]) => vMasternodes'[v] /= None
      BY <3>1, <3>3, <3>4 DEF Live, Removable
    <3>8. vMasternodes'[v] /= None /\ v \notin inherited =>
             now - vMasternodes'[v].lastPing < REMOVAL_SECONDS + CHECK_SECONDS
      BY <3>1, <3>3, <3>4, EntryTyped DEF Removable, States
    <3> QED
      BY <3>6, <3>7, <3>8
  <2> QED
    BY <2>1, <2>2
<1> QED
  BY <1>3, <1>15, <1>16 DEF Outcome

\* ManageStatus looks at its entry and checks it.
LEMMA ManageOutcome ==
    ASSUME Inv, NEW startmasternode \in BOOLEAN, NEW locked, ManageStatus(startmasternode, locked)
    PROVE  /\ Outcome /\ \A v \in Vins : LiveKept(v)
           /\ status' \in {"INITIAL", "SYNC_IN_PROCESS", status} /\ activeVin' = activeVin
           /\ managing'.step \in {"idle", "enable", "rest"} /\ managing'.at \in Int
           /\ managing' \in [step : {"idle", "enable", "rest"}, at : Int]
<1>1. slot' = slot /\ mapSeen' = mapSeen /\ activeVin' = activeVin
      /\ status' \in {"INITIAL", "SYNC_IN_PROCESS", status}
  BY DEF ManageStatus
<1>2. NoCall \in [step : {"idle", "enable", "rest"}, at : Int]
      /\ [NoCall EXCEPT !.step = "rest"] = [step |-> "rest", at |-> 0]
  BY DEF NoCall
<1>3. CASE /\ UNCHANGED <<vMasternodes, inherited>>
           /\ managing' = IF blockchainSynced THEN [NoCall EXCEPT !.step = "rest"] ELSE NoCall
  <2>1. UNCHANGED listVars /\ mapSeen' \in [Broadcasts -> Times \cup {None}]
    BY <1>1, <1>3, InvSound DEF listVars
  <2>2. Outcome /\ \A v \in Vins : LiveKept(v)
    BY <2>1, NothingChanged
  <2>3. managing' \in [step : {"idle", "enable", "rest"}, at : Int]
    BY <1>2, <1>3
  <2> QED
    BY <1>1, <2>2, <2>3
<1>4. CASE \E v \in OwnVins :
              LET e == Check(vMasternodes[v], FALSE, locked)
              IN  /\ vMasternodes' = [vMasternodes EXCEPT ![v] = e]
                  /\ inherited' = IF Throttled(vMasternodes[v]) THEN inherited ELSE inherited \ {v}
                  /\ managing' = IF IsEnabled(e) /\ e.broadcast \notin OldProtocol
                                 THEN [step |-> "enable", at |-> slot[v]]
                                 ELSE [NoCall EXCEPT !.step = "rest"]
  <2>1. PICK v \in OwnVins :
           /\ vMasternodes' = [vMasternodes EXCEPT ![v] = Check(@, FALSE, locked)]
           /\ inherited' = IF Throttled(vMasternodes[v]) THEN inherited ELSE inherited \ {v}
           /\ \/ managing' = [step |-> "enable", at |-> slot[v]]
              \/ managing' = [NoCall EXCEPT !.step = "rest"]
    BY <1>4
  <2>2. v \in Vins /\ vMasternodes[v] /= None
    BY DEF OwnVins, Listed
  <2>3. Outcome /\ \A w \in Vins : LiveKept(w)
    BY <1>1, <2>1, <2>2, CheckOutcome
  <2>4. slot[v] \in Int
    BY <2>2, InvSound
  <2>5. managing' \in [step : {"idle", "enable", "rest"}, at : Int]
    BY <1>2, <2>1, <2>4
  <2> QED
    BY <1>1, <2>3, <2>5
<1> QED
  BY <1>3, <1>4 DEF ManageStatus

\* SendMasternodePing makes the ping of the node's entry later, if it is there.
LEMMA SendPingOutcome ==
    ASSUME Inv, SendMasternodePing
    PROVE  Outcome /\ \A v \in Vins : LiveKept(v)
<1> DEFINE e == vMasternodes[activeVin]
           new == [e EXCEPT !.lastPing = now]
<1>1. slot' = slot /\ inherited' = inherited
  BY DEF SendMasternodePing
<1>2. CASE UNCHANGED <<vMasternodes, mapSeen>>
  BY <1>1, <1>2, NothingChanged, InvSound DEF listVars
<1>3. CASE /\ status = "STARTED" /\ e /= None /\ ~IsPingedWithin(e, PING_SECONDS, now)
           /\ vMasternodes' = [vMasternodes EXCEPT ![activeVin].lastPing = now]
           /\ mapSeen' = StorePing(e, now)
  <2>1. activeVin \in Vins
    BY <1>3, InvSound DEF TypeOK
  <2>2. EntryOf(e, activeVin) /\ e.lastPing \in Nat /\ now \in Times /\ now \in Nat
    BY <1>3, <2>1, InvEntries, InvSound, EntryTyped
  <2>3. vMasternodes' = [vMasternodes EXCEPT ![activeVin] = new]
    BY <1>3
  <2>4. e.lastPing <= now
    BY <1>3, <2>2, ConstantsTyped DEF IsPingedWithin
  <2>5. EntryOf(new, activeVin) /\ new.sigTime = e.sigTime /\ (Alive(e) => Alive(new))
    <3> HIDE DEF e
    <3> QED
      BY <2>2, <2>4, LaterPing
  <2>6. mapSeen' \in [Broadcasts -> Times \cup {None}]
    BY <1>3, <2>2, StorePingTyped
  <2> HIDE DEF new
  <2> QED
    BY <1>1, <1>3, <2>1, <2>3, <2>5, <2>6, OneChanged
<1> QED
  BY <1>2, <1>3 DEF SendMasternodePing

\* A restart loses the list, or checks and cleans it.
LEMMA RestartOutcome ==
    ASSUME Inv, NEW saved \in BOOLEAN, Restart(saved)
    PROVE  Outcome
<1>1. CASE ~saved
  <2>1. /\ vMasternodes' = [v \in Vins |-> None] /\ mapSeen' = [b \in Broadcasts |-> None]
        /\ slot' = [v \in Vins |-> 0] /\ inherited' = {}
    BY <1>1 DEF Restart
  <2>2. ASSUME NEW v \in Vins PROVE Kept(v)
    <3>1. vMasternodes'[v] = None
      BY <2>1
    <3>2. vMasternodes[v] /= None =>
             LET b == vMasternodes[v].broadcast
             IN  b \in Broadcasts /\ vin[b] = v /\ sigTime[b] = vMasternodes[v].sigTime
                 /\ sigTime[b] \in Nat
      BY InvEntries, EntryTyped, ConstantsTyped DEF EntryOf
    <3> QED
      BY <2>1, <3>1, <3>2 DEF Kept
  <2> QED
    BY <2>1, <2>2 DEF Outcome, Sound
<1>2. CASE saved
  <2> DEFINE entry(v) == IF vMasternodes[v] = None THEN None
                         ELSE [vMasternodes[v] EXCEPT !.lastTimeChecked = 0]
             list == [v \in Vins |-> entry(v)]
             force == TRUE
  <2>1. Cleaned(list, force, force)
    BY <1>2 DEF Restart
  <2>2. ASSUME NEW v \in Vins
        PROVE  /\ entry(v) = None <=> vMasternodes[v] = None
               /\ entry(v) /= None => /\ EntryOf(entry(v), v) /\ Alive(entry(v))
                                      /\ entry(v).sigTime = vMasternodes[v].sigTime
    <3>1. CASE vMasternodes[v] = None
      BY <3>1
    <3>2. CASE vMasternodes[v] /= None
      <4>1. EntryOf(vMasternodes[v], v) /\ 0 \in Times /\ 0 <= now
        BY <3>2, InvEntries, InvSound, ConstantsTyped
      <4>2. LET new == [vMasternodes[v] EXCEPT !.lastTimeChecked = 0]
            IN  /\ EntryOf(new, v) /\ new /= None /\ new.sigTime = vMasternodes[v].sigTime
                /\ Alive(new)
        BY <4>1, TimeChanged
      <4>3. entry(v) = [vMasternodes[v] EXCEPT !.lastTimeChecked = 0]
        BY <3>2
      <4> HIDE DEF entry
      <4> QED
        BY <3>2, <4>2, <4>3
    <3> QED
      BY <3>1, <3>2
  <2> HIDE DEF entry, force
  <2>3. list \in [Vins -> Entries \cup {None}]
    BY <2>2 DEF EntryOf
  <2>4. \A v \in Vins : list[v] = entry(v)
    OBVIOUS
  <2> HIDE DEF list
  <2>5. Sound(list)
    BY <2>2, <2>3, <2>4 DEF Sound
  <2> QED
    BY <2>1, <2>2, <2>4, <2>5, CleanedOutcome
<1> QED
  BY <1>1, <1>2

\* "dseg".
LEMMA DsegTyped ==
    ASSUME Inv, dseg
    PROVE  mapSeen' \in [Broadcasts -> Times \cup {None}]
<1>1. /\ mapSeen \in [Broadcasts -> Times \cup {None}]
      /\ \A v \in Vins : vMasternodes[v] /= None => vMasternodes[v] \in Entries
      /\ \A b \in Broadcasts : vin[b] \in Vins
  BY ConstantsTyped, InvSound
<1>2. mapSeen' = [b \in Broadcasts |->
         LET e == vMasternodes[vin[b]]
         IN  IF mapSeen[b] = None /\ e /= None /\ e.broadcast = b /\ IsEnabled(e)
             THEN e.lastPing ELSE mapSeen[b]]
  BY DEF dseg
<1> QED
  BY <1>1, <1>2, EntryTyped

-----------------------------------------------------------------------------
(* The invariant is inductive.                                             *)

LEMMA InitInv == Init => Inv
<1> SUFFICES ASSUME Init PROVE Inv
  OBVIOUS
<1>1. now \in Times /\ faults \in 0 .. MaxFaults /\ confTime \in [Vins -> Times]
  BY ConstantsTyped DEF Init
<1>2. managing \in [step : {"idle", "enable", "rest"}, at : Int]
  BY DEF Init, NoCall
<1>3. /\ vMasternodes \in [Vins -> Entries \cup {None}] /\ slot \in [Vins -> Int]
      /\ mapSeen \in [Broadcasts -> Times \cup {None}]
      /\ \A v \in Vins : vMasternodes[v] = None
      /\ inherited \subseteq Listed(vMasternodes)
  BY DEF Init
<1>4. TypeOK
  BY <1>1, <1>2, <1>3 DEF Init, TypeOK
<1> QED
  BY <1>3, <1>4 DEF Inv, CheckedAlive

\* A broadcast arrived, with the ping at some time.
LEMMA ArrivesMnb ==
    ASSUME NEW b \in Broadcasts, Arrives(b)
    PROVE  \E p \in Times, good, later, locked, grows \in BOOLEAN :
              mnb(b, p, good, later, locked, grows) /\ pingless' = (p = 0)
<1>1. PICK p \in BroadcastPings, later \in BOOLEAN, grows \in BOOLEAN :
         \E good, locked \in IF Renews(b) THEN BOOLEAN ELSE {TRUE} :
             mnb(b, p, good, later, locked, grows) /\ pingless' = (p = 0)
  BY Zenon DEF Arrives
<1>2. PICK good \in BOOLEAN, locked \in BOOLEAN :
         mnb(b, p, good, later, locked, grows) /\ pingless' = (p = 0)
  <2>1. (IF Renews(b) THEN BOOLEAN ELSE {TRUE}) \subseteq BOOLEAN
    OBVIOUS
  <2> QED
    BY <1>1, <2>1, Zenon
<1>3. p \in Times
  BY ConstantsTyped
<1> QED
  BY <1>2, <1>3, Zenon

\* The rest of the node's state is typed after every step.
LEMMA RestTyped ==
    ASSUME Inv, [Next]_vars
    PROVE  /\ now' \in Times /\ now' >= now /\ faults' \in 0 .. MaxFaults
           /\ unspent' \subseteq Vins /\ confTime' \in [Vins -> Times]
           /\ onlyUpdated' \in BOOLEAN /\ blockchainSynced' \in BOOLEAN /\ pingless' \in BOOLEAN
<1> DEFINE Around == /\ unspent' \subseteq Vins /\ confTime' \in [Vins -> Times]
                     /\ onlyUpdated' \in BOOLEAN /\ blockchainSynced' \in BOOLEAN
           P == now' \in Times /\ now' >= now /\ faults' \in 0 .. MaxFaults /\ Around
<1>1. /\ now \in Times /\ unspent \subseteq Vins /\ faults \in 0 .. MaxFaults
      /\ confTime \in [Vins -> Times] /\ onlyUpdated \in BOOLEAN /\ blockchainSynced \in BOOLEAN
      /\ pingless \in BOOLEAN
  BY DEF Inv, TypeOK
<1>2. Fault \/ UNCHANGED faults => faults' \in 0 .. MaxFaults
  BY <1>1, ConstantsTyped DEF Fault
<1>3. now' = now => now' \in Times /\ now' >= now
  BY <1>1, ConstantsTyped
<1>4. UNCHANGED aroundVars => Around
  BY <1>1 DEF aroundVars
<1>5. pingless' \in BOOLEAN
  <2>1. ASSUME NEW b \in Broadcasts, Arrives(b) PROVE pingless' \in BOOLEAN
    BY <2>1, ArrivesMnb
  <2> QED
    BY <1>1, <2>1 DEF Next, vars
<1> SUFFICES P
  BY <1>5
<1>6. ASSUME NEW b \in Broadcasts, Arrives(b) PROVE P
  <2>1. PICK p \in Times, good, later, locked, grows \in BOOLEAN :
           mnb(b, p, good, later, locked, grows)
    BY <1>6, ArrivesMnb
  <2>2. (Fault \/ UNCHANGED faults) /\ now' = now /\ UNCHANGED aroundVars
    BY <2>1 DEF mnb
  <2> HIDE DEF Around
  <2> QED
    BY <1>2, <1>3, <1>4, <2>2
<1>7. CASE Other
  <2>1. CASE \/ \E v \in Vins, p \in Times, locked \in BOOLEAN : mnp(v, p, locked)
             \/ dseg
             \/ \E v \in Vins, locked \in BOOLEAN : CheckEntry(v, locked)
             \/ \E locked \in BOOLEAN : CheckAndRemove(locked)
             \/ \E startmasternode, locked \in BOOLEAN : ManageStatus(startmasternode, locked)
             \/ \E v \in Vins : EnableHotColdMasterNode(v)
             \/ SendMasternodePing
    <3>1. (Fault \/ UNCHANGED faults) /\ now' = now /\ UNCHANGED aroundVars
      BY <2>1 DEF mnp, dseg, CheckEntry, CheckAndRemove, ManageStatus, EnableHotColdMasterNode,
                  SendMasternodePing
    <3> HIDE DEF Around
    <3> QED
      BY <1>2, <1>3, <1>4, <3>1
  <2>2. CASE \E saved \in BOOLEAN : Restart(saved)
    BY <2>2, <1>1, <1>2, <1>3 DEF Restart
  <2>3. CASE SyncChanges
    BY <2>3, <1>1, <1>2, <1>3 DEF SyncChanges
  <2>4. CASE \E v \in Vins : SpendOrUnspend(v)
    BY <2>4, <1>1, <1>2, <1>3 DEF SpendOrUnspend
  <2>5. CASE \E v \in Vins, t \in ConfTimes : Reconfirm(v, t)
    BY <2>5, <1>1, <1>2, <1>3, ConstantsTyped DEF Reconfirm
  <2>6. CASE MinProtoChanges
    BY <2>6, <1>1, <1>2, <1>3 DEF MinProtoChanges
  <2>7. CASE Tick
    <3>1. now' = now + 1 /\ now < MaxTime /\ UNCHANGED aroundVars /\ UNCHANGED faults
      BY <2>7 DEF Tick
    <3>2. now' \in Times /\ now' >= now
      BY <3>1, <1>1, ConstantsTyped DEF Times
    <3> HIDE DEF Around
    <3> QED
      BY <1>2, <1>4, <3>1, <3>2
  <2> HIDE DEF P
  <2> QED
    BY <1>7, <2>1, <2>2, <2>3, <2>4, <2>5, <2>6, <2>7 DEF Other
<1>8. CASE UNCHANGED vars
  <2>1. UNCHANGED faults /\ now' = now /\ UNCHANGED aroundVars
    BY <1>8 DEF vars
  <2> HIDE DEF Around
  <2> QED
    BY <1>2, <1>3, <1>4, <2>1
<1> HIDE DEF P
<1> QED
  BY <1>6, <1>7, <1>8 DEF Next

\* Every step does to the entries what Kept says, and every step of the running node but a
\* broadcast without a ping leaves those that are alive in the list.
LEMMA EntriesStep ==
    ASSUME Inv, [Next]_vars
    PROVE  /\ Outcome
           /\ (\E saved \in BOOLEAN : Restart(saved)) \/ pingless' \/ \A v \in Vins : LiveKept(v)
<1>1. mapSeen \in [Broadcasts -> Times \cup {None}]
  BY InvSound
<1>2. ASSUME NEW b \in Broadcasts, Arrives(b)
      PROVE  Outcome /\ (pingless' \/ \A v \in Vins : LiveKept(v))
  <2>1. PICK p \in Times, good, later, locked, grows \in BOOLEAN :
           mnb(b, p, good, later, locked, grows) /\ pingless' = (p = 0)
    BY <1>2, ArrivesMnb
  <2> QED
    BY <1>2, <2>1, BroadcastOutcome
<1>3. CASE Other
  <2>1. CASE \E v \in Vins, p \in Times, locked \in BOOLEAN : mnp(v, p, locked)
    BY <2>1, PingOutcome
  <2>2. CASE dseg
    <3>1. UNCHANGED listVars
      BY <2>2 DEF dseg
    <3> QED
      BY <2>2, <3>1, DsegTyped, NothingChanged
  <2>3. CASE \E v \in Vins, locked \in BOOLEAN : CheckEntry(v, locked)
    <3>1. PICK v \in Vins, locked \in BOOLEAN : CheckEntry(v, locked)
      BY <2>3
    <3>2. /\ vMasternodes[v] /= None
          /\ vMasternodes' = [vMasternodes EXCEPT ![v] = Check(@, FALSE, locked)]
          /\ slot' = slot /\ mapSeen' = mapSeen
          /\ inherited' = IF Throttled(vMasternodes[v]) THEN inherited ELSE inherited \ {v}
      BY <3>1 DEF CheckEntry
    <3> QED
      BY <3>2, CheckOutcome
  <2>4. CASE \E locked \in BOOLEAN : CheckAndRemove(locked)
    <3>1. PICK locked \in BOOLEAN : CheckAndRemove(locked)
      BY <2>4
    <3> DEFINE force == FALSE
    <3>2. Cleaned(vMasternodes, force, locked)
      BY <3>1 DEF CheckAndRemove
    <3> HIDE DEF force
    <3>3. \A v \in Vins : vMasternodes[v] /= None /\ v \notin inherited => Alive(vMasternodes[v])
      BY InvEntries
    <3>4. Outcome /\ \A v \in Vins : LiveKept(v)
      BY <3>2, <3>3, InvSound, CleanedOutcome DEF LiveKept
    <3> QED
      BY <3>4
  <2>5. CASE \E startmasternode, locked \in BOOLEAN : ManageStatus(startmasternode, locked)
    BY <2>5, ManageOutcome
  <2>6. CASE SendMasternodePing
    BY <2>6, SendPingOutcome
  <2>7. CASE \E saved \in BOOLEAN : Restart(saved)
    BY <2>7, RestartOutcome
  <2>8. CASE \/ \E v \in Vins : EnableHotColdMasterNode(v)
             \/ SyncChanges
             \/ \E v \in Vins : SpendOrUnspend(v)
             \/ \E v \in Vins, t \in ConfTimes : Reconfirm(v, t)
             \/ MinProtoChanges
             \/ Tick
    <3>1. UNCHANGED listVars /\ mapSeen' = mapSeen
      BY <2>8 DEF EnableHotColdMasterNode, SyncChanges, SpendOrUnspend, Reconfirm, MinProtoChanges, Tick
    <3> QED
      BY <1>1, <3>1, NothingChanged
  <2> QED
    BY <1>3, <2>1, <2>2, <2>3, <2>4, <2>5, <2>6, <2>7, <2>8 DEF Other
<1>4. CASE UNCHANGED vars
  <2>1. UNCHANGED listVars /\ mapSeen' = mapSeen
    BY <1>4 DEF vars
  <2> QED
    BY <1>1, <2>1, NothingChanged
<1> QED
  BY <1>2, <1>3, <1>4 DEF Next

\* The node's own activation.
LEMMA StatusStep ==
    ASSUME Inv, [Next]_vars
    PROVE  /\ status' \in {"INITIAL", "SYNC_IN_PROCESS", "NOT_CAPABLE", "STARTED"}
           /\ activeVin' \in Vins \cup {None}
           /\ status' = "STARTED" => activeVin' /= None
           /\ managing' \in [step : {"idle", "enable", "rest"}, at : Int]
<1>1. /\ status \in {"INITIAL", "SYNC_IN_PROCESS", "NOT_CAPABLE", "STARTED"}
      /\ activeVin \in Vins \cup {None} /\ (status = "STARTED" => activeVin /= None)
      /\ managing \in [step : {"idle", "enable", "rest"}, at : Int]
      /\ \A v \in Vins : v /= None
  BY ConstantsTyped DEF Inv, TypeOK
<1>2. /\ NoCall \in [step : {"idle", "enable", "rest"}, at : Int]
      /\ [NoCall EXCEPT !.step = "rest"] \in [step : {"idle", "enable", "rest"}, at : Int]
  BY DEF NoCall
<1>3. ASSUME NEW b \in Broadcasts, Arrives(b)
      PROVE  /\ \/ UNCHANGED <<status, activeVin>>
                \/ status' = "STARTED" /\ activeVin' = vin[b]
             /\ managing' \in [step : {"idle", "enable", "rest"}, at : Int]
  <2>1. PICK p \in Times, good, later, locked, grows \in BOOLEAN :
           mnb(b, p, good, later, locked, grows)
    BY <1>3, ArrivesMnb
  <2>2. /\ \/ status' = status /\ activeVin' = activeVin
           \/ status' = "STARTED" /\ activeVin' = vin[b]
        /\ managing' \in {managing, [managing EXCEPT !.at = 0]}
    BY <1>3, <2>1, BroadcastOutcome
  <2> QED
    BY <1>1, <2>2
<1>4. CASE \E startmasternode, locked \in BOOLEAN : ManageStatus(startmasternode, locked)
  BY <1>1, <1>4, ManageOutcome
<1>5. CASE \E v \in Vins : EnableHotColdMasterNode(v)
  BY <1>1, <1>2, <1>5 DEF EnableHotColdMasterNode
<1>6. CASE SendMasternodePing
  BY <1>1, <1>2, <1>6 DEF SendMasternodePing
<1>7. CASE \E saved \in BOOLEAN : Restart(saved)
  BY <1>2, <1>7 DEF Restart
<1>8. CASE \/ \E v \in Vins, p \in Times, locked \in BOOLEAN : mnp(v, p, locked)
           \/ dseg
           \/ \E v \in Vins, locked \in BOOLEAN : CheckEntry(v, locked)
           \/ \E locked \in BOOLEAN : CheckAndRemove(locked)
           \/ SyncChanges
           \/ \E v \in Vins : SpendOrUnspend(v)
           \/ \E v \in Vins, t \in ConfTimes : Reconfirm(v, t)
           \/ MinProtoChanges
           \/ Tick
           \/ UNCHANGED vars
  <2>1. UNCHANGED activeVars
    BY <1>8 DEF mnp, dseg, CheckEntry, CheckAndRemove, SyncChanges, SpendOrUnspend, Reconfirm,
                MinProtoChanges, Tick, vars
  <2> QED
    BY <1>1, <2>1 DEF activeVars
<1>9. \A b \in Broadcasts : vin[b] \in Vins
  BY ConstantsTyped
<1> QED
  BY <1>1, <1>3, <1>4, <1>5, <1>6, <1>7, <1>8, <1>9 DEF Next, Other

LEMMA InvStep == Inv /\ [Next]_vars => Inv'
<1> SUFFICES ASSUME Inv, [Next]_vars PROVE Inv'
  OBVIOUS
<1>1. /\ now' \in Times /\ now' >= now /\ faults' \in 0 .. MaxFaults
      /\ unspent' \subseteq Vins /\ confTime' \in [Vins -> Times]
      /\ onlyUpdated' \in BOOLEAN /\ blockchainSynced' \in BOOLEAN /\ pingless' \in BOOLEAN
  BY RestTyped
<1>2. /\ vMasternodes' \in [Vins -> Entries \cup {None}]
      /\ \A v \in Vins : vMasternodes'[v] /= None => EntryOf(vMasternodes'[v], v)
      /\ slot' \in [Vins -> Int] /\ inherited' \subseteq Listed(vMasternodes')
      /\ mapSeen' \in [Broadcasts -> Times \cup {None}]
      /\ \A v \in Vins : vMasternodes'[v] /= None /\ v \notin inherited' => Alive(vMasternodes'[v])
  BY EntriesStep DEF Outcome, Sound, Kept
<1>3. /\ status' \in {"INITIAL", "SYNC_IN_PROCESS", "NOT_CAPABLE", "STARTED"}
      /\ activeVin' \in Vins \cup {None}
      /\ status' = "STARTED" => activeVin' /= None
      /\ managing' \in [step : {"idle", "enable", "rest"}, at : Int]
  BY StatusStep
<1>4. ASSUME NEW v \in Vins, vMasternodes'[v] /= None
      PROVE  LET e == vMasternodes'[v]
             IN  /\ vin[e.broadcast] = v /\ e.lastTimeChecked <= now'
                 /\ e.pubKeyMasternode = key[e.broadcast] /\ e.sigTime = sigTime[e.broadcast]
  <2> DEFINE e == vMasternodes'[v]
  <2>1. EntryOf(e, v)
    BY <1>2, <1>4
  <2>2. e \in Entries /\ e.lastTimeChecked <= now
    BY <2>1 DEF EntryOf
  <2>3. e.lastTimeChecked \in Nat /\ now \in Nat /\ now' \in Nat
    BY <1>1, <2>2, EntryTyped, InvSound, ConstantsTyped
  <2>4. e.lastTimeChecked <= now'
    BY <1>1, <2>2, <2>3
  <2> QED
    BY <2>1, <2>4 DEF EntryOf
<1>5. TypeOK'
  BY <1>1, <1>2, <1>3, <1>4 DEF TypeOK, Listed
<1>6. CheckedAlive'
  BY <1>2 DEF CheckedAlive
<1> QED
  BY <1>5, <1>6 DEF Inv

\* The list is well-formed, and what counts as alive was so at its last check.
THEOREM Invariance == Spec => []Inv
<1>1. Init => Inv
  BY InitInv
<1>2. Inv /\ [Next]_vars => Inv'
  BY InvStep
<1> QED
  BY <1>1, <1>2, PTL DEF Spec

-----------------------------------------------------------------------------
(* What follows from it.                                                   *)

\* TypeOK: no entry mixes two broadcasts, after any number of "mnb" and "mnp"
\* messages, checks and restarts.
THEOREM EntriesAreSound == Spec => []TypeOK
<1>1. Inv => TypeOK
  BY DEF Inv
<1> QED
  BY <1>1, Invariance, PTL

\* NewestBroadcast: CheckAndUpdate and CheckInputsAndAdd never let an older
\* broadcast take the place of a newer one in the list.
THEOREM NewestBroadcastStays == Spec => NewestBroadcast
<1>1. Inv /\ [Next]_vars =>
         [\A v \in Vins : vMasternodes[v] /= None /\ vMasternodes'[v] /= None =>
             vMasternodes'[v].sigTime >= vMasternodes[v].sigTime]_vars
  <2> SUFFICES ASSUME Inv, [Next]_vars
               PROVE  \A v \in Vins : vMasternodes[v] /= None /\ vMasternodes'[v] /= None =>
                         vMasternodes'[v].sigTime >= vMasternodes[v].sigTime
    OBVIOUS
  <2> QED
    BY EntriesStep DEF Outcome, Kept
<1> QED
  BY <1>1, Invariance, PTL DEF Spec, NewestBroadcast

\* LiveNeverDropped: Check, CheckAndRemove, CheckInputsAndAdd and ManageStatus keep a
\* masternode that is enabled, pinged, not outdated and has its collateral, unless the
\* broadcast that comes has no ping.
THEOREM LiveStays == Spec => LiveNeverDropped
<1> DEFINE P == \A v \in unspent :
                    /\ vMasternodes[v] /= None /\ vMasternodes'[v] = None
                    /\ IsEnabled(vMasternodes[v]) /\ ~Outdated(vMasternodes[v].broadcast)
                    /\ IsPingedWithin(vMasternodes[v], EXPIRATION_SECONDS, now)
                    => pingless' \/ \E saved \in BOOLEAN : Restart(saved)
<1>1. Inv /\ [Next]_vars => [P]_vars
  <2> SUFFICES ASSUME Inv, [Next]_vars, NEW v \in unspent,
                      vMasternodes[v] /= None, vMasternodes'[v] = None,
                      IsEnabled(vMasternodes[v]), ~Outdated(vMasternodes[v].broadcast),
                      IsPingedWithin(vMasternodes[v], EXPIRATION_SECONDS, now)
               PROVE  pingless' \/ \E saved \in BOOLEAN : Restart(saved)
    OBVIOUS
  <2>1. v \in Vins /\ vin[vMasternodes[v].broadcast] = v
    BY DEF Inv, TypeOK
  <2>2. Live(vMasternodes[v])
    BY <2>1 DEF Live, IsEnabled, IsPingedWithin
  <2> QED
    BY <2>1, <2>2, EntriesStep DEF LiveKept
<1> QED
  BY <1>1, Invariance, PTL DEF Spec, LiveNeverDropped

\* StaleRemoved: what CheckAndRemove leaves in the list was pinged within the
\* time of removal and one interval of checks, if the time of its last check is its own.
THEOREM StaleGoes == Spec => StaleRemoved
<1> DEFINE P == \A v \in Vins \ inherited :
                    /\ vMasternodes'[v] /= None
                    /\ ~IsPingedWithin(vMasternodes'[v], REMOVAL_SECONDS + CHECK_SECONDS, now)
                    => ~ \E locked \in BOOLEAN : CheckAndRemove(locked)
<1>1. Inv /\ [Next]_vars => [P]_vars
  <2> SUFFICES ASSUME Inv, NEW locked \in BOOLEAN, CheckAndRemove(locked),
                      NEW v \in Vins \ inherited, vMasternodes'[v] /= None
               PROVE  IsPingedWithin(vMasternodes'[v], REMOVAL_SECONDS + CHECK_SECONDS, now)
    OBVIOUS
  <2> DEFINE forceExpiredRemoval == FALSE
  <2>1. Cleaned(vMasternodes, forceExpiredRemoval, locked)
    BY DEF CheckAndRemove
  <2> HIDE DEF forceExpiredRemoval
  <2>2. \A w \in Vins : vMasternodes[w] /= None /\ w \notin inherited => Alive(vMasternodes[w])
    BY InvEntries
  <2>3. now - vMasternodes'[v].lastPing < REMOVAL_SECONDS + CHECK_SECONDS
    BY <2>1, <2>2, InvSound, CleanedOutcome
  <2> QED
    BY <2>3 DEF IsPingedWithin
<1> QED
  BY <1>1, Invariance, PTL DEF Spec, StaleRemoved

\* RemovedCanReturn: CheckAndRemove, CheckInputsAndAdd and a restart do not leave a removed
\* masternode whose broadcast is good with that broadcast, and the one that removed it,
\* marked as seen.
THEOREM RemovedReturns == Spec => RemovedCanReturn
<1> DEFINE P == \A v \in unspent :
                    /\ vMasternodes[v] /= None /\ vMasternodes'[v] = None
                    /\ confTime[v] <= vMasternodes[v].sigTime
                    => \E b \in Broadcasts :
                           /\ vin[b] = v /\ sigTime[b] >= vMasternodes[v].sigTime /\ mapSeen'[b] = None
                           /\ b = vMasternodes[v].broadcast \/ Arrives(b)
<1>1. Inv /\ [Next]_vars => [P]_vars
  <2> SUFFICES ASSUME Inv, [Next]_vars, NEW v \in unspent,
                      vMasternodes[v] /= None, vMasternodes'[v] = None,
                      confTime[v] <= vMasternodes[v].sigTime
               PROVE  \E b \in Broadcasts :
                         /\ vin[b] = v /\ sigTime[b] >= vMasternodes[v].sigTime /\ mapSeen'[b] = None
                         /\ b = vMasternodes[v].broadcast \/ Arrives(b)
    OBVIOUS
  <2>1. v \in Vins
    BY DEF Inv, TypeOK
  <2> QED
    BY <2>1, EntriesStep DEF Outcome, Kept
<1> QED
  BY <1>1, Invariance, PTL DEF Spec, RemovedCanReturn

-----------------------------------------------------------------------------
(* The synchronisation.                                                    *)

Records ==
    [asset : Assets, attempt : 0 .. 3 * THRESHOLD, last : [Collected -> Ages],
     seen : [Collected -> 0 .. THRESHOLD],
     started : {"recent", "old"}, failure : {"recent", "old"}]

\* Sporks are asked for three times at most, so that the request counted for
\* the list stays within the limit of a stage.
Good(s) == s \in Records /\ (s.asset = "SPORKS" => s.attempt <= 2)

\* Something came in the stage x, or it was given up without payments being enforced.
Settles(x, s, sk) == s.last[x] /= "never" \/ x \in sk

\* What the stages before the one of s need.
Received(s, sk) ==
    /\ s.asset \in {"MNW", "BUDGET", "FINISHED"} => Settles("LIST", s, sk)
    /\ s.asset \in {"BUDGET", "FINISHED"}        => Settles("MNW", s, sk)

\* What Process decided in the state s is still right: it holds of the stage that was read,
\* unless a Reset came in between (c).
Pending(d, s, c) ==
    \/ d = Idle
    \/ /\ d \in [act : {"next", "skip", "asklast", "ask", "fail"}, stage : Stages]
       /\ s.asset = d.stage \/ (s.asset = "INITIAL" /\ c)
       /\ d.act = "ask" => s.attempt < 3 * THRESHOLD /\ (s.asset = "SPORKS" => s.attempt < 2)
       /\ d.act = "asklast" => d.stage = "SPORKS"
       /\ d.act = "skip" => d.stage \in {"LIST", "MNW"}
       /\ d.act = "next" => d.stage \in Collected /\ (~c => s.last[d.stage] /= "never" \/ d.stage = "BUDGET")

Around ==
    /\ vNodes \subseteq Peers /\ fulfilled \in [Peers -> SUBSET Stages]
    /\ fBlockchainSynced \in BOOLEAN /\ slept \in BOOLEAN /\ spork8 \in BOOLEAN
    /\ crossed \in BOOLEAN /\ skipped \subseteq {"LIST", "MNW"}

SyncInv ==
    /\ Good(Sync) /\ Around
    /\ Pending(doing, Sync, crossed)
    /\ ~crossed => Received(Sync, skipped)

-----------------------------------------------------------------------------
\* The limit of a stage leaves room for the requests for sporks.
LEMMA LimitIsThree == 3 * THRESHOLD \in Nat /\ 3 * THRESHOLD >= 3
BY MasternodeSyncAssumption

\* A record that becomes the state is the state's record afterwards.
LEMMA BecomesSync == ASSUME NEW s, s \in Records, Becomes(s) PROVE Sync' = s
BY DEF Becomes, Sync, Records

\* Reset forgets the stage together with what it received.
LEMMA ResetGood ==
    ASSUME NEW s
    PROVE  Good(Reset(s)) /\ Reset(s).asset = "INITIAL" /\ Reset(s).attempt = 0
BY LimitIsThree, MasternodeSyncAssumption
   DEF Good, Reset, Records, Assets, Stages, Collected, Ages

\* Fields that get values of their types keep a record one.
LEMMA FieldsTyped ==
    ASSUME NEW s \in Records, NEW a \in Assets
    PROVE  /\ [s EXCEPT !.asset = a] \in Records
           /\ [s EXCEPT !.asset = a, !.attempt = 0, !.started = "recent"] \in Records
           /\ [s EXCEPT !.asset = a, !.attempt = 0, !.failure = "recent"] \in Records
<1>1. 0 \in 0 .. 3 * THRESHOLD
  BY LimitIsThree
<1>2. ASSUME NEW t \in Records PROVE [t EXCEPT !.asset = a] \in Records
  BY DEF Records
<1>3. ASSUME NEW t \in Records PROVE [t EXCEPT !.attempt = 0] \in Records
  BY <1>1 DEF Records
<1>4. ASSUME NEW t \in Records PROVE [t EXCEPT !.started = "recent"] \in Records
  BY DEF Records
<1>5. ASSUME NEW t \in Records PROVE [t EXCEPT !.failure = "recent"] \in Records
  BY DEF Records
<1>6. [[s EXCEPT !.asset = a] EXCEPT !.attempt = 0] \in Records
  BY <1>2, <1>3
<1> QED
  BY <1>2, <1>4, <1>5, <1>6

LEMMA AttemptTyped ==
    ASSUME NEW s \in Records, NEW n \in 0 .. 3 * THRESHOLD
    PROVE  [s EXCEPT !.attempt = n] \in Records
BY DEF Records

\* GetNextAsset counts from 0.
LEMMA NextGood ==
    ASSUME NEW s \in Records
    PROVE  /\ Good(GetNextAsset(s))
           /\ GetNextAsset(s).asset = Following(s.asset) /\ GetNextAsset(s).attempt = 0
           /\ GetNextAsset(s).last = s.last
<1>1. Following(s.asset) \in Assets
  BY DEF Records, Following, Assets, Stages, Collected
<1>2. GetNextAsset(s) \in Records
  BY <1>1, FieldsTyped DEF GetNextAsset
<1>3. /\ GetNextAsset(s).asset = Following(s.asset) /\ GetNextAsset(s).attempt = 0
      /\ GetNextAsset(s).last = s.last
  BY DEF GetNextAsset, Records
<1> QED
  BY <1>2, <1>3 DEF Good

\* What the loop decides is right.
LEMMA DecidedRight ==
    ASSUME NEW s, Good(s), s.asset \in Stages, NEW c \in BOOLEAN
    PROVE  Decided(s) = "none" \/ Pending([act |-> Decided(s), stage |-> s.asset], s, c)
<1> DEFINE d == [act |-> Decided(s), stage |-> s.asset]
           late == s.asset \in {"LIST", "MNW"} /\ TimedOut(s)
<1>0. s.attempt \in Int /\ 3 * THRESHOLD \in Int
  BY LimitIsThree DEF Good, Records
<1>1. CASE s.asset = "SPORKS" /\ s.attempt >= 2
  <2>1. Decided(s) = "asklast"
    BY <1>1 DEF Decided, Collected
  <2> QED
    BY <2>1, <1>1 DEF Pending
<1>2. CASE s.asset = "SPORKS" /\ ~(s.attempt >= 2)
  <2>1. Decided(s) = "ask"
    BY <1>2 DEF Decided, Collected
  <2>2. s.attempt < 2 /\ s.attempt < 3 * THRESHOLD
    BY <1>0, <1>2, LimitIsThree
  <2> QED
    BY <2>1, <2>2 DEF Pending
<1>3. CASE late
  <2>1. Decided(s) \in {"fail", "skip"}
    BY <1>3 DEF Decided
  <2> QED
    BY <2>1, <1>3 DEF Pending
<1>4. CASE s.asset \in Collected /\ ~late /\ s.attempt >= 3 * THRESHOLD
  <2>1. Decided(s) = "none"
    BY <1>4 DEF Decided, Collected
  <2> QED
    BY <2>1
<1>5. CASE s.asset \in Collected /\ ~late /\ ~(s.attempt >= 3 * THRESHOLD)
  <2>1. Decided(s) = "ask"
    BY <1>5 DEF Decided, Collected
  <2>2. s.attempt < 3 * THRESHOLD /\ s.asset /= "SPORKS"
    BY <1>0, <1>5 DEF Collected
  <2> QED
    BY <2>1, <2>2 DEF Pending
<1> QED
  BY <1>1, <1>2, <1>3, <1>4, <1>5 DEF Stages

\* What the loop over the peers leaves behind.
LEMMA VisitRight ==
    ASSUME NEW s, NEW f, Good(s), f \in [Peers -> SUBSET Stages], Visit(s, f), NEW c \in BOOLEAN,
           vNodes \subseteq Peers
    PROVE  Pending(doing', s, c) /\ fulfilled' \in [Peers -> SUBSET Stages]
<1>1. CASE MovesOn(s) /\ doing' = [act |-> "next", stage |-> s.asset] /\ fulfilled' = f
  <2>1. s.asset \in Collected /\ (s.last[s.asset] /= "never" \/ s.asset = "BUDGET")
    BY <1>1 DEF MovesOn, Settled
  <2> QED
    BY <1>1, <2>1 DEF Pending, Stages
<1>2. ASSUME NEW p \in ToAsk(s, f), fulfilled' = [f EXCEPT ![p] = @ \cup {s.asset}],
             doing' = IF Decided(s) = "none" THEN Idle ELSE [act |-> Decided(s), stage |-> s.asset]
      PROVE  Pending(doing', s, c) /\ fulfilled' \in [Peers -> SUBSET Stages]
  <2>1. s.asset \in Stages
    BY <1>2 DEF ToAsk
  <2>2. fulfilled' \in [Peers -> SUBSET Stages]
    BY <1>2, <2>1
  <2>3. Pending(Idle, s, c)
    BY DEF Pending
  <2> QED
    BY <1>2, <2>1, <2>2, <2>3, DecidedRight
<1>3. CASE doing' = Idle /\ fulfilled' = f
  BY <1>3 DEF Pending
<1> QED
  BY <1>1, <1>2, <1>3 DEF Visit

-----------------------------------------------------------------------------
\* The invariant holds in the initial state.
LEMMA InitSyncInv == SyncInit => SyncInv
<1> SUFFICES ASSUME SyncInit PROVE SyncInv
  OBVIOUS
<1>1. Sync = Reset(Sync)
  BY DEF SyncInit, Sync, Reset
<1>2. Good(Sync) /\ Sync.asset = "INITIAL"
  BY <1>1, ResetGood
<1> QED
  BY <1>2 DEF SyncInit, SyncInv, Around, Pending, Received

\* A call of Process that does a Reset, or goes on from what was there.
LEMMA ProcessInv ==
    ASSUME SyncInv, NEW recent \in BOOLEAN, NEW locked \in BOOLEAN, NEW cleared \in BOOLEAN,
           Process(recent, locked, cleared)
    PROVE  SyncInv'
<1> DEFINE s1 == IF asset \in {"FINISHED", "FAILED"} THEN Reset(Sync) ELSE Sync
           s2 == IF s1.asset = "INITIAL" THEN GetNextAsset(s1) ELSE s1
           f  == IF s1.asset = "INITIAL" THEN ClearFulfilledRequest(cleared) ELSE fulfilled
           s3 == AfterCall(s2)
<1>0. Good(Sync) /\ Sync.asset = asset /\ doing = Idle
  BY DEF SyncInv, Process, Sync
<1>1. Good(s1)
  BY <1>0, ResetGood
<1>2. Good(s2)
  BY <1>1, NextGood DEF Good
<1>3. Good(s3)
  BY <1>2, ResetGood DEF AfterCall
<1>4. f \in [Peers -> SUBSET Stages]
  BY DEF SyncInv, Around, ClearFulfilledRequest
<1>5. /\ Visit(s3, f) \/ (doing' = Idle /\ fulfilled' = f)
      /\ Becomes(s3) /\ Remembered(slept \/ asset \in {"FINISHED", "FAILED"})
      /\ fBlockchainSynced' = Synced(recent) /\ slept' = FALSE /\ vNodes' = vNodes /\ spork8' = spork8
  BY DEF Process
\* Without a Reset the stage is the same, or the first one; with one nothing is needed.
<1>6. ~crossed' => Received(s3, skipped')
  <2>1. CASE slept
    <3>1. s3.asset = "INITIAL"
      BY <2>1, ResetGood DEF AfterCall
    <3> QED
      BY <3>1 DEF Received
  <2>2. CASE ~slept /\ s1.asset = "INITIAL"
    <3>1. s3.asset = "SPORKS"
      BY <2>2, <1>1, NextGood DEF AfterCall, Good, Following
    <3> QED
      BY <3>1 DEF Received
  <2>3. CASE ~slept /\ s1.asset /= "INITIAL"
    <3>1. asset \notin {"FINISHED", "FAILED"}
      BY <2>3, ResetGood
    <3>2. s3 = Sync
      BY <2>3, <3>1 DEF AfterCall
    <3>3. skipped' = skipped /\ crossed' = crossed
      BY <1>5, <2>3, <3>1 DEF Remembered
    <3> QED
      BY <3>2, <3>3 DEF SyncInv
  <2> QED
    BY <2>1, <2>2, <2>3
<1> HIDE DEF s3, f
<1>7. Sync' = s3
  BY <1>3, <1>5, BecomesSync DEF Good
<1>8. crossed' \in BOOLEAN /\ skipped' \subseteq {"LIST", "MNW"} /\ Synced(recent) \in BOOLEAN
  BY <1>0, <1>5 DEF Remembered, SyncInv, Around, Synced
<1>9. Pending(doing', s3, crossed') /\ fulfilled' \in [Peers -> SUBSET Stages]
  <2>1. CASE Visit(s3, f)
    <3>1. vNodes \subseteq Peers
      BY DEF SyncInv, Around
    <3> QED
      BY <2>1, <3>1, <1>3, <1>4, <1>8, VisitRight
  <2>2. CASE doing' = Idle /\ fulfilled' = f
    BY <2>2, <1>4 DEF Pending
  <2> QED
    BY <2>1, <2>2, <1>5
<1>10. Around'
  BY <1>5, <1>8, <1>9 DEF SyncInv, Around
<1> QED
  BY <1>3, <1>6, <1>7, <1>9, <1>10 DEF SyncInv

\* What Process does keeps what the stages need, because it does it from the stage it looked
\* at, or from the beginning.
LEMMA ProceedInv == SyncInv /\ Proceed => SyncInv'
<1> SUFFICES ASSUME SyncInv, Proceed PROVE SyncInv'
  OBVIOUS
<1> DEFINE goes == doing.act \in {"next", "skip", "asklast"}
<1>1. PICK a \in {doing.stage, asset} :
         /\ Becomes(Done(IF goes THEN [Sync EXCEPT !.asset = a] ELSE Sync))
         /\ fulfilled' = IF goes /\ a = "INITIAL" THEN ClearFulfilledRequest(TRUE) ELSE fulfilled
  BY DEF Proceed
<1>2. /\ skipped' = IF doing.act = "skip" THEN skipped \cup {doing.stage} ELSE skipped
      /\ doing' = Idle /\ UNCHANGED <<vNodes, nodeVars, spork8, crossed>> /\ doing /= Idle
  BY DEF Proceed
<1>3. /\ doing \in [act : {"next", "skip", "asklast", "ask", "fail"}, stage : Stages]
      /\ Sync.asset = doing.stage \/ (Sync.asset = "INITIAL" /\ crossed)
      /\ doing.act = "ask" => Sync.attempt < 3 * THRESHOLD /\ (Sync.asset = "SPORKS" => Sync.attempt < 2)
      /\ doing.act = "asklast" => doing.stage = "SPORKS"
      /\ doing.act = "skip" => doing.stage \in {"LIST", "MNW"}
      /\ doing.act = "next" =>
            doing.stage \in Collected /\ (~crossed => Sync.last[doing.stage] /= "never" \/ doing.stage = "BUDGET")
  BY <1>2 DEF SyncInv, Pending
<1>4. Good(Sync) /\ Sync.asset = asset /\ Sync \in Records
  BY DEF SyncInv, Good, Sync
<1>5. fulfilled' \in [Peers -> SUBSET Stages]
  BY <1>1 DEF SyncInv, Around, ClearFulfilledRequest
<1>6. skipped' \subseteq {"LIST", "MNW"} /\ skipped \subseteq skipped'
  BY <1>2, <1>3 DEF SyncInv, Around
<1>7. Around'
  BY <1>2, <1>5, <1>6 DEF SyncInv, Around, nodeVars
<1>8. Pending(doing', Sync', crossed')
  BY <1>2 DEF Pending
<1>9. Good(Sync)' /\ (~crossed' => Received(Sync', skipped'))
  <2>1. CASE goes
    <3> DEFINE s == [Sync EXCEPT !.asset = a]
               n == GetNextAsset(s)
    <3>1. s \in Records /\ s.asset = a /\ s.last = Sync.last
      <4>1. a \in Assets
        BY <1>3, <1>4 DEF Records, Assets
      <4> QED
        BY <4>1, <1>4, FieldsTyped DEF Records
    <3>2. Good(n) /\ n.asset = Following(a) /\ n.attempt = 0 /\ n.last = Sync.last
      BY <3>1, NextGood
    <3> HIDE DEF s
    <3>3. Done(s) = n \/ Done(s) = [n EXCEPT !.attempt = @ + 1]
      BY <2>1 DEF Done
    <3> HIDE DEF n
    <3>4. [n EXCEPT !.attempt = @ + 1] = [n EXCEPT !.attempt = 1]
      BY <3>2 DEF Good, Records
    <3>5. [n EXCEPT !.attempt = 1] \in Records
      <4>1. 1 \in 0 .. 3 * THRESHOLD
        BY LimitIsThree
      <4> QED
        BY <3>2, <4>1, AttemptTyped DEF Good
    <3>6. Good(Done(s)) /\ Done(s).asset = Following(a) /\ Done(s).last = Sync.last
      <4>1. CASE Done(s) = n
        BY <4>1, <3>2
      <4>2. CASE Done(s) = [n EXCEPT !.attempt = 1]
        BY <4>2, <3>2, <3>5 DEF Good, Records
      <4> QED
        BY <4>1, <4>2, <3>3, <3>4
    <3>7. Sync' = Done(s)
      BY <1>1, <2>1, <3>6, BecomesSync DEF Good, s
    <3>8. ASSUME ~crossed' PROVE Received(Sync', skipped')
      <4>1. a = doing.stage /\ a = Sync.asset /\ ~crossed
        BY <3>8, <1>2, <1>3, <1>4
      <4>2. Received(Sync, skipped')
        BY <4>1, <1>6 DEF SyncInv, Received, Settles
      <4>3. a \in {"LIST", "MNW"} => Settles(a, Sync', skipped')
        <5>1. CASE doing.act = "skip"
          BY <5>1, <4>1, <1>2 DEF Settles
        <5>2. CASE doing.act = "next"
          BY <5>2, <4>1, <1>3, <3>6, <3>7 DEF Settles
        <5>3. CASE doing.act = "asklast"
          BY <5>3, <4>1, <1>3
        <5> QED
          BY <5>1, <5>2, <5>3, <2>1
      <4>4. a \in Stages /\ Sync'.asset = Following(a) /\ Sync'.last = Sync.last
        BY <4>1, <1>3, <3>6, <3>7
      <4> QED
        BY <4>1, <4>2, <4>3, <4>4 DEF Received, Settles, Following, Stages, Collected
    <3> QED
      BY <3>6, <3>7, <3>8
  <2>2. CASE doing.act = "ask"
    <3>1. Sync.attempt + 1 \in 0 .. 3 * THRESHOLD /\ (Sync.asset = "SPORKS" => Sync.attempt + 1 <= 2)
      BY <1>3, <1>4, <2>2, LimitIsThree DEF Records
    <3>2. Done(Sync) = [Sync EXCEPT !.attempt = Sync.attempt + 1]
      BY <2>2 DEF Done
    <3>3. Done(Sync) \in Records
      <4>1. PICK k \in 0 .. 3 * THRESHOLD : k = Sync.attempt + 1
        BY <3>1
      <4>2. [Sync EXCEPT !.attempt = k] \in Records
        BY <1>4, AttemptTyped
      <4> QED
        BY <3>2, <4>1, <4>2
    <3>4. Sync' = Done(Sync)
      BY <1>1, <2>2, <3>3, BecomesSync
    <3>5. /\ Sync'.asset = Sync.asset /\ Sync'.last = Sync.last
          /\ Sync'.attempt = Sync.attempt + 1
      BY <3>2, <3>4, <1>4 DEF Records
    <3>6. Good(Sync)'
      BY <3>1, <3>3, <3>4, <3>5 DEF Good
    <3> QED
      BY <3>5, <3>6, <1>2, <1>6 DEF SyncInv, Received, Settles
  <2>3. CASE doing.act = "fail"
    <3>1. Done(Sync) = [Sync EXCEPT !.asset = "FAILED", !.attempt = 0, !.failure = "recent"]
      BY <2>3 DEF Done
    <3>2. Done(Sync) \in Records
      <4>1. PICK x \in Assets : x = "FAILED"
        BY DEF Assets
      <4>2. [Sync EXCEPT !.asset = x, !.attempt = 0, !.failure = "recent"] \in Records
        BY <1>4, FieldsTyped
      <4> QED
        BY <3>1, <4>1, <4>2
    <3>3. Sync' = Done(Sync) /\ Sync'.asset = "FAILED"
      <4>1. Sync' = Done(Sync)
        BY <1>1, <2>3, <3>2, BecomesSync
      <4> QED
        BY <4>1, <3>1, <1>4 DEF Records
    <3> QED
      BY <3>2, <3>3 DEF Good, Received
  <2> QED
    BY <1>3, <2>1, <2>2, <2>3
<1> QED
  BY <1>7, <1>8, <1>9 DEF SyncInv

\* A Reset by another thread: nothing is needed of the first stage, and if Process was about
\* to do something, crossed says so.
LEMMA ResetInv ==
    ASSUME SyncInv, Becomes(Reset(Sync)), Remembered(TRUE),
           UNCHANGED <<vNodes, fulfilled, spork8, doing>>,
           fBlockchainSynced' \in BOOLEAN, slept' \in BOOLEAN
    PROVE  SyncInv'
<1>1. Sync' = Reset(Sync) /\ Good(Sync') /\ Sync'.asset = "INITIAL" /\ Sync'.attempt = 0
  BY ResetGood, BecomesSync DEF Good
<1>2. skipped' = {} /\ crossed' = (doing /= Idle)
  BY DEF Remembered
<1>3. Around'
  BY <1>2 DEF SyncInv, Around
<1>4. Pending(doing, Sync', crossed')
  <2>1. CASE doing = Idle
    BY <2>1 DEF Pending
  <2>2. CASE doing /= Idle
    <3>1. crossed' = TRUE
      BY <1>2, <2>2, Zenon
    <3>2. Pending(doing, Sync, crossed)
      BY DEF SyncInv
    <3>3. 3 * THRESHOLD > 0
      BY LimitIsThree
    <3> QED
      BY <1>1, <2>2, <3>1, <3>2, <3>3 DEF Pending
  <2> QED
    BY <2>1, <2>2
<1> QED
  BY <1>1, <1>3, <1>4 DEF SyncInv, Received

\* Steps that leave the stage and its count alone, and forget nothing that came.
LEMMA StageKept ==
    ASSUME SyncInv, Sync' \in Records, Around', UNCHANGED <<asset, attempt, doing, skipped, crossed>>,
           \A x \in Collected : last[x] /= "never" => last'[x] /= "never"
    PROVE  SyncInv'
<1>1. Sync.asset = asset /\ Sync'.asset = asset /\ Sync.attempt = attempt /\ Sync'.attempt = attempt
  BY DEF Sync
<1>2. Sync.last = last /\ Sync'.last = last'
  BY DEF Sync
<1>3. Good(Sync)'
  BY <1>1 DEF SyncInv, Good
<1>4. Pending(doing, Sync', crossed)
  BY <1>1, <1>2 DEF SyncInv, Pending
<1>5. ~crossed => Received(Sync', skipped)
  BY <1>1, <1>2 DEF SyncInv, Received, Settles, Collected
<1> QED
  BY <1>3, <1>4, <1>5 DEF SyncInv

\* Every step keeps the invariant.
LEMMA NextSyncInv == SyncInv /\ [SyncNext]_syncVars => SyncInv'
<1> SUFFICES ASSUME SyncInv, [SyncNext]_syncVars PROVE SyncInv'
  OBVIOUS
<1>0. Sync \in Records /\ Around
  BY DEF SyncInv, Good
<1>1. ASSUME NEW recent \in BOOLEAN, NEW locked \in BOOLEAN, NEW cleared \in BOOLEAN,
             Process(recent, locked, cleared)
      PROVE  SyncInv'
  BY <1>1, ProcessInv
<1>2. ASSUME NEW recent \in BOOLEAN, IsBlockchainSynced(recent) PROVE SyncInv'
  <2>1. Synced(recent) \in BOOLEAN
    BY <1>0 DEF Synced, Around
  <2>2. CASE slept
    BY <1>2, <2>1, <2>2, ResetInv DEF IsBlockchainSynced, AfterCall
  <2>3. CASE ~slept
    <3>1. Sync' = Sync
      BY <1>0, <1>2, <2>3, BecomesSync DEF IsBlockchainSynced, AfterCall
    <3>2. UNCHANGED <<asset, attempt, last, doing, skipped, crossed>>
      BY <1>2, <2>3 DEF IsBlockchainSynced, AfterCall, Becomes, Remembered, Sync
    <3>3. Around'
      BY <1>0, <1>2, <2>1, <3>2 DEF IsBlockchainSynced, Around
    <3> QED
      BY <1>0, <3>1, <3>2, <3>3, StageKept
  <2> QED
    BY <1>0, <2>2, <2>3 DEF Around
<1>3. ASSUME NEW x \in Collected, Added(x) PROVE SyncInv'
  <2>1. seen[x] + 1 \in 0 .. THRESHOLD
    BY <1>0, <1>3, MasternodeSyncAssumption DEF Added, Records, Sync
  <2>2. Sync' \in Records
    BY <1>0, <1>3, <2>1 DEF Added, Records, Sync, Ages, Collected
  <2>3. Around'
    BY <1>0, <1>3 DEF Added, Around, nodeVars, ghosts
  <2>4. \A y \in Collected : last[y] /= "never" => last'[y] /= "never"
    BY <1>0, <1>3 DEF Added, Records, Sync
  <2> QED
    BY <1>3, <2>2, <2>3, <2>4, StageKept DEF Added, ghosts
<1>4. CASE ResetCommand
  BY <1>0, <1>4, ResetInv DEF ResetCommand, nodeVars, Around
<1>5. ASSUME NEW p \in Peers, Connect(p) \/ Disconnect(p) PROVE SyncInv'
  <2>1. Around' /\ UNCHANGED <<stageVars, doing, ghosts>>
    BY <1>0, <1>5 DEF Connect, Disconnect, Around, nodeVars, ghosts
  <2> QED
    BY <1>0, <2>1, StageKept DEF stageVars, ghosts, Sync
<1>6. CASE Age
  <2>1. Around' /\ UNCHANGED <<asset, attempt, doing, skipped, crossed>>
    BY <1>0, <1>6 DEF Age, Around, nodeVars, ghosts
  <2>2. ASSUME NEW x \in Collected, last[x] = "recent", last' = [last EXCEPT ![x] = "old"],
               UNCHANGED <<started, failure>>
        PROVE  SyncInv'
    <3>1. Sync' \in Records
      BY <1>0, <1>6, <2>2 DEF Age, Records, Sync, Ages, Collected
    <3>2. \A y \in Collected : last[y] /= "never" => last'[y] /= "never"
      BY <1>0, <2>2 DEF Records, Sync
    <3> QED
      BY <2>1, <3>1, <3>2, StageKept
  <2>3. CASE started' = "old" /\ UNCHANGED <<last, failure>>
    <3>1. Sync' \in Records
      BY <1>0, <1>6, <2>3 DEF Age, Records, Sync
    <3> QED
      BY <2>1, <2>3, <3>1, StageKept
  <2>4. CASE failure' = "old" /\ UNCHANGED <<last, started>>
    <3>1. Sync' \in Records
      BY <1>0, <1>6, <2>4 DEF Age, Records, Sync
    <3> QED
      BY <2>1, <2>4, <3>1, StageKept
  <2> QED
    BY <1>6, <2>2, <2>3, <2>4 DEF Age
<1>7. CASE Sleep
  <2>1. Sync' \in Records
    BY <1>0, <1>7 DEF Sleep, Records, Sync, Ages, Collected
  <2>2. Around' /\ UNCHANGED <<asset, attempt, doing, skipped, crossed>>
    BY <1>0, <1>7 DEF Sleep, Around, ghosts
  <2>3. \A y \in Collected : last[y] /= "never" => last'[y] /= "never"
    BY <1>0, <1>7 DEF Sleep
  <2> QED
    BY <2>1, <2>2, <2>3, StageKept
<1>8. CASE SporkChanges \/ UNCHANGED syncVars
  <2>1. Around' /\ UNCHANGED <<stageVars, doing, ghosts>>
    BY <1>0, <1>8 DEF SporkChanges, syncVars, Around, nodeVars, ghosts
  <2> QED
    BY <1>0, <2>1, StageKept DEF stageVars, ghosts, Sync
<1>9. CASE Proceed
  BY <1>9, ProceedInv
<1> QED
  BY <1>1, <1>2, <1>3, <1>4, <1>5, <1>6, <1>7, <1>8, <1>9 DEF SyncNext

\* The invariant holds always.
LEMMA SyncInvAlways == SyncSpec => []SyncInv
BY InitSyncInv, NextSyncInv, PTL DEF SyncSpec

\* No stage counts more requests than its limit, and every field keeps its type.
THEOREM TypeCorrect == SyncSpec => []SyncTypeOK
<1>1. SyncInv => SyncTypeOK
  <2> SUFFICES ASSUME SyncInv PROVE SyncTypeOK
    OBVIOUS
  <2>1. doing \in [act : {"none", "next", "skip", "asklast", "ask", "fail"}, stage : Assets]
    BY DEF SyncInv, Pending, Idle, Assets
  <2> QED
    BY <2>1 DEF SyncInv, Around, Good, Records, Sync, SyncTypeOK
<1> QED
  BY <1>1, SyncInvAlways, PTL

\* Winners and budgets are never asked for, and the node never calls itself synced, before
\* masternodes and winners came, or their stage was given up because payments were not
\* enforced, for any order of items, sporks, calls of Process and of the other threads.
THEOREM ReceivedBeforeSynced == SyncSpec => []SyncedMeansReceived
<1>1. SyncInv => SyncedMeansReceived
  BY DEF SyncInv, Received, Settles, Sync, SyncedMeansReceived
<1> QED
  BY <1>1, SyncInvAlways, PTL
=============================================================================
