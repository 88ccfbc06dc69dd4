----------------------------- MODULE Budget_proofs -----------------------------
(***************************************************************************)
(* Proofs about Budget: the types of the state, that votes are never lost   *)
(* or put back, that a node accepts the budget payments it makes, and that  *)
(* the budget goes to the proposals with the most votes.                    *)
(*                                                                         *)
(* Every operation on the manager is shown to keep its type and to let the  *)
(* votes of each item only grow; the handlers compose such operations.      *)
(* Spent is the invariant of the loop of GetBudget.                         *)
(***************************************************************************)
EXTENDS Budget, TLAPS, FiniteSetTheorems, WellFoundedInduction

AnyVotes == [vin : Masternodes \cup {None}, hash : Items, nVote : {"yes", "no"}, nTime : Nat]

Managers(h) ==
    [known : [Items -> EntryAt(h) \cup {None}], seen : SUBSET Items, seenVotes : SUBSET AnyVotes,
     orphans : [Items -> Votes \cup {None}], immature : SUBSET Items, paid : [Budgets -> Nat \cup {None}]]

\* An orphan vote is kept under the item it is for.
OrphansRight(m) == \A i \in Items : m.orphans[i] /= None => m.orphans[i].hash = i

\* The manager m at height h is well formed.
Sound(m, h) == m \in Managers(h) /\ OrphansRight(m)

Inv ==
    /\ height \in StartHeight .. MaxHeight /\ mns \subseteq Masternodes
    /\ strBudgetMode \in Modes /\ synced \in BOOLEAN
    /\ disturbances \in 0 .. MaxDisturbances
    /\ Sound(M, height)

-----------------------------------------------------------------------------
(* Entries.                                                                *)

\* No vote of e is missing in f, or replaced by one that is not an hour newer.
VotesGrow(e, f) ==
    \A x \in Masternodes : e.votes[x] /= None =>
        /\ f.votes[x] /= None
        /\ f.votes[x].nTime = e.votes[x].nTime \/ f.votes[x].nTime >= e.votes[x].nTime + UpdateMin

\* Numbers are numbers.
LEMMA Numbers ==
    /\ Cycle \in Nat /\ Every \in Nat /\ Ahead \in Nat /\ UpdateMin \in Nat /\ nOthers \in Nat
    /\ MaxHeight \in Nat /\ StartHeight \in Nat /\ MaxDisturbances \in Nat /\ StartHeight <= MaxHeight
    /\ FeeHeight \in [Items -> Nat]
  BY BudgetAssumption

\* Entries and their votes are not None.
LEMMA NotNone ==
    ASSUME NEW h \in 0 .. MaxHeight
    PROVE  None \notin VoteAt(h) /\ None \notin EntryAt(h)
  BY BudgetAssumption

\* An item that was added has no votes.
LEMMA NewEntryTyped ==
    ASSUME NEW h \in Nat, NEW fee \in Nat
    PROVE  NewEntry(fee) \in EntryAt(h)
  BY DEF NewEntry, EntryAt

\* What was possible before is possible later.
LEMMA EntriesLater ==
    ASSUME NEW h \in Nat
    PROVE  EntryAt(h) \subseteq EntryAt(h + 1)
  <1>1. VoteAt(h) \subseteq VoteAt(h + 1)
    BY Numbers DEF VoteAt
  <1> QED BY <1>1 DEF EntryAt

\* VotesGrow is an order on entries.
LEMMA GrowReflexive ==
    ASSUME NEW e
    PROVE  VotesGrow(e, e)
  BY DEF VotesGrow

LEMMA GrowTransitive ==
    ASSUME NEW h \in Nat, NEW e \in EntryAt(h), NEW f \in EntryAt(h), NEW g \in EntryAt(h),
           VotesGrow(e, f), VotesGrow(f, g)
    PROVE  VotesGrow(e, g)
  <1> SUFFICES ASSUME NEW x \in Masternodes, e.votes[x] /= None
               PROVE  /\ g.votes[x] /= None
                      /\ g.votes[x].nTime = e.votes[x].nTime \/ g.votes[x].nTime >= e.votes[x].nTime + UpdateMin
    BY DEF VotesGrow
  <1>1. f.votes[x] /= None /\ g.votes[x] /= None
    BY DEF VotesGrow
  <1>2. e.votes[x] \in VoteAt(h) /\ f.votes[x] \in VoteAt(h) /\ g.votes[x] \in VoteAt(h)
    BY <1>1 DEF EntryAt
  <1>3. e.votes[x].nTime \in Nat /\ f.votes[x].nTime \in Nat /\ g.votes[x].nTime \in Nat
    BY <1>2, Numbers DEF VoteAt
  <1>4. f.votes[x].nTime = e.votes[x].nTime \/ f.votes[x].nTime >= e.votes[x].nTime + UpdateMin
    BY DEF VotesGrow
  <1>5. g.votes[x].nTime = f.votes[x].nTime \/ g.votes[x].nTime >= f.votes[x].nTime + UpdateMin
    BY <1>1 DEF VotesGrow
  <1> QED BY <1>1, <1>3, <1>4, <1>5, Numbers

\* The flags of a vote.
LEMMA VoteFlags ==
    ASSUME NEW h, NEW u \in VoteAt(h), NEW f \in BOOLEAN
    PROVE  /\ [u EXCEPT !.fValid = f] \in VoteAt(h) /\ [u EXCEPT !.fValid = f].nTime = u.nTime
           /\ [u EXCEPT !.fSynced = f] \in VoteAt(h) /\ [u EXCEPT !.fSynced = f].nTime = u.nTime
  BY DEF VoteAt

\* CleanAndRemove changes no vote.
LEMMA CleanedEntry ==
    ASSUME NEW h \in 0 .. MaxHeight, NEW e \in EntryAt(h)
    PROVE  CleanAndRemove(e) \in EntryAt(h) /\ VotesGrow(e, CleanAndRemove(e))
  <1> DEFINE w == [x \in Masternodes |-> IF e.votes[x] = None THEN None
                                         ELSE [e.votes[x] EXCEPT !.fValid = x \in mns]]
  <1>1. \A x \in Masternodes : e.votes[x] /= None =>
            /\ [e.votes[x] EXCEPT !.fValid = x \in mns] \in VoteAt(h)
            /\ [e.votes[x] EXCEPT !.fValid = x \in mns].nTime = e.votes[x].nTime
    <2> SUFFICES ASSUME NEW x \in Masternodes, e.votes[x] /= None
                 PROVE  /\ [e.votes[x] EXCEPT !.fValid = x \in mns] \in VoteAt(h)
                        /\ [e.votes[x] EXCEPT !.fValid = x \in mns].nTime = e.votes[x].nTime
      OBVIOUS
    <2>1. e.votes[x] \in VoteAt(h)
      BY DEF EntryAt
    <2>2. (x \in mns) \in BOOLEAN
      OBVIOUS
    <2> QED BY <2>1, <2>2, VoteFlags, Zenon
  <1>2. /\ w \in [Masternodes -> VoteAt(h) \cup {None}]
        /\ \A x \in Masternodes : e.votes[x] /= None => w[x] /= None /\ w[x].nTime = e.votes[x].nTime
    BY <1>1, NotNone
  <1> DEFINE f == CleanAndRemove(e)
  <1>3. f = [votes |-> w, fValid |-> e.fValid, fAutoChecked |-> e.fAutoChecked, fee |-> e.fee]
    <2>1. f = [e EXCEPT !.votes = w]
      BY DEF CleanAndRemove
    <2> HIDE DEF w, f
    <2> QED BY <1>2, <2>1 DEF EntryAt
  <1> HIDE DEF w, f
  <1>4. f \in EntryAt(h) /\ f.votes = w
    BY <1>2, <1>3 DEF EntryAt
  <1>5. VotesGrow(e, f)
    BY <1>2, <1>4 DEF VotesGrow
  <1> QED BY <1>4, <1>5 DEF f

\* AddOrUpdateVote keeps the older votes, and takes the first vote of a masternode
\* unless its time has not come.
LEMMA VoteAdded ==
    ASSUME NEW h \in 0 .. MaxHeight, NEW e \in EntryAt(h), NEW v,
           v.vin \in Masternodes, v.nVote \in {"yes", "no"}, v.nTime \in Nat
    PROVE  LET r == AddOrUpdateVote(e, v, h)
           IN  /\ r.ok \in BOOLEAN
               /\ r.e \in EntryAt(h) /\ VotesGrow(e, r.e)
               /\ e.votes[v.vin] = None /\ v.nTime <= h + Ahead =>
                     /\ r.ok
                     /\ r.e.votes[v.vin] /= None /\ r.e.votes[v.vin].nVote = v.nVote
  <1> DEFINE new == [nVote |-> v.nVote, nTime |-> v.nTime, fValid |-> TRUE, fSynced |-> FALSE]
             ok  == /\ e.votes[v.vin] = None \/ v.nTime - e.votes[v.vin].nTime >= UpdateMin
                    /\ v.nTime <= h + Ahead
             f   == [e EXCEPT !.votes[v.vin] = new]
  <1>1. /\ AddOrUpdateVote(e, v, h).ok = ok
        /\ AddOrUpdateVote(e, v, h).e = IF ok THEN f ELSE e
    BY DEF AddOrUpdateVote
  <1>2. ASSUME ok PROVE f \in EntryAt(h) /\ VotesGrow(e, f) /\ f.votes[v.vin] = new /\ new /= None
    <2>1. new \in VoteAt(h)
      BY <1>2, Numbers DEF VoteAt
    <2>2. new /= None
      BY <2>1, NotNone
    <2>3. f \in EntryAt(h) /\ f.votes = [e.votes EXCEPT ![v.vin] = new] /\ DOMAIN e.votes = Masternodes
      BY <2>1 DEF EntryAt
    <2>4. e.votes[v.vin] /= None => e.votes[v.vin].nTime \in Nat /\ v.nTime >= e.votes[v.vin].nTime + UpdateMin
      BY <1>2, Numbers DEF EntryAt, VoteAt
    <2>5. new.nTime = v.nTime
      OBVIOUS
    <2> HIDE DEF new, f
    <2> QED BY <2>2, <2>3, <2>4, <2>5 DEF VotesGrow
  <1> HIDE DEF f
  <1>3. CASE ok
    BY <1>1, <1>2, <1>3
  <1>4. CASE ~ok
    BY <1>1, <1>4, GrowReflexive
  <1> QED BY <1>3, <1>4

-----------------------------------------------------------------------------
(* Managers.                                                               *)

\* The entry f, or None, may come after e at height h.
Follows(e, f, h) ==
    /\ f \in EntryAt(h) \cup {None}
    /\ e /= None => f \in EntryAt(h) /\ VotesGrow(e, f)

\* The manager n may come after m at height h.
Grows(m, n, h) == Sound(n, h) /\ \A i \in Items : Follows(m.known[i], n.known[i], h)

\* The fields of a manager.
LEMMA ManagerFields ==
    ASSUME NEW h, NEW m, Sound(m, h)
    PROVE  /\ \A i \in Items : m.known[i] /= None => m.known[i] \in EntryAt(h)
           /\ \A i \in Items : m.orphans[i] /= None => m.orphans[i] \in Votes /\ m.orphans[i].hash = i
           /\ \A b \in Budgets : m.paid[b] /= None => m.paid[b] \in Nat
           /\ m.seen \subseteq Items /\ m.immature \subseteq Items
           /\ DOMAIN m.known = Items
  BY DEF Sound, Managers, OrphansRight

LEMMA FollowsReflexive ==
    ASSUME NEW h, NEW e \in EntryAt(h) \cup {None}
    PROVE  Follows(e, e, h)
  BY GrowReflexive DEF Follows

LEMMA FollowsTransitive ==
    ASSUME NEW h \in 0 .. MaxHeight, NEW e \in EntryAt(h) \cup {None}, NEW f, NEW g,
           Follows(e, f, h), Follows(f, g, h)
    PROVE  Follows(e, g, h)
  <1>1. CASE e = None
    BY <1>1 DEF Follows
  <1>2. CASE e /= None
    <2>1. e \in EntryAt(h) /\ f \in EntryAt(h) /\ VotesGrow(e, f)
      BY <1>2 DEF Follows
    <2>2. f /= None
      BY <2>1, NotNone
    <2>3. g \in EntryAt(h) /\ VotesGrow(f, g)
      BY <2>2 DEF Follows
    <2>4. VotesGrow(e, g)
      BY <2>1, <2>3, GrowTransitive, Numbers
    <2> QED BY <2>3, <2>4 DEF Follows
  <1> QED BY <1>1, <1>2

LEMMA GrowsReflexive ==
    ASSUME NEW h, NEW m, Sound(m, h)
    PROVE  Grows(m, m, h)
  BY ManagerFields, FollowsReflexive DEF Grows

LEMMA GrowsTransitive ==
    ASSUME NEW h \in 0 .. MaxHeight, NEW m, NEW n, NEW o, Sound(m, h), Grows(m, n, h), Grows(n, o, h)
    PROVE  Grows(m, o, h)
  <1>1. Sound(o, h)
    BY DEF Grows
  <1>2. ASSUME NEW i \in Items PROVE Follows(m.known[i], o.known[i], h)
    <2>1. Follows(m.known[i], n.known[i], h) /\ Follows(n.known[i], o.known[i], h)
      BY DEF Grows
    <2>2. m.known[i] \in EntryAt(h) \cup {None}
      BY ManagerFields
    <2> QED BY <2>1, <2>2, FollowsTransitive
  <1> QED BY <1>1, <1>2 DEF Grows

\* An operation that only changes the entries.
LEMMA KnownChange ==
    ASSUME NEW h \in 0 .. MaxHeight, NEW m, Sound(m, h), NEW k, k = [i \in Items |-> k[i]],
           \A i \in Items : Follows(m.known[i], k[i], h)
    PROVE  Grows(m, [m EXCEPT !.known = k], h)
  <1> DEFINE n == [m EXCEPT !.known = k]
  <1>1. m \in Managers(h) /\ OrphansRight(m)
    BY DEF Sound
  <1>2. k \in [Items -> EntryAt(h) \cup {None}]
    BY DEF Follows
  <1>3. n \in Managers(h) /\ n.known = k /\ n.orphans = m.orphans
    BY <1>1, <1>2 DEF Managers
  <1> HIDE DEF n
  <1>4. OrphansRight(n)
    BY <1>1, <1>3 DEF OrphansRight
  <1>5. Grows(m, n, h)
    BY <1>3, <1>4 DEF Grows, Sound
  <1> QED BY <1>5 DEF n

\* An operation that changes no entry.
LEMMA OthersChange ==
    ASSUME NEW h, NEW m, NEW n, Sound(m, h), Sound(n, h), n.known = m.known
    PROVE  Grows(m, n, h)
  BY ManagerFields, FollowsReflexive DEF Grows

-----------------------------------------------------------------------------
(* Operations.                                                             *)

\* Votes are votes.
LEMMA VotesTyped ==
    ASSUME NEW v \in Votes
    PROVE  v \in AnyVotes /\ v.vin \in Masternodes /\ v.hash \in Items /\ v.nVote \in {"yes", "no"} /\ v.nTime \in Nat
  BY BudgetAssumption DEF AnyVotes

\* UpdateProposal and UpdateFinalizedBudget.
LEMMA Updated ==
    ASSUME NEW h \in 0 .. MaxHeight, NEW m, Sound(m, h), NEW v \in Votes, NEW peer \in BOOLEAN
    PROVE  Grows(m, Update(m, v, peer, h).m, h)
  <1> DEFINE i == v.hash
             e == AddOrUpdateVote(m.known[i], v, h).e
             k == [m.known EXCEPT ![i] = e]
  <1>0. i \in Items /\ m \in Managers(h) /\ OrphansRight(m) /\ m.known[i] \in EntryAt(h) \cup {None}
    BY VotesTyped, ManagerFields DEF Sound
  <1>1. CASE m.known[i] /= None
    <2>1. m.known[i] \in EntryAt(h)
      BY <1>0, <1>1
    <2>2. e \in EntryAt(h) /\ VotesGrow(m.known[i], e)
      BY <2>1, VoteAdded, VotesTyped
    <2>3. Update(m, v, peer, h).m = [m EXCEPT !.known = k]
      BY <1>1 DEF Update
    <2> HIDE DEF e
    <2>4. \A j \in Items : Follows(m.known[j], k[j], h)
      BY <1>0, <2>2, ManagerFields, FollowsReflexive DEF Follows
    <2>5. k = [j \in Items |-> k[j]]
      BY ManagerFields
    <2> HIDE DEF k
    <2> QED BY <2>3, <2>4, <2>5, KnownChange
  <1>2. CASE m.known[i] = None
    <2> DEFINE n == [m EXCEPT !.orphans[i] = v]
    <2>1. Update(m, v, peer, h).m \in {n, m}
      BY <1>2 DEF Update
    <2>2. n \in Managers(h) /\ n.known = m.known /\ n.orphans = [m.orphans EXCEPT ![i] = v]
          /\ DOMAIN m.orphans = Items
      BY <1>0 DEF Managers
    <2> HIDE DEF n
    <2>3. Sound(n, h)
      BY <1>0, <2>2 DEF Sound, OrphansRight
    <2> QED BY <2>1, <2>2, <2>3, OthersChange, GrowsReflexive
  <1> QED BY <1>1, <1>2

\* CheckOrphanVotes takes up the vote kept for an item without votes, if its time has come.
LEMMA OrphansChecked ==
    ASSUME NEW h \in 0 .. MaxHeight, NEW m, Sound(m, h)
    PROVE  /\ Grows(m, CheckOrphanVotes(m, h), h)
           /\ \A i \in Items : m.known[i] = None => CheckOrphanVotes(m, h).known[i] = None
           /\ \A i \in Items :
                 LET v == m.orphans[i]
                     n == CheckOrphanVotes(m, h)
                 IN  m.known[i] /= None /\ v /= None /\ m.known[i].votes[v.vin] = None /\ v.nTime <= h + Ahead =>
                        /\ n.orphans[i] = None
                        /\ n.known[i].votes[v.vin] /= None /\ n.known[i].votes[v.vin].nVote = v.nVote
  <1> DEFINE result(i) == AddOrUpdateVote(m.known[i], m.orphans[i], h)
             due == {i \in Items : m.orphans[i] /= None /\ m.known[i] /= None /\ result(i).ok}
             k   == [i \in Items |-> IF i \in due THEN result(i).e ELSE m.known[i]]
             o   == [i \in Items |-> IF i \in due THEN None ELSE m.orphans[i]]
             n   == CheckOrphanVotes(m, h)
  <1>1. n = [m EXCEPT !.known = k, !.orphans = o]
    BY DEF CheckOrphanVotes
  <1>2. ASSUME NEW i \in Items, m.orphans[i] /= None, m.known[i] /= None
        PROVE  /\ result(i).e \in EntryAt(h) /\ VotesGrow(m.known[i], result(i).e)
               /\ LET v == m.orphans[i]
                  IN  m.known[i].votes[v.vin] = None /\ v.nTime <= h + Ahead =>
                         /\ result(i).ok
                         /\ result(i).e.votes[v.vin] /= None /\ result(i).e.votes[v.vin].nVote = v.nVote
    <2>1. m.known[i] \in EntryAt(h) /\ m.orphans[i] \in Votes
      BY <1>2, ManagerFields
    <2>2. m.orphans[i].vin \in Masternodes /\ m.orphans[i].nVote \in {"yes", "no"} /\ m.orphans[i].nTime \in Nat
      BY <2>1, VotesTyped
    <2> QED BY <2>1, <2>2, VoteAdded
  <1>3. \A i \in Items : Follows(m.known[i], k[i], h)
    BY <1>2, ManagerFields, FollowsReflexive DEF Follows
  <1>4. \A i \in Items : o[i] \in {None, m.orphans[i]}
    OBVIOUS
  <1>5. \A i \in Items : m.known[i] = None => k[i] = None
    OBVIOUS
  <1>6. \A i \in Items :
           LET v == m.orphans[i]
           IN  m.known[i] /= None /\ v /= None /\ m.known[i].votes[v.vin] = None /\ v.nTime <= h + Ahead =>
                  /\ o[i] = None
                  /\ k[i].votes[v.vin] /= None /\ k[i].votes[v.vin].nVote = v.nVote
    BY <1>2
  <1>7. k = [i \in Items |-> k[i]] /\ o = [i \in Items |-> o[i]]
    OBVIOUS
  <1> HIDE DEF result, due, k, o
  <1>8. m \in Managers(h) /\ OrphansRight(m)
    BY DEF Sound
  <1>9. k \in [Items -> EntryAt(h) \cup {None}] /\ o \in [Items -> Votes \cup {None}]
    BY <1>3, <1>4, <1>7, <1>8 DEF Follows, Managers
  <1>10. n \in Managers(h) /\ n.known = k /\ n.orphans = o
    BY <1>1, <1>8, <1>9 DEF Managers
  <1> HIDE DEF n
  <1>11. OrphansRight(n)
    BY <1>4, <1>8, <1>10 DEF OrphansRight
  <1>12. Grows(m, n, h)
    BY <1>3, <1>10, <1>11 DEF Grows, Sound
  <1> QED BY <1>5, <1>6, <1>10, <1>12 DEF n

\* AddProposal and AddFinalizedBudget.
LEMMA Added ==
    ASSUME NEW h \in 0 .. MaxHeight, NEW m, Sound(m, h), NEW i \in Items, NEW fee \in Nat
    PROVE  LET n == Add(m, i, fee, h)
           IN  /\ Grows(m, n, h) /\ n.orphans = m.orphans
               /\ \A j \in Items : n.known[j] \in {m.known[j], NewEntry(fee)}
               /\ \A j \in Items \ {i} : n.known[j] = m.known[j]
               /\ m.known[i] /= None => n.known[i] = m.known[i]
  <1> DEFINE k == [m.known EXCEPT ![i] = NewEntry(fee)]
             n == Add(m, i, fee, h)
  <1>1. CASE n = m
    BY <1>1, GrowsReflexive
  <1>2. CASE n /= m
    <2>1. m.known[i] = None /\ n = [m EXCEPT !.known = k]
      BY <1>2 DEF Add
    <2>2. NewEntry(fee) \in EntryAt(h)
      BY NewEntryTyped
    <2>3. \A j \in Items : Follows(m.known[j], k[j], h)
      BY <2>1, <2>2, ManagerFields, FollowsReflexive DEF Follows
    <2>4. k = [j \in Items |-> k[j]]
      BY ManagerFields
    <2>5. /\ \A j \in Items : k[j] \in {m.known[j], NewEntry(fee)}
          /\ \A j \in Items \ {i} : k[j] = m.known[j]
      BY ManagerFields
    <2>6. n.known = k /\ n.orphans = m.orphans
      BY <2>1 DEF Sound, Managers
    <2> HIDE DEF k, n
    <2>7. Grows(m, n, h)
      BY <2>1, <2>3, <2>4, KnownChange
    <2>8. QED BY <2>1, <2>5, <2>6, <2>7 DEF n
  <1> QED BY <1>1, <1>2

\* What an "mprop" or "fbs" does: an orphan vote counts at once when its item is added.
LEMMA ReceivedItem ==
    ASSUME NEW h \in 0 .. MaxHeight, NEW m, Sound(m, h), NEW i \in Items
    PROVE  LET n == Received(m, i, h)
           IN  /\ Grows(m, n, h)
               /\ \A j \in Items :
                     LET v == m.orphans[j]
                     IN  m.known[j] = None /\ n.known[j] /= None /\ v /= None /\ v.nTime <= h + Ahead =>
                            /\ n.orphans[j] = None
                            /\ n.known[j].votes[v.vin] /= None /\ n.known[j].votes[v.vin].nVote = v.nVote
  <1> DEFINE fee == FeeHeight[i]
             late == [m EXCEPT !.immature = IF Confirmed(fee, h) >= 1 THEN @ \cup {i} ELSE @]
             s == [m EXCEPT !.seen = @ \cup {i}]
             a == Add(s, i, fee, h)
             n == Received(m, i, h)
  <1>1. fee \in Nat
    BY Numbers
  <1>2. m \in Managers(h) /\ OrphansRight(m)
    BY DEF Sound
  <1>3. Sound(late, h) /\ late.known = m.known
    BY <1>2 DEF Sound, Managers, OrphansRight
  <1>4. Sound(s, h) /\ s.known = m.known /\ s.orphans = m.orphans
    BY <1>2 DEF Sound, Managers, OrphansRight
  <1>5. n \in {late, s, CheckOrphanVotes(a, h)}
    BY DEF Received
  <1> HIDE DEF fee, late, s, n
  <1>6. Grows(m, late, h) /\ Grows(m, s, h)
    BY <1>3, <1>4, OthersChange
  <1>7. /\ Grows(s, a, h) /\ a.orphans = s.orphans
        /\ \A j \in Items : a.known[j] \in {s.known[j], NewEntry(fee)}
    BY <1>1, <1>4, Added
  <1> HIDE DEF a
  <1>8. Sound(a, h)
    BY <1>7 DEF Grows
  <1>9. CASE n \in {late, s}
    BY <1>3, <1>4, <1>6, <1>9 DEF n
  <1>10. CASE n = CheckOrphanVotes(a, h)
    <2>1. Grows(m, a, h)
      BY <1>4, <1>6, <1>7, GrowsTransitive
    <2>2. Grows(m, n, h)
      BY <1>8, <1>10, <2>1, OrphansChecked, GrowsTransitive
    <2>3. ASSUME NEW j \in Items, m.known[j] = None, n.known[j] /= None,
                 m.orphans[j] /= None, m.orphans[j].nTime <= h + Ahead
          PROVE  LET v == m.orphans[j]
                 IN  /\ n.orphans[j] = None
                     /\ n.known[j].votes[v.vin] /= None /\ n.known[j].votes[v.vin].nVote = v.nVote
      <3>1. a.known[j] /= None
        BY <1>8, <1>10, <2>3, OrphansChecked
      <3>2. a.known[j] = NewEntry(fee)
        BY <1>4, <1>7, <2>3, <3>1
      <3>3. m.orphans[j].vin \in Masternodes
        BY <2>3, ManagerFields, VotesTyped
      <3>4. a.known[j].votes[m.orphans[j].vin] = None
        BY <3>2, <3>3 DEF NewEntry
      <3>5. a.orphans[j] = m.orphans[j]
        BY <1>4, <1>7
      <3> QED BY SMTT(30), <1>8, <1>10, <2>3, <3>1, <3>4, <3>5, OrphansChecked
    <2> QED BY <2>2, <2>3 DEF n
  <1> QED BY <1>5, <1>9, <1>10 DEF n

\* GetBudget cleans the votes of the proposals.
LEMMA CleanedManager ==
    ASSUME NEW h \in 0 .. MaxHeight, NEW m, Sound(m, h)
    PROVE  /\ Grows(m, Cleaned(m), h)
           /\ \A b \in Budgets : Cleaned(m).known[b] = m.known[b]
           /\ Cleaned(m).paid = m.paid
  <1> DEFINE k == [i \in Items |-> IF i \in Proposals /\ m.known[i] /= None
                                   THEN CleanAndRemove(m.known[i]) ELSE m.known[i]]
  <1>1. Cleaned(m) = [m EXCEPT !.known = k]
    BY DEF Cleaned
  <1>2. \A i \in Items : Follows(m.known[i], k[i], h)
    <2>1. ASSUME NEW i \in Items, m.known[i] /= None
          PROVE  Follows(m.known[i], CleanAndRemove(m.known[i]), h)
      BY <2>1, ManagerFields, CleanedEntry DEF Follows
    <2> QED BY <2>1, ManagerFields, FollowsReflexive
  <1>3. k = [i \in Items |-> k[i]]
    OBVIOUS
  <1>4. \A b \in Budgets : k[b] = m.known[b]
    BY BudgetAssumption DEF Items
  <1>5. m \in Managers(h)
    BY DEF Sound
  <1> HIDE DEF k
  <1>6. [m EXCEPT !.known = k].known = k /\ [m EXCEPT !.known = k].paid = m.paid
    BY <1>5 DEF Managers
  <1> QED BY <1>1, <1>2, <1>3, <1>4, <1>6, KnownChange

\* SubmitFinalBudget
LEMMA Submitted ==
    ASSUME NEW h \in 0 .. MaxHeight, NEW m, Sound(m, h)
    PROVE  Grows(m, SubmitFinalBudget(m, h), h)
  <1> DEFINE n  == Cleaned(m)
             bs == {b \in Budgets : nBlockStart[b] = CycleStart(h) /\ vecBudgetPayments[b] = AsPayments(GetBudget(n, h))}
             b  == CHOOSE c \in bs : TRUE
             paying == [n EXCEPT !.paid[b] = h + 1]
             s == [n EXCEPT !.seen = @ \cup {b}]
             r == SubmitFinalBudget(m, h)
  <1>1. \/ r \in {m, n}
        \/ b \in bs /\ r = paying
        \/ b \in bs /\ m.paid[b] /= None /\ r = Add(s, b, m.paid[b], h)
    BY DEF SubmitFinalBudget
  <1>2. bs \subseteq Budgets
    OBVIOUS
  <1> HIDE DEF bs, b, r
  <1>3. Grows(m, n, h) /\ Sound(n, h)
    BY CleanedManager DEF Grows
  <1> HIDE DEF n
  <1>4. n \in Managers(h) /\ OrphansRight(n)
    BY <1>3 DEF Sound
  <1>5. CASE r \in {m, n}
    BY <1>3, <1>5, GrowsReflexive DEF r
  <1>6. CASE b \in bs /\ r = paying
    <2>1. b \in Budgets /\ h + 1 \in Nat
      BY <1>2, <1>6
    <2>2. paying \in Managers(h) /\ paying.known = n.known /\ paying.orphans = n.orphans
      BY <1>4, <2>1 DEF Managers
    <2> HIDE DEF paying
    <2>3. Sound(paying, h)
      BY <1>4, <2>2 DEF Sound, OrphansRight
    <2>4. Grows(n, paying, h)
      BY <1>3, <2>2, <2>3, OthersChange
    <2> QED BY <1>3, <1>6, <2>4, GrowsTransitive DEF r
  <1>7. CASE b \in bs /\ m.paid[b] /= None /\ r = Add(s, b, m.paid[b], h)
    <2>1. b \in Budgets /\ b \in Items /\ m.paid[b] \in Nat
      BY <1>2, <1>7, ManagerFields DEF Items
    <2>2. s \in Managers(h) /\ s.known = n.known /\ s.orphans = n.orphans
      BY <1>4, <2>1 DEF Managers
    <2> HIDE DEF s
    <2>3. Sound(s, h)
      BY <1>4, <2>2 DEF Sound, OrphansRight
    <2>4. Grows(n, s, h)
      BY <1>3, <2>2, <2>3, OthersChange
    <2>5. Grows(s, r, h)
      BY <1>7, <2>1, <2>3, Added
    <2>6. Grows(n, r, h)
      BY <1>3, <2>4, <2>5, GrowsTransitive
    <2> QED BY <1>3, <2>6, GrowsTransitive DEF r
  <1> QED BY <1>1, <1>5, <1>6, <1>7 DEF r

\* Flags of an entry.
LEMMA EntryFlags ==
    ASSUME NEW h, NEW e \in EntryAt(h), NEW f \in BOOLEAN
    PROVE  /\ [e EXCEPT !.fValid = f] \in EntryAt(h) /\ VotesGrow(e, [e EXCEPT !.fValid = f])
           /\ [e EXCEPT !.fAutoChecked = f] \in EntryAt(h) /\ VotesGrow(e, [e EXCEPT !.fAutoChecked = f])
  <1>1. /\ [e EXCEPT !.fValid = f] \in EntryAt(h) /\ [e EXCEPT !.fValid = f].votes = e.votes
        /\ [e EXCEPT !.fAutoChecked = f] \in EntryAt(h) /\ [e EXCEPT !.fAutoChecked = f].votes = e.votes
    BY DEF EntryAt
  <1> QED BY <1>1 DEF VotesGrow

LEMMA IsValidBoolean ==
    ASSUME NEW i, NEW e, NEW h
    PROVE  IsValid(i, e, h) \in BOOLEAN
  BY DEF IsValid, ProposalIsValid, BudgetIsValid

\* AutoCheck of finalized budgets the node knows.
LEMMA AutoChecked ==
    ASSUME NEW h \in 0 .. MaxHeight, NEW m, Sound(m, h), NEW S \in SUBSET Budgets,
           \A b \in S : m.known[b] /= None,
           S /= {} => activeMasternode /= None
    PROVE  Grows(m, AutoCheck(m, S, h), h)
  <1> DEFINE n         == IF strBudgetMode = "auto" /\ S /= {} THEN Cleaned(m) ELSE m
             result(b) == AddOrUpdateVote(n.known[b], OwnVote(b, h), h)
             voted     == {b \in S : strBudgetMode = "auto" /\ Matches(n, b, h) /\ result(b).ok}
             e(i)      == IF i \in voted THEN result(i).e ELSE n.known[i]
             k         == [i \in Items |-> IF i \notin S THEN n.known[i] ELSE [e(i) EXCEPT !.fAutoChecked = TRUE]]
             sv        == n.seenVotes \cup {OwnVote(b, h) : b \in voted}
  <1>1. AutoCheck(m, S, h) = [n EXCEPT !.known = k, !.seenVotes = sv]
    BY DEF AutoCheck
  <1>2. Grows(m, n, h) /\ Sound(n, h) /\ \A b \in S : n.known[b] /= None
    BY CleanedManager, GrowsReflexive DEF Grows
  <1>3. voted \subseteq S /\ S \subseteq Items
    BY DEF Items
  <1> HIDE DEF n
  <1>4. ASSUME NEW b \in S PROVE OwnVote(b, h) \in AnyVotes /\ OwnVote(b, h).vin \in Masternodes
    BY <1>3, BudgetAssumption DEF OwnVote, AnyVotes
  <1>5. ASSUME NEW b \in S PROVE result(b).e \in EntryAt(h) /\ VotesGrow(n.known[b], result(b).e)
    <2>1. n.known[b] \in EntryAt(h)
      BY <1>2, <1>3, ManagerFields
    <2>2. OwnVote(b, h).nVote \in {"yes", "no"} /\ OwnVote(b, h).nTime \in Nat
      BY DEF OwnVote
    <2> QED BY <1>4, <2>1, <2>2, VoteAdded
  <1>6. ASSUME NEW b \in S
        PROVE  /\ n.known[b] \in EntryAt(h)
               /\ e(b) \in EntryAt(h) /\ VotesGrow(n.known[b], e(b))
    BY <1>2, <1>3, <1>5, ManagerFields, GrowReflexive
  <1> HIDE DEF voted, result, e
  <1>7. ASSUME NEW b \in S
        PROVE  Follows(n.known[b], [e(b) EXCEPT !.fAutoChecked = TRUE], h)
    <2> DEFINE f == [e(b) EXCEPT !.fAutoChecked = TRUE]
    <2>1. f \in EntryAt(h) /\ VotesGrow(e(b), f)
      BY <1>6, EntryFlags
    <2> HIDE DEF f
    <2>2. VotesGrow(n.known[b], f)
      BY <1>6, <2>1, GrowTransitive
    <2>3. Follows(n.known[b], f, h)
      BY <2>1, <2>2 DEF Follows
    <2> QED BY <2>3 DEF f
  <1>8. \A i \in Items : Follows(n.known[i], k[i], h)
    BY <1>2, <1>7, ManagerFields, FollowsReflexive
  <1>9. k = [i \in Items |-> k[i]]
    OBVIOUS
  <1>10. n \in Managers(h) /\ OrphansRight(n)
    BY <1>2 DEF Sound
  <1>11. sv \in SUBSET AnyVotes
    BY <1>3, <1>4, <1>10 DEF Managers
  <1> HIDE DEF k, sv
  <1> DEFINE o == [n EXCEPT !.known = k]
             r == AutoCheck(m, S, h)
  <1>12. Grows(n, o, h)
    BY <1>2, <1>8, <1>9, KnownChange
  <1>13. r = [o EXCEPT !.seenVotes = sv]
    BY <1>1
  <1> HIDE DEF o, r
  <1>14. o \in Managers(h) /\ OrphansRight(o)
    BY <1>12 DEF Grows, Sound
  <1>15. r \in Managers(h) /\ r.known = o.known /\ r.orphans = o.orphans
    BY <1>11, <1>13, <1>14 DEF Managers
  <1>16. Grows(o, r, h)
    <2>1. Sound(r, h) /\ Sound(o, h)
      BY <1>14, <1>15 DEF Sound, OrphansRight
    <2> QED BY <1>15, <2>1, OthersChange
  <1>17. Grows(n, r, h)
    BY <1>2, <1>12, <1>16, GrowsTransitive
  <1>18. Grows(m, r, h)
    BY <1>2, <1>17, GrowsTransitive
  <1> QED BY <1>18 DEF r

\* CheckAndRemove
LEMMA CheckedAndRemoved ==
    ASSUME NEW h \in 0 .. MaxHeight, NEW m, Sound(m, h), NEW waits
    PROVE  Grows(m, CheckAndRemove(m, h, waits), h)
  <1> DEFINE checked == {b \in Budgets \ waits :
                            /\ activeMasternode /= None /\ m.known[b] /= None
                            /\ ~m.known[b].fAutoChecked /\ IsValid(b, m.known[b], h)}
             n == AutoCheck(m, checked, h)
             k == [i \in Items |-> IF n.known[i] = None THEN None
                                   ELSE [n.known[i] EXCEPT !.fValid = IsValid(i, n.known[i], h)]]
  <1>1. CheckAndRemove(m, h, waits) = [n EXCEPT !.known = k]
    BY DEF CheckAndRemove
  <1>2. /\ checked \in SUBSET Budgets /\ \A b \in checked : m.known[b] /= None
        /\ checked /= {} => activeMasternode /= None
    OBVIOUS
  <1> HIDE DEF checked
  <1>3. Grows(m, n, h) /\ Sound(n, h)
    BY <1>2, AutoChecked DEF Grows
  <1> HIDE DEF n
  <1>4. ASSUME NEW i \in Items, n.known[i] /= None
        PROVE  Follows(n.known[i], [n.known[i] EXCEPT !.fValid = IsValid(i, n.known[i], h)], h)
    <2>1. n.known[i] \in EntryAt(h) /\ IsValid(i, n.known[i], h) \in BOOLEAN
      BY <1>3, <1>4, ManagerFields, IsValidBoolean
    <2> QED BY <2>1, EntryFlags DEF Follows
  <1>5. \A i \in Items : Follows(n.known[i], k[i], h)
    BY <1>4, ManagerFields, FollowsReflexive
  <1>6. k = [i \in Items |-> k[i]]
    OBVIOUS
  <1> HIDE DEF k
  <1>7. Grows(n, [n EXCEPT !.known = k], h)
    BY <1>3, <1>5, <1>6, KnownChange
  <1> QED BY <1>1, <1>3, <1>7, GrowsTransitive

\* An item with votes that have other flags.
LEMMA FlaggedVotes ==
    ASSUME NEW h \in 0 .. MaxHeight, NEW e \in EntryAt(h), NEW w,
           w = [x \in Masternodes |-> w[x]],
           \A x \in Masternodes : e.votes[x] = None => w[x] = None,
           \A x \in Masternodes : e.votes[x] /= None => w[x] \in VoteAt(h) /\ w[x].nTime = e.votes[x].nTime
    PROVE  [e EXCEPT !.votes = w] \in EntryAt(h) /\ VotesGrow(e, [e EXCEPT !.votes = w])
  <1> DEFINE f == [e EXCEPT !.votes = w]
  <1>1. w \in [Masternodes -> VoteAt(h) \cup {None}]
    OBVIOUS
  <1>2. f \in EntryAt(h) /\ f.votes = w
    BY <1>1 DEF EntryAt
  <1> HIDE DEF f
  <1>3. VotesGrow(e, f)
    BY <1>2, NotNone DEF VotesGrow
  <1> QED BY <1>2, <1>3 DEF f

\* MarkSynced and ResetSync
LEMMA MarkedVotes ==
    ASSUME NEW h \in 0 .. MaxHeight, NEW m, Sound(m, h), NEW f \in BOOLEAN,
           NEW S \in SUBSET Items, \A i \in S : m.known[i] /= None
    PROVE  Grows(m, Marked(m, S, f), h)
  <1> DEFINE w(i) == [x \in Masternodes |->
                         IF m.known[i].votes[x] = None \/ (f /\ ~m.known[i].votes[x].fValid) THEN m.known[i].votes[x]
                         ELSE [m.known[i].votes[x] EXCEPT !.fSynced = f]]
             k == [i \in Items |-> IF i \in S THEN [m.known[i] EXCEPT !.votes = w(i)] ELSE m.known[i]]
  <1>1. Marked(m, S, f) = [m EXCEPT !.known = k]
    BY DEF Marked
  <1>2. ASSUME NEW i \in S
        PROVE  Follows(m.known[i], [m.known[i] EXCEPT !.votes = w(i)], h)
    <2>1. m.known[i] \in EntryAt(h)
      BY ManagerFields
    <2>2. ASSUME NEW x \in Masternodes, m.known[i].votes[x] /= None
          PROVE  w(i)[x] \in VoteAt(h) /\ w(i)[x].nTime = m.known[i].votes[x].nTime
      <3>1. m.known[i].votes[x] \in VoteAt(h)
        BY <2>1, <2>2 DEF EntryAt
      <3>2. w(i)[x] \in {m.known[i].votes[x], [m.known[i].votes[x] EXCEPT !.fSynced = f]}
        OBVIOUS
      <3> QED BY <3>1, <3>2, VoteFlags
    <2>3. \A x \in Masternodes : m.known[i].votes[x] = None => w(i)[x] = None
      OBVIOUS
    <2>4. w(i) = [x \in Masternodes |-> w(i)[x]]
      OBVIOUS
    <2> HIDE DEF w
    <2>5. [m.known[i] EXCEPT !.votes = w(i)] \in EntryAt(h) /\ VotesGrow(m.known[i], [m.known[i] EXCEPT !.votes = w(i)])
      BY <2>1, <2>2, <2>3, <2>4, FlaggedVotes
    <2> QED BY <2>5 DEF Follows
  <1> HIDE DEF w
  <1>3. \A i \in Items : Follows(m.known[i], k[i], h)
    BY <1>2, ManagerFields, FollowsReflexive
  <1>4. k = [i \in Items |-> k[i]]
    OBVIOUS
  <1> HIDE DEF k
  <1> QED BY <1>1, <1>3, <1>4, KnownChange

LEMMA SeenCleared ==
    ASSUME NEW h \in 0 .. MaxHeight, NEW m, Sound(m, h)
    PROVE  Grows(m, ClearSeen(m), h)
  <1>1. m \in Managers(h) /\ OrphansRight(m)
    BY DEF Sound
  <1> DEFINE c == ClearSeen(m)
  <1>2. c = [[m EXCEPT !.seen = {}] EXCEPT !.seenVotes = {}]
    BY DEF ClearSeen
  <1> HIDE DEF c
  <1>3. c \in Managers(h) /\ c.known = m.known /\ c.orphans = m.orphans
    BY <1>1, <1>2 DEF Managers
  <1>4. Sound(c, h)
    BY <1>1, <1>3 DEF Sound, OrphansRight
  <1>5. Grows(m, c, h)
    BY <1>3, <1>4, OthersChange
  <1> QED BY <1>5 DEF c

\* Both mark the votes of items that are seen and known.
LEMMA MarksGrow ==
    ASSUME NEW h \in 0 .. MaxHeight, NEW m, Sound(m, h)
    PROVE  Grows(m, MarkSynced(m), h) /\ Grows(m, ResetSync(m), h)
  <1>1. Offered(m) \in SUBSET Items /\ \A i \in Offered(m) : m.known[i] /= None
    BY ManagerFields DEF Offered
  <1> QED BY <1>1, MarkedVotes DEF MarkSynced, ResetSync

LEMMA SynchronisedManager ==
    ASSUME NEW h \in 0 .. MaxHeight, NEW m, Sound(m, h), NEW full \in BOOLEAN
    PROVE  Grows(m, Synchronised(m, full), h)
  <1> DEFINE c == ClearSeen(m)
             r == ResetSync(c)
  <1>1. Grows(m, c, h) /\ Sound(c, h)
    BY SeenCleared DEF Grows
  <1>2. Grows(c, r, h) /\ Sound(r, h)
    BY <1>1, MarksGrow DEF Grows
  <1>3. Grows(m, r, h)
    BY <1>1, <1>2, GrowsTransitive
  <1>4. Grows(r, MarkSynced(r), h) /\ Grows(m, MarkSynced(m), h)
    BY <1>2, MarksGrow
  <1>5. Grows(m, MarkSynced(r), h)
    BY <1>3, <1>4, GrowsTransitive
  <1>6. Synchronised(m, full) \in {MarkSynced(r), MarkSynced(m)}
    BY DEF Synchronised
  <1> QED BY <1>4, <1>5, <1>6

\* Immature items are added.
LEMMA MaturedItems ==
    ASSUME NEW h \in 0 .. MaxHeight, NEW m, Sound(m, h)
    PROVE  Grows(m, Matured(m, h), h)
  <1> DEFINE ripe == {i \in m.immature : IsBudgetCollateralValid(FeeHeight[i], h)}
             k == [i \in Items |-> IF i \in ripe THEN Add(m, i, FeeHeight[i], h).known[i] ELSE m.known[i]]
             o == [m EXCEPT !.known = k]
             r == Matured(m, h)
  <1>1. r = [o EXCEPT !.immature = m.immature \ ripe]
    BY DEF Matured
  <1>2. ASSUME NEW i \in Items
        PROVE  Follows(m.known[i], Add(m, i, FeeHeight[i], h).known[i], h)
    <2>1. FeeHeight[i] \in Nat
      BY Numbers
    <2> QED BY <2>1, Added DEF Grows
  <1>3. \A i \in Items : Follows(m.known[i], k[i], h)
    BY <1>2, ManagerFields, FollowsReflexive
  <1>4. k = [i \in Items |-> k[i]]
    OBVIOUS
  <1> HIDE DEF ripe, k
  <1>5. Grows(m, o, h)
    BY <1>3, <1>4, KnownChange
  <1> HIDE DEF o, r
  <1>6. o \in Managers(h) /\ OrphansRight(o) /\ m.immature \subseteq Items
    BY <1>5, ManagerFields DEF Grows, Sound
  <1>7. r \in Managers(h) /\ r.known = o.known /\ r.orphans = o.orphans
    BY <1>1, <1>6 DEF Managers
  <1>8. Sound(r, h) /\ Sound(o, h)
    BY <1>6, <1>7 DEF Sound, OrphansRight
  <1>9. Grows(o, r, h)
    BY <1>7, <1>8, OthersChange
  <1>10. Grows(m, r, h)
    BY <1>5, <1>9, GrowsTransitive
  <1> QED BY <1>10 DEF r

\* All that NewBlock does from time to time.
LEMMA RefreshedManager ==
    ASSUME NEW h \in 0 .. MaxHeight, NEW m, Sound(m, h), NEW full \in BOOLEAN, NEW waits
    PROVE  Grows(m, Refreshed(m, h, full, waits), h)
  <1> DEFINE s == IF synced THEN Synchronised(m, full) ELSE m
             c == CheckAndRemove(s, h, waits)
             k == [i \in Items |-> IF c.known[i] = None THEN None ELSE CleanAndRemove(c.known[i])]
             a == [c EXCEPT !.known = k]
  <1>1. Refreshed(m, h, full, waits) = Matured(a, h)
    BY DEF Refreshed
  <1>2. Grows(m, s, h) /\ Sound(s, h)
    BY SynchronisedManager, GrowsReflexive DEF Grows
  <1> HIDE DEF s
  <1>3. Grows(s, c, h) /\ Sound(c, h)
    BY <1>2, CheckedAndRemoved DEF Grows
  <1> HIDE DEF c
  <1>4. \A i \in Items : Follows(c.known[i], k[i], h)
    BY <1>3, CleanedEntry, ManagerFields, FollowsReflexive DEF Follows
  <1>5. k = [i \in Items |-> k[i]]
    OBVIOUS
  <1> HIDE DEF k
  <1>6. Grows(c, a, h) /\ Sound(a, h)
    BY <1>3, <1>4, <1>5, KnownChange DEF Grows
  <1> HIDE DEF a
  <1>7. Grows(a, Matured(a, h), h)
    BY <1>6, MaturedItems
  <1>8. Grows(m, a, h)
    BY <1>2, <1>3, <1>6, GrowsTransitive
  <1> QED BY <1>1, <1>2, <1>7, <1>8, GrowsTransitive

\* A restart with a file.
LEMMA LoadedManager ==
    ASSUME height \in 0 .. MaxHeight, NEW m, Sound(m, height)
    PROVE  Grows(m, Loaded(m), height)
  <1> DEFINE u(i, x) == [m.known[i].votes[x] EXCEPT !.fValid = TRUE, !.fSynced = FALSE]
             w(i) == [x \in Masternodes |-> IF m.known[i].votes[x] = None THEN None ELSE u(i, x)]
             c(i) == [m.known[i] EXCEPT !.votes = w(i)]
             entry(i) == [m.known[i] EXCEPT !.votes = w(i), !.fAutoChecked = FALSE]
             f(i) == [entry(i) EXCEPT !.fValid = IsValid(i, entry(i), height)]
             k == [i \in Items |-> IF m.known[i] = None THEN None ELSE f(i)]
  <1>1. Loaded(m) = [m EXCEPT !.known = k]
    BY DEF Loaded
  <1>2. ASSUME NEW i \in Items, m.known[i] /= None
        PROVE  Follows(m.known[i], f(i), height)
    <2>1. m.known[i] \in EntryAt(height)
      BY <1>2, ManagerFields
    <2>2. ASSUME NEW x \in Masternodes, m.known[i].votes[x] /= None
          PROVE  w(i)[x] \in VoteAt(height) /\ w(i)[x].nTime = m.known[i].votes[x].nTime
      <3>1. m.known[i].votes[x] \in VoteAt(height)
        BY <2>1, <2>2 DEF EntryAt
      <3> DEFINE d == [m.known[i].votes[x] EXCEPT !.fValid = TRUE]
      <3>2. d \in VoteAt(height) /\ d.nTime = m.known[i].votes[x].nTime
        BY <3>1, VoteFlags
      <3>3. w(i)[x] = [d EXCEPT !.fSynced = FALSE]
        BY <2>2
      <3> HIDE DEF d, w
      <3> QED BY <3>2, <3>3, VoteFlags
    <2>3. \A x \in Masternodes : m.known[i].votes[x] = None => w(i)[x] = None
      OBVIOUS
    <2>4. w(i) = [x \in Masternodes |-> w(i)[x]]
      OBVIOUS
    <2> HIDE DEF w
    <2>5. entry(i) \in EntryAt(height) /\ VotesGrow(m.known[i], entry(i))
      <3>1. c(i) \in EntryAt(height) /\ VotesGrow(m.known[i], c(i))
        BY <1>2, <2>1, <2>2, <2>3, <2>4, FlaggedVotes
      <3>2. entry(i) = [c(i) EXCEPT !.fAutoChecked = FALSE]
        BY <2>1 DEF EntryAt
      <3> HIDE DEF c, entry
      <3>3. entry(i) \in EntryAt(height) /\ VotesGrow(c(i), entry(i))
        BY <3>1, <3>2, EntryFlags
      <3> QED BY <2>1, <3>1, <3>3, GrowTransitive, Numbers
    <2>6. IsValid(i, entry(i), height) \in BOOLEAN
      BY IsValidBoolean
    <2> HIDE DEF entry
    <2>7. f(i) \in EntryAt(height) /\ VotesGrow(entry(i), f(i))
      BY <2>5, <2>6, EntryFlags
    <2> HIDE DEF f
    <2>8. VotesGrow(m.known[i], f(i))
      BY <2>1, <2>5, <2>7, GrowTransitive, Numbers
    <2> QED BY <2>7, <2>8 DEF Follows
  <1> HIDE DEF f
  <1>3. \A i \in Items : Follows(m.known[i], k[i], height)
    BY <1>2, ManagerFields, FollowsReflexive
  <1>4. k = [i \in Items |-> k[i]]
    OBVIOUS
  <1> HIDE DEF k
  <1> QED BY <1>1, <1>3, <1>4, KnownChange

-----------------------------------------------------------------------------
(* Steps.                                                                  *)

\* What is right at a height is right at the next.
LEMMA SoundLater ==
    ASSUME NEW h \in Nat, NEW m, Sound(m, h)
    PROVE  Sound(m, h + 1)
  <1>1. EntryAt(h) \subseteq EntryAt(h + 1)
    BY EntriesLater
  <1> QED BY <1>1 DEF Sound, Managers

\* The manager after a step.
LEMMA ManagerBecomes ==
    ASSUME NEW h, NEW n, Sound(n, h), Becomes(n)
    PROVE  /\ known' = n.known /\ orphans' = n.orphans
           /\ Sound(M', h)
  <1>1. n \in Managers(h) /\ OrphansRight(n)
    BY DEF Sound
  <1>2. M' = n
    <2>1. M' = [known |-> known', seen |-> seen', seenVotes |-> seenVotes', orphans |-> orphans',
                immature |-> immature', paid |-> mapCollateralTxids']
      BY DEF M
    <2>2. M' = [known |-> n.known, seen |-> n.seen, seenVotes |-> n.seenVotes, orphans |-> n.orphans,
                immature |-> n.immature, paid |-> n.paid]
      BY <2>1 DEF Becomes
    <2> QED BY <1>1, <2>2 DEF Managers
  <1> QED BY <1>2 DEF Becomes

\* The votes after a step in which the manager grows.
LEMMA NeverBackIfGrown ==
    ASSUME NEW h, NEW n, Grows(M, n, h), Becomes(n)
    PROVE  \A i \in Items : NeverBack(i)
  <1> SUFFICES ASSUME NEW i \in Items, known[i] /= None, known'[i] /= None
               PROVE  VotesGrow(known[i], known'[i])
    BY DEF NeverBack, VotesGrow
  <1>1. Follows(known[i], n.known[i], h)
    BY DEF Grows, M
  <1>2. known'[i] = n.known[i]
    BY DEF Becomes
  <1> QED BY <1>1, <1>2 DEF Follows

\* The parts of the invariant a handler of messages leaves alone.
Elsewhere ==
    /\ height' \in StartHeight .. MaxHeight /\ mns' \subseteq Masternodes
    /\ strBudgetMode' \in Modes /\ synced' \in BOOLEAN /\ disturbances' \in 0 .. MaxDisturbances

\* What a step has to do.
Right == Inv' /\ \A i \in Items : NeverBack(i) /\ OrphanCounts(i)

\* A step with a manager that grows is right if it adds no item with an orphan vote.
LEMMA RightIfGrown ==
    ASSUME Elsewhere, NEW n, Grows(M, n, height'), Becomes(n),
           \A i \in Items : OrphanCounts(i)
    PROVE  Right
  <1>1. \A i \in Items : NeverBack(i)
    BY NeverBackIfGrown
  <1>2. Sound(M', height')
    BY ManagerBecomes DEF Grows
  <1> QED BY <1>1, <1>2 DEF Right, Inv, Elsewhere

\* The same of a step that adds no item at all.
LEMMA RightIfNothingAdded ==
    ASSUME Elsewhere, NEW n, Grows(M, n, height'), Becomes(n),
           \A i \in Items : known[i] = None => n.known[i] = None
    PROVE  Right
  <1>1. \A i \in Items : OrphanCounts(i)
    BY DEF OrphanCounts, Becomes
  <1> QED BY <1>1, RightIfGrown

\* The manager of the state.
LEMMA InvSound ==
    ASSUME Inv
    PROVE  Sound(M, height) /\ height \in 0 .. MaxHeight /\ height \in Nat
  BY Numbers DEF Inv

\* A connected block.
LEMMA NewBlockRight ==
    ASSUME Inv, NEW full \in BOOLEAN, NEW waits \in SUBSET Budgets, NewBlock(full, waits)
    PROVE  Right
  <1> DEFINE h == height + 1
             s == IF strBudgetMode = "suggest" THEN SubmitFinalBudget(M, h) ELSE M
             n == IF h % Every = 0 THEN Refreshed(s, h, full, waits) ELSE s
  <1>1. height' = h /\ Becomes(n) /\ height < MaxHeight
    BY DEF NewBlock
  <1>2. h \in 0 .. MaxHeight /\ height \in Nat
    BY <1>1, InvSound, Numbers
  <1>3. Sound(M, h)
    BY <1>2, InvSound, SoundLater
  <1>4. Elsewhere
    <2>1. disturbances' \in 0 .. MaxDisturbances
      BY Numbers DEF Inv, NewBlock, Disturbance
    <2> QED BY <1>1, <2>1, Numbers DEF Elsewhere, Inv, NewBlock
  <1> HIDE DEF h
  <1>5. Grows(M, s, h) /\ Sound(s, h)
    BY <1>2, <1>3, Submitted, GrowsReflexive DEF Grows
  <1> HIDE DEF s
  <1>6. Grows(s, n, h)
    BY <1>2, <1>5, RefreshedManager, GrowsReflexive
  <1> HIDE DEF n
  <1>7. Grows(M, n, height')
    BY <1>1, <1>2, <1>3, <1>5, <1>6, GrowsTransitive
  <1>8. height' /= height
    BY <1>1, <1>2 DEF h
  <1>9. \A i \in Items : OrphanCounts(i)
    BY <1>8 DEF OrphanCounts
  <1> QED BY <1>1, <1>4, <1>7, <1>9, RightIfGrown

\* A connected block that the budget does not see.
LEMMA SkippedBlockRight ==
    ASSUME Inv, SkippedBlock
    PROVE  Right
  <1>1. height' = height + 1 /\ height < MaxHeight
    BY DEF SkippedBlock
  <1>2. Sound(M, height')
    BY <1>1, InvSound, SoundLater
  <1>3. Elsewhere
    BY <1>1, Numbers DEF Elsewhere, Inv, SkippedBlock, Disturbance
  <1>4. Becomes(M)
    BY DEF SkippedBlock, managerVars, Becomes, M
  <1>5. Grows(M, M, height')
    BY <1>2, GrowsReflexive
  <1>6. \A i \in Items : known[i] = None => M.known[i] = None
    BY DEF M
  <1> QED BY <1>3, <1>4, <1>5, <1>6, RightIfNothingAdded

\* A proposal or finalized budget from a peer.
LEMMA ItemRight ==
    ASSUME Inv, NEW i \in Items, mprop(i) \/ fbs(i)
    PROVE  Right
  <1> DEFINE n == Received(M, i, height)
  <1>1. Becomes(n) /\ UNCHANGED <<height, mns, strBudgetMode, synced, disturbances>>
    BY DEF mprop, fbs
  <1>2. Elsewhere
    BY <1>1 DEF Inv, Elsewhere
  <1>3. Grows(M, n, height)
    BY InvSound, ReceivedItem
  <1>4. ASSUME NEW j \in Items PROVE OrphanCounts(j)
    <2>1. LET v == M.orphans[j]
          IN  M.known[j] = None /\ n.known[j] /= None /\ v /= None /\ v.nTime <= height + Ahead =>
                 /\ n.orphans[j] = None
                 /\ n.known[j].votes[v.vin] /= None /\ n.known[j].votes[v.vin].nVote = v.nVote
      BY InvSound, ReceivedItem
    <2>2. known' = n.known /\ orphans' = n.orphans /\ M.known = known /\ M.orphans = orphans
      BY <1>1 DEF Becomes, M
    <2> HIDE DEF n
    <2> QED BY <2>1, <2>2 DEF OrphanCounts
  <1> HIDE DEF n
  <1> QED BY <1>1, <1>2, <1>3, <1>4, RightIfGrown

\* A vote from a peer.
LEMMA ReceiveVoteRight ==
    ASSUME Inv, NEW v \in Votes, NEW valid \in BOOLEAN, ReceiveVote(v, valid)
    PROVE  Right
  <1> DEFINE s == [M EXCEPT !.seenVotes = @ \cup {v}]
             n == IF valid THEN Update(s, v, TRUE, height).m ELSE s
  <1>1. Becomes(n) /\ UNCHANGED <<height, mns, strBudgetMode, synced>>
    BY DEF ReceiveVote
  <1>2. Elsewhere
    <2>1. disturbances' \in 0 .. MaxDisturbances
      BY Numbers DEF Inv, ReceiveVote, Disturbance
    <2> QED BY <1>1, <2>1 DEF Inv, Elsewhere
  <1>3. M \in Managers(height) /\ OrphansRight(M) /\ v \in AnyVotes
    BY InvSound, VotesTyped DEF Sound
  <1>4. s \in Managers(height) /\ s.known = M.known /\ s.orphans = M.orphans
    BY <1>3 DEF Managers
  <1>5. ASSUME NEW i \in Items, s.known[i] = None PROVE n.known[i] = None
    BY <1>4, <1>5 DEF Update, Managers
  <1> HIDE DEF s
  <1>6. Sound(s, height)
    BY <1>3, <1>4 DEF Sound, OrphansRight
  <1>7. Grows(M, s, height)
    BY <1>4, <1>6, InvSound, OthersChange
  <1>8. Grows(s, n, height)
    BY <1>6, InvSound, Updated, GrowsReflexive
  <1> HIDE DEF n
  <1>9. Grows(M, n, height')
    BY <1>1, <1>7, <1>8, InvSound, GrowsTransitive
  <1>10. \A i \in Items : known[i] = None => n.known[i] = None
    BY <1>4, <1>5 DEF M
  <1> QED BY <1>1, <1>2, <1>9, <1>10, RightIfNothingAdded

\* The manager when everything is gone.
LEMMA RightIfEmptied ==
    ASSUME Inv, Elsewhere, height' = height, NEW n, Becomes(n),
           n \in Managers(height), n.known = Nothing, n.orphans = Nothing
    PROVE  Right
  <1>1. Sound(n, height)
    BY DEF Sound, OrphansRight, Nothing
  <1>2. known' = Nothing /\ Sound(M', height)
    BY <1>1, ManagerBecomes
  <1>3. \A i \in Items : known'[i] = None
    BY <1>2 DEF Nothing
  <1>4. \A i \in Items : NeverBack(i) /\ OrphanCounts(i)
    BY <1>3 DEF NeverBack, OrphanCounts
  <1> QED BY <1>2, <1>4 DEF Right, Inv, Elsewhere

\* A restart, with the file or without.
LEMMA RestartRight ==
    ASSUME Inv, NEW kept \in BOOLEAN, Restart(kept)
    PROVE  Right
  <1> DEFINE l == ResetSync(Loaded(M))
             e == [M EXCEPT !.known = Nothing, !.orphans = Nothing]
             m == IF kept THEN l ELSE e
             c == ClearSeen(m)
             n == [c EXCEPT !.immature = {}, !.paid = [b \in Budgets |-> None]]
  <1>1. Becomes(n) /\ height' = height
    BY DEF Restart
  <1>2. Elsewhere
    <2>1. /\ UNCHANGED <<height, mns, strBudgetMode>> /\ synced' = FALSE
          /\ disturbances < MaxDisturbances /\ disturbances' = disturbances + 1
      BY DEF Restart, Disturbance
    <2>2. disturbances' \in 0 .. MaxDisturbances
      BY <2>1, Numbers DEF Inv
    <2>3. FALSE \in BOOLEAN
      OBVIOUS
    <2> QED BY <2>1, <2>2, <2>3 DEF Inv, Elsewhere
  <1>3. M \in Managers(height) /\ Sound(M, height) /\ height \in 0 .. MaxHeight
    BY InvSound DEF Sound
  <1>4. ASSUME NEW o \in Managers(height)
        PROVE  LET p == [ClearSeen(o) EXCEPT !.immature = {}, !.paid = [b \in Budgets |-> None]]
               IN  p \in Managers(height) /\ p.known = o.known /\ p.orphans = o.orphans
    BY DEF ClearSeen, Managers
  <1>5. CASE ~kept
    <2>1. e \in Managers(height) /\ e.known = Nothing /\ e.orphans = Nothing
      BY <1>3 DEF Managers, Nothing
    <2> HIDE DEF e
    <2>2. m = e
      BY <1>5
    <2>3. n \in Managers(height) /\ n.known = Nothing /\ n.orphans = Nothing
      BY <1>4, <2>1, <2>2
    <2> HIDE DEF n
    <2> QED BY <1>1, <1>2, <2>3, RightIfEmptied
  <1>6. CASE kept
    <2>1. Grows(M, Loaded(M), height) /\ Sound(Loaded(M), height)
      BY <1>3, LoadedManager DEF Grows
    <2>2. Grows(Loaded(M), l, height)
      BY <1>3, <2>1, MarksGrow
    <2>3. Grows(M, l, height)
      BY <1>3, <2>1, <2>2, GrowsTransitive
    <2>4. \A i \in Items : known[i] = None => l.known[i] = None
      <3>1. \A i \in Items : known[i] = None => Loaded(M).known[i] = None
        BY <1>3 DEF Loaded, Managers, M
      <3>2. \A i \in Items : Loaded(M).known[i] = None => i \notin Offered(Loaded(M))
        BY DEF Offered
      <3>3. \A i \in Items : i \notin Offered(Loaded(M)) => l.known[i] = Loaded(M).known[i]
        BY <2>1 DEF ResetSync, Marked, Sound, Managers
      <3> QED BY <3>1, <3>2, <3>3
    <2>5. Sound(l, height) /\ l \in Managers(height)
      BY <2>3 DEF Grows, Sound
    <2>6. m = l
      BY <1>6
    <2> HIDE DEF l
    <2>7. n \in Managers(height) /\ n.known = l.known /\ n.orphans = l.orphans
      BY <1>4, <2>5, <2>6
    <2> HIDE DEF n
    <2>8. Sound(n, height)
      BY <2>5, <2>7 DEF Sound, OrphansRight
    <2>9. Grows(M, n, height')
      BY <1>1, <2>3, <2>7, <2>8 DEF Grows
    <2>10. \A i \in Items : known[i] = None => n.known[i] = None
      BY <2>4, <2>7
    <2> QED BY <1>1, <1>2, <2>9, <2>10, RightIfNothingAdded
  <1> QED BY <1>5, <1>6

\* SPORK_11
LEMMA ClearRight ==
    ASSUME Inv, Clear
    PROVE  Right
  <1> DEFINE c == ClearSeen(M)
             n == [c EXCEPT !.known = Nothing, !.orphans = Nothing]
  <1>1. Becomes(n) /\ height' = height
    BY DEF Clear
  <1>2. Elsewhere
    BY Numbers DEF Inv, Elsewhere, Clear, Disturbance
  <1>3. c \in Managers(height)
    BY InvSound, SeenCleared DEF Grows, Sound
  <1> HIDE DEF c
  <1>4. n \in Managers(height) /\ n.known = Nothing /\ n.orphans = Nothing
    BY <1>3 DEF Managers, Nothing
  <1> HIDE DEF n
  <1> QED BY <1>1, <1>2, <1>4, RightIfEmptied

\* Steps that leave the manager alone.
LEMMA OtherStepsRight ==
    ASSUME Inv, FinishSync \/ (\E x \in Masternodes : ListChanges(x)) \/ UNCHANGED vars
    PROVE  Right
  <1>1. Elsewhere /\ height' = height /\ UNCHANGED managerVars
    <2>1. CASE FinishSync
      BY <2>1 DEF Inv, Elsewhere, FinishSync
    <2>2. CASE \E x \in Masternodes : ListChanges(x)
      <3>1. PICK x \in Masternodes : ListChanges(x)
        BY <2>2
      <3>2. mns' \subseteq Masternodes
        BY <3>1 DEF Inv, ListChanges
      <3> QED BY <3>1, <3>2, Numbers DEF Inv, Elsewhere, ListChanges, Disturbance
    <2>3. CASE UNCHANGED vars
      BY <2>3 DEF Inv, Elsewhere, vars, managerVars
    <2> QED BY <2>1, <2>2, <2>3
  <1>2. Becomes(M)
    BY <1>1 DEF managerVars, Becomes, M
  <1>3. Grows(M, M, height')
    BY <1>1, InvSound, GrowsReflexive
  <1>4. \A i \in Items : known[i] = None => M.known[i] = None
    BY DEF M
  <1> QED BY <1>1, <1>2, <1>3, <1>4, RightIfNothingAdded

-----------------------------------------------------------------------------
(* The inductive invariant.                                                *)

LEMMA InitInv == Init => Inv
  <1> SUFFICES ASSUME Init PROVE Inv
    OBVIOUS
  <1>1. known \in [Items -> EntryAt(height) \cup {None}]
    BY BudgetAssumption DEF Init
  <1>4. seen \subseteq Items /\ seenVotes \subseteq AnyVotes
    BY VotesTyped DEF Init
  <1>5. orphans = Nothing /\ immature = {} /\ mapCollateralTxids = [b \in Budgets |-> None]
    BY DEF Init
  <1>6. M \in Managers(height)
    BY <1>1, <1>4, <1>5 DEF M, Managers, Nothing
  <1>7. OrphansRight(M)
    BY <1>5 DEF OrphansRight, M, Nothing
  <1> QED BY <1>6, <1>7, Numbers DEF Inv, Sound, Init

\* Every step keeps the invariant and the votes.
LEMMA StepRight == Inv /\ [Next]_vars => Right
  <1> SUFFICES ASSUME Inv, [Next]_vars PROVE Right
    OBVIOUS
  <1>1. CASE \E full \in BOOLEAN, waits \in SUBSET Budgets : NewBlock(full, waits)
    BY <1>1, NewBlockRight
  <1>2. CASE SkippedBlock
    BY <1>2, SkippedBlockRight
  <1>3. CASE Clear
    BY <1>3, ClearRight
  <1>4. CASE \E i \in Items : mprop(i) \/ fbs(i)
    BY <1>4, ItemRight
  <1>5. CASE \E v \in Votes, valid \in BOOLEAN : mvote(v, valid) \/ fbvote(v, valid)
    BY <1>5, ReceiveVoteRight DEF mvote, fbvote
  <1>6. CASE \E kept \in BOOLEAN : Restart(kept)
    BY <1>6, RestartRight
  <1>7. CASE FinishSync \/ (\E x \in Masternodes : ListChanges(x)) \/ UNCHANGED vars
    BY <1>7, OtherStepsRight
  <1> QED BY <1>1, <1>2, <1>3, <1>4, <1>5, <1>6, <1>7 DEF Next

\* The manager is always well formed.
THEOREM Invariance == Spec => []Inv
  <1>1. Inv /\ [Next]_vars => Inv'
    BY StepRight DEF Right
  <1> QED BY <1>1, InitInv, PTL DEF Spec

\* The types of the budget manager are kept by every handler, NewBlock and restart; no
\* vote that counts is ahead of the time (AddOrUpdateVote).
THEOREM TypeCorrect == Spec => []TypeOK
  <1>1. Inv => TypeOK
    <2> SUFFICES ASSUME Inv PROVE TypeOK
      OBVIOUS
    <2>1. M \in Managers(height) /\ OrphansRight(M)
      BY InvSound DEF Sound
    <2>2. /\ \A i \in Items : known[i] /= None => known[i] \in EntryAt(height)
          /\ seen \subseteq Items /\ immature \subseteq Items
          /\ \A i \in Items : orphans[i] \in {v \in Votes : v.hash = i} \cup {None}
          /\ mapCollateralTxids \in [Budgets -> Nat \cup {None}]
      BY <2>1 DEF Managers, OrphansRight, M
    <2> QED BY <2>2 DEF TypeOK, Inv
  <1> QED BY <1>1, Invariance, PTL

\* In whatever order votes come, as orphans, before their item, again or late, none that
\* was accepted is lost or replaced by one that is not newer by UpdateMin, and an orphan
\* vote counts as soon as its item is sent (AddOrUpdateVote, CheckOrphanVotes).
THEOREM VotesAreKept == Spec => VotesKept
  <1>1. Inv /\ [Next]_vars => \A i \in Items : NeverBack(i) /\ OrphanCounts(i)
    BY StepRight DEF Right
  <1> QED BY <1>1, Invariance, PTL DEF Spec, VotesKept

-----------------------------------------------------------------------------
(* The payments in blocks.                                                 *)

\* A set of numbers has a least one.
LEMMA LeastNatural ==
    ASSUME NEW T \in SUBSET Nat, T /= {}
    PROVE  \E m \in T : \A k \in T : m <= k
  <1> DEFINE below(m) == 0 .. m - 1
             F == {below(m) : m \in T}
  <1>1. F \subseteq FiniteSubsetsOf(Nat) /\ F /= {}
    <2>1. \A m \in T : IsFiniteSet(below(m)) /\ below(m) \in SUBSET Nat
      BY FS_Interval
    <2>2. \A m \in T : below(m) \in FiniteSubsetsOf(Nat)
      BY <2>1 DEF FiniteSubsetsOf
    <2> HIDE DEF below
    <2> QED BY <2>2
  <1>2. PICK A \in F : \A B \in F : ~ (<<B, A>> \in StrictSubsetOrdering(Nat))
    <2> HIDE DEF F
    <2> QED BY <1>1, FS_StrictSubsetOrderingWellFounded, WFMin
  <1>3. PICK m \in T : A = below(m)
    OBVIOUS
  <1>4. ASSUME NEW k \in T, k < m PROVE FALSE
    <2>1. below(k) \in F /\ below(k) \in SUBSET Nat /\ below(m) \in SUBSET Nat
      OBVIOUS
    <2>2. below(k) \subseteq below(m) /\ k \in below(m) /\ k \notin below(k)
      BY <1>4
    <2>3. below(k) /= below(m)
      BY <2>2
    <2>4. <<below(k), below(m)>> \in StrictSubsetOrdering(Nat)
      <3> HIDE DEF below
      <3> QED BY <2>1, <2>2, <2>3 DEF StrictSubsetOrdering
    <2> QED BY <1>2, <1>3, <2>1, <2>4
  <1> QED BY <1>4

\* Min and Max of a bounded set of numbers.
LEMMA MinOfNaturals ==
    ASSUME NEW T \in SUBSET Nat, T /= {}
    PROVE  Min(T) \in T
  BY LeastNatural DEF Min

LEMMA MaxOfIntegers ==
    ASSUME NEW T \in SUBSET Int, T /= {}, NEW n \in Nat, \A k \in T : k <= n
    PROVE  Max(T) \in T /\ \A k \in T : k <= Max(T)
  <1> DEFINE U == {n - k : k \in T}
  <1>1. U \in SUBSET Nat /\ U /= {}
    <2>1. \A k \in T : n - k \in Nat
      OBVIOUS
    <2> QED BY <2>1
  <1>2. PICK u \in U : \A v \in U : u <= v
    BY <1>1, LeastNatural
  <1>3. PICK m \in T : u = n - m
    OBVIOUS
  <1>4. \A k \in T : m >= k
    <2>1. \A k \in T : n - m <= n - k
      BY <1>2, <1>3
    <2> QED BY <2>1
  <1>5. \E x \in T : \A y \in T : x >= y
    BY <1>4
  <1>6. Max(T) \in T /\ \A y \in T : Max(T) >= y
    BY <1>5 DEF Max
  <1> QED BY <1>6

\* The votes of a finalized budget can be counted.
LEMMA VoteCount ==
    ASSUME NEW e
    PROVE  GetVoteCount(e) \in Nat /\ GetVoteCount(e) <= Cardinality(Masternodes) /\ Cardinality(Masternodes) \in Nat
  <1> DEFINE voters == {x \in Masternodes : e.votes[x] /= None}
  <1>1. IsFiniteSet(Masternodes) /\ voters \in SUBSET Masternodes
    BY BudgetAssumption
  <1>2. IsFiniteSet(voters) /\ Cardinality(voters) <= Cardinality(Masternodes)
    BY <1>1, FS_Subset
  <1>3. Cardinality(voters) \in Nat /\ Cardinality(Masternodes) \in Nat
    BY <1>1, <1>2, FS_CardinalityType
  <1> QED BY <1>2, <1>3 DEF GetVoteCount

\* The highest count, or least, which is -1 or 0.
LEMMA HighestCount ==
    ASSUME NEW h, NEW least \in {-1, 0}
    PROVE  /\ Highest(h, least) \in Int /\ Highest(h, least) >= least
           /\ \A b \in Covering(h) : GetVoteCount(known[b]) <= Highest(h, least)
           /\ Highest(h, least) /= least =>
                 \E b \in Covering(h) : GetVoteCount(known[b]) = Highest(h, least)
  <1> DEFINE counts == {GetVoteCount(known[b]) : b \in Covering(h)}
             T == counts \cup {least}
  <1>1. /\ T \in SUBSET Int /\ T /= {} /\ Cardinality(Masternodes) \in Nat
        /\ \A k \in T : k <= Cardinality(Masternodes)
    BY VoteCount
  <1>2. Highest(h, least) = Max(T)
    BY DEF Highest
  <1>3. Max(T) \in T /\ \A k \in T : k <= Max(T)
    <2> HIDE DEF T
    <2> QED BY <1>1, MaxOfIntegers
  <1> QED BY <1>1, <1>2, <1>3

\* A block the node builds on its own view of the budgets passes its own check of it, in
\* every state, if there are ten masternodes: then the margin of 10% is not 0
\* (FillBlockPayee, IsTransactionValid).
THEOREM TemplatesAreAccepted == Spec => []TemplateAccepted
  <1>1. mns \subseteq Masternodes => TemplateAccepted
    <2> SUFFICES ASSUME mns \subseteq Masternodes, CountEnabled >= 10, IsBudgetPaymentBlock(height + 1)
                 PROVE  LET b == FillBlockPayee(height + 1)
                        IN  b /= None /\ IsTransactionValid(Payment(b, height + 1), height + 1)
      BY DEF TemplateAccepted
    <2> DEFINE h == height + 1
               best == {b \in Covering(h) : GetVoteCount(known[b]) > 0 /\ GetVoteCount(known[b]) = Highest(h, 0)}
               places == {k \in DOMAIN ByHash : ByHash[k] \in best}
               b == FillBlockPayee(h)
    <2>1. CountEnabled \in Nat
      <3>1. IsFiniteSet(mns)
        BY BudgetAssumption, FS_Subset
      <3> QED BY <3>1, Numbers, FS_CardinalityType DEF CountEnabled
    <2>2. Highest(h, -1) > CountEnabled \div 20
      BY DEF IsBudgetPaymentBlock
    <2> HIDE DEF h
    <2>3. PICK c \in Covering(h) : GetVoteCount(known[c]) = Highest(h, -1)
      <3>1. Highest(h, -1) /= -1
        BY <2>1, <2>2
      <3> QED BY <3>1, HighestCount
    <2>4. Highest(h, 0) = Highest(h, -1)
      <3>1. /\ Highest(h, -1) \in Int /\ Highest(h, 0) \in Int /\ Highest(h, -1) > 0
            /\ Highest(h, -1) <= Highest(h, 0)
        BY <2>1, <2>2, <2>3, HighestCount
      <3>2. PICK d \in Covering(h) : GetVoteCount(known[d]) = Highest(h, 0)
        BY <3>1, HighestCount
      <3>3. Highest(h, 0) <= Highest(h, -1)
        BY <3>2, HighestCount
      <3> QED BY <3>1, <3>3
    <2>5. c \in best /\ best \subseteq Budgets
      <3>1. GetVoteCount(known[c]) > 0 /\ GetVoteCount(known[c]) = Highest(h, 0)
        <4>1. Highest(h, -1) \in Int /\ CountEnabled \div 20 \in Nat
          BY <2>1, HighestCount
        <4> QED BY <2>2, <2>3, <2>4, <4>1
      <3>2. Covering(h) \subseteq Budgets
        BY DEF Covering
      <3> QED BY <2>3, <3>1, <3>2
    <2>6. places \in SUBSET Nat /\ places /= {}
      <3>1. ByHash \in Seq(Items) /\ c \in Items /\ {ByHash[k] : k \in DOMAIN ByHash} = Items
        BY <2>5, BudgetAssumption DEF Items
      <3>2. DOMAIN ByHash \subseteq Nat
        BY <3>1
      <3>3. \E k \in DOMAIN ByHash : ByHash[k] = c
        BY <3>1
      <3> HIDE DEF best
      <3> QED BY <2>5, <3>2, <3>3
    <2>7. b = ByHash[Min(places)]
      BY <2>5 DEF FillBlockPayee
    <2>8. b \in best
      <3>1. Min(places) \in places
        <4> HIDE DEF places
        <4> QED BY <2>6, MinOfNaturals
      <3> QED BY <2>7, <3>1
    <2>9. b /= None
      BY <2>5, <2>8, BudgetAssumption DEF Items
    <2> HIDE DEF b
    <2>10. b \in Covering(h) /\ GetVoteCount(known[b]) = Highest(h, 0) /\ Highest(h, 0) \in Int
      BY <2>8, HighestCount
    <2>11. Highest(h, 0) >= CountEnabled \div 20 /\ GetVoteCount(known[b]) > Highest(h, 0) - CountEnabled \div 10
      BY <2>1, <2>2, <2>4, <2>10
    <2>12. IsTransactionValid(Payment(b, h), h)
      BY <2>10, <2>11 DEF IsTransactionValid
    <2> QED BY <2>9, <2>12 DEF b, h
  <1>2. Inv => mns \subseteq Masternodes
    BY DEF Inv
  <1> QED BY <1>1, <1>2, Invariance, PTL
-----------------------------------------------------------------------------
(* Loops.                                                                  *)

\* What holds before a loop, and is kept by each turn, holds after every turn.
LEMMA EveryTurn ==
    ASSUME NEW n \in Nat, NEW G, 0 \in G, \A i \in 1 .. n : i - 1 \in G => i \in G
    PROVE  0 .. n \subseteq G
  <1> DEFINE S == {i \in 0 .. n : i \notin G}
  <1> SUFFICES ASSUME S /= {} PROVE FALSE
    OBVIOUS
  <1>1. PICK m \in S : \A k \in S : m <= k
    <2>1. S \in SUBSET Nat
      OBVIOUS
    <2> HIDE DEF S
    <2> QED BY <2>1, LeastNatural
  <1>2. m \in 1 .. n /\ m - 1 \in 0 .. n /\ m - 1 \notin S
    BY <1>1
  <1> QED BY <1>1, <1>2

\* f[i] is what a loop that starts with x0 has after i turns.
Turns(f, n, X, x0, F) ==
    f \in [0 .. n -> X] /\ f[0] = x0 /\ \A i \in 1 .. n : f[i] = F[i][f[i - 1]]

LEMMA Iteration ==
    ASSUME NEW n \in Nat, NEW X, NEW x0 \in X, NEW F \in [1 .. n -> [X -> X]]
    PROVE  \E f : Turns(f, n, X, x0, F)
  <1> DEFINE G == {k \in 0 .. n : \E f : Turns(f, k, X, x0, F)}
  <1>1. 0 \in G
    <2> DEFINE f == [i \in 0 .. 0 |-> x0]
    <2>1. f \in [0 .. 0 -> X] /\ f[0] = x0 /\ 1 .. 0 = {}
      OBVIOUS
    <2> HIDE DEF f
    <2>2. Turns(f, 0, X, x0, F)
      BY <2>1 DEF Turns
    <2> QED BY <2>2
  <1>2. ASSUME NEW k \in 1 .. n, k - 1 \in G PROVE k \in G
    <2>1. PICK f : Turns(f, k - 1, X, x0, F)
      BY <1>2
    <2>2. f \in [0 .. k - 1 -> X] /\ f[0] = x0 /\ \A i \in 1 .. k - 1 : f[i] = F[i][f[i - 1]]
      BY <2>1 DEF Turns
    <2> DEFINE e == [i \in 0 .. k |-> IF i = k THEN F[k][f[k - 1]] ELSE f[i]]
    <2>3. F[k][f[k - 1]] \in X
      <3>1. k - 1 \in 0 .. k - 1
        OBVIOUS
      <3> QED BY <2>2, <3>1
    <2>4. e \in [0 .. k -> X] /\ e[0] = x0
      BY <2>2, <2>3
    <2>5. \A i \in 1 .. k : e[i] = F[i][e[i - 1]]
      BY <2>2
    <2> HIDE DEF e
    <2>6. Turns(e, k, X, x0, F)
      BY <2>4, <2>5 DEF Turns
    <2> QED BY <2>6
  <1>3. 0 .. n \subseteq G
    <2> HIDE DEF G
    <2> QED BY <1>1, <1>2, EveryTurn
  <1>4. n \in G
    BY <1>3
  <1> QED BY <1>4

-----------------------------------------------------------------------------
(* The order of the proposals.                                             *)

\* R is a strict total order on S.
StrictOrder(R, S) ==
    /\ \A a \in S : <<a, a>> \notin R
    /\ \A a, b, c \in S : <<a, b>> \in R /\ <<b, c>> \in R => <<a, c>> \in R
    /\ \A a, b \in S : a /= b => <<a, b>> \in R \/ <<b, a>> \in R

\* A finite set can be listed in any strict order.
LEMMA Listing ==
    ASSUME NEW S, IsFiniteSet(S), NEW R, StrictOrder(R, S)
    PROVE  \E s \in [1 .. Cardinality(S) -> S] :
               \A j, k \in 1 .. Cardinality(S) : j < k => <<s[j], s[k]>> \in R
  <1> DEFINE n == Cardinality(S)
             below(p) == {q \in S : <<q, p>> \in R}
             rank == [p \in S |-> Cardinality(below(p)) + 1]
  <1>1. n \in Nat /\ IsFiniteSet(1 .. n) /\ Cardinality(1 .. n) = n
    BY FS_CardinalityType, FS_Interval
  <1>2. \A p \in S : /\ below(p) \in SUBSET S /\ IsFiniteSet(below(p)) /\ Cardinality(below(p)) \in Nat
                     /\ Cardinality(below(p)) <= n /\ (Cardinality(below(p)) = n => below(p) = S)
    <2> SUFFICES ASSUME NEW p \in S
                 PROVE  /\ below(p) \in SUBSET S /\ IsFiniteSet(below(p)) /\ Cardinality(below(p)) \in Nat
                        /\ Cardinality(below(p)) <= n /\ (Cardinality(below(p)) = n => below(p) = S)
      OBVIOUS
    <2>1. below(p) \in SUBSET S
      OBVIOUS
    <2> HIDE DEF below
    <2> QED BY <2>1, FS_Subset, FS_CardinalityType
  <1>3. \A p \in S : p \notin below(p) /\ rank[p] = Cardinality(below(p)) + 1
    BY DEF StrictOrder
  <1>4. \A p \in S : rank[p] \in 1 .. n
    <2> SUFFICES ASSUME NEW p \in S PROVE rank[p] \in 1 .. n
      OBVIOUS
    <2>1. Cardinality(below(p)) /= n
      <3> HIDE DEF below
      <3> QED BY <1>2, <1>3
    <2>2. rank[p] = Cardinality(below(p)) + 1 /\ Cardinality(below(p)) \in Nat /\ Cardinality(below(p)) <= n
      BY <1>2
    <2> HIDE DEF below, rank, n
    <2> QED BY <1>1, <2>1, <2>2
  <1>5. ASSUME NEW p \in S, NEW q \in S, <<q, p>> \in R PROVE rank[q] < rank[p]
    <2>1. below(q) \in SUBSET below(p) /\ q \in below(p) /\ q \notin below(q)
      BY <1>5 DEF StrictOrder
    <2>2. /\ Cardinality(below(q)) <= Cardinality(below(p))
          /\ Cardinality(below(p)) = Cardinality(below(q)) => below(p) = below(q)
      <3> HIDE DEF below
      <3> QED BY <1>2, <2>1, FS_Subset
    <2>3. rank[p] = Cardinality(below(p)) + 1 /\ rank[q] = Cardinality(below(q)) + 1
      OBVIOUS
    <2>4. Cardinality(below(p)) /= Cardinality(below(q))
      BY <2>1, <2>2
    <2>5. Cardinality(below(p)) \in Nat /\ Cardinality(below(q)) \in Nat
      BY <1>2
    <2> HIDE DEF below, rank
    <2> QED BY <2>2, <2>3, <2>4, <2>5
  <1> HIDE DEF below
  <1>6. rank \in [S -> 1 .. n]
    BY <1>4
  <1> HIDE DEF rank
  <1>7. \A p, q \in S : p /= q => rank[p] /= rank[q]
    <2> SUFFICES ASSUME NEW p \in S, NEW q \in S, p /= q PROVE rank[p] /= rank[q]
      OBVIOUS
    <2>1. <<p, q>> \in R \/ <<q, p>> \in R
      BY DEF StrictOrder
    <2>2. rank[p] \in Int /\ rank[q] \in Int
      BY <1>4
    <2> QED BY <1>5, <2>1, <2>2
  <1>8. rank \in Injection(S, 1 .. n)
    BY <1>6, <1>7 DEF Injection, IsInjective
  <1>9. rank \in Surjection(S, 1 .. n)
    BY <1>1, <1>8, FS_Injection
  <1>10. \A k \in 1 .. n : \E p \in S : rank[p] = k
    BY <1>9 DEF Surjection
  <1> DEFINE s == [k \in 1 .. n |-> CHOOSE p \in S : rank[p] = k]
  <1>11. \A k \in 1 .. n : s[k] \in S /\ rank[s[k]] = k
    BY <1>10
  <1>12. s \in [1 .. n -> S]
    BY <1>11
  <1> HIDE DEF s
  <1>13. ASSUME NEW j \in 1 .. n, NEW k \in 1 .. n, j < k PROVE <<s[j], s[k]>> \in R
    <2>1. s[j] \in S /\ s[k] \in S /\ rank[s[j]] = j /\ rank[s[k]] = k /\ s[j] /= s[k]
      BY <1>11, <1>13
    <2>2. <<s[k], s[j]>> \in R => k < j
      BY <1>5, <2>1
    <2> QED BY <2>1, <2>2, <1>13 DEF StrictOrder
  <1> QED BY <1>12, <1>13

LEMMA ProposalOrder ==
    /\ IsFiniteSet(Items) /\ Len(ByHash) \in Nat /\ DOMAIN ByHash = 1 .. Len(ByHash)
    /\ \A i \in Items : \E k \in 1 .. Len(ByHash) : ByHash[k] = i
    /\ \A j, k \in 1 .. Len(ByHash) : ByHash[j] = ByHash[k] => j = k
  <1>1. Len(ByHash) \in Nat /\ DOMAIN ByHash = 1 .. Len(ByHash) /\ ByHash \in [1 .. Len(ByHash) -> Items]
    BY BudgetAssumption
  <1>2. \A i \in Items : \E k \in DOMAIN ByHash : ByHash[k] = i
    BY BudgetAssumption
  <1>3. ByHash \in Surjection(1 .. Len(ByHash), Items)
    BY <1>1, <1>2 DEF Surjection
  <1>4. IsFiniteSet(Items)
    BY <1>1, <1>3, FS_Interval, FS_Surjection
  <1>5. \A j, k \in DOMAIN ByHash : ByHash[j] = ByHash[k] => j = k
    BY BudgetAssumption
  <1> QED BY <1>1, <1>2, <1>4, <1>5

LEMMA NetTyped ==
    ASSUME NEW e
    PROVE  Net(e) \in Int
  <1>1. \A a : Counted(e, a) \in SUBSET Masternodes
    BY DEF Counted
  <1>2. \A a : Cardinality(Counted(e, a)) \in Nat
    BY <1>1, BudgetAssumption, FS_Subset, FS_CardinalityType
  <1> QED BY <1>2 DEF Net

\* sortProposalsByVotes is a strict order: hashes decide between equal votes.
LEMMA BeforeIsOrder ==
    ASSUME NEW m, NEW S \in SUBSET Proposals
    PROVE  /\ \A p \in S : ~Before(m, p, p)
           /\ \A p, q, r \in S : Before(m, p, q) /\ Before(m, q, r) => Before(m, p, r)
           /\ \A p, q \in S : p /= q => Before(m, p, q) \/ Before(m, q, p)
  <1> DEFINE after(p, q) == \E j, k \in DOMAIN ByHash : j > k /\ ByHash[j] = p /\ ByHash[k] = q
             at(p) == CHOOSE k \in 1 .. Len(ByHash) : ByHash[k] = p
  <1>1. S \subseteq Items
    BY DEF Items
  <1>2. \A p \in S : at(p) \in 1 .. Len(ByHash) /\ ByHash[at(p)] = p /\ at(p) \in Int
    BY <1>1, ProposalOrder
  <1>3. \A p, q \in S : after(p, q) <=> at(p) > at(q)
    <2> SUFFICES ASSUME NEW p \in S, NEW q \in S PROVE after(p, q) <=> at(p) > at(q)
      OBVIOUS
    <2>1. \A k \in 1 .. Len(ByHash) : (ByHash[k] = p => k = at(p)) /\ (ByHash[k] = q => k = at(q))
      <3> HIDE DEF at
      <3> QED BY <1>2, ProposalOrder
    <2> HIDE DEF at
    <2> QED BY <1>2, <2>1, ProposalOrder
  <1>4. \A p, q \in S : p /= q => at(p) /= at(q)
    BY <1>2
  <1>5. \A p, q : Before(m, p, q) <=> \/ Net(m.known[p]) > Net(m.known[q])
                                      \/ Net(m.known[p]) = Net(m.known[q]) /\ after(p, q)
    BY DEF Before
  <1>6. \A p : Net(m.known[p]) \in Int
    BY NetTyped
  <1> DEFINE net(p) == Net(m.known[p])
  <1>7. \A p : net(p) \in Int
    BY <1>6
  <1>8. \A p, q \in S : Before(m, p, q) <=> net(p) > net(q) \/ (net(p) = net(q) /\ at(p) > at(q))
    <2> HIDE DEF after, at
    <2> QED BY <1>3, <1>5
  <1> HIDE DEF net, at, after
  <1> QED BY <1>2, <1>4, <1>7, <1>8

\* The proposals of a set are listed best first, each once.
LEMMA SortedProposals ==
    ASSUME NEW m, NEW S \in SUBSET Proposals
    PROVE  /\ Sorted(m, S) \in Seq(S) /\ Len(Sorted(m, S)) \in Nat
           /\ \A k \in 1 .. Len(Sorted(m, S)) : Sorted(m, S)[k] \in S
           /\ \A p \in S : \E k \in 1 .. Len(Sorted(m, S)) : Sorted(m, S)[k] = p
           /\ \A j, k \in 1 .. Len(Sorted(m, S)) : Before(m, Sorted(m, S)[j], Sorted(m, S)[k]) <=> j < k
  <1> DEFINE n == Cardinality(S)
             R == {e \in S \X S : Before(m, e[1], e[2])}
             sorts(s) == \A j, k \in 1 .. n : j < k => Before(m, s[j], s[k])
  <1>1. IsFiniteSet(S) /\ n \in Nat
    <2>1. S \in SUBSET Items
      BY DEF Items
    <2> QED BY <2>1, ProposalOrder, FS_Subset, FS_CardinalityType
  <1>2. \A p, q \in S : <<p, q>> \in R <=> Before(m, p, q)
    OBVIOUS
  <1> HIDE DEF R
  <1>3. StrictOrder(R, S)
    BY <1>2, BeforeIsOrder DEF StrictOrder
  <1>4. \E s \in [1 .. n -> S] : sorts(s)
    <2>1. PICK s \in [1 .. n -> S] : \A j, k \in 1 .. n : j < k => <<s[j], s[k]>> \in R
      BY <1>1, <1>3, Listing
    <2>2. sorts(s)
      BY <1>2, <2>1
    <2> QED BY <2>2
  <1> DEFINE s == Sorted(m, S)
  <1>5. s \in [1 .. n -> S] /\ sorts(s)
    <2>1. s = CHOOSE t \in [1 .. n -> S] : sorts(t)
      BY DEF Sorted
    <2> HIDE DEF s, sorts, n
    <2> QED BY <1>4, <2>1
  <1> HIDE DEF s
  <1>6. s \in Seq(S) /\ Len(s) = n
    BY <1>1, <1>5
  <1>7. \A j, k \in 1 .. n : j < k => Before(m, s[j], s[k])
    BY <1>5
  <1>8. \A k \in 1 .. n : s[k] \in S
    BY <1>5
  <1>9. \A j, k \in 1 .. n : Before(m, s[j], s[k]) <=> j < k
    <2> SUFFICES ASSUME NEW j \in 1 .. n, NEW k \in 1 .. n, ~(j < k) PROVE ~Before(m, s[j], s[k])
      BY <1>7
    <2>1. CASE j = k
      BY <2>1, <1>8, BeforeIsOrder
    <2>2. CASE k < j
      <3>1. Before(m, s[k], s[j]) /\ s[j] \in S /\ s[k] \in S
        BY <2>2, <1>7, <1>8
      <3> QED BY <3>1, BeforeIsOrder
    <2> QED BY <1>1, <2>1, <2>2
  <1>10. \A j, k \in 1 .. n : s[j] = s[k] => j = k
    <2> SUFFICES ASSUME NEW j \in 1 .. n, NEW k \in 1 .. n, s[j] = s[k], j /= k PROVE FALSE
      OBVIOUS
    <2>1. j < k \/ k < j
      BY <1>1
    <2>2. Before(m, s[j], s[k]) \/ Before(m, s[k], s[j])
      BY <2>1, <1>7
    <2> QED BY <2>2, <1>8, BeforeIsOrder
  <1>11. \A p \in S : \E k \in 1 .. n : s[k] = p
    <2>1. s \in Injection(1 .. n, S)
      BY <1>5, <1>10 DEF Injection, IsInjective
    <2>2. IsFiniteSet(1 .. n) /\ Cardinality(1 .. n) = n
      BY <1>1, FS_Interval
    <2>3. s \in Surjection(1 .. n, S)
      BY <1>1, <2>1, <2>2, FS_Injection
    <2> QED BY <2>3 DEF Surjection
  <1> QED BY <1>1, <1>6, <1>8, <1>9, <1>11 DEF s

-----------------------------------------------------------------------------
(* What is paid.                                                           *)

\* paid[k] is what the proposals in S get from the first k payments of ret.
PaysUp(paid, ret, S) ==
    /\ paid \in [0 .. Len(ret) -> Nat] /\ paid[0] = 0
    /\ \A k \in 1 .. Len(ret) : paid[k] = paid[k - 1] + (IF ret[k] \in S THEN nAmount[ret[k]] ELSE 0)

LEMMA PaidIsSum ==
    ASSUME NEW ret \in Seq(Proposals), NEW S
    PROVE  \E paid : PaysUp(paid, ret, S) /\ Paid(ret, S) = paid[Len(ret)]
  <1> DEFINE L == Len(ret)
             of(k) == IF ret[k] \in S THEN nAmount[ret[k]] ELSE 0
             F == [k \in 1 .. L |-> [m \in Nat |-> m + of(k)]]
             paid[k \in 0 .. Len(ret)] ==
                 IF k = 0 THEN 0 ELSE paid[k - 1] + (IF ret[k] \in S THEN nAmount[ret[k]] ELSE 0)
  <1>1. Paid(ret, S) = paid[Len(ret)]
    BY DEF Paid
  <1>2. L \in Nat /\ \A k \in 1 .. L : of(k) \in Nat
    <2>1. nAmount \in [Proposals -> Nat]
      BY BudgetAssumption
    <2> QED BY <2>1
  <1>3. F \in [1 .. L -> [Nat -> Nat]] /\ \A k \in 1 .. L : \A m \in Nat : F[k][m] = m + of(k)
    BY <1>2
  <1>4. PICK f : f \in [0 .. L -> Nat] /\ f[0] = 0 /\ \A k \in 1 .. L : f[k] = F[k][f[k - 1]]
    <2>1. \E f : Turns(f, L, Nat, 0, F)
      <3> HIDE DEF F, L
      <3> QED BY <1>2, <1>3, Iteration
    <2> QED BY <2>1 DEF Turns
  <1>5. \A k \in 1 .. L : f[k - 1] \in Nat /\ f[k] = f[k - 1] + of(k)
    <2>1. \A k \in 1 .. L : k - 1 \in 0 .. L
      BY <1>2
    <2> QED BY <1>3, <1>4, <2>1
  <1>6. f = [k \in 0 .. L |-> IF k = 0 THEN 0 ELSE f[k - 1] + of(k)]
    <2>1. \A k \in 0 .. L : f[k] = IF k = 0 THEN 0 ELSE f[k - 1] + of(k)
      BY <1>2, <1>4, <1>5
    <2> QED BY <1>4, <2>1
  <1>7. paid = [k \in 0 .. L |-> IF k = 0 THEN 0 ELSE paid[k - 1] + of(k)]
    BY <1>6
  <1> HIDE DEF paid
  <1>8. paid[0] = 0 /\ \A k \in 1 .. L : paid[k] = paid[k - 1] + of(k)
    BY <1>2, <1>7
  <1> DEFINE G == {k \in 0 .. L : paid[k] \in Nat}
  <1>9. 0 .. L \subseteq G
    <2>1. ASSUME NEW k \in 1 .. L, k - 1 \in G PROVE k \in G
      <3>1. paid[k] = paid[k - 1] + of(k) /\ of(k) \in Nat /\ paid[k - 1] \in Nat
        BY <1>2, <1>8, <2>1
      <3> HIDE DEF of
      <3> QED BY <3>1
    <2>2. 0 \in G
      BY <1>2, <1>8
    <2> HIDE DEF G, L
    <2> QED BY <1>2, <2>1, <2>2, EveryTurn
  <1>10. paid \in [0 .. L -> Nat]
    BY <1>7, <1>9
  <1> QED BY <1>1, <1>8, <1>10 DEF PaysUp

LEMMA PaidTyped ==
    ASSUME NEW ret \in Seq(Proposals), NEW S
    PROVE  Paid(ret, S) \in Nat
  <1>1. Len(ret) \in 0 .. Len(ret)
    OBVIOUS
  <1> QED BY <1>1, PaidIsSum DEF PaysUp

\* Only the proposals that are paid matter.
LEMMA PaidSame ==
    ASSUME NEW ret \in Seq(Proposals), NEW S, NEW T,
           \A k \in 1 .. Len(ret) : ret[k] \in S <=> ret[k] \in T
    PROVE  Paid(ret, S) = Paid(ret, T)
  <1>1. PICK s : PaysUp(s, ret, S) /\ Paid(ret, S) = s[Len(ret)]
    BY PaidIsSum
  <1>2. PICK t : PaysUp(t, ret, T) /\ Paid(ret, T) = t[Len(ret)]
    BY PaidIsSum
  <1> DEFINE G == {k \in 0 .. Len(ret) : s[k] = t[k]}
  <1>3. Len(ret) \in Nat
    OBVIOUS
  <1>4. 0 \in G /\ \A k \in 1 .. Len(ret) : k - 1 \in G => k \in G
    <2>1. 0 \in G
      BY <1>1, <1>2, <1>3 DEF PaysUp
    <2>2. ASSUME NEW k \in 1 .. Len(ret), k - 1 \in G PROVE k \in G
      <3>1. k \in 0 .. Len(ret) /\ s[k - 1] = t[k - 1]
        BY <1>3, <2>2
      <3>2. s[k] = s[k - 1] + (IF ret[k] \in S THEN nAmount[ret[k]] ELSE 0)
        BY <1>1 DEF PaysUp
      <3>3. t[k] = t[k - 1] + (IF ret[k] \in T THEN nAmount[ret[k]] ELSE 0)
        BY <1>2 DEF PaysUp
      <3>4. s[k] = t[k]
        BY <3>1, <3>2, <3>3
      <3> QED BY <3>1, <3>4
    <2> QED BY <2>1, <2>2
  <1>5. 0 .. Len(ret) \subseteq G
    <2> HIDE DEF G
    <2> QED BY <1>3, <1>4, EveryTurn
  <1> QED BY <1>1, <1>2, <1>3, <1>5

\* One more payment.
LEMMA PaidMore ==
    ASSUME NEW ret \in Seq(Proposals), NEW p \in Proposals, NEW S
    PROVE  Paid(Append(ret, p), S) = Paid(ret, S) + (IF p \in S THEN nAmount[p] ELSE 0)
  <1> DEFINE more == Append(ret, p)
             L == Len(ret)
  <1>1. /\ more \in Seq(Proposals) /\ L \in Nat /\ Len(more) = L + 1
        /\ more[L + 1] = p /\ \A k \in 1 .. L : more[k] = ret[k]
    OBVIOUS
  <1> HIDE DEF more
  <1>2. PICK s : PaysUp(s, ret, S) /\ Paid(ret, S) = s[L]
    BY PaidIsSum
  <1>3. PICK t : PaysUp(t, more, S) /\ Paid(more, S) = t[L + 1]
    BY <1>1, PaidIsSum
  <1> DEFINE G == {k \in 0 .. L : s[k] = t[k]}
  <1>4. 0 \in G
    BY <1>1, <1>2, <1>3 DEF PaysUp
  <1>5. ASSUME NEW k \in 1 .. L, k - 1 \in G PROVE k \in G
    <2>1. k \in 1 .. Len(more) /\ more[k] = ret[k] /\ s[k - 1] = t[k - 1]
      BY <1>1, <1>5
    <2>2. s[k] = t[k]
      BY <1>2, <1>3, <2>1 DEF PaysUp
    <2> QED BY <2>2
  <1>6. 0 .. L \subseteq G
    <2> HIDE DEF G, L
    <2> QED BY <1>1, <1>4, <1>5, EveryTurn
  <1>7. L \in G
    <2> HIDE DEF G
    <2> QED BY <1>1, <1>6
  <1>8. t[L + 1] = t[L] + (IF p \in S THEN nAmount[p] ELSE 0)
    <2>1. \A k \in 1 .. Len(more) : t[k] = t[k - 1] + (IF more[k] \in S THEN nAmount[more[k]] ELSE 0)
      BY <1>3 DEF PaysUp
    <2>2. L + 1 \in 1 .. Len(more) /\ (L + 1) - 1 = L
      BY <1>1
    <2> HIDE DEF L
    <2> QED BY <1>1, <2>1, <2>2
  <1>9. s[L] = t[L]
    BY <1>7
  <1> QED BY <1>2, <1>3, <1>8, <1>9 DEF more

-----------------------------------------------------------------------------
(* What is allotted.                                                       *)

Accs == [ret : Seq(Proposals), sum : Nat]

\* After i of the proposals s, best first: what is spent is within the budget, and a
\* proposal left out does not fit beside the better ones that are in.
Spent(a, s, i) ==
    /\ a \in Accs /\ a.sum = Paid(a.ret, Proposals) /\ a.sum <= nTotalBudget
    /\ \A k \in 1 .. Len(a.ret) : \E j \in 1 .. i : a.ret[k] = s[j]
    /\ \A j \in 1 .. i : \/ \E k \in 1 .. Len(a.ret) : a.ret[k] = s[j]
                         \/ nAmount[s[j]] + Paid(a.ret, {s[l] : l \in 1 .. j - 1}) > nTotalBudget

LEMMA AllottedTyped ==
    ASSUME NEW a \in Accs, NEW p \in Proposals
    PROVE  Allotted(a, p) \in Accs
  <1>1. nAmount[p] \in Nat
    BY BudgetAssumption
  <1> QED BY <1>1 DEF Allotted, Accs

LEMMA AllottedSpent ==
    ASSUME NEW s \in Seq(Proposals), \A j, k \in 1 .. Len(s) : s[j] = s[k] => j = k,
           NEW i \in 1 .. Len(s), NEW a, Spent(a, s, i - 1)
    PROVE  Spent(Allotted(a, s[i]), s, i)
  <1> DEFINE p == s[i]
             b == Allotted(a, p)
             upto(j) == {s[l] : l \in 1 .. j - 1}
  <1>1. /\ a \in Accs /\ a.ret \in Seq(Proposals) /\ a.sum \in Nat
        /\ a.sum = Paid(a.ret, Proposals) /\ a.sum <= nTotalBudget
        /\ \A k \in 1 .. Len(a.ret) : \E j \in 1 .. i - 1 : a.ret[k] = s[j]
        /\ \A j \in 1 .. i - 1 : \/ \E k \in 1 .. Len(a.ret) : a.ret[k] = s[j]
                                 \/ nAmount[s[j]] + Paid(a.ret, upto(j)) > nTotalBudget
    BY DEF Spent, Accs
  <1>2. p \in Proposals /\ nAmount[p] \in Nat /\ nTotalBudget \in Nat /\ i \in Nat /\ Len(s) \in Nat
    <2>1. nAmount \in [Proposals -> Nat] /\ nTotalBudget \in Nat
      BY BudgetAssumption
    <2>2. p \in Proposals /\ Len(s) \in Nat
      OBVIOUS
    <2> QED BY <2>1, <2>2
  <1>3. b \in Accs
    BY <1>1, <1>2, AllottedTyped
  <1>4. CASE nAmount[p] + a.sum <= nTotalBudget
    <2>1. b.ret = Append(a.ret, p) /\ b.sum = a.sum + nAmount[p]
      BY <1>4 DEF Allotted
    <2> DEFINE L == Len(a.ret)
    <2>2. /\ b.ret \in Seq(Proposals) /\ L \in Nat /\ Len(b.ret) = L + 1
          /\ b.ret[L + 1] = p /\ \A k \in 1 .. L : b.ret[k] = a.ret[k]
      BY <1>1, <1>2, <2>1
    <2>3. b.sum = Paid(b.ret, Proposals) /\ b.sum <= nTotalBudget
      <3>1. Paid(b.ret, Proposals) = Paid(a.ret, Proposals) + nAmount[p]
        BY <1>1, <1>2, <2>1, PaidMore
      <3> QED BY <1>1, <1>2, <1>4, <2>1, <3>1
    <2>4. \A k \in 1 .. Len(b.ret) : \E j \in 1 .. i : b.ret[k] = s[j]
      <3> SUFFICES ASSUME NEW k \in 1 .. L + 1 PROVE \E j \in 1 .. i : b.ret[k] = s[j]
        BY <2>2
      <3>1. CASE k = L + 1
        BY <3>1, <1>2, <2>2
      <3>2. CASE k \in 1 .. L
        <4>1. PICK j \in 1 .. i - 1 : a.ret[k] = s[j]
          BY <1>1, <3>2
        <4> QED BY <1>2, <2>2, <3>2, <4>1
      <3> QED BY <2>2, <3>1, <3>2
    <2>5. ASSUME NEW j \in 1 .. i
          PROVE  \/ \E k \in 1 .. Len(b.ret) : b.ret[k] = s[j]
                 \/ nAmount[s[j]] + Paid(b.ret, upto(j)) > nTotalBudget
      <3>1. CASE j = i
        <4>1. L + 1 \in 1 .. Len(b.ret) /\ b.ret[L + 1] = s[j]
          BY <2>2, <3>1
        <4> QED BY <4>1
      <3>2. CASE j \in 1 .. i - 1
        <4>1. CASE \E k \in 1 .. L : a.ret[k] = s[j]
          <5>1. PICK k \in 1 .. L : a.ret[k] = s[j]
            BY <4>1
          <5>2. k \in 1 .. Len(b.ret) /\ b.ret[k] = s[j]
            BY SMTT(30), <2>2, <5>1
          <5> QED BY <5>2
        <4>2. CASE nAmount[s[j]] + Paid(a.ret, upto(j)) > nTotalBudget
          <5>1. p \notin upto(j)
            <6>1. \A l \in 1 .. j - 1 : l \in 1 .. Len(s) /\ l /= i
              BY <1>2, <3>2
            <6> QED BY <1>2, <6>1
          <5>2. Paid(a.ret, upto(j)) \in Nat
            BY <1>1, PaidTyped
          <5>3. Paid(b.ret, upto(j)) = Paid(a.ret, upto(j))
            <6> HIDE DEF upto, p, b
            <6>1. Paid(Append(a.ret, p), upto(j)) = Paid(a.ret, upto(j)) + (IF p \in upto(j) THEN nAmount[p] ELSE 0)
              BY <1>1, <1>2, PaidMore
            <6> QED BY <2>1, <5>1, <5>2, <6>1
          <5> QED BY <4>2, <5>3
        <4> QED BY <1>1, <3>2, <4>1, <4>2
      <3> QED BY <1>2, <3>1, <3>2
    <2> QED BY <1>3, <2>3, <2>4, <2>5 DEF Spent
  <1>5. CASE ~(nAmount[p] + a.sum <= nTotalBudget)
    <2>1. b = a
      BY <1>5 DEF Allotted
    <2>2. nAmount[p] + Paid(a.ret, upto(i)) > nTotalBudget
      <3>1. \A k \in 1 .. Len(a.ret) : a.ret[k] \in upto(i) /\ a.ret[k] \in Proposals
        BY <1>1
      <3>2. Paid(a.ret, upto(i)) = Paid(a.ret, Proposals)
        <4> HIDE DEF upto
        <4> QED BY <1>1, <3>1, PaidSame
      <3> QED BY <1>1, <1>2, <1>5, <3>2
    <2>3. \A j \in 1 .. i : \/ \E k \in 1 .. Len(a.ret) : a.ret[k] = s[j]
                            \/ nAmount[s[j]] + Paid(a.ret, upto(j)) > nTotalBudget
      <3> SUFFICES ASSUME NEW j \in 1 .. i
                   PROVE  \/ \E k \in 1 .. Len(a.ret) : a.ret[k] = s[j]
                          \/ nAmount[s[j]] + Paid(a.ret, upto(j)) > nTotalBudget
        OBVIOUS
      <3>1. CASE j = i
        BY <2>2, <3>1
      <3>2. CASE j \in 1 .. i - 1
        BY <1>1, <3>2
      <3> QED BY <1>2, <3>1, <3>2
    <2>4. \A k \in 1 .. Len(a.ret) : \E j \in 1 .. i : a.ret[k] = s[j]
      BY SMTT(30), <1>1, <1>2
    <2> HIDE DEF b
    <2>5. Spent(b, s, i)
      BY <1>1, <2>1, <2>3, <2>4 DEF Spent
    <2> QED BY <2>5 DEF b
  <1> QED BY <1>4, <1>5

\* The proposals that compete for the budget at height h.
Competing(m, h) == {p \in Proposals : m.known[p] /= None /\ Eligible(m, p, h)}

LEMMA BudgetSpent ==
    ASSUME NEW m, NEW h
    PROVE  \E a : GetBudget(m, h) = a.ret /\ Spent(a, Sorted(m, Competing(m, h)), Len(Sorted(m, Competing(m, h))))
  <1> DEFINE s == Sorted(m, Competing(m, h))
             L == Len(s)
             a0 == [ret |-> <<>>, sum |-> 0]
             F == [k \in 1 .. L |-> [a \in Accs |-> Allotted(a, s[k])]]
             allotted[k \in 0 .. Len(s)] ==
                 IF k = 0 THEN [ret |-> <<>>, sum |-> 0] ELSE Allotted(allotted[k - 1], s[k])
  <1>1. GetBudget(m, h) = allotted[L].ret
    BY DEF GetBudget, Competing
  <1>2. /\ Competing(m, h) \in SUBSET Proposals /\ s \in Seq(Proposals) /\ L \in Nat
        /\ \A k \in 1 .. L : s[k] \in Proposals
        /\ \A j, k \in 1 .. L : s[j] = s[k] => j = k
    <2>1. Competing(m, h) \in SUBSET Proposals
      BY DEF Competing
    <2>2. s \in Seq(Competing(m, h)) /\ L \in Nat
      BY <2>1, SortedProposals
    <2>3. s \in Seq(Proposals)
      <3> HIDE DEF s
      <3> QED BY <2>1, <2>2
    <2>4. \A k \in 1 .. L : s[k] \in Proposals
      <3> HIDE DEF s
      <3> QED BY <2>3
    <2>5. \A j, k \in 1 .. L : Before(m, s[j], s[k]) <=> j < k
      BY <2>1, SortedProposals
    <2>6. \A j, k \in 1 .. L : s[j] = s[k] => j = k
      <3> SUFFICES ASSUME NEW j \in 1 .. L, NEW k \in 1 .. L, s[j] = s[k] PROVE j = k
        OBVIOUS
      <3>1. (j < k <=> k < k) /\ (k < j <=> j < j)
        <4> HIDE DEF s
        <4>1. Before(m, s[j], s[k]) <=> Before(m, s[k], s[k])
          OBVIOUS
        <4>2. Before(m, s[k], s[j]) <=> Before(m, s[j], s[j])
          OBVIOUS
        <4> QED BY <2>5, <4>1, <4>2
      <3> QED BY <2>2, <3>1
    <2> QED BY <2>1, <2>2, <2>3, <2>4, <2>6
  <1> HIDE DEF s
  <1>3. a0 \in Accs
    BY DEF Accs
  <1>4. F \in [1 .. L -> [Accs -> Accs]] /\ \A k \in 1 .. L : \A a \in Accs : F[k][a] = Allotted(a, s[k])
    BY <1>2, AllottedTyped
  <1>5. PICK f : f \in [0 .. L -> Accs] /\ f[0] = a0 /\ \A k \in 1 .. L : f[k] = F[k][f[k - 1]]
    <2>1. \E f : Turns(f, L, Accs, a0, F)
      <3> HIDE DEF F, L, a0
      <3> QED BY <1>2, <1>3, <1>4, Iteration
    <2> QED BY <2>1 DEF Turns
  <1>6. \A k \in 1 .. L : f[k] = Allotted(f[k - 1], s[k])
    <2>1. \A k \in 1 .. L : f[k - 1] \in Accs
      BY <1>2, <1>5
    <2> HIDE DEF F
    <2> QED BY <1>4, <1>5, <2>1
  <1>7. f = [k \in 0 .. L |-> IF k = 0 THEN a0 ELSE Allotted(f[k - 1], s[k])]
    <2>1. \A k \in 0 .. L : f[k] = IF k = 0 THEN a0 ELSE Allotted(f[k - 1], s[k])
      BY <1>2, <1>5, <1>6
    <2> HIDE DEF a0, F
    <2> QED BY <1>5, <2>1
  <1>8. allotted = [k \in 0 .. L |-> IF k = 0 THEN a0 ELSE Allotted(allotted[k - 1], s[k])]
    BY <1>7
  <1> HIDE DEF allotted
  <1>9. allotted[0] = a0 /\ \A k \in 1 .. L : allotted[k] = Allotted(allotted[k - 1], s[k])
    BY <1>2, <1>8
  <1> DEFINE G == {k \in 0 .. L : Spent(allotted[k], s, k)}
  <1>10. 0 \in G
    <2>1. Spent(a0, s, 0)
      <3>1. a0.ret = <<>> /\ a0.sum = 0 /\ a0.ret \in Seq(Proposals) /\ Len(a0.ret) = 0
        OBVIOUS
      <3>2. Paid(a0.ret, Proposals) = 0
        <4>1. PICK paid : PaysUp(paid, a0.ret, Proposals) /\ Paid(a0.ret, Proposals) = paid[0]
          BY <3>1, PaidIsSum
        <4> QED BY <4>1 DEF PaysUp
      <3>3. nTotalBudget \in Nat
        BY BudgetAssumption
      <3> QED BY <1>3, <3>1, <3>2, <3>3 DEF Spent
    <2> QED BY <1>2, <1>9, <2>1
  <1>11. ASSUME NEW k \in 1 .. L, k - 1 \in G PROVE k \in G
    <2>1. Spent(allotted[k - 1], s, k - 1)
      BY <1>11
    <2>2. Spent(Allotted(allotted[k - 1], s[k]), s, k)
      BY <1>2, <2>1, AllottedSpent
    <2> QED BY <1>9, <2>2
  <1>12. L \in G
    <2>1. 0 .. L \subseteq G
      <3> HIDE DEF G, L
      <3> QED BY <1>2, <1>10, <1>11, EveryTurn
    <2> HIDE DEF G
    <2> QED BY <1>2, <2>1
  <1> QED BY <1>1, <1>12 DEF s

\* GetBudget, with all votes cleaned, spends no more than the budget, and leaves out a
\* proposal with enough votes only if those before it leave too little, for any proposals,
\* amounts and votes.
THEOREM BudgetIsSpentBest == Spec => []BudgetSpendsBest
  <1>1. Inv => BudgetSpendsBest
    <2> SUFFICES ASSUME Inv PROVE BudgetSpendsBest
      OBVIOUS
    <2> DEFINE n   == Cleaned(M)
               ret == GetBudget(n, height)
               in  == {ret[k] : k \in DOMAIN ret}
               s   == Sorted(n, Competing(n, height))
               L   == Len(s)
    <2>1. PICK a : ret = a.ret /\ Spent(a, s, L)
      BY BudgetSpent
    <2>2. /\ Competing(n, height) \in SUBSET Proposals /\ L \in Nat
          /\ \A p \in Competing(n, height) : \E k \in 1 .. L : s[k] = p
          /\ \A j, k \in 1 .. L : Before(n, s[j], s[k]) <=> j < k
      <3>1. Competing(n, height) \in SUBSET Proposals
        BY DEF Competing
      <3> QED BY <3>1, SortedProposals
    <2>3. \A p \in Proposals : known[p] /= None => n.known[p] /= None
      <3> SUFFICES ASSUME NEW p \in Proposals, known[p] /= None PROVE n.known[p] /= None
        OBVIOUS
      <3>1. height \in 0 .. MaxHeight /\ Sound(M, height) /\ p \in Items
        BY InvSound, Numbers DEF Items
      <3>2. Follows(M.known[p], n.known[p], height)
        BY <3>1, CleanedManager DEF Grows
      <3>3. M.known[p] /= None
        BY DEF M
      <3> HIDE DEF n
      <3> QED BY <3>1, <3>2, <3>3, NotNone DEF Follows
    <2> HIDE DEF n, s
    <2>4. /\ ret \in Seq(Proposals) /\ DOMAIN ret = 1 .. Len(ret) /\ \A k \in 1 .. Len(ret) : ret[k] \in Proposals
      BY <2>1 DEF Spent, Accs
    <2>5. Paid(ret, in) <= nTotalBudget
      <3>1. Paid(ret, in) = Paid(ret, Proposals)
        <4>1. \A k \in 1 .. Len(ret) : ret[k] \in in <=> ret[k] \in Proposals
          BY <2>4
        <4> HIDE DEF in, ret
        <4> QED BY <2>4, <4>1, PaidSame
      <3> QED BY <2>1, <3>1 DEF Spent
    <2>6. ASSUME NEW p \in Proposals \ in, known[p] /= None, Eligible(n, p, height)
          PROVE  nAmount[p] + Paid(ret, {q \in in : Before(n, q, p)}) > nTotalBudget
      <3>1. PICK j \in 1 .. L : s[j] = p
        <4>1. p \in Competing(n, height)
          BY <2>3, <2>6 DEF Competing
        <4> QED BY <2>2, <4>1
      <3> DEFINE better == {q \in in : Before(n, q, p)}
                 upto   == {s[l] : l \in 1 .. j - 1}
      <3>2. ~ \E k \in 1 .. Len(ret) : ret[k] = p
        BY <2>4
      <3>3. nAmount[p] + Paid(ret, upto) > nTotalBudget
        <4> HIDE DEF ret, L
        <4> QED BY <2>1, <3>1, <3>2 DEF Spent
      <3>4. ASSUME NEW k \in 1 .. Len(ret) PROVE ret[k] \in better <=> ret[k] \in upto
        <4>1. PICK i \in 1 .. L : ret[k] = s[i]
          BY <2>1 DEF Spent
        <4>2. Before(n, ret[k], p) <=> i < j
          BY <2>2, <3>1, <4>1
        <4>3. ret[k] \in in
          BY <2>4
        <4>4. ret[k] \in upto => i < j
          <5> SUFFICES ASSUME NEW l \in 1 .. j - 1, ret[k] = s[l] PROVE i < j
            OBVIOUS
          <5>1. l \in 1 .. L /\ l < j
            BY <2>2
          <5>2. Before(n, s[l], s[j])
            BY <2>2, <5>1
          <5> QED BY <3>1, <4>1, <4>2, <5>2
        <4>5. i < j => ret[k] \in upto
          BY <2>2, <4>1
        <4> HIDE DEF in, ret, upto
        <4> QED BY <4>2, <4>3, <4>4, <4>5
      <3>5. Paid(ret, better) = Paid(ret, upto)
        <4> HIDE DEF better, upto, ret
        <4> QED BY <2>4, <3>4, PaidSame
      <3> QED BY <3>3, <3>5
    <2> HIDE DEF ret
    <2> QED BY <2>5, <2>6 DEF BudgetSpendsBest, n, ret
  <1> QED BY <1>1, Invariance, PTL
=============================================================================
