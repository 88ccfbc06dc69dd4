---------------------- MODULE MasternodePayments_proofs ----------------------
(***************************************************************************)
(* Proofs for MasternodePayments, for any masternodes, payees, ranks and   *)
(* bounds.                                                                 *)
(*                                                                         *)
(* A vote is checked, recorded and counted in three steps with nothing to  *)
(* hold the chain in place between them.  A tally agrees with the recorded *)
(* votes nevertheless while its height is recent: the vote between the     *)
(* last two steps is recorded still, because CleanPaymentList spares votes *)
(* for recent heights, and no other caller carries the same vote past the  *)
(* first step, because it was recorded under the locks.                    *)
(***************************************************************************)
EXTENDS MasternodePayments, TLAPS, FiniteSetTheorems, SequenceTheorems,
        WellFoundedInduction

\* A recent vote between the halves of AddWinningMasternode is recorded.
AddingRecorded ==
    \A c \in Callers :
        Recorded(c) /\ Recent(adding[c].vote.h) => adding[c].vote \in mapMasternodePayeeVotes

\* Two callers never carry the same recent vote between the halves.
AddingDistinct ==
    \A c, d \in Callers :
        Recorded(c) /\ Recorded(d) /\ c /= d /\ Recent(adding[c].vote.h)
            => adding[c].vote /= adding[d].vote

\* What mnpayments.dat holds is as consistent as what is in memory.
FileConsistent ==
    file /= None => PayeesDistinct(file.tallies) /\ Agrees(file.votes, file.tallies)

Inv ==
    /\ TalliesConsistent
    /\ AddingRecorded
    /\ AddingDistinct
    /\ FileConsistent

-----------------------------------------------------------------------------
(* Tallies.                                                                *)

Votes == [payee : Payees \cup {NoPayee}, nVotes : Nat \ {0}]

\* A tally lists each payee once.
Distinct(vec) == \A i, j \in DOMAIN vec : vec[i].payee = vec[j].payee => i = j

LEMMA TallyTyped ==
    ASSUME NEW vec \in Tallies
    PROVE  /\ Len(vec) \in Nat /\ DOMAIN vec = 1 .. Len(vec)
           /\ \A i \in DOMAIN vec : /\ vec[i] \in Votes
                                    /\ vec[i].payee \in Payees \cup {NoPayee}
                                    /\ vec[i].nVotes \in Nat \ {0}
           /\ vec /= None
<1>1. vec \in Seq(Votes)
  BY DEF Tallies, Votes
<1>2. Len(vec) \in Nat /\ DOMAIN vec = 1 .. Len(vec) /\ \A i \in DOMAIN vec : vec[i] \in Votes
  BY <1>1, LenProperties
<1>3. vec /= None
  BY NoneAssumption
<1> QED
  BY <1>2, <1>3 DEF Votes

\* In a tally that lists payees once, the entry of a payee is its count.
LEMMA EntryIsCount ==
    ASSUME NEW vec \in Tallies, Distinct(vec), NEW i \in DOMAIN vec
    PROVE  VotesIn(vec, vec[i].payee) = vec[i].nVotes
<1> DEFINE p == vec[i].payee
           k == CHOOSE j \in DOMAIN vec : vec[j].payee = p
<1>1. k \in DOMAIN vec /\ vec[k].payee = p
  OBVIOUS
<1>2. k = i
  BY <1>1 DEF Distinct
<1> QED
  BY <1>1, <1>2, TallyTyped DEF VotesIn

LEMMA AbsentIsZero ==
    ASSUME NEW vec, NEW p, \A i \in DOMAIN vec : vec[i].payee /= p
    PROVE  VotesIn(vec, p) = 0
BY DEF VotesIn

LEMMA NoTallyNoVotes ==
    /\ <<>> \in Tallies
    /\ Distinct(<<>>)
    /\ \A p : VotesIn(<<>>, p) = 0 /\ VotesIn(None, p) = 0
<1>1. <<>> \in Tallies
  BY EmptySeq DEF Tallies
<1>2. DOMAIN <<>> = {}
  OBVIOUS
<1> QED
  BY <1>1, <1>2 DEF Distinct, VotesIn

\* Where AddPayee puts the vote: into the payee's entry, or a new one.
LEMMA AddPayeeFound ==
    ASSUME NEW vec \in Tallies, NEW p \in Payees \cup {NoPayee},
           NEW i \in DOMAIN vec, vec[i].payee = p
    PROVE  /\ AddPayee(vec, p) \in Tallies
           /\ DOMAIN AddPayee(vec, p) = DOMAIN vec
           /\ \A j \in DOMAIN vec :
                 /\ AddPayee(vec, p)[j].payee = vec[j].payee
                 /\ AddPayee(vec, p)[j].nVotes =
                       IF vec[j].payee = p THEN vec[j].nVotes + 1 ELSE vec[j].nVotes
<1> DEFINE new == [j \in DOMAIN vec |->
                     IF vec[j].payee = p THEN [vec[j] EXCEPT !.nVotes = @ + 1] ELSE vec[j]]
<1>1. AddPayee(vec, p) = new
  BY DEF AddPayee
<1>2. Len(vec) \in Nat /\ DOMAIN vec = 1 .. Len(vec)
  BY TallyTyped
<1>3. ASSUME NEW j \in DOMAIN vec
      PROVE  /\ new[j] \in Votes
             /\ new[j].payee = vec[j].payee
             /\ new[j].nVotes = IF vec[j].payee = p THEN vec[j].nVotes + 1 ELSE vec[j].nVotes
  <2>1. vec[j] \in Votes /\ vec[j].nVotes \in Nat
    BY TallyTyped
  <2> QED
    BY <2>1 DEF Votes
<1>4. new \in [1 .. Len(vec) -> Votes]
  BY <1>2, <1>3
<1>5. new \in Seq(Votes)
  BY <1>2, <1>4, SeqDef
<1>6. DOMAIN new = DOMAIN vec
  OBVIOUS
<1> HIDE DEF new
<1> QED
  BY <1>1, <1>3, <1>5, <1>6 DEF Tallies, Votes

LEMMA AddPayeeNew ==
    ASSUME NEW vec \in Tallies, NEW p \in Payees \cup {NoPayee},
           \A i \in DOMAIN vec : vec[i].payee /= p
    PROVE  /\ AddPayee(vec, p) \in Tallies
           /\ DOMAIN AddPayee(vec, p) = DOMAIN vec \cup {Len(vec) + 1}
           /\ Len(vec) + 1 \notin DOMAIN vec
           /\ AddPayee(vec, p)[Len(vec) + 1] = [payee |-> p, nVotes |-> 1]
           /\ \A i \in DOMAIN vec : AddPayee(vec, p)[i] = vec[i]
<1> DEFINE e == [payee |-> p, nVotes |-> 1]
<1>1. AddPayee(vec, p) = Append(vec, e)
  BY DEF AddPayee
<1>2. e \in Votes
  BY DEF Votes
<1>3. vec \in Seq(Votes)
  BY DEF Tallies, Votes
<1> HIDE DEF e
<1>4. Append(vec, e) \in Seq(Votes) /\ Len(vec) \in Nat
  BY <1>2, <1>3, AppendProperties, LenProperties
<1>5. /\ DOMAIN Append(vec, e) = DOMAIN vec \cup {Len(vec) + 1}
      /\ Len(vec) + 1 \notin DOMAIN vec
      /\ Append(vec, e)[Len(vec) + 1] = e
      /\ \A i \in DOMAIN vec : Append(vec, e)[i] = vec[i]
  BY <1>2, <1>3, AppendProperties, LenProperties
<1> QED
  BY <1>1, <1>4, <1>5 DEF Tallies, Votes, e

\* AddPayee keeps the payees distinct and adds one vote to the right one.
LEMMA AddPayeeCounts ==
    ASSUME NEW vec \in Tallies, Distinct(vec), NEW p \in Payees \cup {NoPayee}
    PROVE  /\ AddPayee(vec, p) \in Tallies
           /\ Distinct(AddPayee(vec, p))
           /\ VotesIn(AddPayee(vec, p), p) = VotesIn(vec, p) + 1
           /\ \A q : q /= p => VotesIn(AddPayee(vec, p), q) = VotesIn(vec, q)
<1> DEFINE new == AddPayee(vec, p)
<1>1. CASE \E i \in DOMAIN vec : vec[i].payee = p
  <2>1. PICK i \in DOMAIN vec : vec[i].payee = p
    BY <1>1
  <2>2. /\ new \in Tallies
        /\ DOMAIN new = DOMAIN vec
        /\ \A j \in DOMAIN vec :
              /\ new[j].payee = vec[j].payee
              /\ new[j].nVotes = IF vec[j].payee = p THEN vec[j].nVotes + 1 ELSE vec[j].nVotes
    BY <2>1, AddPayeeFound
  <2> HIDE DEF new
  <2>3. Distinct(new)
    BY <2>2 DEF Distinct
  <2>4. VotesIn(new, p) = VotesIn(vec, p) + 1
    <3>1. VotesIn(new, p) = new[i].nVotes
      BY <2>1, <2>2, <2>3, EntryIsCount
    <3>2. VotesIn(vec, p) = vec[i].nVotes
      BY <2>1, EntryIsCount
    <3> QED
      BY <3>1, <3>2, <2>1, <2>2
  <2>5. ASSUME NEW q, q /= p
        PROVE  VotesIn(new, q) = VotesIn(vec, q)
    <3>1. CASE \E j \in DOMAIN vec : vec[j].payee = q
      <4>1. PICK j \in DOMAIN vec : vec[j].payee = q
        BY <3>1
      <4>2. VotesIn(new, q) = new[j].nVotes
        BY <4>1, <2>2, <2>3, EntryIsCount
      <4>3. VotesIn(vec, q) = vec[j].nVotes
        BY <4>1, EntryIsCount
      <4> QED
        BY <4>1, <4>2, <4>3, <2>2, <2>5
    <3>2. CASE \A j \in DOMAIN vec : vec[j].payee /= q
      BY <3>2, <2>2, AbsentIsZero
    <3> QED
      BY <3>1, <3>2
  <2> QED
    BY <2>2, <2>3, <2>4, <2>5 DEF new
<1>2. CASE \A i \in DOMAIN vec : vec[i].payee /= p
  <2> DEFINE n == Len(vec) + 1
  <2>1. /\ new \in Tallies
        /\ DOMAIN new = DOMAIN vec \cup {n}
        /\ n \notin DOMAIN vec
        /\ new[n] = [payee |-> p, nVotes |-> 1]
        /\ \A i \in DOMAIN vec : new[i] = vec[i]
    BY <1>2, AddPayeeNew
  <2> HIDE DEF new, n
  <2>2. Distinct(new)
    BY <2>1, <1>2 DEF Distinct
  <2>3. VotesIn(new, p) = 1 /\ VotesIn(vec, p) = 0
    BY <2>1, <2>2, <1>2, EntryIsCount, AbsentIsZero
  <2>4. ASSUME NEW q, q /= p
        PROVE  VotesIn(new, q) = VotesIn(vec, q)
    <3>1. CASE \E j \in DOMAIN vec : vec[j].payee = q
      <4>1. PICK j \in DOMAIN vec : vec[j].payee = q
        BY <3>1
      <4>2. VotesIn(new, q) = new[j].nVotes
        BY <4>1, <2>1, <2>2, EntryIsCount
      <4>3. VotesIn(vec, q) = vec[j].nVotes
        BY <4>1, EntryIsCount
      <4> QED
        BY <4>2, <4>3, <2>1
    <3>2. CASE \A j \in DOMAIN vec : vec[j].payee /= q
      BY <3>2, <2>1, <2>4, AbsentIsZero
    <3> QED
      BY <3>1, <3>2
  <2> QED
    BY <2>1, <2>2, <2>3, <2>4 DEF new
<1> QED
  BY <1>1, <1>2
-----------------------------------------------------------------------------
(* The payee of a template.                                                *)

\* GetPayee's search finds an entry: among the sets of entries that beat a
\* given one, a minimal set is empty.
LEMMA WinnerExists ==
    ASSUME NEW vec \in Tallies, vec /= <<>>
    PROVE  \E i \in DOMAIN vec :
              /\ \A j \in DOMAIN vec : vec[j].nVotes <= vec[i].nVotes
              /\ \A j \in 1 .. i - 1 : vec[j].nVotes < vec[i].nVotes
<1> DEFINE S == 1 .. Len(vec)
           Beats(j, i) == vec[j].nVotes > vec[i].nVotes
                             \/ (vec[j].nVotes = vec[i].nVotes /\ j < i)
           Above(i) == {j \in S : Beats(j, i)}
           T == {Above(i) : i \in S}
<1>1. /\ Len(vec) \in Nat \ {0}
      /\ DOMAIN vec = S
      /\ \A i \in S : i \in Nat /\ vec[i].nVotes \in Nat
  <2>1. Len(vec) /= 0
    BY EmptySeq DEF Tallies
  <2> QED
    BY <2>1, TallyTyped
<1>2. IsFiniteSet(S)
  BY <1>1, FS_Interval
<1>3. T \subseteq FiniteSubsetsOf(S) /\ T /= {}
  <2>1. \A i \in S : Above(i) \in SUBSET S
    OBVIOUS
  <2>2. \A i \in S : IsFiniteSet(Above(i))
    BY <1>2, <2>1, FS_Subset
  <2>3. 1 \in S
    BY <1>1
  <2>4. \A i \in S : Above(i) \in FiniteSubsetsOf(S)
    BY <2>1, <2>2 DEF FiniteSubsetsOf
  <2> HIDE DEF S, Above
  <2> QED
    BY <2>3, <2>4
<1>4. PICK A \in T : \A B \in T : ~ (<<B, A>> \in StrictSubsetOrdering(S))
  <2> HIDE DEF T, S
  <2> QED
    BY <1>3, FS_StrictSubsetOrderingWellFounded, WFMin
<1>5. PICK i \in S : A = Above(i)
  OBVIOUS
<1>6. Above(i) = {}
  <2> SUFFICES ASSUME NEW k \in Above(i)
               PROVE  FALSE
    OBVIOUS
  <2>1. k \in S /\ Beats(k, i)
    OBVIOUS
  <2>2. Above(k) \subseteq Above(i)
    <3> SUFFICES ASSUME NEW j \in S, Beats(j, k)
                 PROVE  Beats(j, i)
      OBVIOUS
    <3> QED
      BY <1>1, <2>1
  <2>3. k \notin Above(k)
    BY <1>1, <2>1
  <2>4. Above(k) \in T /\ Above(k) /= Above(i)
    BY <2>1, <2>3
  <2>5. <<Above(k), Above(i)>> \in StrictSubsetOrdering(S)
    BY <2>2, <2>4 DEF StrictSubsetOrdering
  <2> QED
    BY <1>4, <1>5, <2>4, <2>5
<1>7. \A j \in S : ~ Beats(j, i)
  BY <1>6
<1>8. \A j \in S : vec[j].nVotes <= vec[i].nVotes
  BY <1>1, <1>7
<1>9. ASSUME NEW j \in 1 .. i - 1
      PROVE  vec[j].nVotes < vec[i].nVotes
  <2>1. j \in S /\ j < i
    BY <1>1
  <2> QED
    BY <1>1, <1>7, <2>1
<1> QED
  BY <1>1, <1>8, <1>9

\* A block that pays the winner is valid: if some payee is enforced, then
\* the winner has enough votes too.
LEMMA WinnerIsValid ==
    ASSUME NEW vec \in Tallies, vec /= <<>>
    PROVE  IsTransactionValid(vec, {GetPayee(vec)})
<1> DEFINE Best(i) == /\ \A j \in DOMAIN vec : vec[j].nVotes <= vec[i].nVotes
                      /\ \A j \in 1 .. i - 1 : vec[j].nVotes < vec[i].nVotes
           w == CHOOSE i \in DOMAIN vec : Best(i)
<1>1. \E i \in DOMAIN vec : Best(i)
  BY WinnerExists
<1>2. w \in DOMAIN vec /\ Best(w)
  BY <1>1
<1>3. GetPayee(vec) = vec[w].payee
  BY DEF GetPayee
<1> HIDE DEF w
<1>4. ASSUME NEW i \in DOMAIN vec, vec[i].nVotes >= SIGNATURES_REQUIRED
      PROVE  vec[w].nVotes >= SIGNATURES_REQUIRED
  <2>1. vec[i].nVotes \in Nat /\ vec[w].nVotes \in Nat /\ SIGNATURES_REQUIRED \in Nat
    BY <1>2, TallyTyped, PaymentsAssumption
  <2>2. vec[i].nVotes <= vec[w].nVotes
    BY <1>2
  <2> QED
    BY <1>4, <2>1, <2>2
<1> QED
  BY <1>2, <1>3, <1>4 DEF IsTransactionValid

-----------------------------------------------------------------------------
(* Counting votes.                                                         *)

LEMMA ConstantsTyped ==
    /\ Windows \subseteq Nat /\ Limits \subseteq Nat /\ Ahead \in Nat /\ VoteAhead \in Nat
    /\ MaxHeight \in Nat \ {0} /\ MaxStarts \in Nat
    /\ VoteAhead <= Ahead
    /\ Heights \subseteq Nat /\ 0 \in Heights
    /\ \A h \in Heights : h \in Nat
BY PaymentsAssumption DEF Heights

LEMMA WinnerFields ==
    ASSUME NEW v \in Winners
    PROVE  /\ v.mn \in Masternodes /\ v.h \in Heights /\ v.payee \in Payees \cup {NoPayee}
           /\ v = [mn |-> v.mn, h |-> v.h, payee |-> v.payee]
BY DEF Winners

\* Votes for a payee inject into the masternodes that cast them.
LEMMA VotersInjection ==
    ASSUME NEW V \in SUBSET Winners, NEW W \in SUBSET V, NEW h, NEW p
    PROVE  LET voters == {mn \in Masternodes : [mn |-> mn, h |-> h, payee |-> p] \in V}
           IN  /\ IsFiniteSet(voters)
               /\ IsFiniteSet(VotesFor(W, h, p))
               /\ Cardinality(VotesFor(W, h, p)) <= Cardinality(voters)
<1> DEFINE voters == {mn \in Masternodes : [mn |-> mn, h |-> h, payee |-> p] \in V}
           S == VotesFor(W, h, p)
           f == [v \in S |-> v.mn]
<1>1. IsFiniteSet(voters)
  BY PaymentsAssumption, FS_Subset
<1>2. \A v \in S : v \in V /\ v \in Winners /\ v.h = h /\ v.payee = p
  BY DEF VotesFor
<1> HIDE DEF S
<1>3. \A v \in S : v = [mn |-> v.mn, h |-> h, payee |-> p] /\ v.mn \in Masternodes
  BY <1>2, WinnerFields
<1>4. \A v \in S : v.mn \in voters
  BY <1>2, <1>3
<1>5. f \in Injection(S, voters)
  <2>1. f \in [S -> voters]
    BY <1>4
  <2>2. \A v, w \in S : f[v] = f[w] => v = w
    BY <1>3
  <2> QED
    BY <2>1, <2>2 DEF Injection, IsInjective
<1> HIDE DEF voters, f
<1>6. IsFiniteSet(S) /\ Cardinality(S) <= Cardinality(voters)
  BY <1>1, <1>5, FS_Injection
<1> QED
  BY <1>1, <1>6 DEF voters, S

LEMMA VotesFinite ==
    ASSUME NEW V \in SUBSET Winners, NEW h, NEW p
    PROVE  IsFiniteSet(VotesFor(V, h, p)) /\ Cardinality(VotesFor(V, h, p)) \in Nat
<1>1. IsFiniteSet(VotesFor(V, h, p))
  BY VotersInjection
<1> QED
  BY <1>1, FS_CardinalityType

LEMMA AddingTyped ==
    ASSUME TypeOK, NEW c \in Callers, adding[c] /= None
    PROVE  /\ adding[c] \in Additions
           /\ adding[c].vote \in Winners
           /\ adding[c].vote.h \in Heights
           /\ adding[c].vote.payee \in Payees \cup {NoPayee}
           /\ adding[c].last \in Heights \cup {None}
           /\ adding[c].recorded \in BOOLEAN
<1>1. adding[c] \in Additions
  BY DEF TypeOK
<1>2. adding[c].vote \in Winners
  BY <1>1 DEF Additions
<1> QED
  BY <1>1, <1>2, WinnerFields DEF Additions

\* Cleaning, wherever the votes come from: a height keeps its votes and its
\* tally or loses both, and a recent height keeps them.
LEMMA CleanKeepsAgreement ==
    ASSUME NEW V \in SUBSET Winners, NEW W \in SUBSET V,
           NEW T \in [Heights -> Tallies \cup {None}],
           PayeesDistinct(T), Agrees(W, T),
           NEW tip \in Nat, NEW limit \in Nat,
           NEW old, old = {} \/ old = OldVotes(V, tip, limit)
    PROVE  /\ TalliesAfter(T, old) \in [Heights -> Tallies \cup {None}]
           /\ PayeesDistinct(TalliesAfter(T, old))
           /\ Agrees(W \ old, TalliesAfter(T, old))
<1> DEFINE new == TalliesAfter(T, old)
<1>1. \A h \in Heights : \/ /\ \E v \in old : v.h = h
                            /\ new[h] = None
                         \/ /\ \A v \in old : v.h /= h
                            /\ new[h] = T[h]
  BY DEF TalliesAfter
<1>2. new \in [Heights -> Tallies \cup {None}]
  BY DEF TalliesAfter
<1> HIDE DEF new
<1>3. PayeesDistinct(new)
  BY <1>1 DEF PayeesDistinct
<1>4. ASSUME NEW h \in Heights, NEW p \in Payees \cup {NoPayee}
      PROVE  /\ VotesIn(new[h], p) >= Cardinality(VotesFor(W \ old, h, p))
             /\ Recent(h) => VotesIn(new[h], p) = Cardinality(VotesFor(W \ old, h, p))
  <2>1. CASE \E v \in old : v.h = h
    <3>1. PICK u \in old : u.h = h
      BY <2>1
    <3>2. \A v \in V : v.h = h => v \in old
      BY <3>1 DEF OldVotes
    <3>3. VotesFor(W \ old, h, p) = {}
      BY <3>2 DEF VotesFor
    <3>4. VotesIn(new[h], p) = 0
      BY <1>1, <2>1, NoTallyNoVotes
    <3> QED
      BY <3>3, <3>4, FS_EmptySet
  <2>2. CASE \A v \in old : v.h /= h
    <3>1. new[h] = T[h]
      BY <1>1, <2>2
    <3>2. VotesFor(W \ old, h, p) = VotesFor(W, h, p)
      BY <2>2 DEF VotesFor
    <3> QED
      BY <3>1, <3>2 DEF Agrees
  <2> QED
    BY <2>1, <2>2
<1> QED
  BY <1>2, <1>3, <1>4 DEF new, Agrees

\* What is too old at the present tip is not recent.
LEMMA RecentSpared ==
    ASSUME TypeOK, NEW limit \in Limits, NEW h \in Heights, Recent(h)
    PROVE  ~TooOld(h, nHeight, limit)
<1>1. nHeight \in Nat /\ top \in Nat /\ nHeight <= top
  BY ConstantsTyped DEF TypeOK
<1>2. top - h <= limit /\ h \in Nat /\ limit \in Nat
  BY ConstantsTyped DEF Recent
<1> QED
  BY <1>1, <1>2 DEF TooOld

-----------------------------------------------------------------------------
(* The invariant is inductive.                                             *)

LEMMA EmptyAgrees ==
    ASSUME NEW V, V = {}
    PROVE  /\ NoTallies \in [Heights -> Tallies \cup {None}]
           /\ PayeesDistinct(NoTallies)
           /\ Agrees(V, NoTallies)
<1>1. /\ NoTallies \in [Heights -> Tallies \cup {None}]
      /\ \A h \in Heights : NoTallies[h] = None
  BY DEF NoTallies
<1>2. PayeesDistinct(NoTallies)
  BY <1>1 DEF PayeesDistinct
<1>3. ASSUME NEW h \in Heights, NEW p \in Payees \cup {NoPayee}
      PROVE  VotesIn(NoTallies[h], p) = 0 /\ Cardinality(VotesFor(V, h, p)) = 0
  <2>1. VotesFor(V, h, p) = {}
    BY DEF VotesFor
  <2> QED
    BY <1>1, <2>1, NoTallyNoVotes, FS_EmptySet
<1> QED
  BY <1>1, <1>2, <1>3 DEF Agrees

LEMMA InitInv == Init => Inv
<1> SUFFICES ASSUME Init PROVE Inv
  OBVIOUS
<1>1. /\ nHeight \in 1 .. MaxHeight /\ top \in nHeight .. MaxHeight
      /\ nLastBlockHeight \in Heights /\ starts \in 0 .. MaxStarts
  BY ConstantsTyped DEF Init
<1>2. file = NoFile /\ file.votes = {} /\ file.tallies = NoTallies
  BY DEF Init, NoFile
<1>3. /\ NoTallies \in [Heights -> Tallies \cup {None}]
      /\ PayeesDistinct(NoTallies)
      /\ Agrees({}, NoTallies)
  BY EmptyAgrees
<1>4. file \in Files
  BY <1>2, <1>3 DEF Files, NoFile
<1>5. TypeOK
  BY <1>1, <1>3, <1>4 DEF Init, TypeOK
<1>6. \A c \in Callers : ~Recorded(c)
  BY DEF Init, Recorded
<1>7. mapMasternodePayeeVotes \ Uncounted = {} /\ mapMasternodeBlocks = NoTallies
  BY DEF Init
<1>8. TalliesConsistent
  BY <1>3, <1>5, <1>7 DEF TalliesConsistent
<1>9. AddingRecorded /\ AddingDistinct
  BY <1>6 DEF AddingRecorded, AddingDistinct
<1>10. FileConsistent
  BY <1>2, <1>3 DEF FileConsistent
<1> QED
  BY <1>8, <1>9, <1>10 DEF Inv

LEMMA FallsBehind ==
    ASSUME NEW t \in Nat, NEW u \in Nat, NEW h \in Nat, NEW limit \in Nat,
           u >= t, u - h <= limit
    PROVE  t - h <= limit
OBVIOUS

\* Steps that record and count nothing; the tip may move.
LEMMA QuietKeepsInv ==
    ASSUME Inv, TypeOK', top' >= top,
           UNCHANGED <<mapMasternodePayeeVotes, mapMasternodeBlocks, file>>,
           \A c \in Callers : Recorded(c)' = Recorded(c),
           \A c \in Callers : Recorded(c) => adding'[c].vote = adding[c].vote
    PROVE  Inv'
<1>1. \A h \in Heights : Recent(h)' => Recent(h)
  <2>1. TypeOK
    BY DEF Inv, TalliesConsistent
  <2> SUFFICES ASSUME NEW h \in Heights, Recent(h)', NEW limit \in Limits
               PROVE  top - h <= limit
    BY DEF Recent
  <2>2. top' - h <= limit
    BY DEF Recent
  <2>3. top \in Nat /\ top' \in Nat /\ h \in Nat /\ limit \in Nat
    BY <2>1, ConstantsTyped DEF TypeOK
  <2> QED
    BY <2>2, <2>3, FallsBehind
<1>2. Uncounted' = Uncounted
  BY DEF Uncounted
<1>3. TalliesConsistent'
  <2>1. PayeesDistinct(mapMasternodeBlocks)'
    BY DEF Inv, TalliesConsistent, PayeesDistinct
  <2>2. Agrees(mapMasternodePayeeVotes \ Uncounted, mapMasternodeBlocks)
    BY DEF Inv, TalliesConsistent
  <2>3. Agrees(mapMasternodePayeeVotes \ Uncounted, mapMasternodeBlocks)'
    BY <1>1, <1>2, <2>2 DEF Agrees, VotesFor
  <2> QED
    BY <2>1, <2>3 DEF TalliesConsistent
<1>4. \A c \in Callers : Recorded(c) => adding[c].vote.h \in Heights
  BY AddingTyped DEF Inv, TalliesConsistent, Recorded
<1>5. AddingRecorded'
  BY <1>1, <1>4 DEF Inv, AddingRecorded
<1>6. AddingDistinct'
  BY <1>1, <1>4 DEF Inv, AddingDistinct
<1>7. FileConsistent'
  <2>1. file /= None => Agrees(file.votes, file.tallies)'
    BY <1>1 DEF Inv, FileConsistent, Agrees, VotesFor
  <2>2. file /= None => PayeesDistinct(file.tallies)'
    BY DEF Inv, FileConsistent, PayeesDistinct
  <2> QED
    BY <2>1, <2>2 DEF FileConsistent
<1> QED
  BY <1>3, <1>5, <1>6, <1>7 DEF Inv

\* The steps before a vote is recorded.
LEMMA CheckKeepsInv ==
    ASSUME Inv, NEW c \in Callers, adding[c] = None,
           NEW v \in Winners, NEW last \in Heights \cup {None},
           adding' = [adding EXCEPT ![c] = [vote |-> v, last |-> last, recorded |-> FALSE]],
           UNCHANGED <<nHeight, mapMasternodePayeeVotes, mapMasternodeBlocks,
                       mapMasternodesLastVote, nLastBlockHeight, file, top, starts>>
    PROVE  Inv'
<1> DEFINE new == [vote |-> v, last |-> last, recorded |-> FALSE]
<1>1. TypeOK
  BY DEF Inv, TalliesConsistent
<1>2. new \in Additions /\ ~new.recorded
  BY DEF Additions
<1>3. adding' = [adding EXCEPT ![c] = new]
  OBVIOUS
<1> HIDE DEF new
<1>4. adding'[c] = new /\ \A d \in Callers : d /= c => adding'[d] = adding[d]
  BY <1>1, <1>3 DEF TypeOK
<1>5. TypeOK'
  BY <1>1, <1>2, <1>3 DEF TypeOK
<1>6. \A d \in Callers : Recorded(d)' = Recorded(d) /\ (Recorded(d) => adding'[d] = adding[d])
  BY <1>2, <1>4 DEF Recorded
<1>7. top' >= top
  BY <1>1, ConstantsTyped DEF TypeOK
<1> QED
  BY <1>5, <1>6, <1>7, QuietKeepsInv

LEMMA CheckWinnerKeepsInv ==
    ASSUME Inv, NEW v \in Sent, CheckWinner(v)
    PROVE  Inv'
<1>1. v \in Winners /\ "handler" \in Callers
  BY RankedAssumption DEF Callers
<1> QED
  BY <1>1, CheckKeepsInv DEF CheckWinner

LEMMA ProcessBlockKeepsInv ==
    ASSUME Inv, NEW c \in Callers, NEW p \in Payees \cup {NoPayee}, ProcessBlock(c, p)
    PROVE  Inv'
<1> DEFINE h == nHeight + VoteAhead
           v == [mn |-> ActiveMasternode, h |-> IF p = NoPayee THEN 0 ELSE h, payee |-> p]
<1>1. ActiveMasternode \in Masternodes /\ h \in Heights
  BY RankedAssumption DEF ProcessBlock
<1>2. v \in Winners
  BY <1>1, ConstantsTyped DEF Winners
<1>3. /\ adding[c] = None
      /\ adding' = [adding EXCEPT ![c] = [vote |-> v, last |-> h, recorded |-> FALSE]]
      /\ UNCHANGED <<nHeight, mapMasternodePayeeVotes, mapMasternodeBlocks,
                     mapMasternodesLastVote, nLastBlockHeight, file, top, starts>>
  BY DEF ProcessBlock
<1> HIDE DEF h, v
<1> QED
  BY <1>1, <1>2, <1>3, CheckKeepsInv

LEMMA NoteVoteTyped ==
    ASSUME TypeOK, NEW c \in Callers, adding[c] /= None, NoteVote(c)
    PROVE  mapMasternodesLastVote' \in [Masternodes -> Heights \cup {None}]
<1>1. adding[c].vote.h \in Heights
  BY AddingTyped
<1> QED
  BY <1>1 DEF TypeOK, NoteVote

LEMMA DropKeepsInv ==
    ASSUME Inv, NEW c \in Callers, DropWinner(c)
    PROVE  Inv'
<1>1. TypeOK
  BY DEF Inv, TalliesConsistent
<1>2. /\ adding[c] /= None /\ ~adding[c].recorded
      /\ adding' = [adding EXCEPT ![c] = None]
      /\ UNCHANGED <<nHeight, mapMasternodePayeeVotes, mapMasternodeBlocks,
                     nLastBlockHeight, file, top, starts>>
  BY DEF DropWinner
<1>3. mapMasternodesLastVote' \in [Masternodes -> Heights \cup {None}]
  <2>1. NoteVote(c) \/ UNCHANGED mapMasternodesLastVote
    BY DEF DropWinner
  <2> QED
    BY <1>1, <1>2, <2>1, NoteVoteTyped DEF TypeOK
<1>4. adding'[c] = None /\ \A d \in Callers : d /= c => adding'[d] = adding[d]
  BY <1>1, <1>2 DEF TypeOK
<1>5. TypeOK'
  BY <1>1, <1>2, <1>3 DEF TypeOK
<1>6. \A d \in Callers : Recorded(d)' = Recorded(d) /\ (Recorded(d) => adding'[d] = adding[d])
  BY <1>2, <1>4 DEF Recorded
<1>7. top' >= top
  BY <1>1, <1>2, ConstantsTyped DEF TypeOK
<1> QED
  BY <1>2, <1>5, <1>6, <1>7, QuietKeepsInv

LEMMA TipKeepsInv ==
    ASSUME Inv, Connect \/ Disconnect
    PROVE  Inv'
<1>1. TypeOK
  BY DEF Inv, TalliesConsistent
<1>2. UNCHANGED <<mapMasternodePayeeVotes, mapMasternodeBlocks, mapMasternodesLastVote,
                  nLastBlockHeight, adding, file, starts>>
  BY DEF Connect, Disconnect
<1>3. /\ nHeight' \in 1 .. MaxHeight /\ top' \in nHeight' .. MaxHeight
      /\ top' >= top
  BY <1>1, ConstantsTyped DEF TypeOK, Connect, Disconnect
<1>4. TypeOK'
  BY <1>1, <1>2, <1>3 DEF TypeOK
<1>5. \A c \in Callers : Recorded(c)' = Recorded(c)
  BY <1>2 DEF Recorded
<1> QED
  BY <1>2, <1>3, <1>4, <1>5, QuietKeepsInv

\* Recording a vote.  It is not counted yet, so the tallies agree as before.
LEMMA RecordKeepsInv ==
    ASSUME Inv, NEW c \in Callers, RecordWinner(c)
    PROVE  Inv'
<1> DEFINE v == adding[c].vote
<1>0. TypeOK
  BY DEF Inv, TalliesConsistent
<1>1. /\ adding[c] /= None /\ ~adding[c].recorded /\ NoteVote(c)
      /\ v \notin mapMasternodePayeeVotes
      /\ mapMasternodePayeeVotes' = mapMasternodePayeeVotes \cup {v}
      /\ mapMasternodeBlocks' = [mapMasternodeBlocks EXCEPT ![v.h] = TallyOpened(v.h)]
      /\ adding' = [adding EXCEPT ![c].recorded = TRUE]
      /\ UNCHANGED <<nHeight, nLastBlockHeight, file, top, starts>>
  BY DEF RecordWinner, IsRecorded
<1>2. v \in Winners /\ v.h \in Heights /\ adding[c] \in Additions
  BY <1>0, <1>1, AddingTyped
<1>3. /\ adding'[c] \in Additions /\ adding'[c] /= None
      /\ adding'[c].vote = v /\ adding'[c].recorded
      /\ \A d \in Callers : d /= c => adding'[d] = adding[d]
  <2>1. adding'[c] = [adding[c] EXCEPT !.recorded = TRUE]
        /\ \A d \in Callers : d /= c => adding'[d] = adding[d]
    BY <1>0, <1>1 DEF TypeOK
  <2>2. adding'[c] \in Additions /\ adding'[c].vote = v /\ adding'[c].recorded
    BY <1>2, <2>1 DEF Additions
  <2> QED
    BY <2>1, <2>2, NoneAssumption
<1>4. mapMasternodesLastVote' \in [Masternodes -> Heights \cup {None}]
  BY <1>0, <1>1, NoteVoteTyped
<1> HIDE DEF v
<1>5. /\ mapMasternodeBlocks' \in [Heights -> Tallies \cup {None}]
      /\ mapMasternodeBlocks'[v.h] = IF mapMasternodeBlocks[v.h] = None THEN <<>>
                                     ELSE mapMasternodeBlocks[v.h]
      /\ \A h \in Heights : h /= v.h => mapMasternodeBlocks'[h] = mapMasternodeBlocks[h]
  BY <1>0, <1>1, <1>2, NoTallyNoVotes DEF TypeOK, TallyOpened
<1>6. TypeOK'
  <2>1. adding' \in [Callers -> Additions \cup {None}]
    <3>1. DOMAIN adding' = Callers /\ adding' = [d \in Callers |-> adding'[d]]
      BY <1>0, <1>1 DEF TypeOK
    <3>2. \A d \in Callers : adding'[d] \in Additions \cup {None}
      BY <1>0, <1>3 DEF TypeOK
    <3> QED
      BY <3>1, <3>2
  <2> QED
    BY <2>1, <1>0, <1>1, <1>2, <1>4, <1>5 DEF TypeOK
<1>7. \A d \in Callers : /\ Recorded(d)' <=> d = c \/ Recorded(d)
                         /\ Recorded(d) => d /= c /\ adding'[d] = adding[d]
  BY <1>1, <1>3 DEF Recorded
<1>8. Uncounted' = Uncounted \cup {v}
  BY <1>3, <1>7 DEF Uncounted
<1>9. mapMasternodePayeeVotes' \ Uncounted' = mapMasternodePayeeVotes \ Uncounted
  BY <1>1, <1>8
<1>10. \A h \in Heights : Recent(h)' = Recent(h)
  BY <1>1 DEF Recent
<1>11. PayeesDistinct(mapMasternodeBlocks)'
  <2>1. \A h \in Heights : mapMasternodeBlocks[h] /= None => Distinct(mapMasternodeBlocks[h])
    BY DEF Inv, TalliesConsistent, PayeesDistinct, Distinct
  <2>2. ASSUME NEW h \in Heights, mapMasternodeBlocks'[h] /= None
        PROVE  Distinct(mapMasternodeBlocks'[h])
    BY <2>1, <2>2, <1>5, NoTallyNoVotes
  <2> QED
    BY <2>2 DEF PayeesDistinct, Distinct
<1>12. Agrees(mapMasternodePayeeVotes \ Uncounted, mapMasternodeBlocks)'
  <2>1. Agrees(mapMasternodePayeeVotes \ Uncounted, mapMasternodeBlocks)
    BY DEF Inv, TalliesConsistent
  <2>2. \A h \in Heights : \A p : VotesIn(mapMasternodeBlocks'[h], p) = VotesIn(mapMasternodeBlocks[h], p)
    BY <1>5, NoTallyNoVotes
  <2> QED
    BY <2>1, <2>2, <1>9, <1>10 DEF Agrees, VotesFor
<1>13. AddingRecorded'
  BY <1>1, <1>3, <1>7, <1>10, <1>0, AddingTyped DEF Inv, AddingRecorded, Recorded
<1>14. AddingDistinct'
  <2> SUFFICES ASSUME NEW d \in Callers, NEW e \in Callers, Recorded(d)', Recorded(e)',
                      d /= e, Recent(adding[d].vote.h)'
               PROVE  adding'[d].vote /= adding'[e].vote
    BY DEF AddingDistinct
  <2>0. Recent(adding'[d].vote.h)
    BY <1>1 DEF Recent
  <2>1. CASE d = c
    <3>1. Recorded(e) /\ adding'[e] = adding[e] /\ adding'[d].vote = v
      BY <2>1, <1>3, <1>7
    <3>2. adding[e].vote = v => v \in mapMasternodePayeeVotes
      BY <2>0, <3>1 DEF Inv, AddingRecorded
    <3> QED
      BY <3>1, <3>2, <1>1
  <2>2. CASE e = c
    <3>1. Recorded(d) /\ adding'[d] = adding[d] /\ adding'[e].vote = v
      BY <2>2, <1>3, <1>7
    <3>2. adding[d].vote \in mapMasternodePayeeVotes
      BY <2>0, <3>1 DEF Inv, AddingRecorded
    <3> QED
      BY <3>1, <3>2, <1>1
  <2>3. CASE d /= c /\ e /= c
    <3>1. Recorded(d) /\ adding'[d] = adding[d] /\ Recorded(e) /\ adding'[e] = adding[e]
      BY <2>3, <1>7
    <3> QED
      BY <2>0, <3>1 DEF Inv, AddingDistinct
  <2> QED
    BY <2>1, <2>2, <2>3
<1>15. FileConsistent'
  BY <1>1, <1>10 DEF Inv, FileConsistent, Agrees, PayeesDistinct, VotesFor
<1> QED
  BY <1>6, <1>11, <1>12, <1>13, <1>14, <1>15 DEF Inv, TalliesConsistent

\* Counting a vote.  If its height is recent it is recorded and was in no
\* count, so that both sides of the agreement grow by one.
LEMMA CountKeepsInv ==
    ASSUME Inv, NEW c \in Callers, CountWinner(c)
    PROVE  Inv'
<1> DEFINE v   == adding[c].vote
           vec == TallyOpened(v.h)
           new == AddPayee(vec, v.payee)
           V   == mapMasternodePayeeVotes \ Uncounted
<1>0. TypeOK /\ Recorded(c) /\ adding[c] /= None
  BY DEF Inv, TalliesConsistent, CountWinner, Recorded
<1>1. /\ v \in Winners /\ adding[c].last \in Heights \cup {None}
      /\ v.h \in Heights /\ v.payee \in Payees \cup {NoPayee}
  BY <1>0, AddingTyped
<1>3. \A h \in Heights : mapMasternodeBlocks[h] /= None => Distinct(mapMasternodeBlocks[h])
  BY DEF Inv, TalliesConsistent, PayeesDistinct, Distinct
<1>4. vec \in Tallies /\ Distinct(vec)
  BY <1>0, <1>1, <1>3, NoTallyNoVotes DEF TypeOK, TallyOpened
<1>5. \A p : VotesIn(vec, p) = VotesIn(mapMasternodeBlocks[v.h], p)
  BY NoTallyNoVotes DEF TallyOpened
<1>6. /\ mapMasternodeBlocks' = [mapMasternodeBlocks EXCEPT ![v.h] = new]
      /\ nLastBlockHeight' \in {nLastBlockHeight, adding[c].last}
      /\ nLastBlockHeight' \in Heights
      /\ adding' = [adding EXCEPT ![c] = None]
      /\ UNCHANGED <<nHeight, mapMasternodePayeeVotes, mapMasternodesLastVote, file, top, starts>>
  BY <1>0, <1>1 DEF CountWinner, TypeOK
<1> HIDE DEF v, vec
<1>7. /\ new \in Tallies /\ Distinct(new)
      /\ VotesIn(new, v.payee) = VotesIn(vec, v.payee) + 1
      /\ \A q : q /= v.payee => VotesIn(new, q) = VotesIn(vec, q)
  BY <1>1, <1>4, AddPayeeCounts
<1> HIDE DEF new
<1>8. /\ mapMasternodeBlocks' \in [Heights -> Tallies \cup {None}]
      /\ mapMasternodeBlocks'[v.h] = new
      /\ \A h \in Heights : h /= v.h => mapMasternodeBlocks'[h] = mapMasternodeBlocks[h]
  BY <1>0, <1>1, <1>6, <1>7 DEF TypeOK
<1>9. adding'[c] = None /\ \A d \in Callers : d /= c => adding'[d] = adding[d]
  BY <1>0, <1>6 DEF TypeOK
<1>10. TypeOK'
  BY <1>0, <1>1, <1>6, <1>8 DEF TypeOK
<1>11. PayeesDistinct(mapMasternodeBlocks)'
  <2>1. ASSUME NEW h \in Heights, mapMasternodeBlocks'[h] /= None
        PROVE  Distinct(mapMasternodeBlocks'[h])
    BY <2>1, <1>3, <1>7, <1>8
  <2> QED
    BY <2>1 DEF PayeesDistinct, Distinct
<1>12. \A d \in Callers : Recorded(d)' => d /= c /\ Recorded(d) /\ adding'[d] = adding[d]
  BY <1>9 DEF Recorded
<1>13. \A d \in Callers : d /= c /\ Recorded(d) => Recorded(d)' /\ adding'[d] = adding[d]
  BY <1>9 DEF Recorded
<1>14. \A h \in Heights : Recent(h)' = Recent(h)
  BY <1>6 DEF Recent
<1>15. v \in Uncounted /\ Uncounted' \subseteq Uncounted /\ Uncounted \subseteq Uncounted' \cup {v}
  BY <1>0, <1>12, <1>13 DEF Uncounted, v
<1>16. Recent(v.h) => v \in mapMasternodePayeeVotes /\ v \notin Uncounted'
  <2> SUFFICES ASSUME Recent(v.h)
               PROVE  v \in mapMasternodePayeeVotes /\ v \notin Uncounted'
    OBVIOUS
  <2>1. v \in mapMasternodePayeeVotes
    BY <1>0 DEF Inv, AddingRecorded, v
  <2>2. ASSUME NEW d \in Callers, Recorded(d)'
        PROVE  adding'[d].vote /= v
    BY <2>2, <1>0, <1>12 DEF Inv, AddingDistinct, v
  <2> QED
    BY <2>1, <2>2 DEF Uncounted
<1> DEFINE W == mapMasternodePayeeVotes' \ Uncounted'
<1>17. /\ V \in SUBSET Winners /\ W \in SUBSET Winners
       /\ V \subseteq W /\ W \subseteq V \cup {v} /\ v \notin V
       /\ Recent(v.h) => v \in W
  BY <1>0, <1>6, <1>15, <1>16 DEF TypeOK
<1>18. Agrees(V, mapMasternodeBlocks)
  BY DEF Inv, TalliesConsistent
<1> HIDE DEF V, W
<1>19. ASSUME NEW h \in Heights, NEW p \in Payees \cup {NoPayee}
       PROVE  /\ VotesIn(mapMasternodeBlocks'[h], p) >= Cardinality(VotesFor(W, h, p))
              /\ Recent(h) => VotesIn(mapMasternodeBlocks'[h], p) = Cardinality(VotesFor(W, h, p))
  <2> DEFINE n == Cardinality(VotesFor(V, h, p))
             m == Cardinality(VotesFor(W, h, p))
             x == VotesIn(mapMasternodeBlocks[h], p)
             y == VotesIn(mapMasternodeBlocks'[h], p)
  <2>1. IsFiniteSet(VotesFor(V, h, p)) /\ n \in Nat /\ m \in Nat
    BY <1>17, VotesFinite
  <2>2. x >= n /\ (Recent(h) => x = n)
    BY <1>18 DEF Agrees
  <2>3. CASE v.h = h /\ v.payee = p
    <3>1. y = x + 1
      BY <2>3, <1>5, <1>7, <1>8
    <3>2. m = n \/ (m = n + 1)
      <4>1. VotesFor(W, h, p) = IF v \in W THEN VotesFor(V, h, p) \cup {v} ELSE VotesFor(V, h, p)
        BY <2>3, <1>17 DEF VotesFor
      <4>2. v \notin VotesFor(V, h, p)
        BY <1>17 DEF VotesFor
      <4> QED
        BY <4>1, <4>2, <2>1, FS_AddElement
    <3>3. Recent(h) => m = n + 1
      <4>1. Recent(h) => VotesFor(W, h, p) = VotesFor(V, h, p) \cup {v}
        BY <2>3, <1>17 DEF VotesFor
      <4>2. v \notin VotesFor(V, h, p)
        BY <1>17 DEF VotesFor
      <4> QED
        BY <4>1, <4>2, <2>1, FS_AddElement
    <3>4. x \in Int
      <4>1. \A u \in Tallies \cup {None} : VotesIn(u, p) \in Nat
        BY TallyTyped DEF VotesIn
      <4> QED
        BY <4>1, <1>0 DEF TypeOK
    <3> HIDE DEF n, m, x, y
    <3>5. y >= m /\ (Recent(h) => y = m)
      BY <3>1, <3>2, <3>3, <3>4, <2>1, <2>2
    <3> QED
      BY <3>5 DEF m, y
  <2>4. CASE ~ (v.h = h /\ v.payee = p)
    <3>1. y = x
      BY <2>4, <1>5, <1>7, <1>8
    <3>2. VotesFor(W, h, p) = VotesFor(V, h, p)
      BY <2>4, <1>17 DEF VotesFor
    <3> QED
      BY <3>1, <3>2, <2>2
  <2> QED
    BY <2>3, <2>4
<1>20. Agrees(mapMasternodePayeeVotes \ Uncounted, mapMasternodeBlocks)'
  BY <1>14, <1>19 DEF Agrees, VotesFor, W
<1>21. AddingRecorded'
  BY <1>0, <1>6, <1>12, <1>14, AddingTyped DEF Inv, AddingRecorded, Recorded
<1>22. AddingDistinct'
  BY <1>0, <1>6, <1>12, <1>14, AddingTyped DEF Inv, AddingDistinct, Recorded
<1>23. FileConsistent'
  BY <1>6, <1>14 DEF Inv, FileConsistent, Agrees, PayeesDistinct, VotesFor
<1> QED
  BY <1>10, <1>11, <1>20, <1>21, <1>22, <1>23 DEF Inv, TalliesConsistent

\* Cleaning takes all votes of a height together with its tally, and none
\* of a recent height, not even those that are still to be counted.
LEMMA CleanKeepsInv ==
    ASSUME Inv, CleanPaymentList
    PROVE  Inv'
<1>0. /\ TypeOK /\ nHeight \in Nat
      /\ mapMasternodeBlocks \in [Heights -> Tallies \cup {None}]
      /\ mapMasternodePayeeVotes \in SUBSET Winners
  BY ConstantsTyped DEF Inv, TalliesConsistent, TypeOK
<1>1. PICK limit \in Limits :
         /\ mapMasternodePayeeVotes' =
               mapMasternodePayeeVotes \ OldVotes(mapMasternodePayeeVotes, nHeight, limit)
         /\ mapMasternodeBlocks' =
               TalliesAfter(mapMasternodeBlocks, OldVotes(mapMasternodePayeeVotes, nHeight, limit))
  BY DEF CleanPaymentList
<1>2. UNCHANGED <<nHeight, mapMasternodesLastVote, nLastBlockHeight, adding, file, top, starts>>
  BY DEF CleanPaymentList
<1> DEFINE old == OldVotes(mapMasternodePayeeVotes, nHeight, limit)
           V == mapMasternodePayeeVotes \ Uncounted
           new == TalliesAfter(mapMasternodeBlocks, old)
<1>3. /\ new \in [Heights -> Tallies \cup {None}]
      /\ PayeesDistinct(new)
      /\ Agrees(V \ old, new)
  <2>1. V \in SUBSET mapMasternodePayeeVotes /\ limit \in Nat
    BY ConstantsTyped
  <2>2. PayeesDistinct(mapMasternodeBlocks) /\ Agrees(V, mapMasternodeBlocks)
    BY DEF Inv, TalliesConsistent
  <2>3. old = OldVotes(mapMasternodePayeeVotes, nHeight, limit)
    OBVIOUS
  <2> HIDE DEF old, V
  <2> QED
    BY <1>0, <2>1, <2>2, <2>3, CleanKeepsAgreement
<1>4. \A u \in mapMasternodePayeeVotes : Recent(u.h) => u \notin old
  BY <1>0, RecentSpared, WinnerFields DEF OldVotes
<1>5. mapMasternodePayeeVotes' = mapMasternodePayeeVotes \ old /\ mapMasternodeBlocks' = new
  BY <1>1
<1>6. Uncounted' = Uncounted /\ \A c \in Callers : Recorded(c)' = Recorded(c)
  BY <1>2 DEF Uncounted, Recorded
<1>7. \A h : Recent(h)' = Recent(h)
  BY <1>2 DEF Recent
<1>8. TypeOK'
  <2> HIDE DEF old, new
  <2> QED
    BY <1>0, <1>2, <1>3, <1>5 DEF TypeOK
<1>9. PayeesDistinct(mapMasternodeBlocks)'
  BY <1>3, <1>5 DEF PayeesDistinct
<1>10. Agrees(mapMasternodePayeeVotes \ Uncounted, mapMasternodeBlocks)'
  <2>1. (mapMasternodePayeeVotes \ Uncounted)' = V \ old
    BY <1>5, <1>6
  <2> HIDE DEF V, old, new
  <2> QED
    BY <2>1, <1>3, <1>5, <1>7 DEF Agrees, VotesFor
<1> HIDE DEF old
<1>11. AddingRecorded'
  BY <1>2, <1>4, <1>5, <1>6, <1>7 DEF Inv, AddingRecorded
<1>12. AddingDistinct'
  BY <1>2, <1>6, <1>7 DEF Inv, AddingDistinct
<1>13. FileConsistent'
  BY <1>2, <1>7 DEF Inv, FileConsistent, Agrees, PayeesDistinct, VotesFor
<1> QED
  BY <1>8, <1>9, <1>10, <1>11, <1>12, <1>13 DEF Inv, TalliesConsistent

\* A start reads what is consistent, and no vote is in between.
LEMMA ReadKeepsInv ==
    ASSUME TypeOK, Read(file'), top' = top, nHeight' \in 1 .. nHeight,
           file' \in Files \cup {None}, FileConsistent'
    PROVE  Inv'
<1> DEFINE saved == IF file' = None THEN NoFile ELSE file'
<1>1. /\ saved \in Files
      /\ PayeesDistinct(saved.tallies)
      /\ Agrees(saved.votes, saved.tallies)
  <2>1. CASE file' = None
    <3>1. /\ NoTallies \in [Heights -> Tallies \cup {None}]
          /\ PayeesDistinct(NoTallies)
          /\ Agrees({}, NoTallies)
      BY EmptyAgrees
    <3> QED
      BY <2>1, <3>1 DEF NoFile, Files
  <2>2. CASE file' /= None
    <3>1. PayeesDistinct(file'.tallies) /\ Agrees(file'.votes, file'.tallies)
      BY <2>2 DEF FileConsistent, PayeesDistinct, Agrees, Recent, VotesFor
    <3> QED
      BY <2>2, <3>1
  <2> QED
    BY <2>1, <2>2
<1>2. /\ starts' = starts + 1 /\ starts < MaxStarts
      /\ mapMasternodesLastVote' = [mn \in Masternodes |-> None]
      /\ nLastBlockHeight' = 0
      /\ adding' = [c \in Callers |-> None]
  BY DEF Read
<1>3. PICK old \in {{}} \cup {OldVotes(saved.votes, nHeight', limit) : limit \in Limits} :
         /\ mapMasternodePayeeVotes' = saved.votes \ old
         /\ mapMasternodeBlocks' = TalliesAfter(saved.tallies, old)
  BY DEF Read
<1> HIDE DEF saved
<1>4. PICK limit \in Nat : old = {} \/ old = OldVotes(saved.votes, nHeight', limit)
  BY <1>3, ConstantsTyped
<1>5. nHeight' \in Nat /\ saved.votes \in SUBSET Winners
      /\ saved.tallies \in [Heights -> Tallies \cup {None}]
  BY <1>1, ConstantsTyped DEF TypeOK, Files
<1>6. /\ TalliesAfter(saved.tallies, old) \in [Heights -> Tallies \cup {None}]
      /\ PayeesDistinct(TalliesAfter(saved.tallies, old))
      /\ Agrees(saved.votes \ old, TalliesAfter(saved.tallies, old))
  BY <1>1, <1>4, <1>5, CleanKeepsAgreement
<1>7. Uncounted' = {} /\ \A c \in Callers : ~Recorded(c)'
  BY <1>2 DEF Uncounted, Recorded
<1>8. TypeOK'
  BY <1>2, <1>3, <1>5, <1>6, ConstantsTyped DEF TypeOK
<1>9. PayeesDistinct(mapMasternodeBlocks)'
  BY <1>3, <1>6 DEF PayeesDistinct
<1>10. Agrees(mapMasternodePayeeVotes \ Uncounted, mapMasternodeBlocks)'
  BY <1>3, <1>6, <1>7 DEF Agrees, VotesFor, Recent
<1>11. AddingRecorded' /\ AddingDistinct'
  BY <1>7 DEF AddingRecorded, AddingDistinct
<1> QED
  BY <1>8, <1>9, <1>10, <1>11 DEF Inv, TalliesConsistent

\* An orderly stop saves what is in memory, with every vote counted.
LEMMA RestartKeepsInv ==
    ASSUME Inv, Restart
    PROVE  Inv'
<1> DEFINE f == [votes |-> mapMasternodePayeeVotes, tallies |-> mapMasternodeBlocks]
<1>1. TypeOK
  BY DEF Inv, TalliesConsistent
<1>2. file' = (IF file = None THEN None ELSE f) /\ Read(file') /\ top' = top /\ nHeight' = nHeight
  BY DEF Restart
<1>3. Uncounted = {}
  BY DEF Restart, Uncounted, Recorded
<1>4. f \in Files /\ f.votes = mapMasternodePayeeVotes /\ f.tallies = mapMasternodeBlocks
  BY <1>1 DEF TypeOK, Files
<1>5. PayeesDistinct(f.tallies) /\ Agrees(f.votes, f.tallies)
  BY <1>3, <1>4 DEF Inv, TalliesConsistent, Agrees, VotesFor
<1> HIDE DEF f
<1>6. FileConsistent'
  BY <1>2, <1>5 DEF FileConsistent, Agrees, PayeesDistinct, Recent, VotesFor
<1>7. file' \in Files \cup {None} /\ nHeight' \in 1 .. nHeight
  BY <1>1, <1>2, <1>4, ConstantsTyped DEF TypeOK
<1> QED
  BY <1>1, <1>2, <1>6, <1>7, ReadKeepsInv

LEMMA CrashKeepsInv ==
    ASSUME Inv, Crash
    PROVE  Inv'
<1>1. TypeOK /\ FileConsistent
  BY DEF Inv, TalliesConsistent
<1>2. /\ file' \in {file, None} /\ Read(file')
      /\ top' = top /\ nHeight' \in 1 .. nHeight
  BY DEF Crash
<1>3. FileConsistent'
  BY <1>1, <1>2 DEF FileConsistent, Agrees, PayeesDistinct, Recent, VotesFor
<1>4. file' \in Files \cup {None}
  BY <1>1, <1>2 DEF TypeOK
<1> QED
  BY <1>1, <1>2, <1>3, <1>4, ReadKeepsInv

\* The tallies agree with the recorded votes at every step of either thread.
THEOREM Invariance == Spec => []Inv
<1>1. Init => Inv
  BY InitInv
<1>2. Inv /\ [Next]_vars => Inv'
  <2> SUFFICES ASSUME Inv, [Next]_vars
               PROVE  Inv'
    OBVIOUS
  <2>1. CASE \E v \in Sent : CheckWinner(v)
    BY <2>1, CheckWinnerKeepsInv
  <2>2. CASE \E c \in Callers, p \in Payees \cup {NoPayee} : ProcessBlock(c, p)
    BY <2>2, ProcessBlockKeepsInv
  <2>3. CASE \E c \in Callers : RecordWinner(c)
    BY <2>3, RecordKeepsInv
  <2>4. CASE \E c \in Callers : DropWinner(c)
    BY <2>4, DropKeepsInv
  <2>5. CASE \E c \in Callers : CountWinner(c)
    BY <2>5, CountKeepsInv
  <2>6. CASE CleanPaymentList
    BY <2>6, CleanKeepsInv
  <2>7. CASE Connect \/ Disconnect
    BY <2>7, TipKeepsInv
  <2>8. CASE Restart
    BY <2>8, RestartKeepsInv
  <2>9. CASE Crash
    BY <2>9, CrashKeepsInv
  <2>10. CASE UNCHANGED vars
    <3>1. TypeOK
      BY DEF Inv, TalliesConsistent
    <3>2. TypeOK' /\ top' >= top
      BY <3>1, <2>10, ConstantsTyped DEF vars, TypeOK
    <3>3. \A c \in Callers : Recorded(c)' = Recorded(c)
      BY <2>10 DEF vars, Recorded
    <3> QED
      BY <3>2, <3>3, <2>10, QuietKeepsInv DEF vars
  <2> QED
    BY <2>1, <2>2, <2>3, <2>4, <2>5, <2>6, <2>7, <2>8, <2>9, <2>10 DEF Next
<1> QED
  BY <1>1, <1>2, PTL DEF Spec

-----------------------------------------------------------------------------
(* What follows from it.                                                   *)

\* TalliesConsistent: AddWinningMasternode, ProcessBlock, CleanPaymentList,
\* a reorganisation, a restart and a crash lose no vote, and none that is
\* recent is counted twice.
THEOREM TalliesAreConsistent == Spec => []TalliesConsistent
<1>1. Inv => TalliesConsistent
  BY DEF Inv
<1> QED
  BY <1>1, Invariance, PTL

\* EnforcedIsBacked: a payee that IsTransactionValid insists on was voted for
\* by SIGNATURES_REQUIRED different masternodes.
THEOREM EnforcedPayeesAreBacked == Spec => []EnforcedIsBacked
<1>1. Inv => EnforcedIsBacked
  <2> SUFFICES ASSUME Inv, NEW h \in Heights, NEW p \in Payees, Recent(h),
                      VotesIn(mapMasternodeBlocks[h], p) >= SIGNATURES_REQUIRED
               PROVE  Cardinality({mn \in Masternodes : [mn |-> mn, h |-> h, payee |-> p]
                                                           \in mapMasternodePayeeVotes})
                         >= SIGNATURES_REQUIRED
    BY DEF EnforcedIsBacked
  <2> DEFINE voters == {mn \in Masternodes : [mn |-> mn, h |-> h, payee |-> p]
                                                \in mapMasternodePayeeVotes}
             V == mapMasternodePayeeVotes \ Uncounted
  <2>1. VotesIn(mapMasternodeBlocks[h], p) = Cardinality(VotesFor(V, h, p))
    BY DEF Inv, TalliesConsistent, Agrees
  <2>2. mapMasternodePayeeVotes \in SUBSET Winners /\ V \in SUBSET mapMasternodePayeeVotes
    BY DEF Inv, TalliesConsistent, TypeOK
  <2> HIDE DEF V
  <2>3. /\ IsFiniteSet(voters) /\ IsFiniteSet(VotesFor(V, h, p))
        /\ Cardinality(VotesFor(V, h, p)) <= Cardinality(voters)
    BY <2>2, VotersInjection
  <2>4. Cardinality(voters) \in Nat /\ Cardinality(VotesFor(V, h, p)) \in Nat
    BY <2>3, FS_CardinalityType
  <2> HIDE DEF voters
  <2>5. Cardinality(voters) >= SIGNATURES_REQUIRED
    BY <2>1, <2>3, <2>4, PaymentsAssumption
  <2> QED
    BY <2>5 DEF voters
<1> QED
  BY <1>1, Invariance, PTL

\* TemplateAccepted: FillBlockPayee's choice passes IsTransactionValid.
THEOREM TemplatesAreAccepted == Spec => []TemplateAccepted
<1>1. Inv => TemplateAccepted
  <2> SUFFICES ASSUME Inv, NEW h \in Heights, mapMasternodeBlocks[h] \notin {None, <<>>}
               PROVE  IsTransactionValid(mapMasternodeBlocks[h], {GetPayee(mapMasternodeBlocks[h])})
    BY DEF TemplateAccepted
  <2>1. mapMasternodeBlocks[h] \in Tallies
    BY DEF Inv, TalliesConsistent, TypeOK
  <2> QED
    BY <2>1, WinnerIsValid
<1> QED
  BY <1>1, Invariance, PTL
=============================================================================
