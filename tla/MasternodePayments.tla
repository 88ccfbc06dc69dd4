------------------------- MODULE MasternodePayments -------------------------
(***************************************************************************)
(* CMasternodePayments (src/src/masternode-payments.cpp and .h): the votes *)
(* of masternodes on whom each future block has to pay, and the tally per  *)
(* block that the block check and the block template use.                  *)
(*                                                                         *)
(* Votes are recorded by two threads, the message handler and the staker   *)
(* (which runs ProcessBlock for blocks of its own).  A vote is checked      *)
(* against the tip under cs_main, recorded under the two locks of this      *)
(* class, and counted under neither, so it takes three steps here.  Blocks  *)
(* come and go between them, and the cleaning thread, which holds all the   *)
(* locks throughout, can come in too.                                       *)
(*                                                                         *)
(* Votes and tallies are saved in mnpayments.dat when the node stops and    *)
(* at no other time, so a crash goes back to the last orderly stop.         *)
(*                                                                         *)
(* The node is synced and not in lite mode.  Relaying, and the counters    *)
(* of CMasternodeSync that an accepted vote feeds, are left out.           *)
(***************************************************************************)
EXTENDS Integers, Sequences, FiniteSets

CONSTANTS
    Masternodes,
    Payees,                \* payment scripts of the masternodes
    NoPayee,               \* CScript(), in a winner that was never filled in
    Ranked,                \* <<mn, h>>: IsValid accepts a vote of mn for h
    Sent,                  \* the winners that may arrive from the network
    ActiveMasternode,      \* the masternode this node runs
    SIGNATURES_REQUIRED,
    Windows,               \* what CountEnabled() * 1.25 may be at some time
    Limits,                \* what max(size() * 1.25, 1000) may be
    Ahead,                 \* 20: how far ahead a vote may be
    VoteAhead,             \* 10: how far ahead the node itself votes
    MaxHeight,             \* bound on the height of the tip
    MaxStarts,             \* bound on the number of restarts and crashes
    None                   \* an absent value

ASSUME PaymentsAssumption ==
    /\ IsFiniteSet(Masternodes) /\ IsFiniteSet(Payees)
    /\ NoPayee \notin Payees
    /\ SIGNATURES_REQUIRED \in Nat \ {0}
    /\ Windows \subseteq Nat /\ Limits \subseteq Nat
    /\ {Ahead, VoteAhead, MaxHeight, MaxStarts} \subseteq Nat
    /\ VoteAhead <= Ahead
    /\ MaxHeight > 0
    /\ None \notin Nat

Heights == 0 .. MaxHeight + Ahead
Winners == [mn : Masternodes, h : Heights, payee : Payees \cup {NoPayee}]
Callers == {"handler", "staker"}
Tallies == Seq([payee : Payees \cup {NoPayee}, nVotes : Nat \ {0}])
Additions == [vote : Winners, last : Heights \cup {None}, recorded : BOOLEAN]
Files == [votes : SUBSET Winners, tallies : [Heights -> Tallies \cup {None}]]

ASSUME RankedAssumption == Ranked \subseteq Masternodes \X Heights /\ Sent \subseteq Winners
ASSUME NoneAssumption == None \notin Tallies /\ None \notin Additions /\ None \notin Files

VARIABLES
    nHeight,                  \* chainActive.Tip()->nHeight
    mapMasternodePayeeVotes,  \* the recorded votes; GetHash is the vote
    mapMasternodeBlocks,      \* vecPayments of each height, None if absent
    mapMasternodesLastVote,   \* the height of a masternode's last vote
    nLastBlockHeight,         \* the last height this node voted for
    adding,                   \* the vote a caller checked but did not count
    file,                     \* mnpayments.dat, None if it cannot be read
    top,                      \* the highest tip so far; not in the code
    starts                    \* how often the node was started again

vars == <<nHeight, mapMasternodePayeeVotes, mapMasternodeBlocks,
          mapMasternodesLastVote, nLastBlockHeight, adding, file, top, starts>>

NoTallies == [h \in Heights |-> None]
NoFile == [votes |-> {}, tallies |-> NoTallies]

Init ==
    /\ nHeight = 1 /\ top = 1
    /\ mapMasternodePayeeVotes = {}
    /\ mapMasternodeBlocks = NoTallies
    /\ mapMasternodesLastVote = [mn \in Masternodes |-> None]
    /\ nLastBlockHeight = 0
    /\ adding = [c \in Callers |-> None]
    /\ file = NoFile
    /\ starts = 0

-----------------------------------------------------------------------------
(* CMasternodeBlockPayees: the tally of one height. *)

AddPayee(vec, p) ==
    IF \E i \in DOMAIN vec : vec[i].payee = p
    THEN [i \in DOMAIN vec |->
             IF vec[i].payee = p THEN [vec[i] EXCEPT !.nVotes = @ + 1] ELSE vec[i]]
    ELSE Append(vec, [payee |-> p, nVotes |-> 1])

\* Mutant: the payee that was named first.
GetFirstPayee(vec) == vec[1].payee

\* The first payee with the most votes.
GetPayee(vec) ==
    vec[CHOOSE i \in DOMAIN vec :
            /\ \A j \in DOMAIN vec : vec[j].nVotes <= vec[i].nVotes
            /\ \A j \in 1 .. i - 1 : vec[j].nVotes < vec[i].nVotes].payee

\* Whether a block that pays the scripts in paid is acceptable.
IsTransactionValid(vec, paid) ==
    LET enforced == {i \in DOMAIN vec : vec[i].nVotes >= SIGNATURES_REQUIRED}
    IN  enforced = {} \/ \E i \in enforced : vec[i].payee \in paid

-----------------------------------------------------------------------------
\* Mutant: a vote is told apart by masternode and signature, not by content.
IsRecordedNever(v) == FALSE

\* The vote is in mapMasternodePayeeVotes already.
IsRecorded(v) == v \in mapMasternodePayeeVotes

Recorded(c) == adding[c] /= None /\ adding[c].recorded

\* The heights a vote from the network may be about.
InRange(h, window) == nHeight - window <= h /\ h <= nHeight + Ahead

\* "mnw" up to IsValid: the height is read under cs_main, which is released.
CheckWinner(v) ==
    /\ adding["handler"] = None
    /\ ~IsRecorded(v)
    /\ \E window \in Windows : InRange(v.h, window)
    /\ <<v.mn, v.h>> \in Ranked
    /\ adding' = [adding EXCEPT !["handler"] = [vote |-> v, last |-> None, recorded |-> FALSE]]
    /\ UNCHANGED <<nHeight, mapMasternodePayeeVotes, mapMasternodeBlocks,
                   mapMasternodesLastVote, nLastBlockHeight, file, top, starts>>

\* ProcessBlock(nHeight + 10): the node's own vote.  On a budget block, or if
\* nobody is to be paid, an unfilled winner for height 0 is signed and added.
ProcessBlock(c, p) ==
    LET h == nHeight + VoteAhead
    IN  /\ adding[c] = None
        /\ <<ActiveMasternode, h>> \in Ranked
        /\ h > nLastBlockHeight
        /\ adding' = [adding EXCEPT ![c] =
               [vote |-> [mn |-> ActiveMasternode, h |-> IF p = NoPayee THEN 0 ELSE h, payee |-> p],
                last |-> h, recorded |-> FALSE]]
        /\ UNCHANGED <<nHeight, mapMasternodePayeeVotes, mapMasternodeBlocks,
                       mapMasternodesLastVote, nLastBlockHeight, file, top, starts>>

\* CanVote, which the node's own votes do not go through.
CanVote(c) == adding[c].last = None => mapMasternodesLastVote[adding[c].vote.mn] /= adding[c].vote.h

\* It notes the height of a vote it allows before the signature is looked at.
NoteVote(c) ==
    mapMasternodesLastVote' =
        IF adding[c].last = None
        THEN [mapMasternodesLastVote EXCEPT ![adding[c].vote.mn] = adding[c].vote.h]
        ELSE mapMasternodesLastVote

\* The tally of a height that a vote was just recorded for.
TallyOpened(h) == IF mapMasternodeBlocks[h] = None THEN <<>> ELSE mapMasternodeBlocks[h]

\* The locked half of AddWinningMasternode.
RecordWinner(c) ==
    LET v == adding[c].vote
    IN  /\ adding[c] /= None /\ ~adding[c].recorded
        /\ CanVote(c) /\ NoteVote(c)
        /\ ~IsRecorded(v)
        /\ mapMasternodePayeeVotes' = mapMasternodePayeeVotes \cup {v}
        /\ mapMasternodeBlocks' = [mapMasternodeBlocks EXCEPT ![v.h] = TallyOpened(v.h)]
        /\ adding' = [adding EXCEPT ![c].recorded = TRUE]
        /\ UNCHANGED <<nHeight, nLastBlockHeight, file, top, starts>>

\* The vote is dropped: CanVote refuses it, or its signature is wrong, or
\* another thread recorded it in the meantime.
DropWinner(c) ==
    /\ adding[c] /= None /\ ~adding[c].recorded
    /\ IF CanVote(c) THEN NoteVote(c) ELSE UNCHANGED mapMasternodesLastVote
    /\ adding' = [adding EXCEPT ![c] = None]
    /\ UNCHANGED <<nHeight, mapMasternodePayeeVotes, mapMasternodeBlocks,
                   nLastBlockHeight, file, top, starts>>

\* The other half: the vote is counted without those locks.  operator[]
\* makes a new tally if the old one is gone.
CountWinner(c) ==
    LET v == adding[c].vote
    IN  /\ Recorded(c)
        /\ mapMasternodeBlocks' =
              [mapMasternodeBlocks EXCEPT ![v.h] = AddPayee(TallyOpened(v.h), v.payee)]
        /\ nLastBlockHeight' = IF adding[c].last = None THEN nLastBlockHeight ELSE adding[c].last
        /\ adding' = [adding EXCEPT ![c] = None]
        /\ UNCHANGED <<nHeight, mapMasternodePayeeVotes, mapMasternodesLastVote, file, top, starts>>

\* Mutant: a vote goes one block too early.
TooOldEarly(h, tip, limit) == tip - h >= limit

\* CleanPaymentList drops the votes and the tally of this height.
TooOld(h, tip, limit) == tip - h > limit

OldVotes(votes, tip, limit) == {v \in votes : TooOld(v.h, tip, limit)}

\* The tallies once the votes in old are erased.
TalliesAfter(tallies, old) ==
    [h \in Heights |-> IF \E v \in old : v.h = h THEN None ELSE tallies[h]]

CleanPaymentList ==
    \E limit \in Limits :
        LET old == OldVotes(mapMasternodePayeeVotes, nHeight, limit)
        IN  /\ old /= {}
            /\ mapMasternodePayeeVotes' = mapMasternodePayeeVotes \ old
            /\ mapMasternodeBlocks' = TalliesAfter(mapMasternodeBlocks, old)
            /\ UNCHANGED <<nHeight, mapMasternodesLastVote, nLastBlockHeight, adding, file, top, starts>>

-----------------------------------------------------------------------------
\* The tip moves, whatever the callers are in the middle of.
Connect ==
    /\ nHeight < MaxHeight
    /\ nHeight' = nHeight + 1
    /\ top' = IF nHeight' > top THEN nHeight' ELSE top
    /\ UNCHANGED <<mapMasternodePayeeVotes, mapMasternodeBlocks, mapMasternodesLastVote,
                   nLastBlockHeight, adding, file, starts>>

Disconnect ==
    /\ nHeight > 1
    /\ nHeight' = nHeight - 1
    /\ UNCHANGED <<mapMasternodePayeeVotes, mapMasternodeBlocks, mapMasternodesLastVote,
                   nLastBlockHeight, adding, file, top, starts>>

\* CMasternodePaymentDB::Read and the cleaning after it, which is skipped
\* while another thread holds cs_main.  The last-vote heights are not saved.
Read(f) ==
    LET saved == IF f = None THEN NoFile ELSE f
    IN  /\ starts < MaxStarts
        /\ starts' = starts + 1
        /\ \E old \in {{}} \cup {OldVotes(saved.votes, nHeight', limit) : limit \in Limits} :
              /\ mapMasternodePayeeVotes' = saved.votes \ old
              /\ mapMasternodeBlocks' = TalliesAfter(saved.tallies, old)
        /\ mapMasternodesLastVote' = [mn \in Masternodes |-> None]
        /\ nLastBlockHeight' = 0
        /\ adding' = [c \in Callers |-> None]

\* An orderly stop, when all threads have ended, and a start.
\* DumpMasternodePayments leaves a file alone that it cannot make sense of.
Restart ==
    /\ \A c \in Callers : adding[c] = None
    /\ file' = IF file = None THEN None
               ELSE [votes |-> mapMasternodePayeeVotes, tallies |-> mapMasternodeBlocks]
    /\ UNCHANGED <<nHeight, top>>
    /\ Read(file')

\* A crash, and a start with the file of an earlier stop.  Blocks may be
\* lost with it, and a crash in the middle of a stop leaves half a file.
Crash ==
    /\ nHeight' \in 1 .. nHeight
    /\ file' \in {file, None}
    /\ UNCHANGED top
    /\ Read(file')

Next ==
    \/ \E v \in Sent : CheckWinner(v)
    \/ \E c \in Callers, p \in Payees \cup {NoPayee} : ProcessBlock(c, p)
    \/ \E c \in Callers : RecordWinner(c) \/ DropWinner(c) \/ CountWinner(c)
    \/ CleanPaymentList
    \/ Connect \/ Disconnect
    \/ Restart \/ Crash

Spec == Init /\ [][Next]_vars

-----------------------------------------------------------------------------
TypeOK ==
    /\ nHeight \in 1 .. MaxHeight /\ top \in nHeight .. MaxHeight
    /\ mapMasternodePayeeVotes \subseteq Winners
    /\ mapMasternodeBlocks \in [Heights -> Tallies \cup {None}]
    /\ mapMasternodesLastVote \in [Masternodes -> Heights \cup {None}]
    /\ nLastBlockHeight \in Heights
    /\ adding \in [Callers -> Additions \cup {None}]
    /\ file \in Files \cup {None}
    /\ starts \in 0 .. MaxStarts

\* No tip was ever far enough above this height for its votes to be cleaned.
Recent(h) == \A limit \in Limits : top - h <= limit

\* The number of votes that a tally shows for a payee.
VotesIn(vec, p) ==
    IF vec /= None /\ \E i \in DOMAIN vec : vec[i].payee = p
    THEN vec[CHOOSE i \in DOMAIN vec : vec[i].payee = p].nVotes
    ELSE 0

VotesFor(votes, h, p) == {v \in votes : v.h = h /\ v.payee = p}

\* A tally lists a payee once, so that its votes are never split.
PayeesDistinct(tallies) ==
    \A h \in Heights : tallies[h] /= None =>
        \A i, j \in DOMAIN tallies[h] : tallies[h][i].payee = tallies[h][j].payee => i = j

\* No tally misses a vote, and a recent one has no more than there are.
Agrees(votes, tallies) ==
    \A h \in Heights, p \in Payees \cup {NoPayee} :
        /\ VotesIn(tallies[h], p) >= Cardinality(VotesFor(votes, h, p))
        /\ Recent(h) => VotesIn(tallies[h], p) = Cardinality(VotesFor(votes, h, p))

\* Recorded, but not counted yet.
Uncounted == {adding[c].vote : c \in {d \in Callers : Recorded(d)}}

\* The tally of a height is the recorded votes for it.  No vote is ever lost
\* between AddWinningMasternode's two halves, a cleaning, a reorganisation, a
\* restart and a crash, and none is counted twice or without being recorded,
\* unless the tip has been so far above its height that CleanPaymentList may
\* have come in between the halves.
TalliesConsistent ==
    /\ TypeOK
    /\ PayeesDistinct(mapMasternodeBlocks)
    /\ Agrees(mapMasternodePayeeVotes \ Uncounted, mapMasternodeBlocks)

\* A payee that a block is rejected over has that many different masternodes
\* behind it, although the same masternode may vote for several payees.
EnforcedIsBacked ==
    \A h \in Heights, p \in Payees :
        Recent(h) /\ VotesIn(mapMasternodeBlocks[h], p) >= SIGNATURES_REQUIRED =>
            Cardinality({mn \in Masternodes : [mn |-> mn, h |-> h, payee |-> p]
                                                  \in mapMasternodePayeeVotes})
                >= SIGNATURES_REQUIRED

\* The payee that FillBlockPayee puts into a template passes the node's own
\* check, whatever votes there are for that height.
TemplateAccepted ==
    \A h \in Heights : mapMasternodeBlocks[h] \notin {None, <<>>} =>
        IsTransactionValid(mapMasternodeBlocks[h], {GetPayee(mapMasternodeBlocks[h])})
=============================================================================
