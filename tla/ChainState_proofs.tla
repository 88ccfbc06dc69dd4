-------------------------- MODULE ChainState_proofs --------------------------
(***************************************************************************)
(* Proofs for ChainState, for any block tree, verdicts and addresses.      *)
(*                                                                         *)
(* What is on disk can be loaded because of what memory and disk have in   *)
(* common at every step: entries on disk never say more than those in      *)
(* memory, entries that say less are marked to be written, and a block     *)
(* whose scripts were checked since the last flush is still active, so     *)
(* that ConnectBlock, which writes a single entry before it knows the      *)
(* result, never writes an entry that its parent does not support.         *)
(*                                                                         *)
(* The best chain is active because every block that could replace the tip *)
(* is covered: it, or a block above it that can be connected and has at    *)
(* least its work, is still a candidate.                                   *)
(***************************************************************************)
EXTENDS ChainState, TLAPS, FiniteSetTheorems, WellFoundedInduction

-----------------------------------------------------------------------------
(* The block tree.                                                         *)

\* A set of blocks has an element that is first in a strict order R.
LEMMA FirstBlock ==
    ASSUME NEW R, NEW T \in SUBSET Blocks, T /= {},
           \A a \in T : <<a, a>> \notin R,
           \A a, b, c \in T : <<a, b>> \in R /\ <<b, c>> \in R => <<a, c>> \in R
    PROVE  \E m \in T : \A c \in T : <<c, m>> \notin R
<1> DEFINE Before(m) == {c \in T : <<c, m>> \in R}
           F == {Before(m) : m \in T}
<1>1. IsFiniteSet(T)
  BY ChainAssumption, FS_Subset
<1>2. F \subseteq FiniteSubsetsOf(T) /\ F /= {}
  <2>1. \A m \in T : Before(m) \in SUBSET T
    OBVIOUS
  <2>2. \A m \in T : IsFiniteSet(Before(m))
    BY <1>1, <2>1, FS_Subset
  <2>3. \A m \in T : Before(m) \in FiniteSubsetsOf(T)
    BY <2>1, <2>2 DEF FiniteSubsetsOf
  <2> HIDE DEF Before
  <2> QED
    BY <2>3
<1>3. PICK A \in F : \A B \in F : ~ (<<B, A>> \in StrictSubsetOrdering(T))
  <2> HIDE DEF F
  <2> QED
    BY <1>2, FS_StrictSubsetOrderingWellFounded, WFMin
<1>4. PICK m \in T : A = Before(m)
  OBVIOUS
<1>5. ASSUME NEW k \in Before(m) PROVE FALSE
  <2>1. k \in T /\ <<k, m>> \in R
    BY <1>5
  <2>2. Before(k) \subseteq Before(m)
    BY <2>1
  <2>3. k \notin Before(k)
    BY <2>1
  <2>4. Before(k) \in SUBSET T /\ Before(m) \in SUBSET T /\ Before(k) /= Before(m)
    BY <1>5, <2>3
  <2>5. <<Before(k), Before(m)>> \in StrictSubsetOrdering(T)
    <3> HIDE DEF Before
    <3> QED
      BY <2>2, <2>4 DEF StrictSubsetOrdering
  <2> QED
    BY <1>3, <1>4, <2>1, <2>5
<1> QED
  BY <1>5

\* A set of blocks has one whose parent is not in it.
LEMMA LowestBlock ==
    ASSUME NEW T \in SUBSET Blocks, T /= {}
    PROVE  \E m \in T : m = Genesis \/ Parent[m] \in Blocks \ T
<1> DEFINE R == {p \in Blocks \X Blocks : nChainWork[p[1]] < nChainWork[p[2]]}
<1>1. \A a, b \in Blocks : <<a, b>> \in R <=> nChainWork[a] < nChainWork[b]
  OBVIOUS
<1>2. \A a \in Blocks : nChainWork[a] \in Nat
  BY ChainAssumption
<1> HIDE DEF R
<1>3. \A a \in T : <<a, a>> \notin R
  BY <1>1, <1>2
<1>4. \A a, b, c \in T : <<a, b>> \in R /\ <<b, c>> \in R => <<a, c>> \in R
  BY <1>1, <1>2
<1>5. PICK m \in T : \A c \in T : <<c, m>> \notin R
  BY <1>3, <1>4, FirstBlock
<1>6. m /= Genesis => Parent[m] \in Blocks /\ nChainWork[Parent[m]] < nChainWork[m]
  BY ChainAssumption
<1> QED
  BY <1>1, <1>5, <1>6

LEMMA ParentStep ==
    ASSUME NEW b \in Blocks \ {Genesis}
    PROVE  /\ Parent[b] \in Blocks
           /\ Ancestors[b] = Ancestors[Parent[b]] \cup {b}
           /\ b \notin Ancestors[Parent[b]]
           /\ nChainWork[Parent[b]] < nChainWork[b]
BY ChainAssumption

LEMMA OwnAncestor == \A b \in Blocks : b \in Ancestors[b] /\ Ancestors[b] \subseteq Blocks
<1> TAKE b \in Blocks
<1>1. Ancestors[b] \subseteq Blocks
  BY ChainAssumption
<1>2. CASE b = Genesis
  BY <1>1, <1>2, ChainAssumption
<1>3. CASE b /= Genesis
  BY <1>1, <1>3, ParentStep
<1> QED
  BY <1>2, <1>3

LEMMA GenesisFirst == \A b \in Blocks : Genesis \in Ancestors[b]
<1> DEFINE T == {b \in Blocks : Genesis \notin Ancestors[b]}
<1> SUFFICES ASSUME T /= {} PROVE FALSE
  OBVIOUS
<1>1. PICK m \in T : m = Genesis \/ Parent[m] \in Blocks \ T
  <2> HIDE DEF T
  <2>1. T \in SUBSET Blocks
    BY DEF T
  <2> QED
    BY <2>1, LowestBlock
<1>2. m /= Genesis
  BY ChainAssumption
<1> QED
  BY <1>1, <1>2, ParentStep

LEMMA AncestorsTransitive ==
    \A b \in Blocks : \A a \in Ancestors[b] : Ancestors[a] \subseteq Ancestors[b]
<1> DEFINE T == {b \in Blocks : \E a \in Ancestors[b] : ~ (Ancestors[a] \subseteq Ancestors[b])}
<1> SUFFICES ASSUME T /= {} PROVE FALSE
  OBVIOUS
<1>1. PICK m \in T : m = Genesis \/ Parent[m] \in Blocks \ T
  <2> HIDE DEF T
  <2>1. T \in SUBSET Blocks
    BY DEF T
  <2> QED
    BY <2>1, LowestBlock
<1>2. PICK a \in Ancestors[m] : ~ (Ancestors[a] \subseteq Ancestors[m])
  OBVIOUS
<1>3. m \in Blocks /\ a /= m
  BY <1>2
<1>4. m /= Genesis
  BY <1>2, <1>3, ChainAssumption
<1> QED
  BY <1>1, <1>2, <1>3, <1>4, ParentStep

\* Of two blocks of one chain one comes before the other.
LEMMA AncestorsOrdered ==
    \A b \in Blocks : \A a, c \in Ancestors[b] : a \in Ancestors[c] \/ c \in Ancestors[a]
<1> DEFINE T == {b \in Blocks : \E a, c \in Ancestors[b] :
                                    a \notin Ancestors[c] /\ c \notin Ancestors[a]}
<1> SUFFICES ASSUME T /= {} PROVE FALSE
  OBVIOUS
<1>1. PICK m \in T : m = Genesis \/ Parent[m] \in Blocks \ T
  <2> HIDE DEF T
  <2>1. T \in SUBSET Blocks
    BY DEF T
  <2> QED
    BY <2>1, LowestBlock
<1>2. PICK a \in Ancestors[m], c \in Ancestors[m] : a \notin Ancestors[c] /\ c \notin Ancestors[a]
  OBVIOUS
<1>3. m \in Blocks /\ a /= m /\ c /= m
  BY <1>2, OwnAncestor
<1>4. m /= Genesis
  BY <1>2, <1>3, ChainAssumption
<1> QED
  BY <1>1, <1>2, <1>3, <1>4, ParentStep

LEMMA WorkGrows ==
    \A b \in Blocks : \A a \in Ancestors[b] \ {b} : nChainWork[a] < nChainWork[b]
<1> DEFINE T == {b \in Blocks : \E a \in Ancestors[b] \ {b} : ~ (nChainWork[a] < nChainWork[b])}
<1> SUFFICES ASSUME T /= {} PROVE FALSE
  OBVIOUS
<1>1. PICK m \in T : m = Genesis \/ Parent[m] \in Blocks \ T
  <2> HIDE DEF T
  <2>1. T \in SUBSET Blocks
    BY DEF T
  <2> QED
    BY <2>1, LowestBlock
<1>2. PICK a \in Ancestors[m] \ {m} : ~ (nChainWork[a] < nChainWork[m])
  OBVIOUS
<1>3. m \in Blocks /\ m /= Genesis
  BY <1>2, ChainAssumption
<1>4. /\ Parent[m] \in Blocks \ T /\ a \in Ancestors[Parent[m]]
      /\ nChainWork[Parent[m]] < nChainWork[m]
  BY <1>1, <1>2, <1>3, ParentStep
<1>5. a = Parent[m] \/ nChainWork[a] < nChainWork[Parent[m]]
  BY <1>4
<1>6. /\ nChainWork[a] \in Nat /\ nChainWork[m] \in Nat /\ nChainWork[Parent[m]] \in Nat
  BY <1>2, <1>3, <1>4, OwnAncestor, ChainAssumption
<1> HIDE DEF T
<1> QED
  BY <1>2, <1>4, <1>5, <1>6

\* Two blocks are not both before each other.
LEMMA AncestorsAntisymmetric ==
    \A a, b \in Blocks : a \in Ancestors[b] /\ b \in Ancestors[a] => a = b
<1> SUFFICES ASSUME NEW a \in Blocks, NEW b \in Blocks, a \in Ancestors[b], b \in Ancestors[a],
                    a /= b
             PROVE  FALSE
  OBVIOUS
<1>1. nChainWork[a] < nChainWork[b] /\ nChainWork[b] < nChainWork[a]
  BY WorkGrows
<1>2. nChainWork[a] \in Nat /\ nChainWork[b] \in Nat
  BY ChainAssumption
<1> QED
  BY <1>1, <1>2

\* The height of a block is one more than its parent's.
LEMMA Heights ==
    /\ Height(Genesis) = 0
    /\ \A b \in Blocks : Height(b) \in 0 .. Cardinality(Blocks) - 1
    /\ \A b \in Blocks \ {Genesis} : Height(b) = Height(Parent[b]) + 1
    /\ Cardinality(Blocks) \in Nat \ {0}
<1>1. \A b \in Blocks : IsFiniteSet(Ancestors[b])
  BY ChainAssumption, OwnAncestor, FS_Subset
<1>2. \A b \in Blocks : Cardinality(Ancestors[b]) \in Nat
  BY <1>1, FS_CardinalityType
<1>3. \A b \in Blocks : Cardinality(Ancestors[b]) <= Cardinality(Blocks)
  BY ChainAssumption, OwnAncestor, FS_Subset
<1>4. Cardinality(Blocks) \in Nat
  BY ChainAssumption, FS_CardinalityType
<1>5. \A b \in Blocks : Cardinality(Ancestors[b]) /= 0
  BY <1>1, OwnAncestor, FS_EmptySet
<1>6. Height(Genesis) = 0
  <2>1. Cardinality(Ancestors[Genesis]) = 1
    BY ChainAssumption, FS_Singleton
  <2> QED
    BY <2>1 DEF Height
<1>7. ASSUME NEW b \in Blocks \ {Genesis} PROVE Height(b) = Height(Parent[b]) + 1
  <2>1. Cardinality(Ancestors[b]) = Cardinality(Ancestors[Parent[b]]) + 1
    BY <1>1, ParentStep, FS_AddElement
  <2>2. Cardinality(Ancestors[Parent[b]]) \in Nat
    BY <1>2, ParentStep
  <2> QED
    BY <2>1, <2>2 DEF Height
<1>8. ASSUME NEW b \in Blocks PROVE Height(b) \in 0 .. Cardinality(Blocks) - 1
  BY <1>2, <1>3, <1>4, <1>5 DEF Height
<1>9. Genesis \in Blocks
  BY ChainAssumption
<1> QED
  BY <1>3, <1>4, <1>5, <1>2, <1>6, <1>7, <1>8, <1>9

\* A chain has a block at every height up to its last.
LEMMA BlockAtHeight ==
    \A b \in Blocks : \A k \in 0 .. Height(b) : \E a \in Ancestors[b] : Height(a) = k
<1> DEFINE T == {b \in Blocks : \E k \in 0 .. Height(b) : \A a \in Ancestors[b] : Height(a) /= k}
<1> SUFFICES ASSUME T /= {} PROVE FALSE
  OBVIOUS
<1>1. PICK m \in T : m = Genesis \/ Parent[m] \in Blocks \ T
  <2> HIDE DEF T
  <2>1. T \in SUBSET Blocks
    BY DEF T
  <2> QED
    BY <2>1, LowestBlock
<1>2. PICK k \in 0 .. Height(m) : \A a \in Ancestors[m] : Height(a) /= k
  OBVIOUS
<1>3. m \in Blocks /\ Height(m) \in Nat /\ m \in Ancestors[m] /\ Height(Genesis) = 0
  BY Heights, OwnAncestor
<1>4. k /= Height(m)
  BY <1>2, <1>3
<1>5. m /= Genesis
  BY <1>2, <1>3, <1>4
<1>6. /\ Height(m) = Height(Parent[m]) + 1 /\ Parent[m] \in Blocks \ T
      /\ Ancestors[Parent[m]] \subseteq Ancestors[m] /\ Height(Parent[m]) \in Nat
  BY <1>1, <1>3, <1>5, Heights, ParentStep
<1>7. k \in 0 .. Height(Parent[m])
  BY <1>2, <1>3, <1>4, <1>6
<1> QED
  BY <1>2, <1>6, <1>7

-----------------------------------------------------------------------------
(* What the searches find.                                                 *)

LEMMA WorseIsOrder ==
    ASSUME nSequenceId \in [Blocks -> Int]
    PROVE  /\ \A a \in Blocks : ~ Worse(a, a)
           /\ \A a, b, c \in Blocks : Worse(a, b) /\ Worse(b, c) => Worse(a, c)
<1>1. \A a \in Blocks : nChainWork[a] \in Nat /\ Address[a] \in Nat /\ nSequenceId[a] \in Int
  BY ChainAssumption
<1> QED
  BY <1>1 DEF Worse, SortsBefore

\* FindMostWorkChain finds the best of the candidates without failed blocks.
LEMMA MostWorkBest ==
    ASSUME nSequenceId \in [Blocks -> Int], setBlockIndexCandidates \subseteq Blocks,
           NEW u \in setBlockIndexCandidates, Usable(u), None \notin Blocks
    PROVE  /\ MostWork /= None
           /\ MostWork \in setBlockIndexCandidates /\ Usable(MostWork)
           /\ \A d \in setBlockIndexCandidates : Usable(d) => ~Worse(MostWork, d)
<1> DEFINE T == {c \in setBlockIndexCandidates : Usable(c)}
           R == {p \in Blocks \X Blocks : Worse(p[2], p[1])}
<1>1. \A a, b \in Blocks : <<a, b>> \in R <=> Worse(b, a)
  OBVIOUS
<1>2. T \in SUBSET Blocks
  OBVIOUS
<1>3. T /= {} /\ \A d \in setBlockIndexCandidates : Usable(d) => d \in T
  OBVIOUS
<1> HIDE DEF R, T
<1>4. \A a \in T : <<a, a>> \notin R
  BY <1>1, <1>2, WorseIsOrder
<1>5. \A a, b, c \in T : <<a, b>> \in R /\ <<b, c>> \in R => <<a, c>> \in R
  BY <1>1, <1>2, WorseIsOrder
<1>6. PICK m \in T : \A c \in T : <<c, m>> \notin R
  BY <1>2, <1>3, <1>4, <1>5, FirstBlock
<1>7. \A c \in T : ~ Worse(m, c)
  BY <1>1, <1>2, <1>6
<1>8. MostWork = CHOOSE c \in T : \A d \in T : ~ Worse(c, d)
  BY <1>3 DEF T, MostWork
<1>9. MostWork \in T /\ \A d \in T : ~ Worse(MostWork, d)
  BY <1>7, <1>8
<1> QED
  BY <1>2, <1>3, <1>9 DEF T

\* It finds one of them, or nothing.
LEMMA MostWorkUsable ==
    ASSUME nSequenceId \in [Blocks -> Int], setBlockIndexCandidates \subseteq Blocks,
           MostWork /= None
    PROVE  MostWork \in setBlockIndexCandidates /\ Usable(MostWork)
<1>1. PICK u \in setBlockIndexCandidates : Usable(u)
  BY DEF MostWork
<1> QED
  BY <1>1, MostWorkBest, ChainAssumption

\* The block that DisconnectBlocksAndReprocess goes back to.
LEMMA BackIsAncestor ==
    ASSUME tip \in Blocks, NEW n \in Nat
    PROVE  Back(n) \in Ancestors[tip]
<1> DEFINE k == IF Height(tip) > n THEN Height(tip) - n ELSE 0
<1>1. k \in 0 .. Height(tip)
  BY Heights
<1> HIDE DEF k
<1>2. \E a \in Ancestors[tip] : Height(a) = k
  BY <1>1, BlockAtHeight
<1>3. Back(n) = CHOOSE a \in Ancestors[tip] : Height(a) = k
  BY DEF Back, k
<1> QED
  BY <1>2, <1>3

LEMMA PositionTyped ==
    ASSUME NEW b \in Blocks
    PROVE  Position(b) \in Nat
<1> DEFINE S == {a \in OnDisk : \/ Height(a) < Height(b)
                                \/ Height(a) = Height(b) /\ Address[a] < Address[b]}
<1>1. S \in SUBSET Blocks
  BY DEF OnDisk
<1>2. Cardinality(S) \in Nat
  BY <1>1, ChainAssumption, FS_Subset, FS_CardinalityType
<1> QED
  BY <1>2 DEF Position

\* The entries before the last are all the others.
LEMMA LastEntryExists ==
    ASSUME OnDisk /= {}
    PROVE  LastEntry \in OnDisk /\ Position(LastEntry) = Cardinality(OnDisk) - 1
<1> DEFINE Sorts(a, b) == \/ Height(a) < Height(b)
                          \/ Height(a) = Height(b) /\ Address[a] < Address[b]
           R == {p \in Blocks \X Blocks : Sorts(p[2], p[1])}
<1>1. OnDisk \in SUBSET Blocks /\ IsFiniteSet(OnDisk)
  <2>1. OnDisk \in SUBSET Blocks
    BY DEF OnDisk
  <2> QED
    BY <2>1, ChainAssumption, FS_Subset
<1>2. \A a, b \in Blocks : <<a, b>> \in R <=> Sorts(b, a)
  OBVIOUS
<1>3. \A a \in Blocks : Height(a) \in Nat /\ Address[a] \in Nat
  BY Heights, ChainAssumption
<1>4. /\ \A a \in Blocks : ~ Sorts(a, a)
      /\ \A a, b, c \in Blocks : Sorts(a, b) /\ Sorts(b, c) => Sorts(a, c)
      /\ \A a, b \in Blocks : a = b \/ Sorts(a, b) \/ Sorts(b, a)
  <2>1. \A a, b \in Blocks : Address[a] = Address[b] => a = b
    BY ChainAssumption
  <2> HIDE DEF R
  <2> QED
    BY <1>3, <2>1
<1>5. \A b : Position(b) = Cardinality({a \in OnDisk : Sorts(a, b)})
  BY DEF Position
<1> HIDE DEF R, Sorts
<1>6. \A a \in OnDisk : <<a, a>> \notin R
  BY <1>1, <1>2, <1>4
<1>7. \A a, b, c \in OnDisk : <<a, b>> \in R /\ <<b, c>> \in R => <<a, c>> \in R
  BY <1>1, <1>2, <1>4
<1>8. PICK m \in OnDisk : \A c \in OnDisk : <<c, m>> \notin R
  BY <1>1, <1>6, <1>7, FirstBlock
<1>9. {a \in OnDisk : Sorts(a, m)} = OnDisk \ {m}
  BY <1>1, <1>2, <1>4, <1>8
<1>10. Position(m) = Cardinality(OnDisk) - 1
  BY <1>1, <1>5, <1>8, <1>9, FS_RemoveElement
<1>11. LastEntry = CHOOSE b \in OnDisk : Position(b) = Cardinality(OnDisk) - 1
  BY DEF LastEntry, Entry
<1> QED
  BY <1>8, <1>10, <1>11

\* With two entries the last is not the genesis block.
LEMMA LastEntryAfterGenesis ==
    ASSUME Cardinality(OnDisk) > 1
    PROVE  LastEntry \in OnDisk \ {Genesis}
<1>1. OnDisk /= {}
  BY FS_EmptySet
<1>2. LastEntry \in OnDisk /\ Position(LastEntry) = Cardinality(OnDisk) - 1
  BY <1>1, LastEntryExists
<1>3. Position(Genesis) = 0
  <2>1. \A a \in OnDisk : ~ (\/ Height(a) < Height(Genesis)
                             \/ Height(a) = Height(Genesis) /\ Address[a] < Address[Genesis])
    <3> TAKE a \in OnDisk
    <3>1. a \in Blocks
      BY DEF OnDisk
    <3>2. Height(Genesis) = 0 /\ Height(a) \in Nat /\ Genesis \in Blocks
      BY <3>1, Heights, ChainAssumption
    <3>3. Address[Genesis] \in Nat
      BY ChainAssumption
    <3>4. CASE a = Genesis
      BY <3>2, <3>3, <3>4
    <3>5. CASE a /= Genesis
      <4>1. Height(a) = Height(Parent[a]) + 1 /\ Height(Parent[a]) \in Nat
        BY <3>1, <3>5, Heights, ParentStep
      <4> QED
        BY <3>2, <4>1
    <3> QED
      BY <3>4, <3>5
  <2>2. {a \in OnDisk : \/ Height(a) < Height(Genesis)
                        \/ Height(a) = Height(Genesis) /\ Address[a] < Address[Genesis]} = {}
    BY <2>1
  <2> QED
    BY <2>2, FS_EmptySet DEF Position
<1>4. IsFiniteSet(OnDisk)
  <2>1. OnDisk \in SUBSET Blocks
    BY DEF OnDisk
  <2> QED
    BY <2>1, ChainAssumption, FS_Subset
<1>5. Cardinality(OnDisk) \in Nat
  BY <1>4, FS_CardinalityType
<1> QED
  BY <1>2, <1>3, <1>5

\* The repair starts from an entry that has a parent.
LEMMA LastMetaExists ==
    ASSUME Cardinality(OnDisk) > 1, disk.best \in Blocks
    PROVE  LastMeta \in OnDisk \ {Genesis}
<1> DEFINE past   == {b \in OnDisk : Position(b) > disk.heightLast}
           higher == {b \in past : Height(b) > Height(disk.best)}
           R == {p \in Blocks \X Blocks : Position(p[1]) < Position(p[2])}
<1>1. CASE higher = {}
  BY <1>1, LastEntryAfterGenesis DEF LastMeta
<1>2. CASE higher /= {}
  <2>1. higher \in SUBSET Blocks
    BY DEF OnDisk
  <2>2. \A a, b \in Blocks : <<a, b>> \in R <=> Position(a) < Position(b)
    OBVIOUS
  <2>3. \A a \in higher : Position(a) \in Nat
    BY <2>1, PositionTyped
  <2>4. LastMeta = CHOOSE b \in higher : \A a \in higher : Position(b) <= Position(a)
    BY <1>2 DEF LastMeta
  <2>5. \A b \in higher : b \in OnDisk \ {Genesis}
    <3> TAKE b \in higher
    <3>1. b \in OnDisk /\ b \in Blocks /\ Height(b) > Height(disk.best)
      BY DEF OnDisk
    <3>2. Height(b) \in Nat /\ Height(disk.best) \in Nat /\ Height(Genesis) = 0
      BY <3>1, Heights
    <3> QED
      BY <3>1, <3>2
  <2> HIDE DEF higher, R
  <2>6. \A a \in higher : <<a, a>> \notin R
    BY <2>1, <2>2, <2>3
  <2>7. \A a, b, c \in higher : <<a, b>> \in R /\ <<b, c>> \in R => <<a, c>> \in R
    BY <2>1, <2>2, <2>3
  <2>8. PICK m \in higher : \A c \in higher : <<c, m>> \notin R
    BY <1>2, <2>1, <2>6, <2>7, FirstBlock
  <2>9. ASSUME NEW c \in higher PROVE Position(m) <= Position(c)
    <3>1. ~ (Position(c) < Position(m))
      BY <2>1, <2>2, <2>8
    <3>2. Position(c) \in Nat /\ Position(m) \in Nat
      BY <2>3
    <3> QED
      BY <3>1, <3>2
  <2> QED
    BY <2>4, <2>5, <2>9
<1> QED
  BY <1>1, <1>2

-----------------------------------------------------------------------------
(* The invariant.                                                          *)

\* The flags that are never taken back.
Lasting == {"TREE", "DATA", "SCRIPTS"}

Fails == {"FAILED_VALID", "FAILED_CHILD"}

\* The node has an index in memory.
Up == mode /= "down"

\* Every number that was given out belongs to a linked block.
Counted == nBlockSequenceId <= Cardinality(linked) + 1

\* Where the tip and the coins are; a repair and a failed flush separate them.
TipsRight ==
    /\ Up => tip \in Blocks /\ coins \in linked
    /\ ~Up => tip = None /\ coins = None /\ step = None /\ \A b \in Blocks : nStatus[b] = {}
    /\ mode = "run" => coins = tip
    /\ step /= None => mode \in {"run", "fixing"}

\* A step leads to a linked block over blocks that are not failed, and does
\* not leave the blocks that both chains have.
StepRight ==
    step /= None =>
        /\ step.target \in linked
        /\ \A a \in Ancestors[step.target] \ Ancestors[step.old] : ~Failed(a)
        /\ Ancestors[step.target] \cap Ancestors[step.old] \subseteq Ancestors[tip]

\* No entry without a header.
Whole(index) == \A b \in Blocks : index[b] /= {} => "TREE" \in index[b]

\* The chain up to t has its data, and its scripts were checked.
Complete(index, t) ==
    \A a \in Ancestors[t] :
        "TREE" \in index[a] /\ "DATA" \in index[a] /\ (a /= Genesis => "SCRIPTS" \in index[a])

\* index says no more than status, and what it does not say is to be written.
Behind(index, status, d) ==
    \A b \in Blocks : \A f \in Lasting :
        /\ f \in index[b] => f \in status[b]
        /\ f \in status[b] => f \in index[b] \/ b \in d

\* What of disk and memory is complete, and how they are related.
DiskRight ==
    /\ Whole(nStatus) /\ Whole(disk.index)
    /\ Complete(disk.index, disk.best)
    /\ Up => Complete(nStatus, coins)
    /\ Up => Behind(disk.index, nStatus, dirty)

Inv == TypeOK /\ Counted /\ LinkedExact /\ TipsRight /\ StepRight /\ DiskRight

-----------------------------------------------------------------------------
(* Flushing.                                                               *)

Disks == [index : [Blocks -> SUBSET Flags], best : Blocks,
          heightLast : 0 .. Cardinality(Blocks) - 1, prepared : BOOLEAN]

\* What FlushStateToDisk leaves on disk when it ends.
FlushedAs(new, status, d, best, last) ==
    /\ new \in Disks
    /\ new.best = best /\ new.heightLast = last /\ new.prepared = disk.prepared
    /\ \A b \in Blocks : new.index[b] = IF b \in d THEN status[b] ELSE disk.index[b]

LEMMA FlushedTyped ==
    ASSUME disk \in Disks, NEW status \in [Blocks -> SUBSET Flags], NEW d,
           NEW best \in Blocks, NEW last \in 0 .. Cardinality(Blocks) - 1
    PROVE  FlushedAs(Flushed(status, d, best, last), status, d, best, last)
<1> DEFINE index == [b \in Blocks |-> IF b \in d THEN status[b] ELSE disk.index[b]]
<1>1. index \in [Blocks -> SUBSET Flags]
  BY DEF Disks
<1>2. \A b \in Blocks : index[b] = IF b \in d THEN status[b] ELSE disk.index[b]
  OBVIOUS
<1>3. Flushed(status, d, best, last) =
         [disk EXCEPT !.index = index, !.best = best, !.heightLast = last]
  BY DEF Flushed
<1> HIDE DEF index
<1> QED
  BY <1>1, <1>2, <1>3 DEF Disks, FlushedAs

\* A disk that can be loaded and lacks nothing of status.
WrittenAs(new, status) ==
    /\ new \in Disks
    /\ Behind(new.index, status, {})
    /\ Whole(new.index)
    /\ Complete(new.index, new.best)

\* A flush of all entries that differ leaves nothing behind.
LEMMA FlushedAll ==
    ASSUME disk \in Disks, NEW status \in [Blocks -> SUBSET Flags], NEW d,
           NEW best \in Blocks, NEW last \in 0 .. Cardinality(Blocks) - 1,
           Behind(disk.index, status, d), Whole(disk.index), Whole(status),
           Complete(status, best)
    PROVE  WrittenAs(Flushed(status, d, best, last), status)
<1> DEFINE new == Flushed(status, d, best, last)
<1>0. FlushedAs(new, status, d, best, last)
  BY FlushedTyped
<1> HIDE DEF new
<1>1. new.best = best /\ new \in Disks
  BY <1>0 DEF FlushedAs
<1>2. \A b \in Blocks : new.index[b] = IF b \in d THEN status[b] ELSE disk.index[b]
  BY <1>0 DEF FlushedAs
<1>3. \A b \in Blocks : \A f \in Lasting : f \in new.index[b] <=> f \in status[b]
  BY <1>2 DEF Behind
<1>4. Behind(new.index, status, {})
  BY <1>3 DEF Behind
<1>5. Whole(new.index)
  BY <1>2 DEF Whole
<1>6. Complete(new.index, new.best)
  BY <1>1, <1>3, OwnAncestor DEF Complete, Lasting
<1> QED
  BY <1>1, <1>4, <1>5, <1>6 DEF new, WrittenAs

-----------------------------------------------------------------------------
(* The process ends.                                                       *)

\* With nothing in memory only the disk matters.
LEMMA ExitInv ==
    ASSUME Exit, disk' \in Disks, Whole(disk'.index), Complete(disk'.index, disk'.best)
    PROVE  Inv'
<1> USE DEF Exit
<1>1. \A b \in Blocks : nStatus'[b] = {}
  OBVIOUS
<1>2. TypeOK'
  <2>1. nSequenceId' \in [Blocks -> 0 .. nBlockSequenceId' - 1]
    BY DEF NoSequence
  <2>2. nBlockSequenceId' \in 1 .. Cardinality(Blocks) + 1
    BY Heights
  <2>3. nHeightLast' \in 0 .. Cardinality(Blocks) - 1
    BY Heights
  <2> QED
    BY <2>1, <2>2, <2>3 DEF TypeOK, Disks
<1>3. Counted'
  BY FS_EmptySet DEF Counted
<1>4. LinkedExact'
  BY <1>1, OwnAncestor DEF LinkedExact
<1>5. TipsRight'
  BY <1>1 DEF TipsRight, Up
<1>6. StepRight'
  BY DEF StepRight
<1>7. DiskRight'
  BY <1>1 DEF DiskRight, Up, Whole
<1> QED
  BY <1>2, <1>3, <1>4, <1>5, <1>6, <1>7 DEF Inv

LEMMA DiskTyped == TypeOK => disk \in Disks
BY DEF TypeOK, Disks

\* What Inv says of a node that is up.
LEMMA UpFacts ==
    ASSUME Inv, Up
    PROVE  /\ tip \in Blocks /\ coins \in Blocks /\ coins \in linked
           /\ nStatus \in [Blocks -> SUBSET Flags] /\ disk \in Disks /\ dirty \subseteq Blocks
           /\ nHeightLast \in 0 .. Cardinality(Blocks) - 1
           /\ Whole(nStatus) /\ Whole(disk.index)
           /\ Complete(disk.index, disk.best) /\ Complete(nStatus, coins)
           /\ Behind(disk.index, nStatus, dirty)
           /\ mode = "run" => coins = tip
BY DEF Inv, TypeOK, TipsRight, DiskRight, Disks

\* Only failure flags are different.
SameLasting(old, new) == \A b \in Blocks : \A f \in Lasting : f \in new[b] <=> f \in old[b]

LEMMA SameLastingKeeps ==
    ASSUME NEW old, NEW new, SameLasting(old, new)
    PROVE  /\ \A t \in Blocks : Complete(old, t) => Complete(new, t)
           /\ \A index, d, e : Behind(index, old, d) /\ d \subseteq e => Behind(index, new, e)
BY OwnAncestor DEF SameLasting, Complete, Behind, Lasting

LEMMA CompleteBelow ==
    ASSUME NEW index, NEW t \in Blocks, NEW a \in Ancestors[t], Complete(index, t)
    PROVE  a \in Blocks /\ Complete(index, a)
BY OwnAncestor, AncestorsTransitive DEF Complete

\* Blocks that are marked keep their other flags.
LEMMA InvalidatedKeeps ==
    ASSUME nStatus \in [Blocks -> SUBSET Flags], Whole(nStatus), NEW b, NEW S,
           \A a \in S \cup {b} : a \in Blocks => "TREE" \in nStatus[a]
    PROVE  /\ Invalidated(b, S) \in [Blocks -> SUBSET Flags]
           /\ SameLasting(nStatus, Invalidated(b, S))
           /\ Whole(Invalidated(b, S))
<1> DEFINE new == Invalidated(b, S)
<1>1. new = [a \in Blocks |-> nStatus[a] \cup (IF a = b THEN {"FAILED_VALID"} ELSE {})
                                \cup (IF a \in S THEN {"FAILED_CHILD"} ELSE {})]
  BY DEF Invalidated
<1>2. new \in [Blocks -> SUBSET Flags]
  BY <1>1 DEF Flags
<1>3. SameLasting(nStatus, new)
  BY <1>1 DEF SameLasting, Lasting
<1>4. Whole(new)
  BY <1>1 DEF Whole
<1> QED
  BY <1>2, <1>3, <1>4

LEMMA StoppingFacts == ASSUME Stopping PROVE Exit /\ Up
BY DEF Stopping, Free, Up

\* A disk that only the flag about the shutdown tells from new.
LEMMA Prepared ==
    ASSUME NEW new \in Disks, disk' = [new EXCEPT !.prepared = TRUE]
    PROVE  disk' \in Disks /\ disk'.index = new.index /\ disk'.best = new.best
BY DEF Disks

LEMMA ShutdownInv == ASSUME Inv, Shutdown PROVE Inv'
<1> DEFINE new == Flushed(nStatus, dirty, coins, nHeightLast)
<1>1. Exit /\ Up
  BY StoppingFacts DEF Shutdown
<1>2. WrittenAs(new, nStatus)
  BY <1>1, UpFacts, FlushedAll
<1>3. disk' = [new EXCEPT !.prepared = TRUE]
  BY DEF Shutdown
<1> HIDE DEF new
<1>4. disk' \in Disks /\ disk'.index = new.index /\ disk'.best = new.best
  BY <1>2, <1>3, Prepared DEF WrittenAs
<1>5. Whole(disk'.index) /\ Complete(disk'.index, disk'.best)
  BY <1>2, <1>4 DEF WrittenAs
<1> QED
  BY <1>1, <1>4, <1>5, ExitInv

\* A flush that ends early leaves the coins and writes the first entries.
LEMMA PartlyFlushedAs ==
    ASSUME Inv, Up, NEW new \in PartlyFlushed
    PROVE  /\ new \in Disks /\ new.best = disk.best
           /\ \E S \in FirstDirty : \A a \in Blocks :
                 new.index[a] = IF a \in S THEN nStatus[a] ELSE disk.index[a]
<1>1. disk \in Disks /\ disk.best \in Blocks
  BY UpFacts DEF Disks
<1>2. CASE new = disk
  <2>1. {} \in FirstDirty
    BY DEF FirstDirty
  <2> QED
    BY <1>1, <1>2, <2>1
<1>3. CASE new /= disk
  <2>1. PICK S \in FirstDirty : new = Flushed(nStatus, S, disk.best, nHeightLast)
    BY <1>3 DEF PartlyFlushed
  <2>2. FlushedAs(new, nStatus, S, disk.best, nHeightLast)
    BY <1>1, <2>1, UpFacts, FlushedTyped
  <2> QED
    BY <2>2 DEF FlushedAs
<1> QED
  BY <1>2, <1>3

LEMMA PartlyFlushedRight ==
    ASSUME Inv, Up, NEW new \in PartlyFlushed
    PROVE  new \in Disks /\ Whole(new.index) /\ Complete(new.index, new.best)
<1>1. new \in Disks /\ new.best = disk.best /\ disk.best \in Blocks
  BY PartlyFlushedAs, UpFacts DEF Disks
<1>2. PICK S \in FirstDirty : \A a \in Blocks :
          new.index[a] = IF a \in S THEN nStatus[a] ELSE disk.index[a]
  BY PartlyFlushedAs
<1>3. \A a \in Blocks : \A f \in Lasting : f \in disk.index[a] => f \in new.index[a]
  BY <1>2, UpFacts DEF Behind
<1>4. Whole(new.index)
  BY <1>2, UpFacts DEF Whole
<1>5. Complete(new.index, new.best)
  <2>1. Complete(disk.index, disk.best)
    BY UpFacts
  <2> QED
    BY <1>1, <1>3, <2>1, OwnAncestor DEF Complete, Lasting
<1> QED
  BY <1>1, <1>4, <1>5

LEMMA ShutdownFailsInv == ASSUME Inv, ShutdownFails PROVE Inv'
<1>1. Exit /\ Up
  BY StoppingFacts DEF ShutdownFails
<1>2. PICK new \in PartlyFlushed : disk' = [new EXCEPT !.prepared = TRUE]
  BY DEF ShutdownFails
<1>3. new \in Disks /\ Whole(new.index) /\ Complete(new.index, new.best)
  BY <1>1, PartlyFlushedRight
<1>4. disk' \in Disks /\ disk'.index = new.index /\ disk'.best = new.best
  BY <1>2, <1>3, Prepared
<1> QED
  BY <1>1, <1>3, <1>4, ExitInv

LEMMA CrashInv == ASSUME Inv, Crash PROVE Inv'
<1>1. Exit /\ disk' = disk /\ Up
  BY DEF Crash, Up
<1>2. disk \in Disks /\ Whole(disk.index) /\ Complete(disk.index, disk.best)
  BY <1>1, UpFacts
<1>3. disk' \in Disks /\ Whole(disk'.index) /\ Complete(disk'.index, disk'.best)
  BY <1>1, <1>2
<1> QED
  BY <1>1, <1>3, ExitInv

LEMMA CrashInvalidatingInv ==
    ASSUME Inv, NEW b \in Blocks, CrashInvalidating(b)
    PROVE  Inv'
<1>1. Exit /\ Up /\ mode = "run"
  BY DEF CrashInvalidating, Free, Up
<1>2. PICK t \in ActiveFrom(b) \ {tip} :
          LET S == Ancestors[tip] \ Ancestors[t]
          IN  disk' = Flushed(Invalidated(b, S), dirty \cup S \cup {b}, t, nHeightLast)
  BY DEF CrashInvalidating
<1> DEFINE S == Ancestors[tip] \ Ancestors[t]
           status == Invalidated(b, S)
           d == dirty \cup S \cup {b}
<1>3. t \in Ancestors[tip] /\ b \in Ancestors[t]
  BY <1>2 DEF ActiveFrom
<1>4. tip \in Blocks /\ Complete(nStatus, tip)
  BY <1>1, UpFacts
<1>5. t \in Blocks /\ Complete(nStatus, t)
  BY <1>3, <1>4, CompleteBelow
<1>6. \A a \in S \cup {b} : "TREE" \in nStatus[a]
  BY <1>3, <1>4, <1>5 DEF Complete
<1>7. status \in [Blocks -> SUBSET Flags] /\ SameLasting(nStatus, status) /\ Whole(status)
  BY <1>1, <1>6, UpFacts, InvalidatedKeeps
<1> HIDE DEF S, status
<1>8. Complete(status, t) /\ Behind(disk.index, status, d)
  BY <1>1, <1>5, <1>7, UpFacts, SameLastingKeeps
<1> HIDE DEF d
<1>9. WrittenAs(Flushed(status, d, t, nHeightLast), status)
  BY <1>1, <1>5, <1>7, <1>8, UpFacts, FlushedAll
<1>10. disk' = Flushed(status, d, t, nHeightLast)
  BY <1>2 DEF S, status, d
<1>11. disk' \in Disks /\ Whole(disk'.index) /\ Complete(disk'.index, disk'.best)
  BY <1>9, <1>10 DEF WrittenAs
<1> QED
  BY <1>1, <1>11, ExitInv

LEMMA TornCrashInv == ASSUME Inv, TornCrash PROVE Inv'
<1>1. Exit /\ Up
  BY StoppingFacts DEF TornCrash
<1>2. disk' \in PartlyFlushed
  BY DEF TornCrash
<1>3. disk' \in Disks /\ Whole(disk'.index) /\ Complete(disk'.index, disk'.best)
  BY <1>1, <1>2, PartlyFlushedRight
<1> QED
  BY <1>1, <1>3, ExitInv

-----------------------------------------------------------------------------
(* The node starts.                                                        *)

LEMMA LoadInv ==
    ASSUME Inv, LoadBlockIndex, disk' \in Disks, disk'.index = disk.index, disk'.best = disk.best,
           tip' \in Blocks, setBlockIndexCandidates' \subseteq LoadedLinked,
           mode' \in {"run", "fixing", "fixed", "unfixed", "abort", "broken"},
           mode' = "run" => tip' = disk.best
    PROVE  Inv'
<1>1. /\ nStatus' = disk.index /\ nSequenceId' = NoSequence /\ nBlockSequenceId' = 1
      /\ linked' = LoadedLinked
      /\ mapBlocksUnlinked' = {b \in Blocks : "DATA" \in disk.index[b]} \ LoadedLinked
      /\ coins' = disk.best /\ dirty' = {} /\ nHeightLast' = disk.heightLast /\ step' = None
  BY DEF LoadBlockIndex
<1>2. disk \in Disks /\ Whole(disk.index) /\ Complete(disk.index, disk.best)
  BY DiskTyped DEF Inv, DiskRight
<1>3. /\ disk.index \in [Blocks -> SUBSET Flags] /\ disk.best \in Blocks
      /\ disk.heightLast \in 0 .. Cardinality(Blocks) - 1
  BY <1>2 DEF Disks
<1>4. LoadedLinked \subseteq Blocks /\ disk.best \in LoadedLinked
  BY <1>2, <1>3 DEF LoadedLinked, Complete
<1>5. TypeOK'
  <2>1. nSequenceId' \in [Blocks -> 0 .. nBlockSequenceId' - 1]
    BY <1>1 DEF NoSequence
  <2>2. nBlockSequenceId' \in 1 .. Cardinality(Blocks) + 1
    BY <1>1, Heights
  <2>3. mapBlocksUnlinked' \subseteq Blocks \ linked'
    BY <1>1
  <2>4. disk' \in Disks
    OBVIOUS
  <2> QED
    BY <1>1, <1>3, <1>4, <2>1, <2>2, <2>3, <2>4 DEF TypeOK, Disks
<1>6. Counted'
  <2>1. IsFiniteSet(linked')
    BY <1>1, <1>4, ChainAssumption, FS_Subset
  <2>2. Cardinality(linked') \in Nat
    BY <2>1, FS_CardinalityType
  <2> QED
    BY <1>1, <2>2 DEF Counted
<1>7. LinkedExact'
  BY <1>1 DEF LinkedExact, LoadedLinked
<1>8. TipsRight'
  BY <1>1, <1>4 DEF TipsRight, Up
<1>9. StepRight'
  BY <1>1 DEF StepRight
<1>10. DiskRight'
  <2>1. Behind(disk'.index, nStatus', dirty')
    BY <1>1 DEF Behind
  <2> QED
    BY <1>1, <1>2, <2>1 DEF DiskRight
<1> QED
  BY <1>5, <1>6, <1>7, <1>8, <1>9, <1>10 DEF Inv

LEMMA DiskKept ==
    ASSUME disk \in Disks, NEW p \in BOOLEAN
    PROVE  /\ [disk EXCEPT !.prepared = p] \in Disks
           /\ [disk EXCEPT !.prepared = p].index = disk.index
           /\ [disk EXCEPT !.prepared = p].best = disk.best
BY DEF Disks

LEMMA RestartInv == ASSUME Inv, Restart PROVE Inv'
<1>1. disk \in Disks /\ disk.best \in Blocks
  BY DiskTyped DEF Inv, Disks
<1>2. disk' \in Disks /\ disk'.index = disk.index /\ disk'.best = disk.best
  BY <1>1, DiskKept DEF Restart
<1>3. setBlockIndexCandidates' \subseteq LoadedLinked
  BY DEF Restart, Prune, LoadedCandidates
<1>4. mode' \in {"run", "broken", "abort"} /\ tip' = disk.best /\ LoadBlockIndex
  <2> DEFINE left == Prune(NoSequence, LoadedCandidates, disk.best)
  <2>1. mode' = CASE Orphaned -> "broken" [] ~Orphaned /\ left = {} -> "abort" [] OTHER -> "run"
    BY DEF Restart
  <2> HIDE DEF left
  <2>2. mode' \in {"run", "broken", "abort"}
    BY <2>1
  <2> QED
    BY <2>2 DEF Restart
<1> QED
  BY <1>1, <1>2, <1>3, <1>4, LoadInv

LEMMA RepairInv == ASSUME Inv, Repair PROVE Inv'
<1>1. disk \in Disks /\ disk.best \in Blocks
  BY DiskTyped DEF Inv, Disks
<1>2. disk' = disk /\ LoadBlockIndex /\ setBlockIndexCandidates' \subseteq LoadedLinked
  BY DEF Repair, LoadedCandidates
<1>3. tip' \in Blocks
  <2>1. CASE Cardinality(OnDisk) <= disk.heightLast /\ tip' = disk.best
    BY <1>1, <2>1
  <2>2. CASE Cardinality(OnDisk) > disk.heightLast /\ tip' = Parent[LastMeta]
    <3>1. disk.heightLast \in Nat \ {0} /\ Cardinality(Blocks) \in Nat
      <4>1. disk.heightLast /= 0
        BY DEF Repair, Inconsistent
      <4> QED
        BY <1>1, <4>1, Heights DEF Disks
    <3>2. Cardinality(OnDisk) \in Nat
      <4>1. OnDisk \in SUBSET Blocks
        BY DEF OnDisk
      <4> QED
        BY <4>1, ChainAssumption, FS_Subset, FS_CardinalityType
    <3>3. LastMeta \in OnDisk \ {Genesis}
      BY <1>1, <2>2, <3>1, <3>2, LastMetaExists
    <3> QED
      BY <2>2, <3>3, ParentStep DEF OnDisk
  <2> QED
    BY <2>1, <2>2 DEF Repair
<1>4. mode' \in {"abort", "unfixed", "fixing", "fixed"}
  BY DEF Repair
<1> QED
  BY <1>1, <1>2, <1>3, <1>4, LoadInv

-----------------------------------------------------------------------------
(* Blocks arrive.                                                          *)

LEMMA FreeFacts ==
    ASSUME Inv, Free
    PROVE  Up /\ mode = "run" /\ step = None /\ coins = tip
BY DEF Free, Up, Inv, TipsRight

\* An entry gets more flags and is marked to be written.
LEMMA EntryGrows ==
    ASSUME Inv, Up, NEW b \in Blocks, NEW F \in SUBSET Flags, "TREE" \in F \/ "TREE" \in nStatus[b],
           nStatus' = [nStatus EXCEPT ![b] = @ \cup F], dirty' = dirty \cup {b},
           disk' = disk, coins' = coins
    PROVE  /\ nStatus' \in [Blocks -> SUBSET Flags] /\ dirty' \subseteq Blocks
           /\ DiskRight'
<1>1. /\ nStatus \in [Blocks -> SUBSET Flags] /\ coins \in Blocks /\ dirty \subseteq Blocks
      /\ Whole(nStatus) /\ Whole(disk.index)
      /\ Complete(disk.index, disk.best) /\ Complete(nStatus, coins)
      /\ Behind(disk.index, nStatus, dirty)
  BY UpFacts
<1>2. /\ \A a \in Blocks : a /= b => nStatus'[a] = nStatus[a]
      /\ nStatus'[b] = nStatus[b] \cup F
      /\ nStatus' \in [Blocks -> SUBSET Flags]
  BY <1>1
<1>3. Whole(nStatus')
  BY <1>1, <1>2 DEF Whole
<1>4. Complete(nStatus', coins)
  BY <1>1, <1>2, OwnAncestor DEF Complete
<1>5. Behind(disk.index, nStatus', dirty')
  BY <1>1, <1>2 DEF Behind
<1> QED
  BY <1>1, <1>2, <1>3, <1>4, <1>5 DEF DiskRight

LEMMA LinkedSame ==
    ASSUME LinkedExact, linked' = linked, mapBlocksUnlinked' = mapBlocksUnlinked,
           \A b \in Blocks : "DATA" \in nStatus'[b] <=> "DATA" \in nStatus[b]
    PROVE  LinkedExact'
BY OwnAncestor DEF LinkedExact

\* A header is added or marked as failed.
LEMMA HeaderInv ==
    ASSUME Inv, Free, NEW b \in Blocks, NEW F \in SUBSET {"TREE", "FAILED_VALID"}, "TREE" \in F,
           nStatus' = [nStatus EXCEPT ![b] = @ \cup F], dirty' = dirty \cup {b},
           nHeightLast' \in 0 .. Cardinality(Blocks) - 1,
           UNCHANGED <<nSequenceId, nBlockSequenceId, linked, setBlockIndexCandidates,
                       mapBlocksUnlinked, tip, coins, step, mode, disk>>
    PROVE  Inv'
<1>1. Up /\ step = None
  BY FreeFacts
<1>2. F \in SUBSET Flags
  BY DEF Flags
<1>3. nStatus' \in [Blocks -> SUBSET Flags] /\ dirty' \subseteq Blocks /\ DiskRight'
  BY <1>1, <1>2, EntryGrows
<1>4. TypeOK'
  BY <1>3 DEF Inv, TypeOK
<1>5. LinkedExact'
  <2>1. \A a \in Blocks : "DATA" \in nStatus'[a] <=> "DATA" \in nStatus[a]
    BY DEF Inv, TypeOK
  <2> QED
    BY <2>1, LinkedSame DEF Inv
<1> QED
  BY <1>1, <1>3, <1>4, <1>5 DEF Inv, Counted, TipsRight, StepRight, Up

LEMMA MaxHeightTyped ==
    ASSUME nHeightLast \in 0 .. Cardinality(Blocks) - 1, NEW b \in Blocks
    PROVE  MaxHeight(Height(b)) \in 0 .. Cardinality(Blocks) - 1
BY Heights DEF MaxHeight

LEMMA AcceptBlockFailsInv ==
    ASSUME Inv, NEW b \in Blocks, AcceptBlockFails(b)
    PROVE  Inv'
<1> DEFINE F == {"TREE", "FAILED_VALID"}
<1>1. Free /\ nHeightLast' \in 0 .. Cardinality(Blocks) - 1
  BY DEF AcceptBlockFails, Offered, Inv, TypeOK
<1>2. nStatus' = [nStatus EXCEPT ![b] = @ \cup F]
  BY DEF AcceptBlockFails
<1>3. F \in SUBSET {"TREE", "FAILED_VALID"} /\ "TREE" \in F
  OBVIOUS
<1> HIDE DEF F
<1> QED
  BY <1>1, <1>2, <1>3, HeaderInv DEF AcceptBlockFails

LEMMA WriteBlockFailsInv ==
    ASSUME Inv, NEW b \in Blocks, WriteBlockFails(b)
    PROVE  Inv'
<1> DEFINE F == {"TREE"}
<1>1. Free /\ nHeightLast' \in 0 .. Cardinality(Blocks) - 1
  BY MaxHeightTyped DEF WriteBlockFails, Offered, Inv, TypeOK
<1>2. nStatus' = [nStatus EXCEPT ![b] = @ \cup F]
  BY DEF WriteBlockFails
<1>3. F \in SUBSET {"TREE", "FAILED_VALID"} /\ "TREE" \in F
  OBVIOUS
<1> HIDE DEF F
<1> QED
  BY <1>1, <1>2, <1>3, HeaderInv DEF WriteBlockFails

\* What AcceptBlock links are exactly the blocks whose chain is now complete.
LEMMA LinkableRight ==
    ASSUME LinkedExact, NEW b \in Blocks \ {Genesis}, "DATA" \notin nStatus[b],
           Parent[b] \in linked,
           \A a \in Blocks : "DATA" \in nStatus'[a] <=> a = b \/ "DATA" \in nStatus[a]
    PROVE  /\ Linkable(b) \cap linked = {}
           /\ Linkable(b) \subseteq mapBlocksUnlinked \cup {b}
           /\ b \in Linkable(b)
           /\ linked \cup Linkable(b) = {c \in Blocks : \A a \in Ancestors[c] : "DATA" \in nStatus'[a]}
<1>1. linked = {c \in Blocks : \A a \in Ancestors[c] : "DATA" \in nStatus[a]}
  BY DEF LinkedExact
<1>2. mapBlocksUnlinked = {c \in Blocks : "DATA" \in nStatus[c]} \ linked
  BY DEF LinkedExact
<1>3. b \notin linked /\ b \notin mapBlocksUnlinked /\ b \in Linkable(b)
  BY <1>1, <1>2, OwnAncestor DEF Linkable
<1>4. Linkable(b) \cap linked = {} /\ Linkable(b) \subseteq mapBlocksUnlinked \cup {b}
  BY <1>2, <1>3 DEF Linkable
<1>5. \A a \in Ancestors[b] : "DATA" \in nStatus'[a] /\ a \in Blocks
  <2>1. Ancestors[b] = Ancestors[Parent[b]] \cup {b} /\ Parent[b] \in Blocks
    BY ParentStep
  <2> QED
    BY <1>1, <2>1, OwnAncestor
<1>6. ASSUME NEW c \in linked \cup Linkable(b), NEW a \in Ancestors[c]
      PROVE  c \in Blocks /\ "DATA" \in nStatus'[a]
  <2>1. CASE c \in linked
    BY <1>1, <1>6, <2>1, OwnAncestor
  <2>2. CASE c \in Linkable(b)
    <3>1. /\ c \in Blocks /\ b \in Ancestors[c] /\ a \in Blocks
          /\ Ancestors[c] \ Ancestors[b] \subseteq mapBlocksUnlinked
      BY <1>2, <1>6, <2>2, OwnAncestor DEF Linkable
    <3> QED
      BY <1>2, <1>5, <1>6, <3>1
  <2> QED
    BY <1>6, <2>1, <2>2
<1>7. ASSUME NEW c \in Blocks, \A a \in Ancestors[c] : "DATA" \in nStatus'[a], c \notin linked
      PROVE  c \in Linkable(b)
  <2>1. b \in Ancestors[c]
    BY <1>1, <1>7, OwnAncestor
  <2>2. \A x \in Ancestors[c] \ Ancestors[b] : b \in Ancestors[x] /\ x /= b /\ x \in Blocks
    BY <2>1, AncestorsOrdered, OwnAncestor
  <2>3. \A x \in Ancestors[c] \ Ancestors[b] : x \in mapBlocksUnlinked
    BY <1>1, <1>2, <1>7, <2>2
  <2>4. c = b \/ c \in mapBlocksUnlinked
    BY <2>3, <2>1, OwnAncestor, AncestorsAntisymmetric
  <2> QED
    BY <2>1, <2>3, <2>4 DEF Linkable
<1>8. linked \cup Linkable(b) \subseteq {c \in Blocks : \A a \in Ancestors[c] : "DATA" \in nStatus'[a]}
  <2>1. linked \cup Linkable(b) \subseteq Blocks
    BY <1>1, <1>2, <1>4
  <2> QED
    BY <1>6, <2>1
<1> QED
  BY <1>3, <1>4, <1>7, <1>8

LEMMA AcceptBlockInv ==
    ASSUME Inv, NEW b \in Blocks, AcceptBlock(b)
    PROVE  Inv'
<1> DEFINE F == {"TREE", "DATA"}
<1>1. /\ Free /\ b \in Blocks \ {Genesis} /\ "DATA" \notin nStatus[b]
      /\ nStatus' = [nStatus EXCEPT ![b] = @ \cup F] /\ dirty' = dirty \cup {b}
      /\ nHeightLast' \in 0 .. Cardinality(Blocks) - 1
      /\ UNCHANGED <<tip, coins, step, mode, disk>>
  BY MaxHeightTyped DEF AcceptBlock, Offered, Inv, TypeOK
<1>2. Up /\ step = None /\ tip \in Blocks
  BY <1>1, FreeFacts, UpFacts
<1>3. F \in SUBSET Flags /\ "TREE" \in F /\ "DATA" \in F
  BY DEF Flags
<1> HIDE DEF F
<1>4. nStatus' \in [Blocks -> SUBSET Flags] /\ dirty' \subseteq Blocks /\ DiskRight'
  BY <1>1, <1>2, <1>3, EntryGrows
<1>5. \A a \in Blocks : "DATA" \in nStatus'[a] <=> a = b \/ "DATA" \in nStatus[a]
  BY <1>1, <1>3 DEF Inv, TypeOK, F
<1>6. TypeOK /\ Counted /\ LinkedExact
  BY DEF Inv
<1>7. CASE /\ Parent[b] \notin linked
           /\ mapBlocksUnlinked' = mapBlocksUnlinked \cup {b}
           /\ UNCHANGED <<nSequenceId, nBlockSequenceId, linked, setBlockIndexCandidates>>
  <2>1. b \notin linked
    BY <1>1, <1>6, OwnAncestor DEF LinkedExact
  <2>2. TypeOK'
    BY <1>1, <1>4, <1>6, <1>7, <2>1 DEF TypeOK
  <2>3. ASSUME NEW c \in Blocks, \A a \in Ancestors[c] : "DATA" \in nStatus'[a], c \notin linked
        PROVE  FALSE
    <3>1. b \in Ancestors[c]
      BY <1>5, <1>6, <2>3, OwnAncestor DEF LinkedExact
    <3>2. /\ Parent[b] \in Blocks /\ Ancestors[Parent[b]] \subseteq Ancestors[c]
          /\ b \notin Ancestors[Parent[b]]
      BY <1>1, <3>1, AncestorsTransitive, ParentStep
    <3>3. \A a \in Ancestors[Parent[b]] : "DATA" \in nStatus[a]
      BY <1>5, <2>3, <3>2, OwnAncestor
    <3> QED
      BY <1>6, <1>7, <3>2, <3>3 DEF LinkedExact
  <2>4. linked \subseteq {c \in Blocks : \A a \in Ancestors[c] : "DATA" \in nStatus'[a]}
    BY <1>5, <1>6, OwnAncestor DEF LinkedExact
  <2>5. linked' = {c \in Blocks : \A a \in Ancestors[c] : "DATA" \in nStatus'[a]}
    BY <1>7, <2>3, <2>4
  <2>6. mapBlocksUnlinked' = {c \in Blocks : "DATA" \in nStatus'[c]} \ linked'
    BY <1>1, <1>5, <1>6, <1>7, <2>1 DEF LinkedExact
  <2>7. TipsRight'
    BY <1>1, <1>2, <1>7 DEF Inv, TipsRight, Up
  <2> QED
    BY <1>1, <1>2, <1>4, <1>6, <1>7, <2>2, <2>5, <2>6, <2>7
       DEF Inv, Counted, LinkedExact, StepRight
<1>8. CASE Parent[b] \in linked
  <2> DEFINE new == Linkable(b)
             n   == Cardinality(new)
  <2>1. /\ new \cap linked = {} /\ new \subseteq mapBlocksUnlinked \cup {b}
        /\ linked \cup new = {c \in Blocks : \A a \in Ancestors[c] : "DATA" \in nStatus'[a]}
        /\ b \in new
    BY <1>1, <1>5, <1>6, <1>8, LinkableRight
  <2>2. PICK id \in [new -> nBlockSequenceId .. nBlockSequenceId + n - 1] :
            /\ nSequenceId' = [c \in Blocks |-> IF c \in new THEN id[c] ELSE nSequenceId[c]]
            /\ nBlockSequenceId' = nBlockSequenceId + n
            /\ linked' = linked \cup new
            /\ mapBlocksUnlinked' = mapBlocksUnlinked \ new
            /\ setBlockIndexCandidates' = setBlockIndexCandidates \cup
                   {c \in new : nChainWork[c] > nChainWork[tip]}
    BY <1>8 DEF AcceptBlock
  <2> HIDE DEF new
  <2>3. new \subseteq Blocks /\ linked \subseteq Blocks
    BY <2>1, <1>6 DEF TypeOK
  <2>4. IsFiniteSet(new) /\ IsFiniteSet(linked)
    BY <2>3, ChainAssumption, FS_Subset
  <2>5. n \in Nat /\ Cardinality(linked) \in Nat /\ nBlockSequenceId \in Nat \ {0}
    BY SMTT(30), <2>4, <1>6, Heights, FS_CardinalityType DEF TypeOK
  <2>6. Cardinality(linked') = Cardinality(linked) + n
    <3>1. Cardinality(linked \cap new) = 0
      BY <2>1, FS_EmptySet
    <3>2. Cardinality(linked \cup new) = Cardinality(linked) + n - Cardinality(linked \cap new)
      BY <2>4, FS_Union
    <3> QED
      BY <2>2, <2>5, <3>1, <3>2
  <2>7. Cardinality(linked') <= Cardinality(Blocks) /\ Cardinality(Blocks) \in Nat
    BY <2>2, <2>3, ChainAssumption, Heights, FS_Subset
  <2>8. Counted'
    BY <1>6, <2>2, <2>5, <2>6 DEF Counted
  <2>9. nBlockSequenceId' \in 1 .. Cardinality(Blocks) + 1
    BY <2>2, <2>5, <2>6, <2>7, <2>8 DEF Counted
  <2>10. nSequenceId' \in [Blocks -> 0 .. nBlockSequenceId' - 1]
    <3>1. \A c \in Blocks : nSequenceId[c] \in 0 .. nBlockSequenceId - 1
      BY <1>6 DEF TypeOK
    <3>2. \A c \in new : id[c] \in nBlockSequenceId .. nBlockSequenceId + n - 1
      BY <2>2
    <3>3. \A c \in Blocks : (IF c \in new THEN id[c] ELSE nSequenceId[c]) \in 0 .. nBlockSequenceId' - 1
      <4> HIDE DEF n
      <4> QED
        BY <2>2, <2>5, <3>1, <3>2
    <3> QED
      BY <2>2, <3>3
  <2>11. TypeOK'
    BY <1>1, <1>4, <1>6, <2>1, <2>2, <2>3, <2>9, <2>10 DEF TypeOK
  <2>12. LinkedExact'
    <3>1. mapBlocksUnlinked' = {c \in Blocks : "DATA" \in nStatus'[c]} \ linked'
      BY <1>1, <1>5, <1>6, <2>1, <2>2 DEF LinkedExact
    <3> QED
      BY <2>1, <2>2, <3>1 DEF LinkedExact
  <2>13. TipsRight'
    BY <1>1, <1>2, <2>2 DEF Inv, TipsRight, Up
  <2> QED
    BY <1>1, <1>2, <1>4, <2>8, <2>11, <2>12, <2>13 DEF Inv, StepRight
<1> QED
  BY <1>7, <1>8 DEF AcceptBlock

-----------------------------------------------------------------------------
(* Operations that write.                                                  *)

\* FlushStateToDisk at the end of an operation.
LEMMA FlushedRight ==
    ASSUME Inv, Up, nStatus' \in [Blocks -> SUBSET Flags], Whole(nStatus'),
           coins' \in Blocks, Complete(nStatus', coins'),
           NEW d, Behind(disk.index, nStatus', d),
           NEW last \in 0 .. Cardinality(Blocks) - 1,
           disk' = Flushed(nStatus', d, coins', last), dirty' = {}
    PROVE  disk' \in Disks /\ DiskRight'
<1> DEFINE status == nStatus'
           best   == coins'
<1>1. disk \in Disks /\ Whole(disk.index)
  BY UpFacts
<1>2. status \in [Blocks -> SUBSET Flags] /\ best \in Blocks
  OBVIOUS
<1>3. Behind(disk.index, status, d) /\ Whole(status) /\ Complete(status, best)
  OBVIOUS
<1>4. disk' = Flushed(status, d, best, last)
  OBVIOUS
<1> HIDE DEF status, best
<1>5. WrittenAs(disk', status)
  BY <1>1, <1>2, <1>3, <1>4, FlushedAll
<1>6. WrittenAs(disk', nStatus')
  BY <1>5 DEF status
<1> QED
  BY <1>6 DEF WrittenAs, DiskRight

\* The same when the flags are as they were.
LEMMA FlushedSame ==
    ASSUME Inv, Up, nStatus' = nStatus, coins' \in Blocks, Complete(nStatus, coins'),
           NEW last \in 0 .. Cardinality(Blocks) - 1,
           disk' = Flushed(nStatus, dirty, coins', last), dirty' = {}
    PROVE  disk' \in Disks /\ DiskRight'
<1>1. nStatus' \in [Blocks -> SUBSET Flags] /\ Whole(nStatus') /\ Behind(disk.index, nStatus', dirty)
  BY UpFacts
<1>2. disk' = Flushed(nStatus', dirty, coins', last) /\ Complete(nStatus', coins')
  OBVIOUS
<1> QED
  BY <1>1, <1>2, FlushedRight

\* ConnectBlock writes the entry of b.
LEMMA WrittenRight ==
    ASSUME Inv, Up, NEW b \in Blocks, disk' = Written(b)
    PROVE  /\ disk' \in Disks /\ Whole(disk'.index) /\ Complete(disk'.index, disk'.best)
           /\ Behind(disk'.index, nStatus, dirty)
           /\ disk'.index[b] = nStatus[b]
<1>1. /\ disk \in Disks /\ nStatus \in [Blocks -> SUBSET Flags]
      /\ Whole(disk.index) /\ Whole(nStatus)
      /\ Complete(disk.index, disk.best) /\ Behind(disk.index, nStatus, dirty)
  BY UpFacts
<1>2. /\ disk' \in Disks /\ disk'.best = disk.best /\ disk.best \in Blocks
      /\ \A a \in Blocks : disk'.index[a] = IF a = b THEN nStatus[b] ELSE disk.index[a]
  BY <1>1 DEF Written, Disks
<1>3. Whole(disk'.index)
  BY <1>1, <1>2 DEF Whole
<1>4. Behind(disk'.index, nStatus, dirty)
  BY <1>1, <1>2 DEF Behind
<1>5. \A a \in Blocks : \A f \in Lasting : f \in disk.index[a] => f \in disk'.index[a]
  BY <1>1, <1>2 DEF Behind
<1>6. Complete(disk'.index, disk'.best)
  BY <1>1, <1>2, <1>5, OwnAncestor DEF Complete, Lasting
<1> QED
  BY <1>2, <1>3, <1>4, <1>6

\* All blocks before a linked one are linked.
LEMMA LinkedBelow ==
    ASSUME LinkedExact, NEW b \in linked, NEW a \in Ancestors[b]
    PROVE  a \in linked /\ a \in Blocks /\ "DATA" \in nStatus[a]
BY OwnAncestor, AncestorsTransitive DEF LinkedExact

LEMMA FlushInv == ASSUME Inv, Flush PROVE Inv'
<1>1. /\ Up /\ nStatus' = nStatus /\ coins' = coins /\ step = None
      /\ disk' = Flushed(nStatus, dirty, coins', nHeightLast) /\ dirty' = {}
  BY FreeFacts DEF Flush
<1>2. /\ coins' \in Blocks /\ Complete(nStatus, coins')
      /\ nHeightLast \in 0 .. Cardinality(Blocks) - 1
  BY <1>1, UpFacts
<1>3. disk' \in Disks /\ DiskRight'
  BY <1>1, <1>2, FlushedSame
<1>4. TypeOK'
  BY <1>3 DEF Inv, TypeOK, Flush, Disks
<1>5. TipsRight' /\ Counted' /\ LinkedExact' /\ StepRight'
  BY <1>1 DEF Inv, TipsRight, Up, Counted, LinkedExact, StepRight, Flush
<1> QED
  BY <1>3, <1>4, <1>5 DEF Inv

LEMMA ReprocessBlocksInv == ASSUME Inv, ReprocessBlocks PROVE Inv'
<1>1. /\ Up /\ nStatus' = nStatus /\ step = None /\ coins = tip /\ mode = "run"
      /\ dirty' = {} /\ coins' = tip'
  BY FreeFacts DEF ReprocessBlocks
<1>2. /\ tip \in Blocks /\ coins \in linked /\ Complete(nStatus, tip)
      /\ nHeightLast \in 0 .. Cardinality(Blocks) - 1
  BY <1>1, UpFacts
<1>3. PICK n \in 0 .. nReprocess :
          tip' = Back(n + 1) /\ disk' = Flushed(nStatus, dirty, tip', nHeightLast)
  BY DEF ReprocessBlocks
<1>4. n + 1 \in Nat
  BY <1>3, ChainAssumption
<1>5. tip' \in Ancestors[tip]
  BY <1>2, <1>3, <1>4, BackIsAncestor
<1>6. tip' \in Blocks /\ Complete(nStatus, tip') /\ tip' \in linked
  BY <1>1, <1>2, <1>5, CompleteBelow, LinkedBelow DEF Inv
<1>7. disk' \in Disks /\ DiskRight'
  <2>1. disk' = Flushed(nStatus, dirty, coins', nHeightLast) /\ coins' \in Blocks
        /\ Complete(nStatus, coins')
    BY <1>1, <1>3, <1>6
  <2> QED
    BY <1>1, <1>2, <2>1, FlushedSame
<1>8. TypeOK'
  BY <1>1, <1>6, <1>7 DEF Inv, TypeOK, ReprocessBlocks, Disks
<1>9. TipsRight' /\ Counted' /\ LinkedExact' /\ StepRight'
  BY <1>1, <1>6 DEF Inv, TipsRight, Up, Counted, LinkedExact, StepRight, ReprocessBlocks
<1> QED
  BY <1>7, <1>8, <1>9 DEF Inv

\* A flush fails: no step is under way, and the node neither runs nor is down.
LEMMA FlushFailsFacts ==
    ASSUME Inv, Up, FlushFails
    PROVE  Up' /\ step' = None /\ mode' \in {"failed", "fixed"}
BY DEF FlushFails, Up

LEMMA ReprocessBlocksFailsInv == ASSUME Inv, ReprocessBlocksFails PROVE Inv'
<1>1. /\ Up /\ nStatus' = nStatus /\ linked' = linked /\ coins = tip
      /\ Up' /\ step' = None /\ mode' \in {"failed", "fixed"}
  BY FreeFacts, FlushFailsFacts DEF ReprocessBlocksFails
<1>2. /\ tip \in Blocks /\ coins \in linked /\ Complete(nStatus, tip) /\ disk \in Disks
      /\ nHeightLast \in 0 .. Cardinality(Blocks) - 1
  BY <1>1, UpFacts
<1>3. PICK n \in 0 .. nReprocess :
          /\ tip' = Back(n) /\ tip' /= Genesis /\ coins' = Parent[tip']
          /\ \/ n = 0 /\ UNCHANGED <<dirty, disk>>
             \/ n > 0 /\ dirty' = {} /\ disk' = Flushed(nStatus, dirty, tip', nHeightLast)
  BY DEF ReprocessBlocksFails
<1> DEFINE t == Back(n)
<1>4. n \in Nat
  BY <1>3, ChainAssumption
<1>5. t \in Ancestors[tip] /\ tip' = t
  BY <1>2, <1>3, <1>4, BackIsAncestor
<1> HIDE DEF t
<1>6. t \in Blocks /\ Complete(nStatus, t) /\ t \in linked
  BY <1>1, <1>2, <1>5, CompleteBelow, LinkedBelow DEF Inv
<1>7. coins' \in Ancestors[t]
  BY <1>3, <1>5, <1>6, ParentStep, OwnAncestor
<1>8. coins' \in Blocks /\ Complete(nStatus, coins') /\ coins' \in linked
  BY <1>6, <1>7, CompleteBelow, LinkedBelow DEF Inv
<1>9. disk' \in Disks /\ DiskRight' /\ dirty' \subseteq Blocks
  <2>1. CASE UNCHANGED <<dirty, disk>>
    BY <1>1, <1>2, <1>8, <2>1, UpFacts DEF DiskRight
  <2>2. CASE dirty' = {} /\ disk' = Flushed(nStatus, dirty, t, nHeightLast)
    <3>1. WrittenAs(disk', nStatus)
      BY <1>1, <1>2, <1>6, <2>2, UpFacts, FlushedAll
    <3> QED
      BY <1>1, <1>8, <2>2, <3>1, UpFacts DEF WrittenAs, DiskRight
  <2> QED
    BY <1>3, <1>5, <2>1, <2>2
<1>10. TypeOK'
  BY <1>1, <1>5, <1>6, <1>8, <1>9 DEF Inv, TypeOK, ReprocessBlocksFails, Disks
<1>11. TipsRight' /\ Counted' /\ LinkedExact' /\ StepRight'
  BY <1>1, <1>5, <1>6, <1>8
     DEF Inv, TipsRight, Up, Counted, LinkedExact, StepRight, ReprocessBlocksFails
<1> QED
  BY <1>9, <1>10, <1>11 DEF Inv

LEMMA FinishRepairInv == ASSUME Inv, FinishRepair PROVE Inv'
<1>1. /\ Up /\ nStatus' = nStatus /\ step = None /\ coins' = coins /\ tip' = coins
      /\ mode' \in {"run", "abort"} /\ nHeightLast' = Height(LastEntry) /\ dirty' = {}
      /\ disk' = Flushed(nStatus, dirty, coins', Height(LastEntry))
      /\ setBlockIndexCandidates' \subseteq setBlockIndexCandidates
  <2>1. mode \in {"fixing", "fixed", "unfixed"} /\ (mode = "fixing" => step = None)
    BY DEF FinishRepair
  <2>2. step = None
    BY <2>1 DEF Inv, TipsRight
  <2>3. setBlockIndexCandidates' \subseteq setBlockIndexCandidates
    BY DEF FinishRepair, Prune
  <2>4. mode' \in {"run", "abort"}
    BY DEF FinishRepair
  <2> QED
    BY <2>1, <2>2, <2>3, <2>4 DEF FinishRepair, Up
<1>2. /\ coins \in Blocks /\ coins \in linked /\ Complete(nStatus, coins)
      /\ disk \in Disks /\ Complete(disk.index, disk.best)
  BY <1>1, UpFacts
<1>3. Height(LastEntry) \in 0 .. Cardinality(Blocks) - 1
  <2>1. disk.best \in OnDisk
    BY <1>2, OwnAncestor DEF Disks, Complete, OnDisk
  <2>2. LastEntry \in Blocks
    BY <2>1, LastEntryExists DEF OnDisk
  <2> QED
    BY <2>2, Heights
<1>4. disk' \in Disks /\ DiskRight'
  BY <1>1, <1>2, <1>3, FlushedSame
<1>5. TypeOK'
  BY <1>1, <1>2, <1>3, <1>4 DEF Inv, TypeOK, FinishRepair, Disks
<1>6. TipsRight' /\ Counted' /\ LinkedExact' /\ StepRight'
  BY <1>1, <1>2 DEF Inv, TipsRight, Up, Counted, LinkedExact, StepRight, FinishRepair
<1> QED
  BY <1>4, <1>5, <1>6 DEF Inv

-----------------------------------------------------------------------------
(* Commands of the operator.                                               *)

LEMMA InvalidateBlockInv ==
    ASSUME Inv, NEW b \in Blocks, InvalidateBlock(b)
    PROVE  Inv'
<1> DEFINE S      == ActiveFrom(b)
           status == Invalidated(b, S)
           t      == IF S = {} THEN tip ELSE Parent[b]
           d      == dirty \cup S \cup {b}
<1>1. /\ Free /\ b \in Blocks \ {Genesis} /\ Known(b)
      /\ nStatus' = status /\ tip' = t /\ coins' = t
      /\ setBlockIndexCandidates' =
             (setBlockIndexCandidates \ (S \cup {b})) \cup Refill(status, t)
      /\ \/ S = {} /\ dirty' = d /\ disk' = disk
         \/ S /= {} /\ dirty' = {} /\ disk' = Flushed(status, d, t, nHeightLast)
      /\ UNCHANGED <<nSequenceId, nBlockSequenceId, linked, mapBlocksUnlinked, nHeightLast,
                     step, mode>>
  BY ChainAssumption DEF InvalidateBlock
<1>2. /\ Up /\ mode = "run" /\ step = None /\ coins = tip /\ tip \in Blocks /\ coins \in linked
      /\ Complete(nStatus, tip)
  BY <1>1, FreeFacts, UpFacts
<1>3. S \subseteq Ancestors[tip] /\ S \subseteq Blocks
  BY <1>2, OwnAncestor DEF ActiveFrom
<1>4. S /= {} => b \in Ancestors[tip] /\ Parent[b] \in Ancestors[tip]
  <2> SUFFICES ASSUME NEW a \in S PROVE b \in Ancestors[tip] /\ Parent[b] \in Ancestors[tip]
    OBVIOUS
  <2>1. a \in Ancestors[tip] /\ b \in Ancestors[a]
    BY DEF ActiveFrom
  <2>2. b \in Ancestors[tip]
    BY <1>2, <2>1, AncestorsTransitive
  <2>3. Parent[b] \in Ancestors[b]
    BY <1>1, ParentStep, OwnAncestor
  <2> QED
    BY <1>2, <2>2, <2>3, AncestorsTransitive
<1>5. t \in Ancestors[tip]
  BY <1>2, <1>4, OwnAncestor
<1>6. t \in Blocks /\ Complete(nStatus, t) /\ t \in linked
  BY <1>2, <1>5, CompleteBelow, LinkedBelow DEF Inv
<1>7. \A a \in S \cup {b} : a \in Blocks => "TREE" \in nStatus[a]
  BY <1>1, <1>2, <1>3 DEF Complete, Known
<1>8. status \in [Blocks -> SUBSET Flags] /\ SameLasting(nStatus, status) /\ Whole(status)
  BY <1>2, <1>7, UpFacts, InvalidatedKeeps
<1>9. dirty \subseteq Blocks /\ Refill(status, t) \subseteq linked
      /\ setBlockIndexCandidates \subseteq linked
  BY DEF Inv, TypeOK, Refill
<1>10. d \subseteq Blocks /\ setBlockIndexCandidates' \subseteq linked
  BY <1>1, <1>3, <1>9
<1> HIDE DEF status
<1>11. Complete(status, t) /\ Behind(disk.index, status, d)
  BY <1>2, <1>6, <1>8, UpFacts, SameLastingKeeps
<1> HIDE DEF S, t, d
<1>12. disk' \in Disks /\ DiskRight' /\ dirty' \subseteq Blocks
  <2>1. CASE dirty' = d /\ disk' = disk
    BY <1>1, <1>2, <1>8, <1>10, <1>11, <2>1, UpFacts DEF DiskRight
  <2>2. CASE dirty' = {} /\ disk' = Flushed(status, d, t, nHeightLast)
    <3>1. /\ nStatus' \in [Blocks -> SUBSET Flags] /\ Whole(nStatus')
          /\ coins' \in Blocks /\ Complete(nStatus', coins')
          /\ Behind(disk.index, nStatus', d)
          /\ nHeightLast \in 0 .. Cardinality(Blocks) - 1
          /\ disk' = Flushed(nStatus', d, coins', nHeightLast) /\ dirty' = {}
      BY <1>1, <1>2, <1>6, <1>8, <1>11, <2>2, UpFacts
    <3> QED
      BY <1>2, <3>1, FlushedRight
  <2> QED
    BY <1>1, <2>1, <2>2
<1>13. TypeOK'
  BY <1>1, <1>6, <1>8, <1>10, <1>12 DEF Inv, TypeOK, Disks
<1>14. LinkedExact'
  <2>1. \A a \in Blocks : "DATA" \in nStatus'[a] <=> "DATA" \in nStatus[a]
    BY <1>1, <1>8 DEF SameLasting, Lasting
  <2> QED
    BY <1>1, <2>1, LinkedSame DEF Inv
<1>15. TipsRight' /\ Counted' /\ StepRight'
  BY <1>1, <1>2, <1>6 DEF Inv, TipsRight, Up, Counted, StepRight
<1> QED
  BY <1>12, <1>13, <1>14, <1>15 DEF Inv

LEMMA InvalidateBlockFailsInv ==
    ASSUME Inv, NEW b \in Blocks, InvalidateBlockFails(b)
    PROVE  Inv'
<1>1. /\ Up /\ mode = "run" /\ coins = tip /\ b \in Blocks \ {Genesis} /\ linked' = linked
      /\ Up' /\ step' = None /\ mode' \in {"failed", "fixed"}
  BY FreeFacts, FlushFailsFacts, ChainAssumption DEF InvalidateBlockFails
<1>2. PICK t \in ActiveFrom(b) :
          LET S == Ancestors[tip] \ Ancestors[t]
          IN  /\ nStatus' = Invalidated(b, S \cup {t})
              /\ tip' = t /\ coins' = Parent[t]
              /\ setBlockIndexCandidates' = setBlockIndexCandidates \ (S \cup {b, t})
              /\ \/ S = {} /\ dirty' = dirty \cup {b, t} /\ disk' = disk
                 \/ /\ S /= {} /\ dirty' = {t}
                    /\ disk' = Flushed(Invalidated(b, S), dirty \cup S \cup {b}, t, nHeightLast)
  BY DEF InvalidateBlockFails
<1> DEFINE S   == Ancestors[tip] \ Ancestors[t]
           old == Invalidated(b, S)
           new == Invalidated(b, S \cup {t})
           d   == dirty \cup S \cup {b}
<1>3. /\ tip \in Blocks /\ coins \in linked /\ Complete(nStatus, tip)
      /\ disk \in Disks /\ dirty \subseteq Blocks /\ Whole(nStatus)
      /\ nStatus \in [Blocks -> SUBSET Flags] /\ nHeightLast \in 0 .. Cardinality(Blocks) - 1
  BY <1>1, UpFacts
<1>4. t \in Ancestors[tip] /\ b \in Ancestors[t]
  BY DEF ActiveFrom
<1>5. t \in Blocks /\ Complete(nStatus, t) /\ t \in linked
  BY <1>1, <1>3, <1>4, CompleteBelow, LinkedBelow DEF Inv
<1>6. Parent[t] \in Ancestors[t]
  <2>1. t /= Genesis
    BY <1>1, <1>4, ChainAssumption
  <2> QED
    BY <1>5, <2>1, ParentStep, OwnAncestor
<1>7. Parent[t] \in Blocks /\ Complete(nStatus, Parent[t]) /\ Parent[t] \in linked
  BY <1>5, <1>6, CompleteBelow, LinkedBelow DEF Inv
<1>8. \A a \in S \cup {t} \cup {b} : "TREE" \in nStatus[a]
  BY <1>3, <1>4, <1>5 DEF Complete
<1>9. S \subseteq Blocks
  BY <1>3, OwnAncestor
<1>10. old \in [Blocks -> SUBSET Flags] /\ SameLasting(nStatus, old) /\ Whole(old)
  <2>1. \A a \in S \cup {b} : a \in Blocks => "TREE" \in nStatus[a]
    BY <1>8
  <2> HIDE DEF S
  <2> QED
    BY <1>3, <2>1, InvalidatedKeeps
<1>11. new \in [Blocks -> SUBSET Flags] /\ SameLasting(nStatus, new) /\ Whole(new)
  <2> DEFINE T == S \cup {t}
  <2>1. \A a \in T \cup {b} : a \in Blocks => "TREE" \in nStatus[a]
    BY <1>8
  <2> HIDE DEF S, T
  <2>2. Invalidated(b, T) \in [Blocks -> SUBSET Flags] /\ SameLasting(nStatus, Invalidated(b, T))
        /\ Whole(Invalidated(b, T))
    BY <1>3, <2>1, InvalidatedKeeps
  <2> QED
    BY <2>2 DEF T
<1>12. /\ nStatus' = new /\ tip' = t /\ coins' = Parent[t]
       /\ setBlockIndexCandidates' \subseteq setBlockIndexCandidates
       /\ \/ dirty' = dirty \cup {b, t} /\ disk' = disk
          \/ dirty' = {t} /\ disk' = Flushed(old, d, t, nHeightLast)
  BY <1>2
<1> HIDE DEF S, old, new
<1>13. Complete(old, t) /\ Complete(new, Parent[t])
       /\ Behind(disk.index, old, d) /\ Behind(disk.index, new, dirty \cup {b, t})
  <2>1. \A e : dirty \subseteq e => Behind(disk.index, old, e) /\ Behind(disk.index, new, e)
    BY <1>1, <1>10, <1>11, UpFacts, SameLastingKeeps
  <2>2. Complete(old, t) /\ Complete(new, Parent[t])
    BY <1>5, <1>7, <1>10, <1>11, SameLastingKeeps
  <2> QED
    BY <2>1, <2>2
<1> HIDE DEF d
<1>14. disk' \in Disks /\ DiskRight' /\ dirty' \subseteq Blocks
  <2>1. CASE dirty' = dirty \cup {b, t} /\ disk' = disk
    BY <1>1, <1>3, <1>5, <1>11, <1>12, <1>13, <2>1, UpFacts DEF DiskRight
  <2>2. CASE dirty' = {t} /\ disk' = Flushed(old, d, t, nHeightLast)
    <3>1. WrittenAs(disk', old)
      BY <1>1, <1>3, <1>5, <1>10, <1>13, <2>2, UpFacts, FlushedAll
    <3>2. Behind(disk'.index, new, dirty')
      BY <1>10, <1>11, <3>1 DEF WrittenAs, Behind, SameLasting
    <3> QED
      BY <1>5, <1>11, <1>12, <1>13, <2>2, <3>1, <3>2 DEF WrittenAs, DiskRight
  <2> QED
    BY <1>12, <2>1, <2>2
<1>15. TypeOK'
  BY <1>1, <1>5, <1>7, <1>11, <1>12, <1>14 DEF Inv, TypeOK, InvalidateBlockFails, Disks
<1>16. LinkedExact'
  <2>1. \A a \in Blocks : "DATA" \in nStatus'[a] <=> "DATA" \in nStatus[a]
    BY <1>11, <1>12 DEF SameLasting, Lasting
  <2> QED
    BY <1>1, <2>1, LinkedSame DEF Inv, InvalidateBlockFails
<1>17. TipsRight' /\ Counted' /\ StepRight'
  BY <1>1, <1>5, <1>7, <1>12 DEF Inv, TipsRight, Up, Counted, StepRight, InvalidateBlockFails
<1> QED
  BY <1>14, <1>15, <1>16, <1>17 DEF Inv

LEMMA ReconsiderBlockInv ==
    ASSUME Inv, NEW b \in Blocks, ReconsiderBlock(b)
    PROVE  Inv'
<1>1. /\ Up /\ mode = "run" /\ step = None /\ nStatus' = Unfailed(b)
      /\ disk' = disk /\ coins' = coins
      /\ dirty' = dirty \cup Touched(b)
      /\ setBlockIndexCandidates' = setBlockIndexCandidates \cup Reinstated(b)
  BY FreeFacts DEF ReconsiderBlock
<1>2. /\ nStatus \in [Blocks -> SUBSET Flags] /\ Whole(nStatus) /\ dirty \subseteq Blocks
      /\ coins \in Blocks
  BY <1>1, UpFacts
<1>3. /\ nStatus' \in [Blocks -> SUBSET Flags]
      /\ SameLasting(nStatus, nStatus')
      /\ Whole(nStatus')
  <2>1. nStatus' \in [Blocks -> SUBSET Flags]
    BY <1>1, <1>2 DEF Unfailed
  <2>2. SameLasting(nStatus, nStatus')
    BY <1>1 DEF Unfailed, SameLasting, Lasting
  <2>3. Whole(nStatus')
    BY <1>1, <1>2 DEF Unfailed, Whole
  <2> QED
    BY <2>1, <2>2, <2>3
<1>4. /\ dirty \subseteq dirty' /\ dirty' \subseteq Blocks
      /\ setBlockIndexCandidates' \subseteq linked
  BY <1>1, <1>2 DEF Touched, Cleared, Reinstated, Inv, TypeOK
<1>5. Complete(nStatus', coins) /\ Behind(disk.index, nStatus', dirty')
  BY <1>1, <1>2, <1>3, <1>4, UpFacts, SameLastingKeeps
<1>6. DiskRight'
  BY <1>1, <1>3, <1>5, UpFacts DEF DiskRight
<1>7. TypeOK'
  BY <1>1, <1>3, <1>4 DEF Inv, TypeOK, ReconsiderBlock
<1>8. LinkedExact'
  <2>1. \A a \in Blocks : "DATA" \in nStatus'[a] <=> "DATA" \in nStatus[a]
    BY <1>3 DEF SameLasting, Lasting
  <2> QED
    BY <2>1, LinkedSame DEF Inv, ReconsiderBlock
<1>9. TipsRight' /\ Counted' /\ StepRight'
  BY <1>1 DEF Inv, TipsRight, Up, Counted, StepRight, ReconsiderBlock
<1> QED
  BY <1>6, <1>7, <1>8, <1>9 DEF Inv

-----------------------------------------------------------------------------
(* The chain is activated.                                                 *)

\* What FindMostWorkChain drops comes after a failed block.
LEMMA DroppedFailed ==
    ASSUME Inv
    PROVE  \A b \in Dropped : /\ b \in linked
                             /\ \E f \in Ancestors[b] \ Ancestors[tip] : Failed(f)
<1>1. setBlockIndexCandidates \subseteq linked /\ linked \subseteq Blocks
  BY DEF Inv, TypeOK
<1> TAKE b \in Dropped
<1>2. PICK c \in setBlockIndexCandidates : ~Usable(c) /\ b \in UpToFailed(c)
  BY DEF Dropped
<1>3. PICK f \in Branch(c) : Failed(f)
  BY <1>2 DEF Usable
<1>4. /\ b \in Ancestors[c] /\ f \in Ancestors[c] /\ f \notin Ancestors[tip] /\ c \in linked
      /\ \A x \in Branch(c) : b \in Ancestors[x] /\ x /= b => ~Failed(x)
  BY <1>1, <1>2, <1>3 DEF UpToFailed, Branch
<1>5. b \in linked
  BY <1>4, LinkedBelow DEF Inv
<1>6. b \in Blocks /\ (b \in Ancestors[f] \/ f \in Ancestors[b])
  BY <1>1, <1>4, <1>5, AncestorsOrdered
<1>7. f \in Ancestors[b]
  BY <1>3, <1>4, <1>6, OwnAncestor
<1> QED
  BY <1>3, <1>4, <1>5, <1>7

LEMMA FindMostWorkChainInv == ASSUME Inv, FindMostWorkChain PROVE Inv'
<1>1. /\ Up /\ step = None /\ tip \in Blocks /\ nStatus \in [Blocks -> SUBSET Flags]
      /\ Whole(nStatus) /\ coins \in Blocks
      /\ setBlockIndexCandidates \subseteq linked /\ linked \subseteq Blocks
      /\ nSequenceId \in [Blocks -> Int]
  <2>1. mode \in {"run", "fixing"} /\ step = None
    BY DEF FindMostWorkChain
  <2>2. Up
    BY <2>1 DEF Up
  <2>3. nBlockSequenceId \in Nat /\ nSequenceId \in [Blocks -> 0 .. nBlockSequenceId - 1]
    BY Heights DEF Inv, TypeOK
  <2> QED
    BY <2>1, <2>2, <2>3, UpFacts DEF Inv, TypeOK
<1>2. /\ nStatus' = [b \in Blocks |-> IF b \in Dropped /\ ~Failed(b)
                                      THEN nStatus[b] \cup {"FAILED_CHILD"} ELSE nStatus[b]]
      /\ UNCHANGED <<nSequenceId, nBlockSequenceId, linked, mapBlocksUnlinked, tip, coins,
                     dirty, nHeightLast, mode, disk>>
  BY DEF FindMostWorkChain
<1>3. \A b \in Dropped : /\ b \in linked
                         /\ \E f \in Ancestors[b] \ Ancestors[tip] : Failed(f)
  BY DroppedFailed
<1>4. \A b \in Dropped : b \in Blocks /\ "TREE" \in nStatus[b]
  <2> TAKE b \in Dropped
  <2>1. b \in Blocks /\ "DATA" \in nStatus[b]
    BY <1>1, <1>3, LinkedBelow, OwnAncestor DEF Inv
  <2> QED
    BY <1>1, <2>1 DEF Whole
<1>5. nStatus' \in [Blocks -> SUBSET Flags] /\ SameLasting(nStatus, nStatus') /\ Whole(nStatus')
  <2>1. nStatus' \in [Blocks -> SUBSET Flags]
    BY <1>1, <1>2 DEF Flags
  <2>2. SameLasting(nStatus, nStatus')
    BY <1>2 DEF SameLasting, Lasting
  <2>3. Whole(nStatus')
    BY <1>1, <1>2, <1>4 DEF Whole
  <2> QED
    BY <2>1, <2>2, <2>3
<1>6. Complete(nStatus', coins) /\ Behind(disk.index, nStatus', dirty)
  BY <1>1, <1>5, UpFacts, SameLastingKeeps
<1>7. DiskRight'
  BY <1>1, <1>2, <1>5, <1>6, UpFacts DEF DiskRight
<1>8. step' /= None =>
          /\ step'.target \in linked /\ step'.old = tip
          /\ step' \in [target : Blocks, old : Blocks]
          /\ \A a \in Ancestors[step'.target] \ Ancestors[tip] : ~Failed(a)'
  <2> SUFFICES ASSUME step' /= None
               PROVE  /\ step'.target \in linked /\ step'.old = tip
                      /\ step' \in [target : Blocks, old : Blocks]
                      /\ \A a \in Ancestors[step'.target] \ Ancestors[tip] : ~Failed(a)'
    OBVIOUS
  <2>1. MostWork /= None /\ step' = [target |-> MostWork, old |-> tip]
    BY DEF FindMostWorkChain
  <2>2. MostWork \in setBlockIndexCandidates /\ Usable(MostWork)
    BY <1>1, <2>1, MostWorkUsable
  <2>3. MostWork \in Blocks /\ MostWork \in linked
    BY <1>1, <2>2
  <2>4. ASSUME NEW a \in Ancestors[MostWork] \ Ancestors[tip] PROVE ~Failed(a)'
    <3>1. \A f \in Ancestors[MostWork] \ Ancestors[tip] : ~Failed(f)
      BY <2>2 DEF Usable, Branch
    <3>2. a \in Blocks /\ Ancestors[a] \subseteq Ancestors[MostWork]
      BY <2>3, OwnAncestor, AncestorsTransitive
    <3>3. a \notin Dropped
      BY <1>3, <3>1, <3>2
    <3> QED
      BY <1>2, <3>1, <3>2, <3>3 DEF Failed
  <2> HIDE DEF MostWork
  <2> QED
    BY <1>1, <2>1, <2>3, <2>4
<1>9. TypeOK'
  <2>1. setBlockIndexCandidates' \subseteq setBlockIndexCandidates
    BY DEF FindMostWorkChain
  <2> QED
    BY <1>1, <1>2, <1>5, <1>8, <2>1 DEF Inv, TypeOK
<1>10. LinkedExact'
  <2>1. \A a \in Blocks : "DATA" \in nStatus'[a] <=> "DATA" \in nStatus[a]
    BY <1>5 DEF SameLasting, Lasting
  <2> QED
    BY <1>2, <2>1, LinkedSame DEF Inv
<1>11. TipsRight'
  <2>1. mode \in {"run", "fixing"}
    BY DEF FindMostWorkChain
  <2> QED
    BY <1>1, <1>2, <2>1 DEF Inv, TipsRight, Up
<1>12. StepRight'
  BY <1>1, <1>2, <1>8 DEF StepRight
<1> QED
  BY <1>2, <1>7, <1>9, <1>10, <1>11, <1>12 DEF Inv, Counted

\* A step under way.
LEMMA StepFacts ==
    ASSUME Inv, step /= None, coins = tip
    PROVE  /\ Up /\ step.target \in linked /\ step.target \in Blocks /\ step.old \in Blocks
           /\ tip \in Blocks /\ tip \in linked
           /\ step \in [target : Blocks, old : Blocks]
<1>1. Up
  BY DEF Inv, TipsRight
<1>2. step \in [target : Blocks, old : Blocks] /\ step.target \in linked
  BY DEF Inv, TypeOK, StepRight
<1> QED
  BY <1>1, <1>2, UpFacts

LEMMA DisconnectTipInv == ASSUME Inv, DisconnectTip PROVE Inv'
<1>1. /\ step /= None /\ tip \notin Ancestors[step.target] /\ coins = tip
      /\ tip' = Parent[tip] /\ coins' = Parent[tip] /\ dirty' = {}
      /\ disk' = Flushed(nStatus, dirty, Parent[tip], nHeightLast)
      /\ UNCHANGED <<nStatus, nSequenceId, nBlockSequenceId, linked, setBlockIndexCandidates,
                     mapBlocksUnlinked, nHeightLast, step, mode>>
  BY DEF DisconnectTip, Asserts
<1>2. Up /\ step.target \in Blocks /\ step.old \in Blocks /\ tip \in Blocks /\ tip \in linked
  BY <1>1, StepFacts
<1>3. tip /= Genesis
  BY <1>1, <1>2, GenesisFirst
<1>4. Parent[tip] \in Ancestors[tip] /\ Ancestors[tip] = Ancestors[Parent[tip]] \cup {tip}
  BY <1>2, <1>3, ParentStep, OwnAncestor
<1>5. Complete(nStatus, tip) /\ nHeightLast \in 0 .. Cardinality(Blocks) - 1
  BY <1>1, <1>2, UpFacts
<1>6. Parent[tip] \in Blocks /\ Complete(nStatus, Parent[tip]) /\ Parent[tip] \in linked
  BY <1>2, <1>4, <1>5, CompleteBelow, LinkedBelow DEF Inv
<1>7. disk' \in Disks /\ DiskRight'
  <2>1. /\ disk' = Flushed(nStatus, dirty, coins', nHeightLast) /\ coins' \in Blocks
        /\ Complete(nStatus, coins') /\ dirty' = {} /\ nStatus' = nStatus
    BY <1>1, <1>6
  <2> QED
    BY <1>2, <1>5, <2>1, FlushedSame
<1>8. TypeOK'
  BY <1>1, <1>6, <1>7 DEF Inv, TypeOK, Disks
<1>9. StepRight'
  BY <1>1, <1>4 DEF Inv, StepRight, Failed
<1>10. TipsRight' /\ Counted' /\ LinkedExact'
  BY <1>1, <1>2, <1>6 DEF Inv, TipsRight, Up, Counted, LinkedExact
<1> QED
  BY <1>7, <1>8, <1>9, <1>10 DEF Inv

LEMMA DisconnectTipFailsInv == ASSUME Inv, DisconnectTipFails PROVE Inv'
<1>1. /\ step /= None /\ tip \notin Ancestors[step.target] /\ coins = tip /\ FlushFails
      /\ coins' = Parent[tip]
      /\ UNCHANGED <<nStatus, nSequenceId, nBlockSequenceId, linked, setBlockIndexCandidates,
                     mapBlocksUnlinked, tip, dirty, nHeightLast, disk>>
  BY DEF DisconnectTipFails, Asserts
<1>2. Up /\ step.target \in Blocks /\ tip \in Blocks /\ tip \in linked
  BY <1>1, StepFacts
<1>3. Up' /\ step' = None /\ mode' \in {"failed", "fixed"}
  BY <1>1, <1>2, FlushFailsFacts
<1>4. tip /= Genesis
  BY <1>1, <1>2, GenesisFirst
<1>5. Parent[tip] \in Ancestors[tip]
  BY <1>2, <1>4, ParentStep, OwnAncestor
<1>6. Complete(nStatus, tip)
  BY <1>1, <1>2, UpFacts
<1>7. Parent[tip] \in Blocks /\ Complete(nStatus, Parent[tip]) /\ Parent[tip] \in linked
  BY <1>2, <1>5, <1>6, CompleteBelow, LinkedBelow DEF Inv
<1>8. TypeOK' /\ Counted' /\ LinkedExact'
  BY <1>1, <1>3, <1>7 DEF Inv, TypeOK, Counted, LinkedExact
<1>9. TipsRight' /\ StepRight'
  BY <1>1, <1>2, <1>3, <1>7 DEF Inv, TipsRight, StepRight, Up
<1>10. DiskRight'
  BY <1>1, <1>2, <1>7 DEF Inv, DiskRight
<1> QED
  BY <1>8, <1>9, <1>10 DEF Inv

\* The block that is connected next.
LEMMA ConnectingFacts ==
    ASSUME Inv, NEW b \in Blocks, Connecting(b)
    PROVE  /\ Up /\ step /= None /\ coins = tip /\ tip \in Blocks /\ b /= Genesis
           /\ step \in [target : Blocks, old : Blocks]
           /\ Ancestors[b] = Ancestors[tip] \cup {b} /\ b \notin Ancestors[tip]
           /\ b \in linked /\ "TREE" \in nStatus[b] /\ "DATA" \in nStatus[b]
           /\ ~Failed(b)
<1>1. /\ step /= None /\ tip \in Ancestors[step.target]
      /\ b \in Ancestors[step.target] \ {Genesis} /\ Parent[b] = tip /\ coins = tip
  BY DEF Connecting, Asserts
<1>2. /\ Up /\ step.target \in linked /\ step.target \in Blocks /\ step.old \in Blocks
      /\ tip \in Blocks /\ step \in [target : Blocks, old : Blocks]
  BY <1>1, StepFacts
<1>3. Ancestors[b] = Ancestors[tip] \cup {b} /\ b \notin Ancestors[tip]
  BY <1>1, ParentStep
<1>4. b \in linked /\ "DATA" \in nStatus[b]
  BY <1>1, <1>2, LinkedBelow DEF Inv
<1>5. "TREE" \in nStatus[b]
  BY <1>2, <1>4, UpFacts DEF Whole
<1>6. ~Failed(b)
  BY <1>1, <1>3 DEF Inv, StepRight
<1> QED
  BY <1>1, <1>2, <1>3, <1>4, <1>5, <1>6

\* The flags when the scripts of that block have been checked.
LEMMA CheckedFacts ==
    ASSUME Inv, NEW b \in Blocks, Connecting(b)
    PROVE  /\ Checked(b) \in [Blocks -> SUBSET Flags]
           /\ \A a \in Blocks : a /= b => Checked(b)[a] = nStatus[a]
           /\ Checked(b)[b] = nStatus[b] \cup {"SCRIPTS"}
           /\ Whole(Checked(b)) /\ Complete(Checked(b), b)
           /\ dirty \subseteq Dirtied(b) /\ Dirtied(b) \subseteq Blocks
           /\ "SCRIPTS" \in nStatus[b] \/ b \in Dirtied(b)
<1> DEFINE status == Checked(b)
<1>1. /\ Up /\ coins = tip /\ tip \in Blocks /\ b /= Genesis
      /\ Ancestors[b] = Ancestors[tip] \cup {b} /\ b \notin Ancestors[tip]
      /\ "TREE" \in nStatus[b] /\ "DATA" \in nStatus[b] /\ ~Failed(b)
  BY ConnectingFacts
<1>2. /\ nStatus \in [Blocks -> SUBSET Flags] /\ dirty \subseteq Blocks
      /\ Whole(nStatus) /\ Complete(nStatus, tip)
  BY <1>1, UpFacts
<1>3. /\ \A a \in Blocks : a /= b => status[a] = nStatus[a]
      /\ status[b] = nStatus[b] \cup {"SCRIPTS"}
      /\ status \in [Blocks -> SUBSET Flags]
  BY <1>1, <1>2 DEF Checked, Flags
<1> HIDE DEF status
<1>4. Whole(status)
  BY <1>1, <1>2, <1>3 DEF Whole
<1>5. Complete(status, b)
  BY <1>1, <1>2, <1>3, OwnAncestor DEF Complete
<1>6. dirty \subseteq Dirtied(b) /\ Dirtied(b) \subseteq Blocks
      /\ ("SCRIPTS" \in nStatus[b] \/ b \in Dirtied(b))
  BY <1>2 DEF Dirtied
<1> QED
  BY <1>3, <1>4, <1>5, <1>6 DEF status

\* They are not flushed, but for the entry that ConnectBlock writes.
LEMMA CheckedRight ==
    ASSUME Inv, NEW b \in Blocks, Connecting(b), nStatus' = Checked(b), coins' = b,
           disk' = Written(b), dirty' = Dirtied(b)
    PROVE  disk' \in Disks /\ DiskRight' /\ dirty' \subseteq Blocks
<1> DEFINE status == Checked(b)
<1>1. /\ status \in [Blocks -> SUBSET Flags] /\ Whole(status) /\ Complete(status, b)
      /\ \A a \in Blocks : a /= b => status[a] = nStatus[a]
      /\ status[b] = nStatus[b] \cup {"SCRIPTS"}
      /\ dirty \subseteq Dirtied(b) /\ Dirtied(b) \subseteq Blocks
      /\ ("SCRIPTS" \in nStatus[b] \/ b \in Dirtied(b))
  BY CheckedFacts
<1>2. nStatus' = status
  OBVIOUS
<1> HIDE DEF status
<1>3. /\ disk' \in Disks /\ Whole(disk'.index) /\ Complete(disk'.index, disk'.best)
      /\ Behind(disk'.index, nStatus, dirty)
      /\ disk'.index[b] = nStatus[b]
  BY ConnectingFacts, WrittenRight
<1>4. Behind(disk'.index, status, Dirtied(b))
  BY <1>1, <1>3 DEF Behind
<1> QED
  BY <1>1, <1>2, <1>3, <1>4 DEF DiskRight

LEMMA ConnectTipInv ==
    ASSUME Inv, NEW b \in Blocks, ConnectTip(b)
    PROVE  Inv'
<1> DEFINE status == Checked(b)
<1>1. /\ Connecting(b) /\ nStatus' = status
      /\ \/ disk' = Written(b) /\ dirty' = Dirtied(b)
         \/ disk' = Flushed(status, Dirtied(b), b, nHeightLast) /\ dirty' = {}
      /\ tip' = b /\ coins' = b
      /\ setBlockIndexCandidates' \subseteq setBlockIndexCandidates
      /\ step' \in {None, step}
      /\ UNCHANGED <<nSequenceId, nBlockSequenceId, linked, mapBlocksUnlinked, nHeightLast, mode>>
  BY DEF ConnectTip, Prune
<1>2. /\ Up /\ step /= None /\ coins = tip /\ tip \in Blocks /\ b /= Genesis
      /\ Ancestors[b] = Ancestors[tip] \cup {b} /\ b \notin Ancestors[tip]
      /\ b \in linked /\ "TREE" \in nStatus[b] /\ "DATA" \in nStatus[b] /\ ~Failed(b)
  BY <1>1, ConnectingFacts
<1>3. /\ nStatus \in [Blocks -> SUBSET Flags] /\ Behind(disk.index, nStatus, dirty)
      /\ nHeightLast \in 0 .. Cardinality(Blocks) - 1
  BY <1>2, UpFacts
<1>4. /\ \A a \in Blocks : a /= b => status[a] = nStatus[a]
      /\ status[b] = nStatus[b] \cup {"SCRIPTS"}
      /\ status \in [Blocks -> SUBSET Flags]
      /\ Whole(status) /\ Complete(status, b)
      /\ dirty \subseteq Dirtied(b) /\ Dirtied(b) \subseteq Blocks
      /\ ("SCRIPTS" \in nStatus[b] \/ b \in Dirtied(b))
  BY <1>1, CheckedFacts
<1>8. disk' \in Disks /\ DiskRight' /\ dirty' \subseteq Blocks
  <2>1. CASE disk' = Written(b) /\ dirty' = Dirtied(b)
    BY <1>1, <2>1, CheckedRight
  <2>2. CASE disk' = Flushed(status, Dirtied(b), b, nHeightLast) /\ dirty' = {}
    <3> HIDE DEF status
    <3>1. Behind(disk.index, status, Dirtied(b))
      BY <1>3, <1>4 DEF Behind
    <3>2. /\ nStatus' \in [Blocks -> SUBSET Flags] /\ Whole(nStatus')
          /\ coins' \in Blocks /\ Complete(nStatus', coins')
          /\ Behind(disk.index, nStatus', Dirtied(b))
          /\ disk' = Flushed(nStatus', Dirtied(b), coins', nHeightLast)
      BY <1>1, <1>4, <2>2, <3>1
    <3> QED
      BY <1>2, <1>3, <2>2, <3>2, FlushedRight
  <2> QED
    BY <1>1, <2>1, <2>2
<1> HIDE DEF status
<1>9. TypeOK'
  BY <1>1, <1>2, <1>4, <1>8 DEF Inv, TypeOK, Disks
<1>10. LinkedExact'
  <2>1. \A a \in Blocks : "DATA" \in nStatus'[a] <=> "DATA" \in nStatus[a]
    BY <1>1, <1>4
  <2> QED
    BY <1>1, <2>1, LinkedSame DEF Inv
<1>11. TipsRight' /\ Counted'
  BY <1>1, <1>2 DEF Inv, TipsRight, Up, Counted
<1>12. StepRight'
  <2> SUFFICES ASSUME step' /= None PROVE StepRight'
    BY DEF StepRight
  <2>1. step' = step
    BY <1>1
  <2>2. \A a \in Blocks : ~Failed(a) => ~Failed(a)'
    BY <1>1, <1>4 DEF Failed
  <2>3. step.target \in Blocks
    BY <1>2, StepFacts
  <2>4. Ancestors[step.target] \subseteq Blocks
    BY <2>3, OwnAncestor
  <2> QED
    BY <1>1, <1>2, <2>1, <2>2, <2>4 DEF Inv, StepRight
<1> QED
  BY <1>8, <1>9, <1>10, <1>11, <1>12 DEF Inv

LEMMA ConnectTipFailsInv ==
    ASSUME Inv, NEW b \in Blocks, ConnectTipFails(b)
    PROVE  Inv'
<1> DEFINE status == Checked(b)
<1>1. /\ Connecting(b) /\ FlushFails /\ nStatus' = status /\ coins' = b
      /\ disk' = Written(b) /\ dirty' = Dirtied(b)
      /\ UNCHANGED <<nSequenceId, nBlockSequenceId, linked, setBlockIndexCandidates,
                     mapBlocksUnlinked, tip, nHeightLast>>
  BY DEF ConnectTipFails
<1>2. Up /\ tip \in Blocks /\ b \in linked /\ "DATA" \in nStatus[b]
  BY <1>1, ConnectingFacts
<1>3. Up' /\ step' = None /\ mode' \in {"failed", "fixed"}
  BY <1>1, <1>2, FlushFailsFacts
<1>4. disk' \in Disks /\ DiskRight' /\ dirty' \subseteq Blocks
  BY <1>1, CheckedRight
<1>5. /\ \A a \in Blocks : a /= b => status[a] = nStatus[a]
      /\ status[b] = nStatus[b] \cup {"SCRIPTS"}
      /\ status \in [Blocks -> SUBSET Flags]
  BY <1>1, CheckedFacts
<1> HIDE DEF status
<1>6. TypeOK' /\ Counted'
  BY <1>1, <1>2, <1>3, <1>4, <1>5 DEF Inv, TypeOK, Counted, Disks
<1>7. LinkedExact'
  <2>1. \A a \in Blocks : "DATA" \in nStatus'[a] <=> "DATA" \in nStatus[a]
    BY <1>1, <1>5
  <2> QED
    BY <1>1, <2>1, LinkedSame DEF Inv
<1>8. TipsRight' /\ StepRight'
  BY <1>1, <1>2, <1>3 DEF Inv, TipsRight, StepRight, Up
<1> QED
  BY <1>4, <1>6, <1>7, <1>8 DEF Inv

LEMMA ConnectTipInvalidInv ==
    ASSUME Inv, NEW b \in Blocks, ConnectTipInvalid(b)
    PROVE  Inv'
<1> DEFINE status == [nStatus EXCEPT ![b] = @ \cup {"FAILED_VALID"}]
<1>1. /\ Connecting(b) /\ nStatus' = status /\ dirty' = dirty \cup {b}
      /\ setBlockIndexCandidates' \subseteq setBlockIndexCandidates
      /\ disk' \in {disk, Written(b)} /\ step' = None
      /\ UNCHANGED <<nSequenceId, nBlockSequenceId, linked, mapBlocksUnlinked, tip, coins,
                     nHeightLast, mode>>
  BY DEF ConnectTipInvalid
<1>2. Up /\ "TREE" \in nStatus[b] /\ coins \in Blocks
  BY <1>1, ConnectingFacts, UpFacts
<1>3. nStatus \in [Blocks -> SUBSET Flags] /\ Whole(nStatus) /\ dirty \subseteq Blocks
  BY <1>2, UpFacts
<1>4. /\ status \in [Blocks -> SUBSET Flags] /\ SameLasting(nStatus, status) /\ Whole(status)
  <2>1. status \in [Blocks -> SUBSET Flags]
    BY <1>3 DEF Flags
  <2>2. /\ \A a \in Blocks : a /= b => status[a] = nStatus[a]
        /\ status[b] = nStatus[b] \cup {"FAILED_VALID"}
    BY <1>3
  <2> HIDE DEF status
  <2>3. SameLasting(nStatus, status)
    BY <2>2 DEF SameLasting, Lasting
  <2>4. Whole(status)
    BY <1>2, <1>3, <2>2 DEF Whole
  <2> QED
    BY <2>1, <2>3, <2>4
<1> HIDE DEF status
<1>5. Complete(status, coins)
  BY <1>2, <1>4, UpFacts, SameLastingKeeps
<1>6. /\ disk' \in Disks /\ Whole(disk'.index) /\ Complete(disk'.index, disk'.best)
      /\ Behind(disk'.index, nStatus, dirty)
  <2>1. CASE disk' = disk
    BY <1>2, <2>1, UpFacts
  <2>2. CASE disk' = Written(b)
    BY <1>2, <2>2, WrittenRight
  <2> QED
    BY <1>1, <2>1, <2>2
<1>7. Behind(disk'.index, status, dirty')
  BY <1>1, <1>4, <1>6, SameLastingKeeps
<1>8. DiskRight'
  BY <1>1, <1>4, <1>5, <1>6, <1>7 DEF DiskRight
<1>9. TypeOK'
  BY <1>1, <1>3, <1>4, <1>6 DEF Inv, TypeOK, Disks
<1>10. LinkedExact'
  <2>1. \A a \in Blocks : "DATA" \in nStatus'[a] <=> "DATA" \in nStatus[a]
    BY <1>1, <1>4 DEF SameLasting, Lasting
  <2> QED
    BY <1>1, <2>1, LinkedSame DEF Inv
<1>11. TipsRight' /\ Counted' /\ StepRight'
  BY <1>1, <1>2 DEF Inv, TipsRight, Up, Counted, StepRight
<1> QED
  BY <1>8, <1>9, <1>10, <1>11 DEF Inv

LEMMA ConnectTipRefusedInv ==
    ASSUME Inv, NEW b \in Blocks, ConnectTipRefused(b)
    PROVE  Inv'
<1>1. /\ Connecting(b) /\ disk' = Written(b) /\ step' = None
      /\ mode' = IF mode = "fixing" THEN "fixed" ELSE mode
      /\ UNCHANGED <<nStatus, nSequenceId, nBlockSequenceId, linked, setBlockIndexCandidates,
                     mapBlocksUnlinked, tip, coins, dirty, nHeightLast>>
  BY DEF ConnectTipRefused
<1>2. Up
  BY <1>1, ConnectingFacts
<1>3. Up' /\ (mode' = "run" => mode = "run")
  BY <1>1, <1>2 DEF Up
<1>4. /\ disk' \in Disks /\ Whole(disk'.index) /\ Complete(disk'.index, disk'.best)
      /\ Behind(disk'.index, nStatus, dirty)
  BY <1>1, <1>2, WrittenRight
<1>5. DiskRight'
  BY <1>1, <1>2, <1>4, UpFacts DEF DiskRight
<1>6. TypeOK'
  BY <1>1, <1>4 DEF Inv, TypeOK, Disks
<1>7. TipsRight' /\ Counted' /\ StepRight' /\ LinkedExact'
  BY <1>1, <1>2, <1>3 DEF Inv, TipsRight, Up, Counted, StepRight, LinkedExact
<1> QED
  BY <1>5, <1>6, <1>7 DEF Inv

LEMMA AssertionFailsInv == ASSUME Inv, AssertionFails PROVE Inv'
<1>1. Up /\ Up' /\ mode' = "abort" /\ step' = None
  BY DEF AssertionFails, Inv, TipsRight, Up
<1>2. TypeOK' /\ Counted' /\ LinkedExact'
  BY DEF AssertionFails, Inv, TypeOK, Counted, LinkedExact
<1>3. TipsRight' /\ StepRight'
  BY <1>1 DEF AssertionFails, Inv, TipsRight, StepRight, Up
<1>4. DiskRight'
  BY <1>1 DEF AssertionFails, Inv, DiskRight
<1> QED
  BY <1>2, <1>3, <1>4 DEF Inv

-----------------------------------------------------------------------------
(* The index stays consistent.                                             *)

LEMMA InitInv == Init => Inv
<1> SUFFICES ASSUME Init PROVE Inv
  OBVIOUS
<1>1. /\ Genesis \in Blocks /\ Genesis /= None /\ Ancestors[Genesis] = {Genesis}
      /\ Cardinality(Blocks) \in Nat \ {0}
  BY ChainAssumption, Heights
<1>2. /\ nStatus = [b \in Blocks |-> IF b = Genesis THEN {"TREE", "DATA"} ELSE {}]
      /\ disk.index = nStatus /\ disk.best = Genesis
      /\ linked = {Genesis} /\ tip = Genesis /\ coins = Genesis /\ dirty = {} /\ step = None
      /\ mapBlocksUnlinked = {} /\ mode = "run" /\ nBlockSequenceId = 2
  BY DEF Init
<1>3. TypeOK
  <2>1. nStatus \in [Blocks -> SUBSET Flags]
    BY DEF Init, Flags
  <2>2. nSequenceId \in [Blocks -> 0 .. nBlockSequenceId - 1]
    BY DEF Init
  <2>3. disk \in [index : [Blocks -> SUBSET Flags], best : Blocks,
                  heightLast : 0 .. Cardinality(Blocks) - 1, prepared : BOOLEAN]
    BY <1>1, <2>1 DEF Init
  <2> QED
    BY <1>1, <2>1, <2>2, <2>3 DEF Init, TypeOK
<1>4. Counted
  <2>1. Cardinality({Genesis}) = 1
    BY FS_Singleton
  <2> QED
    BY <1>2, <2>1 DEF Counted
<1>5. LinkedExact
  <2>1. \A b \in Blocks : "DATA" \in nStatus[b] <=> b = Genesis
    BY <1>2
  <2>2. \A b \in Blocks : (\A a \in Ancestors[b] : "DATA" \in nStatus[a]) <=> b = Genesis
    BY <1>1, <2>1, OwnAncestor
  <2>3. linked = {b \in Blocks : \A a \in Ancestors[b] : "DATA" \in nStatus[a]}
    BY ZenonT(60), <1>1, <1>2, <2>2
  <2>4. mapBlocksUnlinked = {b \in Blocks : "DATA" \in nStatus[b]} \ linked
    BY <1>2, <2>1
  <2> QED
    BY <2>3, <2>4 DEF LinkedExact
<1>6. TipsRight /\ StepRight
  BY <1>1, <1>2 DEF TipsRight, StepRight, Up
<1>7. DiskRight
  BY <1>1, <1>2 DEF DiskRight, Whole, Complete, Behind
<1> QED
  BY <1>3, <1>4, <1>5, <1>6, <1>7 DEF Inv

LEMMA StutterInv == ASSUME Inv, UNCHANGED vars PROVE Inv'
<1> USE DEF vars, memory
<1>1. TypeOK' /\ Counted' /\ LinkedExact'
  BY DEF Inv, TypeOK, Counted, LinkedExact
<1>2. TipsRight' /\ StepRight' /\ DiskRight'
  BY DEF Inv, TipsRight, StepRight, DiskRight, Up, Failed
<1> QED
  BY <1>1, <1>2 DEF Inv

LEMMA NextInv == Inv /\ [Next]_vars => Inv'
<1> SUFFICES ASSUME Inv, [Next]_vars PROVE Inv'
  OBVIOUS
<1>1. CASE Activate
  BY <1>1, FindMostWorkChainInv, DisconnectTipInv, AssertionFailsInv,
     ConnectTipInv, ConnectTipInvalidInv, ConnectTipRefusedInv DEF Activate
<1>2. CASE Operate
  BY <1>2, AcceptBlockInv, AcceptBlockFailsInv, WriteBlockFailsInv,
     InvalidateBlockInv, ReconsiderBlockInv DEF Operate
<1>3. CASE ReprocessBlocks
  BY <1>3, ReprocessBlocksInv
<1>4. CASE Stop
  BY <1>4, FlushInv, ShutdownInv, ShutdownFailsInv, CrashInv, TornCrashInv, CrashInvalidatingInv
     DEF Stop
<1>5. CASE Start
  BY <1>5, RestartInv, RepairInv, FinishRepairInv DEF Start
<1>6. CASE UNCHANGED vars
  BY <1>6, StutterInv
<1>7. CASE Fail
  BY <1>7, DisconnectTipFailsInv, ReprocessBlocksFailsInv, ConnectTipFailsInv,
     InvalidateBlockFailsInv DEF Fail
<1> QED
  BY <1>1, <1>2, <1>3, <1>4, <1>5, <1>6, <1>7 DEF Next

\* The index in memory, the one on disk and the block files are sound in every state.
THEOREM Invariance == Spec => []Inv
<1> QED
  BY InitInv, NextInv, PTL DEF Spec

\* Through late data, failed writes, crashes and restarts a block is linked
\* exactly when AcceptBlock stored it and all blocks before it, and it waits in
\* mapBlocksUnlinked exactly when only they are missing.
THEOREM IndexIsConsistent == Spec => []IndexConsistent
<1>1. Inv => IndexConsistent
  BY DEF Inv, IndexConsistent
<1> QED
  BY <1>1, Invariance, PTL

-----------------------------------------------------------------------------
(* What the entries on disk say of the blocks before them.                 *)

\* With an entry there are the entries of all blocks before it, and checked
\* scripts rest on checked scripts.
Sound(index) ==
    \A b \in Blocks : \A a \in Ancestors[b] :
        /\ "TREE" \in index[b] => "TREE" \in index[a]
        /\ a /= Genesis /\ "SCRIPTS" \in index[b] => "SCRIPTS" \in index[a]

\* A block is disconnected only by operations that also flush, so the blocks
\* that were checked since the last flush are all in the active chain, as long
\* as more can be connected.
CheckedActive ==
    mode \in {"run", "fixing"} => \A b \in Blocks :
              "SCRIPTS" \in nStatus[b] /\ "SCRIPTS" \notin disk.index[b] => b \in Ancestors[tip]

\* The entries of the active chain have been written at least once.
HeadersWritten == Up => \A a \in Ancestors[coins] : "TREE" \in disk.index[a]

Supported == Sound(nStatus) /\ Sound(disk.index) /\ CheckedActive /\ HeadersWritten

\* Entries are created in the order of the chain, so that a CBlockIndex lies
\* after the one of its parent.  Only a flush cut short depends on it.
AddressesAscend == \A b \in Blocks \ {Genesis} : Address[Parent[b]] < Address[b]

LEMMA AddressesGrow ==
    ASSUME AddressesAscend
    PROVE  \A b \in Blocks : \A a \in Ancestors[b] : Address[a] <= Address[b]
<1> DEFINE T == {b \in Blocks : \E a \in Ancestors[b] : ~ (Address[a] <= Address[b])}
<1> SUFFICES ASSUME T /= {} PROVE FALSE
  OBVIOUS
<1>1. PICK m \in T : m = Genesis \/ Parent[m] \in Blocks \ T
  <2> HIDE DEF T
  <2>1. T \in SUBSET Blocks
    BY DEF T
  <2> QED
    BY <2>1, LowestBlock
<1>2. PICK a \in Ancestors[m] : ~ (Address[a] <= Address[m])
  OBVIOUS
<1>3. m \in Blocks /\ a \in Blocks /\ Address[m] \in Nat /\ Address[a] \in Nat
  BY <1>2, OwnAncestor, ChainAssumption
<1>4. a /= m
  BY <1>2, <1>3
<1>5. m /= Genesis
  BY <1>2, <1>3, <1>4, ChainAssumption
<1>6. Parent[m] \in Blocks \ T /\ a \in Ancestors[Parent[m]] /\ Address[Parent[m]] \in Nat
  BY <1>1, <1>2, <1>3, <1>4, <1>5, ParentStep, ChainAssumption
<1>7. Address[Parent[m]] < Address[m]
  BY <1>3, <1>5 DEF AddressesAscend
<1>8. Address[a] <= Address[Parent[m]]
  BY <1>6
<1> HIDE DEF T
<1> QED
  BY <1>2, <1>3, <1>6, <1>7, <1>8

LEMMA SoundSame ==
    ASSUME NEW old, NEW new, SameLasting(old, new), Sound(old)
    PROVE  Sound(new)
BY OwnAncestor DEF SameLasting, Sound, Lasting

\* After a flush memory and disk say the same.
LEMMA FlushSupported ==
    ASSUME Inv', Up', dirty' = {}, Sound(nStatus')
    PROVE  Supported'
<1>1. /\ Behind(disk'.index, nStatus', {}) /\ Complete(nStatus', coins') /\ coins' \in Blocks
  BY DEF Inv, DiskRight, TipsRight, TypeOK
<1>2. \A b \in Blocks : \A f \in Lasting : f \in disk'.index[b] <=> f \in nStatus'[b]
  BY <1>1 DEF Behind
<1>3. Sound(disk'.index)
  BY <1>2, OwnAncestor DEF Sound, Lasting
<1>4. CheckedActive'
  BY <1>2 DEF CheckedActive, Lasting
<1>5. HeadersWritten'
  BY <1>1, <1>2, OwnAncestor DEF HeadersWritten, Complete, Lasting
<1> QED
  BY <1>3, <1>4, <1>5 DEF Supported

\* Only failure flags change and nothing is written.
LEMMA MarkedSupported ==
    ASSUME Supported, Up, SameLasting(nStatus, nStatus'), disk' = disk, tip' = tip, coins' = coins,
           tip \in Blocks, coins \in Blocks,
           mode' \in {"run", "fixing"} => mode \in {"run", "fixing"}
    PROVE  Supported'
<1>1. Sound(nStatus') /\ Sound(disk'.index)
  BY SoundSame DEF Supported
<1>2. CheckedActive'
  BY DEF Supported, CheckedActive, SameLasting, Lasting
<1>3. HeadersWritten'
  BY DEF Supported, HeadersWritten
<1> QED
  BY <1>1, <1>2, <1>3 DEF Supported

\* A header or data of a block whose parent is known.
LEMMA EntrySupported ==
    ASSUME Inv, Supported, Up, NEW b \in Blocks \ {Genesis}, Known(Parent[b]),
           NEW F \in SUBSET Flags, "SCRIPTS" \notin F,
           nStatus' = [nStatus EXCEPT ![b] = @ \cup F],
           disk' = disk, coins' = coins, tip' = tip, mode' = mode
    PROVE  Supported'
<1>1. nStatus \in [Blocks -> SUBSET Flags]
  BY UpFacts
<1>2. /\ \A a \in Blocks : a /= b => nStatus'[a] = nStatus[a]
      /\ nStatus'[b] = nStatus[b] \cup F
  BY <1>1
<1>3. \A a \in Ancestors[b] : a = b \/ "TREE" \in nStatus[a]
  BY ParentStep DEF Supported, Sound, Known
<1>4. Sound(nStatus')
  <2> SUFFICES ASSUME NEW c \in Blocks, NEW a \in Ancestors[c]
               PROVE  /\ "TREE" \in nStatus'[c] => "TREE" \in nStatus'[a]
                      /\ a /= Genesis /\ "SCRIPTS" \in nStatus'[c] => "SCRIPTS" \in nStatus'[a]
    BY DEF Sound
  <2>1. a \in Blocks
    BY OwnAncestor
  <2>2. "SCRIPTS" \in nStatus'[c] => "SCRIPTS" \in nStatus[c]
    BY <1>2
  <2> QED
    BY <1>2, <1>3, <2>1, <2>2 DEF Supported, Sound
<1>5. CheckedActive'
  BY <1>2 DEF Supported, CheckedActive, Up
<1>6. HeadersWritten'
  BY DEF Supported, HeadersWritten, Up
<1> QED
  BY <1>4, <1>5, <1>6 DEF Supported

LEMMA ConnectingMode ==
    ASSUME Inv, NEW b, Connecting(b)
    PROVE  mode \in {"run", "fixing"}
BY DEF Connecting, Inv, TipsRight

\* The entry that ConnectBlock writes: it is not in the active chain, so its
\* scripts count as checked only if the disk says so already.
LEMMA WrittenSound ==
    ASSUME Inv, Supported, NEW b \in Blocks, Connecting(b), disk' = Written(b)
    PROVE  /\ Sound(disk'.index) /\ "TREE" \in disk'.index[b]
           /\ \A c \in Blocks : \A f \in Lasting : f \in disk.index[c] => f \in disk'.index[c]
<1>1. /\ Up /\ coins = tip /\ tip \in Blocks
      /\ Ancestors[b] = Ancestors[tip] \cup {b} /\ b \notin Ancestors[tip]
      /\ "TREE" \in nStatus[b]
  BY ConnectingFacts
<1>2. disk \in Disks /\ Behind(disk.index, nStatus, dirty) /\ Whole(disk.index)
  BY <1>1, UpFacts
<1>3. \A a \in Blocks : disk'.index[a] = IF a = b THEN nStatus[b] ELSE disk.index[a]
  BY <1>2 DEF Written, Disks
<1>4. \A c \in Blocks : \A f \in Lasting : f \in disk.index[c] => f \in disk'.index[c]
  BY <1>2, <1>3 DEF Behind
<1>5. "SCRIPTS" \in nStatus[b] => "SCRIPTS" \in disk.index[b]
  BY <1>1, ConnectingMode DEF Supported, CheckedActive
<1>6. \A a \in Ancestors[tip] : "TREE" \in disk.index[a]
  BY <1>1 DEF Supported, HeadersWritten
<1>7. Sound(disk'.index)
  <2> SUFFICES ASSUME NEW c \in Blocks, NEW a \in Ancestors[c]
               PROVE  /\ "TREE" \in disk'.index[c] => "TREE" \in disk'.index[a]
                      /\ a /= Genesis /\ "SCRIPTS" \in disk'.index[c] => "SCRIPTS" \in disk'.index[a]
    BY DEF Sound
  <2>1. a \in Blocks
    BY OwnAncestor
  <2>2. "SCRIPTS" \in disk'.index[c] => "SCRIPTS" \in disk.index[c]
    BY <1>3, <1>5
  <2>3. "TREE" \in disk'.index[c] => "TREE" \in disk.index[c] \/ c = b
    BY <1>3
  <2>4. \A f \in {"TREE", "SCRIPTS"} : f \in disk.index[a] => f \in disk'.index[a]
    BY <1>4, <2>1 DEF Lasting
  <2>5. ASSUME "TREE" \in disk'.index[c] PROVE "TREE" \in disk'.index[a]
    <3>1. CASE "TREE" \in disk.index[c]
      BY <2>4, <3>1 DEF Supported, Sound
    <3>2. CASE c = b
      BY <1>1, <1>3, <1>6, <2>1, <2>4, <3>2
    <3> QED
      BY <2>3, <2>5, <3>1, <3>2
  <2>6. ASSUME a /= Genesis, "SCRIPTS" \in disk'.index[c] PROVE "SCRIPTS" \in disk'.index[a]
    BY <2>2, <2>4, <2>6 DEF Supported, Sound
  <2> QED
    BY <2>5, <2>6
<1> QED
  BY <1>1, <1>3, <1>4, <1>7

\* A block whose chain was checked is checked.
LEMMA CheckedSound ==
    ASSUME Inv, Supported, NEW b \in Blocks, Connecting(b)
    PROVE  Sound(Checked(b))
<1> DEFINE status == Checked(b)
<1>1. /\ Up /\ coins = tip /\ tip \in Blocks /\ b /= Genesis
      /\ Ancestors[b] = Ancestors[tip] \cup {b} /\ "TREE" \in nStatus[b]
  BY ConnectingFacts
<1>2. Complete(nStatus, tip)
  BY <1>1, UpFacts
<1>3. /\ \A a \in Blocks : a /= b => status[a] = nStatus[a]
      /\ status[b] = nStatus[b] \cup {"SCRIPTS"}
  BY CheckedFacts
<1> HIDE DEF status
<1>4. \A a \in Ancestors[b] : /\ "TREE" \in status[a]
                              /\ a /= Genesis => "SCRIPTS" \in status[a]
  BY <1>1, <1>2, <1>3, OwnAncestor DEF Complete
<1>5. Sound(status)
  <2> SUFFICES ASSUME NEW c \in Blocks, NEW a \in Ancestors[c]
               PROVE  /\ "TREE" \in status[c] => "TREE" \in status[a]
                      /\ a /= Genesis /\ "SCRIPTS" \in status[c] => "SCRIPTS" \in status[a]
    BY DEF Sound
  <2>1. CASE c = b
    BY <1>4, <2>1
  <2>2. CASE c /= b
    <3>1. a \in Blocks
      BY OwnAncestor
    <3> QED
      BY <1>3, <2>2, <3>1 DEF Supported, Sound
  <2> QED
    BY <2>1, <2>2
<1> QED
  BY <1>5 DEF status

\* The chain up to the block that ConnectBlock writes.
LEMMA WrittenHeaders ==
    ASSUME Inv, Supported, NEW b \in Blocks, Connecting(b), disk' = Written(b)
    PROVE  \A a \in Ancestors[b] : "TREE" \in disk'.index[a]
<1>1. /\ Up /\ coins = tip /\ tip \in Blocks /\ Ancestors[b] = Ancestors[tip] \cup {b}
  BY ConnectingFacts
<1>2. /\ "TREE" \in disk'.index[b]
      /\ \A c \in Blocks : \A f \in Lasting : f \in disk.index[c] => f \in disk'.index[c]
  BY WrittenSound
<1>3. \A a \in Ancestors[tip] : a \in Blocks /\ "TREE" \in disk.index[a]
  BY <1>1, OwnAncestor DEF Supported, HeadersWritten
<1> QED
  BY <1>1, <1>2, <1>3 DEF Lasting

\* The steps of ConnectTip that are not flushed.
LEMMA ConnectTipSupported ==
    ASSUME Inv, Inv', Supported, NEW b \in Blocks, ConnectTip(b)
    PROVE  Supported'
<1>1. /\ Connecting(b) /\ tip' = b /\ coins' = b /\ mode' = mode
      /\ nStatus' = Checked(b)
      /\ disk' = Written(b) \/ dirty' = {}
  BY DEF ConnectTip
<1>2. Up /\ tip \in Blocks /\ Ancestors[b] = Ancestors[tip] \cup {b}
  BY <1>1, ConnectingFacts
<1>3. /\ Sound(nStatus')
      /\ \A a \in Blocks : a /= b => nStatus'[a] = nStatus[a]
  BY <1>1, CheckedSound, CheckedFacts
<1>4. Up'
  BY <1>1, <1>2 DEF Up
<1>5. CASE dirty' = {}
  BY <1>3, <1>4, <1>5, FlushSupported
<1>6. CASE disk' = Written(b)
  <2>1. /\ Sound(disk'.index)
        /\ \A c \in Blocks : \A f \in Lasting : f \in disk.index[c] => f \in disk'.index[c]
    BY <1>1, <1>6, WrittenSound
  <2>2. CheckedActive'
    <3> SUFFICES ASSUME NEW c \in Blocks, "SCRIPTS" \in nStatus'[c], "SCRIPTS" \notin disk'.index[c],
                        c /= b
                 PROVE  c \in Ancestors[tip]
      BY <1>1, <1>2, OwnAncestor DEF CheckedActive
    <3>1. "SCRIPTS" \in nStatus[c] /\ "SCRIPTS" \notin disk.index[c]
      BY <1>3, <2>1 DEF Lasting
    <3>2. mode \in {"run", "fixing"}
      BY <1>1, ConnectingMode
    <3> QED
      BY <3>1, <3>2 DEF Supported, CheckedActive
  <2>3. HeadersWritten'
    BY <1>1, <1>6, WrittenHeaders DEF HeadersWritten
  <2> QED
    BY <1>3, <2>1, <2>2, <2>3 DEF Supported
<1> QED
  BY <1>1, <1>5, <1>6

\* The entry is written and the block turns out to be invalid or refused.
LEMMA ConnectFailedSupported ==
    ASSUME Inv, Supported, NEW b \in Blocks, Connecting(b), SameLasting(nStatus, nStatus'),
           disk' \in {disk, Written(b)}, tip' = tip, coins' = coins
    PROVE  Supported'
<1>1. Up /\ coins = tip /\ tip \in Blocks /\ mode \in {"run", "fixing"}
  BY ConnectingFacts, ConnectingMode
<1>2. CASE disk' = disk
  BY <1>1, <1>2, MarkedSupported
<1>3. CASE disk' = Written(b)
  <2>1. /\ Sound(disk'.index)
        /\ \A c \in Blocks : \A f \in Lasting : f \in disk.index[c] => f \in disk'.index[c]
    BY <1>3, WrittenSound
  <2>2. Sound(nStatus')
    BY SoundSame DEF Supported
  <2>3. CheckedActive'
    BY <1>1, <2>1 DEF Supported, CheckedActive, SameLasting, Lasting
  <2>4. HeadersWritten'
    BY <1>1, <2>1, OwnAncestor DEF Supported, HeadersWritten, Lasting
  <2> QED
    BY <2>1, <2>2, <2>3, <2>4 DEF Supported
<1> QED
  BY <1>2, <1>3

LEMMA ActivateSupported ==
    ASSUME Inv, Inv', Supported, Activate
    PROVE  Supported'
<1>1. CASE FindMostWorkChain
  <2>1. /\ Up /\ disk' = disk /\ tip' = tip /\ coins' = coins /\ mode' = mode
    BY <1>1 DEF FindMostWorkChain, Up
  <2>2. SameLasting(nStatus, nStatus')
    BY <1>1 DEF FindMostWorkChain, SameLasting, Lasting
  <2> QED
    BY <2>1, <2>2, UpFacts, MarkedSupported
<1>2. CASE DisconnectTip
  <2>1. Up /\ Up' /\ dirty' = {} /\ nStatus' = nStatus
    BY <1>2, StepFacts DEF DisconnectTip, Asserts, Up
  <2> QED
    BY <2>1, FlushSupported DEF Supported
<1>3. CASE AssertionFails
  <2>1. /\ Up /\ nStatus' = nStatus /\ disk' = disk /\ tip' = tip /\ coins' = coins
        /\ mode' = "abort"
    BY <1>3 DEF AssertionFails, Inv, TipsRight, Up
  <2>2. SameLasting(nStatus, nStatus')
    BY <2>1 DEF SameLasting
  <2> QED
    BY <2>1, <2>2, UpFacts, MarkedSupported
<1>4. ASSUME NEW b \in Blocks, ConnectTipInvalid(b) PROVE Supported'
  <2>1. /\ Connecting(b) /\ disk' \in {disk, Written(b)} /\ tip' = tip /\ coins' = coins
    BY <1>4 DEF ConnectTipInvalid
  <2>2. SameLasting(nStatus, nStatus')
    BY <1>4 DEF ConnectTipInvalid, SameLasting, Lasting, Inv, TypeOK
  <2> QED
    BY <2>1, <2>2, ConnectFailedSupported
<1>5. ASSUME NEW b \in Blocks, ConnectTipRefused(b) PROVE Supported'
  <2>1. /\ Connecting(b) /\ disk' \in {disk, Written(b)} /\ tip' = tip /\ coins' = coins
        /\ SameLasting(nStatus, nStatus')
    BY <1>5 DEF ConnectTipRefused, SameLasting
  <2> QED
    BY <2>1, ConnectFailedSupported
<1> QED
  BY <1>1, <1>2, <1>3, <1>4, <1>5, ConnectTipSupported DEF Activate

LEMMA OperateSupported ==
    ASSUME Inv, Inv', Supported, NEW b \in Blocks,
           \/ AcceptBlock(b) \/ AcceptBlockFails(b) \/ WriteBlockFails(b)
           \/ InvalidateBlock(b) \/ ReconsiderBlock(b)
    PROVE  Supported'
<1>1. Free /\ Up /\ tip \in Blocks /\ coins \in Blocks /\ mode = "run"
  <2>1. Free
    BY DEF AcceptBlock, AcceptBlockFails, WriteBlockFails, Offered, InvalidateBlock, ReconsiderBlock
  <2> QED
    BY <2>1, FreeFacts, UpFacts
<1>2. CASE AcceptBlock(b)
  <2> DEFINE F == {"TREE", "DATA"}
  <2>1. /\ b \in Blocks \ {Genesis} /\ Known(Parent[b]) /\ nStatus' = [nStatus EXCEPT ![b] = @ \cup F]
        /\ disk' = disk /\ coins' = coins /\ tip' = tip /\ mode' = mode
    BY <1>2 DEF AcceptBlock, Offered
  <2>2. F \in SUBSET Flags /\ "SCRIPTS" \notin F
    BY DEF Flags
  <2> HIDE DEF F
  <2> QED
    BY <1>1, <2>1, <2>2, EntrySupported
<1>3. CASE AcceptBlockFails(b)
  <2> DEFINE F == {"TREE", "FAILED_VALID"}
  <2>1. /\ b \in Blocks \ {Genesis} /\ Known(Parent[b]) /\ nStatus' = [nStatus EXCEPT ![b] = @ \cup F]
        /\ disk' = disk /\ coins' = coins /\ tip' = tip /\ mode' = mode
    BY <1>3 DEF AcceptBlockFails, Offered
  <2>2. F \in SUBSET Flags /\ "SCRIPTS" \notin F
    BY DEF Flags
  <2> HIDE DEF F
  <2> QED
    BY <1>1, <2>1, <2>2, EntrySupported
<1>4. CASE WriteBlockFails(b)
  <2> DEFINE F == {"TREE"}
  <2>1. /\ b \in Blocks \ {Genesis} /\ Known(Parent[b]) /\ nStatus' = [nStatus EXCEPT ![b] = @ \cup F]
        /\ disk' = disk /\ coins' = coins /\ tip' = tip /\ mode' = mode
    BY <1>4 DEF WriteBlockFails, Offered
  <2>2. F \in SUBSET Flags /\ "SCRIPTS" \notin F
    BY DEF Flags
  <2> HIDE DEF F
  <2> QED
    BY <1>1, <2>1, <2>2, EntrySupported
<1>5. CASE InvalidateBlock(b)
  <2>1. SameLasting(nStatus, nStatus')
    BY <1>5 DEF InvalidateBlock, Invalidated, SameLasting, Lasting
  <2>2. CASE disk' = disk /\ ActiveFrom(b) = {}
    <3>1. tip' = tip /\ coins' = coins /\ mode' = mode
      BY <1>1, <1>5, <2>2, FreeFacts DEF InvalidateBlock
    <3> QED
      BY <1>1, <2>1, <2>2, <3>1, MarkedSupported
  <2>3. CASE dirty' = {}
    <3>1. Sound(nStatus')
      BY <2>1, SoundSame DEF Supported
    <3>2. Up'
      BY <1>1, <1>5 DEF InvalidateBlock, Up
    <3> QED
      BY <2>3, <3>1, <3>2, FlushSupported
  <2> QED
    BY <1>5, <2>2, <2>3 DEF InvalidateBlock
<1>6. CASE ReconsiderBlock(b)
  <2>1. SameLasting(nStatus, nStatus')
    BY <1>6 DEF ReconsiderBlock, Unfailed, SameLasting, Lasting
  <2>2. tip' = tip /\ coins' = coins /\ disk' = disk /\ mode' = mode
    BY <1>6 DEF ReconsiderBlock
  <2> QED
    BY <1>1, <2>1, <2>2, MarkedSupported
<1> QED
  BY <1>2, <1>3, <1>4, <1>5, <1>6

\* With nothing in memory only the disk matters.
LEMMA ExitSupported ==
    ASSUME Exit, Sound(disk'.index)
    PROVE  Supported'
<1>1. Sound(nStatus')
  BY OwnAncestor DEF Exit, Sound
<1>2. CheckedActive' /\ HeadersWritten'
  BY DEF Exit, CheckedActive, HeadersWritten, Up
<1> QED
  BY <1>1, <1>2 DEF Supported

\* A flush that ends early has written an entry's ancestors before the entry.
LEMMA PartlyFlushedSound ==
    ASSUME TornFlush => AddressesAscend, Inv, Supported, Up, NEW new \in PartlyFlushed
    PROVE  Sound(new.index)
<1>1. CASE new = disk
  BY <1>1 DEF Supported
<1>2. CASE new /= disk
  <2>1. AddressesAscend
    BY <1>2 DEF PartlyFlushed
  <2>2. PICK S \in FirstDirty : \A a \in Blocks :
            new.index[a] = IF a \in S THEN nStatus[a] ELSE disk.index[a]
    BY PartlyFlushedAs
  <2>3. \A c \in S, a \in dirty : Address[a] <= Address[c] => a \in S
    BY DEF FirstDirty
  <2>4. Behind(disk.index, nStatus, dirty)
    BY UpFacts
  <2>5. ASSUME NEW c \in Blocks, NEW a \in Ancestors[c], NEW f \in Lasting,
               f \in nStatus[c] => f \in nStatus[a], f \in disk.index[c] => f \in disk.index[a],
               f \in new.index[c]
        PROVE  f \in new.index[a]
    <3>1. a \in Blocks /\ Address[a] <= Address[c]
      BY <2>1, OwnAncestor, AddressesGrow
    <3>2. CASE f \in disk.index[c]
      BY <2>2, <2>4, <2>5, <3>1, <3>2 DEF Behind
    <3>3. CASE f \notin disk.index[c]
      <4>1. c \in S /\ f \in nStatus[c] /\ f \in nStatus[a]
        BY <2>2, <2>5, <3>3
      <4>2. a \in S \/ a \notin dirty
        BY <2>3, <3>1, <4>1
      <4>3. a \in S \/ f \in disk.index[a]
        BY <2>4, <3>1, <4>1, <4>2 DEF Behind
      <4> QED
        BY <2>2, <3>1, <4>1, <4>3
    <3> QED
      BY <3>2, <3>3
  <2> QED
    BY <2>5 DEF Sound, Supported, Lasting
<1> QED
  BY <1>1, <1>2

LEMMA StopSupported ==
    ASSUME TornFlush => AddressesAscend, Inv, Inv', Supported, Stop
    PROVE  Supported'
<1>1. CASE Flush
  <2>1. Up' /\ dirty' = {} /\ nStatus' = nStatus
    BY <1>1, FreeFacts DEF Flush, Up
  <2> QED
    BY <2>1, FlushSupported DEF Supported
<1>2. CASE Shutdown
  <2> DEFINE new == Flushed(nStatus, dirty, coins, nHeightLast)
  <2>1. Exit /\ Up
    BY <1>2, StoppingFacts DEF Shutdown
  <2>2. WrittenAs(new, nStatus)
    BY <2>1, UpFacts, FlushedAll
  <2>3. disk' = [new EXCEPT !.prepared = TRUE]
    BY <1>2 DEF Shutdown
  <2>4. Behind(disk.index, nStatus, dirty) /\ FlushedAs(new, nStatus, dirty, coins, nHeightLast)
    BY <2>1, UpFacts, FlushedTyped
  <2> HIDE DEF new
  <2>5. disk'.index = new.index
    BY <2>2, <2>3 DEF WrittenAs, Disks
  <2>6. SameLasting(nStatus, disk'.index)
    BY <2>4, <2>5 DEF FlushedAs, Behind, SameLasting
  <2>7. Sound(disk'.index)
    BY <2>6, SoundSame DEF Supported
  <2> QED
    BY <2>1, <2>7, ExitSupported
<1>3. CASE Crash
  BY <1>3, ExitSupported DEF Crash, Supported
<1>4. CASE TornCrash
  <2>1. Exit /\ Up /\ disk' \in PartlyFlushed
    BY <1>4, StoppingFacts DEF TornCrash
  <2>2. Sound(disk'.index)
    BY <2>1, PartlyFlushedSound
  <2> QED
    BY <2>1, <2>2, ExitSupported
<1>5. ASSUME NEW b \in Blocks, CrashInvalidating(b) PROVE Supported'
  <2>1. Exit /\ Up
    BY <1>5 DEF CrashInvalidating, Free, Up
  <2>2. PICK t \in ActiveFrom(b) \ {tip} :
            LET S == Ancestors[tip] \ Ancestors[t]
            IN  disk' = Flushed(Invalidated(b, S), dirty \cup S \cup {b}, t, nHeightLast)
    BY <1>5 DEF CrashInvalidating
  <2> DEFINE S == Ancestors[tip] \ Ancestors[t]
             status == Invalidated(b, S)
             d == dirty \cup S \cup {b}
  <2>3. t \in Blocks /\ tip \in Blocks
    BY <2>1, UpFacts, OwnAncestor DEF ActiveFrom
  <2>4. status \in [Blocks -> SUBSET Flags] /\ SameLasting(nStatus, status)
    <3>1. nStatus \in [Blocks -> SUBSET Flags]
      BY <2>1, UpFacts
    <3> QED
      BY <3>1 DEF Invalidated, SameLasting, Lasting, Flags
  <2>5. disk' = Flushed(status, d, t, nHeightLast)
    BY <2>2
  <2> HIDE DEF S, status
  <2>6. dirty \subseteq d
    OBVIOUS
  <2> HIDE DEF d
  <2>7. FlushedAs(disk', status, d, t, nHeightLast)
    BY <2>1, <2>3, <2>4, <2>5, UpFacts, FlushedTyped
  <2>8. Behind(disk.index, status, d)
    BY <2>1, <2>4, <2>6, UpFacts, SameLastingKeeps
  <2>9. SameLasting(status, disk'.index)
    BY <2>7, <2>8 DEF FlushedAs, Behind, SameLasting
  <2>10. Sound(disk'.index)
    BY <2>4, <2>9, SoundSame DEF Supported
  <2> QED
    BY <2>1, <2>10, ExitSupported
<1>6. CASE ShutdownFails
  <2>1. Exit /\ Up
    BY <1>6, StoppingFacts DEF ShutdownFails
  <2>2. PICK new \in PartlyFlushed : disk' = [new EXCEPT !.prepared = TRUE]
    BY <1>6 DEF ShutdownFails
  <2>3. disk'.index = new.index
    BY <2>1, <2>2, PartlyFlushedRight, Prepared
  <2>4. Sound(disk'.index)
    BY <2>1, <2>3, PartlyFlushedSound
  <2> QED
    BY <2>1, <2>4, ExitSupported
<1> QED
  BY <1>1, <1>2, <1>3, <1>4, <1>5, <1>6 DEF Stop

\* A flush fails and nothing more will be connected.
LEMMA FlushFailsSupported ==
    ASSUME Inv, Up, FlushFails, Sound(nStatus'), Sound(disk'.index),
           \A a \in Ancestors[coins'] : "TREE" \in disk'.index[a]
    PROVE  Supported'
BY FlushFailsFacts DEF Supported, CheckedActive, HeadersWritten

LEMMA FailSupported ==
    ASSUME Inv, Inv', Supported, Fail
    PROVE  Supported'
<1>1. CASE DisconnectTipFails
  <2>1. /\ step /= None /\ tip \notin Ancestors[step.target] /\ coins = tip /\ FlushFails
        /\ coins' = Parent[tip] /\ nStatus' = nStatus /\ disk' = disk
    BY <1>1 DEF DisconnectTipFails, Asserts
  <2>2. Up /\ step.target \in Blocks /\ tip \in Blocks
    BY <2>1, StepFacts
  <2>3. tip /= Genesis
    BY <2>1, <2>2, GenesisFirst
  <2>4. \A a \in Ancestors[coins'] : "TREE" \in disk'.index[a]
    BY <2>1, <2>2, <2>3, ParentStep DEF Supported, HeadersWritten
  <2> QED
    BY <2>1, <2>2, <2>4, FlushFailsSupported DEF Supported
<1>2. CASE ReprocessBlocksFails
  <2>1. /\ Up /\ nStatus' = nStatus /\ coins = tip /\ tip \in Blocks /\ FlushFails
    BY <1>2, FreeFacts, UpFacts DEF ReprocessBlocksFails
  <2>2. PICK n \in 0 .. nReprocess :
            /\ tip' = Back(n) /\ tip' /= Genesis /\ coins' = Parent[tip']
            /\ UNCHANGED disk \/ dirty' = {}
    BY <1>2 DEF ReprocessBlocksFails
  <2>3. CASE dirty' = {}
    BY <2>1, <2>3, FlushFailsFacts, FlushSupported DEF Supported
  <2>4. CASE UNCHANGED disk
    <3>1. n \in Nat
      BY ChainAssumption
    <3>2. tip' \in Ancestors[tip]
      BY <2>1, <2>2, <3>1, BackIsAncestor
    <3>3. tip' \in Blocks /\ Ancestors[tip'] \subseteq Ancestors[tip]
      BY <2>1, <3>2, OwnAncestor, AncestorsTransitive
    <3>4. Ancestors[coins'] \subseteq Ancestors[tip']
      BY <2>2, <3>3, ParentStep
    <3>5. \A a \in Ancestors[coins'] : "TREE" \in disk'.index[a]
      BY <2>1, <2>4, <3>3, <3>4 DEF Supported, HeadersWritten
    <3> QED
      BY <2>1, <2>4, <3>5, FlushFailsSupported DEF Supported
  <2> QED
    BY <2>2, <2>3, <2>4
<1>3. ASSUME NEW b \in Blocks, ConnectTipFails(b) PROVE Supported'
  <2>1. /\ Connecting(b) /\ FlushFails /\ nStatus' = Checked(b) /\ disk' = Written(b) /\ coins' = b
    BY <1>3 DEF ConnectTipFails
  <2>2. Up
    BY <2>1, ConnectingFacts
  <2>3. Sound(nStatus') /\ Sound(disk'.index) /\ \A a \in Ancestors[coins'] : "TREE" \in disk'.index[a]
    BY <2>1, CheckedSound, WrittenSound, WrittenHeaders
  <2> QED
    BY <2>1, <2>2, <2>3, FlushFailsSupported
<1>4. ASSUME NEW b \in Blocks, InvalidateBlockFails(b) PROVE Supported'
  <2>1. /\ Up /\ coins = tip /\ tip \in Blocks /\ FlushFails /\ b \in Blocks \ {Genesis}
        /\ nStatus \in [Blocks -> SUBSET Flags] /\ disk \in Disks
        /\ nHeightLast \in 0 .. Cardinality(Blocks) - 1
    BY <1>4, FreeFacts, UpFacts, ChainAssumption DEF InvalidateBlockFails
  <2>2. PICK t \in ActiveFrom(b) :
            LET S == Ancestors[tip] \ Ancestors[t]
            IN  /\ nStatus' = Invalidated(b, S \cup {t}) /\ coins' = Parent[t]
                /\ \/ disk' = disk
                   \/ disk' = Flushed(Invalidated(b, S), dirty \cup S \cup {b}, t, nHeightLast)
    BY <1>4 DEF InvalidateBlockFails
  <2> DEFINE S   == Ancestors[tip] \ Ancestors[t]
             old == Invalidated(b, S)
             new == Invalidated(b, S \cup {t})
             d   == dirty \cup S \cup {b}
  <2>3. t \in Ancestors[tip] /\ b \in Ancestors[t] /\ t \in Blocks
    BY <2>1, OwnAncestor DEF ActiveFrom
  <2>4. t /= Genesis
    BY <2>1, <2>3, ChainAssumption
  <2>5. /\ SameLasting(nStatus, new) /\ SameLasting(nStatus, old)
        /\ old \in [Blocks -> SUBSET Flags]
    BY <2>1 DEF Invalidated, SameLasting, Lasting, Flags
  <2>6. /\ nStatus' = new /\ coins' = Parent[t]
        /\ disk' = disk \/ disk' = Flushed(old, d, t, nHeightLast)
    BY <2>2
  <2>7. dirty \subseteq d
    OBVIOUS
  <2> HIDE DEF S, old, new, d
  <2>8. Sound(nStatus')
    BY <2>5, <2>6, SoundSame DEF Supported
  <2>9. disk' = disk \/ SameLasting(nStatus, disk'.index)
    <3> SUFFICES ASSUME disk' = Flushed(old, d, t, nHeightLast) PROVE SameLasting(nStatus, disk'.index)
      BY <2>6
    <3>1. FlushedAs(disk', old, d, t, nHeightLast)
      BY <2>1, <2>3, <2>5, FlushedTyped
    <3>2. Behind(disk.index, old, d)
      BY <2>1, <2>5, <2>7, UpFacts, SameLastingKeeps
    <3> QED
      BY <2>5, <3>1, <3>2 DEF FlushedAs, Behind, SameLasting
  <2>10. Sound(disk'.index)
    BY <2>9, SoundSame DEF Supported
  <2>11. Ancestors[coins'] \subseteq Ancestors[tip]
    <3>1. Ancestors[t] \subseteq Ancestors[tip]
      BY <2>1, <2>3, AncestorsTransitive
    <3> QED
      BY <2>3, <2>4, <2>6, <3>1, ParentStep
  <2>12. \A a \in Ancestors[coins'] : "TREE" \in disk'.index[a]
    <3> SUFFICES ASSUME NEW a \in Ancestors[coins'] PROVE "TREE" \in disk'.index[a]
      OBVIOUS
    <3>1. a \in Ancestors[tip] /\ a \in Blocks
      BY <2>1, <2>11, OwnAncestor
    <3>2. "TREE" \in disk.index[a] /\ "TREE" \in nStatus[a]
      BY <2>1, <3>1, UpFacts DEF Supported, HeadersWritten, Complete
    <3> QED
      BY <2>9, <3>1, <3>2 DEF SameLasting, Lasting
  <2> QED
    BY <2>1, <2>8, <2>10, <2>12, FlushFailsSupported
<1> QED
  BY <1>1, <1>2, <1>3, <1>4 DEF Fail

LEMMA StartSupported ==
    ASSUME Inv, Inv', Supported, Start
    PROVE  Supported'
<1>1. CASE Restart \/ Repair
  <2>1. LoadBlockIndex
    BY <1>1 DEF Restart, Repair
  <2>2. dirty' = {} /\ nStatus' = disk.index /\ coins' = disk.best
    BY <2>1 DEF LoadBlockIndex
  <2>3. Up'
    <3>1. disk.best \in Blocks
      BY DiskTyped DEF Inv, Disks
    <3>2. coins' /= None
      BY <2>2, <3>1, ChainAssumption
    <3> QED
      BY <3>2 DEF Inv, TipsRight
  <2> QED
    BY <2>2, <2>3, FlushSupported DEF Supported
<1>2. CASE FinishRepair
  <2>1. dirty' = {} /\ nStatus' = nStatus /\ mode' \in {"run", "abort"}
    BY <1>2 DEF FinishRepair
  <2> QED
    BY <2>1, FlushSupported DEF Supported, Up
<1> QED
  BY <1>1, <1>2 DEF Start

LEMMA NextSupported ==
    ASSUME TornFlush => AddressesAscend, Inv, Inv', Supported, [Next]_vars
    PROVE  Supported'
<1>1. CASE Activate
  BY <1>1, ActivateSupported
<1>2. CASE Operate
  BY <1>2, OperateSupported DEF Operate
<1>3. CASE ReprocessBlocks
  <2>1. Up' /\ dirty' = {} /\ nStatus' = nStatus
    BY <1>3, FreeFacts DEF ReprocessBlocks, Up
  <2> QED
    BY <2>1, FlushSupported DEF Supported
<1>4. CASE Stop
  BY <1>4, StopSupported
<1>5. CASE Start
  BY <1>5, StartSupported
<1>6. CASE UNCHANGED vars
  BY <1>6 DEF vars, memory, Supported, Sound, CheckedActive, HeadersWritten, Up
<1>7. CASE Fail
  BY <1>7, FailSupported
<1> QED
  BY <1>1, <1>2, <1>3, <1>4, <1>5, <1>6, <1>7 DEF Next

LEMMA InitSupported == Init => Supported
<1> SUFFICES ASSUME Init PROVE Supported
  OBVIOUS
<1>1. /\ nStatus = [b \in Blocks |-> IF b = Genesis THEN {"TREE", "DATA"} ELSE {}]
      /\ disk.index = nStatus /\ coins = Genesis /\ Ancestors[Genesis] = {Genesis}
      /\ Genesis \in Blocks
  BY ChainAssumption DEF Init
<1>2. Sound(nStatus)
  BY <1>1 DEF Sound
<1> QED
  BY <1>1, <1>2 DEF Supported, CheckedActive, HeadersWritten

LEMMA AlwaysSupported ==
    ASSUME TornFlush => AddressesAscend
    PROVE  Spec => [](Inv /\ Supported)
<1>1. Init => Inv /\ Supported
  BY InitInv, InitSupported
<1>2. Inv /\ Supported /\ [Next]_vars => (Inv /\ Supported)'
  BY NextInv, NextSupported
<1> QED
  BY <1>1, <1>2, PTL DEF Spec

\* SCRIPTS valid implies all parents SCRIPTS valid, in memory and on disk:
\* neither ConnectBlock, which writes the entry of a block before it knows
\* whether the block is valid, nor a flush that a crash cut short puts a
\* checked block on top of one that has not been checked.
THEOREM ScriptsAreChecked ==
    ASSUME TornFlush => AddressesAscend
    PROVE  Spec => []ScriptsChecked
<1>1. Inv /\ Supported => ScriptsChecked
  BY DEF Supported, Sound, ScriptsChecked
<1> QED
  BY <1>1, AlwaysSupported, PTL

\* Whenever the node dies, what is on disk can be loaded: the chain of the
\* coins has its data, and LoadBlockIndexGuts finds every parent.
THEOREM DiskAlwaysLoads ==
    ASSUME TornFlush => AddressesAscend
    PROVE  Spec => []DiskLoads
<1>1. Inv /\ Supported => DiskLoads
  <2> SUFFICES ASSUME Inv, Supported PROVE DiskLoads
    OBVIOUS
  <2>1. Whole(disk.index) /\ Complete(disk.index, disk.best)
    BY DEF Inv, DiskRight
  <2>2. \A b \in OnDisk : Ancestors[b] \subseteq OnDisk
    BY <2>1, OwnAncestor DEF Whole, OnDisk, Supported, Sound
  <2> QED
    BY <2>1, <2>2 DEF DiskLoads, Complete
<1> QED
  BY <1>1, AlwaysSupported, PTL

-----------------------------------------------------------------------------
(* A node without repair always starts again.                              *)

\* No block up to t is failed.
Clean(index, t) == \A a \in Ancestors[t] : index[a] \cap Fails = {}

\* A failure on disk that memory has forgotten is to be written.
Forgotten(index, status, d) == \A b \in Blocks : b \in d \/ index[b] \cap Fails \subseteq status[b]

\* The chain of the coins is not failed, in memory and on disk.  For that the
\* disk must not say of an entry that it is failed once memory has forgotten,
\* and the coins on disk must not be ahead of those in memory, except when a
\* block could not be disconnected.
Healthy ==
    /\ mode \in {"run", "failed", "down", "broken", "abort"}
    /\ Clean(disk.index, disk.best)
    /\ mode \in {"run", "failed"} =>
          /\ Clean(nStatus, coins)
          /\ Forgotten(disk.index, nStatus, dirty)
          /\ disk.best \in Ancestors[coins] \/ (mode = "failed" /\ Clean(nStatus, disk.best))

LEMMA StepMode == ASSUME Inv, Healthy, step /= None PROVE mode = "run"
BY DEF Inv, TipsRight, Healthy

\* A flush with the coins at a block whose chain is not failed.
LEMMA FlushedClean ==
    ASSUME NEW status, NEW d, NEW best \in Blocks, NEW last, NEW new,
           FlushedAs(new, status, d, best, last),
           Forgotten(disk.index, status, d), Clean(status, best)
    PROVE  Clean(new.index, new.best) /\ Forgotten(new.index, status, {}) /\ new.best = best
<1>1. /\ new.best = best
      /\ \A b \in Blocks : new.index[b] = IF b \in d THEN status[b] ELSE disk.index[b]
  BY DEF FlushedAs
<1>2. Forgotten(new.index, status, {})
  BY <1>1 DEF Forgotten
<1>3. Clean(new.index, best)
  BY <1>2, OwnAncestor DEF Forgotten, Clean
<1> QED
  BY <1>1, <1>2, <1>3

LEMMA HealthyFlush ==
    ASSUME disk \in Disks, nStatus' \in [Blocks -> SUBSET Flags], coins' \in Blocks,
           NEW d, NEW last \in 0 .. Cardinality(Blocks) - 1,
           disk' = Flushed(nStatus', d, coins', last), dirty' = {}, mode' = "run",
           Forgotten(disk.index, nStatus', d), Clean(nStatus', coins')
    PROVE  Healthy'
<1> DEFINE status == nStatus'
           best   == coins'
<1>1. /\ status \in [Blocks -> SUBSET Flags] /\ best \in Blocks
      /\ disk' = Flushed(status, d, best, last)
      /\ Forgotten(disk.index, status, d) /\ Clean(status, best)
  OBVIOUS
<1> HIDE DEF status, best
<1>2. FlushedAs(disk', status, d, best, last)
  BY <1>1, FlushedTyped
<1>3. Clean(disk'.index, disk'.best) /\ Forgotten(disk'.index, status, {}) /\ disk'.best = best
  BY <1>1, <1>2, FlushedClean
<1>4. disk'.best \in Ancestors[coins']
  BY <1>1, <1>3, OwnAncestor DEF best
<1>5. Forgotten(disk'.index, nStatus', {})
  BY <1>3 DEF status
<1> QED
  BY <1>3, <1>4, <1>5 DEF Healthy

\* A flush that leaves the flags as they are and the coins not further on.
LEMMA HealthyBack ==
    ASSUME Inv, Healthy, mode = "run", nStatus' = nStatus, coins' \in Ancestors[coins],
           disk' = Flushed(nStatus, dirty, coins', nHeightLast), dirty' = {}, mode' = "run"
    PROVE  Healthy'
<1>1. /\ disk \in Disks /\ nStatus' \in [Blocks -> SUBSET Flags] /\ coins \in Blocks
      /\ nHeightLast \in 0 .. Cardinality(Blocks) - 1
      /\ disk' = Flushed(nStatus', dirty, coins', nHeightLast)
      /\ Forgotten(disk.index, nStatus', dirty)
  BY UpFacts DEF Healthy, Up
<1>2. coins' \in Blocks /\ Ancestors[coins'] \subseteq Ancestors[coins]
  BY <1>1, OwnAncestor, AncestorsTransitive
<1>3. Clean(nStatus', coins')
  BY <1>2 DEF Healthy, Clean
<1> QED
  BY <1>1, <1>2, <1>3, HealthyFlush

\* Flags change, the coins do not.
LEMMA HealthyMarked ==
    ASSUME Healthy, mode = "run", mode' = mode, coins' = coins, disk' = disk,
           dirty \subseteq dirty',
           Forgotten(nStatus, nStatus', dirty'), Clean(nStatus', coins)
    PROVE  Healthy'
<1>1. Clean(disk'.index, disk'.best)
  BY DEF Healthy
<1>2. Forgotten(disk'.index, nStatus', dirty')
  BY DEF Healthy, Forgotten
<1> QED
  BY <1>1, <1>2 DEF Healthy

LEMMA HealthyExit ==
    ASSUME Exit, Clean(disk'.index, disk'.best)
    PROVE  Healthy'
BY DEF Exit, Healthy

\* A start without repair, from what any end of the process has left.
LEMMA StartHealthy ==
    ASSUME Inv, Healthy, Start, ~Repair
    PROVE  Healthy' /\ mode' /= "abort"
<1>1. Restart
  BY DEF Start, FinishRepair, Healthy
<1>2. /\ nStatus' = disk.index /\ coins' = disk.best /\ disk.best \in Blocks
      /\ disk'.index = disk.index /\ disk'.best = disk.best
  BY <1>1, DiskTyped, DiskKept DEF Restart, LoadBlockIndex, Inv, Disks
<1>3. disk.best \in Prune(NoSequence, LoadedCandidates, disk.best)
  <2>1. disk.best \in LoadedLinked
    BY <1>2 DEF Inv, DiskRight, Complete, LoadedLinked
  <2>2. ~OnDiskFailed(disk.best)
    BY <1>2, OwnAncestor DEF Healthy, Clean, OnDiskFailed, Fails
  <2>3. ~SortsBefore(NoSequence, disk.best, disk.best)
    <3>1. nChainWork[disk.best] \in Nat /\ Address[disk.best] \in Nat /\ NoSequence[disk.best] \in Nat
      BY <1>2, ChainAssumption DEF NoSequence
    <3> QED
      BY <3>1 DEF SortsBefore
  <2> QED
    BY <2>1, <2>2, <2>3 DEF Prune, LoadedCandidates
<1>4. mode' \in {"run", "broken"}
  <2> DEFINE left == Prune(NoSequence, LoadedCandidates, disk.best)
  <2>1. mode' = CASE Orphaned -> "broken" [] ~Orphaned /\ left = {} -> "abort" [] OTHER -> "run"
    BY <1>1 DEF Restart
  <2>2. left /= {}
    BY <1>3
  <2> HIDE DEF left
  <2> QED
    BY <2>1, <2>2
<1>5. Clean(disk'.index, disk'.best) /\ Clean(nStatus', coins')
  BY <1>2 DEF Healthy
<1>6. Forgotten(disk'.index, nStatus', dirty')
  BY <1>2 DEF Forgotten
<1>7. disk'.best \in Ancestors[coins']
  BY <1>2, OwnAncestor
<1> QED
  BY <1>4, <1>5, <1>6, <1>7 DEF Healthy

LEMMA FindMostWorkChainHealthy ==
    ASSUME Inv, Healthy, FindMostWorkChain
    PROVE  Healthy'
<1>1. /\ mode = "run" /\ Up /\ mode' = mode /\ coins' = coins /\ disk' = disk /\ dirty' = dirty
      /\ coins = tip /\ coins \in Blocks
  <2>1. mode = "run" /\ Up
    BY DEF FindMostWorkChain, Healthy, Up
  <2> QED
    BY <2>1, UpFacts DEF FindMostWorkChain
<1>2. nStatus' = [b \in Blocks |-> IF b \in Dropped /\ ~Failed(b)
                                   THEN nStatus[b] \cup {"FAILED_CHILD"} ELSE nStatus[b]]
  BY DEF FindMostWorkChain
<1>3. \A a \in Dropped : a \notin Ancestors[tip]
  BY DEF Dropped, UpToFailed, Branch
<1>4. \A a \in Ancestors[coins] : a \in Blocks /\ a \notin Dropped
  BY <1>1, <1>3, OwnAncestor
<1>5. Clean(nStatus', coins)
  BY <1>1, <1>2, <1>4 DEF Healthy, Clean
<1>6. Forgotten(nStatus, nStatus', dirty')
  BY <1>2 DEF Forgotten
<1> QED
  BY <1>1, <1>5, <1>6, HealthyMarked

LEMMA DisconnectTipHealthy ==
    ASSUME Inv, Healthy, DisconnectTip
    PROVE  Healthy'
<1>1. /\ step /= None /\ tip \notin Ancestors[step.target] /\ coins = tip
      /\ coins' = Parent[tip] /\ dirty' = {} /\ nStatus' = nStatus /\ mode' = mode
      /\ disk' = Flushed(nStatus, dirty, coins', nHeightLast)
  BY DEF DisconnectTip, Asserts
<1>2. Up /\ step.target \in Blocks /\ tip \in Blocks
  BY <1>1, StepFacts
<1>3. tip /= Genesis
  BY <1>1, <1>2, GenesisFirst
<1>4. coins' \in Ancestors[coins]
  BY <1>1, <1>2, <1>3, ParentStep, OwnAncestor
<1>5. mode = "run"
  BY <1>1, StepMode
<1> QED
  BY <1>1, <1>4, <1>5, HealthyBack

\* ConnectBlock writes an entry that is not failed.
LEMMA WrittenHealthy ==
    ASSUME Inv, Healthy, NEW b \in Blocks, Connecting(b), disk' = Written(b)
    PROVE  Clean(disk'.index, disk'.best) /\ Forgotten(disk'.index, nStatus, dirty)
           /\ disk'.best \in Ancestors[tip]
<1>1. Up /\ coins = tip /\ ~Failed(b) /\ mode = "run"
  BY ConnectingFacts, StepMode
<1>2. disk \in Disks /\ disk.best \in Blocks
  BY <1>1, UpFacts DEF Disks
<1>3. /\ disk'.best = disk.best
      /\ \A a \in Blocks : disk'.index[a] = IF a = b THEN nStatus[b] ELSE disk.index[a]
  BY <1>2 DEF Written, Disks
<1>4. nStatus[b] \cap Fails = {}
  BY <1>1 DEF Failed, Fails
<1>5. Clean(disk'.index, disk'.best)
  BY <1>2, <1>3, <1>4, OwnAncestor DEF Healthy, Clean
<1>6. Forgotten(disk'.index, nStatus, dirty)
  BY <1>1, <1>3 DEF Healthy, Forgotten
<1> QED
  BY <1>1, <1>3, <1>5, <1>6 DEF Healthy

\* A checked block has no other failures than before.
LEMMA CheckedHealthy ==
    ASSUME Inv, Healthy, NEW b \in Blocks, Connecting(b)
    PROVE  /\ \A a \in Blocks : Checked(b)[a] \cap Fails = nStatus[a] \cap Fails
           /\ Checked(b) \in [Blocks -> SUBSET Flags]
           /\ Clean(Checked(b), b) /\ dirty \subseteq Dirtied(b)
<1>1. /\ Up /\ coins = tip /\ tip \in Blocks /\ mode = "run"
      /\ Ancestors[b] = Ancestors[tip] \cup {b} /\ ~Failed(b)
  BY ConnectingFacts, StepMode
<1>2. nStatus \in [Blocks -> SUBSET Flags]
  BY <1>1, UpFacts
<1>3. /\ \A a \in Blocks : Checked(b)[a] \cap Fails = nStatus[a] \cap Fails
      /\ Checked(b) \in [Blocks -> SUBSET Flags]
  BY <1>2 DEF Checked, Flags, Fails
<1>4. nStatus[b] \cap Fails = {}
  BY <1>1 DEF Failed, Fails
<1>5. Clean(Checked(b), b)
  BY <1>1, <1>3, <1>4, OwnAncestor DEF Healthy, Clean
<1> QED
  BY <1>3, <1>5 DEF Dirtied

LEMMA ConnectTipHealthy ==
    ASSUME Inv, Healthy, NEW b \in Blocks, ConnectTip(b)
    PROVE  Healthy'
<1> DEFINE status == Checked(b)
<1>1. /\ Connecting(b) /\ nStatus' = status
      /\ \/ disk' = Written(b) /\ dirty' = Dirtied(b)
         \/ disk' = Flushed(status, Dirtied(b), b, nHeightLast) /\ dirty' = {}
      /\ tip' = b /\ coins' = b /\ mode' = mode
  BY DEF ConnectTip
<1>2. /\ Up /\ coins = tip /\ tip \in Blocks /\ mode = "run"
      /\ Ancestors[b] = Ancestors[tip] \cup {b}
  BY <1>1, ConnectingFacts, StepMode
<1>3. /\ nStatus \in [Blocks -> SUBSET Flags] /\ disk \in Disks
      /\ nHeightLast \in 0 .. Cardinality(Blocks) - 1
  BY <1>2, UpFacts
<1>4. /\ \A a \in Blocks : status[a] \cap Fails = nStatus[a] \cap Fails
      /\ status \in [Blocks -> SUBSET Flags]
      /\ Clean(status, b) /\ dirty \subseteq Dirtied(b)
  BY <1>1, CheckedHealthy
<1> HIDE DEF status
<1>5. Clean(status, b)
  BY <1>4
<1>6. dirty \subseteq Dirtied(b)
  BY <1>4
<1>7. mode' = "run"
  BY <1>1, <1>2
<1>8. CASE disk' = Written(b) /\ dirty' = Dirtied(b)
  <2>1. /\ Clean(disk'.index, disk'.best) /\ Forgotten(disk'.index, nStatus, dirty)
        /\ disk'.best \in Ancestors[tip]
    BY <1>1, <1>8, WrittenHealthy
  <2>2. Forgotten(disk'.index, status, Dirtied(b))
    BY <1>4, <1>6, <2>1 DEF Forgotten
  <2> QED
    BY <1>1, <1>2, <1>5, <1>7, <1>8, <2>1, <2>2 DEF Healthy
<1>9. CASE disk' = Flushed(status, Dirtied(b), b, nHeightLast) /\ dirty' = {}
  <2>1. Forgotten(disk.index, status, Dirtied(b))
    BY <1>2, <1>4, <1>6 DEF Healthy, Forgotten
  <2>2. /\ nStatus' \in [Blocks -> SUBSET Flags] /\ coins' \in Blocks
        /\ disk' = Flushed(nStatus', Dirtied(b), coins', nHeightLast) /\ dirty' = {}
        /\ Forgotten(disk.index, nStatus', Dirtied(b)) /\ Clean(nStatus', coins')
    BY <1>1, <1>4, <1>5, <1>9, <2>1
  <2> QED
    BY <1>3, <1>7, <2>2, HealthyFlush
<1> QED
  BY <1>1, <1>8, <1>9

LEMMA ConnectTipRejectsHealthy ==
    ASSUME Inv, Healthy, NEW b \in Blocks, ConnectTipInvalid(b) \/ ConnectTipRefused(b)
    PROVE  Healthy'
<1>1. /\ Connecting(b) /\ disk' \in {disk, Written(b)} /\ coins' = coins
      /\ \/ nStatus' = [nStatus EXCEPT ![b] = @ \cup {"FAILED_VALID"}] /\ dirty' = dirty \cup {b}
         \/ nStatus' = nStatus /\ dirty' = dirty
  BY DEF ConnectTipInvalid, ConnectTipRefused
<1>2. /\ Up /\ coins = tip /\ tip \in Blocks /\ b \notin Ancestors[tip] /\ mode = "run"
  BY <1>1, ConnectingFacts, StepMode
<1>3. mode' = "run"
  BY <1>2 DEF ConnectTipInvalid, ConnectTipRefused
<1>4. /\ Clean(disk'.index, disk'.best) /\ Forgotten(disk'.index, nStatus, dirty)
      /\ disk'.best \in Ancestors[coins]
  <2>1. CASE disk' = disk
    BY <1>2, <2>1 DEF Healthy
  <2>2. CASE disk' = Written(b)
    BY <1>1, <1>2, <2>2, WrittenHealthy
  <2> QED
    BY <1>1, <2>1, <2>2
<1>5. nStatus \in [Blocks -> SUBSET Flags]
  BY <1>2, UpFacts
<1>6. /\ \A a \in Blocks : a /= b => nStatus'[a] = nStatus[a]
      /\ \A a \in Blocks : nStatus[a] \subseteq nStatus'[a]
      /\ dirty \subseteq dirty'
  BY <1>1, <1>5
<1>7. Clean(nStatus', coins)
  BY <1>2, <1>6, OwnAncestor DEF Healthy, Clean
<1>8. Forgotten(disk'.index, nStatus', dirty')
  BY <1>4, <1>6 DEF Forgotten
<1> QED
  BY <1>1, <1>3, <1>4, <1>7, <1>8 DEF Healthy

LEMMA ActivateHealthy ==
    ASSUME Inv, Healthy, Activate
    PROVE  Healthy'
<1>1. CASE AssertionFails
  BY <1>1 DEF AssertionFails, Healthy
<1> QED
  BY <1>1, FindMostWorkChainHealthy, DisconnectTipHealthy, ConnectTipHealthy,
     ConnectTipRejectsHealthy DEF Activate

LEMMA OperateHealthy ==
    ASSUME Inv, Healthy, NEW b \in Blocks,
           \/ AcceptBlock(b) \/ AcceptBlockFails(b) \/ WriteBlockFails(b)
           \/ InvalidateBlock(b) \/ ReconsiderBlock(b)
    PROVE  Healthy'
<1>1. Free /\ Up /\ coins = tip /\ coins \in Blocks /\ mode = "run"
  <2>1. Free
    BY DEF AcceptBlock, AcceptBlockFails, WriteBlockFails, Offered, InvalidateBlock, ReconsiderBlock
  <2> QED
    BY <2>1, FreeFacts, UpFacts
<1>2. /\ nStatus \in [Blocks -> SUBSET Flags] /\ disk \in Disks /\ Complete(nStatus, coins)
      /\ nHeightLast \in 0 .. Cardinality(Blocks) - 1
  BY <1>1, UpFacts
<1>3. /\ \A a \in Ancestors[coins] : a \in Blocks /\ nStatus[a] \cap Fails = {}
      /\ Forgotten(disk.index, nStatus, dirty)
  BY <1>1, OwnAncestor DEF Healthy, Clean
<1>4. CASE AcceptBlock(b) \/ AcceptBlockFails(b) \/ WriteBlockFails(b)
  <2>1. PICK F \in SUBSET Flags : nStatus' = [nStatus EXCEPT ![b] = @ \cup F]
    <3>1. {"TREE", "DATA"} \in SUBSET Flags /\ {"TREE", "FAILED_VALID"} \in SUBSET Flags
          /\ {"TREE"} \in SUBSET Flags
      BY DEF Flags
    <3> QED
      BY <1>4, <3>1 DEF AcceptBlock, AcceptBlockFails, WriteBlockFails
  <2>2. /\ "DATA" \notin nStatus[b] /\ dirty \subseteq dirty'
        /\ mode' = mode /\ coins' = coins /\ disk' = disk
    BY <1>4 DEF AcceptBlock, AcceptBlockFails, WriteBlockFails, Offered
  <2>3. b \notin Ancestors[coins]
    BY <1>2, <2>2 DEF Complete
  <2>4. /\ \A a \in Blocks : a /= b => nStatus'[a] = nStatus[a]
        /\ \A a \in Blocks : nStatus[a] \subseteq nStatus'[a]
    BY <1>2, <2>1
  <2>5. Clean(nStatus', coins)
    BY <1>3, <2>3, <2>4 DEF Clean
  <2>6. Forgotten(nStatus, nStatus', dirty')
    BY <2>4 DEF Forgotten
  <2> QED
    BY <1>1, <2>2, <2>5, <2>6, HealthyMarked
<1>5. CASE InvalidateBlock(b)
  <2> DEFINE S      == ActiveFrom(b)
             status == Invalidated(b, S)
             t      == IF S = {} THEN tip ELSE Parent[b]
             d      == dirty \cup S \cup {b}
  <2>1. /\ b \in Blocks \ {Genesis} /\ nStatus' = status /\ coins' = t /\ mode' = mode
        /\ \/ S = {} /\ dirty' = d /\ disk' = disk
           \/ S /= {} /\ dirty' = {} /\ disk' = Flushed(status, d, t, nHeightLast)
    BY <1>5, ChainAssumption DEF InvalidateBlock
  <2>2. /\ status \in [Blocks -> SUBSET Flags]
        /\ \A a \in Blocks : nStatus[a] \subseteq status[a]
        /\ \A a \in Blocks : a \notin S \cup {b} => status[a] = nStatus[a]
    BY <1>2 DEF Invalidated, Flags
  <2>3. b \in Ancestors[tip] <=> S /= {}
    BY <1>1, OwnAncestor, AncestorsTransitive DEF ActiveFrom
  <2>4. S /= {} => /\ Parent[b] \in Blocks /\ Ancestors[Parent[b]] \subseteq Ancestors[tip]
                   /\ b \notin Ancestors[Parent[b]]
                   /\ \A a \in Ancestors[Parent[b]] : a \notin S
    <3> SUFFICES ASSUME S /= {}
                 PROVE  /\ Parent[b] \in Blocks /\ Ancestors[Parent[b]] \subseteq Ancestors[tip]
                        /\ b \notin Ancestors[Parent[b]]
                        /\ \A a \in Ancestors[Parent[b]] : a \notin S
      OBVIOUS
    <3>1. Ancestors[b] \subseteq Ancestors[tip]
      BY <1>1, <2>3, AncestorsTransitive
    <3>2. /\ Parent[b] \in Blocks /\ Ancestors[Parent[b]] \subseteq Ancestors[b]
          /\ b \notin Ancestors[Parent[b]]
      BY <2>1, ParentStep
    <3>3. \A a \in Ancestors[Parent[b]] : Ancestors[a] \subseteq Ancestors[Parent[b]]
      BY <3>2, AncestorsTransitive
    <3> QED
      BY <3>1, <3>2, <3>3 DEF ActiveFrom
  <2>5. t \in Blocks /\ Clean(status, t)
    <3>1. CASE S = {}
      BY <1>1, <1>3, <2>2, <2>3, <3>1, OwnAncestor DEF Clean
    <3>2. CASE S /= {}
      <4>1. \A a \in Ancestors[Parent[b]] : a \in Blocks /\ status[a] = nStatus[a]
        BY <1>1, <1>3, <2>2, <2>4, <3>2
      <4> QED
        BY <1>1, <1>3, <2>4, <3>2, <4>1 DEF Clean
    <3> QED
      BY <3>1, <3>2
  <2>6. Forgotten(disk.index, status, d) /\ Forgotten(nStatus, status, d)
    BY <1>3, <2>2 DEF Forgotten
  <2>7. S = {} => t = tip
    OBVIOUS
  <2>8. dirty \subseteq d
    OBVIOUS
  <2> HIDE DEF S, status, t, d
  <2>9. CASE S = {} /\ dirty' = d /\ disk' = disk
    BY <1>1, <2>1, <2>5, <2>6, <2>7, <2>8, <2>9, HealthyMarked
  <2>10. CASE S /= {} /\ dirty' = {} /\ disk' = Flushed(status, d, t, nHeightLast)
    <3>1. /\ nStatus' \in [Blocks -> SUBSET Flags] /\ coins' \in Blocks
          /\ disk' = Flushed(nStatus', d, coins', nHeightLast) /\ mode' = "run"
          /\ Forgotten(disk.index, nStatus', d) /\ Clean(nStatus', coins')
      BY <1>1, <2>1, <2>2, <2>5, <2>6, <2>10
    <3> QED
      BY <1>2, <2>10, <3>1, HealthyFlush
  <2> QED
    BY <2>1, <2>9, <2>10
<1>6. CASE ReconsiderBlock(b)
  <2>1. /\ nStatus' = Unfailed(b) /\ dirty' = dirty \cup Touched(b)
        /\ mode' = mode /\ coins' = coins /\ disk' = disk
    BY <1>6 DEF ReconsiderBlock
  <2>2. \A a \in Blocks : /\ nStatus'[a] \subseteq nStatus[a]
                          /\ a \notin Touched(b) => nStatus[a] \cap Fails \subseteq nStatus'[a]
    BY <2>1 DEF Unfailed, Touched, Failed, Fails
  <2>3. Clean(nStatus', coins)
    BY <1>3, <2>2 DEF Clean
  <2>4. Forgotten(nStatus, nStatus', dirty')
    BY <2>1, <2>2 DEF Forgotten
  <2> QED
    BY <1>1, <2>1, <2>3, <2>4, HealthyMarked
<1> QED
  BY <1>4, <1>5, <1>6

\* A flush that ends early leaves a chain of the coins that is not failed.
LEMMA PartlyFlushedClean ==
    ASSUME Inv, Healthy, mode \in {"run", "failed"}, NEW new \in PartlyFlushed
    PROVE  Clean(new.index, new.best)
<1>1. Up
  BY DEF Up
<1>2. new.best = disk.best /\ disk.best \in Blocks /\ coins \in Blocks
  BY <1>1, PartlyFlushedAs, UpFacts DEF Disks
<1>3. PICK S \in FirstDirty : \A a \in Blocks :
          new.index[a] = IF a \in S THEN nStatus[a] ELSE disk.index[a]
  BY <1>1, PartlyFlushedAs
<1>4. Clean(disk.index, disk.best) /\ Clean(nStatus, disk.best)
  BY <1>2, AncestorsTransitive DEF Healthy, Clean
<1> QED
  BY <1>2, <1>3, <1>4, OwnAncestor DEF Clean

\* However the process ends, but for a crash in the middle of InvalidateBlock.
LEMMA StopHealthy ==
    ASSUME Inv, Healthy, Flush \/ Shutdown \/ ShutdownFails \/ Crash \/ TornCrash
    PROVE  Healthy'
<1>1. CASE Flush
  <2>1. mode = "run" /\ coins \in Blocks
    BY <1>1, FreeFacts, UpFacts DEF Flush
  <2> QED
    BY <1>1, <2>1, OwnAncestor, HealthyBack DEF Flush
<1>2. ASSUME Stopping PROVE Exit /\ Up /\ mode \in {"run", "failed"}
  BY <1>2, StoppingFacts DEF Stopping, Free
<1>3. CASE Shutdown
  <2> DEFINE new == Flushed(nStatus, dirty, coins, nHeightLast)
  <2>1. Exit /\ Up /\ mode \in {"run", "failed"}
    BY <1>2, <1>3 DEF Shutdown
  <2>2. FlushedAs(new, nStatus, dirty, coins, nHeightLast) /\ coins \in Blocks
    BY <2>1, UpFacts, FlushedTyped
  <2>3. disk' = [new EXCEPT !.prepared = TRUE]
    BY <1>3 DEF Shutdown
  <2> HIDE DEF new
  <2>4. Clean(new.index, new.best)
    BY <2>1, <2>2, FlushedClean DEF Healthy
  <2>5. disk'.index = new.index /\ disk'.best = new.best
    BY <2>2, <2>3, Prepared DEF FlushedAs
  <2> QED
    BY <2>1, <2>4, <2>5, HealthyExit
<1>4. CASE ShutdownFails
  <2>1. Exit /\ Up /\ mode \in {"run", "failed"}
    BY <1>2, <1>4 DEF ShutdownFails
  <2>2. PICK new \in PartlyFlushed : disk' = [new EXCEPT !.prepared = TRUE]
    BY <1>4 DEF ShutdownFails
  <2>3. disk'.index = new.index /\ disk'.best = new.best
    BY <2>1, <2>2, PartlyFlushedRight, Prepared
  <2> QED
    BY <2>1, <2>3, PartlyFlushedClean, HealthyExit
<1>5. CASE Crash
  BY <1>5, HealthyExit DEF Crash, Healthy
<1>6. CASE TornCrash
  BY <1>2, <1>6, PartlyFlushedClean, HealthyExit DEF TornCrash
<1> QED
  BY <1>1, <1>3, <1>4, <1>5, <1>6

LEMMA ReprocessBlocksHealthy ==
    ASSUME Inv, Healthy, ReprocessBlocks
    PROVE  Healthy'
<1>1. tip \in Blocks /\ coins = tip /\ mode = "run"
  BY FreeFacts, UpFacts DEF ReprocessBlocks
<1>2. PICK n \in 0 .. nReprocess :
          tip' = Back(n + 1) /\ disk' = Flushed(nStatus, dirty, tip', nHeightLast)
  BY DEF ReprocessBlocks
<1>3. n + 1 \in Nat
  BY <1>2, ChainAssumption
<1>4. tip' \in Ancestors[tip]
  BY <1>1, <1>2, <1>3, BackIsAncestor
<1>5. /\ nStatus' = nStatus /\ dirty' = {} /\ mode' = "run" /\ coins' = tip'
  BY DEF ReprocessBlocks, Free
<1> QED
  BY <1>1, <1>2, <1>4, <1>5, HealthyBack

\* InvalidateBlock is not cut short.
Uncut == ~\E b \in Blocks : CrashInvalidating(b) \/ InvalidateBlockFails(b)

\* The block that could not be disconnected is still the disk's.
LEMMA DisconnectTipFailsHealthy ==
    ASSUME Inv, Healthy, DisconnectTipFails
    PROVE  Healthy'
<1>1. /\ step /= None /\ tip \notin Ancestors[step.target] /\ coins = tip /\ FlushFails
      /\ coins' = Parent[tip] /\ nStatus' = nStatus /\ disk' = disk /\ dirty' = dirty
  BY DEF DisconnectTipFails, Asserts
<1>2. step.target \in Blocks /\ tip \in Blocks /\ mode = "run"
  BY <1>1, StepFacts, StepMode
<1>3. tip /= Genesis
  BY <1>1, <1>2, GenesisFirst
<1>4. Ancestors[coins'] \subseteq Ancestors[tip]
  BY <1>1, <1>2, <1>3, ParentStep
<1>5. mode' = "failed"
  BY <1>1, <1>2 DEF FlushFails
<1>6. Clean(nStatus', coins') /\ Clean(nStatus', disk'.best)
  BY <1>1, <1>2, <1>4, AncestorsTransitive DEF Healthy, Clean
<1> QED
  BY <1>1, <1>2, <1>5, <1>6 DEF Healthy

LEMMA ConnectTipFailsHealthy ==
    ASSUME Inv, Healthy, NEW b \in Blocks, ConnectTipFails(b)
    PROVE  Healthy'
<1>1. /\ Connecting(b) /\ FlushFails /\ nStatus' = Checked(b) /\ disk' = Written(b)
      /\ dirty' = Dirtied(b) /\ coins' = b
  BY DEF ConnectTipFails
<1>2. Ancestors[b] = Ancestors[tip] \cup {b} /\ mode = "run"
  BY <1>1, ConnectingFacts, StepMode
<1>3. /\ \A a \in Blocks : nStatus'[a] \cap Fails = nStatus[a] \cap Fails
      /\ Clean(nStatus', coins') /\ dirty \subseteq dirty'
  BY <1>1, CheckedHealthy
<1>4. /\ Clean(disk'.index, disk'.best) /\ Forgotten(disk'.index, nStatus, dirty)
      /\ disk'.best \in Ancestors[coins']
  BY <1>1, <1>2, WrittenHealthy
<1>5. Forgotten(disk'.index, nStatus', dirty')
  BY <1>3, <1>4 DEF Forgotten
<1>6. mode' = "failed"
  BY <1>1, <1>2 DEF FlushFails
<1> QED
  BY <1>3, <1>4, <1>5, <1>6 DEF Healthy

LEMMA ReprocessBlocksFailsHealthy ==
    ASSUME Inv, Healthy, ReprocessBlocksFails
    PROVE  Healthy'
<1>1. /\ Up /\ coins = tip /\ tip \in Blocks /\ mode = "run" /\ nStatus' = nStatus
      /\ mode' = "failed"
  BY FreeFacts, UpFacts DEF ReprocessBlocksFails, FlushFails
<1>2. PICK n \in 0 .. nReprocess :
          /\ tip' = Back(n) /\ tip' /= Genesis /\ coins' = Parent[tip']
          /\ \/ UNCHANGED <<dirty, disk>>
             \/ dirty' = {} /\ disk' = Flushed(nStatus, dirty, tip', nHeightLast)
  BY DEF ReprocessBlocksFails
<1>3. n \in Nat
  BY ChainAssumption
<1>4. tip' \in Ancestors[tip]
  BY <1>1, <1>2, <1>3, BackIsAncestor
<1>5. tip' \in Blocks /\ Ancestors[tip'] \subseteq Ancestors[tip]
  BY <1>1, <1>4, OwnAncestor, AncestorsTransitive
<1>6. Ancestors[coins'] \subseteq Ancestors[tip']
  BY <1>2, <1>5, ParentStep
<1>7. Clean(nStatus', coins') /\ Clean(nStatus, tip')
  BY <1>1, <1>5, <1>6 DEF Healthy, Clean
<1>8. CASE UNCHANGED <<dirty, disk>>
  <2>1. Clean(nStatus', disk'.best)
    BY <1>1, <1>8, AncestorsTransitive DEF Healthy, Clean
  <2> QED
    BY <1>1, <1>7, <1>8, <2>1 DEF Healthy
<1>9. CASE dirty' = {} /\ disk' = Flushed(nStatus, dirty, tip', nHeightLast)
  <2>1. Forgotten(disk.index, nStatus, dirty)
    BY <1>1 DEF Healthy
  <2>2. FlushedAs(disk', nStatus, dirty, tip', nHeightLast)
    BY <1>1, <1>5, <1>9, UpFacts, FlushedTyped
  <2>3. Clean(disk'.index, disk'.best) /\ Forgotten(disk'.index, nStatus, {}) /\ disk'.best = tip'
    BY <1>5, <1>7, <2>1, <2>2, FlushedClean
  <2> QED
    BY <1>1, <1>7, <1>9, <2>3 DEF Healthy
<1> QED
  BY <1>2, <1>8, <1>9

LEMMA NextHealthy ==
    ASSUME Inv, Healthy, [Next]_vars, [Uncut /\ ~Repair]_vars
    PROVE  Healthy'
<1>1. CASE UNCHANGED vars
  BY <1>1 DEF vars, memory, Healthy
<1>2. CASE Activate
  BY <1>2, ActivateHealthy
<1>3. CASE Operate
  BY <1>3, OperateHealthy DEF Operate
<1>4. CASE ReprocessBlocks
  BY <1>4, ReprocessBlocksHealthy
<1>5. CASE Fail /\ Uncut
  BY <1>5, DisconnectTipFailsHealthy, ConnectTipFailsHealthy, ReprocessBlocksFailsHealthy
     DEF Fail, Uncut
<1>6. CASE Stop /\ Uncut
  BY <1>6, StopHealthy DEF Stop, Uncut
<1>7. CASE Start /\ ~Repair
  BY <1>7, StartHealthy
<1> QED
  BY <1>1, <1>2, <1>3, <1>4, <1>5, <1>6, <1>7 DEF Next

LEMMA InitHealthy == Init => Healthy
<1> SUFFICES ASSUME Init PROVE Healthy
  OBVIOUS
<1>1. /\ Genesis \in Blocks /\ Ancestors[Genesis] = {Genesis}
      /\ disk.index = nStatus /\ disk.best = Genesis /\ coins = Genesis /\ mode = "run"
      /\ nStatus[Genesis] = {"TREE", "DATA"}
  BY ChainAssumption DEF Init
<1> QED
  BY <1>1 DEF Healthy, Clean, Forgotten, Fails

\* The step in which an assertion fails.
LEMMA AbortsAfterFailure ==
    ASSUME Inv, Healthy, Next, Uncut, ~Repair, mode' = "abort"
    PROVE  mode = "failed"
<1>2. CASE Activate
  <2>1. CASE AssertionFails
    <3>1. mode /= "run"
      BY <2>1 DEF AssertionFails, Asserts, Inv, TipsRight
    <3> QED
      BY <2>1, <3>1, StepMode DEF AssertionFails
  <2>2. CASE ~AssertionFails
    <3>1. mode = "run"
      BY <1>2, <2>2, StepMode DEF Activate, FindMostWorkChain, DisconnectTip, ConnectTip,
         ConnectTipInvalid, ConnectTipRefused, Connecting, Healthy
    <3> QED
      BY <1>2, <2>2, <3>1 DEF Activate, FindMostWorkChain, DisconnectTip, ConnectTip,
         ConnectTipInvalid, ConnectTipRefused
  <2> QED
    BY <2>1, <2>2
<1>3. CASE Operate \/ ReprocessBlocks
  BY <1>3 DEF Operate, AcceptBlock, AcceptBlockFails, WriteBlockFails, Offered, InvalidateBlock,
     ReconsiderBlock, ReprocessBlocks, Free
<1>4. CASE Fail
  BY <1>4 DEF Fail, DisconnectTipFails, ReprocessBlocksFails, ConnectTipFails,
     InvalidateBlockFails, FlushFails
<1>5. CASE Stop
  BY <1>5 DEF Stop, Flush, Free, Shutdown, ShutdownFails, Stopping, Crash, TornCrash,
     CrashInvalidating, Exit
<1>6. CASE Start
  BY <1>6, StartHealthy
<1> QED
  BY <1>2, <1>3, <1>4, <1>5, <1>6 DEF Next

\* Only a node whose own flush failed ends in an assertion.  What it leaves on
\* disk, and what a node leaves that stops or crashes between two parts of a
\* flush or of a reorganisation, starts again: the block of the coins is not
\* failed, which makes it a candidate.  That is so but for an InvalidateBlock
\* cut short, which leaves a failed block under the coins, and for a start with
\* repair, which sets the tip apart from the coins.
THEOREM OnlyFailedNodeAborts ==
    Spec /\ [][Uncut /\ ~Repair]_vars => AbortsOnlyFailed
<1>1. Init => Inv /\ Healthy
  BY InitInv, InitHealthy
<1>2. Inv /\ Healthy /\ [Next]_vars /\ [Uncut /\ ~Repair]_vars => (Inv /\ Healthy)'
  BY NextInv, NextHealthy
<1>3. Inv /\ Healthy /\ [Next]_vars /\ [Uncut /\ ~Repair]_vars
          => [mode' = "abort" => mode = "failed"]_vars
  BY AbortsAfterFailure
<1> QED
  BY <1>1, <1>2, <1>3, PTL DEF Spec, AbortsOnlyFailed

-----------------------------------------------------------------------------
(* Failures in a node that does not stop.                                  *)

\* Where the failures come from: a block is found invalid or invalidated, or
\* comes after one that was.
Caused(b) == (\E a \in Ancestors[b] : "FAILED_VALID" \in nStatus[a]) \/ LeftFailed(b)

FailuresCaused ==
    /\ \A v \in Blocks : "FAILED_VALID" \in nStatus[v] =>
           v /= Genesis /\ (v \in Revocable \/ Outcomes[v] /= {"valid"})
    /\ \A b \in Blocks : Failed(b) => Caused(b)

\* What holds of a block's cause holds for the blocks after it.
LEMMA LeftAfter ==
    ASSUME NEW b \in Blocks, NEW f \in Ancestors[b], LeftFailed(f)
    PROVE  LeftFailed(b)
<1>1. PICK r \in Revocable \cup Rejected, a \in Ancestors[f] :
          ClearedBefore(r, a) /\ r \notin Ancestors[f] /\ f \notin Ancestors[r]
  BY DEF LeftFailed
<1>2. r \in Blocks /\ f \in Blocks
  BY OwnAncestor, ChainAssumption
<1>3. a \in Ancestors[b]
  BY <1>1, AncestorsTransitive
<1>4. r \notin Ancestors[b]
  BY <1>1, AncestorsOrdered
<1>5. b \notin Ancestors[r]
  BY <1>1, <1>2, AncestorsTransitive
<1> QED
  BY <1>1, <1>3, <1>4, <1>5 DEF LeftFailed

\* Nothing is forgotten.
LEMMA CausedKept ==
    ASSUME NEW b \in Blocks, Caused(b), \A a \in Blocks : nStatus[a] \subseteq nStatus'[a]
    PROVE  Caused(b)'
<1>1. \A r \in Revocable \cup Rejected : \A a : ClearedBefore(r, a) => ClearedBefore(r, a)'
  BY ChainAssumption DEF ClearedBefore, Known
<1>2. LeftFailed(b) => LeftFailed(b)'
  BY <1>1 DEF LeftFailed
<1> QED
  BY <1>2, OwnAncestor DEF Caused

\* Flags are added, and each new failure has its cause.
LEMMA FailuresMarked ==
    ASSUME FailuresCaused, \A a \in Blocks : nStatus[a] \subseteq nStatus'[a],
           \A v \in Blocks : "FAILED_VALID" \in nStatus'[v] /\ "FAILED_VALID" \notin nStatus[v] =>
               v /= Genesis /\ (v \in Revocable \/ Outcomes[v] /= {"valid"}),
           \A b \in Blocks : Failed(b)' /\ ~Failed(b) =>
               \/ \E a \in Ancestors[b] : "FAILED_VALID" \in nStatus'[a]
               \/ \E f \in Ancestors[b] : Failed(f)
    PROVE  FailuresCaused'
<1>1. ASSUME NEW b \in Blocks, Failed(b)' PROVE Caused(b)'
  <2>1. CASE Failed(b)
    BY <2>1, CausedKept DEF FailuresCaused
  <2>2. CASE \E a \in Ancestors[b] : "FAILED_VALID" \in nStatus'[a]
    BY <2>2 DEF Caused
  <2>3. CASE \E f \in Ancestors[b] : Failed(f)
    <3>1. PICK f \in Ancestors[b] : Failed(f)
      BY <2>3
    <3>2. f \in Blocks /\ Caused(f)
      BY <3>1, OwnAncestor DEF FailuresCaused
    <3>3. Caused(b)
      BY <3>1, <3>2, LeftAfter, AncestorsTransitive DEF Caused
    <3> QED
      BY <3>3, CausedKept
  <2> QED
    BY <1>1, <2>1, <2>2, <2>3
<1>2. \A v \in Blocks : "FAILED_VALID" \in nStatus'[v] =>
          v /= Genesis /\ (v \in Revocable \/ Outcomes[v] /= {"valid"})
  BY DEF FailuresCaused
<1> QED
  BY <1>1, <1>2 DEF FailuresCaused

\* No flags change.
LEMMA FailuresKept ==
    ASSUME FailuresCaused, nStatus' = nStatus
    PROVE  FailuresCaused'
BY DEF FailuresCaused, Caused, LeftFailed, ClearedBefore, Known, Failed

\* ReconsiderBlock(r) takes a cause away from b only if b is on neither side
\* of r, or else b is no longer failed.
LEMMA ReconsiderBlockFailures ==
    ASSUME Inv, FailuresCaused, NEW r \in Blocks, ReconsiderBlock(r)
    PROVE  FailuresCaused'
<1>1. /\ r \in Revocable \cup Rejected /\ Known(r)
      /\ nStatus' = [a \in Blocks |-> IF a \in Cleared(r)
                                      THEN nStatus[a] \ {"FAILED_VALID", "FAILED_CHILD"}
                                      ELSE nStatus[a]]
  BY DEF ReconsiderBlock, Unfailed
<1>2. \A a \in Blocks : Known(a)' <=> Known(a)
  BY <1>1 DEF Known
<1>3. \A b \in Blocks : LeftFailed(b) => LeftFailed(b)'
  BY <1>2, ChainAssumption DEF LeftFailed, ClearedBefore
<1>4. \A a \in Blocks : nStatus[a] /= {} => Known(a)
  <2>1. Up
    BY FreeFacts DEF ReconsiderBlock
  <2> QED
    BY <2>1, UpFacts DEF Whole, Known
<1>5. ASSUME NEW b \in Blocks, Failed(b)' PROVE Caused(b)'
  <2>1. Failed(b) /\ b \notin Cleared(r)
    BY <1>1, <1>5 DEF Failed
  <2>2. Known(b)
    BY <1>4, <2>1 DEF Failed
  <2>3. b \notin Ancestors[r] /\ r \notin Ancestors[b]
    BY <2>1, <2>2 DEF Cleared
  <2>4. CASE LeftFailed(b)
    BY <1>3, <2>4 DEF Caused
  <2>5. ASSUME NEW v \in Ancestors[b], "FAILED_VALID" \in nStatus[v] PROVE Caused(b)'
    <3>1. v \in Blocks /\ v /= Genesis /\ (v \in Revocable \/ Outcomes[v] /= {"valid"})
      BY <2>5, OwnAncestor DEF FailuresCaused
    <3>2. CASE v \notin Cleared(r)
      BY <1>1, <2>5, <3>1, <3>2 DEF Caused
    <3>3. CASE v \in Cleared(r)
      <4>1. r \in Ancestors[v] \/ v \in Ancestors[r]
        BY <3>3 DEF Cleared
      <4>2. r \notin Ancestors[v]
        BY <2>3, <2>5, AncestorsTransitive
      <4>3. v \in Ancestors[r] /\ v /= r
        BY <2>3, <2>5, <4>1, <4>2
      <4>4. ClearedBefore(r, v)'
        BY <1>1, <1>2, <3>1, <4>3 DEF ClearedBefore
      <4>5. LeftFailed(b)'
        BY <1>1, <2>3, <2>5, <4>4 DEF LeftFailed
      <4> QED
        BY <4>5 DEF Caused
    <3> QED
      BY <3>2, <3>3
  <2> QED
    BY <2>1, <2>4, <2>5 DEF FailuresCaused, Caused
<1>6. \A v \in Blocks : "FAILED_VALID" \in nStatus'[v] => "FAILED_VALID" \in nStatus[v]
  BY <1>1
<1> QED
  BY <1>5, <1>6 DEF FailuresCaused

LEMMA ActivateFailures ==
    ASSUME Inv, FailuresCaused, Activate
    PROVE  FailuresCaused'
<1>1. CASE FindMostWorkChain
  <2>1. nStatus' = [b \in Blocks |-> IF b \in Dropped /\ ~Failed(b)
                                     THEN nStatus[b] \cup {"FAILED_CHILD"} ELSE nStatus[b]]
    BY <1>1 DEF FindMostWorkChain
  <2>2. /\ \A a \in Blocks : nStatus[a] \subseteq nStatus'[a]
        /\ \A v \in Blocks : "FAILED_VALID" \in nStatus'[v] => "FAILED_VALID" \in nStatus[v]
        /\ \A b \in Blocks : Failed(b)' /\ ~Failed(b) => b \in Dropped
    BY <2>1 DEF Failed
  <2>3. \A b \in Blocks : Failed(b)' /\ ~Failed(b) => \E f \in Ancestors[b] : Failed(f)
    BY <2>2, DroppedFailed
  <2> QED
    BY <2>2, <2>3, FailuresMarked
<1>2. ASSUME NEW b \in Blocks, ConnectTipInvalid(b) PROVE FailuresCaused'
  <2>1. /\ Connecting(b) /\ Outcomes[b] \cap {"invalid", "unacceptable"} /= {}
        /\ nStatus' = [nStatus EXCEPT ![b] = @ \cup {"FAILED_VALID"}]
    BY <1>2 DEF ConnectTipInvalid
  <2>2. b /= Genesis /\ Outcomes[b] /= {"valid"}
    BY <2>1, ConnectingFacts
  <2>3. /\ \A a \in Blocks : a /= b => nStatus'[a] = nStatus[a]
        /\ nStatus'[b] = nStatus[b] \cup {"FAILED_VALID"}
    BY <2>1 DEF Inv, TypeOK
  <2>4. \A a \in Blocks : nStatus[a] \subseteq nStatus'[a]
    BY <2>3
  <2>5. \A c \in Blocks : Failed(c)' /\ ~Failed(c) => c = b
    BY <2>3 DEF Failed
  <2>6. b \in Ancestors[b] /\ "FAILED_VALID" \in nStatus'[b]
    BY <2>3, OwnAncestor
  <2> QED
    BY <2>2, <2>3, <2>4, <2>5, <2>6, FailuresMarked
<1>3. CASE \/ DisconnectTip \/ AssertionFails
           \/ \E b \in Blocks : ConnectTipRefused(b)
  BY <1>3, FailuresKept DEF DisconnectTip, AssertionFails, ConnectTipRefused
<1>4. ASSUME NEW b \in Blocks, ConnectTip(b) PROVE FailuresCaused'
  <2>1. nStatus' = [nStatus EXCEPT ![b] = IF Failed(b) THEN @ ELSE @ \cup {"SCRIPTS"}]
    BY <1>4 DEF ConnectTip, Checked
  <2>2. \A a \in Blocks : \/ nStatus'[a] = nStatus[a]
                          \/ nStatus'[a] = nStatus[a] \cup {"SCRIPTS"}
    BY <2>1 DEF Inv, TypeOK
  <2>3. /\ \A a \in Blocks : nStatus[a] \subseteq nStatus'[a]
        /\ \A a \in Blocks : "FAILED_VALID" \in nStatus'[a] => "FAILED_VALID" \in nStatus[a]
        /\ \A a \in Blocks : Failed(a)' => Failed(a)
    BY <2>2 DEF Failed
  <2> QED
    BY <2>3, FailuresMarked
<1> QED
  BY <1>1, <1>2, <1>3, <1>4 DEF Activate

LEMMA OperateFailures ==
    ASSUME Inv, FailuresCaused, NEW b \in Blocks,
           \/ AcceptBlock(b) \/ AcceptBlockFails(b) \/ WriteBlockFails(b)
           \/ InvalidateBlock(b) \/ ReconsiderBlock(b)
    PROVE  FailuresCaused'
<1>1. nStatus \in [Blocks -> SUBSET Flags]
  BY DEF Inv, TypeOK
<1>2. CASE AcceptBlock(b) \/ WriteBlockFails(b)
  <2>1. PICK F \in {{"TREE", "DATA"}, {"TREE"}} : nStatus' = [nStatus EXCEPT ![b] = @ \cup F]
    BY <1>2 DEF AcceptBlock, WriteBlockFails
  <2>2. \A a \in Blocks : \/ nStatus'[a] = nStatus[a] \/ nStatus'[a] = nStatus[a] \cup F
    BY <1>1, <2>1
  <2>3. /\ \A a \in Blocks : nStatus[a] \subseteq nStatus'[a]
        /\ \A a \in Blocks : "FAILED_VALID" \in nStatus'[a] => "FAILED_VALID" \in nStatus[a]
        /\ \A a \in Blocks : Failed(a)' => Failed(a)
    BY <2>2 DEF Failed
  <2> QED
    BY <2>3, FailuresMarked
<1>3. CASE AcceptBlockFails(b)
  <2>1. /\ b /= Genesis /\ "unacceptable" \in Outcomes[b]
        /\ nStatus' = [nStatus EXCEPT ![b] = @ \cup {"TREE", "FAILED_VALID"}]
    BY <1>3 DEF AcceptBlockFails, Offered
  <2>2. Outcomes[b] /= {"valid"}
    BY <2>1
  <2>3. /\ \A a \in Blocks : a /= b => nStatus'[a] = nStatus[a]
        /\ nStatus'[b] = nStatus[b] \cup {"TREE", "FAILED_VALID"}
    BY <1>1, <2>1
  <2>4. \A a \in Blocks : nStatus[a] \subseteq nStatus'[a]
    BY <2>3
  <2>5. \A c \in Blocks : Failed(c)' /\ ~Failed(c) => c = b
    BY <2>3 DEF Failed
  <2>6. b \in Ancestors[b] /\ "FAILED_VALID" \in nStatus'[b]
    BY <2>3, OwnAncestor
  <2> QED
    BY <2>1, <2>2, <2>3, <2>4, <2>5, <2>6, FailuresMarked
<1>4. CASE InvalidateBlock(b)
  <2> DEFINE S == ActiveFrom(b)
  <2>1. b \in Revocable /\ b /= Genesis /\ nStatus' = Invalidated(b, S)
    BY <1>4, ChainAssumption DEF InvalidateBlock
  <2>2. \A a \in S : b \in Ancestors[a]
    BY DEF ActiveFrom
  <2> HIDE DEF S
  <2>3. /\ \A a \in Blocks : nStatus[a] \subseteq nStatus'[a]
        /\ \A v \in Blocks : "FAILED_VALID" \in nStatus'[v] /\ "FAILED_VALID" \notin nStatus[v] => v = b
        /\ \A c \in Blocks : c \notin S \cup {b} => nStatus'[c] = nStatus[c]
        /\ "FAILED_VALID" \in nStatus'[b]
    BY <1>1, <2>1 DEF Invalidated
  <2>4. \A c \in Blocks : Failed(c)' /\ ~Failed(c) => b \in Ancestors[c]
    BY <2>2, <2>3, OwnAncestor DEF Failed
  <2> QED
    BY <2>1, <2>3, <2>4, FailuresMarked
<1> QED
  BY <1>2, <1>3, <1>4, ReconsiderBlockFailures

RunningNext == Activate \/ Operate \/ ReprocessBlocks \/ Flush

\* Such a node has its tip where its coins are, so that it keeps running.
LEMMA RunningHealthy ==
    ASSUME Inv, Healthy, mode = "run", [RunningNext]_vars
    PROVE  Healthy' /\ mode' = "run" /\ ~AssertionFails
<1>1. ASSUME UNCHANGED vars PROVE Healthy'
  BY <1>1 DEF vars, memory, Healthy
<1>2. ASSUME Operate PROVE Healthy'
  BY <1>2, OperateHealthy DEF Operate
<1>3. ~AssertionFails
  <2>1. coins = tip
    BY DEF Inv, TipsRight
  <2> QED
    BY <2>1 DEF AssertionFails, Asserts
<1>4. mode' = "run"
  <2>1. ASSUME Activate PROVE mode' = "run"
    BY <1>3, <2>1 DEF Activate, FindMostWorkChain, DisconnectTip, ConnectTip,
       ConnectTipInvalid, ConnectTipRefused
  <2>2. ASSUME Operate PROVE mode' = "run"
    BY <2>2 DEF Operate, AcceptBlock, AcceptBlockFails, WriteBlockFails, InvalidateBlock,
       ReconsiderBlock
  <2>3. ASSUME ReprocessBlocks \/ Flush \/ UNCHANGED vars PROVE mode' = "run"
    BY <2>3 DEF ReprocessBlocks, Flush, vars
  <2> QED
    BY <2>1, <2>2, <2>3 DEF RunningNext
<1> QED
  BY <1>1, <1>2, <1>3, <1>4, ActivateHealthy, ReprocessBlocksHealthy, StopHealthy DEF RunningNext

LEMMA RunningFailures ==
    ASSUME Inv, FailuresCaused, [RunningNext]_vars
    PROVE  FailuresCaused'
<1>1. CASE UNCHANGED vars \/ ReprocessBlocks \/ Flush
  BY <1>1, FailuresKept DEF vars, memory, ReprocessBlocks, Flush
<1>2. CASE Operate
  BY <1>2, OperateFailures DEF Operate
<1> QED
  BY <1>1, <1>2, ActivateFailures DEF RunningNext

LEMMA InitRunning == Init => mode = "run"
BY DEF Init

LEMMA InitFailures == Init => FailuresCaused
<1>1. Init => \A b \in Blocks : "FAILED_VALID" \notin nStatus[b] /\ "FAILED_CHILD" \notin nStatus[b]
  BY DEF Init
<1> QED
  BY <1>1 DEF FailuresCaused, Failed

\* Whatever is invalidated, reconsidered, found invalid or reprocessed, no
\* failed block is in the active chain of a node that runs, and a block is
\* marked as failed only because of a block before it.
THEOREM FailuresAreExact == Running => []FailuresExact
<1>1. Init => Inv /\ Healthy /\ mode = "run" /\ FailuresCaused
  BY InitInv, InitHealthy, InitRunning, InitFailures
<1>2. Inv /\ Healthy /\ mode = "run" /\ FailuresCaused /\ [RunningNext]_vars
          => (Inv /\ Healthy /\ mode = "run" /\ FailuresCaused)'
  <2>1. [RunningNext]_vars => [Next]_vars
    BY DEF RunningNext, Next, Stop
  <2> QED
    BY <2>1, NextInv, RunningHealthy, RunningFailures
<1>3. Inv /\ Healthy /\ FailuresCaused => FailuresExact
  <2> SUFFICES ASSUME Inv, Healthy, FailuresCaused, Free PROVE FailuresExact
    BY DEF FailuresExact
  <2>1. \A a \in Ancestors[tip] : ~Failed(a)
    BY FreeFacts DEF Healthy, Clean, Failed, Fails
  <2> QED
    BY <2>1 DEF FailuresExact, FailuresCaused, Caused
<1>4. Running => Init /\ [][RunningNext]_vars
  BY DEF Running, RunningNext
<1> QED
  BY <1>1, <1>2, <1>3, <1>4, PTL

-----------------------------------------------------------------------------
(* The best chain is active.                                               *)

\* The rules do not turn against a block that they once let pass.
ValidStays ==
    \A b \in Blocks : "valid" \in Outcomes[b] => Outcomes[b] \cap {"invalid", "unacceptable"} = {}

\* No block is reconsidered while one before it is failed.
NoFailureBefore ==
    \A b \in Blocks : ReconsiderBlock(b) => \A a \in Ancestors[b] \ {b} : ~Failed(a)

\* The chain up to b can become active.
Connectable(b) == \A a \in Ancestors[b] \ {Genesis} : "valid" \in Outcomes[a]

\* A candidate stands for b that can become active and is at least as good.
Covers(c, b) == Connectable(c) /\ Clean(nStatus, c) /\ ~Worse(c, b)

\* A block without a flag is missing from the candidates only as long as one of
\* them covers it, wherever the tip is.
Covered ==
    /\ Connectable(coins)
    /\ \A b \in linked : ~Failed(b) =>
          b \in setBlockIndexCandidates \/ \E c \in setBlockIndexCandidates : Covers(c, b)

LEMMA Numbered ==
    ASSUME Inv
    PROVE  /\ nSequenceId \in [Blocks -> Int] /\ setBlockIndexCandidates \subseteq linked
           /\ linked \subseteq Blocks
BY DEF Inv, TypeOK

\* Not worse is transitive, and of different blocks one is worse.
LEMMA NotWorse ==
    ASSUME nSequenceId \in [Blocks -> Int]
    PROVE  /\ \A a, b, c \in Blocks : ~Worse(a, b) /\ ~Worse(b, c) => ~Worse(a, c)
           /\ \A a, b, c \in Blocks : ~Worse(a, b) /\ Worse(c, b) => ~Worse(a, c)
           /\ \A a, b \in Blocks : nChainWork[a] > nChainWork[b] => Worse(b, a) /\ ~Worse(a, b)
<1>1. \A a \in Blocks : nChainWork[a] \in Nat /\ Address[a] \in Nat /\ nSequenceId[a] \in Int
  BY ChainAssumption
<1> QED
  BY <1>1 DEF Worse, SortsBefore

LEMMA ConnectableBelow ==
    ASSUME NEW b \in Blocks, Connectable(b), NEW a \in Ancestors[b]
    PROVE  Connectable(a)
BY AncestorsTransitive DEF Connectable

LEMMA CleanNotFailed ==
    ASSUME NEW b \in Blocks, Clean(nStatus, b)
    PROVE  ~Failed(b)
BY OwnAncestor DEF Clean, Failed, Fails

\* The coins are at a block that a candidate covers, or that is one.
LEMMA CoinsCovered ==
    ASSUME Inv, Healthy, Covered, mode = "run"
    PROVE  /\ coins \in linked /\ coins \in Blocks /\ coins = tip
           /\ Connectable(coins) /\ Clean(nStatus, coins)
           /\ \E c \in setBlockIndexCandidates : Covers(c, coins)
<1>1. Up
  BY DEF Up
<1>2. /\ coins \in linked /\ coins \in Blocks /\ coins = tip
      /\ Connectable(coins) /\ Clean(nStatus, coins)
  BY <1>1, UpFacts DEF Healthy, Covered
<1>3. ~Worse(coins, coins)
  BY <1>2, Numbered, WorseIsOrder
<1>4. coins \in setBlockIndexCandidates \/ \E c \in setBlockIndexCandidates : Covers(c, coins)
  BY <1>2, CleanNotFailed DEF Covered
<1> QED
  BY <1>2, <1>3, <1>4 DEF Covers

\* The coins after a step that connects nothing.
LEMMA ConnectableKept ==
    ASSUME Inv, Covered, mode = "run", coins' \in Ancestors[coins]
    PROVE  Connectable(coins')
<1>1. Up
  BY DEF Up
<1>2. coins \in Blocks /\ Connectable(coins)
  BY <1>1, UpFacts DEF Covered
<1> QED
  BY <1>2, ConnectableBelow

\* Steps that link no block, and remove and mark none that could be active.
LEMMA CoveredKept ==
    ASSUME Inv, Covered, mode = "run", linked' = linked, nSequenceId' = nSequenceId,
           \A c \in Blocks : Connectable(c) /\ Clean(nStatus, c) => Clean(nStatus', c),
           \A c \in setBlockIndexCandidates : c \in setBlockIndexCandidates' \/ Failed(c)',
           \A b \in linked : ~Failed(b)' => ~Failed(b)
    PROVE  \A b \in linked' : ~Failed(b)' =>
              b \in setBlockIndexCandidates' \/ \E c \in setBlockIndexCandidates' : Covers(c, b)'
<1> SUFFICES ASSUME NEW b \in linked, ~Failed(b)', b \notin setBlockIndexCandidates'
             PROVE  \E c \in setBlockIndexCandidates' : Covers(c, b)'
  OBVIOUS
<1>1. PICK c \in setBlockIndexCandidates : Covers(c, b)
  BY DEF Covered
<1>2. c \in Blocks /\ Connectable(c) /\ Clean(nStatus', c)
  BY <1>1, Numbered DEF Covers
<1>3. ~Failed(c)'
  BY <1>2, OwnAncestor DEF Clean, Failed, Fails
<1>4. c \in setBlockIndexCandidates'
  BY <1>3
<1>5. ~Worse(c, b)'
  BY <1>1 DEF Covers, Worse
<1>6. Connectable(c)'
  BY <1>2 DEF Connectable
<1>7. Clean(nStatus, c)'
  BY <1>2 DEF Clean
<1> QED
  BY <1>4, <1>5, <1>6, <1>7 DEF Covers

LEMMA StaysCovered ==
    ASSUME Inv, Inv', Healthy', Covered, mode = "run", mode' = "run", coins' \in Ancestors[coins],
           \A b \in linked' : ~Failed(b)' =>
              b \in setBlockIndexCandidates' \/ \E c \in setBlockIndexCandidates' : Covers(c, b)'
    PROVE  Covered'
<1>1. Connectable(coins')
  BY ConnectableKept
<1> QED
  BY <1>1 DEF Covered, Connectable

LEMMA SameFlagsCovered ==
    ASSUME Inv, Inv', Healthy', Covered, mode = "run", mode' = "run", coins' \in Ancestors[coins],
           nStatus' = nStatus, linked' = linked, nSequenceId' = nSequenceId,
           setBlockIndexCandidates' = setBlockIndexCandidates
    PROVE  Covered'
<1>1. \A b \in linked' : ~Failed(b)' =>
          b \in setBlockIndexCandidates' \/ \E c \in setBlockIndexCandidates' : Covers(c, b)'
  BY CoveredKept DEF Failed
<1> QED
  BY <1>1, StaysCovered

LEMMA FindMostWorkChainCovered ==
    ASSUME Inv, Healthy, Inv', Healthy', Covered, FindMostWorkChain
    PROVE  Covered'
<1>1. /\ mode = "run" /\ mode' = "run" /\ coins' = coins /\ coins \in Blocks
      /\ linked' = linked /\ nSequenceId' = nSequenceId
      /\ nStatus' = [b \in Blocks |-> IF b \in Dropped /\ ~Failed(b)
                                      THEN nStatus[b] \cup {"FAILED_CHILD"} ELSE nStatus[b]]
      /\ setBlockIndexCandidates' = setBlockIndexCandidates \ Dropped
  <2>1. mode = "run" /\ Up
    BY DEF FindMostWorkChain, Healthy, Up
  <2> QED
    BY <2>1, UpFacts DEF FindMostWorkChain
<1>2. nStatus \in [Blocks -> SUBSET Flags] /\ linked \subseteq Blocks /\ setBlockIndexCandidates \subseteq linked
  BY DEF Inv, TypeOK
<1>3. ASSUME NEW c \in Blocks, Clean(nStatus, c)
      PROVE  Clean(nStatus', c)
  <2>1. \A a \in Ancestors[c] : a \in Blocks /\ Ancestors[a] \subseteq Ancestors[c] /\ a \notin Dropped
    BY <1>3, OwnAncestor, AncestorsTransitive, DroppedFailed DEF Clean, Failed, Fails
  <2> QED
    BY <1>1, <1>3, <2>1 DEF Clean
<1>4. ASSUME NEW c \in setBlockIndexCandidates, c \in Dropped
      PROVE  Failed(c)'
  BY <1>1, <1>2, <1>4 DEF Failed
<1>5. \A b \in linked : ~Failed(b)' => ~Failed(b)
  BY <1>1, <1>2 DEF Failed
<1>6. \A b \in linked' : ~Failed(b)' =>
          b \in setBlockIndexCandidates' \/ \E c \in setBlockIndexCandidates' : Covers(c, b)'
  BY <1>1, <1>3, <1>4, <1>5, CoveredKept
<1> QED
  BY <1>1, <1>6, OwnAncestor, StaysCovered

LEMMA DisconnectTipCovered ==
    ASSUME Inv, Healthy, Inv', Healthy', Covered, DisconnectTip
    PROVE  Covered'
<1>1. /\ step /= None /\ tip \notin Ancestors[step.target] /\ coins = tip
      /\ coins' = Parent[tip] /\ mode' = mode
  BY DEF DisconnectTip, Asserts
<1>2. Up /\ step.target \in Blocks /\ tip \in Blocks
  BY <1>1, StepFacts
<1>3. tip /= Genesis
  BY <1>1, <1>2, GenesisFirst
<1>4. coins' \in Ancestors[coins]
  BY <1>1, <1>2, <1>3, ParentStep, OwnAncestor
<1>5. mode = "run"
  BY <1>1 DEF Inv, TipsRight, Healthy
<1> QED
  BY <1>1, <1>4, <1>5, SameFlagsCovered DEF DisconnectTip

\* PruneBlockIndexCandidates: the new tip is covered, and so is what was pruned.
LEMMA ConnectTipCovered ==
    ASSUME Inv, Healthy, Inv', Healthy', Covered, NEW b \in Blocks, ConnectTip(b)
    PROVE  Covered'
<1>1. /\ Connecting(b) /\ "valid" \in Outcomes[b]
      /\ nStatus' = [nStatus EXCEPT ![b] = IF Failed(b) THEN @ ELSE @ \cup {"SCRIPTS"}]
      /\ setBlockIndexCandidates' = Prune(nSequenceId, setBlockIndexCandidates, b)
      /\ tip' = b /\ coins' = b /\ mode' = mode /\ linked' = linked /\ nSequenceId' = nSequenceId
  BY DEF ConnectTip, Checked
<1>2. /\ step /= None /\ coins = tip /\ tip \in Blocks /\ ~Failed(b) /\ b \in linked
      /\ Ancestors[b] = Ancestors[tip] \cup {b}
  BY <1>1, ConnectingFacts
<1>3. mode = "run" /\ Up /\ Up'
  BY <1>1, <1>2 DEF Inv, TipsRight, Healthy, Up
<1>4. Connectable(b) /\ Clean(nStatus, b)
  <2>1. Connectable(coins) /\ Clean(nStatus, coins)
    BY <1>3 DEF Covered, Healthy
  <2> QED
    BY <1>1, <1>2, <2>1 DEF Connectable, Clean, Failed, Fails
<1>5. nStatus \in [Blocks -> SUBSET Flags]
  BY DEF Inv, TypeOK
<1>6. \A a \in Blocks : nStatus'[a] \cap Fails = nStatus[a] \cap Fails
  BY <1>1, <1>5 DEF Fails
<1>7. nSequenceId \in [Blocks -> Int] /\ setBlockIndexCandidates \subseteq linked /\ linked \subseteq Blocks
  BY Numbered
<1>8. setBlockIndexCandidates' = {c \in setBlockIndexCandidates : ~Worse(c, b)}
  BY <1>1 DEF Prune, Worse
<1>9. PICK m \in setBlockIndexCandidates : Covers(m, b)
  <2>1. ~Worse(b, b)
    BY <1>7, WorseIsOrder
  <2> QED
    BY <1>2, <1>3, <1>4, <2>1 DEF Covered, Covers
<1>10. \A c, x \in Blocks : Covers(c, x) => Covers(c, x)'
  <2> SUFFICES ASSUME NEW c \in Blocks, NEW x \in Blocks, Covers(c, x)
               PROVE  Covers(c, x)'
    OBVIOUS
  <2>1. Clean(nStatus, c)'
    BY <1>6, OwnAncestor DEF Covers, Clean
  <2> QED
    BY <1>1, <2>1 DEF Covers, Connectable, Worse
<1>11. ASSUME NEW x \in linked', ~Failed(x)', x \notin setBlockIndexCandidates'
       PROVE  \E c \in setBlockIndexCandidates' : Covers(c, x)'
  <2>1. x \in linked /\ x \in Blocks /\ ~Failed(x)
    BY <1>1, <1>6, <1>7, <1>11 DEF Failed, Fails
  <2>2. m \in setBlockIndexCandidates' /\ m \in Blocks
    BY <1>7, <1>8, <1>9 DEF Covers
  <2>3. CASE Worse(x, b)
    BY <1>7, <1>9, <1>10, <2>1, <2>2, <2>3, NotWorse DEF Covers
  <2>4. CASE ~Worse(x, b)
    <3>1. PICK c \in setBlockIndexCandidates : Covers(c, x)
      BY <1>3, <1>8, <1>11, <2>1, <2>4 DEF Covered
    <3>2. ~Worse(c, b)
      BY <1>7, <2>1, <2>4, <3>1, NotWorse DEF Covers
    <3> QED
      BY <1>7, <1>8, <1>10, <2>1, <3>1, <3>2
  <2> QED
    BY <2>3, <2>4
<1> QED
  BY <1>1, <1>4, <1>11 DEF Covered, Connectable

LEMMA ConnectTipRejectsCovered ==
    ASSUME ValidStays, Inv, Healthy, Inv', Healthy', Covered, NEW b \in Blocks,
           ConnectTipInvalid(b) \/ ConnectTipRefused(b)
    PROVE  Covered'
<1>1. Connecting(b) /\ coins' = coins /\ linked' = linked /\ nSequenceId' = nSequenceId
  BY DEF ConnectTipInvalid, ConnectTipRefused
<1>2. step /= None /\ coins = tip /\ tip \in Blocks /\ b \in linked /\ b /= Genesis
  BY <1>1, ConnectingFacts
<1>3. mode = "run" /\ mode' = "run"
  BY <1>1, <1>2 DEF Inv, TipsRight, Healthy, ConnectTipInvalid, ConnectTipRefused
<1>4. coins' \in Ancestors[coins]
  BY <1>1, <1>2, OwnAncestor
<1>5. CASE ConnectTipInvalid(b)
  <2>1. /\ nStatus' = [nStatus EXCEPT ![b] = @ \cup {"FAILED_VALID"}]
        /\ setBlockIndexCandidates' = setBlockIndexCandidates \ {b}
        /\ Outcomes[b] \cap {"invalid", "unacceptable"} /= {}
    BY <1>5 DEF ConnectTipInvalid
  <2>2. nStatus \in [Blocks -> SUBSET Flags] /\ linked \subseteq Blocks
    BY DEF Inv, TypeOK
  <2>3. \A c \in Blocks : Connectable(c) => b \notin Ancestors[c]
    BY <1>2, <2>1 DEF ValidStays, Connectable
  <2>4. \A c \in Blocks : Connectable(c) /\ Clean(nStatus, c) => Clean(nStatus', c)
    BY <2>1, <2>2, <2>3, OwnAncestor DEF Clean
  <2>5. Failed(b)' /\ \A x \in linked : ~Failed(x)' => ~Failed(x)
    BY <2>1, <2>2 DEF Failed
  <2>6. \A x \in linked' : ~Failed(x)' =>
            x \in setBlockIndexCandidates' \/ \E c \in setBlockIndexCandidates' : Covers(c, x)'
    BY <1>1, <1>3, <2>1, <2>4, <2>5, CoveredKept
  <2> QED
    BY <1>3, <1>4, <2>6, StaysCovered
<1>6. CASE ConnectTipRefused(b)
  BY <1>1, <1>3, <1>4, <1>6, SameFlagsCovered DEF ConnectTipRefused
<1> QED
  BY <1>5, <1>6

\* A block that is only marked, or whose header or data is kept, is not linked yet.
LEMMA EntryCovered ==
    ASSUME Inv, Healthy, Inv', Healthy', Covered, NEW b \in Blocks, NEW F,
           Free, "DATA" \notin nStatus[b], nStatus' = [nStatus EXCEPT ![b] = @ \cup F],
           linked' = linked, nSequenceId' = nSequenceId, coins' = coins, mode' = mode,
           setBlockIndexCandidates' = setBlockIndexCandidates
    PROVE  Covered'
<1>1. mode = "run" /\ mode' = "run" /\ coins \in Blocks
  BY FreeFacts, UpFacts
<1>2. nStatus \in [Blocks -> SUBSET Flags] /\ linked \subseteq Blocks /\ setBlockIndexCandidates \subseteq linked
  BY DEF Inv, TypeOK
<1>3. \A c \in linked : b \notin Ancestors[c]
  BY DEF Inv, LinkedExact
<1>4. \A c \in linked : Clean(nStatus, c) => Clean(nStatus', c)
  BY <1>2, <1>3, OwnAncestor DEF Clean
<1>5. \A c \in linked : Failed(c)' <=> Failed(c)
  BY <1>2, <1>3, OwnAncestor DEF Failed
<1>6. \A x \in linked' : ~Failed(x)' =>
          x \in setBlockIndexCandidates' \/ \E c \in setBlockIndexCandidates' : Covers(c, x)'
  <2> SUFFICES ASSUME NEW x \in linked, ~Failed(x), x \notin setBlockIndexCandidates
               PROVE  \E c \in setBlockIndexCandidates : Covers(c, x)'
    BY <1>5
  <2>1. PICK c \in setBlockIndexCandidates : Covers(c, x)
    BY <1>1 DEF Covered
  <2>2. Clean(nStatus', c) /\ Connectable(c) /\ ~Worse(c, x)
    BY <1>2, <1>4, <2>1 DEF Covers
  <2> QED
    BY <2>2 DEF Covers, Worse, Clean, Connectable
<1> QED
  BY <1>1, <1>6, OwnAncestor, StaysCovered

\* Newly linked blocks are candidates, or not better than the tip.
LEMMA AcceptBlockCovered ==
    ASSUME Inv, Healthy, Inv', Healthy', Covered, NEW b \in Blocks, AcceptBlock(b)
    PROVE  Covered'
<1>1. /\ Free /\ b \in Blocks \ {Genesis} /\ "DATA" \notin nStatus[b]
      /\ nStatus' = [nStatus EXCEPT ![b] = @ \cup {"TREE", "DATA"}]
      /\ UNCHANGED <<tip, coins, mode>>
  BY DEF AcceptBlock, Offered
<1>2. mode = "run" /\ mode' = "run" /\ coins = tip /\ tip \in Blocks /\ Up
  BY <1>1, FreeFacts, UpFacts
<1>3. CASE UNCHANGED <<nSequenceId, linked, setBlockIndexCandidates>>
  BY <1>1, <1>3, EntryCovered
<1>4. CASE Parent[b] \in linked /\ ~UNCHANGED <<nSequenceId, linked, setBlockIndexCandidates>>
  <2> DEFINE new == Linkable(b)
             n   == Cardinality(new)
  <2>1. PICK id \in [new -> nBlockSequenceId .. nBlockSequenceId + n - 1] :
            /\ nSequenceId' = [c \in Blocks |-> IF c \in new THEN id[c] ELSE nSequenceId[c]]
            /\ linked' = linked \cup new
            /\ setBlockIndexCandidates' = setBlockIndexCandidates \cup
                   {c \in new : nChainWork[c] > nChainWork[tip]}
    BY <1>4 DEF AcceptBlock
  <2>2. \A a \in Blocks : "DATA" \in nStatus'[a] <=> a = b \/ "DATA" \in nStatus[a]
    BY <1>1 DEF Inv, TypeOK
  <2>3. new \cap linked = {} /\ new \subseteq Blocks
    <3>1. Linkable(b) \cap linked = {} /\ Linkable(b) \subseteq mapBlocksUnlinked \cup {b}
      BY <1>1, <1>4, <2>2, LinkableRight DEF Inv
    <3> QED
      BY <3>1 DEF Inv, TypeOK
  <2> HIDE DEF new
  <2>4. nBlockSequenceId \in Nat /\ n \in Nat
    <3>1. IsFiniteSet(new)
      BY <2>3, ChainAssumption, FS_Subset
    <3>2. n \in Nat
      BY <3>1, FS_CardinalityType
    <3>3. nBlockSequenceId \in 1 .. Cardinality(Blocks) + 1
      BY DEF Inv, TypeOK
    <3>4. Cardinality(Blocks) \in Nat
      BY ChainAssumption, FS_CardinalityType
    <3> HIDE DEF n
    <3> QED
      BY <3>2, <3>3, <3>4
  <2>5. nStatus \in [Blocks -> SUBSET Flags] /\ nSequenceId \in [Blocks -> Int]
        /\ setBlockIndexCandidates \subseteq linked /\ linked \subseteq Blocks
    BY Numbered DEF Inv, TypeOK
  <2>6. \A a \in Blocks : nStatus'[a] \cap Fails = nStatus[a] \cap Fails
    BY <1>1, <2>5 DEF Fails
  <2>7. \A c \in Blocks : c \notin new => nSequenceId'[c] = nSequenceId[c]
    BY <2>1
  <2>8. \A c, x \in linked : Covers(c, x) => Covers(c, x)'
    <3> SUFFICES ASSUME NEW c \in linked, NEW x \in linked, Covers(c, x)
                 PROVE  Covers(c, x)'
      OBVIOUS
    <3>1. nSequenceId'[c] = nSequenceId[c] /\ nSequenceId'[x] = nSequenceId[x]
      BY <2>3, <2>5, <2>7
    <3>2. ~Worse(c, x)'
      BY <3>1 DEF Covers, Worse, SortsBefore
    <3>3. Clean(nStatus, c)'
      BY <2>5, <2>6, OwnAncestor DEF Covers, Clean
    <3> QED
      BY <3>2, <3>3 DEF Covers, Connectable
  <2>9. PICK m \in setBlockIndexCandidates : Covers(m, tip)
    BY <1>2, CoinsCovered
  <2>10. tip \in linked
    BY <1>2, CoinsCovered
  <2>11. ASSUME NEW x \in linked', ~Failed(x)', x \notin setBlockIndexCandidates'
         PROVE  \E c \in setBlockIndexCandidates' : Covers(c, x)'
    <3>1. CASE x \in linked
      <4>1. ~Failed(x) /\ x \notin setBlockIndexCandidates
        BY <2>1, <2>5, <2>6, <2>11, <3>1 DEF Failed, Fails
      <4>2. PICK c \in setBlockIndexCandidates : Covers(c, x)
        BY <1>2, <3>1, <4>1 DEF Covered
      <4> QED
        BY <2>1, <2>5, <2>8, <3>1, <4>2
    <3>2. CASE x \in new
      <4>1. x \in Blocks /\ ~(nChainWork[x] > nChainWork[tip])
        BY <2>1, <2>3, <2>11, <3>2
      <4>2. nSequenceId'[x] \in nBlockSequenceId .. nBlockSequenceId + n - 1
        <5>1. nSequenceId'[x] = id[x]
          BY <2>1, <3>2, <4>1
        <5>2. id[x] \in nBlockSequenceId .. nBlockSequenceId + n - 1
          BY <2>1, <3>2
        <5> QED
          BY <5>1, <5>2
      <4>3. nSequenceId'[tip] \in 0 .. nBlockSequenceId - 1
        BY <1>2, <2>3, <2>7, <2>10 DEF Inv, TypeOK
      <4>4. /\ nChainWork[x] \in Nat /\ nChainWork[tip] \in Nat
            /\ Address[x] \in Nat /\ Address[tip] \in Nat
        BY <1>2, <4>1, ChainAssumption
      <4>5. ~Worse(tip, x)'
        <5> DEFINE s == nSequenceId'[x]
                   r == nSequenceId'[tip]
        <5>1. s \in Int /\ r \in Int /\ r < s
          BY <2>4, <4>2, <4>3
        <5> HIDE DEF s, r
        <5>2. nChainWork[x] <= nChainWork[tip]
          BY <4>1, <4>4
        <5>3. ~(\/ nChainWork[tip] < nChainWork[x]
                \/ nChainWork[tip] = nChainWork[x] /\ r > s
                \/ nChainWork[tip] = nChainWork[x] /\ r = s /\ Address[tip] > Address[x])
          BY <4>4, <5>1, <5>2
        <5>4. ~SortsBefore(nSequenceId', tip, x)
          BY <5>3 DEF SortsBefore, s, r
        <5> QED
          BY <1>1, <5>4 DEF Worse
      <4>6. Covers(m, tip)' /\ m \in setBlockIndexCandidates' /\ m \in Blocks
        BY <1>1, <2>1, <2>5, <2>8, <2>9, <2>10
      <4>7. nSequenceId' \in [Blocks -> Int]
        BY Numbered DEF Inv, TypeOK
      <4>8. ~Worse(m, tip)' /\ ~Worse(tip, x)' => ~Worse(m, x)'
        <5>1. \A a \in Blocks : nChainWork[a] \in Nat /\ Address[a] \in Nat /\ nSequenceId'[a] \in Int
          BY <4>7, ChainAssumption
        <5> QED
          BY <1>1, <1>2, <4>1, <4>6, <5>1 DEF Worse, SortsBefore
      <4> QED
        BY <1>1, <4>5, <4>6, <4>8 DEF Covers
    <3> QED
      BY <2>1, <2>11, <3>1, <3>2
  <2>12. coins' \in Ancestors[coins]
    BY <1>1, <1>2, OwnAncestor
  <2> QED
    BY <1>2, <2>11, <2>12, StaysCovered
<1> QED
  BY <1>3, <1>4 DEF AcceptBlock

\* What InvalidateBlock makes candidates again covers all that is not marked.
LEMMA InvalidateBlockCovered ==
    ASSUME Inv, Healthy, Inv', Healthy', Covered, NEW b \in Blocks, InvalidateBlock(b)
    PROVE  Covered'
<1>0. PICK t : t = IF ActiveFrom(b) = {} THEN tip ELSE Parent[b]
  OBVIOUS
<1>1. /\ Free /\ b \in Blocks \ {Genesis} /\ coins' = t /\ tip' = t
      /\ linked' = linked /\ nSequenceId' = nSequenceId /\ mode' = mode
      /\ Refill(nStatus', t) \subseteq setBlockIndexCandidates'
  BY <1>0, ChainAssumption DEF InvalidateBlock
<1>2. mode = "run" /\ mode' = "run" /\ coins = tip /\ tip \in Blocks /\ Up'
  BY <1>1, FreeFacts, UpFacts DEF Up
<1>3. t \in Ancestors[coins]
  <2>1. CASE ActiveFrom(b) = {}
    BY <1>0, <1>2, <2>1, OwnAncestor
  <2>2. CASE ActiveFrom(b) /= {}
    <3>1. b \in Ancestors[tip]
      BY <1>2, <2>2, AncestorsTransitive, OwnAncestor DEF ActiveFrom
    <3>2. Parent[b] \in Ancestors[b]
      BY <1>1, ParentStep, OwnAncestor
    <3> QED
      BY <1>0, <1>2, <2>2, <3>1, <3>2, AncestorsTransitive
  <2> QED
    BY <2>1, <2>2
<1>4. Connectable(t) /\ Clean(nStatus', t) /\ t \in linked /\ t \in Blocks
  <2>1. Connectable(coins')
    BY <1>1, <1>2, <1>3, ConnectableKept
  <2>2. Clean(nStatus', coins')
    BY <1>2 DEF Healthy
  <2>3. coins' \in linked' /\ coins' \in Blocks
    BY <1>2, UpFacts DEF Inv, TipsRight, TypeOK
  <2> QED
    BY <1>1, <2>1, <2>2, <2>3
<1>5. nSequenceId \in [Blocks -> Int] /\ linked \subseteq Blocks
  BY Numbered
<1>6. t \in setBlockIndexCandidates'
  <2>1. ~Worse(t, t)
    BY <1>4, <1>5, WorseIsOrder
  <2>2. nStatus'[t] \cap Fails = {}
    BY <1>4, OwnAncestor DEF Clean
  <2> QED
    BY <1>1, <1>4, <2>1, <2>2 DEF Refill, Fails
<1>7. ASSUME NEW x \in linked', ~Failed(x)', x \notin setBlockIndexCandidates'
      PROVE  Covers(t, x)'
  <2>1. Worse(x, t)
    BY <1>1, <1>7 DEF Refill, Failed
  <2>2. ~Worse(t, x)
    BY <1>1, <1>4, <1>5, <1>7, <2>1, WorseIsOrder
  <2>3. Connectable(t) /\ Clean(nStatus', t) /\ ~SortsBefore(nSequenceId', t, x)
    BY <1>1, <1>4, <2>2 DEF Worse
  <2>4. Connectable(t)' /\ Clean(nStatus, t)' /\ ~Worse(t, x)'
    BY <2>3 DEF Connectable, Clean, Worse
  <2> QED
    BY <2>4 DEF Covers
<1>8. \A x \in linked' : ~Failed(x)' =>
          x \in setBlockIndexCandidates' \/ \E c \in setBlockIndexCandidates' : Covers(c, x)'
  BY <1>6, <1>7
<1> QED
  BY <1>1, <1>2, <1>3, <1>8, StaysCovered

\* A block that is cleared becomes a candidate, or the tip is better.
LEMMA ReconsiderBlockCovered ==
    ASSUME NoFailureBefore, Inv, Healthy, Inv', Healthy', Covered, NEW b \in Blocks, ReconsiderBlock(b)
    PROVE  Covered'
<1>1. /\ Free /\ coins' = coins /\ tip' = tip /\ mode' = mode
      /\ linked' = linked /\ nSequenceId' = nSequenceId /\ nStatus' = Unfailed(b)
      /\ setBlockIndexCandidates' = setBlockIndexCandidates \cup Reinstated(b)
  BY DEF ReconsiderBlock
<1>2. mode = "run" /\ mode' = "run" /\ coins = tip /\ tip \in Blocks
  BY <1>1, FreeFacts, UpFacts
<1>3. /\ nSequenceId \in [Blocks -> Int] /\ linked \subseteq Blocks
      /\ setBlockIndexCandidates \subseteq linked /\ nStatus \in [Blocks -> SUBSET Flags]
  BY Numbered DEF Inv, TypeOK
<1>4. \A a \in Blocks : nStatus'[a] \subseteq nStatus[a]
  BY <1>1 DEF Unfailed
<1>5. \A c, x \in linked : Covers(c, x) => Covers(c, x)'
  <2> SUFFICES ASSUME NEW c \in linked, NEW x \in linked, Covers(c, x)
               PROVE  Covers(c, x)'
    OBVIOUS
  <2>1. Clean(nStatus', c)
    BY <1>3, <1>4, OwnAncestor DEF Covers, Clean
  <2> QED
    BY <1>1, <2>1 DEF Covers, Connectable, Worse, Clean
<1>6. ASSUME NEW x \in linked', ~Failed(x)', x \notin setBlockIndexCandidates'
      PROVE  \E c \in setBlockIndexCandidates' : Covers(c, x)'
  <2>1. CASE ~Failed(x)
    <3>1. PICK c \in setBlockIndexCandidates : Covers(c, x)
      BY <1>1, <1>2, <1>6, <2>1 DEF Covered
    <3> QED
      BY <1>1, <1>3, <1>5, <1>6, <3>1
  <2>2. CASE Failed(x)
    <3>1. x \in Cleared(b)
      BY <1>1, <1>3, <1>6, <2>2 DEF Unfailed, Failed
    <3>2. b \in Ancestors[x]
      BY <2>2, <3>1, OwnAncestor DEF Cleared, NoFailureBefore
    <3>3. ~Worse(tip, x)
      BY <1>1, <1>6, <2>2, <3>2 DEF Reinstated
    <3>4. PICK c \in setBlockIndexCandidates : Covers(c, tip)
      BY <1>2, CoinsCovered
    <3>5. Covers(c, x)
      BY <1>1, <1>2, <1>3, <1>6, <3>3, <3>4, NotWorse DEF Covers
    <3> QED
      BY <1>1, <1>3, <1>5, <1>6, <3>4, <3>5
  <2> QED
    BY <2>1, <2>2
<1> QED
  BY <1>1, <1>2, <1>6, OwnAncestor, StaysCovered

LEMMA OperateCovered ==
    ASSUME [NoFailureBefore]_vars, Inv, Healthy, Inv', Healthy', Covered, Operate
    PROVE  Covered'
<1>1. PICK b \in Blocks : \/ AcceptBlock(b) \/ AcceptBlockFails(b) \/ WriteBlockFails(b)
                          \/ InvalidateBlock(b) \/ ReconsiderBlock(b)
  BY DEF Operate
<1>2. CASE AcceptBlockFails(b) \/ WriteBlockFails(b)
  BY <1>2, EntryCovered DEF AcceptBlockFails, WriteBlockFails, Offered
<1>3. CASE UNCHANGED vars
  BY <1>3 DEF vars, memory, Covered, Up, Failed, Covers, Worse, Connectable, Clean
<1>4. CASE ReconsiderBlock(b) /\ NoFailureBefore
  BY <1>4, ReconsiderBlockCovered
<1> QED
  BY <1>1, <1>2, <1>3, <1>4, AcceptBlockCovered, InvalidateBlockCovered

LEMMA ReprocessBlocksCovered ==
    ASSUME Inv, Healthy, Inv', Healthy', Covered, ReprocessBlocks \/ Flush
    PROVE  Covered'
<1>1. /\ Free /\ mode' = mode /\ nStatus' = nStatus /\ linked' = linked
      /\ nSequenceId' = nSequenceId /\ setBlockIndexCandidates' = setBlockIndexCandidates
  BY DEF ReprocessBlocks, Flush
<1>2. mode = "run" /\ coins = tip /\ tip \in Blocks
  BY <1>1, FreeFacts, UpFacts
<1>3. coins' \in Ancestors[coins]
  <2>1. CASE ReprocessBlocks
    <3>1. PICK n \in 0 .. nReprocess : coins' = Back(n + 1)
      BY <2>1 DEF ReprocessBlocks
    <3>2. n + 1 \in Nat
      BY <3>1, ChainAssumption
    <3> QED
      BY <1>2, <3>1, <3>2, BackIsAncestor
  <2>2. CASE Flush
    BY <1>2, <2>2, OwnAncestor DEF Flush
  <2> QED
    BY <2>1, <2>2
<1> QED
  BY <1>1, <1>2, <1>3, SameFlagsCovered

LEMMA ActivateCovered ==
    ASSUME ValidStays, Inv, Healthy, Inv', Healthy', Covered, Activate, ~AssertionFails
    PROVE  Covered'
BY FindMostWorkChainCovered, DisconnectTipCovered, ConnectTipCovered, ConnectTipRejectsCovered
   DEF Activate

LEMMA InitCovered == Init => Covered
<1>1. Init => /\ coins = Genesis /\ linked = {Genesis}
              /\ setBlockIndexCandidates = {Genesis}
  BY DEF Init
<1>2. Connectable(Genesis)
  BY ChainAssumption DEF Connectable
<1> QED
  BY <1>1, <1>2 DEF Covered

\* No complete chain without a failed block has more work than the active one.
NothingBetter ==
    Free /\ MostWork \in {None, tip} =>
      \A b \in linked : nChainWork[b] > nChainWork[tip] => \E a \in Ancestors[b] : Failed(a)

LEMMA CoveredBest ==
    ASSUME Inv, Healthy, Covered
    PROVE  NothingBetter
<1> SUFFICES ASSUME Free, MostWork \in {None, tip}, NEW b \in linked,
                    nChainWork[b] > nChainWork[tip], \A a \in Ancestors[b] : ~Failed(a)
             PROVE  FALSE
  BY DEF NothingBetter
<1>1. /\ nSequenceId \in [Blocks -> Int] /\ setBlockIndexCandidates \subseteq Blocks
      /\ b \in Blocks /\ tip \in Blocks /\ mode = "run"
  BY FreeFacts, UpFacts, Numbered
<1>2. PICK c \in setBlockIndexCandidates : Usable(c) /\ ~Worse(c, b)
  <2>1. CASE b \in setBlockIndexCandidates
    BY <1>1, <2>1, WorseIsOrder DEF Usable, Branch
  <2>2. CASE b \notin setBlockIndexCandidates
    <3>1. PICK c \in setBlockIndexCandidates : Covers(c, b)
      BY <1>1, <2>2, OwnAncestor DEF Covered
    <3> QED
      BY <3>1 DEF Covers, Clean, Failed, Fails, Usable, Branch
  <2> QED
    BY <2>1, <2>2
<1>3. MostWork /= None /\ \A d \in setBlockIndexCandidates : Usable(d) => ~Worse(MostWork, d)
  BY <1>1, <1>2, MostWorkBest, ChainAssumption
<1>4. ~Worse(tip, c)
  BY <1>2, <1>3
<1>5. ~Worse(tip, b)
  BY <1>1, <1>2, <1>4, NotWorse
<1> QED
  BY <1>1, <1>5, NotWorse

\* The best complete chain that is not known to be invalid is active whenever
\* ActivateBestChain has nothing left to do, whatever was invalidated, found
\* invalid or reprocessed before: what is not a candidate is covered by one.
\* This is for a node that does not stop, with rules that do not turn against
\* blocks they let pass and no block reconsidered beyond a failed one; there
\* BestChainActive needs none of its exceptions.
THEOREM RunningChainIsBest ==
    ASSUME ValidStays
    PROVE  Running /\ [][NoFailureBefore]_vars => [](BestChainActive /\ NothingBetter)
<1>1. Init => Inv /\ Healthy /\ mode = "run" /\ Covered
  BY InitInv, InitHealthy, InitRunning, InitCovered
<1>2. Inv /\ Healthy /\ mode = "run" /\ Covered /\ [RunningNext]_vars /\ [NoFailureBefore]_vars
          => (Inv /\ Healthy /\ mode = "run" /\ Covered)'
  <2> SUFFICES ASSUME Inv, Healthy, mode = "run", Covered, [RunningNext]_vars, [NoFailureBefore]_vars
               PROVE  (Inv /\ Healthy /\ mode = "run" /\ Covered)'
    OBVIOUS
  <2>1. Inv' /\ Healthy' /\ mode' = "run" /\ ~AssertionFails
    <3>1. [Next]_vars
      BY DEF RunningNext, Next, Stop
    <3> QED
      BY <3>1, NextInv, RunningHealthy
  <2>2. CASE UNCHANGED vars
    BY <2>1, <2>2 DEF vars, memory, Covered, Up, Failed, Covers, Worse, Connectable, Clean
  <2> QED
    BY <2>1, <2>2, ActivateCovered, OperateCovered, ReprocessBlocksCovered DEF RunningNext
<1>3. Inv /\ Healthy /\ Covered => BestChainActive /\ NothingBetter
  BY CoveredBest DEF NothingBetter, BestChainActive
<1>4. Running => Init /\ [][RunningNext]_vars
  BY DEF Running, RunningNext
<1> QED
  BY <1>1, <1>2, <1>3, <1>4, PTL
=============================================================================
