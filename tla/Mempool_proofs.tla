---------------------------- MODULE Mempool_proofs ----------------------------
(***************************************************************************)
(* Proofs about Mempool, for any transactions, chains and peers.           *)
(*                                                                         *)
(* The pool, removals from it and the chain are defined by recursion over  *)
(* blocks, transactions of a block and orphans.  TreeRecursion proves that *)
(* a function defined along a tree exists, from which Iteration follows    *)
(* for loops; UpTheTree and EveryTurn are the matching induction.          *)
(*                                                                         *)
(* Inv: the index and the size are those of the pool (Indexed), each input *)
(* is there at the tip (Backed), and the handler has queued whatever may   *)
(* wait for what it added (HandlerRight).  Connecting and Disconnecting    *)
(* are the invariants of the loops over a block.  Unconfirmed adds that    *)
(* the chain is Sound, for which coinbases have to differ.                 *)
(***************************************************************************)
EXTENDS Mempool, TLAPS, FiniteSetTheorems, WellFoundedInduction

-----------------------------------------------------------------------------
(* Recursion.  A function defined from the root of a tree B upwards exists: *)
(* the element b takes what its parent P[b] has through the function F[b].  *)

\* g is the root of the tree B, P the parents of the other elements.
Tree(B, g, P) ==
    /\ g \in B /\ P \in [B \ {g} -> B]
    /\ \A S \in SUBSET (B \ {g}) : S /= {} => \E b \in S : P[b] \notin S

Solves(f, B, g, P, X, x0, F) ==
    f \in [B -> X] /\ f[g] = x0 /\ \A b \in B \ {g} : f[b] = F[b][f[P[b]]]

LEMMA TreeRecursion ==
    ASSUME NEW B, NEW g, NEW P, Tree(B, g, P), NEW X, NEW x0 \in X, NEW F \in [B -> [X -> X]]
    PROVE  \E f : Solves(f, B, g, P, X, x0, F)
  <1>0. /\ g \in B /\ P \in [B \ {g} -> B]
        /\ \A S \in SUBSET (B \ {g}) : S /= {} => \E b \in S : P[b] \notin S
    BY DEF Tree
  <1> DEFINE Partial == UNION {[D -> X] : D \in SUBSET B}
             Sols == {h \in Partial :
                        /\ g \in DOMAIN h /\ h[g] = x0
                        /\ \A b \in DOMAIN h \ {g} : P[b] \in DOMAIN h /\ h[b] = F[b][h[P[b]]]}
             on(h, b) == h \in Sols /\ b \in DOMAIN h
  <1>1. \A D \in SUBSET B : \A h \in [D -> X] : h \in Partial
    OBVIOUS
  <1>2. \A h \in Sols : /\ DOMAIN h \subseteq B /\ h \in [DOMAIN h -> X]
                        /\ g \in DOMAIN h /\ h[g] = x0
                        /\ \A b \in DOMAIN h \ {g} : P[b] \in DOMAIN h /\ h[b] = F[b][h[P[b]]]
    OBVIOUS
  <1>3. \A D \in SUBSET B : \A h \in [D -> X] :
           g \in D /\ h[g] = x0 /\ (\A b \in D \ {g} : P[b] \in D /\ h[b] = F[b][h[P[b]]]) => h \in Sols
    BY <1>1
  <1> HIDE DEF Partial, Sols
  <1>4. \A h, k \in Sols : \A b \in DOMAIN h \cap DOMAIN k : h[b] = k[b]
    <2> SUFFICES ASSUME NEW h \in Sols, NEW k \in Sols PROVE \A b \in DOMAIN h \cap DOMAIN k : h[b] = k[b]
      OBVIOUS
    <2> DEFINE T == {b \in DOMAIN h \cap DOMAIN k : h[b] /= k[b]}
    <2> SUFFICES ASSUME T /= {} PROVE FALSE
      OBVIOUS
    <2>1. T \in SUBSET (B \ {g})
      BY <1>2
    <2>2. PICK m \in T : P[m] \notin T
      <3> HIDE DEF T
      <3> QED BY <1>0, <2>1
    <2>3. m \in DOMAIN h \ {g} /\ m \in DOMAIN k \ {g} /\ h[m] /= k[m]
      BY <2>1
    <2>4. P[m] \in DOMAIN h /\ P[m] \in DOMAIN k /\ h[m] = F[m][h[P[m]]] /\ k[m] = F[m][k[P[m]]]
      BY <1>2, <2>3
    <2> QED BY <2>2, <2>3, <2>4
  <1>5. \A b \in B : \E h \in Sols : b \in DOMAIN h
    <2> DEFINE T == {b \in B : ~ \E h \in Sols : b \in DOMAIN h}
    <2> SUFFICES ASSUME T /= {} PROVE FALSE
      OBVIOUS
    <2>1. \E h \in Sols : g \in DOMAIN h
      <3> DEFINE h == [b \in {g} |-> x0]
      <3>1. h \in [{g} -> X] /\ h[g] = x0
        OBVIOUS
      <3> HIDE DEF h
      <3> QED BY <1>0, <1>3, <3>1
    <2>2. T \in SUBSET (B \ {g})
      BY <2>1
    <2>3. PICK m \in T : P[m] \notin T
      <3> HIDE DEF T
      <3> QED BY <1>0, <2>2
    <2>4. m \in B \ {g} /\ P[m] \in B
      BY <1>0, <2>2
    <2>5. PICK h \in Sols : P[m] \in DOMAIN h
      BY <2>3, <2>4
    <2>6. m \notin DOMAIN h
      BY <2>5
    <2> DEFINE D == DOMAIN h \cup {m}
               k == [b \in D |-> IF b = m THEN F[m][h[P[m]]] ELSE h[b]]
    <2>7. F[m] \in [X -> X] /\ h[P[m]] \in X
      BY <1>2, <2>4, <2>5
    <2>8. D \in SUBSET B /\ k \in [D -> X] /\ g \in D /\ k[g] = x0 /\ m \in D
      BY <1>2, <2>4, <2>7
    <2>9. ASSUME NEW b \in D \ {g} PROVE P[b] \in D /\ k[b] = F[b][k[P[b]]]
      <3>1. CASE b = m
        BY <3>1, <2>5, <2>6
      <3>2. CASE b /= m
        <4>1. b \in DOMAIN h \ {g}
          BY <3>2
        <4>2. P[b] \in DOMAIN h /\ h[b] = F[b][h[P[b]]]
          BY <1>2, <4>1
        <4> QED BY <3>2, <4>2, <2>6
      <3> QED BY <3>1, <3>2
    <2>10. k \in Sols
      <3> HIDE DEF D, k
      <3> QED BY <1>3, <2>8, <2>9
    <2>11. m \in DOMAIN k
      OBVIOUS
    <2> HIDE DEF k
    <2> QED BY <2>10, <2>11
  <1> DEFINE sol(b) == CHOOSE h \in Sols : b \in DOMAIN h
             f == [b \in B |-> sol(b)[b]]
  <1>6. \A b \in B : sol(b) \in Sols /\ b \in DOMAIN sol(b)
    BY <1>5
  <1> HIDE DEF sol
  <1>7. \A h \in Sols : \A b \in DOMAIN h : f[b] = h[b]
    BY <1>2, <1>4, <1>6
  <1>8. f \in [B -> X]
    BY <1>2, <1>6
  <1>9. f[g] = x0
    BY <1>0, <1>2, <1>6
  <1>10. ASSUME NEW b \in B \ {g} PROVE f[b] = F[b][f[P[b]]]
    <2>1. /\ sol(b) \in Sols /\ b \in DOMAIN sol(b) \ {g} /\ f[b] = sol(b)[b]
      BY <1>6
    <2>2. P[b] \in DOMAIN sol(b) /\ sol(b)[b] = F[b][sol(b)[P[b]]]
      BY <1>2, <2>1
    <2>3. f[P[b]] = sol(b)[P[b]]
      BY <1>7, <2>1, <2>2
    <2> QED BY <2>1, <2>2, <2>3
  <1>11. Solves(f, B, g, P, X, x0, F)
    <2> HIDE DEF f
    <2> QED BY <1>8, <1>9, <1>10 DEF Solves
  <1> QED BY <1>11

LEMMA LeastNatural ==
    ASSUME NEW T \in SUBSET Nat, T /= {}
    PROVE  \E m \in T : \A k \in T : m <= k
  <1> DEFINE below(m) == 0 .. m - 1
             F == {below(m) : m \in T}
  <1>1. F \subseteq FiniteSubsetsOf(Nat) /\ F /= {}
    <2>1. \A m \in T : IsFiniteSet(below(m)) /\ below(m) \in SUBSET Nat
      BY FS_Interval
    <2>2. \A m \in T : below(m) \in FiniteSubsetsOf(Nat)
      BY <2>1 DEF FiniteSubsetsOf
    <2> HIDE DEF below
    <2> QED BY <2>2
  <1>2. PICK A \in F : \A B \in F : ~ (<<B, A>> \in StrictSubsetOrdering(Nat))
    <2> HIDE DEF F
    <2> QED BY <1>1, FS_StrictSubsetOrderingWellFounded, WFMin
  <1>3. PICK m \in T : A = below(m)
    OBVIOUS
  <1>4. ASSUME NEW k \in T, k < m PROVE FALSE
    <2>1. below(k) \in F /\ below(k) \in SUBSET Nat /\ below(m) \in SUBSET Nat
      OBVIOUS
    <2>2. below(k) \subseteq below(m) /\ k \in below(m) /\ k \notin below(k)
      BY <1>4
    <2>3. below(k) /= below(m)
      BY <2>2
    <2>4. <<below(k), below(m)>> \in StrictSubsetOrdering(Nat)
      <3> HIDE DEF below
      <3> QED BY <2>1, <2>2, <2>3 DEF StrictSubsetOrdering
    <2> QED BY <1>2, <1>3, <2>1, <2>4
  <1> QED BY <1>4

\* f[i] is what a loop that starts with x0 has after i turns.
Turns(f, n, X, x0, F) ==
    f \in [0 .. n -> X] /\ f[0] = x0 /\ \A i \in 1 .. n : f[i] = F[i][f[i - 1]]

LEMMA Iteration ==
    ASSUME NEW n \in Nat, NEW X, NEW x0 \in X, NEW F \in [1 .. n -> [X -> X]]
    PROVE  \E f : Turns(f, n, X, x0, F)
  <1> DEFINE B == 0 .. n
             P == [i \in 1 .. n |-> i - 1]
             G == [i \in B |-> IF i = 0 THEN [x \in X |-> x] ELSE F[i]]
  <1>1. B \ {0} = 1 .. n /\ 0 \in B
    OBVIOUS
  <1>2. P \in [B \ {0} -> B]
    BY <1>1
  <1>3. ASSUME NEW S \in SUBSET (B \ {0}), S /= {} PROVE \E b \in S : P[b] \notin S
    <2>1. PICK m \in S : \A k \in S : m <= k
      BY <1>3, LeastNatural
    <2> QED BY <2>1
  <1>4. G \in [B -> [X -> X]]
    BY <1>1
  <1>5. \A i \in 1 .. n : G[i] = F[i] /\ P[i] = i - 1
    OBVIOUS
  <1> HIDE DEF P, G
  <1>6. Tree(B, 0, P)
    BY <1>1, <1>2, <1>3 DEF Tree
  <1>7. PICK f : Solves(f, B, 0, P, X, x0, G)
    <2> HIDE DEF B
    <2> QED BY <1>4, <1>6, TreeRecursion
  <1>8. f \in [0 .. n -> X] /\ f[0] = x0 /\ \A i \in B \ {0} : f[i] = G[i][f[P[i]]]
    BY <1>7 DEF Solves
  <1>9. \A i \in 1 .. n : f[i] = F[i][f[i - 1]]
    BY <1>1, <1>5, <1>8
  <1> QED BY <1>8, <1>9 DEF Turns

\* What holds before a loop, and is kept by each turn, holds after every turn.
LEMMA EveryTurn ==
    ASSUME NEW n \in Nat, NEW G, 0 \in G, \A i \in 1 .. n : i - 1 \in G => i \in G
    PROVE  0 .. n \subseteq G
  <1> DEFINE S == {i \in 0 .. n : i \notin G}
  <1> SUFFICES ASSUME S /= {} PROVE FALSE
    OBVIOUS
  <1>1. PICK m \in S : \A k \in S : m <= k
    <2>1. S \in SUBSET Nat
      OBVIOUS
    <2> HIDE DEF S
    <2> QED BY <2>1, LeastNatural
  <1>2. m \in 1 .. n /\ m - 1 \in 0 .. n /\ m - 1 \notin S
    BY <1>1
  <1> QED BY <1>1, <1>2

-----------------------------------------------------------------------------
(* The chain.                                                              *)

LEMMA BlockTree == Tree(Blocks, Genesis, Parent)
  BY LedgerAssumption DEF Tree

\* What is true of the genesis block, and of a block if it is of its parent, is true.
LEMMA UpTheTree ==
    ASSUME NEW G, Genesis \in G, \A b \in Blocks \ {Genesis} : Parent[b] \in G => b \in G
    PROVE  Blocks \subseteq G
  <1> DEFINE S == {b \in Blocks : b \notin G}
  <1> SUFFICES ASSUME S /= {} PROVE FALSE
    OBVIOUS
  <1>1. S \in SUBSET (Blocks \ {Genesis})
    OBVIOUS
  <1>2. PICK b \in S : Parent[b] \notin S
    <2> HIDE DEF S
    <2> QED BY <1>1, LedgerAssumption
  <1>3. Parent[b] \in Blocks
    BY <1>1, LedgerAssumption
  <1> QED BY <1>1, <1>2, <1>3

LEMMA Heights ==
    /\ Height \in [Blocks -> Nat] /\ Height[Genesis] = 0
    /\ \A b \in Blocks \ {Genesis} : Height[b] = Height[Parent[b]] + 1
  <1> DEFINE F == [b \in Blocks |-> [n \in Nat |-> n + 1]]
  <1>1. F \in [Blocks -> [Nat -> Nat]]
    OBVIOUS
  <1>2. \A b \in Blocks : \A n \in Nat : F[b][n] = n + 1
    OBVIOUS
  <1> HIDE DEF F
  <1>3. PICK f : Solves(f, Blocks, Genesis, Parent, Nat, 0, F)
    BY <1>1, BlockTree, TreeRecursion
  <1>4. /\ f \in [Blocks -> Nat] /\ f[Genesis] = 0
        /\ \A b \in Blocks \ {Genesis} : f[b] = F[b][f[Parent[b]]]
    BY <1>3 DEF Solves
  <1>5. \A b \in Blocks \ {Genesis} : Parent[b] \in Blocks
    BY LedgerAssumption
  <1>6. f = [b \in Blocks |-> IF b = Genesis THEN 0 ELSE f[Parent[b]] + 1]
    BY <1>2, <1>4, <1>5
  <1>7. Height = [b \in Blocks |-> IF b = Genesis THEN 0 ELSE Height[Parent[b]] + 1]
    BY <1>6 DEF Height
  <1> DEFINE G == {b \in Blocks : Height[b] \in Nat}
  <1>8. Genesis \in Blocks
    BY LedgerAssumption
  <1>9. Genesis \in G /\ \A b \in Blocks \ {Genesis} : Parent[b] \in G => b \in G
    BY <1>5, <1>7, <1>8
  <1>10. Blocks \subseteq G
    <2> HIDE DEF G
    <2> QED BY <1>9, UpTheTree
  <1> QED BY <1>7, <1>8, <1>10

\* Outputs that can be spent.
Coins == UNION {Created(t, h) : t \in Txs, h \in Nat}

LEMMA CoinsAre ==
    \A o \in Coins : /\ o.tx \in Txs /\ o.n \in DOMAIN vout[o.tx] /\ o.nHeight \in Nat
                     /\ vout[o.tx][o.n] \notin {"null", "unspendable"}
                     /\ o.base = (o.tx \in CoinBases) /\ o.stake = (o.tx \in CoinStakes)
  BY DEF Coins, Created, Out

\* A transaction list of a block.
LEMMA BlockTxs ==
    ASSUME NEW b \in Blocks
    PROVE  /\ Len(vtx[b]) \in Nat /\ DOMAIN vtx[b] = 1 .. Len(vtx[b])
           /\ \A i \in 1 .. Len(vtx[b]) : vtx[b][i] \in Txs
  BY LedgerAssumption

LEMMA AppliedCoins ==
    ASSUME NEW U \in SUBSET Coins, NEW b \in Blocks, NEW n \in 0 .. Len(vtx[b])
    PROVE  Applied(U, b, n) \subseteq Coins
  <1>1. \A i \in 1 .. n : Created(vtx[b][i], Height[b]) \subseteq Coins
    BY BlockTxs, Heights DEF Coins
  <1> QED BY <1>1 DEF Applied, NotSpent

LEMMA Utxos ==
    /\ UtxoOf \in [Blocks -> SUBSET Coins] /\ UtxoOf[Genesis] = {}
    /\ \A b \in Blocks \ {Genesis} : UtxoOf[b] = Applied(UtxoOf[Parent[b]], b, Len(vtx[b]))
  <1> DEFINE F == [b \in Blocks |-> [U \in SUBSET Coins |-> Applied(U, b, Len(vtx[b]))]]
  <1>0. \A b \in Blocks : \A U \in SUBSET Coins : Applied(U, b, Len(vtx[b])) \in SUBSET Coins
    BY AppliedCoins, BlockTxs
  <1>1. F \in [Blocks -> [SUBSET Coins -> SUBSET Coins]]
    BY <1>0
  <1>2. \A b \in Blocks : \A U \in SUBSET Coins : F[b][U] = Applied(U, b, Len(vtx[b]))
    OBVIOUS
  <1> HIDE DEF F
  <1>3. PICK f : Solves(f, Blocks, Genesis, Parent, SUBSET Coins, {}, F)
    BY <1>1, BlockTree, TreeRecursion
  <1>4. /\ f \in [Blocks -> SUBSET Coins] /\ f[Genesis] = {}
        /\ \A b \in Blocks \ {Genesis} : f[b] = F[b][f[Parent[b]]]
    BY <1>3 DEF Solves
  <1>5. \A b \in Blocks \ {Genesis} : Parent[b] \in Blocks
    BY LedgerAssumption
  <1>6. f = [b \in Blocks |-> IF b = Genesis THEN {} ELSE Applied(f[Parent[b]], b, Len(vtx[b]))]
    BY <1>2, <1>4, <1>5
  <1>7. UtxoOf = [b \in Blocks |-> IF b = Genesis THEN {} ELSE Applied(UtxoOf[Parent[b]], b, Len(vtx[b]))]
    BY <1>6 DEF UtxoOf
  <1> DEFINE G == {b \in Blocks : UtxoOf[b] \in SUBSET Coins}
  <1>8. Genesis \in Blocks
    BY LedgerAssumption
  <1>9. Genesis \in G /\ \A b \in Blocks \ {Genesis} : Parent[b] \in G => b \in G
    <2>1. UtxoOf[Genesis] = {}
      BY <1>7, <1>8
    <2>2. \A b \in Blocks \ {Genesis} : UtxoOf[b] = Applied(UtxoOf[Parent[b]], b, Len(vtx[b]))
      BY <1>7
    <2> QED BY ZenonT(60), <1>0, <1>5, <1>8, <2>1, <2>2
  <1>10. Blocks \subseteq G
    <2> HIDE DEF G
    <2> QED BY <1>9, UpTheTree
  <1>11. \A b \in Blocks : UtxoOf[b] \in SUBSET Coins
    BY <1>10
  <1>12. UtxoOf[Genesis] = {}
    BY <1>7, <1>8
  <1>13. \A b \in Blocks \ {Genesis} : UtxoOf[b] = Applied(UtxoOf[Parent[b]], b, Len(vtx[b]))
    BY <1>7
  <1>14. UtxoOf \in [Blocks -> SUBSET Coins]
    BY <1>7, <1>11
  <1> QED BY <1>12, <1>13, <1>14

-----------------------------------------------------------------------------
(* Sizes.                                                                  *)

\* sum adds up the sizes of the transactions in S, in the order of ByHash.
SumsUp(sum, S) ==
    /\ sum \in [0 .. Len(ByHash) -> Nat] /\ sum[0] = 0
    /\ \A n \in 1 .. Len(ByHash) : sum[n] = sum[n - 1] + IF ByHash[n] \in S THEN nTxSize[ByHash[n]] ELSE 0

LEMMA Hashes ==
    /\ Len(ByHash) \in Nat /\ DOMAIN ByHash = 1 .. Len(ByHash)
    /\ \A n \in 1 .. Len(ByHash) : ByHash[n] \in Txs /\ nTxSize[ByHash[n]] \in Nat
    /\ \A t \in Txs : nTxSize[t] \in Nat /\ \E n \in 1 .. Len(ByHash) : ByHash[n] = t
    /\ \A n, m \in 1 .. Len(ByHash) : ByHash[n] = ByHash[m] => n = m
  <1>1. Len(ByHash) \in Nat /\ DOMAIN ByHash = 1 .. Len(ByHash)
    BY MempoolAssumption
  <1>2. \A n \in DOMAIN ByHash : ByHash[n] \in Txs
    BY MempoolAssumption
  <1>3. \A t \in Txs : \E n \in DOMAIN ByHash : ByHash[n] = t
    BY MempoolAssumption
  <1>4. \A t \in Txs : nTxSize[t] \in Nat
    BY MempoolAssumption
  <1>5. \A n, m \in DOMAIN ByHash : ByHash[n] = ByHash[m] => n = m
    BY MempoolAssumption
  <1> QED BY <1>1, <1>2, <1>3, <1>4, <1>5

LEMMA TotalSizeIsSum ==
    ASSUME NEW S
    PROVE  \E sum : SumsUp(sum, S) /\ TotalSize(S) = sum[Len(ByHash)]
  <1> DEFINE L == Len(ByHash)
             of(n) == IF ByHash[n] \in S THEN nTxSize[ByHash[n]] ELSE 0
             F == [n \in 1 .. L |-> [m \in Nat |-> m + of(n)]]
             sum[n \in 0 .. Len(ByHash)] ==
                 IF n = 0 THEN 0
                 ELSE sum[n - 1] + IF ByHash[n] \in S THEN nTxSize[ByHash[n]] ELSE 0
  <1>1. TotalSize(S) = sum[Len(ByHash)]
    BY DEF TotalSize
  <1>2. L \in Nat /\ \A n \in 1 .. L : of(n) \in Nat
    BY Hashes
  <1>3. F \in [1 .. L -> [Nat -> Nat]] /\ \A n \in 1 .. L : \A m \in Nat : F[n][m] = m + of(n)
    BY <1>2
  <1>4. PICK f : f \in [0 .. L -> Nat] /\ f[0] = 0 /\ \A n \in 1 .. L : f[n] = F[n][f[n - 1]]
    <2>1. \E f : Turns(f, L, Nat, 0, F)
      <3> HIDE DEF F, L
      <3> QED BY <1>2, <1>3, Iteration
    <2> QED BY <2>1 DEF Turns
  <1>5. \A n \in 1 .. L : f[n - 1] \in Nat /\ f[n] = f[n - 1] + of(n)
    <2>1. \A n \in 1 .. L : n - 1 \in 0 .. L
      BY <1>2
    <2> QED BY <1>3, <1>4, <2>1
  <1>6. f = [n \in 0 .. L |-> IF n = 0 THEN 0 ELSE f[n - 1] + of(n)]
    <2>1. \A n \in 0 .. L : f[n] = IF n = 0 THEN 0 ELSE f[n - 1] + of(n)
      BY <1>2, <1>4, <1>5
    <2> QED BY <1>4, <2>1
  <1>7. sum = [n \in 0 .. L |-> IF n = 0 THEN 0 ELSE sum[n - 1] + of(n)]
    BY <1>6
  <1> HIDE DEF sum
  <1>8. sum[0] = 0 /\ \A n \in 1 .. L : sum[n] = sum[n - 1] + of(n)
    BY <1>2, <1>7
  <1> DEFINE G == {n \in 0 .. L : sum[n] \in Nat}
  <1>9. 0 .. L \subseteq G
    <2>1. ASSUME NEW n \in 1 .. L, n - 1 \in G PROVE n \in G
      <3>1. sum[n] = sum[n - 1] + of(n) /\ of(n) \in Nat /\ sum[n - 1] \in Nat
        BY <1>2, <1>8, <2>1
      <3> HIDE DEF of
      <3> QED BY <3>1
    <2>2. 0 \in G
      BY <1>2, <1>8
    <2> HIDE DEF G, L
    <2> QED BY <1>2, <2>1, <2>2, EveryTurn
  <1>10. sum \in [0 .. L -> Nat]
    BY <1>7, <1>9
  <1> QED BY <1>1, <1>8, <1>10 DEF SumsUp

LEMMA TotalSizeNat ==
    ASSUME NEW S
    PROVE  TotalSize(S) \in Nat
  BY TotalSizeIsSum, Hashes DEF SumsUp

\* Sizes of disjoint sets add up.
LEMMA TotalSizeAdds ==
    ASSUME NEW S, NEW T, S \cap T = {}
    PROVE  TotalSize(S \cup T) = TotalSize(S) + TotalSize(T)
  <1>1. PICK s : SumsUp(s, S) /\ TotalSize(S) = s[Len(ByHash)]
    BY TotalSizeIsSum
  <1>2. PICK t : SumsUp(t, T) /\ TotalSize(T) = t[Len(ByHash)]
    BY TotalSizeIsSum
  <1>3. PICK u : SumsUp(u, S \cup T) /\ TotalSize(S \cup T) = u[Len(ByHash)]
    BY TotalSizeIsSum
  <1> DEFINE L == Len(ByHash)
             G == {n \in 0 .. L : u[n] = s[n] + t[n]}
  <1>4. ASSUME NEW n \in 1 .. L, n - 1 \in G PROVE n \in G
    <2>1. /\ s[n] = s[n - 1] + IF ByHash[n] \in S THEN nTxSize[ByHash[n]] ELSE 0
          /\ t[n] = t[n - 1] + IF ByHash[n] \in T THEN nTxSize[ByHash[n]] ELSE 0
          /\ u[n] = u[n - 1] + IF ByHash[n] \in S \cup T THEN nTxSize[ByHash[n]] ELSE 0
      BY <1>1, <1>2, <1>3 DEF SumsUp
    <2>2. s[n - 1] \in Nat /\ t[n - 1] \in Nat /\ u[n - 1] = s[n - 1] + t[n - 1] /\ nTxSize[ByHash[n]] \in Nat
      BY <1>1, <1>2, <1>4, Hashes DEF SumsUp
    <2>3. u[n] = s[n] + t[n]
      <3>1. CASE ByHash[n] \in S
        BY <2>1, <2>2, <3>1
      <3>2. CASE ByHash[n] \in T
        BY <2>1, <2>2, <3>2
      <3>3. CASE ByHash[n] \notin S \cup T
        BY <2>1, <2>2, <3>3
      <3> QED BY <3>1, <3>2, <3>3
    <2> QED BY <2>3
  <1>5. 0 \in G
    BY <1>1, <1>2, <1>3, Hashes DEF SumsUp
  <1>6. 0 .. L \subseteq G
    <2> HIDE DEF G
    <2> QED BY <1>4, <1>5, EveryTurn, Hashes
  <1>7. L \in 0 .. L
    BY Hashes
  <1> QED BY <1>1, <1>2, <1>3, <1>6, <1>7

\* A transaction by itself has its size.
LEMMA TotalSizeOfOne ==
    ASSUME NEW t \in Txs
    PROVE  TotalSize({t}) = nTxSize[t]
  <1>1. PICK s : SumsUp(s, {t}) /\ TotalSize({t}) = s[Len(ByHash)]
    BY TotalSizeIsSum
  <1>2. PICK k \in 1 .. Len(ByHash) : ByHash[k] = t
    BY Hashes
  <1> DEFINE L == Len(ByHash)
             G == {n \in 0 .. L : s[n] = IF n < k THEN 0 ELSE nTxSize[t]}
  <1>3. ASSUME NEW n \in 1 .. L, n - 1 \in G PROVE n \in G
    <2>1. s[n] = s[n - 1] + IF n = k THEN nTxSize[t] ELSE 0
      BY <1>1, <1>2, Hashes DEF SumsUp
    <2>2. s[n - 1] = (IF n - 1 < k THEN 0 ELSE nTxSize[t]) /\ nTxSize[t] \in Nat
      BY <1>3, Hashes
    <2> QED BY <2>1, <2>2, <1>2, Hashes
  <1>4. 0 \in G
    BY <1>1, <1>2, Hashes DEF SumsUp
  <1>5. 0 .. L \subseteq G
    <2> HIDE DEF G
    <2> QED BY <1>3, <1>4, EveryTurn, Hashes
  <1>6. L \in 0 .. L
    BY Hashes
  <1> QED BY <1>1, <1>2, <1>5, <1>6

LEMMA TotalSizeLess ==
    ASSUME NEW S, NEW T \in SUBSET S
    PROVE  TotalSize(S \ T) = TotalSize(S) - TotalSize(T)
  <1>1. S = (S \ T) \cup T /\ (S \ T) \cap T = {}
    OBVIOUS
  <1>2. TotalSize((S \ T) \cup T) = TotalSize(S \ T) + TotalSize(T)
    BY <1>1, TotalSizeAdds
  <1>3. TotalSize(S) = TotalSize(S \ T) + TotalSize(T)
    BY <1>1, <1>2
  <1>4. TotalSize(S \ T) \in Nat /\ TotalSize(T) \in Nat
    BY TotalSizeNat
  <1> QED BY <1>3, <1>4

-----------------------------------------------------------------------------
(* The pool and its index.                                                 *)

AnyPools == [tx : SUBSET Txs, next : SUBSET (Outpoints \X Txs), size : Int]

IndexOf(S) == UNION {{<<o, t>> : o \in Prevouts(t)} : t \in S}

SpentOnce(S) == \A t, u \in S : Prevouts(t) \cap Prevouts(u) /= {} => t = u

\* No transaction of these is ever accepted.
Unacceptable == CoinBases \cup CoinStakes \cup BadScripts

\* The index and the size of p are those of its transactions.
Indexed(p) ==
    /\ p \in AnyPools /\ p.next = IndexOf(p.tx) /\ p.size = TotalSize(p.tx)
    /\ SpentOnce(p.tx) /\ p.tx \cap Unacceptable = {}

LEMMA InputsAre ==
    ASSUME NEW t \in Txs
    PROVE  /\ Prevouts(t) \subseteq Outpoints
           /\ \A o \in Prevouts(t) : o = <<o[1], o[2]>> /\ o[1] \in Txs /\ o[2] \in Nat
  <1>1. vin[t] \in Seq(Txs \X Nat)
    BY LedgerAssumption
  <1>2. \A i \in DOMAIN vin[t] : vin[t][i] \in Txs \X Nat
    BY <1>1
  <1> QED BY <1>2 DEF Prevouts, Outpoints

LEMMA InIndex ==
    ASSUME NEW S
    PROVE  /\ \A e \in IndexOf(S) : e[2] \in S /\ e[1] \in Prevouts(e[2]) /\ e = <<e[1], e[2]>>
           /\ \A t \in S : \A o \in Prevouts(t) : <<o, t>> \in IndexOf(S)
  BY DEF IndexOf

LEMMA PoolFields ==
    ASSUME NEW p \in AnyPools, NEW S, NEW N, NEW m \in Int, S \subseteq Txs, N \subseteq Outpoints \X Txs
    PROVE  /\ [tx |-> S, next |-> N, size |-> m] \in AnyPools
           /\ [tx |-> S, next |-> N, size |-> m].tx = S
           /\ [tx |-> S, next |-> N, size |-> m].next = N
           /\ [tx |-> S, next |-> N, size |-> m].size = m
           /\ p.tx \subseteq Txs /\ p.next \subseteq Outpoints \X Txs /\ p.size \in Int
  BY DEF AnyPools

LEMMA WithoutTyped ==
    ASSUME NEW p \in AnyPools, NEW S
    PROVE  /\ Without(p, S) \in AnyPools /\ Without(p, S).tx = p.tx \ S
           /\ Without(p, S).next = {e \in p.next : e[1] \notin UNION {Prevouts(t) : t \in S}}
           /\ Without(p, S).size = p.size - TotalSize(S)
  <1> DEFINE N == {e \in p.next : e[1] \notin UNION {Prevouts(t) : t \in S}}
             m == p.size - TotalSize(S)
  <1>1. p.tx \subseteq Txs /\ p.next \subseteq Outpoints \X Txs /\ p.size \in Int
    BY DEF AnyPools
  <1>2. p.tx \ S \subseteq Txs /\ N \subseteq Outpoints \X Txs /\ m \in Int
    BY <1>1, TotalSizeNat
  <1>3. Without(p, S) = [tx |-> p.tx \ S, next |-> N, size |-> m]
    BY DEF Without
  <1> HIDE DEF N, m
  <1>4. /\ Without(p, S) \in AnyPools /\ Without(p, S).tx = p.tx \ S
        /\ Without(p, S).next = N /\ Without(p, S).size = m
    BY <1>2, <1>3, PoolFields
  <1> QED BY <1>4 DEF N, m

\* Taking pooled transactions out keeps the index.
LEMMA WithoutIndexed ==
    ASSUME NEW p, Indexed(p), NEW S \in SUBSET p.tx
    PROVE  Indexed(Without(p, S)) /\ Without(p, S).tx = p.tx \ S
  <1> DEFINE q == Without(p, S)
  <1>1. p \in AnyPools
    BY DEF Indexed
  <1>2. /\ q \in AnyPools /\ q.tx = p.tx \ S /\ q.size = p.size - TotalSize(S)
        /\ q.next = {e \in p.next : e[1] \notin UNION {Prevouts(t) : t \in S}}
    BY <1>1, WithoutTyped
  <1> HIDE DEF q
  <1>3. q.size = TotalSize(q.tx)
    BY <1>2, TotalSizeLess DEF Indexed
  <1>4. q.next \subseteq IndexOf(q.tx)
    <2> SUFFICES ASSUME NEW e \in q.next PROVE e \in IndexOf(q.tx)
      OBVIOUS
    <2>1. e \in IndexOf(p.tx) /\ \A t \in S : e[1] \notin Prevouts(t)
      BY <1>2 DEF Indexed
    <2>2. e[2] \in p.tx /\ e[1] \in Prevouts(e[2]) /\ e = <<e[1], e[2]>>
      BY <2>1, InIndex
    <2>3. e[2] \in q.tx
      BY <1>2, <2>1, <2>2
    <2> QED BY <2>2, <2>3, InIndex
  <1>5. IndexOf(q.tx) \subseteq q.next
    <2> SUFFICES ASSUME NEW e \in IndexOf(q.tx) PROVE e \in q.next
      OBVIOUS
    <2>1. e[2] \in q.tx /\ e[1] \in Prevouts(e[2]) /\ e = <<e[1], e[2]>>
      BY InIndex
    <2>2. e \in p.next
      BY <1>2, <2>1, InIndex DEF Indexed
    <2>3. ASSUME NEW t \in S PROVE e[1] \notin Prevouts(t)
      BY <1>2, <2>1 DEF Indexed, SpentOnce
    <2> QED BY <1>2, <2>2, <2>3
  <1>6. SpentOnce(q.tx) /\ q.tx \cap Unacceptable = {}
    BY <1>2 DEF Indexed, SpentOnce
  <1>7. Indexed(q)
    BY <1>2, <1>3, <1>4, <1>5, <1>6 DEF Indexed
  <1> QED BY <1>2, <1>7 DEF q

LEMMA AddTyped ==
    ASSUME NEW p \in AnyPools, NEW t \in Txs
    PROVE  /\ addUnchecked(p, t) \in AnyPools /\ addUnchecked(p, t).tx = p.tx \cup {t}
           /\ addUnchecked(p, t).next = {e \in p.next : e[1] \notin Prevouts(t)} \cup {<<o, t>> : o \in Prevouts(t)}
           /\ addUnchecked(p, t).size = p.size + nTxSize[t]
  <1> DEFINE N == {e \in p.next : e[1] \notin Prevouts(t)} \cup {<<o, t>> : o \in Prevouts(t)}
             m == p.size + nTxSize[t]
  <1>1. p.tx \subseteq Txs /\ p.next \subseteq Outpoints \X Txs /\ p.size \in Int
    BY DEF AnyPools
  <1>2. p.tx \cup {t} \subseteq Txs /\ N \subseteq Outpoints \X Txs /\ m \in Int
    <2>1. \A o \in Prevouts(t) : <<o, t>> \in Outpoints \X Txs
      BY InputsAre
    <2>2. m \in Int
      BY <1>1, Hashes
    <2> QED BY <1>1, <2>1, <2>2
  <1>3. addUnchecked(p, t) = [tx |-> p.tx \cup {t}, next |-> N, size |-> m]
    BY DEF addUnchecked
  <1> HIDE DEF N, m
  <1>4. /\ addUnchecked(p, t) \in AnyPools /\ addUnchecked(p, t).tx = p.tx \cup {t}
        /\ addUnchecked(p, t).next = N /\ addUnchecked(p, t).size = m
    BY <1>2, <1>3, PoolFields
  <1> QED BY <1>4 DEF N, m

\* So does adding one that nothing in the pool conflicts with.
LEMMA AddIndexed ==
    ASSUME NEW p, Indexed(p), NEW t \in Txs, t \notin p.tx, t \notin Unacceptable,
           \A e \in p.next : e[1] \notin Prevouts(t)
    PROVE  Indexed(addUnchecked(p, t)) /\ addUnchecked(p, t).tx = p.tx \cup {t}
  <1> DEFINE q == addUnchecked(p, t)
  <1>1. p \in AnyPools
    BY DEF Indexed
  <1>2. /\ q \in AnyPools /\ q.tx = p.tx \cup {t} /\ q.size = p.size + nTxSize[t]
        /\ q.next = {e \in p.next : e[1] \notin Prevouts(t)} \cup {<<o, t>> : o \in Prevouts(t)}
    BY <1>1, AddTyped
  <1> HIDE DEF q
  <1>3. q.size = TotalSize(q.tx)
    <2>1. TotalSize(p.tx \cup {t}) = TotalSize(p.tx) + TotalSize({t})
      BY TotalSizeAdds
    <2> QED BY <1>2, <2>1, TotalSizeOfOne DEF Indexed
  <1>4. q.next = IndexOf(q.tx)
    <2>1. q.next = IndexOf(p.tx) \cup {<<o, t>> : o \in Prevouts(t)}
      BY <1>2 DEF Indexed
    <2>2. IndexOf(p.tx \cup {t}) = IndexOf(p.tx) \cup {<<o, t>> : o \in Prevouts(t)}
      BY DEF IndexOf
    <2> QED BY <1>2, <2>1, <2>2
  <1>5. \A u \in p.tx : Prevouts(u) \cap Prevouts(t) = {}
    <2> SUFFICES ASSUME NEW u \in p.tx, NEW o \in Prevouts(u), o \in Prevouts(t) PROVE FALSE
      OBVIOUS
    <2>1. <<o, u>> \in p.next
      BY InIndex DEF Indexed
    <2>2. <<o, u>>[1] = o
      OBVIOUS
    <2> QED BY <2>1, <2>2
  <1>6. SpentOnce(q.tx) /\ q.tx \cap Unacceptable = {}
    <2>1. ASSUME NEW u \in q.tx, NEW w \in q.tx, Prevouts(u) \cap Prevouts(w) /= {} PROVE u = w
      <3>1. CASE u \in p.tx /\ w \in p.tx
        BY <2>1, <3>1 DEF Indexed, SpentOnce
      <3>2. CASE u = t \/ w = t
        BY <1>2, <1>5, <2>1, <3>2
      <3> QED BY <1>2, <3>1, <3>2
    <2>2. q.tx \cap Unacceptable = {}
      BY <1>2 DEF Indexed
    <2> QED BY <2>1, <2>2 DEF SpentOnce
  <1>7. Indexed(q)
    BY <1>2, <1>3, <1>4, <1>6 DEF Indexed
  <1> QED BY <1>2, <1>7 DEF q

-----------------------------------------------------------------------------
(* Removing with descendants.                                              *)

\* q is p without some transactions and all that spend them.
Rooted(p, q) ==
    /\ q.tx \subseteq p.tx
    /\ \A t \in q.tx : \A o \in Prevouts(t) :
          o[1] \in p.tx /\ o[2] \in DOMAIN vout[o[1]] => o[1] \in q.tx

LEMMA SpendersAre ==
    ASSUME NEW p, Indexed(p), NEW t, NEW u \in p.tx, NEW o \in Prevouts(u),
           o[1] = t, o[2] \in DOMAIN vout[t]
    PROVE  u \in Spenders(p, t)
  <1> DEFINE e == <<o, u>>
  <1>1. e \in p.next
    BY InIndex DEF Indexed
  <1>2. e[1][1] = t /\ e[1][2] \in DOMAIN vout[t] /\ e[2] = u
    OBVIOUS
  <1> HIDE DEF e
  <1> QED BY <1>1, <1>2 DEF Spenders

LEMMA DescendantsClosed ==
    ASSUME NEW p, NEW S
    PROVE  LET D == Descendants(p, S) IN D \subseteq p.tx /\ S \cap p.tx \subseteq D /\ Closed(p, D)
  <1> DEFINE D == Descendants(p, S)
             Cs == {C \in SUBSET p.tx : S \cap p.tx \subseteq C /\ Closed(p, C)}
  <1>1. D \subseteq p.tx /\ \A t \in p.tx : t \in D <=> \A C \in Cs : t \in C
    BY DEF Descendants
  <1>2. S \cap p.tx \subseteq D
    BY <1>1
  <1>3. ASSUME NEW t \in D, NEW u \in Spenders(p, t) \cap p.tx PROVE u \in D
    <2>1. ASSUME NEW C \in Cs PROVE u \in C
      <3>1. t \in C
        BY <1>1
      <3> QED BY <3>1 DEF Closed
    <2> HIDE DEF D, Cs
    <2> QED BY <1>1, <2>1
  <1>4. Closed(p, D)
    <2> HIDE DEF D
    <2> QED BY <1>3 DEF Closed
  <1> QED BY <1>1, <1>2, <1>4

\* What is left after a removal with descendants.
LEMMA RemovedWithDescendants ==
    ASSUME NEW p, Indexed(p), NEW S
    PROVE  LET q == Without(p, Descendants(p, S))
           IN  Indexed(q) /\ Rooted(p, q) /\ S \cap q.tx = {}
  <1> DEFINE D == Descendants(p, S)
             q == Without(p, D)
  <1>1. D \subseteq p.tx /\ S \cap p.tx \subseteq D /\ Closed(p, D)
    BY DescendantsClosed
  <1> HIDE DEF D
  <1>2. Indexed(q) /\ q.tx = p.tx \ D
    BY <1>1, WithoutIndexed
  <1> HIDE DEF q
  <1>3. ASSUME NEW t \in q.tx, NEW o \in Prevouts(t), o[1] \in p.tx, o[2] \in DOMAIN vout[o[1]]
        PROVE  o[1] \in q.tx
    <2> SUFFICES ASSUME o[1] \in D PROVE FALSE
      BY <1>2, <1>3
    <2>1. t \in Spenders(p, o[1]) /\ t \in p.tx
      BY <1>2, <1>3, SpendersAre
    <2>2. t \in D
      BY <1>1, <2>1 DEF Closed
    <2> QED BY <1>2, <2>2
  <1>4. Rooted(p, q) /\ S \cap q.tx = {}
    BY <1>1, <1>2, <1>3 DEF Rooted
  <1> QED BY <1>2, <1>4 DEF q, D

LEMMA RemovedRecursively ==
    ASSUME NEW p, Indexed(p), NEW t
    PROVE  LET q == removeRecursive(p, t)
           IN  /\ Indexed(q) /\ Rooted(p, q) /\ t \notin q.tx
               /\ \A u \in q.tx : \A o \in Prevouts(u) : o[1] = t => o[2] \notin DOMAIN vout[t]
  <1> DEFINE S == IF t \in p.tx THEN {t} ELSE Spenders(p, t)
             q == removeRecursive(p, t)
  <1>1. q = Without(p, Descendants(p, S))
    BY DEF removeRecursive
  <1> HIDE DEF q, S
  <1>2. Indexed(q) /\ Rooted(p, q) /\ S \cap q.tx = {}
    BY <1>1, RemovedWithDescendants
  <1>3. t \notin q.tx
    BY <1>2 DEF S, Rooted
  <1>4. ASSUME NEW u \in q.tx, NEW o \in Prevouts(u), o[1] = t, o[2] \in DOMAIN vout[t] PROVE FALSE
    <2>1. u \in p.tx
      BY <1>2 DEF Rooted
    <2>2. CASE t \in p.tx
      BY <1>2, <1>3, <1>4, <2>2 DEF Rooted
    <2>3. CASE t \notin p.tx
      <3>1. u \in Spenders(p, t)
        BY <1>4, <2>1, SpendersAre
      <3> QED BY <1>2, <2>3, <3>1 DEF S
    <2> QED BY <2>2, <2>3
  <1> QED BY <1>2, <1>3, <1>4 DEF q

-----------------------------------------------------------------------------
(* Accepting.                                                              *)

\* Every input of a transaction in p is an output of another one, or one of U that may
\* be spent at height h.
Backed(p, U, h) ==
    \A t \in p.tx : \A o \in Prevouts(t) :
       IF o[1] \in p.tx THEN o[2] \in DOMAIN vout[o[1]]
       ELSE \E c \in U : <<c.tx, c.n>> = o /\ ~Immature(c, h)

\* What AcceptToMemoryPool has made sure of.
LEMMA AcceptedMeans ==
    ASSUME NEW p, NEW U, NEW t, NEW h, NEW cheap, Accept(p, U, t, h, cheap) = "accepted"
    PROVE  /\ t \notin Unacceptable /\ t \notin p.tx
           /\ \A e \in p.next : e[1] \notin Prevouts(t)
           /\ \A c \in U : c.tx /= t
           /\ \A o \in Prevouts(t) : HaveCoins(p, U, o[1]) /\ Available(p, U, o)
           /\ MatureInputs(p, U, t, h)
           /\ t \notin Nonstandard /\ \A o \in Prevouts(t) : mapLockedInputs[o] \in {None, t}
  <1>1. /\ t \notin CoinBases \cup CoinStakes /\ ~Hindered(p, U, t)
        /\ \A o \in Prevouts(t) : HaveCoins(p, U, o[1]) /\ Available(p, U, o)
        /\ MatureInputs(p, U, t, h) /\ t \notin BadScripts
    BY DEF Accept
  <1>2. /\ t \notin Nonstandard /\ t \notin p.tx
        /\ \A o \in Prevouts(t) : mapLockedInputs[o] \in {None, t}
        /\ \A e \in p.next : e[1] \notin Prevouts(t)
        /\ \A c \in U : c.tx /= t
    BY <1>1 DEF Hindered, HaveCoins
  <1> QED BY <1>1, <1>2 DEF Unacceptable

LEMMA AcceptedIndexed ==
    ASSUME NEW p, Indexed(p), NEW U, NEW t \in Txs, NEW h, NEW cheap, Accept(p, U, t, h, cheap) = "accepted"
    PROVE  Indexed(addUnchecked(p, t)) /\ addUnchecked(p, t).tx = p.tx \cup {t}
  BY AcceptedMeans, AddIndexed

\* An accepted input is there.
LEMMA InputThere ==
    ASSUME NEW p, NEW U, NEW t \in Txs, NEW h, NEW cheap, Accept(p, U, t, h, cheap) = "accepted", NEW o \in Prevouts(t)
    PROVE  /\ o[1] \in p.tx => o[2] \in DOMAIN vout[o[1]]
           /\ o[1] \notin p.tx => \E c \in U : <<c.tx, c.n>> = o /\ ~Immature(c, h)
           /\ o[1] /= t
  <1>1. o = <<o[1], o[2]>>
    BY InputsAre
  <1>2. Available(p, U, o) /\ MatureInputs(p, U, t, h) /\ t \notin p.tx /\ \A c \in U : c.tx /= t
    BY AcceptedMeans
  <1>3. o[1] \in p.tx => o[2] \in DOMAIN vout[o[1]]
    BY <1>2 DEF Available
  <1>4. ASSUME o[1] \notin p.tx PROVE \E c \in U : <<c.tx, c.n>> = o /\ c.tx = o[1] /\ ~Immature(c, h)
    <2>1. PICK c \in U : <<c.tx, c.n>> = o
      BY <1>2, <1>4 DEF Available
    <2>2. c.tx = o[1]
      BY <1>1, <2>1
    <2>3. ~Immature(c, h)
      BY <1>2, <1>4, <2>1, <2>2 DEF MatureInputs
    <2> QED BY <2>1, <2>2, <2>3
  <1>5. o[1] /= t
    BY <1>2, <1>4
  <1> QED BY <1>3, <1>4, <1>5

LEMMA AcceptedBacked ==
    ASSUME NEW p, Indexed(p), NEW U, NEW h, NEW cheap, Backed(p, U, h), NEW t \in Txs, Accept(p, U, t, h, cheap) = "accepted"
    PROVE  Backed(addUnchecked(p, t), U, h)
  <1> DEFINE q == addUnchecked(p, t)
  <1>1. q.tx = p.tx \cup {t}
    BY AcceptedIndexed
  <1>2. \A c \in U : c.tx /= t
    BY AcceptedMeans
  <1> HIDE DEF q
  <1>3. ASSUME NEW u \in q.tx, NEW o \in Prevouts(u)
        PROVE  IF o[1] \in q.tx THEN o[2] \in DOMAIN vout[o[1]]
               ELSE \E c \in U : <<c.tx, c.n>> = o /\ ~Immature(c, h)
    <2>1. CASE u = t
      BY <1>1, <2>1, InputThere
    <2>2. CASE u \in p.tx
      <3>1. o = <<o[1], o[2]>>
        BY <2>2, InputsAre DEF Indexed, AnyPools
      <3>2. IF o[1] \in p.tx THEN o[2] \in DOMAIN vout[o[1]]
            ELSE \E c \in U : <<c.tx, c.n>> = o /\ ~Immature(c, h)
        BY <2>2 DEF Backed
      <3>3. CASE o[1] \in p.tx
        BY <1>1, <3>2, <3>3
      <3>4. CASE o[1] \notin p.tx
        <4>1. PICK c \in U : <<c.tx, c.n>> = o /\ ~Immature(c, h)
          BY <3>2, <3>4
        <4>2. c.tx = o[1]
          BY <3>1, <4>1
        <4>3. o[1] \notin q.tx
          BY <1>1, <1>2, <3>4, <4>2
        <4> QED BY <4>1, <4>3
      <3> QED BY <3>3, <3>4
    <2> QED BY <1>1, <2>1, <2>2
  <1>4. Backed(q, U, h)
    BY <1>3 DEF Backed
  <1> QED BY <1>4 DEF q

-----------------------------------------------------------------------------
(* Connecting a block.                                                     *)

LEMMA ForBlockLoop ==
    ASSUME NEW p \in AnyPools, NEW b \in Blocks
    PROVE  \E q : /\ q[0] = p /\ removeForBlock(p, b) = q[Len(vtx[b])]
                  /\ \A i \in 1 .. Len(vtx[b]) : q[i] = removeConflicts(removeOne(q[i - 1], vtx[b][i]), vtx[b][i])
  <1> DEFINE n == Len(vtx[b])
             step(r, i) == removeConflicts(removeOne(r, vtx[b][i]), vtx[b][i])
             F == [i \in 1 .. n |-> [r \in AnyPools |-> step(r, i)]]
             q[i \in 0 .. Len(vtx[b])] ==
                 IF i = 0 THEN p ELSE removeConflicts(removeOne(q[i - 1], vtx[b][i]), vtx[b][i])
  <1>0. n \in Nat
    BY BlockTxs
  <1>1. removeForBlock(p, b) = q[Len(vtx[b])]
    BY DEF removeForBlock
  <1>2. \A r \in AnyPools : \A i \in 1 .. n : step(r, i) \in AnyPools
    BY WithoutTyped DEF removeConflicts, removeOne
  <1>3. F \in [1 .. n -> [AnyPools -> AnyPools]] /\ \A i \in 1 .. n : \A r \in AnyPools : F[i][r] = step(r, i)
    BY <1>2
  <1>4. PICK f : f \in [0 .. n -> AnyPools] /\ f[0] = p /\ \A i \in 1 .. n : f[i] = F[i][f[i - 1]]
    <2>1. \E f : Turns(f, n, AnyPools, p, F)
      <3> HIDE DEF F, n, step
      <3> QED BY <1>0, <1>3, Iteration
    <2> QED BY <2>1 DEF Turns
  <1>5. \A i \in 1 .. n : f[i] = step(f[i - 1], i)
    <2>1. \A i \in 1 .. n : i - 1 \in 0 .. n
      BY <1>0
    <2> HIDE DEF step, F, n
    <2> QED BY <1>3, <1>4, <2>1
  <1>6. f = [i \in 0 .. n |-> IF i = 0 THEN p ELSE step(f[i - 1], i)]
    <2>1. \A i \in 0 .. n : f[i] = IF i = 0 THEN p ELSE step(f[i - 1], i)
      <3> HIDE DEF step
      <3> QED BY <1>0, <1>4, <1>5
    <2> HIDE DEF step
    <2> QED BY <1>4, <2>1
  <1>7. q = [i \in 0 .. n |-> IF i = 0 THEN p ELSE step(q[i - 1], i)]
    BY <1>6
  <1> HIDE DEF q
  <1>8. q[0] = p /\ \A i \in 1 .. n : q[i] = step(q[i - 1], i)
    <2> HIDE DEF step
    <2> QED BY <1>0, <1>7
  <1> QED BY <1>1, <1>8

\* The pool q after the first i transactions of b, when it was p before; U is unspent at
\* the parent and h the height of b.
Connecting(p, q, U, b, i, h) ==
    /\ Indexed(q) /\ q.tx \subseteq p.tx
    /\ \A t \in q.tx :
          /\ \A j \in 1 .. i : t /= vtx[b][j] /\ Prevouts(t) \cap Prevouts(vtx[b][j]) = {}
          /\ \A o \in Prevouts(t) :
                IF o[1] \in q.tx THEN o[2] \in DOMAIN vout[o[1]]
                ELSE \/ \E c \in U : <<c.tx, c.n>> = o /\ ~Immature(c, h)
                     \/ /\ \E j \in 1 .. i : o[1] = vtx[b][j]
                        /\ o[1] \in p.tx /\ o[2] \in DOMAIN vout[o[1]]

LEMMA ConnectingStep ==
    ASSUME NEW p, NEW q, NEW U, NEW b \in Blocks, NEW h, NEW i \in 1 .. Len(vtx[b]),
           Connecting(p, q, U, b, i - 1, h)
    PROVE  Connecting(p, removeConflicts(removeOne(q, vtx[b][i]), vtx[b][i]), U, b, i, h)
  <1> DEFINE t == vtx[b][i]
             r == removeOne(q, t)
             S == {e[2] : e \in {f \in r.next : f[1] \in Prevouts(t)}} \ {t}
             s == removeConflicts(r, t)
  <1>1. Indexed(q) /\ q.tx \subseteq p.tx
    BY DEF Connecting
  <1>2. Indexed(r) /\ r.tx = q.tx \ {t}
    <2>1. r = Without(q, {t} \cap q.tx)
      BY DEF removeOne
    <2>2. {t} \cap q.tx \in SUBSET q.tx /\ q.tx \ ({t} \cap q.tx) = q.tx \ {t}
      OBVIOUS
    <2> HIDE DEF r, t
    <2> QED BY <1>1, <2>1, <2>2, WithoutIndexed
  <1>3. s = Without(r, Descendants(r, S))
    BY DEF removeConflicts
  <1> HIDE DEF r, s
  <1>4. Indexed(s) /\ Rooted(r, s) /\ S \cap s.tx = {}
    <2> HIDE DEF S
    <2> QED BY <1>2, <1>3, RemovedWithDescendants
  <1>5. s.tx \subseteq r.tx /\ s.tx \subseteq p.tx
    BY <1>1, <1>2, <1>4 DEF Rooted
  <1>6. i \in Nat /\ i >= 1 /\ \A j \in 1 .. i : j = i \/ j \in 1 .. i - 1
    BY BlockTxs
  <1>7. ASSUME NEW u \in s.tx
        PROVE  \A j \in 1 .. i : u /= vtx[b][j] /\ Prevouts(u) \cap Prevouts(vtx[b][j]) = {}
    <2>1. u \in q.tx /\ u /= t /\ u \in r.tx
      BY <1>2, <1>5
    <2>2. \A j \in 1 .. i - 1 : u /= vtx[b][j] /\ Prevouts(u) \cap Prevouts(vtx[b][j]) = {}
      BY <2>1 DEF Connecting
    <2>3. Prevouts(u) \cap Prevouts(t) = {}
      <3> SUFFICES ASSUME NEW o \in Prevouts(u), o \in Prevouts(t) PROVE FALSE
        OBVIOUS
      <3> DEFINE e == <<o, u>>
      <3>1. e \in r.next
        BY <1>2, <2>1, InIndex DEF Indexed
      <3>2. e[1] = o /\ e[2] = u
        OBVIOUS
      <3> HIDE DEF e
      <3>3. u \in S
        BY <2>1, <3>1, <3>2
      <3> QED BY <1>4, <3>3
    <2> QED BY <1>6, <2>1, <2>2, <2>3
  <1>8. ASSUME NEW u \in s.tx, NEW o \in Prevouts(u)
        PROVE  IF o[1] \in s.tx THEN o[2] \in DOMAIN vout[o[1]]
               ELSE \/ \E c \in U : <<c.tx, c.n>> = o /\ ~Immature(c, h)
                    \/ /\ \E j \in 1 .. i : o[1] = vtx[b][j]
                       /\ o[1] \in p.tx /\ o[2] \in DOMAIN vout[o[1]]
    <2>1. u \in q.tx
      BY <1>2, <1>5
    <2>2. IF o[1] \in q.tx THEN o[2] \in DOMAIN vout[o[1]]
          ELSE \/ \E c \in U : <<c.tx, c.n>> = o /\ ~Immature(c, h)
               \/ /\ \E j \in 1 .. i - 1 : o[1] = vtx[b][j]
                  /\ o[1] \in p.tx /\ o[2] \in DOMAIN vout[o[1]]
      BY <2>1 DEF Connecting
    <2>3. CASE o[1] \in s.tx
      BY <1>2, <1>5, <2>2, <2>3
    <2>4. CASE o[1] \notin s.tx /\ o[1] \in q.tx
      <3>1. o[1] = t
        BY <1>2, <1>4, <2>2, <2>4 DEF Rooted
      <3>2. i \in 1 .. i
        BY <1>6
      <3> QED BY <1>1, <2>2, <2>4, <3>1, <3>2
    <2>5. CASE o[1] \notin q.tx
      <3>1. o[1] \notin s.tx
        BY <1>2, <1>5, <2>5
      <3>2. \A j \in 1 .. i - 1 : j \in 1 .. i
        BY <1>6
      <3> QED BY <2>2, <2>5, <3>1, <3>2
    <2> QED BY <2>3, <2>4, <2>5
  <1>9. Connecting(p, s, U, b, i, h)
    BY <1>4, <1>5, <1>7, <1>8 DEF Connecting
  <1> QED BY <1>9 DEF s, r

\* removeForBlock leaves a pool that can be mined on b.
LEMMA ConnectedPool ==
    ASSUME NEW p, NEW b \in Blocks, b /= Genesis, Indexed(p),
           Backed(p, UtxoOf[Parent[b]], Height[b])
    PROVE  LET q == removeForBlock(p, b)
           IN  /\ Indexed(q) /\ Backed(q, UtxoOf[b], Height[b] + 1) /\ q.tx \subseteq p.tx
               /\ \A i \in DOMAIN vtx[b] : vtx[b][i] \notin q.tx
  <1> DEFINE n == Len(vtx[b])
             U == UtxoOf[Parent[b]]
             h == Height[b]
  <1>0. /\ n \in Nat /\ DOMAIN vtx[b] = 1 .. n /\ \A i \in 1 .. n : vtx[b][i] \in Txs
        /\ Parent[b] \in Blocks /\ U \in SUBSET Coins /\ UtxoOf[b] = Applied(U, b, n) /\ h \in Nat
    BY BlockTxs, Utxos, Heights, LedgerAssumption
  <1>1. PICK q : /\ q[0] = p /\ removeForBlock(p, b) = q[n]
                 /\ \A i \in 1 .. n : q[i] = removeConflicts(removeOne(q[i - 1], vtx[b][i]), vtx[b][i])
    BY ForBlockLoop DEF Indexed
  <1> HIDE DEF n, U, h
  <1> DEFINE G == {i \in 0 .. n : Connecting(p, q[i], U, b, i, h)}
  <1>2. 0 \in G
    <2>1. Connecting(p, p, U, b, 0, h)
      BY DEF Connecting, Backed, U, h
    <2> QED BY <1>0, <1>1, <2>1
  <1>3. ASSUME NEW i \in 1 .. n, i - 1 \in G PROVE i \in G
    <2>1. Connecting(p, q[i - 1], U, b, i - 1, h)
      BY <1>3
    <2>2. Connecting(p, q[i], U, b, i, h)
      BY <1>1, <2>1, ConnectingStep DEF n
    <2> QED BY <1>0, <2>2
  <1>4. 0 .. n \subseteq G
    <2> HIDE DEF G
    <2> QED BY <1>0, <1>2, <1>3, EveryTurn
  <1> DEFINE r == q[n]
  <1>5. Connecting(p, r, U, b, n, h)
    BY <1>0, <1>4
  <1> HIDE DEF r, G
  <1>6. Indexed(r) /\ r.tx \subseteq p.tx /\ r.tx \subseteq Txs /\ r.tx \cap Unacceptable = {}
    BY <1>5 DEF Connecting, Indexed, AnyPools
  <1>7. \A i \in 1 .. n : vtx[b][i] \notin r.tx
    BY <1>5 DEF Connecting
  <1>8. ASSUME NEW t \in r.tx, NEW o \in Prevouts(t), o[1] \notin r.tx
        PROVE  \E c \in UtxoOf[b] : <<c.tx, c.n>> = o /\ ~Immature(c, h + 1)
    <2>1. \A j \in 1 .. n : o \notin Prevouts(vtx[b][j])
      BY <1>5 DEF Connecting
    <2>2. \/ \E c \in U : <<c.tx, c.n>> = o /\ ~Immature(c, h)
          \/ /\ \E j \in 1 .. n : o[1] = vtx[b][j]
             /\ o[1] \in p.tx /\ o[2] \in DOMAIN vout[o[1]]
      BY <1>5, <1>8 DEF Connecting
    <2>3. ASSUME NEW c \in U, <<c.tx, c.n>> = o, ~Immature(c, h)
          PROVE  c \in UtxoOf[b] /\ ~Immature(c, h + 1)
      <3>1. c \in NotSpent(U, b, 0, n)
        BY <2>1, <2>3, <1>0 DEF NotSpent
      <3>2. c.nHeight \in Nat
        BY <1>0, CoinsAre
      <3> QED BY <1>0, <2>3, <3>1, <3>2, MempoolAssumption DEF Applied, Immature
    <2>4. ASSUME NEW j \in 1 .. n, o[1] = vtx[b][j], o[1] \in p.tx, o[2] \in DOMAIN vout[o[1]]
          PROVE  \E c \in UtxoOf[b] : <<c.tx, c.n>> = o /\ ~Immature(c, h + 1)
      <3> DEFINE c == Out(o[1], o[2], h)
      <3>1. vout[o[1]][o[2]] \notin {"null", "unspendable"}
        <4>1. t \in Txs \ BadScripts
          BY <1>6 DEF Unacceptable
        <4> QED BY <4>1, <2>4, MempoolAssumption
      <3>2. c \in Created(vtx[b][j], h)
        BY <2>4, <3>1 DEF Created
      <3>3. <<c.tx, c.n>> = o /\ c.base = (o[1] \in CoinBases) /\ c.stake = (o[1] \in CoinStakes)
        <4>1. o = <<o[1], o[2]>>
          BY <1>6, InputsAre
        <4> QED BY <4>1 DEF Out
      <3> HIDE DEF c
      <3>4. c \in NotSpent(Created(vtx[b][j], h), b, j, n)
        <4>1. \A k \in j + 1 .. n : k \in 1 .. n
          BY <1>0
        <4> QED BY <2>1, <3>2, <3>3, <4>1 DEF NotSpent
      <3>5. c \in UtxoOf[b]
        BY <1>0, <3>4 DEF Applied, h
      <3>6. ~Immature(c, h + 1)
        <4>1. o[1] \notin Unacceptable
          BY <2>4 DEF Indexed
        <4> QED BY <3>3, <4>1 DEF Immature, Unacceptable
      <3> QED BY <3>3, <3>5, <3>6
    <2> QED BY <2>2, <2>3, <2>4
  <1>9. Backed(r, UtxoOf[b], h + 1)
    BY <1>5, <1>8 DEF Backed, Connecting
  <1>10. removeForBlock(p, b) = r
    BY <1>1 DEF r
  <1> QED BY <1>0, <1>6, <1>7, <1>9, <1>10 DEF h

-----------------------------------------------------------------------------
(* Disconnecting a block.                                                  *)

LEMMA ReturnTyped ==
    ASSUME NEW p \in AnyPools, NEW b, NEW t \in Txs
    PROVE  ReturnToPool(p, b, t) \in AnyPools
  BY AddTyped, WithoutTyped DEF ReturnToPool, removeRecursive

LEMMA ResurrectLoop ==
    ASSUME NEW p \in AnyPools, NEW b \in Blocks
    PROVE  \E q : /\ q[0] = p /\ Resurrected(p, b) = q[Len(vtx[b])]
                  /\ \A i \in 1 .. Len(vtx[b]) : q[i] = ReturnToPool(q[i - 1], b, vtx[b][i])
  <1> DEFINE n == Len(vtx[b])
             step(r, i) == ReturnToPool(r, b, vtx[b][i])
             F == [i \in 1 .. n |-> [r \in AnyPools |-> step(r, i)]]
             q[i \in 0 .. Len(vtx[b])] == IF i = 0 THEN p ELSE ReturnToPool(q[i - 1], b, vtx[b][i])
  <1>0. n \in Nat
    BY BlockTxs
  <1>1. Resurrected(p, b) = q[Len(vtx[b])]
    BY DEF Resurrected
  <1>2. \A r \in AnyPools : \A i \in 1 .. n : step(r, i) \in AnyPools
    BY ReturnTyped, BlockTxs
  <1>3. F \in [1 .. n -> [AnyPools -> AnyPools]] /\ \A i \in 1 .. n : \A r \in AnyPools : F[i][r] = step(r, i)
    BY <1>2
  <1>4. PICK f : f \in [0 .. n -> AnyPools] /\ f[0] = p /\ \A i \in 1 .. n : f[i] = F[i][f[i - 1]]
    <2>1. \E f : Turns(f, n, AnyPools, p, F)
      <3> HIDE DEF F, n, step
      <3> QED BY <1>0, <1>3, Iteration
    <2> QED BY <2>1 DEF Turns
  <1>5. \A i \in 1 .. n : f[i] = step(f[i - 1], i)
    <2>1. \A i \in 1 .. n : i - 1 \in 0 .. n
      BY <1>0
    <2> HIDE DEF step, F, n
    <2> QED BY <1>3, <1>4, <2>1
  <1>6. f = [i \in 0 .. n |-> IF i = 0 THEN p ELSE step(f[i - 1], i)]
    <2>1. \A i \in 0 .. n : f[i] = IF i = 0 THEN p ELSE step(f[i - 1], i)
      <3> HIDE DEF step
      <3> QED BY <1>0, <1>4, <1>5
    <2> HIDE DEF step
    <2> QED BY <1>4, <2>1
  <1>7. q = [i \in 0 .. n |-> IF i = 0 THEN p ELSE step(q[i - 1], i)]
    BY <1>6
  <1> HIDE DEF q
  <1>8. q[0] = p /\ \A i \in 1 .. n : q[i] = step(q[i - 1], i)
    <2> HIDE DEF step
    <2> QED BY <1>0, <1>7
  <1> QED BY <1>1, <1>8

\* The pool q after the first i transactions of b have returned or not; U is unspent at
\* the parent.  An input that is in neither is an output of a later transaction of b.
Disconnecting(q, U, b, i) ==
    /\ Indexed(q)
    /\ \A t \in q.tx : \A o \in Prevouts(t) :
          IF o[1] \in q.tx THEN o[2] \in DOMAIN vout[o[1]]
          ELSE \/ \E c \in U : <<c.tx, c.n>> = o
               \/ /\ \E j \in i + 1 .. Len(vtx[b]) : o[1] = vtx[b][j]
                  /\ o[2] \in DOMAIN vout[o[1]]

LEMMA DisconnectingStep ==
    ASSUME NEW q, NEW b \in Blocks, NEW i \in 1 .. Len(vtx[b]),
           Disconnecting(q, UtxoOf[Parent[b]], b, i - 1)
    PROVE  Disconnecting(ReturnToPool(q, b, vtx[b][i]), UtxoOf[Parent[b]], b, i)
  <1> DEFINE t == vtx[b][i]
             U == UtxoOf[Parent[b]]
             h == Height[b]
             n == Len(vtx[b])
             s == ReturnToPool(q, b, t)
  <1>1. Indexed(q) /\ t \in Txs /\ q.tx \subseteq Txs
    BY BlockTxs DEF Disconnecting, Indexed, AnyPools
  <1>2. n \in Nat /\ i \in 1 .. n /\ \A j \in i - 1 + 1 .. n : j = i \/ j \in i + 1 .. n
    BY BlockTxs
  <1>3. ASSUME NEW u \in q.tx, NEW o \in Prevouts(u)
        PROVE  /\ o[1] \in q.tx => o[2] \in DOMAIN vout[o[1]]
               /\ o[1] \notin q.tx => \/ \E c \in U : <<c.tx, c.n>> = o /\ c.tx = o[1]
                                      \/ o[1] = t /\ o[2] \in DOMAIN vout[t]
                                      \/ /\ \E j \in i + 1 .. n : o[1] = vtx[b][j]
                                         /\ o[2] \in DOMAIN vout[o[1]]
    <2>1. o = <<o[1], o[2]>>
      BY <1>1, InputsAre
    <2>2. IF o[1] \in q.tx THEN o[2] \in DOMAIN vout[o[1]]
          ELSE \/ \E c \in U : <<c.tx, c.n>> = o
               \/ /\ \E j \in i - 1 + 1 .. n : o[1] = vtx[b][j]
                  /\ o[2] \in DOMAIN vout[o[1]]
      BY DEF Disconnecting
    <2>3. \A c \in U : <<c.tx, c.n>> = o => c.tx = o[1]
      BY <2>1
    <2> QED BY <1>2, <2>2, <2>3
  <1> HIDE DEF t, U, h, n
  <1>4. CASE Accept(q, U, t, h, LowPriority) = "accepted"
    <2>1. s = addUnchecked(q, t)
      BY <1>4 DEF ReturnToPool, U, h
    <2> HIDE DEF s
    <2>2. Indexed(s) /\ s.tx = q.tx \cup {t}
      <3>1. Indexed(addUnchecked(q, t)) /\ addUnchecked(q, t).tx = q.tx \cup {t}
        BY <1>1, <1>4, AcceptedIndexed
      <3> QED BY <2>1, <3>1
    <2>3. \A c \in U : c.tx /= t
      BY <1>4, AcceptedMeans
    <2>4. ASSUME NEW u \in s.tx, NEW o \in Prevouts(u)
          PROVE  IF o[1] \in s.tx THEN o[2] \in DOMAIN vout[o[1]]
                 ELSE \/ \E c \in U : <<c.tx, c.n>> = o
                      \/ /\ \E j \in i + 1 .. n : o[1] = vtx[b][j]
                         /\ o[2] \in DOMAIN vout[o[1]]
      <3>1. CASE u = t
        BY <1>1, <1>4, <2>2, <3>1, InputThere
      <3>2. CASE u \in q.tx
        BY <1>3, <2>2, <2>3, <3>2
      <3> QED BY <2>2, <3>1, <3>2
    <2> QED BY <2>2, <2>4 DEF Disconnecting, s, t, U, n
  <1>5. CASE Accept(q, U, t, h, LowPriority) /= "accepted"
    <2>1. s = removeRecursive(q, t)
      BY <1>5 DEF ReturnToPool, U, h
    <2> HIDE DEF s
    <2>2. /\ Indexed(s) /\ Rooted(q, s) /\ t \notin s.tx
          /\ \A u \in s.tx : \A o \in Prevouts(u) : o[1] = t => o[2] \notin DOMAIN vout[t]
      BY <1>1, <2>1, RemovedRecursively
    <2>3. ASSUME NEW u \in s.tx, NEW o \in Prevouts(u)
          PROVE  IF o[1] \in s.tx THEN o[2] \in DOMAIN vout[o[1]]
                 ELSE \/ \E c \in U : <<c.tx, c.n>> = o
                      \/ /\ \E j \in i + 1 .. n : o[1] = vtx[b][j]
                         /\ o[2] \in DOMAIN vout[o[1]]
      <3>1. u \in q.tx /\ (o[1] \in s.tx => o[1] \in q.tx)
        BY <2>2 DEF Rooted
      <3>2. o[1] \in q.tx => o[1] \in s.tx
        BY <1>3, <2>2, <3>1 DEF Rooted
      <3> QED BY <1>3, <2>2, <3>1, <3>2
    <2> QED BY <2>2, <2>3 DEF Disconnecting, s, t, U, n
  <1> QED BY <1>4, <1>5

\* DisconnectTip leaves a pool that can be mined on the parent.
LEMMA DisconnectedPool ==
    ASSUME NEW p, NEW b \in Blocks, b /= Genesis, Indexed(p), Backed(p, UtxoOf[b], Height[b] + 1)
    PROVE  LET q == removeCoinbaseSpends(Resurrected(p, b), UtxoOf[Parent[b]], Height[b])
           IN  Indexed(q) /\ Backed(q, UtxoOf[Parent[b]], Height[b]) /\ Rooted(Resurrected(p, b), q)
  <1> DEFINE n == Len(vtx[b])
             U == UtxoOf[Parent[b]]
             h == Height[b]
  <1>0. /\ n \in Nat /\ \A i \in 1 .. n : vtx[b][i] \in Txs
        /\ Parent[b] \in Blocks /\ U \in SUBSET Coins /\ UtxoOf[b] = Applied(U, b, n) /\ h \in Nat
    BY BlockTxs, Utxos, Heights, LedgerAssumption
  <1>1. PICK q : /\ q[0] = p /\ Resurrected(p, b) = q[n]
                 /\ \A i \in 1 .. n : q[i] = ReturnToPool(q[i - 1], b, vtx[b][i])
    BY ResurrectLoop DEF Indexed
  <1> HIDE DEF n, U, h
  <1> DEFINE G == {i \in 0 .. n : Disconnecting(q[i], U, b, i)}
  <1>2. 0 \in G
    <2>1. ASSUME NEW t \in p.tx, NEW o \in Prevouts(t)
          PROVE  IF o[1] \in p.tx THEN o[2] \in DOMAIN vout[o[1]]
                 ELSE \/ \E c \in U : <<c.tx, c.n>> = o
                      \/ /\ \E j \in 0 + 1 .. n : o[1] = vtx[b][j]
                         /\ o[2] \in DOMAIN vout[o[1]]
      <3>1. CASE o[1] \in p.tx
        BY <3>1 DEF Backed
      <3>2. CASE o[1] \notin p.tx
        <4>1. PICK c \in UtxoOf[b] : <<c.tx, c.n>> = o
          BY <3>2 DEF Backed
        <4>2. c \in U \/ \E j \in 1 .. n : c \in Created(vtx[b][j], h)
          BY <1>0, <4>1 DEF Applied, NotSpent, h
        <4>3. ASSUME NEW j \in 1 .. n, c \in Created(vtx[b][j], h)
              PROVE  o[1] = vtx[b][j] /\ o[2] \in DOMAIN vout[o[1]]
          <5>1. c.tx = vtx[b][j] /\ c.n \in DOMAIN vout[vtx[b][j]]
            BY <4>3 DEF Created, Out
          <5> QED BY <4>1, <5>1
        <4> QED BY <3>2, <4>1, <4>2, <4>3
      <3> QED BY <3>1, <3>2
    <2>2. Disconnecting(p, U, b, 0)
      BY <2>1 DEF Disconnecting, n
    <2> QED BY <1>0, <1>1, <2>2
  <1>3. ASSUME NEW i \in 1 .. n, i - 1 \in G PROVE i \in G
    <2>1. Disconnecting(q[i - 1], U, b, i - 1)
      BY <1>3
    <2>2. Disconnecting(q[i], U, b, i)
      BY <1>1, <2>1, DisconnectingStep DEF n, U
    <2> QED BY <1>0, <2>2
  <1>4. 0 .. n \subseteq G
    <2> HIDE DEF G
    <2> QED BY <1>0, <1>2, <1>3, EveryTurn
  <1> DEFINE r == Resurrected(p, b)
             spent(u) == {o \in U : o.tx = u}
             fails(t) == \E i \in DOMAIN vin[t] :
                            LET u == vin[t][i][1]
                            IN  /\ u \notin r.tx
                                /\ \/ spent(u) = {}
                                   \/ \E o \in spent(u) : Immature(o, h)
             S == {t \in r.tx : fails(t)}
             s == removeCoinbaseSpends(r, U, h)
  <1>5. Disconnecting(r, U, b, n)
    BY <1>0, <1>1, <1>4
  <1>6. s = Without(r, Descendants(r, S))
    BY DEF removeCoinbaseSpends
  <1> HIDE DEF r, s, G
  <1>7. Indexed(r) /\ r.tx \subseteq Txs
    BY <1>5 DEF Disconnecting, Indexed, AnyPools
  <1>8. Indexed(s) /\ Rooted(r, s) /\ S \cap s.tx = {}
    <2> HIDE DEF S
    <2> QED BY <1>6, <1>7, RemovedWithDescendants
  <1>9. ASSUME NEW t \in s.tx, NEW o \in Prevouts(t)
        PROVE  IF o[1] \in s.tx THEN o[2] \in DOMAIN vout[o[1]]
               ELSE \E c \in U : <<c.tx, c.n>> = o /\ ~Immature(c, h)
    <2>1. t \in r.tx /\ (o[1] \in s.tx => o[1] \in r.tx)
      BY <1>8 DEF Rooted
    <2>2. o = <<o[1], o[2]>>
      BY <1>7, <2>1, InputsAre
    <2>3. \A j \in n + 1 .. n : FALSE
      BY <1>0
    <2>4. IF o[1] \in r.tx THEN o[2] \in DOMAIN vout[o[1]] ELSE \E c \in U : <<c.tx, c.n>> = o
      BY <1>5, <2>1, <2>3 DEF Disconnecting, n
    <2>5. o[1] \in r.tx => o[1] \in s.tx
      BY <1>8, <2>4 DEF Rooted
    <2>6. CASE o[1] \notin r.tx
      <3>1. PICK c \in U : <<c.tx, c.n>> = o
        BY <2>4, <2>6
      <3>2. c.tx = o[1]
        BY <2>2, <3>1
      <3>3. PICK k \in DOMAIN vin[t] : vin[t][k] = o
        BY DEF Prevouts
      <3>4. ~fails(t)
        BY <1>8, <2>1
      <3>5. \A a \in spent(o[1]) : ~Immature(a, h)
        BY <2>6, <3>3, <3>4
      <3>6. c \in spent(o[1])
        BY <3>2
      <3> QED BY <2>1, <2>6, <3>1, <3>5, <3>6
    <2> QED BY <2>1, <2>4, <2>5, <2>6
  <1>10. Backed(s, U, h)
    BY <1>9 DEF Backed
  <1> QED BY <1>8, <1>10 DEF s, r, U, h

-----------------------------------------------------------------------------
(* Reconsidering orphans.                                                  *)

WorkStates == [pool : AnyPools, work : Seq(Txs), erase : SUBSET Txs, bad : SUBSET (Peers \cup {None})]

Begin == [pool |-> Pool, work |-> vWorkQueue, erase |-> vEraseQueue, bad |-> setMisbehaving]

\* The step of ReconsiderAll for orphan t.
Turn(s, u, t) == IF <<u, t>> \in mapOrphanTransactionsByPrev THEN Reconsider(s, t) ELSE s

\* What Reconsider does to the parts of s.
LEMMA Reconsidered ==
    ASSUME NEW s \in WorkStates, NEW t \in Txs, mapOrphanTransactions[t] \in Peers \cup {None}
    PROVE  LET r == Reconsider(s, t)
               v == AcceptNow(s.pool, t)
           IN  /\ r \in WorkStates
               /\ mapOrphanTransactions[t] \in s.bad => r = s
               /\ mapOrphanTransactions[t] \notin s.bad =>
                     /\ r.pool = IF v = "accepted" THEN addUnchecked(s.pool, t) ELSE s.pool
                     /\ r.work = IF v = "accepted" THEN Append(s.work, t) ELSE s.work
                     /\ r.erase = IF v = "missing" THEN s.erase ELSE s.erase \cup {t}
                     /\ r.bad = IF v = "dos" THEN s.bad \cup {mapOrphanTransactions[t]} ELSE s.bad
  <1> DEFINE v == AcceptNow(s.pool, t)
             P == IF v = "accepted" THEN addUnchecked(s.pool, t) ELSE s.pool
             W == IF v = "accepted" THEN Append(s.work, t) ELSE s.work
             E == IF v = "missing" THEN s.erase ELSE s.erase \cup {t}
             B == IF v = "dos" THEN s.bad \cup {mapOrphanTransactions[t]} ELSE s.bad
             r == [pool |-> P, work |-> W, erase |-> E, bad |-> B]
  <1>1. s.pool \in AnyPools /\ s.work \in Seq(Txs) /\ s.erase \subseteq Txs /\ s.bad \subseteq Peers \cup {None}
    BY DEF WorkStates
  <1>2. P \in AnyPools
    BY <1>1, AddTyped
  <1>3. W \in Seq(Txs)
    BY <1>1
  <1>4. E \subseteq Txs /\ B \subseteq Peers \cup {None}
    BY <1>1
  <1>5. Reconsider(s, t) = IF mapOrphanTransactions[t] \in s.bad THEN s ELSE r
    BY DEF Reconsider
  <1> HIDE DEF P, W, E, B
  <1>6. r \in WorkStates /\ r.pool = P /\ r.work = W /\ r.erase = E /\ r.bad = B
    BY <1>2, <1>3, <1>4 DEF WorkStates
  <1> HIDE DEF r
  <1>7. mapOrphanTransactions[t] \in s.bad => Reconsider(s, t) = s
    BY <1>5
  <1>8. mapOrphanTransactions[t] \notin s.bad => Reconsider(s, t) = r
    BY <1>5
  <1> QED BY <1>6, <1>7, <1>8 DEF P, W, E, B

LEMMA ReconsiderLoop ==
    ASSUME mapOrphanTransactions \in [Txs -> Peers \cup {None}], Begin \in WorkStates, NEW u
    PROVE  \E s : /\ s[0] = Begin /\ ReconsiderAll(u) = s[Len(ByHash)]
                  /\ \A i \in 1 .. Len(ByHash) : s[i] = Turn(s[i - 1], u, ByHash[i])
                  /\ \A i \in 0 .. Len(ByHash) : s[i] \in WorkStates
  <1> DEFINE n == Len(ByHash)
             step(r, i) == Turn(r, u, ByHash[i])
             F == [i \in 1 .. n |-> [r \in WorkStates |-> step(r, i)]]
             s[i \in 0 .. Len(ByHash)] ==
                 IF i = 0 THEN [pool |-> Pool, work |-> vWorkQueue, erase |-> vEraseQueue, bad |-> setMisbehaving]
                 ELSE IF <<u, ByHash[i]>> \in mapOrphanTransactionsByPrev THEN Reconsider(s[i - 1], ByHash[i])
                 ELSE s[i - 1]
  <1>0. n \in Nat
    BY Hashes
  <1>1. ReconsiderAll(u) = s[Len(ByHash)]
    BY DEF ReconsiderAll
  <1>2. \A r \in WorkStates : \A i \in 1 .. n : step(r, i) \in WorkStates
    BY Reconsidered, Hashes DEF Turn
  <1>3. F \in [1 .. n -> [WorkStates -> WorkStates]] /\ \A i \in 1 .. n : \A r \in WorkStates : F[i][r] = step(r, i)
    BY <1>2
  <1>4. PICK f : f \in [0 .. n -> WorkStates] /\ f[0] = Begin /\ \A i \in 1 .. n : f[i] = F[i][f[i - 1]]
    <2>1. \E f : Turns(f, n, WorkStates, Begin, F)
      <3> HIDE DEF F, n, step
      <3> QED BY <1>0, <1>3, Iteration
    <2> QED BY <2>1 DEF Turns
  <1>5. \A i \in 1 .. n : f[i] = step(f[i - 1], i)
    <2>1. \A i \in 1 .. n : i - 1 \in 0 .. n
      BY <1>0
    <2> HIDE DEF step, F, n
    <2> QED BY <1>3, <1>4, <2>1
  <1>6. f = [i \in 0 .. n |-> IF i = 0 THEN Begin ELSE step(f[i - 1], i)]
    <2>1. \A i \in 0 .. n : f[i] = IF i = 0 THEN Begin ELSE step(f[i - 1], i)
      <3> HIDE DEF step
      <3> QED BY <1>0, <1>4, <1>5
    <2> HIDE DEF step
    <2> QED BY <1>4, <2>1
  <1>7. f = [i \in 0 .. n |-> IF i = 0 THEN [pool |-> Pool, work |-> vWorkQueue, erase |-> vEraseQueue, bad |-> setMisbehaving]
                 ELSE IF <<u, ByHash[i]>> \in mapOrphanTransactionsByPrev THEN Reconsider(f[i - 1], ByHash[i])
                 ELSE f[i - 1]]
    BY <1>6 DEF Begin, Turn
  <1>8. s = [i \in 0 .. n |-> IF i = 0 THEN Begin ELSE step(s[i - 1], i)]
    BY <1>7 DEF Begin, Turn
  <1> HIDE DEF s
  <1>9. s[0] = Begin /\ \A i \in 1 .. n : s[i] = step(s[i - 1], i)
    <2> HIDE DEF step
    <2> QED BY <1>0, <1>8
  <1> DEFINE G == {i \in 0 .. n : s[i] \in WorkStates}
  <1>10. ASSUME NEW i \in 1 .. n, i - 1 \in G PROVE i \in G
    <2>1. s[i - 1] \in WorkStates
      BY <1>10
    <2>2. s[i] \in WorkStates
      BY <1>2, <1>9, <2>1
    <2> QED BY <1>0, <2>2
  <1>11. 0 .. n \subseteq G
    <2>1. 0 \in G
      BY <1>0, <1>9
    <2> HIDE DEF G
    <2> QED BY <1>0, <1>10, <2>1, EveryTurn
  <1> QED BY <1>1, <1>9, <1>11

DependsOn(t, u) == \E o \in Prevouts(t) : o[1] = u

Queued(s) == {s.work[i] : i \in DOMAIN s.work}

\* The handler has put what it added into the queue, and whatever depends on that.
QueueRight(s) ==
    /\ Queued(s) \subseteq s.pool.tx
    /\ s.erase \cap s.pool.tx \subseteq Queued(s)
    /\ \A t \in s.pool.tx : \A u \in Queued(s) : DependsOn(t, u) => t \in Queued(s)

\* Nothing is left to be done for the orphan t, or it depends on a transaction in the
\* queue after position n.
Settled(t, s, n) ==
    \/ t \in s.erase \/ mapOrphanTransactions[t] \in s.bad
    \/ \E o \in Prevouts(t) : ~HaveCoins(s.pool, UtxoOf[tip], o[1])
    \/ \E j \in n + 1 .. Len(s.work) : DependsOn(t, s.work[j])

HandlerRight ==
    /\ Idle => vEraseQueue = {}
    /\ QueueRight(Begin)
    /\ \A t \in Orphans : \A i \in 1 .. pos - 1 : DependsOn(t, vWorkQueue[i]) => Settled(t, Begin, pos - 1)

\* The handler at position pos, when the first k transactions in the order of hashes
\* have been looked at.
Resolving(s, k) ==
    /\ s \in WorkStates /\ s.bad \subseteq Peers
    /\ Indexed(s.pool) /\ Backed(s.pool, UtxoOf[tip], Height[tip] + 1)
    /\ pos <= Len(s.work) /\ s.work[pos] = vWorkQueue[pos]
    /\ \A i \in 1 .. pos : s.work[i] = vWorkQueue[i]
    /\ QueueRight(s)
    /\ \A t \in Orphans :
          (IF DependsOn(t, vWorkQueue[pos]) THEN \E m \in 1 .. k : ByHash[m] = t
           ELSE \E i \in 1 .. pos - 1 : DependsOn(t, vWorkQueue[i]))
          => Settled(t, s, pos)

\* An accepted transaction joins the queue.
LEMMA QueueGrows ==
    ASSUME tip \in Blocks, NEW s \in WorkStates, Indexed(s.pool), Backed(s.pool, UtxoOf[tip], Height[tip] + 1),
           QueueRight(s), NEW t \in Txs, AcceptNow(s.pool, t) = "accepted",
           NEW r \in WorkStates, r.pool = addUnchecked(s.pool, t), r.work = Append(s.work, t),
           r.erase \subseteq s.erase \cup {t}
    PROVE  /\ Indexed(r.pool) /\ Backed(r.pool, UtxoOf[tip], Height[tip] + 1) /\ QueueRight(r)
           /\ r.pool.tx = s.pool.tx \cup {t}
           /\ Len(r.work) = Len(s.work) + 1 /\ r.work[Len(r.work)] = t
           /\ \A i \in 1 .. Len(s.work) : r.work[i] = s.work[i]
  <1> DEFINE U == UtxoOf[tip]
             h == Height[tip] + 1
             p == s.pool
  <1>1. Accept(p, U, t, h, Underpaid \cup LowPriority) = "accepted"
    BY DEF AcceptNow
  <1> HIDE DEF U, h
  <1>2. Indexed(r.pool) /\ r.pool.tx = p.tx \cup {t}
    <2>1. Indexed(p) /\ r.pool = addUnchecked(p, t)
      OBVIOUS
    <2> HIDE DEF p
    <2>2. Indexed(addUnchecked(p, t)) /\ addUnchecked(p, t).tx = p.tx \cup {t}
      BY <1>1, <2>1, AcceptedIndexed
    <2> QED BY <2>1, <2>2
  <1>3. Backed(r.pool, U, h)
    <2>1. Backed(p, U, h)
      BY DEF U, h
    <2> QED BY <1>1, <2>1, AcceptedBacked
  <1>4. s.work \in Seq(Txs)
    BY DEF WorkStates
  <1>5. /\ Len(r.work) = Len(s.work) + 1 /\ r.work[Len(r.work)] = t
        /\ \A i \in 1 .. Len(s.work) : r.work[i] = s.work[i]
    BY <1>4
  <1>6. Queued(r) = Queued(s) \cup {t}
    <2>1. DOMAIN r.work = 1 .. Len(s.work) + 1 /\ DOMAIN s.work = 1 .. Len(s.work) /\ Len(s.work) \in Nat
      BY <1>4
    <2>2. \A i \in DOMAIN r.work : i \in DOMAIN s.work \/ i = Len(s.work) + 1
      BY <2>1
    <2>3. \A i \in DOMAIN s.work : i \in DOMAIN r.work /\ r.work[i] = s.work[i]
      BY <1>5, <2>1
    <2>4. Len(s.work) + 1 \in DOMAIN r.work /\ r.work[Len(s.work) + 1] = t
      BY <1>5, <2>1
    <2> QED BY <2>2, <2>3, <2>4 DEF Queued
  <1>7. QueueRight(r)
    <2>1. Queued(r) \subseteq r.pool.tx
      BY <1>2, <1>6 DEF QueueRight
    <2>2. r.erase \cap r.pool.tx \subseteq Queued(r)
      BY <1>2, <1>6 DEF QueueRight
    <2>3. ASSUME NEW w \in r.pool.tx, NEW u \in Queued(r), DependsOn(w, u) PROVE w \in Queued(r)
      <3>1. CASE w = t
        BY <1>6, <3>1
      <3>2. CASE w \in p.tx /\ u \in Queued(s)
        BY <1>6, <2>3, <3>2 DEF QueueRight
      <3>3. CASE w \in p.tx /\ u = t
        <4>1. PICK o \in Prevouts(w) : o[1] = t
          BY <2>3, <3>3 DEF DependsOn
        <4>2. t \notin p.tx /\ \A c \in U : c.tx /= t
          BY <1>1, AcceptedMeans
        <4>3. \E c \in U : <<c.tx, c.n>> = o
          BY <3>3, <4>1, <4>2 DEF Backed, U
        <4>4. o = <<o[1], o[2]>>
          BY <3>3, InputsAre DEF Indexed, AnyPools
        <4> QED BY <4>1, <4>2, <4>3, <4>4
      <3> QED BY <1>2, <1>6, <3>1, <3>2, <3>3
    <2> QED BY <2>1, <2>2, <2>3 DEF QueueRight
  <1> QED BY <1>2, <1>3, <1>5, <1>7 DEF U, h

\* Settled is kept by all that Reconsider may do.
LEMMA SettledKept ==
    ASSUME NEW s \in WorkStates, NEW r \in WorkStates, NEW n \in Nat, n <= Len(s.work), NEW t \in Txs, Settled(t, s, n),
           s.erase \subseteq r.erase, s.bad \subseteq r.bad,
           \/ r.pool = s.pool /\ r.work = s.work
           \/ \E u \in Txs : /\ r.pool.tx = s.pool.tx \cup {u}
                             /\ Len(r.work) = Len(s.work) + 1 /\ r.work[Len(r.work)] = u
                             /\ \A i \in 1 .. Len(s.work) : r.work[i] = s.work[i]
    PROVE  Settled(t, r, n)
  <1>1. Len(s.work) \in Nat /\ Len(r.work) \in Nat
    BY DEF WorkStates
  <1>2. CASE r.pool = s.pool /\ r.work = s.work
    BY <1>2 DEF Settled
  <1>3. ASSUME NEW u \in Txs, r.pool.tx = s.pool.tx \cup {u},
               Len(r.work) = Len(s.work) + 1, r.work[Len(r.work)] = u,
               \A i \in 1 .. Len(s.work) : r.work[i] = s.work[i]
        PROVE  Settled(t, r, n)
    <2>1. CASE t \in s.erase \/ mapOrphanTransactions[t] \in s.bad
      BY <2>1 DEF Settled
    <2>2. ASSUME NEW o \in Prevouts(t), ~HaveCoins(s.pool, UtxoOf[tip], o[1]) PROVE Settled(t, r, n)
      <3>1. CASE o[1] = u
        <4>1. DependsOn(t, r.work[Len(r.work)])
          BY <1>3, <3>1 DEF DependsOn
        <4>2. Len(r.work) \in n + 1 .. Len(r.work)
          BY <1>1, <1>3
        <4> QED BY <4>1, <4>2 DEF Settled
      <3>2. CASE o[1] /= u
        <4>1. ~HaveCoins(r.pool, UtxoOf[tip], o[1])
          BY <1>3, <2>2, <3>2 DEF HaveCoins
        <4> QED BY <4>1 DEF Settled
      <3> QED BY <3>1, <3>2
    <2>3. ASSUME NEW j \in n + 1 .. Len(s.work), DependsOn(t, s.work[j]) PROVE Settled(t, r, n)
      <3>1. j \in n + 1 .. Len(r.work) /\ j \in 1 .. Len(s.work)
        BY <1>1, <1>3
      <3>2. r.work[j] = s.work[j]
        BY <1>3, <3>1
      <3> QED BY <2>3, <3>1, <3>2 DEF Settled
    <2> QED BY <2>1, <2>2, <2>3 DEF Settled
  <1> QED BY <1>2, <1>3

\* The index of the orphans finds those that depend on a transaction.
OrphanIndex ==
    /\ mapOrphanTransactions \in [Txs -> Peers \cup {None}]
    /\ mapOrphanTransactionsByPrev = UNION {{<<out[1], t>> : out \in Prevouts(t)} : t \in Orphans}

LEMMA FoundByPrev ==
    ASSUME OrphanIndex, NEW u, NEW t
    PROVE  <<u, t>> \in mapOrphanTransactionsByPrev <=> t \in Orphans /\ DependsOn(t, u)
  BY DEF OrphanIndex, DependsOn

\* One orphan.
LEMMA ResolvingStep ==
    ASSUME OrphanIndex, tip \in Blocks, vWorkQueue \in Seq(Txs), pos \in DOMAIN vWorkQueue,
           NEW s, NEW k \in 1 .. Len(ByHash), Resolving(s, k - 1)
    PROVE  Resolving(Turn(s, vWorkQueue[pos], ByHash[k]), k)
  <1> DEFINE t == ByHash[k]
             u == vWorkQueue[pos]
             r == Turn(s, u, t)
             due(w, m) == IF DependsOn(w, u) THEN \E i \in 1 .. m : ByHash[i] = w
                          ELSE \E i \in 1 .. pos - 1 : DependsOn(w, vWorkQueue[i])
  <1>1. /\ s \in WorkStates /\ s.bad \subseteq Peers
        /\ Indexed(s.pool) /\ Backed(s.pool, UtxoOf[tip], Height[tip] + 1)
        /\ pos <= Len(s.work) /\ s.work[pos] = u /\ \A i \in 1 .. pos : s.work[i] = vWorkQueue[i]
        /\ QueueRight(s)
        /\ \A w \in Orphans : due(w, k - 1) => Settled(w, s, pos)
    BY DEF Resolving
  <1>2. /\ t \in Txs /\ k \in Nat /\ k >= 1 /\ pos \in Nat /\ pos >= 1
        /\ Len(s.work) \in Nat /\ DOMAIN s.work = 1 .. Len(s.work)
        /\ Len(vWorkQueue) \in Nat /\ DOMAIN vWorkQueue = 1 .. Len(vWorkQueue)
    BY <1>1, Hashes DEF WorkStates
  <1>3. \A w : due(w, k) => w = t \/ due(w, k - 1)
    <2>1. \A i \in 1 .. k : i = k \/ i \in 1 .. k - 1
      BY <1>2
    <2> QED BY <2>1
  <1>4. ASSUME NEW w \in Orphans, w /= t, due(w, k) PROVE Settled(w, s, pos)
    BY <1>1, <1>3, <1>4
  <1>5. Orphans \subseteq Txs
    BY DEF Orphans
  <1> DEFINE goal == /\ r \in WorkStates /\ r.bad \subseteq Peers
                     /\ Indexed(r.pool) /\ Backed(r.pool, UtxoOf[tip], Height[tip] + 1)
                     /\ pos <= Len(r.work) /\ r.work[pos] = u
                     /\ \A i \in 1 .. pos : r.work[i] = vWorkQueue[i]
                     /\ QueueRight(r)
                     /\ \A w \in Orphans : due(w, k) => Settled(w, r, pos)
  <1> SUFFICES goal
    BY DEF Resolving
  <1>6. CASE <<u, t>> \notin mapOrphanTransactionsByPrev
    <2>1. r = s
      BY <1>6 DEF Turn
    <2>2. ASSUME NEW w \in Orphans, due(w, k) PROVE Settled(w, s, pos)
      <3>1. CASE w /= t
        BY <1>4, <2>2, <3>1
      <3>2. CASE w = t
        <4>1. ~DependsOn(t, u)
          BY <1>6, <2>2, <3>2, FoundByPrev
        <4>2. due(t, k - 1)
          BY <2>2, <3>2, <4>1
        <4> QED BY <1>1, <2>2, <3>2, <4>2
      <3> QED BY <3>1, <3>2
    <2> HIDE DEF r, t, u, due
    <2> QED BY <1>1, <2>1, <2>2 DEF goal
  <1>7. CASE <<u, t>> \in mapOrphanTransactionsByPrev
    <2>1. t \in Orphans /\ DependsOn(t, u)
      BY <1>7, FoundByPrev
    <2>2. mapOrphanTransactions[t] \in Peers \cup {None} /\ mapOrphanTransactions[t] /= None
      BY <2>1 DEF Orphans, OrphanIndex
    <2>3. r = Reconsider(s, t)
      BY <1>7 DEF Turn
    <2> DEFINE v == AcceptNow(s.pool, t)
               peer == mapOrphanTransactions[t]
    <2>4. /\ r \in WorkStates
          /\ peer \in s.bad => r = s
          /\ peer \notin s.bad =>
                /\ r.pool = IF v = "accepted" THEN addUnchecked(s.pool, t) ELSE s.pool
                /\ r.work = IF v = "accepted" THEN Append(s.work, t) ELSE s.work
                /\ r.erase = IF v = "missing" THEN s.erase ELSE s.erase \cup {t}
                /\ r.bad = IF v = "dos" THEN s.bad \cup {peer} ELSE s.bad
      <3> HIDE DEF t, r, u
      <3> QED BY <1>1, <1>2, <2>2, <2>3, Reconsidered
    <2> HIDE DEF t, u, r
    <2>5. CASE peer \in s.bad
      <3>1. r = s
        BY <2>4, <2>5
      <3>2. Settled(t, s, pos)
        BY <2>5 DEF Settled
      <3>3. \A w \in Orphans : due(w, k) => Settled(w, s, pos)
        BY <1>4, <3>2
      <3> HIDE DEF due
      <3> QED BY <1>1, <3>1, <3>3 DEF goal
    <2>6. CASE peer \notin s.bad /\ v = "accepted"
      <3>1. /\ r.pool = addUnchecked(s.pool, t) /\ r.work = Append(s.work, t)
            /\ r.erase = s.erase \cup {t} /\ r.bad = s.bad
        BY <2>4, <2>6
      <3>2. /\ Indexed(r.pool) /\ Backed(r.pool, UtxoOf[tip], Height[tip] + 1) /\ QueueRight(r)
            /\ r.pool.tx = s.pool.tx \cup {t}
            /\ Len(r.work) = Len(s.work) + 1 /\ r.work[Len(r.work)] = t
            /\ \A i \in 1 .. Len(s.work) : r.work[i] = s.work[i]
        <4>1. r.erase \subseteq s.erase \cup {t}
          BY <3>1
        <4> QED BY SMTT(30), <1>1, <1>2, <2>4, <2>6, <3>1, <4>1, QueueGrows
      <3>3. ASSUME NEW w \in Orphans, due(w, k) PROVE Settled(w, r, pos)
        <4>1. CASE w = t
          BY <3>1, <4>1 DEF Settled
        <4>2. CASE w /= t
          <5>1. Settled(w, s, pos) /\ w \in Txs
            BY <1>4, <1>5, <3>3, <4>2
          <5>2. s.erase \subseteq r.erase /\ s.bad \subseteq r.bad
            BY <3>1
          <5>3. \E x \in Txs : /\ r.pool.tx = s.pool.tx \cup {x}
                               /\ Len(r.work) = Len(s.work) + 1 /\ r.work[Len(r.work)] = x
                               /\ \A i \in 1 .. Len(s.work) : r.work[i] = s.work[i]
            BY <1>2, <3>2
          <5> HIDE DEF due
          <5> QED BY <1>1, <1>2, <2>4, <5>1, <5>2, <5>3, SettledKept
        <4> QED BY <4>1, <4>2
      <3>4. pos <= Len(r.work) /\ \A i \in 1 .. pos : i \in 1 .. Len(s.work)
        BY <1>1, <1>2, <3>2
      <3>5. r.work[pos] = u /\ \A i \in 1 .. pos : r.work[i] = vWorkQueue[i]
        BY <1>1, <1>2, <3>2, <3>4
      <3> HIDE DEF due
      <3> QED BY <1>1, <2>4, <3>1, <3>2, <3>3, <3>4, <3>5 DEF goal
    <2>7. CASE peer \notin s.bad /\ v /= "accepted"
      <3>1. /\ r.pool = s.pool /\ r.work = s.work
            /\ r.erase = IF v = "missing" THEN s.erase ELSE s.erase \cup {t}
            /\ r.bad = IF v = "dos" THEN s.bad \cup {peer} ELSE s.bad
        BY <2>4, <2>7
      <3>2. s.erase \subseteq r.erase /\ s.bad \subseteq r.bad /\ r.bad \subseteq Peers
            /\ r.erase \subseteq s.erase \cup {t}
        BY <1>1, <2>2, <3>1
      <3>3. QueueRight(r)
        <4>1. Queued(r) = Queued(s)
          BY <3>1 DEF Queued
        <4>2. u \in Queued(s)
          BY <1>1, <1>2 DEF Queued
        <4>3. t \in s.pool.tx => t \in Queued(s)
          BY <1>1, <2>1, <4>2 DEF QueueRight
        <4>4. r.erase \cap r.pool.tx \subseteq Queued(r)
          BY <1>1, <3>1, <3>2, <4>1, <4>3 DEF QueueRight
        <4> QED BY <1>1, <3>1, <4>1, <4>4 DEF QueueRight
      <3>4. Settled(t, r, pos)
        <4>1. CASE v = "missing"
          <5>1. \E o \in Prevouts(t) : ~HaveCoins(s.pool, UtxoOf[tip], o[1])
            BY <4>1 DEF AcceptNow, Accept
          <5> QED BY <3>1, <5>1 DEF Settled
        <4>2. CASE v /= "missing"
          BY <3>1, <4>2 DEF Settled
        <4> QED BY <4>1, <4>2
      <3>5. ASSUME NEW w \in Orphans, due(w, k) PROVE Settled(w, r, pos)
        <4>1. CASE w /= t
          <5>1. Settled(w, s, pos) /\ w \in Txs
            BY <1>4, <1>5, <3>5, <4>1
          <5> HIDE DEF due
          <5> QED BY <1>1, <1>2, <2>4, <3>1, <3>2, <5>1, SettledKept
        <4> QED BY <3>4, <4>1
      <3> HIDE DEF due
      <3> QED BY <1>1, <2>4, <3>1, <3>2, <3>3, <3>5 DEF goal
    <2> HIDE DEF goal
    <2> QED BY <2>5, <2>6, <2>7
  <1> HIDE DEF goal
  <1> QED BY <1>6, <1>7

-----------------------------------------------------------------------------
(* The inductive invariant.                                                *)

Inv ==
    /\ TypeOK /\ OrphansIndexed
    /\ Indexed(Pool) /\ Backed(Pool, UtxoOf[tip], Height[tip] + 1)
    /\ HandlerRight

LEMMA FiniteTxs == IsFiniteSet(Txs)
  <1>1. IsFiniteSet(1 .. Len(ByHash))
    BY FS_Interval, Hashes
  <1>2. Txs = {ByHash[i] : i \in 1 .. Len(ByHash)}
    BY Hashes
  <1> DEFINE f == [i \in 1 .. Len(ByHash) |-> ByHash[i]]
  <1>3. f \in Surjection(1 .. Len(ByHash), Txs)
    BY <1>2, Hashes DEF Surjection
  <1> HIDE DEF f
  <1> QED BY <1>1, <1>3, FS_Surjection

LEMMA BecomesPool ==
    ASSUME NEW p \in AnyPools, PoolBecomes(p)
    PROVE  Pool' = p
  BY DEF PoolBecomes, Pool, AnyPools

LEMMA PoolTypedNext ==
    ASSUME NEW p, Indexed(p), PoolBecomes(p)
    PROVE  /\ Pool' = p /\ mapTx' \subseteq Txs /\ mapNextTx' \subseteq Outpoints \X Txs /\ totalTxSize' \in Nat
  <1>1. /\ p \in AnyPools /\ p.tx \subseteq Txs /\ p.next \subseteq Outpoints \X Txs /\ p.size = TotalSize(p.tx)
    BY DEF Indexed, AnyPools
  <1>2. p.size \in Nat
    BY <1>1, TotalSizeNat
  <1>3. Pool' = p
    BY <1>1, BecomesPool
  <1> QED BY <1>1, <1>2, <1>3 DEF PoolBecomes

\* Nothing is under way, and nothing is left to be done.
LEMMA IdleRight ==
    ASSUME TypeOK', vWorkQueue' = <<>>, vEraseQueue' = {}
    PROVE  HandlerRight'
  <1>1. Begin.work' = <<>> /\ Begin.erase' = {}
    BY DEF Begin
  <1>2. Queued(Begin)' = {}
    BY <1>1 DEF Queued
  <1>3. QueueRight(Begin)'
    BY <1>1, <1>2 DEF QueueRight
  <1>4. pos' - 1 = 0
    BY DEF TypeOK
  <1> QED BY <1>3, <1>4 DEF HandlerRight

LEMMA InitInv == Init => Inv
  <1> SUFFICES ASSUME Init PROVE Inv
    OBVIOUS
  <1>1. /\ tip = Genesis /\ mapTx = {} /\ mapNextTx = {} /\ totalTxSize = 0
        /\ mapOrphanTransactions = [t \in Txs |-> None] /\ mapOrphanTransactionsByPrev = {}
        /\ mapLockedInputs = [o \in Outpoints |-> None]
        /\ vWorkQueue = <<>> /\ pos = 1 /\ vEraseQueue = {} /\ setMisbehaving = {}
    BY DEF Init
  <1>2. TypeOK
    BY <1>1, LedgerAssumption DEF TypeOK
  <1>3. Orphans = {}
    BY <1>1 DEF Orphans
  <1>4. OrphansIndexed
    <2>1. mapOrphanTransactionsByPrev = UNION {{<<out[1], t>> : out \in Prevouts(t)} : t \in Orphans}
      BY <1>1, <1>3
    <2>2. Cardinality(Orphans) <= nMaxOrphanTx
      BY <1>3, FS_EmptySet, MempoolAssumption
    <2> QED BY <2>1, <2>2 DEF OrphansIndexed
  <1>5. Pool = [tx |-> {}, next |-> {}, size |-> 0]
    BY <1>1 DEF Pool
  <1>6. TotalSize({}) = 0
    <2>1. TotalSize({}) \in Nat /\ TotalSize({} \cup {}) = TotalSize({}) + TotalSize({})
      BY TotalSizeNat, TotalSizeAdds
    <2>2. {} \cup {} = {}
      OBVIOUS
    <2>3. TotalSize({}) = TotalSize({}) + TotalSize({})
      BY ONLY <2>1, <2>2, Zenon
    <2>4. \A x \in Nat : x = x + x => x = 0
      OBVIOUS
    <2> QED BY <2>1, <2>3, <2>4
  <1>7. Indexed(Pool)
    <2>1. Pool \in AnyPools /\ Pool.tx = {} /\ Pool.next = {} /\ Pool.size = 0
      BY <1>5 DEF AnyPools
    <2>2. IndexOf(Pool.tx) = {} /\ TotalSize(Pool.tx) = 0
      BY <1>6, <2>1 DEF IndexOf
    <2> QED BY <2>1, <2>2 DEF Indexed, SpentOnce
  <1>8. Backed(Pool, UtxoOf[tip], Height[tip] + 1)
    BY <1>5 DEF Backed
  <1>9. HandlerRight
    <2>1. Begin.work = <<>> /\ Begin.erase = {}
      BY <1>1 DEF Begin
    <2>2. Queued(Begin) = {}
      BY <2>1 DEF Queued
    <2>3. QueueRight(Begin)
      BY <2>1, <2>2 DEF QueueRight
    <2> QED BY <1>1, <1>3, <2>3 DEF HandlerRight
  <1> QED BY <1>2, <1>4, <1>7, <1>8, <1>9 DEF Inv

LEMMA AcceptTxInv == ASSUME Inv, NEW t \in Txs, AcceptTx(t) PROVE Inv'
  <1> DEFINE q == addUnchecked(Pool, t)
             s == [pool |-> Pool, work |-> <<>>, erase |-> {}, bad |-> {}]
  <1>1. /\ TypeOK /\ OrphansIndexed /\ Indexed(Pool) /\ Backed(Pool, UtxoOf[tip], Height[tip] + 1)
    BY DEF Inv
  <1>2. /\ AcceptNow(Pool, t) = "accepted" /\ PoolBecomes(q)
        /\ vWorkQueue' = <<t>> /\ pos' = 1 /\ vEraseQueue' = {} /\ setMisbehaving' = {}
        /\ tip' = tip /\ mapOrphanTransactions' = mapOrphanTransactions
        /\ mapOrphanTransactionsByPrev' = mapOrphanTransactionsByPrev /\ mapLockedInputs' = mapLockedInputs
    BY DEF AcceptTx, orphanVars
  <1>3. Indexed(q)
    BY <1>1, <1>2, AcceptedIndexed DEF AcceptNow
  <1>4. Pool' = q /\ mapTx' \subseteq Txs /\ mapNextTx' \subseteq Outpoints \X Txs /\ totalTxSize' \in Nat
    <2> HIDE DEF q
    <2> QED BY <1>2, <1>3, PoolTypedNext
  <1>5. s \in WorkStates /\ s.pool = Pool /\ QueueRight(s)
    <2>1. Pool \in AnyPools
      BY <1>1 DEF Indexed
    <2>2. s \in WorkStates
      BY <2>1 DEF WorkStates
    <2> QED BY <2>2 DEF QueueRight, Queued
  <1> DEFINE r == [pool |-> q, work |-> <<t>>, erase |-> {}, bad |-> {}]
  <1>6. /\ Begin' = r /\ r \in WorkStates /\ r.pool = addUnchecked(s.pool, t)
        /\ r.work = Append(s.work, t) /\ r.erase \subseteq s.erase \cup {t}
    <2>1. q \in AnyPools
      BY <1>3 DEF Indexed
    <2>2. <<t>> = Append(<<>>, t) /\ <<t>> \in Seq(Txs)
      OBVIOUS
    <2>3. Begin' = r
      BY <1>2, <1>4 DEF Begin
    <2> QED BY <2>1, <2>2, <2>3 DEF WorkStates
  <1>7. Indexed(Pool') /\ Backed(Pool', UtxoOf[tip], Height[tip] + 1) /\ QueueRight(Begin')
    <2>1. tip \in Blocks /\ AcceptNow(s.pool, t) = "accepted"
      BY <1>1, <1>2 DEF TypeOK
    <2>2. r.pool = Pool'
      BY <1>4
    <2>3. Indexed(s.pool) /\ Backed(s.pool, UtxoOf[tip], Height[tip] + 1)
      BY <1>1
    <2> HIDE DEF s, r
    <2>4. Indexed(r.pool) /\ Backed(r.pool, UtxoOf[tip], Height[tip] + 1) /\ QueueRight(r)
      BY <1>5, <1>6, <2>1, <2>3, QueueGrows
    <2> QED BY <1>6, <2>2, <2>4
  <1>8. TypeOK'
    BY <1>1, <1>2, <1>4 DEF TypeOK
  <1>9. HandlerRight'
    <2>1. \A i \in 1 .. pos' - 1 : FALSE
      BY <1>2
    <2>2. ~Idle'
      BY <1>2 DEF Idle
    <2> QED BY <1>7, <2>1, <2>2 DEF HandlerRight
  <1>10. OrphansIndexed'
    BY <1>1, <1>2 DEF OrphansIndexed, Orphans
  <1> QED BY <1>2, <1>7, <1>8, <1>9, <1>10 DEF Inv

\* Erasing orphans with their index.
LEMMA ErasedIndexed ==
    ASSUME TypeOK, OrphansIndexed, NEW S, Erased(S)
    PROVE  /\ mapOrphanTransactions' \in [Txs -> Peers \cup {None}]
           /\ mapOrphanTransactionsByPrev' \subseteq Txs \X Txs
           /\ OrphansIndexed'
  <1>1. /\ mapOrphanTransactions \in [Txs -> Peers \cup {None}]
        /\ mapOrphanTransactionsByPrev \subseteq Txs \X Txs
        /\ mapOrphanTransactionsByPrev = UNION {{<<out[1], t>> : out \in Prevouts(t)} : t \in Orphans}
        /\ Cardinality(Orphans) <= nMaxOrphanTx
    BY DEF TypeOK, OrphansIndexed
  <1>2. /\ mapOrphanTransactions' = [t \in Txs |-> IF t \in S THEN None ELSE mapOrphanTransactions[t]]
        /\ mapOrphanTransactionsByPrev' = Unindexed(S)
    BY DEF Erased
  <1>3. mapOrphanTransactions' \in [Txs -> Peers \cup {None}]
    BY <1>1, <1>2
  <1>4. Orphans' = Orphans \ S
    BY <1>2 DEF Orphans
  <1>5. \A e : e \in mapOrphanTransactionsByPrev <=>
                 \E t \in Orphans : \E o \in Prevouts(t) : e = <<o[1], t>>
    BY <1>1
  <1>6. \A e : e \in mapOrphanTransactionsByPrev' <=>
                 \E t \in Orphans' : \E o \in Prevouts(t) : e = <<o[1], t>>
    <2> SUFFICES ASSUME NEW e
                 PROVE  e \in Unindexed(S) <=> \E t \in Orphans \ S : \E o \in Prevouts(t) : e = <<o[1], t>>
      BY <1>2, <1>4
    <2>1. ASSUME e \in Unindexed(S) PROVE \E t \in Orphans \ S : \E o \in Prevouts(t) : e = <<o[1], t>>
      <3>1. e \in mapOrphanTransactionsByPrev /\ ~(e[2] \in S /\ \E o \in Prevouts(e[2]) : o[1] = e[1])
        BY <2>1 DEF Unindexed
      <3>2. PICK t \in Orphans : \E o \in Prevouts(t) : e = <<o[1], t>>
        BY <1>5, <3>1
      <3>3. e[2] = t /\ \E o \in Prevouts(t) : o[1] = e[1]
        BY <3>2
      <3> QED BY <3>1, <3>2, <3>3
    <2>2. ASSUME NEW t \in Orphans \ S, NEW o \in Prevouts(t), e = <<o[1], t>> PROVE e \in Unindexed(S)
      <3>1. e \in mapOrphanTransactionsByPrev
        BY <1>5, <2>2
      <3>2. e[2] = t
        BY <2>2
      <3> QED BY <3>1, <3>2 DEF Unindexed
    <2> QED BY <2>1, <2>2
  <1>7. mapOrphanTransactionsByPrev' = UNION {{<<out[1], t>> : out \in Prevouts(t)} : t \in Orphans'}
    <2> DEFINE X == UNION {{<<out[1], t>> : out \in Prevouts(t)} : t \in Orphans'}
    <2>1. \A e : e \in X <=> \E t \in Orphans' : \E o \in Prevouts(t) : e = <<o[1], t>>
      OBVIOUS
    <2> HIDE DEF X
    <2>2. mapOrphanTransactionsByPrev' = X
      BY <1>6, <2>1
    <2> QED BY <2>2 DEF X
  <1>8. Cardinality(Orphans') <= nMaxOrphanTx
    <2>1. Orphans \subseteq Txs /\ Orphans' \subseteq Orphans
      BY <1>4 DEF Orphans
    <2>2. IsFiniteSet(Orphans)
      BY <2>1, FiniteTxs, FS_Subset
    <2>3. Cardinality(Orphans') <= Cardinality(Orphans) /\ Cardinality(Orphans') \in Nat /\ Cardinality(Orphans) \in Nat
      BY <2>1, <2>2, FS_Subset, FS_CardinalityType
    <2> QED BY <1>1, <2>3, MempoolAssumption
  <1>9. mapOrphanTransactionsByPrev' \subseteq Txs \X Txs
    BY <1>1, <1>2 DEF Unindexed
  <1> QED BY <1>3, <1>7, <1>8, <1>9 DEF OrphansIndexed

LEMMA FinishTxInv == ASSUME Inv, FinishTx PROVE Inv'
  <1>1. /\ TypeOK /\ OrphansIndexed /\ Indexed(Pool) /\ Backed(Pool, UtxoOf[tip], Height[tip] + 1)
    BY DEF Inv
  <1>2. /\ Erased(vEraseQueue) /\ vWorkQueue' = <<>> /\ pos' = 1 /\ vEraseQueue' = {} /\ setMisbehaving' = {}
        /\ tip' = tip /\ mapLockedInputs' = mapLockedInputs
        /\ mapTx' = mapTx /\ mapNextTx' = mapNextTx /\ totalTxSize' = totalTxSize
    BY DEF FinishTx, poolVars
  <1>3. /\ mapOrphanTransactions' \in [Txs -> Peers \cup {None}]
        /\ mapOrphanTransactionsByPrev' \subseteq Txs \X Txs /\ OrphansIndexed'
    BY <1>1, <1>2, ErasedIndexed
  <1>4. TypeOK'
    BY <1>1, <1>2, <1>3 DEF TypeOK
  <1>5. HandlerRight'
    BY <1>2, <1>4, IdleRight
  <1>6. Pool' = Pool
    BY <1>2 DEF Pool
  <1> QED BY <1>1, <1>2, <1>3, <1>4, <1>5, <1>6 DEF Inv

LEMMA EraseOrphansForInv == ASSUME Inv, NEW peer \in Peers, EraseOrphansFor(peer) PROVE Inv'
  <1> DEFINE S == {t \in Orphans : mapOrphanTransactions[t] = peer}
  <1>1. /\ TypeOK /\ OrphansIndexed /\ Indexed(Pool) /\ Backed(Pool, UtxoOf[tip], Height[tip] + 1)
        /\ HandlerRight
    BY DEF Inv
  <1>2. /\ Idle /\ Erased(S) /\ vWorkQueue' = vWorkQueue /\ pos' = pos /\ vEraseQueue' = vEraseQueue
        /\ setMisbehaving' = setMisbehaving /\ tip' = tip /\ mapLockedInputs' = mapLockedInputs
        /\ mapTx' = mapTx /\ mapNextTx' = mapNextTx /\ totalTxSize' = totalTxSize
    BY DEF EraseOrphansFor, poolVars, workVars
  <1> HIDE DEF S
  <1>3. /\ mapOrphanTransactions' \in [Txs -> Peers \cup {None}]
        /\ mapOrphanTransactionsByPrev' \subseteq Txs \X Txs /\ OrphansIndexed'
    BY <1>1, <1>2, ErasedIndexed
  <1>4. TypeOK'
    BY <1>1, <1>2, <1>3 DEF TypeOK
  <1>5. HandlerRight'
    <2>1. vWorkQueue' = <<>> /\ vEraseQueue' = {}
      BY <1>1, <1>2 DEF HandlerRight, Idle
    <2> QED BY <1>4, <2>1, IdleRight
  <1>6. Pool' = Pool
    BY <1>2 DEF Pool
  <1> QED BY <1>1, <1>2, <1>3, <1>4, <1>5, <1>6 DEF Inv

LEMMA OrphanTxInv == ASSUME Inv, NEW t \in Txs, NEW peer \in Peers, OrphanTx(t, peer) PROVE Inv'
  <1>1. /\ TypeOK /\ OrphansIndexed /\ Indexed(Pool) /\ Backed(Pool, UtxoOf[tip], Height[tip] + 1)
        /\ HandlerRight
    BY DEF Inv
  <1>2. PICK V \in Victims(Orphans \cup {t}) :
          /\ mapOrphanTransactions' = [u \in Txs |-> IF u \in V THEN None
                                                   ELSE IF u = t THEN peer
                                                   ELSE mapOrphanTransactions[u]]
          /\ mapOrphanTransactionsByPrev' =
                {e \in mapOrphanTransactionsByPrev \cup {<<o[1], t>> : o \in Prevouts(t)} : e[2] \notin V}
    BY DEF OrphanTx
  <1>3. /\ Idle /\ vWorkQueue' = vWorkQueue /\ pos' = pos /\ vEraseQueue' = vEraseQueue
        /\ setMisbehaving' = setMisbehaving /\ tip' = tip /\ mapLockedInputs' = mapLockedInputs
        /\ mapTx' = mapTx /\ mapNextTx' = mapNextTx /\ totalTxSize' = totalTxSize
    BY DEF OrphanTx, poolVars, workVars
  <1>4. /\ mapOrphanTransactions \in [Txs -> Peers \cup {None}]
        /\ mapOrphanTransactionsByPrev \subseteq Txs \X Txs
        /\ mapOrphanTransactionsByPrev = UNION {{<<out[1], u>> : out \in Prevouts(u)} : u \in Orphans}
    BY <1>1 DEF TypeOK, OrphansIndexed
  <1>5. mapOrphanTransactions' \in [Txs -> Peers \cup {None}]
    BY <1>2, <1>4
  <1>6. Orphans' = (Orphans \cup {t}) \ V
    BY <1>2, MempoolAssumption DEF Orphans
  <1>7. Cardinality(Orphans') <= nMaxOrphanTx
    BY <1>2, <1>6 DEF Victims
  <1>8. \A e : e \in mapOrphanTransactionsByPrev' <=>
                 \E u \in Orphans' : \E o \in Prevouts(u) : e = <<o[1], u>>
    <2> SUFFICES ASSUME NEW e
                 PROVE  e \in mapOrphanTransactionsByPrev' <=> \E u \in Orphans' : \E o \in Prevouts(u) : e = <<o[1], u>>
      OBVIOUS
    <2>1. e \in mapOrphanTransactionsByPrev' <=>
            /\ e \in mapOrphanTransactionsByPrev \/ \E o \in Prevouts(t) : e = <<o[1], t>>
            /\ e[2] \notin V
      BY <1>2
    <2>2. e \in mapOrphanTransactionsByPrev <=> \E u \in Orphans : \E o \in Prevouts(u) : e = <<o[1], u>>
      BY <1>4
    <2>3. \A u : \A o : e = <<o[1], u>> => e[2] = u
      OBVIOUS
    <2> QED BY <1>6, <2>1, <2>2, <2>3
  <1>9. mapOrphanTransactionsByPrev' = UNION {{<<out[1], u>> : out \in Prevouts(u)} : u \in Orphans'}
    <2> DEFINE X == UNION {{<<out[1], u>> : out \in Prevouts(u)} : u \in Orphans'}
    <2>1. \A e : e \in X <=> \E u \in Orphans' : \E o \in Prevouts(u) : e = <<o[1], u>>
      OBVIOUS
    <2> HIDE DEF X
    <2>2. mapOrphanTransactionsByPrev' = X
      BY <1>8, <2>1
    <2> QED BY <2>2 DEF X
  <1>10. OrphansIndexed'
    BY <1>7, <1>9 DEF OrphansIndexed
  <1>11. mapOrphanTransactionsByPrev' \subseteq Txs \X Txs
    <2>1. \A o \in Prevouts(t) : <<o[1], t>> \in Txs \X Txs
      BY InputsAre
    <2> QED BY <1>2, <1>4, <2>1
  <1>12. TypeOK'
    BY <1>1, <1>3, <1>5, <1>11 DEF TypeOK
  <1>13. HandlerRight'
    <2>1. vWorkQueue' = <<>> /\ vEraseQueue' = {}
      BY <1>1, <1>3 DEF HandlerRight, Idle
    <2> QED BY <1>12, <2>1, IdleRight
  <1>14. Pool' = Pool
    BY <1>3 DEF Pool
  <1> QED BY <1>1, <1>3, <1>10, <1>12, <1>13, <1>14 DEF Inv

LEMMA ResolveOrphansInv == ASSUME Inv, ResolveOrphans PROVE Inv'
  <1> DEFINE u == vWorkQueue[pos]
             n == Len(ByHash)
  <1>1. /\ TypeOK /\ OrphansIndexed /\ Indexed(Pool) /\ Backed(Pool, UtxoOf[tip], Height[tip] + 1)
        /\ HandlerRight
    BY DEF Inv
  <1>2. /\ pos \in DOMAIN vWorkQueue /\ PoolBecomes(ReconsiderAll(u).pool)
        /\ vWorkQueue' = ReconsiderAll(u).work /\ vEraseQueue' = ReconsiderAll(u).erase
        /\ setMisbehaving' = ReconsiderAll(u).bad /\ pos' = pos + 1
        /\ tip' = tip /\ mapOrphanTransactions' = mapOrphanTransactions
        /\ mapOrphanTransactionsByPrev' = mapOrphanTransactionsByPrev /\ mapLockedInputs' = mapLockedInputs
    BY DEF ResolveOrphans, orphanVars
  <1>3. OrphanIndex /\ tip \in Blocks /\ vWorkQueue \in Seq(Txs)
    BY <1>1 DEF TypeOK, OrphansIndexed, OrphanIndex
  <1>4. /\ Begin \in WorkStates /\ Begin.bad \subseteq Peers
        /\ Begin.pool = Pool /\ Begin.work = vWorkQueue
    <2>1. Pool \in AnyPools
      BY <1>1 DEF Indexed
    <2>2. /\ Begin = [pool |-> Pool, work |-> vWorkQueue, erase |-> vEraseQueue, bad |-> setMisbehaving]
          /\ vEraseQueue \in SUBSET Txs /\ setMisbehaving \subseteq Peers
      BY <1>1 DEF Begin, TypeOK
    <2> QED BY <1>3, <2>1, <2>2 DEF WorkStates
  <1>5. n \in Nat /\ Len(vWorkQueue) \in Nat /\ pos \in 1 .. Len(vWorkQueue)
    BY <1>2, <1>3, Hashes
  <1>6. PICK s : /\ s[0] = Begin /\ ReconsiderAll(u) = s[n]
                 /\ \A i \in 1 .. n : s[i] = Turn(s[i - 1], u, ByHash[i])
                 /\ \A i \in 0 .. n : s[i] \in WorkStates
    BY <1>3, <1>4, ReconsiderLoop DEF OrphanIndex
  <1> DEFINE G == {i \in 0 .. n : Resolving(s[i], i)}
  <1>7. 0 \in G
    <2>1. ASSUME NEW t \in Orphans,
                 IF DependsOn(t, u) THEN \E m \in 1 .. 0 : ByHash[m] = t
                 ELSE \E i \in 1 .. pos - 1 : DependsOn(t, vWorkQueue[i])
          PROVE  Settled(t, Begin, pos)
      <3>1. PICK i \in 1 .. pos - 1 : DependsOn(t, vWorkQueue[i])
        BY <2>1
      <3>2. ~DependsOn(t, u)
        BY <2>1
      <3>3. Settled(t, Begin, pos - 1)
        BY <1>1, <3>1 DEF HandlerRight
      <3>4. \A j \in pos - 1 + 1 .. Len(vWorkQueue) : j = pos \/ j \in pos + 1 .. Len(vWorkQueue)
        BY <1>5
      <3> QED BY <1>4, <3>2, <3>3, <3>4 DEF Settled
    <2>2. QueueRight(Begin)
      BY <1>1 DEF HandlerRight
    <2>3. Resolving(Begin, 0)
      BY <1>1, <1>4, <1>5, <2>1, <2>2 DEF Resolving
    <2> QED BY <1>5, <1>6, <2>3
  <1>8. ASSUME NEW i \in 1 .. n, i - 1 \in G PROVE i \in G
    <2>1. Resolving(s[i - 1], i - 1)
      BY <1>8
    <2>2. Resolving(s[i], i)
      BY <1>2, <1>3, <1>6, <2>1, ResolvingStep
    <2> QED BY <1>5, <2>2
  <1>9. Resolving(s[n], n)
    <2>1. 0 .. n \subseteq G
      <3> HIDE DEF G, n
      <3> QED BY <1>5, <1>7, <1>8, EveryTurn
    <2> QED BY <1>5, <2>1
  <1> DEFINE r == s[n]
  <1>10. /\ r \in WorkStates /\ r.bad \subseteq Peers
         /\ Indexed(r.pool) /\ Backed(r.pool, UtxoOf[tip], Height[tip] + 1)
         /\ pos <= Len(r.work) /\ \A i \in 1 .. pos : r.work[i] = vWorkQueue[i]
         /\ QueueRight(r)
    BY <1>9 DEF Resolving
  <1>11. /\ PoolBecomes(r.pool) /\ vWorkQueue' = r.work /\ vEraseQueue' = r.erase /\ setMisbehaving' = r.bad
    BY <1>2, <1>6
  <1> HIDE DEF r
  <1>12. Pool' = r.pool /\ mapTx' \subseteq Txs /\ mapNextTx' \subseteq Outpoints \X Txs /\ totalTxSize' \in Nat
    BY <1>10, <1>11, PoolTypedNext
  <1>13. Begin' = r
    <2>1. Begin' = [pool |-> r.pool, work |-> r.work, erase |-> r.erase, bad |-> r.bad]
      BY <1>11, <1>12 DEF Begin
    <2> QED BY <1>10, <2>1 DEF WorkStates
  <1>14. /\ r.work \in Seq(Txs) /\ r.erase \subseteq Txs /\ Len(r.work) \in Nat
    BY <1>10 DEF WorkStates
  <1>15. TypeOK'
    <2>1. pos' \in 1 .. Len(vWorkQueue') + 1
      BY <1>2, <1>5, <1>10, <1>11, <1>14
    <2> QED BY <1>1, <1>2, <1>10, <1>11, <1>12, <1>14, <2>1 DEF TypeOK
  <1>16. OrphansIndexed'
    BY <1>1, <1>2 DEF OrphansIndexed, Orphans
  <1>17. HandlerRight'
    <2>1. ~Idle'
      <3>1. Len(r.work) /= 0
        BY <1>5, <1>10, <1>14
      <3> QED BY <1>11, <3>1 DEF Idle
    <2>2. QueueRight(Begin')
      BY <1>10, <1>13
    <2>3. ASSUME NEW t \in Orphans, NEW i \in 1 .. pos, DependsOn(t, r.work[i]) PROVE Settled(t, r, pos)
      <3>1. DependsOn(t, vWorkQueue[i]) /\ t \in Txs
        BY <1>10, <2>3 DEF Orphans
      <3>2. i = pos \/ i \in 1 .. pos - 1
        BY <1>5
      <3>3. \E m \in 1 .. n : ByHash[m] = t
        BY <3>1, Hashes
      <3>4. IF DependsOn(t, u) THEN \E m \in 1 .. n : ByHash[m] = t
            ELSE \E j \in 1 .. pos - 1 : DependsOn(t, vWorkQueue[j])
        BY <3>1, <3>2, <3>3
      <3> QED BY <1>9, <3>4 DEF Resolving, r
    <2>4. \A t \in Orphans' : \A i \in 1 .. pos' - 1 : DependsOn(t, vWorkQueue'[i]) => Settled(t, Begin, pos - 1)'
      <3>1. Orphans' = Orphans /\ pos' - 1 = pos
        BY <1>2, <1>5 DEF Orphans
      <3>2. \A t : Settled(t, r, pos) => Settled(t, Begin, pos - 1)'
        BY <1>2, <1>13, <3>1 DEF Settled, HaveCoins
      <3> QED BY <1>11, <2>3, <3>1, <3>2
    <2> QED BY <2>1, <2>2, <2>4 DEF HandlerRight
  <1> QED BY <1>2, <1>10, <1>12, <1>15, <1>16, <1>17 DEF Inv

LEMMA ConnectTipInv == ASSUME Inv, NEW b \in Blocks, ConnectTip(b) PROVE Inv'
  <1> DEFINE q == removeForBlock(Pool, b)
  <1>1. /\ TypeOK /\ OrphansIndexed /\ Indexed(Pool) /\ Backed(Pool, UtxoOf[tip], Height[tip] + 1)
        /\ HandlerRight
    BY DEF Inv
  <1>2. /\ Idle /\ b /= Genesis /\ Parent[b] = tip /\ tip' = b /\ PoolBecomes(q)
        /\ vWorkQueue' = vWorkQueue /\ pos' = pos /\ vEraseQueue' = vEraseQueue
        /\ setMisbehaving' = setMisbehaving /\ mapLockedInputs' = mapLockedInputs
        /\ mapOrphanTransactions' = mapOrphanTransactions
        /\ mapOrphanTransactionsByPrev' = mapOrphanTransactionsByPrev
    BY DEF ConnectTip, orphanVars, workVars
  <1> HIDE DEF q
  <1>3. Backed(Pool, UtxoOf[Parent[b]], Height[b])
    BY <1>1, <1>2, Heights
  <1>4. Indexed(q) /\ Backed(q, UtxoOf[b], Height[b] + 1)
    BY <1>1, <1>2, <1>3, ConnectedPool DEF q
  <1>5. Pool' = q /\ mapTx' \subseteq Txs /\ mapNextTx' \subseteq Outpoints \X Txs /\ totalTxSize' \in Nat
    BY <1>2, <1>4, PoolTypedNext
  <1>6. TypeOK'
    BY <1>1, <1>2, <1>5 DEF TypeOK
  <1>7. HandlerRight'
    <2>1. vWorkQueue' = <<>> /\ vEraseQueue' = {}
      BY <1>1, <1>2 DEF HandlerRight, Idle
    <2> QED BY <1>6, <2>1, IdleRight
  <1>8. OrphansIndexed'
    BY <1>1, <1>2 DEF OrphansIndexed, Orphans
  <1> QED BY <1>2, <1>4, <1>5, <1>6, <1>7, <1>8 DEF Inv

LEMMA DisconnectTipInv == ASSUME Inv, DisconnectTip PROVE Inv'
  <1> DEFINE q == removeCoinbaseSpends(Resurrected(Pool, tip), UtxoOf[Parent[tip]], Height[tip])
  <1>1. /\ TypeOK /\ OrphansIndexed /\ Indexed(Pool) /\ Backed(Pool, UtxoOf[tip], Height[tip] + 1)
        /\ HandlerRight /\ tip \in Blocks
    BY DEF Inv, TypeOK
  <1>2. /\ Idle /\ tip /= Genesis /\ tip' = Parent[tip] /\ PoolBecomes(q)
        /\ vWorkQueue' = vWorkQueue /\ pos' = pos /\ vEraseQueue' = vEraseQueue
        /\ setMisbehaving' = setMisbehaving /\ mapLockedInputs' = mapLockedInputs
        /\ mapOrphanTransactions' = mapOrphanTransactions
        /\ mapOrphanTransactionsByPrev' = mapOrphanTransactionsByPrev
    BY DEF DisconnectTip, orphanVars, workVars
  <1> HIDE DEF q
  <1>3. Indexed(q) /\ Backed(q, UtxoOf[Parent[tip]], Height[tip])
    BY <1>1, <1>2, DisconnectedPool DEF q
  <1>4. Pool' = q /\ mapTx' \subseteq Txs /\ mapNextTx' \subseteq Outpoints \X Txs /\ totalTxSize' \in Nat
    BY <1>2, <1>3, PoolTypedNext
  <1>5. Parent[tip] \in Blocks /\ Height[Parent[tip]] + 1 = Height[tip]
    BY <1>1, <1>2, Heights, LedgerAssumption
  <1>6. TypeOK'
    BY <1>1, <1>2, <1>4, <1>5 DEF TypeOK
  <1>7. HandlerRight'
    <2>1. vWorkQueue' = <<>> /\ vEraseQueue' = {}
      BY <1>1, <1>2 DEF HandlerRight, Idle
    <2> QED BY <1>6, <2>1, IdleRight
  <1>8. OrphansIndexed'
    BY <1>1, <1>2 DEF OrphansIndexed, Orphans
  <1>9. Backed(Pool', UtxoOf[tip'], Height[tip'] + 1)
    BY <1>2, <1>3, <1>4, <1>5
  <1> QED BY <1>3, <1>4, <1>6, <1>7, <1>8, <1>9 DEF Inv

LEMMA LocksInv == ASSUME Inv, NEW t \in Lockable, LockInputs(t) \/ ReleaseInputs(t) PROVE Inv'
  <1>1. /\ TypeOK /\ OrphansIndexed /\ Indexed(Pool) /\ Backed(Pool, UtxoOf[tip], Height[tip] + 1)
        /\ HandlerRight
    BY DEF Inv
  <1>2. /\ tip' = tip /\ mapTx' = mapTx /\ mapNextTx' = mapNextTx /\ totalTxSize' = totalTxSize
        /\ vWorkQueue' = vWorkQueue /\ pos' = pos /\ vEraseQueue' = vEraseQueue
        /\ setMisbehaving' = setMisbehaving
        /\ mapOrphanTransactions' = mapOrphanTransactions
        /\ mapOrphanTransactionsByPrev' = mapOrphanTransactionsByPrev
    BY DEF LockInputs, ReleaseInputs, poolVars, orphanVars, workVars
  <1>3. mapLockedInputs' \in [Outpoints -> Txs \cup {None}]
    <2>1. t \in Txs /\ mapLockedInputs \in [Outpoints -> Txs \cup {None}]
      BY <1>1, MempoolAssumption DEF TypeOK
    <2> QED BY <2>1 DEF LockInputs, ReleaseInputs
  <1>4. TypeOK'
    BY <1>1, <1>2, <1>3 DEF TypeOK
  <1>5. HandlerRight'
    <2>1. Orphans' = Orphans /\ Begin' = Begin /\ Idle' = Idle
      BY <1>2 DEF Orphans, Begin, Pool, Idle
    <2>2. QueueRight(Begin)' = QueueRight(Begin)
      BY <1>2, <2>1 DEF QueueRight, Queued, DependsOn
    <2>3. \A u, n : Settled(u, Begin, n)' = Settled(u, Begin, n)
      BY <1>2, <2>1 DEF Settled
    <2> QED BY <1>1, <1>2, <2>1, <2>2, <2>3 DEF HandlerRight
  <1>6. OrphansIndexed'
    BY <1>1, <1>2 DEF OrphansIndexed, Orphans
  <1>7. Pool' = Pool
    BY <1>2 DEF Pool
  <1> QED BY <1>1, <1>2, <1>4, <1>5, <1>6, <1>7 DEF Inv

LEMMA StutterInv == ASSUME Inv, UNCHANGED vars PROVE Inv'
  <1>1. /\ TypeOK /\ OrphansIndexed /\ Indexed(Pool) /\ Backed(Pool, UtxoOf[tip], Height[tip] + 1)
        /\ HandlerRight
    BY DEF Inv
  <1>2. /\ tip' = tip /\ mapTx' = mapTx /\ mapNextTx' = mapNextTx /\ totalTxSize' = totalTxSize
        /\ vWorkQueue' = vWorkQueue /\ pos' = pos /\ vEraseQueue' = vEraseQueue
        /\ setMisbehaving' = setMisbehaving /\ mapLockedInputs' = mapLockedInputs
        /\ mapOrphanTransactions' = mapOrphanTransactions
        /\ mapOrphanTransactionsByPrev' = mapOrphanTransactionsByPrev
    BY DEF vars, poolVars, orphanVars, workVars
  <1>3. Pool' = Pool /\ Begin' = Begin /\ Orphans' = Orphans /\ Idle' = Idle
    BY <1>2 DEF Pool, Begin, Orphans, Idle
  <1>4. TypeOK' /\ OrphansIndexed'
    BY <1>1, <1>2 DEF TypeOK, OrphansIndexed, Orphans
  <1>5. HandlerRight'
    <2>1. QueueRight(Begin')
      BY <1>1, <1>3 DEF HandlerRight
    <2>2. \A t : Settled(t, Begin, pos - 1) => Settled(t, Begin, pos - 1)'
      BY <1>2, <1>3 DEF Settled, HaveCoins
    <2> QED BY <1>1, <1>2, <1>3, <2>1, <2>2 DEF HandlerRight
  <1> QED BY <1>1, <1>2, <1>3, <1>4, <1>5 DEF Inv

LEMMA NextInv == ASSUME Inv, [Next]_vars PROVE Inv'
  <1>1. CASE UNCHANGED vars
    BY <1>1, StutterInv
  <1>2. ASSUME NEW t \in Txs, AcceptTx(t) \/ \E peer \in Peers : OrphanTx(t, peer) PROVE Inv'
    BY <1>2, AcceptTxInv, OrphanTxInv
  <1>3. CASE ResolveOrphans
    BY <1>3, ResolveOrphansInv
  <1>4. CASE FinishTx
    BY <1>4, FinishTxInv
  <1>5. ASSUME NEW peer \in Peers, EraseOrphansFor(peer) PROVE Inv'
    BY <1>5, EraseOrphansForInv
  <1>6. ASSUME NEW b \in Blocks, ConnectTip(b) PROVE Inv'
    BY <1>6, ConnectTipInv
  <1>7. CASE DisconnectTip
    BY <1>7, DisconnectTipInv
  <1>8. ASSUME NEW t \in Lockable, LockInputs(t) \/ ReleaseInputs(t) PROVE Inv'
    BY <1>8, LocksInv
  <1> QED BY <1>1, <1>2, <1>3, <1>4, <1>5, <1>6, <1>7, <1>8 DEF Next

\* The fields of the transactions, the indexes and the handler agree in every state.
THEOREM PoolInvariant == Spec => []Inv
  <1>1. Init => Inv
    BY InitInv
  <1>2. Inv /\ [Next]_vars => Inv'
    BY NextInv
  <1> QED BY <1>1, <1>2, PTL DEF Spec

\* CTxMemPool::check: whatever blocks were connected and disconnected, and whatever was
\* accepted in between, a pooled transaction only spends outputs of other pooled ones and
\* outputs of the chain that may be spent in the next block.
THEOREM PoolCanBeMined == Spec => []PoolSpendsAvailable
  <1>1. Inv => PoolSpendsAvailable
    BY DEF Inv, Backed, PoolSpendsAvailable, Pool
  <1> QED BY <1>1, PoolInvariant, PTL

\* When the handler of a "tx" message is done, no orphan that it could have taken up is
\* left: vWorkQueue is followed through all orphans that depend on what it added.
THEOREM OrphansTakenUp == Spec => []OrphansResolved
  <1>1. Inv => OrphansResolved
    <2> SUFFICES ASSUME Inv, ~Idle, pos > Len(vWorkQueue), NEW t \in Orphans, NEW o \in Prevouts(t),
                        o[1] \in {vWorkQueue[i] : i \in DOMAIN vWorkQueue} \cup (vEraseQueue \cap mapTx)
                 PROVE  \/ t \in vEraseQueue
                        \/ mapOrphanTransactions[t] \in setMisbehaving
                        \/ \E out \in Prevouts(t) : ~HaveCoins(Pool, UtxoOf[tip], out[1])
      BY DEF OrphansResolved
    <2>1. /\ Begin.work = vWorkQueue /\ Begin.erase = vEraseQueue /\ Begin.pool = Pool
          /\ Begin.bad = setMisbehaving /\ Pool.tx = mapTx
      BY DEF Begin, Pool
    <2>2. /\ vWorkQueue \in Seq(Txs) /\ pos = Len(vWorkQueue) + 1 /\ Len(vWorkQueue) \in Nat
          /\ DOMAIN vWorkQueue = 1 .. pos - 1
      BY DEF Inv, TypeOK
    <2>3. o[1] \in Queued(Begin)
      BY <2>1 DEF Inv, HandlerRight, QueueRight, Queued
    <2>4. PICK i \in 1 .. pos - 1 : DependsOn(t, vWorkQueue[i])
      BY <2>1, <2>2, <2>3 DEF Queued, DependsOn
    <2>5. Settled(t, Begin, pos - 1)
      BY <2>4 DEF Inv, HandlerRight
    <2>6. \A j \in pos - 1 + 1 .. Len(vWorkQueue) : FALSE
      BY <2>2
    <2> QED BY <2>1, <2>5, <2>6 DEF Settled
  <1> QED BY <1>1, PoolInvariant, PTL

-----------------------------------------------------------------------------
(* What the chain contains is not in the pool.                             *)

\* A coinbase starts with the height of its block (main.cpp:3526), so that no other block
\* of another height has it; and a block has it once.
CoinbasesDiffer ==
    \A b, c \in Blocks : \A i \in DOMAIN vtx[b], j \in DOMAIN vtx[c] :
       vtx[b][i] = vtx[c][j] /\ vtx[b][i] \in CoinBases => Height[b] = Height[c] /\ i = j

\* The transactions of the chain up to the parent of b and the first n of b.
TxsUpTo(b, n) == TxsOf[Parent[b]] \cup {vtx[b][i] : i \in 1 .. n}

LEMMA TxsOfChain ==
    /\ TxsOf \in [Blocks -> SUBSET Txs] /\ TxsOf[Genesis] = {}
    /\ \A b \in Blocks \ {Genesis} : TxsOf[b] = TxsUpTo(b, Len(vtx[b]))
  <1> DEFINE own(b) == {vtx[b][i] : i \in DOMAIN vtx[b]}
             F == [b \in Blocks |-> [T \in SUBSET Txs |-> T \cup own(b)]]
  <1>0. \A b \in Blocks : own(b) \in SUBSET Txs /\ own(b) = {vtx[b][i] : i \in 1 .. Len(vtx[b])}
    BY BlockTxs
  <1> HIDE DEF own
  <1>1. F \in [Blocks -> [SUBSET Txs -> SUBSET Txs]]
    BY <1>0
  <1>2. \A b \in Blocks : \A T \in SUBSET Txs : F[b][T] = T \cup own(b)
    OBVIOUS
  <1> HIDE DEF F
  <1>3. PICK f : Solves(f, Blocks, Genesis, Parent, SUBSET Txs, {}, F)
    BY <1>1, BlockTree, TreeRecursion
  <1>4. /\ f \in [Blocks -> SUBSET Txs] /\ f[Genesis] = {}
        /\ \A b \in Blocks \ {Genesis} : f[b] = F[b][f[Parent[b]]]
    BY <1>3 DEF Solves
  <1>5. Genesis \in Blocks /\ \A b \in Blocks \ {Genesis} : Parent[b] \in Blocks
    BY LedgerAssumption
  <1>6. f = [b \in Blocks |-> IF b = Genesis THEN {} ELSE f[Parent[b]] \cup own(b)]
    BY <1>2, <1>4, <1>5
  <1>7. TxsOf = [b \in Blocks |-> IF b = Genesis THEN {} ELSE TxsOf[Parent[b]] \cup own(b)]
    BY <1>6 DEF TxsOf, own
  <1> DEFINE G == {b \in Blocks : TxsOf[b] \in SUBSET Txs}
  <1>8. Genesis \in G /\ \A b \in Blocks \ {Genesis} : Parent[b] \in G => b \in G
    BY <1>0, <1>5, <1>7
  <1>9. Blocks \subseteq G
    <2> HIDE DEF G
    <2> QED BY <1>8, UpTheTree
  <1>10. TxsOf \in [Blocks -> SUBSET Txs]
    BY <1>7, <1>9
  <1>11. \A b \in Blocks \ {Genesis} : TxsOf[b] = TxsOf[Parent[b]] \cup own(b)
    BY <1>7
  <1> QED BY <1>0, <1>5, <1>7, <1>10, <1>11 DEF TxsUpTo

\* A chain whose transactions are T and whose unspent outputs are U: a transaction of it
\* spends outputs of others of it that no other spends, and what is unspent is an output
\* of the chain that no transaction of it spends, from one block for each transaction.
Sound(T, U) ==
    /\ T \subseteq Txs /\ U \subseteq Coins
    /\ \A t \in T : \A o \in Prevouts(t) : o[1] \in T
    /\ SpentOnce(T)
    /\ \A c \in U : c.tx \in T /\ \A t \in T : <<c.tx, c.n>> \notin Prevouts(t)
    /\ \A c, d \in U : c.tx = d.tx => c.nHeight = d.nHeight

\* All transactions of the chain up to b are in blocks no higher than b.
Below(b) == \A t \in TxsOf[b] : \E c \in Blocks : \E i \in DOMAIN vtx[c] : t = vtx[c][i] /\ Height[c] <= Height[b]

\* What Applied does for one more transaction.
LEMMA AppliedOneMore ==
    ASSUME NEW U, NEW b \in Blocks, NEW n \in 1 .. Len(vtx[b]), NEW c \in Applied(U, b, n)
    PROVE  \/ c \in Applied(U, b, n - 1) /\ <<c.tx, c.n>> \notin Prevouts(vtx[b][n])
           \/ c \in Created(vtx[b][n], Height[b])
  <1>1. n \in Nat /\ n >= 1 /\ \A i \in 1 .. n : i = n \/ i \in 1 .. n - 1
    BY BlockTxs
  <1>2. ASSUME c \in NotSpent(U, b, 0, n)
        PROVE  c \in NotSpent(U, b, 0, n - 1) /\ <<c.tx, c.n>> \notin Prevouts(vtx[b][n])
    <2>1. c \in U /\ \A k \in 0 + 1 .. n : <<c.tx, c.n>> \notin Prevouts(vtx[b][k])
      BY <1>2 DEF NotSpent
    <2>2. n \in 0 + 1 .. n /\ \A k \in 0 + 1 .. n - 1 : k \in 0 + 1 .. n
      BY <1>1
    <2> QED BY <2>1, <2>2 DEF NotSpent
  <1>3. ASSUME NEW i \in 1 .. n - 1, c \in NotSpent(Created(vtx[b][i], Height[b]), b, i, n)
        PROVE  c \in NotSpent(Created(vtx[b][i], Height[b]), b, i, n - 1) /\ <<c.tx, c.n>> \notin Prevouts(vtx[b][n])
    <2>1. c \in Created(vtx[b][i], Height[b]) /\ \A k \in i + 1 .. n : <<c.tx, c.n>> \notin Prevouts(vtx[b][k])
      BY <1>3 DEF NotSpent
    <2>2. n \in i + 1 .. n /\ \A k \in i + 1 .. n - 1 : k \in i + 1 .. n
      BY <1>1
    <2> QED BY <2>1, <2>2 DEF NotSpent
  <1>4. c \in NotSpent(Created(vtx[b][n], Height[b]), b, n, n) => c \in Created(vtx[b][n], Height[b])
    BY DEF NotSpent
  <1>5. \/ c \in NotSpent(U, b, 0, n)
        \/ \E i \in 1 .. n : c \in NotSpent(Created(vtx[b][i], Height[b]), b, i, n)
    BY DEF Applied
  <1>6. CASE c \in NotSpent(U, b, 0, n)
    BY <1>2, <1>6 DEF Applied
  <1>7. ASSUME NEW i \in 1 .. n, c \in NotSpent(Created(vtx[b][i], Height[b]), b, i, n)
        PROVE  \/ c \in Applied(U, b, n - 1) /\ <<c.tx, c.n>> \notin Prevouts(vtx[b][n])
               \/ c \in Created(vtx[b][n], Height[b])
    <2>1. CASE i = n
      BY <1>4, <1>7, <2>1
    <2>2. CASE i \in 1 .. n - 1
      BY <1>3, <1>7, <2>2 DEF Applied
    <2> QED BY <1>1, <2>1, <2>2
  <1> QED BY <1>5, <1>6, <1>7

\* A transaction of a block that can be connected is new, and spends what came before it.
LEMMA FreshInBlock ==
    ASSUME CoinbasesDiffer, NEW b \in Blocks \ {Genesis}, Connectable(b), Below(Parent[b]),
           NEW n \in 1 .. Len(vtx[b]), Sound(TxsUpTo(b, n - 1), Applied(UtxoOf[Parent[b]], b, n - 1))
    PROVE  /\ vtx[b][n] \in Txs \ TxsUpTo(b, n - 1)
           /\ \A o \in Prevouts(vtx[b][n]) :
                 /\ \E c \in Applied(UtxoOf[Parent[b]], b, n - 1) : <<c.tx, c.n>> = o
                 /\ o[1] \in TxsUpTo(b, n - 1) /\ o[2] \in DOMAIN vout[o[1]]
           /\ TxsUpTo(b, n) = TxsUpTo(b, n - 1) \cup {vtx[b][n]}
  <1> DEFINE t == vtx[b][n]
             T == TxsUpTo(b, n - 1)
             U == Applied(UtxoOf[Parent[b]], b, n - 1)
  <1>0. /\ n \in Nat /\ n >= 1 /\ Len(vtx[b]) \in Nat /\ DOMAIN vtx[b] = 1 .. Len(vtx[b]) /\ t \in Txs
        /\ Parent[b] \in Blocks /\ Height[Parent[b]] \in Nat /\ Height[b] = Height[Parent[b]] + 1
    BY BlockTxs, Heights, LedgerAssumption
  <1>1. TxsUpTo(b, n) = T \cup {t}
    <2>1. \A i \in 1 .. n : i = n \/ i \in 1 .. n - 1
      BY <1>0
    <2>2. n \in 1 .. n /\ \A i \in 1 .. n - 1 : i \in 1 .. n
      BY <1>0
    <2> QED BY <2>1, <2>2 DEF TxsUpTo
  <1>2. \A o \in Prevouts(t) : \E c \in U : <<c.tx, c.n>> = o
    BY <1>0 DEF Connectable
  <1>3. /\ U \subseteq Coins
        /\ \A c \in U : c.tx \in T /\ \A w \in T : <<c.tx, c.n>> \notin Prevouts(w)
    BY DEF Sound
  <1>4. t \notin T
    <2>1. CASE t \in CoinBases
      <3>1. ASSUME t \in TxsOf[Parent[b]] PROVE FALSE
        <4>1. PICK c \in Blocks : \E i \in DOMAIN vtx[c] : t = vtx[c][i] /\ Height[c] <= Height[Parent[b]]
          BY <3>1 DEF Below
        <4>2. Height[c] = Height[b]
          BY <1>0, <2>1, <4>1 DEF CoinbasesDiffer
        <4> QED BY <1>0, <4>1, <4>2
      <3>2. ASSUME NEW i \in 1 .. n - 1, t = vtx[b][i] PROVE FALSE
        <4>1. i \in DOMAIN vtx[b] /\ n \in DOMAIN vtx[b] /\ i /= n
          BY <1>0
        <4> QED BY <2>1, <3>2, <4>1 DEF CoinbasesDiffer
      <3> QED BY <3>1, <3>2 DEF TxsUpTo
    <2>2. CASE t \notin CoinBases
      <3>1. vin[t] /= <<>> /\ vin[t] \in Seq(Txs \X Nat)
        BY <1>0, <2>2, LedgerAssumption
      <3>2. 1 \in DOMAIN vin[t]
        BY <3>1
      <3>3. PICK o : o \in Prevouts(t)
        BY <3>2 DEF Prevouts
      <3> QED BY <1>2, <1>3, <3>3
    <2> QED BY <2>1, <2>2
  <1>5. ASSUME NEW o \in Prevouts(t) PROVE o[1] \in T /\ o[2] \in DOMAIN vout[o[1]]
    <2>1. PICK c \in U : <<c.tx, c.n>> = o
      BY <1>2
    <2>2. o[1] = c.tx /\ o[2] = c.n
      BY <2>1
    <2>3. c \in Coins /\ c.tx \in T
      BY <1>3
    <2> QED BY <2>2, <2>3, CoinsAre
  <1> HIDE DEF t, T, U
  <1>6. t \in Txs \ T
    BY <1>0, <1>4
  <1> QED BY <1>1, <1>2, <1>5, <1>6 DEF t, T, U

\* One transaction of a block that can be connected.
LEMMA SoundOneMore ==
    ASSUME CoinbasesDiffer, NEW b \in Blocks \ {Genesis}, Connectable(b), Below(Parent[b]),
           NEW n \in 1 .. Len(vtx[b]), Sound(TxsUpTo(b, n - 1), Applied(UtxoOf[Parent[b]], b, n - 1))
    PROVE  Sound(TxsUpTo(b, n), Applied(UtxoOf[Parent[b]], b, n))
  <1> DEFINE t == vtx[b][n]
             T == TxsUpTo(b, n - 1)
             U == Applied(UtxoOf[Parent[b]], b, n - 1)
             V == Applied(UtxoOf[Parent[b]], b, n)
  <1>1. /\ t \in Txs /\ t \notin T /\ TxsUpTo(b, n) = T \cup {t}
        /\ \A o \in Prevouts(t) : o[1] \in T /\ \E c \in U : <<c.tx, c.n>> = o
    BY FreshInBlock
  <1>2. /\ T \subseteq Txs /\ U \subseteq Coins /\ SpentOnce(T)
        /\ \A w \in T : \A o \in Prevouts(w) : o[1] \in T
        /\ \A c \in U : c.tx \in T /\ \A w \in T : <<c.tx, c.n>> \notin Prevouts(w)
        /\ \A c, d \in U : c.tx = d.tx => c.nHeight = d.nHeight
    BY DEF Sound
  <1>3. V \subseteq Coins
    <2>1. UtxoOf[Parent[b]] \in SUBSET Coins /\ n \in 0 .. Len(vtx[b])
      BY Utxos, BlockTxs, LedgerAssumption
    <2> QED BY <2>1, AppliedCoins
  <1>4. \A c \in V : (c \in U /\ <<c.tx, c.n>> \notin Prevouts(t)) \/ c \in Created(t, Height[b])
    BY AppliedOneMore
  <1> HIDE DEF t, T, U, V
  <1>5. \A c \in Created(t, Height[b]) : c.tx = t /\ c.nHeight = Height[b]
    BY DEF Created, Out
  <1>6. ASSUME NEW w \in T \cup {t}, NEW o \in Prevouts(w) PROVE o[1] \in T
    BY <1>1, <1>2
  <1>7. ASSUME NEW c \in V, NEW w \in T \cup {t}, <<c.tx, c.n>> \in Prevouts(w) PROVE FALSE
    <2>1. c.tx \in T
      <3>1. <<c.tx, c.n>>[1] = c.tx
        OBVIOUS
      <3> QED BY <1>6, <1>7, <3>1
    <2>2. c \in U /\ <<c.tx, c.n>> \notin Prevouts(t)
      BY <1>1, <1>4, <1>5, <2>1
    <2> QED BY <1>2, <1>7, <2>2
  <1>8. \A c \in V : c.tx \in T \cup {t}
    BY <1>2, <1>4, <1>5
  <1>9. SpentOnce(T \cup {t})
    <2>1. ASSUME NEW w \in T, NEW o \in Prevouts(w), o \in Prevouts(t) PROVE FALSE
      BY <1>1, <1>2, <2>1
    <2> QED BY <1>2, <2>1 DEF SpentOnce
  <1>10. ASSUME NEW c \in V, NEW d \in V, c.tx = d.tx PROVE c.nHeight = d.nHeight
    <2>1. CASE c.tx = t
      <3>1. c \notin U /\ d \notin U
        BY <1>1, <1>2, <1>10, <2>1
      <3> QED BY <1>4, <1>5, <3>1
    <2>2. CASE c.tx /= t
      <3>1. c \in U /\ d \in U
        BY <1>4, <1>5, <1>10, <2>2
      <3> QED BY <1>2, <1>10, <3>1
    <2> QED BY <2>1, <2>2
  <1> QED BY <1>1, <1>2, <1>3, <1>6, <1>7, <1>8, <1>9, <1>10 DEF Sound, V

LEMMA SoundPrefixes ==
    ASSUME CoinbasesDiffer, NEW b \in Blocks \ {Genesis}, Connectable(b), Below(Parent[b]),
           Sound(TxsOf[Parent[b]], UtxoOf[Parent[b]])
    PROVE  \A i \in 0 .. Len(vtx[b]) : Sound(TxsUpTo(b, i), Applied(UtxoOf[Parent[b]], b, i))
  <1> DEFINE n == Len(vtx[b])
             U == UtxoOf[Parent[b]]
             G == {i \in 0 .. n : Sound(TxsUpTo(b, i), Applied(U, b, i))}
  <1>0. n \in Nat
    BY BlockTxs
  <1>1. 0 \in G
    <2>1. \A i \in 1 .. 0 : FALSE
      OBVIOUS
    <2>2. TxsUpTo(b, 0) = TxsOf[Parent[b]]
      BY <2>1 DEF TxsUpTo
    <2>3. NotSpent(U, b, 0, 0) = U
      BY DEF NotSpent
    <2>4. Applied(U, b, 0) = U
      BY <2>1, <2>3 DEF Applied
    <2> QED BY <1>0, <2>2, <2>4
  <1>2. ASSUME NEW i \in 1 .. n, i - 1 \in G PROVE i \in G
    <2>1. Sound(TxsUpTo(b, i - 1), Applied(U, b, i - 1))
      BY <1>2
    <2>2. Sound(TxsUpTo(b, i), Applied(U, b, i))
      BY <2>1, SoundOneMore
    <2> QED BY <1>0, <2>2
  <1>3. 0 .. n \subseteq G
    <2> HIDE DEF G, n
    <2> QED BY <1>0, <1>1, <1>2, EveryTurn
  <1> QED BY <1>3

LEMMA SoundBlock ==
    ASSUME CoinbasesDiffer, NEW b \in Blocks \ {Genesis}, Connectable(b), Below(Parent[b]),
           Sound(TxsOf[Parent[b]], UtxoOf[Parent[b]])
    PROVE  Sound(TxsOf[b], UtxoOf[b]) /\ Below(b)
  <1> DEFINE n == Len(vtx[b])
             U == UtxoOf[Parent[b]]
  <1>3. Sound(TxsUpTo(b, n), Applied(U, b, n))
    <2>1. n \in 0 .. n
      BY BlockTxs
    <2> QED BY <2>1, SoundPrefixes
  <1>4. TxsOf[b] = TxsUpTo(b, n) /\ UtxoOf[b] = Applied(U, b, n)
    BY TxsOfChain, Utxos
  <1>5. Below(b)
    <2>1. /\ Parent[b] \in Blocks /\ Height[Parent[b]] \in Nat /\ Height[b] = Height[Parent[b]] + 1
          /\ \A c \in Blocks : Height[c] \in Nat
      BY Heights, LedgerAssumption
    <2> SUFFICES ASSUME NEW t \in TxsOf[b]
                 PROVE  \E c \in Blocks : \E i \in DOMAIN vtx[c] : t = vtx[c][i] /\ Height[c] <= Height[b]
      BY DEF Below
    <2>2. CASE t \in TxsOf[Parent[b]]
      <3>1. PICK c \in Blocks : \E i \in DOMAIN vtx[c] : t = vtx[c][i] /\ Height[c] <= Height[Parent[b]]
        BY <2>2 DEF Below
      <3>2. Height[c] <= Height[b]
        BY <2>1, <3>1
      <3> QED BY <3>1, <3>2
    <2>3. CASE t \notin TxsOf[Parent[b]]
      <3>1. PICK i \in 1 .. n : t = vtx[b][i]
        BY <1>4, <2>3 DEF TxsUpTo
      <3>2. i \in DOMAIN vtx[b] /\ Height[b] <= Height[b]
        BY <2>1, BlockTxs
      <3> QED BY <3>1, <3>2
    <2> QED BY <2>2, <2>3
  <1> QED BY <1>3, <1>4, <1>5

\* All blocks from the genesis block to b can be connected.
OnChain(b) == \E C \in SUBSET Blocks :
                 b \in C /\ \A a \in C \ {Genesis} : Connectable(a) /\ Parent[a] \in C

LEMMA ChainGrows ==
    /\ OnChain(Genesis)
    /\ \A b \in Blocks \ {Genesis} : OnChain(b) <=> Connectable(b) /\ OnChain(Parent[b])
  <1>1. OnChain(Genesis)
    <2>1. {Genesis} \in SUBSET Blocks
      BY LedgerAssumption
    <2> QED BY <2>1 DEF OnChain
  <1>2. ASSUME NEW b \in Blocks \ {Genesis}, OnChain(b) PROVE Connectable(b) /\ OnChain(Parent[b])
    BY <1>2 DEF OnChain
  <1>3. ASSUME NEW b \in Blocks \ {Genesis}, Connectable(b), OnChain(Parent[b]) PROVE OnChain(b)
    <2>1. PICK C \in SUBSET Blocks :
             Parent[b] \in C /\ \A a \in C \ {Genesis} : Connectable(a) /\ Parent[a] \in C
      BY <1>3 DEF OnChain
    <2> DEFINE D == C \cup {b}
    <2>2. D \in SUBSET Blocks /\ b \in D /\ \A a \in D \ {Genesis} : Connectable(a) /\ Parent[a] \in D
      BY <1>3, <2>1
    <2> HIDE DEF D
    <2> QED BY <2>2 DEF OnChain
  <1> QED BY <1>1, <1>2, <1>3

LEMMA SoundChain ==
    ASSUME CoinbasesDiffer, NEW b \in Blocks, OnChain(b)
    PROVE  Sound(TxsOf[b], UtxoOf[b]) /\ Below(b)
  <1> DEFINE G == {a \in Blocks : OnChain(a) => Sound(TxsOf[a], UtxoOf[a]) /\ Below(a)}
  <1>1. Genesis \in G
    <2>1. Genesis \in Blocks /\ TxsOf[Genesis] = {} /\ UtxoOf[Genesis] = {}
      BY TxsOfChain, Utxos, LedgerAssumption
    <2> QED BY <2>1 DEF Sound, Below, SpentOnce
  <1>2. ASSUME NEW a \in Blocks \ {Genesis}, Parent[a] \in G PROVE a \in G
    <2>1. ASSUME OnChain(a) PROVE Sound(TxsOf[a], UtxoOf[a]) /\ Below(a)
      <3>1. Connectable(a) /\ OnChain(Parent[a])
        BY <2>1, ChainGrows
      <3> QED BY <1>2, <3>1, SoundBlock
    <2> QED BY <2>1
  <1>3. Blocks \subseteq G
    <2> HIDE DEF G
    <2> QED BY <1>1, <1>2, UpTheTree
  <1> QED BY <1>3

\* A confirmed transaction is not accepted.
LEMMA AcceptedFresh ==
    ASSUME NEW T, NEW U, Sound(T, U), NEW p \in AnyPools, p.tx \cap T = {}, NEW t \in Txs, NEW h, NEW cheap,
           Accept(p, U, t, h, cheap) = "accepted"
    PROVE  t \notin T /\ addUnchecked(p, t).tx \cap T = {}
  <1>1. t \notin T
    <2> SUFFICES ASSUME t \in T PROVE FALSE
      OBVIOUS
    <2>1. vin[t] /= <<>> /\ vin[t] \in Seq(Txs \X Nat)
      BY AcceptedMeans, LedgerAssumption DEF Unacceptable
    <2>2. 1 \in DOMAIN vin[t]
      BY <2>1
    <2>3. PICK o : o \in Prevouts(t)
      BY <2>2 DEF Prevouts
    <2>4. o[1] \in T
      BY <2>3 DEF Sound
    <2>5. \E c \in U : <<c.tx, c.n>> = o
      BY <2>3, <2>4, InputThere
    <2> QED BY <2>3, <2>5 DEF Sound
  <1> QED BY <1>1, AddTyped

\* Returning a block to the pool only adds what the chain below it does not have.
LEMMA ResurrectedFresh ==
    ASSUME NEW p \in AnyPools, NEW b \in Blocks, NEW T, Sound(T, UtxoOf[Parent[b]]), p.tx \cap T = {}
    PROVE  Resurrected(p, b) \in AnyPools /\ Resurrected(p, b).tx \cap T = {}
  <1> DEFINE n == Len(vtx[b])
  <1>0. n \in Nat /\ \A i \in 1 .. n : vtx[b][i] \in Txs
    BY BlockTxs
  <1>1. PICK q : /\ q[0] = p /\ Resurrected(p, b) = q[n]
                 /\ \A i \in 1 .. n : q[i] = ReturnToPool(q[i - 1], b, vtx[b][i])
    BY ResurrectLoop
  <1> DEFINE G == {i \in 0 .. n : q[i] \in AnyPools /\ q[i].tx \cap T = {}}
  <1>2. 0 \in G
    BY <1>0, <1>1
  <1>3. ASSUME NEW i \in 1 .. n, i - 1 \in G PROVE i \in G
    <2> DEFINE r == q[i - 1]
               t == vtx[b][i]
    <2>1. r \in AnyPools /\ r.tx \cap T = {} /\ t \in Txs /\ q[i] = ReturnToPool(r, b, t)
      BY <1>0, <1>1, <1>3
    <2> HIDE DEF r, t
    <2>2. q[i] \in AnyPools
      BY <2>1, ReturnTyped
    <2>3. CASE Accept(r, UtxoOf[Parent[b]], t, Height[b], LowPriority) = "accepted"
      <3>1. q[i] = addUnchecked(r, t)
        BY <2>1, <2>3 DEF ReturnToPool
      <3>2. addUnchecked(r, t).tx \cap T = {}
        BY <2>1, <2>3, AcceptedFresh
      <3> QED BY <1>0, <2>2, <3>1, <3>2
    <2>4. CASE Accept(r, UtxoOf[Parent[b]], t, Height[b], LowPriority) /= "accepted"
      <3>1. q[i] = removeRecursive(r, t)
        BY <2>1, <2>4 DEF ReturnToPool
      <3>2. removeRecursive(r, t).tx \subseteq r.tx
        BY <2>1, WithoutTyped DEF removeRecursive
      <3> QED BY <1>0, <2>1, <2>2, <3>1, <3>2
    <2> QED BY <2>3, <2>4
  <1>4. n \in G
    <2>1. 0 .. n \subseteq G
      <3> HIDE DEF G, n
      <3> QED BY <1>0, <1>2, <1>3, EveryTurn
    <2> QED BY <1>0, <2>1
  <1> QED BY <1>1, <1>4

\* Neither does the handler of the "tx" message.
LEMMA ReconsideredFresh ==
    ASSUME Inv, NEW u, NEW T, Sound(T, UtxoOf[tip]), mapTx \cap T = {}
    PROVE  ReconsiderAll(u).pool.tx \cap T = {}
  <1> DEFINE n == Len(ByHash)
  <1>1. /\ n \in Nat /\ mapOrphanTransactions \in [Txs -> Peers \cup {None}]
        /\ Begin \in WorkStates /\ Begin.pool.tx = mapTx
    <2>1. Pool \in AnyPools /\ Pool.tx = mapTx
      BY DEF Inv, Indexed, Pool
    <2>2. /\ Begin = [pool |-> Pool, work |-> vWorkQueue, erase |-> vEraseQueue, bad |-> setMisbehaving]
          /\ vEraseQueue \in SUBSET Txs /\ setMisbehaving \subseteq Peers /\ vWorkQueue \in Seq(Txs)
          /\ mapOrphanTransactions \in [Txs -> Peers \cup {None}]
      BY DEF Begin, Inv, TypeOK
    <2> QED BY <2>1, <2>2, Hashes DEF WorkStates
  <1>2. PICK s : /\ s[0] = Begin /\ ReconsiderAll(u) = s[n]
                 /\ \A i \in 1 .. n : s[i] = Turn(s[i - 1], u, ByHash[i])
                 /\ \A i \in 0 .. n : s[i] \in WorkStates
    BY <1>1, ReconsiderLoop
  <1> DEFINE G == {i \in 0 .. n : s[i].pool.tx \cap T = {}}
  <1>3. 0 \in G
    BY <1>1, <1>2
  <1>4. ASSUME NEW i \in 1 .. n, i - 1 \in G PROVE i \in G
    <2> DEFINE r == s[i - 1]
               t == ByHash[i]
    <2>1. r \in WorkStates /\ r.pool.tx \cap T = {} /\ t \in Txs /\ s[i] = Turn(r, u, t)
      BY <1>1, <1>2, <1>4, Hashes
    <2>2. r.pool \in AnyPools /\ mapOrphanTransactions[t] \in Peers \cup {None}
      BY <1>1, <2>1 DEF WorkStates
    <2> HIDE DEF r, t
    <2>3. \/ s[i].pool = r.pool
          \/ s[i].pool = addUnchecked(r.pool, t) /\ AcceptNow(r.pool, t) = "accepted"
      <3>1. CASE <<u, t>> \notin mapOrphanTransactionsByPrev
        BY <2>1, <3>1 DEF Turn
      <3>2. CASE <<u, t>> \in mapOrphanTransactionsByPrev
        <4>1. s[i] = Reconsider(r, t)
          BY <2>1, <3>2 DEF Turn
        <4>2. /\ mapOrphanTransactions[t] \in r.bad => Reconsider(r, t) = r
              /\ mapOrphanTransactions[t] \notin r.bad =>
                    Reconsider(r, t).pool = IF AcceptNow(r.pool, t) = "accepted" THEN addUnchecked(r.pool, t)
                                            ELSE r.pool
          BY <2>1, <2>2, Reconsidered
        <4> QED BY <4>1, <4>2
      <3> QED BY <3>1, <3>2
    <2>4. AcceptNow(r.pool, t) = "accepted" => addUnchecked(r.pool, t).tx \cap T = {}
      BY <2>1, <2>2, AcceptedFresh DEF AcceptNow
    <2>5. s[i].pool.tx \cap T = {}
      BY <2>1, <2>3, <2>4
    <2> QED BY <1>1, <2>5
  <1>5. n \in G
    <2>1. 0 .. n \subseteq G
      <3> HIDE DEF G, n
      <3> QED BY <1>1, <1>3, <1>4, EveryTurn
    <2> QED BY <1>1, <2>1
  <1> QED BY <1>2, <1>5

Unconfirmed == OnChain(tip) /\ PoolUnconfirmed

LEMMA UnconfirmedKept ==
    ASSUME CoinbasesDiffer, Inv, Unconfirmed, [Next]_vars
    PROVE  Unconfirmed'
  <1>1. /\ OnChain(tip) /\ mapTx \cap TxsOf[tip] = {} /\ tip \in Blocks
        /\ Indexed(Pool) /\ Pool \in AnyPools /\ Pool.tx = mapTx
        /\ Backed(Pool, UtxoOf[tip], Height[tip] + 1)
    BY DEF Unconfirmed, PoolUnconfirmed, Inv, TypeOK, Indexed, Pool
  <1>2. Sound(TxsOf[tip], UtxoOf[tip])
    BY <1>1, SoundChain
  <1>3. ASSUME tip' = tip, mapTx' \cap TxsOf[tip] = {} PROVE Unconfirmed'
    BY <1>1, <1>3 DEF Unconfirmed, PoolUnconfirmed
  <1>4. CASE tip' = tip /\ mapTx' = mapTx
    BY <1>1, <1>3, <1>4
  <1>5. ASSUME NEW t \in Txs, AcceptTx(t) PROVE Unconfirmed'
    <2>1. tip' = tip /\ mapTx' = addUnchecked(Pool, t).tx /\ Accept(Pool, UtxoOf[tip], t, Height[tip] + 1, Underpaid \cup LowPriority) = "accepted"
      BY <1>5 DEF AcceptTx, PoolBecomes, AcceptNow
    <2>2. mapTx' \cap TxsOf[tip] = {}
      BY <1>1, <1>2, <2>1, AcceptedFresh
    <2> QED BY <1>3, <2>1, <2>2
  <1>6. CASE ResolveOrphans
    <2>1. tip' = tip /\ mapTx' = ReconsiderAll(vWorkQueue[pos]).pool.tx
      BY <1>6 DEF ResolveOrphans, PoolBecomes
    <2>2. mapTx' \cap TxsOf[tip] = {}
      BY <1>1, <1>2, <2>1, ReconsideredFresh
    <2> QED BY <1>3, <2>1, <2>2
  <1>7. ASSUME NEW b \in Blocks, ConnectTip(b) PROVE Unconfirmed'
    <2>1. /\ b /= Genesis /\ Parent[b] = tip /\ Connectable(b) /\ tip' = b
          /\ mapTx' = removeForBlock(Pool, b).tx
      BY <1>7 DEF ConnectTip, PoolBecomes
    <2>2. OnChain(b)
      BY <1>1, <2>1, ChainGrows
    <2>3. Backed(Pool, UtxoOf[Parent[b]], Height[b])
      BY <1>1, <2>1, Heights
    <2>4. mapTx' \subseteq mapTx /\ \A i \in DOMAIN vtx[b] : vtx[b][i] \notin mapTx'
      BY <1>1, <2>1, <2>3, ConnectedPool
    <2>5. TxsOf[b] = TxsOf[tip] \cup {vtx[b][i] : i \in DOMAIN vtx[b]}
      BY <2>1, TxsOfChain, BlockTxs DEF TxsUpTo
    <2>6. mapTx' \cap TxsOf[b] = {}
      BY <1>1, <2>4, <2>5
    <2> QED BY <2>1, <2>2, <2>6 DEF Unconfirmed, PoolUnconfirmed
  <1>8. CASE DisconnectTip
    <2> DEFINE b == tip
               r == Resurrected(Pool, b)
    <2>1. /\ b /= Genesis /\ tip' = Parent[b]
          /\ mapTx' = removeCoinbaseSpends(r, UtxoOf[Parent[b]], Height[b]).tx
      BY <1>8 DEF DisconnectTip, PoolBecomes
    <2>2. OnChain(Parent[b]) /\ Parent[b] \in Blocks
      BY <1>1, <2>1, ChainGrows, LedgerAssumption
    <2>3. Sound(TxsOf[Parent[b]], UtxoOf[Parent[b]])
      BY <2>2, SoundChain
    <2>4. Pool.tx \cap TxsOf[Parent[b]] = {}
      BY <1>1, <2>1, TxsOfChain DEF TxsUpTo
    <2>5. r \in AnyPools /\ r.tx \cap TxsOf[Parent[b]] = {}
      BY <1>1, <2>3, <2>4, ResurrectedFresh
    <2>6. mapTx' \subseteq r.tx
      <3> HIDE DEF r
      <3> QED BY <2>1, <2>5, WithoutTyped DEF removeCoinbaseSpends
    <2> QED BY <2>1, <2>2, <2>5, <2>6 DEF Unconfirmed, PoolUnconfirmed
  <1>9. ASSUME \/ UNCHANGED vars
               \/ \E t \in Txs : \E peer \in Peers : OrphanTx(t, peer)
               \/ FinishTx \/ \E peer \in Peers : EraseOrphansFor(peer)
               \/ \E t \in Lockable : LockInputs(t) \/ ReleaseInputs(t)
        PROVE  tip' = tip /\ mapTx' = mapTx
    BY <1>9 DEF vars, OrphanTx, FinishTx, EraseOrphansFor, LockInputs, ReleaseInputs, poolVars
  <1> QED BY <1>4, <1>5, <1>6, <1>7, <1>8, <1>9 DEF Next

-----------------------------------------------------------------------------
(* What a disconnected block gives back.                                   *)

\* The order of a block on the chain: its transactions are new and differ, and none spends
\* outputs of itself or of a later one.
LEMMA BlockOrder ==
    ASSUME CoinbasesDiffer, NEW b \in Blocks \ {Genesis}, OnChain(b), NEW i \in 1 .. Len(vtx[b])
    PROVE  /\ vtx[b][i] \in Txs /\ vtx[b][i] \in TxsOf[b] /\ vtx[b][i] \notin TxsOf[Parent[b]]
           /\ \A k \in 1 .. Len(vtx[b]) : k /= i => vtx[b][k] /= vtx[b][i]
           /\ \A o \in Prevouts(vtx[b][i]) :
                 o[2] \in DOMAIN vout[o[1]] /\ \A k \in i .. Len(vtx[b]) : o[1] /= vtx[b][k]
  <1> DEFINE n == Len(vtx[b])
  <1>1. n \in Nat /\ Parent[b] \in Blocks
    BY BlockTxs, LedgerAssumption
  <1>2. \A k \in 0 .. n : Sound(TxsUpTo(b, k), Applied(UtxoOf[Parent[b]], b, k))
    <2>1. Connectable(b) /\ OnChain(Parent[b])
      BY ChainGrows
    <2>2. Sound(TxsOf[Parent[b]], UtxoOf[Parent[b]]) /\ Below(Parent[b])
      BY <1>1, <2>1, SoundChain
    <2> QED BY <2>1, <2>2, SoundPrefixes
  <1>3. ASSUME NEW k \in 1 .. n
        PROVE  /\ vtx[b][k] \in Txs \ TxsUpTo(b, k - 1)
               /\ \A o \in Prevouts(vtx[b][k]) : o[1] \in TxsUpTo(b, k - 1) /\ o[2] \in DOMAIN vout[o[1]]
    <2>1. k - 1 \in 0 .. n /\ Connectable(b) /\ OnChain(Parent[b])
      BY <1>1, ChainGrows
    <2>2. Below(Parent[b])
      BY <1>1, <2>1, SoundChain
    <2> QED BY <1>2, <2>1, <2>2, FreshInBlock
  <1>4. ASSUME NEW j \in 1 .. n, NEW k \in 1 .. n, j < k PROVE vtx[b][j] /= vtx[b][k]
    <2>1. j \in 1 .. k - 1
      BY <1>1, <1>4
    <2> QED BY <1>3, <2>1 DEF TxsUpTo
  <1>5. vtx[b][i] \in Txs /\ vtx[b][i] \notin TxsOf[Parent[b]]
    BY <1>3 DEF TxsUpTo
  <1>6. vtx[b][i] \in TxsOf[b]
    BY TxsOfChain DEF TxsUpTo
  <1>7. ASSUME NEW k \in 1 .. n, k /= i PROVE vtx[b][k] /= vtx[b][i]
    <2>1. k < i \/ i < k
      BY <1>1, <1>7
    <2> QED BY <1>4, <2>1
  <1>8. ASSUME NEW o \in Prevouts(vtx[b][i]), NEW k \in i .. n PROVE o[1] /= vtx[b][k]
    <2>1. k \in 1 .. n /\ \A j \in 1 .. i - 1 : j \in 1 .. k - 1
      BY <1>1
    <2>2. o[1] \in TxsUpTo(b, k - 1)
      BY <1>3, <2>1 DEF TxsUpTo
    <2> QED BY <1>3, <2>1, <2>2
  <1> QED BY <1>3, <1>5, <1>6, <1>7, <1>8

\* A pooled transaction stays when none of its parents go.
LEMMA NotRemoved ==
    ASSUME NEW p, Indexed(p), NEW S, NEW t \in p.tx, t \notin S,
           \A o \in Prevouts(t) : o[1] \notin Descendants(p, S)
    PROVE  t \in Without(p, Descendants(p, S)).tx
  <1> DEFINE D == Descendants(p, S)
             C == D \ {t}
  <1>1. D \subseteq p.tx /\ S \cap p.tx \subseteq D /\ Closed(p, D)
    BY DescendantsClosed
  <1>2. p \in AnyPools /\ \A o \in Prevouts(t) : o[1] \notin D
    BY DEF Indexed
  <1>3. ASSUME NEW a \in D, t \in Spenders(p, a) PROVE FALSE
    <2>1. PICK e \in p.next : e[1][1] = a /\ e[2] = t
      BY <1>3 DEF Spenders
    <2>2. e[1] \in Prevouts(t)
      BY <2>1, InIndex DEF Indexed
    <2> QED BY <1>2, <2>1, <2>2
  <1>4. C \in SUBSET p.tx /\ S \cap p.tx \subseteq C /\ Closed(p, C)
    <2>1. C \in SUBSET p.tx /\ S \cap p.tx \subseteq C
      BY <1>1
    <2> HIDE DEF D
    <2> QED BY <1>1, <1>3, <2>1 DEF Closed
  <1>5. t \notin D
    <2>1. D = Descendants(p, S)
      OBVIOUS
    <2> HIDE DEF D, C
    <2>2. D \subseteq C
      BY <1>4, <2>1 DEF Descendants
    <2> QED BY <2>2 DEF C
  <1>6. Without(p, D).tx = p.tx \ D
    BY <1>2, WithoutTyped
  <1> QED BY <1>5, <1>6

\* What is in the pool q after k transactions of b have returned, when it was p before.
Returning(p, q, b, k) ==
    /\ Indexed(q) /\ q.tx \cap TxsOf[Parent[b]] = {}
    /\ q.tx \subseteq p.tx \cup {vtx[b][j] : j \in 1 .. k}

LEMMA ReturningStep ==
    ASSUME NEW b \in Blocks, b /= Genesis, Sound(TxsOf[Parent[b]], UtxoOf[Parent[b]]), NEW p, NEW q,
           NEW k \in 1 .. Len(vtx[b]), Returning(p, q, b, k - 1)
    PROVE  LET r == ReturnToPool(q, b, vtx[b][k])
           IN  Returning(p, r, b, k) /\ r.tx \subseteq q.tx \cup {vtx[b][k]}
  <1> DEFINE t == vtx[b][k]
             T == TxsOf[Parent[b]]
             r == ReturnToPool(q, b, t)
  <1>0. t \in Txs /\ k \in Nat /\ k >= 1
    BY BlockTxs
  <1>1. Indexed(q) /\ q \in AnyPools /\ q.tx \cap T = {} /\ q.tx \subseteq p.tx \cup {vtx[b][j] : j \in 1 .. k - 1}
    BY DEF Returning, Indexed
  <1> HIDE DEF t, T
  <1>2. Indexed(r) /\ r.tx \subseteq q.tx \cup {t} /\ r.tx \cap T = {}
    <2>1. CASE Accept(q, UtxoOf[Parent[b]], t, Height[b], LowPriority) = "accepted"
      <3>1. r = addUnchecked(q, t)
        BY <2>1 DEF ReturnToPool
      <3>2. Indexed(addUnchecked(q, t)) /\ addUnchecked(q, t).tx = q.tx \cup {t}
        BY <1>0, <1>1, <2>1, AcceptedIndexed
      <3>3. addUnchecked(q, t).tx \cap T = {}
        BY <1>0, <1>1, <2>1, AcceptedFresh DEF T
      <3> QED BY <3>1, <3>2, <3>3
    <2>2. CASE Accept(q, UtxoOf[Parent[b]], t, Height[b], LowPriority) /= "accepted"
      <3>1. r = removeRecursive(q, t)
        BY <2>2 DEF ReturnToPool
      <3>2. Indexed(removeRecursive(q, t)) /\ removeRecursive(q, t).tx \subseteq q.tx
        BY <1>1, RemovedRecursively DEF Rooted
      <3> QED BY <1>1, <3>1, <3>2
    <2> QED BY <2>1, <2>2
  <1>3. k \in 1 .. k /\ \A j \in 1 .. k - 1 : j \in 1 .. k
    BY <1>0
  <1>4. r.tx \subseteq p.tx \cup {vtx[b][j] : j \in 1 .. k}
    BY <1>1, <1>2, <1>3 DEF t
  <1> QED BY <1>2, <1>4 DEF Returning, t, T

\* The pools q[0] .. q[n] that a disconnected block b goes through, and s in the end; U is
\* unspent at the parent and h the height of b.
ReturnRun(q, s, b, n, U, h) ==
    /\ n = Len(vtx[b]) /\ U = UtxoOf[Parent[b]] /\ h = Height[b]
    /\ q[0] = Pool /\ q[n] = Resurrected(Pool, b) /\ s = removeCoinbaseSpends(q[n], U, h)
    /\ \A k \in 1 .. n : q[k] = ReturnToPool(q[k - 1], b, vtx[b][k])
    /\ \A k \in 0 .. n : Returning(Pool, q[k], b, k)
    /\ \A k \in 1 .. n : q[k].tx \subseteq q[k - 1].tx \cup {vtx[b][k]}
    /\ s.tx \subseteq q[n].tx

\* All that stands for t at the parent of b, in the end.
InputsKept(t, s, U, h) ==
    \A o \in Prevouts(t) : /\ mapLockedInputs[o] \in {None, t}
                           /\ o[1] \in s.tx \/ \E c \in U : <<c.tx, c.n>> = o /\ ~Immature(c, h)

LEMMA ReturnRunExists ==
    ASSUME CoinbasesDiffer, Inv, Unconfirmed, tip /= Genesis
    PROVE  \E q : ReturnRun(q, removeCoinbaseSpends(Resurrected(Pool, tip), UtxoOf[Parent[tip]], Height[tip]),
                            tip, Len(vtx[tip]), UtxoOf[Parent[tip]], Height[tip])
  <1> DEFINE b == tip
             n == Len(vtx[b])
             s == removeCoinbaseSpends(Resurrected(Pool, b), UtxoOf[Parent[b]], Height[b])
  <1>1. /\ b \in Blocks /\ OnChain(b) /\ Indexed(Pool) /\ Pool \in AnyPools /\ Pool.tx \cap TxsOf[b] = {}
    BY DEF Unconfirmed, PoolUnconfirmed, Inv, TypeOK, Indexed, Pool
  <1>2. n \in Nat /\ Parent[b] \in Blocks /\ Sound(TxsOf[Parent[b]], UtxoOf[Parent[b]])
    BY <1>1, BlockTxs, ChainGrows, SoundChain, LedgerAssumption
  <1>3. PICK q : /\ q[0] = Pool /\ Resurrected(Pool, b) = q[n]
                 /\ \A k \in 1 .. n : q[k] = ReturnToPool(q[k - 1], b, vtx[b][k])
    BY <1>1, ResurrectLoop
  <1> DEFINE G == {k \in 0 .. n : Returning(Pool, q[k], b, k)}
  <1>4. 0 \in G
    <2>1. Pool.tx \cap TxsOf[Parent[b]] = {}
      BY <1>1, TxsOfChain DEF TxsUpTo
    <2> QED BY <1>1, <1>2, <1>3, <2>1 DEF Returning
  <1>5. ASSUME NEW k \in 1 .. n, k - 1 \in G PROVE k \in G /\ q[k].tx \subseteq q[k - 1].tx \cup {vtx[b][k]}
    <2>1. Returning(Pool, q[k - 1], b, k - 1)
      BY <1>5
    <2>2. Returning(Pool, q[k], b, k) /\ q[k].tx \subseteq q[k - 1].tx \cup {vtx[b][k]}
      BY <1>1, <1>2, <1>3, <2>1, ReturningStep
    <2> QED BY <1>2, <2>2
  <1>6. 0 .. n \subseteq G
    <2> HIDE DEF G, n
    <2> QED BY <1>2, <1>4, <1>5, EveryTurn
  <1>7. \A k \in 1 .. n : q[k].tx \subseteq q[k - 1].tx \cup {vtx[b][k]}
    <2>1. \A k \in 1 .. n : k - 1 \in 0 .. n
      BY <1>2
    <2> HIDE DEF G, n
    <2> QED BY <1>5, <1>6, <2>1
  <1>8. s.tx \subseteq q[n].tx
    <2>1. n \in G
      BY <1>2, <1>6
    <2>2. q[n] \in AnyPools
      BY <2>1 DEF Returning, Indexed
    <2> QED BY <1>3, <2>2, WithoutTyped DEF removeCoinbaseSpends
  <1> HIDE DEF n, s
  <1>9. ReturnRun(q, s, b, n, UtxoOf[Parent[b]], Height[b])
    BY <1>3, <1>6, <1>7, <1>8 DEF ReturnRun, n, s, G
  <1> QED BY <1>9 DEF n, s

\* What is in the pool in the end, and does not come back from i on, was never away.
LEMMA NeverAway ==
    ASSUME NEW b \in Blocks, NEW q, NEW s, NEW n, NEW U, NEW h, ReturnRun(q, s, b, n, U, h),
           NEW i \in 1 .. n, NEW a \in s.tx, \A k \in i .. n : a /= vtx[b][k]
    PROVE  \A k \in i - 1 .. n : a \in q[k].tx
  <1>1. n \in Nat /\ i \in Nat /\ i >= 1 /\ i <= n
    BY BlockTxs DEF ReturnRun
  <1>2. /\ a \in q[n].tx /\ \A k \in 1 .. n : q[k].tx \subseteq q[k - 1].tx \cup {vtx[b][k]}
    BY DEF ReturnRun
  <1> DEFINE m == n - i + 1
             G == {j \in 0 .. m : a \in q[n - j].tx}
  <1>3. m \in Nat
    BY <1>1
  <1>4. 0 \in G
    BY <1>1, <1>2
  <1>5. ASSUME NEW j \in 1 .. m, j - 1 \in G PROVE j \in G
    <2> DEFINE k == n - (j - 1)
    <2>1. k \in i .. n /\ k \in 1 .. n /\ k - 1 = n - j
      BY <1>1
    <2>2. a \in q[k].tx
      BY <1>5
    <2> HIDE DEF k
    <2>3. a \in q[k - 1].tx
      BY <1>2, <2>1, <2>2
    <2> QED BY <1>1, <2>1, <2>3
  <1>6. 0 .. m \subseteq G
    <2> HIDE DEF G, m
    <2> QED BY <1>3, <1>4, <1>5, EveryTurn
  <1>7. ASSUME NEW k \in i - 1 .. n PROVE a \in q[k].tx
    <2>1. n - k \in 0 .. m /\ n - (n - k) = k
      BY <1>1
    <2>2. n - k \in G
      BY <1>6, <2>1
    <2>3. a \in q[n - (n - k)].tx
      BY <2>2
    <2> QED BY <2>1, <2>3
  <1> QED BY <1>7

\* Two coins of a transaction are as mature.
LEMMA SameMaturity ==
    ASSUME NEW T, NEW U, Sound(T, U), NEW c \in U, NEW d \in U, c.tx = d.tx, NEW h, ~Immature(c, h)
    PROVE  ~Immature(d, h)
  <1>1. c \in Coins /\ d \in Coins /\ c.nHeight = d.nHeight
    BY DEF Sound
  <1>2. c.base = d.base /\ c.stake = d.stake
    BY <1>1, CoinsAre
  <1> QED BY <1>1, <1>2 DEF Immature

Refused == CoinBases \cup CoinStakes \cup Nonstandard \cup LowPriority \cup BadScripts

\* A transaction that nothing is against in the end is accepted when its turn comes.
LEMMA AcceptedInTurn ==
    ASSUME CoinbasesDiffer, Inv, Unconfirmed, tip /= Genesis, NEW q, NEW s, NEW n, NEW U, NEW h,
           ReturnRun(q, s, tip, n, U, h), NEW i \in 1 .. n, vtx[tip][i] \notin Refused,
           InputsKept(vtx[tip][i], s, U, h)
    PROVE  vtx[tip][i] \in q[i].tx
  <1> DEFINE b == tip
             t == vtx[b][i]
             p == q[i - 1]
             T == TxsOf[Parent[b]]
  <1>0. /\ n = Len(vtx[b]) /\ U = UtxoOf[Parent[b]] /\ h = Height[b]
        /\ q[i] = ReturnToPool(p, b, t) /\ Returning(Pool, p, b, i - 1) /\ n \in Nat /\ i \in Nat /\ i >= 1
    <2>1. b \in Blocks
      BY DEF Inv, TypeOK
    <2>2. n = Len(vtx[b]) /\ n \in Nat
      BY <2>1, BlockTxs DEF ReturnRun
    <2>3. i - 1 \in 0 .. n
      BY <2>2
    <2> QED BY <2>2, <2>3 DEF ReturnRun
  <1>1. /\ b \in Blocks \ {Genesis} /\ OnChain(b) /\ Indexed(Pool) /\ Pool.tx \cap TxsOf[b] = {}
        /\ Backed(Pool, UtxoOf[b], h + 1) /\ Parent[b] \in Blocks /\ OnChain(Parent[b])
    BY <1>0, ChainGrows, LedgerAssumption DEF Unconfirmed, PoolUnconfirmed, Inv, TypeOK, Pool
  <1>2. Sound(T, U) /\ Sound(TxsOf[b], UtxoOf[b])
    BY <1>0, <1>1, SoundChain
  <1>3. /\ t \in Txs /\ t \in TxsOf[b] /\ t \notin T
        /\ \A k \in 1 .. n : k /= i => vtx[b][k] /= t
        /\ \A o \in Prevouts(t) : o[2] \in DOMAIN vout[o[1]] /\ \A k \in i .. n : o[1] /= vtx[b][k]
    BY <1>0, <1>1, BlockOrder
  <1>4. /\ Indexed(p) /\ p \in AnyPools /\ p.tx \cap T = {}
        /\ \A w \in p.tx : w \in Pool.tx \/ \E j \in 1 .. i - 1 : w = vtx[b][j]
    BY <1>0 DEF Returning, Indexed
  <1>5. \A j \in 1 .. i - 1 : j \in 1 .. n /\ j /= i
    BY <1>0
  <1>6. \A o \in Prevouts(t) : o[1] \in p.tx \/ \E c \in U : <<c.tx, c.n>> = o /\ ~Immature(c, h)
    <2> SUFFICES ASSUME NEW o \in Prevouts(t), o[1] \in s.tx PROVE o[1] \in p.tx
      BY DEF InputsKept
    <2>1. i - 1 \in i - 1 .. n
      BY <1>0
    <2>2. \A k \in i - 1 .. n : o[1] \in q[k].tx
      BY <1>1, <1>3, NeverAway
    <2> QED BY <2>1, <2>2
  <1> HIDE DEF t, p, T
  <1>7. t \notin p.tx
    <2>1. \A j \in 1 .. i - 1 : t /= vtx[b][j]
      BY <1>3, <1>5
    <2> QED BY <1>1, <1>3, <1>4, <2>1
  <1>8. \A c \in U : c.tx /= t
    BY <1>2, <1>3 DEF Sound
  <1>9. ASSUME NEW e \in p.next, e[1] \in Prevouts(t) PROVE FALSE
    <2> DEFINE w == e[2]
               o == e[1]
    <2>1. w \in p.tx /\ o \in Prevouts(w) /\ o \in Prevouts(t)
      BY <1>4, <1>9, InIndex DEF Indexed
    <2> HIDE DEF w, o
    <2>2. CASE w \in Pool.tx
      <3>1. o[1] \in TxsOf[b]
        BY <1>2, <1>3, <2>1 DEF Sound
      <3>2. \E c \in UtxoOf[b] : <<c.tx, c.n>> = o
        BY <1>1, <2>1, <2>2, <3>1 DEF Backed
      <3> QED BY <1>2, <1>3, <2>1, <3>2 DEF Sound
    <2>3. ASSUME NEW j \in 1 .. i - 1, w = vtx[b][j] PROVE FALSE
      <3>1. w \in TxsOf[b] /\ w /= t
        BY <1>0, <1>1, <1>3, <1>5, <2>3, BlockOrder
      <3> QED BY <1>2, <1>3, <2>1, <3>1 DEF Sound, SpentOnce
    <2> QED BY <1>4, <2>1, <2>2, <2>3
  <1>10. ASSUME NEW o \in Prevouts(t) PROVE HaveCoins(p, U, o[1]) /\ Available(p, U, o)
    <2>1. CASE o[1] \in p.tx
      BY <1>3, <2>1 DEF HaveCoins, Available
    <2>2. CASE o[1] \notin p.tx
      <3>1. PICK c \in U : <<c.tx, c.n>> = o
        BY <1>6, <2>2
      <3>2. c.tx = o[1]
        BY <3>1
      <3> QED BY <2>2, <3>1, <3>2 DEF HaveCoins, Available
    <2> QED BY <2>1, <2>2
  <1>11. MatureInputs(p, U, t, h)
    <2> SUFFICES ASSUME NEW d \in U, <<d.tx, d.n>> \in Prevouts(t), d.tx \notin p.tx PROVE ~Immature(d, h)
      BY DEF MatureInputs
    <2>1. <<d.tx, d.n>>[1] = d.tx
      OBVIOUS
    <2>2. PICK c \in U : <<c.tx, c.n>> = <<d.tx, d.n>> /\ ~Immature(c, h)
      BY <1>6, <2>1
    <2>3. c.tx = d.tx
      BY <2>2
    <2> QED BY <1>2, <2>2, <2>3, SameMaturity
  <1>12. Accept(p, U, t, h, LowPriority) = "accepted"
    <2>1. t \notin Refused /\ \A o \in Prevouts(t) : mapLockedInputs[o] \in {None, t}
      BY DEF InputsKept, t
    <2>2. ~Hindered(p, U, t)
      BY <1>7, <1>8, <1>9, <2>1 DEF Hindered, HaveCoins, Refused
    <2> QED BY <1>10, <1>11, <2>1, <2>2 DEF Accept, Refused
  <1>13. q[i] = addUnchecked(p, t)
    BY <1>0, <1>12 DEF ReturnToPool
  <1>14. addUnchecked(p, t).tx = p.tx \cup {t}
    BY <1>3, <1>4, AddTyped
  <1> QED BY <1>13, <1>14 DEF t

\* And it stays until the end.
LEMMA StaysInPool ==
    ASSUME CoinbasesDiffer, Inv, Unconfirmed, tip /= Genesis, NEW q, NEW s, NEW n, NEW U, NEW h,
           ReturnRun(q, s, tip, n, U, h), NEW i \in 1 .. n, vtx[tip][i] \in q[i].tx,
           InputsKept(vtx[tip][i], s, U, h)
    PROVE  vtx[tip][i] \in s.tx
  <1> DEFINE b == tip
             t == vtx[b][i]
             T == TxsOf[Parent[b]]
  <1>0. /\ b \in Blocks \ {Genesis} /\ OnChain(b) /\ Parent[b] \in Blocks /\ OnChain(Parent[b])
    BY ChainGrows, LedgerAssumption DEF Unconfirmed, Inv, TypeOK
  <1>1. /\ n = Len(vtx[b]) /\ n \in Nat /\ U = UtxoOf[Parent[b]] /\ h = Height[b] /\ i \in Nat /\ i >= 1 /\ i <= n
        /\ s = removeCoinbaseSpends(q[n], U, h)
        /\ \A k \in 1 .. n : q[k] = ReturnToPool(q[k - 1], b, vtx[b][k])
        /\ \A k \in 0 .. n : Indexed(q[k]) /\ q[k] \in AnyPools /\ q[k].tx \cap T = {}
        /\ s.tx \subseteq q[n].tx
    <2>1. /\ n = Len(vtx[b]) /\ U = UtxoOf[Parent[b]] /\ h = Height[b]
          /\ s = removeCoinbaseSpends(q[n], U, h) /\ s.tx \subseteq q[n].tx
          /\ \A k \in 1 .. n : q[k] = ReturnToPool(q[k - 1], b, vtx[b][k])
          /\ \A k \in 0 .. n : Returning(Pool, q[k], b, k)
      BY DEF ReturnRun
    <2>2. n \in Nat
      BY <1>0, <2>1, BlockTxs
    <2>3. \A k \in 0 .. n : Indexed(q[k]) /\ q[k] \in AnyPools /\ q[k].tx \cap T = {}
      BY <2>1 DEF Returning, Indexed
    <2> HIDE DEF b, T
    <2> QED BY <2>1, <2>2, <2>3
  <1>2. Sound(T, U)
    BY <1>0, <1>1, SoundChain
  <1>3. /\ t \in Txs /\ \A k \in 1 .. n : k /= i => vtx[b][k] /= t
        /\ \A o \in Prevouts(t) : \A k \in i .. n : o[1] /= vtx[b][k]
    BY <1>0, <1>1, BlockOrder
  \* a parent of t in the pool is there in the end, and never went
  <1>4. ASSUME NEW o \in Prevouts(t), NEW k \in i - 1 .. n, o[1] \in q[k].tx
        PROVE  o[1] \in s.tx /\ \A j \in i - 1 .. n : o[1] \in q[j].tx
    <2>1. o[1] \notin T
      <3>1. k \in 0 .. n
        BY <1>1
      <3> QED BY <1>1, <1>4, <3>1
    <2>2. ASSUME NEW c \in U, <<c.tx, c.n>> = o PROVE FALSE
      <3>1. c.tx = o[1] /\ c.tx \in T
        BY <1>2, <2>2 DEF Sound
      <3> QED BY <2>1, <3>1
    <2>3. o[1] \in s.tx
      BY <2>2 DEF InputsKept
    <2>4. \A j \in i - 1 .. n : o[1] \in q[j].tx
      BY <1>0, <1>3, <2>3, NeverAway
    <2> QED BY <2>3, <2>4
  <1> HIDE DEF t, T
  <1> DEFINE m == n - i
             G == {j \in 0 .. m : t \in q[i + j].tx}
  <1>5. m \in Nat /\ 0 \in G
    BY <1>1 DEF t
  <1>6. ASSUME NEW j \in 1 .. m, j - 1 \in G PROVE j \in G
    <2> DEFINE k == i + j
               p == q[k - 1]
               v == vtx[b][k]
               S == IF v \in p.tx THEN {v} ELSE Spenders(p, v)
               D == Descendants(p, S)
    <2>1. /\ k \in 1 .. n /\ k \in i .. n /\ k /= i /\ k - 1 = i + (j - 1) /\ k - 1 \in i - 1 .. n
          /\ k \in i - 1 .. n /\ k - 1 \in 0 .. n
      BY <1>1
    <2>2. t \in p.tx /\ q[k] = ReturnToPool(p, b, v) /\ Indexed(p) /\ p \in AnyPools /\ v \in Txs
      <3>1. t \in q[i + (j - 1)].tx
        BY <1>6
      <3>2. v \in Txs
        BY <1>0, <1>1, <2>1, BlockTxs
      <3> HIDE DEF k, v
      <3> QED BY <1>1, <2>1, <3>1, <3>2 DEF v
    <2>3. v /= t /\ \A o \in Prevouts(t) : o[1] /= v
      BY <1>3, <2>1
    <2> HIDE DEF k, v
    <2>4. \A o \in Prevouts(t) : o[1] \in p.tx => o[1] \in q[k].tx
      BY <1>4, <2>1
    <2> HIDE DEF p
    <2>5. t \notin S
      <3>1. ASSUME t \in Spenders(p, v) PROVE FALSE
        <4>1. PICK e \in p.next : e[1][1] = v /\ e[2] = t
          BY <3>1 DEF Spenders
        <4>2. e[1] \in Prevouts(t)
          BY <2>2, <4>1, InIndex DEF Indexed
        <4> QED BY <2>3, <4>1, <4>2
      <3> QED BY <2>3, <3>1
    <2>6. t \in q[k].tx
      <3>1. CASE Accept(p, UtxoOf[Parent[b]], v, Height[b], LowPriority) = "accepted"
        <4>1. q[k] = addUnchecked(p, v)
          BY <2>2, <3>1 DEF ReturnToPool
        <4> QED BY <2>2, <4>1, AddTyped
      <3>2. CASE Accept(p, UtxoOf[Parent[b]], v, Height[b], LowPriority) /= "accepted"
        <4>1. q[k] = Without(p, D)
          BY <2>2, <3>2 DEF ReturnToPool, removeRecursive
        <4> HIDE DEF S
        <4>2. D \subseteq p.tx
          BY DescendantsClosed
        <4>3. Without(p, D).tx = p.tx \ D
          BY <2>2, WithoutTyped
        <4>4. \A o \in Prevouts(t) : o[1] \notin D
          BY <2>4, <4>1, <4>2, <4>3
        <4>5. t \in Without(p, D).tx
          BY <2>2, <2>5, <4>4, NotRemoved
        <4> QED BY <4>1, <4>5
      <3> QED BY <3>1, <3>2
    <2> QED BY <1>1, <2>6 DEF k
  <1>7. t \in q[n].tx
    <2>1. 0 .. m \subseteq G
      <3> HIDE DEF G, m
      <3> QED BY <1>5, <1>6, EveryTurn
    <2>2. m \in G /\ i + m = n
      <3>1. m \in 0 .. m /\ i + m = n
        BY <1>1, <1>5
      <3> HIDE DEF G, m
      <3> QED BY <2>1, <3>1
    <2>3. t \in q[i + m].tx
      BY <2>2
    <2> QED BY <2>2, <2>3
  <1> DEFINE r == q[n]
             spent(u) == {o \in U : o.tx = u}
             fails(w) == \E k \in DOMAIN vin[w] :
                            LET u == vin[w][k][1]
                            IN  /\ u \notin r.tx
                                /\ \/ spent(u) = {}
                                   \/ \E o \in spent(u) : Immature(o, h)
             S == {w \in r.tx : fails(w)}
             D == Descendants(r, S)
  <1>8. s = Without(r, D)
    BY <1>1 DEF removeCoinbaseSpends
  <1>9. /\ Indexed(r) /\ r \in AnyPools /\ s.tx \subseteq r.tx
        /\ \A o \in Prevouts(t) : o[1] \in r.tx => o[1] \in s.tx
    <2>1. n \in 0 .. n /\ n \in i - 1 .. n
      BY <1>1
    <2> QED BY <1>1, <1>4, <2>1 DEF t
  <1> HIDE DEF r
  <1>10. t \notin S
    <2> SUFFICES ASSUME NEW k \in DOMAIN vin[t], vin[t][k][1] \notin r.tx,
                        \/ spent(vin[t][k][1]) = {}
                        \/ \E o \in spent(vin[t][k][1]) : Immature(o, h)
                 PROVE  FALSE
      OBVIOUS
    <2> DEFINE o == vin[t][k]
    <2>1. o \in Prevouts(t) /\ o[1] \notin s.tx
      BY <1>9 DEF Prevouts
    <2>2. PICK c \in U : <<c.tx, c.n>> = o /\ ~Immature(c, h)
      BY <2>1 DEF InputsKept, t
    <2>3. c.tx = o[1]
      BY <2>2
    <2>4. c \in spent(o[1])
      BY <2>3
    <2>5. PICK d \in U : d.tx = o[1] /\ Immature(d, h)
      BY <2>4
    <2> QED BY <1>2, <2>2, <2>3, <2>5, SameMaturity
  <1> HIDE DEF S
  <1>11. D \subseteq r.tx /\ s.tx = r.tx \ D
    BY <1>8, <1>9, DescendantsClosed, WithoutTyped
  <1>12. \A o \in Prevouts(t) : o[1] \notin D
    BY <1>9, <1>11
  <1>13. t \in Without(r, D).tx
    BY <1>7, <1>9, <1>10, <1>12, NotRemoved DEF r
  <1> QED BY <1>8, <1>13 DEF t

\* CTxMemPool::check, mapOrphanTransactionsByPrev and the chain: mapNextTx has exactly the
\* inputs of the pooled transactions, none of them twice, totalTxSize is their size, the
\* orphans are found by what they depend on and are no more than -maxorphantx, and nothing
\* that the active chain contains is in the pool, after any reorganisations.
THEOREM IndexesAlwaysAgree ==
    ASSUME CoinbasesDiffer
    PROVE  Spec => []IndexesAgree
  <1>1. Init => Unconfirmed
    BY ChainGrows DEF Init, Unconfirmed, PoolUnconfirmed
  <1>2. Inv /\ Unconfirmed /\ [Next]_vars => Unconfirmed'
    BY UnconfirmedKept
  <1>3. Inv /\ Unconfirmed => IndexesAgree
    <2> SUFFICES ASSUME Inv, Unconfirmed PROVE PoolIndexed
      BY DEF IndexesAgree, Inv, Unconfirmed
    <2>1. Pool.tx = mapTx /\ Pool.next = mapNextTx /\ Pool.size = totalTxSize
      BY DEF Pool
    <2>2. mapNextTx = IndexOf(mapTx) /\ totalTxSize = TotalSize(mapTx) /\ SpentOnce(mapTx)
      BY <2>1 DEF Inv, Indexed
    <2>3. ASSUME NEW e \in mapNextTx, NEW f \in mapNextTx, e[1] = f[1] PROVE e = f
      <3>1. /\ e[2] \in mapTx /\ e[1] \in Prevouts(e[2]) /\ e = <<e[1], e[2]>>
            /\ f[2] \in mapTx /\ f[1] \in Prevouts(f[2]) /\ f = <<f[1], f[2]>>
        BY <2>2, InIndex
      <3>2. e[2] = f[2]
        BY <2>2, <2>3, <3>1 DEF SpentOnce
      <3> QED BY <2>3, <3>1, <3>2
    <2> QED BY <2>2, <2>3 DEF PoolIndexed, IndexOf
  <1> QED BY <1>1, <1>2, <1>3, PoolInvariant, PTL DEF Spec

\* The tip only goes back to its parent when it is disconnected.
LEMMA BackToParent ==
    ASSUME Inv, [Next]_vars, tip /= Genesis, tip' = Parent[tip]
    PROVE  DisconnectTip
  <1>1. /\ tip \in Blocks /\ Parent[tip] \in Blocks /\ \A b \in Blocks : Height[b] \in Nat
        /\ \A b \in Blocks \ {Genesis} : Height[b] = Height[Parent[b]] + 1
    BY Heights, LedgerAssumption DEF Inv, TypeOK
  <1>2. tip' /= tip
    BY <1>1
  <1>3. ASSUME NEW b \in Blocks, ConnectTip(b) PROVE FALSE
    <2>1. b /= Genesis /\ Parent[b] = tip /\ b = Parent[tip]
      BY <1>3 DEF ConnectTip
    <2>2. Height[b] = Height[tip] + 1 /\ Height[tip] = Height[b] + 1 /\ Height[b] \in Nat /\ Height[tip] \in Nat
      BY <1>1, <2>1
    <2> QED BY <2>2
  <1>4. ASSUME \/ UNCHANGED vars \/ \E t \in Txs : AcceptTx(t) \/ \E peer \in Peers : OrphanTx(t, peer)
               \/ ResolveOrphans \/ FinishTx \/ \E peer \in Peers : EraseOrphansFor(peer)
               \/ \E t \in Lockable : LockInputs(t) \/ ReleaseInputs(t)
        PROVE  tip' = tip
    BY <1>4 DEF vars, AcceptTx, OrphanTx, ResolveOrphans, FinishTx, EraseOrphansFor, LockInputs, ReleaseInputs
  <1> QED BY <1>2, <1>3, <1>4 DEF Next

\* DisconnectTip: each transaction of a disconnected block is in the pool afterwards unless
\* AcceptToMemoryPool refuses its kind, an input is locked for another one, or one is not
\* there to be spent: the order of the block is enough for all that depend on each other,
\* and no later removal with descendants takes away what has returned.
THEOREM BlocksReturn ==
    ASSUME CoinbasesDiffer
    PROVE  Spec => Resurrects
  <1>1. Init => Inv /\ Unconfirmed
    BY InitInv, ChainGrows DEF Init, Unconfirmed, PoolUnconfirmed
  <1>2. Inv /\ Unconfirmed /\ [Next]_vars => (Inv /\ Unconfirmed)'
    BY NextInv, UnconfirmedKept
  <1>3. Inv /\ Unconfirmed /\ [Next]_vars =>
          [tip /= Genesis /\ tip' = Parent[tip] =>
             \A i \in DOMAIN vtx[tip] :
                LET t == vtx[tip][i]
                    U == UtxoOf[tip']
                IN  \/ t \in mapTx'
                    \/ t \in CoinBases \cup CoinStakes \cup Nonstandard \cup LowPriority \cup BadScripts
                    \/ \E o \in Prevouts(t) :
                          \/ mapLockedInputs[o] \notin {None, t}
                          \/ o[1] \notin mapTx' /\ ~\E u \in U : <<u.tx, u.n>> = o /\ ~Immature(u, Height[tip])
          ]_vars
    <2> SUFFICES ASSUME Inv, Unconfirmed, [Next]_vars, tip /= Genesis, tip' = Parent[tip],
                        NEW i \in DOMAIN vtx[tip], vtx[tip][i] \notin Refused,
                        \A o \in Prevouts(vtx[tip][i]) :
                           /\ mapLockedInputs[o] \in {None, vtx[tip][i]}
                           /\ \/ o[1] \in mapTx'
                              \/ \E u \in UtxoOf[tip'] : <<u.tx, u.n>> = o /\ ~Immature(u, Height[tip])
                 PROVE  vtx[tip][i] \in mapTx'
      BY DEF Refused
    <2> DEFINE n == Len(vtx[tip])
               U == UtxoOf[Parent[tip]]
               h == Height[tip]
               s == removeCoinbaseSpends(Resurrected(Pool, tip), U, h)
    <2>1. PICK q : ReturnRun(q, s, tip, n, U, h)
      BY ReturnRunExists
    <2>2. mapTx' = s.tx
      BY BackToParent DEF DisconnectTip, PoolBecomes
    <2>3. i \in 1 .. n
      BY BlockTxs DEF Inv, TypeOK
    <2>4. InputsKept(vtx[tip][i], s, U, h)
      BY <2>2 DEF InputsKept
    <2> HIDE DEF n, U, h, s
    <2>5. vtx[tip][i] \in q[i].tx
      BY <2>1, <2>3, <2>4, AcceptedInTurn
    <2>6. vtx[tip][i] \in s.tx
      BY <2>1, <2>3, <2>4, <2>5, StaysInPool
    <2> QED BY <2>2, <2>6
  <1> QED BY <1>1, <1>2, <1>3, PTL DEF Spec, Resurrects
==============================================================================
