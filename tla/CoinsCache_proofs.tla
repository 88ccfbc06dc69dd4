--------------------------- MODULE CoinsCache_proofs ---------------------------
(***************************************************************************)
(* Proofs about CoinsCache, for any transactions and blocks.               *)
(*                                                                         *)
(* The coins of an entry stay normal: they end with an unspent output.     *)
(* Normal coins that are not pruned survive the format on disk, so that a  *)
(* clean entry can be compared with the database after every flush.  The   *)
(* loops over inputs and transactions keep Work, the relation between the  *)
(* database, pcoinsTip and the cache of a block: what pcoinsTip does not   *)
(* know, the database does not know either, and the block's entry is       *)
(* fresh.  That is what BatchWrite asserts and what it needs to keep the   *)
(* flags of pcoinsTip true (Inv).                                          *)
(*                                                                         *)
(* What the coins stand for is told by the ledger: a set of outputs that   *)
(* are unspent after a chain of blocks, or after a part of one more.  Each *)
(* step of ConnectBlock and DisconnectBlock is shown to do to what is seen *)
(* through the caches (Seen) what it does to that set, and each write of a *)
(* layer to the one below to leave it alone.  So the database and          *)
(* pcoinsTip stand for the chain up to their best blocks, the undo data of *)
(* a block restores what the block spent, and VerifyDB, which disconnects  *)
(* and connects such blocks, finds nothing wrong (ChainInv).               *)
(***************************************************************************)
EXTENDS CoinsCache, TLAPS, FiniteSetTheorems, SequenceTheorems

-----------------------------------------------------------------------------
(* Numbers and loops.                                                      *)

\* A set of numbers has a least one.
LEMMA LeastNatural ==
    ASSUME NEW T \in SUBSET Nat, T /= {}
    PROVE  \E m \in T : \A k \in T : m <= k
  <1> DEFINE below(m) == 0 .. m - 1
             F == {below(m) : m \in T}
  <1>1. F \subseteq FiniteSubsetsOf(Nat) /\ F /= {}
    <2>1. \A m \in T : IsFiniteSet(below(m)) /\ below(m) \in SUBSET Nat
      BY FS_Interval
    <2>2. \A m \in T : below(m) \in FiniteSubsetsOf(Nat)
      BY <2>1 DEF FiniteSubsetsOf
    <2> HIDE DEF below
    <2> QED BY <2>2
  <1>2. PICK A \in F : \A B \in F : ~ (<<B, A>> \in StrictSubsetOrdering(Nat))
    <2> HIDE DEF F
    <2> QED BY <1>1, FS_StrictSubsetOrderingWellFounded, WFMin
  <1>3. PICK m \in T : A = below(m)
    OBVIOUS
  <1>4. ASSUME NEW k \in T, k < m PROVE FALSE
    <2>1. below(k) \in F /\ below(k) \in SUBSET Nat /\ below(m) \in SUBSET Nat
      OBVIOUS
    <2>2. below(k) \subseteq below(m) /\ k \in below(m) /\ k \notin below(k)
      BY <1>4
    <2>3. below(k) /= below(m)
      BY <2>2
    <2>4. <<below(k), below(m)>> \in StrictSubsetOrdering(Nat)
      <3> HIDE DEF below
      <3> QED BY <2>1, <2>2, <2>3 DEF StrictSubsetOrdering
    <2> QED BY <1>2, <1>3, <2>1, <2>4
  <1> QED BY <1>4

\* Min and Max of a bounded set of numbers.
LEMMA MinOfNaturals ==
    ASSUME NEW T \in SUBSET Nat, T /= {}
    PROVE  Min(T) \in T /\ \A k \in T : Min(T) <= k
  BY LeastNatural DEF Min

LEMMA MaxOfNaturals ==
    ASSUME NEW T \in SUBSET Nat, T /= {}, NEW n \in Nat, \A k \in T : k <= n
    PROVE  Max(T) \in T /\ \A k \in T : k <= Max(T)
  <1> DEFINE U == {n - k : k \in T}
  <1>1. U \in SUBSET Nat /\ U /= {}
    <2>1. \A k \in T : n - k \in Nat
      OBVIOUS
    <2> QED BY <2>1
  <1>2. PICK u \in U : \A v \in U : u <= v
    BY <1>1, LeastNatural
  <1>3. PICK m \in T : u = n - m
    OBVIOUS
  <1>4. \A k \in T : m >= k
    <2>1. \A k \in T : n - m <= n - k
      BY <1>2, <1>3
    <2> QED BY <2>1
  <1>5. \E x \in T : \A y \in T : x >= y
    BY <1>4
  <1>6. Max(T) \in T /\ \A y \in T : Max(T) >= y
    BY <1>5 DEF Max
  <1> QED BY <1>6

LEMMA Listed ==
    ASSUME NEW n \in Nat, NEW X, NEW f \in [1 .. n -> X]
    PROVE  f \in Seq(X) /\ Len(f) = n /\ DOMAIN f = 1 .. n
  OBVIOUS

\* What holds before a loop, and is kept by each turn, holds after every turn.
LEMMA EveryTurn ==
    ASSUME NEW n \in Nat, NEW G, 0 \in G, \A i \in 1 .. n : i - 1 \in G => i \in G
    PROVE  0 .. n \subseteq G
  <1> DEFINE S == {i \in 0 .. n : i \notin G}
  <1> SUFFICES ASSUME S /= {} PROVE FALSE
    OBVIOUS
  <1>1. PICK m \in S : \A k \in S : m <= k
    <2>1. S \in SUBSET Nat
      OBVIOUS
    <2> HIDE DEF S
    <2> QED BY <2>1, LeastNatural
  <1>2. m \in 1 .. n /\ m - 1 \in 0 .. n /\ m - 1 \notin S
    BY <1>1
  <1> QED BY <1>1, <1>2

\* A loop that starts with x0 and has F[i] for its i-th turn ends, if each turn can work
\* with what the one before it leaves (I).
Runs(f, n, X, x0, F, I) ==
    /\ f \in [0 .. n -> X] /\ f[0] = x0
    /\ \A i \in 1 .. n : f[i] = F[i][f[i - 1]]
    /\ \A i \in 0 .. n : f[i] \in I[i]

LEMMA Loop ==
    ASSUME NEW n \in Nat, NEW X, NEW x0, NEW F, NEW I \in [0 .. n -> SUBSET X],
           x0 \in I[0], \A i \in 1 .. n : \A x \in I[i - 1] : F[i][x] \in I[i]
    PROVE  \E f : Runs(f, n, X, x0, F, I)
  <1> DEFINE Run(f, k) == Runs(f, k, X, x0, F, I)
             G == {k \in 0 .. n : \E f : Run(f, k)}
  <1>1. 0 \in G
    <2> DEFINE f == [i \in 0 .. 0 |-> x0]
    <2>1. x0 \in X
      OBVIOUS
    <2>2. f \in [0 .. 0 -> X] /\ f[0] = x0 /\ (\A i \in 0 .. 0 : f[i] \in I[i]) /\ 1 .. 0 = {}
      BY <2>1
    <2> HIDE DEF f
    <2>3. Run(f, 0)
      BY <2>2 DEF Runs
    <2> QED BY <2>3
  <1>2. ASSUME NEW k \in 1 .. n, k - 1 \in G PROVE k \in G
    <2>1. PICK f : Run(f, k - 1)
      BY <1>2
    <2> DEFINE e == [i \in 0 .. k |-> IF i = k THEN F[k][f[k - 1]] ELSE f[i]]
    <2>2. /\ f \in [0 .. k - 1 -> X] /\ f[0] = x0 /\ \A i \in 1 .. k - 1 : f[i] = F[i][f[i - 1]]
          /\ \A i \in 0 .. k - 1 : f[i] \in I[i]
      BY <2>1 DEF Runs
    <2>3. F[k][f[k - 1]] \in I[k] /\ F[k][f[k - 1]] \in X
      <3>1. f[k - 1] \in I[k - 1]
        BY <2>2
      <3> QED BY <3>1
    <2>4. e \in [0 .. k -> X] /\ e[0] = x0 /\ e[k] = F[k][f[k - 1]] /\ \A i \in 0 .. k - 1 : e[i] = f[i]
      BY <2>2, <2>3
    <2> HIDE DEF e
    <2>5. \A i \in 1 .. k : e[i] = F[i][e[i - 1]]
      BY <2>2, <2>4
    <2>6. \A i \in 0 .. k : e[i] \in I[i]
      BY <2>2, <2>3, <2>4
    <2>7. Run(e, k)
      BY <2>4, <2>5, <2>6 DEF Runs
    <2> QED BY <2>7
  <1>3. n \in G
    <2> HIDE DEF G
    <2>1. 0 .. n \subseteq G
      BY <1>1, <1>2, EveryTurn
    <2> QED BY <2>1
  <1> QED BY <1>3

\* The numbers of a finite set are counted off by their ranks.
LEMMA Ranks ==
    ASSUME NEW S \in SUBSET Nat, IsFiniteSet(S)
    PROVE  /\ Cardinality(S) \in Nat
           /\ \A i \in S : Rank(S, i) \in 1 .. Cardinality(S)
           /\ \A i, j \in S : Rank(S, i) = Rank(S, j) => i = j
           /\ \A i \in S : Nth(S, Rank(S, i)) = i
           /\ \A k \in 1 .. Cardinality(S) : Nth(S, k) \in S
  <1> DEFINE upto(i) == {j \in S : j <= i}
  <1>1. Cardinality(S) \in Nat
    BY FS_CardinalityType
  <1>2. \A i \in S : /\ upto(i) \in SUBSET S /\ IsFiniteSet(upto(i)) /\ Cardinality(upto(i)) \in Nat
                     /\ Cardinality(upto(i)) <= Cardinality(S)
    <2> SUFFICES ASSUME NEW i \in S
                 PROVE  /\ upto(i) \in SUBSET S /\ IsFiniteSet(upto(i)) /\ Cardinality(upto(i)) \in Nat
                        /\ Cardinality(upto(i)) <= Cardinality(S)
      OBVIOUS
    <2>1. upto(i) \in SUBSET S
      OBVIOUS
    <2> HIDE DEF upto
    <2> QED BY <2>1, FS_Subset, FS_CardinalityType
  <1>3. \A i \in S : Rank(S, i) = Cardinality(upto(i))
    BY DEF Rank
  <1>4. \A i \in S : Cardinality(upto(i)) /= 0
    <2> SUFFICES ASSUME NEW i \in S, Cardinality(upto(i)) = 0 PROVE FALSE
      OBVIOUS
    <2>1. i \in upto(i)
      OBVIOUS
    <2> HIDE DEF upto
    <2> QED BY <1>2, <2>1, FS_EmptySet
  <1>5. \A i \in S : Rank(S, i) \in 1 .. Cardinality(S)
    <2> HIDE DEF upto
    <2> QED BY <1>1, <1>2, <1>3, <1>4
  <1>6. \A i, j \in S : i < j => Rank(S, i) /= Rank(S, j)
    <2> SUFFICES ASSUME NEW i \in S, NEW j \in S, i < j, Rank(S, i) = Rank(S, j) PROVE FALSE
      OBVIOUS
    <2>1. j \in upto(j) /\ j \notin upto(i) /\ \A k \in upto(i) : k \in upto(j)
      OBVIOUS
    <2>2. upto(i) = upto(j)
      <3> HIDE DEF upto
      <3> QED BY <1>2, <1>3, <2>1, FS_Subset
    <2> QED BY <2>1, <2>2
  <1>7. \A i, j \in S : Rank(S, i) = Rank(S, j) => i = j
    <2> SUFFICES ASSUME NEW i \in S, NEW j \in S, Rank(S, i) = Rank(S, j), i /= j PROVE FALSE
      OBVIOUS
    <2>1. i < j \/ j < i
      OBVIOUS
    <2> QED BY <1>6, <2>1
  <1>8. \A k \in 1 .. Cardinality(S) : \E i \in S : Rank(S, i) = k
    <2> DEFINE f == [i \in S |-> Rank(S, i)]
    <2>1. f \in [S -> 1 .. Cardinality(S)] /\ \A i, j \in S : f[i] = f[j] => i = j
      BY <1>5, <1>7
    <2> HIDE DEF f
    <2>2. f \in Injection(S, 1 .. Cardinality(S))
      BY <2>1 DEF Injection, IsInjective
    <2>3. IsFiniteSet(1 .. Cardinality(S)) /\ Cardinality(1 .. Cardinality(S)) = Cardinality(S)
      BY <1>1, FS_Interval
    <2>4. f \in Surjection(S, 1 .. Cardinality(S))
      BY <2>2, <2>3, FS_Injection
    <2>5. \A k \in 1 .. Cardinality(S) : \E i \in S : f[i] = k
      BY <2>4 DEF Surjection
    <2> QED BY <2>5 DEF f
  <1>9. \A i \in S : Nth(S, Rank(S, i)) = i
    BY <1>7 DEF Nth
  <1>10. \A k \in 1 .. Cardinality(S) : Nth(S, k) \in S
    BY <1>8 DEF Nth
  <1> QED BY <1>1, <1>5, <1>7, <1>9, <1>10

-----------------------------------------------------------------------------
(* Coins of a transaction.                                                 *)

\* Coins without spent outputs at the end.
Normal(c) == c \in CoinsType /\ c.vout = Trimmed(c.vout)

LEMMA UnspentAre ==
    ASSUME NEW v \in Seq(Outputs)
    PROVE  /\ Len(v) \in Nat /\ DOMAIN v = 1 .. Len(v)
           /\ Unspent(v) \in SUBSET (1 .. Len(v)) /\ Unspent(v) \in SUBSET Nat /\ IsFiniteSet(Unspent(v))
           /\ \A i \in 1 .. Len(v) : v[i] \in Outputs /\ (i \in Unspent(v) <=> v[i] /= "null")
           /\ Unspent(v) /= {} => Max(Unspent(v)) \in Unspent(v) /\ \A i \in Unspent(v) : i <= Max(Unspent(v))
  <1>1. Len(v) \in Nat /\ DOMAIN v = 1 .. Len(v) /\ \A i \in 1 .. Len(v) : v[i] \in Outputs
    OBVIOUS
  <1>2. Unspent(v) \in SUBSET (1 .. Len(v)) /\ \A i \in 1 .. Len(v) : i \in Unspent(v) <=> v[i] /= "null"
    BY <1>1 DEF Unspent
  <1>3. Unspent(v) \in SUBSET Nat /\ \A i \in Unspent(v) : i <= Len(v)
    BY <1>1, <1>2
  <1>4. IsFiniteSet(Unspent(v))
    <2>1. IsFiniteSet(1 .. Len(v))
      BY <1>1, FS_Interval
    <2> QED BY <1>2, <2>1, FS_Subset
  <1>5. Unspent(v) /= {} => Max(Unspent(v)) \in Unspent(v) /\ \A i \in Unspent(v) : i <= Max(Unspent(v))
    BY <1>1, <1>3, MaxOfNaturals
  <1> QED BY <1>1, <1>2, <1>3, <1>4, <1>5

LEMMA TrimmedIs ==
    ASSUME NEW v \in Seq(Outputs)
    PROVE  /\ Trimmed(v) \in Seq(Outputs) /\ Unspent(Trimmed(v)) = Unspent(v)
           /\ Len(Trimmed(v)) = (IF Unspent(v) = {} THEN 0 ELSE Max(Unspent(v)))
           /\ Len(Trimmed(v)) <= Len(v)
           /\ \A i \in 1 .. Len(Trimmed(v)) : Trimmed(v)[i] = v[i]
           /\ Trimmed(Trimmed(v)) = Trimmed(v)
  <1> DEFINE n == IF Unspent(v) = {} THEN 0 ELSE Max(Unspent(v))
             w == SubSeq(v, 1, n)
  <1>1. n \in 0 .. Len(v) /\ n \in Nat /\ n <= Len(v)
    BY UnspentAre
  <1>2. \A i \in Unspent(v) : i \in 1 .. n
    BY UnspentAre
  <1>3. Trimmed(v) = w
    BY DEF Trimmed
  <1> HIDE DEF n
  <1>4. w \in Seq(Outputs) /\ Len(w) = n /\ \A i \in 1 .. n : w[i] = v[i]
    <2>1. \A i \in 1 .. n : v[i] \in Outputs
      BY <1>1, UnspentAre
    <2>2. /\ w \in Seq(Outputs) /\ Len(w) = IF 1 <= n THEN n - 1 + 1 ELSE 0
          /\ \A i \in 1 .. n - 1 + 1 : w[i] = v[1 + i - 1]
      BY <1>1, <2>1, SubSeqProperties
    <2> HIDE DEF w
    <2>3. n - 1 + 1 = n /\ \A i \in 1 .. n : 1 + i - 1 = i
      BY <1>1
    <2>4. Len(w) = n
      BY <1>1, <2>2
    <2>5. \A i \in 1 .. n : w[i] = v[i]
      BY <2>2, <2>3
    <2> QED BY <2>2, <2>4, <2>5
  <1> HIDE DEF w
  <1>5. Unspent(w) = Unspent(v)
    <2>1. \A i : i \in Unspent(w) <=> i \in 1 .. n /\ w[i] /= "null"
      BY <1>4, UnspentAre
    <2>2. \A i : i \in Unspent(v) <=> i \in 1 .. Len(v) /\ v[i] /= "null"
      BY UnspentAre
    <2>3. \A i \in 1 .. n : i \in 1 .. Len(v)
      BY <1>1, UnspentAre
    <2>4. \A i : i \in Unspent(w) <=> i \in Unspent(v)
      BY <1>2, <1>4, <2>1, <2>2, <2>3
    <2> QED BY <2>4
  <1>6. Trimmed(w) = w
    <2>1. Trimmed(w) = SubSeq(w, 1, n)
      BY <1>5 DEF Trimmed, n
    <2> QED BY <1>4, <2>1, SubSeqFull
  <1> QED BY <1>1, <1>3, <1>4, <1>5, <1>6 DEF n

\* Cleanup makes coins normal and keeps what is unspent.
LEMMA CleanedUp ==
    ASSUME NEW c \in CoinsType
    PROVE  /\ Normal(Cleanup(c)) /\ Unspent(Cleanup(c).vout) = Unspent(c.vout)
           /\ IsPruned(Cleanup(c)) <=> IsPruned(c)
           /\ Normal(c) => Cleanup(c) = c
  <1>1. c.vout \in Seq(Outputs)
    BY DEF CoinsType
  <1>2. Cleanup(c) \in CoinsType /\ Cleanup(c).vout = Trimmed(c.vout)
    BY <1>1, TrimmedIs DEF CoinsType, Cleanup
  <1>3. Unspent(Cleanup(c).vout) = Unspent(c.vout) /\ Cleanup(c).vout = Trimmed(Cleanup(c).vout)
    BY <1>1, <1>2, TrimmedIs
  <1>4. Normal(c) => Cleanup(c) = c
    BY DEF Normal, Cleanup, CoinsType
  <1> QED BY <1>2, <1>3, <1>4 DEF Normal, IsPruned

-----------------------------------------------------------------------------
(* The format on disk.                                                     *)

LEMMA Division ==
    ASSUME NEW i \in Nat, NEW l \in Nat, i <= l
    PROVE  i \div 8 \in Nat /\ i \div 8 <= l \div 8 /\ i % 8 \in 0 .. 7 /\ i = 8 * (i \div 8) + (i % 8)
  OBVIOUS

\* A code: a number over four flags.
Code(q, a, b, c, d) == 16 * q + Bit(a) + 2 * Bit(b) + 4 * Bit(c) + 8 * Bit(d)

LEMMA CodeBits ==
    ASSUME NEW q \in Nat, NEW a \in BOOLEAN, NEW b \in BOOLEAN, NEW c \in BOOLEAN, NEW d \in BOOLEAN
    PROVE  LET n == Code(q, a, b, c, d)
           IN  /\ n \in Nat /\ n \div 16 = q
               /\ (Flag(n, 1) <=> a) /\ (Flag(n, 2) <=> b) /\ (Flag(n, 4) <=> c) /\ (Flag(n, 8) <=> d)
  <1> DEFINE n == Code(q, a, b, c, d)
  <1>1. \A f \in BOOLEAN : Bit(f) \in {0, 1} /\ (Bit(f) = 1 <=> f)
    BY DEF Bit
  <1>2. Bit(a) \in {0, 1} /\ Bit(b) \in {0, 1} /\ Bit(c) \in {0, 1} /\ Bit(d) \in {0, 1}
    BY <1>1
  <1>3. /\ n \in Nat /\ n \div 16 = q /\ (n \div 1) % 2 = Bit(a) /\ (n \div 2) % 2 = Bit(b)
        /\ (n \div 4) % 2 = Bit(c) /\ (n \div 8) % 2 = Bit(d)
    <2> DEFINE A == Bit(a)
               B == Bit(b)
               C == Bit(c)
               D == Bit(d)
    <2>1. A \in {0, 1} /\ B \in {0, 1} /\ C \in {0, 1} /\ D \in {0, 1}
      BY <1>2
    <2>2. n = 16 * q + A + 2 * B + 4 * C + 8 * D
      BY DEF Code
    <2> HIDE DEF A, B, C, D, n
    <2>3. /\ n \in Nat /\ n \div 16 = q /\ (n \div 1) % 2 = A /\ (n \div 2) % 2 = B
          /\ (n \div 4) % 2 = C /\ (n \div 8) % 2 = D
      BY <2>1, <2>2
    <2> QED BY <2>3 DEF A, B, C, D, n
  <1>4. (Bit(a) = 1 <=> a) /\ (Bit(b) = 1 <=> b) /\ (Bit(c) = 1 <=> c) /\ (Bit(d) = 1 <=> d)
    BY <1>1
  <1> HIDE DEF n
  <1>5. /\ n \in Nat /\ n \div 16 = q
        /\ (Flag(n, 1) <=> a) /\ (Flag(n, 2) <=> b) /\ (Flag(n, 4) <=> c) /\ (Flag(n, 8) <=> d)
    BY <1>3, <1>4 DEF Flag
  <1> QED BY <1>5 DEF n

\* Which byte of the mask an output is in.
LEMMA InMask ==
    ASSUME NEW v \in Seq(Outputs)
    PROVE  /\ \A i \in Unspent(v) : i >= 3 =>
                 \E b \in 0 .. Len(v) \div 8 : \E j \in 0 .. 7 : i = 3 + 8 * b + j
           /\ \A b \in Nat : MaskByte(v, b) \in SUBSET (0 .. 7)
           /\ \A b \in Nat : \A j \in 0 .. 7 : j \in MaskByte(v, b) <=> 3 + 8 * b + j \in Unspent(v)
           /\ UsedBytes(v) \in SUBSET (0 .. Len(v) \div 8) /\ UsedBytes(v) \in SUBSET Nat
           /\ Len(v) \div 8 \in Nat
           /\ IsFiniteSet(UsedBytes(v)) /\ Cardinality(UsedBytes(v)) \in Nat
  <1>1. Len(v) \in Nat /\ Len(v) \div 8 \in Nat /\ \A i \in Unspent(v) : i \in 1 .. Len(v)
    BY UnspentAre
  <1>2. ASSUME NEW i \in Unspent(v), i >= 3
        PROVE  \E b \in 0 .. Len(v) \div 8 : \E j \in 0 .. 7 : i = 3 + 8 * b + j
    <2> DEFINE k == i - 3
               b == k \div 8
               j == k % 8
               K == Len(v) \div 8
    <2>1. k \in Nat /\ k <= Len(v) /\ i = 3 + k
      BY <1>1, <1>2
    <2> HIDE DEF k
    <2>2. b \in Nat /\ b <= K /\ j \in 0 .. 7 /\ k = 8 * b + j
      BY <1>1, <2>1, Division
    <2>3. K \in Nat
      BY <1>1
    <2> HIDE DEF b, j, K
    <2>4. b \in 0 .. K /\ i = 3 + 8 * b + j
      BY <2>1, <2>2, <2>3
    <2>5. \E b_1 \in 0 .. K : \E j_1 \in 0 .. 7 : i = 3 + 8 * b_1 + j_1
      BY <2>2, <2>4
    <2> QED BY <2>5 DEF K
  <1>3. \A b \in Nat : MaskByte(v, b) \in SUBSET (0 .. 7)
    BY DEF MaskByte
  <1>4. \A b \in Nat : \A j \in 0 .. 7 : j \in MaskByte(v, b) <=> 3 + 8 * b + j \in Unspent(v)
    BY DEF MaskByte
  <1>5. UsedBytes(v) \in SUBSET (0 .. Len(v) \div 8)
    BY DEF UsedBytes
  <1>6. UsedBytes(v) \in SUBSET Nat
    BY <1>1, <1>5
  <1>7. IsFiniteSet(UsedBytes(v)) /\ Cardinality(UsedBytes(v)) \in Nat
    <2>1. IsFiniteSet(0 .. Len(v) \div 8)
      BY <1>1, FS_Interval
    <2> QED BY <1>5, <2>1, FS_Subset, FS_CardinalityType
  <1> QED BY <1>1, <1>2, <1>3, <1>4, <1>5, <1>6, <1>7

\* The mask ends with the last byte that is not zero.
LEMMA MaskSizeIs ==
    ASSUME NEW v \in Seq(Outputs)
    PROVE  LET size == CalcMaskSize(v)
           IN  /\ size.nBytes \in Nat /\ size.nNonzeroBytes = Cardinality(UsedBytes(v))
               /\ UsedBytes(v) \in SUBSET (0 .. size.nBytes - 1)
               /\ size.nBytes > 0 => size.nBytes - 1 \in UsedBytes(v)
               /\ \A b \in 0 .. size.nBytes - 1 : MaskByte(v, b) /= {} <=> b \in UsedBytes(v)
  <1> DEFINE n == IF UsedBytes(v) = {} THEN 0 ELSE Max(UsedBytes(v)) + 1
             K == Len(v) \div 8
  <1>0. UsedBytes(v) \in SUBSET (0 .. K) /\ UsedBytes(v) \in SUBSET Nat /\ K \in Nat
    BY InMask
  <1>1. CalcMaskSize(v).nBytes = n /\ CalcMaskSize(v).nNonzeroBytes = Cardinality(UsedBytes(v))
    BY DEF CalcMaskSize
  <1>2. UsedBytes(v) /= {} => Max(UsedBytes(v)) \in UsedBytes(v) /\ \A k \in UsedBytes(v) : k <= Max(UsedBytes(v))
    <2> HIDE DEF K
    <2>1. \A k \in UsedBytes(v) : k <= K
      BY <1>0
    <2> QED BY <1>0, <2>1, MaxOfNaturals
  <1>3. n \in Nat /\ (\A k \in UsedBytes(v) : k \in 0 .. n - 1) /\ (n > 0 => n - 1 \in UsedBytes(v))
    <2> HIDE DEF K
    <2>1. CASE UsedBytes(v) = {}
      BY <2>1
    <2>2. CASE UsedBytes(v) /= {}
      <3> DEFINE m == Max(UsedBytes(v))
      <3>1. m \in Nat /\ n = m + 1 /\ m \in UsedBytes(v) /\ \A k \in UsedBytes(v) : k \in Nat /\ k <= m
        BY <1>0, <1>2, <2>2
      <3> HIDE DEF m, n
      <3> QED BY <3>1
    <2> QED BY <2>1, <2>2
  <1>4. \A b \in 0 .. n - 1 : b \in 0 .. K
    <2> HIDE DEF n, K
    <2>1. CASE n = 0
      BY <2>1
    <2>2. CASE n > 0
      <3>1. n - 1 <= K
        BY <1>0, <1>3, <2>2
      <3> QED BY <1>0, <1>3, <3>1
    <2> QED BY <1>3, <2>1, <2>2
  <1>5. \A b \in 0 .. n - 1 : MaskByte(v, b) /= {} <=> b \in UsedBytes(v)
    BY <1>4 DEF UsedBytes
  <1> HIDE DEF n
  <1> QED BY <1>1, <1>3, <1>5

\* What Serialize writes.
LEMMA Serialized ==
    ASSUME NEW c, Normal(c), ~IsPruned(c)
    PROVE  LET s == Serialize(c)
               U == Unspent(c.vout)
               N == Cardinality(UsedBytes(c.vout))
               M == CalcMaskSize(c.vout).nBytes
           IN  /\ s \in StoredType
               /\ Flag(s.nCode, 1) = c.fCoinBase /\ Flag(s.nCode, 2) = c.fCoinStake
               /\ Flag(s.nCode, 4) = (1 \in U) /\ Flag(s.nCode, 8) = (2 \in U)
               /\ s.nCode \div 16 + Bit(~Flag(s.nCode, 4) /\ ~Flag(s.nCode, 8)) = N
               /\ s.mask \in Seq(SUBSET (0 .. 7)) /\ Len(s.mask) = M
               /\ \A b \in 1 .. M : s.mask[b] = MaskByte(c.vout, b - 1)
               /\ \A i \in U : s.txouts[Rank(U, i)] = c.vout[i]
               /\ s.nHeight = c.nHeight
  <1> DEFINE s == Serialize(c)
             v == c.vout
             U == Unspent(v)
             N == Cardinality(UsedBytes(v))
             M == CalcMaskSize(v).nBytes
             f == 1 \in U
             g == 2 \in U
             none == ~(f \/ g)
             q == N - Bit(none)
  <1>1. c \in CoinsType /\ v \in Seq(Outputs) /\ U /= {}
    BY DEF Normal, CoinsType, IsPruned
  <1>2. U \in SUBSET Nat /\ IsFiniteSet(U) /\ \A i \in U : i >= 1 /\ v[i] \in Outputs
    BY <1>1, UnspentAre
  <1>3. N \in Nat /\ M \in Nat /\ \A b \in 1 .. M : MaskByte(v, b - 1) \in SUBSET (0 .. 7)
    BY <1>1, InMask, MaskSizeIs
  <1>4. none => N /= 0
    <2> SUFFICES ASSUME none, N = 0 PROVE FALSE
      OBVIOUS
    <2>1. PICK i \in U : i >= 3
      BY <1>1, <1>2
    <2> DEFINE K == Len(v) \div 8
    <2>a. \A k \in U : k >= 3 => \E b \in 0 .. K : \E j \in 0 .. 7 : k = 3 + 8 * b + j
      BY <1>1, InMask
    <2>2. PICK b \in 0 .. K : \E j \in 0 .. 7 : i = 3 + 8 * b + j
      <3> HIDE DEF K, U
      <3> QED BY <2>1, <2>a
    <2>3. PICK j \in 0 .. 7 : i = 3 + 8 * b + j
      BY <2>2
    <2>4. j \in MaskByte(v, b)
      BY <2>1, <2>3 DEF MaskByte
    <2>5. b \in UsedBytes(v)
      BY <2>4 DEF UsedBytes
    <2> QED BY <1>1, <2>5, InMask, FS_EmptySet
  <1>5. q \in Nat /\ q + Bit(none) = N
    BY <1>3, <1>4 DEF Bit
  <1>6. /\ s.nCode = Code(q, c.fCoinBase, c.fCoinStake, f, g)
        /\ s.mask = [b \in 1 .. M |-> MaskByte(v, b - 1)]
        /\ s.txouts = [k \in 1 .. Cardinality(U) |-> v[Nth(U, k)]]
        /\ s.nHeight = c.nHeight
        /\ s = [nCode |-> s.nCode, mask |-> s.mask, txouts |-> s.txouts, nHeight |-> s.nHeight]
    BY <1>1, MaskSizeIs DEF Serialize, IsAvailable, Code
  <1>7. /\ s.nCode \in Nat /\ s.nCode \div 16 = q
        /\ (Flag(s.nCode, 1) <=> c.fCoinBase) /\ (Flag(s.nCode, 2) <=> c.fCoinStake)
        /\ (Flag(s.nCode, 4) <=> f) /\ (Flag(s.nCode, 8) <=> g)
    <2>1. c.fCoinBase \in BOOLEAN /\ c.fCoinStake \in BOOLEAN /\ f \in BOOLEAN /\ g \in BOOLEAN
      BY <1>1 DEF CoinsType
    <2> DEFINE a == c.fCoinBase
               b == c.fCoinStake
    <2>2. s.nCode = Code(q, a, b, f, g)
      BY <1>6
    <2> HIDE DEF s, q, a, b, f, g
    <2>3. q \in Nat /\ a \in BOOLEAN /\ b \in BOOLEAN /\ f \in BOOLEAN /\ g \in BOOLEAN
      BY <1>5, <2>1 DEF a, b
    <2> DEFINE n == Code(q, a, b, f, g)
    <2>4. /\ n \in Nat /\ n \div 16 = q
          /\ (Flag(n, 1) <=> a) /\ (Flag(n, 2) <=> b) /\ (Flag(n, 4) <=> f) /\ (Flag(n, 8) <=> g)
      BY <2>3, CodeBits
    <2> QED BY <2>2, <2>4 DEF a, b
  <1>8. s.mask \in Seq(SUBSET (0 .. 7)) /\ Len(s.mask) = M /\ \A b \in 1 .. M : s.mask[b] = MaskByte(v, b - 1)
    <2> HIDE DEF s, M
    <2>1. s.mask \in [1 .. M -> SUBSET (0 .. 7)] /\ \A b \in 1 .. M : s.mask[b] = MaskByte(v, b - 1)
      BY <1>3, <1>6
    <2> QED BY <1>3, <2>1, Listed
  <1>9. s.txouts \in Seq(Outputs) /\ \A i \in U : s.txouts[Rank(U, i)] = v[i]
    <2> HIDE DEF s, U
    <2>1. /\ Cardinality(U) \in Nat /\ \A k \in 1 .. Cardinality(U) : Nth(U, k) \in U
          /\ \A i \in U : Rank(U, i) \in 1 .. Cardinality(U) /\ Nth(U, Rank(U, i)) = i
      BY <1>2, Ranks
    <2>2. \A k \in 1 .. Cardinality(U) : v[Nth(U, k)] \in Outputs
      BY <1>2, <2>1
    <2> DEFINE C == Cardinality(U)
    <2>3. s.txouts \in [1 .. C -> Outputs] /\ \A k \in 1 .. C : s.txouts[k] = v[Nth(U, k)]
      BY <1>6, <2>2
    <2>4. \A i \in U : s.txouts[Rank(U, i)] = v[i]
      BY <2>1, <2>3
    <2> QED BY <2>1, <2>3, <2>4, Listed
  <1>10. s \in StoredType
    <2>1. s.nHeight \in Nat
      BY <1>1, <1>6 DEF CoinsType
    <2> HIDE DEF s
    <2> QED BY <1>6, <1>7, <1>8, <1>9, <2>1 DEF StoredType
  <1>11. s.nCode \div 16 + Bit(~Flag(s.nCode, 4) /\ ~Flag(s.nCode, 8)) = N
    <2>1. Bit(~Flag(s.nCode, 4) /\ ~Flag(s.nCode, 8)) = Bit(none)
      <3> HIDE DEF s
      <3> QED BY <1>7 DEF Bit
    <2> HIDE DEF s, q, N, none
    <2> QED BY <1>5, <1>7, <2>1
  <1>12. Flag(s.nCode, 1) = c.fCoinBase /\ Flag(s.nCode, 2) = c.fCoinStake
         /\ Flag(s.nCode, 4) = f /\ Flag(s.nCode, 8) = g
    <2>1. c.fCoinBase \in BOOLEAN /\ c.fCoinStake \in BOOLEAN /\ f \in BOOLEAN /\ g \in BOOLEAN
      BY <1>1 DEF CoinsType
    <2>2. \A n, w : Flag(n, w) \in BOOLEAN
      BY DEF Flag
    <2> HIDE DEF s
    <2> QED BY <1>7, <2>1, <2>2
  <1> HIDE DEF s, N, M
  <1> QED BY <1>6, <1>8, <1>9, <1>10, <1>11, <1>12 DEF s, N, M

\* The mask is read to its end.
LEMMA MaskIsRead ==
    ASSUME NEW c, Normal(c), ~IsPruned(c)
    PROVE  MaskLength(Serialize(c)) = CalcMaskSize(c.vout).nBytes
  <1> DEFINE s == Serialize(c)
             v == c.vout
             K == UsedBytes(v)
             N == Cardinality(K)
             M == CalcMaskSize(v).nBytes
             used(k) == {b \in 0 .. k - 1 : s.mask[b + 1] /= {}}
             T == {k \in 0 .. M : Cardinality(used(k)) >= N}
  <1>1. v \in Seq(Outputs)
    BY DEF Normal, CoinsType
  <1>2. Len(s.mask) = M /\ \A b \in 1 .. M : s.mask[b] = MaskByte(v, b - 1)
    BY Serialized
  <1>3. /\ M \in Nat /\ K \in SUBSET (0 .. M - 1) /\ (M > 0 => M - 1 \in K)
        /\ \A b \in 0 .. M - 1 : MaskByte(v, b) /= {} <=> b \in K
    BY <1>1, MaskSizeIs
  <1>4. N \in Nat /\ IsFiniteSet(K)
    BY <1>1, InMask
  <1> HIDE DEF s, K, M
  <1>5. ASSUME NEW k \in 0 .. M PROVE used(k) = {b \in K : b <= k - 1}
    <2>1. \A b \in 0 .. k - 1 : b + 1 \in 1 .. M /\ b \in 0 .. M - 1 /\ (b + 1) - 1 = b
      BY <1>3, <1>5
    <2>2. \A b \in 0 .. k - 1 : s.mask[b + 1] /= {} <=> b \in K
      BY <1>2, <1>3, <2>1
    <2>3. \A b \in K : b <= k - 1 => b \in 0 .. k - 1
      BY <1>3, <1>5
    <2>4. \A b \in 0 .. k - 1 : b <= k - 1
      BY <1>3, <1>5
    <2> QED BY <2>2, <2>3, <2>4
  <1>6. M \in T
    <2>1. \A b \in K : b <= M - 1
      BY <1>3
    <2>2. used(M) = K
      <3>1. M \in 0 .. M
        BY <1>3
      <3>2. used(M) = {b \in K : b <= M - 1}
        BY <1>5, <3>1
      <3> HIDE DEF used
      <3> QED BY <2>1, <3>2
    <2> HIDE DEF used
    <2> QED BY <1>3, <1>4, <2>2
  <1>7. ASSUME NEW k \in T, k < M PROVE FALSE
    <2>1. k \in 0 .. M /\ Cardinality(used(k)) >= N
      OBVIOUS
    <2>2. M - 1 \in K /\ M - 1 \notin used(k) /\ used(k) \in SUBSET K
      BY <1>3, <1>5, <1>7, <2>1
    <2> HIDE DEF used
    <2>3. Cardinality(used(k)) \in Nat /\ Cardinality(used(k)) <= N /\ (Cardinality(used(k)) = N => used(k) = K)
      BY <1>4, <2>2, FS_Subset, FS_CardinalityType
    <2> QED BY <1>4, <2>1, <2>2, <2>3
  <1>8. Min(T) = M
    <2>1. T \in SUBSET Nat /\ \A k \in T : k \in 0 .. M
      BY <1>3
    <2> HIDE DEF T
    <2>2. Min(T) \in T /\ \A k \in T : Min(T) <= k
      BY <1>6, <2>1, MinOfNaturals
    <2> DEFINE m == Min(T)
    <2> HIDE DEF m
    <2>3. m \in T /\ ~(m < M) /\ m <= M
      BY <1>6, <1>7, <2>2 DEF m
    <2>4. m \in 0 .. M
      BY <2>1, <2>3
    <2>5. m = M
      BY <1>3, <2>3, <2>4
    <2> QED BY <2>5 DEF m
  <1>9. MaskLength(s) = Min(T)
    <2>1. s.nCode \div 16 + Bit(~Flag(s.nCode, 4) /\ ~Flag(s.nCode, 8)) = N
      BY Serialized DEF s, K
    <2> HIDE DEF N
    <2> QED BY <1>2, <2>1 DEF MaskLength
  <1> QED BY <1>8, <1>9 DEF s, M

\* Serialize and Unserialize: coins that are not all spent and end with an unspent
\* output are read back from the database as they were written, whatever their number
\* of outputs, mask bytes and flags.
THEOREM RoundTrip ==
    ASSUME NEW c, Normal(c), ~IsPruned(c)
    PROVE  Serialize(c) \in StoredType /\ Unserialize(Serialize(c)) = c
  <1> DEFINE s == Serialize(c)
             v == c.vout
             U == Unspent(v)
             L == Len(v)
             M == CalcMaskSize(v).nBytes
             masked == UNION {{3 + 8 * (b - 1) + i : i \in s.mask[b]} : b \in 1 .. M}
             available == {i \in {1} : Flag(s.nCode, 4)} \cup {i \in {2} : Flag(s.nCode, 8)} \cup masked
             read == [i \in 1 .. 2 + 8 * M |-> IF i \in U THEN s.txouts[Rank(U, i)] ELSE "null"]
  <1>1. c \in CoinsType /\ v \in Seq(Outputs) /\ U /= {} /\ v = Trimmed(v)
    BY DEF Normal, CoinsType, IsPruned
  <1>2. /\ U \in SUBSET Nat /\ L \in Nat /\ \A i \in U : i \in 1 .. L
        /\ \A i \in 1 .. L : v[i] \in Outputs /\ (i \in U <=> v[i] /= "null")
    BY <1>1, UnspentAre
  <1>3. M \in Nat /\ UsedBytes(v) \in SUBSET (0 .. M - 1)
    BY <1>1, MaskSizeIs
  <1>4. /\ s \in StoredType
        /\ Flag(s.nCode, 1) = c.fCoinBase /\ Flag(s.nCode, 2) = c.fCoinStake
        /\ Flag(s.nCode, 4) = (1 \in U) /\ Flag(s.nCode, 8) = (2 \in U)
        /\ \A b \in 1 .. M : s.mask[b] = MaskByte(v, b - 1)
        /\ \A i \in U : s.txouts[Rank(U, i)] = v[i]
        /\ s.nHeight = c.nHeight
    BY Serialized
  <1>5. MaskLength(s) = M
    BY MaskIsRead
  <1> HIDE DEF s, M
  <1>6. ASSUME NEW i \in U, i >= 3 PROVE i \in masked
    <2> DEFINE K == L \div 8
    <2>1. \A k \in U : k >= 3 => \E b \in 0 .. K : \E j \in 0 .. 7 : k = 3 + 8 * b + j
      BY <1>1, InMask
    <2>2. K \in Nat
      BY <1>1, InMask
    <2>3. PICK b \in 0 .. K : \E j \in 0 .. 7 : i = 3 + 8 * b + j
      <3> HIDE DEF K, U
      <3> QED BY <1>6, <2>1
    <2>4. PICK j \in 0 .. 7 : i = 3 + 8 * b + j
      BY <2>3
    <2>5. j \in MaskByte(v, b)
      BY <1>6, <2>4 DEF MaskByte
    <2>6. b \in UsedBytes(v)
      BY <2>5 DEF UsedBytes
    <2>7. b \in 0 .. M - 1 /\ b + 1 \in 1 .. M /\ (b + 1) - 1 = b
      BY <1>3, <2>6
    <2>8. j \in s.mask[b + 1]
      BY <1>4, <2>5, <2>7
    <2>9. i \in {3 + 8 * ((b + 1) - 1) + k : k \in s.mask[b + 1]}
      BY <2>4, <2>7, <2>8
    <2> QED BY <2>7, <2>9
  <1>7. ASSUME NEW i \in masked PROVE i \in U
    <2>1. PICK b \in 1 .. M : i \in {3 + 8 * (b - 1) + k : k \in s.mask[b]}
      BY <1>7
    <2>2. PICK j \in s.mask[b] : i = 3 + 8 * (b - 1) + j
      BY <2>1
    <2>3. j \in MaskByte(v, b - 1)
      BY <1>4, <2>2
    <2> QED BY <2>2, <2>3 DEF MaskByte
  <1>8. available = U
    <2>1. \A i \in U : i = 1 \/ i = 2 \/ i >= 3
      BY <1>2
    <2> HIDE DEF masked, U
    <2>2. \A i : i \in available <=> (i = 1 /\ 1 \in U) \/ (i = 2 /\ 2 \in U) \/ i \in masked
      BY <1>4
    <2>3. \A i : i \in available <=> i \in U
      BY <1>6, <1>7, <2>1, <2>2
    <2> QED BY <2>3
  <1>9. Unserialize(s) = Cleanup([fCoinBase |-> c.fCoinBase, fCoinStake |-> c.fCoinStake,
                                  vout |-> read, nHeight |-> c.nHeight])
    <2>1. Unserialize(s) = Cleanup([fCoinBase |-> Flag(s.nCode, 1), fCoinStake |-> Flag(s.nCode, 2),
             vout |-> [i \in 1 .. 2 + 8 * M |-> IF i \in available THEN s.txouts[Rank(available, i)] ELSE "null"],
             nHeight |-> s.nHeight])
      BY <1>5 DEF Unserialize
    <2> HIDE DEF available, U
    <2> QED BY <1>4, <1>8, <2>1
  <1>10. \A i \in U : i \in 1 .. 2 + 8 * M
    <2> SUFFICES ASSUME NEW i \in U, i >= 3 PROVE i \in 1 .. 2 + 8 * M
      BY <1>2, <1>3
    <2>1. i \in masked
      BY <1>6
    <2>2. PICK b \in 1 .. M : i \in {3 + 8 * (b - 1) + k : k \in s.mask[b]}
      BY <2>1
    <2>3. PICK j \in s.mask[b] : i = 3 + 8 * (b - 1) + j
      BY <2>2
    <2>4. j \in 0 .. 7
      BY <1>4, <2>3 DEF MaskByte
    <2> QED BY <1>3, <2>3, <2>4
  <1>11. /\ read \in Seq(Outputs) /\ DOMAIN read = 1 .. 2 + 8 * M /\ Unspent(read) = U
         /\ \A i \in U : read[i] = v[i]
         /\ \A i \in 1 .. 2 + 8 * M : i \notin U => read[i] = "null"
    <2>1. 2 + 8 * M \in Nat /\ "null" \in Outputs
      BY <1>3 DEF Outputs
    <2> DEFINE N == 2 + 8 * M
    <2> HIDE DEF U, N
    <2>2. read \in [1 .. N -> Outputs]
      BY <1>2, <1>4, <2>1 DEF N
    <2>3. read \in Seq(Outputs) /\ DOMAIN read = 1 .. N
      BY <2>1, <2>2, Listed DEF N
    <2>4. \A i \in U : read[i] = v[i]
      BY <1>4, <1>10
    <2>5. \A i \in 1 .. N : i \notin U => read[i] = "null"
      BY DEF N
    <2> HIDE DEF read
    <2>6. \A i : i \in Unspent(read) <=> i \in 1 .. N /\ read[i] /= "null"
      BY <2>3 DEF Unspent
    <2>7. \A i : i \in Unspent(read) <=> i \in U
      BY <1>2, <1>10, <2>4, <2>5, <2>6 DEF N
    <2> QED BY <2>3, <2>4, <2>5, <2>7 DEF N
  <1> HIDE DEF read
  <1>12. Trimmed(read) = v
    <2> DEFINE w == Trimmed(read)
    <2>1. /\ w \in Seq(Outputs) /\ Len(w) = Max(U) /\ \A i \in 1 .. Len(w) : w[i] = read[i]
      BY <1>1, <1>11, TrimmedIs
    <2>2. L = Max(U)
      BY <1>1, TrimmedIs
    <2>3. L \in U /\ L \in 1 .. 2 + 8 * M
      BY <1>1, <1>2, <1>10, <2>2, UnspentAre
    <2>4. \A i \in 1 .. L : i \in 1 .. 2 + 8 * M
      BY <1>2, <1>3, <2>3
    <2> HIDE DEF w, U
    <2>5. \A i \in 1 .. L : w[i] = v[i]
      BY <1>2, <1>11, <2>1, <2>2, <2>4
    <2>6. Len(w) = Len(v) /\ \A i \in 1 .. Len(w) : w[i] = v[i]
      BY <2>1, <2>2, <2>5
    <2>7. w = v
      BY <1>1, <2>1, <2>6, SeqEqual
    <2> QED BY <2>7 DEF w
  <1>13. Cleanup([fCoinBase |-> c.fCoinBase, fCoinStake |-> c.fCoinStake,
                  vout |-> read, nHeight |-> c.nHeight]) = c
    <2>1. c = [fCoinBase |-> c.fCoinBase, fCoinStake |-> c.fCoinStake, vout |-> v, nHeight |-> c.nHeight]
      BY <1>1 DEF CoinsType
    <2> QED BY <1>12, <2>1 DEF Cleanup
  <1> QED BY <1>4, <1>9, <1>13 DEF s

-----------------------------------------------------------------------------
(* Outputs are spent, restored and created.                                *)

LEMMA ClearedIs == Normal(Cleared) /\ IsPruned(Cleared)
  <1>1. Cleared \in CoinsType /\ Unspent(Cleared.vout) = {}
    BY DEF Cleared, CoinsType, Unspent
  <1>2. Cleared.vout = <<>> /\ Trimmed(<<>>) = <<>>
    BY <1>1 DEF Cleared, Trimmed
  <1> QED BY <1>1, <1>2 DEF Normal, IsPruned

LEMMA SpentIs ==
    ASSUME NEW c, Normal(c), NEW n, IsAvailable(c, n)
    PROVE  /\ Normal(Spent(c, n)) /\ Unspent(Spent(c, n).vout) = Unspent(c.vout) \ {n}
           /\ SpendUndo(c, n) \in UndoType
  <1> DEFINE v == c.vout
             w == [v EXCEPT ![n] = "null"]
  <1>1. c \in CoinsType /\ v \in Seq(Outputs) /\ n \in Unspent(v)
    BY DEF Normal, CoinsType, IsAvailable
  <1>2. n \in 1 .. Len(v) /\ v[n] \in Outputs
    BY <1>1, UnspentAre
  <1>3. w \in Seq(Outputs) /\ Len(w) = Len(v) /\ DOMAIN w = 1 .. Len(v) /\ DOMAIN v = 1 .. Len(v)
    <2>1. "null" \in Outputs
      BY DEF Outputs
    <2> QED BY <1>1, <1>2, <2>1
  <1>4. \A i \in 1 .. Len(v) : w[i] = IF i = n THEN "null" ELSE v[i]
    BY <1>1
  <1> HIDE DEF w
  <1>5. Unspent(w) = Unspent(v) \ {n}
    BY <1>3, <1>4 DEF Unspent
  <1>6. Spent(c, n) = [c EXCEPT !.vout = Trimmed(w)]
    BY <1>1 DEF Spent, CoinsType, w
  <1>7. /\ Trimmed(w) \in Seq(Outputs) /\ Unspent(Trimmed(w)) = Unspent(w)
        /\ Trimmed(Trimmed(w)) = Trimmed(w)
    BY <1>3, TrimmedIs
  <1>8. Spent(c, n) \in CoinsType /\ Spent(c, n).vout = Trimmed(w)
    BY <1>1, <1>6, <1>7 DEF CoinsType
  <1>9. SpendUndo(c, n) \in UndoType
    BY <1>1, <1>2 DEF SpendUndo, UndoType, CoinsType
  <1> QED BY <1>5, <1>7, <1>8, <1>9 DEF Normal

LEMMA RestoredTyped ==
    ASSUME NEW c \in CoinsType, NEW n \in Nat, NEW u \in UndoType
    PROVE  Restored(c, n, u) \in CoinsType
  <1> DEFINE base == IF u.nHeight /= 0
                     THEN [Cleared EXCEPT !.fCoinBase = u.fCoinBase, !.nHeight = u.nHeight]
                     ELSE c
             size == IF Len(base.vout) < n THEN n ELSE Len(base.vout)
             v == [i \in 1 .. size |-> IF i = n THEN u.txout
                                       ELSE IF i \in DOMAIN base.vout THEN base.vout[i] ELSE "null"]
  <1>1. base \in CoinsType
    <2>1. [Cleared EXCEPT !.fCoinBase = u.fCoinBase, !.nHeight = u.nHeight] \in CoinsType
      BY ClearedIs DEF Normal, CoinsType, UndoType
    <2> QED BY <2>1
  <1>2. Restored(c, n, u) = [base EXCEPT !.vout = v]
    BY DEF Restored
  <1> HIDE DEF base
  <1>3. base.vout \in Seq(Outputs)
    BY <1>1 DEF CoinsType
  <1>4. size \in Nat /\ \A i \in DOMAIN base.vout : base.vout[i] \in Outputs
    BY <1>3
  <1>5. u.txout \in Outputs /\ "null" \in Outputs
    BY DEF UndoType, Outputs
  <1> HIDE DEF size
  <1>6. v \in Seq(Outputs)
    <2>1. v \in [1 .. size -> Outputs]
      BY <1>4, <1>5
    <2> HIDE DEF v
    <2> QED BY <1>4, <2>1, Listed
  <1> HIDE DEF v
  <1> QED BY <1>1, <1>2, <1>6 DEF CoinsType

LEMMA UnspendableCleared ==
    ASSUME NEW c \in CoinsType
    PROVE  Normal(ClearUnspendable(c))
  <1> DEFINE v == c.vout
             w == [i \in DOMAIN v |-> IF v[i] = "unspendable" THEN "null" ELSE v[i]]
  <1>1. v \in Seq(Outputs) /\ Len(v) \in Nat /\ DOMAIN v = 1 .. Len(v) /\ \A i \in 1 .. Len(v) : v[i] \in Outputs
    BY DEF CoinsType
  <1>2. w \in Seq(Outputs)
    <2>1. w \in [1 .. Len(v) -> Outputs]
      BY <1>1 DEF Outputs
    <2> HIDE DEF w
    <2> QED BY <1>1, <2>1, Listed
  <1>3. ClearUnspendable(c) = [c EXCEPT !.vout = Trimmed(w)]
    BY DEF ClearUnspendable, CoinsType
  <1> HIDE DEF w
  <1>4. Trimmed(w) \in Seq(Outputs) /\ Trimmed(Trimmed(w)) = Trimmed(w)
    BY <1>2, TrimmedIs
  <1>5. ClearUnspendable(c) \in CoinsType /\ ClearUnspendable(c).vout = Trimmed(w)
    BY <1>3, <1>4 DEF CoinsType
  <1> QED BY <1>4, <1>5 DEF Normal

LEMMA FromTxNormal ==
    ASSUME NEW t \in Txs, NEW h \in Nat
    PROVE  Normal(FromTx(t, h))
  <1>1. vout[t] \in Seq(Outputs)
    BY LedgerAssumption
  <1>2. [fCoinBase |-> t \in CoinBases, fCoinStake |-> t \in CoinStakes,
         vout |-> vout[t], nHeight |-> h] \in CoinsType
    BY <1>1 DEF CoinsType
  <1> QED BY <1>2, UnspendableCleared DEF FromTx

-----------------------------------------------------------------------------
(* The layers.  d stands for the database, tip for pcoinsTip, view for the *)
(* cache of a block.                                                       *)

Layers == [Txs -> EntryType \cup {None}]

Held(d, t) == IF d[t] = None THEN None ELSE Unserialize(d[t])

\* The database holds coins that are not all spent.
DbOK(d) ==
    /\ d \in [Txs -> StoredType \cup {None}]
    /\ \A t \in Txs : d[t] /= None => Normal(Held(d, t)) /\ ~IsPruned(Held(d, t))

\* What a flag of an entry of pcoinsTip says of the database is true.
TipOK(tip, d) ==
    /\ tip \in Layers
    /\ \A t \in Txs : tip[t] /= None =>
          /\ Normal(tip[t].coins)
          /\ tip[t].fresh => d[t] = None
          /\ ~tip[t].dirty => Held(d, t) = tip[t].coins

\* What is read through pcoinsTip.
Below(tip, d) == [t \in Txs |-> IF tip[t] /= None THEN tip[t].coins ELSE Held(d, t)]

\* Coins without outputs.
Gone(c) == c = None \/ IsPruned(c)

\* An entry that pcoinsTip does not know is fresh, and the database does not know it.  What
\* a flag of an entry says of what is read through pcoinsTip is true.
ViewOK(view, tip, d) ==
    /\ view \in Layers
    /\ \A t \in Txs : view[t] /= None =>
          /\ Normal(view[t].coins)
          /\ tip[t] = None => d[t] = None /\ view[t].fresh
          /\ view[t].fresh => Gone(Below(tip, d)[t])
          /\ ~view[t].dirty => view[t].coins = Below(tip, d)[t]

Records == [tip : Layers, view : Layers, undo : Seq(Seq(UndoType)), ok : BOOLEAN]

\* Work on a block fills pcoinsTip, but what is read through it stays what it was.
Work(r) ==
    /\ r \in Records /\ TipOK(r.tip, db) /\ ViewOK(r.view, r.tip, db)
    /\ Below(r.tip, db) = Below(cacheCoins, db)

\* What is read through the cache of the block.
Seen(r) == [t \in Txs |-> IF r.view[t] /= None THEN r.view[t].coins ELSE Below(r.tip, db)[t]]

\* Nothing changed but at t.
OnlyAt(t, v, w) == \A u \in Txs : u /= t => w[u] = v[u]

LEMMA NoneIs ==
    /\ None \notin Txs /\ None \notin Blocks /\ None \notin CoinsType /\ None \notin StoredType
    /\ None \notin EntryType /\ None \notin Seq(Seq(UndoType))
  BY CoinsAssumption

LEMMA EntryIs ==
    ASSUME NEW c \in CoinsType, NEW x \in BOOLEAN, NEW y \in BOOLEAN
    PROVE  LET e == [coins |-> c, dirty |-> x, fresh |-> y]
           IN  e \in EntryType /\ e /= None /\ e.coins = c /\ e.dirty = x /\ e.fresh = y
  BY NoneIs DEF EntryType

LEMMA LayerIs ==
    ASSUME NEW cache \in Layers, NEW t \in Txs, cache[t] /= None
    PROVE  /\ cache[t] \in EntryType /\ cache[t].coins \in CoinsType
           /\ cache[t].dirty \in BOOLEAN /\ cache[t].fresh \in BOOLEAN
  <1>1. cache[t] \in EntryType
    BY DEF Layers
  <1> QED BY <1>1 DEF EntryType

LEMMA FetchedIs ==
    ASSUME NEW cache \in Layers, NEW t \in Txs, NEW got, got = None \/ Normal(got)
    PROVE  LET new == Fetched(cache, t, got)
           IN  /\ new \in Layers /\ OnlyAt(t, cache, new)
               /\ cache[t] /= None \/ got = None => new = cache
               /\ cache[t] = None /\ got /= None =>
                     /\ new[t] /= None /\ new[t].coins = got
                     /\ ~new[t].dirty /\ (new[t].fresh => IsPruned(got))
  <1>1. CASE cache[t] /= None \/ got = None
    BY <1>1 DEF Fetched, OnlyAt
  <1>2. CASE cache[t] = None /\ got /= None
    <2> DEFINE e == [coins |-> got, dirty |-> FALSE, fresh |-> IsPruned(got)]
    <2>1. got \in CoinsType /\ IsPruned(got) \in BOOLEAN
      BY <1>2 DEF Normal, IsPruned
    <2>2. e \in EntryType /\ e /= None /\ e.coins = got /\ e.dirty = FALSE /\ e.fresh = IsPruned(got)
      BY <2>1, EntryIs
    <2>3. Fetched(cache, t, got) = [cache EXCEPT ![t] = e]
      BY <1>2 DEF Fetched
    <2> HIDE DEF e
    <2>4. [cache EXCEPT ![t] = e] \in Layers /\ [cache EXCEPT ![t] = e][t] = e /\ OnlyAt(t, cache, [cache EXCEPT ![t] = e])
      BY <2>2 DEF Layers, OnlyAt
    <2> QED BY <1>2, <2>2, <2>3, <2>4
  <1> QED BY <1>1, <1>2

LEMMA ModifiableIs ==
    ASSUME NEW cache \in Layers, NEW t \in Txs, NEW got, got = None \/ Normal(got)
    PROVE  LET new == Modifiable(cache, t, got)
           IN  /\ new \in Layers /\ OnlyAt(t, cache, new) /\ new[t] /= None /\ new[t].dirty = TRUE
               /\ cache[t] /= None => new[t].coins = cache[t].coins /\ new[t].fresh = cache[t].fresh
               /\ cache[t] = None => /\ new[t].coins = (IF got = None THEN Cleared ELSE got)
                                     /\ new[t].fresh = (got = None \/ IsPruned(got))
  <1> DEFINE new == Modifiable(cache, t, got)
             c == IF got = None THEN Cleared ELSE got
             e == IF cache[t] /= None
                  THEN [cache[t] EXCEPT !.dirty = TRUE]
                  ELSE [coins |-> c, dirty |-> TRUE, fresh |-> got = None \/ IsPruned(got)]
  <1>1. c \in CoinsType
    BY ClearedIs DEF Normal
  <1>2. new = [cache EXCEPT ![t] = e]
    <2>1. CASE cache[t] /= None
      BY <2>1 DEF Modifiable, Layers
    <2>2. CASE cache[t] = None
      BY <2>2 DEF Modifiable
    <2> QED BY <2>1, <2>2
  <1>3. /\ e \in EntryType /\ e /= None /\ e.dirty = TRUE
        /\ cache[t] /= None => e.coins = cache[t].coins /\ e.fresh = cache[t].fresh
        /\ cache[t] = None => e.coins = c /\ e.fresh = (got = None \/ IsPruned(got))
    <2>1. CASE cache[t] /= None
      <3> DEFINE x == cache[t]
                 y == [x EXCEPT !.dirty = TRUE]
      <3>1. x \in EntryType /\ e = y
        BY <2>1, LayerIs
      <3> HIDE DEF x, e
      <3>2. y \in EntryType /\ y.coins = x.coins /\ y.fresh = x.fresh /\ y.dirty = TRUE
        BY <3>1 DEF EntryType
      <3> HIDE DEF y
      <3> QED BY <2>1, <3>1, <3>2, NoneIs DEF x
    <2>2. CASE cache[t] = None
      <3>1. (got = None \/ IsPruned(got)) \in BOOLEAN
        OBVIOUS
      <3> HIDE DEF c
      <3> QED BY <1>1, <2>2, <3>1, EntryIs
    <2> QED BY <2>1, <2>2
  <1> HIDE DEF e
  <1>4. [cache EXCEPT ![t] = e] \in Layers /\ [cache EXCEPT ![t] = e][t] = e /\ OnlyAt(t, cache, [cache EXCEPT ![t] = e])
    BY <1>3 DEF Layers, OnlyAt
  <1> HIDE DEF new
  <1>5. new \in Layers /\ new[t] = e /\ OnlyAt(t, cache, new)
    BY <1>2, <1>4
  <1> QED BY <1>3, <1>5 DEF new

LEMMA ReleasedIs ==
    ASSUME NEW cache \in Layers, NEW t \in Txs, cache[t] /= None, NEW c \in CoinsType
    PROVE  LET new == Released(cache, t, c)
           IN  /\ new \in Layers /\ OnlyAt(t, cache, new)
               /\ new[t] = None => IsPruned(c) /\ cache[t].fresh
               /\ new[t] /= None => new[t].coins = Cleanup(c) /\ new[t].fresh = cache[t].fresh
                                    /\ new[t].dirty = cache[t].dirty
  <1> DEFINE new == Released(cache, t, c)
             e == IF cache[t].fresh /\ IsPruned(c) THEN None
                  ELSE [coins |-> Cleanup(c), dirty |-> cache[t].dirty, fresh |-> cache[t].fresh]
  <1>1. cache[t] = [coins |-> cache[t].coins, dirty |-> cache[t].dirty, fresh |-> cache[t].fresh]
    BY LayerIs DEF EntryType
  <1>2. [cache[t] EXCEPT !.coins = Cleanup(c)] =
           [coins |-> Cleanup(c), dirty |-> cache[t].dirty, fresh |-> cache[t].fresh]
    BY <1>1
  <1>3. new = [cache EXCEPT ![t] = e]
    BY <1>2 DEF Released, Layers
  <1>4. Cleanup(c) \in CoinsType
    BY CleanedUp DEF Normal
  <1>5. /\ e \in EntryType \cup {None}
        /\ e = None => IsPruned(c) /\ cache[t].fresh
        /\ e /= None => e.coins = Cleanup(c) /\ e.fresh = cache[t].fresh /\ e.dirty = cache[t].dirty
    <2>1. CASE cache[t].fresh /\ IsPruned(c)
      BY <2>1
    <2>2. CASE ~(cache[t].fresh /\ IsPruned(c))
      BY <1>4, <2>2, LayerIs, EntryIs
    <2> QED BY <2>1, <2>2
  <1> HIDE DEF e
  <1>6. [cache EXCEPT ![t] = e] \in Layers /\ [cache EXCEPT ![t] = e][t] = e /\ OnlyAt(t, cache, [cache EXCEPT ![t] = e])
    BY <1>5 DEF Layers, OnlyAt
  <1> HIDE DEF new
  <1>7. new \in Layers /\ new[t] = e /\ OnlyAt(t, cache, new)
    BY <1>3, <1>6
  <1> QED BY <1>5, <1>7 DEF new

LEMMA HeldIs ==
    ASSUME DbOK(db), NEW t \in Txs
    PROVE  /\ DbCoins(t) = Held(db, t)
           /\ DbCoins(t) = None <=> db[t] = None
           /\ DbCoins(t) /= None => Normal(DbCoins(t)) /\ ~IsPruned(DbCoins(t))
  <1>1. DbCoins(t) = Held(db, t)
    BY DEF DbCoins, Held
  <1>2. CASE db[t] = None
    BY <1>1, <1>2 DEF Held
  <1>3. CASE db[t] /= None
    <2>1. Normal(Held(db, t)) /\ ~IsPruned(Held(db, t))
      BY <1>3 DEF DbOK
    <2>2. Held(db, t) /= None
      BY <2>1, NoneIs DEF Normal
    <2> QED BY <1>1, <1>3, <2>1, <2>2
  <1> QED BY <1>2, <1>3

\* pcoinsTip after something was read through it.
LEMMA TipFetched ==
    ASSUME DbOK(db), NEW tip, TipOK(tip, db), NEW t \in Txs
    PROVE  LET new == Fetched(tip, t, DbCoins(t))
           IN  /\ TipOK(new, db) /\ OnlyAt(t, tip, new)
               /\ \A u \in Txs : tip[u] /= None => new[u] = tip[u]
               /\ new[t] = None => db[t] = None
               /\ Below(new, db) = Below(tip, db)
  <1> DEFINE got == DbCoins(t)
             new == Fetched(tip, t, got)
  <1>1. /\ got = Held(db, t) /\ (got = None <=> db[t] = None)
        /\ got /= None => Normal(got) /\ ~IsPruned(got)
    BY HeldIs
  <1>2. tip \in Layers
    BY DEF TipOK
  <1> HIDE DEF got
  <1>3. /\ new \in Layers /\ OnlyAt(t, tip, new)
        /\ tip[t] /= None \/ got = None => new = tip
        /\ tip[t] = None /\ got /= None =>
              new[t] /= None /\ new[t].coins = got /\ ~new[t].dirty /\ (new[t].fresh => IsPruned(got))
    <2>1. got = None \/ Normal(got)
      BY <1>1
    <2>2. LET x == Fetched(tip, t, got)
          IN  /\ x \in Layers /\ OnlyAt(t, tip, x)
              /\ tip[t] /= None \/ got = None => x = tip
              /\ tip[t] = None /\ got /= None =>
                    /\ x[t] /= None /\ x[t].coins = got
                    /\ ~x[t].dirty /\ (x[t].fresh => IsPruned(got))
      BY <1>2, <2>1, FetchedIs, Zenon
    <2> QED BY <2>2, Zenon
  <1> HIDE DEF new
  <1>4. TipOK(new, db) /\ (\A u \in Txs : tip[u] /= None => new[u] = tip[u]) /\ (new[t] = None => db[t] = None)
    <2>1. CASE tip[t] /= None \/ got = None
      BY <1>1, <1>3, <2>1
    <2>2. CASE tip[t] = None /\ got /= None
      <3>1. ASSUME NEW u \in Txs, new[u] /= None
            PROVE  /\ Normal(new[u].coins)
                   /\ new[u].fresh => db[u] = None
                   /\ ~new[u].dirty => Held(db, u) = new[u].coins
        <4>1. CASE u = t
          BY <1>1, <1>3, <2>2, <4>1
        <4>2. CASE u /= t
          BY <1>3, <3>1, <4>2 DEF OnlyAt, TipOK
        <4> QED BY <4>1, <4>2
      <3>2. \A u \in Txs : tip[u] /= None => new[u] = tip[u]
        BY <1>3, <2>2 DEF OnlyAt
      <3> QED BY <1>3, <2>2, <3>1, <3>2 DEF TipOK
    <2> QED BY <2>1, <2>2
  <1>5. \A u \in Txs : (IF new[u] /= None THEN new[u].coins ELSE Held(db, u))
                         = (IF tip[u] /= None THEN tip[u].coins ELSE Held(db, u))
    <2> SUFFICES ASSUME NEW u \in Txs
                 PROVE  (IF new[u] /= None THEN new[u].coins ELSE Held(db, u))
                         = (IF tip[u] /= None THEN tip[u].coins ELSE Held(db, u))
      OBVIOUS
    <2>1. CASE u = t
      BY <1>1, <1>3, <2>1
    <2>2. CASE u /= t
      BY <1>3, <2>2 DEF OnlyAt
    <2> QED BY <2>1, <2>2
  <1>6. Below(new, db) = Below(tip, db)
    BY <1>5 DEF Below
  <1> QED BY <1>3, <1>4, <1>6 DEF new, got

LEMMA AskedIs ==
    ASSUME DbOK(db), NEW r, Work(r), NEW t \in Txs
    PROVE  LET tip == Asked(r, t)
           IN  /\ TipOK(tip, db) /\ tip \in Layers /\ ViewOK(r.view, tip, db)
               /\ r.view[t] = None /\ tip[t] = None => db[t] = None
               /\ CoinsIn(tip, t) = None <=> tip[t] = None
               /\ CoinsIn(tip, t) /= None => Normal(CoinsIn(tip, t))
               /\ Below(tip, db) = Below(r.tip, db)
               /\ r.view[t] = None => CoinsIn(tip, t) = Below(r.tip, db)[t]
  <1> DEFINE tip == Asked(r, t)
  <1>1. /\ TipOK(tip, db) /\ Below(tip, db) = Below(r.tip, db) /\ \A u \in Txs : r.tip[u] /= None => tip[u] = r.tip[u]
        /\ r.view[t] = None /\ tip[t] = None => db[t] = None
    <2>1. CASE r.view[t] /= None
      BY <2>1 DEF Asked, Work
    <2>2. CASE r.view[t] = None
      <3>1. tip = Fetched(r.tip, t, DbCoins(t))
        BY <2>2 DEF Asked
      <3>2. TipOK(r.tip, db)
        BY DEF Work
      <3> QED BY <3>1, <3>2, TipFetched
    <2> QED BY <2>1, <2>2
  <1> HIDE DEF tip
  <1>2. ViewOK(r.view, tip, db)
    BY <1>1 DEF Work, ViewOK
  <1>3. tip \in Layers
    BY <1>1 DEF TipOK
  <1>4. tip[t] /= None => Normal(tip[t].coins) /\ tip[t].coins /= None
    BY <1>1, NoneIs DEF TipOK, Normal
  <1>5. (CoinsIn(tip, t) = None <=> tip[t] = None) /\ (CoinsIn(tip, t) /= None => Normal(CoinsIn(tip, t)))
    BY <1>4 DEF CoinsIn
  <1>6. ASSUME r.view[t] = None PROVE CoinsIn(tip, t) = Below(tip, db)[t]
    BY <1>1, <1>6 DEF CoinsIn, Below, Held
  <1> QED BY <1>1, <1>2, <1>3, <1>5, <1>6 DEF tip

LEMMA LookIs ==
    ASSUME DbOK(db), NEW r, Work(r), NEW t \in Txs
    PROVE  LET l == Look(r, t)
           IN  /\ Work(l) /\ l.undo = r.undo /\ l.ok = r.ok
               /\ \A u \in Txs : r.view[u] /= None => l.view[u] = r.view[u]
               /\ Seen(l) = Seen(r)
               /\ l.view[t] = None => Seen(r)[t] = None
  <1> DEFINE tip == Asked(r, t)
             view == Fetched(r.view, t, CoinsIn(tip, t))
             l == Look(r, t)
  <1>1. /\ TipOK(tip, db) /\ tip \in Layers /\ ViewOK(r.view, tip, db)
        /\ CoinsIn(tip, t) = None <=> tip[t] = None
        /\ CoinsIn(tip, t) /= None => Normal(CoinsIn(tip, t))
        /\ Below(tip, db) = Below(r.tip, db)
        /\ r.view[t] = None => CoinsIn(tip, t) = Below(r.tip, db)[t]
    BY AskedIs
  <1>2. r \in Records /\ r.view \in Layers /\ ViewOK(r.view, r.tip, db) /\ Below(r.tip, db) = Below(cacheCoins, db)
    BY DEF Work, Records
  <1> HIDE DEF tip
  <1>3. /\ view \in Layers /\ OnlyAt(t, r.view, view)
        /\ r.view[t] /= None \/ CoinsIn(tip, t) = None => view = r.view
        /\ r.view[t] = None /\ CoinsIn(tip, t) /= None =>
              /\ view[t] /= None /\ view[t].coins = CoinsIn(tip, t)
              /\ ~view[t].dirty /\ (view[t].fresh => IsPruned(CoinsIn(tip, t)))
    <2> DEFINE got == CoinsIn(tip, t)
    <2>1. got = None \/ Normal(got)
      BY <1>1
    <2> HIDE DEF got
    <2>2. LET new == Fetched(r.view, t, got)
          IN  /\ new \in Layers /\ OnlyAt(t, r.view, new)
              /\ r.view[t] /= None \/ got = None => new = r.view
              /\ r.view[t] = None /\ got /= None =>
                    /\ new[t] /= None /\ new[t].coins = got
                    /\ ~new[t].dirty /\ (new[t].fresh => IsPruned(got))
      BY <1>2, <2>1, FetchedIs, Zenon
    <2> QED BY <2>2, Zenon DEF got
  <1>4. l = [r EXCEPT !.tip = tip, !.view = view]
    BY <1>2 DEF Look, tip
  <1> HIDE DEF view
  <1>5. /\ l \in Records /\ l.tip = tip /\ l.view = view /\ l.undo = r.undo /\ l.ok = r.ok
    BY <1>1, <1>2, <1>3, <1>4 DEF Records
  <1> HIDE DEF l
  <1>6. ViewOK(view, tip, db)
    <2> SUFFICES ASSUME NEW u \in Txs, view[u] /= None
                 PROVE  /\ Normal(view[u].coins) /\ (tip[u] = None => db[u] = None /\ view[u].fresh)
                        /\ view[u].fresh => Gone(Below(tip, db)[u])
                        /\ ~view[u].dirty => view[u].coins = Below(tip, db)[u]
      BY <1>3 DEF ViewOK
    <2>1. CASE view[u] = r.view[u]
      BY <1>1, <2>1 DEF ViewOK
    <2>2. CASE view[u] /= r.view[u]
      <3>1. u = t /\ r.view[t] = None /\ CoinsIn(tip, t) /= None
        BY <1>3, <2>2 DEF OnlyAt
      <3> QED BY <1>1, <1>3, <3>1 DEF Gone
    <2> QED BY <2>1, <2>2
  <1>7. \A u \in Txs : r.view[u] /= None => l.view[u] = r.view[u]
    BY <1>3, <1>5 DEF OnlyAt
  <1>8. ASSUME NEW u \in Txs
        PROVE  (IF view[u] /= None THEN view[u].coins ELSE Below(tip, db)[u])
                  = (IF r.view[u] /= None THEN r.view[u].coins ELSE Below(r.tip, db)[u])
    <2>1. CASE u = t
      BY <1>1, <1>3, <2>1
    <2>2. CASE u /= t
      BY <1>1, <1>3, <2>2 DEF OnlyAt
    <2> QED BY <2>1, <2>2
  <1>9. Seen(l) = Seen(r)
    BY <1>5, <1>8 DEF Seen
  <1>10. l.view[t] = None => Seen(r)[t] = None
    <2> SUFFICES ASSUME l.view[t] = None PROVE Seen(r)[t] = None
      OBVIOUS
    <2>1. r.view[t] = None /\ CoinsIn(tip, t) = None
      BY <1>3, <1>5
    <2> QED BY <1>1, <2>1 DEF Seen
  <1>11. Work(l)
    BY <1>1, <1>2, <1>5, <1>6 DEF Work
  <1> HIDE DEF tip
  <1> QED BY <1>5, <1>7, <1>9, <1>10, <1>11 DEF l

LEMMA ModifyIs ==
    ASSUME DbOK(db), NEW r, Work(r), NEW t \in Txs
    PROVE  LET m == Modify(r, t)
           IN  /\ Work(m) /\ m.undo = r.undo /\ m.ok = r.ok
               /\ OnlyAt(t, r.view, m.view) /\ m.view[t] /= None /\ Normal(m.view[t].coins)
               /\ r.view[t] /= None => m.view[t].coins = r.view[t].coins
               /\ m.view[t].dirty
               /\ OnlyAt(t, Seen(r), Seen(m)) /\ Seen(m)[t] = m.view[t].coins
               /\ m.view[t].coins = (IF Seen(r)[t] = None THEN Cleared ELSE Seen(r)[t])
  <1> DEFINE tip == Asked(r, t)
             got == CoinsIn(tip, t)
             view == Modifiable(r.view, t, got)
             m == Modify(r, t)
  <1>1. /\ TipOK(tip, db) /\ tip \in Layers /\ ViewOK(r.view, tip, db)
        /\ r.view[t] = None /\ tip[t] = None => db[t] = None
        /\ got = None <=> tip[t] = None
        /\ got /= None => Normal(got)
        /\ Below(tip, db) = Below(r.tip, db)
        /\ r.view[t] = None => got = Below(r.tip, db)[t]
    BY AskedIs
  <1>2. r \in Records /\ r.view \in Layers /\ ViewOK(r.view, r.tip, db) /\ Below(r.tip, db) = Below(cacheCoins, db)
    BY DEF Work, Records
  <1> HIDE DEF tip, got
  <1>3. /\ view \in Layers /\ OnlyAt(t, r.view, view) /\ view[t] /= None /\ view[t].dirty = TRUE
        /\ r.view[t] /= None => view[t].coins = r.view[t].coins /\ view[t].fresh = r.view[t].fresh
        /\ r.view[t] = None => view[t].coins = (IF got = None THEN Cleared ELSE got)
                               /\ view[t].fresh = (got = None \/ IsPruned(got))
    <2>1. got = None \/ Normal(got)
      BY <1>1
    <2>2. LET new == Modifiable(r.view, t, got)
          IN  /\ new \in Layers /\ OnlyAt(t, r.view, new) /\ new[t] /= None /\ new[t].dirty = TRUE
              /\ r.view[t] /= None => new[t].coins = r.view[t].coins /\ new[t].fresh = r.view[t].fresh
              /\ r.view[t] = None => /\ new[t].coins = (IF got = None THEN Cleared ELSE got)
                                     /\ new[t].fresh = (got = None \/ IsPruned(got))
      BY <1>2, <2>1, ModifiableIs, Zenon
    <2> QED BY <2>2, Zenon
  <1>4. m = [r EXCEPT !.tip = tip, !.view = view]
    BY <1>2 DEF Modify, tip, got
  <1> HIDE DEF view
  <1>5. /\ m \in Records /\ m.tip = tip /\ m.view = view /\ m.undo = r.undo /\ m.ok = r.ok
    BY <1>1, <1>2, <1>3, <1>4 DEF Records
  <1> HIDE DEF m
  <1>6. /\ Normal(view[t].coins) /\ (tip[t] = None => db[t] = None /\ view[t].fresh)
        /\ view[t].fresh => Gone(Below(tip, db)[t])
    <2>1. CASE r.view[t] /= None
      BY <1>1, <1>3, <2>1 DEF ViewOK
    <2>2. CASE r.view[t] = None
      BY <1>1, <1>3, <2>2, ClearedIs DEF Gone
    <2> QED BY <2>1, <2>2
  <1>7. ViewOK(view, tip, db)
    <2> SUFFICES ASSUME NEW u \in Txs, view[u] /= None
                 PROVE  /\ Normal(view[u].coins) /\ (tip[u] = None => db[u] = None /\ view[u].fresh)
                        /\ view[u].fresh => Gone(Below(tip, db)[u])
                        /\ ~view[u].dirty => view[u].coins = Below(tip, db)[u]
      BY <1>3 DEF ViewOK
    <2>1. CASE u = t
      BY <1>3, <1>6, <2>1
    <2>2. CASE u /= t
      BY <1>1, <1>3, <2>2 DEF ViewOK, OnlyAt
    <2> QED BY <2>1, <2>2
  <1>8. ASSUME NEW u \in Txs, u /= t
        PROVE  (IF view[u] /= None THEN view[u].coins ELSE Below(tip, db)[u])
                  = (IF r.view[u] /= None THEN r.view[u].coins ELSE Below(r.tip, db)[u])
    BY <1>1, <1>3, <1>8 DEF OnlyAt
  <1>9. OnlyAt(t, Seen(r), Seen(m)) /\ Seen(m)[t] = m.view[t].coins
    BY <1>3, <1>5, <1>8 DEF Seen, OnlyAt
  <1>10. m.view[t].coins = (IF Seen(r)[t] = None THEN Cleared ELSE Seen(r)[t])
    <2>1. CASE r.view[t] /= None
      <3>1. Seen(r)[t] = r.view[t].coins
        BY <2>1 DEF Seen
      <3>2. Seen(r)[t] /= None
        BY <1>2, <2>1, <3>1, NoneIs DEF ViewOK, Normal
      <3> QED BY <1>3, <1>5, <2>1, <3>1, <3>2
    <2>2. CASE r.view[t] = None
      <3>1. Seen(r)[t] = got
        BY <1>1, <2>2 DEF Seen
      <3> QED BY <1>3, <1>5, <2>2, <3>1
    <2> QED BY <2>1, <2>2
  <1>11. Work(m)
    BY <1>1, <1>2, <1>5, <1>7 DEF Work
  <1> HIDE DEF tip, got
  <1> QED BY <1>3, <1>5, <1>6, <1>9, <1>10, <1>11 DEF m

LEMMA ReleaseIs ==
    ASSUME NEW r, Work(r), NEW t \in Txs, r.view[t] /= None, r.view[t].dirty, NEW c \in CoinsType
    PROVE  LET l == Release(r, t, c)
           IN  /\ Work(l) /\ l.undo = r.undo /\ l.ok = r.ok
               /\ OnlyAt(t, r.view, l.view)
               /\ ~IsPruned(c) => l.view[t] /= None /\ l.view[t].coins = Cleanup(c)
               /\ OnlyAt(t, Seen(r), Seen(l))
               /\ IsPruned(c) => Gone(Seen(l)[t])
               /\ ~IsPruned(c) => Seen(l)[t] = Cleanup(c)
  <1> DEFINE view == Released(r.view, t, c)
             l == Release(r, t, c)
  <1>1. r \in Records /\ r.view \in Layers /\ ViewOK(r.view, r.tip, db)
    BY DEF Work, Records
  <1>2. /\ view \in Layers /\ OnlyAt(t, r.view, view)
        /\ view[t] = None => IsPruned(c) /\ r.view[t].fresh
        /\ view[t] /= None => view[t].coins = Cleanup(c) /\ view[t].fresh = r.view[t].fresh
                              /\ view[t].dirty = r.view[t].dirty
    BY <1>1, ReleasedIs
  <1>3. l = [r EXCEPT !.view = view]
    BY <1>1 DEF Release, Records
  <1> HIDE DEF view
  <1>4. /\ l \in Records /\ l.tip = r.tip /\ l.view = view /\ l.undo = r.undo /\ l.ok = r.ok
    BY <1>1, <1>2, <1>3 DEF Records
  <1> HIDE DEF l
  <1>5. ViewOK(view, r.tip, db)
    <2> SUFFICES ASSUME NEW u \in Txs, view[u] /= None
                 PROVE  /\ Normal(view[u].coins) /\ (r.tip[u] = None => db[u] = None /\ view[u].fresh)
                        /\ view[u].fresh => Gone(Below(r.tip, db)[u])
                        /\ ~view[u].dirty => view[u].coins = Below(r.tip, db)[u]
      BY <1>2 DEF ViewOK
    <2>1. CASE u = t
      <3>1. /\ r.tip[t] = None => db[t] = None /\ r.view[t].fresh
            /\ r.view[t].fresh => Gone(Below(r.tip, db)[t])
        BY <1>1 DEF ViewOK
      <3>2. Normal(Cleanup(c))
        BY CleanedUp
      <3> QED BY <1>2, <2>1, <3>1, <3>2
    <2>2. CASE u /= t
      BY <1>2, <2>2 DEF Work, ViewOK, OnlyAt
    <2> QED BY <2>1, <2>2
  <1>6. Work(l)
    BY <1>4, <1>5 DEF Work
  <1>7. OnlyAt(t, Seen(r), Seen(l))
    BY <1>2, <1>4 DEF Seen, OnlyAt
  <1>8. IsPruned(c) => Gone(Seen(l)[t])
    <2> SUFFICES ASSUME IsPruned(c) PROVE Gone(Seen(l)[t])
      OBVIOUS
    <2>1. CASE view[t] = None
      <3>1. Seen(l)[t] = Below(r.tip, db)[t]
        BY <1>4, <2>1 DEF Seen
      <3> QED BY <1>1, <1>2, <2>1, <3>1 DEF ViewOK
    <2>2. CASE view[t] /= None
      <3>1. Seen(l)[t] = Cleanup(c)
        BY <1>2, <1>4, <2>2 DEF Seen
      <3> QED BY <3>1, CleanedUp DEF Gone
    <2> QED BY <2>1, <2>2
  <1>9. ~IsPruned(c) => Seen(l)[t] = Cleanup(c)
    BY <1>2, <1>4 DEF Seen
  <1> QED BY <1>2, <1>4, <1>6, <1>7, <1>8, <1>9 DEF l

-----------------------------------------------------------------------------
(* Recursion.  A function defined from the root of a tree B upwards exists: *)
(* the element b takes what its parent P[b] has through the function F[b].  *)

\* g is the root of the tree B, P the parents of the other elements.
Tree(B, g, P) ==
    /\ g \in B /\ P \in [B \ {g} -> B]
    /\ \A S \in SUBSET (B \ {g}) : S /= {} => \E b \in S : P[b] \notin S

Solves(f, B, g, P, X, x0, F) ==
    f \in [B -> X] /\ f[g] = x0 /\ \A b \in B \ {g} : f[b] = F[b][f[P[b]]]

LEMMA TreeRecursion ==
    ASSUME NEW B, NEW g, NEW P, Tree(B, g, P), NEW X, NEW x0 \in X, NEW F \in [B -> [X -> X]]
    PROVE  \E f : Solves(f, B, g, P, X, x0, F)
  <1>0. /\ g \in B /\ P \in [B \ {g} -> B]
        /\ \A S \in SUBSET (B \ {g}) : S /= {} => \E b \in S : P[b] \notin S
    BY DEF Tree
  <1> DEFINE Partial == UNION {[D -> X] : D \in SUBSET B}
             Sols == {h \in Partial :
                        /\ g \in DOMAIN h /\ h[g] = x0
                        /\ \A b \in DOMAIN h \ {g} : P[b] \in DOMAIN h /\ h[b] = F[b][h[P[b]]]}
             on(h, b) == h \in Sols /\ b \in DOMAIN h
  <1>1. \A D \in SUBSET B : \A h \in [D -> X] : h \in Partial
    OBVIOUS
  <1>2. \A h \in Sols : /\ DOMAIN h \subseteq B /\ h \in [DOMAIN h -> X]
                        /\ g \in DOMAIN h /\ h[g] = x0
                        /\ \A b \in DOMAIN h \ {g} : P[b] \in DOMAIN h /\ h[b] = F[b][h[P[b]]]
    OBVIOUS
  <1>3. \A D \in SUBSET B : \A h \in [D -> X] :
           g \in D /\ h[g] = x0 /\ (\A b \in D \ {g} : P[b] \in D /\ h[b] = F[b][h[P[b]]]) => h \in Sols
    BY <1>1
  <1> HIDE DEF Partial, Sols
  <1>4. \A h, k \in Sols : \A b \in DOMAIN h \cap DOMAIN k : h[b] = k[b]
    <2> SUFFICES ASSUME NEW h \in Sols, NEW k \in Sols PROVE \A b \in DOMAIN h \cap DOMAIN k : h[b] = k[b]
      OBVIOUS
    <2> DEFINE T == {b \in DOMAIN h \cap DOMAIN k : h[b] /= k[b]}
    <2> SUFFICES ASSUME T /= {} PROVE FALSE
      OBVIOUS
    <2>1. T \in SUBSET (B \ {g})
      BY <1>2
    <2>2. PICK m \in T : P[m] \notin T
      <3> HIDE DEF T
      <3> QED BY <1>0, <2>1
    <2>3. m \in DOMAIN h \ {g} /\ m \in DOMAIN k \ {g} /\ h[m] /= k[m]
      BY <2>1
    <2>4. P[m] \in DOMAIN h /\ P[m] \in DOMAIN k /\ h[m] = F[m][h[P[m]]] /\ k[m] = F[m][k[P[m]]]
      BY <1>2, <2>3
    <2> QED BY <2>2, <2>3, <2>4
  <1>5. \A b \in B : \E h \in Sols : b \in DOMAIN h
    <2> DEFINE T == {b \in B : ~ \E h \in Sols : b \in DOMAIN h}
    <2> SUFFICES ASSUME T /= {} PROVE FALSE
      OBVIOUS
    <2>1. \E h \in Sols : g \in DOMAIN h
      <3> DEFINE h == [b \in {g} |-> x0]
      <3>1. h \in [{g} -> X] /\ h[g] = x0
        OBVIOUS
      <3> HIDE DEF h
      <3> QED BY <1>0, <1>3, <3>1
    <2>2. T \in SUBSET (B \ {g})
      BY <2>1
    <2>3. PICK m \in T : P[m] \notin T
      <3> HIDE DEF T
      <3> QED BY <1>0, <2>2
    <2>4. m \in B \ {g} /\ P[m] \in B
      BY <1>0, <2>2
    <2>5. PICK h \in Sols : P[m] \in DOMAIN h
      BY <2>3, <2>4
    <2>6. m \notin DOMAIN h
      BY <2>5
    <2> DEFINE D == DOMAIN h \cup {m}
               k == [b \in D |-> IF b = m THEN F[m][h[P[m]]] ELSE h[b]]
    <2>7. F[m] \in [X -> X] /\ h[P[m]] \in X
      BY <1>2, <2>4, <2>5
    <2>8. D \in SUBSET B /\ k \in [D -> X] /\ g \in D /\ k[g] = x0 /\ m \in D
      BY <1>2, <2>4, <2>7
    <2>9. ASSUME NEW b \in D \ {g} PROVE P[b] \in D /\ k[b] = F[b][k[P[b]]]
      <3>1. CASE b = m
        BY <3>1, <2>5, <2>6
      <3>2. CASE b /= m
        <4>1. b \in DOMAIN h \ {g}
          BY <3>2
        <4>2. P[b] \in DOMAIN h /\ h[b] = F[b][h[P[b]]]
          BY <1>2, <4>1
        <4> QED BY <3>2, <4>2, <2>6
      <3> QED BY <3>1, <3>2
    <2>10. k \in Sols
      <3> HIDE DEF D, k
      <3> QED BY <1>3, <2>8, <2>9
    <2>11. m \in DOMAIN k
      OBVIOUS
    <2> HIDE DEF k
    <2> QED BY <2>10, <2>11
  <1> DEFINE sol(b) == CHOOSE h \in Sols : b \in DOMAIN h
             f == [b \in B |-> sol(b)[b]]
  <1>6. \A b \in B : sol(b) \in Sols /\ b \in DOMAIN sol(b)
    BY <1>5
  <1> HIDE DEF sol
  <1>7. \A h \in Sols : \A b \in DOMAIN h : f[b] = h[b]
    BY <1>2, <1>4, <1>6
  <1>8. f \in [B -> X]
    BY <1>2, <1>6
  <1>9. f[g] = x0
    BY <1>0, <1>2, <1>6
  <1>10. ASSUME NEW b \in B \ {g} PROVE f[b] = F[b][f[P[b]]]
    <2>1. /\ sol(b) \in Sols /\ b \in DOMAIN sol(b) \ {g} /\ f[b] = sol(b)[b]
      BY <1>6
    <2>2. P[b] \in DOMAIN sol(b) /\ sol(b)[b] = F[b][sol(b)[P[b]]]
      BY <1>2, <2>1
    <2>3. f[P[b]] = sol(b)[P[b]]
      BY <1>7, <2>1, <2>2
    <2> QED BY <2>1, <2>2, <2>3
  <1>11. Solves(f, B, g, P, X, x0, F)
    <2> HIDE DEF f
    <2> QED BY <1>8, <1>9, <1>10 DEF Solves
  <1> QED BY <1>11

-----------------------------------------------------------------------------
(* Blocks have heights.                                                    *)

LEMMA BlocksAre ==
    /\ Genesis \in Blocks /\ \A b \in Blocks \ {Genesis} : Parent[b] \in Blocks
    /\ \A b \in Blocks : vtx[b] \in Seq(Txs)
    /\ \A S \in SUBSET (Blocks \ {Genesis}) : S /= {} => \E b \in S : Parent[b] \notin S
  BY LedgerAssumption

LEMMA BlockTree == Tree(Blocks, Genesis, Parent)
  BY LedgerAssumption DEF Tree

\* What is true of the genesis block, and of a block if it is of its parent, is true.
LEMMA UpTheTree ==
    ASSUME NEW G, Genesis \in G, \A b \in Blocks \ {Genesis} : Parent[b] \in G => b \in G
    PROVE  Blocks \subseteq G
  <1> DEFINE S == {b \in Blocks : b \notin G}
  <1> SUFFICES ASSUME S /= {} PROVE FALSE
    OBVIOUS
  <1>1. S \in SUBSET (Blocks \ {Genesis})
    OBVIOUS
  <1>2. PICK b \in S : Parent[b] \notin S
    <2> HIDE DEF S
    <2> QED BY <1>1, LedgerAssumption
  <1>3. Parent[b] \in Blocks
    BY <1>1, LedgerAssumption
  <1> QED BY <1>1, <1>2, <1>3

LEMMA Heights ==
    /\ Height \in [Blocks -> Nat] /\ Height[Genesis] = 0
    /\ \A b \in Blocks \ {Genesis} : Height[b] = Height[Parent[b]] + 1
  <1> DEFINE F == [b \in Blocks |-> [n \in Nat |-> n + 1]]
  <1>1. F \in [Blocks -> [Nat -> Nat]]
    OBVIOUS
  <1>2. \A b \in Blocks : \A n \in Nat : F[b][n] = n + 1
    OBVIOUS
  <1> HIDE DEF F
  <1>3. PICK f : Solves(f, Blocks, Genesis, Parent, Nat, 0, F)
    BY <1>1, BlockTree, TreeRecursion
  <1>4. /\ f \in [Blocks -> Nat] /\ f[Genesis] = 0
        /\ \A b \in Blocks \ {Genesis} : f[b] = F[b][f[Parent[b]]]
    BY <1>3 DEF Solves
  <1>5. \A b \in Blocks \ {Genesis} : Parent[b] \in Blocks
    BY LedgerAssumption
  <1>6. f = [b \in Blocks |-> IF b = Genesis THEN 0 ELSE f[Parent[b]] + 1]
    BY <1>2, <1>4, <1>5
  <1>7. Height = [b \in Blocks |-> IF b = Genesis THEN 0 ELSE Height[Parent[b]] + 1]
    BY <1>6 DEF Height
  <1> DEFINE G == {b \in Blocks : Height[b] \in Nat}
  <1>8. Genesis \in Blocks
    BY LedgerAssumption
  <1>9. Genesis \in G /\ \A b \in Blocks \ {Genesis} : Parent[b] \in G => b \in G
    BY <1>5, <1>7, <1>8
  <1>10. Blocks \subseteq G
    <2> HIDE DEF G
    <2> QED BY <1>9, UpTheTree
  <1> QED BY <1>7, <1>8, <1>10

LEMMA HeightTyped == \A b \in Blocks : Height[b] \in Nat
  BY Heights

-----------------------------------------------------------------------------
(* Connecting a block.                                                     *)

LEMMA OkIs ==
    ASSUME NEW r, Work(r), NEW x \in BOOLEAN
    PROVE  LET o == [r EXCEPT !.ok = x]
           IN  Work(o) /\ o.tip = r.tip /\ o.view = r.view /\ o.undo = r.undo /\ (o.ok <=> x)
  <1> DEFINE o == [r EXCEPT !.ok = x]
  <1>1. o \in Records /\ o.tip = r.tip /\ o.view = r.view /\ o.undo = r.undo /\ (o.ok <=> x)
    BY DEF Work, Records
  <1> HIDE DEF o
  <1>2. Work(o)
    BY <1>1 DEF Work
  <1> QED BY <1>1, <1>2 DEF o

LEMMA UndoIs ==
    ASSUME NEW r, Work(r), NEW u \in Seq(Seq(UndoType))
    PROVE  LET o == [r EXCEPT !.undo = u]
           IN  Work(o) /\ o.tip = r.tip /\ o.view = r.view /\ o.undo = u /\ o.ok = r.ok
  <1> DEFINE o == [r EXCEPT !.undo = u]
  <1>1. o \in Records /\ o.tip = r.tip /\ o.view = r.view /\ o.undo = u /\ o.ok = r.ok
    BY DEF Work, Records
  <1> HIDE DEF o
  <1>2. Work(o)
    BY <1>1 DEF Work
  <1> QED BY <1>1, <1>2 DEF o

LEMMA OverwritesIs ==
    ASSUME DbOK(db), NEW r, Work(r), NEW t \in Txs
    PROVE  Work(Overwrites(r, t)) /\ Overwrites(r, t).undo = r.undo
  <1>1. CASE ~r.ok
    BY <1>1 DEF Overwrites
  <1>2. CASE r.ok
    <2> DEFINE l == Look(r, t)
               x == l.view[t] = None \/ IsPruned(l.view[t].coins)
    <2>1. Work(l) /\ l.undo = r.undo /\ x \in BOOLEAN
      BY LookIs DEF IsPruned
    <2>2. Overwrites(r, t) = [l EXCEPT !.ok = x]
      BY <1>2 DEF Overwrites
    <2> HIDE DEF l, x
    <2> QED BY <2>1, <2>2, OkIs
  <1> QED BY <1>1, <1>2

LEMMA NoOverwriteRun ==
    ASSUME DbOK(db), NEW r, Work(r), NEW b \in Blocks
    PROVE  \E s : /\ s[0] = r
                  /\ \A i \in 1 .. Len(vtx[b]) : s[i] = Overwrites(s[i - 1], vtx[b][i])
                  /\ \A i \in 0 .. Len(vtx[b]) : Work(s[i]) /\ s[i].undo = r.undo
                  /\ NoOverwrite(r, b) = s[Len(vtx[b])]
  <1> DEFINE N == Len(vtx[b])
             P(i, x) == Work(x) /\ x.undo = r.undo
             s == CHOOSE s : s = [n \in 0 .. N |-> IF n = 0 THEN r ELSE Overwrites(s[n - 1], vtx[b][n])]
  <1>1. N \in Nat /\ \A i \in 1 .. N : vtx[b][i] \in Txs
    BY BlocksAre
  <1>2. P(0, r)
    OBVIOUS
  <1>3. \A i \in 1 .. N : \A x : P(i - 1, x) => P(i, Overwrites(x, vtx[b][i]))
    BY <1>1, OverwritesIs
  <1>4. \A i, x : P(i, x) => x \in Records
    BY DEF Work
  <1> HIDE DEF N, P
  <1> DEFINE F == [i \in 1 .. N |-> [x \in Records |-> Overwrites(x, vtx[b][i])]]
             I == [i \in 0 .. N |-> {x \in Records : P(i, x)}]
             G == {i \in 0 .. N : P(i, s[i])}
  <1>5. /\ I \in [0 .. N -> SUBSET Records] /\ r \in I[0]
        /\ \A i \in 1 .. N : \A x \in I[i - 1] : F[i][x] = Overwrites(x, vtx[b][i]) /\ F[i][x] \in I[i]
    BY <1>1, <1>2, <1>3, <1>4
  <1> HIDE DEF F, I
  <1>6. PICK f : Runs(f, N, Records, r, F, I)
    <2>1. \A i \in 1 .. N : \A x \in I[i - 1] : F[i][x] \in I[i]
      BY <1>5
    <2> QED BY <1>1, <1>5, <2>1, Loop
  <1>7. f = [n \in 0 .. N |-> IF n = 0 THEN r ELSE Overwrites(f[n - 1], vtx[b][n])]
    <2>1. /\ f \in [0 .. N -> Records] /\ f[0] = r /\ \A i \in 1 .. N : f[i] = F[i][f[i - 1]]
          /\ \A i \in 0 .. N : f[i] \in I[i]
      BY <1>6 DEF Runs
    <2>2. \A i \in 1 .. N : f[i] = Overwrites(f[i - 1], vtx[b][i])
      <3>1. \A i \in 1 .. N : f[i - 1] \in I[i - 1]
        BY <1>1, <2>1
      <3>2. \A i \in 1 .. N : F[i][f[i - 1]] = Overwrites(f[i - 1], vtx[b][i])
        BY <1>5, <3>1
      <3> QED BY <2>1, <3>2
    <2>3. \A i \in 0 .. N : f[i] = IF i = 0 THEN r ELSE Overwrites(f[i - 1], vtx[b][i])
      BY <1>1, <2>1, <2>2
    <2> QED BY <2>1, <2>3
  <1>8. s = [n \in 0 .. N |-> IF n = 0 THEN r ELSE Overwrites(s[n - 1], vtx[b][n])]
    BY <1>7
  <1> HIDE DEF s
  <1>9. s[0] = r /\ \A i \in 1 .. N : s[i] = Overwrites(s[i - 1], vtx[b][i])
    BY <1>1, <1>8
  <1>10. 0 \in G /\ \A i \in 1 .. N : i - 1 \in G => i \in G
    BY <1>1, <1>2, <1>3, <1>4, <1>9
  <1>11. \A i \in 0 .. N : P(i, s[i])
    <2> HIDE DEF G
    <2>1. 0 .. N \subseteq G
      BY <1>1, <1>10, EveryTurn
    <2> QED BY <2>1 DEF G
  <1>12. NoOverwrite(r, b) = s[N]
    BY DEF NoOverwrite, s, N
  <1> QED BY <1>9, <1>11, <1>12 DEF N, P

LEMMA NoOverwriteIs ==
    ASSUME DbOK(db), NEW r, Work(r), NEW b \in Blocks
    PROVE  Work(NoOverwrite(r, b)) /\ NoOverwrite(r, b).undo = r.undo
  <1>1. Len(vtx[b]) \in Nat
    BY BlocksAre
  <1> QED BY <1>1, NoOverwriteRun

LEMMA InputsAre ==
    ASSUME NEW t \in Txs
    PROVE  /\ vin[t] \in Seq(Txs \X Nat) /\ Len(vin[t]) \in Nat /\ DOMAIN vin[t] = 1 .. Len(vin[t])
           /\ \A i \in 1 .. Len(vin[t]) : vin[t][i][1] \in Txs /\ vin[t][i][2] \in Nat
           /\ \A i, j \in 1 .. Len(vin[t]) : vin[t][i] = vin[t][j] => i = j
           /\ \A i \in 1 .. Len(vin[t]) : vin[t][i] = <<vin[t][i][1], vin[t][i][2]>>
  <1>1. vin[t] \in Seq(Txs \X Nat)
    BY LedgerAssumption
  <1>2. \A i, j \in DOMAIN vin[t] : vin[t][i] = vin[t][j] => i = j
    BY CoinsAssumption
  <1>3. Len(vin[t]) \in Nat /\ DOMAIN vin[t] = 1 .. Len(vin[t]) /\ \A i \in 1 .. Len(vin[t]) : vin[t][i] \in Txs \X Nat
    BY <1>1
  <1>4. \A o \in Txs \X Nat : o[1] \in Txs /\ o[2] \in Nat /\ o = <<o[1], o[2]>>
    OBVIOUS
  <1>5. \A i \in 1 .. Len(vin[t]) :
           vin[t][i][1] \in Txs /\ vin[t][i][2] \in Nat /\ vin[t][i] = <<vin[t][i][1], vin[t][i][2]>>
    BY <1>3, <1>4
  <1>6. \A i, j \in 1 .. Len(vin[t]) : vin[t][i] = vin[t][j] => i = j
    BY <1>2, <1>3
  <1> QED BY <1>1, <1>3, <1>5, <1>6

LEMMA HaveInputIs ==
    ASSUME DbOK(db), NEW r, Work(r), NEW out \in Txs \X Nat
    PROVE  LET h == HaveInput(r, out)
           IN  /\ Work(h) /\ h.undo = r.undo
               /\ h.ok => r.ok /\ Avail(h, out)
               /\ h.ok => \A o \in Txs \X Nat : Avail(r, o) => Avail(h, o)
  <1> DEFINE h == HaveInput(r, out)
  <1>1. CASE ~r.ok
    BY <1>1 DEF HaveInput
  <1>2. CASE r.ok
    <2> DEFINE l == Look(r, out[1])
               x == Avail(l, out)
    <2>1. /\ Work(l) /\ l.undo = r.undo /\ x \in BOOLEAN
          /\ \A u \in Txs : r.view[u] /= None => l.view[u] = r.view[u]
      BY LookIs DEF Avail
    <2>2. h = [l EXCEPT !.ok = x]
      BY <1>2 DEF HaveInput
    <2> HIDE DEF l, x, h
    <2>3. Work(h) /\ h.view = l.view /\ h.undo = r.undo /\ (h.ok <=> x)
      BY <2>1, <2>2, OkIs
    <2>4. h.ok => Avail(h, out)
      BY <2>3 DEF x, Avail
    <2>5. \A o \in Txs \X Nat : Avail(r, o) => Avail(h, o)
      BY <2>1, <2>3 DEF Avail
    <2> QED BY <1>2, <2>3, <2>4, <2>5 DEF h
  <1> QED BY <1>1, <1>2

LEMMA HaveInputsRun ==
    ASSUME DbOK(db), NEW r, Work(r), NEW t \in Txs
    PROVE  \E s : /\ s[0] = r
                  /\ \A i \in 1 .. Len(vin[t]) : s[i] = HaveInput(s[i - 1], vin[t][i])
                  /\ \A i \in 0 .. Len(vin[t]) :
                        /\ Work(s[i]) /\ s[i].undo = r.undo
                        /\ s[i].ok => \A j \in 1 .. i : Avail(s[i], vin[t][j])
                  /\ HaveInputs(r, t) = s[Len(vin[t])]
  <1> DEFINE N == Len(vin[t])
             P(i, x) == Work(x) /\ x.undo = r.undo /\ (x.ok => \A j \in 1 .. i : Avail(x, vin[t][j]))
             s == CHOOSE s : s = [n \in 0 .. N |-> IF n = 0 THEN r ELSE HaveInput(s[n - 1], vin[t][n])]
  <1>1. N \in Nat /\ \A i \in 1 .. N : vin[t][i] \in Txs \X Nat
    BY InputsAre
  <1>2. P(0, r)
    OBVIOUS
  <1>3. \A i \in 1 .. N : \A x : P(i - 1, x) => P(i, HaveInput(x, vin[t][i]))
    <2> SUFFICES ASSUME NEW i \in 1 .. N, NEW x, P(i - 1, x) PROVE P(i, HaveInput(x, vin[t][i]))
      OBVIOUS
    <2> DEFINE h == HaveInput(x, vin[t][i])
    <2>1. /\ Work(h) /\ h.undo = x.undo /\ (h.ok => x.ok /\ Avail(h, vin[t][i]))
          /\ h.ok => \A o \in Txs \X Nat : Avail(x, o) => Avail(h, o)
      BY <1>1, HaveInputIs
    <2> HIDE DEF h
    <2>2. ASSUME h.ok, NEW j \in 1 .. i PROVE Avail(h, vin[t][j])
      <3>1. CASE j = i
        BY <2>1, <2>2, <3>1
      <3>2. CASE j \in 1 .. i - 1
        <4>1. vin[t][j] \in Txs \X Nat
          BY <1>1, <3>2
        <4>2. Avail(x, vin[t][j])
          BY <2>1, <2>2, <3>2
        <4> QED BY <2>1, <2>2, <4>1, <4>2
      <3> QED BY <3>1, <3>2
    <2> QED BY <2>1, <2>2 DEF h
  <1>4. \A i, x : P(i, x) => x \in Records
    BY DEF Work
  <1> HIDE DEF N, P
  <1> DEFINE F == [i \in 1 .. N |-> [x \in Records |-> HaveInput(x, vin[t][i])]]
             I == [i \in 0 .. N |-> {x \in Records : P(i, x)}]
             G == {i \in 0 .. N : P(i, s[i])}
  <1>5. /\ I \in [0 .. N -> SUBSET Records] /\ r \in I[0]
        /\ \A i \in 1 .. N : \A x \in I[i - 1] : F[i][x] = HaveInput(x, vin[t][i]) /\ F[i][x] \in I[i]
    BY <1>1, <1>2, <1>3, <1>4
  <1> HIDE DEF F, I
  <1>6. PICK f : Runs(f, N, Records, r, F, I)
    <2>1. \A i \in 1 .. N : \A x \in I[i - 1] : F[i][x] \in I[i]
      BY <1>5
    <2> QED BY <1>1, <1>5, <2>1, Loop
  <1>7. f = [n \in 0 .. N |-> IF n = 0 THEN r ELSE HaveInput(f[n - 1], vin[t][n])]
    <2>1. /\ f \in [0 .. N -> Records] /\ f[0] = r /\ \A i \in 1 .. N : f[i] = F[i][f[i - 1]]
          /\ \A i \in 0 .. N : f[i] \in I[i]
      BY <1>6 DEF Runs
    <2>2. \A i \in 1 .. N : f[i] = HaveInput(f[i - 1], vin[t][i])
      <3>1. \A i \in 1 .. N : f[i - 1] \in I[i - 1]
        BY <1>1, <2>1
      <3>2. \A i \in 1 .. N : F[i][f[i - 1]] = HaveInput(f[i - 1], vin[t][i])
        BY <1>5, <3>1
      <3> QED BY <2>1, <3>2
    <2>3. \A i \in 0 .. N : f[i] = IF i = 0 THEN r ELSE HaveInput(f[i - 1], vin[t][i])
      BY <1>1, <2>1, <2>2
    <2> QED BY <2>1, <2>3
  <1>8. s = [n \in 0 .. N |-> IF n = 0 THEN r ELSE HaveInput(s[n - 1], vin[t][n])]
    BY <1>7
  <1> HIDE DEF s
  <1>9. s[0] = r /\ \A i \in 1 .. N : s[i] = HaveInput(s[i - 1], vin[t][i])
    BY <1>1, <1>8
  <1>10. 0 \in G /\ \A i \in 1 .. N : i - 1 \in G => i \in G
    BY <1>1, <1>2, <1>3, <1>4, <1>9
  <1>11. \A i \in 0 .. N : P(i, s[i])
    <2> HIDE DEF G
    <2>1. 0 .. N \subseteq G
      BY <1>1, <1>10, EveryTurn
    <2> QED BY <2>1 DEF G
  <1>12. HaveInputs(r, t) = s[N]
    BY DEF HaveInputs, s, N
  <1> QED BY <1>9, <1>11, <1>12 DEF N, P

LEMMA HaveInputsIs ==
    ASSUME DbOK(db), NEW r, Work(r), NEW t \in Txs
    PROVE  LET h == HaveInputs(r, t)
           IN  /\ Work(h) /\ h.undo = r.undo
               /\ h.ok => \A j \in 1 .. Len(vin[t]) : Avail(h, vin[t][j])
  <1>1. Len(vin[t]) \in Nat
    BY InputsAre
  <1> QED BY <1>1, HaveInputsRun

LEMMA SpendInputIs ==
    ASSUME DbOK(db), NEW r, Work(r), NEW out \in Txs \X Nat, Avail(r, out), Len(r.undo) > 0
    PROVE  LET x == SpendInput(r, out)
               L == Len(r.undo)
           IN  /\ Work(x) /\ x.ok = r.ok /\ Len(x.undo) = L
               /\ \A j \in 1 .. L - 1 : x.undo[j] = r.undo[j]
               /\ Len(x.undo[L]) = Len(r.undo[L]) + 1
               /\ \A o \in Txs \X Nat : o /= out /\ Avail(r, o) => Avail(x, o)
  <1> DEFINE t == out[1]
             n == out[2]
             m == Modify(r, t)
             c == m.view[t].coins
             l == Release(m, t, Spent(c, n))
             U == r.undo
             L == Len(U)
             u == [U EXCEPT ![L] = Append(U[L], SpendUndo(c, n))]
             x == SpendInput(r, out)
  <1>1. t \in Txs /\ out = <<t, n>> /\ r.view[t] /= None /\ IsAvailable(r.view[t].coins, n)
    BY DEF Avail
  <1>2. /\ Work(m) /\ m.undo = U /\ m.ok = r.ok
        /\ OnlyAt(t, r.view, m.view) /\ m.view[t] /= None /\ m.view[t].dirty /\ Normal(c)
        /\ c = r.view[t].coins
    BY <1>1, ModifyIs
  <1> HIDE DEF m
  <1>3. /\ Normal(Spent(c, n)) /\ Unspent(Spent(c, n).vout) = Unspent(c.vout) \ {n}
        /\ SpendUndo(c, n) \in UndoType
    BY <1>1, <1>2, SpentIs
  <1>4. /\ Work(l) /\ l.undo = U /\ l.ok = r.ok
        /\ OnlyAt(t, m.view, l.view)
        /\ ~IsPruned(Spent(c, n)) => l.view[t] /= None /\ l.view[t].coins = Cleanup(Spent(c, n))
    <2>1. t \in Txs /\ Work(m) /\ m.undo = U /\ m.ok = r.ok /\ m.view[t] /= None /\ m.view[t].dirty
          /\ Spent(c, n) \in CoinsType
      BY <1>1, <1>2, <1>3 DEF Normal
    <2> HIDE DEF t, n, c, U
    <2> QED BY <2>1, ReleaseIs DEF l
  <1>5. x = [l EXCEPT !.undo = u]
    <2>1. x = [l EXCEPT !.undo[L] = Append(@, SpendUndo(c, n))]
      BY DEF SpendInput, m
    <2>2. l \in Records
      BY <1>4 DEF Work
    <2> HIDE DEF l, x
    <2> QED BY <1>4, <2>1, <2>2 DEF Records
  <1>6. /\ u \in Seq(Seq(UndoType)) /\ Len(u) = L /\ Len(u[L]) = Len(U[L]) + 1
        /\ \A j \in 1 .. L - 1 : u[j] = U[j]
    <2> DEFINE e == Append(U[L], SpendUndo(c, n))
    <2>1. U \in Seq(Seq(UndoType)) /\ L \in 1 .. L
      BY DEF Work, Records
    <2>2. U[L] \in Seq(UndoType)
      BY <2>1
    <2>3. e \in Seq(UndoType) /\ Len(e) = Len(U[L]) + 1
      BY <1>3, <2>2
    <2>4. u = [U EXCEPT ![L] = e]
      OBVIOUS
    <2> HIDE DEF e, u, U
    <2> QED BY <2>1, <2>3, <2>4
  <1> HIDE DEF l, u, x
  <1>7. Work(x) /\ x.view = l.view /\ x.undo = u /\ x.ok = r.ok
    BY <1>4, <1>5, <1>6, UndoIs
  <1>8. ASSUME NEW o \in Txs \X Nat, o /= out, Avail(r, o) PROVE Avail(x, o)
    <2>1. CASE o[1] /= t
      BY <1>2, <1>4, <1>7, <1>8, <2>1 DEF Avail, OnlyAt
    <2>2. CASE o[1] = t
      <3>1. o[2] /= n /\ o[2] \in Unspent(c.vout)
        BY <1>1, <1>2, <1>8, <2>2 DEF Avail, IsAvailable
      <3>2. o[2] \in Unspent(Spent(c, n).vout)
        BY <1>3, <3>1
      <3>3. l.view[t] /= None /\ l.view[t].coins = Cleanup(Spent(c, n))
        BY <1>4, <3>2 DEF IsPruned
      <3>4. Unspent(Cleanup(Spent(c, n)).vout) = Unspent(Spent(c, n).vout)
        BY <1>3, CleanedUp DEF Normal
      <3> QED BY <1>7, <2>2, <3>2, <3>3, <3>4 DEF Avail, IsAvailable
    <2> QED BY <2>1, <2>2
  <1> QED BY <1>6, <1>7, <1>8 DEF x

\* Every input of t is spent, and its undo data appended.
LEMMA SpendInputsRun ==
    ASSUME DbOK(db), NEW r, Work(r), NEW t \in Txs, Len(r.undo) > 0, r.undo[Len(r.undo)] = <<>>,
           \A j \in 1 .. Len(vin[t]) : Avail(r, vin[t][j])
    PROVE  \E s : /\ s[0] = r
                  /\ \A i \in 1 .. Len(vin[t]) : s[i] = SpendInput(s[i - 1], vin[t][i])
                  /\ \A i \in 0 .. Len(vin[t]) :
                        /\ Work(s[i]) /\ s[i].ok = r.ok /\ Len(s[i].undo) = Len(r.undo)
                        /\ \A j \in 1 .. Len(r.undo) - 1 : s[i].undo[j] = r.undo[j]
                        /\ Len(s[i].undo[Len(r.undo)]) = i
                        /\ \A j \in i + 1 .. Len(vin[t]) : Avail(s[i], vin[t][j])
                  /\ SpendInputs(r, t) = s[Len(vin[t])]
  <1> DEFINE N == Len(vin[t])
             L == Len(r.undo)
             P(i, x) == /\ Work(x) /\ x.ok = r.ok /\ Len(x.undo) = L
                        /\ \A j \in 1 .. L - 1 : x.undo[j] = r.undo[j]
                        /\ Len(x.undo[L]) = i
                        /\ \A j \in i + 1 .. N : Avail(x, vin[t][j])
             s == CHOOSE s : s = [n \in 0 .. N |-> IF n = 0 THEN r ELSE SpendInput(s[n - 1], vin[t][n])]
  <1>1. N \in Nat /\ \A i \in 1 .. N : vin[t][i] \in Txs \X Nat
    BY InputsAre
  <1>2. P(0, r)
    BY <1>1
  <1>3. \A i \in 1 .. N : \A x : P(i - 1, x) => P(i, SpendInput(x, vin[t][i]))
    <2> SUFFICES ASSUME NEW i \in 1 .. N, NEW x, P(i - 1, x) PROVE P(i, SpendInput(x, vin[t][i]))
      OBVIOUS
    <2> DEFINE y == SpendInput(x, vin[t][i])
    <2>1. Avail(x, vin[t][i]) /\ Len(x.undo) > 0 /\ vin[t][i] \in Txs \X Nat /\ Work(x)
      BY <1>1
    <2>2. /\ Work(y) /\ y.ok = x.ok /\ Len(y.undo) = Len(x.undo)
          /\ \A j \in 1 .. Len(x.undo) - 1 : y.undo[j] = x.undo[j]
          /\ Len(y.undo[Len(x.undo)]) = Len(x.undo[Len(x.undo)]) + 1
          /\ \A o \in Txs \X Nat : o /= vin[t][i] /\ Avail(x, o) => Avail(y, o)
      BY <2>1, SpendInputIs
    <2> HIDE DEF y
    <2>3. ASSUME NEW j \in i + 1 .. N PROVE Avail(y, vin[t][j])
      <3>1. j \in 1 .. N /\ j /= i /\ j \in (i - 1) + 1 .. N
        BY <1>1, <2>3
      <3>2. vin[t][j] /= vin[t][i] /\ vin[t][j] \in Txs \X Nat
        BY <1>1, <3>1, InputsAre
      <3> QED BY <2>2, <3>1, <3>2
    <2>4. Work(y) /\ y.ok = r.ok /\ Len(y.undo) = L /\ (\A j \in 1 .. L - 1 : y.undo[j] = r.undo[j])
      BY <2>2
    <2>5. Len(y.undo[L]) = i
      BY <1>1, <2>2
    <2> QED BY <2>3, <2>4, <2>5 DEF y
  <1>4. \A i, x : P(i, x) => x \in Records
    BY DEF Work
  <1> HIDE DEF N, P
  <1> DEFINE F == [i \in 1 .. N |-> [x \in Records |-> SpendInput(x, vin[t][i])]]
             I == [i \in 0 .. N |-> {x \in Records : P(i, x)}]
             G == {i \in 0 .. N : P(i, s[i])}
  <1>5. /\ I \in [0 .. N -> SUBSET Records] /\ r \in I[0]
        /\ \A i \in 1 .. N : \A x \in I[i - 1] : F[i][x] = SpendInput(x, vin[t][i]) /\ F[i][x] \in I[i]
    BY <1>1, <1>2, <1>3, <1>4
  <1> HIDE DEF F, I
  <1>6. PICK f : Runs(f, N, Records, r, F, I)
    <2>1. \A i \in 1 .. N : \A x \in I[i - 1] : F[i][x] \in I[i]
      BY <1>5
    <2> QED BY <1>1, <1>5, <2>1, Loop
  <1>7. f = [n \in 0 .. N |-> IF n = 0 THEN r ELSE SpendInput(f[n - 1], vin[t][n])]
    <2>1. /\ f \in [0 .. N -> Records] /\ f[0] = r /\ \A i \in 1 .. N : f[i] = F[i][f[i - 1]]
          /\ \A i \in 0 .. N : f[i] \in I[i]
      BY <1>6 DEF Runs
    <2>2. \A i \in 1 .. N : f[i] = SpendInput(f[i - 1], vin[t][i])
      <3>1. \A i \in 1 .. N : f[i - 1] \in I[i - 1]
        BY <1>1, <2>1
      <3>2. \A i \in 1 .. N : F[i][f[i - 1]] = SpendInput(f[i - 1], vin[t][i])
        BY <1>5, <3>1
      <3> QED BY <2>1, <3>2
    <2>3. \A i \in 0 .. N : f[i] = IF i = 0 THEN r ELSE SpendInput(f[i - 1], vin[t][i])
      BY <1>1, <2>1, <2>2
    <2> QED BY <2>1, <2>3
  <1>8. s = [n \in 0 .. N |-> IF n = 0 THEN r ELSE SpendInput(s[n - 1], vin[t][n])]
    BY <1>7
  <1> HIDE DEF s
  <1>9. s[0] = r /\ \A i \in 1 .. N : s[i] = SpendInput(s[i - 1], vin[t][i])
    BY <1>1, <1>8
  <1>10. 0 \in G /\ \A i \in 1 .. N : i - 1 \in G => i \in G
    BY <1>1, <1>2, <1>3, <1>4, <1>9
  <1>11. \A i \in 0 .. N : P(i, s[i])
    <2> HIDE DEF G
    <2>1. 0 .. N \subseteq G
      BY <1>1, <1>10, EveryTurn
    <2> QED BY <2>1 DEF G
  <1>12. SpendInputs(r, t) = s[N]
    BY DEF SpendInputs, s, N
  <1> QED BY <1>9, <1>11, <1>12 DEF N, P

LEMMA SpendInputsIs ==
    ASSUME DbOK(db), NEW r, Work(r), NEW t \in Txs, Len(r.undo) > 0, r.undo[Len(r.undo)] = <<>>,
           \A j \in 1 .. Len(vin[t]) : Avail(r, vin[t][j])
    PROVE  LET x == SpendInputs(r, t)
               L == Len(r.undo)
           IN  /\ Work(x) /\ x.ok = r.ok /\ Len(x.undo) = L
               /\ \A j \in 1 .. L - 1 : x.undo[j] = r.undo[j]
               /\ Len(x.undo[L]) = Len(vin[t])
  <1> DEFINE L == Len(r.undo)
             x == SpendInputs(r, t)
  <1>1. Len(vin[t]) \in Nat /\ Len(vin[t]) \in 0 .. Len(vin[t])
    BY InputsAre
  <1>2. PICK s :
           /\ \A i \in 0 .. Len(vin[t]) :
                 /\ Work(s[i]) /\ s[i].ok = r.ok /\ Len(s[i].undo) = L
                 /\ \A j \in 1 .. L - 1 : s[i].undo[j] = r.undo[j]
                 /\ Len(s[i].undo[L]) = i
           /\ x = s[Len(vin[t])]
    BY SpendInputsRun
  <1> HIDE DEF x, L
  <1>3. /\ Work(x) /\ x.ok = r.ok /\ Len(x.undo) = L
        /\ \A j \in 1 .. L - 1 : x.undo[j] = r.undo[j]
        /\ Len(x.undo[L]) = Len(vin[t])
    BY <1>1, <1>2
  <1> QED BY <1>3 DEF x, L

LEMMA UpdateCoinsIs ==
    ASSUME DbOK(db), NEW r, Work(r), NEW t \in Txs, NEW h \in Nat,
           \A j \in 1 .. Len(vin[t]) : Avail(r, vin[t][j])
    PROVE  LET x == UpdateCoins(r, t, h)
               L == Len(r.undo)
           IN  /\ Work(x) /\ x.ok = r.ok /\ Len(x.undo) = L + 1
               /\ \A j \in 1 .. L : x.undo[j] = r.undo[j]
               /\ Len(x.undo[L + 1]) = Len(vin[t])
  <1> DEFINE L == Len(r.undo)
             u == Append(r.undo, <<>>)
             o == [r EXCEPT !.undo = u]
             spent == SpendInputs(o, t)
             m == Modify(spent, t)
             x == UpdateCoins(r, t, h)
  <1>1. r.undo \in Seq(Seq(UndoType)) /\ L \in Nat
    BY DEF Work, Records
  <1>2. /\ u \in Seq(Seq(UndoType)) /\ Len(u) = L + 1 /\ u[L + 1] = <<>> /\ \A j \in 1 .. L : u[j] = r.undo[j]
    BY <1>1
  <1> HIDE DEF u
  <1>3. Work(o) /\ o.view = r.view /\ o.undo = u /\ o.ok = r.ok
    BY <1>2, UndoIs
  <1>4. o = [r EXCEPT !.undo = Append(@, <<>>)]
    BY DEF u, Work, Records
  <1> HIDE DEF o
  <1>5. /\ Work(spent) /\ spent.ok = r.ok /\ Len(spent.undo) = L + 1
        /\ \A j \in 1 .. L : spent.undo[j] = r.undo[j]
        /\ Len(spent.undo[L + 1]) = Len(vin[t])
    <2>1. \A j \in 1 .. Len(vin[t]) : Avail(o, vin[t][j])
      BY <1>3 DEF Avail
    <2>2. Len(o.undo) > 0 /\ Len(o.undo) = L + 1 /\ o.undo[Len(o.undo)] = <<>>
      BY <1>1, <1>2, <1>3
    <2>3. /\ Work(spent) /\ spent.ok = o.ok /\ Len(spent.undo) = Len(o.undo)
          /\ \A j \in 1 .. Len(o.undo) - 1 : spent.undo[j] = o.undo[j]
          /\ Len(spent.undo[Len(o.undo)]) = Len(vin[t])
      BY <1>3, <2>1, <2>2, SpendInputsIs
    <2> HIDE DEF spent
    <2>4. Len(o.undo) = L + 1 /\ Len(o.undo) - 1 = L /\ \A j \in 1 .. L : o.undo[j] = r.undo[j]
      BY <1>1, <1>2, <1>3, <2>2
    <2>5. Work(spent) /\ spent.ok = r.ok /\ Len(spent.undo) = L + 1 /\ Len(spent.undo[L + 1]) = Len(vin[t])
      BY <1>3, <2>3, <2>4
    <2>6. \A j \in 1 .. L : spent.undo[j] = r.undo[j]
      BY <2>3, <2>4
    <2> QED BY <2>5, <2>6
  <1>6. x = Release(m, t, FromTx(t, h))
    BY <1>4 DEF UpdateCoins
  <1> HIDE DEF spent
  <1>7. Work(m) /\ m.undo = spent.undo /\ m.ok = spent.ok /\ m.view[t] /= None /\ m.view[t].dirty
    BY <1>5, ModifyIs
  <1> HIDE DEF m, x
  <1>8. Work(x) /\ x.undo = m.undo /\ x.ok = m.ok
    <2>1. FromTx(t, h) \in CoinsType
      BY FromTxNormal DEF Normal
    <2> QED BY <1>6, <1>7, <2>1, ReleaseIs
  <1> QED BY <1>5, <1>7, <1>8 DEF x

LEMMA ConnectTxIs ==
    ASSUME DbOK(db), NEW r, Work(r), NEW t \in Txs, NEW h \in Nat
    PROVE  LET x == ConnectTx(r, t, h)
               L == Len(r.undo)
           IN  /\ Work(x)
               /\ x.ok => /\ r.ok /\ Len(x.undo) = L + 1
                          /\ \A j \in 1 .. L : x.undo[j] = r.undo[j]
                          /\ Len(x.undo[L + 1]) = Len(vin[t])
  <1> DEFINE have == HaveInputs(r, t)
             x == ConnectTx(r, t, h)
  <1>1. CASE ~r.ok
    BY <1>1 DEF ConnectTx
  <1>2. CASE r.ok
    <2>1. /\ Work(have) /\ have.undo = r.undo
          /\ have.ok => \A j \in 1 .. Len(vin[t]) : Avail(have, vin[t][j])
      BY HaveInputsIs
    <2>2. CASE ~have.ok \/ ~Mature(have, t, h)
      <3>1. x = [have EXCEPT !.ok = FALSE]
        BY <1>2, <2>2 DEF ConnectTx
      <3> HIDE DEF have, x
      <3>2. Work(x) /\ ~x.ok
        BY <2>1, <3>1, OkIs
      <3> QED BY <3>2 DEF x
    <2>3. CASE ~(~have.ok \/ ~Mature(have, t, h))
      <3>1. x = UpdateCoins(have, t, h)
        BY <1>2, <2>3 DEF ConnectTx
      <3> HIDE DEF have, x
      <3>2. /\ Work(x) /\ Len(x.undo) = Len(r.undo) + 1
            /\ \A j \in 1 .. Len(r.undo) : x.undo[j] = r.undo[j]
            /\ Len(x.undo[Len(r.undo) + 1]) = Len(vin[t])
        BY <2>1, <2>3, <3>1, UpdateCoinsIs
      <3> QED BY <1>2, <3>2 DEF x
    <2> QED BY <2>2, <2>3
  <1> QED BY <1>1, <1>2

\* Undo data of the shape of a block.
Fits(b, u) ==
    /\ u \in Seq(Seq(UndoType)) /\ Len(u) = Len(vtx[b])
    /\ \A j \in 1 .. Len(vtx[b]) : Len(u[j]) = Len(vin[vtx[b][j]])

LEMMA ConnectBlockRun ==
    ASSUME DbOK(db), NEW r, Work(r), NEW b \in Blocks
    PROVE  \E s : /\ s[0] = NoOverwrite([r EXCEPT !.undo = <<>>], b)
                  /\ \A i \in 1 .. Len(vtx[b]) : s[i] = ConnectTx(s[i - 1], vtx[b][i], Height[b])
                  /\ \A i \in 0 .. Len(vtx[b]) :
                        /\ Work(s[i])
                        /\ s[i].ok => /\ Len(s[i].undo) = i
                                      /\ \A j \in 1 .. i : Len(s[i].undo[j]) = Len(vin[vtx[b][j]])
                  /\ ConnectBlock(r, b) = s[Len(vtx[b])]
  <1> DEFINE N == Len(vtx[b])
             start == NoOverwrite([r EXCEPT !.undo = <<>>], b)
             P(i, x) == /\ Work(x)
                        /\ x.ok => /\ Len(x.undo) = i
                                   /\ \A j \in 1 .. i : Len(x.undo[j]) = Len(vin[vtx[b][j]])
             s == CHOOSE s : s = [n \in 0 .. N |-> IF n = 0 THEN start ELSE ConnectTx(s[n - 1], vtx[b][n], Height[b])]
  <1>1. N \in Nat /\ Height[b] \in Nat /\ \A i \in 1 .. N : vtx[b][i] \in Txs
    BY BlocksAre, HeightTyped
  <1>2. P(0, start)
    <2> DEFINE o == [r EXCEPT !.undo = <<>>]
    <2>1. <<>> \in Seq(Seq(UndoType))
      OBVIOUS
    <2>2. Work(o) /\ o.undo = <<>>
      BY <2>1, UndoIs
    <2> HIDE DEF o
    <2>3. Work(start) /\ start.undo = <<>>
      BY <2>2, NoOverwriteIs DEF o
    <2> HIDE DEF start
    <2> QED BY <2>3
  <1> HIDE DEF start
  <1>3. \A i \in 1 .. N : \A x : P(i - 1, x) => P(i, ConnectTx(x, vtx[b][i], Height[b]))
    <2> SUFFICES ASSUME NEW i \in 1 .. N, NEW x, P(i - 1, x) PROVE P(i, ConnectTx(x, vtx[b][i], Height[b]))
      OBVIOUS
    <2> DEFINE y == ConnectTx(x, vtx[b][i], Height[b])
    <2>1. /\ Work(y)
          /\ y.ok => /\ x.ok /\ Len(y.undo) = Len(x.undo) + 1
                     /\ \A j \in 1 .. Len(x.undo) : y.undo[j] = x.undo[j]
                     /\ Len(y.undo[Len(x.undo) + 1]) = Len(vin[vtx[b][i]])
      BY <1>1, ConnectTxIs
    <2> HIDE DEF y
    <2>2. ASSUME y.ok
          PROVE  Len(y.undo) = i /\ \A j \in 1 .. i : Len(y.undo[j]) = Len(vin[vtx[b][j]])
      <3>1. Len(x.undo) = i - 1 /\ (i - 1) + 1 = i
        BY <1>1, <2>1, <2>2
      <3>2. /\ Len(y.undo) = i /\ \A j \in 1 .. i - 1 : y.undo[j] = x.undo[j]
            /\ Len(y.undo[i]) = Len(vin[vtx[b][i]])
        BY <2>1, <2>2, <3>1
      <3>3. \A j \in 1 .. i - 1 : Len(x.undo[j]) = Len(vin[vtx[b][j]])
        BY <2>1, <2>2
      <3>4. \A j \in 1 .. i : j = i \/ j \in 1 .. i - 1
        BY <1>1
      <3> QED BY <3>2, <3>3, <3>4
    <2> QED BY <2>1, <2>2 DEF y
  <1>4. \A i, x : P(i, x) => x \in Records
    BY DEF Work
  <1> HIDE DEF N, P
  <1> DEFINE F == [i \in 1 .. N |-> [x \in Records |-> ConnectTx(x, vtx[b][i], Height[b])]]
             I == [i \in 0 .. N |-> {x \in Records : P(i, x)}]
             G == {i \in 0 .. N : P(i, s[i])}
  <1>5. /\ I \in [0 .. N -> SUBSET Records] /\ start \in I[0]
        /\ \A i \in 1 .. N : \A x \in I[i - 1] : F[i][x] = ConnectTx(x, vtx[b][i], Height[b]) /\ F[i][x] \in I[i]
    <2>1. I \in [0 .. N -> SUBSET Records] /\ start \in I[0]
      BY <1>1, <1>2, <1>4
    <2>2. \A i \in 1 .. N : I[i - 1] = {x \in Records : P(i - 1, x)} /\ I[i] = {x \in Records : P(i, x)}
      BY <1>1
    <2>3. \A i \in 1 .. N : \A x \in Records : F[i][x] = ConnectTx(x, vtx[b][i], Height[b])
      OBVIOUS
    <2> HIDE DEF F, I
    <2> QED BY <1>3, <1>4, <2>1, <2>2, <2>3
  <1> HIDE DEF F, I
  <1>6. PICK f : Runs(f, N, Records, start, F, I)
    <2>1. \A i \in 1 .. N : \A x \in I[i - 1] : F[i][x] \in I[i]
      BY <1>5
    <2> QED BY <1>1, <1>5, <2>1, Loop
  <1>7. f = [n \in 0 .. N |-> IF n = 0 THEN start ELSE ConnectTx(f[n - 1], vtx[b][n], Height[b])]
    <2>1. /\ f \in [0 .. N -> Records] /\ f[0] = start /\ \A i \in 1 .. N : f[i] = F[i][f[i - 1]]
          /\ \A i \in 0 .. N : f[i] \in I[i]
      BY <1>6 DEF Runs
    <2>2. \A i \in 1 .. N : f[i] = ConnectTx(f[i - 1], vtx[b][i], Height[b])
      <3>1. \A i \in 1 .. N : f[i - 1] \in I[i - 1]
        BY <1>1, <2>1
      <3>2. \A i \in 1 .. N : F[i][f[i - 1]] = ConnectTx(f[i - 1], vtx[b][i], Height[b])
        BY <1>5, <3>1
      <3> QED BY <2>1, <3>2
    <2>3. \A i \in 0 .. N : f[i] = IF i = 0 THEN start ELSE ConnectTx(f[i - 1], vtx[b][i], Height[b])
      BY <1>1, <2>1, <2>2
    <2> QED BY <2>1, <2>3
  <1>8. s = [n \in 0 .. N |-> IF n = 0 THEN start ELSE ConnectTx(s[n - 1], vtx[b][n], Height[b])]
    BY <1>7
  <1> HIDE DEF s
  <1>9. s[0] = start /\ \A i \in 1 .. N : s[i] = ConnectTx(s[i - 1], vtx[b][i], Height[b])
    BY <1>1, <1>8
  <1>10. 0 \in G /\ \A i \in 1 .. N : i - 1 \in G => i \in G
    BY <1>1, <1>2, <1>3, <1>4, <1>9
  <1>11. \A i \in 0 .. N : P(i, s[i])
    <2> HIDE DEF G
    <2>1. 0 .. N \subseteq G
      BY <1>1, <1>10, EveryTurn
    <2> QED BY <2>1 DEF G
  <1>12. ConnectBlock(r, b) = s[N]
    BY DEF ConnectBlock, s, N, start
  <1>13. start = NoOverwrite([r EXCEPT !.undo = <<>>], b)
    BY DEF start
  <1>14. \A i \in 0 .. N : /\ Work(s[i])
                           /\ s[i].ok => /\ Len(s[i].undo) = i
                                         /\ \A j \in 1 .. i : Len(s[i].undo[j]) = Len(vin[vtx[b][j]])
    BY <1>11 DEF P
  <1>15. s[0] = NoOverwrite([r EXCEPT !.undo = <<>>], b)
    BY <1>9, <1>13
  <1> HIDE DEF start
  <1> QED BY ZenonT(30), <1>9, <1>12, <1>14, <1>15 DEF N

LEMMA ConnectBlockIs ==
    ASSUME DbOK(db), NEW r, Work(r), NEW b \in Blocks
    PROVE  LET x == ConnectBlock(r, b)
           IN  Work(x) /\ (x.ok => Fits(b, x.undo))
  <1> DEFINE N == Len(vtx[b])
             x == ConnectBlock(r, b)
  <1>1. N \in Nat
    BY BlocksAre
  <1>2. /\ Work(x)
        /\ x.ok => /\ Len(x.undo) = N
                   /\ \A j \in 1 .. N : Len(x.undo[j]) = Len(vin[vtx[b][j]])
    <2>1. PICK s : /\ s[0] = NoOverwrite([r EXCEPT !.undo = <<>>], b)
                   /\ \A i \in 1 .. Len(vtx[b]) : s[i] = ConnectTx(s[i - 1], vtx[b][i], Height[b])
                   /\ \A i \in 0 .. Len(vtx[b]) :
                         /\ Work(s[i])
                         /\ s[i].ok => /\ Len(s[i].undo) = i
                                       /\ \A j \in 1 .. i : Len(s[i].undo[j]) = Len(vin[vtx[b][j]])
                   /\ ConnectBlock(r, b) = s[Len(vtx[b])]
      BY ConnectBlockRun
    <2>2. Len(vtx[b]) \in 0 .. Len(vtx[b])
      BY <1>1
    <2>3. /\ Work(s[Len(vtx[b])])
          /\ s[Len(vtx[b])].ok => /\ Len(s[Len(vtx[b])].undo) = Len(vtx[b])
                                  /\ \A j \in 1 .. Len(vtx[b]) : Len(s[Len(vtx[b])].undo[j]) = Len(vin[vtx[b][j]])
      BY <2>1, <2>2
    <2> QED BY <2>1, <2>3, Zenon
  <1> HIDE DEF x
  <1>3. x.undo \in Seq(Seq(UndoType))
    BY <1>2 DEF Work, Records
  <1>4. x.ok => Fits(b, x.undo)
    BY <1>2, <1>3 DEF Fits, N
  <1> QED BY <1>2, <1>4 DEF x

-----------------------------------------------------------------------------
(* Disconnecting a block.                                                  *)

LEMMA RestoreInputIs ==
    ASSUME DbOK(db), NEW r, Work(r), NEW out \in Txs \X Nat, NEW u \in UndoType
    PROVE  Work(RestoreInput(r, out, u))
  <1> DEFINE t == out[1]
             m == Modify(r, t)
             c == m.view[t].coins
             l == Release(m, t, Restored(c, out[2], u))
             ok == l.ok /\ RestoresCleanly(c, out[2], u)
  <1>1. t \in Txs /\ out[2] \in Nat
    OBVIOUS
  <1>2. Work(m) /\ m.view[t] /= None /\ m.view[t].dirty /\ Normal(c)
    BY <1>1, ModifyIs
  <1>3. RestoreInput(r, out, u) = [l EXCEPT !.ok = @ /\ RestoresCleanly(c, out[2], u)]
    BY DEF RestoreInput
  <1> HIDE DEF m
  <1>4. Restored(c, out[2], u) \in CoinsType
    BY <1>1, <1>2, RestoredTyped DEF Normal
  <1>5. Work(l)
    BY <1>1, <1>2, <1>4, ReleaseIs
  <1> HIDE DEF l
  <1>6. ok \in BOOLEAN
    BY <1>5 DEF Work, Records, RestoresCleanly, IsPruned, IsAvailable
  <1>7. RestoreInput(r, out, u) = [l EXCEPT !.ok = ok]
    BY <1>3, <1>5 DEF Work, Records
  <1> HIDE DEF ok
  <1> QED BY <1>5, <1>6, <1>7, OkIs

LEMMA RestoreInputsRun ==
    ASSUME DbOK(db), NEW r, Work(r), NEW t \in Txs, NEW txundo \in Seq(UndoType), Len(txundo) = Len(vin[t])
    PROVE  \E s : /\ s[0] = r
                  /\ \A i \in 1 .. Len(vin[t]) : s[i] = RestoreInput(s[i - 1], vin[t][Len(vin[t]) + 1 - i], txundo[Len(vin[t]) + 1 - i])
                  /\ \A i \in 0 .. Len(vin[t]) : Work(s[i])
                  /\ RestoreInputs(r, t, txundo) = s[Len(vin[t])]
  <1> DEFINE N == Len(vin[t])
             P(i, x) == Work(x)
             s == CHOOSE s : s = [n \in 0 .. N |-> IF n = 0 THEN r ELSE RestoreInput(s[n - 1], vin[t][N + 1 - n], txundo[N + 1 - n])]
  <1>1. N \in Nat /\ \A i \in 1 .. N : vin[t][i] \in Txs \X Nat /\ txundo[i] \in UndoType
    BY InputsAre
  <1>2. P(0, r)
    OBVIOUS
  <1>3. \A i \in 1 .. N : \A x : P(i - 1, x) => P(i, RestoreInput(x, vin[t][N + 1 - i], txundo[N + 1 - i]))
    <2>1. \A i \in 1 .. N : N + 1 - i \in 1 .. N
      BY <1>1
    <2> QED BY <1>1, <2>1, RestoreInputIs
  <1>4. \A i, x : P(i, x) => x \in Records
    BY DEF Work
  <1> HIDE DEF N, P
  <1> DEFINE F == [i \in 1 .. N |-> [x \in Records |-> RestoreInput(x, vin[t][N + 1 - i], txundo[N + 1 - i])]]
             I == [i \in 0 .. N |-> {x \in Records : P(i, x)}]
             G == {i \in 0 .. N : P(i, s[i])}
  <1>5. /\ I \in [0 .. N -> SUBSET Records] /\ r \in I[0]
        /\ \A i \in 1 .. N : \A x \in I[i - 1] : F[i][x] = RestoreInput(x, vin[t][N + 1 - i], txundo[N + 1 - i]) /\ F[i][x] \in I[i]
    <2>1. I \in [0 .. N -> SUBSET Records] /\ r \in I[0]
      BY <1>1, <1>2, <1>4
    <2>2. \A i \in 1 .. N : I[i - 1] = {x \in Records : P(i - 1, x)} /\ I[i] = {x \in Records : P(i, x)}
      BY <1>1
    <2>3. \A i \in 1 .. N : \A x \in Records : F[i][x] = RestoreInput(x, vin[t][N + 1 - i], txundo[N + 1 - i])
      OBVIOUS
    <2> HIDE DEF F, I
    <2> QED BY <1>3, <1>4, <2>1, <2>2, <2>3
  <1> HIDE DEF F, I
  <1>6. PICK f : Runs(f, N, Records, r, F, I)
    <2>1. \A i \in 1 .. N : \A x \in I[i - 1] : F[i][x] \in I[i]
      BY <1>5
    <2> QED BY <1>1, <1>5, <2>1, Loop
  <1>7. f = [n \in 0 .. N |-> IF n = 0 THEN r ELSE RestoreInput(f[n - 1], vin[t][N + 1 - n], txundo[N + 1 - n])]
    <2>1. /\ f \in [0 .. N -> Records] /\ f[0] = r /\ \A i \in 1 .. N : f[i] = F[i][f[i - 1]]
          /\ \A i \in 0 .. N : f[i] \in I[i]
      BY <1>6 DEF Runs
    <2>2. \A i \in 1 .. N : f[i] = RestoreInput(f[i - 1], vin[t][N + 1 - i], txundo[N + 1 - i])
      <3>1. \A i \in 1 .. N : f[i - 1] \in I[i - 1]
        BY <1>1, <2>1
      <3>2. \A i \in 1 .. N : F[i][f[i - 1]] = RestoreInput(f[i - 1], vin[t][N + 1 - i], txundo[N + 1 - i])
        BY <1>5, <3>1
      <3> QED BY <2>1, <3>2
    <2>3. \A i \in 0 .. N : f[i] = IF i = 0 THEN r ELSE RestoreInput(f[i - 1], vin[t][N + 1 - i], txundo[N + 1 - i])
      BY <1>1, <2>1, <2>2
    <2> QED BY <2>1, <2>3
  <1>8. s = [n \in 0 .. N |-> IF n = 0 THEN r ELSE RestoreInput(s[n - 1], vin[t][N + 1 - n], txundo[N + 1 - n])]
    BY <1>7
  <1> HIDE DEF s
  <1>9. s[0] = r /\ \A i \in 1 .. N : s[i] = RestoreInput(s[i - 1], vin[t][N + 1 - i], txundo[N + 1 - i])
    BY <1>1, <1>8
  <1>10. 0 \in G /\ \A i \in 1 .. N : i - 1 \in G => i \in G
    BY <1>1, <1>2, <1>3, <1>4, <1>9
  <1>11. \A i \in 0 .. N : P(i, s[i])
    <2> HIDE DEF G
    <2>1. 0 .. N \subseteq G
      BY <1>1, <1>10, EveryTurn
    <2> QED BY <2>1 DEF G
  <1>12. RestoreInputs(r, t, txundo) = s[N]
    BY DEF RestoreInputs, s, N
  <1> QED BY <1>9, <1>11, <1>12 DEF N, P

LEMMA RestoreInputsIs ==
    ASSUME DbOK(db), NEW r, Work(r), NEW t \in Txs, NEW txundo \in Seq(UndoType), Len(txundo) = Len(vin[t])
    PROVE  Work(RestoreInputs(r, t, txundo))
  <1>1. Len(vin[t]) \in Nat
    BY InputsAre
  <1> QED BY <1>1, RestoreInputsRun

LEMMA DisconnectTxIs ==
    ASSUME DbOK(db), NEW r, Work(r), NEW t \in Txs, NEW h \in Nat,
           NEW txundo \in Seq(UndoType), Len(txundo) = Len(vin[t])
    PROVE  Work(DisconnectTx(r, t, h, txundo))
  <1> DEFINE m == Modify(r, t)
             c == ClearUnspendable(m.view[t].coins)
             l == Release(m, t, Cleared)
             same == Same(c, FromTx(t, h))
             ok == l.ok /\ same
             o == [l EXCEPT !.ok = ok]
  <1>1. Work(m) /\ m.view[t] /= None /\ m.view[t].dirty
    BY ModifyIs
  <1>2. DisconnectTx(r, t, h, txundo) = RestoreInputs([l EXCEPT !.ok = @ /\ same], t, txundo)
    BY DEF DisconnectTx
  <1>3. same \in BOOLEAN
    BY DEF Same, IsPruned
  <1> HIDE DEF m, same
  <1>4. Work(l)
    BY <1>1, ClearedIs, ReleaseIs DEF Normal
  <1> HIDE DEF l
  <1>5. ok \in BOOLEAN /\ [l EXCEPT !.ok = @ /\ same] = o
    BY <1>3, <1>4 DEF Work, Records
  <1> HIDE DEF ok
  <1>6. Work(o)
    BY <1>4, <1>5, OkIs
  <1> HIDE DEF o
  <1> QED BY <1>2, <1>5, <1>6, RestoreInputsIs

LEMMA DisconnectAllRun ==
    ASSUME DbOK(db), NEW r, Work(r), NEW b \in Blocks, NEW u, u /= None, Fits(b, u)
    PROVE  \E s : /\ s[0] = r
                  /\ \A i \in 1 .. Len(vtx[b]) : s[i] = DisconnectTx(s[i - 1], vtx[b][Len(vtx[b]) + 1 - i], Height[b], u[Len(vtx[b]) + 1 - i])
                  /\ \A i \in 0 .. Len(vtx[b]) : Work(s[i])
                  /\ DisconnectBlock(r, b, u) = s[Len(vtx[b])]
  <1> DEFINE N == Len(vtx[b])
             P(i, x) == Work(x)
             s == CHOOSE s : s = [n \in 0 .. N |-> IF n = 0 THEN r ELSE DisconnectTx(s[n - 1], vtx[b][N + 1 - n], Height[b], u[N + 1 - n])]
  <1>1. /\ N \in Nat /\ Height[b] \in Nat
        /\ \A i \in 1 .. N : vtx[b][i] \in Txs /\ u[i] \in Seq(UndoType) /\ Len(u[i]) = Len(vin[vtx[b][i]])
    BY BlocksAre, HeightTyped DEF Fits
  <1>2. P(0, r)
    OBVIOUS
  <1>3. \A i \in 1 .. N : \A x : P(i - 1, x) => P(i, DisconnectTx(x, vtx[b][N + 1 - i], Height[b], u[N + 1 - i]))
    <2>1. \A i \in 1 .. N : N + 1 - i \in 1 .. N
      BY <1>1
    <2> QED BY <1>1, <2>1, DisconnectTxIs
  <1>4. \A i, x : P(i, x) => x \in Records
    BY DEF Work
  <1> HIDE DEF N, P
  <1> DEFINE F == [i \in 1 .. N |-> [x \in Records |-> DisconnectTx(x, vtx[b][N + 1 - i], Height[b], u[N + 1 - i])]]
             I == [i \in 0 .. N |-> {x \in Records : P(i, x)}]
             G == {i \in 0 .. N : P(i, s[i])}
  <1>5. /\ I \in [0 .. N -> SUBSET Records] /\ r \in I[0]
        /\ \A i \in 1 .. N : \A x \in I[i - 1] : F[i][x] = DisconnectTx(x, vtx[b][N + 1 - i], Height[b], u[N + 1 - i]) /\ F[i][x] \in I[i]
    <2>1. I \in [0 .. N -> SUBSET Records] /\ r \in I[0]
      BY <1>1, <1>2, <1>4
    <2>2. \A i \in 1 .. N : I[i - 1] = {x \in Records : P(i - 1, x)} /\ I[i] = {x \in Records : P(i, x)}
      BY <1>1
    <2>3. \A i \in 1 .. N : \A x \in Records : F[i][x] = DisconnectTx(x, vtx[b][N + 1 - i], Height[b], u[N + 1 - i])
      OBVIOUS
    <2> HIDE DEF F, I
    <2> QED BY <1>3, <1>4, <2>1, <2>2, <2>3
  <1> HIDE DEF F, I
  <1>6. PICK f : Runs(f, N, Records, r, F, I)
    <2>1. \A i \in 1 .. N : \A x \in I[i - 1] : F[i][x] \in I[i]
      BY <1>5
    <2> QED BY <1>1, <1>5, <2>1, Loop
  <1>7. f = [n \in 0 .. N |-> IF n = 0 THEN r ELSE DisconnectTx(f[n - 1], vtx[b][N + 1 - n], Height[b], u[N + 1 - n])]
    <2>1. /\ f \in [0 .. N -> Records] /\ f[0] = r /\ \A i \in 1 .. N : f[i] = F[i][f[i - 1]]
          /\ \A i \in 0 .. N : f[i] \in I[i]
      BY <1>6 DEF Runs
    <2>2. \A i \in 1 .. N : f[i] = DisconnectTx(f[i - 1], vtx[b][N + 1 - i], Height[b], u[N + 1 - i])
      <3>1. \A i \in 1 .. N : f[i - 1] \in I[i - 1]
        BY <1>1, <2>1
      <3>2. \A i \in 1 .. N : F[i][f[i - 1]] = DisconnectTx(f[i - 1], vtx[b][N + 1 - i], Height[b], u[N + 1 - i])
        BY <1>5, <3>1
      <3> QED BY <2>1, <3>2
    <2>3. \A i \in 0 .. N : f[i] = IF i = 0 THEN r ELSE DisconnectTx(f[i - 1], vtx[b][N + 1 - i], Height[b], u[N + 1 - i])
      BY <1>1, <2>1, <2>2
    <2> QED BY <2>1, <2>3
  <1>8. s = [n \in 0 .. N |-> IF n = 0 THEN r ELSE DisconnectTx(s[n - 1], vtx[b][N + 1 - n], Height[b], u[N + 1 - n])]
    BY <1>7
  <1> HIDE DEF s
  <1>9. s[0] = r /\ \A i \in 1 .. N : s[i] = DisconnectTx(s[i - 1], vtx[b][N + 1 - i], Height[b], u[N + 1 - i])
    BY <1>1, <1>8
  <1>10. 0 \in G /\ \A i \in 1 .. N : i - 1 \in G => i \in G
    BY <1>1, <1>2, <1>3, <1>4, <1>9
  <1>11. \A i \in 0 .. N : P(i, s[i])
    <2> HIDE DEF G
    <2>1. 0 .. N \subseteq G
      BY <1>1, <1>10, EveryTurn
    <2> QED BY <2>1 DEF G
  <1>12. DisconnectBlock(r, b, u) = s[N]
    BY DEF DisconnectBlock, s, N
  <1> QED BY <1>9, <1>11, <1>12 DEF N, P

LEMMA DisconnectAllIs ==
    ASSUME DbOK(db), NEW r, Work(r), NEW b \in Blocks, NEW u, u /= None, Fits(b, u)
    PROVE  Work(DisconnectBlock(r, b, u))
  <1>1. Len(vtx[b]) \in Nat
    BY BlocksAre
  <1> QED BY <1>1, DisconnectAllRun

LEMMA DisconnectBlockIs ==
    ASSUME DbOK(db), NEW r, Work(r), NEW b \in Blocks, NEW u, u = None \/ Fits(b, u)
    PROVE  Work(DisconnectBlock(r, b, u))
  <1>1. CASE u = None
    <2>1. DisconnectBlock(r, b, u) = [r EXCEPT !.ok = FALSE]
      BY <1>1 DEF DisconnectBlock
    <2> QED BY <2>1, OkIs
  <1>2. CASE u /= None
    BY <1>2, DisconnectAllIs
  <1> QED BY <1>1, <1>2

-----------------------------------------------------------------------------
(* A layer is written to the one below.                                    *)

LEMMA OpeningIs ==
    ASSUME TipOK(cacheCoins, db)
    PROVE  /\ Work(Opening(cacheCoins)) /\ Seen(Opening(cacheCoins)) = Below(cacheCoins, db)
           /\ Opening(cacheCoins).ok = TRUE
  <1> DEFINE tip == cacheCoins
             o == Opening(tip)
  <1>1. NoCoins \in Layers /\ \A t \in Txs : NoCoins[t] = None
    BY DEF NoCoins, Layers
  <1>2. o \in Records /\ o.tip = tip /\ o.view = NoCoins /\ o.ok = TRUE
    BY <1>1 DEF Opening, Records, TipOK
  <1> HIDE DEF o
  <1>3. Work(o)
    BY <1>1, <1>2 DEF Work, ViewOK
  <1>4. Seen(o) = Below(tip, db)
    BY <1>1, <1>2 DEF Seen, Below
  <1> QED BY <1>2, <1>3, <1>4 DEF o

\* The assertion holds, and pcoinsTip stays sound.
LEMMA BatchWrittenIs ==
    ASSUME NEW r, Work(r)
    PROVE  BatchWriteAsserts(r.tip, r.view) /\ TipOK(BatchWritten(r.tip, r.view), db)
  <1> DEFINE tip == r.tip
             view == r.view
             new == BatchWritten(tip, view)
  <1>1. TipOK(tip, db) /\ ViewOK(view, tip, db) /\ tip \in Layers /\ view \in Layers
    BY DEF Work, Records
  <1> HIDE DEF tip, view
  <1>2. ASSUME NEW t \in Txs, Changed(view[t])
        PROVE  /\ view[t] /= None /\ Normal(view[t].coins) /\ view[t].coins \in CoinsType
               /\ tip[t] = None => db[t] = None /\ view[t].fresh
    BY <1>1, <1>2 DEF Changed, ViewOK, Normal
  <1>3. BatchWriteAsserts(tip, view)
    BY <1>2 DEF BatchWriteAsserts
  <1>4. ASSUME NEW t \in Txs
        PROVE  /\ new[t] \in EntryType \cup {None}
               /\ new[t] /= None => /\ Normal(new[t].coins)
                                    /\ new[t].fresh => db[t] = None
                                    /\ ~new[t].dirty => Held(db, t) = new[t].coins
    <2>1. CASE ~Changed(view[t])
      <3>1. new[t] = tip[t]
        BY <2>1 DEF BatchWritten
      <3> HIDE DEF new
      <3> QED BY <1>1, <3>1 DEF TipOK, Layers
    <2>2. CASE Changed(view[t]) /\ tip[t] = None
      <3>1. CASE IsPruned(view[t].coins)
        <4>1. new[t] = None
          BY <2>2, <3>1 DEF BatchWritten
        <4> QED BY <4>1
      <3>2. CASE ~IsPruned(view[t].coins)
        <4> DEFINE c == view[t].coins
                   e == [coins |-> c, dirty |-> TRUE, fresh |-> TRUE]
        <4>1. new[t] = e
          BY <2>2, <3>2 DEF BatchWritten
        <4>2. c \in CoinsType /\ Normal(c) /\ db[t] = None
          BY <1>2, <2>2
        <4> HIDE DEF c, new
        <4>3. e \in EntryType /\ e.coins = c /\ e.dirty = TRUE
          BY <4>2, EntryIs
        <4> HIDE DEF e
        <4> QED BY <4>1, <4>2, <4>3
      <3> QED BY <3>1, <3>2
    <2>3. CASE Changed(view[t]) /\ tip[t] /= None
      <3>1. CASE tip[t].fresh /\ IsPruned(view[t].coins)
        <4>1. new[t] = None
          BY <2>3, <3>1 DEF BatchWritten
        <4> QED BY <4>1
      <3>2. CASE ~(tip[t].fresh /\ IsPruned(view[t].coins))
        <4> DEFINE c == view[t].coins
                   x == tip[t]
                   e == [x EXCEPT !.coins = c, !.dirty = TRUE]
        <4>1. new[t] = e
          BY <2>3, <3>2 DEF BatchWritten
        <4>2. c \in CoinsType /\ Normal(c)
          BY <1>2, <2>3
        <4>3. x \in EntryType /\ (x.fresh => db[t] = None)
          BY <1>1, <2>3 DEF TipOK, Layers
        <4> HIDE DEF c, x, new
        <4>4. e \in EntryType /\ e.coins = c /\ e.dirty = TRUE /\ e.fresh = x.fresh
          BY <4>2, <4>3 DEF EntryType
        <4> HIDE DEF e
        <4> QED BY <4>1, <4>2, <4>3, <4>4
      <3> QED BY <3>1, <3>2
    <2> QED BY <2>1, <2>2, <2>3
  <1>5. new = [t \in Txs |-> new[t]]
    BY DEF BatchWritten
  <1> HIDE DEF new
  <1>6. new \in Layers
    BY <1>4, <1>5 DEF Layers
  <1>7. TipOK(new, db)
    BY <1>4, <1>6 DEF TipOK
  <1> QED BY <1>3, <1>7 DEF new, tip, view

\* The database stays sound.
LEMMA DbWrittenIs ==
    ASSUME DbOK(db), NEW cache, TipOK(cache, db)
    PROVE  DbOK(DbWritten(cache))
  <1> DEFINE new == DbWritten(cache)
  <1>1. ASSUME NEW t \in Txs
        PROVE  /\ new[t] \in StoredType \cup {None}
               /\ new[t] /= None => Normal(Held(new, t)) /\ ~IsPruned(Held(new, t))
    <2>1. CASE ~Changed(cache[t])
      <3>1. new[t] = db[t]
        BY <2>1 DEF DbWritten
      <3> HIDE DEF new
      <3> QED BY <3>1 DEF DbOK, Held
    <2>2. CASE Changed(cache[t]) /\ IsPruned(cache[t].coins)
      <3>1. new[t] = None
        BY <2>2 DEF DbWritten
      <3> QED BY <3>1
    <2>3. CASE Changed(cache[t]) /\ ~IsPruned(cache[t].coins)
      <3> DEFINE c == cache[t].coins
      <3>1. new[t] = Serialize(c)
        BY <2>3 DEF DbWritten
      <3>2. Normal(c) /\ ~IsPruned(c)
        BY <2>3 DEF TipOK, Changed
      <3>3. Serialize(c) \in StoredType /\ Unserialize(Serialize(c)) = c
        BY <3>2, RoundTrip
      <3> HIDE DEF new, c
      <3> QED BY <3>1, <3>2, <3>3, NoneIs DEF Held
    <2> QED BY <2>1, <2>2, <2>3
  <1>2. new = [t \in Txs |-> new[t]]
    BY DEF DbWritten
  <1> HIDE DEF new
  <1>3. new \in [Txs -> StoredType \cup {None}]
    BY <1>1, <1>2
  <1>4. DbOK(new)
    BY <1>1, <1>3 DEF DbOK
  <1> QED BY <1>4 DEF new

LEMMA NoCoinsOK == \A d : TipOK(NoCoins, d)
  <1>1. NoCoins \in Layers /\ \A t \in Txs : NoCoins[t] = None
    BY DEF NoCoins, Layers
  <1> QED BY <1>1 DEF TipOK

-----------------------------------------------------------------------------
(* The invariant.                                                          *)

UndoOK(u) ==
    /\ u \in [Blocks -> Seq(Seq(UndoType)) \cup {None}]
    /\ \A b \in Blocks : u[b] = None \/ Fits(b, u[b])

Inv ==
    /\ DbOK(db) /\ TipOK(cacheCoins, db)
    /\ UndoOK(undo) /\ UndoOK(undoOnDisk)
    /\ best \in Blocks /\ hashBlock \in Blocks /\ chainTip \in Blocks
    /\ mode \in {"run", "aborting", "down", "corrupt"} /\ lost \in BOOLEAN

LEMMA InitInv ==
    ASSUME Init
    PROVE  Inv
  <1>1. DbOK(db)
    BY DEF Init, NoCoins, DbOK
  <1>2. TipOK(cacheCoins, db)
    BY NoCoinsOK DEF Init
  <1>3. UndoOK(undo) /\ UndoOK(undoOnDisk)
    BY DEF Init, UndoOK
  <1> QED BY <1>1, <1>2, <1>3, BlocksAre DEF Init, Inv

LEMMA ConnectedIs ==
    ASSUME Inv, NEW b \in Blocks
    PROVE  LET r == ConnectBlock(Opening(cacheCoins), b)
           IN  /\ Work(r) /\ TipOK(r.tip, db) /\ (r.ok => Fits(b, r.undo))
               /\ BatchWriteAsserts(r.tip, r.view) /\ TipOK(BatchWritten(r.tip, r.view), db)
  <1> DEFINE o == Opening(cacheCoins)
             r == ConnectBlock(o, b)
  <1>1. Work(o)
    BY OpeningIs DEF Inv
  <1> HIDE DEF o
  <1>2. Work(r) /\ (r.ok => Fits(b, r.undo))
    BY <1>1, ConnectBlockIs DEF Inv
  <1> HIDE DEF r
  <1>3. BatchWriteAsserts(r.tip, r.view) /\ TipOK(BatchWritten(r.tip, r.view), db) /\ TipOK(r.tip, db)
    BY <1>2, BatchWrittenIs DEF Work
  <1> QED BY <1>2, <1>3 DEF r, o

LEMMA DisconnectedIs ==
    ASSUME Inv
    PROVE  LET r == DisconnectBlock(Opening(cacheCoins), chainTip, undo[chainTip])
           IN  /\ TipOK(r.tip, db)
               /\ BatchWriteAsserts(r.tip, r.view) /\ TipOK(BatchWritten(r.tip, r.view), db)
  <1> DEFINE o == Opening(cacheCoins)
             u == undo[chainTip]
             r == DisconnectBlock(o, chainTip, u)
  <1>1. Work(o) /\ chainTip \in Blocks /\ (u = None \/ Fits(chainTip, u))
    BY OpeningIs DEF Inv, UndoOK
  <1> HIDE DEF o, u
  <1>2. Work(r)
    BY <1>1, DisconnectBlockIs DEF Inv
  <1> HIDE DEF r
  <1>3. BatchWriteAsserts(r.tip, r.view) /\ TipOK(BatchWritten(r.tip, r.view), db) /\ TipOK(r.tip, db)
    BY <1>2, BatchWrittenIs DEF Work
  <1> QED BY <1>3 DEF r, o, u

\* A flush keeps what it writes and what it leaves.
LEMMA WrittenKeeps ==
    ASSUME Inv, NEW cache, TipOK(cache, db), NEW h \in Blocks, NEW u, UndoOK(u), Written(cache, h, u)
    PROVE  DbOK(db') /\ TipOK(cacheCoins', db') /\ UndoOK(undoOnDisk') /\ best' \in Blocks /\ lost' \in BOOLEAN
  <1>1. db' = DbWritten(cache) /\ best' = h /\ cacheCoins' = NoCoins /\ undoOnDisk' = u
        /\ lost' = (lost \/ mode = "aborting")
    BY DEF Written
  <1>2. DbOK(DbWritten(cache))
    BY DbWrittenIs DEF Inv
  <1> QED BY <1>1, <1>2, NoCoinsOK DEF Inv

LEMMA FlushKeeps ==
    ASSUME Inv, NEW cache, TipOK(cache, db), NEW h \in Blocks, NEW u, UndoOK(u), NEW new \in Blocks,
           FlushState(cache, h, u, new)
    PROVE  /\ DbOK(db') /\ TipOK(cacheCoins', db') /\ UndoOK(undoOnDisk') /\ best' \in Blocks /\ lost' \in BOOLEAN
           /\ chainTip' \in Blocks /\ mode' \in {"run", "aborting", "down", "corrupt"}
  <1>1. CASE Written(cache, h, u) /\ chainTip' = new /\ UNCHANGED mode
    BY <1>1, WrittenKeeps DEF Inv
  <1>2. CASE FlushThrows(u) /\ UNCHANGED chainTip
    BY <1>2, NoCoinsOK DEF FlushThrows, IndexWritten, Inv
  <1> QED BY <1>1, <1>2 DEF FlushState

LEMMA ConnectTipKeeps ==
    ASSUME Inv, NEW b \in Blocks, ConnectTip(b)
    PROVE  Inv'
  <1> DEFINE r == ConnectBlock(Opening(cacheCoins), b)
             cache == BatchWritten(r.tip, r.view)
             u == UndoWritten(undo, b, r.undo)
  <1>1. r.ok /\ Fits(b, r.undo) /\ BatchWriteAsserts(r.tip, r.view) /\ TipOK(cache, db)
    BY ConnectedIs DEF ConnectTip
  <1>2. /\ hashBlock' = b /\ undo' = u
        /\ (NotFlushed(cache) /\ chainTip' = b) \/ FlushState(cache, b, u, b)
    BY <1>1 DEF ConnectTip
  <1> HIDE DEF cache, r
  <1>3. UndoOK(u)
    BY <1>1 DEF UndoWritten, UndoOK, Fits, Inv
  <1> HIDE DEF u
  <1>4. /\ DbOK(db') /\ TipOK(cacheCoins', db') /\ UndoOK(undoOnDisk') /\ best' \in Blocks /\ lost' \in BOOLEAN
        /\ chainTip' \in Blocks /\ mode' \in {"run", "aborting", "down", "corrupt"}
    <2>1. CASE NotFlushed(cache) /\ chainTip' = b
      BY <1>1, <2>1 DEF NotFlushed, disk, Inv
    <2>2. CASE FlushState(cache, b, u, b)
      BY <1>1, <1>3, <2>2, FlushKeeps
    <2> QED BY <1>2, <2>1, <2>2
  <1> QED BY <1>2, <1>3, <1>4 DEF Inv

\* What an action that only reads through pcoinsTip leaves.
LEMMA ReadKeeps ==
    ASSUME Inv, TipOK(cacheCoins', db), UNCHANGED <<hashBlock, chainTip, undo, disk, mode>>
    PROVE  Inv'
  BY DEF Inv, disk

LEMMA ConnectTipFailsKeeps ==
    ASSUME Inv, NEW b \in Blocks, ConnectTipFails(b)
    PROVE  Inv'
  <1>1. TipOK(cacheCoins', db)
    BY ConnectedIs DEF ConnectTipFails
  <1>2. UNCHANGED <<hashBlock, chainTip, undo, disk, mode>>
    BY DEF ConnectTipFails
  <1> QED BY <1>1, <1>2, ReadKeeps

LEMMA TestBlockKeeps ==
    ASSUME Inv, NEW b \in Blocks, TestBlock(b)
    PROVE  Inv'
  <1>1. TipOK(cacheCoins', db)
    BY ConnectedIs DEF TestBlock
  <1>2. UNCHANGED <<hashBlock, chainTip, undo, disk, mode>>
    BY DEF TestBlock
  <1> QED BY <1>1, <1>2, ReadKeeps

LEMMA DisconnectTipKeeps ==
    ASSUME Inv, DisconnectTip
    PROVE  Inv'
  <1> DEFINE r == DisconnectBlock(Opening(cacheCoins), chainTip, undo[chainTip])
             cache == BatchWritten(r.tip, r.view)
  <1>1. /\ TipOK(r.tip, db) /\ BatchWriteAsserts(r.tip, r.view) /\ TipOK(cache, db)
    BY DisconnectedIs
  <1>2. chainTip \in Blocks \ {Genesis} /\ Parent[chainTip] \in Blocks
    BY BlocksAre DEF DisconnectTip, Inv
  <1>3. \/ ~r.ok /\ cacheCoins' = r.tip /\ UNCHANGED <<hashBlock, chainTip, undo, disk, mode>>
        \/ /\ hashBlock' = Parent[chainTip]
           /\ FlushState(cache, Parent[chainTip], undo, Parent[chainTip]) /\ UNCHANGED undo
    BY <1>1 DEF DisconnectTip
  <1> HIDE DEF cache, r
  <1>4. CASE ~r.ok /\ cacheCoins' = r.tip /\ UNCHANGED <<hashBlock, chainTip, undo, disk, mode>>
    BY <1>1, <1>4, ReadKeeps
  <1>5. CASE /\ hashBlock' = Parent[chainTip]
             /\ FlushState(cache, Parent[chainTip], undo, Parent[chainTip]) /\ UNCHANGED undo
    <2>1. UndoOK(undo)
      BY DEF Inv
    <2>2. /\ DbOK(db') /\ TipOK(cacheCoins', db') /\ UndoOK(undoOnDisk') /\ best' \in Blocks /\ lost' \in BOOLEAN
          /\ chainTip' \in Blocks /\ mode' \in {"run", "aborting", "down", "corrupt"}
      BY <1>1, <1>2, <1>5, <2>1, FlushKeeps
    <2> QED BY <1>2, <1>5, <2>1, <2>2 DEF Inv
  <1> QED BY <1>3, <1>4, <1>5

LEMMA FlushStateToDiskKeeps ==
    ASSUME Inv, FlushStateToDisk
    PROVE  Inv'
  <1>1. TipOK(cacheCoins, db) /\ UndoOK(undo) /\ hashBlock \in Blocks /\ chainTip \in Blocks
    BY DEF Inv
  <1>2. FlushState(cacheCoins, hashBlock, undo, chainTip) /\ UNCHANGED <<hashBlock, undo>>
    BY DEF FlushStateToDisk
  <1>3. /\ DbOK(db') /\ TipOK(cacheCoins', db') /\ UndoOK(undoOnDisk') /\ best' \in Blocks /\ lost' \in BOOLEAN
        /\ chainTip' \in Blocks /\ mode' \in {"run", "aborting", "down", "corrupt"}
    BY <1>1, <1>2, FlushKeeps
  <1> QED BY <1>2, <1>3 DEF Inv

LEMMA ShutdownKeeps ==
    ASSUME Inv, Shutdown
    PROVE  Inv'
  <1>1. TipOK(cacheCoins, db) /\ UndoOK(undo) /\ hashBlock \in Blocks
    BY DEF Inv
  <1>2. Written(cacheCoins, hashBlock, undo) /\ mode' = "down" /\ UNCHANGED <<hashBlock, chainTip, undo>>
    BY DEF Shutdown
  <1>3. DbOK(db') /\ TipOK(cacheCoins', db') /\ UndoOK(undoOnDisk') /\ best' \in Blocks /\ lost' \in BOOLEAN
    BY <1>1, <1>2, WrittenKeeps
  <1> QED BY <1>2, <1>3 DEF Inv

LEMMA GetCoinsKeeps ==
    ASSUME Inv, NEW t \in Txs, GetCoins(t)
    PROVE  Inv'
  <1>1. DbOK(db) /\ TipOK(cacheCoins, db)
    BY DEF Inv
  <1>2. TipOK(Fetched(cacheCoins, t, DbCoins(t)), db)
    BY <1>1, TipFetched
  <1>3. cacheCoins' = Fetched(cacheCoins, t, DbCoins(t)) /\ UNCHANGED <<hashBlock, chainTip, undo, disk, mode>>
    BY DEF GetCoins
  <1> QED BY <1>2, <1>3, ReadKeeps

\* The process ends, before or inside a flush, or starts again.
LEMMA RestartKeeps ==
    ASSUME Inv, Crash \/ CrashInFlush \/ Start
    PROVE  Inv'
  <1>1. CASE Crash
    BY <1>1, NoCoinsOK DEF Crash, Inv, disk
  <1>2. CASE CrashInFlush
    BY <1>2, NoCoinsOK DEF CrashInFlush, IndexWritten, Inv
  <1>3. CASE Start
    <2>1. mode' \in {"run", "corrupt"}
      BY <1>3 DEF Start
    <2> QED BY <1>3, <2>1 DEF Start, Inv, disk
  <1> QED BY <1>1, <1>2, <1>3

LEMMA NextInv ==
    ASSUME Inv, [Next]_vars
    PROVE  Inv'
  <1>1. CASE Next
    BY <1>1, ConnectTipKeeps, ConnectTipFailsKeeps, TestBlockKeeps, DisconnectTipKeeps, FlushStateToDiskKeeps,
       ShutdownKeeps, GetCoinsKeeps, RestartKeeps DEF Next
  <1>2. CASE UNCHANGED vars
    BY <1>2 DEF vars, memory, disk, Inv
  <1> QED BY <1>1, <1>2

\* What the invariant says.
LEMMA InvSays ==
    ASSUME Inv
    PROVE  EntriesSound /\ mode /= "abort"
  <1>1. \A t \in Txs : cacheCoins[t] /= None =>
           /\ cacheCoins[t] \in EntryType
           /\ cacheCoins[t].coins.vout = Trimmed(cacheCoins[t].coins.vout)
    BY DEF Inv, TipOK, Layers, Normal
  <1>2. \A t \in Txs : db[t] /= None => DbCoins(t) \in CoinsType
    BY HeldIs DEF Inv, Normal
  <1>3. FlagsMean
    BY HeldIs DEF Inv, TipOK, FlagsMean
  <1> QED BY <1>1, <1>2, <1>3 DEF Inv, TypeOK, EntriesSound

\* pcoinsTip, the database and the undo data are sound in every state.
THEOREM Invariance == Spec => []Inv
  <1>1. Init => Inv
    BY InitInv
  <1>2. Inv /\ [Next]_vars => Inv'
    BY NextInv
  <1> QED BY <1>1, <1>2, PTL DEF Spec

\* Whatever blocks are connected, disconnected, tested or refused, and wherever the node
\* is flushed, stopped or fails to write, an entry of pcoinsTip has no spent outputs at its
\* end, is what the database has if it is clean, and is not in the database if it is fresh
\* (what BatchWrite and the removal of pruned fresh entries rely on).
THEOREM EntriesAreSound == Spec => []EntriesSound
  <1>1. Inv => EntriesSound
    BY InvSays
  <1> QED BY <1>1, Invariance, PTL

\* The assertion of CCoinsViewCache::BatchWrite never fails: an entry with unspent outputs
\* that pcoinsTip does not know is fresh.
THEOREM BatchWriteNeverAsserts == Spec => [](mode /= "abort")
  <1>1. Inv => mode /= "abort"
    BY InvSays
  <1> QED BY <1>1, Invariance, PTL

-----------------------------------------------------------------------------
(* What coins stand for.  The reference is the set U of unspent outputs     *)
(* after a chain of blocks (UtxoOf), and after a part of one more block.    *)

\* Outputs that a block can create.
Outs == UNION {Created(t, h) : t \in Txs, h \in Nat \ {0}}

NoneOf(t, U) == \A o \in U : o.tx /= t

\* The coins c of transaction t, or None, are the outputs of t in U.
Says(c, t, U) ==
    /\ c = None \/ Normal(c)
    /\ \A o \in U : o.tx = t => c /= None /\ o.n \in Unspent(c.vout) /\ o.nHeight = c.nHeight
    /\ c /= None => \A i \in Unspent(c.vout) :
          /\ Out(t, i, c.nHeight) \in U /\ c.vout[i] = vout[t][i]
          /\ c.fCoinBase = (t \in CoinBases) /\ c.fCoinStake = (t \in CoinStakes)
          /\ t \in CoinStakes => 1 \in Unspent(c.vout)

\* So are those of all transactions.
Stands(A, U) == U \subseteq Outs /\ \A t \in Txs : Says(A[t], t, U)

\* U after the output out was spent.
Without(U, out) == {o \in U : <<o.tx, o.n>> /= out}

\* x is what restores the output out of U.
Undoes(x, out, U) ==
    \E h \in Nat \ {0} :
       /\ Out(out[1], out[2], h) \in U
       /\ \A o \in U : o.tx = out[1] => o.nHeight = h
       /\ out[1] \in CoinStakes => Out(out[1], 1, h) \in U
       /\ x.txout = vout[out[1]][out[2]]
       /\ IF NoneOf(out[1], Without(U, out))
          THEN x.nHeight = h /\ x.fCoinBase = (out[1] \in CoinBases)
          ELSE x.nHeight = 0

LEMMA OutIs ==
    ASSUME NEW t, NEW i, NEW h
    PROVE  /\ Out(t, i, h).tx = t /\ Out(t, i, h).n = i /\ Out(t, i, h).nHeight = h
           /\ Out(t, i, h).base = (t \in CoinBases) /\ Out(t, i, h).stake = (t \in CoinStakes)
  BY DEF Out

LEMMA OutsAre ==
    ASSUME NEW o \in Outs
    PROVE  /\ o = Out(o.tx, o.n, o.nHeight) /\ o.tx \in Txs /\ o.nHeight \in Nat \ {0}
           /\ o.n \in Nat \ {0} /\ o.n \in DOMAIN vout[o.tx]
           /\ vout[o.tx][o.n] \notin {"null", "unspendable"} /\ vout[o.tx][o.n] \in Outputs
  <1>1. PICK t \in Txs, h \in Nat \ {0} : o \in Created(t, h)
    BY DEF Outs
  <1>2. PICK i \in DOMAIN vout[t] : o = Out(t, i, h) /\ vout[t][i] \notin {"null", "unspendable"}
    BY <1>1 DEF Created
  <1>3. vout[t] \in Seq(Outputs)
    BY LedgerAssumption
  <1>4. i \in Nat \ {0} /\ vout[t][i] \in Outputs
    BY <1>2, <1>3
  <1> QED BY <1>2, <1>4, OutIs

\* Coins say the same of the same set.
LEMMA SaysNone ==
    ASSUME NEW t \in Txs, NEW U, NoneOf(t, U), NEW c, c = None \/ Normal(c), Gone(c)
    PROVE  Says(c, t, U)
  BY DEF Says, NoneOf, Gone, IsPruned

LEMMA GoneIs ==
    ASSUME NEW t \in Txs, NEW U, NEW c, Says(c, t, U)
    PROVE  Gone(c) <=> NoneOf(t, U)
  <1>1. ASSUME Gone(c) PROVE NoneOf(t, U)
    BY <1>1 DEF Says, NoneOf, Gone, IsPruned
  <1>2. ASSUME ~Gone(c) PROVE ~NoneOf(t, U)
    <2>1. PICK i \in Unspent(c.vout) : TRUE
      BY <1>2 DEF Gone, IsPruned
    <2>2. Out(t, i, c.nHeight) \in U
      BY <1>2, <2>1 DEF Says, Gone
    <2> QED BY <2>2, OutIs DEF NoneOf
  <1> QED BY <1>1, <1>2

LEMMA AvailableIs ==
    ASSUME NEW t \in Txs, NEW U, NEW c, Says(c, t, U), NEW n
    PROVE  (c /= None /\ n \in Unspent(c.vout)) <=> \E o \in U : o.tx = t /\ o.n = n
  <1>1. ASSUME c /= None, n \in Unspent(c.vout) PROVE \E o \in U : o.tx = t /\ o.n = n
    <2>1. Out(t, n, c.nHeight) \in U
      BY <1>1 DEF Says
    <2> QED BY <2>1, OutIs
  <1> QED BY <1>1 DEF Says

\* The same coins, when the sets have the same outputs of t.
LEMMA SaysOther ==
    ASSUME NEW t \in Txs, NEW U, NEW V, NEW c, Says(c, t, U), \A o : o.tx = t => (o \in U <=> o \in V)
    PROVE  Says(c, t, V)
  <1>1. \A o \in V : o.tx = t => o \in U
    OBVIOUS
  <1>2. \A i, h : Out(t, i, h) \in U => Out(t, i, h) \in V
    BY OutIs
  <1> QED BY <1>1, <1>2 DEF Says

\* Coins that end with an unspent output are what their unspent outputs are.
LEMMA VoutsAlike ==
    ASSUME NEW v \in Seq(Outputs), NEW w \in Seq(Outputs), v = Trimmed(v), w = Trimmed(w),
           Unspent(v) = Unspent(w), \A i \in Unspent(v) : v[i] = w[i]
    PROVE  v = w
  <1>1. Len(v) = Len(w)
    BY TrimmedIs
  <1>2. \A i \in 1 .. Len(v) : (i \in Unspent(v) <=> v[i] /= "null")
    BY UnspentAre
  <1>3. \A i \in 1 .. Len(w) : (i \in Unspent(w) <=> w[i] /= "null")
    BY UnspentAre
  <1>4. \A i \in 1 .. Len(v) : v[i] = w[i]
    BY <1>1, <1>2, <1>3
  <1> QED BY <1>1, <1>4, SeqEqual

LEMMA SaysAlike ==
    ASSUME NEW t \in Txs, NEW U, NEW a, a /= None, Says(a, t, U), NEW b, b /= None, Says(b, t, U)
    PROVE  Same(a, b) /\ (~IsPruned(a) => a = b)
  <1>1. Normal(a) /\ Normal(b)
    BY DEF Says
  <1>2. \A n : n \in Unspent(a.vout) <=> n \in Unspent(b.vout)
    BY AvailableIs
  <1>3. Unspent(a.vout) = Unspent(b.vout)
    BY <1>2
  <1>4. \A i \in Unspent(a.vout) : a.vout[i] = b.vout[i]
    BY <1>3 DEF Says
  <1>5. a.vout = b.vout
    BY <1>1, <1>3, <1>4, VoutsAlike DEF Normal, CoinsType
  <1>6. ASSUME ~IsPruned(a) PROVE a = b
    <2>1. PICK i \in Unspent(a.vout) : TRUE
      BY <1>6 DEF IsPruned
    <2>2. Out(t, i, a.nHeight) \in U
      BY <2>1 DEF Says
    <2>3. a.nHeight = b.nHeight
      BY <2>2, OutIs DEF Says
    <2>4. a.fCoinBase = b.fCoinBase /\ a.fCoinStake = b.fCoinStake
      BY <1>3, <2>1 DEF Says
    <2> QED BY <1>1, <1>5, <2>3, <2>4 DEF Normal, CoinsType
  <1> QED BY <1>3, <1>6 DEF Same, IsPruned

\* An output is spent.
LEMMA SpentSays ==
    ASSUME MarkersStay, NEW t \in Txs, NEW U \in SUBSET Outs, NEW c, c /= None, Says(c, t, U),
           NEW n, n \in Unspent(c.vout), t \in CoinStakes => n /= 1
    PROVE  /\ Normal(Spent(c, n)) /\ Says(Spent(c, n), t, Without(U, <<t, n>>))
           /\ Undoes(SpendUndo(c, n), <<t, n>>, U)
  <1> DEFINE d == Spent(c, n)
             V == Without(U, <<t, n>>)
             x == SpendUndo(c, n)
  <1>1. Normal(c) /\ IsAvailable(c, n)
    BY DEF Says, IsAvailable
  <1>2. Normal(d) /\ Unspent(d.vout) = Unspent(c.vout) \ {n}
    BY <1>1, SpentIs
  <1>3. /\ d.nHeight = c.nHeight /\ d.fCoinBase = c.fCoinBase /\ d.fCoinStake = c.fCoinStake
        /\ \A i \in Unspent(d.vout) : d.vout[i] = c.vout[i]
    <2> DEFINE w == [c.vout EXCEPT ![n] = "null"]
    <2>1. c \in CoinsType /\ c.vout \in Seq(Outputs)
      BY <1>1 DEF Normal, CoinsType
    <2>2. d = [c EXCEPT !.vout = Trimmed(w)] /\ d.vout = Trimmed(w)
      BY <2>1 DEF Spent, CoinsType
    <2>3. w \in Seq(Outputs)
      <3>1. "null" \in Outputs
        BY DEF Outputs
      <3> DEFINE v == c.vout
      <3>2. v \in Seq(Outputs)
        BY <2>1
      <3> HIDE DEF v
      <3>3. n \in 1 .. Len(v) /\ DOMAIN v = 1 .. Len(v) /\ Len(v) \in Nat
        BY <3>2, UnspentAre DEF v
      <3>4. [v EXCEPT ![n] = "null"] \in Seq(Outputs)
        BY <3>1, <3>2, <3>3
      <3> QED BY <3>4 DEF v
    <2>4. \A i \in 1 .. Len(Trimmed(w)) : Trimmed(w)[i] = w[i]
      BY <2>3, TrimmedIs
    <2>5. Trimmed(w) \in Seq(Outputs)
      BY <2>3, TrimmedIs
    <2>6. \A i \in Unspent(d.vout) : i \in 1 .. Len(d.vout) /\ i /= n
      BY <1>2, <2>2, <2>5, UnspentAre
    <2>7. \A i \in Unspent(c.vout) : i \in DOMAIN c.vout
      BY DEF Unspent
    <2>8. \A i \in Unspent(d.vout) : d.vout[i] = c.vout[i]
      BY <1>2, <2>2, <2>4, <2>6, <2>7
    <2> QED BY <2>1, <2>2, <2>8 DEF CoinsType
  <1>4. \A o \in U : o.tx = t => o.n \in Unspent(c.vout) /\ o.nHeight = c.nHeight
    BY DEF Says
  <1>5. \A i \in Unspent(c.vout) : Out(t, i, c.nHeight) \in U /\ c.vout[i] = vout[t][i]
    BY DEF Says
  <1>6. \A o \in V : o \in U /\ (o.tx = t => o.n /= n)
    BY DEF Without
  <1>7. \A i : i /= n /\ Out(t, i, c.nHeight) \in U => Out(t, i, c.nHeight) \in V
    BY OutIs DEF Without
  <1> HIDE DEF d, V
  <1>8. Says(d, t, V)
    <2>1. \A o \in V : o.tx = t => o.n \in Unspent(d.vout) /\ o.nHeight = d.nHeight
      BY <1>2, <1>3, <1>4, <1>6
    <2>2. \A i \in Unspent(d.vout) :
          /\ Out(t, i, d.nHeight) \in V /\ d.vout[i] = vout[t][i]
      BY <1>2, <1>3, <1>5, <1>7
    <2>3. \A i \in Unspent(d.vout) :
             /\ d.fCoinBase = (t \in CoinBases) /\ d.fCoinStake = (t \in CoinStakes)
             /\ t \in CoinStakes => 1 \in Unspent(d.vout)
      BY <1>2, <1>3 DEF Says
    <2>4. d /= None
      BY <1>2, NoneIs DEF Normal
    <2> QED BY <1>2, <2>1, <2>2, <2>3, <2>4 DEF Says
  <1>9. Undoes(x, <<t, n>>, U)
    <2>1. Out(t, n, c.nHeight) \in U /\ c.nHeight \in Nat \ {0}
      BY <1>5, OutsAre, OutIs
    <2>2. t \in CoinStakes => Out(t, 1, c.nHeight) \in U
      BY <1>5 DEF Says
    <2>3. (d.vout = <<>>) <=> Unspent(d.vout) = {}
      <3>1. d.vout \in Seq(Outputs) /\ d.vout = Trimmed(d.vout)
        BY <1>2 DEF Normal, CoinsType
      <3>2. Unspent(<<>>) = {}
        BY DEF Unspent
      <3>3. Unspent(d.vout) = {} => Len(d.vout) = 0
        BY <3>1, TrimmedIs
      <3> QED BY <3>1, <3>2, <3>3, EmptySeq
    <2>4. Unspent(d.vout) = {} <=> NoneOf(t, V)
      BY <1>2, <1>8, GoneIs, NoneIs DEF Gone, IsPruned, Normal
    <2>5. /\ x.txout = c.vout[n] /\ x.nHeight = IF NoneOf(t, V) THEN c.nHeight ELSE 0
          /\ NoneOf(t, V) => x.fCoinBase = c.fCoinBase
      <3> DEFINE last == d.vout = <<>>
      <3>1. x = [txout |-> c.vout[n], fCoinBase |-> last /\ c.fCoinBase, fCoinStake |-> last /\ c.fCoinStake,
                 nHeight |-> IF last THEN c.nHeight ELSE 0]
        BY DEF SpendUndo, d
      <3>2. last <=> NoneOf(t, V)
        BY <2>3, <2>4
      <3>3. c.fCoinBase \in BOOLEAN
        BY <1>1 DEF Normal, CoinsType
      <3> HIDE DEF x, last
      <3>4. last => (last /\ c.fCoinBase) = c.fCoinBase
        BY <3>3
      <3>5. x.txout = c.vout[n] /\ x.nHeight = (IF last THEN c.nHeight ELSE 0) /\ x.fCoinBase = (last /\ c.fCoinBase)
        BY <3>1
      <3> QED BY <3>2, <3>4, <3>5
    <2>6. c.vout[n] = vout[t][n] /\ c.fCoinBase = (t \in CoinBases)
      BY DEF Says
    <2>7. <<t, n>>[1] = t /\ <<t, n>>[2] = n
      OBVIOUS
    <2> HIDE DEF x
    <2> QED BY <1>4, <2>1, <2>2, <2>5, <2>6, <2>7 DEF Undoes, V
  <1> QED BY <1>2, <1>8, <1>9 DEF d, V

\* An output is put back.
LEMMA RestoredSays ==
    ASSUME NEW t \in Txs, NEW n \in Nat, NEW U \in SUBSET Outs, NEW c, c /= None,
           Says(c, t, Without(U, <<t, n>>)), NEW x \in UndoType, Undoes(x, <<t, n>>, U),
           t \in CoinStakes => n /= 1
    PROVE  /\ RestoresCleanly(c, n, x)
           /\ Restored(c, n, x) \in CoinsType /\ ~IsPruned(Restored(c, n, x))
           /\ Says(Cleanup(Restored(c, n, x)), t, U)
  <1> DEFINE V == Without(U, <<t, n>>)
             base == IF x.nHeight /= 0
                     THEN [Cleared EXCEPT !.fCoinBase = x.fCoinBase, !.nHeight = x.nHeight]
                     ELSE c
             size == IF Len(base.vout) < n THEN n ELSE Len(base.vout)
             v == [i \in 1 .. size |-> IF i = n THEN x.txout
                                       ELSE IF i \in DOMAIN base.vout THEN base.vout[i] ELSE "null"]
             R == Restored(c, n, x)
  <1>0. <<t, n>>[1] = t /\ <<t, n>>[2] = n
    OBVIOUS
  <1>1. PICK h \in Nat \ {0} :
           /\ Out(t, n, h) \in U
           /\ \A o \in U : o.tx = t => o.nHeight = h
           /\ t \in CoinStakes => Out(t, 1, h) \in U
           /\ x.txout = vout[t][n]
           /\ IF NoneOf(t, V) THEN x.nHeight = h /\ x.fCoinBase = (t \in CoinBases) ELSE x.nHeight = 0
    BY <1>0 DEF Undoes
  <1>2. n \in Nat \ {0} /\ x.txout \in Outputs /\ x.txout /= "null"
    BY <1>1, OutsAre, OutIs
  <1>3. Normal(c)
    BY DEF Says
  <1>4. \A o \in V : o \in U /\ (o.tx = t => o.n /= n)
    BY DEF Without
  <1>5. \A o \in U : o.tx = t /\ o.n /= n => o \in V
    BY DEF Without
  <1> HIDE DEF V
  <1>6. IsPruned(c) <=> NoneOf(t, V)
    BY GoneIs DEF Gone, V
  <1>7. (x.nHeight /= 0) <=> NoneOf(t, V)
    BY <1>1
  <1>8. n \notin Unspent(c.vout)
    <2> SUFFICES ASSUME n \in Unspent(c.vout) PROVE FALSE
      OBVIOUS
    <2>1. Out(t, n, c.nHeight) \in V
      BY DEF Says, V
    <2> QED BY <1>4, <2>1, OutIs
  <1>9. RestoresCleanly(c, n, x)
    <2>1. Unspent(Cleared.vout) = {}
      BY ClearedIs DEF IsPruned
    <2>2. IsPruned(c) \in BOOLEAN
      BY DEF IsPruned
    <2> QED BY <1>6, <1>7, <1>8, <2>1, <2>2 DEF RestoresCleanly, IsAvailable
  <1>10. /\ base \in CoinsType /\ Unspent(base.vout) = Unspent(c.vout) /\ base.nHeight = h
         /\ base.fCoinBase = (t \in CoinBases) /\ base.fCoinStake = (t \in CoinStakes)
         /\ \A i \in Unspent(c.vout) : base.vout[i] = c.vout[i]
    <2>1. CASE NoneOf(t, V)
      <3>1. x.nHeight = h /\ h /= 0 /\ x.fCoinBase = (t \in CoinBases) /\ x.fCoinBase \in BOOLEAN
        <4>1. x.nHeight = h /\ x.fCoinBase = (t \in CoinBases)
          BY <1>1, <2>1
        <4>2. x.fCoinBase \in BOOLEAN
          BY DEF UndoType
        <4> QED BY <4>1, <4>2
      <3>2. t \notin CoinStakes
        <4> SUFFICES ASSUME t \in CoinStakes PROVE FALSE
          OBVIOUS
        <4>1. Out(t, 1, h) \in U /\ n /= 1
          BY <1>1
        <4>2. Out(t, 1, h) \in V
          BY <1>5, <4>1, OutIs
        <4> QED BY <2>1, <4>2, OutIs DEF NoneOf
      <3>3. Unspent(c.vout) = {}
        BY <1>6, <2>1 DEF IsPruned
      <3>4. /\ Cleared \in CoinsType /\ Unspent(Cleared.vout) = {} /\ Cleared.fCoinStake = FALSE
        BY ClearedIs DEF IsPruned, Normal, Cleared
      <3>5. base = [Cleared EXCEPT !.fCoinBase = x.fCoinBase, !.nHeight = x.nHeight]
        BY <3>1
      <3>6. /\ base \in CoinsType /\ base.vout = Cleared.vout /\ base.nHeight = x.nHeight
            /\ base.fCoinBase = x.fCoinBase /\ base.fCoinStake = Cleared.fCoinStake
        <4> HIDE DEF base
        <4>1. x.nHeight \in Nat
          BY <3>1
        <4> QED BY <3>1, <3>4, <3>5, <4>1 DEF CoinsType
      <3> HIDE DEF base
      <3>7. base.fCoinStake = (t \in CoinStakes)
        <4>1. (t \in CoinStakes) = FALSE
          BY <3>2
        <4> QED BY <3>4, <3>6, <4>1
      <3>8. Unspent(base.vout) = Unspent(c.vout) /\ \A i \in Unspent(c.vout) : base.vout[i] = c.vout[i]
        BY <3>3, <3>4, <3>6
      <3> QED BY <3>1, <3>6, <3>7, <3>8
    <2>2. CASE ~NoneOf(t, V)
      <3>1. base = c
        BY <1>7, <2>2
      <3>2. PICK i \in Unspent(c.vout) : TRUE
        BY <1>6, <2>2 DEF IsPruned
      <3>3. Out(t, i, c.nHeight) \in U
        BY <1>4, <3>2 DEF Says, V
      <3>4. c.nHeight = h
        BY <1>1, <3>3, OutIs
      <3>5. c.fCoinBase = (t \in CoinBases) /\ c.fCoinStake = (t \in CoinStakes)
        BY <3>2 DEF Says
      <3> QED BY <1>3, <3>1, <3>4, <3>5 DEF Normal
    <2> QED BY <2>1, <2>2
  <1>11. R = [base EXCEPT !.vout = v]
    BY DEF Restored
  <1> HIDE DEF base
  <1>12. base.vout \in Seq(Outputs)
    BY <1>10 DEF CoinsType
  <1>13. /\ Unspent(base.vout) \in SUBSET (1 .. Len(base.vout)) /\ DOMAIN base.vout = 1 .. Len(base.vout)
         /\ Len(base.vout) \in Nat /\ \A i \in 1 .. Len(base.vout) : i \in Unspent(base.vout) <=> base.vout[i] /= "null"
    BY <1>12, UnspentAre
  <1>14. R \in CoinsType
    BY <1>3, RestoredTyped DEF Normal
  <1>15. /\ Unspent(v) = Unspent(c.vout) \cup {n} /\ \A i \in Unspent(c.vout) : i /= n /\ v[i] = c.vout[i]
         /\ v[n] = vout[t][n]
    <2>1. size \in Nat /\ n \in 1 .. size /\ \A i \in 1 .. Len(base.vout) : i \in 1 .. size
      BY <1>2, <1>13
    <2>2. DOMAIN v = 1 .. size
      OBVIOUS
    <2> HIDE DEF size
    <2>3. v[n] = x.txout
      BY <2>1
    <2>4. \A i \in 1 .. size : i /= n => (v[i] /= "null" <=> i \in Unspent(base.vout))
      BY <1>13
    <2>5. \A i \in Unspent(base.vout) : i \in 1 .. size /\ i /= n /\ v[i] = base.vout[i]
      BY <1>8, <1>10, <1>13, <2>1
    <2> HIDE DEF v
    <2>6. \A i : i \in Unspent(v) <=> i \in 1 .. size /\ v[i] /= "null"
      BY <2>2 DEF Unspent
    <2>7. \A i : i \in Unspent(v) <=> i \in Unspent(base.vout) \/ i = n
      BY <1>2, <2>1, <2>3, <2>4, <2>5, <2>6
    <2>8. Unspent(v) = Unspent(base.vout) \cup {n}
      BY <2>7
    <2> QED BY <1>1, <1>10, <2>3, <2>5, <2>8
  <1> HIDE DEF v
  <1>16. R.vout = v /\ R.nHeight = h /\ R.fCoinBase = base.fCoinBase /\ R.fCoinStake = base.fCoinStake
    BY <1>10, <1>11 DEF CoinsType
  <1>17. ~IsPruned(R)
    BY <1>15, <1>16 DEF IsPruned
  <1> DEFINE C == Cleanup(R)
  <1>18. /\ Normal(C) /\ Unspent(C.vout) = Unspent(c.vout) \cup {n}
         /\ C.nHeight = h /\ C.fCoinBase = (t \in CoinBases) /\ C.fCoinStake = (t \in CoinStakes)
         /\ \A i \in Unspent(C.vout) : C.vout[i] = v[i]
    <2>1. Normal(C) /\ Unspent(C.vout) = Unspent(R.vout)
      BY <1>14, CleanedUp
    <2>2. C = [R EXCEPT !.vout = Trimmed(v)]
      BY <1>16 DEF Cleanup
    <2>3. C.vout = Trimmed(v) /\ C.nHeight = h /\ C.fCoinBase = R.fCoinBase /\ C.fCoinStake = R.fCoinStake
      BY <1>14, <1>16, <2>2 DEF CoinsType
    <2>4. v \in Seq(Outputs)
      BY <1>14, <1>16 DEF CoinsType
    <2> HIDE DEF C
    <2>5. \A i \in Unspent(C.vout) : C.vout[i] = v[i]
      <3>1. \A i \in 1 .. Len(Trimmed(v)) : Trimmed(v)[i] = v[i]
        BY <2>4, TrimmedIs
      <3>2. C.vout \in Seq(Outputs)
        BY <2>1 DEF Normal, CoinsType
      <3>3. \A i \in Unspent(C.vout) : i \in 1 .. Len(C.vout)
        BY <3>2, UnspentAre
      <3> QED BY <2>3, <3>1, <3>3
    <2> QED BY <1>10, <1>15, <1>16, <2>1, <2>3, <2>5
  <1> HIDE DEF C, R
  <1>19. Says(C, t, U)
    <2>1. C /= None
      BY <1>18, NoneIs DEF Normal
    <2>2. \A o \in U : o.tx = t => o.n \in Unspent(C.vout) /\ o.nHeight = C.nHeight
      <3> SUFFICES ASSUME NEW o \in U, o.tx = t PROVE o.n \in Unspent(C.vout) /\ o.nHeight = C.nHeight
        OBVIOUS
      <3>1. o.n /= n => o.n \in Unspent(c.vout)
        BY <1>5 DEF Says, V
      <3> QED BY <1>1, <1>18, <3>1
    <2>3. ASSUME NEW i \in Unspent(C.vout) PROVE Out(t, i, C.nHeight) \in U /\ C.vout[i] = vout[t][i]
      <3>1. CASE i = n
        BY <1>1, <1>15, <1>18, <3>1
      <3>2. CASE i /= n
        <4>1. i \in Unspent(c.vout)
          BY <1>18, <2>3, <3>2
        <4>2. Out(t, i, c.nHeight) \in U /\ c.vout[i] = vout[t][i]
          BY <1>4, <4>1 DEF Says, V
        <4>3. c.nHeight = h
          BY <1>1, <4>2, OutIs
        <4> QED BY <1>15, <1>18, <2>3, <4>1, <4>2, <4>3
      <3> QED BY <3>1, <3>2
    <2>4. t \in CoinStakes => 1 \in Unspent(C.vout)
      <3> SUFFICES ASSUME t \in CoinStakes PROVE 1 \in Unspent(C.vout)
        OBVIOUS
      <3>1. Out(t, 1, h) \in U
        BY <1>1
      <3> QED BY <2>2, <3>1, OutIs
    <2> QED BY <1>18, <2>1, <2>2, <2>3, <2>4 DEF Says
  <1> QED BY <1>9, <1>14, <1>17, <1>19 DEF C, R

\* The outputs of a transaction are created.
LEMMA CreatedSays ==
    ASSUME NEW t \in Txs, NEW h \in Nat \ {0}, NEW U, NoneOf(t, U)
    PROVE  Says(FromTx(t, h), t, U \cup Created(t, h))
  <1> DEFINE v == vout[t]
             w == [i \in DOMAIN v |-> IF v[i] = "unspendable" THEN "null" ELSE v[i]]
             c == FromTx(t, h)
  <1>1. v \in Seq(Outputs) /\ DOMAIN v = 1 .. Len(v) /\ Len(v) \in Nat /\ \A i \in 1 .. Len(v) : v[i] \in Outputs
    BY LedgerAssumption
  <1>2. c = [fCoinBase |-> t \in CoinBases, fCoinStake |-> t \in CoinStakes, vout |-> Trimmed(w), nHeight |-> h]
    BY DEF FromTx, ClearUnspendable
  <1>3. Normal(c) /\ c /= None
    BY FromTxNormal, NoneIs DEF Normal
  <1>4. /\ c.vout = Trimmed(w) /\ c.nHeight = h
        /\ c.fCoinBase = (t \in CoinBases) /\ c.fCoinStake = (t \in CoinStakes)
    BY <1>2
  <1>5. w \in Seq(Outputs) /\ DOMAIN w = 1 .. Len(v)
    <2>1. w \in [1 .. Len(v) -> Outputs]
      BY <1>1 DEF Outputs
    <2> HIDE DEF w
    <2> QED BY <1>1, <2>1, Listed
  <1>6. \A i \in 1 .. Len(v) : w[i] = IF v[i] = "unspendable" THEN "null" ELSE v[i]
    BY <1>1
  <1> HIDE DEF w, c
  <1>7. \A i : i \in Unspent(w) <=> i \in 1 .. Len(v) /\ v[i] \notin {"null", "unspendable"}
    BY <1>5, <1>6 DEF Unspent
  <1>8. Unspent(c.vout) = Unspent(w) /\ \A i \in Unspent(c.vout) : c.vout[i] = w[i]
    <2>1. Trimmed(w) \in Seq(Outputs) /\ Unspent(Trimmed(w)) = Unspent(w)
          /\ \A i \in 1 .. Len(Trimmed(w)) : Trimmed(w)[i] = w[i]
      BY <1>5, TrimmedIs
    <2>2. \A i \in Unspent(Trimmed(w)) : i \in 1 .. Len(Trimmed(w))
      BY <2>1, UnspentAre
    <2> QED BY <1>4, <2>1, <2>2
  <1>9. ASSUME NEW o \in U \cup Created(t, h), o.tx = t
        PROVE  o.n \in Unspent(c.vout) /\ o.nHeight = c.nHeight
    <2>1. o \in Created(t, h)
      BY <1>9 DEF NoneOf
    <2>2. PICK i \in DOMAIN v : o = Out(t, i, h) /\ v[i] \notin {"null", "unspendable"}
      BY <2>1 DEF Created
    <2> QED BY <1>1, <1>4, <1>7, <1>8, <2>2, OutIs
  <1>10. ASSUME NEW i \in Unspent(c.vout)
         PROVE  Out(t, i, c.nHeight) \in U \cup Created(t, h) /\ c.vout[i] = vout[t][i]
    <2>1. i \in 1 .. Len(v) /\ v[i] \notin {"null", "unspendable"} /\ c.vout[i] = v[i]
      BY <1>6, <1>7, <1>8, <1>10
    <2>2. Out(t, i, h) \in Created(t, h)
      BY <1>1, <2>1 DEF Created
    <2> QED BY <1>4, <2>1, <2>2
  <1>11. t \in CoinStakes => 1 \in Unspent(c.vout)
    <2>1. t \in CoinStakes => v /= <<>> /\ v[1] = "empty"
      BY CoinsAssumption
    <2>2. t \in CoinStakes => 1 \in 1 .. Len(v) /\ v[1] = "empty"
      BY <1>1, <2>1
    <2> QED BY <1>7, <1>8, <2>2
  <1>12. Says(c, t, U \cup Created(t, h))
    BY <1>3, <1>4, <1>9, <1>10, <1>11 DEF Says
  <1> QED BY <1>12 DEF c

\* Coins that stand for outputs have no unspendable ones.
LEMMA NothingToClear ==
    ASSUME NEW t \in Txs, NEW U \in SUBSET Outs, NEW c, c /= None, Says(c, t, U)
    PROVE  ClearUnspendable(c) = c
  <1> DEFINE v == c.vout
             w == [i \in DOMAIN v |-> IF v[i] = "unspendable" THEN "null" ELSE v[i]]
  <1>1. Normal(c)
    BY DEF Says
  <1>2. v \in Seq(Outputs) /\ DOMAIN v = 1 .. Len(v) /\ Len(v) \in Nat /\ v = Trimmed(v)
    BY <1>1 DEF Normal, CoinsType
  <1>3. ASSUME NEW i \in 1 .. Len(v) PROVE v[i] /= "unspendable"
    <2> SUFFICES ASSUME v[i] = "unspendable" PROVE FALSE
      OBVIOUS
    <2>1. i \in Unspent(c.vout)
      BY <1>2 DEF Unspent
    <2>2. Out(t, i, c.nHeight) \in U /\ v[i] = vout[t][i]
      BY <2>1 DEF Says
    <2> QED BY <2>2, OutsAre, OutIs
  <1>4. w = v
    <2>1. \A i \in DOMAIN v : w[i] = v[i]
      BY <1>2, <1>3
    <2>2. w = [i \in DOMAIN v |-> v[i]]
      BY <2>1
    <2>3. v = [i \in DOMAIN v |-> v[i]]
      BY <1>2
    <2> QED BY <2>2, <2>3
  <1>5. ClearUnspendable(c) = [c EXCEPT !.vout = Trimmed(w)]
    BY DEF ClearUnspendable
  <1> HIDE DEF w
  <1>6. [c EXCEPT !.vout = c.vout] = c
    BY <1>1 DEF Normal, CoinsType
  <1> QED BY <1>2, <1>4, <1>5, <1>6

-----------------------------------------------------------------------------
(* Chains of blocks, and the outputs that are unspent after them.          *)

\* The blocks from b down to the first.
PathRight(b, p) ==
    /\ p \in Seq(Blocks \ {Genesis}) /\ Len(p) = Height[b]
    /\ b /= Genesis => p[1] = b
    /\ \A i \in 1 .. Len(p) :
          /\ Height[p[i]] = Height[b] + 1 - i
          /\ Parent[p[i]] = IF i = Len(p) THEN Genesis ELSE p[i + 1]

LEMMA Paths == \A b \in Blocks : PathRight(b, Path[b])
  <1> DEFINE X == Seq(Blocks)
             F == [b \in Blocks |-> [p \in X |-> <<b>> \o p]]
  <1>1. F \in [Blocks -> [X -> X]] /\ <<>> \in X
    <2>1. \A b \in Blocks : \A p \in X : <<b>> \o p \in X
      OBVIOUS
    <2> HIDE DEF X
    <2> QED BY <2>1 DEF X
  <1>2. \A b \in Blocks : \A p \in X : F[b][p] = <<b>> \o p
    OBVIOUS
  <1> HIDE DEF F, X
  <1>3. PICK f : Solves(f, Blocks, Genesis, Parent, X, <<>>, F)
    BY <1>1, BlockTree, TreeRecursion
  <1>4. /\ f \in [Blocks -> X] /\ f[Genesis] = <<>>
        /\ \A b \in Blocks \ {Genesis} : f[b] = F[b][f[Parent[b]]]
    BY <1>3 DEF Solves
  <1>5. Genesis \in Blocks /\ \A b \in Blocks \ {Genesis} : Parent[b] \in Blocks
    BY LedgerAssumption
  <1>6. f = [b \in Blocks |-> IF b = Genesis THEN <<>> ELSE <<b>> \o f[Parent[b]]]
    BY <1>2, <1>4, <1>5
  <1>7. Path = [b \in Blocks |-> IF b = Genesis THEN <<>> ELSE <<b>> \o Path[Parent[b]]]
    BY <1>6 DEF Path
  <1> DEFINE G == {b \in Blocks : PathRight(b, Path[b])}
  <1>8. Genesis \in G
    <2>1. Path[Genesis] = <<>> /\ <<>> \in Seq(Blocks \ {Genesis}) /\ Len(<<>>) = 0 /\ 1 .. 0 = {}
      BY <1>5, <1>7
    <2> QED BY <1>5, <2>1, Heights DEF PathRight
  <1>9. ASSUME NEW b \in Blocks \ {Genesis}, Parent[b] \in G PROVE b \in G
    <2> DEFINE q == Path[Parent[b]]
               p == <<b>> \o q
    <2>1. Path[b] = p
      BY <1>7
    <2>2. /\ q \in Seq(Blocks \ {Genesis}) /\ Len(q) = Height[Parent[b]]
          /\ Parent[b] /= Genesis => q[1] = Parent[b]
          /\ \A i \in 1 .. Len(q) : /\ Height[q[i]] = Height[Parent[b]] + 1 - i
                                    /\ Parent[q[i]] = IF i = Len(q) THEN Genesis ELSE q[i + 1]
      BY <1>9 DEF PathRight
    <2>3. Height[b] = Height[Parent[b]] + 1 /\ Height[Parent[b]] \in Nat /\ Height[Genesis] = 0
      BY <1>5, Heights
    <2> HIDE DEF q
    <2>4. /\ p \in Seq(Blocks \ {Genesis}) /\ Len(p) = Len(q) + 1 /\ p[1] = b
          /\ \A i \in 2 .. Len(q) + 1 : p[i] = q[i - 1]
      BY <2>2
    <2> HIDE DEF p
    <2>5. ASSUME NEW i \in 1 .. Len(p)
          PROVE  /\ Height[p[i]] = Height[b] + 1 - i
                 /\ Parent[p[i]] = IF i = Len(p) THEN Genesis ELSE p[i + 1]
      <3>0. Len(q) \in Nat
        BY <2>2, <2>3
      <3>1. CASE i = 1
        <4>1. CASE Parent[b] = Genesis
          BY <2>2, <2>3, <2>4, <3>1, <4>1
        <4>2. CASE Parent[b] /= Genesis
          <5>1. Len(q) /= 0
            <6> SUFFICES ASSUME Len(q) = 0 PROVE FALSE
              OBVIOUS
            <6>1. Parent[b] \in Blocks \ {Genesis} /\ Height[Parent[b]] = 0
              BY <1>5, <2>2, <4>2
            <6>2. Parent[Parent[b]] \in Blocks /\ Height[Parent[b]] = Height[Parent[Parent[b]]] + 1
              BY <1>5, <6>1, Heights
            <6> QED BY <6>1, <6>2, Heights
          <5>2. p[2] = q[1] /\ q[1] = Parent[b]
            BY <2>2, <2>4, <3>0, <4>2, <5>1
          <5> QED BY <2>2, <2>3, <2>4, <3>0, <3>1, <5>1, <5>2
        <4> QED BY <4>1, <4>2
      <3>2. CASE i > 1
        <4>1. i - 1 \in 1 .. Len(q) /\ i \in 2 .. Len(q) + 1 /\ (i - 1) + 1 = i
          BY <2>4, <3>0, <3>2
        <4>2. p[i] = q[i - 1]
          BY <2>4, <4>1
        <4>3. Height[p[i]] = Height[b] + 1 - i
          BY <2>2, <2>3, <4>1, <4>2
        <4>4. i /= Len(p) => i + 1 \in 2 .. Len(q) + 1 /\ p[i + 1] = q[i]
          BY <2>4, <3>0, <4>1
        <4>5. Parent[p[i]] = IF i - 1 = Len(q) THEN Genesis ELSE q[i]
          BY <2>2, <4>1, <4>2
        <4>6. i - 1 = Len(q) <=> i = Len(p)
          BY <2>4, <3>0
        <4> QED BY <4>3, <4>4, <4>5, <4>6
      <3> QED BY <3>1, <3>2
    <2>6. Len(p) = Height[b]
      BY <2>2, <2>3, <2>4
    <2> QED BY <2>1, <2>4, <2>5, <2>6 DEF PathRight
  <1>10. Blocks \subseteq G
    <2> HIDE DEF G
    <2> QED BY <1>8, <1>9, UpTheTree
  <1> QED BY <1>10

\* One more transaction of a block.
LEMMA AppliedIs ==
    ASSUME NEW U, NEW b \in Blocks
    PROVE  /\ Applied(U, b, 0) = U
           /\ \A n \in 1 .. Len(vtx[b]) :
                 Applied(U, b, n) = {o \in Applied(U, b, n - 1) : <<o.tx, o.n>> \notin Prevouts(vtx[b][n])}
                                    \cup Created(vtx[b][n], Height[b])
  <1>1. Applied(U, b, 0) = U
    <2>1. 0 + 1 .. 0 = {} /\ 1 .. 0 = {}
      OBVIOUS
    <2>2. NotSpent(U, b, 0, 0) = U
      BY <2>1 DEF NotSpent
    <2> QED BY <2>1, <2>2 DEF Applied
  <1>2. ASSUME NEW n \in 1 .. Len(vtx[b])
        PROVE  Applied(U, b, n) = {o \in Applied(U, b, n - 1) : <<o.tx, o.n>> \notin Prevouts(vtx[b][n])}
                                  \cup Created(vtx[b][n], Height[b])
    <2> DEFINE made(i) == Created(vtx[b][i], Height[b])
               kept(o) == <<o.tx, o.n>> \notin Prevouts(vtx[b][n])
    <2>1. n \in Nat /\ n >= 1
      BY BlocksAre
    <2>2. \A V : \A i \in 0 .. n - 1 : \A o :
             o \in NotSpent(V, b, i, n) <=> o \in NotSpent(V, b, i, n - 1) /\ kept(o)
      <3> SUFFICES ASSUME NEW V, NEW i \in 0 .. n - 1, NEW o
                   PROVE  o \in NotSpent(V, b, i, n) <=> o \in NotSpent(V, b, i, n - 1) /\ kept(o)
        OBVIOUS
      <3>1. n \in i + 1 .. n /\ \A k : k \in i + 1 .. n <=> k \in i + 1 .. n - 1 \/ k = n
        BY <2>1
      <3> QED BY <3>1 DEF NotSpent
    <2>3. NotSpent(made(n), b, n, n) = made(n)
      <3>1. n + 1 .. n = {}
        BY <2>1
      <3> QED BY <3>1 DEF NotSpent
    <2>4. \A o : o \in Applied(U, b, n) <=>
                   o \in NotSpent(U, b, 0, n) \/ \E i \in 1 .. n : o \in NotSpent(made(i), b, i, n)
      BY DEF Applied
    <2>5. \A o : o \in Applied(U, b, n - 1) <=>
                   o \in NotSpent(U, b, 0, n - 1) \/ \E i \in 1 .. n - 1 : o \in NotSpent(made(i), b, i, n - 1)
      BY DEF Applied
    <2>6. n \in 1 .. n /\ 0 \in 0 .. n - 1 /\ (\A i \in 1 .. n - 1 : i \in 0 .. n - 1 /\ i \in 1 .. n)
          /\ \A i \in 1 .. n : i = n \/ i \in 1 .. n - 1
      BY <2>1
    <2> HIDE DEF made, kept
    <2>7. \A o : o \in Applied(U, b, n) <=> (o \in Applied(U, b, n - 1) /\ kept(o)) \/ o \in made(n)
      <3> SUFFICES ASSUME NEW o
                   PROVE  o \in Applied(U, b, n) <=> (o \in Applied(U, b, n - 1) /\ kept(o)) \/ o \in made(n)
        OBVIOUS
      <3>1. o \in Applied(U, b, n) => (o \in Applied(U, b, n - 1) /\ kept(o)) \/ o \in made(n)
        <4> SUFFICES ASSUME o \in Applied(U, b, n), o \notin made(n)
                     PROVE  o \in Applied(U, b, n - 1) /\ kept(o)
          OBVIOUS
        <4>1. CASE o \in NotSpent(U, b, 0, n)
          BY <2>2, <2>5, <2>6, <4>1
        <4>2. ASSUME NEW i \in 1 .. n, o \in NotSpent(made(i), b, i, n) PROVE o \in Applied(U, b, n - 1) /\ kept(o)
          <5>1. i \in 1 .. n - 1
            BY <2>3, <2>6, <4>2
          <5> QED BY <2>2, <2>5, <2>6, <4>2, <5>1
        <4> QED BY <2>4, <4>1, <4>2
      <3>2. o \in made(n) => o \in Applied(U, b, n)
        BY <2>3, <2>4, <2>6
      <3>3. o \in Applied(U, b, n - 1) /\ kept(o) => o \in Applied(U, b, n)
        BY <2>2, <2>4, <2>5, <2>6
      <3> QED BY <3>1, <3>2, <3>3
    <2> QED BY <2>7 DEF made, kept
  <1> QED BY <1>1, <1>2

\* A block above the genesis block creates outputs at a height above 0.
LEMMA CreatedOuts ==
    ASSUME NEW b \in Blocks \ {Genesis}
    PROVE  /\ Height[b] \in Nat \ {0} /\ Parent[b] \in Blocks /\ Height[Parent[b]] = Height[b] - 1
           /\ \A i \in 1 .. Len(vtx[b]) : Created(vtx[b][i], Height[b]) \subseteq Outs
  <1>1. Height[b] \in Nat \ {0} /\ Parent[b] \in Blocks /\ Height[Parent[b]] = Height[b] - 1
    BY Heights, BlocksAre
  <1>2. \A i \in 1 .. Len(vtx[b]) : vtx[b][i] \in Txs
    BY BlocksAre
  <1> QED BY <1>1, <1>2 DEF Outs

LEMMA AppliedOuts ==
    ASSUME NEW U \in SUBSET Outs, NEW b \in Blocks \ {Genesis}, NEW n \in 0 .. Len(vtx[b])
    PROVE  Applied(U, b, n) \subseteq Outs
  <1>1. \A i \in 1 .. n : Created(vtx[b][i], Height[b]) \subseteq Outs
    <2>1. \A i \in 1 .. n : i \in 1 .. Len(vtx[b])
      BY BlocksAre
    <2> QED BY <2>1, CreatedOuts
  <1> QED BY <1>1 DEF Applied, NotSpent

LEMMA Utxos ==
    /\ UtxoOf \in [Blocks -> SUBSET Outs] /\ UtxoOf[Genesis] = {}
    /\ \A b \in Blocks \ {Genesis} : UtxoOf[b] = Applied(UtxoOf[Parent[b]], b, Len(vtx[b]))
  <1> DEFINE F == [b \in Blocks |-> [U \in SUBSET Outs |-> Applied(U, b, Len(vtx[b]))]]
  <1>0. \A b \in Blocks : \A U \in SUBSET Outs : Applied(U, b, Len(vtx[b])) \in SUBSET Outs
    <2> SUFFICES ASSUME NEW b \in Blocks, NEW U \in SUBSET Outs PROVE Applied(U, b, Len(vtx[b])) \in SUBSET Outs
      OBVIOUS
    <2>1. CASE b = Genesis
      <3>1. Len(vtx[b]) = 0
        BY <2>1, LedgerAssumption
      <3> QED BY <3>1, AppliedIs
    <2>2. CASE b /= Genesis
      <3>1. Len(vtx[b]) \in 0 .. Len(vtx[b])
        BY BlocksAre
      <3> QED BY <2>2, <3>1, AppliedOuts
    <2> QED BY <2>1, <2>2
  <1>1. F \in [Blocks -> [SUBSET Outs -> SUBSET Outs]]
    BY <1>0
  <1>2. \A b \in Blocks : \A U \in SUBSET Outs : F[b][U] = Applied(U, b, Len(vtx[b]))
    OBVIOUS
  <1> HIDE DEF F
  <1>3. PICK f : Solves(f, Blocks, Genesis, Parent, SUBSET Outs, {}, F)
    BY <1>1, BlockTree, TreeRecursion
  <1>4. /\ f \in [Blocks -> SUBSET Outs] /\ f[Genesis] = {}
        /\ \A b \in Blocks \ {Genesis} : f[b] = F[b][f[Parent[b]]]
    BY <1>3 DEF Solves
  <1>5. \A b \in Blocks \ {Genesis} : Parent[b] \in Blocks
    BY LedgerAssumption
  <1>6. f = [b \in Blocks |-> IF b = Genesis THEN {} ELSE Applied(f[Parent[b]], b, Len(vtx[b]))]
    BY <1>2, <1>4, <1>5
  <1>7. UtxoOf = [b \in Blocks |-> IF b = Genesis THEN {} ELSE Applied(UtxoOf[Parent[b]], b, Len(vtx[b]))]
    BY <1>6 DEF UtxoOf
  <1> DEFINE G == {b \in Blocks : UtxoOf[b] \in SUBSET Outs}
  <1>8. Genesis \in Blocks
    BY LedgerAssumption
  <1>9. Genesis \in G /\ \A b \in Blocks \ {Genesis} : Parent[b] \in G => b \in G
    <2>1. UtxoOf[Genesis] = {}
      BY <1>7, <1>8
    <2>2. \A b \in Blocks \ {Genesis} : UtxoOf[b] = Applied(UtxoOf[Parent[b]], b, Len(vtx[b]))
      BY <1>7
    <2> QED BY ZenonT(60), <1>0, <1>5, <1>8, <2>1, <2>2
  <1>10. Blocks \subseteq G
    <2> HIDE DEF G
    <2> QED BY <1>9, UpTheTree
  <1>11. \A b \in Blocks : UtxoOf[b] \in SUBSET Outs
    BY <1>10
  <1>12. UtxoOf[Genesis] = {}
    BY <1>7, <1>8
  <1>13. \A b \in Blocks \ {Genesis} : UtxoOf[b] = Applied(UtxoOf[Parent[b]], b, Len(vtx[b]))
    BY <1>7
  <1>14. UtxoOf \in [Blocks -> SUBSET Outs]
    BY <1>7, <1>11
  <1> QED BY <1>12, <1>13, <1>14

-----------------------------------------------------------------------------
(* The outputs that are unspent within a block.                            *)

\* After the first n transactions of b.
After(b, n) == Applied(UtxoOf[Parent[b]], b, n)

\* What is left of U before input i of t is spent.
Left(U, t, i) == {o \in U : \A k \in 1 .. i - 1 : <<o.tx, o.n>> /= vin[t][k]}

LEMMA LeftIs ==
    ASSUME NEW U, NEW t \in Txs
    PROVE  /\ Left(U, t, 1) = U /\ \A i : Left(U, t, i) \subseteq U
           /\ \A i \in 1 .. Len(vin[t]) : Left(U, t, i + 1) = Without(Left(U, t, i), vin[t][i])
  <1>1. 1 .. 1 - 1 = {} /\ Len(vin[t]) \in Nat
    BY InputsAre
  <1>2. ASSUME NEW i \in 1 .. Len(vin[t])
        PROVE  Left(U, t, i + 1) = Without(Left(U, t, i), vin[t][i])
    <2>1. \A k : k \in 1 .. (i + 1) - 1 <=> k \in 1 .. i - 1 \/ k = i
      BY <1>1
    <2>2. \A o : o \in Left(U, t, i + 1) <=> o \in Left(U, t, i) /\ <<o.tx, o.n>> /= vin[t][i]
      BY <2>1 DEF Left
    <2> QED BY <2>2 DEF Without
  <1> QED BY <1>1, <1>2 DEF Left

LEMMA AfterNext ==
    ASSUME NEW b \in Blocks \ {Genesis}, NEW j \in 1 .. Len(vtx[b])
    PROVE  After(b, j) = Left(After(b, j - 1), vtx[b][j], Len(vin[vtx[b][j]]) + 1) \cup Created(vtx[b][j], Height[b])
  <1> DEFINE t == vtx[b][j]
             L == Len(vin[t])
  <1>1. t \in Txs
    BY BlocksAre
  <1>2. L \in Nat /\ DOMAIN vin[t] = 1 .. L /\ (L + 1) - 1 = L
    BY <1>1, InputsAre
  <1>3. After(b, j) = {o \in After(b, j - 1) : <<o.tx, o.n>> \notin Prevouts(t)} \cup Created(t, Height[b])
    BY AppliedIs DEF After
  <1>4. \A o : <<o.tx, o.n>> \notin Prevouts(t) <=> \A k \in 1 .. (L + 1) - 1 : <<o.tx, o.n>> /= vin[t][k]
    BY <1>2 DEF Prevouts
  <1> QED BY <1>3, <1>4 DEF Left

LEMMA AfterIs ==
    ASSUME NEW b \in Blocks \ {Genesis}
    PROVE  /\ After(b, 0) = UtxoOf[Parent[b]] /\ After(b, Len(vtx[b])) = UtxoOf[b]
           /\ \A n \in 0 .. Len(vtx[b]) : After(b, n) \subseteq Outs
  <1>1. Parent[b] \in Blocks /\ Len(vtx[b]) \in Nat
    BY BlocksAre
  <1> QED BY <1>1, Utxos, AppliedIs, AppliedOuts DEF After

LEMMA AfterSays ==
    ASSUME NEW b \in Blocks, NEW n, NEW o \in After(b, n)
    PROVE  \/ o \in UtxoOf[Parent[b]] /\ \A k \in 1 .. n : <<o.tx, o.n>> \notin Prevouts(vtx[b][k])
           \/ \E i \in 1 .. n : /\ o \in Created(vtx[b][i], Height[b])
                                /\ \A k \in i + 1 .. n : <<o.tx, o.n>> \notin Prevouts(vtx[b][k])
  <1>1. 0 + 1 = 1
    OBVIOUS
  <1> QED BY <1>1 DEF After, Applied, NotSpent

-----------------------------------------------------------------------------
(* Which blocks can be connected.                                          *)

\* None of its transactions is there, unspent, before it (BIP30).
NothingThere(b) == \A j \in 1 .. Len(vtx[b]) : NoneOf(vtx[b][j], UtxoOf[Parent[b]])

\* The inputs of t are in U, and mature.
Spendable(t, h, U) ==
    \A i \in 1 .. Len(vin[t]) : \E o \in U :
       <<o.tx, o.n>> = vin[t][i] /\ (o.base \/ o.stake => h - o.nHeight >= Maturity)

\* Those of the j-th are when its turn comes.
CanSpend(b, j) == Spendable(vtx[b][j], Height[b], After(b, j - 1))

ConnectsTo(b, n) == NothingThere(b) /\ \A j \in 1 .. n : CanSpend(b, j)

Connects(b) == ConnectsTo(b, Len(vtx[b]))

\* A block that can be connected has no transaction twice.  The second one would spend
\* the same outputs, so that one of them was created again in between, by a transaction
\* that is there twice too, and that comes before the first one.
LEMMA NoTwins ==
    ASSUME NEW b \in Blocks \ {Genesis}, NEW n \in 0 .. Len(vtx[b]), ConnectsTo(b, n)
    PROVE  \A i, j \in 1 .. n : vtx[b][i] = vtx[b][j] => i = j
  <1> DEFINE S == {i \in 1 .. n : \E j \in 1 .. n : i < j /\ vtx[b][i] = vtx[b][j]}
             U == UtxoOf[Parent[b]]
  <1>0. /\ n \in Nat /\ DOMAIN vtx[b] = 1 .. Len(vtx[b]) /\ Len(vtx[b]) \in Nat
        /\ \A i \in 1 .. n : i \in Nat /\ i \in 1 .. Len(vtx[b]) /\ vtx[b][i] \in Txs
    BY BlocksAre
  <1>1. SUFFICES ASSUME S /= {} PROVE FALSE
    <2> SUFFICES ASSUME NEW i \in 1 .. n, NEW j \in 1 .. n, vtx[b][i] = vtx[b][j], i /= j PROVE S /= {}
      OBVIOUS
    <2>1. i < j \/ j < i
      BY <1>0
    <2> QED BY <2>1
  <1>2. PICK i \in S : \A k \in S : i <= k
    <2>1. S \in SUBSET Nat
      BY <1>0
    <2> HIDE DEF S
    <2> QED BY <1>1, <2>1, LeastNatural
  <1>3. PICK j \in 1 .. n : i < j /\ vtx[b][i] = vtx[b][j]
    BY <1>2
  <1> DEFINE t == vtx[b][j]
             out == vin[t][1]
  <1>4. t \in Txs /\ t \notin CoinBases /\ i \in 1 .. n
    BY <1>0, <1>2, <1>3, CoinsAssumption
  <1>5. 1 \in 1 .. Len(vin[t])
    <2>1. vin[t] /= <<>> /\ vin[t] \in Seq(Txs \X Nat)
      BY <1>4, LedgerAssumption
    <2> QED BY <2>1
  <1>6. PICK o \in After(b, i - 1) : <<o.tx, o.n>> = out
    <2>1. CanSpend(b, i)
      BY <1>4 DEF ConnectsTo
    <2> QED BY <1>3, <1>5, <2>1 DEF CanSpend, Spendable
  <1>7. PICK q \in After(b, j - 1) : <<q.tx, q.n>> = out
    <2>1. CanSpend(b, j)
      BY DEF ConnectsTo
    <2> QED BY <1>5, <2>1 DEF CanSpend, Spendable
  <1>8. o.tx = q.tx /\ out \in Prevouts(vtx[b][i])
    <2>1. o.tx = q.tx
      BY <1>6, <1>7
    <2>2. 1 \in DOMAIN vin[t]
      BY <1>4, <1>5, InputsAre
    <2> QED BY <1>3, <2>1, <2>2 DEF Prevouts
  <1> HIDE DEF out, t
  <1>9. i \in 1 .. j - 1
    BY <1>0, <1>3, <1>4
  <1>10. PICK k \in 1 .. j - 1 : q \in Created(vtx[b][k], Height[b])
                                /\ \A m \in k + 1 .. j - 1 : <<q.tx, q.n>> \notin Prevouts(vtx[b][m])
    BY <1>7, <1>8, <1>9, AfterSays
  <1>11. k >= i /\ k \in 1 .. n /\ q.tx = vtx[b][k]
    <2>1. i \notin k + 1 .. j - 1
      BY <1>7, <1>8, <1>10
    <2>2. q.tx = vtx[b][k]
      BY <1>10 DEF Created, Out
    <2> QED BY <1>0, <1>3, <1>4, <1>9, <2>1, <2>2
  <1>12. o \notin U
    BY <1>0, <1>8, <1>11 DEF ConnectsTo, NothingThere, NoneOf
  <1>13. PICK m \in 1 .. i - 1 : o \in Created(vtx[b][m], Height[b])
    BY <1>6, <1>12, AfterSays
  <1>14. o.tx = vtx[b][m]
    BY <1>13 DEF Created, Out
  <1>15. m \in 1 .. n /\ m < k /\ m < i /\ vtx[b][m] = vtx[b][k]
    BY <1>0, <1>4, <1>8, <1>11, <1>13, <1>14
  <1>16. m \in S
    BY <1>11, <1>15
  <1> QED BY <1>0, <1>2, <1>15, <1>16

\* A transaction is new when its turn comes.
LEMMA NewThere ==
    ASSUME NEW b \in Blocks \ {Genesis}, NEW j \in 1 .. Len(vtx[b]), ConnectsTo(b, j)
    PROVE  NoneOf(vtx[b][j], After(b, j - 1))
  <1> SUFFICES ASSUME NEW o \in After(b, j - 1), o.tx = vtx[b][j] PROVE FALSE
    BY DEF NoneOf
  <1>1. j \in Nat /\ j \in 1 .. j /\ \A i \in 1 .. j - 1 : i \in 1 .. j /\ i /= j
    BY BlocksAre
  <1>2. o \notin UtxoOf[Parent[b]]
    BY DEF ConnectsTo, NothingThere, NoneOf
  <1>3. PICK i \in 1 .. j - 1 : o \in Created(vtx[b][i], Height[b])
    BY <1>2, AfterSays
  <1>4. o.tx = vtx[b][i]
    BY <1>3 DEF Created, Out
  <1>5. j \in 0 .. Len(vtx[b])
    BY <1>1
  <1> QED BY <1>1, <1>3, <1>4, <1>5, NoTwins

-----------------------------------------------------------------------------
(* Connecting, in terms of outputs.                                        *)

LEMMA SeenIs ==
    ASSUME DbOK(db), NEW r, Work(r), NEW t \in Txs
    PROVE  /\ Seen(r)[t] = None \/ Normal(Seen(r)[t])
           /\ r.view[t] /= None => Seen(r)[t] = r.view[t].coins /\ Seen(r)[t] /= None
           /\ r.ok \in BOOLEAN
  <1>1. TipOK(r.tip, db) /\ ViewOK(r.view, r.tip, db) /\ r.ok \in BOOLEAN
    BY DEF Work, Records
  <1>2. Below(r.tip, db)[t] = None \/ Normal(Below(r.tip, db)[t])
    BY <1>1 DEF Below, TipOK, DbOK, Held
  <1>3. r.view[t] /= None => Normal(r.view[t].coins) /\ r.view[t].coins /= None
    BY <1>1, NoneIs DEF ViewOK, Normal
  <1> QED BY <1>1, <1>2, <1>3 DEF Seen

\* Only the tip and the view matter.
LEMMA SeenSame ==
    ASSUME NEW r, NEW x, x.tip = r.tip, x.view = r.view
    PROVE  Seen(x) = Seen(r)
  BY DEF Seen

LEMMA OverwritesSays ==
    ASSUME DbOK(db), NEW r, Work(r), NEW t \in Txs, NEW U, Says(Seen(r)[t], t, U)
    PROVE  LET x == Overwrites(r, t) IN Seen(x) = Seen(r) /\ (x.ok <=> r.ok /\ NoneOf(t, U))
  <1>1. CASE ~r.ok
    BY <1>1 DEF Overwrites
  <1>2. CASE r.ok
    <2> DEFINE l == Look(r, t)
               y == l.view[t] = None \/ IsPruned(l.view[t].coins)
               x == Overwrites(r, t)
    <2>1. Work(l) /\ Seen(l) = Seen(r) /\ (l.view[t] = None => Seen(r)[t] = None)
      BY LookIs
    <2>2. x = [l EXCEPT !.ok = y]
      BY <1>2 DEF Overwrites
    <2>3. y \in BOOLEAN
      BY DEF IsPruned
    <2> HIDE DEF l, x
    <2>4. l.view[t] /= None => Seen(r)[t] = l.view[t].coins /\ Seen(r)[t] /= None
      BY <2>1, SeenIs
    <2>5. y <=> Gone(Seen(r)[t])
      BY <2>1, <2>4 DEF Gone
    <2> HIDE DEF y
    <2>6. x.tip = l.tip /\ x.view = l.view /\ (x.ok <=> y)
      BY <2>1, <2>2, <2>3, OkIs
    <2>7. Seen(x) = Seen(r)
      BY <2>1, <2>6, SeenSame
    <2>8. Gone(Seen(r)[t]) <=> NoneOf(t, U)
      BY GoneIs
    <2> QED BY <1>2, <2>5, <2>6, <2>7, <2>8 DEF x
  <1> QED BY <1>1, <1>2

LEMMA NoOverwriteSays ==
    ASSUME DbOK(db), NEW r, Work(r), NEW b \in Blocks, NEW U, Stands(Seen(r), U)
    PROVE  LET x == NoOverwrite(r, b)
           IN  Seen(x) = Seen(r) /\ (x.ok <=> r.ok /\ \A j \in 1 .. Len(vtx[b]) : NoneOf(vtx[b][j], U))
  <1> DEFINE N == Len(vtx[b])
             ok(i) == r.ok /\ \A j \in 1 .. i : NoneOf(vtx[b][j], U)
  <1>1. N \in Nat /\ \A i \in 1 .. N : vtx[b][i] \in Txs
    BY BlocksAre
  <1>2. PICK s : /\ s[0] = r /\ \A i \in 1 .. N : s[i] = Overwrites(s[i - 1], vtx[b][i])
                 /\ \A i \in 0 .. N : Work(s[i])
                 /\ NoOverwrite(r, b) = s[N]
    BY NoOverwriteRun
  <1> HIDE DEF N
  <1> DEFINE G == {i \in 0 .. N : Seen(s[i]) = Seen(r) /\ (s[i].ok <=> ok(i))}
  <1>3. 0 \in G
    BY <1>1, <1>2
  <1>4. ASSUME NEW i \in 1 .. N, i - 1 \in G PROVE i \in G
    <2>1. Work(s[i - 1]) /\ s[i] = Overwrites(s[i - 1], vtx[b][i]) /\ vtx[b][i] \in Txs
      BY <1>1, <1>2
    <2>2. Seen(s[i - 1]) = Seen(r) /\ (s[i - 1].ok <=> ok(i - 1))
      BY <1>4
    <2>3. Says(Seen(s[i - 1])[vtx[b][i]], vtx[b][i], U)
      BY <2>1, <2>2 DEF Stands
    <2>4. Seen(s[i]) = Seen(s[i - 1]) /\ (s[i].ok <=> s[i - 1].ok /\ NoneOf(vtx[b][i], U))
      BY <2>1, <2>3, OverwritesSays
    <2>5. ok(i) <=> ok(i - 1) /\ NoneOf(vtx[b][i], U)
      <3>1. \A j : j \in 1 .. i <=> j \in 1 .. i - 1 \/ j = i
        BY <1>1
      <3> QED BY <3>1
    <2>6. i \in 0 .. N
      BY <1>1
    <2> QED BY <2>2, <2>4, <2>5, <2>6
  <1>5. N \in G
    <2> HIDE DEF G
    <2>1. 0 .. N \subseteq G
      BY <1>1, <1>3, <1>4, EveryTurn
    <2> QED BY <1>1, <2>1
  <1> QED BY <1>2, <1>5 DEF N

\* Whether an output is there.
There(out, U) == \E o \in U : <<o.tx, o.n>> = out

LEMMA AvailSays ==
    ASSUME DbOK(db), NEW r, Work(r), NEW out \in Txs \X Nat, NEW U, Stands(Seen(r), U)
    PROVE  /\ Avail(r, out) => There(out, U)
           /\ There(out, U) /\ r.view[out[1]] /= None => Avail(r, out)
           /\ There(out, U) => Seen(r)[out[1]] /= None
  <1> DEFINE t == out[1]
             n == out[2]
             c == Seen(r)[t]
  <1>1. t \in Txs /\ out = <<t, n>>
    OBVIOUS
  <1>2. (c /= None /\ n \in Unspent(c.vout)) <=> \E o \in U : o.tx = t /\ o.n = n
    BY <1>1, AvailableIs DEF Stands
  <1>3. There(out, U) <=> \E o \in U : o.tx = t /\ o.n = n
    BY <1>1 DEF There
  <1>4. r.view[t] /= None => c = r.view[t].coins /\ c /= None
    BY <1>1, SeenIs
  <1> QED BY <1>2, <1>3, <1>4 DEF Avail, IsAvailable

LEMMA HaveInputSays ==
    ASSUME DbOK(db), NEW r, Work(r), NEW out \in Txs \X Nat, NEW U, Stands(Seen(r), U)
    PROVE  LET x == HaveInput(r, out) IN Seen(x) = Seen(r) /\ (x.ok <=> r.ok /\ There(out, U))
  <1>1. CASE ~r.ok
    BY <1>1 DEF HaveInput
  <1>2. CASE r.ok
    <2> DEFINE l == Look(r, out[1])
               y == Avail(l, out)
               x == HaveInput(r, out)
    <2>1. Work(l) /\ Seen(l) = Seen(r) /\ (l.view[out[1]] = None => Seen(r)[out[1]] = None)
      BY LookIs
    <2>2. x = [l EXCEPT !.ok = y]
      BY <1>2 DEF HaveInput
    <2>3. y \in BOOLEAN
      BY DEF Avail
    <2> HIDE DEF l, x
    <2>4. y <=> There(out, U)
      BY <2>1, AvailSays
    <2> HIDE DEF y
    <2>5. x.tip = l.tip /\ x.view = l.view /\ (x.ok <=> y)
      BY <2>1, <2>2, <2>3, OkIs
    <2>6. Seen(x) = Seen(r)
      BY <2>1, <2>5, SeenSame
    <2> QED BY <1>2, <2>4, <2>5, <2>6 DEF x
  <1> QED BY <1>1, <1>2

LEMMA HaveInputsSays ==
    ASSUME DbOK(db), NEW r, Work(r), NEW t \in Txs, NEW U, Stands(Seen(r), U)
    PROVE  LET x == HaveInputs(r, t)
           IN  Seen(x) = Seen(r) /\ (x.ok <=> r.ok /\ \A j \in 1 .. Len(vin[t]) : There(vin[t][j], U))
  <1> DEFINE N == Len(vin[t])
             ok(i) == r.ok /\ \A j \in 1 .. i : There(vin[t][j], U)
  <1>1. N \in Nat /\ \A i \in 1 .. N : vin[t][i] \in Txs \X Nat
    BY InputsAre
  <1>2. PICK s : /\ s[0] = r /\ \A i \in 1 .. N : s[i] = HaveInput(s[i - 1], vin[t][i])
                 /\ \A i \in 0 .. N : Work(s[i])
                 /\ HaveInputs(r, t) = s[N]
    BY HaveInputsRun
  <1> HIDE DEF N
  <1> DEFINE G == {i \in 0 .. N : Seen(s[i]) = Seen(r) /\ (s[i].ok <=> ok(i))}
  <1>3. 0 \in G
    BY <1>1, <1>2
  <1>4. ASSUME NEW i \in 1 .. N, i - 1 \in G PROVE i \in G
    <2>1. Work(s[i - 1]) /\ s[i] = HaveInput(s[i - 1], vin[t][i]) /\ vin[t][i] \in Txs \X Nat
      BY <1>1, <1>2
    <2>2. Seen(s[i - 1]) = Seen(r) /\ (s[i - 1].ok <=> ok(i - 1))
      BY <1>4
    <2>3. Stands(Seen(s[i - 1]), U)
      BY <2>2
    <2>4. Seen(s[i]) = Seen(s[i - 1]) /\ (s[i].ok <=> s[i - 1].ok /\ There(vin[t][i], U))
      BY <2>1, <2>3, HaveInputSays
    <2>5. ok(i) <=> ok(i - 1) /\ There(vin[t][i], U)
      <3>1. \A j : j \in 1 .. i <=> j \in 1 .. i - 1 \/ j = i
        BY <1>1
      <3> QED BY <3>1
    <2>6. i \in 0 .. N
      BY <1>1
    <2> QED BY <2>2, <2>4, <2>5, <2>6
  <1>5. N \in G
    <2> HIDE DEF G
    <2>1. 0 .. N \subseteq G
      BY <1>1, <1>3, <1>4, EveryTurn
    <2> QED BY <1>1, <2>1
  <1> QED BY <1>2, <1>5 DEF N

\* Coins are mature exactly if the outputs to be spent are.
LEMMA MatureSays ==
    ASSUME DbOK(db), NEW r, Work(r), NEW t \in Txs, NEW h \in Nat, NEW U, Stands(Seen(r), U),
           \A i \in 1 .. Len(vin[t]) : Avail(r, vin[t][i])
    PROVE  Mature(r, t, h) <=> Spendable(t, h, U)
  <1> DEFINE N == Len(vin[t])
             coins(i) == r.view[vin[t][i][1]].coins
             old(i) == coins(i).fCoinBase \/ coins(i).fCoinStake => h - coins(i).nHeight >= Maturity
             ready(i, o) == <<o.tx, o.n>> = vin[t][i] /\ (o.base \/ o.stake => h - o.nHeight >= Maturity)
  <1>1. /\ DOMAIN vin[t] = 1 .. N
        /\ \A i \in 1 .. N : /\ vin[t][i][1] \in Txs /\ vin[t][i][2] \in Nat
                             /\ vin[t][i] = <<vin[t][i][1], vin[t][i][2]>>
    BY InputsAre
  <1>2. ASSUME NEW i \in 1 .. N PROVE old(i) <=> \E o \in U : ready(i, o)
    <2> DEFINE u == vin[t][i][1]
               n == vin[t][i][2]
               c == coins(i)
               x == Out(u, n, c.nHeight)
    <2>1. u \in Txs /\ vin[t][i] = <<u, n>>
      BY <1>1
    <2>2. r.view[u] /= None /\ n \in Unspent(c.vout)
      BY DEF Avail, IsAvailable
    <2>3. Seen(r)[u] = c /\ c /= None
      BY <2>1, <2>2, SeenIs
    <2>4. Says(c, u, U)
      BY <2>1, <2>3 DEF Stands
    <2>5. /\ x \in U /\ c.fCoinBase = (u \in CoinBases) /\ c.fCoinStake = (u \in CoinStakes)
          /\ \A o \in U : o.tx = u => o.nHeight = c.nHeight
      <3> HIDE DEF u, n, c
      <3>1. /\ \A k \in Unspent(c.vout) : /\ Out(u, k, c.nHeight) \in U
                                          /\ c.fCoinBase = (u \in CoinBases) /\ c.fCoinStake = (u \in CoinStakes)
            /\ \A o \in U : o.tx = u => o.nHeight = c.nHeight
        BY <2>3, <2>4 DEF Says
      <3> QED BY <2>2, <3>1
    <2>6. \A o \in U : o = Out(o.tx, o.n, o.nHeight)
      BY OutsAre DEF Stands
    <2> HIDE DEF x, u, n, c
    <2>7. \A o \in U : <<o.tx, o.n>> = vin[t][i] => o = x
      <3> SUFFICES ASSUME NEW o \in U, <<o.tx, o.n>> = vin[t][i] PROVE o = x
        OBVIOUS
      <3>1. o.tx = u /\ o.n = n
        BY <2>1
      <3> QED BY <2>5, <2>6, <3>1 DEF x
    <2>8. /\ <<x.tx, x.n>> = vin[t][i] /\ x.nHeight = c.nHeight
          /\ x.base = (u \in CoinBases) /\ x.stake = (u \in CoinStakes)
      BY <2>1, OutIs DEF x
    <2>9. ready(i, x) <=> old(i)
      <3>1. x.base <=> c.fCoinBase
        BY <2>5, <2>8
      <3>2. x.stake <=> c.fCoinStake
        BY <2>5, <2>8
      <3>3. h - x.nHeight = h - c.nHeight
        BY <2>8
      <3> HIDE DEF x
      <3> QED BY <2>8, <3>1, <3>2, <3>3 DEF c
    <2> HIDE DEF old
    <2> QED BY <2>5, <2>7, <2>9
  <1>3. Mature(r, t, h) <=> \A i \in 1 .. N : old(i)
    BY <1>1 DEF Mature
  <1> HIDE DEF old, ready, N
  <1>4. (\A i \in 1 .. N : old(i)) <=> \A i \in 1 .. N : \E o \in U : ready(i, o)
    BY <1>2
  <1> QED BY <1>3, <1>4 DEF ready, N, Spendable

\* One input is spent.
LEMMA SpendInputSays ==
    ASSUME MarkersStay, DbOK(db), NEW r, Work(r), NEW out \in Txs \X Nat, Avail(r, out), Len(r.undo) > 0,
           NEW U, Stands(Seen(r), U), out[1] \in CoinStakes => out[2] /= 1
    PROVE  LET x == SpendInput(r, out)
               L == Len(r.undo)
           IN  /\ Stands(Seen(x), Without(U, out))
               /\ \E y : x.undo[L] = Append(r.undo[L], y) /\ Undoes(y, out, U)
  <1> DEFINE t == out[1]
             n == out[2]
             m == Modify(r, t)
             c == m.view[t].coins
             l == Release(m, t, Spent(c, n))
             w == r.undo
             L == Len(w)
             y == SpendUndo(c, n)
             u == [w EXCEPT ![L] = Append(w[L], y)]
             x == SpendInput(r, out)
             V == Without(U, out)
  <1>1. t \in Txs /\ n \in Nat /\ out = <<t, n>> /\ r.view[t] /= None /\ IsAvailable(r.view[t].coins, n)
    BY DEF Avail
  <1>2. /\ Work(m) /\ m.undo = w /\ m.ok = r.ok
        /\ m.view[t] /= None /\ m.view[t].dirty /\ Normal(c) /\ c = r.view[t].coins
        /\ OnlyAt(t, Seen(r), Seen(m)) /\ Seen(m)[t] = c
    BY <1>1, ModifyIs
  <1>3. c = Seen(r)[t] /\ c /= None
    BY <1>1, <1>2, SeenIs
  <1> HIDE DEF m, c, V, y
  <1>4. Says(c, t, U) /\ U \in SUBSET Outs /\ n \in Unspent(c.vout)
    BY <1>1, <1>2, <1>3 DEF Stands, IsAvailable
  <1>5. /\ Normal(Spent(c, n)) /\ Says(Spent(c, n), t, V) /\ Undoes(y, out, U)
    <2>1. t \in CoinStakes => n /= 1
      OBVIOUS
    <2> HIDE DEF t, n
    <2> QED BY <1>1, <1>3, <1>4, <2>1, SpentSays DEF V, y
  <1>6. y \in UndoType
    BY <1>1, <1>2, SpentIs DEF y
  <1>7. /\ Work(l) /\ l.undo = w
        /\ OnlyAt(t, Seen(m), Seen(l))
        /\ IsPruned(Spent(c, n)) => Gone(Seen(l)[t])
        /\ ~IsPruned(Spent(c, n)) => Seen(l)[t] = Cleanup(Spent(c, n))
    BY SMTT(30), <1>1, <1>2, <1>5, ReleaseIs DEF Normal, c
  <1>8. Cleanup(Spent(c, n)) = Spent(c, n)
    <2> DEFINE e == Spent(c, n)
    <2>1. e \in CoinsType /\ e.vout = Trimmed(e.vout)
      BY <1>5 DEF Normal
    <2> HIDE DEF e
    <2>2. [e EXCEPT !.vout = Trimmed(e.vout)] = e
      BY <2>1 DEF CoinsType
    <2> QED BY <2>2 DEF Cleanup, e
  <1>9. x = [l EXCEPT !.undo = u]
    <2>1. x = [l EXCEPT !.undo[L] = Append(@, y)]
      BY DEF SpendInput, m, c, y
    <2>2. l \in Records
      BY <1>7 DEF Work
    <2> HIDE DEF l, x
    <2> QED BY <1>7, <2>1, <2>2 DEF Records
  <1>10. u[L] = Append(w[L], y) /\ u \in Seq(Seq(UndoType))
    <2> DEFINE e == Append(w[L], y)
    <2>1. w \in Seq(Seq(UndoType)) /\ L \in 1 .. L
      BY DEF Work, Records
    <2>2. w[L] \in Seq(UndoType)
      BY <2>1
    <2>3. e \in Seq(UndoType)
      BY <1>6, <2>2
    <2>4. u = [w EXCEPT ![L] = e]
      OBVIOUS
    <2>5. u[L] = e /\ u \in Seq(Seq(UndoType))
      <3> HIDE DEF e, u, w
      <3> QED BY <2>1, <2>3, <2>4
    <2> QED BY <2>5
  <1> HIDE DEF l, u, x
  <1>11. x.tip = l.tip /\ x.view = l.view /\ x.undo = u
    BY <1>7, <1>9, <1>10, UndoIs
  <1>12. Seen(x) = Seen(l)
    BY <1>11, SeenSame
  <1>13. Says(Seen(x)[t], t, V)
    <2>1. CASE IsPruned(Spent(c, n))
      <3>1. NoneOf(t, V)
        <4>1. Gone(Spent(c, n))
          BY <2>1 DEF Gone
        <4> QED BY <1>1, <1>5, <4>1, GoneIs
      <3>2. Seen(l)[t] = None \/ Normal(Seen(l)[t])
        BY <1>1, <1>7, SeenIs
      <3> QED BY <1>1, <1>7, <1>12, <2>1, <3>1, <3>2, SaysNone
    <2>2. CASE ~IsPruned(Spent(c, n))
      BY <1>5, <1>7, <1>8, <1>12, <2>2
    <2> QED BY <2>1, <2>2
  <1>14. ASSUME NEW v \in Txs, v /= t PROVE Says(Seen(x)[v], v, V)
    <2>1. Seen(x)[v] = Seen(r)[v]
      BY <1>2, <1>7, <1>12, <1>14 DEF OnlyAt
    <2>2. \A o : o.tx = v => (o \in U <=> o \in V)
      BY <1>1, <1>14 DEF V, Without
    <2>3. Says(Seen(r)[v], v, U)
      BY DEF Stands
    <2> QED BY <2>1, <2>2, <2>3, SaysOther
  <1>15. V \subseteq Outs
    BY <1>4 DEF V, Without
  <1>16. Stands(Seen(x), V)
    BY <1>13, <1>14, <1>15 DEF Stands
  <1>17. x.undo[L] = Append(w[L], y)
    BY <1>10, <1>11
  <1> QED BY <1>5, <1>16, <1>17 DEF x, V

\* All inputs of a transaction are.
LEMMA SpendInputsSays ==
    ASSUME MarkersStay, DbOK(db), NEW r, Work(r), NEW t \in Txs, Len(r.undo) > 0, r.undo[Len(r.undo)] = <<>>,
           \A j \in 1 .. Len(vin[t]) : Avail(r, vin[t][j]), NEW U, Stands(Seen(r), U)
    PROVE  LET x == SpendInputs(r, t)
               L == Len(r.undo)
           IN  /\ Stands(Seen(x), Left(U, t, Len(vin[t]) + 1))
               /\ \A i \in 1 .. Len(vin[t]) : Undoes(x.undo[L][i], vin[t][i], Left(U, t, i))
  <1> DEFINE N == Len(vin[t])
             L == Len(r.undo)
             right(w, i) == \A k \in 1 .. i : Undoes(w[L][k], vin[t][k], Left(U, t, k))
  <1>1. /\ N \in Nat /\ L \in Nat
        /\ \A i \in 1 .. N : vin[t][i] \in Txs \X Nat /\ (vin[t][i][1] \in CoinStakes => vin[t][i][2] /= 1)
    <2>1. /\ DOMAIN vin[t] = 1 .. N /\ N \in Nat
          /\ \A i \in 1 .. N : vin[t][i][1] \in Txs /\ vin[t][i][2] \in Nat /\ vin[t][i] = <<vin[t][i][1], vin[t][i][2]>>
      BY InputsAre
    <2>2. \A i \in DOMAIN vin[t] : vin[t][i][1] \in CoinStakes => vin[t][i][2] /= 1
      BY DEF MarkersStay
    <2>3. L \in Nat
      BY DEF Work, Records
    <2>4. \A i \in 1 .. N : vin[t][i] \in Txs \X Nat
      BY InputsAre
    <2> QED BY <2>1, <2>2, <2>3, <2>4
  <1>2. PICK s : /\ s[0] = r /\ \A i \in 1 .. N : s[i] = SpendInput(s[i - 1], vin[t][i])
                 /\ \A i \in 0 .. N :
                       /\ Work(s[i]) /\ Len(s[i].undo) = L
                       /\ Len(s[i].undo[L]) = i
                       /\ \A j \in i + 1 .. N : Avail(s[i], vin[t][j])
                 /\ SpendInputs(r, t) = s[N]
    BY SpendInputsRun
  <1>3. /\ Left(U, t, 1) = U
        /\ \A i \in 1 .. N : Left(U, t, i + 1) = Without(Left(U, t, i), vin[t][i])
    BY LeftIs
  <1> HIDE DEF N, L
  <1> DEFINE G == {i \in 0 .. N : Stands(Seen(s[i]), Left(U, t, i + 1)) /\ right(s[i].undo, i)}
  <1>4. 0 \in G
    <2>1. 0 + 1 = 1 /\ 1 .. 0 = {} /\ 0 \in 0 .. N
      BY <1>1
    <2> QED BY <1>2, <1>3, <2>1
  <1>5. ASSUME NEW i \in 1 .. N, i - 1 \in G PROVE i \in G
    <2> DEFINE out == vin[t][i]
               a == s[i - 1]
               V == Left(U, t, i)
    <2>0. (i - 1) + 1 = i /\ i \in i .. N /\ i - 1 \in 0 .. N /\ i \in 0 .. N /\ i \in Nat
      BY <1>1
    <2>1. /\ Work(a) /\ Len(a.undo) = L /\ Len(a.undo[L]) = i - 1
          /\ Avail(a, out) /\ s[i] = SpendInput(a, out) /\ out \in Txs \X Nat
          /\ (out[1] \in CoinStakes => out[2] /= 1)
      BY <1>1, <1>2, <2>0
    <2>2. Stands(Seen(a), V) /\ right(a.undo, i - 1)
      BY <1>5, <2>0
    <2>3. L > 0
      BY DEF L
    <2> HIDE DEF a, out, V
    <2>4. PICK y : /\ Stands(Seen(s[i]), Without(V, out))
                   /\ s[i].undo[L] = Append(a.undo[L], y) /\ Undoes(y, out, V)
      BY <2>1, <2>2, <2>3, SpendInputSays
    <2>5. a.undo[L] \in Seq(UndoType)
      <3>1. a.undo \in Seq(Seq(UndoType)) /\ L \in 1 .. Len(a.undo)
        BY <1>1, <2>1, <2>3 DEF Work, Records
      <3> QED BY <3>1
    <2>6. s[i].undo[L][i] = y /\ \A k \in 1 .. i - 1 : s[i].undo[L][k] = a.undo[L][k]
      <3> DEFINE q == a.undo[L]
      <3>1. q \in Seq(UndoType) /\ Len(q) = i - 1
        BY <2>1, <2>5
      <3> HIDE DEF q
      <3>2. Append(q, y)[i] = y /\ \A k \in 1 .. i - 1 : Append(q, y)[k] = q[k]
        BY <2>0, <3>1
      <3> QED BY <2>4, <3>2 DEF q
    <2>7. right(s[i].undo, i)
      <3>1. \A k \in 1 .. i : k = i \/ k \in 1 .. i - 1
        BY <2>0
      <3> QED BY <2>2, <2>4, <2>6, <3>1 DEF out, V
    <2>8. Left(U, t, i + 1) = Without(V, out)
      BY <1>3 DEF V, out
    <2> QED BY <2>0, <2>4, <2>7, <2>8
  <1>6. N \in G
    <2> HIDE DEF G
    <2>1. 0 .. N \subseteq G
      BY <1>1, <1>4, <1>5, EveryTurn
    <2> QED BY <1>1, <2>1
  <1>7. Stands(Seen(s[N]), Left(U, t, N + 1)) /\ \A i \in 1 .. N : Undoes(s[N].undo[L][i], vin[t][i], Left(U, t, i))
    BY <1>6
  <1> QED BY ZenonT(30), <1>2, <1>7 DEF N, L

\* The inputs are spent and the outputs created.
LEMMA UpdateCoinsSays ==
    ASSUME MarkersStay, DbOK(db), NEW r, Work(r), NEW t \in Txs, NEW h \in Nat \ {0},
           \A j \in 1 .. Len(vin[t]) : Avail(r, vin[t][j]), NEW U, Stands(Seen(r), U), NoneOf(t, U)
    PROVE  LET x == UpdateCoins(r, t, h)
               L == Len(r.undo)
           IN  /\ Stands(Seen(x), Left(U, t, Len(vin[t]) + 1) \cup Created(t, h))
               /\ \A i \in 1 .. Len(vin[t]) : Undoes(x.undo[L + 1][i], vin[t][i], Left(U, t, i))
  <1> DEFINE N == Len(vin[t])
             L == Len(r.undo)
             u == Append(r.undo, <<>>)
             o == [r EXCEPT !.undo = u]
             spent == SpendInputs(o, t)
             m == Modify(spent, t)
             c == FromTx(t, h)
             x == UpdateCoins(r, t, h)
             V == Left(U, t, N + 1)
             W == V \cup Created(t, h)
  <1>1. r.undo \in Seq(Seq(UndoType)) /\ L \in Nat
    BY DEF Work, Records
  <1>2. /\ u \in Seq(Seq(UndoType)) /\ Len(u) = L + 1 /\ u[L + 1] = <<>>
    BY <1>1
  <1> HIDE DEF u
  <1>3. Work(o) /\ o.tip = r.tip /\ o.view = r.view /\ o.undo = u
    BY <1>2, UndoIs
  <1>4. o = [r EXCEPT !.undo = Append(@, <<>>)]
    BY DEF u, Work, Records
  <1> HIDE DEF o
  <1>5. /\ Work(spent) /\ Stands(Seen(spent), V)
        /\ \A i \in 1 .. N : Undoes(spent.undo[L + 1][i], vin[t][i], Left(U, t, i))
    <2>1. \A j \in 1 .. Len(vin[t]) : Avail(o, vin[t][j])
      BY <1>3 DEF Avail
    <2>2. Len(o.undo) = L + 1 /\ Len(o.undo) > 0 /\ o.undo[Len(o.undo)] = <<>>
      BY <1>1, <1>2, <1>3
    <2>3. Stands(Seen(o), U)
      BY <1>3, SeenSame
    <2>4. Work(spent)
      BY <1>3, <2>1, <2>2, SpendInputsIs
    <2>5. /\ Stands(Seen(spent), V)
          /\ \A i \in 1 .. N : Undoes(spent.undo[Len(o.undo)][i], vin[t][i], Left(U, t, i))
      BY <1>3, <2>1, <2>2, <2>3, SpendInputsSays
    <2> QED BY <2>2, <2>4, <2>5
  <1>6. x = Release(m, t, c)
    BY <1>4 DEF UpdateCoins
  <1> HIDE DEF spent
  <1>7. /\ Work(m) /\ m.undo = spent.undo /\ m.view[t] /= None /\ m.view[t].dirty
        /\ OnlyAt(t, Seen(spent), Seen(m))
    BY <1>5, ModifyIs
  <1> HIDE DEF m, x, V
  <1>8. NoneOf(t, V)
    BY LeftIs DEF V, NoneOf
  <1>9. Normal(c) /\ c \in CoinsType /\ Says(c, t, W)
    BY <1>8, FromTxNormal, CreatedSays DEF Normal
  <1>10. Cleanup(c) = c
    <2>1. c \in CoinsType /\ c.vout = Trimmed(c.vout)
      BY <1>9 DEF Normal
    <2> HIDE DEF c
    <2>2. [c EXCEPT !.vout = Trimmed(c.vout)] = c
      BY <2>1 DEF CoinsType
    <2> QED BY <2>2 DEF Cleanup
  <1> HIDE DEF c
  <1>11. /\ Work(x) /\ x.undo = m.undo
         /\ OnlyAt(t, Seen(m), Seen(x))
         /\ IsPruned(c) => Gone(Seen(x)[t])
         /\ ~IsPruned(c) => Seen(x)[t] = c
    BY <1>6, <1>7, <1>9, <1>10, ReleaseIs
  <1>12. Says(Seen(x)[t], t, W)
    <2>1. CASE IsPruned(c)
      <3>1. NoneOf(t, W)
        <4>1. Gone(c)
          BY <2>1 DEF Gone
        <4> HIDE DEF W
        <4> QED BY <1>9, <4>1, GoneIs
      <3>2. Seen(x)[t] = None \/ Normal(Seen(x)[t])
        BY <1>11, SeenIs
      <3> HIDE DEF W
      <3> QED BY <1>11, <2>1, <3>1, <3>2, SaysNone
    <2>2. CASE ~IsPruned(c)
      BY <1>9, <1>11, <2>2
    <2> QED BY <2>1, <2>2
  <1>13. ASSUME NEW v \in Txs, v /= t PROVE Says(Seen(x)[v], v, W)
    <2>1. Seen(x)[v] = Seen(spent)[v]
      BY <1>7, <1>11, <1>13 DEF OnlyAt
    <2>2. \A q : q.tx = v => (q \in V <=> q \in W)
      BY <1>13 DEF Created, Out
    <2>3. Says(Seen(spent)[v], v, V)
      BY <1>5 DEF Stands
    <2> QED BY <2>1, <2>2, <2>3, SaysOther
  <1>14. W \subseteq Outs
    BY <1>5 DEF Stands, Outs
  <1>15. Stands(Seen(x), W)
    BY <1>12, <1>13, <1>14 DEF Stands
  <1>16. x.undo = spent.undo
    BY <1>7, <1>11
  <1> QED BY <1>5, <1>15, <1>16 DEF x, V

LEMMA ConnectTxSays ==
    ASSUME MarkersStay, DbOK(db), NEW r, Work(r), r.ok, NEW t \in Txs, NEW h \in Nat \ {0},
           NEW U, Stands(Seen(r), U)
    PROVE  LET x == ConnectTx(r, t, h)
               L == Len(r.undo)
           IN  /\ x.ok <=> Spendable(t, h, U)
               /\ x.ok /\ NoneOf(t, U) =>
                     /\ Stands(Seen(x), Left(U, t, Len(vin[t]) + 1) \cup Created(t, h))
                     /\ \A i \in 1 .. Len(vin[t]) : Undoes(x.undo[L + 1][i], vin[t][i], Left(U, t, i))
  <1> DEFINE have == HaveInputs(r, t)
             x == ConnectTx(r, t, h)
  <1>1. /\ Work(have) /\ have.undo = r.undo
        /\ have.ok => \A j \in 1 .. Len(vin[t]) : Avail(have, vin[t][j])
    BY HaveInputsIs
  <1>2. Seen(have) = Seen(r) /\ (have.ok <=> \A j \in 1 .. Len(vin[t]) : There(vin[t][j], U))
    BY HaveInputsSays
  <1>3. x = IF ~have.ok \/ ~Mature(have, t, h) THEN [have EXCEPT !.ok = FALSE] ELSE UpdateCoins(have, t, h)
    BY DEF ConnectTx
  <1> HIDE DEF have, x
  <1>4. have.ok => (Mature(have, t, h) <=> Spendable(t, h, U))
    BY <1>1, <1>2, MatureSays
  <1>5. Spendable(t, h, U) => have.ok
    BY <1>2 DEF Spendable, There
  <1>6. CASE ~have.ok \/ ~Mature(have, t, h)
    <2>1. ~x.ok
      BY <1>1, <1>3, <1>6, OkIs
    <2> QED BY <1>4, <1>5, <1>6, <2>1 DEF x
  <1>7. CASE ~(~have.ok \/ ~Mature(have, t, h))
    <2>1. x = UpdateCoins(have, t, h)
      BY <1>3, <1>7
    <2>2. x.ok = have.ok
      BY <1>1, <1>7, <2>1, UpdateCoinsIs
    <2>3. ASSUME NoneOf(t, U)
          PROVE  /\ Stands(Seen(x), Left(U, t, Len(vin[t]) + 1) \cup Created(t, h))
                 /\ \A i \in 1 .. Len(vin[t]) : Undoes(x.undo[Len(r.undo) + 1][i], vin[t][i], Left(U, t, i))
      <3>1. Stands(Seen(have), U) /\ \A j \in 1 .. Len(vin[t]) : Avail(have, vin[t][j])
        BY <1>1, <1>2, <1>7
      <3> QED BY <1>1, <2>1, <2>3, <3>1, UpdateCoinsSays
    <2> QED BY <1>4, <1>7, <2>2, <2>3 DEF x
  <1> QED BY <1>6, <1>7

-----------------------------------------------------------------------------
\* Undo data that restores what b spent.
RightUndo(b, u) ==
    \A j \in 1 .. Len(vtx[b]) : \A i \in 1 .. Len(vin[vtx[b][j]]) :
       Undoes(u[j][i], vin[vtx[b][j]][i], Left(After(b, j - 1), vtx[b][j], i))

\* ConnectBlock accepts exactly the blocks that the ledger says can be connected, leaves
\* the outputs that it says are unspent, and collects undo data that restores them.
LEMMA ConnectBlockSays ==
    ASSUME MarkersStay, DbOK(db), NEW r, Work(r), r.ok, NEW b \in Blocks \ {Genesis},
           Stands(Seen(r), UtxoOf[Parent[b]])
    PROVE  LET x == ConnectBlock(r, b)
           IN  /\ x.ok <=> Connects(b)
               /\ x.ok => Stands(Seen(x), UtxoOf[b]) /\ RightUndo(b, x.undo)
  <1> DEFINE N == Len(vtx[b])
             U == UtxoOf[Parent[b]]
             o == [r EXCEPT !.undo = <<>>]
             right(w, j) == \A i \in 1 .. Len(vin[vtx[b][j]]) :
                               Undoes(w[j][i], vin[vtx[b][j]][i], Left(After(b, j - 1), vtx[b][j], i))
  <1>1. N \in Nat /\ Height[b] \in Nat \ {0} /\ \A i \in 1 .. N : vtx[b][i] \in Txs
    BY BlocksAre, CreatedOuts
  <1>2. PICK s : /\ s[0] = NoOverwrite(o, b)
                 /\ \A i \in 1 .. N : s[i] = ConnectTx(s[i - 1], vtx[b][i], Height[b])
                 /\ \A i \in 0 .. N : Work(s[i]) /\ (s[i].ok => Len(s[i].undo) = i)
                 /\ ConnectBlock(r, b) = s[N]
    BY ConnectBlockRun
  <1>3. Seen(s[0]) = Seen(r) /\ (s[0].ok <=> NothingThere(b))
    <2>1. <<>> \in Seq(Seq(UndoType))
      OBVIOUS
    <2>2. Work(o) /\ o.tip = r.tip /\ o.view = r.view /\ o.ok = r.ok
      BY <2>1, UndoIs
    <2> HIDE DEF o
    <2>3. Stands(Seen(o), U) /\ Seen(o) = Seen(r)
      BY <2>2, SeenSame
    <2> HIDE DEF U
    <2>4. Seen(s[0]) = Seen(o) /\ (s[0].ok <=> o.ok /\ \A j \in 1 .. Len(vtx[b]) : NoneOf(vtx[b][j], U))
      <3> DEFINE e == NoOverwrite(o, b)
      <3>1. Seen(e) = Seen(o) /\ (e.ok <=> o.ok /\ \A j \in 1 .. Len(vtx[b]) : NoneOf(vtx[b][j], U))
        <4>1. b \in Blocks
          OBVIOUS
        <4> QED BY <2>2, <2>3, <4>1, NoOverwriteSays
      <3> HIDE DEF e, N
      <3> QED BY <1>2, <3>1 DEF e
    <2> QED BY <2>2, <2>3, <2>4 DEF NothingThere, U
  <1>4. After(b, 0) = U /\ After(b, N) = UtxoOf[b]
    BY AfterIs
  <1> HIDE DEF N, o, U
  <1> DEFINE G == {i \in 0 .. N : /\ s[i].ok <=> ConnectsTo(b, i)
                                  /\ s[i].ok => Stands(Seen(s[i]), After(b, i)) /\ \A j \in 1 .. i : right(s[i].undo, j)}
  <1>5. 0 \in G
    <2>1. 1 .. 0 = {} /\ 0 \in 0 .. N
      BY <1>1
    <2>2. ConnectsTo(b, 0) <=> NothingThere(b)
      BY <2>1 DEF ConnectsTo
    <2>3. Stands(Seen(s[0]), After(b, 0))
      BY <1>3, <1>4 DEF U
    <2> QED BY <1>3, <2>1, <2>2, <2>3
  <1>6. ASSUME NEW i \in 1 .. N, i - 1 \in G PROVE i \in G
    <2> DEFINE a == s[i - 1]
               x == s[i]
               t == vtx[b][i]
               V == After(b, i - 1)
    <2>0. i \in 0 .. N /\ i - 1 \in 0 .. N /\ i \in Nat /\ \A j : j \in 1 .. i <=> j \in 1 .. i - 1 \/ j = i
      BY <1>1
    <2>1. /\ Work(a) /\ (a.ok => Len(a.undo) = i - 1) /\ x = ConnectTx(a, t, Height[b]) /\ t \in Txs
      BY <1>1, <1>2, <2>0
    <2>2. /\ a.ok <=> ConnectsTo(b, i - 1)
          /\ a.ok => Stands(Seen(a), V) /\ \A j \in 1 .. i - 1 : right(a.undo, j)
      BY <1>6
    <2>3. ConnectsTo(b, i) <=> ConnectsTo(b, i - 1) /\ Spendable(t, Height[b], V)
      BY <2>0 DEF ConnectsTo, CanSpend
    <2>4. CASE ~a.ok
      <3>1. ~x.ok
        BY <2>1, <2>4 DEF ConnectTx
      <3> QED BY <2>0, <2>2, <2>3, <2>4, <3>1
    <2>5. CASE a.ok
      <3> HIDE DEF V, a, x, right
      <3>1. /\ x.ok <=> Spendable(t, Height[b], V)
            /\ x.ok /\ NoneOf(t, V) =>
                  /\ Stands(Seen(x), Left(V, t, Len(vin[t]) + 1) \cup Created(t, Height[b]))
                  /\ \A k \in 1 .. Len(vin[t]) : Undoes(x.undo[Len(a.undo) + 1][k], vin[t][k], Left(V, t, k))
        BY <1>1, <2>1, <2>2, <2>5, ConnectTxSays
      <3>2. x.ok <=> ConnectsTo(b, i)
        BY <2>2, <2>3, <2>5, <3>1
      <3>3. ASSUME x.ok PROVE Stands(Seen(x), After(b, i)) /\ \A j \in 1 .. i : right(x.undo, j)
        <4>0. i \in 1 .. Len(vtx[b])
          BY DEF N
        <4>1. NoneOf(t, V)
          BY <3>2, <3>3, <4>0, NewThere DEF V
        <4>2. After(b, i) = Left(V, t, Len(vin[t]) + 1) \cup Created(t, Height[b])
          BY <4>0, AfterNext DEF V
        <4>3. Len(a.undo) + 1 = i /\ \A j \in 1 .. i - 1 : x.undo[j] = a.undo[j]
          <5>1. x.ok => \A j \in 1 .. Len(a.undo) : x.undo[j] = a.undo[j]
            BY <1>1, <2>1, ConnectTxIs
          <5> QED BY <2>0, <2>1, <2>5, <3>3, <5>1
        <4>4. right(x.undo, i)
          BY <3>1, <3>3, <4>1, <4>3 DEF right, V
        <4>5. \A j \in 1 .. i - 1 : right(x.undo, j)
          BY <2>2, <2>5, <4>3 DEF right
        <4> QED BY <2>0, <3>1, <3>3, <4>1, <4>2, <4>4, <4>5
      <3> QED BY <2>0, <3>2, <3>3 DEF x
    <2> QED BY <2>4, <2>5
  <1>7. N \in G
    <2> HIDE DEF G
    <2>1. 0 .. N \subseteq G
      BY <1>1, <1>5, <1>6, EveryTurn
    <2> QED BY <1>1, <2>1
  <1>8. /\ s[N].ok <=> ConnectsTo(b, N)
        /\ s[N].ok => Stands(Seen(s[N]), After(b, N)) /\ \A j \in 1 .. N : right(s[N].undo, j)
    BY <1>7
  <1> QED BY <1>2, <1>4, <1>8 DEF Connects, RightUndo, N

-----------------------------------------------------------------------------
(* Disconnecting, in terms of outputs.                                     *)

LEMMA ModifyKeeps ==
    ASSUME DbOK(db), NEW r, Work(r), NEW t \in Txs
    PROVE  /\ Work(Modify(r, t)) /\ Modify(r, t).ok = r.ok
           /\ Modify(r, t).view[t] /= None /\ Modify(r, t).view[t].dirty
           /\ OnlyAt(t, Seen(r), Seen(Modify(r, t)))
  BY ModifyIs

LEMMA ModifySays ==
    ASSUME DbOK(db), NEW r, Work(r), NEW t \in Txs, NEW U, Says(Seen(r)[t], t, U)
    PROVE  LET c == Modify(r, t).view[t].coins IN c /= None /\ Says(c, t, U)
  <1> DEFINE c == Modify(r, t).view[t].coins
  <1>1. Normal(c) /\ c = IF Seen(r)[t] = None THEN Cleared ELSE Seen(r)[t]
    BY ModifyIs
  <1> HIDE DEF c
  <1>2. c /= None
    BY <1>1, NoneIs DEF Normal
  <1>3. CASE Seen(r)[t] = None
    <2>1. NoneOf(t, U)
      BY <1>3, GoneIs DEF Gone
    <2>2. Gone(c)
      BY <1>1, <1>3, ClearedIs DEF Gone
    <2> QED BY <1>1, <1>2, <2>1, <2>2, SaysNone DEF c
  <1>4. CASE Seen(r)[t] /= None
    BY <1>1, <1>2, <1>4 DEF c
  <1> QED BY <1>3, <1>4

\* An output is put back.
LEMMA RestoreInputSays ==
    ASSUME DbOK(db), NEW r, Work(r), r.ok, NEW out \in Txs \X Nat, NEW x \in UndoType,
           NEW U \in SUBSET Outs, Undoes(x, out, U), Stands(Seen(r), Without(U, out)),
           out[1] \in CoinStakes => out[2] /= 1
    PROVE  LET y == RestoreInput(r, out, x) IN y.ok /\ Stands(Seen(y), U)
  <1> DEFINE t == out[1]
             n == out[2]
             m == Modify(r, t)
             c == m.view[t].coins
             R == Restored(c, n, x)
             l == Release(m, t, R)
             clean == RestoresCleanly(c, n, x)
             y == RestoreInput(r, out, x)
             V == Without(U, out)
  <1>1. t \in Txs /\ n \in Nat /\ out = <<t, n>> /\ (t \in CoinStakes => n /= 1)
    OBVIOUS
  <1> HIDE DEF t, n, m
  <1>2. /\ Work(m) /\ m.ok = r.ok /\ m.view[t] /= None /\ m.view[t].dirty
        /\ OnlyAt(t, Seen(r), Seen(m))
    <2>1. t \in Txs
      BY <1>1
    <2>2. /\ Work(Modify(r, t)) /\ Modify(r, t).ok = r.ok
          /\ Modify(r, t).view[t] /= None /\ Modify(r, t).view[t].dirty
          /\ OnlyAt(t, Seen(r), Seen(Modify(r, t)))
      BY <2>1, ModifyKeeps
    <2> QED BY <2>2 DEF m
  <1>3. c /= None /\ Says(c, t, V)
    BY <1>1, ModifySays DEF Stands, m
  <1>4. y = [l EXCEPT !.ok = @ /\ clean]
    BY DEF RestoreInput, t, n, m
  <1> HIDE DEF m, c
  <1>5. clean /\ R \in CoinsType /\ ~IsPruned(R) /\ Says(Cleanup(R), t, U)
    BY <1>1, <1>3, RestoredSays
  <1> HIDE DEF R, clean, y, V
  <1>6. /\ Work(l) /\ l.ok = m.ok /\ OnlyAt(t, Seen(m), Seen(l)) /\ Seen(l)[t] = Cleanup(R)
    <2>1. t \in Txs /\ Work(m) /\ m.view[t] /= None /\ m.view[t].dirty /\ R \in CoinsType /\ ~IsPruned(R)
      BY <1>1, <1>2, <1>5
    <2> QED BY <2>1, ReleaseIs DEF l
  <1> HIDE DEF l
  <1>7. y.tip = l.tip /\ y.view = l.view /\ y.ok
    <2>1. l.ok = TRUE
      BY <1>2, <1>6 DEF Work, Records
    <2>2. y = [l EXCEPT !.ok = TRUE]
      <3>1. l.ok /\ clean = TRUE
        BY <1>5, <2>1
      <3> QED BY <1>4, <1>5, <2>1
    <2> QED BY <1>6, <2>2, OkIs
  <1>8. Seen(y) = Seen(l)
    BY <1>7, SeenSame
  <1>9. ASSUME NEW v \in Txs, v /= t PROVE Says(Seen(y)[v], v, U)
    <2>1. Seen(y)[v] = Seen(r)[v]
      BY <1>2, <1>6, <1>8, <1>9 DEF OnlyAt
    <2>2. \A o : o.tx = v => (o \in V <=> o \in U)
      BY <1>1, <1>9 DEF V, Without
    <2>3. Says(Seen(r)[v], v, V)
      BY <1>9 DEF Stands, V
    <2> QED BY <1>9, <2>1, <2>2, <2>3, SaysOther
  <1>10. Stands(Seen(y), U)
    BY <1>5, <1>6, <1>8, <1>9 DEF Stands
  <1> QED BY <1>7, <1>10 DEF y

LEMMA RestoreInputsSays ==
    ASSUME MarkersStay, DbOK(db), NEW r, Work(r), r.ok, NEW t \in Txs, NEW txundo \in Seq(UndoType),
           Len(txundo) = Len(vin[t]), NEW U \in SUBSET Outs,
           \A i \in 1 .. Len(vin[t]) : Undoes(txundo[i], vin[t][i], Left(U, t, i)),
           Stands(Seen(r), Left(U, t, Len(vin[t]) + 1))
    PROVE  LET x == RestoreInputs(r, t, txundo) IN x.ok /\ Stands(Seen(x), U)
  <1> DEFINE N == Len(vin[t])
  <1>1. /\ N \in Nat /\ DOMAIN vin[t] = 1 .. N
        /\ \A i \in 1 .. N : vin[t][i] \in Txs \X Nat /\ txundo[i] \in UndoType
    BY InputsAre
  <1>2. PICK s : /\ s[0] = r /\ \A i \in 1 .. N : s[i] = RestoreInput(s[i - 1], vin[t][N + 1 - i], txundo[N + 1 - i])
                 /\ \A i \in 0 .. N : Work(s[i])
                 /\ RestoreInputs(r, t, txundo) = s[N]
    BY RestoreInputsRun
  <1>3. /\ Left(U, t, 1) = U /\ \A i : Left(U, t, i) \subseteq U
        /\ \A i \in 1 .. N : Left(U, t, i + 1) = Without(Left(U, t, i), vin[t][i])
    BY LeftIs
  <1>4. \A i \in 1 .. N : vin[t][i][1] \in CoinStakes => vin[t][i][2] /= 1
    BY <1>1 DEF MarkersStay
  <1>5. \A i \in 1 .. N : Undoes(txundo[i], vin[t][i], Left(U, t, i))
    OBVIOUS
  <1>6. Stands(Seen(r), Left(U, t, N + 1))
    OBVIOUS
  <1> HIDE DEF N
  <1> DEFINE G == {i \in 0 .. N : s[i].ok /\ Stands(Seen(s[i]), Left(U, t, N + 1 - i))}
  <1>7. 0 \in G
    <2>1. N + 1 - 0 = N + 1 /\ 0 \in 0 .. N
      BY <1>1
    <2> QED BY <1>2, <1>6, <2>1
  <1>8. ASSUME NEW i \in 1 .. N, i - 1 \in G PROVE i \in G
    <2> DEFINE k == N + 1 - i
               V == Left(U, t, k)
    <2>1. i \in 0 .. N /\ i - 1 \in 0 .. N /\ k \in 1 .. N /\ N + 1 - (i - 1) = k + 1
      BY <1>1
    <2>2. s[i - 1].ok /\ Stands(Seen(s[i - 1]), Left(U, t, k + 1)) /\ Work(s[i - 1])
      BY <1>2, <1>8, <2>1
    <2>3. s[i] = RestoreInput(s[i - 1], vin[t][k], txundo[k])
      BY <1>2
    <2> HIDE DEF k
    <2>4. Stands(Seen(s[i - 1]), Without(V, vin[t][k])) /\ V \in SUBSET Outs
      BY <1>3, <2>1, <2>2
    <2>5. s[i].ok /\ Stands(Seen(s[i]), V)
      BY <1>1, <1>4, <1>5, <2>1, <2>2, <2>3, <2>4, RestoreInputSays
    <2> QED BY <2>1, <2>5 DEF k
  <1>9. N \in G
    <2> HIDE DEF G
    <2>1. 0 .. N \subseteq G
      BY <1>1, <1>7, <1>8, EveryTurn
    <2> QED BY <1>1, <2>1
  <1>10. s[N].ok /\ Stands(Seen(s[N]), U)
    <2>1. N + 1 - N = 1
      BY <1>1
    <2> QED BY <1>3, <1>9, <2>1
  <1> QED BY <1>2, <1>10

\* The outputs of a transaction are taken away, and its inputs put back.
LEMMA DisconnectTxSays ==
    ASSUME MarkersStay, DbOK(db), NEW r, Work(r), r.ok, NEW t \in Txs, NEW h \in Nat \ {0},
           NEW txundo \in Seq(UndoType), Len(txundo) = Len(vin[t]), NEW U \in SUBSET Outs, NoneOf(t, U),
           \A i \in 1 .. Len(vin[t]) : Undoes(txundo[i], vin[t][i], Left(U, t, i)),
           Stands(Seen(r), Left(U, t, Len(vin[t]) + 1) \cup Created(t, h))
    PROVE  LET x == DisconnectTx(r, t, h, txundo) IN x.ok /\ Stands(Seen(x), U)
  <1> DEFINE m == Modify(r, t)
             a == m.view[t].coins
             c == ClearUnspendable(a)
             l == Release(m, t, Cleared)
             same == Same(c, FromTx(t, h))
             o == [l EXCEPT !.ok = TRUE]
             V == Left(U, t, Len(vin[t]) + 1)
             W == V \cup Created(t, h)
  <1>1. Work(m) /\ m.ok = r.ok /\ m.view[t] /= None /\ m.view[t].dirty /\ OnlyAt(t, Seen(r), Seen(m))
    BY ModifyIs
  <1>2. DisconnectTx(r, t, h, txundo) = RestoreInputs([l EXCEPT !.ok = @ /\ same], t, txundo)
    BY DEF DisconnectTx
  <1>3. a /= None /\ Says(a, t, W)
    BY ModifySays DEF Stands
  <1>4. NoneOf(t, V) /\ V \subseteq Outs
    BY LeftIs DEF NoneOf
  <1>5. same
    <2> DEFINE f == FromTx(t, h)
    <2>1. Says(f, t, W)
      BY <1>4, CreatedSays
    <2>2. W \in SUBSET Outs
      BY DEF Stands
    <2>3. f /= None
      BY FromTxNormal, NoneIs DEF Normal
    <2> HIDE DEF a, W, f
    <2>4. c = a
      BY <1>3, <2>2, NothingToClear
    <2>5. Same(a, f)
      BY <1>3, <2>1, <2>3, SaysAlike
    <2> QED BY <2>4, <2>5 DEF f
  <1> HIDE DEF m, same, a, V
  <1>6. Work(l) /\ l.ok = m.ok /\ OnlyAt(t, Seen(m), Seen(l)) /\ Gone(Seen(l)[t])
    BY <1>1, ClearedIs, ReleaseIs DEF Normal
  <1> HIDE DEF l
  <1>7. [l EXCEPT !.ok = @ /\ same] = o
    <2>1. l.ok = TRUE
      BY <1>1, <1>6 DEF Work, Records
    <2> QED BY <1>5, <2>1
  <1>8. Work(o) /\ o.tip = l.tip /\ o.view = l.view /\ o.ok
    BY <1>6, OkIs
  <1> HIDE DEF o
  <1>9. Seen(o) = Seen(l)
    BY <1>8, SeenSame
  <1>10. ASSUME NEW v \in Txs, v /= t PROVE Says(Seen(o)[v], v, V)
    <2>1. Seen(o)[v] = Seen(r)[v]
      BY <1>1, <1>6, <1>9, <1>10 DEF OnlyAt
    <2>2. \A q : q.tx = v => (q \in W <=> q \in V)
      BY <1>10 DEF Created, Out
    <2>3. Says(Seen(r)[v], v, W)
      BY <1>10 DEF Stands, V
    <2> HIDE DEF W
    <2> QED BY <1>10, <2>1, <2>2, <2>3, SaysOther
  <1>11. Says(Seen(o)[t], t, V)
    <2>1. Seen(o)[t] = None \/ Normal(Seen(o)[t])
      BY <1>8, SeenIs
    <2> QED BY <1>4, <1>6, <1>9, <2>1, SaysNone
  <1>12. Stands(Seen(o), V)
    BY <1>4, <1>10, <1>11 DEF Stands
  <1>13. RestoreInputs(o, t, txundo).ok /\ Stands(Seen(RestoreInputs(o, t, txundo)), U)
    <2>1. Stands(Seen(o), Left(U, t, Len(vin[t]) + 1))
      BY <1>12 DEF V
    <2> QED BY <1>8, <2>1, RestoreInputsSays
  <1>14. DisconnectTx(r, t, h, txundo) = RestoreInputs(o, t, txundo)
    BY <1>2, <1>7
  <1> QED BY <1>13, <1>14

\* DisconnectBlock succeeds, and leaves the outputs that were unspent before the block.
LEMMA DisconnectBlockSays ==
    ASSUME MarkersStay, DbOK(db), NEW r, Work(r), r.ok, NEW b \in Blocks \ {Genesis}, NEW u, u /= None,
           Fits(b, u), RightUndo(b, u), Connects(b), Stands(Seen(r), UtxoOf[b])
    PROVE  LET x == DisconnectBlock(r, b, u) IN x.ok /\ Stands(Seen(x), UtxoOf[Parent[b]])
  <1> DEFINE N == Len(vtx[b])
  <1>1. /\ N \in Nat /\ Height[b] \in Nat \ {0}
        /\ \A i \in 1 .. N : vtx[b][i] \in Txs /\ u[i] \in Seq(UndoType) /\ Len(u[i]) = Len(vin[vtx[b][i]])
    BY BlocksAre, CreatedOuts DEF Fits
  <1>2. PICK s : /\ s[0] = r
                 /\ \A i \in 1 .. N : s[i] = DisconnectTx(s[i - 1], vtx[b][N + 1 - i], Height[b], u[N + 1 - i])
                 /\ \A i \in 0 .. N : Work(s[i])
                 /\ DisconnectBlock(r, b, u) = s[N]
    BY DisconnectAllRun
  <1>3. After(b, 0) = UtxoOf[Parent[b]] /\ After(b, N) = UtxoOf[b] /\ \A n \in 0 .. N : After(b, n) \subseteq Outs
    BY AfterIs
  <1> DEFINE G == {i \in 0 .. N : s[i].ok /\ Stands(Seen(s[i]), After(b, N - i))}
  <1>4. 0 \in G
    <2>1. N - 0 = N /\ 0 \in 0 .. N
      BY <1>1
    <2> QED BY <1>2, <1>3, <2>1
  <1>5. ASSUME NEW i \in 1 .. N, i - 1 \in G PROVE i \in G
    <2> DEFINE j == N + 1 - i
               t == vtx[b][j]
               U == After(b, j - 1)
    <2>1. i \in 0 .. N /\ i - 1 \in 0 .. N /\ j \in 1 .. N /\ N - (i - 1) = j /\ N - i = j - 1 /\ j - 1 \in 0 .. N
      BY <1>1
    <2>2. s[i - 1].ok /\ Stands(Seen(s[i - 1]), After(b, j)) /\ Work(s[i - 1])
      BY <1>2, <1>5, <2>1
    <2>3. s[i] = DisconnectTx(s[i - 1], t, Height[b], u[j])
      BY <1>2
    <2> HIDE DEF j
    <2>4. After(b, j) = Left(U, t, Len(vin[t]) + 1) \cup Created(t, Height[b])
      BY <2>1, AfterNext
    <2>5. NoneOf(t, U)
      <3>1. ConnectsTo(b, j)
        <4>1. \A k \in 1 .. j : k \in 1 .. Len(vtx[b])
          BY <1>1, <2>1
        <4> QED BY <4>1 DEF Connects, ConnectsTo
      <3> QED BY <2>1, <3>1, NewThere
    <2>6. /\ \A k \in 1 .. Len(vin[t]) : Undoes(u[j][k], vin[t][k], Left(U, t, k))
          /\ u[j] \in Seq(UndoType) /\ Len(u[j]) = Len(vin[t]) /\ t \in Txs /\ U \in SUBSET Outs
      BY <1>1, <1>3, <2>1 DEF RightUndo
    <2> HIDE DEF t, U
    <2>7. s[i].ok /\ Stands(Seen(s[i]), U)
      BY <1>1, <2>2, <2>3, <2>4, <2>5, <2>6, DisconnectTxSays
    <2> QED BY <2>1, <2>7 DEF U
  <1>6. N \in G
    <2> HIDE DEF G
    <2>1. 0 .. N \subseteq G
      BY <1>1, <1>4, <1>5, EveryTurn
    <2> QED BY <1>1, <2>1
  <1>7. s[N].ok /\ Stands(Seen(s[N]), UtxoOf[Parent[b]])
    <2>1. N - N = 0
      BY <1>1
    <2> QED BY <1>3, <1>6, <2>1
  <1> QED BY <1>2, <1>7

-----------------------------------------------------------------------------
(* What the layers stand for when one is written to the one below.         *)

\* Coins without outputs may be dropped.
LEMMA Dropped ==
    ASSUME NEW A, NEW U, Stands(A, U), NEW B,
           \A t \in Txs : B[t] = A[t] \/ (Gone(A[t]) /\ B[t] = None)
    PROVE  Stands(B, U)
  <1> SUFFICES ASSUME NEW t \in Txs PROVE Says(B[t], t, U)
    BY DEF Stands
  <1>1. Says(A[t], t, U)
    BY DEF Stands
  <1>2. CASE B[t] = A[t]
    BY <1>1, <1>2
  <1>3. CASE Gone(A[t]) /\ B[t] = None
    <2>1. NoneOf(t, U)
      BY <1>1, <1>3, GoneIs
    <2> QED BY <1>3, <2>1, SaysNone DEF Gone
  <1> QED BY <1>2, <1>3

LEMMA BatchSays ==
    ASSUME NEW r, Work(r), NEW U, Stands(Seen(r), U)
    PROVE  Stands(Below(BatchWritten(r.tip, r.view), db), U)
  <1> DEFINE tip == r.tip
             view == r.view
             new == BatchWritten(tip, view)
             A == Seen(r)
             B == Below(new, db)
  <1>1. TipOK(tip, db) /\ ViewOK(view, tip, db)
    BY DEF Work
  <1>2. \A t \in Txs : A[t] = IF view[t] /= None THEN view[t].coins ELSE Below(tip, db)[t]
    BY DEF Seen
  <1>3. \A t \in Txs : B[t] = IF new[t] /= None THEN new[t].coins ELSE Held(db, t)
    BY DEF Below
  <1>4. \A t \in Txs : Below(tip, db)[t] = IF tip[t] /= None THEN tip[t].coins ELSE Held(db, t)
    BY DEF Below
  <1> HIDE DEF A, B
  <1>5. ASSUME NEW t \in Txs
        PROVE  B[t] = A[t] \/ (Gone(A[t]) /\ B[t] = None)
    <2>1. CASE ~Changed(view[t])
      <3>1. new[t] = tip[t]
        BY <2>1 DEF BatchWritten
      <3>2. B[t] = Below(tip, db)[t]
        BY <1>3, <1>4, <3>1
      <3>3. view[t] /= None => view[t].coins = Below(tip, db)[t]
        BY <1>1, <2>1 DEF Changed, ViewOK
      <3> QED BY <1>2, <3>2, <3>3
    <2>2. CASE Changed(view[t])
      <3> DEFINE c == view[t].coins
      <3>1. view[t] /= None /\ A[t] = c /\ (tip[t] = None => db[t] = None)
        BY <1>1, <1>2, <2>2 DEF Changed, ViewOK
      <3>2. CASE tip[t] = None /\ ~IsPruned(c)
        <4>1. new[t] = [coins |-> c, dirty |-> TRUE, fresh |-> TRUE]
          BY <2>2, <3>2 DEF BatchWritten
        <4>2. new[t] /= None
          <5>1. c \in CoinsType
            BY <1>1, <3>1 DEF ViewOK, Normal
          <5> HIDE DEF c, new
          <5> QED BY <4>1, <5>1, EntryIs
        <4> HIDE DEF new, c
        <4>3. new[t].coins = c
          BY <4>1
        <4> QED BY <1>3, <3>1, <4>2, <4>3
      <3>3. CASE tip[t] = None /\ IsPruned(c)
        <4>1. new[t] = None
          BY <2>2, <3>3 DEF BatchWritten
        <4> QED BY <1>3, <3>1, <3>3, <4>1 DEF Gone, Held
      <3>4. CASE tip[t] /= None /\ tip[t].fresh /\ IsPruned(c)
        <4>1. new[t] = None /\ db[t] = None
          BY <1>1, <2>2, <3>4 DEF BatchWritten, TipOK
        <4> QED BY <1>3, <3>1, <3>4, <4>1 DEF Gone, Held
      <3>5. CASE tip[t] /= None /\ ~(tip[t].fresh /\ IsPruned(c))
        <4> DEFINE x == tip[t]
        <4>1. new[t] = [x EXCEPT !.coins = c, !.dirty = TRUE]
          BY <2>2, <3>5 DEF BatchWritten
        <4>2. x \in EntryType
          BY <1>1, <3>5 DEF TipOK, Layers
        <4>3. c \in CoinsType
          BY <1>1, <3>1 DEF ViewOK, Normal
        <4> HIDE DEF new, c, x
        <4>4. new[t] \in EntryType /\ new[t].coins = c
          BY <4>1, <4>2, <4>3 DEF EntryType
        <4> QED BY <1>3, <3>1, <4>4, NoneIs
      <3> QED BY <3>2, <3>3, <3>4, <3>5
    <2> QED BY <2>1, <2>2
  <1> QED BY <1>5, Dropped DEF A, B

LEMMA WrittenSays ==
    ASSUME DbOK(db), NEW cache, TipOK(cache, db), NEW U, Stands(Below(cache, db), U)
    PROVE  Stands(Below(NoCoins, DbWritten(cache)), U)
  <1> DEFINE new == DbWritten(cache)
             A == Below(cache, db)
             B == Below(NoCoins, new)
  <1>1. \A t \in Txs : A[t] = IF cache[t] /= None THEN cache[t].coins ELSE Held(db, t)
    BY DEF Below
  <1>2. \A t \in Txs : B[t] = Held(new, t)
    BY DEF Below, NoCoins
  <1> HIDE DEF A, B
  <1>3. ASSUME NEW t \in Txs
        PROVE  B[t] = A[t] \/ (Gone(A[t]) /\ B[t] = None)
    <2>1. CASE ~Changed(cache[t])
      <3>1. new[t] = db[t]
        BY <2>1 DEF DbWritten
      <3>2. B[t] = Held(db, t)
        BY <1>2, <3>1 DEF Held
      <3>3. cache[t] /= None => Held(db, t) = cache[t].coins
        BY <2>1 DEF Changed, TipOK
      <3> QED BY <1>1, <3>2, <3>3
    <2>2. CASE Changed(cache[t]) /\ IsPruned(cache[t].coins)
      <3>1. new[t] = None
        BY <2>2 DEF DbWritten
      <3> QED BY <1>1, <1>2, <2>2, <3>1 DEF Held, Gone, Changed
    <2>3. CASE Changed(cache[t]) /\ ~IsPruned(cache[t].coins)
      <3> DEFINE c == cache[t].coins
      <3>1. new[t] = Serialize(c)
        BY <2>3 DEF DbWritten
      <3>2. Normal(c) /\ ~IsPruned(c)
        BY <2>3 DEF TipOK, Changed
      <3>3. Serialize(c) \in StoredType /\ Unserialize(Serialize(c)) = c
        BY <3>2, RoundTrip
      <3>4. A[t] = c
        BY <1>1, <2>3 DEF Changed
      <3> HIDE DEF new, c
      <3> QED BY <1>2, <3>1, <3>3, <3>4, NoneIs DEF Held
    <2> QED BY <2>1, <2>2, <2>3
  <1> QED BY <1>3, Dropped DEF A, B

LEMMA UtxoIs ==
    ASSUME NEW A, NEW U, Stands(A, U)
    PROVE  Utxo(A) = U
  <1>1. ASSUME NEW t \in Txs, A[t] /= None, NEW i \in Unspent(A[t].vout)
        PROVE  [tx |-> t, n |-> i, nHeight |-> A[t].nHeight, base |-> A[t].fCoinBase, stake |-> A[t].fCoinStake] \in U
    <2>1. Says(A[t], t, U)
      BY DEF Stands
    <2>2. Out(t, i, A[t].nHeight) \in U /\ A[t].fCoinBase = (t \in CoinBases) /\ A[t].fCoinStake = (t \in CoinStakes)
      BY <1>1, <2>1 DEF Says
    <2> QED BY <2>2 DEF Out
  <1>2. ASSUME NEW o \in U
        PROVE  \E t \in Txs : A[t] /= None /\ \E i \in Unspent(A[t].vout) :
                  o = [tx |-> t, n |-> i, nHeight |-> A[t].nHeight, base |-> A[t].fCoinBase, stake |-> A[t].fCoinStake]
    <2> DEFINE t == o.tx
    <2>1. o \in Outs /\ o = Out(o.tx, o.n, o.nHeight) /\ t \in Txs
      BY OutsAre DEF Stands
    <2>2. Says(A[t], t, U)
      BY <2>1 DEF Stands
    <2>3. A[t] /= None /\ o.n \in Unspent(A[t].vout) /\ o.nHeight = A[t].nHeight
      BY <2>2 DEF Says
    <2>4. A[t].fCoinBase = (t \in CoinBases) /\ A[t].fCoinStake = (t \in CoinStakes)
      BY <2>2, <2>3 DEF Says
    <2>5. o = [tx |-> t, n |-> o.n, nHeight |-> A[t].nHeight, base |-> A[t].fCoinBase, stake |-> A[t].fCoinStake]
      BY <2>1, <2>3, <2>4 DEF Out
    <2> HIDE DEF t
    <2> QED BY <2>1, <2>3, <2>5
  <1>3. Utxo(A) \subseteq U
    BY <1>1 DEF Utxo
  <1>4. U \subseteq Utxo(A)
    BY <1>2 DEF Utxo
  <1> QED BY <1>3, <1>4

-----------------------------------------------------------------------------
(* VerifyDB.                                                               *)

\* The blocks that the undo data u lets one disconnect, and the genesis block.
Known(u) == {Genesis} \cup {b \in Blocks : u[b] /= None}

\* What there is of undo data is right, and leads back to the genesis block.
Right(u) ==
    \A b \in Blocks : u[b] /= None =>
       b /= Genesis /\ Connects(b) /\ RightUndo(b, u[b]) /\ Parent[b] \in Known(u)

\* d blocks below b.
Lower(b, d) == IF d = Height[b] THEN Genesis ELSE Path[b][d + 1]

LEMMA LowerIs ==
    ASSUME NEW b \in Blocks
    PROVE  /\ Height[b] \in Nat /\ Lower(b, 0) = b
           /\ \A d \in 0 .. Height[b] : Lower(b, d) \in Blocks /\ Height[Lower(b, d)] = Height[b] - d
           /\ \A d \in 0 .. Height[b] - 1 :
                 /\ Lower(b, d) /= Genesis /\ Lower(b, d) = Path[b][d + 1]
                 /\ Parent[Lower(b, d)] = Lower(b, d + 1)
  <1> DEFINE H == Height[b]
             p == Path[b]
  <1>1. /\ p \in Seq(Blocks \ {Genesis}) /\ Len(p) = H
        /\ b /= Genesis => p[1] = b
        /\ \A i \in 1 .. Len(p) : /\ Height[p[i]] = H + 1 - i
                                  /\ Parent[p[i]] = IF i = Len(p) THEN Genesis ELSE p[i + 1]
    BY Paths DEF PathRight
  <1>2. /\ H \in Nat /\ Genesis \in Blocks /\ Height[Genesis] = 0
        /\ b /= Genesis => H = Height[Parent[b]] + 1 /\ Height[Parent[b]] \in Nat
    BY Heights, BlocksAre
  <1>3. Lower(b, 0) = b
    <2>1. CASE b = Genesis
      BY <1>2, <2>1 DEF Lower
    <2>2. CASE b /= Genesis
      <3>1. H /= 0
        BY <1>2, <2>2
      <3> QED BY <1>1, <2>2, <3>1 DEF Lower
    <2> QED BY <2>1, <2>2
  <1> HIDE DEF p
  <1>4. ASSUME NEW d \in 0 .. H - 1
        PROVE  /\ Lower(b, d) = p[d + 1] /\ Lower(b, d) \in Blocks \ {Genesis}
               /\ Height[Lower(b, d)] = H - d /\ Parent[Lower(b, d)] = Lower(b, d + 1)
    <2>0. H \in Nat /\ Len(p) = H
      BY <1>1, <1>2
    <2> HIDE DEF H
    <2>1. d + 1 \in 1 .. Len(p) /\ d /= H /\ H + 1 - (d + 1) = H - d /\ (d + 1 = Len(p) <=> d + 1 = H)
      BY <2>0
    <2>2. Lower(b, d) = p[d + 1]
      BY <2>1 DEF Lower, p, H
    <2>3. p[d + 1] \in Blocks \ {Genesis}
      BY <1>1, <2>1
    <2>4. Parent[p[d + 1]] = IF d + 1 = H THEN Genesis ELSE p[(d + 1) + 1]
      BY <1>1, <2>1
    <2>5. Lower(b, d + 1) = IF d + 1 = H THEN Genesis ELSE p[(d + 1) + 1]
      BY DEF Lower, p, H
    <2>6. Height[p[d + 1]] = H + 1 - (d + 1)
      BY <1>1, <2>1
    <2> QED BY <2>1, <2>2, <2>3, <2>4, <2>5, <2>6
  <1>5. ASSUME NEW d \in 0 .. H PROVE Lower(b, d) \in Blocks /\ Height[Lower(b, d)] = H - d
    <2>1. CASE d = H
      BY <1>2, <2>1 DEF Lower
    <2>2. CASE d /= H
      BY <1>2, <1>4, <2>2
    <2> QED BY <2>1, <2>2
  <1> QED BY <1>2, <1>3, <1>4, <1>5 DEF p

LEMMA LowerKnown ==
    ASSUME NEW u, Right(u), NEW b \in Blocks, b \in Known(u)
    PROVE  /\ \A d \in 0 .. Height[b] : Lower(b, d) \in Known(u)
           /\ \A d \in 0 .. Height[b] - 1 :
                 LET a == Lower(b, d) IN u[a] /= None /\ Connects(a) /\ RightUndo(a, u[a])
  <1> DEFINE H == Height[b]
             G == {d \in 0 .. H : Lower(b, d) \in Known(u)}
  <1>1. /\ H \in Nat /\ Lower(b, 0) = b
        /\ \A d \in 0 .. H : Lower(b, d) \in Blocks
        /\ \A d \in 0 .. H - 1 : Lower(b, d) /= Genesis /\ Parent[Lower(b, d)] = Lower(b, d + 1)
    BY LowerIs
  <1>2. \A a \in Blocks : a \in Known(u) /\ a /= Genesis =>
           u[a] /= None /\ Connects(a) /\ RightUndo(a, u[a]) /\ Parent[a] \in Known(u)
    BY DEF Known, Right
  <1> HIDE DEF H
  <1>3. 0 \in G
    BY <1>1
  <1>4. ASSUME NEW d \in 1 .. H, d - 1 \in G PROVE d \in G
    <2>1. d - 1 \in 0 .. H - 1 /\ (d - 1) + 1 = d /\ d - 1 \in 0 .. H /\ d \in 0 .. H
      BY <1>1
    <2>2. Lower(b, d - 1) \in Known(u) /\ Lower(b, d - 1) \in Blocks /\ Lower(b, d - 1) /= Genesis
          /\ Parent[Lower(b, d - 1)] = Lower(b, d)
      BY <1>1, <1>4, <2>1
    <2> QED BY <1>2, <2>1, <2>2
  <1>5. 0 .. H \subseteq G
    <2> HIDE DEF G
    <2> QED BY <1>1, <1>3, <1>4, EveryTurn
  <1>6. \A d \in 0 .. H - 1 : d \in 0 .. H
    BY <1>1
  <1> QED BY <1>1, <1>2, <1>5, <1>6 DEF H

\* VerifyDB on its way down, after at most n blocks.
GoingDown(n, s) ==
    /\ s \in [r : Records, at : Blocks] /\ Work(s.r) /\ s.r.ok /\ Stands(Seen(s.r), UtxoOf[s.at])
    /\ \E d \in 0 .. n : s.at = Lower(best, d)

\* And up again, with d blocks to go.
GoingUp(d, x) == Work(x) /\ x.ok /\ Stands(Seen(x), UtxoOf[Lower(best, d)])

\* What VerifyDB finds on disk.
Verifiable ==
    /\ DbOK(db) /\ UndoOK(undoOnDisk) /\ Right(undoOnDisk)
    /\ best \in Blocks /\ best \in Known(undoOnDisk) /\ cacheCoins = NoCoins
    /\ Stands(Below(NoCoins, db), UtxoOf[best])

LEMMA DownStep ==
    ASSUME MarkersStay, Verifiable, NEW n \in 1 .. Height[best], NEW s, GoingDown(n - 1, s)
    PROVE  GoingDown(n, VerifiedDown(s))
  <1> DEFINE H == Height[best]
             a == s.at
             x == DisconnectBlock(s.r, a, undoOnDisk[a])
             y == VerifiedDown(s)
  <1>1. H \in Nat /\ n \in 1 .. H
    BY LowerIs DEF Verifiable
  <1>2. PICK d \in 0 .. n - 1 : a = Lower(best, d)
    BY DEF GoingDown
  <1>3. d \in 0 .. H - 1 /\ d + 1 \in 0 .. n /\ d \in 0 .. n
    BY <1>1, <1>2
  <1>4. CASE ~(GetCacheSize(s.r.view) <= nCoinCacheSize)
    <2>1. y = s
      BY <1>4 DEF VerifiedDown
    <2> HIDE DEF y
    <2> QED BY <1>2, <1>3, <2>1 DEF GoingDown, y
  <1>5. CASE GetCacheSize(s.r.view) <= nCoinCacheSize
    <2>1. y = [r |-> x, at |-> Parent[a]]
      BY <1>5 DEF VerifiedDown
    <2>2. Parent[a] = Lower(best, d + 1) /\ a /= Genesis
      BY <1>2, <1>3, LowerIs DEF Verifiable
    <2>3. undoOnDisk[a] /= None /\ Connects(a) /\ RightUndo(a, undoOnDisk[a])
      BY <1>2, <1>3, LowerKnown DEF Verifiable
    <2>4. a \in Blocks /\ Parent[a] \in Blocks /\ Work(s.r) /\ s.r.ok /\ Stands(Seen(s.r), UtxoOf[a])
      BY <2>2, BlocksAre DEF GoingDown
    <2>5. Fits(a, undoOnDisk[a])
      BY <2>3, <2>4 DEF Verifiable, UndoOK
    <2>6. DbOK(db)
      BY DEF Verifiable
    <2>7. x.ok /\ Stands(Seen(x), UtxoOf[Parent[a]])
      BY <2>2, <2>3, <2>4, <2>5, <2>6, DisconnectBlockSays
    <2>8. Work(x)
      BY <2>4, <2>5, <2>6, DisconnectBlockIs
    <2> HIDE DEF x, y, a
    <2>9. y \in [r : Records, at : Blocks] /\ y.r = x /\ y.at = Parent[a]
      BY <2>1, <2>4, <2>8 DEF Work
    <2>10. \E e \in 0 .. n : y.at = Lower(best, e)
      BY <1>3, <2>2, <2>9
    <2>11. Work(y.r) /\ y.r.ok /\ Stands(Seen(y.r), UtxoOf[y.at])
      BY <2>7, <2>8, <2>9
    <2> QED BY <2>9, <2>10, <2>11 DEF GoingDown, y
  <1> QED BY <1>4, <1>5

LEMMA UpStep ==
    ASSUME Verifiable, MarkersStay, NEW k \in 0 .. Height[best], NEW n \in 1 .. k, NEW x, GoingUp(k - (n - 1), x)
    PROVE  GoingUp(k - n, ConnectBlock(x, Path[best][k + 1 - n]))
  <1> DEFINE H == Height[best]
             e == k - n
             b == Lower(best, e)
             y == ConnectBlock(x, b)
  <1>1. H \in Nat /\ best \in Blocks /\ DbOK(db) /\ Right(undoOnDisk) /\ best \in Known(undoOnDisk)
    BY LowerIs DEF Verifiable
  <1>2. e \in 0 .. H - 1 /\ e \in 0 .. H /\ k - (n - 1) = e + 1 /\ k + 1 - n = e + 1
    BY <1>1
  <1> HIDE DEF e, H
  <1>3. b /= Genesis /\ b = Path[best][e + 1] /\ Parent[b] = Lower(best, e + 1) /\ b \in Blocks
    BY <1>1, <1>2, LowerIs DEF H
  <1>4. Connects(b)
    BY <1>1, <1>2, LowerKnown DEF H
  <1>5. Work(x) /\ x.ok /\ Stands(Seen(x), UtxoOf[Parent[b]])
    BY <1>2, <1>3 DEF GoingUp
  <1> HIDE DEF b
  <1>6. y.ok /\ Stands(Seen(y), UtxoOf[b])
    BY <1>1, <1>3, <1>4, <1>5, ConnectBlockSays
  <1>7. Work(y)
    BY <1>1, <1>3, <1>5, ConnectBlockIs
  <1> HIDE DEF y
  <1>8. GoingUp(e, y)
    BY <1>6, <1>7 DEF GoingUp, b
  <1>9. ConnectBlock(x, Path[best][k + 1 - n]) = y
    BY <1>2, <1>3 DEF y
  <1> QED BY <1>8, <1>9 DEF e

\* VerifyDB finds nothing wrong.
LEMMA Verified ==
    ASSUME MarkersStay, Verifiable
    PROVE  VerifyDB
  <1> DEFINE H == Height[best]
             X == [r : Records, at : Blocks]
             top == [r |-> Opening(NoCoins), at |-> best]
             down == CHOOSE down : down = [n \in 0 .. H |-> IF n = 0 THEN top ELSE VerifiedDown(down[n - 1])]
             k == H - Height[down[H].at]
             up == CHOOSE up : up = [n \in 0 .. k |->
                       IF n = 0 THEN down[H].r
                       ELSE IF up[n - 1].ok THEN ConnectBlock(up[n - 1], Path[best][k + 1 - n])
                       ELSE up[n - 1]]
  <1>1. VerifyDB <=> down[H].r.ok /\ up[k].ok
    BY DEF VerifyDB
  <1>2. H \in Nat /\ best \in Blocks
    BY LowerIs DEF Verifiable
  <1>3. GoingDown(0, top)
    <2>1. TipOK(cacheCoins, db) /\ cacheCoins = NoCoins
      BY NoCoinsOK DEF Verifiable
    <2>2. /\ Work(Opening(NoCoins)) /\ Seen(Opening(NoCoins)) = Below(NoCoins, db)
          /\ Opening(NoCoins).ok = TRUE
      BY <2>1, OpeningIs
    <2> DEFINE o == Opening(NoCoins)
    <2> HIDE DEF o
    <2>3. top \in X /\ top.r = o /\ top.at = best
      BY <1>2, <2>2 DEF Work, o
    <2>4. Stands(Seen(o), UtxoOf[best])
      BY <2>2 DEF Verifiable, o
    <2>5. best = Lower(best, 0) /\ 0 \in 0 .. 0
      BY <1>2, LowerIs
    <2> HIDE DEF top
    <2> QED BY <2>2, <2>3, <2>4, <2>5 DEF GoingDown, o
  <1>4. \A i \in 1 .. H : \A x : GoingDown(i - 1, x) => GoingDown(i, VerifiedDown(x))
    BY DownStep
  <1>5. \A i, x : GoingDown(i, x) => x \in X
    BY DEF GoingDown
  <1> HIDE DEF top, H
  <1>6. \A i \in 0 .. H : GoingDown(i, down[i])
    <2> DEFINE F == [i \in 1 .. H |-> [x \in X |-> VerifiedDown(x)]]
               I == [i \in 0 .. H |-> {x \in X : GoingDown(i, x)}]
               G == {i \in 0 .. H : GoingDown(i, down[i])}
    <2>1. /\ I \in [0 .. H -> SUBSET X] /\ top \in I[0]
          /\ \A i \in 1 .. H : \A x \in I[i - 1] : F[i][x] = VerifiedDown(x) /\ F[i][x] \in I[i]
      BY <1>2, <1>3, <1>4, <1>5
    <2> HIDE DEF F, I, X
    <2>2. PICK f : Runs(f, H, X, top, F, I)
      <3>1. \A i \in 1 .. H : \A x \in I[i - 1] : F[i][x] \in I[i]
        BY <2>1
      <3> QED BY <1>2, <2>1, <3>1, Loop
    <2>3. f = [n \in 0 .. H |-> IF n = 0 THEN top ELSE VerifiedDown(f[n - 1])]
      <3>1. /\ f \in [0 .. H -> X] /\ f[0] = top /\ \A i \in 1 .. H : f[i] = F[i][f[i - 1]]
            /\ \A i \in 0 .. H : f[i] \in I[i]
        BY <2>2 DEF Runs
      <3>2. \A i \in 1 .. H : f[i] = VerifiedDown(f[i - 1])
        <4>1. \A i \in 1 .. H : f[i - 1] \in I[i - 1]
          BY <1>2, <3>1
        <4> QED BY <2>1, <3>1, <4>1
      <3>3. \A i \in 0 .. H : f[i] = IF i = 0 THEN top ELSE VerifiedDown(f[i - 1])
        BY <1>2, <3>1, <3>2
      <3> QED BY <3>1, <3>3
    <2>4. down = [n \in 0 .. H |-> IF n = 0 THEN top ELSE VerifiedDown(down[n - 1])]
      BY <2>3
    <2> HIDE DEF down
    <2>5. down[0] = top /\ \A i \in 1 .. H : down[i] = VerifiedDown(down[i - 1])
      BY <1>2, <2>4
    <2>6. 0 \in G /\ \A i \in 1 .. H : i - 1 \in G => i \in G
      BY <1>2, <1>3, <1>4, <2>5
    <2>7. 0 .. H \subseteq G
      <3> HIDE DEF G
      <3> QED BY <1>2, <2>6, EveryTurn
    <2> QED BY <2>7
  <1> HIDE DEF down
  <1>7. /\ Work(down[H].r) /\ down[H].r.ok /\ Stands(Seen(down[H].r), UtxoOf[down[H].at])
        /\ \E d \in 0 .. H : down[H].at = Lower(best, d)
    <2>1. GoingDown(H, down[H])
      BY <1>2, <1>6
    <2> QED BY <2>1 DEF GoingDown
  <1>8. k \in 0 .. H /\ k \in Nat /\ down[H].at = Lower(best, k)
    <2>1. PICK d \in 0 .. H : down[H].at = Lower(best, d)
      BY <1>7
    <2>2. Height[Lower(best, d)] = H - d
      BY <1>2, LowerIs DEF H
    <2>3. k = d
      BY <1>2, <2>1, <2>2
    <2> HIDE DEF k
    <2> QED BY <1>2, <2>1, <2>3
  <1> HIDE DEF k
  <1>9. up[k].ok
    <2> DEFINE start == down[H].r
               Again(x, i) == IF x.ok THEN ConnectBlock(x, Path[best][k + 1 - i]) ELSE x
    <2>1. GoingUp(k - 0, start)
      <3>1. k - 0 = k
        BY <1>8
      <3> QED BY <1>7, <1>8, <3>1 DEF GoingUp
    <2>2. \A i \in 1 .. k : \A x : GoingUp(k - (i - 1), x) => GoingUp(k - i, Again(x, i))
      <3> SUFFICES ASSUME NEW i \in 1 .. k, NEW x, GoingUp(k - (i - 1), x) PROVE GoingUp(k - i, Again(x, i))
        OBVIOUS
      <3>1. GoingUp(k - i, ConnectBlock(x, Path[best][k + 1 - i]))
        BY <1>8, UpStep DEF H
      <3>2. x.ok
        BY DEF GoingUp
      <3> QED BY <3>1, <3>2
    <2>3. \A i, x : GoingUp(i, x) => x \in Records
      BY DEF GoingUp, Work
    <2> HIDE DEF start
    <2> DEFINE F == [i \in 1 .. k |-> [x \in Records |-> Again(x, i)]]
               I == [i \in 0 .. k |-> {x \in Records : GoingUp(k - i, x)}]
               G == {i \in 0 .. k : GoingUp(k - i, up[i])}
    <2>4. /\ I \in [0 .. k -> SUBSET Records] /\ start \in I[0]
          /\ \A i \in 1 .. k : \A x \in I[i - 1] : F[i][x] = Again(x, i) /\ F[i][x] \in I[i]
      <3>1. I \in [0 .. k -> SUBSET Records] /\ start \in I[0]
        BY <1>8, <2>1, <2>3
      <3>2. \A i \in 1 .. k : /\ I[i - 1] = {x \in Records : GoingUp(k - (i - 1), x)}
                              /\ I[i] = {x \in Records : GoingUp(k - i, x)}
        BY <1>8
      <3>3. \A i \in 1 .. k : \A x \in Records : F[i][x] = Again(x, i)
        OBVIOUS
      <3> HIDE DEF F, I, Again
      <3>4. ASSUME NEW i \in 1 .. k, NEW x \in I[i - 1] PROVE F[i][x] = Again(x, i) /\ F[i][x] \in I[i]
        <4>1. x \in Records /\ GoingUp(k - (i - 1), x)
          BY <3>2
        <4>2. GoingUp(k - i, Again(x, i)) /\ Again(x, i) \in Records /\ F[i][x] = Again(x, i)
          BY <2>2, <2>3, <3>3, <4>1
        <4> QED BY <3>2, <4>2
      <3> QED BY <3>1, <3>4
    <2> HIDE DEF F, I
    <2>5. PICK f : Runs(f, k, Records, start, F, I)
      <3>1. \A i \in 1 .. k : \A x \in I[i - 1] : F[i][x] \in I[i]
        BY <2>4
      <3> QED BY <1>8, <2>4, <3>1, Loop
    <2> HIDE DEF Again
    <2>6. f = [n \in 0 .. k |-> IF n = 0 THEN start ELSE Again(f[n - 1], n)]
      <3>1. /\ f \in [0 .. k -> Records] /\ f[0] = start /\ \A i \in 1 .. k : f[i] = F[i][f[i - 1]]
            /\ \A i \in 0 .. k : f[i] \in I[i]
        BY <2>5 DEF Runs
      <3>2. \A i \in 1 .. k : f[i] = Again(f[i - 1], i)
        <4>1. \A i \in 1 .. k : f[i - 1] \in I[i - 1]
          BY <1>8, <3>1
        <4> QED BY <2>4, <3>1, <4>1
      <3>3. \A i \in 0 .. k : f[i] = IF i = 0 THEN start ELSE Again(f[i - 1], i)
        BY <1>8, <3>1, <3>2
      <3> QED BY <3>1, <3>3
    <2>7. up = [n \in 0 .. k |-> IF n = 0 THEN start ELSE Again(up[n - 1], n)]
      <3> DEFINE u == CHOOSE u : u = [n \in 0 .. k |-> IF n = 0 THEN start ELSE Again(u[n - 1], n)]
      <3>1. u = [n \in 0 .. k |-> IF n = 0 THEN start ELSE Again(u[n - 1], n)]
        BY <2>6
      <3>2. u = up
        BY DEF Again, start
      <3> HIDE DEF up, u
      <3> QED BY <3>1, <3>2
    <2> HIDE DEF up
    <2>8. up[0] = start /\ \A i \in 1 .. k : up[i] = Again(up[i - 1], i)
      BY <1>8, <2>7
    <2>9. 0 \in G /\ \A i \in 1 .. k : i - 1 \in G => i \in G
      <3>1. 0 \in G
        BY <1>8, <2>1, <2>8
      <3>2. ASSUME NEW i \in 1 .. k, i - 1 \in G PROVE i \in G
        <4>1. i \in 0 .. k /\ GoingUp(k - (i - 1), up[i - 1]) /\ up[i] = Again(up[i - 1], i)
          BY <1>8, <2>8, <3>2
        <4> QED BY <2>2, <4>1
      <3> QED BY <3>1, <3>2
    <2>10. 0 .. k \subseteq G
      <3> HIDE DEF G
      <3> QED BY <1>8, <2>9, EveryTurn
    <2>11. GoingUp(k - k, up[k])
      BY <1>8, <2>10
    <2> QED BY <2>11 DEF GoingUp
  <1> QED BY <1>1, <1>7, <1>9

-----------------------------------------------------------------------------
(* The layers stand for the chain.                                         *)

\* The database and the index on disk, at every moment at which the node can stop.
DiskRight ==
    /\ Stands(Below(NoCoins, db), UtxoOf[best])
    /\ Right(undoOnDisk) /\ best \in Known(undoOnDisk)

\* pcoinsTip and the index in memory.
MemoryRight ==
    /\ hashBlock = chainTip /\ Stands(Below(cacheCoins, db), UtxoOf[hashBlock])
    /\ Right(undo) /\ hashBlock \in Known(undo) /\ best \in Known(undo)

ChainInv ==
    /\ Inv
    /\ mode = "down" => cacheCoins = NoCoins
    /\ ~lost => /\ DiskRight /\ mode /= "corrupt"
                /\ mode = "run" => MemoryRight

LEMMA InitChainInv ==
    ASSUME Init
    PROVE  ChainInv
  <1>1. Below(NoCoins, NoCoins) = NoCoins /\ \A t \in Txs : NoCoins[t] = None
    BY DEF Below, NoCoins, Held
  <1>2. Stands(NoCoins, {})
    <2>1. \A t \in Txs : NoneOf(t, {}) /\ Gone(NoCoins[t])
      BY <1>1 DEF NoneOf, Gone
    <2>2. \A t \in Txs : Says(NoCoins[t], t, {})
      BY <1>1, <2>1, SaysNone
    <2> QED BY <2>2 DEF Stands
  <1>3. UtxoOf[Genesis] = {} /\ Genesis \in Blocks
    BY Utxos, BlocksAre
  <1>4. /\ db = NoCoins /\ best = Genesis /\ cacheCoins = NoCoins /\ hashBlock = Genesis /\ chainTip = Genesis
        /\ undo = [b \in Blocks |-> None] /\ undoOnDisk = undo /\ mode = "run" /\ lost = FALSE
    BY DEF Init
  <1>5. Right(undo) /\ Genesis \in Known(undo)
    BY <1>4 DEF Right, Known
  <1>6. Stands(Below(NoCoins, db), UtxoOf[Genesis])
    BY <1>1, <1>2, <1>3, <1>4
  <1>7. DiskRight
    BY <1>4, <1>5, <1>6 DEF DiskRight
  <1>8. MemoryRight
    BY <1>4, <1>5, <1>6 DEF MemoryRight
  <1> QED BY <1>4, <1>7, <1>8, InitInv DEF ChainInv

\* Reading through pcoinsTip changes nothing that is seen through it.
LEMMA ReadRight ==
    ASSUME ChainInv, Inv', Up, UNCHANGED <<hashBlock, chainTip, undo, disk, mode>>,
           Below(cacheCoins', db) = Below(cacheCoins, db)
    PROVE  ChainInv'
  <1>1. UNCHANGED <<hashBlock, chainTip, undo, db, best, undoOnDisk, lost, mode>>
    BY DEF disk
  <1>2. Below(cacheCoins, db)' = Below(cacheCoins, db)
    BY <1>1
  <1>3. DiskRight' <=> DiskRight
    BY <1>1 DEF DiskRight
  <1>4. MemoryRight' <=> MemoryRight
    BY <1>1, <1>2 DEF MemoryRight
  <1>5. mode /= "down"
    BY DEF Up
  <1> QED BY <1>1, <1>3, <1>4, <1>5 DEF ChainInv

\* A flush writes what is right, or fails and leaves the old coins with an index that
\* still knows how to disconnect their block.
LEMMA FlushRight ==
    ASSUME ChainInv, Inv', Up, NEW cache, TipOK(cache, db), NEW h \in Blocks, NEW u, NEW new \in Blocks,
           mode = "run" /\ ~lost => /\ h = new /\ Stands(Below(cache, db), UtxoOf[h])
                                    /\ Right(u) /\ h \in Known(u) /\ best \in Known(u),
           FlushState(cache, h, u, new), hashBlock' = h, undo' = u
    PROVE  ChainInv'
  <1>1. mode \in {"run", "aborting"} /\ lost \in BOOLEAN /\ DbOK(db)
    BY DEF Up, ChainInv, Inv
  <1>2. CASE Written(cache, h, u) /\ chainTip' = new /\ UNCHANGED mode
    <2>1. /\ undoOnDisk' = u /\ db' = DbWritten(cache) /\ best' = h /\ cacheCoins' = NoCoins
          /\ lost' = (lost \/ mode = "aborting") /\ mode' = mode /\ chainTip' = new
      BY <1>2 DEF Written
    <2>2. ASSUME ~lost' PROVE DiskRight' /\ MemoryRight'
      <3>1. mode = "run" /\ ~lost
        BY <1>1, <2>1, <2>2
      <3>2. Stands(Below(NoCoins, DbWritten(cache)), UtxoOf[h])
        BY <1>1, <3>1, WrittenSays
      <3> QED BY <2>1, <3>1, <3>2 DEF DiskRight, MemoryRight
    <2> QED BY <1>1, <2>1, <2>2 DEF ChainInv
  <1>3. CASE FlushThrows(u) /\ UNCHANGED chainTip
    <2>1. /\ undoOnDisk' = u /\ lost' = (lost \/ (mode = "aborting" /\ u /= undoOnDisk))
          /\ db' = db /\ best' = best /\ mode' = "aborting"
      BY <1>3 DEF FlushThrows, IndexWritten
    <2>2. ASSUME ~lost' PROVE DiskRight'
      <3>1. ~lost /\ DiskRight /\ (mode = "run" \/ u = undoOnDisk)
        BY <1>1, <2>1, <2>2 DEF ChainInv
      <3> QED BY <2>1, <3>1 DEF DiskRight
    <2> QED BY <2>1, <2>2 DEF ChainInv
  <1> QED BY <1>2, <1>3 DEF FlushState

\* Undo data that is right stays right when that of one more block comes.
LEMMA UndoRight ==
    ASSUME NEW u, UndoOK(u), Right(u), NEW b \in Blocks \ {Genesis}, NEW new, Fits(b, new),
           Connects(b), RightUndo(b, new), Parent[b] \in Known(u)
    PROVE  LET v == UndoWritten(u, b, new) IN Right(v) /\ Known(u) \subseteq Known(v) /\ b \in Known(v)
  <1> DEFINE v == UndoWritten(u, b, new)
  <1>1. CASE u[b] /= None
    BY <1>1 DEF UndoWritten, Known
  <1>2. CASE u[b] = None
    <2>1. new /= None
      BY NoneIs DEF Fits
    <2>2. v[b] = new /\ \A c \in Blocks : c /= b => v[c] = u[c]
      BY <1>2 DEF UndoWritten, UndoOK
    <2> HIDE DEF v
    <2>3. Known(u) \subseteq Known(v) /\ b \in Known(v)
      BY <1>2, <2>1, <2>2 DEF Known
    <2>4. Right(v)
      <3> SUFFICES ASSUME NEW c \in Blocks, v[c] /= None
                   PROVE  c /= Genesis /\ Connects(c) /\ RightUndo(c, v[c]) /\ Parent[c] \in Known(v)
        BY DEF Right
      <3>1. CASE c = b
        BY <2>2, <2>3, <3>1
      <3>2. CASE c /= b
        BY <2>2, <2>3, <3>2 DEF Right
      <3> QED BY <3>1, <3>2
    <2> QED BY <2>3, <2>4 DEF v
  <1> QED BY <1>1, <1>2

LEMMA ConnectTipRight ==
    ASSUME MarkersStay, ChainInv, Inv', NEW b \in Blocks, ConnectTip(b)
    PROVE  ChainInv'
  <1> DEFINE r == ConnectBlock(Opening(cacheCoins), b)
             cache == BatchWritten(r.tip, r.view)
             u == UndoWritten(undo, b, r.undo)
  <1>1. /\ Work(r) /\ r.ok /\ Fits(b, r.undo) /\ BatchWriteAsserts(r.tip, r.view) /\ TipOK(cache, db)
        /\ Up /\ b /= Genesis /\ Parent[b] = chainTip
    BY ConnectedIs DEF ConnectTip, Extends, ChainInv
  <1>2. /\ hashBlock' = b /\ undo' = u
        /\ (NotFlushed(cache) /\ chainTip' = b) \/ FlushState(cache, b, u, b)
    BY <1>1 DEF ConnectTip
  <1>3. mode = "run" /\ ~lost =>
           /\ Stands(Below(cache, db), UtxoOf[b])
           /\ Right(u) /\ b \in Known(u) /\ best \in Known(u)
    <2> SUFFICES ASSUME mode = "run", ~lost
                 PROVE  /\ Stands(Below(cache, db), UtxoOf[b])
                        /\ Right(u) /\ b \in Known(u) /\ best \in Known(u)
      OBVIOUS
    <2>1. MemoryRight /\ Inv
      BY DEF ChainInv
    <2>2. UndoOK(undo) /\ DbOK(db) /\ TipOK(cacheCoins, db)
      BY <2>1 DEF Inv
    <2> DEFINE o == Opening(cacheCoins)
    <2>3. Work(o) /\ o.ok /\ Seen(o) = Below(cacheCoins, db)
      BY <2>2, OpeningIs
    <2>4. Stands(Seen(o), UtxoOf[Parent[b]])
      BY <1>1, <2>1, <2>3 DEF MemoryRight
    <2>5. Connects(b) /\ Stands(Seen(r), UtxoOf[b]) /\ RightUndo(b, r.undo)
      BY <1>1, <2>2, <2>3, <2>4, ConnectBlockSays
    <2> HIDE DEF r, o
    <2>6. Stands(Below(cache, db), UtxoOf[b])
      BY <1>1, <2>5, BatchSays
    <2>7. Right(undo) /\ Parent[b] \in Known(undo) /\ best \in Known(undo)
      BY <1>1, <2>1 DEF MemoryRight
    <2>8. Right(u) /\ Known(undo) \subseteq Known(u) /\ b \in Known(u)
      BY <1>1, <2>2, <2>5, <2>7, UndoRight
    <2> QED BY <2>6, <2>7, <2>8
  <1> HIDE DEF r, cache, u
  <1>4. CASE FlushState(cache, b, u, b)
    BY <1>1, <1>2, <1>3, <1>4, FlushRight
  <1>5. CASE NotFlushed(cache) /\ chainTip' = b
    <2>1. cacheCoins' = cache /\ UNCHANGED <<db, best, undoOnDisk, lost, mode>>
      BY <1>5 DEF NotFlushed, disk
    <2>2. DiskRight' <=> DiskRight
      BY <2>1 DEF DiskRight
    <2>3. mode = "run" /\ ~lost => MemoryRight'
      BY <1>2, <1>3, <1>5, <2>1 DEF MemoryRight
    <2> QED BY <1>1, <2>1, <2>2, <2>3 DEF ChainInv, Up
  <1> QED BY <1>2, <1>4, <1>5

\* Work on a block that is given up.
LEMMA TriedRight ==
    ASSUME ChainInv, Inv', NEW b \in Blocks, ConnectTipFails(b) \/ TestBlock(b)
    PROVE  ChainInv'
  <1> DEFINE r == ConnectBlock(Opening(cacheCoins), b)
  <1>1. Work(r)
    BY ConnectedIs DEF ChainInv
  <1>2. Up /\ cacheCoins' = r.tip /\ UNCHANGED <<hashBlock, chainTip, undo, disk, mode>>
    BY DEF ConnectTipFails, TestBlock, Extends
  <1> HIDE DEF r
  <1>3. Below(cacheCoins', db) = Below(cacheCoins, db)
    BY <1>1, <1>2 DEF Work
  <1> QED BY <1>2, <1>3, ReadRight

\* The block at the tip can be disconnected.
LEMMA TipDisconnects ==
    ASSUME MarkersStay, ChainInv, mode = "run", ~lost, chainTip /= Genesis
    PROVE  LET r == DisconnectBlock(Opening(cacheCoins), chainTip, undo[chainTip])
           IN  /\ r.ok /\ Work(r) /\ Stands(Seen(r), UtxoOf[Parent[chainTip]])
               /\ Right(undo) /\ Parent[chainTip] \in Known(undo) /\ best \in Known(undo)
  <1> DEFINE o == Opening(cacheCoins)
             u == undo[chainTip]
  <1>1. MemoryRight /\ DbOK(db) /\ TipOK(cacheCoins, db) /\ UndoOK(undo) /\ chainTip \in Blocks
    BY DEF ChainInv, Inv
  <1>2. Work(o) /\ o.ok /\ Seen(o) = Below(cacheCoins, db)
    BY <1>1, OpeningIs
  <1>3. Stands(Seen(o), UtxoOf[chainTip])
    BY <1>1, <1>2 DEF MemoryRight
  <1>4. Right(undo) /\ chainTip \in Known(undo) /\ best \in Known(undo)
    BY <1>1 DEF MemoryRight
  <1>5. u /= None /\ Connects(chainTip) /\ RightUndo(chainTip, u) /\ Parent[chainTip] \in Known(undo)
    BY <1>1, <1>4 DEF Known, Right
  <1>6. Fits(chainTip, u)
    BY <1>1, <1>5 DEF UndoOK
  <1> HIDE DEF o, u
  <1>7. Work(DisconnectBlock(o, chainTip, u))
    BY <1>1, <1>2, <1>6, DisconnectBlockIs
  <1>8. DisconnectBlock(o, chainTip, u).ok /\ Stands(Seen(DisconnectBlock(o, chainTip, u)), UtxoOf[Parent[chainTip]])
    BY <1>1, <1>2, <1>3, <1>5, <1>6, DisconnectBlockSays
  <1> QED BY <1>4, <1>5, <1>7, <1>8 DEF o, u

LEMMA DisconnectTipRight ==
    ASSUME MarkersStay, ChainInv, Inv', DisconnectTip
    PROVE  ChainInv'
  <1> DEFINE r == DisconnectBlock(Opening(cacheCoins), chainTip, undo[chainTip])
             cache == BatchWritten(r.tip, r.view)
             p == Parent[chainTip]
  <1>1. BatchWriteAsserts(r.tip, r.view) /\ TipOK(cache, db) /\ Work(r)
    <2>1. Inv
      BY DEF ChainInv
    <2>2. Work(Opening(cacheCoins)) /\ chainTip \in Blocks /\ (undo[chainTip] = None \/ Fits(chainTip, undo[chainTip]))
      BY <2>1, OpeningIs DEF Inv, UndoOK
    <2>3. Work(r)
      BY <2>1, <2>2, DisconnectBlockIs DEF Inv
    <2> QED BY <2>1, <2>3, DisconnectedIs
  <1>2. Up /\ chainTip /= Genesis /\ p \in Blocks
    BY BlocksAre DEF DisconnectTip, ChainInv, Inv
  <1>3. \/ ~r.ok /\ cacheCoins' = r.tip /\ UNCHANGED <<hashBlock, chainTip, undo, disk, mode>>
        \/ hashBlock' = p /\ FlushState(cache, p, undo, p) /\ UNCHANGED undo
    BY <1>1 DEF DisconnectTip
  <1>4. mode = "run" /\ ~lost =>
           /\ Stands(Below(cache, db), UtxoOf[p])
           /\ Right(undo) /\ p \in Known(undo) /\ best \in Known(undo)
    BY <1>1, <1>2, TipDisconnects, BatchSays
  <1>5. Work(r) => Below(r.tip, db) = Below(cacheCoins, db)
    BY DEF Work
  <1> HIDE DEF r, cache, p
  <1>6. CASE ~r.ok /\ cacheCoins' = r.tip /\ UNCHANGED <<hashBlock, chainTip, undo, disk, mode>>
    BY <1>1, <1>2, <1>5, <1>6, ReadRight
  <1>7. CASE hashBlock' = p /\ FlushState(cache, p, undo, p) /\ UNCHANGED undo
    BY <1>1, <1>2, <1>4, <1>7, FlushRight
  <1> QED BY <1>3, <1>6, <1>7

LEMMA FlushStateToDiskRight ==
    ASSUME ChainInv, Inv', FlushStateToDisk
    PROVE  ChainInv'
  <1>1. /\ Up /\ FlushState(cacheCoins, hashBlock, undo, chainTip) /\ UNCHANGED <<hashBlock, undo>>
    BY DEF FlushStateToDisk
  <1>2. TipOK(cacheCoins, db) /\ hashBlock \in Blocks /\ chainTip \in Blocks
    BY DEF ChainInv, Inv
  <1>3. mode = "run" /\ ~lost =>
           /\ hashBlock = chainTip /\ Stands(Below(cacheCoins, db), UtxoOf[hashBlock])
           /\ Right(undo) /\ hashBlock \in Known(undo) /\ best \in Known(undo)
    BY DEF ChainInv, MemoryRight
  <1> QED BY <1>1, <1>2, <1>3, FlushRight

LEMMA GetCoinsRight ==
    ASSUME ChainInv, Inv', NEW t \in Txs, GetCoins(t)
    PROVE  ChainInv'
  <1>1. DbOK(db) /\ TipOK(cacheCoins, db)
    BY DEF ChainInv, Inv
  <1>2. Below(Fetched(cacheCoins, t, DbCoins(t)), db) = Below(cacheCoins, db)
    BY <1>1, TipFetched
  <1>3. Up /\ cacheCoins' = Fetched(cacheCoins, t, DbCoins(t)) /\ UNCHANGED <<hashBlock, chainTip, undo, disk, mode>>
    BY DEF GetCoins
  <1> QED BY <1>2, <1>3, ReadRight

\* What a process leaves on disk when it ends.
LEMMA StopRight ==
    ASSUME ChainInv, Inv', Shutdown \/ Crash \/ CrashInFlush
    PROVE  ChainInv'
  <1>1. mode \in {"run", "aborting"} /\ lost \in BOOLEAN /\ DbOK(db) /\ TipOK(cacheCoins, db)
    BY DEF Shutdown, Crash, CrashInFlush, Up, ChainInv, Inv
  <1>2. mode = "run" /\ ~lost => MemoryRight
    BY DEF ChainInv
  <1>3. cacheCoins' = NoCoins /\ mode' = "down"
    BY DEF Shutdown, Crash, CrashInFlush, Written
  <1>4. ASSUME ~lost' PROVE DiskRight'
    <2>1. CASE Shutdown
      <3>1. /\ undoOnDisk' = undo /\ db' = DbWritten(cacheCoins) /\ best' = hashBlock
            /\ lost' = (lost \/ mode = "aborting")
        BY <2>1 DEF Shutdown, Written
      <3>2. MemoryRight
        BY <1>1, <1>2, <1>4, <3>1
      <3>3. Stands(Below(NoCoins, DbWritten(cacheCoins)), UtxoOf[hashBlock])
        BY <1>1, <3>2, WrittenSays DEF MemoryRight
      <3> QED BY <3>1, <3>2, <3>3 DEF DiskRight, MemoryRight
    <2>2. CASE Crash
      <3>1. UNCHANGED <<db, best, undoOnDisk, lost>>
        BY <2>2 DEF Crash, disk
      <3> QED BY <1>4, <3>1 DEF DiskRight, ChainInv
    <2>3. CASE CrashInFlush
      <3>1. /\ undoOnDisk' = undo /\ lost' = (lost \/ (mode = "aborting" /\ undo /= undoOnDisk))
            /\ UNCHANGED <<db, best>>
        BY <2>3 DEF CrashInFlush, IndexWritten
      <3>2. ~lost /\ DiskRight /\ (mode = "run" \/ undo = undoOnDisk)
        BY <1>1, <1>4, <3>1 DEF ChainInv
      <3> QED BY <1>2, <3>1, <3>2 DEF DiskRight, MemoryRight
    <2> QED BY <2>1, <2>2, <2>3
  <1> QED BY <1>3, <1>4 DEF ChainInv

\* It starts again, because VerifyDB finds nothing wrong.
LEMMA StartRight ==
    ASSUME MarkersStay, ChainInv, Inv', Start
    PROVE  ChainInv'
  <1>1. /\ mode = "down" /\ hashBlock' = best /\ chainTip' = best /\ undo' = undoOnDisk
        /\ mode' = (IF VerifyDB THEN "run" ELSE "corrupt")
        /\ UNCHANGED <<cacheCoins, db, best, undoOnDisk, lost>>
    BY DEF Start, disk
  <1>2. cacheCoins = NoCoins
    BY <1>1 DEF ChainInv
  <1>3. ASSUME ~lost PROVE VerifyDB
    <2>1. DiskRight /\ Inv
      BY <1>3 DEF ChainInv
    <2>2. Verifiable
      BY <1>2, <2>1 DEF Verifiable, DiskRight, Inv
    <2> QED BY <2>2, Verified
  <1>4. DiskRight' <=> DiskRight
    BY <1>1 DEF DiskRight
  <1>5. ASSUME DiskRight PROVE MemoryRight'
    BY <1>1, <1>2, <1>5 DEF DiskRight, MemoryRight
  <1> HIDE DEF VerifyDB
  <1> QED BY <1>1, <1>2, <1>3, <1>4, <1>5 DEF ChainInv

LEMMA NextChainInv ==
    ASSUME MarkersStay, ChainInv, [Next]_vars
    PROVE  ChainInv'
  <1>1. Inv'
    BY NextInv DEF ChainInv
  <1>2. CASE Next
    BY <1>1, <1>2, ConnectTipRight, TriedRight, DisconnectTipRight, FlushStateToDiskRight, GetCoinsRight,
       StopRight, StartRight DEF Next
  <1>3. CASE UNCHANGED vars
    <2>1. UNCHANGED <<cacheCoins, hashBlock, chainTip, undo, db, best, undoOnDisk, lost, mode>>
      BY <1>3 DEF vars, memory, disk
    <2>2. (DiskRight' <=> DiskRight) /\ (MemoryRight' <=> MemoryRight)
      BY <2>1 DEF DiskRight, MemoryRight
    <2> QED BY <1>1, <2>1, <2>2 DEF ChainInv
  <1> QED BY <1>2, <1>3

\* What is seen through pcoinsTip, and in the database.
LEMMA LayersSay ==
    ASSUME ChainInv
    PROVE  /\ ~lost => Utxo(OnDisk) = UtxoOf[best]
           /\ ~lost /\ mode = "run" => hashBlock = chainTip /\ Utxo(Visible) = UtxoOf[hashBlock]
  <1>1. \A t \in Txs : DbCoins(t) = Held(db, t)
    BY HeldIs DEF ChainInv, Inv
  <1>2. OnDisk = Below(NoCoins, db)
    BY <1>1 DEF OnDisk, Below, NoCoins
  <1>3. Visible = Below(cacheCoins, db)
    BY <1>1 DEF Visible, Below
  <1>4. ~lost => Stands(OnDisk, UtxoOf[best])
    BY <1>2 DEF ChainInv, DiskRight
  <1>5. ~lost /\ mode = "run" => hashBlock = chainTip /\ Stands(Visible, UtxoOf[hashBlock])
    BY <1>3 DEF ChainInv, MemoryRight
  <1> QED BY <1>4, <1>5, UtxoIs

-----------------------------------------------------------------------------
(* What follows, as long as the empty first output of a coinstake, whose    *)
(* flag DisconnectBlock does not put back, is never spent.                  *)

\* The database and pcoinsTip stand for the chain up to their best blocks, and the undo
\* data that the index knows restores what its block spent, in every state in which
\* nothing was written over a failed batch.
THEOREM ChainInvariance ==
    ASSUME MarkersStay
    PROVE  Spec => []ChainInv
  <1>1. Init => ChainInv
    BY InitChainInv
  <1>2. ChainInv /\ [Next]_vars => ChainInv'
    BY NextChainInv
  <1> QED BY <1>1, <1>2, PTL DEF Spec

\* What GetCoins finds through pcoinsTip is what the active chain created and did not
\* spend, with its height and kind, after any ConnectTip, DisconnectTip, flush and
\* restart, and whatever was read in between.
THEOREM TipIsRepresented ==
    ASSUME MarkersStay
    PROVE  Spec => []TipRepresentsBest
  <1>1. ChainInv => TipRepresentsBest
    BY LayersSay DEF TipRepresentsBest
  <1> QED BY <1>1, ChainInvariance, PTL

\* Wherever FlushStateToDisk is interrupted, the coins of the database are those of the
\* chain up to its hashBestChain.
THEOREM DiskIsRepresented ==
    ASSUME MarkersStay
    PROVE  Spec => []DiskRepresentsBest
  <1>1. ChainInv => DiskRepresentsBest
    BY LayersSay DEF DiskRepresentsBest
  <1> QED BY <1>1, ChainInvariance, PTL

\* DisconnectTip never finds undo data missing or coins that do not fit it.
THEOREM TipIsUndone ==
    ASSUME MarkersStay
    PROVE  Spec => []TipCanBeUndone
  <1>1. ChainInv => TipCanBeUndone
    BY TipDisconnects DEF TipCanBeUndone
  <1> QED BY <1>1, ChainInvariance, PTL

\* The assertion of BatchWrite holds, and the VerifyDB of the next start succeeds at
\* every point at which the node can stop.
THEOREM StartsAgain ==
    ASSUME MarkersStay
    PROVE  Spec => []NeverStopped
  <1>1. ChainInv => NeverStopped
    BY DEF ChainInv, Inv, NeverStopped
  <1> QED BY <1>1, ChainInvariance, PTL

\* Whether ConnectBlock accepts a block on top of the tip is decided by the chain below it.
AcceptsByChain ==
    mode = "run" /\ ~lost =>
        \A b \in Blocks : Extends(b) => (ConnectBlock(Opening(cacheCoins), b).ok <=> Connects(b))

\* Two nodes with the same chain accept the same blocks, whatever their caches hold, have
\* written or have read: those that overwrite nothing unspent (BIP30) and whose inputs are
\* there and mature when their turn comes.
THEOREM BlocksAreAcceptedByChain ==
    ASSUME MarkersStay
    PROVE  Spec => []AcceptsByChain
  <1>1. ASSUME ChainInv PROVE AcceptsByChain
    <2> SUFFICES ASSUME mode = "run", ~lost, NEW b \in Blocks, Extends(b)
                 PROVE  ConnectBlock(Opening(cacheCoins), b).ok <=> Connects(b)
      BY DEF AcceptsByChain
    <2> DEFINE o == Opening(cacheCoins)
    <2>1. MemoryRight /\ DbOK(db) /\ TipOK(cacheCoins, db)
      BY <1>1 DEF ChainInv, Inv
    <2>2. Work(o) /\ o.ok /\ Seen(o) = Below(cacheCoins, db)
      BY <2>1, OpeningIs
    <2>3. Stands(Seen(o), UtxoOf[Parent[b]]) /\ b \in Blocks \ {Genesis}
      BY <2>1, <2>2 DEF MemoryRight, Extends
    <2> HIDE DEF o
    <2>4. ConnectBlock(o, b).ok <=> Connects(b)
      BY <2>1, <2>2, <2>3, ConnectBlockSays
    <2> QED BY <2>4 DEF o
  <1>2. ChainInv => AcceptsByChain
    BY <1>1
  <1> QED BY <1>2, ChainInvariance, PTL
=============================================================================
