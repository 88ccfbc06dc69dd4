-------------------------------- MODULE Coins --------------------------------
(***************************************************************************)
(* CCoins (src/src/coins.h): the unspent outputs of one transaction, what  *)
(* spending one of them leaves behind, and how both are written to disk.   *)
(*                                                                         *)
(* An output is "value", the "empty" marker a coinstake starts with,       *)
(* "unspendable" (OP_RETURN) or "null", a spent one.  Amounts, scripts and *)
(* the version of a transaction follow from its identity and are left out. *)
(* Positions count from 1.                                                 *)
(***************************************************************************)
EXTENDS Integers, Sequences, FiniteSets, SequencesExt

\* Clear
Cleared == [fCoinBase |-> FALSE, fCoinStake |-> FALSE, vout |-> <<>>, nHeight |-> 0]

Unspent(vout) == {i \in DOMAIN vout : vout[i] /= "null"}

IsPruned(coins) == Unspent(coins.vout) = {}

IsAvailable(coins, n) == n \in Unspent(coins.vout)

\* Cleanup: spent outputs at the end are dropped.
Trimmed(vout) == SubSeq(vout, 1, IF Unspent(vout) = {} THEN 0 ELSE Max(Unspent(vout)))

Cleanup(coins) == [coins EXCEPT !.vout = Trimmed(@)]

ClearUnspendable(coins) ==
    [coins EXCEPT !.vout = Trimmed([i \in DOMAIN @ |-> IF @[i] = "unspendable" THEN "null" ELSE @[i]])]

\* operator==
Same(a, b) == (IsPruned(a) /\ IsPruned(b)) \/ a = b

-----------------------------------------------------------------------------
Spent(coins, n) == [coins EXCEPT !.vout = Trimmed([@ EXCEPT ![n] = "null"])]

\* Mutant: the metadata is kept for no output.
SpendUndoBare(coins, n) ==
    [txout |-> coins.vout[n], fCoinBase |-> FALSE, fCoinStake |-> FALSE, nHeight |-> 0]

\* CCoins::Spend: the CTxInUndo of output n has the metadata of the transaction only
\* if this was its last output.
SpendUndo(coins, n) ==
    LET last == Spent(coins, n).vout = <<>>
    IN  [txout      |-> coins.vout[n],
         fCoinBase  |-> last /\ coins.fCoinBase,
         fCoinStake |-> last /\ coins.fCoinStake,
         nHeight    |-> IF last THEN coins.nHeight ELSE 0]

\* Mutant: the last output is taken for any output.
RestoredAlways(coins, n, undo) ==
    LET base == [Cleared EXCEPT !.fCoinBase = undo.fCoinBase, !.nHeight = undo.nHeight]
        size == IF Len(base.vout) < n THEN n ELSE Len(base.vout)
    IN  [base EXCEPT !.vout = [i \in 1 .. size |-> IF i = n THEN undo.txout
                                                 ELSE IF i \in DOMAIN base.vout THEN base.vout[i]
                                                 ELSE "null"]]

\* DisconnectBlock puts an output back.  The coinstake flag is not put back.
Restored(coins, n, undo) ==
    LET base == IF undo.nHeight /= 0
                THEN [Cleared EXCEPT !.fCoinBase = undo.fCoinBase, !.nHeight = undo.nHeight]
                ELSE coins
        size == IF Len(base.vout) < n THEN n ELSE Len(base.vout)
    IN  [base EXCEPT !.vout = [i \in 1 .. size |-> IF i = n THEN undo.txout
                                                 ELSE IF i \in DOMAIN base.vout THEN base.vout[i]
                                                 ELSE "null"]]

\* What DisconnectBlock wants of an entry before it puts an output back.
RestoresCleanly(coins, n, undo) ==
    /\ (undo.nHeight /= 0) = IsPruned(coins)
    /\ ~IsAvailable(IF undo.nHeight /= 0 THEN Cleared ELSE coins, n)

-----------------------------------------------------------------------------
(* The format on disk: a code with the flags and the number of bytes of the *)
(* mask that are not zero, the mask without its trailing zero bytes, the    *)
(* unspent outputs, the height.  The first two outputs are in the code.     *)

Bit(f) == IF f THEN 1 ELSE 0

\* Byte b of the mask, as the set of its bits.
MaskByte(vout, b) == {i \in 0 .. 7 : 3 + 8 * b + i \in Unspent(vout)}

UsedBytes(vout) == {b \in 0 .. Len(vout) \div 8 : MaskByte(vout, b) /= {}}

\* CalcMaskSize
CalcMaskSize(vout) ==
    [nBytes        |-> IF UsedBytes(vout) = {} THEN 0 ELSE Max(UsedBytes(vout)) + 1,
     nNonzeroBytes |-> Cardinality(UsedBytes(vout))]

\* The n-th of some numbers.
Rank(S, i) == Cardinality({j \in S : j <= i})
Nth(S, n)  == CHOOSE i \in S : Rank(S, i) = n

Serialize(coins) ==
    LET first  == IsAvailable(coins, 1)
        second == IsAvailable(coins, 2)
        size   == CalcMaskSize(coins.vout)
    IN  [nCode   |-> 16 * (size.nNonzeroBytes - Bit(~(first \/ second)))
                     + Bit(coins.fCoinBase) + 2 * Bit(coins.fCoinStake)
                     + 4 * Bit(first) + 8 * Bit(second),
         mask    |-> [b \in 1 .. size.nBytes |-> MaskByte(coins.vout, b - 1)],
         txouts  |-> [k \in 1 .. Cardinality(Unspent(coins.vout)) |-> coins.vout[Nth(Unspent(coins.vout), k)]],
         nHeight |-> coins.nHeight]

Flag(nCode, weight) == (nCode \div weight) % 2 = 1

\* The mask is read until as many bytes that are not zero were seen as the code says.
MaskLength(stored) ==
    LET wanted    == stored.nCode \div 16 + Bit(~Flag(stored.nCode, 4) /\ ~Flag(stored.nCode, 8))
        nonzero(k) == Cardinality({b \in 0 .. k - 1 : stored.mask[b + 1] /= {}})
    IN  Min({k \in 0 .. Len(stored.mask) : nonzero(k) >= wanted})

\* Unserialize
Unserialize(stored) ==
    LET available == {i \in {1} : Flag(stored.nCode, 4)} \cup {i \in {2} : Flag(stored.nCode, 8)}
                     \cup UNION {{3 + 8 * (b - 1) + i : i \in stored.mask[b]} : b \in 1 .. MaskLength(stored)}
    IN  Cleanup([fCoinBase  |-> Flag(stored.nCode, 1),
                 fCoinStake |-> Flag(stored.nCode, 2),
                 vout       |-> [i \in 1 .. 2 + 8 * MaskLength(stored) |->
                                   IF i \in available THEN stored.txouts[Rank(available, i)] ELSE "null"],
                 nHeight    |-> stored.nHeight])
=============================================================================
