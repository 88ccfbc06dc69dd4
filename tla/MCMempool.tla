------------------------------ MODULE MCMempool ------------------------------
(* A chain a1 - a2 - a3 - a4 with branches b3 and n3 on a2; n3 is empty, so   *)
(* that q can be pooled before p is in a block.  p and r spend the same       *)
(* output of the coinbase c1; q depends on p and on the coinbase c2, which is *)
(* immature when the third block is gone; s depends on q and p.  x has a      *)
(* bad signature.  b3 contains u, which pays too little to be relayed but is  *)
(* taken back, and w, which depends on it and is refused even then.           *)
EXTENDS Mempool

MCTxs == {"c1", "c2", "c3", "c4", "d3", "e3", "p", "q", "r", "s", "u", "w", "x"}

MCByHash == <<"s", "c1", "x", "q", "w", "c2", "r", "c3", "c4", "d3", "e3", "p", "u">>

MCVin == [t \in MCTxs |->
    CASE t = "p" -> << <<"c1", 1>> >>
      [] t = "q" -> << <<"p", 1>>, <<"c2", 1>> >>
      [] t = "r" -> << <<"c1", 1>>, <<"c1", 2>> >>
      [] t = "s" -> << <<"q", 1>>, <<"p", 2>> >>
      [] t = "u" -> << <<"r", 1>> >>
      [] t = "w" -> << <<"u", 1>> >>
      [] t = "x" -> << <<"p", 2>> >>
      [] OTHER   -> <<>>]

MCVout == [t \in MCTxs |-> IF t \in {"c1", "p"} THEN <<"value", "value">> ELSE <<"value">>]

MCParent == [b \in {"a1", "a2", "a3", "a4", "b3", "n3"} |->
    CASE b = "a1" -> "g" [] b = "a2" -> "a1" [] b \in {"a3", "b3", "n3"} -> "a2" [] b = "a4" -> "a3"]

MCVtx == [b \in {"g"} \cup DOMAIN MCParent |->
    CASE b = "g"  -> <<>>
      [] b = "a1" -> <<"c1">>
      [] b = "a2" -> <<"c2">>
      [] b = "a3" -> <<"c3", "p">>
      [] b = "a4" -> <<"c4", "q", "s">>
      [] b = "b3" -> <<"d3", "r", "u", "w">>
      [] b = "n3" -> <<"e3">>]

MCSize == [t \in MCTxs |-> CASE t = "p" -> 1 [] t = "q" -> 2 [] t = "r" -> 4 [] OTHER -> 8]
=============================================================================
