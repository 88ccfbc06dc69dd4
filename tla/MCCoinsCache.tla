---------------------------- MODULE MCCoinsCache ----------------------------
(* A small tree of blocks for CoinsCache.  Two branches on a1: a2 - a3 - a4  *)
(* and b2 - b3.  p has eleven outputs, so that the mask on disk has two      *)
(* bytes, is in both branches at different heights, and is spent in the      *)
(* block it comes in.  a4 repeats the coinbase of a1, which a3 spends; x2    *)
(* repeats it while it is unspent, y3 spends what is not there.  e3 connects  *)
(* on a2 like a3, and spends a coin that the first block made: after a flush  *)
(* that failed the database has other coins for it than pcoinsTip had.        *)
EXTENDS CoinsCache

MCTxs == {"c1", "c2", "c3", "d2", "p", "q", "s", "w", "z"}

MCVin == [t \in MCTxs |->
    CASE t = "p" -> << <<"c1", 1>> >>
      [] t = "q" -> << <<"p", 1>>, <<"c1", 2>>, <<"p", 11>> >>
      [] t = "s" -> << <<"p", 2>>, <<"c1", 3>> >>
      [] t = "w" -> << <<"c1", 3>> >>
      [] t = "z" -> << <<"p", 3>>, <<"s", 2>> >>
      [] OTHER   -> <<>>]

MCVout == [t \in MCTxs |->
    CASE t = "c1" -> <<"value", "value", "value">>
      [] t = "p"  -> <<"value", "value", "value", "unspendable", "unspendable", "unspendable",
                       "unspendable", "unspendable", "unspendable", "unspendable", "value">>
      [] t = "s"  -> <<"empty", "value">>
      [] t = "z"  -> <<"unspendable">>
      [] OTHER    -> <<"value">>]

MCParent == [b \in {"a1", "a2", "a3", "a4", "b2", "b3", "e3", "x2", "y3"} |->
    CASE b = "a1" -> "g" [] b \in {"a2", "b2", "x2"} -> "a1" [] b \in {"a3", "e3", "y3"} -> "a2"
      [] b = "a4" -> "a3" [] b = "b3" -> "b2"]

MCVtx == [b \in {"g"} \cup DOMAIN MCParent |->
    CASE b = "g"  -> <<>>
      [] b = "a1" -> <<"c1">>
      [] b = "a2" -> <<"c2", "p", "q">>
      [] b = "a3" -> <<"c3", "s">>
      [] b = "a4" -> <<"c1", "z">>
      [] b = "b2" -> <<"d2">>
      [] b = "b3" -> <<"c2", "p">>
      [] b = "e3" -> <<"d2", "w">>
      [] b = "x2" -> <<"c1", "p">>
      [] b = "y3" -> <<"c3", "z">>]

\* What the theorems about chains assume is true here.
ASSUME MCMarkersStay == MarkersStay
=============================================================================
