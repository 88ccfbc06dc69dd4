--------------------------- MODULE MCMasternodeList ---------------------------
(***************************************************************************)
(* Two collaterals.  The first has a broadcast of the older protocol for the *)
(* key of another node, and one for the key of this node, signed later; the  *)
(* second has one for the key of another node, which comes after some time.  *)
(***************************************************************************)
EXTENDS MasternodeList, TLC

CONSTANTS v1, v2, b1, b2, b3, ownKey, otherKey

VinOf == b1 :> v1 @@ b2 :> v1 @@ b3 :> v2
KeyOf == b1 :> otherKey @@ b2 :> ownKey @@ b3 :> otherKey
TimeOf == b1 :> 0 @@ b2 :> 3 @@ b3 :> 4
=============================================================================
