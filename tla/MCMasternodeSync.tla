-------------------------- MODULE MCMasternodeSync --------------------------
(* A small instance of MasternodeSync: two peers.  p1 comes and goes, p2 is  *)
(* so old that it is asked for sporks only.                                  *)
EXTENDS MasternodeSync

CONSTANTS p1, p2

MCPeers == {p1, p2}
MCNew   == {p1}
=============================================================================
