----------------------------- MODULE MCLiveFeed -----------------------------
(* Two modes, three runs of the effect, so at most three chains.  *)
EXTENDS LiveFeed, TLC
CONSTANTS k1, k2, k3
MCConns == {k1, k2, k3}
MCModes == {"live", "paper"}
Symmetric == Permutations(MCConns)
=============================================================================
