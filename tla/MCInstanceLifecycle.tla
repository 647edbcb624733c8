------------------------ MODULE MCInstanceLifecycle ------------------------
(* Small instances of InstanceLifecycle for TLC. *)
EXTENDS InstanceLifecycle, TLC

CONSTANTS u1, h1, h2, s1, s2, r1

Live  == <<u1, "live", "grid">>
Other == <<u1, "live", "rsi">>      \* another bot of the same user and mode

OneBot  == {Live}
TwoLive == {Live, Other}

EveryOp  == AllOps
BatchOps == {"startUser", "stopUser", "clearAll", "credential"}

Goroutines == Permutations(Handlers) \cup Permutations(Starters)
=============================================================================
