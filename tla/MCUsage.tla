------------------------------ MODULE MCUsage -------------------------------
(* A provider with a monthly and a daily limit that leaves the pool when   *)
(* used up, and one without quotas, whose calls cost nothing, that         *)
(* redirects reach.                                                        *)
EXTENDS Usage, TLC

CONSTANTS brave, zyte, r1, r2, none

MCProviders == {brave, zyte}
MCRequests == {r1, r2}
MCMonthly == brave :> 2 @@ zyte :> none
MCDaily == brave :> 1 @@ zyte :> none
MCAlertAt == [p \in MCProviders |-> 50]
MCConfigured == {brave}
MCRemoves == {brave}
MCRedirects == {zyte}
MCCosts == {0, 1}
MCRemaining == {-1, 2}
MCChains == {<<zyte, brave, brave>>, <<brave>>}
MCMaxUse == brave :> 5 @@ zyte :> 0
MCOther == {Event("circuit_open", brave)}
MCSymmetry == Permutations(MCRequests)
MCSubscribed == {"quota_alert", "quota_exhausted"}

=============================================================================
