------------------------------- MODULE MCKeys -------------------------------
(* Two keys of the store, one of the file, the bootstrap key, a browser    *)
(* with a cookie of an earlier deployment.                                 *)
EXTENDS Keys, TLC

CONSTANTS k1, k2, legacy, b1

MCIds == {k1, k2}
MCConfigKeys == {legacy}
MCConfigs == {[k \in MCConfigKeys |-> r] : r \in {"none", "admin"}}
MCBrowsers == {b1}
MCSymmetry == Permutations(MCIds)

=============================================================================
