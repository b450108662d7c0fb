---------------------------- MODULE MCKeysClaims ----------------------------
(* A fresh deployment and a browser that has never seen it.                *)
EXTENDS KeysClaims

CONSTANTS k1, b1

MCIds == {k1}
MCConfigs == {[k \in {} |-> "none"]}
MCBrowsers == {b1}

=============================================================================
