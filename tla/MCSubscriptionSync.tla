------------------------- MODULE MCSubscriptionSync -------------------------
(* Small instances of SubscriptionSync.                                    *)
EXTENDS SubscriptionSync, TLC

CONSTANTS acme, zeta, s1, s2, cusA, cusZ

(* Two tenants with a subscription each, or one tenant with two.           *)
OneEach == s1 :> acme @@ s2 :> zeta
OneEachBilled == s1 :> cusA @@ s2 :> cusZ
BothAcme == s1 :> acme @@ s2 :> acme
BothBilled == s1 :> cusA @@ s2 :> cusA
=============================================================================
