---------------------------- MODULE MCAuthority -----------------------------
(* Small instances of Authority: a browser of an ordinary deployment and of *)
(* a demo, and a device whose identity providers are set up in two ways.    *)
EXTENDS Authority, TLC

CONSTANTS u1, t1, t2, web, other, home

Plain(fallback, trusted, inner) ==
  [fallback |-> fallback, trusted |-> trusted, inner |-> inner, mobile |-> FALSE,
   list |-> <<web>>, default |-> None, allowed |-> [p \in Provider \cup {None} |-> {}]]

Mobile(fallback, list, default) ==
  [fallback |-> fallback, trusted |-> FALSE, inner |-> TRUE, mobile |-> TRUE,
   list |-> list, default |-> default,
   allowed |-> [p \in Provider \cup {None} |-> IF p = other THEN {home} ELSE {}]]

MCDeployments ==
  {Plain(FALSE, TRUE, FALSE), Plain(TRUE, FALSE, TRUE),
   Mobile(TRUE, <<other, web>>, web),
   Mobile(FALSE, <<other, other>>, other)}

MCWays == {<<None, None>>, <<t2, t1>>}
MCAsked == {"tenant.settings.manage"}
MCMemberships ==
  {[u \in User |-> [t \in Tenant |-> IF t = t1 THEN "owner" ELSE IF u = u1 THEN "viewer" ELSE None]]}

Of(email, verified) == [email |-> email, verified |-> verified]
MCSaid ==
  {[profile |-> Of(u1, "yes"), claims |-> None], [profile |-> Of(u1, "no"), claims |-> Of(u1, "yes")],
   [profile |-> Of(u1, None), claims |-> Of(u1, "yes")], [profile |-> None, claims |-> None],
   [profile |-> Of(u1, None), claims |-> Of(Demo, "yes")]}

Interchangeable == Permutations(Request)
=============================================================================
