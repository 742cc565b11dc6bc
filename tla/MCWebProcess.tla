---------------------------- MODULE MCWebProcess ----------------------------
(* A small instance of the web application: two clients who ask for one       *)
(* address, with room for two buckets; two requests, four promises and two    *)
(* failures; a page of a user of two tenants with three requests under way;   *)
(* two containers and two checks, on empty, foreign and complete databases;   *)
(* two runs of the gate that share a tag, and one on a host where names are   *)
(* taken and things go wrong.                                                 *)
EXTENDS WebApplication, TLC

CONSTANTS w1, w2, k1, k2, r1, r2

On(up, db, most) ==
  [up |-> up, schema |-> db, persons |-> {}, open |-> FALSE, legacy |-> FALSE,
   troubles |-> most]

MCSetups ==
  {On({}, "empty", 0), On({w1}, "foreign", 0),
   On({w1, w2}, "empty", 2), On({k1, k2}, "empty", 2), On({w1, k1}, "complete", 1),
   [On({w1, w2}, "complete", 0) EXCEPT !.open = TRUE],
   [On({w1}, "complete", 1) EXCEPT !.open = TRUE, !.persons = {"visitor"}],
   [On({w1}, "complete", 0) EXCEPT !.persons = {"scoped"}],
   [On({k1, k2}, "complete", 0) EXCEPT !.open = TRUE, !.legacy = TRUE]}

Gates(up, most) ==
  [up |-> up, tag |-> FALSE, taken |-> {}, drifts |-> FALSE, mishaps |-> most]

MCGateSetups ==
  {Gates({}, 0), Gates({r1}, 3),
   [Gates({r1, r2}, 0) EXCEPT !.tag = TRUE],
   [Gates({r1}, 1) EXCEPT !.drifts = TRUE],
   [Gates({r1}, 0) EXCEPT !.taken = {<<r1, "oidc">>, <<r1, "network">>}],
   [Gates({r1}, 1) EXCEPT !.taken = {<<r1, "worker">>}]}
=============================================================================
