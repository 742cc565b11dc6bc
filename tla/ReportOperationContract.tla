---------------------- MODULE ReportOperationContract ----------------------
(***************************************************************************)
(* What the report-operation subsystem promises its users                  *)
(* (docs/testing/report-operations-contract.md), with no jobs, leases,     *)
(* reservations or requests in it:                                         *)
(*                                                                         *)
(*   - a demonstration waits for the human who asked for it;               *)
(*   - an effect starts only for a requester who is trusted at that        *)
(*     moment, and excludes every decision until it commits or aborts;     *)
(*   - the result is the report as it was at the commit, stored once;      *)
(*   - committed, cancelled and declined operations never change again.    *)
(***************************************************************************)
EXTENDS Naturals

CONSTANTS Op, User, Nobody

VARIABLES
  phase,    \* where each operation stands
  owner,    \* who asked for it
  demo,     \* whether it is an approval demonstration
  consent,  \* whether its owner approved exactly what was asked
  result,   \* the stored report version, or Nobody
  trusted,  \* users holding the authority now
  report    \* version of the live report

contractVars == <<phase, owner, demo, consent, result, trusted, report>>

Phase == {"absent", "awaiting_approval", "queued", "delivering",
          "committed", "cancelled", "declined"}

ContractInit ==
  /\ phase = [o \in Op |-> "absent"]
  /\ owner = [o \in Op |-> Nobody]
  /\ demo = [o \in Op |-> FALSE]
  /\ consent = [o \in Op |-> FALSE]
  /\ result = [o \in Op |-> Nobody]
  /\ trusted = User
  /\ report = 0

Step(o, from, to) ==
  /\ phase[o] \in from
  /\ phase' = [phase EXCEPT ![o] = to]

Submit(o, u, isDemo) ==
  /\ Step(o, {"absent"}, IF isDemo THEN "awaiting_approval" ELSE "queued")
  /\ owner' = [owner EXCEPT ![o] = u]
  /\ demo' = [demo EXCEPT ![o] = isDemo]
  /\ UNCHANGED <<consent, result, trusted, report>>

Accept(o) ==
  /\ owner[o] \in trusted
  /\ Step(o, {"awaiting_approval"}, "queued")
  /\ consent' = [consent EXCEPT ![o] = TRUE]
  /\ UNCHANGED <<owner, demo, result, trusted, report>>

Refuse(o) ==
  /\ owner[o] \in trusted
  /\ Step(o, {"awaiting_approval"}, "declined")
  /\ UNCHANGED <<owner, demo, consent, result, trusted, report>>

Withdraw(o) ==
  /\ owner[o] \in trusted
  /\ Step(o, {"awaiting_approval", "queued"}, "cancelled")
  /\ UNCHANGED <<owner, demo, consent, result, trusted, report>>

Start(o) ==
  /\ owner[o] \in trusted
  /\ demo[o] => consent[o]
  /\ Step(o, {"queued"}, "delivering")
  /\ UNCHANGED <<owner, demo, consent, result, trusted, report>>

Abort(o) ==
  /\ Step(o, {"delivering"}, "queued")
  /\ UNCHANGED <<owner, demo, consent, result, trusted, report>>

Deliver(o) ==
  /\ Step(o, {"delivering"}, "committed")
  /\ result' = [result EXCEPT ![o] = report]
  /\ UNCHANGED <<owner, demo, consent, trusted, report>>

TrustChanges ==
  /\ trusted' \in SUBSET User
  /\ UNCHANGED <<phase, owner, demo, consent, result, report>>

ReportMoves ==
  /\ report' = report + 1
  /\ UNCHANGED <<phase, owner, demo, consent, result, trusted>>

ContractNext ==
  \/ \E o \in Op, u \in User, isDemo \in BOOLEAN : Submit(o, u, isDemo)
  \/ \E o \in Op :
       \/ Accept(o)
       \/ Refuse(o)
       \/ Withdraw(o)
       \/ Start(o)
       \/ Abort(o)
       \/ Deliver(o)
  \/ TrustChanges
  \/ ReportMoves

ContractSpec == ContractInit /\ [][ContractNext]_contractVars
=============================================================================
