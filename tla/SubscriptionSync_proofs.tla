----------------------- MODULE SubscriptionSync_proofs -----------------------
(***************************************************************************)
(* Theorems about SubscriptionSync, for any number of tenants, events,     *)
(* webhook requests and reconciliation jobs.                               *)
(***************************************************************************)
EXTENDS SubscriptionSync, SequenceTheorems, FiniteSetTheorems, TLAPS

Emitted(e) == event[e].sub \in Sub

(* Where the things in flight belong: an event that names a tenant names   *)
(* its subscription's, a webhook that is about to write holds the lock of  *)
(* its event's tenant, and a job carries a row back to where it came from. *)
Homes ==
  /\ \A e \in Event : Emitted(e) => event[e].tenant \in {None, HomeOf[event[e].sub]}
  /\ \A w \in Webhook : webhook[w].pc # "idle" => Emitted(webhook[w].event)
  /\ \A w \in Webhook :
       webhook[w].pc = "hold" => HomeOf[event[webhook[w].event].sub] = webhook[w].tenant
  /\ \A r \in Reconciler :
       reconcile[r].pc # "idle" => HomeOf[reconcile[r].read.sub] = reconcile[r].tenant

IInv == Shapes /\ Homes /\ TenantIsolation

----------------------------------------------------------------------------

(* None is no value of any column.                                         *)
LEMMA NoneApart ==
  /\ None \notin Sub /\ None \notin Customer /\ None \notin Tenant
  /\ None \notin Event /\ None \notin Nat
BY NoneAssumption

(* A row Stripe has not touched names nothing of Stripe's.                 *)
LEMMA FreshRows ==
  /\ ShapeOK(NoRow) /\ NoRow.sub = None /\ NoRow.customer = None /\ NoRow.lastAt = None
  /\ NoRow.plan = None /\ NoRow.period = None
  /\ ShapeOK(SeededRow) /\ SeededRow.sub = None /\ SeededRow.customer = None
  /\ SeededRow.lastAt = None /\ SeededRow.plan = None /\ SeededRow.period = None
<1>1. PICK q : q = <<>>
  OBVIOUS
<1>2. NoRow = [present |-> FALSE, status |-> "incomplete", plan |-> None, period |-> None,
               sub |-> None, customer |-> None, lastEvent |-> None, lastAt |-> None,
               recent |-> q]
  BY <1>1, Zenon DEF NoRow
<1>3. SeededRow = [present |-> TRUE, status |-> "active", plan |-> None, period |-> None,
                   sub |-> None, customer |-> None, lastEvent |-> None, lastAt |-> None,
                   recent |-> q]
  BY <1>1, Zenon DEF SeededRow
<1>4. /\ "incomplete" \in Status /\ "active" \in Status /\ None \in OrNone(Sub)
      /\ None \in OrNone(Customer) /\ None \in OrNone(Event) /\ None \in OrNone(Nat)
  BY DEF Status, OrNone
<1>5. /\ ShapeOK(NoRow) /\ NoRow.sub = None /\ NoRow.customer = None /\ NoRow.lastAt = None
      /\ NoRow.plan = None /\ NoRow.period = None
  BY <1>2, <1>4 DEF ShapeOK
<1>6. /\ ShapeOK(SeededRow) /\ SeededRow.sub = None /\ SeededRow.customer = None
      /\ SeededRow.lastAt = None /\ SeededRow.plan = None /\ SeededRow.period = None
  BY <1>3, <1>4 DEF ShapeOK
<1> QED
  BY <1>5, <1>6

(* The invariant holds before the first checkout.                          *)
LEMMA InitInv == Init => IInv
<1> SUFFICES ASSUME Init PROVE IInv
  OBVIOUS
<1>1. ShapeOK(NoRow) /\ ShapeOK(SeededRow)
  BY FreshRows
<1>2. \A t \in Tenant : row[t] \in {NoRow, SeededRow}
  BY DEF Init
<1>3. Shapes
  <2>1. row = [t \in Tenant |-> row[t]] /\ \A t \in Tenant : ShapeOK(row[t])
    BY <1>1, <1>2 DEF Init
  <2>2. /\ webhook = [w \in Webhook |-> webhook[w]]
        /\ \A w \in Webhook : WebhookOK(webhook[w])
    BY <1>1 DEF Init, WebhookOK, IdleWebhook
  <2>3. /\ reconcile = [r \in Reconciler |-> reconcile[r]]
        /\ \A r \in Reconciler : ReconcileOK(reconcile[r])
    BY <1>1 DEF Init, ReconcileOK, IdleReconcile, OrNone
  <2>4. event = [e \in Event |-> event[e]] /\ \A e \in Event : EventOK(event[e])
    BY DEF Init, EventOK
  <2>5. period \in [Sub -> OrNone(Event)]
    BY DEF Init, OrNone
  <2> QED
    BY <2>1, <2>2, <2>3, <2>4, <2>5 DEF Shapes, Init
<1>4. Homes
  <2>1. \A e \in Event : ~Emitted(e)
    BY NoneApart DEF Init, Emitted, NoEvent
  <2> QED
    BY <2>1 DEF Homes, Init, IdleWebhook, IdleReconcile
<1>5. TenantIsolation
  <2>1. \A t \in Tenant : row[t].sub = None /\ row[t].customer = None
    BY <1>2, FreshRows
  <2> QED
    BY <2>1 DEF TenantIsolation
<1> QED
  BY <1>3, <1>4, <1>5 DEF IInv

----------------------------------------------------------------------------
(* Stripe.                                                                 *)

(* What Stripe may say of a subscription.                                  *)
Record(x) ==
  /\ x \in [type : EventType, sub : Sub, tenant : OrNone(Tenant), priced : BOOLEAN,
            status : Status, period : OrNone(Event), created : Nat]
  /\ x.tenant \in {None, HomeOf[x.sub]}

(* Every status Stripe knows is one the starter knows.                     *)
LEMMA MapStatusType == \A x : MapStatus(x) \in Status
BY DEF MapStatus, Status

(* An event emitted is never another event.                                *)
LEMMA EventsStay ==
  ASSUME Shapes, NEW e \in Event, NEW x, Record(x), Emits(e, x)
  PROVE  /\ event'[e] = x /\ ~Emitted(e) /\ Emitted(e)'
         /\ \A f \in Event \ {e} : event'[f] = event[f]
         /\ \A f \in Event : Emitted(f) => event'[f] = event[f] /\ Emitted(f)'
<1>1. event[e] = NoEvent /\ event' = [event EXCEPT ![e] = x]
  BY DEF Emits
<1>2. ~Emitted(e)
  BY <1>1, NoneApart DEF Emitted, NoEvent
<1>3. event'[e] = x /\ \A f \in Event \ {e} : event'[f] = event[f]
  BY <1>1 DEF Shapes
<1> QED
  BY <1>2, <1>3 DEF Emitted, Record

(* Stripe's word keeps the invariant.                                      *)
LEMMA EmitsInv ==
  ASSUME IInv, NEW e \in Event, NEW x, Record(x), Emits(e, x),
         period' \in [Sub -> OrNone(Event)]
  PROVE  IInv'
<1>1. /\ event'[e] = x /\ \A f \in Event \ {e} : event'[f] = event[f]
      /\ \A f \in Event : Emitted(f) => event'[f] = event[f] /\ Emitted(f)'
  BY EventsStay DEF IInv
<1>2. UNCHANGED <<row, webhook, reconcile, second, applied>>
  BY DEF Emits
<1>3. Shapes'
  <2>1. event' = [f \in Event |-> event'[f]]
    BY DEF Emits, IInv, Shapes
  <2>2. \A f \in Event : EventOK(event'[f])
    BY <1>1 DEF IInv, Shapes, EventOK, Record
  <2> QED
    BY <1>2, <2>1, <2>2 DEF IInv, Shapes
<1>4. Homes'
  <2>1. \A f \in Event : Emitted(f)' => event'[f].tenant \in {None, HomeOf[event'[f].sub]}
    BY <1>1 DEF IInv, Homes, Record, Emitted
  <2>2. \A w \in Webhook : webhook[w].pc # "idle" =>
          /\ webhook[w].event \in Event /\ Emitted(webhook[w].event)
    BY DEF IInv, Shapes, Homes, WebhookOK
  <2>3. \A w \in Webhook : webhook[w].pc # "idle" =>
          Emitted(webhook[w].event)' /\ event'[webhook[w].event] = event[webhook[w].event]
    BY <2>2, <1>1, <1>2 DEF Emitted
  <2>4. \A w \in Webhook : webhook'[w].pc # "idle" => event'[webhook'[w].event].sub \in Sub
    BY <2>3, <1>2 DEF Emitted
  <2>5. \A w \in Webhook : webhook'[w].pc = "hold" =>
          HomeOf[event'[webhook'[w].event].sub] = webhook'[w].tenant
    BY <2>3, <1>2 DEF IInv, Homes
  <2> QED
    BY <2>1, <2>4, <2>5, <1>2 DEF IInv, Homes, Emitted
<1>5. TenantIsolation'
  BY <1>2 DEF IInv, TenantIsolation
<1> QED
  BY <1>3, <1>4, <1>5 DEF IInv

(* Whatever Stripe does keeps the invariant.                               *)
LEMMA StripeStepInv == IInv /\ StripeStep => IInv'
<1> SUFFICES ASSUME IInv, StripeStep PROVE IInv'
  OBVIOUS
<1>1. second \in Nat
  BY DEF IInv, Shapes
<1>2. ASSUME NEW e \in Event, NEW type \in EventType, NEW s \in Sub, NEW status,
             NEW p \in OrNone(Event), NEW content, Announces(e, type, s, status, p, content),
             period' \in [Sub -> OrNone(Event)]
      PROVE  IInv'
  <2>1. PICK priced \in BOOLEAN : priced = ("plan" \in content)
    <3>1. CASE "plan" \in content
      <4>1. ("plan" \in content) = TRUE
        BY <3>1
      <4> QED
        BY <4>1, Zenon
    <3>2. CASE "plan" \notin content
      <4>1. ("plan" \in content) = FALSE
        BY <3>2
      <4> QED
        BY <4>1, Zenon
    <3> QED
      BY <3>1, <3>2
  <2>2. PICK q \in OrNone(Event) : q = IF "period" \in content THEN p ELSE None
    BY DEF OrNone
  <2>3. PICK n \in Status : n = MapStatus(status)
    BY MapStatusType
  <2>4. PICK x : x = [type |-> type, sub |-> s, tenant |-> None, priced |-> priced,
                      status |-> n, period |-> q, created |-> second]
    OBVIOUS
  <2>5. Record(x)
    BY <1>1, <2>4 DEF Record, OrNone
  <2>6. Emits(e, x)
    BY <1>2, <2>1, <2>2, <2>3, <2>4, Zenon DEF Announces
  <2> QED
    BY <1>2, <2>5, <2>6, EmitsInv
<1>p. period \in [Sub -> OrNone(Event)] /\ \A e \in Event : e \in OrNone(Event)
  BY DEF IInv, Shapes, OrNone
<1>3. ASSUME NEW e \in Event, NEW s \in Sub, NEW status \in ProviderStatus,
             NEW content \in Contents, OpenSubscription(e, s, status, content)
      PROVE  IInv'
  BY <1>2, <1>3, <1>p DEF OpenSubscription, EventType
<1>c. ASSUME NEW e \in Event, NEW s \in Sub, NEW status \in ProviderStatus,
             NEW content \in Contents, NEW p \in {period[s], e},
             ChangeSubscription(e, s, status, p, content)
      PROVE  IInv'
  <2>1. p \in OrNone(Event)
    BY <1>p
  <2> QED
    BY <1>2, <1>c, <1>p, <2>1 DEF ChangeSubscription, EventType
<1>4. ASSUME NEW e \in Event, NEW s \in Sub, NEW content \in Contents,
             DeleteSubscription(e, s, content)
      PROVE  IInv'
  <2>1. period[s] \in OrNone(Event)
    BY <1>p
  <2> QED
    BY <1>2, <1>4, <1>p, <2>1 DEF DeleteSubscription, EventType
<1>5. ASSUME NEW e \in Event, NEW s \in Sub, CompleteCheckout(e, s)
      PROVE  IInv'
  <2>1. HomeOf[s] \in Tenant
    BY HomeAssumption
  <2>2. Record([type |-> "checkout", sub |-> s, tenant |-> HomeOf[s], priced |-> TRUE,
                status |-> "active", period |-> None, created |-> second])
    BY <1>1, <2>1 DEF Record, OrNone, Status, EventType
  <2> QED
    BY <1>5, <1>p, <2>2, EmitsInv DEF CompleteCheckout
<1>6. CASE SecondPasses
  <2>1. second' \in Nat
    BY <1>1, <1>6 DEF SecondPasses
  <2>2. UNCHANGED <<row, webhook, reconcile, event, period, applied>>
    BY <1>6 DEF SecondPasses
  <2>3. Shapes'
    BY <2>1, <2>2 DEF IInv, Shapes
  <2>4. Homes' /\ TenantIsolation'
    BY <2>2 DEF IInv, Homes, Emitted, TenantIsolation
  <2> QED
    BY <2>3, <2>4 DEF IInv
<1> QED
  BY <1>3, <1>c, <1>4, <1>5, <1>6 DEF StripeStep

----------------------------------------------------------------------------
(* Webhooks.                                                               *)

(* A webhook that takes on what fits it keeps the invariant.               *)
LEMMA WebhookMoves ==
  ASSUME IInv, NEW w \in Webhook, NEW v, WebhookOK(v),
         v.pc # "idle" => Emitted(v.event),
         v.pc = "hold" => HomeOf[event[v.event].sub] = v.tenant,
         webhook' = [webhook EXCEPT ![w] = v],
         UNCHANGED <<row, reconcile, event, period, second, applied>>
  PROVE  IInv'
<1>1. webhook'[w] = v /\ \A x \in Webhook \ {w} : webhook'[x] = webhook[x]
  BY DEF IInv, Shapes
<1>2. Shapes'
  <2>1. webhook' = [x \in Webhook |-> webhook'[x]]
    BY DEF IInv, Shapes
  <2>2. \A x \in Webhook : WebhookOK(webhook'[x])
    BY <1>1 DEF IInv, Shapes
  <2> QED
    BY <2>1, <2>2 DEF IInv, Shapes
<1>3. Homes'
  <2>1. \A x \in Webhook : webhook'[x].pc # "idle" => Emitted(webhook'[x].event)
    BY <1>1 DEF IInv, Homes
  <2>2. \A x \in Webhook : webhook'[x].pc = "hold" =>
          HomeOf[event[webhook'[x].event].sub] = webhook'[x].tenant
    BY <1>1 DEF IInv, Homes
  <2> QED
    BY <2>1, <2>2 DEF IInv, Homes, Emitted
<1>4. TenantIsolation'
  BY DEF IInv, TenantIsolation
<1> QED
  BY <1>2, <1>3, <1>4 DEF IInv

(* An event is only ever aimed at rows of its subscription's own tenant.   *)
LEMMA TargetsAreHome ==
  ASSUME IInv, NEW e \in Event, Emitted(e), NEW t \in Targets(event[e])
  PROVE  t = HomeOf[event[e].sub] /\ t \in Tenant
<1>1. event[e].sub \in Sub /\ event[e].tenant \in {None, HomeOf[event[e].sub]}
  BY DEF IInv, Homes, Emitted
<1>2. HomeOf[event[e].sub] \in Tenant
  BY <1>1, HomeAssumption
<1>3. CASE t \in RowsOfSub(event[e].sub)
  <2>1. t \in Tenant /\ row[t].sub = event[e].sub
    BY <1>3 DEF RowsOfSub
  <2> QED
    BY <2>1, <1>1, NoneApart DEF IInv, TenantIsolation
<1>4. CASE t = event[e].tenant /\ t # None
  BY <1>1, <1>2, <1>4
<1>5. CASE t \in RowsOfCustomer(CustomerOf[event[e].sub])
  <2>1. t \in Tenant /\ row[t].customer = CustomerOf[event[e].sub]
    BY <1>5 DEF RowsOfCustomer
  <2>2. CustomerOf[event[e].sub] # None
    BY <1>1, CustomerAssumption, NoneApart
  <2>3. PICK s \in Sub : CustomerOf[s] = row[t].customer /\ HomeOf[s] = t
    BY <2>1, <2>2 DEF IInv, TenantIsolation
  <2> QED
    BY <2>1, <2>3, <1>1, CustomerAssumption
<1>6. t \in Existing(event[e]) \/ t \in {event[e].tenant} \ {None}
  BY DEF Targets
<1>7. \/ t \in RowsOfSub(event[e].sub)
      \/ t = event[e].tenant /\ t # None
      \/ t \in RowsOfCustomer(CustomerOf[event[e].sub])
  BY <1>6 DEF Existing
<1> QED
  BY <1>3, <1>4, <1>5, <1>7

(* Both ways a webhook ends fit it.                                        *)
LEMMA IdleFits == WebhookOK(IdleWebhook) /\ IdleWebhook.pc = "idle"
BY FreshRows DEF WebhookOK, IdleWebhook

(* An event that has been emitted is one of a subscription.                *)
LEMMA EmittedIsRecord ==
  ASSUME IInv, NEW e \in Event, event[e] # NoEvent
  PROVE  Emitted(e)
BY DEF IInv, Shapes, EventOK, Emitted

(* Receiving keeps the invariant.                                          *)
LEMMA ReceiveInv ==
  ASSUME IInv, NEW w \in Webhook, NEW e \in Event, Receive(w, e)
  PROVE  IInv'
<1>1. Emitted(e)
  BY EmittedIsRecord DEF Receive
<1>2. PICK t \in Targets(event[e]) :
        webhook' = [webhook EXCEPT ![w] = [webhook[w] EXCEPT !.pc = "wait", !.event = e, !.tenant = t]]
  BY DEF Receive
<1>3. t \in Tenant
  BY <1>1, TargetsAreHome
<1>4. WebhookOK(webhook[w])
  BY DEF IInv, Shapes
<1>5. PICK v : v = [webhook[w] EXCEPT !.pc = "wait", !.event = e, !.tenant = t]
  OBVIOUS
<1>6. v = [pc |-> "wait", event |-> e, tenant |-> t, read |-> webhook[w].read]
  BY <1>4, <1>5 DEF WebhookOK
<1>7. /\ v.pc = "wait" /\ v.event = e /\ v.tenant = t /\ v.read = webhook[w].read
      /\ v = [pc |-> v.pc, event |-> v.event, tenant |-> v.tenant, read |-> v.read]
  BY <1>6
<1>8. WebhookOK(v)
  BY <1>3, <1>4, <1>7 DEF WebhookOK
<1> QED
  BY <1>1, <1>2, <1>5, <1>7, <1>8, WebhookMoves DEF Receive, stripe

(* Deciding to apply an event keeps the invariant.                         *)
LEMMA DecideInv ==
  ASSUME IInv, NEW w \in Webhook, Decide(w)
  PROVE  IInv'
<1>1. /\ WebhookOK(webhook[w]) /\ webhook[w].pc = "wait"
      /\ webhook[w].event \in Event /\ webhook[w].tenant \in Tenant
      /\ Emitted(webhook[w].event)
  BY DEF IInv, Shapes, Homes, WebhookOK, Decide
<1>2. webhook[w].tenant = HomeOf[event[webhook[w].event].sub]
  BY <1>1, TargetsAreHome DEF Decide
<1>3. ShapeOK(row[webhook[w].tenant])
  BY <1>1 DEF IInv, Shapes
<1>4. PICK v : v = [webhook[w] EXCEPT !.pc = "hold", !.read = row[webhook[w].tenant]]
  OBVIOUS
<1>5. v = [pc |-> "hold", event |-> webhook[w].event, tenant |-> webhook[w].tenant,
           read |-> row[webhook[w].tenant]]
  BY <1>1, <1>4 DEF WebhookOK
<1>6. /\ v.pc = "hold" /\ v.event = webhook[w].event /\ v.tenant = webhook[w].tenant
      /\ v.read = row[webhook[w].tenant]
      /\ v = [pc |-> v.pc, event |-> v.event, tenant |-> v.tenant, read |-> v.read]
  BY <1>5
<1>7. WebhookOK(v)
  BY <1>1, <1>3, <1>6 DEF WebhookOK
<1>8. webhook' = [webhook EXCEPT ![w] = v]
  BY <1>4 DEF Decide
<1> QED
  BY <1>1, <1>2, <1>6, <1>7, <1>8, WebhookMoves DEF Decide, stripe

(* What an event makes of a row.                                           *)
LEMMA NextRowFits ==
  ASSUME IInv, NEW e \in Event, Emitted(e), NEW old, ShapeOK(old)
  PROVE  /\ ShapeOK(NextRow(old, e))
         /\ NextRow(old, e).sub = event[e].sub
         /\ NextRow(old, e).customer = CustomerOf[event[e].sub]
         /\ NextRow(old, e).status = event[e].status
         /\ NextRow(old, e).lastEvent = e
         /\ NextRow(old, e).lastAt = event[e].created
         /\ NextRow(old, e).present = TRUE
         /\ NextRow(old, e).recent = Remember(old.recent, e)
         /\ event[e].priced => NextRow(old, e).plan = e
         /\ ~event[e].priced => NextRow(old, e).plan = old.plan
         /\ event[e].period # None => NextRow(old, e).period = event[e].period
         /\ event[e].period = None => NextRow(old, e).period = old.period
<1>1. /\ event[e].sub \in Sub /\ event[e].status \in Status /\ event[e].created \in Nat
      /\ event[e].priced \in BOOLEAN /\ event[e].period \in OrNone(Event)
  BY NoneApart DEF IInv, Shapes, EventOK, Emitted, NoEvent
<1>2. CustomerOf[event[e].sub] \in Customer
  BY <1>1, CustomerAssumption
<1>3. PICK q : q = Remember(old.recent, e)
  OBVIOUS
<1>p. PICK n \in OrNone(Event) : n = IF event[e].priced THEN e ELSE old.plan
  BY <1>1 DEF ShapeOK, OrNone
<1>d. PICK d \in OrNone(Event) :
        d = IF event[e].period # None THEN event[e].period ELSE old.period
  BY <1>1 DEF ShapeOK
<1>4. NextRow(old, e) =
        [present |-> TRUE, status |-> event[e].status, plan |-> n, period |-> d,
         sub |-> event[e].sub, customer |-> CustomerOf[event[e].sub], lastEvent |-> e,
         lastAt |-> event[e].created, recent |-> q]
  BY <1>3, <1>p, <1>d, Zenon DEF NextRow
<1>5. PICK x : x = NextRow(old, e)
  OBVIOUS
<1>6. /\ x.present = TRUE /\ x.status = event[e].status /\ x.plan = n /\ x.period = d
      /\ x.sub = event[e].sub /\ x.customer = CustomerOf[event[e].sub] /\ x.lastEvent = e
      /\ x.lastAt = event[e].created /\ x.recent = q
      /\ x = [present |-> x.present, status |-> x.status, plan |-> x.plan,
              period |-> x.period, sub |-> x.sub, customer |-> x.customer,
              lastEvent |-> x.lastEvent, lastAt |-> x.lastAt, recent |-> x.recent]
  BY <1>4, <1>5
<1>7. ShapeOK(x)
  BY <1>1, <1>2, <1>p, <1>d, <1>6 DEF ShapeOK, OrNone
<1> QED
  BY <1>3, <1>p, <1>d, <1>5, <1>6, <1>7

(* A row rewritten by a step that keeps it at home.                        *)
LEMMA RowMoves ==
  ASSUME IInv, NEW t \in Tenant, NEW x, ShapeOK(x),
         x.sub # None => HomeOf[x.sub] = t,
         x.customer # None => \E s \in Sub : CustomerOf[s] = x.customer /\ HomeOf[s] = t,
         row' = [row EXCEPT ![t] = x],
         webhook' = [y \in Webhook |-> webhook'[y]],
         \A y \in Webhook : webhook'[y] \in {webhook[y], IdleWebhook},
         reconcile' = [r \in Reconciler |-> reconcile'[r]],
         \A r \in Reconciler : reconcile'[r] \in {reconcile[r], IdleReconcile},
         UNCHANGED <<event, period, second>>, applied' \in [Tenant -> SUBSET Event]
  PROVE  IInv'
<1>1. row'[t] = x /\ \A z \in Tenant \ {t} : row'[z] = row[z]
  BY DEF IInv, Shapes
<1>2. Shapes'
  <2>1. row' = [z \in Tenant |-> row'[z]] /\ \A z \in Tenant : ShapeOK(row'[z])
    BY <1>1 DEF IInv, Shapes
  <2>2. \A y \in Webhook : WebhookOK(webhook'[y])
    BY IdleFits DEF IInv, Shapes
  <2>3. \A r \in Reconciler : ReconcileOK(reconcile'[r])
    <3>1. ReconcileOK(IdleReconcile)
      BY FreshRows DEF ReconcileOK, IdleReconcile, OrNone
    <3> QED
      BY <3>1 DEF IInv, Shapes
  <2> QED
    BY <2>1, <2>2, <2>3 DEF IInv, Shapes
<1>3. Homes'
  <2>1. IdleReconcile.pc = "idle"
    BY DEF IdleReconcile
  <2>2. \A y \in Webhook : webhook'[y].pc # "idle" => webhook'[y] = webhook[y]
    BY IdleFits
  <2>3. \A r \in Reconciler : reconcile'[r].pc # "idle" => reconcile'[r] = reconcile[r]
    BY <2>1
  <2> QED
    BY <2>2, <2>3 DEF IInv, Homes, Emitted
<1>4. TenantIsolation'
  BY <1>1 DEF IInv, TenantIsolation
<1> QED
  BY <1>2, <1>3, <1>4 DEF IInv

(* Writing an event keeps the invariant.                                   *)
LEMMA WriteInv ==
  ASSUME IInv, NEW w \in Webhook, Write(w)
  PROVE  IInv'
<1> DEFINE e == webhook[w].event
           t == webhook[w].tenant
           x == NextRow(webhook[w].read, e)
<1>1. e \in Event /\ t \in Tenant /\ Emitted(e) /\ HomeOf[event[e].sub] = t
  BY DEF IInv, Shapes, Homes, WebhookOK, Write
<1>s. ShapeOK(webhook[w].read)
  BY DEF IInv, Shapes, WebhookOK
<1>2. ShapeOK(x) /\ x.sub = event[e].sub /\ x.customer = CustomerOf[event[e].sub]
  BY <1>1, <1>s, NextRowFits
<1>3. /\ row' = [row EXCEPT ![t] = x]
      /\ webhook' = [webhook EXCEPT ![w] = IdleWebhook]
      /\ applied' = [applied EXCEPT ![t] = @ \cup {e}]
      /\ UNCHANGED <<reconcile, event, period, second>>
  BY DEF Write, stripe
<1>4. /\ webhook' = [y \in Webhook |-> webhook'[y]]
      /\ \A y \in Webhook : webhook'[y] \in {webhook[y], IdleWebhook}
  BY <1>3 DEF IInv, Shapes
<1>5. applied' \in [Tenant -> SUBSET Event]
  BY <1>1, <1>3 DEF IInv, Shapes
<1>6. /\ reconcile' = [r \in Reconciler |-> reconcile'[r]]
      /\ \A r \in Reconciler : reconcile'[r] \in {reconcile[r], IdleReconcile}
  BY <1>3 DEF IInv, Shapes
<1>7. /\ x.sub # None => HomeOf[x.sub] = t
      /\ x.customer # None => \E s \in Sub : CustomerOf[s] = x.customer /\ HomeOf[s] = t
  BY <1>1, <1>2 DEF Emitted
<1> HIDE DEF e, t, x
<1> QED
  BY <1>1, <1>2, <1>3, <1>4, <1>5, <1>6, <1>7, RowMoves

(* Every step of a webhook keeps the invariant.                            *)
LEMMA WebhookStepInv ==
  ASSUME IInv, NEW w \in Webhook, WebhookStep(w)
  PROVE  IInv'
<1>1. CASE Ignore(w) \/ AbortWebhook(w)
  <2>1. /\ webhook' = [webhook EXCEPT ![w] = IdleWebhook]
        /\ UNCHANGED <<row, reconcile, event, period, second, applied>>
    BY <1>1 DEF Ignore, AbortWebhook, stripe
  <2> QED
    BY <2>1, IdleFits, WebhookMoves
<1> QED
  BY <1>1, ReceiveInv, DecideInv, WriteInv DEF WebhookStep

----------------------------------------------------------------------------
(* Reconciliation.                                                         *)

(* A job that takes on what fits it keeps the invariant.                   *)
LEMMA ReconcileMoves ==
  ASSUME IInv, NEW r \in Reconciler, NEW v, ReconcileOK(v),
         v.pc # "idle" => HomeOf[v.read.sub] = v.tenant,
         reconcile' = [reconcile EXCEPT ![r] = v],
         UNCHANGED <<row, webhook, event, period, second, applied>>
  PROVE  IInv'
<1>1. reconcile'[r] = v /\ \A x \in Reconciler \ {r} : reconcile'[x] = reconcile[x]
  BY DEF IInv, Shapes
<1>2. Shapes'
  <2>1. reconcile' = [x \in Reconciler |-> reconcile'[x]]
    BY DEF IInv, Shapes
  <2>2. \A x \in Reconciler : ReconcileOK(reconcile'[x])
    BY <1>1 DEF IInv, Shapes
  <2> QED
    BY <2>1, <2>2 DEF IInv, Shapes
<1>3. Homes'
  <2>1. \A x \in Reconciler :
          reconcile'[x].pc # "idle" => HomeOf[reconcile'[x].read.sub] = reconcile'[x].tenant
    BY <1>1 DEF IInv, Homes
  <2> QED
    BY <2>1 DEF IInv, Homes, Emitted
<1>4. TenantIsolation'
  BY DEF IInv, TenantIsolation
<1> QED
  BY <1>2, <1>3, <1>4 DEF IInv

(* Reading a row of the page keeps the invariant.                          *)
LEMMA ListRowInv ==
  ASSUME IInv, NEW r \in Reconciler, NEW t \in Tenant, ListRow(r, t)
  PROVE  IInv'
<1>1. /\ ReconcileOK(reconcile[r]) /\ ShapeOK(row[t]) /\ row[t].sub \in Sub
      /\ HomeOf[row[t].sub] = t
  BY DEF IInv, Shapes, TenantIsolation, ListRow, ShapeOK, OrNone
<1>2. PICK v : v = [reconcile[r] EXCEPT !.pc = "listed", !.tenant = t, !.read = row[t]]
  OBVIOUS
<1>3. v = [pc |-> "listed", tenant |-> t, read |-> row[t], status |-> reconcile[r].status,
           period |-> reconcile[r].period]
  BY <1>1, <1>2 DEF ReconcileOK
<1>4. /\ v.pc = "listed" /\ v.tenant = t /\ v.read = row[t] /\ v.period = reconcile[r].period
      /\ v = [pc |-> v.pc, tenant |-> v.tenant, read |-> v.read, status |-> v.status,
              period |-> v.period]
  BY <1>3
<1>5. ReconcileOK(v)
  BY <1>1, <1>4 DEF ReconcileOK
<1>6. reconcile' = [reconcile EXCEPT ![r] = v]
  BY <1>2 DEF ListRow
<1> QED
  BY <1>1, <1>4, <1>5, <1>6, ReconcileMoves DEF ListRow, stripe

(* Stripe's answer keeps the invariant.                                    *)
LEMMA RetrieveStatusInv ==
  ASSUME IInv, NEW r \in Reconciler, RetrieveStatus(r)
  PROVE  IInv'
<1>1. /\ ReconcileOK(reconcile[r]) /\ reconcile[r].pc = "listed"
      /\ HomeOf[reconcile[r].read.sub] = reconcile[r].tenant
  BY DEF IInv, Shapes, Homes, RetrieveStatus
<1>p. PICK p \in {period[reconcile[r].read.sub], reconcile[r].read.period} :
        reconcile' = [reconcile EXCEPT ![r] =
          [reconcile[r] EXCEPT !.pc = "retrieved",
                               !.status = provider[reconcile[r].read.sub], !.period = p]]
  BY DEF RetrieveStatus
<1>t. p \in OrNone(Event)
  BY <1>1 DEF IInv, Shapes, ReconcileOK, ShapeOK
<1>2. PICK v : v = [reconcile[r] EXCEPT !.pc = "retrieved",
                                        !.status = provider[reconcile[r].read.sub], !.period = p]
  OBVIOUS
<1>3. v = [pc |-> "retrieved", tenant |-> reconcile[r].tenant, read |-> reconcile[r].read,
           status |-> provider[reconcile[r].read.sub], period |-> p]
  BY <1>1, <1>2 DEF ReconcileOK
<1>4. /\ v.pc = "retrieved" /\ v.tenant = reconcile[r].tenant /\ v.read = reconcile[r].read
      /\ v.period = p
      /\ v = [pc |-> v.pc, tenant |-> v.tenant, read |-> v.read, status |-> v.status,
              period |-> v.period]
  BY <1>3
<1>5. ReconcileOK(v)
  BY <1>1, <1>t, <1>4 DEF ReconcileOK
<1>6. reconcile' = [reconcile EXCEPT ![r] = v]
  BY <1>p, <1>2
<1> QED
  BY <1>1, <1>4, <1>5, <1>6, ReconcileMoves DEF RetrieveStatus, stripe

(* The write, however stale what it writes, keeps the invariant.           *)
LEMMA UpdateRowInv ==
  ASSUME IInv, NEW r \in Reconciler, UpdateRow(r)
  PROVE  IInv'
<1>1. PICK old : old = reconcile[r].read
  OBVIOUS
<1>2. PICK t : t = reconcile[r].tenant
  OBVIOUS
<1>3. /\ ShapeOK(old) /\ old.sub \in Sub /\ t \in Tenant /\ HomeOf[old.sub] = t
  BY <1>1, <1>2 DEF IInv, Shapes, Homes, ReconcileOK, UpdateRow
<1>4. ShapeOK(row[t]) /\ (row[t].sub # None => HomeOf[row[t].sub] = t)
  BY <1>3 DEF IInv, Shapes, TenantIsolation
<1>5. CustomerOf[old.sub] \in Customer
  BY <1>3, CustomerAssumption
<1>6. PICK n : n = MapStatus(reconcile[r].status)
  OBVIOUS
<1>7. n \in Status
  BY <1>6, MapStatusType
<1>p. PICK p \in OrNone(Event) : p = reconcile[r].period
  BY DEF IInv, Shapes, ReconcileOK
<1>8. PICK x : x = [row[t] EXCEPT !.status = n, !.period = p, !.customer = CustomerOf[old.sub],
                      !.lastEvent = old.lastEvent, !.lastAt = old.lastAt, !.recent = old.recent]
  OBVIOUS
<1>9. x = [present |-> row[t].present, status |-> n, plan |-> row[t].plan,
           period |-> p, sub |-> row[t].sub, customer |-> CustomerOf[old.sub], lastEvent |-> old.lastEvent,
           lastAt |-> old.lastAt, recent |-> old.recent]
  BY <1>4, <1>8 DEF ShapeOK
<1>10. /\ x.present = row[t].present /\ x.status = n /\ x.sub = row[t].sub
       /\ x.plan = row[t].plan /\ x.period = p
       /\ x.customer = CustomerOf[old.sub] /\ x.lastEvent = old.lastEvent
       /\ x.lastAt = old.lastAt
       /\ x = [present |-> x.present, status |-> x.status, plan |-> x.plan,
               period |-> x.period, sub |-> x.sub, customer |-> x.customer, lastEvent |-> x.lastEvent, lastAt |-> x.lastAt,
               recent |-> x.recent]
  BY <1>9
<1>11. ShapeOK(x)
  BY <1>3, <1>4, <1>5, <1>7, <1>p, <1>10 DEF ShapeOK, OrNone
<1>12. /\ row' = [row EXCEPT ![t] = x]
       /\ reconcile' = [reconcile EXCEPT ![r] = IdleReconcile]
       /\ UNCHANGED <<webhook, event, period, second, applied>>
  BY <1>1, <1>2, <1>6, <1>p, <1>8 DEF UpdateRow, stripe
<1>13. /\ reconcile' = [y \in Reconciler |-> reconcile'[y]]
       /\ \A y \in Reconciler : reconcile'[y] \in {reconcile[y], IdleReconcile}
  BY <1>12 DEF IInv, Shapes
<1>14. /\ webhook' = [w \in Webhook |-> webhook'[w]]
       /\ \A w \in Webhook : webhook'[w] \in {webhook[w], IdleWebhook}
       /\ applied' \in [Tenant -> SUBSET Event]
  BY <1>12 DEF IInv, Shapes
<1>15. x.customer # None => \E s \in Sub : CustomerOf[s] = x.customer /\ HomeOf[s] = t
  BY <1>3, <1>10
<1> QED
  BY <1>3, <1>4, <1>10, <1>11, <1>12, <1>13, <1>14, <1>15, RowMoves

(* Every step of a job keeps the invariant.                                *)
LEMMA ReconcileStepInv ==
  ASSUME IInv, NEW r \in Reconciler, ReconcileStep(r)
  PROVE  IInv'
<1>1. CASE SkipRow(r) \/ FailRow(r)
  <2>1. /\ reconcile' = [reconcile EXCEPT ![r] = IdleReconcile]
        /\ UNCHANGED <<row, webhook, event, period, second, applied>>
    BY <1>1 DEF SkipRow, FailRow, stripe
  <2>2. ReconcileOK(IdleReconcile) /\ IdleReconcile.pc = "idle"
    BY FreshRows DEF ReconcileOK, IdleReconcile, OrNone
  <2> QED
    BY <2>1, <2>2, ReconcileMoves
<1> QED
  BY <1>1, ListRowInv, RetrieveStatusInv, UpdateRowInv DEF ReconcileStep

(* Every step, and stuttering, keeps the invariant.                        *)
LEMMA NextInv == IInv /\ [Next]_vars => IInv'
<1>1. ASSUME IInv, UNCHANGED vars PROVE IInv'
  BY <1>1 DEF IInv, vars, Shapes, Homes, Emitted, TenantIsolation
<1> QED
  BY <1>1, StripeStepInv, WebhookStepInv, ReconcileStepInv DEF Next

(* The inductive invariant holds in every reachable state.                 *)
THEOREM Invariance == Spec => []IInv
BY InitInv, NextInv, PTL DEF Spec

(* Shapes: the rows, the requests, the jobs and the events keep their      *)
(* shape, whatever was read from where.                                    *)
THEOREM ShapesKept == Spec => []Shapes
<1>1. IInv => Shapes
  BY DEF IInv
<1> QED
  BY <1>1, Invariance, PTL

(* TenantIsolation: no order of deliveries and no overlap with a           *)
(* reconciliation ties a tenant's row to another tenant's subscription or  *)
(* customer, although rows are found by either.                            *)
THEOREM TenantsAreIsolated == Spec => []TenantIsolation
<1>1. IInv => TenantIsolation
  BY DEF IInv
<1> QED
  BY <1>1, Invariance, PTL

----------------------------------------------------------------------------
(* Between reconciliations: what the lock and the timestamp are worth.     *)

(* A webhook that holds the lock holds the row as it is, for an event no   *)
(* older than the row's; nobody else holds that row.                       *)
Serial ==
  /\ \A w \in Webhook : webhook[w].pc = "hold" =>
       /\ webhook[w].read = row[webhook[w].tenant]
       /\ row[webhook[w].tenant].lastAt # None =>
            row[webhook[w].tenant].lastAt <= event[webhook[w].event].created
  /\ \A w, x \in Webhook :
       w # x /\ webhook[w].pc = "hold" /\ webhook[x].pc = "hold" =>
         webhook[w].tenant # webhook[x].tenant
  /\ \A t \in Tenant :
       /\ applied[t] = {} =>
            row[t].lastAt = None /\ row[t].plan = None /\ row[t].period = None
       /\ row[t].lastAt # None => row[t].present
       /\ \A e \in applied[t] : Emitted(e)
  /\ ShowsALatestEvent

(* Nothing is applied before the first checkout.                           *)
LEMMA InitSerial == Init => Serial
<1> SUFFICES ASSUME Init PROVE Serial
  OBVIOUS
<1>1. \A t \in Tenant : row[t].lastAt = None /\ row[t].plan = None /\ row[t].period = None
  <2>1. \A t \in Tenant : row[t] \in {NoRow, SeededRow}
    BY DEF Init
  <2> QED
    BY <2>1, FreshRows
<1>2. \A t \in Tenant : applied[t] = {}
  BY DEF Init
<1>3. \A w \in Webhook : webhook[w].pc = "idle"
  BY DEF Init, IdleWebhook
<1> QED
  BY <1>1, <1>2, <1>3 DEF Serial, ShowsALatestEvent

(* A row shows what it showed, of events that are what they were.          *)
LEMMA ShowsStill ==
  ASSUME NEW x, NEW S, Shows(x, S), \A f \in S : event'[f] = event[f]
  PROVE  Shows(x, S)'
<1>1. Priced(S)' = Priced(S) /\ Dated(S)' = Dated(S)
  BY DEF Priced, Dated
<1>2. ASSUME NEW U, U \subseteq S PROVE LatestOf(U)' = LatestOf(U)
  BY <1>2 DEF LatestOf
<1>3. PICK P, D : P = Priced(S) /\ D = Dated(S)
  OBVIOUS
<1>4. P \subseteq S /\ D \subseteq S /\ Priced(S)' = P /\ Dated(S)' = D
  BY <1>1, <1>3 DEF Priced, Dated
<1>5. LatestOf(S)' = LatestOf(S) /\ LatestOf(P)' = LatestOf(P) /\ LatestOf(D)' = LatestOf(D)
  BY <1>2, <1>4
<1>6. \A U : LatestOf(U) \subseteq U
  BY DEF LatestOf
<1>7. \E e \in LatestOf(S)' :
        /\ x.lastEvent = e /\ x.lastAt = event'[e].created
        /\ x.sub = event'[e].sub /\ x.status = event'[e].status
  <2>1. PICK e \in LatestOf(S) :
          /\ x.lastEvent = e /\ x.lastAt = event[e].created
          /\ x.sub = event[e].sub /\ x.status = event[e].status
    BY DEF Shows
  <2>2. event'[e] = event[e]
    BY <2>1, <1>6
  <2> QED
    BY <1>5, <2>1, <2>2
<1>8. IF P = {} THEN x.plan = None ELSE x.plan \in LatestOf(P)'
  BY <1>3, <1>5 DEF Shows
<1>9. IF D = {} THEN x.period = None ELSE \E e \in LatestOf(D)' : x.period = event'[e].period
  <2>1. IF D = {} THEN x.period = None ELSE \E e \in LatestOf(D) : x.period = event[e].period
    BY <1>3 DEF Shows
  <2>2. \A e \in LatestOf(D) : event'[e] = event[e]
    BY <1>4, <1>6
  <2> QED
    BY <1>5, <2>1, <2>2
<1> QED
  BY <1>4, <1>7, <1>8, <1>9 DEF Shows

(* Nor does it matter what else changes.                                   *)
LEMMA ShownStays ==
  ASSUME ShowsALatestEvent, UNCHANGED <<row, event, applied>>
  PROVE  ShowsALatestEvent'
BY DEF ShowsALatestEvent, Shows, LatestOf, Priced, Dated

(* A row that takes an event no older than those it shows, shows it too.   *)
LEMMA ShowsNext ==
  ASSUME NEW x, NEW old, NEW S, NEW e,
         S = {} => old.plan = None /\ old.period = None,
         S # {} => Shows(old, S),
         event[e].created \in Nat,
         \A f \in S : event[f].created \in Nat /\ event[f].created <= event[e].created,
         x.lastEvent = e, x.lastAt = event[e].created,
         x.sub = event[e].sub, x.status = event[e].status,
         event[e].priced => x.plan = e, ~event[e].priced => x.plan = old.plan,
         event[e].period # None => x.period = event[e].period,
         event[e].period = None => x.period = old.period
  PROVE  Shows(x, S \cup {e})
<1>1. PICK T : T = S \cup {e}
  OBVIOUS
<1>2. PICK P, D : P = Priced(S) /\ D = Dated(S)
  OBVIOUS
<1>3. PICK Q, F : Q = Priced(T) /\ F = Dated(T)
  OBVIOUS
<1>4. \A U \in SUBSET T : e \in U => e \in LatestOf(U)
  BY <1>1 DEF LatestOf
<1>5. e \in LatestOf(T)
  BY <1>1, <1>4
<1>6. IF Q = {} THEN x.plan = None ELSE x.plan \in LatestOf(Q)
  <2>1. CASE event[e].priced
    <3>1. e \in Q /\ Q \subseteq T /\ x.plan = e
      BY <1>1, <1>3, <2>1 DEF Priced
    <3> QED
      BY <1>4, <3>1
  <2>2. CASE ~event[e].priced
    <3>1. Q = P /\ x.plan = old.plan
      BY <1>1, <1>2, <1>3, <2>2 DEF Priced
    <3>2. CASE S = {}
      <4>1. P = {}
        BY <1>2, <3>2 DEF Priced
      <4> QED
        BY <3>1, <3>2, <4>1
    <3>3. CASE S # {}
      BY <1>2, <3>1, <3>3 DEF Shows
    <3> QED
      BY <3>2, <3>3
  <2> QED
    BY <2>1, <2>2
<1>7. IF F = {} THEN x.period = None ELSE \E f \in LatestOf(F) : x.period = event[f].period
  <2>1. CASE event[e].period # None
    <3>1. e \in F /\ F \subseteq T /\ x.period = event[e].period
      BY <1>1, <1>3, <2>1 DEF Dated
    <3> QED
      BY <1>4, <3>1
  <2>2. CASE event[e].period = None
    <3>1. F = D /\ x.period = old.period
      BY <1>1, <1>2, <1>3, <2>2 DEF Dated
    <3>2. CASE S = {}
      <4>1. D = {}
        BY <1>2, <3>2 DEF Dated
      <4> QED
        BY <3>1, <3>2, <4>1
    <3>3. CASE S # {}
      BY <1>2, <3>1, <3>3 DEF Shows
    <3> QED
      BY <3>2, <3>3
  <2> QED
    BY <2>1, <2>2
<1>8. Shows(x, T)
  BY <1>3, <1>5, <1>6, <1>7 DEF Shows
<1> QED
  BY <1>1, <1>8

(* Stripe's word leaves what was applied as it was.                        *)
LEMMA EmitsSerial ==
  ASSUME IInv, Serial, NEW e \in Event, NEW x, event[e] = NoEvent,
         event' = [event EXCEPT ![e] = x], UNCHANGED <<row, webhook, applied>>
  PROVE  Serial'
<1>1. ~Emitted(e)
  BY NoneApart DEF Emitted, NoEvent
<1>2. \A f \in Event : Emitted(f) => event'[f] = event[f] /\ Emitted(f)'
  BY <1>1 DEF IInv, Shapes, Emitted
<1>3. \A w \in Webhook : webhook[w].pc = "hold" =>
        event'[webhook[w].event] = event[webhook[w].event]
  <2>1. \A w \in Webhook : webhook[w].pc = "hold" =>
          webhook[w].event \in Event /\ Emitted(webhook[w].event)
    BY DEF IInv, Shapes, Homes, WebhookOK
  <2> QED
    BY <2>1, <1>2
<1>4. \A t \in Tenant : \A f \in applied[t] :
        Emitted(f)' /\ event'[f] = event[f]
  BY <1>2 DEF Serial, IInv, Shapes
<1>5. ShowsALatestEvent'
  <2>1. ASSUME NEW t \in Tenant, applied[t] # {} PROVE Shows(row[t], applied[t])'
    <3>1. PICK old, S : old = row[t] /\ S = applied[t]
      OBVIOUS
    <3>2. Shows(old, S) /\ \A f \in S : event'[f] = event[f]
      BY <1>4, <2>1, <3>1 DEF Serial, ShowsALatestEvent
    <3>3. Shows(old, S)'
      BY <3>2, ShowsStill
    <3>4. row'[t] = old /\ applied'[t] = S
      BY <3>1
    <3> QED
      BY <3>3, <3>4
  <2> QED
    BY <2>1 DEF ShowsALatestEvent
<1>6. \A w \in Webhook : webhook[w].pc = "hold" =>
        /\ webhook[w].read = row[webhook[w].tenant]
        /\ row[webhook[w].tenant].lastAt # None =>
             row[webhook[w].tenant].lastAt <= event'[webhook[w].event].created
  BY <1>3 DEF Serial
<1>7. \A t \in Tenant :
       /\ applied[t] = {} =>
            row[t].lastAt = None /\ row[t].plan = None /\ row[t].period = None
       /\ row[t].lastAt # None => row[t].present
  BY DEF Serial
<1>8. \A w, v \in Webhook :
       w # v /\ webhook[w].pc = "hold" /\ webhook[v].pc = "hold" =>
         webhook[w].tenant # webhook[v].tenant
  BY DEF Serial
<1>9. \A t \in Tenant : \A f \in applied[t] : event'[f].sub \in Sub
  BY <1>4 DEF Emitted
<1> QED
  BY <1>5, <1>6, <1>7, <1>8, <1>9 DEF Serial, Emitted

(* A webhook that is not about to write is no matter.                      *)
LEMMA WebhookSerial ==
  ASSUME IInv, Serial, NEW w \in Webhook, NEW v, v.pc # "hold",
         webhook' = [webhook EXCEPT ![w] = v], UNCHANGED <<row, event, applied>>
  PROVE  Serial'
<1>1. \A x \in Webhook : webhook'[x].pc = "hold" => webhook'[x] = webhook[x]
  BY DEF IInv, Shapes
<1>2. ShowsALatestEvent'
  BY ShownStays DEF Serial
<1> QED
  BY <1>1, <1>2 DEF Serial, Emitted

(* Under the lock, the row read is the row, and not yet the event's.       *)
LEMMA DecideSerial ==
  ASSUME IInv, Serial, NEW w \in Webhook, Decide(w)
  PROVE  Serial'
<1> DEFINE e == webhook[w].event
           t == webhook[w].tenant
<1>1. /\ WebhookOK(webhook[w]) /\ e \in Event /\ t \in Tenant /\ Emitted(e)
  BY DEF IInv, Shapes, Homes, WebhookOK, Decide
<1>2. /\ webhook'[w].pc = "hold" /\ webhook'[w].read = row[t]
      /\ webhook'[w].tenant = t /\ webhook'[w].event = e
      /\ \A x \in Webhook \ {w} : webhook'[x] = webhook[x]
  BY <1>1 DEF Decide, IInv, Shapes, WebhookOK
<1>3. UNCHANGED <<row, event, applied>>
  BY DEF Decide, stripe
<1>4. row[t].lastAt # None => row[t].lastAt <= event[e].created
  <2>1. row[t].lastAt # None => ~(row[t].lastAt > event[e].created)
    BY <1>1 DEF Decide, Applies, Stale, Serial
  <2>2. event[e].created \in Nat
    BY <1>1, NoneApart DEF IInv, Shapes, EventOK, Emitted, NoEvent
  <2>3. row[t].lastAt \in Nat \cup {None}
    BY <1>1 DEF IInv, Shapes, ShapeOK, OrNone
  <2> QED
    BY <2>1, <2>2, <2>3
<1>5. \A x \in Webhook : webhook[x].pc = "hold" => webhook[x].tenant # t
  BY DEF Decide, LockFree
<1>6. ShowsALatestEvent'
  BY <1>3, ShownStays DEF Serial
<1>7. \A x \in Webhook : webhook'[x].pc = "hold" =>
        /\ webhook'[x].read = row'[webhook'[x].tenant]
        /\ row'[webhook'[x].tenant].lastAt # None =>
             row'[webhook'[x].tenant].lastAt <= event'[webhook'[x].event].created
  BY <1>2, <1>3, <1>4 DEF Serial
<1>8. \A x, y \in Webhook :
        x # y /\ webhook'[x].pc = "hold" /\ webhook'[y].pc = "hold" =>
          webhook'[x].tenant # webhook'[y].tenant
  BY <1>2, <1>5 DEF Serial
<1> QED
  BY <1>3, <1>6, <1>7, <1>8 DEF Serial, Emitted

(* The write makes the row its event's, no earlier than it was.            *)
LEMMA WriteSerial ==
  ASSUME IInv, Serial, NEW w \in Webhook, Write(w)
  PROVE  /\ Serial'
         /\ \A t \in Tenant : row[t].lastAt # None =>
              row'[t].lastAt # None /\ row'[t].lastAt >= row[t].lastAt
<1>1. PICK e : e = webhook[w].event
  OBVIOUS
<1>2. PICK t : t = webhook[w].tenant
  OBVIOUS
<1>3. PICK x : x = NextRow(webhook[w].read, e)
  OBVIOUS
<1>4. /\ e \in Event /\ t \in Tenant /\ Emitted(e) /\ webhook[w].pc = "hold"
  BY <1>1, <1>2 DEF IInv, Shapes, Homes, WebhookOK, Write
<1>5. /\ ShapeOK(x) /\ x.sub = event[e].sub /\ x.status = event[e].status
      /\ x.lastEvent = e /\ x.lastAt = event[e].created /\ x.present = TRUE
      /\ (event[e].priced => x.plan = e) /\ (~event[e].priced => x.plan = row[t].plan)
      /\ event[e].period # None => x.period = event[e].period
      /\ event[e].period = None => x.period = row[t].period
  <2>1. PICK old : old = webhook[w].read
    OBVIOUS
  <2>2. ShapeOK(old) /\ old = row[t] /\ x = NextRow(old, e)
    BY <1>2, <1>3, <1>4, <2>1 DEF IInv, Shapes, WebhookOK, Serial
  <2>3. /\ ShapeOK(x) /\ x.sub = event[e].sub /\ x.status = event[e].status
        /\ x.lastEvent = e /\ x.lastAt = event[e].created /\ x.present = TRUE
    BY <1>4, <2>2, NextRowFits
  <2>4. (event[e].priced => x.plan = e) /\ (~event[e].priced => x.plan = old.plan)
    BY <1>4, <2>2, NextRowFits
  <2>5. /\ event[e].period # None => x.period = event[e].period
        /\ event[e].period = None => x.period = old.period
    BY <1>4, <2>2, NextRowFits
  <2>6. old = row[t]
    BY <2>2
  <2> QED
    BY <2>3, <2>4, <2>5, <2>6
<1>6. /\ row' = [row EXCEPT ![t] = x]
      /\ webhook' = [webhook EXCEPT ![w] = IdleWebhook]
      /\ applied' = [applied EXCEPT ![t] = applied[t] \cup {e}]
      /\ event' = event
  BY <1>1, <1>2, <1>3 DEF Write, stripe
<1>7. /\ row'[t] = x /\ \A z \in Tenant \ {t} : row'[z] = row[z]
      /\ applied'[t] = applied[t] \cup {e} /\ \A z \in Tenant \ {t} : applied'[z] = applied[z]
  BY <1>4, <1>6 DEF IInv, Shapes
<1>8. \A y \in Webhook : webhook'[y].pc = "hold" =>
        webhook'[y] = webhook[y] /\ webhook[y].tenant # t
  <2>1. \A y \in Webhook : webhook'[y].pc = "hold" => webhook'[y] = webhook[y] /\ y # w
    BY <1>6, IdleFits DEF IInv, Shapes
  <2> QED
    BY <2>1, <1>2, <1>4 DEF Serial
<1>9. event[e].created \in Nat /\ row[t].lastAt \in Nat \cup {None}
  BY <1>4, NoneApart DEF IInv, Shapes, ShapeOK, OrNone, EventOK, Emitted, NoEvent
<1>10. row[t].lastAt # None => row[t].lastAt <= event[e].created
  BY <1>1, <1>2, <1>4 DEF Serial
<1>11. \A f \in applied[t] :
         event[f].created \in Nat /\ event[f].created <= event[e].created
  <2> SUFFICES ASSUME NEW f \in applied[t]
               PROVE  event[f].created \in Nat /\ event[f].created <= event[e].created
    OBVIOUS
  <2>1. PICK l \in LatestOf(applied[t]) : row[t].lastAt = event[l].created
    BY <1>4 DEF Serial, ShowsALatestEvent, Shows
  <2>2. l \in applied[t] /\ event[f].created <= event[l].created
    BY <2>1 DEF LatestOf
  <2>3. f \in Event /\ l \in Event /\ Emitted(f) /\ Emitted(l)
    BY <1>4, <2>2 DEF IInv, Shapes, Serial
  <2>4. event[f].created \in Nat /\ event[l].created \in Nat
    BY <2>3, NoneApart DEF IInv, Shapes, EventOK, Emitted, NoEvent
  <2> QED
    BY <2>1, <2>2, <2>4, <1>9, <1>10, NoneApart
<1>12. ShowsALatestEvent'
  <2>1. ASSUME NEW z \in Tenant, z # t, applied'[z] # {}
        PROVE  Shows(row[z], applied[z])'
    <3>1. Shows(row[z], applied[z])
      BY <1>7, <2>1 DEF Serial, ShowsALatestEvent
    <3>2. row'[z] = row[z] /\ applied'[z] = applied[z] /\ event' = event
      BY <1>6, <1>7, <2>1
    <3> QED
      BY <3>1, <3>2 DEF Shows, LatestOf, Priced, Dated
  <2>2. Shows(row[t], applied[t])'
    <3>1. PICK old, S : old = row[t] /\ S = applied[t]
      OBVIOUS
    <3>2. /\ S = {} => old.plan = None /\ old.period = None
          /\ S # {} => Shows(old, S)
      BY <1>4, <3>1 DEF Serial, ShowsALatestEvent
    <3>3. /\ x.plan = IF event[e].priced THEN e ELSE old.plan
          /\ x.period = IF event[e].period # None THEN event[e].period ELSE old.period
          /\ \A f \in S : event[f].created \in Nat /\ event[f].created <= event[e].created
      BY <1>5, <1>11, <3>1
    <3>4. Shows(x, S \cup {e})
      BY <1>5, <1>9, <3>2, <3>3, ShowsNext
    <3>5. row'[t] = x /\ applied'[t] = S \cup {e} /\ event' = event
      BY <1>6, <1>7, <3>1
    <3> QED
      BY <3>4, <3>5 DEF Shows, LatestOf, Priced, Dated
  <2> QED
    BY <2>1, <2>2 DEF ShowsALatestEvent
<1>13. \A z \in Tenant :
        /\ applied'[z] = {} =>
             row'[z].lastAt = None /\ row'[z].plan = None /\ row'[z].period = None
        /\ row'[z].lastAt # None => row'[z].present
        /\ \A f \in applied'[z] : Emitted(f)
  BY <1>4, <1>5, <1>7 DEF Serial
<1>14. \A y \in Webhook : webhook'[y].pc = "hold" =>
        /\ webhook'[y].read = row'[webhook'[y].tenant]
        /\ row'[webhook'[y].tenant].lastAt # None =>
             row'[webhook'[y].tenant].lastAt <= event[webhook'[y].event].created
  <2>1. \A y \in Webhook : webhook'[y].pc = "hold" => webhook[y].tenant \in Tenant \ {t}
    BY <1>8 DEF IInv, Shapes, WebhookOK
  <2> QED
    BY <2>1, <1>7, <1>8 DEF Serial
<1>15. \A y, z \in Webhook :
        y # z /\ webhook'[y].pc = "hold" /\ webhook'[z].pc = "hold" =>
          webhook'[y].tenant # webhook'[z].tenant
  BY <1>8 DEF Serial
<1>16. Serial'
  BY <1>6, <1>12, <1>13, <1>14, <1>15 DEF Serial, Emitted
<1>17. row[t].lastAt # None => row'[t].lastAt # None /\ row'[t].lastAt >= row[t].lastAt
  BY <1>5, <1>7, <1>9, <1>10, NoneApart
<1>18. \A z \in Tenant \ {t} : row[z].lastAt # None =>
        row'[z].lastAt # None /\ row'[z].lastAt >= row[z].lastAt
  <2>1. \A z \in Tenant : row[z].lastAt # None => row[z].lastAt \in Nat
    BY DEF IInv, Shapes, ShapeOK, OrNone
  <2> QED
    BY <2>1, <1>7
<1> QED
  BY <1>16, <1>17, <1>18

(* Unless a job writes, every step keeps the rows serial and their clocks moving *)
(* forward.                                                                *)
LEMMA NextSerial ==
  ASSUME IInv, Serial, [Next]_vars, \A r \in Reconciler : ~UpdateRow(r)
  PROVE  /\ Serial'
         /\ \A t \in Tenant : row[t].lastAt # None =>
              row'[t].lastAt # None /\ row'[t].lastAt >= row[t].lastAt
<1>1. \A t \in Tenant : row[t].lastAt # None => row[t].lastAt \in Nat
  BY DEF IInv, Shapes, ShapeOK, OrNone
<1>2. CASE StripeStep
  <2>1. ASSUME NEW e \in Event, NEW x, Emits(e, x)
        PROVE  Serial' /\ row' = row
    BY <2>1, EmitsSerial DEF Emits
  <2>2. CASE SecondPasses
    <3>1. UNCHANGED <<row, webhook, event, applied>>
      BY <2>2 DEF SecondPasses
    <3> QED
      BY <3>1 DEF Serial, ShowsALatestEvent, Shows, LatestOf, Priced, Dated, Emitted
  <2>a. \A e, type, s, status, p, content :
          Announces(e, type, s, status, p, content) => \E x : Emits(e, x)
    BY Zenon DEF Announces
  <2>e. SecondPasses \/ \E e \in Event : \E x : Emits(e, x)
    BY <1>2, <2>a DEF StripeStep, OpenSubscription, ChangeSubscription,
                      DeleteSubscription, CompleteCheckout
  <2>3. Serial' /\ row' = row
    BY <2>1, <2>2, <2>e DEF SecondPasses
  <2> QED
    BY <2>3, <1>1
<1>3. ASSUME NEW w \in Webhook, NEW e \in Event, Receive(w, e)
      PROVE  Serial' /\ row' = row
  <2>1. WebhookOK(webhook[w])
    BY DEF IInv, Shapes
  <2>2. PICK t : webhook' = [webhook EXCEPT ![w] =
                   [webhook[w] EXCEPT !.pc = "wait", !.event = e, !.tenant = t]]
    BY <1>3 DEF Receive
  <2>3. [webhook[w] EXCEPT !.pc = "wait", !.event = e, !.tenant = t].pc # "hold"
    BY <2>1 DEF WebhookOK
  <2> QED
    BY <1>3, <2>2, <2>3, WebhookSerial DEF Receive, stripe
<1>4. ASSUME NEW w \in Webhook, Ignore(w) \/ AbortWebhook(w)
      PROVE  Serial' /\ row' = row
  BY <1>4, IdleFits, WebhookSerial DEF Ignore, AbortWebhook, stripe
<1>5. ASSUME NEW w \in Webhook, Decide(w)
      PROVE  Serial' /\ row' = row
  BY <1>5, DecideSerial DEF Decide
<1>6. CASE UNCHANGED vars
  BY <1>6, <1>1 DEF vars, Serial, ShowsALatestEvent, Shows, LatestOf, Priced, Dated, Emitted
<1>7. ASSUME NEW r \in Reconciler, ReconcileStep(r)
      PROVE  Serial' /\ row' = row
  <2>1. UNCHANGED <<row, webhook, event, applied>>
    BY <1>7 DEF ReconcileStep, ListRow, RetrieveStatus, SkipRow, FailRow, stripe
  <2> QED
    BY <2>1 DEF Serial, ShowsALatestEvent, Shows, LatestOf, Priced, Dated, Emitted
<1> QED
  BY <1>1, <1>2, <1>3, <1>4, <1>5, <1>6, <1>7, WriteSerial DEF Next, WebhookStep

(* Reconciliation jobs may read and fail, but not write.                   *)
NoJobWrites == [][\A r \in Reconciler : ~UpdateRow(r)]_vars

(* ShowsALatestEvent: until a reconciliation writes, a row shows the status*)
(* of one event of the latest second it has absorbed, and the plan and the *)
(* period of the latest that gave one, however the webhooks overlap.       *)
THEOREM RowsShowALatestEvent == Spec /\ NoJobWrites => []ShowsALatestEvent
<1>1. Init => IInv /\ Serial
  BY InitInv, InitSerial
<1>2. /\ IInv /\ Serial /\ [Next]_vars
      /\ [\A r \in Reconciler : ~UpdateRow(r)]_vars
      => (IInv /\ Serial)'
  <2>1. ASSUME IInv, Serial, UNCHANGED vars PROVE Serial'
    BY <2>1 DEF vars, Serial, ShowsALatestEvent, Shows, LatestOf, Priced, Dated, Emitted
  <2> QED
    BY <2>1, NextInv, NextSerial
<1>3. Serial => ShowsALatestEvent
  BY DEF Serial
<1> QED
  BY <1>1, <1>2, <1>3, PTL DEF Spec, NoJobWrites

(* ClockNeverGoesBack: and the time it records never decreases.            *)
THEOREM ClocksGoForward == Spec /\ NoJobWrites => ClockNeverGoesBack
<1>1. Init => IInv /\ Serial
  BY InitInv, InitSerial
<1>2. /\ IInv /\ Serial /\ [Next]_vars
      /\ [\A r \in Reconciler : ~UpdateRow(r)]_vars
      => /\ (IInv /\ Serial)'
         /\ [\A t \in Tenant : row[t].lastAt # None =>
              row'[t].lastAt # None /\ row'[t].lastAt >= row[t].lastAt]_vars
  <2>1. ASSUME IInv, Serial, UNCHANGED vars PROVE Serial'
    BY <2>1 DEF vars, Serial, ShowsALatestEvent, Shows, LatestOf, Priced, Dated, Emitted
  <2> QED
    BY <2>1, NextInv, NextSerial
<1> QED
  BY <1>1, <1>2, PTL DEF Spec, NoJobWrites, ClockNeverGoesBack
----------------------------------------------------------------------------
(* The ids a row remembers.                                                *)

(* Ids of events, no more than the cap, and none of them twice             *)
RecentOK(ids) ==
  /\ ids \in Seq(Event) /\ Len(ids) <= RecentCap
  /\ \A i, j \in DOMAIN ids : ids[i] = ids[j] => i = j

Lacks(ids, e) == \A i \in DOMAIN ids : ids[i] # e

(* What appending e to ids makes of them: e is the last, and only of as    *)
(* many ids as the cap allows is the first one dropped.                    *)
Appended(q, ids, e) ==
  \E d \in {0, 1} :
    /\ Len(q) = Len(ids) + 1 - d /\ (d = 1 => Len(ids) = RecentCap)
    /\ \A i \in 1 .. Len(ids) - d : q[i] = ids[i + d]
    /\ Len(q) \in 1 .. RecentCap /\ q[Len(q)] = e

(* A new id makes them no more than the cap.                               *)
LEMMA AppendFits ==
  ASSUME NEW ids, RecentOK(ids), NEW e \in Event, Lacks(ids, e)
  PROVE  /\ RecentOK(Newest(Append(ids, e)))
         /\ Appended(Newest(Append(ids, e)), ids, e)
<1>1. RecentCap \in Nat /\ RecentCap >= 1
  BY CapAssumption
<1>2. PICK n \in Nat : n = Len(ids) /\ n <= RecentCap
  BY DEF RecentOK
<1>3. ids \in Seq(Event) /\ DOMAIN ids = 1 .. n
  BY <1>2 DEF RecentOK
<1>l. PICK longer : longer = Append(ids, e)
  OBVIOUS
<1>4. /\ longer \in Seq(Event) /\ Len(longer) = n + 1
      /\ \A i \in 1 .. n : longer[i] = ids[i]
      /\ longer[n + 1] = e
  BY <1>2, <1>3, <1>l
<1>5. \A i, j \in 1 .. n + 1 : longer[i] = longer[j] => i = j
  <2>1. \A i, j \in 1 .. n : ids[i] = ids[j] => i = j
    BY <1>3 DEF RecentOK
  <2>2. \A i \in 1 .. n : ids[i] # e
    BY <1>3 DEF Lacks
  <2>3. \A i \in 1 .. n + 1 : i \in 1 .. n \/ i = n + 1
    BY <1>2
  <2> QED
    BY <1>4, <2>1, <2>2, <2>3
<1>6. PICK d \in {0, 1} : d = IF n + 1 > RecentCap THEN n + 1 - RecentCap ELSE 0
  BY <1>1, <1>2
<1>9. PICK m \in Nat : m = n + 1 - d
  BY <1>1, <1>2, <1>6
<1>10. m <= RecentCap /\ m >= 1 /\ m + d = n + 1 /\ n - d = m - 1
  BY <1>1, <1>2, <1>6, <1>9
<1>7. PICK q : q = [i \in 1 .. m |-> longer[i + d]]
  OBVIOUS
<1>8. Newest(longer) = q
  <2>1. PICK k : k = Len(longer)
    OBVIOUS
  <2>2. PICK z : z = IF k > RecentCap THEN k - RecentCap ELSE 0
    OBVIOUS
  <2>3. Newest(longer) = [i \in 1 .. (k - z) |-> longer[i + z]]
    BY <2>1, <2>2, Zenon DEF Newest
  <2>4. z = d /\ k - z = m
    BY <1>1, <1>2, <1>4, <1>6, <1>9, <2>1, <2>2
  <2> QED
    BY <1>7, <2>3, <2>4
<1>b. \A i \in 1 .. m : i + d \in 1 .. n + 1
  BY <1>2, <1>10
<1>c. \A i \in 1 .. m : q[i] = longer[i + d]
  BY <1>7
<1>a. q \in Seq(Event) /\ Len(q) = m /\ DOMAIN q = 1 .. m
  <2>1. \A i \in 1 .. n + 1 : longer[i] \in Event
    BY <1>4
  <2>2. q \in [1 .. m -> Event]
    BY <1>7, <1>b, <2>1
  <2>3. q \in Seq(Event)
    BY <2>2, SeqDef
  <2>4. DOMAIN q = 1 .. m
    BY <2>2
  <2>5. Len(q) = m
    BY <2>3, <2>4
  <2> QED
    BY <2>3, <2>4, <2>5
<1>12. RecentOK(q)
  <2>1. \A i, j \in 1 .. m : q[i] = q[j] => i = j
    <3>1. SUFFICES ASSUME NEW i \in 1 .. m, NEW j \in 1 .. m, q[i] = q[j] PROVE i = j
      OBVIOUS
    <3>2. PICK k, l : k = i + d /\ l = j + d
      OBVIOUS
    <3>3. k \in 1 .. n + 1 /\ l \in 1 .. n + 1 /\ longer[k] = longer[l]
      BY <1>b, <1>c, <3>1, <3>2
    <3>4. k = l
      BY <1>5, <3>3
    <3> QED
      BY <3>2, <3>4
  <2>2. q \in Seq(Event)
    BY <1>a
  <2>3. DOMAIN q = 1 .. m
    BY <1>a
  <2>4. Len(q) <= RecentCap
    BY <1>10, <1>a
  <2>5. \A i, j \in DOMAIN q : q[i] = q[j] => i = j
    BY <2>1, <2>3, Zenon
  <2> QED
    BY <2>2, <2>4, <2>5, Zenon DEF RecentOK
<1>13. q[m] = e
  <2>1. m \in 1 .. m
    BY <1>10
  <2>2. q[m] = longer[m + d]
    BY <1>c, <2>1
  <2> QED
    BY <1>4, <1>10, <2>2
<1>14. \A i \in 1 .. n - d : q[i] = ids[i + d]
  <2>1. \A i \in 1 .. n - d : i \in 1 .. m /\ i + d \in 1 .. n
    BY <1>2, <1>10
  <2> QED
    BY <1>4, <1>c, <2>1
<1>15. d = 1 => n = RecentCap
  BY <1>1, <1>2, <1>6
<1>16. Len(q) = Len(ids) + 1 - d /\ Len(q) \in 1 .. RecentCap /\ q[Len(q)] = e
  <2>1. Len(q) = m
    BY <1>a
  <2>2. m \in 1 .. RecentCap
    BY <1>1, <1>10
  <2> QED
    BY <1>2, <1>9, <1>13, <2>1, <2>2
<1>17. Appended(q, ids, e)
  <2>1. (d = 1 => Len(ids) = RecentCap) /\ \A i \in 1 .. Len(ids) - d : q[i] = ids[i + d]
    BY <1>2, <1>14, <1>15
  <2> QED
    BY <1>16, <2>1, Zenon DEF Appended
<1> QED
  BY <1>l, <1>8, <1>12, <1>17

(* Without e the ids are fewer, in their order, and lack it.               *)
LEMMA WithoutFits ==
  ASSUME NEW ids, RecentOK(ids), NEW e \in Event
  PROVE  RecentOK(Without(ids, e)) /\ Lacks(Without(ids, e), e)
<1>1. PICK n \in Nat : n = Len(ids) /\ DOMAIN ids = 1 .. n
  BY DEF RecentOK
<1>2. n <= RecentCap /\ RecentCap \in Nat
  BY <1>1, CapAssumption DEF RecentOK
<1>3. CASE Lacks(ids, e)
  BY <1>3 DEF Lacks, Without
<1>4. CASE ~Lacks(ids, e)
  <2>1. PICK p : p = CHOOSE i \in DOMAIN ids : ids[i] = e
    OBVIOUS
  <2>2. p \in 1 .. n /\ ids[p] = e
    BY <1>1, <1>4, <2>1 DEF Lacks
  <2>3. PICK q : q = [i \in 1 .. (n - 1) |-> IF i < p THEN ids[i] ELSE ids[i + 1]]
    OBVIOUS
  <2>4. Without(ids, e) = q
    BY <1>1, <1>4, <2>1, <2>3 DEF Without, Lacks
  <2>5. n - 1 \in Nat /\ \A i \in 1 .. n - 1 : i \in 1 .. n /\ i + 1 \in 1 .. n
    BY <1>1, <2>2
  <2>6. \A i \in 1 .. n : ids[i] \in Event
    BY <1>1 DEF RecentOK
  <2>7. q \in [1 .. n - 1 -> Event]
    BY <2>3, <2>5, <2>6
  <2>8. q \in Seq(Event)
    BY <2>5, <2>7, SeqDef
  <2>9. Len(q) = n - 1 /\ DOMAIN q = 1 .. n - 1
    BY <2>5, <2>7, <2>8
  <2>10. \A i \in 1 .. n - 1 : \E k \in 1 .. n :
           k = (IF i < p THEN i ELSE i + 1) /\ q[i] = ids[k] /\ k # p
    BY <2>2, <2>3, <2>5
  <2>11. \A i, j \in 1 .. n : ids[i] = ids[j] => i = j
    BY <1>1 DEF RecentOK
  <2>12. \A i, j \in 1 .. n - 1 : q[i] = q[j] => i = j
    <3>1. SUFFICES ASSUME NEW i \in 1 .. n - 1, NEW j \in 1 .. n - 1, q[i] = q[j] PROVE i = j
      OBVIOUS
    <3>2. PICK k \in 1 .. n : k = (IF i < p THEN i ELSE i + 1) /\ q[i] = ids[k]
      BY <2>10
    <3>3. PICK l \in 1 .. n : l = (IF j < p THEN j ELSE j + 1) /\ q[j] = ids[l]
      BY <2>10
    <3>4. k = l
      BY <2>11, <3>1, <3>2, <3>3
    <3> QED
      BY <2>2, <3>2, <3>3, <3>4
  <2>13. \A i \in 1 .. n - 1 : q[i] # e
    BY <2>2, <2>10, <2>11
  <2> QED
    BY <1>2, <2>4, <2>5, <2>8, <2>9, <2>12, <2>13 DEF RecentOK, Lacks
<1> QED
  BY <1>3, <1>4

(* What a row remembers of an event, and that nothing else changes if the  *)
(* event is new to it.                                                     *)
LEMMA RememberFits ==
  ASSUME NEW ids, RecentOK(ids), NEW e \in Event
  PROVE  /\ RecentOK(Remember(ids, e))
         /\ Lacks(ids, e) => Appended(Remember(ids, e), ids, e)
<1>1. PICK wo : wo = Without(ids, e)
  OBVIOUS
<1>2. RecentOK(wo) /\ Lacks(wo, e)
  BY <1>1, WithoutFits
<1>3. PICK q : q = Remember(ids, e)
  OBVIOUS
<1>4. q = Newest(Append(wo, e))
  BY <1>1, <1>3 DEF Remember
<1>5. RecentOK(q) /\ Appended(q, wo, e)
  BY <1>2, <1>4, AppendFits
<1>6. Lacks(ids, e) => wo = ids
  BY <1>1 DEF Lacks, Without
<1> QED
  BY <1>3, <1>5, <1>6


----------------------------------------------------------------------------
(* Every copy of a row's ids.                                              *)
Recents ==
  /\ \A t \in Tenant : RecentOK(row[t].recent)
  /\ \A w \in Webhook : RecentOK(webhook[w].read.recent)
  /\ \A r \in Reconciler : RecentOK(reconcile[r].read.recent)

(* A row Stripe has not touched remembers nothing.                         *)
LEMMA FreshRecents == RecentOK(NoRow.recent) /\ RecentOK(SeededRow.recent)
<1>1. RecentOK(<<>>)
  BY CapAssumption DEF RecentOK
<1>2. NoRow.recent = <<>> /\ SeededRow.recent = <<>>
  BY DEF NoRow, SeededRow
<1> QED
  BY <1>1, <1>2

(* Nothing is remembered before the first checkout.                        *)
LEMMA InitRecents == Init => Recents
<1> SUFFICES ASSUME Init PROVE Recents
  OBVIOUS
<1>1. \A t \in Tenant : row[t] \in {NoRow, SeededRow}
  BY DEF Init
<1>2. \A w \in Webhook : webhook[w].read = NoRow
  BY DEF Init, IdleWebhook
<1>3. \A r \in Reconciler : reconcile[r].read = NoRow
  BY DEF Init, IdleReconcile
<1> QED
  BY <1>1, <1>2, <1>3, FreshRecents DEF Recents

(* Whatever a webhook or a job reads is a row.                             *)
LEMMA ReadsFit ==
  ASSUME Recents,
         \A t \in Tenant : row'[t] = row[t],
         \A w \in Webhook : webhook'[w].read \in {webhook[w].read, NoRow} \cup {row[t] : t \in Tenant},
         \A r \in Reconciler :
           reconcile'[r].read \in {reconcile[r].read, NoRow} \cup {row[t] : t \in Tenant}
  PROVE  Recents'
<1>1. \A t \in Tenant : RecentOK(row'[t].recent)
  BY DEF Recents
<1>2. \A w \in Webhook : RecentOK(webhook'[w].read.recent)
  BY FreshRecents DEF Recents
<1>3. \A r \in Reconciler : RecentOK(reconcile'[r].read.recent)
  BY FreshRecents DEF Recents
<1> QED
  BY <1>1, <1>2, <1>3 DEF Recents, RecentOK

(* No step makes a row remember anything but some events, each once, and   *)
(* no more than the cap.                                                   *)
LEMMA NextRecents == IInv /\ Recents /\ [Next]_vars => Recents'
<1> SUFFICES ASSUME IInv, Recents, [Next]_vars PROVE Recents'
  OBVIOUS
<1>1. CASE UNCHANGED <<row, webhook, reconcile>>
  BY <1>1, ReadsFit
<1>2. CASE StripeStep \/ UNCHANGED vars
  <2>1. UNCHANGED <<row, webhook, reconcile>>
    BY <1>2 DEF vars, StripeStep, OpenSubscription, ChangeSubscription,
                DeleteSubscription, CompleteCheckout, SecondPasses, Emits, Announces
  <2> QED
    BY <2>1, <1>1
<1>3. ASSUME NEW w \in Webhook, NEW e \in Event, Receive(w, e)
      PROVE  Recents'
  <2>1. PICK t : webhook' = [webhook EXCEPT ![w] =
                   [webhook[w] EXCEPT !.pc = "wait", !.event = e, !.tenant = t]]
    BY <1>3 DEF Receive
  <2>2. WebhookOK(webhook[w])
    BY DEF IInv, Shapes
  <2>3. \A x \in Webhook : webhook'[x].read = webhook[x].read
    BY <2>1, <2>2 DEF IInv, Shapes, WebhookOK
  <2> QED
    BY <1>3, <2>3, ReadsFit DEF Receive
<1>4. ASSUME NEW w \in Webhook, Decide(w)
      PROVE  Recents'
  <2>1. WebhookOK(webhook[w]) /\ webhook[w].tenant \in Tenant
    BY <1>4 DEF IInv, Shapes, WebhookOK, Decide
  <2>2. /\ webhook'[w].read = row[webhook[w].tenant]
        /\ \A x \in Webhook \ {w} : webhook'[x].read = webhook[x].read
    BY <1>4, <2>1 DEF Decide, IInv, Shapes, WebhookOK
  <2> QED
    BY <1>4, <2>1, <2>2, ReadsFit DEF Decide
<1>5. ASSUME NEW w \in Webhook, Ignore(w) \/ AbortWebhook(w)
      PROVE  Recents'
  <2>1. \A x \in Webhook : webhook'[x].read \in {webhook[x].read, NoRow}
    BY <1>5 DEF Ignore, AbortWebhook, IdleWebhook, IInv, Shapes
  <2> QED
    BY <1>5, <2>1, ReadsFit DEF Ignore, AbortWebhook
<1>6. ASSUME NEW w \in Webhook, Write(w)
      PROVE  Recents'
  <2>1. PICK e : e = webhook[w].event
    OBVIOUS
  <2>2. PICK t : t = webhook[w].tenant
    OBVIOUS
  <2>3. PICK q : q = Remember(webhook[w].read.recent, e)
    OBVIOUS
  <2>4. e \in Event /\ t \in Tenant /\ Emitted(e)
    BY <1>6, <2>1, <2>2 DEF IInv, Shapes, Homes, WebhookOK, Write
  <2>5. RecentOK(q)
    BY <2>3, <2>4, RememberFits DEF Recents
  <2>6. PICK x : x = NextRow(webhook[w].read, e)
    OBVIOUS
  <2>7. x.recent = q
    <3>1. ShapeOK(webhook[w].read)
      BY DEF IInv, Shapes, WebhookOK
    <3> QED
      BY <2>3, <2>4, <2>6, <3>1, NextRowFits
  <2>8. row' = [row EXCEPT ![t] = x] /\ webhook' = [webhook EXCEPT ![w] = IdleWebhook]
    BY <1>6, <2>1, <2>2, <2>6 DEF Write
  <2>9. row'[t] = x /\ \A z \in Tenant \ {t} : row'[z] = row[z]
    BY <2>4, <2>8 DEF IInv, Shapes
  <2>10. \A z \in Tenant : RecentOK(row'[z].recent)
    BY <2>5, <2>7, <2>9 DEF Recents
  <2>11. \A y \in Webhook : webhook'[y].read \in {webhook[y].read, NoRow}
    BY <2>8 DEF IdleWebhook, IInv, Shapes
  <2>12. \A y \in Webhook : RecentOK(webhook'[y].read.recent)
    BY <2>11, FreshRecents DEF Recents
  <2>13. \A r \in Reconciler : RecentOK(reconcile'[r].read.recent)
    BY <1>6 DEF Write, Recents
  <2> QED
    BY <2>10, <2>12, <2>13 DEF Recents, RecentOK
<1>7. ASSUME NEW r \in Reconciler, NEW t \in Tenant, ListRow(r, t)
      PROVE  Recents'
  <2>1. ReconcileOK(reconcile[r])
    BY DEF IInv, Shapes
  <2>2. /\ reconcile'[r].read = row[t]
        /\ \A x \in Reconciler \ {r} : reconcile'[x].read = reconcile[x].read
    BY <1>7, <2>1 DEF ListRow, IInv, Shapes, ReconcileOK
  <2> QED
    BY <1>7, <2>2, ReadsFit DEF ListRow
<1>8. ASSUME NEW r \in Reconciler, RetrieveStatus(r)
      PROVE  Recents'
  <2>1. ReconcileOK(reconcile[r])
    BY DEF IInv, Shapes
  <2>2. PICK s : s = provider[reconcile[r].read.sub]
    OBVIOUS
  <2>3. PICK p : reconcile' = [reconcile EXCEPT ![r] =
                   [reconcile[r] EXCEPT !.pc = "retrieved", !.status = s, !.period = p]]
    BY <1>8, <2>2 DEF RetrieveStatus
  <2>4. \A x \in Reconciler : reconcile'[x].read = reconcile[x].read
    BY <2>1, <2>3 DEF IInv, Shapes, ReconcileOK
  <2> QED
    BY <1>8, <2>4, ReadsFit DEF RetrieveStatus
<1>9. ASSUME NEW r \in Reconciler, SkipRow(r) \/ FailRow(r)
      PROVE  Recents'
  <2>1. \A x \in Reconciler : reconcile'[x].read \in {reconcile[x].read, NoRow}
    BY <1>9 DEF SkipRow, FailRow, IdleReconcile, IInv, Shapes
  <2> QED
    BY <1>9, <2>1, ReadsFit DEF SkipRow, FailRow
<1>10. ASSUME NEW r \in Reconciler, UpdateRow(r)
      PROVE  Recents'
  <2>1. PICK old : old = reconcile[r].read
    OBVIOUS
  <2>2. PICK t : t = reconcile[r].tenant
    OBVIOUS
  <2>3. PICK n : n = MapStatus(reconcile[r].status)
    OBVIOUS
  <2>4. t \in Tenant /\ ShapeOK(row[t])
    BY <1>10, <2>2 DEF IInv, Shapes, ReconcileOK, UpdateRow
  <2>p. PICK p : p = reconcile[r].period
    OBVIOUS
  <2>5. PICK x : x = [row[t] EXCEPT !.status = n, !.period = p, !.customer = CustomerOf[old.sub],
                        !.lastEvent = old.lastEvent, !.lastAt = old.lastAt, !.recent = old.recent]
    OBVIOUS
  <2>6. x.recent = old.recent
    BY <2>4, <2>5 DEF ShapeOK
  <2>7. row' = [row EXCEPT ![t] = x] /\ reconcile' = [reconcile EXCEPT ![r] = IdleReconcile]
    BY <1>10, <2>1, <2>2, <2>3, <2>p, <2>5 DEF UpdateRow
  <2>8. row'[t] = x /\ \A z \in Tenant \ {t} : row'[z] = row[z]
    BY <2>4, <2>7 DEF IInv, Shapes
  <2>9. \A z \in Tenant : RecentOK(row'[z].recent)
    BY <2>1, <2>6, <2>8 DEF Recents
  <2>10. \A y \in Reconciler : reconcile'[y].read \in {reconcile[y].read, NoRow}
    BY <2>7 DEF IdleReconcile, IInv, Shapes
  <2>11. \A y \in Reconciler : RecentOK(reconcile'[y].read.recent)
    BY <2>10, FreshRecents DEF Recents
  <2>12. \A w \in Webhook : RecentOK(webhook'[w].read.recent)
    BY <1>10 DEF UpdateRow, Recents
  <2> QED
    BY <2>9, <2>11, <2>12 DEF Recents, RecentOK
<1> QED
  BY <1>2, <1>3, <1>4, <1>5, <1>6, <1>7, <1>8, <1>9, <1>10
     DEF Next, WebhookStep, ReconcileStep

(* What Stripe makes of a subscription.                                    *)
ProviderOK == provider \in [Sub -> ProviderStatus \cup {None, "canceled"}]

(* Stripe moves a subscription through its statuses, and no further.       *)
LEMMA NextProvider == ProviderOK /\ [Next]_vars => ProviderOK'
<1> SUFFICES ASSUME ProviderOK, [Next]_vars PROVE ProviderOK'
  OBVIOUS
<1>1. ASSUME NEW s \in Sub, NEW status \in ProviderStatus \cup {None, "canceled"},
             provider' = [provider EXCEPT ![s] = status]
      PROVE  ProviderOK'
  BY <1>1 DEF ProviderOK
<1>2. CASE UNCHANGED provider
  BY <1>2 DEF ProviderOK
<1>3. CASE StripeStep
  BY <1>1, <1>2, <1>3 DEF StripeStep, OpenSubscription, ChangeSubscription,
                          DeleteSubscription, CompleteCheckout, SecondPasses
<1>4. ASSUME NEW w \in Webhook, WebhookStep(w) PROVE ProviderOK'
  BY <1>2, <1>4 DEF WebhookStep, Receive, Decide, Ignore, Write, AbortWebhook, stripe
<1>5. ASSUME NEW r \in Reconciler, ReconcileStep(r) PROVE ProviderOK'
  BY <1>2, <1>5 DEF ReconcileStep, ListRow, RetrieveStatus, UpdateRow, SkipRow, FailRow, stripe
<1> QED
  BY <1>2, <1>3, <1>4, <1>5 DEF Next, vars

(* TypeOK: and no row ever remembers more events than the cap, whoever     *)
(* writes it, and from whatever it read.                                   *)
THEOREM TypeCorrect == Spec => []TypeOK
<1>1. Init => IInv /\ Recents /\ ProviderOK
  BY InitInv, InitRecents DEF Init, ProviderOK
<1>2. IInv /\ Recents /\ ProviderOK /\ [Next]_vars => (IInv /\ Recents /\ ProviderOK)'
  BY NextInv, NextRecents, NextProvider
<1>3. IInv /\ Recents /\ ProviderOK => TypeOK
  BY DEF IInv, Recents, RecentOK, ProviderOK, TypeOK
<1> QED
  BY <1>1, <1>2, <1>3, PTL DEF Spec

----------------------------------------------------------------------------
(* What the remembered ids are worth against a second delivery.            *)

(* The events of one second                                                *)
EventsOf(x) == {e \in Event : Emitted(e) /\ event[e].created = x}

(* No second has more events than a row remembers.                         *)
FewASecond == \A x \in Nat : IsFiniteSet(EventsOf(x)) /\ Cardinality(EventsOf(x)) <= RecentCap

(* A row remembers events it absorbed, oldest first, and all it absorbed   *)
(* of its latest second.                                                   *)
RowRecalls(ids, t) ==
  /\ \A i \in 1 .. Len(ids) : ids[i] \in applied[t]
  /\ \A i, j \in 1 .. Len(ids) : i < j => event[ids[i]].created <= event[ids[j]].created
  /\ \A f \in applied[t] : event[f].created = row[t].lastAt => \E i \in 1 .. Len(ids) : ids[i] = f

(* What a webhook is about to write is not written yet.                    *)
HeldIsNew ==
  \A w \in Webhook : webhook[w].pc = "hold" => webhook[w].event \notin applied[webhook[w].tenant]

Recalls == HeldIsNew /\ \A t \in Tenant : RowRecalls(row[t].recent, t)

(* Nothing is absorbed before the first checkout.                          *)
LEMMA InitRecalls == Init => Recalls
<1> SUFFICES ASSUME Init PROVE Recalls
  OBVIOUS
<1>1. \A w \in Webhook : webhook[w].pc = "idle"
  BY DEF Init, IdleWebhook
<1>2. ASSUME NEW t \in Tenant PROVE RowRecalls(row[t].recent, t)
  <2>1. applied[t] = {} /\ row[t] \in {NoRow, SeededRow}
    BY DEF Init
  <2>2. row[t].recent = <<>>
    BY <2>1 DEF NoRow, SeededRow
  <2>3. Len(row[t].recent) = 0
    BY <2>2
  <2> QED
    BY <2>1, <2>3 DEF RowRecalls
<1> QED
  BY <1>1, <1>2 DEF Recalls, HeldIsNew

(* What an absorbed event is.                                              *)
LEMMA AbsorbedEvents ==
  ASSUME IInv, Serial, NEW t \in Tenant, NEW f \in applied[t]
  PROVE  f \in Event /\ Emitted(f) /\ event[f].created \in Nat
         /\ row[t].lastAt \in Nat /\ event[f].created <= row[t].lastAt /\ row[t].present
<1>1. f \in Event /\ Emitted(f)
  BY DEF IInv, Shapes, Serial
<1>2. event[f].created \in Nat
  BY <1>1, NoneApart DEF IInv, Shapes, EventOK, Emitted, NoEvent
<1>3. PICK l \in LatestOf(applied[t]) : row[t].lastAt = event[l].created
  BY DEF Serial, ShowsALatestEvent, Shows
<1>4. l \in applied[t] /\ row[t].lastAt = event[l].created /\ event[f].created <= event[l].created
  BY <1>3 DEF LatestOf
<1>5. l \in Event /\ Emitted(l)
  BY <1>4 DEF IInv, Shapes, Serial
<1>6. event[l].created \in Nat
  BY <1>5, NoneApart DEF IInv, Shapes, EventOK, Emitted, NoEvent
<1>7. row[t].lastAt # None
  BY <1>4, <1>6, NoneApart
<1>8. row[t].present
  BY <1>7 DEF Serial
<1> QED
  BY <1>1, <1>2, <1>4, <1>6, <1>8

(* Under the lock, an event that is not stale has not been absorbed.       *)
LEMMA AppliesToNew ==
  ASSUME IInv, Serial, Recents, Recalls, NEW e \in Event, NEW t \in Tenant, Applies(e, t)
  PROVE  e \notin applied[t]
<1> SUFFICES ASSUME e \in applied[t] PROVE FALSE
  OBVIOUS
<1>1. /\ event[e].created \in Nat /\ row[t].lastAt \in Nat
      /\ event[e].created <= row[t].lastAt /\ row[t].present
  BY AbsorbedEvents
<1>2. ~Stale(e, row[t])
  BY <1>1 DEF Applies
<1>3. /\ \A i \in DOMAIN row[t].recent : row[t].recent[i] # e
      /\ ~(row[t].lastAt > event[e].created)
  BY <1>1, <1>2, NoneApart DEF Stale
<1>4. event[e].created = row[t].lastAt
  BY <1>1, <1>3
<1>5. DOMAIN row[t].recent = 1 .. Len(row[t].recent)
  BY DEF Recents, RecentOK
<1> QED
  BY <1>3, <1>4, <1>5 DEF Recalls, RowRecalls

(* A full row whose ids are all of one second has absorbed every event of  *)
(* that second.                                                            *)
LEMMA FullSecond ==
  ASSUME FewASecond, NEW x \in Nat, NEW ids, RecentOK(ids), Len(ids) = RecentCap,
         \A i \in 1 .. Len(ids) : ids[i] \in EventsOf(x),
         NEW e \in EventsOf(x)
  PROVE  \E i \in 1 .. Len(ids) : ids[i] = e
<1> SUFFICES ASSUME \A i \in 1 .. Len(ids) : ids[i] # e PROVE FALSE
  OBVIOUS
<1>1. PICK S : S = EventsOf(x)
  OBVIOUS
<1>2. IsFiniteSet(S) /\ Cardinality(S) <= RecentCap /\ Cardinality(S) \in Nat
  BY <1>1, FS_CardinalityType DEF FewASecond
<1>3. PICK n \in Nat : n = RecentCap /\ n = Len(ids)
  BY CapAssumption
<1>4. PICK D : D = 1 .. n + 1
  OBVIOUS
<1>5. IsFiniteSet(D) /\ Cardinality(D) = n + 1
  <2>1. 1 \in Int /\ n + 1 \in Int
    BY <1>3
  <2> QED
    BY <2>1, <1>3, <1>4, FS_Interval
<1>6. PICK g : g = [i \in D |-> IF i = n + 1 THEN e ELSE ids[i]]
  OBVIOUS
<1>7. \A i \in D : i = n + 1 \/ i \in 1 .. n
  BY <1>3, <1>4
<1>8. g \in [D -> S]
  BY <1>1, <1>3, <1>6, <1>7
<1>9. \A i, j \in 1 .. n : ids[i] = ids[j] => i = j
  <2>1. DOMAIN ids = 1 .. n
    BY <1>3 DEF RecentOK
  <2> QED
    BY <2>1, Zenon DEF RecentOK
<1>10. \A i, j \in D : g[i] = g[j] => i = j
  <2>1. \A i \in 1 .. n : ids[i] # e
    BY <1>3
  <2>2. \A i \in D : g[i] = IF i = n + 1 THEN e ELSE ids[i]
    BY <1>6
  <2> QED
    BY <2>1, <2>2, <1>7, <1>9
<1>11. g \in Injection(D, S)
  BY <1>8, <1>10 DEF Injection, IsInjective
<1>12. Cardinality(D) <= Cardinality(S)
  BY <1>2, <1>11, FS_Injection
<1> QED
  BY <1>2, <1>3, <1>5, <1>12

(* A row that absorbs a new event, no older than its latest, recalls still.*)
LEMMA AppendRecalls ==
  ASSUME IInv, Serial, Recents, FewASecond, NEW t \in Tenant, NEW e \in Event, Emitted(e),
         e \notin applied[t], RowRecalls(row[t].recent, t),
         row[t].lastAt # None => row[t].lastAt <= event[e].created,
         NEW q, RecentOK(q), Appended(q, row[t].recent, e)
  PROVE  /\ \A i \in 1 .. Len(q) : q[i] \in applied[t] \cup {e}
         /\ \A i, j \in 1 .. Len(q) : i < j => event[q[i]].created <= event[q[j]].created
         /\ \A f \in applied[t] \cup {e} :
              event[f].created = event[e].created => \E i \in 1 .. Len(q) : q[i] = f
<1>1. PICK ids : ids = row[t].recent
  OBVIOUS
<1>2. RecentOK(ids)
  BY <1>1 DEF Recents
<1>3. PICK n \in Nat : n = Len(ids) /\ n <= RecentCap
  BY <1>2 DEF RecentOK
<1>4. /\ \A i \in 1 .. n : ids[i] \in applied[t]
      /\ \A i, j \in 1 .. n : i < j => event[ids[i]].created <= event[ids[j]].created
      /\ \A f \in applied[t] : event[f].created = row[t].lastAt => \E i \in 1 .. n : ids[i] = f
  BY <1>1, <1>3 DEF RowRecalls
<1>5. PICK d \in {0, 1} :
        /\ Len(q) = Len(ids) + 1 - d /\ (d = 1 => Len(ids) = RecentCap)
        /\ \A i \in 1 .. Len(ids) - d : q[i] = ids[i + d]
        /\ Len(q) \in 1 .. RecentCap /\ q[Len(q)] = e
  BY <1>1 DEF Appended
<1>6. PICK m \in Nat : m = Len(q) /\ m = n + 1 - d /\ m >= 1
  BY <1>3, <1>5, CapAssumption
<1>7. \A i \in 1 .. m : i = m \/ (i \in 1 .. n - d /\ i + d \in 1 .. n)
  BY <1>3, <1>5, <1>6
<1>8. /\ q[m] = e
      /\ \A i \in 1 .. n - d : q[i] = ids[i + d]
      /\ d = 1 => n = RecentCap
  BY <1>3, <1>5, <1>6
<1>9. event[e].created \in Nat
  BY NoneApart DEF IInv, Shapes, EventOK, Emitted, NoEvent
<1>10. \A f \in applied[t] :
         /\ f \in Event /\ Emitted(f) /\ event[f].created \in Nat
         /\ row[t].lastAt \in Nat /\ event[f].created <= row[t].lastAt
  BY AbsorbedEvents
<1>11. \A f \in applied[t] :
         /\ event[f].created <= event[e].created
         /\ event[f].created = event[e].created => event[f].created = row[t].lastAt
  BY <1>9, <1>10, NoneApart
<1>12. \A i \in 1 .. m : q[i] \in applied[t] \cup {e}
  BY <1>4, <1>7, <1>8
<1>13. ASSUME NEW i \in 1 .. m, NEW j \in 1 .. m, i < j
       PROVE  event[q[i]].created <= event[q[j]].created
  <2>1. i # m /\ i \in 1 .. n - d /\ i + d \in 1 .. n /\ q[i] = ids[i + d]
    BY <1>6, <1>7, <1>8, <1>13
  <2>2. CASE j = m
    BY <1>4, <1>8, <1>11, <2>1, <2>2
  <2>3. CASE j # m
    <3>1. j + d \in 1 .. n /\ q[j] = ids[j + d]
      BY <1>7, <1>8, <2>3
    <3>2. PICK k \in 1 .. n, l \in 1 .. n : k = i + d /\ l = j + d
      BY <2>1, <3>1
    <3>3. k < l
      BY <1>13, <3>2
    <3>4. event[ids[k]].created <= event[ids[l]].created
      BY <1>4, <3>3
    <3> QED
      BY <2>1, <3>1, <3>2, <3>4
  <2> QED
    BY <2>2, <2>3
<1>14. ASSUME NEW f \in applied[t] \cup {e}, event[f].created = event[e].created
       PROVE  \E i \in 1 .. m : q[i] = f
  <2>1. CASE f = e
    <3>1. m \in 1 .. m
      BY <1>6
    <3> QED
      BY <1>8, <2>1, <3>1
  <2>2. CASE f # e
    <3>1. f \in applied[t]
      BY <1>14, <2>2
    <3>2. PICK p \in 1 .. n : ids[p] = f
      BY <1>4, <1>11, <1>14, <3>1
    <3>3. CASE p > d
      <4>1. PICK i : i = p - d
        OBVIOUS
      <4>2. i \in 1 .. n - d /\ i + d = p /\ i \in 1 .. m
        BY <1>3, <1>6, <3>3, <4>1
      <4> QED
        BY <1>8, <3>2, <4>2
    <3>4. CASE ~(p > d)
      <4>1. d = 1 /\ p = 1 /\ n = RecentCap
        BY <1>8, <3>4
      <4>2. PICK x \in Nat : x = event[e].created
        BY <1>9
      <4>3. ASSUME NEW i \in 1 .. n PROVE ids[i] \in EventsOf(x)
        <5>1. /\ ids[i] \in Event /\ Emitted(ids[i]) /\ event[ids[i]].created \in Nat
              /\ event[ids[i]].created <= x
          BY <1>4, <1>10, <1>11, <4>2
        <5>2. 1 \in 1 .. n
          BY <4>1
        <5>3. event[ids[1]].created = x
          BY <1>14, <3>2, <4>1, <4>2
        <5>4. i = 1 \/ 1 < i
          OBVIOUS
        <5>5. i = 1 \/ event[ids[1]].created <= event[ids[i]].created
          BY <1>4, <5>2, <5>4
        <5>6. event[ids[i]].created = x
          BY <5>1, <5>3, <5>5, <4>2
        <5> QED
          BY <5>1, <5>6 DEF EventsOf
      <4>4. e \in EventsOf(x)
        BY <4>2 DEF EventsOf
      <4>5. Len(ids) = RecentCap /\ \A i \in 1 .. Len(ids) : ids[i] \in EventsOf(x)
        BY <1>3, <4>1, <4>3
      <4>6. \E i \in 1 .. Len(ids) : ids[i] = e
        BY <1>2, <4>4, <4>5, FullSecond
      <4> QED
        BY <1>3, <1>4, <4>6
    <3> QED
      BY <3>3, <3>4
  <2> QED
    BY <2>1, <2>2
<1> QED
  BY <1>6, <1>12, <1>13, <1>14

(* Stripe's word leaves what the rows recall as it was.                    *)
LEMMA EmitsRecalls ==
  ASSUME IInv, Serial, Recalls, NEW e \in Event, NEW x, event[e] = NoEvent,
         event' = [event EXCEPT ![e] = x], UNCHANGED <<row, webhook, applied>>
  PROVE  Recalls'
<1>1. ~Emitted(e)
  BY NoneApart DEF Emitted, NoEvent
<1>2. \A t \in Tenant : \A f \in applied[t] : event'[f] = event[f]
  <2>1. \A t \in Tenant : \A f \in applied[t] : f \in Event /\ f # e
    BY <1>1 DEF Serial, IInv, Shapes
  <2> QED
    BY <2>1 DEF IInv, Shapes
<1>3. HeldIsNew'
  BY DEF Recalls, HeldIsNew
<1>4. ASSUME NEW t \in Tenant
      PROVE  RowRecalls(row[t].recent, t)'
  <2>1. PICK ids : ids = row[t].recent
    OBVIOUS
  <2>2. RowRecalls(ids, t)
    BY <2>1 DEF Recalls
  <2>3. \A i \in 1 .. Len(ids) : ids[i] \in applied[t] /\ event'[ids[i]] = event[ids[i]]
    BY <1>2, <2>2 DEF RowRecalls
  <2>4. \A i, j \in 1 .. Len(ids) : i < j => event'[ids[i]].created <= event'[ids[j]].created
    BY <2>2, <2>3 DEF RowRecalls
  <2>5. \A f \in applied[t] :
          event'[f].created = row[t].lastAt => \E i \in 1 .. Len(ids) : ids[i] = f
    BY <1>2, <2>2 DEF RowRecalls
  <2> QED
    BY <2>1, <2>3, <2>4, <2>5 DEF RowRecalls
<1> QED
  BY <1>3, <1>4 DEF Recalls

(* A webhook moves on: only what it is about to write matters.             *)
LEMMA WebhookRecalls ==
  ASSUME IInv, Recalls, NEW w \in Webhook, NEW v,
         v.pc = "hold" => v.event \notin applied[v.tenant],
         webhook' = [webhook EXCEPT ![w] = v], UNCHANGED <<row, event, applied>>
  PROVE  Recalls'
<1>1. webhook'[w] = v /\ \A x \in Webhook \ {w} : webhook'[x] = webhook[x]
  BY DEF IInv, Shapes
<1>2. HeldIsNew'
  BY <1>1 DEF Recalls, HeldIsNew
<1>3. \A t \in Tenant : RowRecalls(row[t].recent, t)'
  BY DEF Recalls, RowRecalls
<1> QED
  BY <1>2, <1>3 DEF Recalls

(* The write adds an event the row has not absorbed, and the row recalls it*)
(* with the others of its second.                                          *)
LEMMA WriteRecalls ==
  ASSUME IInv, Serial, Recents, Recalls, FewASecond, NEW w \in Webhook, Write(w)
  PROVE  Recalls'
<1>1. PICK e : e = webhook[w].event
  OBVIOUS
<1>2. PICK t : t = webhook[w].tenant
  OBVIOUS
<1>3. /\ e \in Event /\ t \in Tenant /\ Emitted(e) /\ webhook[w].pc = "hold"
      /\ webhook[w].read = row[t]
      /\ row[t].lastAt # None => row[t].lastAt <= event[e].created
  BY <1>1, <1>2 DEF IInv, Shapes, Homes, WebhookOK, Write, Serial
<1>4. e \notin applied[t] /\ RowRecalls(row[t].recent, t)
  BY <1>1, <1>2, <1>3 DEF Recalls, HeldIsNew
<1>5. PICK ids : ids = row[t].recent
  OBVIOUS
<1>6. RecentOK(ids)
  BY <1>3, <1>5 DEF Recents
<1>7. Lacks(ids, e)
  <2>1. DOMAIN ids = 1 .. Len(ids)
    BY <1>6 DEF RecentOK
  <2> QED
    BY <1>4, <1>5, <2>1 DEF RowRecalls, Lacks
<1>8. PICK q : q = Remember(ids, e)
  OBVIOUS
<1>9. RecentOK(q) /\ Appended(q, ids, e)
  BY <1>3, <1>6, <1>7, <1>8, RememberFits
<1>10. Appended(q, row[t].recent, e)
  BY <1>5, <1>9
<1>11. /\ \A i \in 1 .. Len(q) : q[i] \in applied[t] \cup {e}
       /\ \A i, j \in 1 .. Len(q) : i < j => event[q[i]].created <= event[q[j]].created
       /\ \A f \in applied[t] \cup {e} :
            event[f].created = event[e].created => \E i \in 1 .. Len(q) : q[i] = f
  BY <1>3, <1>4, <1>9, <1>10, AppendRecalls
<1>12. PICK x : x = NextRow(webhook[w].read, e)
  OBVIOUS
<1>13. x.lastAt = event[e].created /\ x.recent = q
  <2>1. PICK old : old = webhook[w].read
    OBVIOUS
  <2>2. old.recent = ids /\ x = NextRow(old, e) /\ ShapeOK(old)
    BY <1>3, <1>5, <1>12, <2>1 DEF IInv, Shapes, WebhookOK
  <2>3. x.lastAt = event[e].created /\ x.recent = Remember(old.recent, e)
    BY <1>3, <2>2, NextRowFits
  <2> QED
    BY <1>8, <2>2, <2>3
<1>14. /\ row' = [row EXCEPT ![t] = x]
       /\ webhook' = [webhook EXCEPT ![w] = IdleWebhook]
       /\ applied' = [applied EXCEPT ![t] = applied[t] \cup {e}]
       /\ event' = event
  BY <1>1, <1>2, <1>12 DEF Write, stripe
<1>15. /\ row'[t] = x /\ \A z \in Tenant \ {t} : row'[z] = row[z]
       /\ applied'[t] = applied[t] \cup {e} /\ \A z \in Tenant \ {t} : applied'[z] = applied[z]
  BY <1>3, <1>14 DEF IInv, Shapes
<1>16. HeldIsNew'
  <2>1. \A y \in Webhook : webhook'[y].pc = "hold" => webhook'[y] = webhook[y] /\ y # w
    BY <1>14, IdleFits DEF IInv, Shapes
  <2>2. \A y \in Webhook : webhook'[y].pc = "hold" => webhook[y].tenant \in Tenant \ {t}
    BY <2>1, <1>2, <1>3 DEF Serial, IInv, Shapes, WebhookOK
  <2> QED
    BY <2>1, <2>2, <1>15 DEF Recalls, HeldIsNew
<1>17. RowRecalls(row[t].recent, t)'
  <2>1. row'[t].recent = q /\ row'[t].lastAt = event[e].created
    BY <1>13, <1>15
  <2>2. \A f \in applied'[t] :
          event'[f].created = row'[t].lastAt => \E i \in 1 .. Len(q) : q[i] = f
    BY <1>11, <1>14, <1>15, <2>1
  <2>3. \A i \in 1 .. Len(q) : q[i] \in applied'[t]
    BY <1>11, <1>15
  <2>4. \A i, j \in 1 .. Len(q) : i < j => event'[q[i]].created <= event'[q[j]].created
    BY <1>11, <1>14
  <2> QED
    BY <2>1, <2>2, <2>3, <2>4 DEF RowRecalls
<1>18. ASSUME NEW z \in Tenant, z # t
       PROVE  RowRecalls(row[z].recent, z)'
  <2>1. RowRecalls(row[z].recent, z) /\ row'[z] = row[z] /\ applied'[z] = applied[z]
    BY <1>15, <1>18 DEF Recalls
  <2> QED
    BY <2>1, <1>14 DEF RowRecalls
<1> QED
  BY <1>16, <1>17, <1>18 DEF Recalls

(* Unless a job writes, every step keeps what the rows recall, while no    *)
(* second has too many events.                                             *)
LEMMA NextRecalls ==
  ASSUME IInv, Serial, Recents, Recalls, FewASecond, [Next]_vars,
         \A r \in Reconciler : ~UpdateRow(r)
  PROVE  Recalls'
<1>1. CASE UNCHANGED <<row, webhook, event, applied>>
  BY <1>1 DEF Recalls, HeldIsNew, RowRecalls
<1>2. CASE StripeStep
  <2>1. ASSUME NEW e \in Event, NEW x, Emits(e, x)
        PROVE  Recalls'
    BY <2>1, EmitsRecalls DEF Emits
  <2>2. CASE SecondPasses
    BY <2>2, <1>1 DEF SecondPasses
  <2>a. \A e, type, s, status, p, content :
          Announces(e, type, s, status, p, content) => \E x : Emits(e, x)
    BY Zenon DEF Announces
  <2>e. SecondPasses \/ \E e \in Event : \E x : Emits(e, x)
    BY <1>2, <2>a DEF StripeStep, OpenSubscription, ChangeSubscription,
                      DeleteSubscription, CompleteCheckout
  <2> QED
    BY <2>1, <2>2, <2>e
<1>3. ASSUME NEW w \in Webhook, NEW e \in Event, Receive(w, e)
      PROVE  Recalls'
  <2>1. WebhookOK(webhook[w])
    BY DEF IInv, Shapes
  <2>2. PICK t : webhook' = [webhook EXCEPT ![w] =
                   [webhook[w] EXCEPT !.pc = "wait", !.event = e, !.tenant = t]]
    BY <1>3 DEF Receive
  <2>3. [webhook[w] EXCEPT !.pc = "wait", !.event = e, !.tenant = t].pc # "hold"
    BY <2>1 DEF WebhookOK
  <2> QED
    BY <1>3, <2>2, <2>3, WebhookRecalls DEF Receive, stripe
<1>4. ASSUME NEW w \in Webhook, Ignore(w) \/ AbortWebhook(w)
      PROVE  Recalls'
  BY <1>4, IdleFits, WebhookRecalls DEF Ignore, AbortWebhook, stripe
<1>5. ASSUME NEW w \in Webhook, Decide(w)
      PROVE  Recalls'
  <2>1. PICK e : e = webhook[w].event
    OBVIOUS
  <2>2. PICK t : t = webhook[w].tenant
    OBVIOUS
  <2>3. WebhookOK(webhook[w]) /\ e \in Event /\ t \in Tenant /\ Applies(e, t)
    BY <1>5, <2>1, <2>2 DEF IInv, Shapes, WebhookOK, Decide
  <2>4. e \notin applied[t]
    BY <2>3, AppliesToNew
  <2>5. PICK v : v = [webhook[w] EXCEPT !.pc = "hold", !.read = row[t]]
    OBVIOUS
  <2>6. v.event = e /\ v.tenant = t
    BY <2>1, <2>2, <2>3, <2>5 DEF WebhookOK
  <2>7. webhook' = [webhook EXCEPT ![w] = v] /\ UNCHANGED <<row, event, applied>>
    BY <1>5, <2>2, <2>5 DEF Decide, stripe
  <2> QED
    BY <2>4, <2>6, <2>7, WebhookRecalls
<1>6. CASE UNCHANGED vars
  BY <1>6, <1>1 DEF vars
<1>7. ASSUME NEW r \in Reconciler, ReconcileStep(r)
      PROVE  Recalls'
  <2>1. UNCHANGED <<row, webhook, event, applied>>
    BY <1>7 DEF ReconcileStep, ListRow, RetrieveStatus, SkipRow, FailRow, stripe
  <2> QED
    BY <2>1, <1>1
<1> QED
  BY <1>2, <1>3, <1>4, <1>5, <1>6, <1>7, WriteRecalls DEF Next, WebhookStep

(* AppliedOnce: until a reconciliation writes, and as long as no second has*)
(* more events than a row remembers, no delivery writes an event a second  *)
(* time, in whatever order and however often Stripe delivers.              *)
THEOREM EventsAreAppliedOnce == Spec /\ NoJobWrites /\ []FewASecond => AppliedOnce
<1>1. Init => IInv /\ Serial /\ Recents /\ Recalls
  BY InitInv, InitSerial, InitRecents, InitRecalls
<1>2. /\ IInv /\ Serial /\ Recents /\ Recalls /\ FewASecond /\ [Next]_vars
      /\ [\A r \in Reconciler : ~UpdateRow(r)]_vars
      => (IInv /\ Serial /\ Recents /\ Recalls)'
  <2>1. ASSUME Serial, UNCHANGED vars PROVE Serial'
    BY <2>1 DEF vars, Serial, ShowsALatestEvent, Shows, LatestOf, Priced, Dated, Emitted
  <2>2. ASSUME Recalls, UNCHANGED vars PROVE Recalls'
    BY <2>2 DEF vars, Recalls, HeldIsNew, RowRecalls
  <2> QED
    BY <2>1, <2>2, NextInv, NextSerial, NextRecents, NextRecalls
<1>3. IInv /\ Recalls =>
        [\A w \in Webhook : Write(w) => webhook[w].event \notin applied[webhook[w].tenant]]_vars
  BY DEF Recalls, HeldIsNew, Write
<1> QED
  BY <1>1, <1>2, <1>3, PTL DEF Spec, NoJobWrites, AppliedOnce
=============================================================================
