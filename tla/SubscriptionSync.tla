-------------------------- MODULE SubscriptionSync --------------------------
(***************************************************************************)
(* How a tenant's subscription row follows Stripe: the webhook handler of  *)
(* apps/web/src/lib/server/subscription-sync.ts, the reconciliation job of *)
(* apps/worker/src/jobs.ts, and, as the external part, Stripe itself, which*)
(* delivers every event at least once and in any order.                    *)
(*                                                                         *)
(* Of the columns Stripe dictates the model keeps three, one of each kind: *)
(* the status, which every event carries; the plan, which an event may not *)
(* name; and the period, for the columns an event may leave out (both ends *)
(* of the billing period, the trial, the cancellation).  A value of the    *)
(* last two is named after the event that brought it into the world.       *)
(***************************************************************************)
EXTENDS Naturals, Sequences

CONSTANTS
  Tenant,
  Sub,            \* Stripe subscription ids
  Customer,       \* Stripe customer ids
  HomeOf,         \* the tenant whose checkout opened a subscription
  CustomerOf,     \* the customer a subscription is billed to
  Event,          \* Stripe event ids
  Webhook,        \* webhook requests in flight
  Reconciler,     \* reconciliation jobs in flight
  ProviderStatus, \* statuses Stripe moves a live subscription through
  Contents,       \* what a subscription event may carry besides the status
  RecentCap,      \* MAX_RECENT_EVENT_IDS
  MaxSecond,      \* bound on the provider's clock
  None

ASSUME HomeAssumption == HomeOf \in [Sub -> Tenant]
ASSUME CustomerAssumption ==
  /\ CustomerOf \in [Sub -> Customer]
  /\ \A s, z \in Sub : CustomerOf[s] = CustomerOf[z] => HomeOf[s] = HomeOf[z]
ASSUME CapAssumption == RecentCap \in Nat \ {0}
ASSUME ContentsAssumption == Contents \subseteq SUBSET {"plan", "period"}
ASSUME NoneAssumption ==
  None \notin Sub \cup Customer \cup Tenant \cup Event \cup Nat

VARIABLES
  row,       \* _smrt_tenant_subscriptions, one row per tenant
  webhook,   \* what each webhook request holds
  reconcile, \* what each reconciliation job holds
  event,     \* events Stripe has emitted
  provider,  \* the status of each subscription at Stripe
  period,    \* and its billing period: the event that announced it
  second,    \* Stripe's clock, in whole seconds
  applied    \* history: the events each tenant's row has absorbed

vars == <<row, webhook, reconcile, event, provider, period, second, applied>>
stripe == <<event, provider, period, second>>

(* mapStripeSubscriptionStatus *)
Status == {"active", "canceled", "incomplete", "past_due", "trialing", "unpaid"}
MapStatus(s) ==
  CASE s \in Status -> s
    [] s = "incomplete_expired" -> "canceled"
    [] s = "paused" -> "past_due"
    [] OTHER -> "incomplete"

NoRow == [present |-> FALSE, status |-> "incomplete", plan |-> None, period |-> None,
          sub |-> None, customer |-> None, lastEvent |-> None, lastAt |-> None,
          recent |-> <<>>]

(* seedDefaultTenantSubscription: a plan and a period of the starter's own *)
(* (None), and nothing from Stripe yet.                                    *)
SeededRow == [present |-> TRUE, status |-> "active", plan |-> None, period |-> None,
              sub |-> None, customer |-> None, lastEvent |-> None, lastAt |-> None,
              recent |-> <<>>]

NoEvent == [type |-> None, sub |-> None, tenant |-> None, priced |-> FALSE,
            status |-> "incomplete", period |-> None, created |-> 0]
IdleWebhook == [pc |-> "idle", event |-> None, tenant |-> None, read |-> NoRow]
IdleReconcile == [pc |-> "idle", tenant |-> None, read |-> NoRow, status |-> None,
                  period |-> None]

Init ==
  /\ row \in [Tenant -> {NoRow, SeededRow}]
  /\ webhook = [w \in Webhook |-> IdleWebhook]
  /\ reconcile = [r \in Reconciler |-> IdleReconcile]
  /\ event = [e \in Event |-> NoEvent]
  /\ provider = [s \in Sub |-> None]
  /\ period = [s \in Sub |-> None]
  /\ second = 0
  /\ applied = [t \in Tenant |-> {}]

----------------------------------------------------------------------------
(* Stripe.  Only a checkout session carries the tenant and the plan in its *)
(* metadata, and it carries no period; a subscription event may carry a    *)
(* price the starter knows, and a period.                                  *)

Emits(e, record) ==
  /\ event[e] = NoEvent
  /\ event' = [event EXCEPT ![e] = record]
  /\ UNCHANGED <<row, webhook, reconcile, second, applied>>

(* An event of subscription s, whose period at Stripe is p                 *)
Announces(e, type, s, status, p, content) ==
  Emits(e, [type |-> type, sub |-> s, tenant |-> None, priced |-> "plan" \in content,
            status |-> MapStatus(status), period |-> IF "period" \in content THEN p ELSE None,
            created |-> second])

OpenSubscription(e, s, status, content) ==
  /\ provider[s] = None
  /\ provider' = [provider EXCEPT ![s] = status]
  /\ period' = [period EXCEPT ![s] = e]
  /\ Announces(e, "created", s, status, e, content)

CompleteCheckout(e, s) ==
  /\ provider[s] # None
  /\ \A f \in Event : event[f].type = "checkout" => event[f].sub # s
  /\ UNCHANGED <<provider, period>>
  /\ Emits(e, [type |-> "checkout", sub |-> s, tenant |-> HomeOf[s], priced |-> TRUE,
               status |-> "active", period |-> None, created |-> second])

ChangeSubscription(e, s, status, p, content) ==
  /\ provider[s] \notin {None, "canceled"}
  /\ status # provider[s] \/ p # period[s]
  /\ provider' = [provider EXCEPT ![s] = status]
  /\ period' = [period EXCEPT ![s] = p]
  /\ Announces(e, "updated", s, status, p, content)

DeleteSubscription(e, s, content) ==
  /\ provider[s] \notin {None, "canceled"}
  /\ provider' = [provider EXCEPT ![s] = "canceled"]
  /\ UNCHANGED period
  /\ Announces(e, "deleted", s, "canceled", period[s], content)

SecondPasses ==
  /\ second < MaxSecond
  /\ second' = second + 1
  /\ UNCHANGED <<row, webhook, reconcile, event, provider, period, applied>>

----------------------------------------------------------------------------
(* The webhook handler.                                                    *)

(* Mutant: the fallback forgets whose customer it is looking for.          *)
RowsOfAnyCustomer(c) == {t \in Tenant : row[t].present /\ row[t].customer # None}

RowsOfSub(s) == {t \in Tenant : row[t].present /\ row[t].sub = s}
RowsOfCustomer(c) == {t \in Tenant : row[t].present /\ row[t].customer = c}

(* findExistingSubscription: by subscription id, else by the event's       *)
(* tenant, else by customer.                                               *)
Existing(x) ==
  IF RowsOfSub(x.sub) # {} THEN RowsOfSub(x.sub)
  ELSE IF x.tenant # None /\ row[x.tenant].present THEN {x.tenant}
  ELSE RowsOfCustomer(CustomerOf[x.sub])

(* Whose row the event is for; of several rows the code takes one.         *)
Targets(x) == IF Existing(x) # {} THEN Existing(x) ELSE {x.tenant} \ {None}

(* Mutant: only the last event is remembered.                              *)
StaleIfLast(e, old) ==
  \/ e = old.lastEvent
  \/ old.lastAt # None /\ old.lastAt > event[e].created

(* isStaleStripeEvent: a known event id, or a second already passed.       *)
Stale(e, old) ==
  \/ e = old.lastEvent
  \/ \E i \in DOMAIN old.recent : old.recent[i] = e
  \/ old.lastAt # None /\ old.lastAt > event[e].created

(* isDifferentSubscriptionMutation: only a created subscription or a       *)
(* completed checkout may replace the subscription of a row.               *)
OtherSubscription(e, old) ==
  /\ old.sub # None
  /\ old.sub # event[e].sub
  /\ event[e].type \in {"updated", "deleted"}

(* The ids but e, of ids that are there once each                          *)
Without(recent, e) ==
  IF \A i \in DOMAIN recent : recent[i] # e THEN recent
  ELSE LET place == CHOOSE i \in DOMAIN recent : recent[i] = e
       IN [i \in 1 .. (Len(recent) - 1) |-> IF i < place THEN recent[i] ELSE recent[i + 1]]

(* slice(-MAX_RECENT_EVENT_IDS): all but the oldest ids past the cap.      *)
Newest(ids) ==
  LET dropped == IF Len(ids) > RecentCap THEN Len(ids) - RecentCap ELSE 0
  IN [i \in 1 .. (Len(ids) - dropped) |-> ids[i + dropped]]

(* appendRecentEventId: at the end, once, and the oldest ids dropped.      *)
Remember(recent, e) == Newest(Append(Without(recent, e), e))

(* The row after the event: the plan and the period stay as they were when *)
(* the event does not give them (resolvePlan, and the ?? of the record).   *)
NextRow(old, e) ==
  [present |-> TRUE, status |-> event[e].status,
   plan |-> IF event[e].priced THEN e ELSE old.plan,
   period |-> IF event[e].period # None THEN event[e].period ELSE old.period,
   sub |-> event[e].sub, customer |-> CustomerOf[event[e].sub],
   lastEvent |-> e, lastAt |-> event[e].created, recent |-> Remember(old.recent, e)]

(* The first, unlocked read: it resolves only whose lock to take.  An event*)
(* for which it finds no tenant is acknowledged, and changes nothing.      *)
Receive(w, e) ==
  /\ webhook[w].pc = "idle"
  /\ event[e] # NoEvent
  /\ \E t \in Targets(event[e]) :
       webhook' = [webhook EXCEPT ![w] = [@ EXCEPT !.pc = "wait", !.event = e, !.tenant = t]]
  /\ UNCHANGED <<row, reconcile, stripe, applied>>

(* Mutant: the transaction without the lock.                               *)
NoLock(t) == t \in Tenant

(* pg_advisory_xact_lock *)
LockFree(t) == \A w \in Webhook : webhook[w].pc = "hold" => webhook[w].tenant # t

(* resolvePlan: the plan the event names or has the price of, else the     *)
(* row's.                                                                  *)
HasPlan(e, old) == event[e].priced \/ old.present

(* What applyStripeSubscriptionUpdate asks of the row it reads again under *)
(* the lock: an event of this tenant, neither stale nor of a subscription  *)
(* the row has left behind, with a plan to give the row.                   *)
Applies(e, t) ==
  /\ event[e].tenant \in {None, t}
  /\ row[t].present => ~Stale(e, row[t]) /\ ~OtherSubscription(e, row[t])
  /\ HasPlan(e, row[t])

Decide(w) ==
  LET e == webhook[w].event
      t == webhook[w].tenant
  IN
  /\ webhook[w].pc = "wait"
  /\ LockFree(t)
  /\ t \in Targets(event[e])
  /\ Applies(e, t)
  /\ webhook' = [webhook EXCEPT ![w] = [@ EXCEPT !.pc = "hold", !.read = row[t]]]
  /\ UNCHANGED <<row, reconcile, stripe, applied>>

(* The same read when the event is ignored, and acknowledged all the same. *)
Ignore(w) ==
  LET e == webhook[w].event
      t == webhook[w].tenant
  IN
  /\ webhook[w].pc = "wait"
  /\ LockFree(t)
  /\ Targets(event[e]) # {t} \/ ~Applies(e, t)
  /\ webhook' = [webhook EXCEPT ![w] = IdleWebhook]
  /\ UNCHANGED <<row, reconcile, stripe, applied>>

(* upsertTenantSubscription and the commit: every column is written from   *)
(* what was read under the lock.                                           *)
Write(w) ==
  LET e == webhook[w].event
      t == webhook[w].tenant
  IN
  /\ webhook[w].pc = "hold"
  /\ row' = [row EXCEPT ![t] = NextRow(webhook[w].read, e)]
  /\ applied' = [applied EXCEPT ![t] = @ \cup {e}]
  /\ webhook' = [webhook EXCEPT ![w] = IdleWebhook]
  /\ UNCHANGED <<reconcile, stripe>>

(* The request dies or its transaction fails: Stripe delivers again.       *)
AbortWebhook(w) ==
  /\ webhook[w].pc # "idle"
  /\ webhook' = [webhook EXCEPT ![w] = IdleWebhook]
  /\ UNCHANGED <<row, reconcile, stripe, applied>>

----------------------------------------------------------------------------
(* The reconciliation job, for one row of its page.                        *)

ListRow(r, t) ==
  /\ reconcile[r].pc = "idle"
  /\ row[t].present
  /\ row[t].sub # None
  /\ reconcile' = [reconcile EXCEPT ![r] = [@ EXCEPT !.pc = "listed", !.tenant = t, !.read = row[t]]]
  /\ UNCHANGED <<row, webhook, stripe, applied>>

(* retrieveSubscriptionStatus, for the subscription the page named; what   *)
(* the answer leaves out keeps the value that was read.                    *)
RetrieveStatus(r) ==
  LET old == reconcile[r].read
  IN
  /\ reconcile[r].pc = "listed"
  /\ \E p \in {period[old.sub], old.period} :
       reconcile' = [reconcile EXCEPT ![r] =
         [@ EXCEPT !.pc = "retrieved", !.status = provider[old.sub], !.period = p]]
  /\ UNCHANGED <<row, webhook, stripe, applied>>

(* Mutant: the comparison that forgets the status.                         *)
HasCustomerChange(old, status, p) ==
  \/ status # None /\ old.customer # CustomerOf[old.sub]
  \/ old.period # p

(* hasSubscriptionChanges compares with what was read, not with the row.   *)
HasChanges(old, status, p) ==
  \/ old.status # MapStatus(status)
  \/ old.period # p
  \/ old.customer # CustomerOf[old.sub]

(* updateStripeSubscription: by row id, without the webhook's lock, and    *)
(* with the metadata (last event, recent events) as they were read.        *)
UpdateRow(r) ==
  LET t == reconcile[r].tenant
      old == reconcile[r].read
  IN
  /\ reconcile[r].pc = "retrieved"
  /\ HasChanges(old, reconcile[r].status, reconcile[r].period)
  /\ row' = [row EXCEPT ![t] =
       [@ EXCEPT !.status = MapStatus(reconcile[r].status), !.period = reconcile[r].period,
                 !.customer = CustomerOf[old.sub],
                 !.lastEvent = old.lastEvent, !.lastAt = old.lastAt, !.recent = old.recent]]
  /\ reconcile' = [reconcile EXCEPT ![r] = IdleReconcile]
  /\ UNCHANGED <<webhook, stripe, applied>>

SkipRow(r) ==
  /\ reconcile[r].pc = "retrieved"
  /\ ~HasChanges(reconcile[r].read, reconcile[r].status, reconcile[r].period)
  /\ reconcile' = [reconcile EXCEPT ![r] = IdleReconcile]
  /\ UNCHANGED <<row, webhook, stripe, applied>>

(* Stripe cannot be reached, or the job dies: the row is left for the next *)
(* cycle.                                                                  *)
FailRow(r) ==
  /\ reconcile[r].pc # "idle"
  /\ reconcile' = [reconcile EXCEPT ![r] = IdleReconcile]
  /\ UNCHANGED <<row, webhook, stripe, applied>>
----------------------------------------------------------------------------

StripeStep ==
  \/ \E e \in Event, s \in Sub, status \in ProviderStatus, content \in Contents :
       \/ OpenSubscription(e, s, status, content)
       \/ \E p \in {period[s], e} : ChangeSubscription(e, s, status, p, content)
  \/ \E e \in Event, s \in Sub : CompleteCheckout(e, s)
  \/ \E e \in Event, s \in Sub, content \in Contents :
       DeleteSubscription(e, s, content)
  \/ SecondPasses

WebhookStep(w) ==
  \/ \E e \in Event : Receive(w, e)
  \/ Decide(w) \/ Ignore(w) \/ Write(w) \/ AbortWebhook(w)

ReconcileStep(r) ==
  \/ \E t \in Tenant : ListRow(r, t)
  \/ RetrieveStatus(r) \/ UpdateRow(r) \/ SkipRow(r) \/ FailRow(r)

Next ==
  \/ StripeStep
  \/ \E w \in Webhook : WebhookStep(w)
  \/ \E r \in Reconciler : ReconcileStep(r)

Spec == Init /\ [][Next]_vars

(* The schedule keeps running reconciliation, every page covers every row  *)
(* that has a subscription, and Stripe answers now and then; a webhook     *)
(* request ends.  Stripe itself is under no obligation.                    *)
Fairness ==
  /\ \A w \in Webhook : WF_vars(Decide(w) \/ Ignore(w) \/ Write(w) \/ AbortWebhook(w))
  /\ \A r \in Reconciler :
       /\ \A t \in Tenant : SF_vars(ListRow(r, t))
       /\ SF_vars(RetrieveStatus(r))
       /\ SF_vars(UpdateRow(r) \/ SkipRow(r))

FairSpec == Spec /\ Fairness

----------------------------------------------------------------------------
OrNone(S) == S \cup {None}

EventType == {"created", "updated", "deleted", "checkout"}

(* A row has these columns; a row that names an event names its time.      *)
ShapeOK(x) ==
  /\ x = [present |-> x.present, status |-> x.status, plan |-> x.plan, period |-> x.period,
          sub |-> x.sub, customer |-> x.customer,
          lastEvent |-> x.lastEvent, lastAt |-> x.lastAt, recent |-> x.recent]
  /\ x.present \in BOOLEAN /\ x.status \in Status
  /\ x.plan \in OrNone(Event) /\ x.period \in OrNone(Event)
  /\ x.sub \in OrNone(Sub) /\ x.customer \in OrNone(Customer)
  /\ x.lastEvent \in OrNone(Event) /\ x.lastAt \in OrNone(Nat)

EventOK(x) ==
  \/ x = NoEvent
  \/ x \in [type : EventType, sub : Sub, tenant : OrNone(Tenant), priced : BOOLEAN,
            status : Status, period : OrNone(Event), created : Nat]

WebhookOK(x) ==
  /\ x = [pc |-> x.pc, event |-> x.event, tenant |-> x.tenant, read |-> x.read]
  /\ x.pc \in {"idle", "wait", "hold"} /\ ShapeOK(x.read)
  /\ x.pc # "idle" => x.event \in Event /\ x.tenant \in Tenant

ReconcileOK(x) ==
  /\ x = [pc |-> x.pc, tenant |-> x.tenant, read |-> x.read, status |-> x.status,
          period |-> x.period]
  /\ x.pc \in {"idle", "listed", "retrieved"} /\ ShapeOK(x.read)
  /\ x.period \in OrNone(Event)
  /\ x.pc # "idle" => x.tenant \in Tenant /\ x.read.sub \in Sub

(* Every variable keeps its shape.                                         *)
Shapes ==
  /\ row = [t \in Tenant |-> row[t]] /\ \A t \in Tenant : ShapeOK(row[t])
  /\ webhook = [w \in Webhook |-> webhook[w]]
  /\ \A w \in Webhook : WebhookOK(webhook[w])
  /\ reconcile = [r \in Reconciler |-> reconcile[r]]
  /\ \A r \in Reconciler : ReconcileOK(reconcile[r])
  /\ event = [e \in Event |-> event[e]] /\ \A e \in Event : EventOK(event[e])
  /\ second \in Nat
  /\ period \in [Sub -> OrNone(Event)]
  /\ applied \in [Tenant -> SUBSET Event]

(* Types, and the cap on the ids a row remembers.                          *)
TypeOK ==
  /\ Shapes
  /\ provider \in [Sub -> ProviderStatus \cup {None, "canceled"}]
  /\ \A t \in Tenant : row[t].recent \in Seq(Event) /\ Len(row[t].recent) <= RecentCap

----------------------------------------------------------------------------
(* Whatever arrives, in whatever order, and whatever reconciliation does   *)
(* meanwhile: a row only ever names a subscription its own tenant opened,  *)
(* and is only ever billed to that tenant's customer.                      *)
TenantIsolation ==
  \A t \in Tenant :
    /\ row[t].sub # None => HomeOf[row[t].sub] = t
    /\ row[t].customer # None =>
         \E s \in Sub : CustomerOf[s] = row[t].customer /\ HomeOf[s] = t

(* The events of S that no event of S is newer than                        *)
LatestOf(S) == {e \in S : \A f \in S : event[f].created <= event[e].created}

Priced(S) == {e \in S : event[e].priced}
Dated(S) == {e \in S : event[e].period # None}

(* What row x shows once it has absorbed the events of S                   *)
Shows(x, S) ==
  /\ \E e \in LatestOf(S) :
       /\ x.lastEvent = e /\ x.lastAt = event[e].created
       /\ x.sub = event[e].sub /\ x.status = event[e].status
  /\ IF Priced(S) = {} THEN x.plan = None ELSE x.plan \in LatestOf(Priced(S))
  /\ IF Dated(S) = {} THEN x.period = None
     ELSE \E e \in LatestOf(Dated(S)) : x.period = event[e].period

(* However webhooks overlap and whatever order events arrive in: of all the*)
(* events a row has absorbed, its status and subscription are those of a   *)
(* latest one, its plan is that of a latest one that named a plan, and its *)
(* period that of a latest one that carried a period.  Nothing a newer     *)
(* event said falls back to what an older one said.                        *)
ShowsALatestEvent ==
  \A t \in Tenant : applied[t] # {} => Shows(row[t], applied[t])

(* A delivery never rewrites a row from an event the row has absorbed, even*)
(* among events of one second, as long as they fit the remembered ids.     *)
AppliedOnce ==
  [][\A w \in Webhook : Write(w) => webhook[w].event \notin applied[webhook[w].tenant]]_vars

(* Stripe's time as the row records it never goes back.                    *)
ClockNeverGoesBack ==
  [][\A t \in Tenant : row[t].lastAt # None =>
       row'[t].lastAt # None /\ row'[t].lastAt >= row[t].lastAt]_vars

(* Stripe stops redelivering an event some days after emitting it.         *)
StripeGivesUp == <>[][\A w \in Webhook, e \in Event : ~Receive(w, e)]_vars

(* Whichever webhooks were lost, doubled or reordered, and whatever they   *)
(* and the job overwrote for each other: once Stripe has nothing more to   *)
(* say, reconciliation brings every row to Stripe's status, for good.      *)
EventuallyAligned ==
  StripeGivesUp =>
    \A t \in Tenant :
      <>[](row[t].sub # None => row[t].status = MapStatus(provider[row[t].sub]))
=============================================================================
