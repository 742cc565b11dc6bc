----------------------------- MODULE WebProcess -----------------------------
(***************************************************************************)
(* What a process of the web application keeps in memory, which concurrent *)
(* requests share and a restart loses: the buckets of the rate limiter of  *)
(* the access-request form (rate-limit.ts, request-access/+page.server.ts),*)
(* the billing provider (billing.ts), the session service of the mobile    *)
(* API (mobile-auth.ts) and the demo profile (hooks.server.ts).            *)
(*                                                                         *)
(* JavaScript runs a handler without interruption up to its next await:    *)
(* that is a step.  The limiter has no await; the three memos each hold a  *)
(* promise, and requests await it while others set, reset or settle it.    *)
(***************************************************************************)
EXTENDS Naturals, FiniteSets

CONSTANTS
  Ip, Email,   \* keys of the limiter, by client address and by address asked for
  Limit,       \* hits in a window: 5 in the code
  WindowLength,\* of time units: ten minutes in the code
  Second,      \* time units of a second
  MaxKeys,     \* most buckets: 10000 in the code
  LastTime,    \* bound: the clock stops
  Call,        \* requests that need a memo
  Explicit,    \* providers set explicitly
  Promise,     \* ids of promises
  Uses,        \* which parts of the application are looked at
  Faults,      \* bound: creations that fail
  Env, None

Key == Ip \cup Email
Part == {"limiter", "billing", "sessions", "demo", "page", "start", "gate"}

ASSUME WebProcessAssumption ==
  /\ Limit \in Nat \ {0} /\ WindowLength \in Nat \ {0} /\ Second \in Nat \ {0}
  /\ MaxKeys \in Nat \ {0} /\ LastTime \in Nat /\ Faults \in Nat
  /\ Uses \subseteq Part /\ Ip \cap Email = {}
  /\ Env \notin Explicit /\ None \notin Explicit \cup {Env} \cup Promise

VARIABLES
  use,       \* the part of the application looked at
  now,       \* the clock of the limiter
  buckets,   \* the map of the limiter: the buckets of keys, and which of them
             \* were inserted before which
  admitted,  \* history: the hits of a key admitted in the last window's length,
             \* since a live bucket of it was last evicted, as <<time, number>>
  wasteful,  \* history: a live bucket was evicted while an expired one stayed
  told,      \* history: when a blocked key, not admitted since, may come back
  provider,  \* billing: the provider in use
  memo,      \* the promise that is remembered, or None
  promise,   \* what has become of the promises
  call,      \* the requests
  since,     \* history: promises begun since the provider was last set
  faults     \* creations that have failed

limiter == <<now, buckets, admitted, wasteful, told>>
memos == <<provider, memo, promise, call, since, faults>>
vars == <<use, limiter, memos>>

Bucket == [count : 1 .. Limit, resetAt : Nat]
Outcome == {"unused", "pending", "created", "missing", "rejected"}
CallState == [pc : {"idle", "await", "returned", "threw"}, on : Promise \cup {None},
              got : Explicit \cup {Env, None}]
Idle == [pc |-> "idle", on |-> None, got |-> None]

TypeOK ==
  /\ use \in Uses
  /\ now \in 0 .. LastTime
  /\ DOMAIN buckets.of \subseteq Key /\ buckets.of \in [DOMAIN buckets.of -> Bucket]
  /\ buckets.before \subseteq Key \X Key
  /\ admitted \in [Key -> SUBSET (Nat \X Nat)]
  /\ wasteful \in BOOLEAN /\ told \in [Key -> Nat]
  /\ provider \in Explicit \cup {Env, None}
  /\ memo \in Promise \cup {None}
  /\ promise \in [Promise -> Outcome]
  /\ call \in [Call -> CallState]
  /\ since \subseteq Promise /\ faults \in 0 .. Faults

Init ==
  /\ use \in Uses
  /\ now = 0 /\ buckets = [of |-> [k \in {} |-> 0], before |-> {}]
  /\ admitted = [k \in Key |-> {}]
  /\ wasteful = FALSE /\ told = [k \in Key |-> 0]
  /\ provider = None /\ memo = None
  /\ promise = [p \in Promise |-> "unused"]
  /\ call = [c \in Call |-> Idle]
  /\ since = {} /\ faults = 0

-----------------------------------------------------------------------------
(* InMemoryRateLimiter.check                                               *)

Keys(bs) == DOMAIN bs.of
Live(bs, key) == key \in Keys(bs) /\ bs.of[key].resetAt > now
Blocked(bs, key) == Live(bs, key) /\ bs.of[key].count >= Limit

\* Of some keys those that fewer than n of them were inserted after
Newest(bs, keys, n) == {k \in keys : Cardinality({l \in keys : <<k, l>> \in bs.before}) < n}

\* Mutant: expired buckets are not reclaimed first.
EvictOldest(bs) ==
  IF Cardinality(Keys(bs)) < MaxKeys THEN Keys(bs) ELSE Newest(bs, Keys(bs), MaxKeys - 1)

\* evictIfFull keeps: of a full map no expired bucket, and as many of the
\* others, but the ones inserted first, as leave room for one.
Evict(bs) ==
  IF Cardinality(Keys(bs)) < MaxKeys THEN Keys(bs)
  ELSE Newest(bs, {k \in Keys(bs) : Live(bs, k)}, MaxKeys - 1)

Fresh == [count |-> 1, resetAt |-> now + WindowLength]

\* Into a map that has been reduced to the keys `kept`, at its end
Insert(bs, kept, key) ==
  [of |-> [k \in kept \cup {key} |-> IF k = key THEN Fresh ELSE bs.of[k]],
   before |-> (bs.before \cap (kept \X kept)) \cup (kept \X {key})]

Replace(bs, key, bucket) ==
  [of |-> [bs.of EXCEPT ![key] = bucket], before |-> bs.before]

\* A hit that is admitted: in its live window, in place of an expired one, or
\* in a new bucket.
Hit(bs, key) ==
  IF Live(bs, key)
  THEN Replace(bs, key, [count |-> bs.of[key].count + 1, resetAt |-> bs.of[key].resetAt])
  ELSE IF key \in Keys(bs) THEN Replace(bs, key, Fresh)
  ELSE Insert(bs, Evict(bs), key)

\* retryAfterSeconds, as the time at which they are over
RetryAt(bs, key) ==
  LET left == bs.of[key].resetAt - now
      seconds == (left + Second - 1) \div Second
  IN now + Second * (IF seconds < 1 THEN 1 ELSE seconds)

\* History of a hit that has made another map of bs
Lost(bs, after) == {k \in Key : Live(bs, k) /\ k \notin Keys(after)}
Wastes(bs, after) == Lost(bs, after) # {} /\ \E k \in Keys(after) : ~Live(after, k)
Notes(hits, bs, after, key) ==
  [k \in Key |-> (IF k \in Lost(bs, after) THEN {} ELSE hits[k])
     \cup (IF k = key THEN {<<now, Cardinality({h \in hits[key] : h[1] = now}) + 1>>} ELSE {})]

\* The form's action: the address of the client first, and only if that is
\* within its limit the address asked for.
TurnClientAway(ip) ==
  /\ Blocked(buckets, ip) /\ told' = [told EXCEPT ![ip] = RetryAt(buckets, ip)]
  /\ UNCHANGED <<buckets, admitted, wasteful>>

TurnEmailAway(ip, email) ==
  LET one == Hit(buckets, ip) IN
  /\ ~Blocked(buckets, ip) /\ Blocked(one, email) /\ buckets' = one
  /\ admitted' = Notes(admitted, buckets, one, ip)
  /\ wasteful' = (wasteful \/ Wastes(buckets, one))
  /\ told' = [told EXCEPT ![ip] = 0, ![email] = RetryAt(one, email)]

Admit(ip, email) ==
  LET one == Hit(buckets, ip)  two == Hit(one, email) IN
  /\ ~Blocked(buckets, ip) /\ ~Blocked(one, email) /\ buckets' = two
  /\ admitted' = Notes(Notes(admitted, buckets, one, ip), one, two, email)
  /\ wasteful' = (wasteful \/ Wastes(buckets, one) \/ Wastes(one, two))
  /\ told' = [told EXCEPT ![ip] = 0, ![email] = 0]

Submit(ip, email) ==
  /\ use = "limiter"
  /\ TurnClientAway(ip) \/ TurnEmailAway(ip, email) \/ Admit(ip, email)
  /\ UNCHANGED <<use, now, memos>>

Tick ==
  /\ use = "limiter" /\ now < LastTime /\ now' = now + 1
  /\ admitted' = [k \in Key |-> {h \in admitted[k] : h[1] + WindowLength > now'}]
  /\ UNCHANGED <<use, buckets, wasteful, told, memos>>

-----------------------------------------------------------------------------
(* Memos                                                                   *)

NewPromise == CHOOSE p \in Promise : promise[p] = "unused"
CanPromise == \E p \in Promise : promise[p] = "unused"

\* `??=`: the remembered promise, or a new one
Awaits(c) ==
  \/ /\ memo # None
     /\ call' = [call EXCEPT ![c] = [Idle EXCEPT !.pc = "await", !.on = memo]]
     /\ UNCHANGED <<memo, promise, since>>
  \/ /\ memo = None /\ CanPromise
     /\ call' = [call EXCEPT ![c] = [Idle EXCEPT !.pc = "await", !.on = NewPromise]]
     /\ memo' = NewPromise
     /\ promise' = [promise EXCEPT ![NewPromise] = "pending"]
     /\ since' = since \cup {NewPromise}

Ask(c) ==
  /\ use \in {"billing", "sessions", "demo"} /\ call[c].pc \in {"idle", "returned", "threw"}
  /\ IF use = "billing" /\ provider # None
     THEN /\ call' = [call EXCEPT ![c] = [Idle EXCEPT !.pc = "returned", !.got = provider]]
          /\ UNCHANGED <<memo, promise, since>>
     ELSE Awaits(c)
  /\ UNCHANGED <<use, limiter, provider, faults>>

\* Mutant: a rejected promise of the demo profile is remembered too.
SettleForGood(p) ==
  /\ promise[p] = "pending"
  /\ \/ promise' = [promise EXCEPT ![p] = "created"] /\ UNCHANGED faults
     \/ /\ faults < Faults /\ faults' = faults + 1
        /\ promise' = [promise EXCEPT ![p] = "rejected"]
  /\ UNCHANGED <<use, limiter, provider, memo, call, since>>

\* A creation ends: with what was created, for billing perhaps with nothing,
\* since no key is configured, or with an error.
Settle(p) ==
  /\ promise[p] = "pending"
  /\ \/ promise' = [promise EXCEPT ![p] = "created"] /\ UNCHANGED <<memo, faults>>
     \/ /\ use = "billing"
        /\ promise' = [promise EXCEPT ![p] = "missing"] /\ UNCHANGED <<memo, faults>>
     \/ /\ faults < Faults /\ faults' = faults + 1
        /\ promise' = [promise EXCEPT ![p] = "rejected"]
        /\ memo' = IF use = "demo" THEN None ELSE memo
  /\ UNCHANGED <<use, limiter, provider, call, since>>

Return(c, value) ==
  call' = [call EXCEPT ![c] = [Idle EXCEPT !.pc = IF value = None THEN "threw" ELSE "returned",
                                           !.got = value]]

\* Mutant: what was awaited is adopted without a second look.
AdoptAnyway(c) ==
  /\ use = "billing" /\ call[c].pc = "await" /\ promise[call[c].on] \in {"created", "missing"}
  /\ LET resolved == IF promise[call[c].on] = "created" THEN Env ELSE None IN
     provider' = resolved /\ Return(c, resolved)
  /\ UNCHANGED <<use, limiter, memo, promise, since, faults>>

\* Mutant: whether the promise is still the remembered one is not looked at.
AdoptOvertaken(c) ==
  /\ use = "billing" /\ call[c].pc = "await" /\ promise[call[c].on] \in {"created", "missing"}
  /\ LET resolved == IF promise[call[c].on] = "created" THEN Env ELSE None IN
     IF provider # None
     THEN Return(c, provider) /\ UNCHANGED provider
     ELSE provider' = resolved /\ Return(c, resolved)
  /\ UNCHANGED <<use, limiter, memo, promise, since, faults>>

\* getStripeBillingProvider after its await: an explicit provider wins, and
\* of a promise that is no longer the remembered one nothing is adopted.
Adopt(c) ==
  /\ use = "billing" /\ call[c].pc = "await" /\ promise[call[c].on] \in {"created", "missing"}
  /\ LET resolved == IF promise[call[c].on] = "created" THEN Env ELSE None IN
     IF provider # None \/ memo # call[c].on
     THEN Return(c, provider) /\ UNCHANGED provider
     ELSE provider' = resolved /\ Return(c, resolved)
  /\ UNCHANGED <<use, limiter, memo, promise, since, faults>>

\* the other two memos only wait
Get(c) ==
  /\ use \in {"sessions", "demo"} /\ call[c].pc = "await" /\ promise[call[c].on] = "created"
  /\ Return(c, Env)
  /\ UNCHANGED <<use, limiter, provider, memo, promise, since, faults>>

Throw(c) ==
  /\ call[c].pc = "await" /\ promise[call[c].on] = "rejected"
  /\ Return(c, None)
  /\ UNCHANGED <<use, limiter, provider, memo, promise, since, faults>>

\* setStripeBillingProvider, also to null
Set(value) ==
  /\ use = "billing" /\ CanPromise
  /\ provider' = value /\ memo' = None /\ since' = {}
  /\ UNCHANGED <<use, limiter, promise, call, faults>>

-----------------------------------------------------------------------------
Next ==
  \/ \E ip \in Ip, email \in Email : Submit(ip, email)
  \/ Tick
  \/ \E c \in Call : Ask(c) \/ Adopt(c) \/ Get(c) \/ Throw(c)
  \/ \E p \in Promise : Settle(p)
  \/ \E value \in Explicit \cup {None} : Set(value)

Spec == Init /\ [][Next]_vars

\* Creations end and those who await them go on; and a request comes again.
Fairness ==
  /\ \A c \in Call : WF_vars(Ask(c) \/ Adopt(c) \/ Get(c) \/ Throw(c))
  /\ \A p \in Promise : WF_vars(Settle(p))

FairSpec == Spec /\ Fairness

-----------------------------------------------------------------------------
(* Properties                                                              *)

\* However windows lie and expired buckets are reclaimed or replaced: in no
\* stretch of a window's length is a key admitted twice its limit, unless a
\* live bucket of it was evicted within that stretch; one is evicted only when
\* no expired one is left; there are no more buckets than the cap; and who
\* comes back when told to is not blocked any more, whatever became of its
\* bucket meanwhile.
LimiterIsSound ==
  /\ \A key \in Key : Cardinality(admitted[key]) < 2 * Limit
  /\ ~wasteful
  /\ Cardinality(Keys(buckets)) <= MaxKeys
  /\ \A key \in Key : Blocked(buckets, key) /\ told[key] # 0 => now < told[key]

\* The steps by which the provider changes on its own: some request finds that
\* none is in use and adopts the environment's, of a promise that was awaited
\* by it, has created it, and was begun since the provider was last set or
\* reset.
AdoptsCurrent ==
  /\ provider = None /\ provider' = Env /\ since' = since
  /\ \E c \in Call :
       /\ call[c].pc = "await" /\ call'[c].pc = "returned" /\ call'[c].got = Env
       /\ call[c].on \in since /\ promise[call[c].on] = "created"

\* A provider set explicitly stays until it is set again or reset; and the
\* environment's comes into use only from a promise that no set and no reset
\* has overtaken, also when a younger promise is remembered by then.
NothingStaleIsAdopted ==
  [][provider' # provider => AdoptsCurrent \/ \E value \in Explicit \cup {None} : Set(value)]_vars

\* Requests that need the demo profile get it again and again, whatever
\* creations fail; the other memos keep a failure, and requests for them throw
\* until the process is restarted or a provider is set.
DemoRecovers ==
  \A c \in Call : []<>(use = "demo" => call[c].pc = "returned")
=============================================================================
