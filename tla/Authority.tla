------------------------------ MODULE Authority ------------------------------
(***************************************************************************)
(* Who a request acts as, and for which tenant: the hooks of a request     *)
(* (hooks.server.ts, tenancy.ts), the permission a command asks for when   *)
(* it runs (authz.ts, tenant-context.ts), the sessions of browsers with    *)
(* the switch of tenant (session.ts, api/tenant/switch), and those of the  *)
(* mobile application (mobile-auth.ts, api/mobile).                        *)
(*                                                                         *)
(* A step ends where the code awaits the database or the provider.         *)
(* Meanwhile roles change, sessions expire, and other requests of the same *)
(* browser are answered in any order.                                      *)
(***************************************************************************)
EXTENDS FiniteSets, Naturals, Sequences

CONSTANTS
  User, Demo,        \* users; the seeded owner of the demo is one of them
  Tenant, Session, Browser, Device, Request,
  RolesInPlay,       \* roles memberships have
  Ways,              \* <<header, host>>: tenants named by those of a request
  Asked,             \* permissions that the commands looked at ask for
  Said,              \* answers of an identity provider
  Memberships,       \* memberships at first
  Provider,          \* identity providers that may be configured
  Uri,               \* redirect URIs of mobile applications
  Deployments,       \* configurations looked at
  Changes,           \* bound: roles changed and sessions expired
  Concurrent,        \* bound: requests under way at once
  None

Roles == {"owner", "admin", "member", "viewer"}
Permissions == {"app.access", "tenant.chat.use", "tenant.settings.manage"}

\* permissionsByRole, for one permission of each kind
Grants(role) ==
  CASE role \in {"owner", "admin"} -> Permissions
    [] role = "member" -> {"app.access", "tenant.chat.use"}
    [] role = "viewer" -> {"app.access"}
    [] OTHER -> {}

\* `list` is what MOBILE_AUTH_PROVIDERS_JSON and the HappyVertical provider
\* give, in order; `allowed` a provider's list of URIs, under None the global.
Deployment == [fallback : BOOLEAN, trusted : BOOLEAN, inner : BOOLEAN,
               mobile : BOOLEAN, list : {<<p>> : p \in Provider} \cup Provider \X Provider,
               default : Provider \cup {None},
               allowed : [Provider \cup {None} -> SUBSET Uri]]

\* What a provider says of an account: its address, and whether that is
\* verified; under profile and under claims, None if it cannot be had.
Statement == [email : User \cup {None}, verified : {"yes", "no", None}]
Answers == [profile : Statement \cup {None}, claims : Statement \cup {None}]

SessionRow == [user : User, tenant : Tenant]

\* What a request asks for
Doings == {"command", "switch", "login", "logout", "complete", "bootstrap", "destroy"}

ASSUME AuthorityAssumption ==
  /\ Browser \cap Device = {}
  /\ None \notin User \cup Tenant \cup Session \cup Provider \cup Browser \cup Device
  /\ None \notin Roles \cup Permissions \cup Doings \cup {"yes", "no"}
  /\ None \notin SessionRow \cup Statement \cup Answers
  /\ Demo \in User /\ RolesInPlay \subseteq Roles /\ Changes \in Nat /\ Concurrent \in Nat
  /\ Ways \subseteq (Tenant \cup {None}) \X (Tenant \cup {None})
  /\ Asked \subseteq Permissions /\ Said \subseteq Answers
  /\ Memberships \subseteq [User -> [Tenant -> RolesInPlay \cup {None}]]
  /\ Deployments \subseteq Deployment

VARIABLES
  deployment,
  role,     \* the active memberships: a role or None
  session,  \* the sessions stored
  used,     \* ids of sessions there have been
  jar,      \* the cookies of the browsers
  token,    \* the tokens of the devices
  request,
  settled,  \* history: the tenant a browser was last told it is in, where
            \* no two requests that change it have crossed
  changes   \* roles changed and sessions expired

vars == <<deployment, role, session, used, jar, token, request, settled, changes>>

Blank == [pc |-> "unsent", from |-> None, do |-> None, arg |-> None, sid |-> None,
          cookie |-> None, header |-> None, host |-> None, user |-> None, tenant |-> None,
          context |-> None, seen |-> None, dead |-> FALSE, after |-> None, alone |-> FALSE,
          answers |-> None, via |-> None]

\* How far a request is
Stages == {"unsent", "sent", "identified", "hooked", "checked", "loaded", "exchanged",
           "signed", "stored", "answer", "conflict", "acted", "ended"}

Maybe(S) == S \cup {None}

\* A request under way: what it carries, what the hooks and its handler have
\* come to know, and the history `dead`, `after` and `alone`.
RequestRow ==
  [pc : Stages, from : Maybe(Browser \cup Device), do : Maybe(Doings),
   arg : Maybe(Permissions \cup Tenant \cup User), sid : Maybe(Session),
   cookie : Maybe(Tenant), header : Maybe(Tenant), host : Maybe(Tenant),
   user : Maybe(User), tenant : Maybe(Tenant), context : Maybe(Tenant), seen : Maybe(Roles),
   dead : BOOLEAN, after : Maybe(Tenant), alone : BOOLEAN,
   answers : Maybe(Answers), via : Maybe(Provider \X Uri)]

TypeOK ==
  /\ deployment \in Deployments
  /\ role \in [User -> [Tenant -> RolesInPlay \cup {None}]]
  /\ session \in [Session -> SessionRow \cup {None}] /\ used \subseteq Session
  /\ jar \in [Browser -> [sid : Session \cup {None}, tenant : Tenant \cup {None}]]
  /\ token \in [Device -> Session \cup {None}]
  /\ settled \in [Browser -> Tenant \cup {None}] /\ changes \in 0 .. Changes
  /\ request \in [Request -> RequestRow]

\* The clients of a deployment that are looked at
Looked == IF deployment.mobile THEN Device ELSE Browser
Nothing == [sid |-> None, tenant |-> None]

\* At first everyone is signed out, or a client is signed in and in a tenant
\* of its user.
Init ==
  /\ deployment \in Deployments /\ role \in Memberships
  /\ request = [r \in Request |-> Blank] /\ changes = 0
  /\ \/ /\ session = [s \in Session |-> None] /\ used = {}
        /\ jar = [b \in Browser |-> Nothing]
        /\ token = [d \in Device |-> None] /\ settled = [b \in Browser |-> None]
     \/ \E c \in Looked, s \in Session, u \in User, t \in Tenant :
          /\ role[u][t] # None /\ used = {s}
          /\ session = [o \in Session |-> IF o = s THEN [user |-> u, tenant |-> t] ELSE None]
          /\ jar = [b \in Browser |-> IF b = c THEN [sid |-> s, tenant |-> t] ELSE Nothing]
          /\ token = [d \in Device |-> IF d = c THEN s ELSE None]
          /\ settled = [b \in Browser |-> IF b = c THEN t ELSE None]

Ended == {"acted", "ended"}
InFlight(r) == request[r].pc \notin Ended \cup {"unsent"}
Unused == {s \in Session : s \notin used}
NewSession == CHOOSE s \in Unused : TRUE
MovesTenant(do) == do \in {"switch", "login", "logout"}

-----------------------------------------------------------------------------
(* Requests are sent with the cookies or the token of the moment.          *)

Sent(c, do, arg, way) ==
  LET sid == IF c \in Browser THEN jar[c].sid ELSE token[c] IN
  [pc |-> "sent", from |-> c, do |-> do, arg |-> arg, sid |-> sid,
   cookie |-> IF c \in Browser THEN jar[c].tenant ELSE None,
   header |-> way[1], host |-> way[2], user |-> None, tenant |-> None, context |-> None,
   seen |-> None, dead |-> sid # None /\ session[sid] = None,
   after |-> IF c \in Browser /\ do = "command" THEN settled[c] ELSE None,
   alone |-> MovesTenant(do) /\ \A o \in Request :
     request[o].from = c /\ InFlight(o) => ~MovesTenant(request[o].do),
   answers |-> None, via |-> None]

Send(r, c, do, arg) ==
  /\ request[r].pc = "unsent" /\ Cardinality({o \in Request : InFlight(o)}) < Concurrent
  /\ \E way \in Ways :
       request' = [q \in Request |->
         IF q = r THEN Sent(c, do, arg, way)
         ELSE IF MovesTenant(do) /\ request[q].from = c
              THEN [request[q] EXCEPT !.after = None, !.alone = FALSE] ELSE request[q]]
  /\ settled' = IF MovesTenant(do) THEN [settled EXCEPT ![c] = None] ELSE settled
  /\ UNCHANGED <<deployment, role, session, used, jar, token, changes>>

SendCommand(r) == \E c \in Looked, p \in Asked : Send(r, c, "command", p)
SendSwitch(r) == \E b \in Looked \cap Browser, t \in Tenant : Send(r, b, "switch", t)
SendLogin(r) == \E b \in Looked \cap Browser, u \in User : Send(r, b, "login", u)
SendLogout(r) == \E b \in Looked \cap Browser : Send(r, b, "logout", None)
SendMobile(r) ==
  \E d \in Looked \cap Device :
    \/ Send(r, d, "complete", None)
    \/ token[d] # None /\ \E do \in {"bootstrap", "destroy"} : Send(r, d, do, None)

Step(r, to, new) ==
  /\ request' = [request EXCEPT ![r] = [(IF to \in Ended THEN Blank ELSE new) EXCEPT !.pc = to]]
  /\ UNCHANGED <<deployment, jar, token, settled>>

-----------------------------------------------------------------------------
(* The hooks                                                               *)

\* resolveTenant: the header where it is trusted, the cookie of the switch,
\* the host, which at the root may be configured to name a tenant
ResolveTenant(q) ==
  IF deployment.trusted /\ q.header # None THEN q.header
  ELSE IF q.cookie # None THEN q.cookie ELSE q.host

\* Mutant: a request whose token is not live goes on without a user.
IdentifyLeniently(r) ==
  LET q == request[r]
      row == IF q.sid = None THEN None ELSE session[q.sid] IN
  /\ q.pc = "sent" /\ q.do \notin {"login", "complete"}
  /\ IF row = None THEN Step(r, "identified", [q EXCEPT !.context = ResolveTenant(q)])
     ELSE Step(r, "identified", [q EXCEPT !.user = row.user, !.tenant = row.tenant])
  /\ UNCHANGED <<role, session, used, changes>>

\* tenancyHandle, sessionHandle and bearerSessionHandle: the tenant resolved is
\* entered; a live session gives the user, and a browser's enters its tenant,
\* inside the other or not as the library has it; a token that is not live is
\* refused.
Identify(r) ==
  LET q == [request[r] EXCEPT !.cookie = None, !.header = None, !.host = None,
                              !.after = IF deployment.trusted /\ request[r].header # None
                                        THEN None ELSE @]
      row == IF q.sid = None THEN None ELSE session[q.sid]
      resolved == ResolveTenant(request[r]) IN
  /\ q.pc = "sent" /\ q.do \notin {"login", "complete"}
  /\ CASE row # None ->
            Step(r, "identified",
                 [q EXCEPT !.user = row.user, !.tenant = row.tenant,
                           !.context = IF q.from \in Browser /\ (deployment.inner \/ resolved = None)
                                       THEN row.tenant ELSE resolved])
       [] row = None /\ q.from \in Device /\ q.sid # None -> Step(r, "ended", q)
       [] OTHER -> Step(r, "identified", [q EXCEPT !.context = resolved])
  /\ UNCHANGED <<role, session, used, changes>>

\* resolveRequestIdentity
Identity(user) == IF user = None /\ deployment.fallback THEN Demo ELSE user

\* findMembershipRows, the one of the tenant
RoleOf(user, tenant) == IF user = None \/ tenant = None THEN None ELSE role[user][tenant]

\* reconcileTenantLocals: the active context decides on the tenant; the
\* membership found is kept in the request.
Reconcile(r) ==
  LET q == request[r]
      tenant == IF q.context # None THEN q.context ELSE q.tenant
      found == RoleOf(Identity(q.user), tenant) IN
  /\ q.pc = "identified"
  /\ Step(r, "hooked",
          [q EXCEPT !.tenant = tenant, !.seen = found,
                    !.user = IF found # None THEN Identity(q.user) ELSE q.user])
  /\ UNCHANGED <<role, session, used, changes>>

-----------------------------------------------------------------------------
(* Commands                                                                *)

\* Mutant: the membership that the hook found is trusted.
RequireSeen(r) ==
  LET q == request[r] IN
  /\ q.pc = "hooked" /\ q.do = "command"
  /\ IF q.arg \in Grants(q.seen) THEN Step(r, "checked", q) ELSE Step(r, "ended", q)
  /\ UNCHANGED <<role, session, used, changes>>

\* requirePermission, which reads the membership again
RequirePermission(r) ==
  LET q == request[r]
      user == Identity(q.user) IN
  /\ q.pc = "hooked" /\ q.do = "command"
  /\ IF q.arg \in Grants(RoleOf(user, q.tenant))
     THEN Step(r, "checked", [q EXCEPT !.user = user]) ELSE Step(r, "ended", q)
  /\ UNCHANGED <<role, session, used, changes>>

\* withActiveTenant: an active context must be the command's tenant.
Act(r) ==
  LET q == request[r] IN
  /\ q.pc = "checked" /\ q.do \in {"command", "bootstrap"}
  /\ IF q.context \in {None, q.tenant} THEN Step(r, "acted", q) ELSE Step(r, "ended", q)
  /\ UNCHANGED <<role, session, used, changes>>

-----------------------------------------------------------------------------
(* Sessions of browsers                                                    *)

\* requireTenantMembership of the tenant asked for
CheckSwitch(r) ==
  LET q == request[r] IN
  /\ q.pc = "hooked" /\ q.do = "switch"
  /\ IF RoleOf(Identity(q.user), q.arg) # None THEN Step(r, "checked", q) ELSE Step(r, "ended", q)
  /\ UNCHANGED <<role, session, used, changes>>

\* Mutant: only the cookie is switched.
SwitchCookieOnly(r) ==
  /\ request[r].pc = "checked" /\ request[r].do = "switch"
  /\ Step(r, "answer", request[r])
  /\ UNCHANGED <<role, session, used, changes>>

\* switchSessionTenant, where the request has a session; if that is gone the
\* answer is 409, and has set the cookie all the same.
SwitchSession(r) ==
  LET q == request[r] IN
  /\ q.pc = "checked" /\ q.do = "switch"
  /\ \/ /\ q.sid # None /\ q.user # None /\ session[q.sid] # None
        /\ session' = [session EXCEPT ![q.sid].tenant = q.arg]
        /\ Step(r, "answer", q)
     \/ /\ q.sid # None /\ q.user # None /\ session[q.sid] = None
        /\ Step(r, "conflict", q) /\ UNCHANGED session
     \/ /\ q.sid = None \/ q.user = None
        /\ Step(r, "answer", q) /\ UNCHANGED session
  /\ UNCHANGED <<role, used, changes>>

\* startAccountSession for a user and a tenant of theirs
Login(r) ==
  LET q == request[r] IN
  /\ q.pc = "sent" /\ q.do = "login" /\ Unused # {}
  /\ \E t \in Tenant :
       /\ role[q.arg][t] # None
       /\ session' = [session EXCEPT ![NewSession] = [user |-> q.arg, tenant |-> t]]
       /\ used' = used \cup {NewSession}
       /\ Step(r, "answer", [q EXCEPT !.tenant = t, !.sid = NewSession])
  /\ UNCHANGED <<role, changes>>

\* clearAccountSession, and DELETE of the mobile session
Destroy(r) ==
  LET q == request[r] IN
  /\ q.pc = "hooked" /\ q.do \in {"logout", "destroy"}
  /\ session' = IF q.sid = None THEN session ELSE [session EXCEPT ![q.sid] = None]
  /\ Step(r, "answer", q)
  /\ UNCHANGED <<role, used, changes>>

\* The answer arrives, with its cookies or the token.
Answer(r) ==
  LET q == request[r]
      told == IF q.pc = "conflict" \/ q.do = "logout" THEN None
              ELSE IF q.do = "switch" THEN q.arg ELSE q.tenant
  IN
  /\ q.pc \in {"answer", "conflict"}
  /\ request' = [request EXCEPT ![r] = [Blank EXCEPT !.pc = "ended"]]
  /\ IF q.from \in Browser
     THEN /\ jar' = [jar EXCEPT ![q.from] =
               CASE q.do = "logout" -> Nothing
                 [] q.do = "login" -> [sid |-> q.sid, tenant |-> q.tenant]
                 [] OTHER -> [@ EXCEPT !.tenant = q.arg]]
          /\ settled' = [settled EXCEPT ![q.from] = IF q.alone THEN told ELSE None]
          /\ UNCHANGED token
     ELSE /\ token' = [token EXCEPT ![q.from] = IF q.do = "complete" THEN q.sid ELSE None]
          /\ UNCHANGED <<jar, settled>>
  /\ UNCHANGED <<deployment, role, session, used, changes>>

-----------------------------------------------------------------------------
(* The mobile application                                                  *)

\* Mutant: the claims need not agree with the profile.
EmailByEither(profile, claims) ==
  IF profile # None /\ profile.verified = "yes" THEN profile.email
  ELSE IF claims # None /\ claims.verified = "yes" THEN claims.email ELSE None

\* resolveExternalIdentity: the address of the profile if that is verified,
\* else of the claims, if they agree with a profile that does not say.
VerifiedEmail(profile, claims) ==
  LET said == IF profile = None THEN None ELSE profile.email IN
  IF said # None /\ profile.verified # None
  THEN IF profile.verified = "yes" THEN said ELSE None
  ELSE IF claims # None /\ claims.verified = "yes" /\ said \in {None, claims.email}
       THEN claims.email ELSE None

\* resolveProvider: no id twice; the one asked for, or the default, or the first
Resolved(asked) ==
  LET list == deployment.list
      id == IF asked # None THEN asked
            ELSE IF deployment.default # None THEN deployment.default ELSE list[1]
  IN IF Cardinality({list[i] : i \in DOMAIN list}) = Len(list) /\ \E i \in DOMAIN list : list[i] = id
     THEN id ELSE None

\* normalizeRedirectUri: the global list and the provider's
Allowed(provider) == deployment.allowed[None] \cup deployment.allowed[provider]

\* completeMobileAuth: the code is exchanged, and the provider answers.
Exchange(r) ==
  LET q == request[r] IN
  /\ q.pc = "sent" /\ q.do = "complete"
  /\ \E asked \in Provider \cup {None}, uri \in Uri, said \in Said :
       LET provider == Resolved(asked)
           email == VerifiedEmail(said.profile, said.claims) IN
       IF provider # None /\ uri \in Allowed(provider) /\ email # None
       THEN Step(r, "exchanged", [q EXCEPT !.user = email, !.answers = said,
                                          !.via = <<provider, uri>>])
       ELSE Step(r, "ended", q)
  /\ UNCHANGED <<role, session, used, changes>>

\* signInWithEmail finds the account and a tenant of it, or refuses.
SignIn(r) ==
  LET q == [request[r] EXCEPT !.answers = None, !.via = None] IN
  /\ q.pc = "exchanged"
  /\ \E t \in Tenant : IF role[q.user][t] # None THEN Step(r, "signed", [q EXCEPT !.tenant = t])
                       ELSE Step(r, "ended", q)
  /\ UNCHANGED <<role, session, used, changes>>

\* createMobileSession
Store(r) ==
  LET q == request[r] IN
  /\ q.pc = "signed" /\ Unused # {}
  /\ session' = [session EXCEPT ![NewSession] = [user |-> q.user, tenant |-> q.tenant]]
  /\ used' = used \cup {NewSession}
  /\ Step(r, "stored", [q EXCEPT !.sid = NewSession])
  /\ UNCHANGED <<role, changes>>

\* buildMobileAuthSession: no member any more is refused, and the session stays.
CheckStored(r) ==
  LET q == request[r] IN
  /\ q.pc = "stored"
  /\ IF RoleOf(q.user, q.tenant) # None THEN Step(r, "answer", q) ELSE Step(r, "ended", q)
  /\ UNCHANGED <<role, session, used, changes>>

\* getMobileSessionBootstrap loads the session a second time, and goes by the
\* tenant of the session.
LoadAgain(r) ==
  LET q == request[r] IN
  /\ q.pc = "hooked" /\ q.do = "bootstrap"
  /\ IF session[q.sid] = None THEN Step(r, "ended", q)
     ELSE Step(r, "loaded", [q EXCEPT !.user = session[q.sid].user,
                                      !.tenant = session[q.sid].tenant])
  /\ UNCHANGED <<role, session, used, changes>>

CheckLoaded(r) ==
  LET q == request[r] IN
  /\ q.pc = "loaded"
  /\ IF RoleOf(q.user, q.tenant) # None THEN Step(r, "checked", q) ELSE Step(r, "ended", q)
  /\ UNCHANGED <<role, session, used, changes>>

-----------------------------------------------------------------------------
(* What else happens                                                       *)

ChangeRole ==
  /\ changes < Changes /\ changes' = changes + 1
  /\ \E u \in User, t \in Tenant, new \in RolesInPlay \cup {None} :
       new # role[u][t] /\ role' = [role EXCEPT ![u][t] = new]
  /\ UNCHANGED <<deployment, session, used, jar, token, request, settled>>

Expire ==
  /\ changes < Changes /\ changes' = changes + 1
  /\ \E s \in Session : session[s] # None /\ session' = [session EXCEPT ![s] = None]
  /\ UNCHANGED <<deployment, role, used, jar, token, request, settled>>

-----------------------------------------------------------------------------
Next ==
  \/ \E r \in Request :
       \/ SendCommand(r) \/ SendSwitch(r) \/ SendLogin(r) \/ SendLogout(r) \/ SendMobile(r)
       \/ Identify(r) \/ Reconcile(r) \/ RequirePermission(r) \/ Act(r)
       \/ CheckSwitch(r) \/ SwitchSession(r) \/ Login(r) \/ Destroy(r) \/ Answer(r)
       \/ Exchange(r) \/ SignIn(r) \/ Store(r) \/ CheckStored(r)
       \/ LoadAgain(r) \/ CheckLoaded(r)
  \/ ChangeRole
  \/ Expire

Spec == Init /\ [][Next]_vars

-----------------------------------------------------------------------------
(* Properties                                                              *)

Acts(r) == request[r].pc # "acted" /\ request'[r].pc = "acted"

\* A command, the bootstrap of a device and the answer to its sign-in go
\* ahead only under a membership that is active when it is looked up in the
\* handler, with a role that grants what the command asks for: what a hook has
\* found before, or the session was made for, does not count.  And a request
\* that carries a session which was gone before it was sent acts as nobody:
\* with a cookie at most as the demo's owner, where the deployment has every
\* visitor be that, and with a token not even so.
NothingStaleActs ==
  [][\A r \in Request :
       LET q == request'[r] IN
       request[r].pc # q.pc =>
         /\ q.pc = "checked" /\ q.do = "command" => q.arg \in Grants(RoleOf(q.user, q.tenant))
         /\ <<q.do, q.pc>> \in {<<"bootstrap", "checked">>, <<"complete", "answer">>} =>
              RoleOf(q.user, q.tenant) # None
         /\ Acts(r) /\ request[r].dead =>
              request[r].from \in Browser /\ deployment.fallback /\ request[r].user = Demo]_vars

\* No command acts in the context of another tenant than the one its user was
\* checked for; and once a browser has been told which tenant it is in, its
\* commands act for that tenant, through cookie and session alike, until it
\* switches, signs in or out again, unless a trusted header says otherwise.
TenantIsRight ==
  [][\A r \in Request : Acts(r) =>
       /\ request[r].context \in {None, request[r].tenant}
       /\ request[r].after \in {None, request[r].tenant}]_vars

\* A device is signed in only to an address that the provider has declared
\* verified, which nothing else it has said contradicts, and only through a
\* redirect allowed to that very provider, in a configuration that names each
\* provider once.
SignInIsVouched ==
  \A r \in Request :
    LET q == request[r]
        said == {q.answers.profile, q.answers.claims} \ {None} IN
    q.pc = "exchanged" =>
      /\ \E a \in said : a.email = q.user /\ a.verified = "yes"
      /\ q.answers.profile # None /\ q.answers.profile.email # None =>
           q.answers.profile.email = q.user /\ q.answers.profile.verified # "no"
      /\ q.via[2] \in deployment.allowed[None] \cup deployment.allowed[q.via[1]]
      /\ Cardinality({i \in DOMAIN deployment.list : deployment.list[i] = q.via[1]}) = 1
=============================================================================
