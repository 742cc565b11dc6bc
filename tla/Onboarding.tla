----------------------------- MODULE Onboarding -----------------------------
(***************************************************************************)
(* How people and workspaces come to be: e-mail links that sign in or found*)
(* a workspace, tenant-owner invitations, member invitations, graduation of*)
(* access requests, and the global Person every user is bound to           *)
(* (accounts.ts, invitations.ts, access-requests.ts and                    *)
(* profile-identity-core.ts of apps/web, invitations.ts of app-objects).   *)
(*                                                                         *)
(* A flow is one request of a visitor or an operator.  Founding a workspace*)
(* is one transaction of several statements: what it writes shows at its   *)
(* commit, and a statement that meets a key an open transaction has written*)
(* waits for that transaction.  The database is external: PostgreSQL at    *)
(* READ COMMITTED, where upsert is INSERT .. ON CONFLICT DO UPDATE on the  *)
(* named columns, keeps the id of the row it meets, and where memberships  *)
(* reference existing users and tenants.                                   *)
(***************************************************************************)
EXTENDS Naturals

CONSTANTS
  Email,    \* normalised addresses
  Base,     \* slugs of the workspace names visitors choose
  Tries,    \* slugs tried for one name (20 in the code)
  Flow,     \* requests; the ids a request generates are named after it
  Invite,   \* tenant-owner invitations
  Kinds,    \* which flows are started
  None

ASSUME OnboardingAssumption ==
  /\ Tries \in Nat \ {0}
  /\ None \notin Flow \cup Email \cup Base \cup Invite
  /\ Kinds \subseteq {"link", "invited", "member", "graduate", "revoke", "crash"}

VARIABLES
  user,         \* users by e-mail key
  person,       \* addresses that have a global Person
  tenant,       \* tenants by slug
  member,       \* active memberships
  subscription, \* the subscription of each tenant id
  invitation,   \* invitation rows
  expired,      \* invitations whose expiresAt has passed
  request,      \* access requests, the newest of each address
  public,       \* the signup access mode is "public"
  flow          \* the requests under way

tables == <<user, person, tenant, member, subscription, invitation>>
vars == <<tables, expired, request, public, flow>>

Slug == Base \X (1 .. Tries)
InviteRole == {"admin", "member"}
Role == InviteRole \cup {"owner"}

\* framework: made by AccessRequestService, under a slug that is not ours
UserRow == [id : Flow, profile : BOOLEAN, framework : BOOLEAN]
TenantRow == [id : Flow, name : Flow]
Membership == [user : Flow, tenant : Flow, role : Role]
InvitationRow == [email : Email, status : {"pending", "accepted", "revoked"},
                  by : Flow \cup {None}]

\* what a key without a row has is no row
ASSUME RowAssumption == None \notin UserRow \cup TenantRow \cup InvitationRow

Ends == {"founded", "signedin", "enrolled", "graduated", "revoked",
         "refused", "failed"}
HoldsEmail == {"redeem", "commit"}
HoldsSlug == {"user"} \cup HoldsEmail
Steps == {"linked", "validate", "found", "slug", "tenant", "signin", "session",
          "create", "profile", "enrol", "grant", "revoke"} \cup HoldsSlug

FlowState ==
  [pc : {"idle"} \cup Steps \cup Ends,
   email : Email \cup {None},
   base : Base \cup {None},
   slug : Slug \cup {None},
   met : BOOLEAN,                       \* the tenant upsert met a row
   invite : Invite \cup {None},
   read : InvitationRow \cup {None},    \* the invitation as it was read
   id : Flow \cup {None},               \* the user a member invitation is for
   tenant : Flow \cup {None},           \* the tenant it is into
   role : Role,
   held : BOOLEAN]                      \* a membership was found

Idle == [pc |-> "idle", email |-> None, base |-> None, slug |-> None,
         met |-> FALSE, invite |-> None, read |-> None, id |-> None,
         tenant |-> None, role |-> "owner", held |-> FALSE]

TypeOK ==
  /\ user \in [Email -> UserRow \cup {None}]
  /\ person \subseteq Email
  /\ tenant \in [Slug -> TenantRow \cup {None}]
  /\ member \subseteq Membership
  /\ subscription \in [Flow -> {"none", "starter", "paid"}]
  /\ invitation \in [Invite -> InvitationRow \cup {None}]
  /\ expired \subseteq Invite
  /\ request \in [Email -> {"none", "open", "declined", "graduated"}]
  /\ public \in BOOLEAN
  /\ flow \in [Flow -> FlowState]

-----------------------------------------------------------------------------
(* Locks of open transactions.                                             *)

EmailFree(f, e) ==
  \A g \in Flow \ {f} : flow[g].pc \in HoldsEmail => flow[g].email # e

(* Mutant: a transaction that failed is never rolled back.                 *)
LeakedSlugFree(f, s) ==
  \A g \in Flow \ {f} :
    flow[g].pc \in HoldsSlug \cup {"failed"} => flow[g].slug # s
SlugFree(f, s) ==
  \A g \in Flow \ {f} : flow[g].pc \in HoldsSlug => flow[g].slug # s

Goto(f, pc) == flow' = [flow EXCEPT ![f].pc = pc]
At(f, pc) == flow[f].pc = pc

TenantIds == {tenant[s].id : s \in {s \in Slug : tenant[s] # None}}

\* createUniqueTenantSlug: the first slug of the name nobody has
TakenSlug(b, n) == tenant[<<b, n>>] # None
FirstFree(b, n) == ~TakenSlug(b, n) /\ \A k \in 1 .. n - 1 : TakenSlug(b, k)

-----------------------------------------------------------------------------
(* ensureUserProfileInTransaction.  reuse is set where control of the      *)
(* address has been proved.                                                *)

Bindable(e, reuse) ==
  \/ user[e] # None /\ user[e].profile
  \/ reuse
  \/ e \notin person

Bind(e) ==
  /\ user' = [user EXCEPT ![e].profile = TRUE]
  /\ person' = person \cup {e}

-----------------------------------------------------------------------------
(* requestEmailLink and verifyEmailLink.                                   *)

RequestLink(f, e, b) ==
  /\ "link" \in Kinds
  /\ At(f, "idle")
  /\ user[e] # None \/ public
  /\ flow' = [flow EXCEPT ![f].pc = "linked", ![f].email = e,
                          ![f].base = IF user[e] = None THEN b ELSE None]
  /\ UNCHANGED <<tables, expired, request, public>>

\* the token is used up and the intent holds; a link without one signs in
OpenLink(f) ==
  /\ At(f, "linked")
  /\ Goto(f, IF flow[f].base = None THEN "signin"
             ELSE IF public THEN "found" ELSE "refused")
  /\ UNCHANGED <<tables, expired, request, public>>

-----------------------------------------------------------------------------
(* Tenant-owner invitations.                                               *)

(* Mutant: inviting again reuses the row of an earlier invitation.         *)
ReuseInvitation(i, e) ==
  /\ {"invited", "revoke"} \cap Kinds # {}
  /\ invitation' = [invitation EXCEPT
       ![i] = [email |-> e, status |-> "pending", by |-> None]]
  /\ UNCHANGED <<user, person, tenant, member, subscription, expired, request,
                 public, flow>>

CreateInvitation(i, e) ==
  /\ {"invited", "revoke"} \cap Kinds # {}
  /\ invitation[i] = None
  /\ invitation' = [invitation EXCEPT
       ![i] = [email |-> e, status |-> "pending", by |-> None]]
  /\ UNCHANGED <<user, person, tenant, member, subscription, expired, request,
                 public, flow>>

(* Mutant: the address is not compared.                                    *)
AnyonesValid(i, e) ==
  /\ invitation[i] # None
  /\ invitation[i].status = "pending"
  /\ i \notin expired

\* validateStarterInvitationToken
Valid(i, e) ==
  /\ invitation[i] # None
  /\ invitation[i].status = "pending"
  /\ i \notin expired
  /\ invitation[i].email = e

SubmitInvitation(f, e, b, i) ==
  /\ "invited" \in Kinds
  /\ At(f, "idle")
  /\ invitation[i] # None
  /\ flow' = [flow EXCEPT ![f].pc = "validate", ![f].email = e,
                          ![f].base = b, ![f].invite = i]
  /\ UNCHANGED <<tables, expired, request, public>>

Validate(f) ==
  /\ At(f, "validate")
  /\ Goto(f, IF Valid(flow[f].invite, flow[f].email) THEN "found" ELSE "refused")
  /\ UNCHANGED <<tables, expired, request, public>>

\* revokeStarterInvitation reads the row and saves the whole of it
RevokeRead(f, i) ==
  /\ "revoke" \in Kinds
  /\ At(f, "idle")
  /\ invitation[i] # None
  /\ flow' = [flow EXCEPT ![f].pc = "revoke", ![f].invite = i,
                          ![f].read = invitation[i]]
  /\ UNCHANGED <<tables, expired, request, public>>

RevokeSave(f) ==
  /\ At(f, "revoke")
  /\ invitation' = [invitation EXCEPT
       ![flow[f].invite] = [flow[f].read EXCEPT !.status = "revoked"]]
  /\ Goto(f, "revoked")
  /\ UNCHANGED <<user, person, tenant, member, subscription, expired, request,
                 public>>

-----------------------------------------------------------------------------
(* onboardTenant, one transaction.                                         *)

\* an invited visitor who has an account is told to sign in, a verified one
\* is signed in
Conflict(f) == IF flow[f].invite = None THEN "signin" ELSE "refused"

FindUser(f) ==
  /\ At(f, "found")
  /\ Goto(f, IF user[flow[f].email] # None THEN Conflict(f) ELSE "slug")
  /\ UNCHANGED <<tables, expired, request, public>>

ChooseSlug(f) ==
  /\ At(f, "slug")
  /\ \/ \E n \in 1 .. Tries :
          /\ FirstFree(flow[f].base, n)
          /\ flow' = [flow EXCEPT ![f].pc = "tenant",
                                  ![f].slug = <<flow[f].base, n>>]
     \/ /\ \A n \in 1 .. Tries : TakenSlug(flow[f].base, n)
        /\ Goto(f, "refused")
  /\ UNCHANGED <<tables, expired, request, public>>

(* Mutant: nobody notices that the slug was taken in the meantime.         *)
BlindUpsertTenant(f) ==
  /\ At(f, "tenant")
  /\ SlugFree(f, flow[f].slug)
  /\ Goto(f, "user")
  /\ UNCHANGED <<tables, expired, request, public>>

UpsertTenant(f) ==
  /\ At(f, "tenant")
  /\ SlugFree(f, flow[f].slug)
  /\ flow' = [flow EXCEPT ![f].pc = "user",
                          ![f].met = tenant[flow[f].slug] # None]
  /\ UNCHANGED <<tables, expired, request, public>>

(* The user, its Person, the membership and the subscription.  A row under *)
(* our slug is met and updated, but then no user has the new id; a row of  *)
(* the framework under the same address is a unique violation.  A tenant   *)
(* that was met leaves the membership without the tenant it names.         *)
UpsertUser(f) ==
  LET e == flow[f].email IN
  /\ At(f, "user")
  /\ EmailFree(f, e)
  /\ Goto(f,
       IF user[e] # None
       THEN IF user[e].framework /\ flow[f].invite = None THEN "signin" ELSE "failed"
       ELSE IF ~Bindable(e, FALSE) \/ flow[f].met THEN "failed"
       ELSE IF flow[f].invite = None THEN "commit" ELSE "redeem")
  /\ UNCHANGED <<tables, expired, request, public>>

\* redeemStarterInvitationToken validates again and keeps the row it read
Redeem(f) ==
  LET i == flow[f].invite IN
  /\ At(f, "redeem")
  /\ IF Valid(i, flow[f].email)
     THEN flow' = [flow EXCEPT ![f].pc = "commit", ![f].read = invitation[i]]
     ELSE Goto(f, "refused")
  /\ UNCHANGED <<tables, expired, request, public>>

Founded(f) ==
  /\ tenant' = [tenant EXCEPT ![flow[f].slug] = [id |-> f, name |-> f]]
  /\ user' = [user EXCEPT
       ![flow[f].email] = [id |-> f, profile |-> TRUE, framework |-> FALSE]]
  /\ person' = person \cup {flow[f].email}
  /\ member' = member \cup {[user |-> f, tenant |-> f, role |-> "owner"]}
  /\ subscription' = [subscription EXCEPT ![f] = "starter"]

Redeemed(f) ==
  invitation' = IF flow[f].invite = None THEN invitation
                ELSE [invitation EXCEPT ![flow[f].invite] =
                       [flow[f].read EXCEPT !.status = "accepted", !.by = f]]

Commit(f) ==
  /\ At(f, "commit")
  /\ Founded(f)
  /\ Redeemed(f)
  /\ Goto(f, "founded")
  /\ UNCHANGED <<expired, request, public>>

(* Mutant: the statements run outside a transaction.                       *)
RollbackKeeps(f) ==
  /\ "crash" \in Kinds
  /\ flow[f].pc \in HoldsEmail
  /\ Founded(f)
  /\ Goto(f, "failed")
  /\ UNCHANGED <<invitation, expired, request, public>>

\* the process or its connection is lost: the transaction never happened
Rollback(f) ==
  /\ "crash" \in Kinds
  /\ flow[f].pc \in Steps
  /\ Goto(f, "failed")
  /\ UNCHANGED <<tables, expired, request, public>>

-----------------------------------------------------------------------------
(* signInWithEmail after a verified link: the profile is reconciled in a   *)
(* transaction of its own, before the membership is looked for.            *)

SignIn(f) ==
  LET e == flow[f].email IN
  /\ At(f, "signin")
  /\ EmailFree(f, e)
  /\ IF user[e] = None
     THEN Goto(f, "refused") /\ UNCHANGED <<user, person>>
     ELSE Bind(e) /\ Goto(f, "session")
  /\ UNCHANGED <<tenant, member, subscription, invitation, expired, request,
                 public>>

OpenSession(f) ==
  /\ At(f, "session")
  /\ Goto(f, IF \E m \in member : m.user = user[flow[f].email].id
             THEN "signedin" ELSE "refused")
  /\ UNCHANGED <<tables, expired, request, public>>

-----------------------------------------------------------------------------
(* inviteTenantMember: no transaction around its statements.               *)

InviteMember(f, e, t, r) ==
  /\ "member" \in Kinds
  /\ At(f, "idle")
  /\ t \in TenantIds
  /\ flow' = [flow EXCEPT
       ![f].pc = IF user[e] = None THEN "create" ELSE "profile",
       ![f].id = IF user[e] = None THEN f ELSE user[e].id,
       ![f].email = e, ![f].tenant = t, ![f].role = r]
  /\ UNCHANGED <<tables, expired, request, public>>

\* createInvitedUser answers the id it generated, whatever the upsert met
CreateInvited(f) ==
  LET e == flow[f].email IN
  /\ At(f, "create")
  /\ EmailFree(f, e)
  /\ IF user[e] # None /\ user[e].framework
     THEN Goto(f, "failed") /\ UNCHANGED user
     ELSE /\ user' = [user EXCEPT ![e] =
               IF user[e] = None
               THEN [id |-> f, profile |-> FALSE, framework |-> FALSE]
               ELSE [user[e] EXCEPT !.profile = FALSE]]
          /\ Goto(f, "profile")
  /\ UNCHANGED <<person, tenant, member, subscription, invitation, expired,
                 request, public>>

(* Mutant: a member invitation adopts whatever Person has the address.     *)
TrustingBindInvited(f) ==
  /\ At(f, "profile")
  /\ EmailFree(f, flow[f].email)
  /\ IF user[flow[f].email].id = flow[f].id
     THEN Bind(flow[f].email) /\ Goto(f, "enrol")
     ELSE Goto(f, "failed") /\ UNCHANGED <<user, person>>
  /\ UNCHANGED <<tenant, member, subscription, invitation, expired, request,
                 public>>

BindInvited(f) ==
  LET e == flow[f].email IN
  /\ At(f, "profile")
  /\ EmailFree(f, e)
  /\ IF user[e].id = flow[f].id /\ Bindable(e, FALSE)
     THEN Bind(e) /\ Goto(f, "enrol")
     ELSE Goto(f, "failed") /\ UNCHANGED <<user, person>>
  /\ UNCHANGED <<tenant, member, subscription, invitation, expired, request,
                 public>>

Enrolled(f) == {m \in member : m.user = flow[f].id /\ m.tenant = flow[f].tenant}

FindMembership(f) ==
  /\ At(f, "enrol")
  /\ flow' = [flow EXCEPT ![f].pc = "grant", ![f].held = Enrolled(f) # {}]
  /\ UNCHANGED <<tables, expired, request, public>>

\* a membership that was found, one of those there are, takes the new role;
\* else one is upserted by (role and user, tenant)
Grant(f) ==
  LET new == [user |-> flow[f].id, tenant |-> flow[f].tenant, role |-> flow[f].role]
  IN
  /\ At(f, "grant")
  /\ IF flow[f].held
     THEN \E m \in Enrolled(f) : member' = (member \ {m}) \cup {new}
     ELSE member' = member \cup {new}
  /\ Goto(f, "enrolled")
  /\ UNCHANGED <<user, person, tenant, subscription, invitation, expired,
                 request, public>>

-----------------------------------------------------------------------------
(* Access requests.  The transitions are AccessRequestService's (external);*)
(* the starter adds the subscription and the profile to its transaction.   *)

SubmitRequest(e) ==
  /\ "graduate" \in Kinds
  /\ request[e] \in {"none", "declined"}
  /\ request' = [request EXCEPT ![e] = "open"]
  /\ UNCHANGED <<tables, expired, public, flow>>

DeclineRequest(e) ==
  /\ request[e] = "open"
  /\ request' = [request EXCEPT ![e] = "declined"]
  /\ UNCHANGED <<tables, expired, public, flow>>

\* into: a name for a new tenant, an existing tenant's id, or None
Graduate(f, e, into) ==
  LET uid == IF user[e] = None THEN f ELSE user[e].id
      enrols(t, r) == member \cup {[user |-> uid, tenant |-> t, role |-> r]}
  IN
  /\ "graduate" \in Kinds
  /\ At(f, "idle")
  /\ request[e] = "open"
  /\ EmailFree(f, e)
  /\ IF ~Bindable(e, FALSE)
     THEN Goto(f, "failed") /\ UNCHANGED <<tables, request>>
     ELSE /\ user' = [user EXCEPT ![e] =
               [id |-> uid, profile |-> TRUE,
                framework |-> user[e] = None \/ user[e].framework]]
          /\ person' = person \cup {e}
          /\ \/ /\ into \in Base
                /\ \E n \in 1 .. Tries :
                     /\ FirstFree(into, n)
                     /\ SlugFree(f, <<into, n>>)
                     /\ tenant' = [tenant EXCEPT ![<<into, n>>] =
                                     [id |-> f, name |-> f]]
                /\ member' = enrols(f, "owner")
                /\ subscription' = [subscription EXCEPT ![f] = "starter"]
             \/ /\ into \in TenantIds
                /\ \E r \in InviteRole : member' = enrols(into, r)
                /\ UNCHANGED <<tenant, subscription>>
             \/ /\ into = None
                /\ UNCHANGED <<tenant, member, subscription>>
          /\ request' = [request EXCEPT ![e] = "graduated"]
          /\ Goto(f, "graduated")
          /\ UNCHANGED invitation
  /\ UNCHANGED <<expired, public>>

\* a request that has graduated answers the tenant of its user, and a name
\* in the call still seeds that tenant's subscription
GraduateAgain(f, e, into) ==
  /\ "graduate" \in Kinds
  /\ At(f, "idle")
  /\ request[e] = "graduated"
  /\ EmailFree(f, e)
  /\ IF ~Bindable(e, FALSE)
     THEN Goto(f, "failed") /\ UNCHANGED <<user, person, subscription>>
     ELSE /\ Bind(e)
          /\ \/ /\ into \in Base
                /\ \E m \in member :
                     /\ m.user = user[e].id
                     /\ subscription' = [subscription EXCEPT ![m.tenant] = "starter"]
             \/ /\ into \notin Base \/ \A m \in member : m.user # user[e].id
                /\ UNCHANGED subscription
          /\ Goto(f, "graduated")
  /\ UNCHANGED <<tenant, member, invitation, expired, request, public>>

-----------------------------------------------------------------------------
(* Around the flows.                                                       *)

\* setSignupAccessMode
SetMode ==
  /\ public' = ~public
  /\ UNCHANGED <<tables, expired, request, flow>>

Expire(i) ==
  /\ invitation[i] # None
  /\ i \notin expired
  /\ expired' = expired \cup {i}
  /\ UNCHANGED <<tables, request, public, flow>>

\* Stripe's webhooks (SubscriptionSync)
Upgrade(t) ==
  /\ subscription[t] = "starter"
  /\ subscription' = [subscription EXCEPT ![t] = "paid"]
  /\ UNCHANGED <<user, person, tenant, member, invitation, expired, request,
                 public, flow>>

\* backfillMissingUserProfiles, one transaction of the operator
Unbound == {e \in Email : user[e] # None /\ ~user[e].profile}
Backfill ==
  /\ Unbound # {}
  /\ \A e \in Unbound : \A f \in Flow : EmailFree(f, e)
  /\ user' = [e \in Email |->
       IF e \in Unbound THEN [user[e] EXCEPT !.profile = TRUE] ELSE user[e]]
  /\ person' = person \cup Unbound
  /\ UNCHANGED <<tenant, member, subscription, invitation, expired, request,
                 public, flow>>

-----------------------------------------------------------------------------
Init ==
  /\ user = [e \in Email |-> None]
  /\ person \in SUBSET Email          \* Persons other services have made
  /\ tenant = [s \in Slug |-> None]
  /\ member = {}
  /\ subscription = [t \in Flow |-> "none"]
  /\ invitation = [i \in Invite |-> None]
  /\ expired = {}
  /\ request = [e \in Email |-> "none"]
  /\ public \in BOOLEAN
  /\ flow = [f \in Flow |-> Idle]

Start(f) ==
  \E e \in Email :
    \/ \E b \in Base :
         \/ RequestLink(f, e, b)
         \/ \E i \in Invite : SubmitInvitation(f, e, b, i)
    \/ \E t \in Flow, r \in InviteRole : InviteMember(f, e, t, r)
    \/ \E into \in Base \cup Flow \cup {None} :
         Graduate(f, e, into) \/ GraduateAgain(f, e, into)

Step(f) ==
  \/ OpenLink(f) \/ Validate(f) \/ RevokeSave(f)
  \/ FindUser(f) \/ ChooseSlug(f) \/ UpsertTenant(f) \/ UpsertUser(f)
  \/ Redeem(f) \/ Commit(f)
  \/ SignIn(f) \/ OpenSession(f)
  \/ CreateInvited(f) \/ BindInvited(f) \/ FindMembership(f) \/ Grant(f)

Around ==
  \/ SetMode \/ Backfill
  \/ \E i \in Invite : Expire(i) \/ \E e \in Email : CreateInvitation(i, e)
  \/ \E t \in Flow : Upgrade(t)
  \/ \E e \in Email : SubmitRequest(e) \/ DeclineRequest(e)

Next ==
  \/ \E f \in Flow : Step(f) \/ Rollback(f) \/ Start(f)
  \/ \E f \in Flow, i \in Invite : RevokeRead(f, i)
  \/ Around

Spec == Init /\ [][Next]_vars

\* a request that is running is carried on
FairSpec == Spec /\ \A f \in Flow : WF_vars(Step(f))

-----------------------------------------------------------------------------
(* A founder whose request returned has what it was told: the user row, a  *)
(* Person, the tenant under its slug with its own name, a membership and a *)
(* subscription, whatever requests for the same slug or address ran beside *)
(* it.  In particular one address founds one workspace, however many links *)
(* and invitations it opens at once (accounts.ts onboardTenant).           *)
FoundersAreAtHome ==
  \A f \in Flow : At(f, "founded") =>
    /\ user[flow[f].email] # None /\ user[flow[f].email].id = f
    /\ flow[f].email \in person
    /\ tenant[flow[f].slug] = [id |-> f, name |-> f]
    /\ subscription[f] # "none"
    /\ \E m \in member : m.user = f /\ m.tenant = f

(* A sign-up that ends any other way leaves no row behind                  *)
(* (withDbTransaction around onboardTenant).                               *)
FailedSignUpLeavesNothing ==
  \A f \in Flow : flow[f].base # None /\ flow[f].pc \in Ends \ {"founded"} =>
    /\ f \notin TenantIds
    /\ \A e \in Email : user[e] # None => user[e].id # f
    /\ \A m \in member : m.user # f /\ m.tenant # f
    /\ subscription[f] = "none"

(* An invitation ends once, and for the one it was sent to: a workspace    *)
(* founded on one was founded by the invited address, and it cannot be     *)
(* used again; accepted or revoked it never becomes pending again, although*)
(* both operations save a row they read earlier (invitations.ts redeem and *)
(* revoke).                                                                *)
UsedInvitationIsSpent ==
  \A f \in Flow : At(f, "founded") /\ flow[f].invite # None =>
    /\ invitation[flow[f].invite].email = flow[f].email
    /\ invitation[flow[f].invite].status # "pending"
InvitationsEndOnce ==
  [][/\ UsedInvitationIsSpent'
     /\ \A i \in Invite :
          invitation[i] # None /\ invitation[i].status # "pending" =>
            invitation'[i].status # "pending"]_vars

(* A Person that was there first is bound to a user only after a verified  *)
(* link or by the operator's backfill (profile-identity-core.ts,           *)
(* reuseExistingProfile).                                                  *)
HasProfile(e) == user[e] # None /\ user[e].profile
OnlyVerifiedAdopts ==
  [][\A e \in person : HasProfile(e)' /\ ~HasProfile(e) =>
       \/ \E f \in Flow : At(f, "signin") /\ flow[f].email = e /\ At(f, "session")'
       \/ UNCHANGED flow]_vars

(* No request waits for ever: the locks of concurrent sign-ups, invitations*)
(* and sign-ins are taken in one order and given back.                     *)
EveryFlowEnds ==
  \A f \in Flow : flow[f].pc \in Steps \ {"linked"} ~> flow[f].pc \in Ends
=============================================================================
